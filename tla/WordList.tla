------------------------------ MODULE WordList ------------------------------
(***************************************************************************)
(* The embedded word list of internal/idgen, and what parseAndValidate     *)
(* makes of it.  Words are opaque values: their letters matter only for    *)
(* what it admits, and that no word is a hexadecimal fallback id.          *)
(***************************************************************************)
EXTENDS Naturals, Sequences

Width == 65536   \* the numbers that four hexadecimal digits show

FourDigits == 0 .. Width - 1

\* A fallback id: the number that its four low digits show, and the one above.
IsHexId(id) == id \in [above : Nat, four : FourDigits]

\* What id uniqueness rests on.
IsWordList(ws) ==
  /\ ws \in Seq({ws[i] : i \in DOMAIN ws})
  /\ \A i, j \in DOMAIN ws : ws[i] = ws[j] => i = j
  /\ \A i \in DOMAIN ws : ~ IsHexId(ws[i])

\* A line of the embedded text: whether it has a tab, the word after it, and how
\* that is spelt: with other characters than a-z and the hyphen, with hex- in
\* front, not at all, or well.  The line breaks at the end, which are cut off, are
\* left out.
Spellings == {"good", "bad", "hex", "empty"}

IsRaw(raw) ==
  /\ Len(raw) \in Nat \ {0} /\ DOMAIN raw = 1 .. Len(raw)
  /\ \A i \in DOMAIN raw :
       /\ raw[i].tab \in BOOLEAN /\ raw[i].spelling \in Spellings
       /\ IsHexId(raw[i].word) => raw[i].spelling \in {"bad", "hex"}

ValidRepeats(raw, size) ==   \* mutant: seen is not looked at
  /\ Len(raw) = size
  /\ \A i \in DOMAIN raw : raw[i].tab /\ raw[i].spelling = "good"

\* parseAndValidate does not panic.
Valid(raw, size) ==
  /\ Len(raw) = size
  /\ \A i \in DOMAIN raw : raw[i].tab /\ raw[i].spelling = "good"
  /\ \A i, j \in DOMAIN raw : raw[i].word = raw[j].word => i = j

Parsed(raw) == [i \in DOMAIN raw |-> raw[i].word]

=============================================================================
