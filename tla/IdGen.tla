-------------------------------- MODULE IdGen --------------------------------
(***************************************************************************)
(* internal/idgen: the deterministic map from the monotonic counter of     *)
(* state.json to the id of a chain entry.  The first Len(Words) counters   *)
(* yield the words of the embedded list, every later one a hexadecimal     *)
(* fallback.                                                               *)
(***************************************************************************)
EXTENDS WordList

CONSTANT Words   \* the parsed word list; words[i] of the code is Words[i + 1]

HexIdSaturated(n) ==   \* mutant: the number saturates at 16 bits
  [above |-> 0, four |-> IF n < Width THEN n ELSE Width - 1]

\* Sprintf("hex-%04x", n): the four low digits are zero-padded and the digits
\* above them, if any, are written in front: a minimum width, no truncation.
HexId(n) == [above |-> n \div Width, four |-> n % Width]

\* A list that parseAndValidate does not accept panics in init(), before
\* any state file is opened.
WordsAssumption == IsWordList(Words)

ASSUME WordListValid == WordsAssumption

\* The first fallback is HexId(1), hence the offset Len(Words) - 1.
Allocate(counter) ==
  IF counter < Len(Words)
  THEN Words[counter + 1]
  ELSE HexId(counter - (Len(Words) - 1))

=============================================================================
