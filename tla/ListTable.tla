------------------------------ MODULE ListTable ------------------------------
(***************************************************************************)
(* internal/cli/format: the table that `mcp-chain list` makes of the       *)
(* records List returns, which come in the order of a Go map: any.         *)
(* The widths of columns are left out.                                     *)
(***************************************************************************)
EXTENDS Integers, Sequences, FiniteSets

CONSTANTS
  Ids,                \* every id that a record may have
  IdBefore(_, _),     \* the order of strings
  ConditionMaxWidth,
  Second              \* clock ticks in a second

ASSUME TableAssumption == ConditionMaxWidth \in Nat /\ Second \in Nat \ {0}

ASSUME IdOrderAssumption ==
  \A a, b \in Ids :
    /\ IdBefore(a, b) => ~ IdBefore(b, a)
    /\ a # b => IdBefore(a, b) \/ IdBefore(b, a)
    /\ \A c \in Ids : IdBefore(a, b) /\ IdBefore(b, c) => IdBefore(a, c)

LessByTime(r, s) == r.created < s.created   \* mutant: ties are not broken

Less(r, s) ==
  IF r.created # s.created THEN r.created < s.created ELSE IdBefore(r.id, s.id)

\* sort.SliceStable: k comes to the place that as many records come before.
Ahead(records, j, k) ==
  \/ Less(records[j], records[k])
  \/ ~ Less(records[k], records[j]) /\ j < k

Sorted(records) ==
  [n \in DOMAIN records |->
     records[CHOOSE k \in DOMAIN records :
               Cardinality({j \in DOMAIN records : Ahead(records, j, k)}) = n - 1]]

Truncate(s, max) ==
  CASE Len(s) <= max           -> s
    [] Len(s) > max /\ max < 3 -> SubSeq(s, 1, max)
    [] OTHER                   -> SubSeq(s, 1, max - 3) \o <<".", ".", ".">>

\* A time as it is shown, in whole seconds.
Shown(time) == time \div Second

\* No time for "-".
Row(r) ==
  [id |-> r.id, status |-> r.status,
   condition |-> Truncate(r.condition, ConditionMaxWidth),
   created |-> Shown(r.created), resolved |-> {Shown(t) : t \in r.resolved}]

Table(records) == [n \in DOMAIN records |-> Row(Sorted(records)[n])]

\* The orders in which a range over a map may yield its records.
Orders(records) ==
  {f \in [1 .. Cardinality(records) -> records] :
     \A i, j \in DOMAIN f : f[i] = f[j] => i = j}

===============================================================================
