------------------------------- MODULE MCStore -------------------------------
(***************************************************************************)
(* Store on small instances: two processes, of which the first runs two    *)
(* goroutines, or three of one goroutine each; a list of one or two words, *)
(* so that ids soon pass to hexadecimal ones; menus that pick the calls a  *)
(* run is about.                                                           *)
(***************************************************************************)
EXTENDS Store, TLC

CONSTANTS t1, t2, t3, p1, p2, p3, A, B, w1, w2, slug, bad

TwoThreads   == {t1, t3}
ThreeThreads == {t1, t2, t3}

TwoProcs   == {p1, p2}
ThreeProcs == {p1, p2, p3}

OneEach     == [t \in TwoThreads |-> IF t = t1 THEN p1 ELSE p2]
TwoAndOne   == [t \in ThreeThreads |-> IF t = t3 THEN p2 ELSE p1]
AllDistinct == [t \in ThreeThreads |-> IF t = t1 THEN p1 ELSE IF t = t2 THEN p2 ELSE p3]

\* The two goroutines of p1 are interchangeable.
Siblings == Permutations({t1, t2})

OneWord  == <<w1>>
TwoWords == <<w1, w2>>

AllTokens == {A, B}
AllNames  == {w1, w2, slug, bad, HexId(1), HexId(2)}
GoodNames == AllNames \ {bad}

Ask(op, tok, id, opts) == [op |-> op, tok |-> tok, id |-> id, opts |-> opts]

Reg(tok)           == Ask("register", tok, NoId, {})
RegAs(tok, id)     == Ask("register_with_id", tok, id, {})
ResolveBy(tok, id) == Ask("resolve", tok, id, {})
ForceResolve(id)   == Ask("resolve", NoToken, id, {"force"})
Status1(id)        == Ask("get", NoToken, id, {})
ListAll            == Ask("list", NoToken, NoId, {})
PurgeId(id)        == Ask("purge", NoToken, id, {})
PurgeBy(opts)      == Ask("purge", NoToken, NoId, opts)

Rec(tok, status) == [owner |-> tok, status |-> status]

Absent  == [form |-> "absent", st |-> EmptyState]
Corrupt == [form |-> "corrupt", st |-> EmptyState]
Foreign == [form |-> "foreign", st |-> EmptyState]

\* Every form of the file; the state is one a slug registration leaves.
EveryForm ==
  {Absent, Corrupt, Foreign,
   Saved([counter |-> 0, records |-> slug :> Rec(B, "pending")])}

FreshOnly == {Absent}

\* Two goroutines and every kind of call, with every way to be refused.
EveryMenu ==
  {Reg(A), RegAs(A, slug), RegAs(A, bad), ResolveBy(A, slug), ForceResolve(w1),
   Status1(w1), ListAll, PurgeId(slug),
   PurgeBy({"all"}), PurgeBy({"resolved"}), PurgeBy({"all", "resolved"})}

\* Three goroutines, a missing and a damaged file, calls that race for one slug.
RefineMenu == {Reg(A), RegAs(B, slug), PurgeId(slug), Status1(slug)}

\* A writer and a reader for ever, both of which also fail; the counter stays.
ProgressMenu == {RegAs(A, slug), Status1(slug)}

Readable == {Absent, Corrupt}

ClashMenu == {Reg(A), RegAs(B, w1), ForceResolve(w1)}

==============================================================================
