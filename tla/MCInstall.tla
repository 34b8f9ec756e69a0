----------------------------- MODULE MCInstall -----------------------------
(***************************************************************************)
(* Installer on small instances: three wrappers, of plugins of version new *)
(* or one of version old, on disks where nothing, an older version or a    *)
(* half-finished installation may be.                                      *)
(***************************************************************************)
EXTENDS Installer, TLC

CONSTANTS p1, p2, p3, old, new

Three == {p1, p2, p3}
Two   == {p1, p2}

OldAndNew == {old, new}

AllNew(wrappers) == [p \in wrappers |-> new]

Setup(b, m, pins) == [bin |-> b, marker |-> m, pinned |-> pins]

\* Nothing; an older version; a binary moved but not marked; a marker emptied
\* but not written; a binary removed by hand.
AnySetup(pins) ==
  {Setup(Absent, NoVersion, pins), Setup(Whole(old), old, pins),
   Setup(Whole(new), old, pins), Setup(Whole(new), NoVersion, pins),
   Setup(Absent, new, pins)}

\* All plugins new, or one of them old.
ThreeSetups ==
  UNION {AnySetup(pins) :
           pins \in {AllNew(Three)} \cup {[AllNew(Three) EXCEPT ![p] = old] : p \in Three}}

TwoFromNothing == {Setup(Absent, NoVersion, AllNew(Two))}

OnlyCopies == {FALSE}

Symmetry == Permutations(Three)

=============================================================================
