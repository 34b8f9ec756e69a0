------------------------------ MODULE MCSession ------------------------------
(***************************************************************************)
(* Session on a small instance: one serve process that may be restarted    *)
(* and another one, and commands, on a file whose counter passes the step  *)
(* from four to five hexadecimal digits: with a list of one word, counter  *)
(* 65535 is hex-ffff and counter 65536 is hex-10000.                       *)
(***************************************************************************)
EXTENDS Session, TLC

CONSTANTS t1, t2, t3, p1, p2, p3, A, B, w1, slug

ThreeThreads == {t1, t2, t3}
ThreeProcs   == {p1, p2, p3}
OneEach      == (t1 :> p1) @@ (t2 :> p2) @@ (t3 :> p3)
TwoServers   == {p1, p2}

\* The two servers, each with its thread, may change places.
Swap == {(t1 :> t2) @@ (t2 :> t1) @@ (p1 :> p2) @@ (p2 :> p1)}

OneWord   == <<w1>>
AllTokens == {A, B}
AllNames  == {w1, slug, HexId(65535)}
Slugs     == {slug}

NearWidth == {Saved([counter |-> 65535, records |-> NoRecords])}

Ask(op, tok, id, opts) == [op |-> op, tok |-> tok, id |-> id, opts |-> opts]

\* Registers across the step, and a slug that two sessions register and resolve,
\* and commands look at, force, purge, or refuse.
SessionMenu ==
  {Ask("register", A, NoId, {})}
  \cup {Ask(op, k, slug, {}) : op \in {"register_with_id", "resolve"}, k \in AllTokens}
  \cup {Ask("get", NoToken, slug, {}),
        Ask("resolve", NoToken, slug, {}),
        Ask("resolve", NoToken, slug, {"force"}),
        Ask("purge", NoToken, slug, {}),
        Ask("purge", NoToken, NoId, {})}

==============================================================================
