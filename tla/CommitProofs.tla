----------------------------- MODULE CommitProofs -----------------------------
(***************************************************************************)
(* What a thread does to the system when it replaces state.json, for every *)
(* instance of Store: to the records of the others, and to the promised    *)
(* store, of which every step of the code's read-modify-write cycle is one *)
(* step or none.                                                           *)
(***************************************************************************)
EXTENDS StoreProofs

\* Only a thread that commits replaces the file, and it puts there the effect
\* of its call on the file as it is.
LEMMA CommitIs ==
  ASSUME IndInv, [Next]_vars, file' # file
  PROVE  \E t \in Threads :
           /\ Commits(t)
           /\ file'.st = Apply(file.st, call[t]).st
           /\ Apply(file.st, call[t]).res.err = "none"
           /\ call[t] \in Menu /\ Precheck(call[t]) = "none" /\ ~ ReadOnly(call[t])
           /\ IsState(file.st)
<1>1. PICK t \in Threads : Rename(t) \/ SaveFails(t)
  BY DEF Next, Proceed, vars, Invoke, Refuse, LockMutex, AcquireFlock, FlockFails,
         Load, LoadFails, RunClosure, WriteTemp, Unlock, UnlockMutex, Return, Crash
<1>2. /\ pc[t] = "rename" /\ pc' = [pc EXCEPT ![t] = "unlock"]
      /\ file' = Saved(buf[t])
  BY <1>1 DEF Rename, SaveFails, Step
<1>3. Commits(t)
  BY <1>2 DEF Commits, IndInv, TypeOK
<1>4. /\ buf[t] = Apply(file.st, call[t]).st
      /\ Apply(file.st, call[t]).res.err = "none"
  BY <1>2 DEF IndInv, CopiesOK
<1>5. call[t] \in Menu /\ Precheck(call[t]) = "none" /\ ~ ReadOnly(call[t])
  BY <1>2 DEF IndInv, CallOK, InCall, InMutex, InSection
<1>6. IsState(file.st)
  BY FileParts DEF IndInv, TypeOK
<1>7. file'.st = buf[t]
  BY <1>2 DEF Saved
<1>. QED
  BY <1>3, <1>4, <1>5, <1>6, <1>7

\* The calls that write, by kind.
LEMMA WriterKinds ==
  ASSUME NEW c \in Menu, ~ ReadOnly(c)
  PROVE  c.op \in {"register", "register_with_id", "resolve", "purge"}
BY MenuAssumption DEF ReadOnly, Calls, Ops

(***************************************************************************)
(* The theorems                                                            *)
(***************************************************************************)
\* A record disappears only by a purge that selects it as it is in the file.
THEOREM PurgesOnly == Spec => DeletedOnlyByPurge
<1>. DEFINE A == \A id \in DOMAIN Live \ DOMAIN Live' :
                   \E t \in Threads :
                     /\ Commits(t)
                     /\ call[t].op = "purge" /\ id \in Purged(file.st, call[t])
<1>1. IndInv /\ [Next]_vars => [A]_file
  <2>. SUFFICES ASSUME IndInv, [Next]_vars, file' # file,
                       NEW id \in DOMAIN Live \ DOMAIN Live'
                PROVE  \E t \in Threads :
                         /\ Commits(t)
                         /\ call[t].op = "purge" /\ id \in Purged(file.st, call[t])
    OBVIOUS
  <2>1. PICK t \in Threads :
          /\ Commits(t)
          /\ file'.st = Apply(file.st, call[t]).st
          /\ Apply(file.st, call[t]).res.err = "none"
          /\ call[t] \in Menu /\ ~ ReadOnly(call[t])
          /\ IsState(file.st)
    BY CommitIs
  <2>. DEFINE c == call[t]
  <2>2. id \in DOMAIN file.st.records /\ id \notin DOMAIN file'.st.records
    BY DEF Live
  <2>3. CASE c.op = "register"
    <3>1. file'.st.records = Put(file.st.records, Allocate(file.st.counter), NewRecord(c.tok))
      BY <2>1, <2>3, RegisterRecords DEF Apply
    <3>. QED
      BY <2>2, <3>1, PutFacts
  <2>4. CASE c.op = "register_with_id"
    <3>1. file'.st.records = Put(file.st.records, c.id, NewRecord(c.tok))
      BY <2>1, <2>4, RegisterWithIDRecords DEF Apply
    <3>. QED
      BY <2>2, <3>1, PutFacts
  <2>5. CASE c.op = "resolve"
    <3>1. file'.st.records
            = Put(file.st.records, c.id, [file.st.records[c.id] EXCEPT !.status = "resolved"])
      BY <2>1, <2>5, ResolveRecords DEF Apply
    <3>. QED
      BY <2>2, <3>1, PutFacts
  <2>6. CASE c.op = "purge"
    <3>1. file'.st.records
            = Keep(file.st.records, DOMAIN file.st.records \ Purged(file.st, c))
      BY <2>1, <2>6, PurgeRecords DEF Apply
    <3>2. id \in Purged(file.st, c)
      BY <2>2, <3>1, KeepFacts
    <3>. QED
      BY <2>1, <2>6, <3>2
  <2>. QED
    BY <2>1, <2>3, <2>4, <2>5, <2>6, WriterKinds
<1>. QED
  BY <1>1, IndInvHolds, PTL DEF Spec, DeletedOnlyByPurge

(***************************************************************************)
(* When slugs and allocated ids are kept apart                             *)
(***************************************************************************)
\* No caller registers a name that the counter yields, now or later, and the
\* file starts without one it has yet to reach.  The code does not see to this:
\* without it the next three properties are false.
SlugsApart ==
  /\ \A c \in Menu : c.op = "register_with_id" => \A n \in Nat : c.id # Allocate(n)
  /\ \A f \in InitFiles : \A id \in DOMAIN f.st.records, n \in Nat :
       id = Allocate(n) => n < f.st.counter

\* Every allocated id in the file is of a counter already passed.
Behind == \A id \in DOMAIN Live, n \in Nat : id = Allocate(n) => n < file.st.counter

LEMMA BehindStep ==
  ASSUME SlugsApart, IndInv, Behind, [Next]_vars
  PROVE  Behind'
<1>1. CASE file' = file
  BY <1>1 DEF Behind, Live
<1>2. CASE file' # file
  <2>1. PICK t \in Threads :
          /\ file'.st = Apply(file.st, call[t]).st
          /\ Apply(file.st, call[t]).res.err = "none"
          /\ call[t] \in Menu /\ Precheck(call[t]) = "none" /\ ~ ReadOnly(call[t])
          /\ IsState(file.st)
    BY <1>2, CommitIs
  <2>. DEFINE c == call[t]
  <2>2. file.st.counter \in Nat
    BY <2>1, StateParts
  <2>3. /\ c.op = "register" => file'.st.counter = file.st.counter + 1
        /\ c.op # "register" => file'.st.counter = file.st.counter
    BY <2>1, MenuWellFormed, ApplyTypes
  <2>. SUFFICES ASSUME NEW id \in DOMAIN file'.st.records, NEW n \in Nat, id = Allocate(n)
                PROVE  n < file'.st.counter
    BY DEF Behind, Live
  <2>4. CASE id \in DOMAIN file.st.records
    BY <2>2, <2>3, <2>4 DEF Behind, Live
  <2>5. CASE id \notin DOMAIN file.st.records /\ c.op = "register"
    <3>1. file'.st.records = Put(file.st.records, Allocate(file.st.counter), NewRecord(c.tok))
      BY <2>1, <2>5, RegisterRecords DEF Apply
    <3>2. id = Allocate(file.st.counter)
      BY <2>5, <3>1 DEF Put
    <3>3. n = file.st.counter
      BY <2>2, <3>2, AllocateInjective
    <3>. QED
      BY <2>2, <2>3, <2>5, <3>3
  <2>6. CASE id \notin DOMAIN file.st.records /\ c.op = "register_with_id"
    <3>1. file'.st.records = Put(file.st.records, c.id, NewRecord(c.tok))
      BY <2>1, <2>6, RegisterWithIDRecords DEF Apply
    <3>2. id = c.id
      BY <2>6, <3>1 DEF Put
    <3>. QED
      BY <2>1, <2>6, <3>2 DEF SlugsApart
  <2>7. CASE id \notin DOMAIN file.st.records /\ c.op = "resolve"
    <3>1. c.id \in DOMAIN file.st.records
          /\ file'.st.records
            = Put(file.st.records, c.id, [file.st.records[c.id] EXCEPT !.status = "resolved"])
      BY <2>1, <2>7, ResolveRecords DEF Apply
    <3>. QED
      BY <2>7, <3>1 DEF Put
  <2>8. CASE id \notin DOMAIN file.st.records /\ c.op = "purge"
    <3>1. file'.st.records
            = Keep(file.st.records, DOMAIN file.st.records \ Purged(file.st, c))
      BY <2>1, <2>8, PurgeRecords DEF Apply
    <3>. QED
      BY <2>8, <3>1, KeepFacts
  <2>. QED
    BY <2>1, <2>4, <2>5, <2>6, <2>7, <2>8, WriterKinds
<1>. QED
  BY <1>1, <1>2

LEMMA BehindHolds ==
  ASSUME SlugsApart
  PROVE  Spec => [](IndInv /\ Behind)
<1>1. Init => Behind
  BY DEF Init, SlugsApart, Behind, Live
<1>2. IndInv /\ Behind /\ [Next]_vars => Behind'
  BY BehindStep
<1>. QED
  BY <1>1, <1>2, IndInvHolds, PTL DEF Spec

\* A record that stays is as it was, or its owner or a forced call resolves it.
Untouched(id) == id \in DOMAIN Live' /\ Live'[id] = Live[id]

ResolvedBy(t, id) ==
  /\ Commits(t)
  /\ call[t].op = "resolve" /\ call[t].id = id
  /\ "force" \in call[t].opts \/ call[t].tok = Live[id].owner
  /\ Live[id].status # "resolved"
  /\ Live'[id] = [Live[id] EXCEPT !.status = "resolved"]

LEMMA RecordStep ==
  ASSUME IndInv, Behind, [Next]_vars, file' # file
  PROVE  \E t \in Threads :
           /\ Commits(t)
           /\ call[t].op = "register" => \A id \in DOMAIN Live : Untouched(id)
           /\ \A id \in Kept : Untouched(id) \/ ResolvedBy(t, id)
<1>1. PICK t \in Threads :
        /\ Commits(t)
        /\ file'.st = Apply(file.st, call[t]).st
        /\ Apply(file.st, call[t]).res.err = "none"
        /\ call[t] \in Menu /\ ~ ReadOnly(call[t])
        /\ IsState(file.st)
  BY CommitIs
<1>. DEFINE c == call[t]
<1>2. CASE c.op = "register"
  <2>1. file'.st.records = Put(file.st.records, Allocate(file.st.counter), NewRecord(c.tok))
    BY <1>1, <1>2, RegisterRecords DEF Apply
  <2>2. Allocate(file.st.counter) \notin DOMAIN file.st.records
    <3>1. file.st.counter \in Nat /\ ~ (file.st.counter < file.st.counter)
      BY <1>1, StateParts
    <3>. QED
      BY <3>1 DEF Behind, Live
  <2>3. \A id \in DOMAIN Live : Untouched(id)
    BY <2>1, <2>2, PutFacts DEF Live, Untouched
  <2>. QED
    BY <1>1, <2>3 DEF Kept
<1>3. CASE c.op = "register_with_id"
  <2>1. c.id \notin DOMAIN file.st.records
        /\ file'.st.records = Put(file.st.records, c.id, NewRecord(c.tok))
    BY <1>1, <1>3, RegisterWithIDRecords DEF Apply
  <2>2. \A id \in DOMAIN Live : Untouched(id)
    BY <2>1, PutFacts DEF Live, Untouched
  <2>. QED
    BY <1>1, <2>2 DEF Kept
<1>4. CASE c.op = "resolve"
  <2>1. /\ c.id \in DOMAIN file.st.records
        /\ file.st.records[c.id].status # "resolved"
        /\ "force" \in c.opts \/ file.st.records[c.id].owner = c.tok
        /\ file'.st.records
             = Put(file.st.records, c.id, [file.st.records[c.id] EXCEPT !.status = "resolved"])
    BY <1>1, <1>4, ResolveRecords DEF Apply
  <2>2. ResolvedBy(t, c.id)
    BY <1>1, <1>4, <2>1, PutFacts DEF Live, ResolvedBy
  <2>3. \A id \in DOMAIN Live : id # c.id => Untouched(id)
    BY <2>1, PutFacts DEF Live, Untouched
  <2>. QED
    BY <1>1, <1>4, <2>2, <2>3 DEF Kept
<1>5. CASE c.op = "purge"
  <2>1. file'.st.records
          = Keep(file.st.records, DOMAIN file.st.records \ Purged(file.st, c))
    BY <1>1, <1>5, PurgeRecords DEF Apply
  <2>2. \A id \in Kept : Untouched(id)
    BY <2>1, KeepFacts DEF Kept, Live, Untouched
  <2>. QED
    BY <1>1, <1>5, <2>2
<1>. QED
  BY <1>1, <1>2, <1>3, <1>4, <1>5, WriterKinds

\* A record keeps its owner, and once resolved stays resolved, if slugs and
\* allocated ids are kept apart.
THEOREM RecordsKept ==
  ASSUME SlugsApart
  PROVE  Spec => RecordsPersist
<1>. DEFINE A == \A id \in Kept :
                   /\ Live'[id].owner = Live[id].owner
                   /\ Live[id].status = "resolved" => Live'[id].status = "resolved"
<1>1. IndInv /\ Behind /\ [Next]_vars => [A]_file
  <2>. SUFFICES ASSUME IndInv, Behind, [Next]_vars, file' # file, NEW id \in Kept
                PROVE  /\ Live'[id].owner = Live[id].owner
                       /\ Live[id].status = "resolved" => Live'[id].status = "resolved"
    OBVIOUS
  <2>1. PICK t \in Threads : Untouched(id) \/ ResolvedBy(t, id)
    BY RecordStep
  <2>2. Live[id] \in Record
    BY FileParts, StateParts DEF Kept, Live, IndInv, TypeOK, IsRecords
  <2>. QED
    BY <2>1, <2>2 DEF Untouched, ResolvedBy, Record
<1>. QED
  BY <1>1, BehindHolds, PTL DEF Spec, RecordsPersist

\* A record changes its status only by a resolve with authority over it, if
\* slugs and allocated ids are kept apart.
THEOREM AuthorityNeeded ==
  ASSUME SlugsApart
  PROVE  Spec => ResolveAuthority
<1>. DEFINE A == \A id \in Kept :
                   Live[id].status # Live'[id].status =>
                     \E t \in Threads :
                       /\ Commits(t)
                       /\ call[t].op = "resolve" /\ call[t].id = id
                       /\ "force" \in call[t].opts \/ call[t].tok = Live[id].owner
<1>1. IndInv /\ Behind /\ [Next]_vars => [A]_file
  <2>. SUFFICES ASSUME IndInv, Behind, [Next]_vars, file' # file,
                       NEW id \in Kept, Live[id].status # Live'[id].status
                PROVE  \E t \in Threads :
                         /\ Commits(t)
                         /\ call[t].op = "resolve" /\ call[t].id = id
                         /\ "force" \in call[t].opts \/ call[t].tok = Live[id].owner
    OBVIOUS
  <2>1. PICK t \in Threads : Untouched(id) \/ ResolvedBy(t, id)
    BY RecordStep
  <2>. QED
    BY <2>1 DEF Untouched, ResolvedBy
<1>. QED
  BY <1>1, BehindHolds, PTL DEF Spec, ResolveAuthority

\* A register leaves every other record as it is, if slugs and allocated ids are
\* kept apart; module MCStore shows that it does not if they are not.
THEOREM RegisterIsPolite ==
  ASSUME SlugsApart
  PROVE  Spec => RegisterKeepsRecords
<1>. DEFINE A == \A t \in Threads :
                   Commits(t) /\ call[t].op = "register" =>
                     \A id \in DOMAIN Live : id \in DOMAIN Live' /\ Live'[id] = Live[id]
<1>1. IndInv /\ Behind /\ [Next]_vars => [A]_file
  <2>. SUFFICES ASSUME IndInv, Behind, [Next]_vars, file' # file,
                       NEW u \in Threads, Commits(u), call[u].op = "register",
                       NEW id \in DOMAIN Live
                PROVE  id \in DOMAIN Live' /\ Live'[id] = Live[id]
    OBVIOUS
  <2>1. PICK t \in Threads :
          /\ Commits(t)
          /\ call[t].op = "register" => \A x \in DOMAIN Live : Untouched(x)
    BY RecordStep
  <2>2. t = u
    BY <2>1 DEF Commits, IndInv, Exclusive, CallOK, InSection
  <2>. QED
    BY <2>1, <2>2 DEF Untouched
<1>. QED
  BY <1>1, BehindHolds, PTL DEF Spec, RegisterKeepsRecords

(***************************************************************************)
(* Store implements ChainSpec                                              *)
(*                                                                         *)
(* Promise! operators of the data are those of ChainState.                 *)
(***************************************************************************)
LEMMA SamePrecheck ==
  ASSUME NEW c
  PROVE  Promise!Precheck(c) = Precheck(c)
BY DEF Promise!Precheck, Precheck, Promise!PurgeTargets, PurgeTargets

LEMMA SameLoadError ==
  ASSUME NEW f
  PROVE  Promise!LoadError(f) = LoadError(f)
BY DEF Promise!LoadError, LoadError

LEMMA SameResults ==
  /\ Promise!Done = Done
  /\ Promise!NoCall = NoCall
  /\ \A e : Promise!Fail(e) = Fail(e)
  /\ \A st : Promise!Saved(st) = Saved(st)
  /\ \A c : Promise!ReadOnly(c) = ReadOnly(c)
BY DEF Promise!Done, Done, Promise!NoCall, NoCall, Promise!Fail, Fail, Promise!Saved,
       Saved, Promise!ReadOnly, ReadOnly, Promise!Result, Result, Promise!NoRecords,
       NoRecords

LEMMA SameAllocate ==
  ASSUME NEW n
  PROVE  Promise!Allocate(n) = Allocate(n)
<1>1. Promise!Width = Width
  BY DEF Promise!Width, Width
<1>. QED
  BY <1>1 DEF Promise!Allocate, Allocate, Promise!HexId, HexId

LEMMA SameApply ==
  ASSUME NEW st, NEW c
  PROVE  Promise!Apply(st, c) = Apply(st, c)
BY SameAllocate
   DEF Promise!Apply, Apply, Promise!Register, Register,
       Promise!RegisterWithID, RegisterWithID, Promise!Resolve, Resolve,
       Promise!ResolveError, ResolveError, Promise!Get, Get, Promise!List, List,
       Promise!Purge, Purge, Promise!Purged, Purged, Promise!Outcome, Outcome,
       Promise!Put, Put, Promise!Keep, Keep, Promise!NewRecord, NewRecord,
       Promise!Fail, Fail,
       Promise!Done, Done, Promise!Result, Result, Promise!NoRecords, NoRecords

LEMMA SameAnswer ==
  ASSUME NEW f, NEW c
  PROVE  Promise!Answer(f, c) =
           IF LoadError(f) # "none" THEN Fail(LoadError(f)) ELSE Apply(f.st, c).res
BY SameLoadError, SameApply, SameResults DEF Promise!Answer

LEMMA SameEffect ==
  ASSUME NEW f, NEW c
  PROVE  Promise!Effect(f, c) =
           IF Promise!Answer(f, c).err = "none" /\ ~ ReadOnly(c)
           THEN Saved(Apply(f.st, c).st) ELSE f
BY SameApply, SameResults DEF Promise!Effect

(***************************************************************************)
(* How a step of one thread shows                                          *)
(***************************************************************************)
Shown(l) ==
  IF l = "idle" THEN "idle"
  ELSE IF l \in {"unlock", "unmutex", "return"} THEN "done" ELSE "called"

LEMMA PhaseIs == \A t \in Threads : Phase[t] = Shown(pc[t])
BY DEF Phase, Shown, Decided

\* A thread that moves from one place to another.
LEMMA PhaseMoves ==
  ASSUME TypeOK, NEW t \in Threads, NEW l, pc' = [pc EXCEPT ![t] = l]
  PROVE  Phase' = [Phase EXCEPT ![t] = Shown(l)]
BY DEF TypeOK, Phase, Shown, Decided

\* A thread whose result, if it shows, becomes r.
LEMMA ReplyMoves ==
  ASSUME TypeOK, NEW t \in Threads, NEW r,
         \A u \in Threads : u # t => pc'[u] = pc[u] /\ out'[u] = out[u],
         r = IF Decided(t)' THEN out'[t] ELSE Done
  PROVE  Reply' = [Reply EXCEPT ![t] = r]
BY DEF TypeOK, Reply, Decided

\* A step of a thread that stays undecided shows nothing.
LEMMA StaysUndecided ==
  ASSUME TypeOK, NEW t \in Threads, NEW l,
         pc' = [pc EXCEPT ![t] = l],
         \A u \in Threads : u # t => out'[u] = out[u],
         Shown(pc[t]) = "called", Shown(l) = "called"
  PROVE  Phase' = Phase /\ Reply' = Reply
<1>1. \A u \in Threads : /\ Decided(u)' <=> Decided(u)
                         /\ pc'[u] = "idle" <=> pc[u] = "idle"
                         /\ Decided(u) => out'[u] = out[u]
  BY DEF TypeOK, Shown, Decided
<1>. QED
  BY <1>1 DEF Phase, Reply

\* A step that decides a call.
LEMMA Decides ==
  ASSUME TypeOK, NEW t \in Threads, NEW l, NEW r,
         pc' = [pc EXCEPT ![t] = l], out' = [out EXCEPT ![t] = r],
         Shown(pc[t]) = "called", l \in {"unlock", "unmutex", "return"}
  PROVE  /\ Phase[t] = "called"
         /\ Phase' = [Phase EXCEPT ![t] = "done"]
         /\ Reply' = [Reply EXCEPT ![t] = r]
<1>1. Phase[t] = "called"
  BY PhaseIs
<1>2. Shown(l) = "done"
  BY DEF Shown
<1>3. Phase' = [Phase EXCEPT ![t] = "done"]
  BY <1>2, PhaseMoves
<1>4. \A u \in Threads : u # t => pc'[u] = pc[u] /\ out'[u] = out[u]
  BY DEF TypeOK
<1>5. r = IF Decided(t)' THEN out'[t] ELSE Done
  BY DEF TypeOK, Decided
<1>6. Reply' = [Reply EXCEPT ![t] = r]
  BY <1>4, <1>5, ReplyMoves
<1>. QED
  BY <1>1, <1>3, <1>6

(***************************************************************************)
(* The refinement                                                          *)
(***************************************************************************)
LEMMA InitImplements == Init => Promise!Init
<1>. SUFFICES ASSUME Init PROVE Promise!Init
  OBVIOUS
<1>1. /\ Phase = [t \in Threads |-> "idle"]
      /\ Reply = [t \in Threads |-> Done]
  BY DEF Init, Phase, Reply, Decided
<1>. QED
  BY <1>1, SameResults DEF Init, Promise!Init

LEMMA NextImplements == IndInv /\ [Next]_vars => [Promise!Next]_Promise!vars
<1>. SUFFICES ASSUME IndInv, [Next]_vars PROVE [Promise!Next]_Promise!vars
  OBVIOUS
<1>. USE DEF Step, SetOut
<1>0. TypeOK
  BY DEF IndInv
<1>1. ASSUME NEW t \in Threads, NEW c \in Menu, Invoke(t, c)
      PROVE  Promise!Invoke(t, c)
  <2>1. pc[t] = "idle" /\ pc' = [pc EXCEPT ![t] = "mutex"] /\ out' = out
    BY <1>1 DEF Invoke
  <2>2. Phase[t] = "idle" /\ Phase' = [Phase EXCEPT ![t] = "called"]
    <3>1. Phase[t] = "idle"
      BY <2>1 DEF Phase
    <3>2. Phase' = [Phase EXCEPT ![t] = Shown("mutex")]
      BY <1>0, <2>1, PhaseMoves
    <3>3. Shown("mutex") = "called"
      BY DEF Shown
    <3>. QED
      BY <3>1, <3>2, <3>3
  <2>3. Reply' = Reply
    BY <1>0, <2>1 DEF TypeOK, Reply, Decided
  <2>. QED
    BY <1>1, <2>2, <2>3, SamePrecheck DEF Invoke, Promise!Invoke, Admissible, Promise!Admissible
<1>2. ASSUME NEW t \in Threads, NEW c \in Menu, Refuse(t, c)
      PROVE  Promise!Refuse(t, c)
  <2>. DEFINE r == Fail(Precheck(c))
  <2>1. pc[t] = "idle" /\ pc' = [pc EXCEPT ![t] = "return"] /\ out' = [out EXCEPT ![t] = r]
    BY <1>2 DEF Refuse
  <2>2. Phase[t] = "idle" /\ Phase' = [Phase EXCEPT ![t] = "done"]
    <3>1. Phase[t] = "idle"
      BY <2>1 DEF Phase
    <3>2. Phase' = [Phase EXCEPT ![t] = "done"]
      BY <1>0, <2>1, PhaseMoves DEF Shown
    <3>. QED
      BY <3>1, <3>2
  <2>. HIDE DEF r
  <2>3. Reply' = [Reply EXCEPT ![t] = r]
    <3>1. \A u \in Threads : u # t => pc'[u] = pc[u] /\ out'[u] = out[u]
      BY <1>0, <2>1 DEF TypeOK
    <3>2. r = IF Decided(t)' THEN out'[t] ELSE Done
      BY <1>0, <2>1 DEF TypeOK, Decided
    <3>. QED
      BY <1>0, <3>1, <3>2, ReplyMoves
  <2>4. r = Promise!Fail(Promise!Precheck(c)) /\ Promise!Precheck(c) # "none"
    BY <1>2, SamePrecheck, SameResults DEF r, Refuse
  <2>. QED
    BY <1>2, <2>2, <2>3, <2>4 DEF Refuse, Promise!Refuse
<1>3. ASSUME NEW t \in Threads, LockMutex(t) \/ AcquireFlock(t) \/ Load(t) \/ WriteTemp(t)
      PROVE  UNCHANGED Promise!vars
  <2>1. PICK l \in {"flock", "load", "apply", "rename"} : pc' = [pc EXCEPT ![t] = l]
    BY <1>3 DEF LockMutex, AcquireFlock, Load, WriteTemp
  <2>2. /\ pc[t] \in {"mutex", "flock", "load", "write"}
        /\ file' = file /\ call' = call /\ out' = out /\ issued' = issued
    BY <1>3 DEF LockMutex, AcquireFlock, Load, WriteTemp
  <2>3. Phase' = Phase /\ Reply' = Reply
    BY <1>0, <2>1, <2>2, StaysUndecided DEF Shown
  <2>. QED
    BY <2>2, <2>3 DEF Promise!vars
<1>4. ASSUME NEW t \in Threads, FlockFails(t)
      PROVE  Promise!Fault(t)
  <2>1. /\ pc[t] = "flock" /\ pc' = [pc EXCEPT ![t] = "unmutex"]
        /\ out' = [out EXCEPT ![t] = Fail("internal")]
        /\ file' = file /\ call' = call /\ issued' = issued
    BY <1>4 DEF FlockFails
  <2>2. /\ Phase[t] = "called"
        /\ Phase' = [Phase EXCEPT ![t] = "done"]
        /\ Reply' = [Reply EXCEPT ![t] = Fail("internal")]
    BY <1>0, <2>1, Decides DEF Shown
  <2>. QED
    BY <2>1, <2>2, SameResults DEF Promise!Fault
<1>5. ASSUME NEW t \in Threads, LoadFails(t)
      PROVE  Promise!Perform(t) \/ Promise!Fault(t)
  <2>1. /\ pc[t] = "load" /\ pc' = [pc EXCEPT ![t] = "unlock"]
        /\ file' = file /\ call' = call /\ issued' = issued
    BY <1>5 DEF LoadFails
  <2>2. CASE LoadError(file) # "none" /\ out' = [out EXCEPT ![t] = Fail(LoadError(file))]
    <3>1. Fail(LoadError(file)) = Promise!Answer(file, call[t])
      BY <2>2, SameAnswer
    <3>2. Promise!Effect(file, call[t]) = file
      BY <2>2, <3>1, SameEffect, FailIsResult, LoadErrorIsError
    <3>3. /\ Phase[t] = "called"
          /\ Phase' = [Phase EXCEPT ![t] = "done"]
          /\ Reply' = [Reply EXCEPT ![t] = Fail(LoadError(file))]
      BY <1>0, <2>1, <2>2, Decides DEF Shown
    <3>. QED
      BY <2>1, <3>1, <3>2, <3>3 DEF Promise!Perform
  <2>3. CASE out' = [out EXCEPT ![t] = Fail("internal")]
    <3>1. /\ Phase[t] = "called"
          /\ Phase' = [Phase EXCEPT ![t] = "done"]
          /\ Reply' = [Reply EXCEPT ![t] = Fail("internal")]
      BY <1>0, <2>1, <2>3, Decides DEF Shown
    <3>. QED
      BY <2>1, <3>1, SameResults DEF Promise!Fault
  <2>. QED
    BY <1>5, <2>2, <2>3 DEF LoadFails
<1>6. ASSUME NEW t \in Threads, RunClosure(t)
      PROVE  Promise!Perform(t) \/ UNCHANGED Promise!vars
  <2>1. /\ pc[t] = "apply" /\ buf[t] = file.st /\ LoadError(file) = "none"
        /\ file' = file /\ call' = call /\ issued' = issued
    BY <1>6 DEF RunClosure, IndInv, CopiesOK
  <2>. DEFINE r == Apply(file.st, call[t]).res
  <2>2. out' = [out EXCEPT ![t] = r]
    BY <1>6, <2>1 DEF RunClosure
  <2>3. CASE r.err # "none" \/ ReadOnly(call[t])
    <3>1. pc' = [pc EXCEPT ![t] = "unlock"]
      BY <1>6, <2>1, <2>3 DEF RunClosure
    <3>2. r = Promise!Answer(file, call[t])
      BY <2>1, SameAnswer
    <3>3. Promise!Effect(file, call[t]) = file
      BY <2>3, <3>2, SameEffect
    <3>. HIDE DEF r
    <3>4. /\ Phase[t] = "called"
          /\ Phase' = [Phase EXCEPT ![t] = "done"]
          /\ Reply' = [Reply EXCEPT ![t] = r]
      BY <1>0, <2>1, <2>2, <3>1, Decides DEF Shown
    <3>. QED
      BY <2>1, <3>2, <3>3, <3>4 DEF Promise!Perform
  <2>4. CASE ~ (r.err # "none" \/ ReadOnly(call[t]))
    <3>1. pc' = [pc EXCEPT ![t] = "write"]
      BY <1>6, <2>1, <2>4 DEF RunClosure
    <3>. HIDE DEF r
    <3>2. \A u \in Threads : u # t => out'[u] = out[u]
      BY <1>0, <2>2 DEF TypeOK
    <3>3. Phase' = Phase /\ Reply' = Reply
      BY <1>0, <2>1, <3>1, <3>2, StaysUndecided DEF Shown
    <3>. QED
      BY <2>1, <3>3 DEF Promise!vars
  <2>. QED
    BY <2>3, <2>4
<1>7. ASSUME NEW t \in Threads, pc[t] = "rename"
      PROVE  /\ out[t] = Promise!Answer(file, call[t])
             /\ Saved(buf[t]) = Promise!Effect(file, call[t])
  <2>1. /\ LoadError(file) = "none"
        /\ buf[t] = Apply(file.st, call[t]).st
        /\ out[t] = Apply(file.st, call[t]).res
        /\ out[t].err = "none" /\ ~ ReadOnly(call[t])
    BY <1>7 DEF IndInv, CopiesOK, CallOK
  <2>2. out[t] = Promise!Answer(file, call[t])
    BY <2>1, SameAnswer
  <2>. QED
    BY <2>1, <2>2, SameEffect
<1>8. ASSUME NEW t \in Threads, Rename(t)
      PROVE  Promise!Perform(t)
  <2>1. /\ pc[t] = "rename" /\ pc' = [pc EXCEPT ![t] = "unlock"]
        /\ file' = Saved(buf[t]) /\ call' = call /\ issued' = issued
        /\ out' = [out EXCEPT ![t] = out[t]]
    BY <1>0, <1>8 DEF Rename, TypeOK
  <2>2. /\ Phase[t] = "called"
        /\ Phase' = [Phase EXCEPT ![t] = "done"]
        /\ Reply' = [Reply EXCEPT ![t] = out[t]]
    BY <1>0, <2>1, Decides DEF Shown
  <2>. QED
    BY <1>7, <2>1, <2>2 DEF Promise!Perform
<1>9. ASSUME NEW t \in Threads, SaveFails(t)
      PROVE  Promise!Fault(t)
  <2>1. /\ pc[t] \in {"write", "rename"} /\ pc' = [pc EXCEPT ![t] = "unlock"]
        /\ call' = call /\ issued' = issued
        /\ out' = [out EXCEPT ![t] = Fail("internal")]
        /\ file' = file \/ (pc[t] = "rename" /\ file' = Saved(buf[t]))
    BY <1>9 DEF SaveFails
  <2>2. /\ Phase[t] = "called"
        /\ Phase' = [Phase EXCEPT ![t] = "done"]
        /\ Reply' = [Reply EXCEPT ![t] = Fail("internal")]
    BY <1>0, <2>1, Decides DEF Shown
  <2>3. file' \in {file, Promise!Effect(file, call[t])}
    BY <1>7, <2>1
  <2>. QED
    BY <2>1, <2>2, <2>3, SameResults DEF Promise!Fault
<1>10. ASSUME NEW t \in Threads, Unlock(t)
       PROVE  Promise!Degrade(t) \/ UNCHANGED Promise!vars
  <2>1. /\ pc[t] = "unlock" /\ pc' = [pc EXCEPT ![t] = "unmutex"]
        /\ file' = file /\ call' = call /\ issued' = issued
    BY <1>10 DEF Unlock
  <2>2. Phase[t] = "done" /\ Phase' = Phase /\ Reply[t] = out[t]
    BY <1>0, <2>1 DEF TypeOK, Phase, Reply, Decided
  <2>3. CASE out' = out
    <3>1. Reply' = Reply
      BY <1>0, <2>1, <2>3 DEF TypeOK, Reply, Decided
    <3>. QED
      BY <2>1, <2>2, <3>1 DEF Promise!vars
  <2>4. CASE out[t].err = "none" /\ out' = [out EXCEPT ![t] = Fail("internal")]
    <3>1. \A u \in Threads : u # t => pc'[u] = pc[u] /\ out'[u] = out[u]
      BY <1>0, <2>1, <2>4 DEF TypeOK
    <3>2. Fail("internal") = IF Decided(t)' THEN out'[t] ELSE Done
      BY <1>0, <2>1, <2>4 DEF TypeOK, Decided
    <3>3. Reply' = [Reply EXCEPT ![t] = Fail("internal")]
      BY <1>0, <3>1, <3>2, ReplyMoves
    <3>. QED
      BY <2>1, <2>2, <2>4, <3>3, SameResults DEF Promise!Degrade
  <2>. QED
    BY <1>10, <2>3, <2>4 DEF Unlock
<1>11. ASSUME NEW t \in Threads, UnlockMutex(t)
       PROVE  UNCHANGED Promise!vars
  <2>1. /\ pc[t] = "unmutex" /\ pc' = [pc EXCEPT ![t] = "return"] /\ out' = out
        /\ file' = file /\ call' = call /\ issued' = issued
    BY <1>11 DEF UnlockMutex
  <2>2. Phase' = Phase /\ Reply' = Reply
    BY <1>0, <2>1 DEF TypeOK, Phase, Reply, Decided
  <2>. QED
    BY <2>1, <2>2 DEF Promise!vars
<1>12. ASSUME NEW t \in Threads, Return(t)
       PROVE  Promise!Return(t)
  <2>1. /\ pc[t] = "return" /\ pc' = [pc EXCEPT ![t] = "idle"]
        /\ out' = [out EXCEPT ![t] = Done] /\ file' = file
        /\ call' = [call EXCEPT ![t] = NoCall]
        /\ issued' = issued \cup ({out[t].id} \ {NoId})
    BY <1>12 DEF Return
  <2>2. Phase[t] = "done" /\ Reply[t] = out[t]
    BY <2>1 DEF Phase, Reply, Decided
  <2>3. Phase' = [Phase EXCEPT ![t] = "idle"]
    BY <1>0, <2>1, PhaseMoves DEF Shown
  <2>4. Reply' = [Reply EXCEPT ![t] = Done]
    <3>1. \A u \in Threads : u # t => pc'[u] = pc[u] /\ out'[u] = out[u]
      BY <1>0, <2>1 DEF TypeOK
    <3>2. Done = IF Decided(t)' THEN out'[t] ELSE Done
      BY <1>0, <2>1 DEF TypeOK, Decided
    <3>. QED
      BY <1>0, <3>1, <3>2, ReplyMoves
  <2>. QED
    BY <2>1, <2>2, <2>3, <2>4, SameResults DEF Promise!Return
<1>13. ASSUME NEW p \in Procs, Crash(p)
       PROVE  Promise!Crash(p)
  <2>1. /\ Phase' = [t \in Threads |-> IF ProcOf[t] = p THEN "idle" ELSE Phase[t]]
        /\ Reply' = [t \in Threads |-> IF ProcOf[t] = p THEN Done ELSE Reply[t]]
    BY <1>13 DEF Crash, Phase, Reply, Decided
  <2>. QED
    BY <1>13, <2>1, SameResults DEF Crash, Promise!Crash
<1>14. CASE UNCHANGED vars
  BY <1>14 DEF vars, Promise!vars, Phase, Reply, Decided
<1>. QED
  BY <1>1, <1>2, <1>3, <1>4, <1>5, <1>6, <1>8, <1>9, <1>10, <1>11, <1>12, <1>13, <1>14
     DEF Next, Proceed, Promise!Next

\* Every behaviour of the code is one of the atomic store: calls of all
\* processes take effect one at a time, each between its start and its return,
\* with the results they report; damage, failures of the operating system and
\* killed processes included.
THEOREM StoreImplementsChainSpec == Spec => Linearizable
<1>. QED
  BY InitImplements, NextImplements, IndInvHolds, PTL
     DEF Spec, Linearizable, Promise!Spec

===============================================================================
