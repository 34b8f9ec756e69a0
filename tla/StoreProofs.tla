----------------------------- MODULE StoreProofs -----------------------------
(***************************************************************************)
(* Theorems about Store, for every number of processes and threads, every  *)
(* word list, menu and bound, and with every fault allowed.  All rest on   *)
(* one inductive invariant, IndInv, proved in three layers: types, calls   *)
(* and locks; the copies of the state; the ids.  A fourth, on the first    *)
(* two, is about what a call reports.                                      *)
(***************************************************************************)
EXTENDS Store, ChainProofs

(***************************************************************************)
(* Small facts                                                             *)
(***************************************************************************)
LEMMA MenuWellFormed ==
  ASSUME NEW c \in Menu
  PROVE  WellFormed(c)
BY MenuAssumption DEF WellFormed

\* What SetOut, and an update of buf, does to a function of threads.
LEMMA UpdateOut ==
  ASSUME NEW f, f = [t \in Threads |-> f[t]], NEW t \in Threads, NEW r,
         NEW g, g = [f EXCEPT ![t] = r]
  PROVE  /\ g = [u \in Threads |-> g[u]]
         /\ g[t] = r
         /\ \A u \in Threads : u # t => g[u] = f[u]
OBVIOUS

(***************************************************************************)
(* The first layer: types, calls and locks                                 *)
(***************************************************************************)
Layer1 == TypeOK /\ CallOK /\ LocksOK /\ Exclusive

LEMMA Init1 == Init => Layer1
<1>. SUFFICES ASSUME Init PROVE Layer1
  OBVIOUS
<1>. USE DEF Init
<1>1. TypeOK
  <2>1. IsFile(file)
    BY InitFilesAssumption
  <2>2. \A t \in Threads : IsState(buf[t]) /\ IsResult(out[t])
    BY EmptyIsState, DoneIsResult
  <2>. QED
    BY <2>1, <2>2 DEF TypeOK, PCs
<1>2. CallOK /\ LocksOK /\ Exclusive
  BY DEF CallOK, LocksOK, Exclusive, InCall, InMutex, InSection
<1>. QED
  BY <1>1, <1>2 DEF Layer1

LEMMA Next1 == Layer1 /\ [Next]_vars => Layer1'
<1>. SUFFICES ASSUME Layer1, [Next]_vars PROVE Layer1'
  OBVIOUS
<1>. USE DEF Layer1, Step, SetOut
<1>. USE ProcsAssumption
<1>1. ASSUME NEW t \in Threads, NEW c \in Menu, Invoke(t, c) PROVE Layer1'
  <2>. USE <1>1 DEF Invoke
  <2>1. TypeOK'
    BY DEF TypeOK, PCs, Errors
  <2>2. CallOK'
    BY DEF TypeOK, PCs, CallOK, InCall, InMutex, InSection
  <2>3. LocksOK'
    BY DEF TypeOK, PCs, LocksOK, InMutex, InSection
  <2>4. Exclusive'
    BY DEF TypeOK, PCs, Exclusive, InSection
  <2>. QED
    BY <2>1, <2>2, <2>3, <2>4
<1>2. ASSUME NEW t \in Threads, NEW c \in Menu, Refuse(t, c) PROVE Layer1'
  <2>. USE <1>2 DEF Refuse
  <2>1. TypeOK'
    BY PrecheckIsError, FailIsResult DEF TypeOK, PCs, Errors
  <2>2. CallOK'
    BY DEF TypeOK, PCs, CallOK, InCall, InMutex, InSection
  <2>3. LocksOK'
    BY DEF TypeOK, PCs, LocksOK, InMutex, InSection
  <2>4. Exclusive'
    BY DEF TypeOK, PCs, Exclusive, InSection
  <2>. QED
    BY <2>1, <2>2, <2>3, <2>4
<1>3. ASSUME NEW t \in Threads, LockMutex(t) PROVE Layer1'
  <2>. USE <1>3 DEF LockMutex
  <2>1. TypeOK'
    BY DEF TypeOK, PCs, Errors
  <2>2. CallOK'
    BY DEF TypeOK, PCs, CallOK, InCall, InMutex, InSection
  <2>3. LocksOK'
    BY DEF TypeOK, PCs, LocksOK, InMutex, InSection
  <2>4. Exclusive'
    BY DEF TypeOK, PCs, Exclusive, InSection
  <2>. QED
    BY <2>1, <2>2, <2>3, <2>4
<1>4. ASSUME NEW t \in Threads, AcquireFlock(t) PROVE Layer1'
  <2>. USE <1>4 DEF AcquireFlock
  <2>1. TypeOK'
    BY DEF TypeOK, PCs, Mode
  <2>2. CallOK'
    BY DEF TypeOK, PCs, CallOK, InCall, InMutex, InSection
  <2>3. LocksOK'
    BY DEF TypeOK, PCs, LocksOK, InMutex, InSection
  <2>4. Exclusive'
    <3>1. \A u \in Threads \ {t} :
            InSection(u) => ReadOnly(call[u]) /\ ReadOnly(call[t])
      <4>. SUFFICES ASSUME NEW u \in Threads, u # t, InSection(u)
                    PROVE  ReadOnly(call[u]) /\ ReadOnly(call[t])
        OBVIOUS
      <4>1. mu[ProcOf[t]] = t /\ mu[ProcOf[u]] = u
        BY DEF LocksOK, InMutex
      <4>2. flock[u] = Mode(call[u]) /\ flock[u] # "none"
        BY DEF LocksOK, Mode
      <4>3. flock[u] = "sh" /\ Mode(call[t]) = "sh"
        BY <4>1, <4>2 DEF Compatible
      <4>. QED
        BY <4>2, <4>3 DEF Mode
    <3>2. \A u \in Threads : u # t => (InSection(u)' <=> InSection(u))
      BY DEF TypeOK, InSection
    <3>. QED
      BY <3>1, <3>2 DEF Exclusive
  <2>. QED
    BY <2>1, <2>2, <2>3, <2>4
<1>5. ASSUME NEW t \in Threads, FlockFails(t) PROVE Layer1'
  <2>. USE <1>5 DEF FlockFails
  <2>1. TypeOK'
    BY FailIsResult DEF TypeOK, PCs, Errors
  <2>2. CallOK'
    BY DEF TypeOK, PCs, CallOK, InCall, InMutex, InSection
  <2>3. LocksOK'
    BY DEF TypeOK, PCs, LocksOK, InMutex, InSection
  <2>4. Exclusive'
    BY DEF TypeOK, PCs, Exclusive, InSection
  <2>. QED
    BY <2>1, <2>2, <2>3, <2>4
<1>6. ASSUME NEW t \in Threads, Load(t) PROVE Layer1'
  <2>. USE <1>6 DEF Load
  <2>1. TypeOK'
    BY FileParts DEF TypeOK, PCs, Errors
  <2>2. CallOK'
    BY DEF TypeOK, PCs, CallOK, InCall, InMutex, InSection
  <2>3. LocksOK'
    BY DEF TypeOK, PCs, LocksOK, InMutex, InSection
  <2>4. Exclusive'
    BY DEF TypeOK, PCs, Exclusive, InSection
  <2>. QED
    BY <2>1, <2>2, <2>3, <2>4
<1>7. ASSUME NEW t \in Threads, LoadFails(t) PROVE Layer1'
  <2>. USE <1>7 DEF LoadFails
  <2>1. TypeOK'
    BY LoadErrorIsError, FailIsResult DEF TypeOK, PCs, Errors
  <2>2. CallOK'
    BY DEF TypeOK, PCs, CallOK, InCall, InMutex, InSection
  <2>3. LocksOK'
    BY DEF TypeOK, PCs, LocksOK, InMutex, InSection
  <2>4. Exclusive'
    BY DEF TypeOK, PCs, Exclusive, InSection
  <2>. QED
    BY <2>1, <2>2, <2>3, <2>4
<1>8. ASSUME NEW t \in Threads, RunClosure(t) PROVE Layer1'
  <2>. USE <1>8 DEF RunClosure
  <2>1. TypeOK'
    <3>1. IsState(buf[t]) /\ WellFormed(call[t]) /\ Precheck(call[t]) = "none"
      BY MenuWellFormed DEF TypeOK, CallOK, InCall, InMutex, InSection
    <3>. DEFINE o == Apply(buf[t], call[t])
    <3>2. IsState(o.st) /\ IsResult(o.res)
      BY <3>1, ApplyTypes
    <3>3. PICK s : IsState(s) /\ buf' = [buf EXCEPT ![t] = s]
      BY <3>2, EmptyIsState
    <3>4. out' = [out EXCEPT ![t] = o.res]
      OBVIOUS
    <3>5. pc' \in [Threads -> PCs]
      BY DEF TypeOK, PCs
    <3>. HIDE DEF o
    <3>6. /\ buf' = [u \in Threads |-> buf'[u]]
          /\ out' = [u \in Threads |-> out'[u]]
          /\ \A u \in Threads : IsState(buf'[u]) /\ IsResult(out'[u])
      BY <3>2, <3>3, <3>4 DEF TypeOK
    <3>. QED
      BY <3>5, <3>6 DEF TypeOK
  <2>2. CallOK'
    BY DEF TypeOK, PCs, CallOK, InCall, InMutex, InSection
  <2>3. LocksOK'
    BY DEF TypeOK, PCs, LocksOK, InMutex, InSection
  <2>4. Exclusive'
    BY DEF TypeOK, PCs, Exclusive, InSection
  <2>. QED
    BY <2>1, <2>2, <2>3, <2>4
<1>9. ASSUME NEW t \in Threads, WriteTemp(t) PROVE Layer1'
  <2>. USE <1>9 DEF WriteTemp
  <2>1. TypeOK'
    BY DEF TypeOK, PCs, Errors
  <2>2. CallOK'
    BY DEF TypeOK, PCs, CallOK, InCall, InMutex, InSection
  <2>3. LocksOK'
    BY DEF TypeOK, PCs, LocksOK, InMutex, InSection
  <2>4. Exclusive'
    BY DEF TypeOK, PCs, Exclusive, InSection
  <2>. QED
    BY <2>1, <2>2, <2>3, <2>4
<1>10. ASSUME NEW t \in Threads, Rename(t) PROVE Layer1'
  <2>. USE <1>10 DEF Rename
  <2>1. TypeOK'
    BY SavedIsFile, EmptyIsState DEF TypeOK, PCs, Errors
  <2>2. CallOK'
    BY DEF TypeOK, PCs, CallOK, InCall, InMutex, InSection
  <2>3. LocksOK'
    BY DEF TypeOK, PCs, LocksOK, InMutex, InSection
  <2>4. Exclusive'
    BY DEF TypeOK, PCs, Exclusive, InSection
  <2>. QED
    BY <2>1, <2>2, <2>3, <2>4
<1>11. ASSUME NEW t \in Threads, SaveFails(t) PROVE Layer1'
  <2>. USE <1>11 DEF SaveFails
  <2>1. TypeOK'
    <3>1. IsFile(file')
      BY SavedIsFile DEF TypeOK
    <3>2. pc' \in [Threads -> PCs]
      BY DEF TypeOK, PCs
    <3>3. IsResult(Fail("internal"))
      BY FailIsResult DEF Errors
    <3>4. /\ buf' = [u \in Threads |-> buf'[u]]
          /\ out' = [u \in Threads |-> out'[u]]
          /\ \A u \in Threads : IsState(buf'[u]) /\ IsResult(out'[u])
      BY <3>3, EmptyIsState DEF TypeOK
    <3>. QED
      BY <3>1, <3>2, <3>4 DEF TypeOK
  <2>2. CallOK'
    BY DEF TypeOK, PCs, CallOK, InCall, InMutex, InSection
  <2>3. LocksOK'
    BY DEF TypeOK, PCs, LocksOK, InMutex, InSection
  <2>4. Exclusive'
    BY DEF TypeOK, PCs, Exclusive, InSection
  <2>. QED
    BY <2>1, <2>2, <2>3, <2>4
<1>12. ASSUME NEW t \in Threads, Unlock(t) PROVE Layer1'
  <2>. USE <1>12 DEF Unlock
  <2>1. TypeOK'
    BY FailIsResult DEF TypeOK, PCs, Errors
  <2>2. CallOK'
    BY DEF TypeOK, PCs, CallOK, InCall, InMutex, InSection
  <2>3. LocksOK'
    BY DEF TypeOK, PCs, LocksOK, InMutex, InSection
  <2>4. Exclusive'
    BY DEF TypeOK, PCs, Exclusive, InSection
  <2>. QED
    BY <2>1, <2>2, <2>3, <2>4
<1>13. ASSUME NEW t \in Threads, UnlockMutex(t) PROVE Layer1'
  <2>. USE <1>13 DEF UnlockMutex
  <2>1. TypeOK'
    BY DEF TypeOK, PCs, Errors
  <2>2. CallOK'
    BY DEF TypeOK, PCs, CallOK, InCall, InMutex, InSection
  <2>3. LocksOK'
    BY DEF TypeOK, PCs, LocksOK, InMutex, InSection
  <2>4. Exclusive'
    BY DEF TypeOK, PCs, Exclusive, InSection
  <2>. QED
    BY <2>1, <2>2, <2>3, <2>4
<1>14. ASSUME NEW t \in Threads, Return(t) PROVE Layer1'
  <2>. USE <1>14 DEF Return
  <2>1. TypeOK'
    <3>1. out[t].id = NoId \/ IsId(out[t].id)
      BY DEF TypeOK, IsResult
    <3>2. \A id \in issued' : IsId(id)
      BY <3>1 DEF TypeOK
    <3>. QED
      BY <3>2, DoneIsResult DEF TypeOK, PCs
  <2>2. CallOK'
    BY DEF TypeOK, PCs, CallOK, InCall, InMutex, InSection
  <2>3. LocksOK'
    BY DEF TypeOK, PCs, LocksOK, InMutex, InSection
  <2>4. Exclusive'
    BY DEF TypeOK, PCs, Exclusive, InSection
  <2>. QED
    BY <2>1, <2>2, <2>3, <2>4
<1>15. ASSUME NEW p \in Procs, Crash(p) PROVE Layer1'
  <2>. USE <1>15 DEF Crash
  <2>1. TypeOK'
    BY EmptyIsState, DoneIsResult DEF TypeOK, PCs
  <2>2. CallOK'
    BY DEF TypeOK, PCs, CallOK, InCall, InMutex, InSection
  <2>3. LocksOK'
    BY DEF TypeOK, PCs, LocksOK, InMutex, InSection
  <2>4. Exclusive'
    BY DEF TypeOK, PCs, Exclusive, InSection
  <2>. QED
    BY <2>1, <2>2, <2>3, <2>4
<1>16. CASE UNCHANGED vars
  BY <1>16 DEF vars, TypeOK, CallOK, LocksOK, Exclusive, InCall, InMutex, InSection
<1>. QED
  BY <1>1, <1>2, <1>3, <1>4, <1>5, <1>6, <1>7, <1>8, <1>9, <1>10, <1>11, <1>12,
     <1>13, <1>14, <1>15, <1>16 DEF Next, Proceed

(***************************************************************************)
(* The second layer: the copies of the state                               *)
(***************************************************************************)
Holds(t) == pc[t] \in {"apply", "write", "rename"}

\* Only a writer replaces the file, and no other thread then relies on it.
LEMMA FileStays ==
  ASSUME Layer1, NEW t \in Threads, pc[t] = "rename",
         NEW u \in Threads, u # t
  PROVE  ~ Holds(u)
BY DEF Layer1, Exclusive, CallOK, InSection, Holds

LEMMA Init2 == Init => CopiesOK
BY DEF Init, CopiesOK

LEMMA Next2 == Layer1 /\ CopiesOK /\ [Next]_vars => CopiesOK'
<1>. SUFFICES ASSUME Layer1, CopiesOK, [Next]_vars PROVE CopiesOK'
  OBVIOUS
<1>. USE DEF Step, SetOut
<1>0. TypeOK
  BY DEF Layer1
\* Steps that leave the file alone and bring no thread to a place that matters.
<1>1. ASSUME NEW t \in Threads,
             \/ \E c \in Menu : Invoke(t, c) \/ Refuse(t, c)
             \/ LockMutex(t) \/ AcquireFlock(t) \/ FlockFails(t) \/ LoadFails(t)
             \/ Unlock(t) \/ UnlockMutex(t) \/ Return(t)
      PROVE  CopiesOK'
  <2>1. /\ UNCHANGED <<file, buf>> /\ ~ Holds(t)' /\ ~ Holds(t)
        /\ \A u \in Threads : u # t =>
             pc'[u] = pc[u] /\ out'[u] = out[u] /\ call'[u] = call[u]
    BY <1>0, <1>1 DEF TypeOK, PCs, Holds, Invoke, Refuse, LockMutex, AcquireFlock,
         FlockFails, LoadFails, Unlock, UnlockMutex, Return
  <2>. QED
    BY <2>1 DEF CopiesOK, Holds
<1>2. ASSUME NEW t \in Threads, Load(t) PROVE CopiesOK'
  BY <1>0, <1>2 DEF Load, CopiesOK, TypeOK, PCs
<1>3. ASSUME NEW t \in Threads, RunClosure(t) PROVE CopiesOK'
  <2>1. buf[t] = file.st /\ LoadError(file) = "none" /\ file' = file /\ call' = call
    BY <1>3 DEF RunClosure, CopiesOK
  <2>. DEFINE o == Apply(file.st, call[t])
  <2>2. CASE o.res.err # "none" \/ ReadOnly(call[t])
    <3>1. pc' = [pc EXCEPT ![t] = "unlock"] /\ out' = [out EXCEPT ![t] = o.res]
          /\ buf' = [buf EXCEPT ![t] = EmptyState]
      BY <1>3, <2>1, <2>2 DEF RunClosure
    <3>. HIDE DEF o
    <3>. QED
      BY <1>0, <2>1, <3>1 DEF CopiesOK, TypeOK, PCs
  <2>3. CASE ~ (o.res.err # "none" \/ ReadOnly(call[t]))
    <3>1. pc' = [pc EXCEPT ![t] = "write"] /\ out' = [out EXCEPT ![t] = o.res]
          /\ buf' = [buf EXCEPT ![t] = o.st]
      BY <1>3, <2>1, <2>3 DEF RunClosure
    <3>2. pc'[t] = "write" /\ out'[t] = o.res /\ buf'[t] = o.st /\ o.res.err = "none"
      BY <1>0, <2>3, <3>1 DEF TypeOK
    <3>3. \A u \in Threads : u # t =>
            pc'[u] = pc[u] /\ out'[u] = out[u] /\ buf'[u] = buf[u]
      BY <1>0, <3>1 DEF TypeOK
    <3>. QED
      BY <2>1, <3>2, <3>3 DEF CopiesOK
  <2>. QED
    BY <2>2, <2>3
<1>4. ASSUME NEW t \in Threads, WriteTemp(t) PROVE CopiesOK'
  BY <1>0, <1>4 DEF WriteTemp, CopiesOK, TypeOK, PCs
<1>5. ASSUME NEW t \in Threads, Rename(t) PROVE CopiesOK'
  <2>1. \A u \in Threads : ~ Holds(u)'
    BY <1>0, <1>5, FileStays DEF Rename, TypeOK, PCs, Holds
  <2>. QED
    BY <2>1 DEF CopiesOK, Holds
<1>6. ASSUME NEW t \in Threads, SaveFails(t) PROVE CopiesOK'
  <2>1. CASE file' = file
    <3>1. /\ call' = call /\ ~ Holds(t)'
          /\ \A u \in Threads : u # t =>
               pc'[u] = pc[u] /\ out'[u] = out[u] /\ buf'[u] = buf[u]
      BY <1>0, <1>6 DEF SaveFails, TypeOK, PCs, Holds
    <3>. QED
      BY <2>1, <3>1 DEF CopiesOK, Holds
  <2>2. CASE pc[t] = "rename"
    <3>1. \A u \in Threads : ~ Holds(u)'
      BY <1>0, <1>6, <2>2, FileStays DEF SaveFails, TypeOK, PCs, Holds
    <3>. QED
      BY <3>1 DEF CopiesOK, Holds
  <2>. QED
    BY <1>6, <2>1, <2>2 DEF SaveFails
<1>7. ASSUME NEW p \in Procs, Crash(p) PROVE CopiesOK'
  BY <1>7 DEF Crash, CopiesOK
<1>8. CASE UNCHANGED vars
  BY <1>8 DEF vars, CopiesOK
<1>. QED
  BY <1>1, <1>2, <1>3, <1>4, <1>5, <1>6, <1>7, <1>8 DEF Next, Proceed

(***************************************************************************)
(* The third layer: the ids                                                *)
(***************************************************************************)
\* An id about to be returned, seen by its value only.
Pending(t) == Decided(t) /\ out[t].id # NoId

\* A step that hands out no new id and does not set the counter back.
LEMMA IdsKept ==
  ASSUME IdsOK, file.st.counter \in Nat, file'.st.counter \in Nat,
         file'.st.counter >= file.st.counter,
         issued' = issued,
         \A t \in Threads : Pending(t)' => Pending(t) /\ out'[t].id = out[t].id
  PROVE  IdsOK'
<1>1. \A id : Allocated(id) => Allocated(id)'
  BY DEF Allocated
<1>2. \A id \in issued' : Allocated(id)'
  BY <1>1 DEF IdsOK
<1>3. \A t \in Threads : Pending(t)' => Allocated(out[t].id)' /\ out'[t].id \notin issued'
  BY <1>1 DEF IdsOK, Pending
<1>4. \A t, u \in Threads :
        t # u /\ Pending(t)' /\ Decided(u)' => out'[t].id # out'[u].id
  BY DEF IdsOK, Pending
<1>. QED
  BY <1>2, <1>3, <1>4 DEF IdsOK, Pending, Allocated

LEMMA Counters ==
  ASSUME TypeOK
  PROVE  file.st.counter \in Nat
BY FileParts, StateParts DEF TypeOK

\* What a thread is about to put in place of the file.
LEMMA NextFile ==
  ASSUME Layer1, CopiesOK, NEW t \in Threads, pc[t] \in {"write", "rename"}
  PROVE  /\ IsState(buf[t])
         /\ call[t].op = "register" => /\ out[t].id = Allocate(file.st.counter)
                                       /\ buf[t].counter = file.st.counter + 1
         /\ call[t].op # "register" => /\ out[t].id = NoId
                                       /\ buf[t].counter = file.st.counter
<1>1. IsState(file.st)
  BY FileParts DEF Layer1, TypeOK
<1>2. WellFormed(call[t]) /\ Precheck(call[t]) = "none"
  BY MenuWellFormed DEF Layer1, CallOK, InCall, InMutex, InSection
<1>3. /\ buf[t] = Apply(file.st, call[t]).st
      /\ out[t] = Apply(file.st, call[t]).res
  BY DEF CopiesOK
<1>. QED
  BY <1>1, <1>2, <1>3, ApplyTypes

LEMMA Init3 == Init => IdsOK
BY DEF Init, IdsOK, Decided

LEMMA Next3 == Layer1 /\ CopiesOK /\ IdsOK /\ [Next]_vars => IdsOK'
<1>. SUFFICES ASSUME Layer1, CopiesOK, IdsOK, [Next]_vars PROVE IdsOK'
  OBVIOUS
<1>. USE DEF Step, SetOut
<1>0. TypeOK /\ TypeOK'
  BY Next1 DEF Layer1
<1>c. file.st.counter \in Nat /\ file'.st.counter \in Nat
  BY <1>0, FileParts, StateParts DEF TypeOK
<1>1. ASSUME NEW t \in Threads,
             \/ \E c \in Menu : Invoke(t, c) \/ Refuse(t, c)
             \/ LockMutex(t) \/ AcquireFlock(t) \/ FlockFails(t)
             \/ Load(t) \/ LoadFails(t) \/ WriteTemp(t)
             \/ Unlock(t) \/ UnlockMutex(t)
      PROVE  IdsOK'
  <2>1. file' = file /\ issued' = issued
    BY <1>1 DEF Invoke, Refuse, LockMutex, AcquireFlock, FlockFails, Load, LoadFails,
         WriteTemp, Unlock, UnlockMutex
  <2>2. \A u \in Threads : u # t => pc'[u] = pc[u] /\ out'[u] = out[u]
    BY <1>0, <1>1 DEF TypeOK, Invoke, Refuse, LockMutex, AcquireFlock, FlockFails,
         Load, LoadFails, WriteTemp, Unlock, UnlockMutex
  <2>3. Pending(t)' => Pending(t) /\ out'[t].id = out[t].id
    BY <1>0, <1>1, FailIsResult, PrecheckIsError, LoadErrorIsError
       DEF TypeOK, PCs, Pending, Decided, Errors, Invoke, Refuse, LockMutex,
           AcquireFlock, FlockFails, Load, LoadFails, WriteTemp, Unlock, UnlockMutex
  <2>4. \A u \in Threads : Pending(u)' => Pending(u) /\ out'[u].id = out[u].id
    BY <2>2, <2>3 DEF Pending, Decided
  <2>. QED
    BY <1>c, <2>1, <2>4, IdsKept
<1>2. ASSUME NEW t \in Threads, RunClosure(t) PROVE IdsOK'
  <2>1. buf[t] = file.st /\ file' = file /\ issued' = issued
    BY <1>2 DEF RunClosure, CopiesOK
  <2>2. WellFormed(call[t]) /\ Precheck(call[t]) = "none" /\ IsState(file.st)
    BY <1>0, <1>2, MenuWellFormed, FileParts
       DEF RunClosure, Layer1, TypeOK, CallOK, InCall, InMutex, InSection
  <2>. DEFINE o == Apply(file.st, call[t])
  <2>3. \/ call[t].op # "register" /\ o.res.id = NoId
        \/ o.res.err = "none" /\ ~ ReadOnly(call[t])
    BY <2>2, ApplyTypes DEF ReadOnly
  <2>4. /\ out' = [out EXCEPT ![t] = o.res]
        /\ \/ pc' = [pc EXCEPT ![t] = "write"]
           \/ /\ pc' = [pc EXCEPT ![t] = "unlock"]
              /\ o.res.err # "none" \/ ReadOnly(call[t])
    BY <1>2, <2>1 DEF RunClosure
  <2>. HIDE DEF o
  <2>5. \A u \in Threads : Pending(u)' => Pending(u) /\ out'[u].id = out[u].id
    BY <1>0, <2>3, <2>4 DEF TypeOK, Pending, Decided
  <2>. QED
    BY <1>c, <2>1, <2>5, IdsKept
<1>3. ASSUME NEW t \in Threads, Rename(t) PROVE IdsOK'
  <2>1. /\ pc[t] = "rename" /\ issued' = issued /\ out' = out
        /\ file'.st = buf[t]
        /\ \A u \in Threads : u # t => (Decided(u)' <=> Decided(u))
    BY <1>0, <1>3 DEF Rename, Saved, TypeOK, PCs, Decided
  <2>2. CASE call[t].op # "register"
    <3>1. out[t].id = NoId /\ file'.st.counter = file.st.counter
      BY <2>1, <2>2, NextFile
    <3>2. \A u \in Threads : Pending(u)' => Pending(u) /\ out'[u].id = out[u].id
      BY <2>1, <3>1 DEF Pending
    <3>. QED
      BY <1>c, <2>1, <3>1, <3>2, IdsKept
  <2>3. CASE call[t].op = "register"
    <3>. DEFINE new == Allocate(file.st.counter)
    <3>1. out[t].id = new /\ file'.st.counter = file.st.counter + 1
      BY <2>1, <2>3, NextFile
    <3>2. \A id : Allocated(id) => Allocated(id)' /\ id # new
      <4>. SUFFICES ASSUME NEW n \in 0 .. file.st.counter - 1
                    PROVE  n \in 0 .. file'.st.counter - 1 /\ Allocate(n) # new
        BY DEF Allocated
      <4>1. n \in Nat /\ n # file.st.counter /\ n \in 0 .. file'.st.counter - 1
        BY <1>c, <3>1
      <4>. QED
        BY <1>c, <4>1, AllocateInjective
    <3>3. \A id : id = new => Allocated(id)'
      <4>1. file.st.counter \in 0 .. file'.st.counter - 1
        BY <1>c, <3>1
      <4>. QED
        BY <4>1 DEF Allocated
    <3>. HIDE DEF new
    <3>4. \A id \in issued' : Allocated(id)' /\ id # new
      BY <2>1, <3>2 DEF IdsOK
    <3>5. \A u \in Threads : u # t /\ Decided(u)' /\ out[u].id # NoId =>
            Allocated(out[u].id)' /\ out[u].id \notin issued' /\ out[u].id # new
      BY <2>1, <3>2 DEF IdsOK
    <3>6. \A u, w \in Threads :
            u # t /\ w # t /\ u # w /\ Decided(u)' /\ Decided(w)' /\ out[u].id # NoId
              => out[u].id # out[w].id
      BY <2>1 DEF IdsOK
    <3>7. \A u \in Threads : Decided(u)' /\ out'[u].id # NoId =>
            Allocated(out[u].id)' /\ out'[u].id \notin issued'
      BY <2>1, <3>1, <3>3, <3>4, <3>5
    <3>8. \A u, w \in Threads :
            u # w /\ Decided(u)' /\ Decided(w)' /\ out'[u].id # NoId
              => out'[u].id # out'[w].id
      BY <2>1, <3>1, <3>5, <3>6
    <3>. QED
      BY <2>1, <3>4, <3>7, <3>8 DEF IdsOK, Allocated
  <2>. QED
    BY <2>2, <2>3
<1>4. ASSUME NEW t \in Threads, SaveFails(t) PROVE IdsOK'
  <2>1. pc[t] \in {"write", "rename"} /\ issued' = issued
    BY <1>4 DEF SaveFails
  <2>2. file'.st.counter >= file.st.counter
    BY <1>4, <1>c, <2>1, NextFile DEF SaveFails, Saved
  <2>3. \A u \in Threads : Pending(u)' => Pending(u) /\ out'[u].id = out[u].id
    BY <1>0, <1>4, FailIsResult DEF SaveFails, TypeOK, PCs, Pending, Decided, Errors
  <2>. QED
    BY <1>c, <2>1, <2>2, <2>3, IdsKept
<1>5. ASSUME NEW t \in Threads, Return(t) PROVE IdsOK'
  <2>1. /\ file' = file /\ Decided(t) /\ ~ Decided(t)'
        /\ issued' = issued \cup ({out[t].id} \ {NoId})
        /\ \A u \in Threads : u # t => (Decided(u)' <=> Decided(u)) /\ out'[u] = out[u]
    BY <1>0, <1>5 DEF Return, TypeOK, PCs, Decided
  <2>2. \A id : Allocated(id)' <=> Allocated(id)
    BY <2>1 DEF Allocated
  <2>3. \A id \in issued' : Allocated(id)'
    BY <2>1, <2>2 DEF IdsOK
  <2>4. \A u \in Threads : Decided(u)' /\ out'[u].id # NoId =>
          Allocated(out[u].id)' /\ out'[u].id \notin issued'
    BY <2>1, <2>2 DEF IdsOK
  <2>5. \A u, w \in Threads :
          u # w /\ Decided(u)' /\ Decided(w)' /\ out'[u].id # NoId
            => out'[u].id # out'[w].id
    BY <2>1 DEF IdsOK
  <2>. QED
    BY <2>3, <2>4, <2>5 DEF IdsOK, Allocated
<1>6. ASSUME NEW p \in Procs, Crash(p) PROVE IdsOK'
  <2>1. file' = file /\ issued' = issued
    BY <1>6 DEF Crash
  <2>2. \A u \in Threads : Pending(u)' => Pending(u) /\ out'[u].id = out[u].id
    BY <1>6, DoneIsResult DEF Crash, Pending, Decided
  <2>. QED
    BY <1>c, <2>1, <2>2, IdsKept
<1>7. CASE UNCHANGED vars
  BY <1>7 DEF vars, IdsOK, Decided, Allocated
<1>. QED
  BY <1>1, <1>2, <1>3, <1>4, <1>5, <1>6, <1>7 DEF Next, Proceed

(***************************************************************************)
(* The fourth layer: what a successful call reports                        *)
(***************************************************************************)
\* The result of a closure that succeeds is true of the state it leaves.
LEMMA ClosureTells ==
  ASSUME NEW st, IsState(st), NEW c, WellFormed(c),
         Apply(st, c).res.err = "none"
  PROVE  Told(Apply(st, c).st.records, c, Apply(st, c).res)
<1>1. CASE c.op = "register"
  <2>1. /\ Apply(st, c) = Register(st, c)
        /\ Register(st, c).res.id = Allocate(st.counter)
    BY <1>1 DEF Apply, Register, Outcome, Result
  <2>. DEFINE id == Allocate(st.counter)
              recs == Put(st.records, id, NewRecord(c.tok))
  <2>2. id \in DOMAIN recs /\ recs[id] = NewRecord(c.tok)
    BY DEF Put
  <2>3. Register(st, c).st.records = recs
    BY RegisterRecords
  <2>. HIDE DEF id, recs
  <2>. QED
    BY <1>1, <2>1, <2>2, <2>3 DEF Told, id
<1>2. CASE c.op = "register_with_id"
  <2>1. Apply(st, c) = RegisterWithID(st, c)
    BY <1>2 DEF Apply
  <2>. DEFINE recs == Put(st.records, c.id, NewRecord(c.tok))
  <2>2. c.id \in DOMAIN recs /\ recs[c.id] = NewRecord(c.tok)
    BY DEF Put
  <2>3. RegisterWithID(st, c).st.records = recs
    BY <2>1, RegisterWithIDRecords
  <2>. HIDE DEF recs
  <2>. QED
    BY <1>2, <2>1, <2>2, <2>3 DEF Told
<1>3. CASE c.op = "resolve"
  <2>1. Apply(st, c) = Resolve(st, c)
    BY <1>3 DEF Apply
  <2>. DEFINE r == [st.records[c.id] EXCEPT !.status = "resolved"]
              recs == Put(st.records, c.id, r)
  <2>2. c.id \in DOMAIN st.records /\ Resolve(st, c).st.records = recs
    BY <2>1, ResolveRecords
  <2>3. st.records[c.id] \in Record
    BY <2>2, StateParts DEF IsRecords
  <2>4. r.status = "resolved"
    BY <2>3 DEF Record
  <2>. HIDE DEF r
  <2>5. c.id \in DOMAIN recs /\ recs[c.id] = r
    BY DEF Put
  <2>. HIDE DEF recs
  <2>. QED
    BY <1>3, <2>1, <2>2, <2>4, <2>5 DEF Told
<1>4. CASE c.op = "get"
  BY <1>4 DEF Apply, Get, Outcome, Fail, Result, Told
<1>5. CASE c.op = "list"
  BY <1>5 DEF Apply, List, Outcome, Result, Told
<1>6. CASE c.op = "purge"
  <2>1. Apply(st, c) = Purge(st, c)
    BY <1>6 DEF Apply
  <2>. DEFINE left == Keep(st.records, DOMAIN st.records \ Purged(st, c))
              gone == Keep(st.records, Purged(st, c))
  <2>2. Purge(st, c).st.records = left
    BY <2>1, PurgeRecords
  <2>3. Purge(st, c).res.recs = gone
    BY <2>1 DEF Purge, Outcome, Fail, Result
  <2>4. DOMAIN gone \cap DOMAIN left = {}
    BY KeepFacts
  <2>. HIDE DEF left, gone
  <2>. QED
    BY <1>6, <2>1, <2>2, <2>3, <2>4 DEF Told
<1>. QED
  BY <1>1, <1>2, <1>3, <1>4, <1>5, <1>6 DEF WellFormed, Calls, Ops

LEMMA Init4 == Init => ReportedIsCommitted
BY DEF Init, ReportedIsCommitted

LEMMA Next4 ==
  Layer1 /\ CopiesOK /\ ReportedIsCommitted /\ [Next]_vars => ReportedIsCommitted'
<1>. SUFFICES ASSUME Layer1, CopiesOK, ReportedIsCommitted, [Next]_vars
              PROVE  ReportedIsCommitted'
  OBVIOUS
<1>. USE DEF Step, SetOut
<1>. DEFINE Reports(t) == pc[t] = "unlock" /\ out[t].err = "none"
<1>0. TypeOK
  BY DEF Layer1
<1>w. \A t \in Threads : InCall(t) => WellFormed(call[t])
  BY MenuWellFormed DEF Layer1, CallOK
\* The file stays, and no thread comes to report anything.
<1>s. ASSUME file' = file,
             \A u \in Threads : Reports(u)' =>
               Reports(u) /\ call'[u] = call[u] /\ out'[u] = out[u]
      PROVE  ReportedIsCommitted'
  BY <1>s DEF ReportedIsCommitted, Live
<1>1. ASSUME NEW t \in Threads,
             \/ \E c \in Menu : Invoke(t, c) \/ Refuse(t, c)
             \/ LockMutex(t) \/ AcquireFlock(t) \/ FlockFails(t)
             \/ Load(t) \/ LoadFails(t) \/ WriteTemp(t)
             \/ Unlock(t) \/ UnlockMutex(t) \/ Return(t)
      PROVE  ReportedIsCommitted'
  <2>1. file' = file
    BY <1>1 DEF Invoke, Refuse, LockMutex, AcquireFlock, FlockFails, Load, LoadFails,
         WriteTemp, Unlock, UnlockMutex, Return
  <2>2. \A u \in Threads : u # t =>
          pc'[u] = pc[u] /\ out'[u] = out[u] /\ call'[u] = call[u]
    BY <1>0, <1>1 DEF TypeOK, Invoke, Refuse, LockMutex, AcquireFlock, FlockFails,
         Load, LoadFails, WriteTemp, Unlock, UnlockMutex, Return
  <2>3. ~ Reports(t)'
    BY <1>0, <1>1, FailIsResult, LoadErrorIsError
       DEF TypeOK, PCs, Errors, Invoke, Refuse, LockMutex, AcquireFlock, FlockFails,
           Load, LoadFails, WriteTemp, Unlock, UnlockMutex, Return
  <2>. QED
    BY <1>s, <2>1, <2>2, <2>3
<1>2. ASSUME NEW t \in Threads, RunClosure(t) PROVE ReportedIsCommitted'
  <2>1. buf[t] = file.st /\ file' = file /\ call' = call
    BY <1>2 DEF RunClosure, CopiesOK
  <2>2. WellFormed(call[t]) /\ IsState(file.st)
    BY <1>0, <1>2, <1>w, FileParts DEF RunClosure, TypeOK, InCall, InMutex, InSection
  <2>. DEFINE o == Apply(file.st, call[t])
  <2>3. /\ out' = [out EXCEPT ![t] = o.res]
        /\ \/ pc' = [pc EXCEPT ![t] = "write"]
           \/ /\ pc' = [pc EXCEPT ![t] = "unlock"]
              /\ o.res.err # "none" \/ ReadOnly(call[t])
    BY <1>2, <2>1 DEF RunClosure
  <2>4. ReadOnly(call[t]) => o.st = file.st
    BY <2>2, ApplyKeeps DEF WellFormed, Calls
  <2>5. o.res.err = "none" => Told(o.st.records, call[t], o.res)
    BY <2>2, ClosureTells
  <2>. HIDE DEF o
  <2>6. \A u \in Threads : u # t => pc'[u] = pc[u] /\ out'[u] = out[u]
    BY <1>0, <2>3 DEF TypeOK
  <2>7. Reports(t)' => out'[t] = o.res /\ Told(file.st.records, call[t], o.res)
    BY <1>0, <2>3, <2>4, <2>5 DEF TypeOK
  <2>. QED
    BY <2>1, <2>6, <2>7 DEF ReportedIsCommitted, Live
<1>3. ASSUME NEW t \in Threads, Rename(t) PROVE ReportedIsCommitted'
  <2>1. pc[t] = "rename" /\ file'.st = buf[t] /\ out' = out /\ call' = call
    BY <1>3 DEF Rename, Saved
  <2>2. WellFormed(call[t]) /\ IsState(file.st)
    BY <1>0, <2>1, <1>w, FileParts DEF TypeOK, InCall, InMutex, InSection
  <2>3. /\ buf[t] = Apply(file.st, call[t]).st
        /\ out[t] = Apply(file.st, call[t]).res
        /\ out[t].err = "none"
    BY <2>1 DEF CopiesOK
  <2>4. Told(buf[t].records, call[t], out[t])
    BY <2>2, <2>3, ClosureTells
  <2>5. \A u \in Threads : u # t => pc'[u] # "unlock"
    BY <1>0, <1>3, <2>1 DEF Rename, TypeOK, Layer1, Exclusive, CallOK, InSection
  <2>. QED
    BY <2>1, <2>4, <2>5 DEF ReportedIsCommitted, Live
<1>4. ASSUME NEW t \in Threads, SaveFails(t) PROVE ReportedIsCommitted'
  <2>1. out'[t].err # "none"
    BY <1>0, <1>4, FailIsResult DEF SaveFails, TypeOK, Errors
  <2>2. \A u \in Threads : u # t => pc'[u] # "unlock"
    BY <1>0, <1>4 DEF SaveFails, TypeOK, Layer1, Exclusive, CallOK, InSection
  <2>. QED
    BY <2>1, <2>2 DEF ReportedIsCommitted
<1>5. ASSUME NEW p \in Procs, Crash(p) PROVE ReportedIsCommitted'
  <2>1. \A u \in Threads : Reports(u)' =>
          Reports(u) /\ call'[u] = call[u] /\ out'[u] = out[u]
    BY <1>5 DEF Crash
  <2>. QED
    BY <1>5, <1>s, <2>1 DEF Crash
<1>6. CASE UNCHANGED vars
  BY <1>6, <1>s DEF vars
<1>. QED
  BY <1>1, <1>2, <1>3, <1>4, <1>5, <1>6 DEF Next, Proceed

(***************************************************************************)
(* The theorems                                                            *)
(***************************************************************************)
LEMMA IndInvHolds == Spec => []IndInv
<1>1. Init => IndInv
  BY Init1, Init2, Init3 DEF IndInv, Layer1
<1>2. IndInv /\ [Next]_vars => IndInv'
  BY Next1, Next2, Next3 DEF IndInv, Layer1
<1>. QED
  BY <1>1, <1>2, PTL DEF Spec

\* Every variable keeps its type: above all, state.json is at every instant
\* missing, as damaged as it was found, or a well-formed state, and no purge or
\* register takes its counter below zero.
THEOREM TypeCorrect == Spec => []TypeOK
<1>1. IndInv => TypeOK
  BY DEF IndInv
<1>. QED
  BY <1>1, IndInvHolds, PTL

\* The mutex and the file lock together keep a writer alone between fl.Lock and
\* fl.Unlock (lock.go), although the file lock by itself is assumed not to
\* separate goroutines of one process.
THEOREM MutualExclusion == Spec => []Exclusive
<1>1. IndInv => Exclusive
  BY DEF IndInv
<1>. QED
  BY <1>1, IndInvHolds, PTL

\* No read-modify-write cycle works on a stale copy (lock.go withLockedState).
THEOREM UpdatesKept == Spec => []NoLostUpdate
<1>1. IndInv => NoLostUpdate
  BY DEF IndInv, CopiesOK, NoLostUpdate
<1>. QED
  BY <1>1, IndInvHolds, PTL

\* Register never returns an id twice, by whatever process and after whatever
\* purges and crashes (idgen.go, store.go CORE-09).
THEOREM IdsUnique == Spec => []IssuedUnique
<1>1. IndInv => IssuedUnique
  BY DEF IndInv, IdsOK, IssuedUnique
<1>. QED
  BY <1>1, IndInvHolds, PTL

\* When a call that succeeds lets go of the file lock, state.json says what its
\* caller will be told: an update is in the file before it is reported, and a read
\* reports the file as it still is (lock.go withLockedState, withSharedLock).
THEOREM ReportsCommitted == Spec => []ReportedIsCommitted
<1>1. Init => Layer1 /\ CopiesOK /\ ReportedIsCommitted
  BY Init1, Init2, Init4
<1>2. Layer1 /\ CopiesOK /\ ReportedIsCommitted /\ [Next]_vars
        => (Layer1 /\ CopiesOK /\ ReportedIsCommitted)'
  BY Next1, Next2, Next4
<1>. QED
  BY <1>1, <1>2, PTL DEF Spec

\* A file that loadState refuses is never replaced.
THEOREM DamageKept == Spec => FailClosed
<1>1. IndInv /\ [Next]_vars => [file.form \in {"absent", "ok"}]_file
  <2>. SUFFICES ASSUME IndInv, [Next]_vars, file' # file
                PROVE  file.form \in {"absent", "ok"}
    OBVIOUS
  <2>1. PICK t \in Threads : Rename(t) \/ SaveFails(t)
    BY DEF Next, Proceed, vars, Invoke, Refuse, LockMutex, AcquireFlock, FlockFails,
           Load, LoadFails, RunClosure, WriteTemp, Unlock, UnlockMutex, Return, Crash
  <2>2. pc[t] = "rename"
    BY <2>1 DEF Rename, SaveFails, Step
  <2>3. LoadError(file) = "none"
    BY <2>2 DEF IndInv, CopiesOK
  <2>4. file.form \in Forms
    BY DEF IndInv, TypeOK, IsFile
  <2>. QED
    BY <2>3, <2>4 DEF LoadError, Forms
<1>. QED
  BY <1>1, IndInvHolds, PTL DEF Spec, FailClosed

==============================================================================
