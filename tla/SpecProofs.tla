------------------------------ MODULE SpecProofs ------------------------------
(***************************************************************************)
(* Theorems about the atomic store, for every word list, menu and bound.   *)
(* Module CommitProofs shows that Store implements it, so they hold of     *)
(* the code as well, and of whatever is built on ChainSpec.                *)
(***************************************************************************)
EXTENDS ChainSpec, ChainProofs

LEMMA MenuWellFormed ==
  ASSUME NEW c \in Menu
  PROVE  WellFormed(c)
BY MenuAssumption DEF WellFormed

LEMMA AnswerTypes ==
  ASSUME NEW f, IsFile(f), NEW c \in Menu, Precheck(c) = "none"
  PROVE  /\ IsResult(Answer(f, c))
         /\ IsFile(Effect(f, c))
         /\ Effect(f, c).st.counter \in Nat
         /\ f.st.counter <= Effect(f, c).st.counter
         /\ Answer(f, c).id # NoId =>
              /\ Answer(f, c).id = Allocate(f.st.counter)
              /\ Effect(f, c).st.counter = f.st.counter + 1
<1>. DEFINE r == Apply(f.st, c).res
            s == Apply(f.st, c).st
<1>1. IsState(f.st) /\ f.st.counter \in Nat
  BY FileParts, StateParts
<1>2. WellFormed(c)
  BY MenuWellFormed
<1>3. /\ IsState(s) /\ IsResult(r)
      /\ c.op = "register" => /\ r.err = "none"
                              /\ r.id = Allocate(f.st.counter)
                              /\ s.counter = f.st.counter + 1
      /\ c.op # "register" => r.id = NoId /\ s.counter = f.st.counter
  BY <1>1, <1>2, ApplyTypes
<1>4. Effect(f, c) = f \/ Effect(f, c) = Saved(s)
  BY DEF Effect
<1>5. IsFile(Saved(s)) /\ Saved(s).st = s
  BY <1>3, SavedIsFile
<1>6. s.counter \in Nat
  BY <1>3, StateParts
<1>7. CASE LoadError(f) # "none"
  <2>1. Answer(f, c) = Fail(LoadError(f))
    BY <1>7 DEF Answer
  <2>. HIDE DEF r, s
  <2>2. IsResult(Answer(f, c)) /\ Answer(f, c).id = NoId /\ Answer(f, c).err # "none"
    BY <1>7, <2>1, FailIsResult, LoadErrorIsError
  <2>3. Effect(f, c) = f
    BY <2>2 DEF Effect
  <2>. QED
    BY <1>1, <2>2, <2>3
<1>8. CASE LoadError(f) = "none"
  <2>1. Answer(f, c) = r
    BY <1>8 DEF Answer
  <2>2. c.op = "register" => Effect(f, c) = Saved(s)
    BY <1>3, <2>1 DEF Effect, ReadOnly
  <2>. HIDE DEF r, s
  <2>. QED
    BY <1>1, <1>3, <1>4, <1>5, <1>6, <2>1, <2>2
<1>. QED
  BY <1>7, <1>8

(***************************************************************************)
(* The inductive invariant                                                 *)
(***************************************************************************)
LEMMA InitInv == Init => IndInv
<1>. SUFFICES ASSUME Init PROVE IndInv
  OBVIOUS
<1>. USE DEF Init
<1>1. TypeOK
  BY InitFilesAssumption, DoneIsResult DEF TypeOK
<1>2. CallOK /\ IdsOK /\ IssuedUnique
  BY DoneIsResult DEF CallOK, IdsOK, IssuedUnique
<1>. QED
  BY <1>1, <1>2 DEF IndInv

\* A step that leaves the file, or replaces it by one whose counter is no
\* smaller, keeps what was allocated allocated.
LEMMA AllocatedKept ==
  ASSUME IsFile(file), file'.st.counter \in Nat, file.st.counter <= file'.st.counter,
         NEW id, Allocated(id)
  PROVE  Allocated(id)'
<1>1. file.st.counter \in Nat
  BY FileParts, StateParts
<1>2. PICK n \in 0 .. file.st.counter - 1 : id = Allocate(n)
  BY DEF Allocated
<1>3. n \in 0 .. file'.st.counter - 1
  BY <1>1
<1>. QED
  BY <1>2, <1>3 DEF Allocated

\* A thread is decided with a result without an id: nothing is handed out.
LEMMA DecidedWithoutId ==
  ASSUME IndInv, NEW t \in Threads, NEW r, IsResult(r), r.id = NoId,
         out' = [out EXCEPT ![t] = r], issued' = issued,
         IsFile(file'), file'.st.counter \in Nat, file.st.counter <= file'.st.counter
  PROVE  IdsOK' /\ IssuedUnique'
<1>1. /\ out'[t] = r
      /\ \A u \in Threads : u # t => out'[u] = out[u]
  BY DEF IndInv, TypeOK
<1>2. \A id : Allocated(id) => Allocated(id)'
  BY AllocatedKept DEF IndInv, TypeOK
<1>3. IdsOK'
  BY <1>1, <1>2 DEF IndInv, IdsOK
<1>4. IssuedUnique'
  BY <1>1 DEF IndInv, IssuedUnique
<1>. QED
  BY <1>3, <1>4

LEMMA NextInv == IndInv /\ [Next]_vars => IndInv'
<1>. SUFFICES ASSUME IndInv, [Next]_vars PROVE IndInv'
  OBVIOUS
<1>0. TypeOK /\ CallOK /\ IdsOK /\ IssuedUnique
  BY DEF IndInv
<1>a. IsFile(file) /\ file.st.counter \in Nat /\ file.st.counter <= file.st.counter
  BY <1>0, FileParts, StateParts DEF TypeOK
<1>1. ASSUME NEW t \in Threads, NEW c \in Menu, Invoke(t, c) PROVE IndInv'
  <2>1. TypeOK' /\ CallOK'
    BY <1>0, <1>1 DEF Invoke, TypeOK, CallOK
  <2>2. IdsOK' /\ IssuedUnique'
    BY <1>0, <1>1 DEF Invoke, IdsOK, IssuedUnique, Allocated
  <2>. QED
    BY <2>1, <2>2 DEF IndInv
<1>2. ASSUME NEW t \in Threads, NEW c \in Menu, Refuse(t, c) PROVE IndInv'
  <2>. DEFINE r == Fail(Precheck(c))
  <2>1. IsResult(r) /\ r.id = NoId
    BY FailIsResult, PrecheckIsError
  <2>2. out' = [out EXCEPT ![t] = r] /\ file' = file /\ issued' = issued
    BY <1>2 DEF Refuse
  <2>. HIDE DEF r
  <2>3. TypeOK' /\ CallOK'
    BY <1>0, <1>2, <2>1, <2>2 DEF Refuse, TypeOK, CallOK
  <2>4. IdsOK' /\ IssuedUnique'
    BY <1>a, <2>1, <2>2, DecidedWithoutId
  <2>. QED
    BY <2>3, <2>4 DEF IndInv
<1>3. ASSUME NEW t \in Threads, Perform(t) PROVE IndInv'
  <2>. DEFINE r == Answer(file, call[t])
              f == Effect(file, call[t])
  <2>1. call[t] \in Menu /\ Precheck(call[t]) = "none"
    BY <1>0, <1>3 DEF Perform, CallOK
  <2>2. /\ out' = [out EXCEPT ![t] = r] /\ file' = f
        /\ phase' = [phase EXCEPT ![t] = "done"]
        /\ call' = call /\ issued' = issued
    BY <1>3 DEF Perform
  <2>3. /\ IsResult(r) /\ IsFile(f) /\ f.st.counter \in Nat
        /\ file.st.counter <= f.st.counter
        /\ r.id # NoId => r.id = Allocate(file.st.counter)
                          /\ f.st.counter = file.st.counter + 1
    BY <1>a, <2>1, AnswerTypes
  <2>. HIDE DEF r, f
  <2>4. TypeOK' /\ CallOK'
    BY <1>0, <2>2, <2>3 DEF TypeOK, CallOK
  <2>5. CASE r.id = NoId
    BY <2>2, <2>3, <2>4, <2>5, DecidedWithoutId DEF IndInv
  <2>6. CASE r.id # NoId
    <3>1. /\ out'[t] = r
          /\ \A u \in Threads : u # t => out'[u] = out[u]
      BY <1>0, <2>2 DEF TypeOK
    <3>2. \A id : Allocated(id) => Allocated(id)' /\ id # r.id
      <4>. SUFFICES ASSUME NEW id, Allocated(id) PROVE Allocated(id)' /\ id # r.id
        OBVIOUS
      <4>1. Allocated(id)'
        BY <1>a, <2>2, <2>3, AllocatedKept
      <4>2. PICK n \in 0 .. file.st.counter - 1 : id = Allocate(n)
        BY DEF Allocated
      <4>3. n \in Nat /\ n # file.st.counter
        BY <1>a
      <4>. QED
        BY <1>a, <2>3, <2>6, <4>1, <4>2, <4>3, AllocateInjective
    <3>3. \A id : id = r.id => Allocated(id)'
      <4>1. file.st.counter \in 0 .. file'.st.counter - 1
        BY <1>a, <2>2, <2>3, <2>6
      <4>. QED
        BY <2>3, <2>6, <4>1 DEF Allocated
    <3>4. IdsOK'
      BY <1>0, <2>2, <3>1, <3>2, <3>3 DEF IdsOK
    <3>5. IssuedUnique'
      BY <1>0, <2>2, <3>1, <3>2 DEF IdsOK, IssuedUnique
    <3>. QED
      BY <2>4, <3>4, <3>5 DEF IndInv
  <2>. QED
    BY <2>5, <2>6
<1>4. ASSUME NEW t \in Threads, Fault(t) PROVE IndInv'
  <2>. DEFINE r == Fail("internal")
              f == Effect(file, call[t])
  <2>1. call[t] \in Menu /\ Precheck(call[t]) = "none"
    BY <1>0, <1>4 DEF Fault, CallOK
  <2>2. /\ out' = [out EXCEPT ![t] = r] /\ file' \in {file, f}
        /\ phase' = [phase EXCEPT ![t] = "done"]
        /\ call' = call /\ issued' = issued
    BY <1>4 DEF Fault
  <2>3. IsFile(f) /\ f.st.counter \in Nat /\ file.st.counter <= f.st.counter
    BY <1>a, <2>1, AnswerTypes
  <2>4. IsResult(r) /\ r.id = NoId
    BY FailIsResult DEF Errors
  <2>. HIDE DEF r, f
  <2>5. TypeOK' /\ CallOK'
    BY <1>0, <2>2, <2>3, <2>4 DEF TypeOK, CallOK
  <2>. QED
    BY <1>a, <2>2, <2>3, <2>4, <2>5, DecidedWithoutId DEF IndInv
<1>5. ASSUME NEW t \in Threads, Degrade(t) PROVE IndInv'
  <2>. DEFINE r == Fail("internal")
  <2>1. IsResult(r) /\ r.id = NoId
    BY FailIsResult DEF Errors
  <2>2. /\ out' = [out EXCEPT ![t] = r] /\ file' = file /\ issued' = issued
        /\ phase[t] = "done" /\ phase' = phase /\ call' = call
    BY <1>5 DEF Degrade
  <2>. HIDE DEF r
  <2>3. TypeOK' /\ CallOK'
    BY <1>0, <2>1, <2>2 DEF TypeOK, CallOK
  <2>. QED
    BY <1>a, <2>1, <2>2, <2>3, DecidedWithoutId DEF IndInv
<1>6. ASSUME NEW t \in Threads, Return(t) PROVE IndInv'
  <2>. USE <1>6 DEF Return
  <2>1. TypeOK' /\ CallOK'
    BY <1>0, DoneIsResult DEF TypeOK, CallOK, IsResult
  <2>2. /\ out'[t] = Done
        /\ \A u \in Threads : u # t => out'[u] = out[u]
        /\ \A id \in issued' : id \in issued \/ (id = out[t].id /\ id # NoId)
        /\ \A id : Allocated(id)' <=> Allocated(id)
    BY <1>0 DEF TypeOK, Allocated
  <2>3. IdsOK'
    BY <1>0, <2>2, DoneIsResult DEF IdsOK
  <2>4. IssuedUnique'
    BY <1>0, <2>2, DoneIsResult DEF IssuedUnique
  <2>. QED
    BY <2>1, <2>3, <2>4 DEF IndInv
<1>7. ASSUME NEW p \in Procs, Crash(p) PROVE IndInv'
  <2>. USE <1>7 DEF Crash
  <2>1. TypeOK' /\ CallOK'
    BY <1>0, DoneIsResult DEF TypeOK, CallOK
  <2>2. /\ \A u \in Threads : out'[u] = out[u] \/ out'[u] = Done
        /\ issued' = issued
        /\ \A id : Allocated(id)' <=> Allocated(id)
    BY DEF Allocated
  <2>3. IdsOK' /\ IssuedUnique'
    BY <1>0, <2>2, DoneIsResult DEF IdsOK, IssuedUnique
  <2>. QED
    BY <2>1, <2>3 DEF IndInv
<1>8. CASE UNCHANGED vars
  BY <1>0, <1>8 DEF vars, IndInv, TypeOK, CallOK, IdsOK, IssuedUnique, Allocated
<1>. QED
  BY <1>1, <1>2, <1>3, <1>4, <1>5, <1>6, <1>7, <1>8 DEF Next

LEMMA IndInvHolds == Spec => []IndInv
  BY InitInv, NextInv, PTL DEF Spec

(***************************************************************************)
(* The theorems                                                            *)
(***************************************************************************)
\* state.json is always missing, as damaged as it was found, or well formed,
\* and every call has a result of the kind its method returns.
THEOREM SpecTypeCorrect == Spec => []TypeOK
<1>1. IndInv => TypeOK
  BY DEF IndInv
<1>. QED
  BY <1>1, IndInvHolds, PTL

\* The promised store hands out no id twice (idgen.go Allocate, store.go
\* Register): a client may take the id for the name of one entry for ever.
THEOREM SpecIdsUnique == Spec => []IssuedUnique
<1>1. IndInv => IssuedUnique
  BY DEF IndInv
<1>. QED
  BY <1>1, IndInvHolds, PTL

===============================================================================
