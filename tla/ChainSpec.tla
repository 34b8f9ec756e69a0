------------------------------ MODULE ChainSpec ------------------------------
(***************************************************************************)
(* What internal/store promises its callers: every call that is not        *)
(* refused by its argument checks takes effect on state.json at one        *)
(* instant between its start and its return, or reports an error.          *)
(* A call that reports an internal error may still have taken effect, and  *)
(* so may one whose process died: nobody can tell those apart.             *)
(*                                                                         *)
(* The locks, the temporary file and the copies in memory of the code are  *)
(* absent here; module Store has them and is shown to implement this.      *)
(***************************************************************************)
EXTENDS ChainState

CONSTANTS
  Procs,       \* processes: `mcp-chain serve`, or one CLI command after another
  Threads,     \* goroutines that call the store
  ProcOf,      \* the process of a thread
  Menu,        \* the calls the threads may make
  MaxCounter,  \* bound: no register starts once the counter is this large
  InitFiles    \* what state.json may hold at first

ASSUME ProcsAssumption == ProcOf \in [Threads -> Procs]

\* A serve process has a token: it ends before it serves if NewOwnerToken fails.
ASSUME MenuAssumption ==
  /\ Menu \subseteq Calls
  /\ \A c \in Menu : c.op \in {"register", "register_with_id"} => c.tok \in Tokens

ASSUME BoundAssumption == MaxCounter \in Nat

ASSUME InitFilesAssumption == \A f \in InitFiles : IsFile(f)

VARIABLES
  file,    \* state.json
  phase,   \* of a thread: "idle", "called" or "done" (decided, not returned)
  call,    \* the call in progress
  out,     \* its result, once decided
  issued   \* history: the ids that Register has returned to a caller

vars == <<file, phase, call, out, issued>>

Init ==
  /\ file \in InitFiles
  /\ phase = [t \in Threads |-> "idle"]
  /\ call = [t \in Threads |-> NoCall]
  /\ out = [t \in Threads |-> Done]
  /\ issued = {}

\* The bound on the counter.
Admissible(c) == c.op = "register" => file.st.counter < MaxCounter

Invoke(t, c) ==
  /\ phase[t] = "idle"
  /\ Admissible(c)
  /\ Precheck(c) = "none"
  /\ phase' = [phase EXCEPT ![t] = "called"]
  /\ call' = [call EXCEPT ![t] = c]
  /\ UNCHANGED <<file, out, issued>>

\* A call whose arguments are refused touches neither a lock nor the file.
Refuse(t, c) ==
  /\ phase[t] = "idle"
  /\ Precheck(c) # "none"
  /\ phase' = [phase EXCEPT ![t] = "done"]
  /\ call' = [call EXCEPT ![t] = c]
  /\ out' = [out EXCEPT ![t] = Fail(Precheck(c))]
  /\ UNCHANGED <<file, issued>>

\* The result of c on file f, and the file it leaves.
Answer(f, c) ==
  IF LoadError(f) # "none" THEN Fail(LoadError(f)) ELSE Apply(f.st, c).res

Effect(f, c) ==
  IF Answer(f, c).err = "none" /\ ~ ReadOnly(c) THEN Saved(Apply(f.st, c).st) ELSE f

Perform(t) ==
  /\ phase[t] = "called"
  /\ phase' = [phase EXCEPT ![t] = "done"]
  /\ out' = [out EXCEPT ![t] = Answer(file, call[t])]
  /\ file' = Effect(file, call[t])
  /\ UNCHANGED <<call, issued>>

\* An operating-system error, before or after the call took effect.
Fault(t) ==
  /\ phase[t] = "called"
  /\ phase' = [phase EXCEPT ![t] = "done"]
  /\ out' = [out EXCEPT ![t] = Fail("internal")]
  /\ file' \in {file, Effect(file, call[t])}
  /\ UNCHANGED <<call, issued>>

\* An error found after the call was decided replaces a success, never an error.
Degrade(t) ==
  /\ phase[t] = "done"
  /\ out[t].err = "none"
  /\ out' = [out EXCEPT ![t] = Fail("internal")]
  /\ UNCHANGED <<file, phase, call, issued>>

Return(t) ==
  /\ phase[t] = "done"
  /\ phase' = [phase EXCEPT ![t] = "idle"]
  /\ call' = [call EXCEPT ![t] = NoCall]
  /\ out' = [out EXCEPT ![t] = Done]
  /\ issued' = issued \cup ({out[t].id} \ {NoId})
  /\ UNCHANGED file

\* The process is killed, or exits while a handler runs.
Crash(p) ==
  /\ phase' = [t \in Threads |-> IF ProcOf[t] = p THEN "idle" ELSE phase[t]]
  /\ call' = [t \in Threads |-> IF ProcOf[t] = p THEN NoCall ELSE call[t]]
  /\ out' = [t \in Threads |-> IF ProcOf[t] = p THEN Done ELSE out[t]]
  /\ UNCHANGED <<file, issued>>

Next ==
  \/ \E t \in Threads :
       \/ \E c \in Menu : Invoke(t, c) \/ Refuse(t, c)
       \/ Perform(t)
       \/ Fault(t)
       \/ Degrade(t)
       \/ Return(t)
  \/ \E p \in Procs : Crash(p)

Spec == Init /\ [][Next]_vars

(***************************************************************************)
(* Properties                                                              *)
(***************************************************************************)
TypeOK ==
  /\ IsFile(file)
  /\ phase \in [Threads -> {"idle", "called", "done"}]
  /\ call \in [Threads -> Menu \cup {NoCall}]
  /\ out = [t \in Threads |-> out[t]]
  /\ \A t \in Threads : IsResult(out[t])
  /\ \A id \in issued : IsId(id)

\* Ids are never handed out twice (idgen.go: the counter only grows and
\* Allocate is injective, across the end of the word list and across the
\* step from four to five hexadecimal digits; purge leaves the counter alone).
IssuedUnique ==
  \A t \in Threads :
    out[t].id # NoId =>
      /\ out[t].id \notin issued
      /\ \A u \in Threads \ {t} : out[u].id # out[t].id

(***************************************************************************)
(* The inductive invariant that module SpecProofs proves                   *)
(***************************************************************************)
\* A call that waits to be decided came from the menu and past its argument
\* checks; a thread has a result only once it is decided.
CallOK ==
  \A t \in Threads :
    /\ phase[t] = "called" => call[t] \in Menu /\ Precheck(call[t]) = "none"
    /\ phase[t] # "done" => out[t] = Done

\* Every id handed out, or about to be, was allocated before the counter got
\* to where it is.
Allocated(id) == \E n \in 0 .. file.st.counter - 1 : id = Allocate(n)

IdsOK ==
  /\ \A id \in issued : Allocated(id)
  /\ \A t \in Threads : out[t].id # NoId => Allocated(out[t].id)

IndInv == TypeOK /\ CallOK /\ IdsOK /\ IssuedUnique

==============================================================================
