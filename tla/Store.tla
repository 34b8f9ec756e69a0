-------------------------------- MODULE Store --------------------------------
(***************************************************************************)
(* internal/store as it runs: goroutines of several processes that share   *)
(* one state.json and its .lock file.  withLockedState takes the mutex of  *)
(* its process, then the exclusive file lock, loads the file, runs the     *)
(* method's closure on the copy in memory, writes a temporary file and     *)
(* renames it over state.json, and lets go of the two locks in reverse;    *)
(* withSharedLock is the same with a shared file lock and no write.        *)
(* A step of the model is one of those, so that other goroutines, other    *)
(* processes, errors of the operating system and the death of a process    *)
(* can come between any two.                                               *)
(*                                                                         *)
(* The file lock is assumed to exclude only goroutines of different        *)
(* processes, the reading of it that lock.go gives: the mutex has to do    *)
(* the rest.                                                               *)
(***************************************************************************)
EXTENDS ChainState

CONSTANTS
  Procs,       \* processes: `mcp-chain serve`, or one CLI command after another
  Threads,     \* goroutines that call the store
  ProcOf,      \* the process of a thread
  NoThread,    \* the holder of a free mutex
  Menu,        \* the calls the threads may make
  MaxCounter,  \* bound: no register starts once the counter is this large
  InitFiles,   \* what state.json may hold at first
  Faults       \* what may go wrong: a subset of {"io", "crash"}

ASSUME ProcsAssumption == ProcOf \in [Threads -> Procs] /\ NoThread \notin Threads

ASSUME MenuAssumption ==
  /\ Menu \subseteq Calls
  /\ \A c \in Menu : c.op \in {"register", "register_with_id"} => c.tok \in Tokens

ASSUME BoundAssumption == MaxCounter \in Nat

ASSUME InitFilesAssumption == \A f \in InitFiles : IsFile(f)

ASSUME FaultsAssumption == Faults \subseteq {"io", "crash"}

VARIABLES
  file,    \* state.json
  mu,      \* Store.mu of a process: the thread that holds it
  flock,   \* the file lock a thread holds: "none", "sh" or "ex"
  pc,      \* where a thread is in withLockedState or withSharedLock
  call,    \* the call in progress
  buf,     \* the *state the thread has in memory
  out,     \* the result it will return
  issued   \* history: the ids that Register has returned to a caller

vars == <<file, mu, flock, pc, call, buf, out, issued>>

Init ==
  /\ file \in InitFiles
  /\ mu = [p \in Procs |-> NoThread]
  /\ flock = [t \in Threads |-> "none"]
  /\ pc = [t \in Threads |-> "idle"]
  /\ call = [t \in Threads |-> NoCall]
  /\ buf = [t \in Threads |-> EmptyState]
  /\ out = [t \in Threads |-> Done]
  /\ issued = {}

IoMayFail == "io" \in Faults

Step(t, from, to) ==
  /\ pc[t] = from
  /\ pc' = [pc EXCEPT ![t] = to]

SetOut(t, r) == out' = [out EXCEPT ![t] = r]

(***************************************************************************)
(* A method is called                                                      *)
(***************************************************************************)
\* The bound on the counter.
Admissible(c) == c.op = "register" => file.st.counter < MaxCounter

Invoke(t, c) ==
  /\ Step(t, "idle", "mutex")
  /\ Admissible(c)
  /\ Precheck(c) = "none"
  /\ call' = [call EXCEPT ![t] = c]
  /\ UNCHANGED <<file, mu, flock, buf, out, issued>>

Refuse(t, c) ==
  /\ Step(t, "idle", "return")
  /\ Precheck(c) # "none"
  /\ call' = [call EXCEPT ![t] = c]
  /\ SetOut(t, Fail(Precheck(c)))
  /\ UNCHANGED <<file, mu, flock, buf, issued>>

(***************************************************************************)
(* The two locks                                                           *)
(***************************************************************************)
LockMutexNever(t) ==   \* mutant: s.mu is not waited for
  /\ Step(t, "mutex", "flock")
  /\ UNCHANGED <<file, mu, flock, call, buf, out, issued>>

LockMutex(t) ==
  /\ Step(t, "mutex", "flock")
  /\ mu[ProcOf[t]] = NoThread
  /\ mu' = [mu EXCEPT ![ProcOf[t]] = t]
  /\ UNCHANGED <<file, flock, call, buf, out, issued>>

ModeShared(c) == "sh"   \* mutant: RLock on the writing path too

Mode(c) == IF ReadOnly(c) THEN "sh" ELSE "ex"

Compatible(t) ==
  \A u \in Threads :
    ProcOf[u] # ProcOf[t] /\ flock[u] # "none"
      => flock[u] = "sh" /\ Mode(call[t]) = "sh"

AcquireFlock(t) ==
  /\ Step(t, "flock", "load")
  /\ Compatible(t)
  /\ flock' = [flock EXCEPT ![t] = Mode(call[t])]
  /\ UNCHANGED <<file, mu, call, buf, out, issued>>

\* The lock file cannot be opened or locked.
FlockFails(t) ==
  /\ IoMayFail
  /\ Step(t, "flock", "unmutex")
  /\ SetOut(t, Fail("internal"))
  /\ UNCHANGED <<file, mu, flock, call, buf, issued>>

(***************************************************************************)
(* Under the locks                                                         *)
(***************************************************************************)
Load(t) ==
  /\ LoadError(file) = "none"
  /\ Step(t, "load", "apply")
  /\ buf' = [buf EXCEPT ![t] = file.st]
  /\ UNCHANGED <<file, mu, flock, call, out, issued>>

LoadFailsLocked(t) ==   \* mutant: a return that skips the deferred unlocks
  /\ LoadError(file) # "none"
  /\ Step(t, "load", "return")
  /\ SetOut(t, Fail(LoadError(file)))
  /\ UNCHANGED <<file, mu, flock, call, buf, issued>>

LoadFails(t) ==
  /\ Step(t, "load", "unlock")
  /\ \/ LoadError(file) # "none" /\ SetOut(t, Fail(LoadError(file)))
     \/ IoMayFail /\ SetOut(t, Fail("internal"))
  /\ UNCHANGED <<file, mu, flock, call, buf, issued>>

\* The closure runs on the copy in memory; after an error, or a read, nothing
\* is written and the copy is dropped.
RunClosure(t) ==
  LET o == Apply(buf[t], call[t])
  IN  /\ SetOut(t, o.res)
      /\ IF o.res.err # "none" \/ ReadOnly(call[t])
         THEN Step(t, "apply", "unlock") /\ buf' = [buf EXCEPT ![t] = EmptyState]
         ELSE Step(t, "apply", "write") /\ buf' = [buf EXCEPT ![t] = o.st]
      /\ UNCHANGED <<file, mu, flock, call, issued>>

WriteInPlace(t) ==   \* mutant: state.json itself is written piece by piece
  /\ Step(t, "write", "rename")
  /\ file' = [form |-> "corrupt", st |-> EmptyState]
  /\ UNCHANGED <<mu, flock, call, buf, out, issued>>

\* saveState writes a temporary file beside state.json.
WriteTemp(t) ==
  /\ Step(t, "write", "rename")
  /\ UNCHANGED <<file, mu, flock, call, buf, out, issued>>

Rename(t) ==
  /\ Step(t, "rename", "unlock")
  /\ file' = Saved(buf[t])
  /\ buf' = [buf EXCEPT ![t] = EmptyState]
  /\ UNCHANGED <<mu, flock, call, out, issued>>

\* The write, its fsync or the rename fails and the old file stays; or the
\* fsync of the directory fails when the new one is in place.
SaveFails(t) ==
  /\ IoMayFail
  /\ \/ Step(t, "write", "unlock") /\ UNCHANGED file
     \/ Step(t, "rename", "unlock") /\ UNCHANGED file
     \/ Step(t, "rename", "unlock") /\ file' = Saved(buf[t])
  /\ SetOut(t, Fail("internal"))
  /\ buf' = [buf EXCEPT ![t] = EmptyState]
  /\ UNCHANGED <<mu, flock, call, issued>>

(***************************************************************************)
(* The deferred functions, and the return                                  *)
(***************************************************************************)
UnlockOverrides(t) ==   \* mutant: the unlock error replaces an earlier one
  /\ Step(t, "unlock", "unmutex")
  /\ flock' = [flock EXCEPT ![t] = "none"]
  /\ \/ UNCHANGED out
     \/ IoMayFail /\ SetOut(t, Fail("internal"))
  /\ UNCHANGED <<file, mu, call, buf, issued>>

\* A lock that fails to be released goes with the Flock value that held it; the
\* error is reported only when there is no other.
Unlock(t) ==
  /\ Step(t, "unlock", "unmutex")
  /\ flock' = [flock EXCEPT ![t] = "none"]
  /\ \/ UNCHANGED out
     \/ IoMayFail /\ out[t].err = "none" /\ SetOut(t, Fail("internal"))
  /\ UNCHANGED <<file, mu, call, buf, issued>>

UnlockMutexForgotten(t) ==   \* mutant: s.mu.Unlock is missing
  /\ Step(t, "unmutex", "return")
  /\ UNCHANGED <<file, mu, flock, call, buf, out, issued>>

UnlockMutex(t) ==
  /\ Step(t, "unmutex", "return")
  /\ mu' = [mu EXCEPT ![ProcOf[t]] = NoThread]
  /\ UNCHANGED <<file, flock, call, buf, out, issued>>

Return(t) ==
  /\ Step(t, "return", "idle")
  /\ issued' = issued \cup ({out[t].id} \ {NoId})
  /\ call' = [call EXCEPT ![t] = NoCall]
  /\ SetOut(t, Done)
  /\ UNCHANGED <<file, mu, flock, buf>>

\* SIGKILL, or serve returning from Run while handlers are at work: the memory
\* is gone and the kernel frees the locks.  state.json stays as it is.
Crash(p) ==
  LET Dies(t) == ProcOf[t] = p
  IN  /\ "crash" \in Faults
      /\ mu' = [mu EXCEPT ![p] = NoThread]
      /\ flock' = [t \in Threads |-> IF Dies(t) THEN "none" ELSE flock[t]]
      /\ pc' = [t \in Threads |-> IF Dies(t) THEN "idle" ELSE pc[t]]
      /\ call' = [t \in Threads |-> IF Dies(t) THEN NoCall ELSE call[t]]
      /\ buf' = [t \in Threads |-> IF Dies(t) THEN EmptyState ELSE buf[t]]
      /\ out' = [t \in Threads |-> IF Dies(t) THEN Done ELSE out[t]]
      /\ UNCHANGED <<file, issued>>

Proceed(t) ==
  \/ LockMutex(t) \/ AcquireFlock(t)
  \/ Load(t) \/ LoadFails(t) \/ RunClosure(t)
  \/ WriteTemp(t) \/ Rename(t)
  \/ Unlock(t) \/ UnlockMutex(t) \/ Return(t)

Next ==
  \/ \E t \in Threads, c \in Menu : Invoke(t, c) \/ Refuse(t, c)
  \/ \E t \in Threads : Proceed(t) \/ FlockFails(t) \/ SaveFails(t)
  \/ \E p \in Procs : Crash(p)

Spec == Init /\ [][Next]_vars

\* A running goroutine goes on.  Blocked ones are served in turn: sync.Mutex
\* hands itself over after a millisecond, and flock(2) is assumed not to pass
\* over a waiter for ever while the lock keeps coming free.
Fairness ==
  \A t \in Threads :
    /\ WF_vars(Proceed(t))
    /\ SF_vars(LockMutex(t))
    /\ SF_vars(AcquireFlock(t))

FairSpec == Spec /\ Fairness

(***************************************************************************)
(* Properties                                                              *)
(***************************************************************************)
PCs == {"idle", "mutex", "flock", "load", "apply", "write", "rename",
        "unlock", "unmutex", "return"}

TypeOK ==
  /\ IsFile(file)
  /\ mu \in [Procs -> Threads \cup {NoThread}]
  /\ flock \in [Threads -> {"none", "sh", "ex"}]
  /\ pc \in [Threads -> PCs]
  /\ call \in [Threads -> Menu \cup {NoCall}]
  /\ buf = [t \in Threads |-> buf[t]]
  /\ out = [t \in Threads |-> out[t]]
  /\ \A t \in Threads : IsState(buf[t]) /\ IsResult(out[t])
  /\ \A id \in issued : IsId(id)

Live == file.st.records

InSection(t) == pc[t] \in {"load", "apply", "write", "rename", "unlock"}

Decided(t) == pc[t] \in {"unlock", "unmutex", "return"}

\* Nobody is between fl.Lock and fl.Unlock together with a writer: the mutex
\* keeps out the goroutines of its process, the file lock the other processes
\* (lock.go: the mutex MUST be taken before flock).
Exclusive ==
  \A t, u \in Threads :
    t # u /\ InSection(t) /\ InSection(u) => ReadOnly(call[t]) /\ ReadOnly(call[u])

\* The read-modify-write cycle loses no update: what a thread loaded is still
\* what the file holds when its closure runs, and what it is about to rename
\* into place is the file as it now is with this call applied, however long the
\* thread was preempted and whoever else called meanwhile.
NoLostUpdate ==
  \A t \in Threads :
    /\ pc[t] = "apply" => LoadError(file) = "none" /\ buf[t] = file.st
    /\ pc[t] \in {"write", "rename"} => buf[t] = Apply(file.st, call[t]).st

\* No id is handed out twice (idgen.go, store.go CORE-09): the id a Register
\* will return differs from every id returned before, by any process, and from
\* the id any other running Register will return, whatever was purged and
\* whoever crashed in between.
IssuedUnique ==
  \A t \in Threads :
    Decided(t) /\ out[t].id # NoId =>
      /\ out[t].id \notin issued
      /\ \A u \in Threads \ {t} : Decided(u) => out[u].id # out[t].id

\* A call that ends without an error has had its effect: when it lets go of the
\* file lock, state.json says what the caller will be told.
Told(live, c, res) ==
  CASE c.op = "register" ->
         res.id \in DOMAIN live /\ live[res.id] = NewRecord(c.tok)
    [] c.op = "register_with_id" ->
         c.id \in DOMAIN live /\ live[c.id] = NewRecord(c.tok)
    [] c.op = "resolve" -> c.id \in DOMAIN live /\ live[c.id].status = "resolved"
    [] c.op = "get" -> c.id \in DOMAIN live /\ res.recs = Keep(live, {c.id})
    [] c.op = "list" -> res.recs = live
    [] c.op = "purge" -> DOMAIN res.recs \cap DOMAIN live = {}

ReportedIsCommitted ==
  \A t \in Threads :
    pc[t] = "unlock" /\ out[t].err = "none" => Told(Live, call[t], out[t])

(***************************************************************************)
(* The inductive invariant that module StoreProofs proves                  *)
(***************************************************************************)
InMutex(t) == InSection(t) \/ pc[t] \in {"flock", "unmutex"}

InCall(t) == InMutex(t) \/ pc[t] = "mutex"

\* A call under way came from the menu and past its argument checks; a reading
\* one never gets as far as writing.
CallOK ==
  \A t \in Threads :
    /\ InCall(t) => call[t] \in Menu /\ Precheck(call[t]) = "none"
    /\ pc[t] \in {"write", "rename"} => ~ ReadOnly(call[t])

\* Who holds which lock where.
LocksOK ==
  \A t \in Threads :
    /\ InMutex(t) => mu[ProcOf[t]] = t
    /\ flock[t] = IF InSection(t) THEN Mode(call[t]) ELSE "none"

\* What the two copies of the state, in memory and in the file, have to do with
\* each other and with the result.
CopiesOK ==
  \A t \in Threads :
    /\ pc[t] = "apply" => LoadError(file) = "none" /\ buf[t] = file.st
    /\ pc[t] \in {"write", "rename"} =>
         /\ LoadError(file) = "none"
         /\ buf[t] = Apply(file.st, call[t]).st
         /\ out[t] = Apply(file.st, call[t]).res
         /\ out[t].err = "none"

\* Every id handed out, or about to be, was allocated before the counter got
\* to where it is, and two of them are of different counters.
Allocated(id) == \E n \in 0 .. file.st.counter - 1 : id = Allocate(n)

IdsOK ==
  /\ \A id \in issued : Allocated(id)
  /\ \A t \in Threads :
       Decided(t) /\ out[t].id # NoId => Allocated(out[t].id) /\ out[t].id \notin issued
  /\ \A t, u \in Threads :
       t # u /\ Decided(t) /\ Decided(u) /\ out[t].id # NoId => out[t].id # out[u].id

IndInv == TypeOK /\ CallOK /\ LocksOK /\ Exclusive /\ CopiesOK /\ IdsOK

(***************************************************************************)
(* What one replacement of state.json may do to the records in it          *)
(***************************************************************************)
Commits(t) == pc[t] = "rename" /\ pc'[t] = "unlock"

Kept == DOMAIN Live \cap DOMAIN Live'

\* A record keeps its owner for as long as it is there, and once resolved it is
\* never pending again: an agent that saw "resolved" may act on it.
RecordsPersist ==
  [][\A id \in Kept :
       /\ Live'[id].owner = Live[id].owner
       /\ Live[id].status = "resolved" => Live'[id].status = "resolved"]_file

\* A record turns resolved only by a Resolve for it that holds the token of the
\* record as it is in the file at that moment, or was told to force
\* (store.go: ErrNotOwner unless opts.Force).
ResolveAuthority ==
  [][\A id \in Kept :
       Live[id].status # Live'[id].status =>
         \E t \in Threads :
           /\ Commits(t)
           /\ call[t].op = "resolve" /\ call[t].id = id
           /\ "force" \in call[t].opts \/ call[t].tok = Live[id].owner]_file

\* A record disappears only by a Purge that selects it as it is in the file at
\* that moment: purging the resolved ones never takes a pending one along.
DeletedOnlyByPurge ==
  [][\A id \in DOMAIN Live \ DOMAIN Live' :
       \E t \in Threads :
         /\ Commits(t)
         /\ call[t].op = "purge" /\ id \in Purged(file.st, call[t])]_file

\* A Register adds its record and leaves every other as it is
\* (store.go RegisterWithID: "the wordlist allocation space is independent of
\* the slug namespace").
RegisterKeepsRecords ==
  [][\A t \in Threads :
       Commits(t) /\ call[t].op = "register" =>
         \A id \in DOMAIN Live : id \in DOMAIN Live' /\ Live'[id] = Live[id]]_file

\* A file that cannot be decoded, or is of another version, is never written
\* over: loadState's error ends the call before anything is saved.
FailClosed == [][file.form \in {"absent", "ok"}]_file

(***************************************************************************)
(* The store implements what it promises                                   *)
(***************************************************************************)
Phase ==
  [t \in Threads |-> IF pc[t] = "idle" THEN "idle"
                     ELSE IF Decided(t) THEN "done" ELSE "called"]

Reply == [t \in Threads |-> IF Decided(t) THEN out[t] ELSE Done]

Promise == INSTANCE ChainSpec WITH phase <- Phase, out <- Reply

\* Each call takes effect at one instant between its start and its return, or
\* reports an error; one that reports an error other than an internal one has
\* no effect.  The instant is the rename, or the load or the closure of a call
\* that writes nothing.
Linearizable == Promise!Spec

\* Every call returns, unless its process dies: no path through the errors
\* keeps a lock (the deferred unlocks of lock.go).
CallsReturn == \A t \in Threads : pc[t] # "idle" ~> pc[t] = "idle"

\* With readers in several processes a writer may wait for ever, but only
\* because they overlap for ever (lock.go: writers block until all readers
\* release): if the file lock keeps coming free, every call returns.
ReadersDrain == []<>(\A t \in Threads : flock[t] = "none")

CallsReturnIfReadersDrain == ReadersDrain => CallsReturn

==============================================================================
