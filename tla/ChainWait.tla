------------------------------ MODULE ChainWait ------------------------------
(***************************************************************************)
(* plugin/scripts/chain-wait.sh, the monitor behind /mcp-chain:wait, on    *)
(* top of the atomic store.  A waiter runs `mcp-chain status ID` once a    *)
(* second, as a process of its own, until that exits with something other  *)
(* than "pending" or the budget is used up.  The other threads register,   *)
(* resolve and purge meanwhile.                                            *)
(*                                                                         *)
(* Time passes in ticks, several to a second: `date +%s` cuts off the      *)
(* fraction, `sleep 1` does not.  Besides, the wall clock that date reads  *)
(* may be set.  The wording of messages is left out.                       *)
(***************************************************************************)
EXTENDS ChainSpec, WaitArgs

CONSTANTS
  Waiters,       \* threads that stand for the status processes of a monitor
  Target,        \* the id a monitor waits for
  CommandLines,  \* the arguments it may be given
  Second,        \* ticks in a second
  Jumps,         \* by how many ticks the wall clock may be set
  MaxShift,      \* bound: how far it may get from where it was, in ticks
  Faults         \* what may go wrong: a subset of {"io", "crash", "install", "panic"}

StatusCall(w) == [op |-> "get", tok |-> NoToken, id |-> Target[w], opts |-> {}]

ASSUME WaitersAssumption ==
  /\ Waiters \subseteq Threads
  /\ \A w \in Waiters, t \in Threads : ProcOf[t] = ProcOf[w] => t = w
  /\ Target \in [Waiters -> Names]
  /\ \A w \in Waiters : StatusCall(w) \in Menu

ASSUME CommandLinesAssumption ==
  \A w \in Waiters : \A args \in CommandLines[w] :
    Accepted(Parse(args)) =>
      Parse(args).id = Target[w] /\ Parse(args).duration \in Texts \cup {Empty}

ASSUME TimeAssumption ==
  /\ Second \in Nat \ {0}
  /\ Jumps \subseteq Int /\ MaxShift \in Nat

ASSUME WaitFaultsAssumption == Faults \subseteq {"io", "crash", "install", "panic"}

VARIABLES
  at,        \* where the monitor is in its script
  code,      \* $CODE, the exit code of the last status that counts
  duration,  \* $DURATION
  budget,    \* $BUDGET
  frac,      \* how far into a second the monitor was when it read START
  age,       \* ticks since then, counted until the budget is well past
  shift,     \* by how much the wall clock has been set since then
  nap,       \* ticks `sleep 1` has left
  seen       \* history: what the entry was since that status was launched, and
             \* "broken" if a status failed by itself

given == <<duration, budget, frac>>

time == <<age, shift>>

waitVars == <<at, code, given, time, nap>>

\* Refused is a command line that leads to the usage or an error.
Ended == {"continue", "error", "timeout", "refused"}

Running(w) == at[w] \notin {"ready"} \cup Ended

Fresh == [w \in Waiters |-> 0]

WaitInit ==
  /\ Init
  /\ at = [w \in Waiters |-> "ready"]
  /\ code = Fresh
  /\ duration = [w \in Waiters |-> Empty]
  /\ budget = Fresh
  /\ frac = Fresh
  /\ age = Fresh
  /\ shift = Fresh
  /\ nap = Fresh
  /\ seen = [w \in Waiters |-> {}]

(***************************************************************************)
(* The entry a monitor waits for, and the exit code of status              *)
(***************************************************************************)
EntryIn(f, id) ==
  CASE LoadError(f) # "none" -> "unreadable"
    [] LoadError(f) = "none" /\ id \notin DOMAIN f.st.records -> "absent"
    [] OTHER -> f.st.records[id].status

Entry(w) == EntryIn(file, Target[w])

StatusCodeKnown(w, res) ==   \* mutant: 0 for every known id
  IF res.err = "none" THEN 0 ELSE 1

StatusCode(w, res) ==
  CASE res.err = "none" /\ res.recs[Target[w]].status = "resolved" -> 0
    [] res.err = "none" /\ res.recs[Target[w]].status = "pending"  -> 2
    [] OTHER -> 1

\* The codes of a status that does not get to call the store: its state path
\* cannot be resolved, the binary cannot be run or is not found.
BrokenCodes == {1, 126, 127}

\* The command is a wrapper (commands/wait.md: MCP_CHAIN_BIN) that first looks
\* after the installed binary.  If that fails it ends with the code of the
\* command that failed: 1 for one, 2 for tar, 22 for curl.
InstallCodes == {1, 2, 22}

\* The Go runtime ends a program that panics, in init of idgen or later, or that
\* gets no memory, with 2; one that is killed has 137 for the shell.
PanicCode == 2
KilledCode == 137

Breakage ==
  (IF "io" \in Faults THEN BrokenCodes ELSE {})
    \cup (IF "install" \in Faults THEN InstallCodes ELSE {})
    \cup (IF "panic" \in Faults THEN {PanicCode} ELSE {})

DeathCodes ==
  (IF "crash" \in Faults THEN {KilledCode} ELSE {})
    \cup (IF "panic" \in Faults THEN {PanicCode} ELSE {})

(***************************************************************************)
(* The script                                                              *)
(***************************************************************************)
Go(w, from, to) == at[w] = from /\ at' = [at EXCEPT ![w] = to]

SetCode(w, c) == code' = [code EXCEPT ![w] = c]

\* The arguments are read, and the duration among them.
Start(w) ==
  /\ \E args \in CommandLines[w] :
       LET line == Parse(args)
       IN  \/ /\ Accepted(line)
              /\ Go(w, "ready", "poll")
              /\ duration' = [duration EXCEPT ![w] = line.duration]
              /\ budget' = [budget EXCEPT ![w] = Budget(line.duration)]
              /\ \E f \in 0 .. Second - 1 : frac' = [frac EXCEPT ![w] = f]
           \/ /\ ~ Accepted(line)
              /\ Go(w, "ready", "refused")
              /\ UNCHANGED given
  /\ UNCHANGED <<code, time, nap>>
  /\ UNCHANGED vars

Launch(w) ==
  /\ Go(w, "poll", "status")
  /\ Invoke(w, StatusCall(w))
  /\ UNCHANGED <<code, given, time, nap>>

StatusExits(w) ==
  /\ Go(w, "status", "case")
  /\ Return(w)
  /\ SetCode(w, StatusCode(w, out[w]))
  /\ UNCHANGED <<given, time, nap>>

\* A status, the first or the second, that does not get as far as the store.
StatusBreaks(w) ==
  /\ \E c \in Breakage :
       \/ Go(w, "poll", "case") /\ SetCode(w, c)
       \/ code[w] \notin {0, 2} /\ Go(w, "case", "error") /\ UNCHANGED code
  /\ UNCHANGED <<given, time, nap>>
  /\ UNCHANGED vars

Continue(w) ==
  /\ code[w] = 0
  /\ Go(w, "case", "continue")
  /\ UNCHANGED <<code, given, time, nap>>
  /\ UNCHANGED vars

ElapsedHasty(w) == (frac[w] + age[w] + shift[w]) \div Second + 1   \* mutant: off by one

ElapsedStuck(w) == 0   \* mutant: START is read again in every round

\* NOW - START
Elapsed(w) == (frac[w] + age[w] + shift[w]) \div Second

Spent(w) == budget[w] > 0 /\ Elapsed(w) >= budget[w]

TimeOut(w) ==
  /\ code[w] = 2
  /\ Spent(w)
  /\ Go(w, "case", "timeout")
  /\ UNCHANGED <<code, given, time, nap>>
  /\ UNCHANGED vars

Sleep(w) ==
  /\ code[w] = 2
  /\ ~ Spent(w)
  /\ Go(w, "case", "sleep")
  /\ nap' = [nap EXCEPT ![w] = Second]
  /\ UNCHANGED <<code, given, time>>
  /\ UNCHANGED vars

Wake(w) ==
  /\ nap[w] = 0
  /\ Go(w, "sleep", "poll")
  /\ UNCHANGED <<code, given, time, nap>>
  /\ UNCHANGED vars

RecheckRetries(w) ==   \* mutant: an error is taken for a passing one
  /\ code[w] \notin {0, 2}
  /\ Go(w, "case", "sleep")
  /\ UNCHANGED <<code, given, time, nap>>
  /\ UNCHANGED vars

\* Any other code: status runs once more, for its message only.
Recheck(w) ==
  /\ code[w] \notin {0, 2}
  /\ Go(w, "case", "again")
  /\ Invoke(w, StatusCall(w))
  /\ UNCHANGED <<code, given, time, nap>>

GiveUp(w) ==
  /\ Go(w, "again", "error")
  /\ Return(w)
  /\ UNCHANGED <<code, given, time, nap>>

\* The status process is killed, or panics, within its call of the store.
StatusDies(w) ==
  /\ \E c \in DeathCodes :
       \/ Go(w, "status", "case") /\ SetCode(w, c)
       \/ Go(w, "again", "error") /\ UNCHANGED code
  /\ Crash(ProcOf[w])
  /\ UNCHANGED <<given, time, nap>>

Poll(w) ==
  \/ Launch(w) \/ StatusExits(w) \/ StatusBreaks(w)
  \/ Continue(w) \/ TimeOut(w) \/ Sleep(w) \/ Wake(w)
  \/ Recheck(w) \/ GiveUp(w) \/ StatusDies(w)

Monitor(w) == Start(w) \/ Poll(w)

(***************************************************************************)
(* The rest of the system                                                  *)
(***************************************************************************)
Clients == Threads \ Waiters

Client(t) ==
  /\ \/ \E c \in Menu : Invoke(t, c) \/ Refuse(t, c)
     \/ Return(t)
     \/ "crash" \in Faults /\ Crash(ProcOf[t])
  /\ UNCHANGED waitVars

\* The store at work for any thread.
Serve(t) ==
  /\ \/ Perform(t)
     \/ "io" \in Faults /\ (Fault(t) \/ Degrade(t))
  /\ UNCHANGED waitVars

\* A monitor without a timeout never looks at the clock.
Timed(w) == Running(w) /\ budget[w] > 0

AgeBound(w) == (budget[w] + 1) * Second + MaxShift

Tick ==
  /\ age' = [w \in Waiters |->
               IF Timed(w) /\ age[w] < AgeBound(w) THEN age[w] + 1 ELSE age[w]]
  /\ nap' = [w \in Waiters |-> IF nap[w] > 0 THEN nap[w] - 1 ELSE 0]
  /\ UNCHANGED <<at, code, given, shift>>
  /\ UNCHANGED vars

\* The wall clock is set, for every monitor.
SetClock ==
  /\ \E d \in Jumps :
       shift' = [w \in Waiters |-> IF Timed(w) THEN shift[w] + d ELSE shift[w]]
  /\ \A w \in Waiters : shift'[w] \in - MaxShift .. MaxShift
  /\ UNCHANGED <<at, code, given, age, nap>>
  /\ UNCHANGED vars

\* A status of the monitor does not say what the entry is.
Breaks(w) == StatusBreaks(w) \/ StatusDies(w) \/ Fault(w) \/ Degrade(w)

\* seen starts anew when a status that counts is launched and stays as it is
\* once the monitor has ended.
Since(w) == IF at[w] = "poll" /\ at'[w] # "poll" THEN {} ELSE seen[w]

Observe ==
  seen' = [w \in Waiters |->
             IF at[w] \in Ended THEN seen[w]
             ELSE Since(w) \cup {Entry(w)'}
                    \cup (IF Breaks(w) THEN {"broken"} ELSE {})]

WaitNext ==
  /\ \/ \E w \in Waiters : Monitor(w)
     \/ \E t \in Clients : Client(t)
     \/ \E t \in Threads : Serve(t)
     \/ Tick
     \/ SetClock
  /\ Observe

allVars == <<vars, waitVars, seen>>

WaitSpec == WaitInit /\ [][WaitNext]_allVars

\* A monitor goes on, its status command comes back (CallsReturn of module
\* Store), and time passes.  Starting is up to the agent.
WaitFairness ==
  /\ \A w \in Waiters :
       /\ WF_allVars(Poll(w) /\ Observe)
       /\ WF_allVars(Perform(w) /\ UNCHANGED waitVars /\ Observe)
  /\ WF_allVars(Tick /\ Observe)

FairWait == WaitSpec /\ WaitFairness

(***************************************************************************)
(* Properties                                                              *)
(***************************************************************************)
Ats == {"ready", "poll", "status", "case", "sleep", "again"} \cup Ended

Codes == {0, 1, 2, KilledCode} \cup BrokenCodes \cup InstallCodes

Entries == {"unreadable", "absent", "pending", "resolved"}

WaitTypeOK ==
  /\ TypeOK
  /\ at \in [Waiters -> Ats]
  /\ code \in [Waiters -> Codes]
  /\ duration \in [Waiters -> Durations]
  /\ budget \in [Waiters -> 0 .. MaxBudget]
  /\ frac \in [Waiters -> 0 .. Second - 1]
  /\ age \in [Waiters -> Nat]
  /\ shift \in [Waiters -> Int]
  /\ nap \in [Waiters -> 0 .. Second]
  /\ seen \in [Waiters -> SUBSET (Entries \cup {"broken"})]

\* Nothing but a pending entry makes status end with 2.
OnlyPendingIsTwo == Faults \cap {"install", "panic"} = {}

\* What a monitor ends with was so at some moment after it launched the status
\* that decided: "continue" opens the gate only on an entry that was resolved,
\* whoever purges it or registers it anew in between; a timeout is declared
\* only on one that was still pending, if installing works and status does not
\* panic; and an error means that the entry was not there, or the file
\* unreadable, unless a status failed by itself meanwhile (chain-wait.sh: the
\* codes 0, 2 and * of the case).
VerdictWasTrue ==
  \A w \in Waiters :
    /\ at[w] = "continue" => "resolved" \in seen[w]
    /\ at[w] = "timeout" /\ OnlyPendingIsTwo => "pending" \in seen[w]
    /\ at[w] = "error" => seen[w] \cap {"absent", "unreadable", "broken"} # {}

\* The timeout comes less than a second early, by the wall clock, and never to a
\* monitor without one (chain-wait.sh: NOW - START of whole seconds, each cut
\* off, so that the difference may exceed the time that has passed by a
\* fraction; and by as much as the clock has been set forward).
LateEnough(w) ==
  budget[w] > 0 /\ age[w] + shift[w] > (budget[w] - 1) * Second

TimeoutInTime == \A w \in Waiters : at[w] = "timeout" => LateEnough(w)

\* A monitor with a timeout ends, whatever is done to its entry, whatever fails
\* and however the wall clock is set.
TimedWaitEnds ==
  \A w \in Waiters : budget[w] > 0 /\ Running(w) ~> at[w] \in Ended

\* A monitor that has been given a duration, and has gone on with it, ends
\* (chain-wait.sh: "Poll mcp-chain status until resolved, error, or timeout").
AskedWaitEnds ==
  \A w \in Waiters : duration[w] # Empty /\ Running(w) ~> at[w] \in Ended

\* A monitor ends, with a timeout or without, if its entry is from some moment
\* on never pending again: neither a resolve nor a purge is missed for good.  This
\* holds as long as nothing but a pending entry makes status end with 2.
SettledWaitEnds ==
  \A w \in Waiters :
    <>[](Entry(w) # "pending") => (Running(w) ~> at[w] \in Ended)

\* A monitor polls again only for an entry that it has found pending, and ends
\* when status fails (chain-wait.sh: "pending - keep polling", "any other code
\* (1, 127, 126, etc.) -> error").
PollsOnlyPending ==
  \A w \in Waiters : at[w] = "sleep" => "pending" \in seen[w]

(***************************************************************************)
(* The inductive invariant that module WaitProofs proves                   *)
(***************************************************************************)
\* What the entry was since the status was launched bears out its exit code c.
Backed(w, c) ==
  /\ c = 0 => "resolved" \in seen[w]
  /\ c = 2 /\ OnlyPendingIsTwo => "pending" \in seen[w]
  /\ c \notin {0, 2} => seen[w] \cap {"absent", "unreadable", "broken"} # {}

\* A monitor is in a call of the store exactly while a status of its own runs,
\* and what that says, or said, is backed.
MonitorOK(w) ==
  /\ at[w] \in {"status", "again"} => phase[w] # "idle" /\ call[w] = StatusCall(w)
  /\ at[w] \notin {"status", "again"} => phase[w] = "idle"
  /\ at[w] = "status" => Entry(w) \in seen[w]
  /\ at[w] = "status" /\ phase[w] = "done" => Backed(w, StatusCode(w, out[w]))
  /\ at[w] \in {"case", "again"} => Backed(w, code[w])
  /\ at[w] = "again" => code[w] \notin {0, 2}
  /\ at[w] = "continue" => Backed(w, 0)
  /\ at[w] = "timeout" => Backed(w, 2) /\ LateEnough(w)
  /\ at[w] = "error" => Backed(w, 1)

WaitInv == IndInv /\ WaitTypeOK /\ \A w \in Waiters : MonitorOK(w)

==============================================================================
