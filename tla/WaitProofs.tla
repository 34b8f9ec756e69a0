------------------------------ MODULE WaitProofs ------------------------------
(***************************************************************************)
(* Theorems about ChainWait, for any number of monitors, clients and       *)
(* entries, any timeouts and any length of a tick, with every fault.       *)
(***************************************************************************)
EXTENDS ChainWait, SpecProofs

(***************************************************************************)
(* A monitor uses the store by its calls only                              *)
(***************************************************************************)
LEMMA StepImplements == [WaitNext]_allVars => [Next]_vars
<1>. SUFFICES ASSUME [WaitNext]_allVars PROVE [Next]_vars
  OBVIOUS
<1>1. ASSUME NEW w \in Waiters, Monitor(w) PROVE [Next]_vars
  <2>1. w \in Threads /\ StatusCall(w) \in Menu /\ ProcOf[w] \in Procs
    BY WaitersAssumption, ProcsAssumption
  <2>2. \/ Invoke(w, StatusCall(w)) \/ Return(w) \/ Crash(ProcOf[w])
        \/ UNCHANGED vars
    BY <1>1 DEF Monitor, Poll, Start, Launch, StatusExits, StatusBreaks, Continue, TimeOut,
                Sleep, Wake, Recheck, GiveUp, StatusDies
  <2>. QED
    BY <2>1, <2>2 DEF Next
<1>2. ASSUME NEW t \in Clients, Client(t) PROVE Next
  BY <1>2, ProcsAssumption DEF Client, Clients, Next
<1>3. ASSUME NEW t \in Threads, Serve(t) PROVE Next
  BY <1>3 DEF Serve, Next
<1>4. Tick \/ SetClock => UNCHANGED vars
  BY DEF Tick, SetClock
<1>5. UNCHANGED allVars => UNCHANGED vars
  BY DEF allVars
<1>. QED
  BY <1>1, <1>2, <1>3, <1>4, <1>5 DEF WaitNext

\* Monitors, clients and clock together are clients of the promised store: all
\* that holds of ChainSpec holds with monitors at work.
THEOREM MonitorsAreClients == WaitSpec => Spec
<1>1. WaitInit => Init
  BY DEF WaitInit
<1>. QED
  BY <1>1, StepImplements, PTL DEF WaitSpec, Spec

(***************************************************************************)
(* Types                                                                   *)
(***************************************************************************)
LEMMA WaiterFacts ==
  ASSUME NEW w \in Waiters
  PROVE  /\ w \in Threads /\ StatusCall(w) \in Menu
         /\ \A t \in Threads : ProcOf[t] = ProcOf[w] => t = w
BY WaitersAssumption

LEMMA EntryIsEntry ==
  ASSUME NEW f, IsFile(f), NEW id
  PROVE  EntryIn(f, id) \in Entries
<1>1. CASE LoadError(f) # "none" \/ id \notin DOMAIN f.st.records
  BY <1>1 DEF EntryIn, Entries
<1>2. CASE LoadError(f) = "none" /\ id \in DOMAIN f.st.records
  <2>1. IsRecords(f.st.records)
    BY FileParts, StateParts
  <2>2. f.st.records[id].status \in {"pending", "resolved"}
    BY <1>2, <2>1 DEF IsRecords, Record, Status
  <2>. QED
    BY <1>2, <2>2 DEF EntryIn, Entries
<1>. QED
  BY <1>1, <1>2

LEMMA StatusCodes ==
  ASSUME NEW w, NEW res
  PROVE  StatusCode(w, res) \in {0, 1, 2}
BY DEF StatusCode

ScriptTypeOK ==
  /\ at \in [Waiters -> Ats]
  /\ code \in [Waiters -> Codes]
  /\ duration \in [Waiters -> Durations]
  /\ budget \in [Waiters -> 0 .. MaxBudget]
  /\ frac \in [Waiters -> 0 .. Second - 1]
  /\ age \in [Waiters -> Nat]
  /\ shift \in [Waiters -> Int]
  /\ nap \in [Waiters -> 0 .. Second]

LEMMA AWeek ==
  MaxBudget \in Nat /\ 0 \in 0 .. MaxBudget
<1>1. MaxBudget \in Nat
  BY SMT DEF MaxBudget
<1>. QED
  BY <1>1

\* What a command line the script goes on with leads to.
LEMMA AcceptedBudget ==
  ASSUME NEW line, Accepted(line)
  PROVE  Budget(line.duration) \in 0 .. MaxBudget
<1>1. ~ Refused(line.duration) /\ MaxBudget \in Nat /\ 0 \in 0 .. MaxBudget
  BY AWeek DEF Accepted
<1>2. CASE line.duration = Empty \/ Dropped(line.duration)
  BY <1>1, <1>2 DEF Budget
<1>3. CASE line.duration # Empty /\ ~ Dropped(line.duration)
  BY <1>1, <1>3 DEF Budget, Refused
<1>. QED
  BY <1>2, <1>3

LEMMA TextsAreDurations ==
  Texts \cup {Empty} \subseteq Durations
<1>1. Empty \in Durations
  BY DEF Empty, Durations
<1>. QED
  BY <1>1, TextsAssumption

LEMMA TypesKept ==
  ASSUME WaitTypeOK, TypeOK', [WaitNext]_allVars
  PROVE  WaitTypeOK'
<1>. USE DEF WaitTypeOK, ScriptTypeOK, Go, SetCode, given, time
<1>. USE TimeAssumption
<1>1. ASSUME WaitNext PROVE ScriptTypeOK'
  <2>0. ASSUME NEW w \in Waiters, Start(w) PROVE ScriptTypeOK'
    <3>1. PICK args \in CommandLines[w] :
            \/ /\ Accepted(Parse(args))
               /\ Go(w, "ready", "poll")
               /\ duration' = [duration EXCEPT ![w] = Parse(args).duration]
               /\ budget' = [budget EXCEPT ![w] = Budget(Parse(args).duration)]
               /\ \E f \in 0 .. Second - 1 : frac' = [frac EXCEPT ![w] = f]
            \/ Go(w, "ready", "refused") /\ UNCHANGED given
      BY <2>0 DEF Start
    <3>2. UNCHANGED <<code, time, nap>>
      BY <2>0 DEF Start
    <3>3. Accepted(Parse(args)) =>
            Parse(args).duration \in Durations /\ Budget(Parse(args).duration) \in 0 .. MaxBudget
      BY AcceptedBudget, CommandLinesAssumption, TextsAreDurations
    <3>4. "poll" \in Ats /\ "refused" \in Ats
      BY DEF Ats, Ended
    <3>. QED
      BY <3>1, <3>2, <3>3, <3>4
  <2>1. ASSUME NEW w \in Waiters, Launch(w) \/ Continue(w) \/ TimeOut(w)
                 \/ Wake(w) \/ Recheck(w) \/ GiveUp(w)
        PROVE  ScriptTypeOK'
    BY <2>1 DEF Launch, Continue, TimeOut, Wake, Recheck, GiveUp, Ats, Ended
  <2>2. ASSUME NEW w \in Waiters, StatusExits(w) \/ StatusBreaks(w) \/ StatusDies(w)
        PROVE  ScriptTypeOK'
    <3>1. /\ Breakage \subseteq Codes /\ DeathCodes \subseteq Codes
          /\ {0, 1, 2} \subseteq Codes
      BY DEF Breakage, DeathCodes, PanicCode, Codes
    <3>2. "case" \in Ats /\ "error" \in Ats
      BY DEF Ats, Ended
    <3>. QED
      BY <2>2, <3>1, <3>2, StatusCodes DEF StatusExits, StatusBreaks, StatusDies
  <2>3. ASSUME NEW w \in Waiters, Sleep(w) PROVE ScriptTypeOK'
    BY <2>3 DEF Sleep, Ats
  <2>4. CASE Tick \/ SetClock
    BY <2>4 DEF Tick, SetClock
  <2>5. ASSUME NEW t \in Threads, Client(t) \/ Serve(t) PROVE ScriptTypeOK'
    BY <2>5 DEF Client, Serve, waitVars
  <2>. QED
    BY <1>1, <2>0, <2>1, <2>2, <2>3, <2>4, <2>5 DEF WaitNext, Monitor, Poll, Clients
<1>2. WaitNext => seen' \in [Waiters -> SUBSET (Entries \cup {"broken"})]
  <2>. SUFFICES ASSUME WaitNext PROVE seen' \in [Waiters -> SUBSET (Entries \cup {"broken"})]
    OBVIOUS
  <2>1. \A w \in Waiters : Entry(w)' \in Entries
    <3>1. IsFile(file)'
      BY DEF TypeOK
    <3>. QED
      BY <3>1, EntryIsEntry DEF Entry
  <2>. QED
    BY <2>1 DEF WaitNext, Observe, Since
<1>3. CASE UNCHANGED allVars
  BY <1>3 DEF allVars, waitVars
<1>. QED
  BY <1>1, <1>2, <1>3

(***************************************************************************)
(* The inductive invariant                                                 *)
(***************************************************************************)
\* What a status of a monitor finds, and does not change.
LEMMA StatusTells ==
  ASSUME IsFile(file), NEW w \in Waiters
  PROVE  /\ Effect(file, StatusCall(w)) = file
         /\ LET c == StatusCode(w, Answer(file, StatusCall(w)))
            IN  /\ c = 0 => Entry(w) = "resolved"
                /\ c = 2 => Entry(w) = "pending"
                /\ c \notin {0, 2} => Entry(w) \in {"absent", "unreadable"}
<1>. DEFINE q == StatusCall(w)
            id == Target[w]
            recs == file.st.records
            res == Answer(file, q)
<1>1. q.op = "get" /\ q.id = id
  BY DEF StatusCall
<1>2. Effect(file, q) = file
  BY <1>1 DEF Effect, ReadOnly
<1>3. CASE LoadError(file) # "none"
  <2>1. res.err # "none"
    BY <1>3, LoadErrorIsError, FailIsResult DEF Answer
  <2>2. StatusCode(w, res) = 1 /\ Entry(w) = "unreadable"
    BY <1>3, <2>1 DEF StatusCode, Entry, EntryIn
  <2>. QED
    BY <1>2, <2>2
<1>4. CASE LoadError(file) = "none" /\ id \notin DOMAIN recs
  <2>1. res = Fail("unknown_id")
    BY <1>1, <1>4 DEF Answer, Apply, Get, Outcome
  <2>2. res.err # "none"
    BY <2>1, FailIsResult DEF Errors
  <2>3. StatusCode(w, res) = 1 /\ Entry(w) = "absent"
    BY <1>4, <2>2 DEF StatusCode, Entry, EntryIn
  <2>. QED
    BY <1>2, <2>3
<1>5. CASE LoadError(file) = "none" /\ id \in DOMAIN recs
  <2>1. res = Result("none", NoId, Keep(recs, {id}))
    BY <1>1, <1>5 DEF Answer, Apply, Get, Outcome
  <2>2. res.err = "none" /\ res.recs[id] = recs[id]
    BY <2>1 DEF Result, Keep
  <2>3. recs[id].status \in {"pending", "resolved"}
    BY <1>5, FileParts, StateParts DEF IsRecords, Record, Status
  <2>4. Entry(w) = recs[id].status
    BY <1>5 DEF Entry, EntryIn
  <2>. HIDE DEF res, recs
  <2>5. \/ recs[id].status = "resolved" /\ StatusCode(w, res) = 0
        \/ recs[id].status = "pending" /\ StatusCode(w, res) = 2
    BY <2>2, <2>3 DEF StatusCode
  <2>. QED
    BY <1>2, <2>4, <2>5 DEF res
<1>. QED
  BY <1>3, <1>4, <1>5

\* The elapsed whole seconds exceed the time on the wall clock by less than one.
LEMMA ElapsedBound ==
  ASSUME WaitTypeOK, NEW w \in Waiters, Spent(w)
  PROVE  LateEnough(w)
<1>. DEFINE b == budget[w]
            a == age[w] + shift[w]
            x == frac[w]
            e == (x + a) \div Second
<1>1. /\ b \in Nat /\ b > 0 /\ a \in Int /\ x \in 0 .. Second - 1
      /\ Second \in Nat /\ Second > 0
  BY TimeAssumption DEF WaitTypeOK, Spent
<1>2. e >= b
  <2>1. frac[w] + age[w] + shift[w] = x + a
    BY TimeAssumption DEF WaitTypeOK
  <2>. QED
    BY <2>1 DEF Spent, Elapsed
<1>3. e \in Int /\ e * Second <= x + a
  <2>. HIDE DEF a, x
  <2>. QED
    BY <1>1
<1>. HIDE DEF a, b, x, e
<1>4. b * Second <= e * Second
  BY <1>1, <1>2, <1>3
<1>5. (b - 1) * Second = b * Second - Second
  BY <1>1
<1>6. b * Second \in Int /\ e * Second \in Int /\ (b - 1) * Second \in Int
  BY <1>1, <1>3
<1>7. a > (b - 1) * Second
  BY <1>1, <1>3, <1>4, <1>5, <1>6
<1>. QED
  BY <1>1, <1>7 DEF a, b, LateEnough

\* The history while a monitor is at work.
LEMMA SeenKept ==
  ASSUME WaitTypeOK, Observe, NEW w \in Waiters
  PROVE  /\ at[w] # "poll" => seen[w] \subseteq seen'[w]
         /\ at[w] \notin Ended => Entry(w)' \in seen'[w]
         /\ at[w] \notin Ended /\ Breaks(w) => "broken" \in seen'[w]
<1>1. seen'[w] = IF at[w] \in Ended THEN seen[w]
                 ELSE Since(w) \cup {Entry(w)'} \cup (IF Breaks(w) THEN {"broken"} ELSE {})
  BY DEF Observe
<1>2. at[w] # "poll" => Since(w) = seen[w]
  BY DEF Since
<1>. QED
  BY <1>1, <1>2 DEF Ended

LEMMA BackedKept ==
  ASSUME NEW w, seen[w] \subseteq seen'[w]
  PROVE  \A c : Backed(w, c) => Backed(w, c)'
BY DEF Backed

\* A status that failed by itself backs every error, and an installer that fails, or
\* a panic, may look like a pending entry.
LEMMA ErrorBacked ==
  ASSUME NEW w, "broken" \in seen'[w]
  PROVE  \A c : c \notin {0, 2} \/ (c = 2 /\ ~ OnlyPendingIsTwo) => Backed(w, c)'
BY DEF Backed

\* A step of the store for one thread leaves the call of a monitor's status
\* alone, unless the thread is that one.
LEMMA OthersCalls ==
  ASSUME TypeOK, NEW t \in Threads, NEW w \in Waiters, w # t, NEW c,
         Invoke(t, c) \/ Refuse(t, c) \/ Return(t) \/ Crash(ProcOf[t])
         \/ Perform(t) \/ Fault(t) \/ Degrade(t)
  PROVE  phase'[w] = phase[w] /\ call'[w] = call[w] /\ out'[w] = out[w]
<1>1. w \in Threads /\ ProcOf[w] # ProcOf[t]
  BY WaiterFacts
<1>. QED
  BY <1>1 DEF TypeOK, Invoke, Refuse, Return, Crash, Perform, Fault, Degrade

\* A monitor that stays where it is, with its status where it was, stays backed.
LEMMA Unmoved ==
  ASSUME WaitTypeOK, WaitTypeOK', Observe, NEW w \in Waiters, MonitorOK(w),
         at'[w] = at[w], code'[w] = code[w], budget'[w] = budget[w],
         at[w] \in Ended => age'[w] = age[w] /\ shift'[w] = shift[w],
         phase'[w] = phase[w], call'[w] = call[w], out'[w] = out[w]
  PROVE  MonitorOK(w)'
<1>1. CASE at[w] = "poll"
  BY <1>1 DEF MonitorOK
<1>2. CASE at[w] # "poll"
  <2>1. \A c : Backed(w, c) => Backed(w, c)'
    BY <1>2, SeenKept, BackedKept
  <2>2. at[w] = "status" => Entry(w)' \in seen'[w]
    BY SeenKept DEF Ended
  <2>3. at[w] = "timeout" => LateEnough(w)'
    BY DEF MonitorOK, LateEnough, Ended
  <2>4. /\ at'[w] = "status" /\ phase'[w] = "done" => Backed(w, StatusCode(w, out[w]))'
        /\ at'[w] \in {"case", "again"} => Backed(w, code[w])'
    <3>1. \A c : c = StatusCode(w, out'[w]) \/ c = code'[w] =>
            c = StatusCode(w, out[w]) \/ c = code[w]
      OBVIOUS
    <3>. QED
      BY <2>1, <3>1 DEF MonitorOK
  <2>5. /\ at[w] = "continue" => Backed(w, 0)'
        /\ at[w] = "timeout" => Backed(w, 2)'
        /\ at[w] = "error" => Backed(w, 1)'
    BY <2>1 DEF MonitorOK
  <2>6. /\ at'[w] \in {"status", "again"} => phase'[w] # "idle" /\ call'[w] = StatusCall(w)
        /\ at'[w] \notin {"status", "again"} => phase'[w] = "idle"
        /\ at'[w] = "again" => code'[w] \notin {0, 2}
    BY DEF MonitorOK
  <2>. QED
    BY <2>2, <2>3, <2>4, <2>5, <2>6 DEF MonitorOK
<1>. QED
  BY <1>1, <1>2

\* A step of a monitor's script.
LEMMA ScriptStep ==
  ASSUME WaitTypeOK, WaitTypeOK', Observe, NEW w \in Waiters, MonitorOK(w), Monitor(w)
  PROVE  MonitorOK(w)'
<1>. USE DEF Go, SetCode
<1>0. /\ at \in [Waiters -> Ats] /\ code \in [Waiters -> Codes]
      /\ phase \in [Threads -> {"idle", "called", "done"}]
      /\ call \in [Threads -> Menu \cup {NoCall}]
      /\ w \in Threads
  BY WaiterFacts DEF WaitTypeOK, TypeOK
<1>1. CASE Start(w)
  <2>1. at[w] = "ready" /\ at'[w] \in {"poll", "refused"} /\ phase'[w] = phase[w]
    BY <1>0, <1>1 DEF Start, vars
  <2>. QED
    BY <2>1 DEF MonitorOK
<1>2. CASE Launch(w)
  <2>1. at'[w] = "status" /\ phase'[w] = "called" /\ call'[w] = StatusCall(w)
    BY <1>0, <1>2 DEF Launch, Invoke
  <2>2. Entry(w)' \in seen'[w]
    BY <1>2, SeenKept DEF Launch, Ended
  <2>. QED
    BY <2>1, <2>2 DEF MonitorOK
<1>3. CASE StatusExits(w)
  <2>1. /\ at[w] = "status" /\ at'[w] = "case"
        /\ code'[w] = StatusCode(w, out[w])
        /\ phase[w] = "done" /\ phase'[w] = "idle"
    BY <1>0, <1>3 DEF StatusExits, Return
  <2>2. \A c : c = code'[w] => Backed(w, c)'
    BY <2>1, SeenKept, BackedKept DEF MonitorOK
  <2>3. Backed(w, code[w])'
    BY <2>2
  <2>. QED
    BY <2>1, <2>3 DEF MonitorOK
<1>4. CASE StatusBreaks(w)
  <2>1. PICK c \in Breakage :
          \/ at[w] = "poll" /\ at'[w] = "case" /\ code'[w] = c
          \/ at[w] = "case" /\ at'[w] = "error"
    BY <1>0, <1>4 DEF StatusBreaks
  <2>2. c \notin {0, 2} \/ (c = 2 /\ ~ OnlyPendingIsTwo)
    BY DEF Breakage, BrokenCodes, InstallCodes, PanicCode, OnlyPendingIsTwo
  <2>3. "broken" \in seen'[w]
    BY <1>4, <2>1, SeenKept DEF Breaks, Ended
  <2>4. Backed(w, c)' /\ Backed(w, 1)'
    BY <2>2, <2>3, ErrorBacked
  <2>5. at'[w] = "case" => Backed(w, code[w])'
    <3>1. \A d : d = c => Backed(w, d)'
      BY <2>4
    <3>. QED
      BY <2>1, <3>1
  <2>6. phase'[w] = phase[w]
    BY <1>4 DEF StatusBreaks, vars
  <2>. QED
    BY <2>1, <2>4, <2>5, <2>6 DEF MonitorOK
<1>5. CASE Continue(w)
  <2>1. code[w] = 0 /\ at[w] = "case" /\ at'[w] = "continue" /\ phase'[w] = phase[w]
    BY <1>0, <1>5 DEF Continue, vars
  <2>2. Backed(w, 0)'
    BY <2>1, SeenKept, BackedKept DEF MonitorOK
  <2>. QED
    BY <2>1, <2>2 DEF MonitorOK
<1>6. CASE TimeOut(w)
  <2>1. /\ code[w] = 2 /\ at[w] = "case" /\ at'[w] = "timeout"
        /\ phase'[w] = phase[w] /\ age' = age /\ shift' = shift /\ budget' = budget
    BY <1>0, <1>6 DEF TimeOut, given, time, vars
  <2>2. Backed(w, 2)'
    BY <2>1, SeenKept, BackedKept DEF MonitorOK
  <2>3. LateEnough(w)'
    BY <1>6, <2>1, ElapsedBound DEF TimeOut, LateEnough
  <2>. QED
    BY <2>1, <2>2, <2>3 DEF MonitorOK
<1>7. CASE Sleep(w) \/ Wake(w)
  BY <1>0, <1>7 DEF Sleep, Wake, vars, MonitorOK
<1>8. CASE Recheck(w)
  <2>1. /\ code[w] \notin {0, 2} /\ at[w] = "case" /\ at'[w] = "again"
        /\ code' = code /\ phase'[w] = "called" /\ call'[w] = StatusCall(w)
    BY <1>0, <1>8 DEF Recheck, Invoke
  <2>2. \A c : c = code'[w] => Backed(w, c)'
    BY <2>1, SeenKept, BackedKept DEF MonitorOK
  <2>3. Backed(w, code[w])'
    BY <2>2
  <2>. QED
    BY <2>1, <2>3 DEF MonitorOK
<1>9. CASE GiveUp(w)
  <2>1. /\ at[w] = "again" /\ at'[w] = "error" /\ phase'[w] = "idle"
    BY <1>0, <1>9 DEF GiveUp, Return
  <2>2. \A c : c = code[w] => Backed(w, c)' /\ c \notin {0, 2}
    BY <2>1, SeenKept, BackedKept DEF MonitorOK
  <2>3. Backed(w, 1)'
    BY <2>2 DEF Backed
  <2>. QED
    BY <2>1, <2>3 DEF MonitorOK
<1>10. CASE StatusDies(w)
  <2>1. "broken" \in seen'[w] /\ phase'[w] = "idle"
    BY <1>0, <1>10, SeenKept DEF StatusDies, Crash, Breaks, Ended
  <2>2. PICK c \in DeathCodes :
          (at'[w] = "case" /\ code'[w] = c) \/ at'[w] = "error"
    BY <1>0, <1>10 DEF StatusDies
  <2>3. c \notin {0, 2} \/ (c = 2 /\ ~ OnlyPendingIsTwo)
    BY DEF DeathCodes, KilledCode, PanicCode, OnlyPendingIsTwo
  <2>4. Backed(w, 1)' /\ \A d : d = c => Backed(w, d)'
    BY <2>1, <2>3, ErrorBacked
  <2>5. at'[w] = "case" => Backed(w, code[w])'
    BY <2>2, <2>4
  <2>. QED
    BY <2>1, <2>2, <2>4, <2>5 DEF MonitorOK
<1>. QED
  BY <1>1, <1>2, <1>3, <1>4, <1>5, <1>6, <1>7, <1>8, <1>9, <1>10 DEF Monitor, Poll

\* The store at work for a monitor's status.
LEMMA StatusStep ==
  ASSUME WaitTypeOK, WaitTypeOK', CallOK, Observe, NEW w \in Waiters, MonitorOK(w), Serve(w)
  PROVE  MonitorOK(w)'
<1>0. /\ IsFile(file) /\ w \in Threads
      /\ phase \in [Threads -> {"idle", "called", "done"}]
      /\ out = [t \in Threads |-> out[t]]
  BY WaiterFacts DEF WaitTypeOK, TypeOK
<1>1. UNCHANGED waitVars
  BY DEF Serve
<1>2. /\ at[w] \in {"status", "again"} /\ at' = at /\ code' = code
      /\ phase'[w] = "done" /\ call'[w] = call[w] /\ call[w] = StatusCall(w)
  BY <1>0, <1>1 DEF Serve, Perform, Fault, Degrade, MonitorOK, waitVars
<1>3. seen[w] \subseteq seen'[w] /\ Entry(w)' \in seen'[w]
  BY <1>2, SeenKept DEF Ended
<1>4. \A c : Backed(w, c) => Backed(w, c)'
  BY <1>3, BackedKept
<1>5. at[w] = "status" => \A c : c = StatusCode(w, out'[w]) => Backed(w, c)'
  <2>. SUFFICES ASSUME at[w] = "status", NEW c, c = StatusCode(w, out'[w])
                PROVE  Backed(w, c)'
    OBVIOUS
  <2>1. CASE Perform(w)
    <3>1. out'[w] = Answer(file, StatusCall(w))
      BY <1>0, <1>2, <2>1 DEF Perform
    <3>2. /\ c = 0 => Entry(w) = "resolved"
          /\ c = 2 => Entry(w) = "pending"
          /\ c \notin {0, 2} => Entry(w) \in {"absent", "unreadable"}
      BY <1>0, <3>1, StatusTells
    <3>3. Entry(w) \in seen'[w]
      BY <1>3 DEF MonitorOK
    <3>. QED
      BY <3>2, <3>3 DEF Backed
  <2>2. CASE "io" \in Faults /\ (Fault(w) \/ Degrade(w))
    <3>1. out'[w] = Fail("internal")
      BY <1>0, <2>2 DEF Fault, Degrade
    <3>2. out'[w].err # "none"
      BY <3>1, FailIsResult DEF Errors
    <3>3. c = 1
      BY <3>2 DEF StatusCode
    <3>4. "broken" \in seen'[w]
      BY <1>2, <2>2, SeenKept DEF Breaks, Ended
    <3>. QED
      BY <3>3, <3>4, ErrorBacked
  <2>. QED
    BY <2>1, <2>2 DEF Serve
<1>6. /\ at'[w] = "status" => Backed(w, StatusCode(w, out[w]))'
      /\ at'[w] = "again" => Backed(w, code[w])'
  <2>1. at[w] = "again" => \A c : c = code'[w] => Backed(w, c)'
    BY <1>2, <1>4 DEF MonitorOK
  <2>. QED
    BY <1>2, <1>5, <2>1
<1>7. at'[w] = "again" => code'[w] \notin {0, 2}
  BY <1>2 DEF MonitorOK
<1>. QED
  BY <1>2, <1>3, <1>6, <1>7 DEF MonitorOK

LEMMA WaitInitInv == WaitInit => WaitInv
<1>. SUFFICES ASSUME WaitInit PROVE WaitInv
  OBVIOUS
<1>1. IndInv
  BY InitInv DEF WaitInit
<1>2. WaitTypeOK
  <2>1. 0 \in 0 .. Second - 1 /\ 0 \in 0 .. Second
    BY TimeAssumption
  <2>2. "ready" \in Ats /\ 0 \in Codes
    BY DEF Ats, Codes
  <2>3. Empty \in Durations /\ 0 \in 0 .. MaxBudget
    BY TextsAreDurations, AWeek
  <2>. QED
    BY <1>1, <2>1, <2>2, <2>3 DEF IndInv, WaitTypeOK, WaitInit, Fresh
<1>3. ASSUME NEW w \in Waiters PROVE MonitorOK(w)
  <2>1. w \in Threads
    BY WaiterFacts
  <2>2. at[w] = "ready" /\ phase[w] = "idle"
    BY <2>1 DEF WaitInit, Init
  <2>. QED
    BY <2>2 DEF MonitorOK
<1>. QED
  BY <1>1, <1>2, <1>3 DEF WaitInv

\* A step of the script of another monitor.
LEMMA OtherScript ==
  ASSUME WaitTypeOK, NEW v \in Waiters, NEW w \in Waiters, v # w, Monitor(v)
  PROVE  /\ at'[w] = at[w] /\ code'[w] = code[w]
         /\ budget'[w] = budget[w] /\ age'[w] = age[w] /\ shift'[w] = shift[w]
         /\ phase'[w] = phase[w] /\ call'[w] = call[w] /\ out'[w] = out[w]
<1>. USE DEF Go, SetCode
<1>0. /\ TypeOK /\ at \in [Waiters -> Ats] /\ code \in [Waiters -> Codes]
      /\ budget \in [Waiters -> 0 .. MaxBudget]
  BY DEF WaitTypeOK
<1>1. /\ at'[w] = at[w] /\ code'[w] = code[w]
      /\ budget'[w] = budget[w] /\ age'[w] = age[w] /\ shift'[w] = shift[w]
  BY <1>0 DEF Monitor, Poll, Start, Launch, StatusExits, StatusBreaks, Continue, TimeOut,
         Sleep, Wake, Recheck, GiveUp, StatusDies, given, time
<1>2. \/ \E c : Invoke(v, c) \/ Return(v) \/ Crash(ProcOf[v])
      \/ UNCHANGED vars
  BY DEF Monitor, Poll, Start, Launch, StatusExits, StatusBreaks, Continue, TimeOut,
         Sleep, Wake, Recheck, GiveUp, StatusDies
<1>3. v \in Threads
  BY WaiterFacts
<1>4. phase'[w] = phase[w] /\ call'[w] = call[w] /\ out'[w] = out[w]
  BY <1>0, <1>2, <1>3, OthersCalls DEF vars
<1>. QED
  BY <1>1, <1>4

LEMMA WaitNextInv == WaitInv /\ [WaitNext]_allVars => WaitInv'
<1>. SUFFICES ASSUME WaitInv, [WaitNext]_allVars PROVE WaitInv'
  OBVIOUS
<1>1. /\ IndInv /\ WaitTypeOK /\ TypeOK /\ CallOK
      /\ \A w \in Waiters : MonitorOK(w)
  BY DEF WaitInv, IndInv
<1>2. IndInv'
  BY <1>1, StepImplements, NextInv
<1>3. WaitTypeOK'
  BY <1>1, <1>2, TypesKept DEF IndInv
<1>4. ASSUME WaitNext, NEW w \in Waiters PROVE MonitorOK(w)'
  <2>1. Observe /\ MonitorOK(w) /\ w \in Threads /\ age[w] \in Nat
    BY <1>1, <1>4, WaiterFacts DEF WaitNext, WaitTypeOK
  <2>2. ASSUME NEW v \in Waiters, Monitor(v) PROVE MonitorOK(w)'
    <3>1. CASE v = w
      BY <1>1, <1>3, <2>1, <2>2, <3>1, ScriptStep
    <3>2. CASE v # w
      <4>1. /\ at'[w] = at[w] /\ code'[w] = code[w]
            /\ budget'[w] = budget[w]
            /\ (at[w] \in Ended => age'[w] = age[w] /\ shift'[w] = shift[w])
            /\ phase'[w] = phase[w] /\ call'[w] = call[w] /\ out'[w] = out[w]
        BY <1>1, <2>1, <2>2, <3>2, OtherScript
      <4>. QED
        BY <1>1, <1>3, <2>1, <4>1, Unmoved
    <3>. QED
      BY <3>1, <3>2
  <2>3. ASSUME NEW t \in Threads, t # w, Client(t) \/ Serve(t) PROVE MonitorOK(w)'
    <3>1. /\ UNCHANGED waitVars
          /\ \/ \E c : Invoke(t, c) \/ Refuse(t, c)
             \/ Return(t) \/ Crash(ProcOf[t])
             \/ Perform(t) \/ Fault(t) \/ Degrade(t)
      BY <2>3 DEF Client, Serve
    <3>2. phase'[w] = phase[w] /\ call'[w] = call[w] /\ out'[w] = out[w]
      BY <1>1, <2>3, <3>1, OthersCalls
    <3>3. /\ at'[w] = at[w] /\ code'[w] = code[w]
          /\ budget'[w] = budget[w]
            /\ (at[w] \in Ended => age'[w] = age[w] /\ shift'[w] = shift[w])
      BY <2>1, <3>1 DEF waitVars, given, time
    <3>. QED
      BY <1>1, <1>3, <2>1, <3>2, <3>3, Unmoved
  <2>4. CASE Serve(w)
    BY <1>1, <1>3, <2>1, <2>4, StatusStep
  <2>5. CASE Tick \/ SetClock
    <3>1. /\ at' = at /\ code' = code /\ budget' = budget
          /\ UNCHANGED vars
          /\ at[w] \in Ended => age'[w] = age[w] /\ shift'[w] = shift[w]
      BY <2>5 DEF Tick, SetClock, Timed, Running, given
    <3>2. phase'[w] = phase[w] /\ call'[w] = call[w] /\ out'[w] = out[w]
      BY <3>1 DEF vars
    <3>. QED
      BY <1>1, <1>3, <2>1, <3>1, <3>2, Unmoved
  <2>. QED
    BY <1>4, <2>2, <2>3, <2>4, <2>5 DEF WaitNext, Clients
<1>5. ASSUME UNCHANGED allVars, NEW w \in Waiters PROVE MonitorOK(w)'
  BY <1>1, <1>5 DEF allVars, waitVars, given, time, vars, MonitorOK, Backed, Entry, LateEnough
<1>. QED
  BY <1>2, <1>3, <1>4, <1>5 DEF WaitInv

LEMMA WaitInvHolds == WaitSpec => []WaitInv
  BY WaitInitInv, WaitNextInv, PTL DEF WaitSpec

(***************************************************************************)
(* The theorems                                                            *)
(***************************************************************************)
\* Every monitor is always somewhere in its script, with an exit code that
\* status can have.
THEOREM WaitTypeCorrect == WaitSpec => []WaitTypeOK
<1>1. WaitInv => WaitTypeOK
  BY DEF WaitInv
<1>. QED
  BY <1>1, WaitInvHolds, PTL

\* No monitor opens the gate, times out or, without a fault, gives up but on
\* what its entry was at a moment after it had launched the status that decided
\* (chain-wait.sh: the case on $CODE), whatever the clients do in between.
THEOREM VerdictsTrue == WaitSpec => []VerdictWasTrue
<1>1. WaitInv => VerdictWasTrue
  BY DEF WaitInv, MonitorOK, Backed, VerdictWasTrue
<1>. QED
  BY <1>1, WaitInvHolds, PTL

\* A timeout comes less than a second early, for every timeout and however
\* long the store keeps a status waiting (chain-wait.sh: NOW - START).
THEOREM TimeoutsInTime == WaitSpec => []TimeoutInTime
<1>1. WaitInv => TimeoutInTime
  BY DEF WaitInv, MonitorOK, TimeoutInTime
<1>. QED
  BY <1>1, WaitInvHolds, PTL

===============================================================================
