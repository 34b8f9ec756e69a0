------------------------------- MODULE Startup -------------------------------
(***************************************************************************)
(* What the programs make of what they are given, from their start to the  *)
(* store and back: the embedded word list (init of internal/idgen), the    *)
(* command line (cmd/mcp-chain, chain-wait.sh), the environment            *)
(* (internal/statepath), and the exit code and the table that come out.    *)
(* Processes with different environments and working directories run at    *)
(* once, each in a place where one comes after another.                    *)
(*                                                                         *)
(* A call of the store is one step, as module Store shows that it may be,  *)
(* and does not fail for reasons of its own; ChainSpec has what this       *)
(* leaves out.                                                             *)
(***************************************************************************)
EXTENDS WordList, StatePath, ListTable, Durations

CONSTANTS
  Tokens, NoToken, Names, ValidNames, NoId,   \* as in ChainState
  WordlistSize,
  Raws,          \* embedded texts that a binary may be built with
  Procs,         \* places of processes
  Commands,      \* command lines of mcp-chain and of seed_pending
  Environments,
  Conditions,    \* what may be registered for
  Times,         \* what the clock may show: it may be set
  MaxIssued,     \* bound: on the number of registrations
  Faults         \* what may go wrong: a subset of {"io", "kill"}

VARIABLES
  raw,      \* the embedded text of the binary
  disk,     \* the state directories there are, with the file in each
  at,       \* where a process is
  cmd,      \* its command line
  env,      \* its environment
  code,     \* its exit code
  listing,  \* the table it has printed, and of which records; {} for none
  wait,     \* chain-wait.sh: $DURATION and $BUDGET
  told      \* history: the registrations that were reported, in order, and if they are still there

vars == <<raw, disk, at, cmd, env, code, listing, wait, told>>

Chain == INSTANCE ChainState WITH Words <- Parsed(raw)

ASSUME RawsAssumption == \A text \in Raws : IsRaw(text)

ASSUME NamesAssumption == ValidNames \subseteq Names /\ NoId \notin Names

ASSUME TokensAssumption == NoToken \notin Tokens

\* Ids has the slugs, the words and the hexadecimal ids that may come up.
ASSUME IdsAssumption ==
  /\ Names \subseteq Ids
  /\ \A text \in Raws : Valid(text, WordlistSize) => \A i \in DOMAIN text : text[i].word \in Ids
  /\ \A n \in 1 .. MaxIssued : Chain!HexId(n) \in Ids

ASSUME EnvironmentsAssumption == \A e \in Environments : IsEnvironment(e)

ASSUME ClockAssumption == Times \subseteq Int /\ MaxIssued \in Nat

\* Of a command line, what matters: the subcommand or program, "none" if kong
\* refuses it, the call of the store it asks for, and the flags --version and --help.
Programs == {"serve", "status", "list", "resolve", "purge", "seed", "none"}

Call(op, tok, id, opts) == [op |-> op, tok |-> tok, id |-> id, opts |-> opts]

Command(program, call, flags) == [program |-> program, call |-> call, flags |-> flags]

\* The methods of the store that a program calls.
Methods(program) ==
  CASE program = "serve"   -> {"register", "register_with_id", "resolve"}
    [] program = "status"  -> {"get"}
    [] program = "seed"    -> {"register"}
    [] program = "none"    -> Chain!Ops
    [] OTHER               -> {program}

ASSUME CommandsAssumption ==
  \A c \in Commands :
    /\ c.program \in Programs /\ c.flags \subseteq {"--version", "--help"}
    /\ c.program = "seed" => c.flags = {}
    /\ c.call \in Chain!Calls /\ c.call.op \in Methods(c.program)
    /\ c.program \in {"serve", "seed"} => c.call.tok \in Tokens

NoCommand == Command("none", Call("list", NoToken, NoId, {}), {})

NoEnvironment == Environment(EmptyPath, EmptyPath, <<>>)

NoWait == [duration |-> Empty, budget |-> 0]

Init ==
  /\ raw \in Raws
  /\ disk = [d \in {} |-> {}]
  /\ at = [p \in Procs |-> "exited"]
  /\ cmd = [p \in Procs |-> NoCommand]
  /\ env = [p \in Procs |-> NoEnvironment]
  /\ code = [p \in Procs |-> 0]
  /\ listing = [p \in Procs |-> {}]
  /\ wait = [p \in Procs |-> NoWait]
  /\ told = <<>>

(***************************************************************************)
(* From the start to the store                                             *)
(***************************************************************************)
\* A process ends, or goes on to another place.
Exit(p, c) ==
  /\ at' = [at EXCEPT ![p] = "exited"]
  /\ cmd' = [cmd EXCEPT ![p] = NoCommand]
  /\ env' = [env EXCEPT ![p] = NoEnvironment]
  /\ code' = [code EXCEPT ![p] = c]

Go(p, place, c, e) ==
  /\ at' = [at EXCEPT ![p] = place]
  /\ cmd' = [cmd EXCEPT ![p] = c]
  /\ env' = [env EXCEPT ![p] = e]
  /\ code' = [code EXCEPT ![p] = 0]

PanicCode == 2     \* of the Go runtime
UsageCode == 80    \* of kong
KilledCode == 137  \* as a shell sees it

\* The exit code of a program that does not get to call the store.
FailCode(c) == IF c.program = "seed" THEN 2 ELSE 1

EmptyDir == [st |-> Chain!EmptyState, notes |-> Chain!NoRecords]

\* MkdirAll makes what is missing of the directory and leaves what is there.
Made(dir) ==
  [d \in DOMAIN disk \cup {dir} |-> IF d \in DOMAIN disk THEN disk[d] ELSE EmptyDir]

\* statepath.Resolve and store.Open, and NewOwnerToken, which only some call: no
\* variable is set, or MkdirAll fails, or the token does, or all is well.
FindPath(p, c, e) ==
  \/ /\ HomeUnset(e)
     /\ Exit(p, FailCode(c))
     /\ UNCHANGED disk
  \/ /\ ~ HomeUnset(e) /\ "io" \in Faults
     /\ Exit(p, FailCode(c))
     /\ disk' \in {disk, Made(StateDir(e))}
  \/ /\ ~ HomeUnset(e)
     /\ Go(p, "call", c, e)
     /\ disk' = Made(StateDir(e))

\* main looks for --version first, wherever it stands; seed_pending looks at no
\* argument.  Up to the call of the store a process shares nothing but directories,
\* which stay once they are made.
Start(p, c) ==
  \/ /\ c.flags # {}
     /\ Exit(p, 0)
     /\ UNCHANGED disk
  \/ /\ c.flags = {} /\ c.program = "none"
     /\ Exit(p, UsageCode)
     /\ UNCHANGED disk
  \/ /\ c.flags = {} /\ c.program # "none"
     /\ \E e \in Environments : FindPath(p, c, e)

\* init() of idgen comes before main.
Launch(p) ==
  /\ at[p] = "exited"
  /\ \/ ~ Valid(raw, WordlistSize) /\ Exit(p, PanicCode) /\ UNCHANGED disk
     \/ Valid(raw, WordlistSize) /\ \E c \in Commands : Start(p, c)
  /\ listing' = [listing EXCEPT ![p] = {}]
  /\ wait' = [wait EXCEPT ![p] = NoWait]
  /\ UNCHANGED <<raw, told>>

(***************************************************************************)
(* The call of the store, and what comes out                               *)
(***************************************************************************)
Outcome(st, c) ==
  IF Chain!Precheck(c) = "none" THEN Chain!Apply(st, c)
  ELSE Chain!Outcome(st, Chain!Fail(Chain!Precheck(c)))

\* The fields of the records that ChainState leaves out.
Notes(dir, st, time, condition) ==
  [id \in DOMAIN st.records |->
     CASE id \notin DOMAIN dir.st.records ->
            [condition |-> condition, created |-> time, resolved |-> {}]
       [] id \in DOMAIN dir.st.records /\ st.records[id] # dir.st.records[id] ->
            [dir.notes[id] EXCEPT !.resolved = {time}]
       [] OTHER -> dir.notes[id]]

\* What List returns, in some order.
Listed(dir) ==
  {[id |-> id, status |-> dir.st.records[id].status, condition |-> dir.notes[id].condition,
    created |-> dir.notes[id].created, resolved |-> dir.notes[id].resolved] :
     id \in DOMAIN dir.st.records}

\* WriteTable, if there is anything to write.
Display(p, dir) ==
  IF cmd[p].program = "list" /\ Listed(dir) # {}
  THEN \E records \in Orders(Listed(dir)) :
         listing' = [listing EXCEPT ![p] = {[of |-> Listed(dir), table |-> Table(records)]}]
  ELSE UNCHANGED listing

StatusCode(c, res) ==
  CASE res.err = "none" /\ res.recs[c.id].status = "resolved" -> 0
    [] res.err = "none" /\ res.recs[c.id].status = "pending"  -> 2
    [] OTHER -> 1

ExitCode(c, res) ==
  CASE c.program = "status" -> StatusCode(c.call, res)
    [] c.program # "status" /\ res.err = "none" -> 0
    [] OTHER -> FailCode(c)

\* serve goes on; the other programs end.
Proceed(p, res) ==
  IF cmd[p].program = "serve" THEN UNCHANGED <<at, cmd, env, code>>
  ELSE Exit(p, ExitCode(cmd[p], res))

Reported(e, id) == [by |-> Setting(e), dir |-> StateDir(e), id |-> id, there |-> TRUE]

\* The registrations of a file that are in it no more are struck out, whatever
\* the setting by which it was found.
Strike(dir, gone) ==
  [i \in DOMAIN told |->
     IF told[i].dir = dir /\ told[i].id \in gone
     THEN [told[i] EXCEPT !.there = FALSE] ELSE told[i]]

CallStore(p) ==
  /\ at[p] = "call"
  /\ cmd[p].call.op = "register" => Len(told) < MaxIssued
  /\ LET c   == cmd[p].call
         d   == StateDir(env[p])
         o   == Outcome(disk[d].st, c)
     IN  /\ \E time \in IF Chain!ReadOnly(c) THEN {0} ELSE Times, condition \in Conditions :
              disk' = [disk EXCEPT ![d] = [st    |-> o.st,
                                           notes |-> Notes(@, o.st, time, condition)]]
         /\ Display(p, disk[d])
         /\ Proceed(p, o.res)
         /\ told' = IF c.op = "register" THEN Append(told, Reported(env[p], o.res.id))
                    ELSE Strike(d, DOMAIN disk[d].st.records \ DOMAIN o.st.records)
  /\ UNCHANGED <<raw, wait>>

\* stdin is closed, or a signal comes.
StopServe(p) ==
  /\ at[p] = "call" /\ cmd[p].program = "serve"
  /\ \E c \in {0, 1} : Exit(p, c)
  /\ UNCHANGED <<raw, disk, listing, wait, told>>

Kill(p) ==
  /\ "kill" \in Faults
  /\ at[p] # "exited"
  /\ Exit(p, KilledCode)
  /\ wait' = [wait EXCEPT ![p] = NoWait]
  /\ UNCHANGED <<raw, disk, listing, told>>

(***************************************************************************)
(* chain-wait.sh, up to its first poll                                     *)
(***************************************************************************)
LaunchWait(p) ==
  /\ at[p] = "exited"
  /\ \E text \in Texts :
       LET started == ~ Refused(text)
           seconds == IF started THEN Budget(text) ELSE 0
       IN  /\ IF started THEN Go(p, "wait", NoCommand, NoEnvironment) ELSE Exit(p, 1)
           /\ wait' = [wait EXCEPT ![p] = [duration |-> text, budget |-> seconds]]
  /\ listing' = [listing EXCEPT ![p] = {}]
  /\ UNCHANGED <<raw, disk, told>>

Next ==
  \E p \in Procs :
    Launch(p) \/ CallStore(p) \/ StopServe(p) \/ Kill(p) \/ LaunchWait(p)

Spec == Init /\ [][Next]_vars

(***************************************************************************)
(* Properties                                                              *)
(***************************************************************************)
\* A registration went to the store that a process with this setting and directory
\* uses: the same file, or, so the user may expect, the same absolute setting.  (A
\* relative one is taken from the working directory, and two may lead to one file.)
SameStore(r, setting, dir) == r.dir = dir \/ (r.by = setting /\ setting.value.absolute)

\* No two registrations in one store got the same id, whatever text the binary was
\* built with and wherever the processes that made them were started (wordlist.go:
\* a list that would repeat an id stops the program; resolve.go: the environment
\* alone says where the file is).
NoIdTwice ==
  \A i, j \in DOMAIN told :
    SameStore(told[i], told[j].by, told[j].dir) /\ told[i].id = told[j].id => i = j

\* A list that ends with exit code 0 shows every entry that was registered in the
\* same store, by the variables or by the file, and has not been purged since, from
\* whichever directory either was started (README.md, State file; list.go: "Print
\* all entries").
Shows(p, id) ==
  \E l \in listing'[p] : \E n \in DOMAIN l.table : l.table[n].id = id

ListIsComplete ==
  [][\A p \in Procs :
       at[p] = "call" /\ cmd[p].program = "list" /\ at'[p] = "exited" /\ code'[p] = 0
       => \A i \in DOMAIN told :
            SameStore(told[i], Setting(env[p]), StateDir(env[p])) /\ told[i].there
              => Shows(p, told[i].id)]_vars

\* Two lists of the same records print the same table, in whatever order a range
\* over the map yields them, also when records share their time of creation
\* (table.go: "ties broken by ID ASC").
TablesAgree ==
  \A p, q \in Procs : \A l \in listing[p], m \in listing[q] :
    l.of = m.of => l.table = m.table

\* Of durations without a zero in front and of a number of seconds that bash can
\* hold (Plain), and of these only: a monitor that goes on waits for the time it was
\* asked to, to the second, and one is refused exactly when asked for none or for
\* more than a week (chain-wait.sh: "duration exceeds max 168h", "duration must be
\* positive").  What becomes of the others is the matter of TimeoutAtMostAsked.
TimeoutAsAsked ==
  \A p \in Procs :
    LET d == wait[p].duration
    IN  Plain(d) =>
          /\ at[p] = "wait" => wait[p].budget = Seconds(d)
          /\ at[p] = "wait" <=> Seconds(d) \in 1 .. MaxBudget

\* Of every duration, whatever its digits: a monitor that was given one and goes on
\* has a timeout, of no more than what was asked for, though a zero in front or a
\* product that wraps around may make it less; or it has none, and then the numeral
\* has a zero in front or is a number of seconds beyond what bash can hold
\* (chain-wait.sh: $(( n * 60 )), and the two tests of $BUDGET).
TimeoutAtMostAsked ==
  \A p \in Procs :
    LET d == wait[p].duration
        b == wait[p].budget
    IN  at[p] = "wait" /\ d # Empty =>
          \/ b \in 1 .. MaxBudget /\ b <= Seconds(d)
          \/ b = 0 /\ (LeadingZero(d) \/ Seconds(d) >= Half)

StartupTypeOK ==
  /\ raw \in Raws
  /\ \A d \in DOMAIN disk :
       /\ Chain!IsState(disk[d].st)
       /\ DOMAIN disk[d].notes = DOMAIN disk[d].st.records
  /\ at \in [Procs -> {"exited", "call", "wait"}]
  /\ cmd \in [Procs -> Commands \cup {NoCommand}]
  /\ env \in [Procs -> Environments \cup {NoEnvironment}]
  /\ code \in [Procs -> {0, 1, PanicCode, UsageCode, KilledCode}]

===============================================================================
