------------------------------- MODULE Session -------------------------------
(***************************************************************************)
(* Who calls the store, and what they are told: `mcp-chain serve` with its *)
(* owner token and its tools (internal/mcpserver, ServeCmd), and the CLI   *)
(* commands with their exit codes (internal/cli), on top of the atomic     *)
(* store.                                                                  *)
(*                                                                         *)
(* A serve process draws a token when it starts and keeps it until it      *)
(* ends; its handlers run concurrently and never see another one.  A       *)
(* command is a process of one call without a token.  An answer may not    *)
(* reach the caller, who may then make the call again.                     *)
(***************************************************************************)
EXTENDS ChainSpec

CONSTANT Servers   \* the places of serve processes, one after another in each

ASSUME ServersAssumption == Servers \subseteq Procs

VARIABLES
  token,    \* of the serve process that runs, NoToken where none does
  ended,    \* history: the tokens of serve processes that have ended
  removed,  \* history: the ids that a purge has removed
  told      \* history: what callers were told of entries, except of removed ones

sessionVars == <<token, ended>>

allVars == <<vars, sessionVars, removed, told>>

SessionInit ==
  /\ Init
  /\ token = [p \in Servers |-> NoToken]
  /\ ended = {}
  /\ removed = {}
  /\ told = {}

(***************************************************************************)
(* Answers                                                                 *)
(***************************************************************************)
\* The code field of a tool's error, "ok" without one.
ToolCode(err) ==
  CASE err = "none" -> "ok"
    [] err = "schema" -> "schema_error"
    [] err \in {"unknown_id", "already_resolved", "not_owner", "id_taken",
                "invalid_id"} -> err
    [] OTHER -> "internal"

StatusExit(c, res) ==
  CASE res.err = "none" /\ res.recs[c.id].status = "resolved" -> 0
    [] res.err = "none" /\ res.recs[c.id].status = "pending" -> 2
    [] OTHER -> 1

ExitCode(c, res) ==
  IF c.op = "get" THEN StatusExit(c, res) ELSE IF res.err = "none" THEN 0 ELSE 1

(***************************************************************************)
(* Serve processes                                                         *)
(***************************************************************************)
Live == {token[p] : p \in Servers} \ {NoToken}

Up(p) == p \in Servers /\ token[p] # NoToken

NewTokensAny == Tokens   \* mutant: a restart may find the token of before

\* 128 random bits never come twice.
NewTokens == Tokens \ (Live \cup ended)

Serve(p) ==
  /\ ~ Up(p)
  /\ \E k \in NewTokens : token' = [token EXCEPT ![p] = k]
  /\ UNCHANGED <<vars, ended>>

ToolCallDraws(p, c) ==   \* mutant: a handler draws a token of its own
  /\ c.op \in {"register", "register_with_id", "resolve"}
  /\ c.tok # NoToken
  /\ c.opts = {}

ToolCall(p, c) ==
  /\ c.op \in {"register", "register_with_id", "resolve"}
  /\ c.tok = token[p]
  /\ c.opts = {}

\* A handler starts.
CallTool(t, c) ==
  /\ Up(ProcOf[t])
  /\ ToolCall(ProcOf[t], c)
  /\ Invoke(t, c) \/ Refuse(t, c)
  /\ UNCHANGED sessionVars

\* stdin is closed, SIGINT or SIGTERM comes, or the process is killed: it ends
\* with whatever its handlers were at, and its token with it.
Stop(p) ==
  /\ Up(p)
  /\ Crash(p)
  /\ ended' = ended \cup {token[p]}
  /\ token' = [token EXCEPT ![p] = NoToken]

(***************************************************************************)
(* Commands                                                                *)
(***************************************************************************)
CommandCall(c) == c.op \in {"get", "list", "resolve", "purge"} /\ c.tok = NoToken

RunCommand(t, c) ==
  /\ ProcOf[t] \notin Servers
  /\ CommandCall(c)
  /\ Invoke(t, c) \/ Refuse(t, c)
  /\ UNCHANGED sessionVars

Kill(p) ==
  /\ p \notin Servers
  /\ Crash(p)
  /\ UNCHANGED sessionVars

(***************************************************************************)
(* Both                                                                    *)
(***************************************************************************)
Work(t) ==
  /\ Perform(t) \/ Fault(t) \/ Degrade(t)
  /\ UNCHANGED sessionVars

Reply(t) ==
  /\ Return(t)
  /\ UNCHANGED sessionVars

Step ==
  \/ \E p \in Servers : Serve(p) \/ Stop(p)
  \/ \E p \in Procs \ Servers : Kill(p)
  \/ \E t \in Threads :
       \/ \E c \in Menu : CallTool(t, c) \/ RunCommand(t, c)
       \/ Work(t)
       \/ Reply(t)

Fact(id, tok, is) == [id |-> id, tok |-> tok, is |-> is]

\* What a session with token k may rely on after a tool's "ok".
ToolFacts(c, res, k) ==
  CASE c.op = "register" -> {Fact(res.id, k, "registered")}
    [] c.op = "register_with_id" -> {Fact(c.id, k, "registered")}
    [] OTHER -> {Fact(c.id, NoToken, "resolved")}

\* What the user of a command may rely on after exit code 0.
CommandFacts(c) ==
  CASE c.op \in {"resolve", "get"} -> {Fact(c.id, NoToken, "resolved")}
    [] c.op = "purge" /\ c.id # NoId -> {Fact(c.id, NoToken, "purged")}
    [] OTHER -> {}

Facts(t) ==
  LET c == call[t]
      p == ProcOf[t]
  IN  CASE Up(p) /\ ToolCode(out[t].err) = "ok" -> ToolFacts(c, out[t], token[p])
        [] p \notin Servers /\ ExitCode(c, out[t]) = 0 -> CommandFacts(c)
        [] OTHER -> {}

StillThere(facts) == {f \in facts : f.id \notin removed'}

Note(facts) ==
  /\ removed' = removed \cup (DOMAIN file.st.records \ DOMAIN file'.st.records)
  /\ told' = StillThere(told \cup facts)

\* Whoever asked hears of a reply, or does not: the caller has given up, or does
\* not look at the exit code.
SessionNext ==
  \/ Step /\ Note({})
  \/ \E t \in Threads : Reply(t) /\ Note(Facts(t))

SessionSpec == SessionInit /\ [][SessionNext]_allVars

(***************************************************************************)
(* Properties                                                              *)
(***************************************************************************)
SessionTypeOK ==
  /\ TypeOK
  /\ token \in [Servers -> Tokens \cup {NoToken}]
  /\ ended \subseteq Tokens
  /\ \A f \in told : f = Fact(f.id, f.tok, f.is)
  /\ \A id \in removed : IsId(id)

Stands(f) ==
  /\ f.id \in DOMAIN file.st.records
  /\ f.is = "registered" => file.st.records[f.id].owner = f.tok
  /\ f.is = "resolved" => file.st.records[f.id].status = "resolved"
  /\ f.is # "purged"

\* What a tool or a command reported as done is done, and until a purge removes
\* the entry it stays so, through crashes, retries and what the others do: a
\* session that was told of its registration owns the entry, one that resolve, or
\* status, said to be resolved never turns pending, and one that purge reported
\* was removed (server.go, errors.go: no error becomes a success; status.go,
\* resolve.go, purge.go: exit code 0 means it).
AnswersStand == \A f \in told : Stands(f)

\* Once a serve process has ended, nobody but an operator with --force resolves
\* what it registered, not even the process started in its place
\* (owner.go: "called exactly once per `mcp-chain serve` process").
OrphansNeedForce ==
  [][\A id \in DOMAIN file.st.records \cap DOMAIN file'.st.records :
       /\ file.st.records[id].owner \in ended
       /\ file'.st.records[id] # file.st.records[id]
       => \E t \in Threads :
            /\ phase[t] = "called" /\ phase'[t] = "done"
            /\ call[t].op = "resolve" /\ call[t].id = id
            /\ "force" \in call[t].opts /\ call[t].tok = NoToken]_file

(***************************************************************************)
(* The inductive invariant that module SessionProofs proves                *)
(***************************************************************************)
\* A call in progress is one of the serve process that runs, with its token, or
\* of a command.
CallsOK ==
  \A t \in Threads : phase[t] # "idle" =>
    \/ Up(ProcOf[t]) /\ ToolCall(ProcOf[t], call[t])
    \/ ProcOf[t] \notin Servers /\ CommandCall(call[t])

\* No two serve processes, at once or one after another, have the same token.
TokensOK ==
  /\ \A p \in Servers : token[p] \notin ended
  /\ \A p, q \in Servers : Up(p) /\ token[p] = token[q] => p = q

\* No caller registers a name that the counter yields, now or later, and the
\* file starts without one it has yet to reach.  The code does not see to this.
SlugsApart ==
  /\ \A c \in Menu : c.op = "register_with_id" => \A n \in Nat : c.id # Allocate(n)
  /\ \A f \in InitFiles : \A id \in DOMAIN f.st.records, n \in Nat :
       id = Allocate(n) => n < f.st.counter

\* Every allocated id in the file is of a counter already passed.
Behind ==
  \A id \in DOMAIN file.st.records, n \in Nat :
    id = Allocate(n) => n < file.st.counter

\* What a decided call is about to report stands, or was purged since.
Promised(t) ==
  phase[t] = "done" => \A f \in Facts(t) : f.id \in removed \/ Stands(f)

Core == IndInv /\ SessionTypeOK /\ CallsOK /\ TokensOK

Told == AnswersStand /\ \A t \in Threads : Promised(t)

==============================================================================
