---------------------------- MODULE SessionProofs ----------------------------
(***************************************************************************)
(* Theorems about Session, for any number of serve processes, handlers and *)
(* commands, with every fault, lost answers and restarts at any step.      *)
(***************************************************************************)
EXTENDS Session, SpecProofs

(***************************************************************************)
(* Tools and commands use the store by its calls only                      *)
(***************************************************************************)
LEMMA SessionStep == [SessionNext]_allVars => [Next]_vars
<1>. SUFFICES ASSUME [SessionNext]_allVars PROVE [Next]_vars
  OBVIOUS
<1>1. ASSUME NEW p \in Servers, Serve(p) \/ Stop(p) PROVE [Next]_vars
  BY <1>1, ServersAssumption DEF Serve, Stop, Next
<1>2. ASSUME NEW p \in Procs \ Servers, Kill(p) PROVE [Next]_vars
  BY <1>2 DEF Kill, Next
<1>3. ASSUME NEW t \in Threads, NEW c \in Menu, CallTool(t, c) \/ RunCommand(t, c)
      PROVE  Next
  BY <1>3 DEF CallTool, RunCommand, Next
<1>4. ASSUME NEW t \in Threads, Work(t) \/ Reply(t) PROVE Next
  BY <1>4 DEF Work, Reply, Next
<1>5. UNCHANGED allVars => UNCHANGED vars
  BY DEF allVars
<1>. QED
  BY <1>1, <1>2, <1>3, <1>4, <1>5 DEF SessionNext, Step

\* Servers and commands together are clients of the promised store: all that
\* holds of ChainSpec holds with them at work.
THEOREM SessionsAreClients == SessionSpec => Spec
<1>1. SessionInit => Init
  BY DEF SessionInit
<1>. QED
  BY <1>1, SessionStep, PTL DEF SessionSpec, Spec

(***************************************************************************)
(* Types, calls and tokens                                                 *)
(***************************************************************************)
LEMMA CoreInit == SessionInit => Core
<1>. SUFFICES ASSUME SessionInit PROVE Core
  OBVIOUS
<1>1. IndInv
  BY InitInv DEF SessionInit
<1>2. SessionTypeOK
  BY <1>1 DEF SessionInit, SessionTypeOK, IndInv
<1>3. CallsOK /\ TokensOK
  BY DEF SessionInit, Init, CallsOK, TokensOK, Up
<1>. QED
  BY <1>1, <1>2, <1>3 DEF Core

LEMMA FactsAreFacts ==
  ASSUME NEW t, NEW f \in Facts(t)
  PROVE  f = Fact(f.id, f.tok, f.is)
BY DEF Facts, ToolFacts, CommandFacts, Fact

LEMMA TypesKept ==
  ASSUME Core, TypeOK', SessionNext
  PROVE  SessionTypeOK'
<1>1. TypeOK /\ SessionTypeOK
  BY DEF Core, SessionTypeOK
<1>2. token' \in [Servers -> Tokens \cup {NoToken}] /\ ended' \subseteq Tokens
  <2>1. ASSUME NEW p \in Servers, Serve(p) \/ Stop(p)
        PROVE  token' \in [Servers -> Tokens \cup {NoToken}] /\ ended' \subseteq Tokens
    BY <1>1, <2>1 DEF SessionTypeOK, Serve, Stop, NewTokens, Up
  <2>2. UNCHANGED sessionVars
          => token' \in [Servers -> Tokens \cup {NoToken}] /\ ended' \subseteq Tokens
    BY <1>1 DEF SessionTypeOK, sessionVars
  <2>. QED
    BY <2>1, <2>2 DEF SessionNext, Step, Kill, CallTool, RunCommand, Work, Reply
<1>3. \A f \in told' : f = Fact(f.id, f.tok, f.is)
  BY <1>1, FactsAreFacts DEF SessionNext, Note, StillThere, SessionTypeOK
<1>4. \A id \in removed' : IsId(id)
  <2>1. \A id \in DOMAIN file.st.records : IsId(id)
    BY <1>1, FileParts, StateParts DEF TypeOK, IsRecords
  <2>. QED
    BY <1>1, <2>1 DEF SessionNext, Note, SessionTypeOK
<1>. QED
  BY <1>2, <1>3, <1>4 DEF SessionTypeOK

LEMMA CallsKept ==
  ASSUME Core, SessionNext
  PROVE  CallsOK' /\ TokensOK'
<1>1. CallsOK /\ TokensOK /\ token \in [Servers -> Tokens \cup {NoToken}]
      /\ ended \subseteq Tokens
  BY DEF Core, SessionTypeOK
<1>2. /\ phase \in [Threads -> {"idle", "called", "done"}]
      /\ call \in [Threads -> Menu \cup {NoCall}]
  BY DEF Core, IndInv, TypeOK
<1>3. ASSUME UNCHANGED sessionVars,
             \A t \in Threads :
               /\ phase'[t] # "idle"
               => \/ phase[t] # "idle" /\ call'[t] = call[t]
                  \/ Up(ProcOf[t]) /\ ToolCall(ProcOf[t], call'[t])
                  \/ ProcOf[t] \notin Servers /\ CommandCall(call'[t])
      PROVE  CallsOK' /\ TokensOK'
  BY <1>1, <1>3 DEF CallsOK, TokensOK, sessionVars, Up, ToolCall, CommandCall
<1>4. ASSUME NEW p \in Servers, Serve(p) PROVE CallsOK' /\ TokensOK'
  <2>1. PICK k \in NewTokens : token' = [token EXCEPT ![p] = k]
    BY <1>4 DEF Serve
  <2>2. k \in Tokens /\ k \notin ended /\ k # NoToken
        /\ \A q \in Servers : token[q] # k
    BY <2>1, TokensAssumption DEF NewTokens, Live
  <2>3. ended' = ended /\ phase' = phase /\ call' = call /\ ~ Up(p)
    BY <1>4 DEF Serve, vars
  <2>4. TokensOK'
    BY <1>1, <2>1, <2>2, <2>3 DEF TokensOK, Up
  <2>5. CallsOK'
    BY <1>1, <2>1, <2>3 DEF CallsOK, Up, ToolCall, CommandCall
  <2>. QED
    BY <2>4, <2>5
<1>5. ASSUME NEW p \in Servers, Stop(p) PROVE CallsOK' /\ TokensOK'
  <2>1. /\ token' = [token EXCEPT ![p] = NoToken]
        /\ ended' = ended \cup {token[p]}
        /\ token[p] # NoToken
        /\ phase' = [t \in Threads |-> IF ProcOf[t] = p THEN "idle" ELSE phase[t]]
        /\ call' = [t \in Threads |-> IF ProcOf[t] = p THEN NoCall ELSE call[t]]
    BY <1>5 DEF Stop, Crash, Up
  <2>2. TokensOK'
    BY <1>1, <2>1, TokensAssumption DEF TokensOK, Up
  <2>3. CallsOK'
    BY <1>1, <2>1 DEF CallsOK, Up, ToolCall, CommandCall
  <2>. QED
    BY <2>2, <2>3
<1>6. ASSUME NEW t \in Threads, NEW c \in Menu, CallTool(t, c) \/ RunCommand(t, c)
      PROVE  CallsOK' /\ TokensOK'
  BY <1>2, <1>3, <1>6 DEF CallTool, RunCommand, Invoke, Refuse
<1>7. ASSUME NEW t \in Threads, Work(t) \/ Reply(t) PROVE CallsOK' /\ TokensOK'
  BY <1>2, <1>3, <1>7 DEF Work, Reply, Perform, Fault, Degrade, Return
<1>8. ASSUME NEW p \in Procs \ Servers, Kill(p) PROVE CallsOK' /\ TokensOK'
  BY <1>2, <1>3, <1>8 DEF Kill, Crash
<1>. QED
  BY <1>4, <1>5, <1>6, <1>7, <1>8 DEF SessionNext, Step

LEMMA CoreNext == Core /\ [SessionNext]_allVars => Core'
<1>. SUFFICES ASSUME Core, [SessionNext]_allVars PROVE Core'
  OBVIOUS
<1>1. IndInv'
  BY SessionStep, NextInv DEF Core
<1>2. CASE SessionNext
  BY <1>1, <1>2, TypesKept, CallsKept DEF Core, IndInv
<1>3. CASE UNCHANGED allVars
  BY <1>1, <1>3 DEF Core, allVars, vars, sessionVars, SessionTypeOK, IndInv, CallsOK,
                    TokensOK, Up, ToolCall, CommandCall
<1>. QED
  BY <1>2, <1>3

LEMMA CoreHolds == SessionSpec => []Core
BY CoreInit, CoreNext, PTL DEF SessionSpec

\* Every serve process that runs has a token, every history is of the right kind,
\* and the store is well formed underneath.
THEOREM SessionTypeCorrect == SessionSpec => []SessionTypeOK
<1>1. Core => SessionTypeOK
  BY DEF Core
<1>. QED
  BY <1>1, CoreHolds, PTL

(***************************************************************************)
(* What a step does to the records, while slugs are kept apart             *)
(***************************************************************************)
\* Only a call that is decided replaces the file, by its effect.
LEMMA CommitIs ==
  ASSUME IndInv, [Next]_vars, file' # file
  PROVE  \E t \in Threads :
           /\ phase[t] = "called" /\ phase'[t] = "done"
           /\ file'.st = Apply(file.st, call[t]).st
           /\ Apply(file.st, call[t]).res.err = "none"
           /\ call[t] \in Menu /\ Precheck(call[t]) = "none" /\ ~ ReadOnly(call[t])
           /\ IsState(file.st)
<1>1. PICK t \in Threads : Perform(t) \/ Fault(t)
  BY DEF Next, vars, Invoke, Refuse, Degrade, Return, Crash
<1>2. /\ phase[t] = "called" /\ phase'[t] = "done"
      /\ file' = Effect(file, call[t])
  BY <1>1 DEF Perform, Fault, IndInv, TypeOK
<1>3. /\ call[t] \in Menu /\ Precheck(call[t]) = "none"
      /\ IsState(file.st)
  BY <1>2, FileParts DEF IndInv, CallOK, TypeOK
<1>4. /\ Answer(file, call[t]).err = "none" /\ ~ ReadOnly(call[t])
      /\ file' = Saved(Apply(file.st, call[t]).st)
  BY <1>2 DEF Effect
<1>5. Apply(file.st, call[t]).res.err = "none"
  BY <1>4, LoadErrorIsError DEF Answer, Fail, Result
<1>6. file'.st = Apply(file.st, call[t]).st
  BY <1>4 DEF Saved
<1>. QED
  BY <1>2, <1>3, <1>4, <1>5, <1>6

\* How a call c that succeeds turns the records rs into rt, where n is the
\* counter it finds.
Rewrites(c, rs, n, rt) ==
  \/ c.op = "register" /\ rt = Put(rs, Allocate(n), NewRecord(c.tok))
  \/ /\ c.op = "register_with_id"
     /\ c.id \notin DOMAIN rs
     /\ rt = Put(rs, c.id, NewRecord(c.tok))
  \/ /\ c.op = "resolve"
     /\ c.id \in DOMAIN rs
     /\ rs[c.id].status # "resolved"
     /\ "force" \in c.opts \/ rs[c.id].owner = c.tok
     /\ rt = Put(rs, c.id, [rs[c.id] EXCEPT !.status = "resolved"])
  \/ \E gone : c.op = "purge" /\ rt = Keep(rs, DOMAIN rs \ gone)

LEMMA WriterRecords ==
  ASSUME NEW st, IsState(st), NEW c \in Menu, ~ ReadOnly(c),
         Apply(st, c).res.err = "none"
  PROVE  Rewrites(c, st.records, st.counter, Apply(st, c).st.records)
<1>1. c.op \in {"register", "register_with_id", "resolve", "purge"}
  BY MenuAssumption DEF ReadOnly, Calls, Ops
<1>2. CASE c.op = "register"
  BY <1>2, RegisterRecords DEF Apply, Rewrites
<1>3. CASE c.op = "register_with_id"
  BY <1>3, RegisterWithIDRecords DEF Apply, Rewrites
<1>4. CASE c.op = "resolve"
  BY <1>4, ResolveRecords DEF Apply, Rewrites
<1>5. CASE c.op = "purge"
  <2>1. Apply(st, c) = Purge(st, c)
    BY <1>5 DEF Apply
  <2>2. Apply(st, c).st.records = Keep(st.records, DOMAIN st.records \ Purged(st, c))
    BY <2>1, PurgeRecords
  <2>. QED
    BY <1>5, <2>2 DEF Rewrites
<1>. QED
  BY <1>1, <1>2, <1>3, <1>4, <1>5

\* What comes in is what was registered; what stays, and is not resolved, stays
\* as it is unless a register lands on it.
LEMMA RewriteAdds ==
  ASSUME NEW c, NEW rs, NEW n, NEW rt, Rewrites(c, rs, n, rt), NEW id \in DOMAIN rt
  PROVE  \/ id \in DOMAIN rs
         \/ c.op = "register" /\ id = Allocate(n)
         \/ c.op = "register_with_id" /\ id = c.id
BY DEF Rewrites, Put, Keep

LEMMA RewriteKeeps ==
  ASSUME NEW c, NEW rs, NEW n, NEW rt, Rewrites(c, rs, n, rt),
         NEW id \in DOMAIN rs, id \in DOMAIN rt, id # Allocate(n)
  PROVE  \/ rt[id] = rs[id]
         \/ /\ c.op = "resolve" /\ id = c.id
            /\ "force" \in c.opts \/ c.tok = rs[id].owner
            /\ rt[id] = [rs[id] EXCEPT !.status = "resolved"]
<1>1. CASE c.op = "register" /\ rt = Put(rs, Allocate(n), NewRecord(c.tok))
  BY <1>1, PutFacts
<1>2. CASE c.id \notin DOMAIN rs /\ rt = Put(rs, c.id, NewRecord(c.tok))
  BY <1>2, PutFacts
<1>3. CASE /\ c.op = "resolve"
           /\ "force" \in c.opts \/ rs[c.id].owner = c.tok
           /\ rt = Put(rs, c.id, [rs[c.id] EXCEPT !.status = "resolved"])
  BY <1>3, PutFacts
<1>4. CASE \E gone : rt = Keep(rs, DOMAIN rs \ gone)
  BY <1>4, KeepFacts
<1>. QED
  BY <1>1, <1>2, <1>3, <1>4 DEF Rewrites

LEMMA BehindStep ==
  ASSUME SlugsApart, IndInv, Behind, [Next]_vars
  PROVE  Behind'
<1>1. CASE file' = file
  BY <1>1 DEF Behind
<1>2. CASE file' # file
  <2>1. PICK t \in Threads :
          /\ file'.st = Apply(file.st, call[t]).st
          /\ Apply(file.st, call[t]).res.err = "none"
          /\ call[t] \in Menu /\ Precheck(call[t]) = "none" /\ ~ ReadOnly(call[t])
          /\ IsState(file.st)
    BY <1>2, CommitIs
  <2>. DEFINE c == call[t]
              rs == file.st.records
              n0 == file.st.counter
  <2>2. n0 \in Nat
    BY <2>1, StateParts
  <2>3. /\ c.op = "register" => file'.st.counter = n0 + 1
        /\ c.op # "register" => file'.st.counter = n0
    BY <2>1, MenuWellFormed, ApplyTypes
  <2>4. Rewrites(c, rs, n0, file'.st.records)
    BY <2>1, WriterRecords
  <2>5. \A id \in DOMAIN file'.st.records :
          \/ id \in DOMAIN rs
          \/ c.op = "register" /\ id = Allocate(n0)
          \/ c.op = "register_with_id" /\ id = c.id
    BY <2>4, RewriteAdds
  <2>6. \A m \in Nat : Allocate(n0) = Allocate(m) => n0 = m
    BY <2>2, AllocateInjective
  <2>7. c.op = "register_with_id" => \A m \in Nat : c.id # Allocate(m)
    BY <2>1 DEF SlugsApart
  <2>8. \A id \in DOMAIN rs, m \in Nat : id = Allocate(m) => m < n0
    BY DEF Behind
  <2>. HIDE DEF c, rs, n0
  <2>. SUFFICES ASSUME NEW id \in DOMAIN file'.st.records, NEW m \in Nat, id = Allocate(m)
                PROVE  m < file'.st.counter
    BY DEF Behind
  <2>. QED
    BY <2>2, <2>3, <2>5, <2>6, <2>7, <2>8
<1>. QED
  BY <1>1, <1>2

\* A record goes, stays, or is resolved by its owner or by force.
ResolvedBy(t, id) ==
  /\ phase[t] = "called" /\ phase'[t] = "done"
  /\ call[t].op = "resolve" /\ call[t].id = id
  /\ "force" \in call[t].opts \/ call[t].tok = file.st.records[id].owner
  /\ file'.st.records[id] = [file.st.records[id] EXCEPT !.status = "resolved"]

LEMMA RecordStep ==
  ASSUME IndInv, Behind, [Next]_vars,
         NEW id \in DOMAIN file.st.records, id \in DOMAIN file'.st.records
  PROVE  \/ file'.st.records[id] = file.st.records[id]
         \/ \E t \in Threads : ResolvedBy(t, id)
<1>1. CASE file' = file
  BY <1>1
<1>2. CASE file' # file
  <2>1. PICK t \in Threads :
          /\ phase[t] = "called" /\ phase'[t] = "done"
          /\ file'.st = Apply(file.st, call[t]).st
          /\ Apply(file.st, call[t]).res.err = "none"
          /\ call[t] \in Menu /\ Precheck(call[t]) = "none" /\ ~ ReadOnly(call[t])
          /\ IsState(file.st)
    BY <1>2, CommitIs
  <2>2. Allocate(file.st.counter) # id
    <3>1. file.st.counter \in Nat /\ ~ (file.st.counter < file.st.counter)
      BY <2>1, StateParts
    <3>. QED
      BY <3>1 DEF Behind
  <2>3. Rewrites(call[t], file.st.records, file.st.counter, file'.st.records)
    BY <2>1, WriterRecords
  <2>. QED
    BY <2>1, <2>2, <2>3, RewriteKeeps DEF ResolvedBy
<1>. QED
  BY <1>1, <1>2

(***************************************************************************)
(* Orphans                                                                 *)
(***************************************************************************)
LEMMA BehindHolds ==
  ASSUME SlugsApart
  PROVE  SessionSpec => [](Core /\ Behind)
<1>1. SessionInit => Behind
  BY DEF SessionInit, Init, SlugsApart, Behind
<1>2. Core /\ Behind /\ [SessionNext]_allVars => Behind'
  BY SessionStep, BehindStep DEF Core
<1>. QED
  BY <1>1, <1>2, CoreHolds, PTL DEF SessionSpec

\* What a serve process that has ended registered is only ever resolved with
\* --force (owner.go: one token to a process), while slugs and allocated ids are
\* kept apart.
THEOREM OrphansForced ==
  ASSUME SlugsApart
  PROVE  SessionSpec => OrphansNeedForce
<1>. DEFINE A == \A id \in DOMAIN file.st.records \cap DOMAIN file'.st.records :
                   /\ file.st.records[id].owner \in ended
                   /\ file'.st.records[id] # file.st.records[id]
                   => \E t \in Threads :
                        /\ phase[t] = "called" /\ phase'[t] = "done"
                        /\ call[t].op = "resolve" /\ call[t].id = id
                        /\ "force" \in call[t].opts /\ call[t].tok = NoToken
<1>1. Core /\ Behind /\ [SessionNext]_allVars => [A]_file
  <2>. SUFFICES ASSUME Core, Behind, [SessionNext]_allVars,
                       NEW id \in DOMAIN file.st.records, id \in DOMAIN file'.st.records,
                       file.st.records[id].owner \in ended,
                       file'.st.records[id] # file.st.records[id]
                PROVE  \E t \in Threads :
                         /\ phase[t] = "called" /\ phase'[t] = "done"
                         /\ call[t].op = "resolve" /\ call[t].id = id
                         /\ "force" \in call[t].opts /\ call[t].tok = NoToken
    OBVIOUS
  <2>1. PICK t \in Threads : ResolvedBy(t, id)
    BY SessionStep, RecordStep DEF Core
  <2>2. ended \subseteq Tokens /\ \A p \in Servers : token[p] \notin ended
    BY DEF Core, SessionTypeOK, TokensOK
  <2>3. \/ Up(ProcOf[t]) /\ ToolCall(ProcOf[t], call[t])
        \/ CommandCall(call[t])
    BY <2>1 DEF Core, CallsOK, ResolvedBy
  <2>4. ~ (Up(ProcOf[t]) /\ ToolCall(ProcOf[t], call[t]))
    BY <2>1, <2>2 DEF ToolCall, Up, ResolvedBy
  <2>5. call[t].tok = NoToken /\ NoToken \notin ended
    BY <2>2, <2>3, <2>4, TokensAssumption DEF CommandCall
  <2>. QED
    BY <2>1, <2>5 DEF ResolvedBy
<1>. QED
  BY <1>1, BehindHolds, PTL DEF SessionSpec, OrphansNeedForce

(***************************************************************************)
(* Answers                                                                 *)
(***************************************************************************)
\* Stands and Facts as functions of what they read.
StandsIn(f, rs) ==
  /\ f.id \in DOMAIN rs
  /\ f.is = "registered" => rs[f.id].owner = f.tok
  /\ f.is = "resolved" => rs[f.id].status = "resolved"
  /\ f.is # "purged"

FactsOf(c, res, p, toks) ==
  CASE p \in Servers /\ toks[p] # NoToken /\ ToolCode(res.err) = "ok"
         -> ToolFacts(c, res, toks[p])
    [] p \notin Servers /\ ExitCode(c, res) = 0 -> CommandFacts(c)
    [] OTHER -> {}

LEMMA ErrorsTellNothing ==
  ASSUME NEW c, NEW res, NEW p, NEW toks, res.err # "none"
  PROVE  FactsOf(c, res, p, toks) = {}
<1>1. ToolCode(res.err) # "ok"
  BY DEF ToolCode
<1>2. ExitCode(c, res) # 0
  BY DEF ExitCode, StatusExit
<1>. QED
  BY <1>1, <1>2 DEF FactsOf

LEMMA ToolTells ==
  ASSUME NEW f, IsFile(f), NEW c \in Menu, Precheck(c) = "none",
         c.op \in {"register", "register_with_id", "resolve"},
         Answer(f, c).err = "none",
         NEW x \in ToolFacts(c, Answer(f, c), c.tok)
  PROVE  StandsIn(x, Effect(f, c).st.records)
<1>. DEFINE rs == f.st.records
            rt == Effect(f, c).st.records
            n  == f.st.counter
<1>1. IsState(f.st) /\ ~ ReadOnly(c)
  BY FileParts DEF ReadOnly
<1>2. Answer(f, c) = Apply(f.st, c).res /\ Apply(f.st, c).res.err = "none"
  BY LoadErrorIsError DEF Answer, Fail, Result
<1>3. Effect(f, c).st = Apply(f.st, c).st
  BY <1>1 DEF Effect, Saved
<1>4. Rewrites(c, rs, n, rt)
  BY <1>1, <1>2, <1>3, WriterRecords
<1>5. c.op = "register" => Answer(f, c).id = Allocate(n)
  BY <1>1, <1>2, MenuWellFormed, ApplyTypes
<1>6. CASE c.op = "register"
  <2>1. x = Fact(Allocate(n), c.tok, "registered")
    BY <1>5, <1>6 DEF ToolFacts
  <2>2. rt = Put(rs, Allocate(n), NewRecord(c.tok))
    BY <1>4, <1>6 DEF Rewrites
  <2>. QED
    BY <2>1, <2>2 DEF StandsIn, Fact, Put, NewRecord
<1>7. CASE c.op = "register_with_id"
  <2>1. x = Fact(c.id, c.tok, "registered")
    BY <1>7 DEF ToolFacts
  <2>2. rt = Put(rs, c.id, NewRecord(c.tok))
    BY <1>4, <1>7 DEF Rewrites
  <2>. QED
    BY <2>1, <2>2 DEF StandsIn, Fact, Put, NewRecord
<1>8. CASE c.op = "resolve"
  <2>1. x = Fact(c.id, NoToken, "resolved")
    BY <1>8 DEF ToolFacts
  <2>2. c.id \in DOMAIN rs
        /\ rt = Put(rs, c.id, [rs[c.id] EXCEPT !.status = "resolved"])
    BY <1>4, <1>8 DEF Rewrites
  <2>3. rs[c.id] \in Record
    BY <1>1, <2>2, StateParts DEF IsRecords
  <2>4. rt[c.id].status = "resolved" /\ c.id \in DOMAIN rt
    BY <2>2, <2>3, PutFacts DEF Record
  <2>. QED
    BY <2>1, <2>4 DEF StandsIn, Fact
<1>. QED
  BY <1>6, <1>7, <1>8

LEMMA CommandTells ==
  ASSUME NEW f, IsFile(f), NEW c \in Menu, Precheck(c) = "none",
         CommandCall(c), ExitCode(c, Answer(f, c)) = 0,
         NEW x \in CommandFacts(c)
  PROVE  \/ x.id \in DOMAIN f.st.records \ DOMAIN Effect(f, c).st.records
         \/ StandsIn(x, Effect(f, c).st.records)
<1>1. IsState(f.st)
  BY FileParts
<1>2. Answer(f, c).err = "none"
  BY DEF ExitCode, StatusExit
<1>3. Answer(f, c) = Apply(f.st, c).res /\ Apply(f.st, c).res.err = "none"
  BY <1>2, LoadErrorIsError DEF Answer, Fail, Result
<1>4. CASE c.op = "get"
  <2>1. x = Fact(c.id, NoToken, "resolved")
    BY <1>4 DEF CommandFacts
  <2>2. Effect(f, c) = f
    BY <1>4 DEF Effect, ReadOnly
  <2>3. Answer(f, c).recs[c.id].status = "resolved"
    BY <1>4 DEF ExitCode, StatusExit
  <2>4. Apply(f.st, c) = Get(f.st, c)
    BY <1>4 DEF Apply
  <2>5. c.id \in DOMAIN f.st.records
    BY <1>3, <2>4 DEF Get, Outcome, Fail, Result
  <2>6. Answer(f, c).recs = Keep(f.st.records, {c.id})
    BY <1>3, <2>4, <2>5 DEF Get, Outcome, Result
  <2>7. f.st.records[c.id].status = "resolved"
    BY <2>3, <2>6, KeepFacts
  <2>. QED
    BY <2>1, <2>2, <2>5, <2>7 DEF StandsIn, Fact
<1>5. CASE c.op = "resolve"
  <2>1. x \in ToolFacts(c, Answer(f, c), c.tok)
    BY <1>5 DEF CommandFacts, ToolFacts
  <2>. QED
    BY <1>2, <1>5, <2>1, ToolTells
<1>6. CASE c.op = "purge" /\ c.id # NoId
  <2>1. x = Fact(c.id, NoToken, "purged")
    BY <1>6 DEF CommandFacts
  <2>2. Apply(f.st, c) = Purge(f.st, c) /\ Purged(f.st, c) = {c.id}
    <3>1. \E x0 : PurgeTargets(c) = {x0}
      BY <1>6 DEF Precheck
    <3>2. "id" \in PurgeTargets(c) /\ ("all" \in c.opts => "all" \in PurgeTargets(c))
      BY <1>6 DEF PurgeTargets
    <3>3. "all" \notin c.opts
      BY <3>1, <3>2
    <3>. QED
      BY <1>6, <3>3 DEF Apply, Purged
  <2>3. c.id \in DOMAIN f.st.records
    BY <1>3, <2>2 DEF Purge, Outcome, Fail, Result
  <2>4. Effect(f, c).st = Apply(f.st, c).st
    BY <1>2, <1>6 DEF Effect, ReadOnly, Saved
  <2>5. Effect(f, c).st.records = Keep(f.st.records, DOMAIN f.st.records \ {c.id})
    BY <1>1, <1>3, <2>2, <2>4, PurgeRecords
  <2>. QED
    BY <2>1, <2>3, <2>5, KeepFacts DEF Fact
<1>7. CASE c.op = "list" \/ (c.op = "purge" /\ c.id = NoId)
  BY <1>7 DEF CommandFacts
<1>. QED
  BY <1>4, <1>5, <1>6, <1>7 DEF CommandCall

\* A decided call was decided before and nothing about it has changed, or it
\* failed, or it has just been decided by its effect on the file.
LEMMA DecidedCalls ==
  ASSUME Core, SessionNext, NEW t \in Threads, phase'[t] = "done"
  PROVE  \/ /\ phase[t] = "done"
            /\ FactsOf(call'[t], out'[t], ProcOf[t], token')
                 = FactsOf(call[t], out[t], ProcOf[t], token)
         \/ out'[t].err # "none"
         \/ /\ phase[t] = "called" /\ call'[t] = call[t]
            /\ out'[t] = Answer(file, call[t]) /\ file' = Effect(file, call[t])
            /\ token' = token
<1>1. /\ phase \in [Threads -> {"idle", "called", "done"}]
      /\ call \in [Threads -> Menu \cup {NoCall}]
      /\ out = [u \in Threads |-> out[u]]
  BY DEF Core, IndInv, TypeOK
<1>2. ASSUME NEW p \in Servers, Serve(p)
      PROVE  /\ phase[t] = "done"
             /\ FactsOf(call'[t], out'[t], ProcOf[t], token')
                  = FactsOf(call[t], out[t], ProcOf[t], token)
  <2>1. phase' = phase /\ call' = call /\ out' = out /\ ~ Up(p)
    BY <1>2 DEF Serve, vars
  <2>2. ProcOf[t] # p
    BY <1>2, <2>1 DEF Core, CallsOK
  <2>3. token' = token \/ \A q \in Servers : q # p => token'[q] = token[q]
    BY <1>2 DEF Serve, Core, SessionTypeOK
  <2>. QED
    BY <2>1, <2>2, <2>3 DEF FactsOf
<1>3. ASSUME NEW p \in Procs, Crash(p)
      PROVE  /\ phase[t] = "done" /\ call'[t] = call[t] /\ out'[t] = out[t]
             /\ ProcOf[t] # p
  BY <1>1, <1>3 DEF Crash
<1>4. ASSUME NEW p \in Servers, Stop(p)
      PROVE  /\ phase[t] = "done"
             /\ FactsOf(call'[t], out'[t], ProcOf[t], token')
                  = FactsOf(call[t], out[t], ProcOf[t], token)
  <2>1. \A q \in Servers : q # p => token'[q] = token[q]
    BY <1>4 DEF Stop, Core, SessionTypeOK
  <2>. QED
    BY <1>3, <1>4, <2>1, ServersAssumption DEF Stop, FactsOf
<1>5. ASSUME NEW p \in Procs, Kill(p)
      PROVE  /\ phase[t] = "done"
             /\ FactsOf(call'[t], out'[t], ProcOf[t], token')
                  = FactsOf(call[t], out[t], ProcOf[t], token)
  BY <1>3, <1>5 DEF Kill, sessionVars
<1>6. ASSUME NEW u \in Threads, NEW c \in Menu, Invoke(u, c)
      PROVE  phase[t] = "done" /\ call'[t] = call[t] /\ out'[t] = out[t]
  BY <1>1, <1>6 DEF Invoke
<1>7. ASSUME NEW u \in Threads, NEW c \in Menu, Refuse(u, c)
      PROVE  \/ phase[t] = "done" /\ call'[t] = call[t] /\ out'[t] = out[t]
             \/ out'[t].err # "none"
  BY <1>1, <1>7 DEF Refuse, Fail, Result
<1>8. ASSUME NEW u \in Threads, Perform(u) \/ Fault(u) \/ Degrade(u) \/ Return(u)
      PROVE  \/ phase[t] = "done" /\ call'[t] = call[t] /\ out'[t] = out[t]
             \/ out'[t].err # "none"
             \/ /\ phase[t] = "called" /\ call'[t] = call[t]
                /\ out'[t] = Answer(file, call[t]) /\ file' = Effect(file, call[t])
  BY <1>1, <1>8 DEF Perform, Fault, Degrade, Return, Fail, Result
<1>9. ASSUME NEW u \in Threads, NEW c \in Menu, CallTool(u, c) \/ RunCommand(u, c)
      PROVE  \/ phase[t] = "done" /\ call'[t] = call[t] /\ out'[t] = out[t] /\ token' = token
             \/ out'[t].err # "none"
  BY <1>6, <1>7, <1>9 DEF CallTool, RunCommand, sessionVars
<1>10. ASSUME NEW u \in Threads, Work(u) \/ Reply(u)
       PROVE  /\ token' = token
              /\ \/ phase[t] = "done" /\ call'[t] = call[t] /\ out'[t] = out[t]
                 \/ out'[t].err # "none"
                 \/ /\ phase[t] = "called" /\ call'[t] = call[t]
                    /\ out'[t] = Answer(file, call[t]) /\ file' = Effect(file, call[t])
  BY <1>8, <1>10 DEF Work, Reply, sessionVars
<1>. QED
  BY <1>2, <1>4, <1>5, <1>9, <1>10 DEF SessionNext, Step

LEMMA StandingKept ==
  ASSUME IndInv, Behind, [Next]_vars, NEW x, StandsIn(x, file.st.records),
         x.id \in DOMAIN file'.st.records
  PROVE  StandsIn(x, file'.st.records)
<1>1. x.id \in DOMAIN file.st.records
  BY DEF StandsIn
<1>2. file.st.records[x.id] \in Record
  BY <1>1, FileParts, StateParts DEF IndInv, TypeOK, IsRecords
<1>3. \/ file'.st.records[x.id] = file.st.records[x.id]
      \/ file'.st.records[x.id] = [file.st.records[x.id] EXCEPT !.status = "resolved"]
  BY <1>1, RecordStep DEF ResolvedBy
<1>4. /\ file'.st.records[x.id].owner = file.st.records[x.id].owner
      /\ \/ file'.st.records[x.id].status = file.st.records[x.id].status
         \/ file'.st.records[x.id].status = "resolved"
  BY <1>2, <1>3 DEF Record
<1>. QED
  BY <1>4 DEF StandsIn

LEMMA ToldNext ==
  ASSUME Core, Behind, Told, SessionNext
  PROVE  Told'
<1>1. removed' = removed \cup (DOMAIN file.st.records \ DOMAIN file'.st.records)
  BY DEF SessionNext, Note
<1>2. ASSUME NEW x, x.id \in removed \/ StandsIn(x, file.st.records)
      PROVE  x.id \in removed' \/ StandsIn(x, file'.st.records)
  <2>1. CASE x.id \in removed
    BY <1>1, <2>1
  <2>2. CASE StandsIn(x, file.st.records) /\ x.id \in DOMAIN file'.st.records
    BY <2>2, SessionStep, StandingKept DEF Core
  <2>3. CASE StandsIn(x, file.st.records) /\ x.id \notin DOMAIN file'.st.records
    BY <1>1, <2>3 DEF StandsIn
  <2>. QED
    BY <1>2, <2>1, <2>2, <2>3
<1>3. \A t \in Threads : phase[t] = "done" =>
        \A x \in Facts(t) : x.id \in removed \/ StandsIn(x, file.st.records)
  BY DEF Told, Promised, Stands, StandsIn
<1>4. AnswersStand'
  <2>. SUFFICES ASSUME NEW x \in told' PROVE StandsIn(x, file'.st.records)
    BY DEF AnswersStand, Stands, StandsIn
  <2>1. /\ x.id \notin removed'
        /\ x \in told \/ \E t \in Threads : phase[t] = "done" /\ x \in Facts(t)
    BY DEF SessionNext, Note, StillThere, Reply, Return
  <2>2. x \in told => StandsIn(x, file.st.records)
    BY DEF Told, AnswersStand, Stands, StandsIn
  <2>. QED
    BY <1>2, <1>3, <2>1, <2>2
<1>5. ASSUME NEW t \in Threads PROVE Promised(t)'
  <2>1. /\ Facts(t) = FactsOf(call[t], out[t], ProcOf[t], token)
        /\ Facts(t)' = FactsOf(call'[t], out'[t], ProcOf[t], token')
    BY DEF Facts, FactsOf, Up
  <2>. SUFFICES ASSUME phase'[t] = "done",
                       NEW x \in FactsOf(call'[t], out'[t], ProcOf[t], token')
                PROVE  x.id \in removed' \/ StandsIn(x, file'.st.records)
    BY <2>1 DEF Promised, Stands, StandsIn
  <2>2. CASE phase[t] = "done" /\ x \in Facts(t)
    BY <1>2, <1>3, <2>2
  <2>3. CASE out'[t].err # "none"
    BY <2>3, ErrorsTellNothing
  <2>4. CASE /\ phase[t] = "called" /\ call'[t] = call[t]
             /\ out'[t] = Answer(file, call[t]) /\ file' = Effect(file, call[t])
             /\ token' = token
             /\ out'[t].err = "none"
    <3>1. IsFile(file) /\ call[t] \in Menu /\ Precheck(call[t]) = "none"
      BY <2>4 DEF Core, IndInv, TypeOK, CallOK
    <3>2. \/ Up(ProcOf[t]) /\ ToolCall(ProcOf[t], call[t])
          \/ ProcOf[t] \notin Servers /\ CommandCall(call[t])
      BY <2>4 DEF Core, CallsOK
    <3>3. CASE Up(ProcOf[t]) /\ ToolCall(ProcOf[t], call[t])
      <4>1. x \in ToolFacts(call[t], Answer(file, call[t]), call[t].tok)
        BY <2>4, <3>3 DEF FactsOf, Up, ToolCall
      <4>. QED
        BY <2>4, <3>1, <3>3, <4>1, ToolTells DEF ToolCall
    <3>4. CASE ProcOf[t] \notin Servers /\ CommandCall(call[t])
      <4>1. ExitCode(call[t], Answer(file, call[t])) = 0 /\ x \in CommandFacts(call[t])
        BY <2>4, <3>4 DEF FactsOf
      <4>2. \/ x.id \in DOMAIN file.st.records \ DOMAIN file'.st.records
            \/ StandsIn(x, file'.st.records)
        BY <2>4, <3>1, <3>4, <4>1, CommandTells
      <4>. QED
        BY <1>1, <4>2
    <3>. QED
      BY <3>2, <3>3, <3>4
  <2>. QED
    BY <2>1, <2>2, <2>3, <2>4, DecidedCalls
<1>. QED
  BY <1>4, <1>5 DEF Told

\* Whatever a tool or a command reported as done is done, and stays so until a
\* purge (server.go, errors.go, status.go, resolve.go, purge.go), while slugs and
\* allocated ids are kept apart.
THEOREM AnswersHold ==
  ASSUME SlugsApart
  PROVE  SessionSpec => []AnswersStand
<1>1. SessionInit => Told
  BY DEF SessionInit, Init, Told, AnswersStand, Promised
<1>2. Core /\ Behind /\ Told /\ [SessionNext]_allVars => Told'
  <2>1. CASE SessionNext
    BY <2>1, ToldNext
  <2>2. CASE UNCHANGED allVars
    BY <2>2 DEF allVars, vars, sessionVars, Told, AnswersStand, Promised, Stands, Facts, Up
  <2>. QED
    BY <2>1, <2>2
<1>3. Told => AnswersStand
  BY DEF Told
<1>. QED
  BY <1>1, <1>2, <1>3, BehindHolds, PTL DEF SessionSpec

==============================================================================
