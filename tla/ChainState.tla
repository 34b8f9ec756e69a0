----------------------------- MODULE ChainState -----------------------------
(***************************************************************************)
(* The data of internal/store and the pure part of its methods: what       *)
(* state.json holds, what a call asks, and the closure each method hands   *)
(* to withLockedState or withSharedLock, as a function from the decoded    *)
(* state to the mutated state and the method's result.  Store (the code's  *)
(* locking and writing) and ChainSpec (what it promises) share them.       *)
(*                                                                         *)
(* Conditions and timestamps are left out: no branch of the store reads    *)
(* them.                                                                   *)
(***************************************************************************)
EXTENDS IdGen

CONSTANTS
  Tokens,      \* OwnerTokens of serve processes
  NoToken,     \* the empty token the CLI passes to Resolve
  Names,       \* every id string a caller may pass
  ValidNames,  \* the names validateID accepts
  NoId         \* no id: a call without one, a result without one

ASSUME NamesAssumption == ValidNames \subseteq Names /\ NoId \notin Names

ASSUME TokensAssumption == NoToken \notin Tokens

(***************************************************************************)
(* state.json                                                              *)
(***************************************************************************)
Status == {"pending", "resolved"}

Record == [owner : Tokens, status : Status]

IsId(id) == id \in Names \/ IsHexId(id) \/ \E i \in DOMAIN Words : id = Words[i]

\* A Go map[string]record.
IsRecords(f) ==
  /\ f = [id \in DOMAIN f |-> f[id]]
  /\ \A id \in DOMAIN f : IsId(id) /\ f[id] \in Record

IsState(st) ==
  /\ st = [counter |-> st.counter, records |-> st.records]
  /\ st.counter \in Nat
  /\ IsRecords(st.records)

NoRecords == [id \in {} |-> NoId]

EmptyState == [counter |-> 0, records |-> NoRecords]

\* The file: missing, unparseable, of another schema version, or a state.
Forms == {"absent", "corrupt", "foreign", "ok"}

IsFile(f) ==
  /\ f = [form |-> f.form, st |-> f.st]
  /\ f.form \in Forms
  /\ IsState(f.st)
  /\ f.form # "ok" => f.st = EmptyState

Saved(st) == [form |-> "ok", st |-> st]

LoadErrorLax(f) ==   \* mutant: a file that does not parse counts as missing
  IF f.form = "foreign" THEN "schema" ELSE "none"

\* loadState: the error it returns for a file, and the state it decodes.
LoadError(f) ==
  CASE f.form = "corrupt" -> "corrupt"
    [] f.form = "foreign" -> "schema"
    [] OTHER -> "none"

(***************************************************************************)
(* Calls and results                                                       *)
(***************************************************************************)
Ops == {"register", "register_with_id", "resolve", "get", "list", "purge"}

\* opts holds the true fields of ResolveOptions or PurgeOptions; a purge by id
\* is one with an id.
Calls == [op : Ops, tok : Tokens \cup {NoToken}, id : Names \cup {NoId},
          opts : SUBSET {"force", "all", "resolved"}]

NoCall == [op |-> "list", tok |-> NoToken, id |-> NoId, opts |-> {}]

Errors == {"none", "unknown_id", "already_resolved", "not_owner", "id_taken",
           "invalid_id", "purge_arg", "schema", "corrupt", "internal"}

\* err, the id Register returns, and the records Get and List return (for
\* Purge: the ones it removed, whose number it returns).
Result(err, id, recs) == [err |-> err, id |-> id, recs |-> recs]

Fail(err) == Result(err, NoId, NoRecords)

Done == Result("none", NoId, NoRecords)

IsResult(r) ==
  /\ r = Result(r.err, r.id, r.recs)
  /\ r.err \in Errors
  /\ r.id = NoId \/ IsId(r.id)

ReadOnly(c) == c.op \in {"get", "list"}

(***************************************************************************)
(* The checks a method makes before it takes any lock                      *)
(***************************************************************************)
PurgeTargets(c) ==
  (IF c.id # NoId THEN {"id"} ELSE {}) \cup (c.opts \cap {"all", "resolved"})

Precheck(c) ==
  CASE c.op = "register_with_id" /\ c.id \notin ValidNames -> "invalid_id"
    [] c.op = "purge" /\ ~ (\E x \in PurgeTargets(c) : PurgeTargets(c) = {x})
         -> "purge_arg"
    [] OTHER -> "none"

(***************************************************************************)
(* The closures                                                            *)
(***************************************************************************)
Put(f, id, r) == [x \in DOMAIN f \cup {id} |-> IF x = id THEN r ELSE f[x]]

Keep(f, ids) == [x \in ids |-> f[x]]

NewRecordUnowned(tok) ==   \* mutant: the token is not stamped
  [owner |-> NoToken, status |-> "pending"]

NewRecord(tok) == [owner |-> tok, status |-> "pending"]

\* Every closure yields the state it leaves in memory and the result.
Outcome(st, res) == [st |-> st, res |-> res]

RegisterUncounted(st, c) ==   \* mutant: the counter is not advanced
  LET id == Allocate(st.counter)
  IN  Outcome([st EXCEPT !.records = Put(@, id, NewRecord(c.tok))],
              Result("none", id, NoRecords))

Register(st, c) ==
  LET id == Allocate(st.counter)
  IN  Outcome([counter |-> st.counter + 1,
               records |-> Put(st.records, id, NewRecord(c.tok))],
              Result("none", id, NoRecords))

RegisterWithIDAnyway(st, c) ==   \* mutant: a taken id is not refused
  Outcome([st EXCEPT !.records = Put(@, c.id, NewRecord(c.tok))], Done)

RegisterWithID(st, c) ==
  IF c.id \in DOMAIN st.records
  THEN Outcome(st, Fail("id_taken"))
  ELSE Outcome([st EXCEPT !.records = Put(@, c.id, NewRecord(c.tok))], Done)

ResolveErrorUnowned(st, c) ==   \* mutant: the owner is not compared
  IF c.id \notin DOMAIN st.records THEN "unknown_id"
  ELSE IF st.records[c.id].status = "resolved" THEN "already_resolved" ELSE "none"

ResolveError(st, c) ==
  CASE c.id \notin DOMAIN st.records -> "unknown_id"
    [] c.id \in DOMAIN st.records /\ st.records[c.id].status = "resolved"
         -> "already_resolved"
    [] c.id \in DOMAIN st.records /\ st.records[c.id].status # "resolved"
         /\ "force" \notin c.opts /\ st.records[c.id].owner # c.tok
         -> "not_owner"
    [] OTHER -> "none"

ResolveForgotten(st, c) ==   \* mutant: the map entry is not assigned back
  Outcome(st, Fail(ResolveError(st, c)))

Resolve(st, c) ==
  IF ResolveError(st, c) # "none"
  THEN Outcome(st, Fail(ResolveError(st, c)))
  ELSE Outcome([st EXCEPT !.records =
                  Put(@, c.id, [@[c.id] EXCEPT !.status = "resolved"])], Done)

Get(st, c) ==
  IF c.id \in DOMAIN st.records
  THEN Outcome(st, Result("none", NoId, Keep(st.records, {c.id})))
  ELSE Outcome(st, Fail("unknown_id"))

List(st) == Outcome(st, Result("none", NoId, st.records))

\* The ids a well-formed purge selects.
Purged(st, c) ==
  CASE c.id # NoId -> {c.id}
    [] "all" \in c.opts -> DOMAIN st.records
    [] OTHER -> {id \in DOMAIN st.records : st.records[id].status = "resolved"}

PurgeRestarts(st, c) ==   \* mutant: a purge starts the counter again
  IF Purged(st, c) \subseteq DOMAIN st.records
  THEN Outcome([counter |-> 0,
                records |-> Keep(st.records, DOMAIN st.records \ Purged(st, c))],
               Result("none", NoId, Keep(st.records, Purged(st, c))))
  ELSE Outcome(st, Fail("unknown_id"))

Purge(st, c) ==
  IF Purged(st, c) \subseteq DOMAIN st.records
  THEN Outcome([st EXCEPT !.records = Keep(@, DOMAIN @ \ Purged(st, c))],
               Result("none", NoId, Keep(st.records, Purged(st, c))))
  ELSE Outcome(st, Fail("unknown_id"))

Apply(st, c) ==
  CASE c.op = "register"         -> Register(st, c)
    [] c.op = "register_with_id" -> RegisterWithID(st, c)
    [] c.op = "resolve"          -> Resolve(st, c)
    [] c.op = "get"              -> Get(st, c)
    [] c.op = "list"             -> List(st)
    [] c.op = "purge"            -> Purge(st, c)

=============================================================================
