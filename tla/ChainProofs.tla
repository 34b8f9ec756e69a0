----------------------------- MODULE ChainProofs -----------------------------
(***************************************************************************)
(* Facts about the data of the store: which ids Allocate yields, and what  *)
(* the closures of the methods make of a state.  They hold for every word  *)
(* list that parseAndValidate admits, every counter and every record map.  *)
(***************************************************************************)
EXTENDS ChainState, TLAPS

\* The word list is a sequence of distinct words, none of them a fallback id.
LEMMA WordListFacts ==
  /\ Len(Words) \in Nat
  /\ DOMAIN Words = 1 .. Len(Words)
  /\ \A i, j \in DOMAIN Words : Words[i] = Words[j] => i = j
  /\ \A i \in DOMAIN Words : ~ IsHexId(Words[i])
BY WordListValid DEF WordsAssumption, IsWordList

\* The two parts of a number.
LEMMA PartsOf ==
  ASSUME NEW n \in Nat, NEW d \in Nat \ {0}
  PROVE  n \div d \in Nat /\ n % d \in 0 .. d - 1
OBVIOUS

LEMMA WidthFacts == Width \in Nat \ {0}
BY DEF Width

\* A fallback id shows the whole number: two numbers never share one, and none
\* is cut to its four low digits (idgen.go: %04x is a minimum width).
LEMMA HexIdInjective ==
  ASSUME NEW m \in Nat, NEW n \in Nat, HexId(m) = HexId(n)
  PROVE  m = n
<1>1. m \div Width = n \div Width /\ m % Width = n % Width
  BY DEF HexId
<1>2. /\ m = Width * (m \div Width) + (m % Width)
      /\ n = Width * (n \div Width) + (n % Width)
  BY DEF Width
<1>. QED
  BY <1>1, <1>2

LEMMA HexIdIsHexId ==
  ASSUME NEW n \in Nat
  PROVE  IsHexId(HexId(n))
<1>1. n \div Width \in Nat /\ n % Width \in FourDigits
  BY PartsOf, WidthFacts DEF FourDigits
<1>. DEFINE above == n \div Width
            four  == n % Width
<1>2. HexId(n) = [above |-> above, four |-> four] /\ above \in Nat /\ four \in FourDigits
  BY <1>1 DEF HexId
<1>. HIDE DEF above, four
<1>3. IsHexId([above |-> above, four |-> four])
  BY <1>2 DEF IsHexId
<1>. QED
  BY <1>2, <1>3

\* Two values of the counter never yield the same id, whether both are in the
\* word list, both beyond it, or one of each (idgen.go Allocate).
THEOREM AllocateInjective ==
  ASSUME NEW m \in Nat, NEW n \in Nat, Allocate(m) = Allocate(n)
  PROVE  m = n
<1>. USE WordListFacts
<1>1. CASE m < Len(Words) /\ n < Len(Words)
  <2>1. Words[m + 1] = Words[n + 1] /\ m + 1 \in DOMAIN Words /\ n + 1 \in DOMAIN Words
    BY <1>1 DEF Allocate
  <2>2. m + 1 = n + 1
    BY <2>1
  <2>. QED
    BY <2>2
<1>2. CASE m < Len(Words) /\ ~ (n < Len(Words))
  <2>1. Allocate(m) = Words[m + 1] /\ m + 1 \in DOMAIN Words
    BY <1>2 DEF Allocate
  <2>2. n - (Len(Words) - 1) \in Nat /\ Allocate(n) = HexId(n - (Len(Words) - 1))
    BY <1>2 DEF Allocate
  <2>. QED
    BY <2>1, <2>2, HexIdIsHexId
<1>3. CASE ~ (m < Len(Words)) /\ n < Len(Words)
  <2>1. Allocate(n) = Words[n + 1] /\ n + 1 \in DOMAIN Words
    BY <1>3 DEF Allocate
  <2>2. m - (Len(Words) - 1) \in Nat /\ Allocate(m) = HexId(m - (Len(Words) - 1))
    BY <1>3 DEF Allocate
  <2>. QED
    BY <2>1, <2>2, HexIdIsHexId
<1>4. CASE ~ (m < Len(Words)) /\ ~ (n < Len(Words))
  <2>. DEFINE a == m - (Len(Words) - 1)
              b == n - (Len(Words) - 1)
  <2>1. a \in Nat /\ b \in Nat /\ HexId(a) = HexId(b)
    BY <1>4 DEF Allocate
  <2>2. a = b
    BY <2>1, HexIdInjective
  <2>. QED
    BY <2>2
<1>. QED
  BY <1>1, <1>2, <1>3, <1>4

LEMMA AllocateIsId ==
  ASSUME NEW n \in Nat
  PROVE  IsId(Allocate(n))
<1>. USE WordListFacts
<1>1. CASE n < Len(Words)
  BY <1>1 DEF Allocate, IsId
<1>2. CASE ~ (n < Len(Words))
  <2>1. n - (Len(Words) - 1) \in Nat /\ Allocate(n) = HexId(n - (Len(Words) - 1))
    BY <1>2 DEF Allocate
  <2>. QED
    BY <2>1, HexIdIsHexId DEF IsId
<1>. QED
  BY <1>1, <1>2

(***************************************************************************)
(* Record maps                                                             *)
(***************************************************************************)
LEMMA PutIsRecords ==
  ASSUME NEW f, IsRecords(f), NEW id, IsId(id), NEW r \in Record
  PROVE  IsRecords(Put(f, id, r))
BY DEF IsRecords, Put

LEMMA KeepIsRecords ==
  ASSUME NEW f, IsRecords(f), NEW ids, ids \subseteq DOMAIN f
  PROVE  IsRecords(Keep(f, ids))
BY DEF IsRecords, Keep

LEMMA EmptyIsState == IsState(EmptyState)
BY DEF IsState, EmptyState, IsRecords, NoRecords

LEMMA StateParts ==
  ASSUME NEW st, IsState(st)
  PROVE  st.counter \in Nat /\ IsRecords(st.records)
BY DEF IsState

LEMMA StateMade ==
  ASSUME NEW n \in Nat, NEW f, IsRecords(f)
  PROVE  IsState([counter |-> n, records |-> f])
BY DEF IsState

(***************************************************************************)
(* The closures                                                            *)
(***************************************************************************)
\* A call the store accepts: a registration comes with a token.
WellFormed(c) ==
  c \in Calls /\ (c.op \in {"register", "register_with_id"} => c.tok \in Tokens)

LEMMA NoIdIsResult ==
  ASSUME NEW err \in Errors, NEW recs
  PROVE  IsResult(Result(err, NoId, recs))
BY DEF IsResult, Result

LEMMA RegisterTypes ==
  ASSUME NEW st, IsState(st), NEW c, c.tok \in Tokens
  PROVE  /\ IsState(Register(st, c).st)
         /\ IsResult(Register(st, c).res)
         /\ Register(st, c).res.err = "none"
         /\ Register(st, c).res.id = Allocate(st.counter)
         /\ Register(st, c).st.counter = st.counter + 1
<1>. DEFINE id == Allocate(st.counter)
            recs == Put(st.records, id, NewRecord(c.tok))
<1>1. st.counter \in Nat /\ st.counter + 1 \in Nat /\ IsRecords(st.records)
  BY StateParts
<1>2. IsId(id)
  BY <1>1, AllocateIsId
<1>3. NewRecord(c.tok) \in Record
  BY DEF NewRecord, Record, Status
<1>4. IsRecords(recs)
  BY <1>1, <1>2, <1>3, PutIsRecords
<1>5. /\ Register(st, c).st = [counter |-> st.counter + 1, records |-> recs]
      /\ Register(st, c).res = Result("none", id, NoRecords)
  BY DEF Register, Outcome
<1>. HIDE DEF recs, id
<1>6. IsState([counter |-> st.counter + 1, records |-> recs])
  BY <1>1, <1>4, StateMade
<1>7. IsResult(Result("none", id, NoRecords))
  BY <1>2 DEF IsResult, Result, Errors
<1>8. Result("none", id, NoRecords).err = "none" /\ Result("none", id, NoRecords).id = id
  BY DEF Result
<1>. QED
  BY <1>5, <1>6, <1>7, <1>8 DEF id

LEMMA RegisterWithIDTypes ==
  ASSUME NEW st, IsState(st), NEW c, c.tok \in Tokens, IsId(c.id)
  PROVE  /\ IsState(RegisterWithID(st, c).st)
         /\ IsResult(RegisterWithID(st, c).res)
         /\ RegisterWithID(st, c).res.id = NoId
         /\ RegisterWithID(st, c).st.counter = st.counter
<1>1. st.counter \in Nat /\ IsRecords(st.records)
  BY StateParts
<1>2. CASE c.id \in DOMAIN st.records
  <2>1. RegisterWithID(st, c).st = st /\ RegisterWithID(st, c).res = Fail("id_taken")
    BY <1>2 DEF RegisterWithID, Outcome
  <2>2. IsResult(Fail("id_taken")) /\ Fail("id_taken").id = NoId
    BY NoIdIsResult DEF Fail, Errors, Result
  <2>. QED
    BY <2>1, <2>2
<1>3. CASE c.id \notin DOMAIN st.records
  <2>. DEFINE recs == Put(st.records, c.id, NewRecord(c.tok))
  <2>1. NewRecord(c.tok) \in Record
    BY DEF NewRecord, Record, Status
  <2>2. IsRecords(recs)
    BY <1>1, <2>1, PutIsRecords
  <2>3. st = [counter |-> st.counter, records |-> st.records]
    BY DEF IsState
  <2>4. RegisterWithID(st, c).st = [st EXCEPT !.records = recs] /\ RegisterWithID(st, c).res = Done
    BY <1>3 DEF RegisterWithID, Outcome
  <2>. HIDE DEF recs
  <2>5. [st EXCEPT !.records = recs] = [counter |-> st.counter, records |-> recs]
    BY <2>3
  <2>6. IsResult(Done) /\ Done.id = NoId
    BY NoIdIsResult DEF Done, Errors, Result
  <2>. QED
    BY <1>1, <2>2, <2>4, <2>5, <2>6, StateMade
<1>. QED
  BY <1>2, <1>3

LEMMA ResolveTypes ==
  ASSUME NEW st, IsState(st), NEW c
  PROVE  /\ IsState(Resolve(st, c).st)
         /\ IsResult(Resolve(st, c).res)
         /\ Resolve(st, c).res.id = NoId
         /\ Resolve(st, c).st.counter = st.counter
<1>1. st.counter \in Nat /\ IsRecords(st.records)
  BY StateParts
<1>2. CASE ResolveError(st, c) # "none"
  <2>1. /\ Resolve(st, c).st = st
        /\ Resolve(st, c).res = Fail(ResolveError(st, c))
    BY <1>2 DEF Resolve, Outcome
  <2>2. ResolveError(st, c) \in Errors
    BY DEF ResolveError, Errors
  <2>3. IsResult(Fail(ResolveError(st, c))) /\ Fail(ResolveError(st, c)).id = NoId
    BY <2>2, NoIdIsResult DEF Fail, Result
  <2>. QED
    BY <2>1, <2>3
<1>3. CASE ResolveError(st, c) = "none"
  <2>. DEFINE r == [st.records[c.id] EXCEPT !.status = "resolved"]
              recs == Put(st.records, c.id, r)
  <2>1. c.id \in DOMAIN st.records
    BY <1>3 DEF ResolveError
  <2>2. st.records[c.id] \in Record /\ IsId(c.id)
    BY <1>1, <2>1 DEF IsRecords
  <2>3. r \in Record
    BY <2>2 DEF Record, Status
  <2>4. IsRecords(recs)
    BY <1>1, <2>2, <2>3, PutIsRecords
  <2>5. st = [counter |-> st.counter, records |-> st.records]
    BY DEF IsState
  <2>6. Resolve(st, c).st = [st EXCEPT !.records = recs] /\ Resolve(st, c).res = Done
    BY <1>3 DEF Resolve, Outcome
  <2>. HIDE DEF recs
  <2>7. [st EXCEPT !.records = recs] = [counter |-> st.counter, records |-> recs]
    BY <2>5
  <2>8. IsResult(Done) /\ Done.id = NoId
    BY NoIdIsResult DEF Done, Errors, Result
  <2>. QED
    BY <1>1, <2>4, <2>6, <2>7, <2>8, StateMade
<1>. QED
  BY <1>2, <1>3

LEMMA GetTypes ==
  ASSUME NEW st, IsState(st), NEW c
  PROVE  /\ Get(st, c).st = st
         /\ IsResult(Get(st, c).res)
         /\ Get(st, c).res.id = NoId
<1>1. CASE c.id \in DOMAIN st.records
  BY <1>1, NoIdIsResult DEF Get, Outcome, Result, Errors
<1>2. CASE c.id \notin DOMAIN st.records
  BY <1>2, NoIdIsResult DEF Get, Outcome, Result, Errors, Fail
<1>. QED
  BY <1>1, <1>2

LEMMA ListTypes ==
  ASSUME NEW st, IsState(st)
  PROVE  /\ List(st).st = st
         /\ IsResult(List(st).res)
         /\ List(st).res.id = NoId
BY NoIdIsResult DEF List, Outcome, Result, Errors

LEMMA PurgeTypes ==
  ASSUME NEW st, IsState(st), NEW c
  PROVE  /\ IsState(Purge(st, c).st)
         /\ IsResult(Purge(st, c).res)
         /\ Purge(st, c).res.id = NoId
         /\ Purge(st, c).st.counter = st.counter
<1>1. st.counter \in Nat /\ IsRecords(st.records)
  BY StateParts
<1>2. CASE Purged(st, c) \subseteq DOMAIN st.records
  <2>. DEFINE recs == Keep(st.records, DOMAIN st.records \ Purged(st, c))
              res == Result("none", NoId, Keep(st.records, Purged(st, c)))
  <2>1. IsRecords(recs)
    BY <1>1, KeepIsRecords
  <2>2. st = [counter |-> st.counter, records |-> st.records]
    BY DEF IsState
  <2>3. Purge(st, c).st = [st EXCEPT !.records = recs] /\ Purge(st, c).res = res
    BY <1>2 DEF Purge, Outcome
  <2>4. IsResult(res) /\ res.id = NoId
    BY NoIdIsResult DEF Errors, Result
  <2>. HIDE DEF recs, res
  <2>5. [st EXCEPT !.records = recs] = [counter |-> st.counter, records |-> recs]
    BY <2>2
  <2>. QED
    BY <1>1, <2>1, <2>3, <2>4, <2>5, StateMade
<1>3. CASE ~ (Purged(st, c) \subseteq DOMAIN st.records)
  <2>1. Purge(st, c).st = st /\ Purge(st, c).res = Fail("unknown_id")
    BY <1>3 DEF Purge, Outcome
  <2>2. IsResult(Fail("unknown_id")) /\ Fail("unknown_id").id = NoId
    BY NoIdIsResult DEF Fail, Errors, Result
  <2>. QED
    BY <2>1, <2>2
<1>. QED
  BY <1>2, <1>3

\* A call past its argument checks names a good id if it registers one.
LEMMA AcceptedId ==
  ASSUME NEW c, Precheck(c) = "none", c.op = "register_with_id"
  PROVE  IsId(c.id)
BY NamesAssumption DEF Precheck, IsId

\* Whatever the call, the closure leaves a state and yields a result; only a
\* Register allocates an id or moves the counter, and it always succeeds.
LEMMA ApplyTypes ==
  ASSUME NEW st, IsState(st), NEW c, WellFormed(c), Precheck(c) = "none"
  PROVE  /\ IsState(Apply(st, c).st)
         /\ IsResult(Apply(st, c).res)
         /\ c.op = "register" => /\ Apply(st, c).res.err = "none"
                                 /\ Apply(st, c).res.id = Allocate(st.counter)
                                 /\ Apply(st, c).st.counter = st.counter + 1
         /\ c.op # "register" => /\ Apply(st, c).res.id = NoId
                                 /\ Apply(st, c).st.counter = st.counter
<1>0. c.op \in Ops
  BY DEF WellFormed, Calls
<1>1. CASE c.op = "register"
  <2>1. Apply(st, c) = Register(st, c) /\ c.tok \in Tokens
    BY <1>1 DEF Apply, WellFormed
  <2>. QED
    BY <1>1, <2>1, RegisterTypes
<1>2. CASE c.op = "register_with_id"
  <2>1. Apply(st, c) = RegisterWithID(st, c) /\ c.tok \in Tokens /\ IsId(c.id)
    BY <1>2, AcceptedId DEF Apply, WellFormed
  <2>. QED
    BY <1>2, <2>1, RegisterWithIDTypes
<1>3. CASE c.op = "resolve"
  <2>1. Apply(st, c) = Resolve(st, c)
    BY <1>3 DEF Apply
  <2>. QED
    BY <1>3, <2>1, ResolveTypes
<1>4. CASE c.op = "get"
  <2>1. Apply(st, c) = Get(st, c)
    BY <1>4 DEF Apply
  <2>. QED
    BY <1>4, <2>1, GetTypes
<1>5. CASE c.op = "list"
  <2>1. Apply(st, c) = List(st)
    BY <1>5 DEF Apply
  <2>. QED
    BY <1>5, <2>1, ListTypes
<1>6. CASE c.op = "purge"
  <2>1. Apply(st, c) = Purge(st, c)
    BY <1>6 DEF Apply
  <2>. QED
    BY <1>6, <2>1, PurgeTypes
<1>. QED
  BY <1>0, <1>1, <1>2, <1>3, <1>4, <1>5, <1>6 DEF Ops

\* A failing closure leaves the state as it was, and so does a reading one.
LEMMA ApplyKeeps ==
  ASSUME NEW st, NEW c, c.op \in Ops,
         Apply(st, c).res.err # "none" \/ ReadOnly(c)
  PROVE  Apply(st, c).st = st
<1>1. CASE ReadOnly(c)
  BY <1>1 DEF ReadOnly, Apply, Get, List, Outcome
<1>2. CASE ~ ReadOnly(c) /\ Apply(st, c).res.err # "none"
  BY <1>2 DEF ReadOnly, Apply, Register, RegisterWithID, Resolve, Purge, Outcome,
              Result, Done, Ops
<1>. QED
  BY <1>1, <1>2

(***************************************************************************)
(* Results and files                                                       *)
(***************************************************************************)
LEMMA FailIsResult ==
  ASSUME NEW err \in Errors
  PROVE  IsResult(Fail(err)) /\ Fail(err).id = NoId /\ Fail(err).err = err
BY NoIdIsResult DEF Fail, Result

LEMMA DoneIsResult == IsResult(Done) /\ Done.id = NoId /\ Done.err = "none"
BY NoIdIsResult DEF Done, Result, Errors

LEMMA PrecheckIsError ==
  ASSUME NEW c
  PROVE  Precheck(c) \in Errors
BY DEF Precheck, Errors

LEMMA LoadErrorIsError ==
  ASSUME NEW f
  PROVE  LoadError(f) \in Errors
BY DEF LoadError, Errors

LEMMA FileParts ==
  ASSUME NEW f, IsFile(f)
  PROVE  IsState(f.st)
BY DEF IsFile

LEMMA SavedIsFile ==
  ASSUME NEW st, IsState(st)
  PROVE  IsFile(Saved(st)) /\ Saved(st).st = st /\ LoadError(Saved(st)) = "none"
BY DEF IsFile, Saved, Forms, LoadError

(***************************************************************************)
(* What a closure does to the records                                      *)
(***************************************************************************)
LEMMA RegisterRecords ==
  ASSUME NEW st, NEW c
  PROVE  Register(st, c).st.records
           = Put(st.records, Allocate(st.counter), NewRecord(c.tok))
BY DEF Register, Outcome

LEMMA RegisterWithIDRecords ==
  ASSUME NEW st, IsState(st), NEW c, RegisterWithID(st, c).res.err = "none"
  PROVE  /\ c.id \notin DOMAIN st.records
         /\ RegisterWithID(st, c).st.records = Put(st.records, c.id, NewRecord(c.tok))
<1>1. c.id \notin DOMAIN st.records
  BY DEF RegisterWithID, Outcome, Fail, Result
<1>. QED
  BY <1>1 DEF RegisterWithID, Outcome, IsState

LEMMA ResolveRecords ==
  ASSUME NEW st, IsState(st), NEW c, Resolve(st, c).res.err = "none"
  PROVE  /\ c.id \in DOMAIN st.records
         /\ st.records[c.id].status # "resolved"
         /\ "force" \in c.opts \/ st.records[c.id].owner = c.tok
         /\ Resolve(st, c).st.records
              = Put(st.records, c.id, [st.records[c.id] EXCEPT !.status = "resolved"])
<1>1. ResolveError(st, c) = "none"
  BY DEF Resolve, Outcome, Fail, Result
<1>2. /\ c.id \in DOMAIN st.records
      /\ st.records[c.id].status # "resolved"
      /\ "force" \in c.opts \/ st.records[c.id].owner = c.tok
  BY <1>1 DEF ResolveError
<1>. QED
  BY <1>1, <1>2 DEF Resolve, Outcome, IsState

LEMMA PurgeRecords ==
  ASSUME NEW st, IsState(st), NEW c, Purge(st, c).res.err = "none"
  PROVE  Purge(st, c).st.records = Keep(st.records, DOMAIN st.records \ Purged(st, c))
<1>1. Purged(st, c) \subseteq DOMAIN st.records
  BY DEF Purge, Outcome, Fail, Result
<1>. QED
  BY <1>1 DEF Purge, Outcome, IsState

LEMMA PutFacts ==
  ASSUME NEW f, NEW id, NEW r
  PROVE  /\ DOMAIN f \subseteq DOMAIN Put(f, id, r)
         /\ Put(f, id, r)[id] = r
         /\ \A x \in DOMAIN f : x # id => Put(f, id, r)[x] = f[x]
BY DEF Put

LEMMA KeepFacts ==
  ASSUME NEW f, NEW ids
  PROVE  DOMAIN Keep(f, ids) = ids /\ \A x \in ids : Keep(f, ids)[x] = f[x]
BY DEF Keep

\* Only a purge takes ids away; a closure adds at most the id it registers.
LEMMA ApplyIds ==
  ASSUME NEW st, IsState(st), NEW c, c.op \in Ops
  PROVE  /\ c.op # "purge" => DOMAIN st.records \subseteq DOMAIN Apply(st, c).st.records
         /\ c.op = "register" =>
              DOMAIN Apply(st, c).st.records = DOMAIN st.records \cup {Allocate(st.counter)}
         /\ c.op # "register" =>
              DOMAIN Apply(st, c).st.records \subseteq DOMAIN st.records \cup {c.id}
         /\ c.op \notin {"register", "register_with_id"} =>
              DOMAIN Apply(st, c).st.records \subseteq DOMAIN st.records
<1>1. CASE Apply(st, c).res.err # "none" \/ ReadOnly(c)
  <2>1. Apply(st, c).st = st
    BY <1>1, ApplyKeeps
  <2>2. c.op # "register"
    BY <1>1 DEF ReadOnly, Apply, Register, Outcome, Result
  <2>. QED
    BY <2>1, <2>2
<1>2. CASE Apply(st, c).res.err = "none" /\ ~ ReadOnly(c)
  <2>. DEFINE new == Apply(st, c).st.records
  <2>1. CASE c.op = "register"
    <3>1. new = Put(st.records, Allocate(st.counter), NewRecord(c.tok))
      BY <2>1, RegisterRecords DEF Apply
    <3>2. DOMAIN new = DOMAIN st.records \cup {Allocate(st.counter)}
      BY <3>1 DEF Put
    <3>. QED
      BY <2>1, <3>2
  <2>2. CASE c.op = "register_with_id"
    <3>1. new = Put(st.records, c.id, NewRecord(c.tok))
      BY <1>2, <2>2, RegisterWithIDRecords DEF Apply
    <3>2. DOMAIN new = DOMAIN st.records \cup {c.id}
      BY <3>1 DEF Put
    <3>. QED
      BY <2>2, <3>2
  <2>3. CASE c.op = "resolve"
    <3>1. Apply(st, c) = Resolve(st, c)
      BY <2>3 DEF Apply
    <3>2. /\ c.id \in DOMAIN st.records
          /\ new = Put(st.records, c.id, [st.records[c.id] EXCEPT !.status = "resolved"])
      BY <1>2, <3>1, ResolveRecords
    <3>3. DOMAIN new = DOMAIN st.records \cup {c.id}
      BY <3>2 DEF Put
    <3>. QED
      BY <2>3, <3>2, <3>3
  <2>4. CASE c.op = "purge"
    <3>1. Apply(st, c) = Purge(st, c)
      BY <2>4 DEF Apply
    <3>2. new = Keep(st.records, DOMAIN st.records \ Purged(st, c))
      BY <1>2, <3>1, PurgeRecords
    <3>3. DOMAIN new = DOMAIN st.records \ Purged(st, c)
      BY <3>2, KeepFacts
    <3>. QED
      BY <2>4, <3>3
  <2>. QED
    BY <1>2, <2>1, <2>2, <2>3, <2>4 DEF Ops, ReadOnly
<1>. QED
  BY <1>1, <1>2

==============================================================================
