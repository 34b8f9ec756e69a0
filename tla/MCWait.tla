------------------------------- MODULE MCWait -------------------------------
(***************************************************************************)
(* ChainWait on a small instance: a monitor, with a timeout of a second or *)
(* without, and a client that registers, resolves and purges the entry it  *)
(* waits for; two ticks to a second, and numbers of 21 bits, not 64.       *)
(***************************************************************************)
EXTENDS ChainWait, TLC

CONSTANTS c1, m1, A, B, w1, slug, other

ClientAndM1 == {c1, m1}
OneWith     == {m1}

\* Every thread is a process of its own.
AloneM1 == [t \in ClientAndM1 |-> t]

M1ForSlug == [w \in OneWith |-> slug]

\* Every numeral of up to three digits, with every suffix and without, and the
\* two sides of a week.
Text(digits, unit) == [digits |-> digits, unit |-> unit]

Week == {Text(<<6, 0, 4, 8, 0, n>>, "s") : n \in {0, 1}}
  \cup {Text(<<1, 0, 0, 8, n>>, "m") : n \in {0, 1}}

Junk == Text(<<>>, "junk")

ManyTexts == Week \cup {Junk} \cup
  {Text(digits, unit) : digits \in UNION {[1 .. n -> Digits] : n \in 0 .. 3},
                         unit \in {"s", "m", "h", "none"}}

OneSecond == Text(<<1>>, "s")
EightMinutes == Text(<<0, 8>>, "m")

Word(id)    == Argument("none", id, Junk)
Value(text) == Argument("none", other, text)
Flag(f)     == Argument(f, NoId, Junk)

Plainly == {<<Word(slug)>>}

WithTime(text) ==
  {<<Word(slug), Flag("--timeout"), Value(text)>>,
   <<Word(NoId), Argument("--timeout=", NoId, text), Word(slug)>>}

\* The last of several timeouts counts.
LastCounts(text) == {<<Flag("--timeout"), Flag("--help")>> \o line : line \in WithTime(text)}

BadLines ==
  {<<>>, <<Word(slug), Word(slug)>>, <<Word(slug), Flag("--timeout")>>,
   <<Word(slug), Flag("--help"), Flag("--")>>, <<Word(slug), Flag("--")>>}
  \cup UNION {WithTime(text) : text \in
         {Junk, Text(<<1>>, "none"), Text(<<>>, "s"), Text(<<0, 0>>, "m"),
          Text(<<1, 6, 9>>, "h")}}

EitherWay ==
  [w \in OneWith |-> Plainly \cup WithTime(OneSecond) \cup LastCounts(OneSecond) \cup BadLines]

LeadingZeros == [w \in OneWith |-> WithTime(EightMinutes)]

NoJumps == {}
ASecond == {-2, 2}

OneWord   == <<w1>>
AllTokens == {A, B}
AllNames  == {w1, slug, HexId(1)}

Ask(op, tok, id, opts) == [op |-> op, tok |-> tok, id |-> id, opts |-> opts]

RegAs(tok)     == Ask("register_with_id", tok, slug, {})
ResolveBy(tok) == Ask("resolve", tok, slug, {})
StatusOfSlug   == Ask("get", NoToken, slug, {})
PurgeSlug      == Ask("purge", NoToken, slug, {})
PurgeNothing   == Ask("purge", NoToken, NoId, {})

\* Whatever may become of the entry, twice over.
LifeMenu == {RegAs(A), ResolveBy(A), PurgeSlug, StatusOfSlug}

\* The same, and a call that is refused.
FullMenu == LifeMenu \cup {PurgeNothing}

IdleMenu == {StatusOfSlug}

SlugIs(tok, status) ==
  Saved([counter |-> 0, records |-> slug :> [owner |-> tok, status |-> status]])

Pending == {SlugIs(A, "pending")}

Corrupt == [form |-> "corrupt", st |-> EmptyState]
Absent  == [form |-> "absent", st |-> EmptyState]

\* The entry is there, or nobody can tell; it is absent after a purge.
KnownOrNot == Pending \cup {Corrupt}

NoFile == {Absent}

AnyFile == KnownOrNot \cup NoFile

=============================================================================
