---------------------------- MODULE StartupProofs ----------------------------
(***************************************************************************)
(* The theorems of Startup, for every set of embedded texts, processes,    *)
(* commands, environments and durations; and what they rest on: the pure   *)
(* parts that Startup composes do what is meant.                           *)
(***************************************************************************)
EXTENDS Startup, FiniteSetTheorems, TLAPS

(***************************************************************************)
(* Induction                                                               *)
(***************************************************************************)
\* A set of numbers that has 0 and, with a number, the next one, has them all.
LEMMA SetInduction ==
  ASSUME NEW S, 0 \in S, \A n \in Nat : n \in S => n + 1 \in S
  PROVE  Nat \subseteq S
<1>1. SUFFICES ASSUME Nat \ S # {} PROVE FALSE
  OBVIOUS
<1>2. \E x \in Nat \ S : \A y \in Nat \ S : ~ (<<y, x>> \in OpToRel(<, Nat))
  BY <1>1, NatLessThanWellFounded, WFMin, Zenon
<1>3. PICK x \in Nat \ S : \A y \in Nat \ S : ~ (y < x)
  BY <1>2 DEF OpToRel
<1>4. x # 0 /\ x - 1 \in Nat /\ (x - 1) + 1 = x /\ x - 1 < x
  OBVIOUS
<1>5. x - 1 \notin S
  BY <1>4
<1>. QED
  BY <1>3, <1>4, <1>5

\* The recursive function of Reads: which values it has, and that it has them.
Reading(base, digits, f) ==
  f = [n \in 0 .. Len(digits) |-> IF n = 0 THEN 0 ELSE base * f[n - 1] + digits[n]]

LEMMA ReadingExists ==
  ASSUME NEW base \in Nat, NEW digits \in Seq(Digits)
  PROVE  \E f : Reading(base, digits, f)
<1>. DEFINE F(f, n) == IF n = 0 THEN 0 ELSE base * f[n - 1] + digits[n]
            Upto(n) == \E f : f = [i \in 0 .. n |-> F(f, i)]
            S == {n \in Nat : n <= Len(digits) => Upto(n)}
<1>1. Upto(0)
  <2>. DEFINE f == [i \in 0 .. 0 |-> 0]
  <2>1. f = [i \in 0 .. 0 |-> F(f, i)]
    OBVIOUS
  <2>. QED
    BY <2>1
<1>2. ASSUME NEW n \in Nat, Upto(n)
      PROVE  Upto(n + 1)
  <2>1. PICK f : f = [i \in 0 .. n |-> F(f, i)]
    BY <1>2
  <2>. DEFINE g == [i \in 0 .. n + 1 |-> IF i <= n THEN f[i] ELSE F(f, n + 1)]
  <2>2. \A i \in 0 .. n : g[i] = f[i] /\ f[i] = F(f, i)
    BY <2>1
  <2>3. g[n + 1] = F(f, n + 1)
    OBVIOUS
  <2>. HIDE DEF g
  <2>4. \A i \in 0 .. n + 1 : g[i] = F(g, i)
    <3>. TAKE i \in 0 .. n + 1
    <3>1. CASE i = 0
      BY <3>1, <2>2
    <3>2. CASE i # 0
      <4>1. i - 1 \in 0 .. n /\ g[i - 1] = f[i - 1]
        BY <3>2, <2>2
      <4>2. CASE i <= n
        BY <4>1, <4>2, <3>2, <2>2
      <4>3. CASE i = n + 1
        BY <4>1, <4>3, <2>3
      <4>. QED
        BY <4>2, <4>3
    <3>. QED
      BY <3>1, <3>2
  <2>5. g = [i \in 0 .. n + 1 |-> F(g, i)]
    BY <2>4 DEF g
  <2>. QED
    BY <2>5
<1>. HIDE DEF Upto, F
<1>3. 0 \in S /\ \A n \in Nat : n \in S => n + 1 \in S
  BY <1>1, <1>2
<1>4. Len(digits) \in S
  <2>. HIDE DEF S
  <2>. QED
    BY <1>3, SetInduction
<1>5. Upto(Len(digits))
  BY <1>4
<1>. QED
  BY <1>5 DEF Upto, Reading, F

\* A numeral is a number: Reads is defined by its recursion, and yields a natural
\* number, however many digits there are.
LEMMA ReadsNumber ==
  ASSUME NEW base \in Nat, NEW digits \in Seq(Digits)
  PROVE  Reads(base, digits) \in Nat
<1>. DEFINE first == CHOOSE f : Reading(base, digits, f)
            L == Len(digits)
            S == {n \in Nat : n <= L => first[n] \in Nat}
<1>1. Reading(base, digits, first)
  BY ReadingExists
<1>2. Reads(base, digits) = first[L]
  BY DEF Reads, Reading
<1>. HIDE DEF first
<1>3. \A n \in 0 .. L : first[n] = IF n = 0 THEN 0 ELSE base * first[n - 1] + digits[n]
  BY <1>1 DEF Reading
<1>4. L \in Nat
  OBVIOUS
<1>5. 0 \in S
  BY <1>3, <1>4
<1>6. ASSUME NEW n \in Nat, n \in S
      PROVE  n + 1 \in S
  <2>1. CASE n + 1 <= L
    <3>1. first[n + 1] = base * first[n] + digits[n + 1] /\ first[n] \in Nat
      BY <2>1, <1>3, <1>6, <1>4
    <3>2. digits[n + 1] \in Nat
      BY <2>1 DEF Digits
    <3>. QED
      BY <3>1, <3>2
  <2>2. CASE ~ (n + 1 <= L)
    BY <2>2
  <2>. QED
    BY <2>1, <2>2
<1>. HIDE DEF S
<1>7. Nat \subseteq S
  BY <1>5, <1>6, SetInduction
<1>. QED
  BY <1>2, <1>7, <1>4 DEF S

(***************************************************************************)
(* Durations                                                               *)
(***************************************************************************)
LEMMA SmallRemainder ==
  ASSUME NEW x \in Nat, NEW y \in Nat, x < y
  PROVE  x % y = x
OBVIOUS

LEMMA WrappedSmall ==
  ASSUME NEW n \in Nat, n < Half
  PROVE  Wrapped(n) = n
<1>1. n + Half \in Nat /\ 2 * Half \in Nat /\ n + Half < 2 * Half
  BY HalfAssumption
<1>2. (n + Half) % (2 * Half) = n + Half
  BY <1>1, SmallRemainder
<1>. QED
  BY <1>2, HalfAssumption DEF Wrapped

\* For every duration written without zeros in front, of a number of seconds
\* that bash can hold: the script refuses it, or has it as its budget to the
\* second (chain-wait.sh: the duration parser).
THEOREM DurationsKept == BudgetAsNamed
<1>. SUFFICES ASSUME NEW d \in Texts, Plain(d)
              PROVE  /\ Refused(d) <=> Seconds(d) \notin 1 .. MaxBudget
                     /\ ~ Refused(d) => Budget(d) = Seconds(d)
  BY DEF BudgetAsNamed, KeptOrRefused
<1>0. Reads(10, d.digits) \in Nat
  BY ReadsNumber, TextsAssumption DEF Durations
<1>1. /\ ~ NotDuration(d) /\ ~ LeadingZero(d) /\ Seconds(d) < Half
      /\ d.unit \in {"s", "m", "h"}
  BY DEF Plain, NotDuration
<1>2. d # Empty
  BY <1>1 DEF Empty
<1>3. ~ BadOctal(d)
  BY <1>1 DEF BadOctal
<1>4. Minute \in Nat /\ Hour \in Nat
  BY SMT DEF Minute, Hour
<1>5. \A k \in Nat : Reads(10, d.digits) * k < Half => Product(d, k) = Reads(10, d.digits) * k
  BY <1>0, <1>1, WrappedSmall DEF Product
<1>6. Amount(d) = Seconds(d)
  BY <1>0, <1>1, <1>4, <1>5 DEF Amount, Seconds
<1>7. ~ Dropped(d)
  <2>1. d.unit = "s" => Amount(d) < Half /\ Amount(d) \in Nat
    BY <1>0, <1>1, <1>6 DEF Seconds
  <2>. QED
    BY <1>3, <2>1, HalfAssumption DEF Dropped
<1>. QED
  BY <1>1, <1>2, <1>6, <1>7 DEF Refused, Budget

\* Digits are no more in base 8 than in base 10.
LEMMA OctalIsLess ==
  ASSUME NEW digits \in Seq(Digits)
  PROVE  Reads(8, digits) <= Reads(10, digits)
<1>. DEFINE f == CHOOSE h : Reading(8, digits, h)
            g == CHOOSE h : Reading(10, digits, h)
            L == Len(digits)
            AtMost(n) == f[n] \in Nat /\ g[n] \in Nat /\ f[n] <= g[n]
            S == {n \in Nat : n <= L => AtMost(n)}
<1>1. Reading(8, digits, f) /\ Reading(10, digits, g)
  BY ReadingExists
<1>2. Reads(8, digits) = f[L] /\ Reads(10, digits) = g[L]
  BY DEF Reads, Reading
<1>. HIDE DEF f, g
<1>3. \A n \in 0 .. L :
        /\ f[n] = IF n = 0 THEN 0 ELSE 8 * f[n - 1] + digits[n]
        /\ g[n] = IF n = 0 THEN 0 ELSE 10 * g[n - 1] + digits[n]
  BY <1>1 DEF Reading
<1>4. L \in Nat
  OBVIOUS
<1>5. 0 \in S
  BY <1>3, <1>4
<1>6. ASSUME NEW n \in Nat, n \in S
      PROVE  n + 1 \in S
  <2>1. CASE n + 1 <= L
    <3>1. /\ f[n + 1] = 8 * f[n] + digits[n + 1]
          /\ g[n + 1] = 10 * g[n] + digits[n + 1]
          /\ AtMost(n)
      BY <2>1, <1>3, <1>6, <1>4
    <3>2. digits[n + 1] \in Nat
      BY <2>1 DEF Digits
    <3>. QED
      BY <3>1, <3>2
  <2>2. CASE ~ (n + 1 <= L)
    BY <2>2
  <2>. QED
    BY <2>1, <2>2
<1>. HIDE DEF S
<1>7. Nat \subseteq S
  BY <1>5, <1>6, SetInduction
<1>. QED
  BY <1>2, <1>7, <1>4 DEF S

LEMMA RemainderAtMost ==
  ASSUME NEW x \in Nat, NEW y \in Nat, y > 0
  PROVE  x % y \in Nat /\ x % y <= x
<1>1. CASE x < y
  BY <1>1, SmallRemainder
<1>2. CASE ~ (x < y)
  BY <1>2
<1>. QED
  BY <1>1, <1>2

\* A number that wraps around never becomes a greater one.
LEMMA WrappedAtMost ==
  ASSUME NEW n \in Nat
  PROVE  Wrapped(n) \in Int /\ Wrapped(n) <= n
<1>. DEFINE x == n + Half
            y == 2 * Half
<1>1. x \in Nat /\ y \in Nat /\ y > 0 /\ Half \in Nat
  <2>1. MaxBudget \in Nat
    BY SMT DEF MaxBudget
  <2>. QED
    BY <2>1, HalfAssumption
<1>2. Wrapped(n) = (x % y) - Half
  BY DEF Wrapped
<1>3. x = n + Half
  OBVIOUS
<1>. HIDE DEF x, y
<1>4. x % y \in Nat /\ x % y <= x
  BY <1>1, RemainderAtMost
<1>. QED
  BY <1>1, <1>2, <1>3, <1>4

\* What the parser makes of a numeral is no more than what was asked for, whatever
\* the zeros in front of it and the number of its digits.
LEMMA AmountAtMost ==
  ASSUME NEW d \in Texts, ~ NotDuration(d)
  PROVE  Amount(d) \in Int /\ Seconds(d) \in Nat /\ Amount(d) <= Seconds(d)
<1>. DEFINE ten == Reads(10, d.digits)
            eight == Reads(8, d.digits)
            read == IF LeadingZero(d) THEN eight ELSE ten
<1>1. d.digits \in Seq(Digits) /\ d.unit \in {"s", "m", "h"}
  BY TextsAssumption DEF Durations, NotDuration
<1>2. ten \in Nat /\ read \in Nat /\ read <= ten
  BY <1>1, ReadsNumber, OctalIsLess
<1>. HIDE DEF ten, eight, read
<1>3. CASE d.unit = "s"
  BY <1>2, <1>3 DEF Amount, Seconds, ten
<1>4. CASE d.unit = "m"
  <2>1. Amount(d) = Wrapped(read * 60) /\ Seconds(d) = ten * 60
    BY <1>4 DEF Amount, Seconds, Product, Minute, ten, eight, read
  <2>2. read * 60 \in Nat /\ ten * 60 \in Nat /\ read * 60 <= ten * 60
    BY <1>2
  <2>. QED
    BY <2>1, <2>2, WrappedAtMost
<1>5. CASE d.unit = "h"
  <2>1. Amount(d) = Wrapped(read * 3600) /\ Seconds(d) = ten * 3600
    BY <1>5 DEF Amount, Seconds, Product, Hour, ten, eight, read
  <2>2. read * 3600 \in Nat /\ ten * 3600 \in Nat /\ read * 3600 <= ten * 3600
    BY <1>2
  <2>. QED
    BY <2>1, <2>2, WrappedAtMost
<1>. QED
  BY <1>1, <1>3, <1>4, <1>5

(***************************************************************************)
(* The table                                                               *)
(***************************************************************************)
\* What List returns, as a set: finitely many records with ids of their own.
IsListing(S) ==
  /\ IsFiniteSet(S)
  /\ \A r \in S : r.id \in Ids /\ r.created \in Int
  /\ \A r, s \in S : r.id = s.id => r = s

LEMMA LessIsOrder ==
  ASSUME NEW S, IsListing(S)
  PROVE  /\ \A r, s \in S : Less(r, s) => ~ Less(s, r)
         /\ \A r, s \in S : r # s => Less(r, s) \/ Less(s, r)
         /\ \A r, s, t \in S : Less(r, s) /\ Less(s, t) => Less(r, t)
<1>1. \A r, s \in S : Less(r, s) => ~ Less(s, r)
  BY IdOrderAssumption DEF IsListing, Less
<1>2. \A r, s \in S : r # s => Less(r, s) \/ Less(s, r)
  BY IdOrderAssumption DEF IsListing, Less
<1>3. ASSUME NEW r \in S, NEW s \in S, NEW t \in S, Less(r, s), Less(s, t)
      PROVE  Less(r, t)
  <2>1. /\ r.id \in Ids /\ s.id \in Ids /\ t.id \in Ids
        /\ r.created \in Int /\ s.created \in Int /\ t.created \in Int
    BY DEF IsListing
  <2>2. IdBefore(r.id, s.id) /\ IdBefore(s.id, t.id) => IdBefore(r.id, t.id)
    BY <2>1, IdOrderAssumption
  <2>. QED
    BY <1>3, <2>1, <2>2 DEF Less
<1>. QED
  BY <1>1, <1>2, <1>3

Before(S, r) == {s \in S : Less(s, r)}

\* The place of a record among all of them, from 0.
Rank(S, r) == Cardinality(Before(S, r))

LEMMA RankRange ==
  ASSUME NEW S, IsListing(S), NEW r \in S
  PROVE  /\ IsFiniteSet(Before(S, r))
         /\ Cardinality(S) \in Nat
         /\ Rank(S, r) \in 0 .. Cardinality(S) - 1
<1>1. IsFiniteSet(S) /\ Cardinality(S) \in Nat
  BY FS_CardinalityType DEF IsListing
<1>2. Before(S, r) \in SUBSET S /\ r \notin Before(S, r)
  BY LessIsOrder DEF Before
<1>3. IsFiniteSet(Before(S, r)) /\ Rank(S, r) \in Nat
  BY <1>1, <1>2, FS_Subset, FS_CardinalityType DEF Rank
<1>4. Rank(S, r) <= Cardinality(S) /\ Rank(S, r) # Cardinality(S)
  BY <1>1, <1>2, FS_Subset DEF Rank
<1>. QED
  BY <1>1, <1>3, <1>4

LEMMA RankGrows ==
  ASSUME NEW S, IsListing(S), NEW r \in S, NEW s \in S, Less(r, s)
  PROVE  Rank(S, r) < Rank(S, s)
<1>1. Before(S, r) \in SUBSET Before(S, s) /\ Before(S, r) # Before(S, s)
  <2>1. r \in Before(S, s) /\ r \notin Before(S, r)
    BY LessIsOrder DEF Before
  <2>2. Before(S, r) \subseteq Before(S, s)
    BY LessIsOrder DEF Before
  <2>. QED
    BY <2>1, <2>2
<1>2. Rank(S, r) <= Rank(S, s) /\ Rank(S, r) # Rank(S, s)
  BY <1>1, RankRange, FS_Subset DEF Rank
<1>. QED
  BY <1>2, RankRange

\* Every place is that of one record.
LEMMA RankOnto ==
  ASSUME NEW S, IsListing(S), NEW n \in 1 .. Cardinality(S)
  PROVE  \E r \in S : Rank(S, r) = n - 1
<1>. DEFINE T == 1 .. Cardinality(S)
            f == [r \in S |-> Rank(S, r) + 1]
<1>1. IsFiniteSet(S) /\ Cardinality(S) \in Nat
  BY FS_CardinalityType DEF IsListing
<1>2. IsFiniteSet(T) /\ Cardinality(T) = Cardinality(S)
  BY <1>1, FS_Interval
<1>3. f \in [S -> T]
  BY <1>1, RankRange
<1>4. \A r, s \in S : r # s => f[r] # f[s]
  <2>. SUFFICES ASSUME NEW r \in S, NEW s \in S, r # s
                PROVE  Rank(S, r) # Rank(S, s)
    BY RankRange
  <2>. QED
    BY LessIsOrder, RankGrows, RankRange
<1>5. f \in Injection(S, T)
  BY <1>3, <1>4 DEF Injection, IsInjective
<1>6. f \in Surjection(S, T)
  <2>. HIDE DEF f, T
  <2>. QED
    BY <1>1, <1>2, <1>5, FS_Injection
<1>7. PICK r \in S : f[r] = n
  BY <1>6 DEF Surjection
<1>. QED
  BY <1>7, RankRange

\* A range over the map yields every record once.
LEMMA OrderFacts ==
  ASSUME NEW S, IsListing(S), NEW f \in Orders(S)
  PROVE  /\ DOMAIN f = 1 .. Cardinality(S)
         /\ \A i \in DOMAIN f : f[i] \in S
         /\ \A i, j \in DOMAIN f : f[i] = f[j] => i = j
         /\ \A r \in S : \E i \in DOMAIN f : f[i] = r
<1>. DEFINE T == 1 .. Cardinality(S)
<1>1. IsFiniteSet(S) /\ Cardinality(S) \in Nat
  BY FS_CardinalityType DEF IsListing
<1>2. IsFiniteSet(T) /\ Cardinality(T) = Cardinality(S)
  BY <1>1, FS_Interval
<1>3. f \in [T -> S] /\ \A i, j \in T : f[i] = f[j] => i = j
  BY DEF Orders
<1>4. f \in Injection(T, S)
  BY <1>3 DEF Injection, IsInjective
<1>5. f \in Surjection(T, S)
  <2>. HIDE DEF T
  <2>. QED
    BY <1>1, <1>2, <1>4, FS_Injection
<1>. QED
  BY <1>3, <1>5 DEF Surjection

\* As many records come before one in the sort as have a smaller key, whatever
\* order they come in: ties there are none, and so stability does not matter.
LEMMA AheadCounts ==
  ASSUME NEW S, IsListing(S), NEW f \in Orders(S), NEW k \in DOMAIN f
  PROVE  Cardinality({j \in DOMAIN f : Ahead(f, j, k)}) = Rank(S, f[k])
<1>. DEFINE A == {j \in DOMAIN f : Ahead(f, j, k)}
            B == Before(S, f[k])
            h == [j \in A |-> f[j]]
<1>1. \A j \in DOMAIN f : Ahead(f, j, k) <=> Less(f[j], f[k])
  <2>. TAKE j \in DOMAIN f
  <2>1. CASE j = k
    <3>1. k \in Int
      BY OrderFacts, RankRange
    <3>. QED
      BY <2>1, <3>1, LessIsOrder, OrderFacts DEF Ahead
  <2>2. CASE j # k
    <3>1. f[j] # f[k] /\ f[j] \in S /\ f[k] \in S
      BY <2>2, OrderFacts
    <3>. QED
      BY <3>1, LessIsOrder DEF Ahead
  <2>. QED
    BY <2>1, <2>2
<1>2. h \in [A -> B]
  BY <1>1, OrderFacts DEF Before
<1>3. \A i, j \in A : h[i] = h[j] => i = j
  BY OrderFacts
<1>4. \A r \in B : \E j \in A : h[j] = r
  BY <1>1, OrderFacts DEF Before
<1>5. h \in Injection(A, B) /\ h \in Surjection(A, B)
  BY <1>2, <1>3, <1>4 DEF Injection, IsInjective, Surjection
<1>6. IsFiniteSet(B)
  BY OrderFacts, RankRange
<1>. HIDE DEF A, B, h
<1>7. Cardinality(A) = Cardinality(B)
  BY <1>5, <1>6, FS_Injection
<1>. QED
  BY <1>7 DEF A, B, Rank

LEMMA SortedAt ==
  ASSUME NEW S, IsListing(S), NEW f \in Orders(S), NEW n \in 1 .. Cardinality(S)
  PROVE  Sorted(f)[n] \in S /\ Rank(S, Sorted(f)[n]) = n - 1
<1>. DEFINE At(k) == k \in DOMAIN f /\ Cardinality({j \in DOMAIN f : Ahead(f, j, k)}) = n - 1
<1>1. \E k : At(k)
  <2>1. PICK r \in S : Rank(S, r) = n - 1
    BY RankOnto
  <2>2. PICK k \in DOMAIN f : f[k] = r
    BY OrderFacts
  <2>. QED
    BY <2>1, <2>2, AheadCounts
<1>. DEFINE c == CHOOSE k \in DOMAIN f :
                   Cardinality({j \in DOMAIN f : Ahead(f, j, k)}) = n - 1
<1>2. At(c)
  BY <1>1
<1>3. n \in DOMAIN f
  BY OrderFacts
<1>4. Sorted(f)[n] = f[c]
  BY <1>3 DEF Sorted
<1>. QED
  BY <1>2, <1>4, OrderFacts, AheadCounts

\* The table has every record once, in the order of creation, and of ids where
\* times are equal, whatever the number of records and the order they come in
\* (table.go: "CreatedAt ASC, ties broken by ID ASC").
THEOREM TableSorted ==
  ASSUME NEW S, IsListing(S), NEW f \in Orders(S)
  PROVE  /\ Sorted(f) \in Orders(S)
         /\ \A m, n \in 1 .. Cardinality(S) : m < n => Less(Sorted(f)[m], Sorted(f)[n])
<1>. DEFINE s == Sorted(f)
<1>1. s = [n \in 1 .. Cardinality(S) |-> s[n]]
  BY OrderFacts DEF Sorted
<1>2. \A n \in 1 .. Cardinality(S) : s[n] \in S /\ Rank(S, s[n]) = n - 1
  BY SortedAt
<1>. HIDE DEF s
<1>3. s \in Orders(S)
  BY <1>1, <1>2 DEF Orders
<1>4. ASSUME NEW m \in 1 .. Cardinality(S), NEW n \in 1 .. Cardinality(S), m < n
      PROVE  Less(s[m], s[n])
  <2>1. s[m] # s[n] /\ ~ (Rank(S, s[n]) < Rank(S, s[m]))
    BY <1>2, <1>4
  <2>. QED
    BY <2>1, <1>2, LessIsOrder, RankGrows
<1>. QED
  BY <1>3, <1>4 DEF s

LEMMA SortedSame ==
  ASSUME NEW S, IsListing(S), NEW f \in Orders(S), NEW g \in Orders(S)
  PROVE  Table(f) = Table(g)
<1>1. DOMAIN f = DOMAIN g /\ DOMAIN f = 1 .. Cardinality(S)
  BY OrderFacts
<1>2. ASSUME NEW n \in DOMAIN f
      PROVE  Sorted(f)[n] = Sorted(g)[n]
  <2>1. /\ Sorted(f)[n] \in S /\ Rank(S, Sorted(f)[n]) = n - 1
        /\ Sorted(g)[n] \in S /\ Rank(S, Sorted(g)[n]) = n - 1
    BY <1>1, SortedAt
  <2>. QED
    BY <2>1, LessIsOrder, RankGrows, RankRange
<1>. QED
  BY <1>1, <1>2 DEF Table

(***************************************************************************)
(* The state path                                                          *)
(***************************************************************************)
\* Where a file is, if what the user has set is absolute.
DirOf(setting) ==
  Append(setting.value.names,
         IF setting.variable = "XDG_STATE_HOME" THEN "mcp-chain" ELSE ".mcp-chain")

\* An absolute setting alone says where the file is, whatever the directory a
\* process is started in (resolve.go Resolve).
THEOREM SettingSaysWhere ==
  ASSUME NEW e \in Environments, Setting(e).value.absolute
  PROVE  StateDir(e) = DirOf(Setting(e))
<1>1. IsPath(e.xdg) /\ IsPath(e.home)
  BY EnvironmentsAssumption DEF IsEnvironment
<1>2. CASE e.xdg # EmptyPath
  <2>1. Setting(e).variable = "XDG_STATE_HOME" /\ Setting(e).value = e.xdg
    BY <1>2 DEF Setting
  <2>2. Parent(e) = [e.xdg EXCEPT !.names = Append(e.xdg.names, "mcp-chain")]
    BY <1>2 DEF Parent, Join
  <2>3. /\ Parent(e).absolute = e.xdg.absolute
        /\ Parent(e).names = Append(e.xdg.names, "mcp-chain")
    BY <1>1, <2>2 DEF IsPath, Path
  <2>. QED
    BY <2>1, <2>3 DEF StateDir, DirOf
<1>3. CASE e.xdg = EmptyPath
  <2>1. Setting(e).variable = "HOME" /\ Setting(e).value = e.home
    BY <1>3 DEF Setting
  <2>2. Parent(e) = [e.home EXCEPT !.names = Append(e.home.names, ".mcp-chain")]
    BY <1>3 DEF Parent, Join
  <2>3. /\ Parent(e).absolute = e.home.absolute
        /\ Parent(e).names = Append(e.home.names, ".mcp-chain")
    BY <1>1, <2>2 DEF IsPath, Path
  <2>. QED
    BY <2>1, <2>3 DEF StateDir, DirOf
<1>. QED
  BY <1>2, <1>3

(***************************************************************************)
(* The word list                                                           *)
(***************************************************************************)
\* A word list that parseAndValidate accepts is one, whatever the embedded text:
\* the assumption of IdGen on Words, that unique ids rest on (wordlist.go parseAndValidate).
THEOREM AcceptedIsWordList ==
  ASSUME NEW text, NEW size, IsRaw(text), Valid(text, size)
  PROVE  IsWordList(Parsed(text))
<1>. DEFINE ws == Parsed(text)
<1>1. DOMAIN ws = 1 .. Len(text) /\ Len(text) \in Nat
  BY DEF Parsed, IsRaw
<1>2. \A i \in DOMAIN ws : ws[i] = text[i].word
  BY DEF Parsed
<1>3. ws \in Seq({ws[i] : i \in DOMAIN ws})
  <2>1. ws = [i \in 1 .. Len(text) |-> ws[i]]
    BY <1>1 DEF Parsed
  <2>2. ws \in [1 .. Len(text) -> {ws[i] : i \in DOMAIN ws}]
    BY <2>1, <1>1
  <2>. QED
    BY <2>2, <1>1
<1>4. \A i, j \in DOMAIN ws : ws[i] = ws[j] => i = j
  BY <1>1, <1>2 DEF Valid, IsRaw
<1>5. \A i \in DOMAIN ws : ~ IsHexId(ws[i])
  BY <1>1, <1>2 DEF Valid, IsRaw
<1>. QED
  BY <1>3, <1>4, <1>5 DEF IsWordList

(***************************************************************************)
(* The store with the words of the embedded text                           *)
(*                                                                         *)
(* Data holds ChainProofs for the words of raw.  What the invariant says   *)
(* of ids and states is said of a text, which need not be raw.             *)
(***************************************************************************)
Data == INSTANCE ChainProofs WITH Words <- Parsed(raw)

HexOf(n) == [above |-> n \div Width, four |-> n % Width]

IdAt(text, n) ==
  IF n < Len(text) THEN text[n + 1].word ELSE HexOf(n - (Len(text) - 1))

IsIdOf(text, id) ==
  id \in Names \/ IsHexId(id) \/ \E i \in DOMAIN text : id = text[i].word

IsStateOf(text, st) ==
  /\ st = [counter |-> st.counter, records |-> st.records]
  /\ st.counter \in Nat
  /\ st.records = [id \in DOMAIN st.records |-> st.records[id]]
  /\ \A id \in DOMAIN st.records :
       IsIdOf(text, id) /\ st.records[id] \in [owner : Tokens, status : {"pending", "resolved"}]

LEMMA ParsedFacts ==
  ASSUME IsRaw(raw)
  PROVE  /\ DOMAIN Parsed(raw) = DOMAIN raw /\ DOMAIN raw = 1 .. Len(raw)
         /\ Len(Parsed(raw)) = Len(raw) /\ Len(raw) \in Nat \ {0}
         /\ \A i \in DOMAIN raw : Parsed(raw)[i] = raw[i].word
<1>1. DOMAIN raw = 1 .. Len(raw) /\ Len(raw) \in Nat \ {0}
  BY DEF IsRaw
<1>2. /\ DOMAIN Parsed(raw) = DOMAIN raw
      /\ \A i \in DOMAIN raw : Parsed(raw)[i] = raw[i].word
  BY DEF Parsed
<1>3. Parsed(raw) = [i \in 1 .. Len(raw) |-> Parsed(raw)[i]]
  BY <1>1 DEF Parsed
<1>4. Len(Parsed(raw)) = Len(raw)
  BY <1>1, <1>2, <1>3
<1>. QED
  BY <1>1, <1>2, <1>4

LEMMA SameHex ==
  /\ \A id : Data!IsHexId(id) <=> IsHexId(id)
  /\ \A n : Data!HexId(n) = HexOf(n)
  /\ \A n : Chain!HexId(n) = HexOf(n)
<1>1. Data!Width = Width /\ Chain!Width = Width
  BY DEF Data!Width, Chain!Width, Width
<1>2. Data!FourDigits = FourDigits
  BY <1>1 DEF Data!FourDigits, FourDigits
<1>. QED
  BY <1>1, <1>2 DEF Data!IsHexId, IsHexId, Data!HexId, Chain!HexId, HexOf

LEMMA SameIds ==
  ASSUME IsRaw(raw)
  PROVE  /\ \A id : Data!IsId(id) <=> IsIdOf(raw, id)
         /\ \A n \in Nat : Data!Allocate(n) = IdAt(raw, n)
<1>1. \A id : Data!IsId(id) <=> IsIdOf(raw, id)
  BY ParsedFacts, SameHex DEF Data!IsId, IsIdOf
<1>2. ASSUME NEW n \in Nat
      PROVE  Data!Allocate(n) = IdAt(raw, n)
  <2>1. CASE n < Len(raw)
    <3>1. n + 1 \in DOMAIN raw
      BY <2>1, ParsedFacts
    <3>. QED
      BY <2>1, <3>1, ParsedFacts DEF Data!Allocate, IdAt
  <2>2. CASE ~ (n < Len(raw))
    BY <2>2, ParsedFacts, SameHex DEF Data!Allocate, IdAt
  <2>. QED
    BY <2>1, <2>2
<1>. QED
  BY <1>1, <1>2

LEMMA SameState ==
  ASSUME IsRaw(raw), NEW st
  PROVE  /\ Data!IsState(st) <=> IsStateOf(raw, st)
         /\ Chain!IsState(st) <=> IsStateOf(raw, st)
<1>1. \A id : Chain!IsHexId(id) <=> IsHexId(id)
  BY DEF Chain!IsHexId, IsHexId, Chain!FourDigits, FourDigits, Chain!Width, Width
<1>2. \A id : Chain!IsId(id) <=> IsIdOf(raw, id)
  BY <1>1, ParsedFacts DEF Chain!IsId, IsIdOf
<1>3. Data!Record = [owner : Tokens, status : {"pending", "resolved"}]
  BY DEF Data!Record, Data!Status
<1>4. Chain!Record = [owner : Tokens, status : {"pending", "resolved"}]
  BY DEF Chain!Record, Chain!Status
<1>5. Data!IsState(st) <=> IsStateOf(raw, st)
  BY <1>3, SameIds DEF Data!IsState, Data!IsRecords, IsStateOf
<1>6. Chain!IsState(st) <=> IsStateOf(raw, st)
  BY <1>2, <1>4 DEF Chain!IsState, Chain!IsRecords, IsStateOf
<1>. QED
  BY <1>5, <1>6

LEMMA SameCall ==
  ASSUME NEW st, NEW c
  PROVE  /\ Chain!Precheck(c) = Data!Precheck(c)
         /\ Chain!Apply(st, c) = Data!Apply(st, c)
         /\ Chain!ReadOnly(c) <=> Data!ReadOnly(c)
         /\ Chain!Calls = Data!Calls /\ Chain!Ops = Data!Ops /\ Chain!Errors = Data!Errors
<1>1. /\ Chain!Precheck(c) = Data!Precheck(c)
      /\ Chain!ReadOnly(c) <=> Data!ReadOnly(c)
      /\ Chain!Calls = Data!Calls /\ Chain!Ops = Data!Ops /\ Chain!Errors = Data!Errors
  BY DEF Chain!Precheck, Data!Precheck, Chain!PurgeTargets, Data!PurgeTargets,
         Chain!ReadOnly, Data!ReadOnly, Chain!Calls, Data!Calls, Chain!Ops, Data!Ops,
         Chain!Errors, Data!Errors
<1>2. \A n : Chain!Allocate(n) = Data!Allocate(n)
  BY SameHex DEF Chain!Allocate, Data!Allocate
<1>3. /\ Chain!NoRecords = Data!NoRecords
      /\ \A tok : Chain!NewRecord(tok) = Data!NewRecord(tok)
      /\ \A f, id, r : Chain!Put(f, id, r) = Data!Put(f, id, r)
      /\ \A f, ids : Chain!Keep(f, ids) = Data!Keep(f, ids)
      /\ \A s, res : Chain!Outcome(s, res) = Data!Outcome(s, res)
      /\ \A err, id, recs : Chain!Result(err, id, recs) = Data!Result(err, id, recs)
  BY DEF Chain!NoRecords, Data!NoRecords, Chain!NewRecord, Data!NewRecord, Chain!Put,
         Data!Put, Chain!Keep, Data!Keep, Chain!Outcome, Data!Outcome, Chain!Result,
         Data!Result
<1>4. Chain!Done = Data!Done /\ \A err : Chain!Fail(err) = Data!Fail(err)
  BY <1>3 DEF Chain!Done, Data!Done, Chain!Fail, Data!Fail
<1>5. Chain!Register(st, c) = Data!Register(st, c)
  BY <1>2, <1>3 DEF Chain!Register, Data!Register
<1>6. Chain!RegisterWithID(st, c) = Data!RegisterWithID(st, c)
  BY <1>3, <1>4 DEF Chain!RegisterWithID, Data!RegisterWithID
<1>7. Chain!Resolve(st, c) = Data!Resolve(st, c)
  <2>1. Chain!ResolveError(st, c) = Data!ResolveError(st, c)
    BY DEF Chain!ResolveError, Data!ResolveError
  <2>. QED
    BY <1>3, <1>4, <2>1 DEF Chain!Resolve, Data!Resolve
<1>8. Chain!Get(st, c) = Data!Get(st, c) /\ Chain!List(st) = Data!List(st)
  BY <1>3, <1>4 DEF Chain!Get, Data!Get, Chain!List, Data!List
<1>9. Chain!Purge(st, c) = Data!Purge(st, c)
  <2>1. Chain!Purged(st, c) = Data!Purged(st, c)
    BY DEF Chain!Purged, Data!Purged
  <2>. QED
    BY <1>3, <1>4, <2>1 DEF Chain!Purge, Data!Purge
<1>10. Chain!Apply(st, c) = Data!Apply(st, c)
  BY <1>5, <1>6, <1>7, <1>8, <1>9 DEF Chain!Apply, Data!Apply
<1>. QED
  BY <1>1, <1>10

\* The assumptions of ChainProofs hold of a text that parseAndValidate accepts.
LEMMA DataGiven ==
  ASSUME IsRaw(raw), Valid(raw, WordlistSize)
  PROVE  Data!WordsAssumption /\ Data!NamesAssumption /\ Data!TokensAssumption
<1>1. IsWordList(Parsed(raw))
  BY AcceptedIsWordList
<1>2. Data!IsWordList(Parsed(raw))
  BY <1>1, SameHex DEF IsWordList, Data!IsWordList
<1>. QED
  BY <1>2, NamesAssumption, TokensAssumption
     DEF Data!WordsAssumption, Data!NamesAssumption, Data!TokensAssumption

\* A binary that starts never allocates an id twice.
LEMMA IdsDiffer ==
  ASSUME IsRaw(raw), Valid(raw, WordlistSize), NEW m \in Nat, NEW n \in Nat,
         IdAt(raw, m) = IdAt(raw, n)
  PROVE  m = n
<1>1. Data!Allocate(m) = Data!Allocate(n)
  BY SameIds
<1>. QED
  BY <1>1, DataGiven, Data!AllocateInjective

LEMMA EmptyStateFacts ==
  ASSUME IsRaw(raw)
  PROVE  /\ IsStateOf(raw, EmptyDir.st)
         /\ EmptyDir.st.counter = 0 /\ DOMAIN EmptyDir.st.records = {}
         /\ EmptyDir.notes = Chain!NoRecords /\ DOMAIN EmptyDir.notes = {}
         /\ EmptyDir = [st |-> EmptyDir.st, notes |-> EmptyDir.notes]
BY DEF EmptyDir, Chain!EmptyState, Chain!NoRecords, IsStateOf

\* A call that a program may make.
MayCall(c) ==
  /\ c \in Data!Calls
  /\ c.op \in {"register", "register_with_id"} => c.tok \in Tokens

\* What a call of the store makes of a state.
LEMMA CallFacts ==
  ASSUME IsRaw(raw), Valid(raw, WordlistSize), NEW st, IsStateOf(raw, st),
         NEW c, MayCall(c)
  PROVE  /\ IsStateOf(raw, Outcome(st, c).st)
         /\ c.op = "register" =>
              /\ Outcome(st, c).res.err = "none"
              /\ Outcome(st, c).res.id = IdAt(raw, st.counter)
              /\ Outcome(st, c).st.counter = st.counter + 1
              /\ DOMAIN Outcome(st, c).st.records
                   = DOMAIN st.records \cup {IdAt(raw, st.counter)}
         /\ c.op # "register" =>
              /\ Outcome(st, c).st.counter = st.counter
              /\ DOMAIN Outcome(st, c).st.records \subseteq DOMAIN st.records \cup ValidNames
         /\ c.op # "register" => \E id :
              DOMAIN Outcome(st, c).st.records \subseteq DOMAIN st.records \cup {id}
         /\ c.op # "purge" => DOMAIN st.records \subseteq DOMAIN Outcome(st, c).st.records
         /\ Chain!ReadOnly(c) => Outcome(st, c).st = st
         /\ Outcome(st, c).res.err \in Data!Errors
<1>1. Data!IsState(st) /\ st.counter \in Nat
  BY SameState DEF IsStateOf
<1>2. Data!WellFormed(c) /\ c.op \in Data!Ops
  BY DEF MayCall, Data!WellFormed, Data!Calls
<1>3. CASE Chain!Precheck(c) = "none"
  <2>1. Outcome(st, c) = Data!Apply(st, c) /\ Data!Precheck(c) = "none"
    BY <1>3, SameCall DEF Outcome
  <2>2. /\ Data!IsState(Data!Apply(st, c).st)
        /\ Data!IsResult(Data!Apply(st, c).res)
        /\ c.op = "register" => /\ Data!Apply(st, c).res.err = "none"
                                /\ Data!Apply(st, c).res.id = Data!Allocate(st.counter)
                                /\ Data!Apply(st, c).st.counter = st.counter + 1
        /\ c.op # "register" => /\ Data!Apply(st, c).res.id = NoId
                                /\ Data!Apply(st, c).st.counter = st.counter
    BY <1>1, <1>2, <2>1, DataGiven, Data!ApplyTypes
  <2>3. /\ c.op # "purge" => DOMAIN st.records \subseteq DOMAIN Data!Apply(st, c).st.records
        /\ c.op = "register" =>
             DOMAIN Data!Apply(st, c).st.records
               = DOMAIN st.records \cup {Data!Allocate(st.counter)}
        /\ c.op # "register" =>
             DOMAIN Data!Apply(st, c).st.records \subseteq DOMAIN st.records \cup {c.id}
        /\ c.op \notin {"register", "register_with_id"} =>
             DOMAIN Data!Apply(st, c).st.records \subseteq DOMAIN st.records
    BY <1>1, <1>2, DataGiven, Data!ApplyIds
  <2>4. c.op = "register_with_id" => c.id \in ValidNames
    BY <2>1 DEF Data!Precheck
  <2>5. Chain!ReadOnly(c) => Data!Apply(st, c).st = st
    BY <1>2, DataGiven, Data!ApplyKeeps, SameCall
  <2>6. Data!Allocate(st.counter) = IdAt(raw, st.counter)
    BY <1>1, SameIds
  <2>7. IsStateOf(raw, Data!Apply(st, c).st)
    BY <2>2, SameState
  <2>8. Data!Apply(st, c).res.err \in Data!Errors
    BY <2>2 DEF Data!IsResult
  <2>9. c.op # "register" =>
          DOMAIN Data!Apply(st, c).st.records \subseteq DOMAIN st.records \cup ValidNames
    BY <2>3, <2>4
  <2>. QED
    BY <2>1, <2>2, <2>3, <2>5, <2>6, <2>7, <2>8, <2>9
<1>4. CASE Chain!Precheck(c) # "none"
  <2>1. /\ Outcome(st, c).st = st
        /\ Outcome(st, c).res.err = Chain!Precheck(c)
    BY <1>4 DEF Outcome, Chain!Outcome, Chain!Fail, Chain!Result
  <2>2. c.op # "register" /\ Chain!Precheck(c) \in Data!Errors
    BY <1>4 DEF Chain!Precheck, Data!Errors
  <2>. QED
    BY <2>1, <2>2
<1>. QED
  BY <1>3, <1>4

(***************************************************************************)
(* The inductive invariant                                                 *)
(***************************************************************************)
\* Where a process is, and what it was started with.
PlaceOK ==
  /\ raw \in Raws
  /\ at \in [Procs -> {"exited", "call", "wait"}]
  /\ cmd \in [Procs -> Commands \cup {NoCommand}]
  /\ env \in [Procs -> Environments \cup {NoEnvironment}]
  /\ code \in [Procs -> {0, 1, PanicCode, UsageCode, KilledCode}]

\* Only a binary whose word list is valid gets to the store, with a command of the
\* store, and in a directory that it has made.
CallerOK(p) ==
  at[p] = "call" =>
    /\ Valid(raw, WordlistSize)
    /\ cmd[p] \in Commands /\ cmd[p].program # "none"
    /\ env[p] \in Environments /\ StateDir(env[p]) \in DOMAIN disk

WaitOK ==
  /\ wait = [p \in Procs |-> wait[p]]
  /\ \A p \in Procs :
       LET d == wait[p].duration
       IN  IF at[p] = "wait" THEN d \in Texts /\ ~ Refused(d) /\ wait[p].budget = Budget(d)
                             ELSE d = Empty \/ (d \in Texts /\ Refused(d))

IsNote(n) ==
  /\ n = [condition |-> n.condition, created |-> n.created, resolved |-> n.resolved]
  /\ n.created \in Int

\* A directory, when no more than m registrations were reported.
IsDir(text, dir, m) ==
  /\ dir = [st |-> dir.st, notes |-> dir.notes]
  /\ IsStateOf(text, dir.st)
  /\ IsFiniteSet(DOMAIN dir.st.records) /\ DOMAIN dir.st.records \subseteq Ids
  /\ dir.st.counter <= m
  /\ DOMAIN dir.notes = DOMAIN dir.st.records
  /\ \A id \in DOMAIN dir.notes : IsNote(dir.notes[id])

DiskOK ==
  /\ disk = [d \in DOMAIN disk |-> disk[d]]
  /\ \A d \in DOMAIN disk : IsDir(raw, disk[d], Len(told))

\* What was reported, in which directory: an id that the counter there has passed.
IsReport(text, dirs, r) ==
  /\ r.dir \in DOMAIN dirs
  /\ r.by.value.absolute => r.dir = DirOf(r.by)
  /\ r.there => r.id \in DOMAIN dirs[r.dir].st.records
  /\ \E k \in Nat : k < dirs[r.dir].st.counter /\ r.id = IdAt(text, k)

Reports ==
  [by : {Setting(e) : e \in Environments}, dir : {StateDir(e) : e \in Environments},
   id : Ids, there : BOOLEAN]

ToldOK ==
  /\ told \in Seq(Reports)
  /\ \A i \in DOMAIN told : IsReport(raw, disk, told[i])

ToldOnce ==
  \A i, j \in DOMAIN told :
    told[i].dir = told[j].dir /\ told[i].id = told[j].id => i = j

IsShown(l) == IsListing(l.of) /\ \E f \in Orders(l.of) : l.table = Table(f)

ListingOK ==
  /\ listing = [p \in Procs |-> listing[p]]
  /\ \A p \in Procs : \A l \in listing[p] : IsShown(l)

StartupInv ==
  /\ PlaceOK
  /\ \A p \in Procs : CallerOK(p)
  /\ WaitOK
  /\ DiskOK
  /\ ToldOK
  /\ ToldOnce
  /\ ListingOK

LEMMA StartupInit == Init => StartupInv
<1>. SUFFICES ASSUME Init PROVE StartupInv
  OBVIOUS
<1>1. PlaceOK
  BY DEF Init, PlaceOK
<1>2. \A p \in Procs : CallerOK(p)
  BY DEF Init, CallerOK
<1>3. WaitOK
  BY DEF Init, WaitOK, NoWait
<1>4. DiskOK
  BY DEF Init, DiskOK
<1>5. ToldOK /\ ToldOnce
  BY DEF Init, ToldOK, ToldOnce
<1>6. ListingOK
  BY DEF Init, ListingOK
<1>. QED
  BY <1>1, <1>2, <1>3, <1>4, <1>5, <1>6 DEF StartupInv

\* A command of the store makes a call that CallFacts is about.
LEMMA CommandCalls ==
  ASSUME NEW c \in Commands, c.program # "none"
  PROVE  /\ MayCall(c.call)
         /\ c.program \in Programs \ {"none"}
         /\ c.program = "list" => c.call.op = "list"
<1>1. /\ c.program \in Programs /\ c.call \in Chain!Calls /\ c.call.op \in Methods(c.program)
      /\ c.program \in {"serve", "seed"} => c.call.tok \in Tokens
  BY CommandsAssumption
<1>2. c.call \in Data!Calls
  BY <1>1, SameCall
<1>. QED
  BY <1>1, <1>2 DEF Methods, MayCall, Programs

\* The places of a process that ends or goes on, and of the others.
LEMMA ExitPlaces ==
  ASSUME PlaceOK, NEW p \in Procs, NEW c \in {0, 1, PanicCode, UsageCode, KilledCode}, Exit(p, c)
  PROVE  /\ raw' = raw => PlaceOK'
         /\ at'[p] = "exited"
         /\ \A q \in Procs \ {p} : at'[q] = at[q] /\ cmd'[q] = cmd[q] /\ env'[q] = env[q]
BY DEF PlaceOK, Exit

LEMMA GoPlaces ==
  ASSUME PlaceOK, NEW p \in Procs, NEW place \in {"call", "wait"},
         NEW c \in Commands \cup {NoCommand}, NEW e \in Environments \cup {NoEnvironment},
         Go(p, place, c, e)
  PROVE  /\ raw' = raw => PlaceOK'
         /\ at'[p] = place /\ cmd'[p] = c /\ env'[p] = e
         /\ \A q \in Procs \ {p} : at'[q] = at[q] /\ cmd'[q] = cmd[q] /\ env'[q] = env[q]
BY DEF PlaceOK, Go

\* The directories are as they were, but for empty ones that are new.
Grown ==
  /\ disk' = [d \in DOMAIN disk' |-> disk'[d]]
  /\ \A d \in DOMAIN disk : d \in DOMAIN disk' /\ disk'[d] = disk[d]
  /\ \A d \in DOMAIN disk' \ DOMAIN disk : disk'[d] = EmptyDir

LEMMA MadeGrows ==
  ASSUME DiskOK, NEW d, disk' \in {disk, Made(d)}
  PROVE  Grown /\ (disk' = Made(d) => d \in DOMAIN disk')
<1>1. CASE disk' = disk
  BY <1>1 DEF Grown, DiskOK, Made
<1>2. CASE disk' = Made(d)
  BY <1>2 DEF Grown, DiskOK, Made
<1>. QED
  BY <1>1, <1>2

LEMMA GrownKeeps ==
  ASSUME StartupInv, Grown, UNCHANGED <<raw, told>>
  PROVE  DiskOK' /\ ToldOK' /\ ToldOnce'
<1>1. IsRaw(raw)
  BY RawsAssumption DEF StartupInv, PlaceOK
<1>2. DiskOK'
  <2>. SUFFICES ASSUME NEW d \in DOMAIN disk'
                PROVE  IsDir(raw, disk'[d], Len(told))
    BY DEF DiskOK, Grown
  <2>1. CASE d \in DOMAIN disk
    BY <2>1 DEF StartupInv, DiskOK, Grown
  <2>2. CASE d \notin DOMAIN disk
    <3>1. disk'[d] = EmptyDir
      BY <2>2 DEF Grown
    <3>2. Len(told) \in Nat
      BY DEF StartupInv, ToldOK
    <3>3. IsDir(raw, EmptyDir, Len(told))
      <4>. DEFINE dir == EmptyDir
      <4>1. /\ dir = [st |-> dir.st, notes |-> dir.notes] /\ IsStateOf(raw, dir.st)
            /\ dir.st.counter = 0 /\ DOMAIN dir.st.records = {} /\ DOMAIN dir.notes = {}
        BY <1>1, EmptyStateFacts
      <4>. HIDE DEF dir
      <4>2. IsDir(raw, dir, Len(told))
        BY <3>2, <4>1, FS_EmptySet DEF IsDir
      <4>. QED
        BY <4>2 DEF dir
    <3>. QED
      BY <3>1, <3>3
  <2>. QED
    BY <2>1, <2>2
<1>3. ToldOK'
  <2>1. ASSUME NEW r, IsReport(raw, disk, r)
        PROVE  IsReport(raw, disk', r)
    BY <2>1 DEF IsReport, Grown
  <2>. QED
    BY <2>1 DEF StartupInv, ToldOK
<1>. QED
  BY <1>2, <1>3 DEF StartupInv, ToldOnce

\* Callers at which nothing changes stay as they should be.
LEMMA OthersCall ==
  ASSUME StartupInv, NEW p \in Procs, raw' = raw, DOMAIN disk \subseteq DOMAIN disk',
         \A q \in Procs \ {p} : at'[q] = at[q] /\ cmd'[q] = cmd[q] /\ env'[q] = env[q],
         CallerOK(p)'
  PROVE  \A q \in Procs : CallerOK(q)'
BY DEF StartupInv, CallerOK

LEMMA LaunchKeeps ==
  ASSUME StartupInv, NEW p \in Procs, Launch(p)
  PROVE  StartupInv'
<1>0. raw' = raw /\ told' = told /\ at[p] = "exited" /\ PlaceOK /\ DiskOK
  BY DEF Launch, StartupInv
<1>. DEFINE Others == \A q \in Procs \ {p} :
                        at'[q] = at[q] /\ cmd'[q] = cmd[q] /\ env'[q] = env[q]
<1>1. /\ PlaceOK' /\ Others /\ Grown
      /\ at'[p] \in {"exited", "call"}
      /\ CallerOK(p)'
  <2>1. CASE ~ Valid(raw, WordlistSize)
    BY <2>1, <1>0, ExitPlaces, MadeGrows DEF Launch, CallerOK
  <2>2. CASE Valid(raw, WordlistSize)
    <3>1. PICK c \in Commands : Start(p, c)
      BY <2>2 DEF Launch
    <3>2. FailCode(c) \in {0, 1, PanicCode}
      BY DEF FailCode, PanicCode
    <3>3. CASE c.flags # {} \/ (c.flags = {} /\ c.program = "none")
      BY <3>1, <3>3, <1>0, ExitPlaces, MadeGrows DEF Start, CallerOK
    <3>4. CASE c.flags = {} /\ c.program # "none"
      <4>1. PICK e \in Environments : FindPath(p, c, e)
        BY <3>1, <3>4 DEF Start
      <4>2. CASE HomeUnset(e)
        BY <4>1, <4>2, <3>2, <1>0, ExitPlaces, MadeGrows DEF FindPath, CallerOK
      <4>3. CASE Exit(p, FailCode(c)) /\ disk' \in {disk, Made(StateDir(e))}
        BY <4>3, <3>2, <1>0, ExitPlaces, MadeGrows DEF CallerOK
      <4>4. CASE Go(p, "call", c, e) /\ disk' = Made(StateDir(e))
        <5>1. PlaceOK' /\ Others /\ at'[p] = "call" /\ cmd'[p] = c /\ env'[p] = e
          BY <4>4, <1>0, GoPlaces
        <5>2. Grown /\ StateDir(e) \in DOMAIN disk'
          BY <4>4, <1>0, MadeGrows
        <5>. QED
          BY <5>1, <5>2, <3>4, <2>2, <1>0 DEF CallerOK
      <4>. QED
        BY <4>1, <4>2, <4>3, <4>4 DEF FindPath
    <3>. QED
      BY <3>3, <3>4
  <2>. QED
    BY <2>1, <2>2
<1>2. \A q \in Procs : CallerOK(q)'
  <2>1. DOMAIN disk \subseteq DOMAIN disk'
    BY <1>1 DEF Grown
  <2>. QED
    BY <1>0, <1>1, <2>1, OthersCall
<1>3. WaitOK'
  BY <1>1 DEF Launch, StartupInv, WaitOK, NoWait
<1>4. DiskOK' /\ ToldOK' /\ ToldOnce'
  BY <1>0, <1>1, GrownKeeps
<1>5. ListingOK'
  BY DEF Launch, StartupInv, ListingOK
<1>. QED
  BY <1>1, <1>2, <1>3, <1>4, <1>5 DEF StartupInv

LEMMA NotesFacts ==
  ASSUME NEW dir, NEW st, NEW time \in Int, NEW condition,
         DOMAIN dir.notes = DOMAIN dir.st.records,
         \A id \in DOMAIN dir.notes : IsNote(dir.notes[id])
  PROVE  LET notes == Notes(dir, st, time, condition)
         IN  DOMAIN notes = DOMAIN st.records /\ \A id \in DOMAIN notes : IsNote(notes[id])
<1>. DEFINE notes == Notes(dir, st, time, condition)
<1>1. DOMAIN notes = DOMAIN st.records
  BY DEF Notes
<1>2. ASSUME NEW id \in DOMAIN st.records
      PROVE  IsNote(notes[id])
  <2>1. CASE id \notin DOMAIN dir.st.records
    <3>1. notes[id] = [condition |-> condition, created |-> time, resolved |-> {}]
      BY <2>1 DEF Notes
    <3>. QED
      BY <3>1 DEF IsNote
  <2>2. CASE id \in DOMAIN dir.st.records
    <3>1. IsNote(dir.notes[id])
      BY <2>2
    <3>2. notes[id] \in {[dir.notes[id] EXCEPT !.resolved = {time}], dir.notes[id]}
      BY <2>2 DEF Notes
    <3>. QED
      BY <3>1, <3>2 DEF IsNote
  <2>. QED
    BY <2>1, <2>2
<1>. QED
  BY <1>1, <1>2

LEMMA ListedFacts ==
  ASSUME NEW text, NEW dir, NEW m, IsDir(text, dir, m)
  PROVE  IsListing(Listed(dir))
<1>. DEFINE R(id) == [id |-> id, status |-> dir.st.records[id].status,
                      condition |-> dir.notes[id].condition,
                      created |-> dir.notes[id].created, resolved |-> dir.notes[id].resolved]
            D == DOMAIN dir.st.records
<1>1. Listed(dir) = {R(id) : id \in D}
  BY DEF Listed
<1>2. IsFiniteSet({R(id) : id \in D})
  <2>1. IsFiniteSet(D)
    BY DEF IsDir
  <2>. DEFINE f == [id \in D |-> R(id)]
              S == {R(id) : id \in D}
  <2>2. f \in Surjection(D, S)
    BY DEF Surjection
  <2>. HIDE DEF f, D, S
  <2>. QED
    BY <2>1, <2>2, FS_Surjection DEF S
<1>3. \A id \in D : id \in Ids /\ dir.notes[id].created \in Int
  BY DEF IsDir, IsNote
<1>4. \A r \in Listed(dir) : \E id \in D :
        r = R(id) /\ r.id = id /\ r.created = dir.notes[id].created
  BY <1>1
<1>5. \A r \in Listed(dir) : r.id \in Ids /\ r.created \in Int
  BY <1>3, <1>4
<1>6. \A r, s \in Listed(dir) : r.id = s.id => r = s
  BY <1>4
<1>. QED
  BY <1>1, <1>2, <1>5, <1>6 DEF IsListing

\* An id that is registered, while the bound on registrations is not reached.
LEMMA IdRange ==
  ASSUME raw \in Raws, Valid(raw, WordlistSize), NEW k \in Nat, k < MaxIssued
  PROVE  IdAt(raw, k) \in Ids
<1>1. IsRaw(raw) /\ Len(raw) \in Nat \ {0} /\ DOMAIN raw = 1 .. Len(raw)
  BY RawsAssumption, ParsedFacts
<1>2. CASE k < Len(raw)
  <2>1. k + 1 \in DOMAIN raw
    BY <1>1, <1>2
  <2>. QED
    BY <1>2, <2>1, IdsAssumption DEF IdAt
<1>3. CASE ~ (k < Len(raw))
  <2>1. k - (Len(raw) - 1) \in 1 .. MaxIssued
    BY <1>1, <1>3, ClockAssumption
  <2>2. HexOf(k - (Len(raw) - 1)) \in Ids
    BY <2>1, IdsAssumption, SameHex
  <2>. QED
    BY <1>3, <2>2 DEF IdAt
<1>. QED
  BY <1>2, <1>3

LEMMA StrikeFacts ==
  ASSUME told \in Seq(Reports), NEW d, NEW gone
  PROVE  LET new == Strike(d, gone)
         IN  /\ new \in Seq(Reports) /\ Len(new) = Len(told) /\ DOMAIN new = DOMAIN told
             /\ \A i \in DOMAIN told :
                  /\ new[i].dir = told[i].dir /\ new[i].id = told[i].id /\ new[i].by = told[i].by
                  /\ new[i].there => told[i].there /\ ~ (told[i].dir = d /\ told[i].id \in gone)
<1>. DEFINE new == Strike(d, gone)
            N(i) == IF told[i].dir = d /\ told[i].id \in gone
                    THEN [told[i] EXCEPT !.there = FALSE] ELSE told[i]
<1>1. Len(told) \in Nat /\ DOMAIN told = 1 .. Len(told)
  OBVIOUS
<1>2. new = [i \in 1 .. Len(told) |-> N(i)]
  BY <1>1 DEF Strike
<1>3. ASSUME NEW i \in DOMAIN told
      PROVE  /\ N(i) \in Reports
             /\ N(i).dir = told[i].dir /\ N(i).id = told[i].id /\ N(i).by = told[i].by
             /\ N(i).there => told[i].there /\ ~ (told[i].dir = d /\ told[i].id \in gone)
  <2>1. told[i] \in Reports
    OBVIOUS
  <2>. QED
    BY <2>1 DEF Reports
<1>. HIDE DEF new, N
<1>4. new \in [1 .. Len(told) -> Reports]
  BY <1>1, <1>2, <1>3
<1>5. new \in Seq(Reports) /\ Len(new) = Len(told) /\ DOMAIN new = DOMAIN told
  BY <1>1, <1>2, <1>4
<1>. QED
  BY <1>1, <1>2, <1>3, <1>5 DEF new

\* What a call of the store does to the file, and to the history.
LEMMA CallStoreSteps ==
  ASSUME StartupInv, NEW p \in Procs, CallStore(p)
  PROVE  LET c == cmd[p].call
             d == StateDir(env[p])
             o == Outcome(disk[d].st, c)
         IN  /\ cmd[p] \in Commands /\ cmd[p].program # "none" /\ env[p] \in Environments
             /\ MayCall(c) /\ IsRaw(raw) /\ Valid(raw, WordlistSize)
             /\ d \in DOMAIN disk /\ IsDir(raw, disk[d], Len(told)) /\ Len(told) \in Nat
             /\ disk' = [disk EXCEPT ![d] = disk'[d]]
             /\ disk'[d].st = o.st
             /\ disk'[d] = [st |-> disk'[d].st, notes |-> disk'[d].notes]
             /\ DOMAIN disk'[d].notes = DOMAIN o.st.records
             /\ \A id \in DOMAIN disk'[d].notes : IsNote(disk'[d].notes[id])
             /\ c.op = "register" => /\ Len(told) < MaxIssued
                                     /\ told' = Append(told, Reported(env[p], o.res.id))
             /\ c.op # "register" =>
                  told' = Strike(d, DOMAIN disk[d].st.records \ DOMAIN o.st.records)
             /\ raw' = raw /\ wait' = wait
<1>. DEFINE c == cmd[p].call
            d == StateDir(env[p])
            o == Outcome(disk[d].st, c)
            notes(time, condition) == Notes(disk[d], o.st, time, condition)
<1>1. /\ cmd[p] \in Commands /\ cmd[p].program # "none" /\ env[p] \in Environments
      /\ Valid(raw, WordlistSize) /\ d \in DOMAIN disk
  BY DEF CallStore, StartupInv, CallerOK
<1>2. MayCall(c) /\ IsRaw(raw)
  BY <1>1, CommandCalls, RawsAssumption DEF StartupInv, PlaceOK
<1>3. IsDir(raw, disk[d], Len(told)) /\ Len(told) \in Nat
  BY <1>1 DEF StartupInv, DiskOK, ToldOK
<1>4. PICK time \in (IF Chain!ReadOnly(c) THEN {0} ELSE Times), condition \in Conditions :
        disk' = [disk EXCEPT ![d] = [st |-> o.st, notes |-> notes(time, condition)]]
  BY DEF CallStore
<1>5. time \in Int
  BY <1>4, ClockAssumption
<1>6. /\ DOMAIN notes(time, condition) = DOMAIN o.st.records
      /\ \A id \in DOMAIN notes(time, condition) : IsNote(notes(time, condition)[id])
  BY <1>3, <1>5, NotesFacts DEF IsDir
<1>7. /\ c.op = "register" => /\ Len(told) < MaxIssued
                              /\ told' = Append(told, Reported(env[p], o.res.id))
      /\ c.op # "register" =>
           told' = Strike(d, DOMAIN disk[d].st.records \ DOMAIN o.st.records)
      /\ raw' = raw /\ wait' = wait
  BY DEF CallStore
<1>. HIDE DEF o, notes, d, c
<1>8. /\ disk'[d] = [st |-> o.st, notes |-> notes(time, condition)]
      /\ disk' = [disk EXCEPT ![d] = disk'[d]]
  BY <1>1, <1>4
<1>. QED
  BY <1>1, <1>2, <1>3, <1>6, <1>7, <1>8 DEF o, d, c

LEMMA CallStoreDisk ==
  ASSUME StartupInv, NEW p \in Procs, CallStore(p)
  PROVE  DiskOK' /\ ToldOK' /\ ToldOnce'
<1>. DEFINE c == cmd[p].call
            d == StateDir(env[p])
            o == Outcome(disk[d].st, c)
            old == disk[d].st
            k == old.counter
<1>1. /\ cmd[p] \in Commands /\ cmd[p].program # "none" /\ env[p] \in Environments
      /\ MayCall(c) /\ IsRaw(raw) /\ Valid(raw, WordlistSize)
      /\ d \in DOMAIN disk /\ IsDir(raw, disk[d], Len(told)) /\ Len(told) \in Nat
      /\ disk' = [disk EXCEPT ![d] = disk'[d]]
      /\ disk'[d].st = o.st
      /\ disk'[d] = [st |-> disk'[d].st, notes |-> disk'[d].notes]
      /\ DOMAIN disk'[d].notes = DOMAIN o.st.records
      /\ \A id \in DOMAIN disk'[d].notes : IsNote(disk'[d].notes[id])
      /\ raw' = raw
  BY CallStoreSteps
<1>2. c.op = "register" => Len(told) < MaxIssued /\ told' = Append(told, Reported(env[p], o.res.id))
  BY CallStoreSteps
<1>3. c.op # "register" => told' = Strike(d, DOMAIN old.records \ DOMAIN o.st.records)
  BY CallStoreSteps
<1>4. /\ IsStateOf(raw, old) /\ k \in Nat /\ k <= Len(told)
      /\ IsFiniteSet(DOMAIN old.records) /\ DOMAIN old.records \subseteq Ids
  BY <1>1 DEF IsDir, IsStateOf
<1>5. /\ IsStateOf(raw, o.st)
      /\ c.op = "register" =>
           /\ o.res.id = IdAt(raw, k)
           /\ o.st.counter = k + 1
           /\ DOMAIN o.st.records = DOMAIN old.records \cup {IdAt(raw, k)}
      /\ c.op # "register" =>
           /\ o.st.counter = k
           /\ DOMAIN o.st.records \subseteq DOMAIN old.records \cup ValidNames
           /\ \E id : DOMAIN o.st.records \subseteq DOMAIN old.records \cup {id}
      /\ c.op # "purge" => DOMAIN old.records \subseteq DOMAIN o.st.records
  BY <1>1, <1>4, CallFacts
<1>6. c.op = "register" => IdAt(raw, k) \in Ids
  BY <1>1, <1>2, <1>4, IdRange, ClockAssumption DEF StartupInv, PlaceOK
<1>7. told \in Seq(Reports) /\ \A i \in DOMAIN told : IsReport(raw, disk, told[i])
  BY DEF StartupInv, ToldOK
<1>8. DOMAIN disk' = DOMAIN disk /\ \A x \in DOMAIN disk \ {d} : disk'[x] = disk[x]
  BY <1>1
<1>9. disk' = [x \in DOMAIN disk' |-> disk'[x]]
  BY <1>1
<1>10. Setting(env[p]).value.absolute => d = DirOf(Setting(env[p]))
  BY <1>1, SettingSaysWhere
<1>. HIDE DEF o, d, c, old, k
<1>11. IsFiniteSet(DOMAIN o.st.records)
  <2>1. PICK id : DOMAIN o.st.records \subseteq DOMAIN old.records \cup {id}
    BY <1>5
  <2>2. IsFiniteSet(DOMAIN old.records \cup {id})
    BY <1>4, FS_AddElement
  <2>. QED
    BY <2>1, <2>2, FS_Subset
<1>12. DOMAIN o.st.records \subseteq Ids
  BY <1>4, <1>5, <1>6, NamesAssumption, IdsAssumption
<1>13. CASE c.op = "register"
  <2>. DEFINE r == Reported(env[p], o.res.id)
  <2>1. told' = Append(told, r)
    BY <1>2, <1>13
  <2>2. r.by = Setting(env[p]) /\ r.dir = d /\ r.id = IdAt(raw, k) /\ r.there = TRUE
    BY <1>5, <1>13 DEF Reported, d
  <2>3. r \in Reports
    BY <1>1, <1>5, <1>6, <1>13 DEF Reported, Reports
  <2>. HIDE DEF r
  <2>4. /\ told' \in Seq(Reports) /\ Len(told') = Len(told) + 1
        /\ DOMAIN told = 1 .. Len(told) /\ DOMAIN told' = 1 .. Len(told) + 1
        /\ \A i \in DOMAIN told : told'[i] = told[i]
        /\ told'[Len(told) + 1] = r
    BY <1>7, <2>1, <2>3
  <2>5. DiskOK'
    <3>1. IsDir(raw, disk'[d], Len(told'))
      BY <1>1, <1>4, <1>5, <1>11, <1>12, <1>13, <2>4 DEF IsDir
    <3>2. \A x \in DOMAIN disk \ {d} : IsDir(raw, disk[x], Len(told'))
      <4>. SUFFICES ASSUME NEW x \in DOMAIN disk PROVE IsDir(raw, disk[x], Len(told'))
        OBVIOUS
      <4>1. IsDir(raw, disk[x], Len(told))
        BY DEF StartupInv, DiskOK
      <4>2. disk[x].st.counter <= Len(told')
        BY <4>1, <2>4, <1>1 DEF IsDir, IsStateOf
      <4>. QED
        BY <4>1, <4>2 DEF IsDir
    <3>. QED
      BY <1>1, <1>8, <1>9, <3>1, <3>2 DEF DiskOK
  <2>6. ToldOK'
    <3>1. \A i \in DOMAIN told : IsReport(raw, disk', told[i])
      <4>. TAKE i \in DOMAIN told
      <4>1. IsReport(raw, disk, told[i])
        BY <1>7
      <4>2. CASE told[i].dir # d
        BY <4>1, <4>2, <1>8 DEF IsReport
      <4>3. CASE told[i].dir = d
        BY <4>1, <4>3, <1>1, <1>4, <1>5, <1>8, <1>13 DEF IsReport, old, k
      <4>. QED
        BY <4>2, <4>3
    <3>2. IsReport(raw, disk', r)
      BY <2>2, <1>1, <1>4, <1>5, <1>8, <1>10, <1>13 DEF IsReport
    <3>3. \A i \in DOMAIN told' : IsReport(raw, disk', told'[i])
      BY <2>4, <3>1, <3>2, <1>1
    <3>. QED
      BY <2>4, <3>3, <1>1 DEF ToldOK
  <2>7. ToldOnce'
    <3>1. ASSUME NEW i \in DOMAIN told, told[i].dir = d, told[i].id = IdAt(raw, k)
          PROVE  FALSE
      <4>1. PICK m \in Nat : m < disk[told[i].dir].st.counter /\ told[i].id = IdAt(raw, m)
        BY <1>7 DEF IsReport
      <4>2. m < k /\ IdAt(raw, m) = IdAt(raw, k)
        BY <4>1, <3>1 DEF k, old
      <4>. QED
        BY <4>2, <1>1, <1>4, IdsDiffer
    <3>. SUFFICES ASSUME NEW i \in DOMAIN told', NEW j \in DOMAIN told',
                         told'[i].dir = told'[j].dir, told'[i].id = told'[j].id
                  PROVE  i = j
      BY DEF ToldOnce
    <3>2. CASE i \in DOMAIN told /\ j \in DOMAIN told
      BY <3>2, <2>4 DEF StartupInv, ToldOnce
    <3>3. CASE i \notin DOMAIN told /\ j \in DOMAIN told
      BY <3>3, <3>1, <2>2, <2>4, <1>1
    <3>4. CASE i \in DOMAIN told /\ j \notin DOMAIN told
      BY <3>4, <3>1, <2>2, <2>4, <1>1
    <3>5. CASE i \notin DOMAIN told /\ j \notin DOMAIN told
      BY <3>5, <2>4, <1>1
    <3>. QED
      BY <3>2, <3>3, <3>4, <3>5
  <2>. QED
    BY <2>5, <2>6, <2>7
<1>14. CASE c.op # "register"
  <2>. DEFINE gone == DOMAIN old.records \ DOMAIN o.st.records
  <2>1. told' = Strike(d, gone)
    BY <1>3, <1>14
  <2>. HIDE DEF gone
  <2>2. /\ told' \in Seq(Reports) /\ Len(told') = Len(told) /\ DOMAIN told' = DOMAIN told
        /\ \A i \in DOMAIN told :
             /\ told'[i].dir = told[i].dir /\ told'[i].id = told[i].id /\ told'[i].by = told[i].by
             /\ told'[i].there => told[i].there /\ ~ (told[i].dir = d /\ told[i].id \in gone)
    BY <2>1, <1>7, StrikeFacts
  <2>3. DiskOK'
    <3>1. IsDir(raw, disk'[d], Len(told'))
      BY <1>1, <1>4, <1>5, <1>11, <1>12, <1>14, <2>2 DEF IsDir
    <3>2. \A x \in DOMAIN disk \ {d} : IsDir(raw, disk[x], Len(told'))
      BY <2>2 DEF StartupInv, DiskOK
    <3>. QED
      BY <1>1, <1>8, <1>9, <3>1, <3>2 DEF DiskOK
  <2>4. ASSUME NEW i \in DOMAIN told
        PROVE  IsReport(raw, disk', told'[i])
    <3>1. IsReport(raw, disk, told[i])
      BY <1>7
    <3>2. CASE told[i].dir # d
      BY <3>1, <3>2, <1>8, <2>2 DEF IsReport
    <3>3. CASE told[i].dir = d
      <4>1. told'[i].there => told'[i].id \in DOMAIN disk'[d].st.records
        BY <3>1, <3>3, <2>2, <1>1 DEF IsReport, gone, old
      <4>. QED
        BY <4>1, <3>1, <3>3, <2>2, <1>1, <1>5, <1>8, <1>14 DEF IsReport, old, k
    <3>. QED
      BY <3>2, <3>3
  <2>5. ToldOK'
    BY <2>2, <2>4, <1>1 DEF ToldOK
  <2>6. ToldOnce'
    BY <2>2 DEF StartupInv, ToldOnce
  <2>. QED
    BY <2>3, <2>5, <2>6
<1>. QED
  BY <1>13, <1>14

LEMMA CallStorePlaces ==
  ASSUME StartupInv, NEW p \in Procs, CallStore(p)
  PROVE  PlaceOK' /\ (\A q \in Procs : CallerOK(q)') /\ WaitOK'
<1>. DEFINE res == Outcome(disk[StateDir(env[p])].st, cmd[p].call).res
            Others == \A q \in Procs \ {p} :
                        at'[q] = at[q] /\ cmd'[q] = cmd[q] /\ env'[q] = env[q]
<1>1. /\ raw' = raw /\ wait' = wait /\ DOMAIN disk' = DOMAIN disk
      /\ at[p] = "call" /\ PlaceOK /\ CallerOK(p) /\ Proceed(p, res)
  <2>1. disk' = [disk EXCEPT ![StateDir(env[p])] = disk'[StateDir(env[p])]]
    BY CallStoreSteps
  <2>2. DOMAIN disk' = DOMAIN disk
    BY <2>1
  <2>. QED
    BY <2>2 DEF CallStore, StartupInv
<1>. HIDE DEF res
<1>2. PlaceOK' /\ Others /\ CallerOK(p)' /\ at'[p] \in {"call", "exited"}
  <2>1. CASE cmd[p].program = "serve"
    <3>1. UNCHANGED <<at, cmd, env, code>>
      BY <1>1, <2>1 DEF Proceed
    <3>2. PlaceOK'
      BY <1>1, <3>1 DEF PlaceOK
    <3>. QED
      BY <1>1, <3>1, <3>2 DEF CallerOK
  <2>2. CASE cmd[p].program # "serve"
    <3>1. Exit(p, ExitCode(cmd[p], res))
      BY <1>1, <2>2 DEF Proceed
    <3>2. ExitCode(cmd[p], res) \in {0, 1, PanicCode}
      BY DEF ExitCode, StatusCode, FailCode, PanicCode
    <3>. QED
      BY <1>1, <3>1, <3>2, ExitPlaces DEF CallerOK
  <2>. QED
    BY <2>1, <2>2
<1>3. \A q \in Procs : CallerOK(q)'
  BY <1>1, <1>2, OthersCall
<1>4. WaitOK'
  BY <1>1, <1>2 DEF StartupInv, WaitOK
<1>. QED
  BY <1>2, <1>3, <1>4

LEMMA CallStoreListing ==
  ASSUME StartupInv, NEW p \in Procs, CallStore(p)
  PROVE  ListingOK'
<1>. DEFINE dir == disk[StateDir(env[p])]
<1>1. IsListing(Listed(dir))
  BY CallStoreSteps, ListedFacts
<1>2. ListingOK /\ Display(p, dir)
  BY DEF StartupInv, CallStore
<1>. HIDE DEF dir
<1>3. CASE UNCHANGED listing
  BY <1>2, <1>3 DEF ListingOK
<1>4. CASE ~ UNCHANGED listing
  <2>1. PICK records \in Orders(Listed(dir)) :
          listing' = [listing EXCEPT ![p] = {[of |-> Listed(dir), table |-> Table(records)]}]
    BY <1>2, <1>4 DEF Display
  <2>2. IsShown([of |-> Listed(dir), table |-> Table(records)])
    BY <1>1 DEF IsShown
  <2>. QED
    BY <1>2, <2>1, <2>2 DEF ListingOK
<1>. QED
  BY <1>3, <1>4

\* A process that ends and leaves the files alone.
LEMMA ExitKeeps ==
  ASSUME StartupInv, NEW p \in Procs,
         NEW c \in {0, 1, PanicCode, UsageCode, KilledCode}, Exit(p, c),
         UNCHANGED <<raw, disk, listing, told>>, WaitOK'
  PROVE  StartupInv'
<1>1. PlaceOK' /\ CallerOK(p)'
  BY ExitPlaces DEF StartupInv, CallerOK
<1>2. \A q \in Procs : CallerOK(q)'
  BY <1>1, ExitPlaces, OthersCall DEF StartupInv
<1>3. DiskOK' /\ ToldOK' /\ ToldOnce' /\ ListingOK'
  BY DEF StartupInv, DiskOK, ToldOK, ToldOnce, ListingOK
<1>. QED
  BY <1>1, <1>2, <1>3 DEF StartupInv

LEMMA StopServeKeeps ==
  ASSUME StartupInv, NEW p \in Procs, StopServe(p)
  PROVE  StartupInv'
<1>1. PICK c \in {0, 1} : Exit(p, c)
  BY DEF StopServe
<1>2. WaitOK'
  BY <1>1 DEF StopServe, StartupInv, WaitOK, PlaceOK, Exit
<1>. QED
  BY <1>1, <1>2, ExitKeeps DEF StopServe

LEMMA KillKeeps ==
  ASSUME StartupInv, NEW p \in Procs, Kill(p)
  PROVE  StartupInv'
<1>1. WaitOK'
  BY DEF Kill, StartupInv, WaitOK, PlaceOK, Exit, NoWait
<1>. QED
  BY <1>1, ExitKeeps DEF Kill

LEMMA LaunchWaitKeeps ==
  ASSUME StartupInv, NEW p \in Procs, LaunchWait(p)
  PROVE  StartupInv'
<1>. DEFINE Others == \A q \in Procs \ {p} :
                        at'[q] = at[q] /\ cmd'[q] = cmd[q] /\ env'[q] = env[q]
<1>1. PICK text \in Texts :
        /\ IF ~ Refused(text) THEN Go(p, "wait", NoCommand, NoEnvironment) ELSE Exit(p, 1)
        /\ wait' = [wait EXCEPT ![p] =
                      [duration |-> text, budget |-> IF ~ Refused(text) THEN Budget(text) ELSE 0]]
  BY DEF LaunchWait
<1>2. UNCHANGED <<raw, disk, told>> /\ PlaceOK
  BY DEF LaunchWait, StartupInv
<1>3. PlaceOK' /\ Others /\ at'[p] = (IF Refused(text) THEN "exited" ELSE "wait")
  <2>1. CASE Refused(text)
    BY <1>1, <1>2, <2>1, ExitPlaces
  <2>2. CASE ~ Refused(text)
    BY <1>1, <1>2, <2>2, GoPlaces
  <2>. QED
    BY <2>1, <2>2
<1>4. \A q \in Procs : CallerOK(q)'
  <2>1. CallerOK(p)'
    BY <1>3 DEF CallerOK
  <2>. QED
    BY <1>2, <1>3, <2>1, OthersCall
<1>5. WaitOK'
  <2>1. wait = [q \in Procs |-> wait[q]] /\ wait' = [q \in Procs |-> wait'[q]]
    BY <1>1 DEF StartupInv, WaitOK
  <2>2. wait'[p].duration = text /\ (~ Refused(text) => wait'[p].budget = Budget(text))
    BY <1>1, <2>1
  <2>3. \A q \in Procs \ {p} : wait'[q] = wait[q]
    BY <1>1, <2>1
  <2>. QED
    BY <1>3, <2>1, <2>2, <2>3 DEF StartupInv, WaitOK
<1>6. DiskOK' /\ ToldOK' /\ ToldOnce'
  BY <1>2 DEF StartupInv, DiskOK, ToldOK, ToldOnce
<1>7. ListingOK'
  BY DEF LaunchWait, StartupInv, ListingOK
<1>. QED
  BY <1>3, <1>4, <1>5, <1>6, <1>7 DEF StartupInv

LEMMA StartupNext == StartupInv /\ [Next]_vars => StartupInv'
<1>. SUFFICES ASSUME StartupInv, [Next]_vars PROVE StartupInv'
  OBVIOUS
<1>1. ASSUME NEW p \in Procs, Launch(p) PROVE StartupInv'
  BY <1>1, LaunchKeeps
<1>2. ASSUME NEW p \in Procs, CallStore(p) PROVE StartupInv'
  BY <1>2, CallStoreDisk, CallStorePlaces, CallStoreListing DEF StartupInv
<1>3. ASSUME NEW p \in Procs, StopServe(p) PROVE StartupInv'
  BY <1>3, StopServeKeeps
<1>4. ASSUME NEW p \in Procs, Kill(p) PROVE StartupInv'
  BY <1>4, KillKeeps
<1>5. ASSUME NEW p \in Procs, LaunchWait(p) PROVE StartupInv'
  BY <1>5, LaunchWaitKeeps
<1>6. CASE UNCHANGED vars
  <2>1. PlaceOK' /\ WaitOK' /\ \A p \in Procs : CallerOK(p)'
    BY <1>6 DEF vars, StartupInv, PlaceOK, WaitOK, CallerOK
  <2>2. DiskOK' /\ ToldOK' /\ ToldOnce' /\ ListingOK'
    BY <1>6 DEF vars, StartupInv, DiskOK, ToldOK, ToldOnce, ListingOK
  <2>. QED
    BY <2>1, <2>2 DEF StartupInv
<1>. QED
  BY <1>1, <1>2, <1>3, <1>4, <1>5, <1>6 DEF Next

\* What the theorems below rest on.
THEOREM StartupInvariant == Spec => []StartupInv
  BY StartupInit, StartupNext, PTL DEF Spec

(***************************************************************************)
(* The theorems of Startup                                                 *)
(***************************************************************************)
\* Type correctness: every file that a process leaves behind is a state of the
\* store, and every exit code is one that the programs have.
THEOREM StartupTypes == Spec => []StartupTypeOK
<1>1. StartupInv => StartupTypeOK
  <2>. SUFFICES ASSUME StartupInv PROVE StartupTypeOK
    OBVIOUS
  <2>1. IsRaw(raw)
    BY RawsAssumption DEF StartupInv, PlaceOK
  <2>2. \A d \in DOMAIN disk :
          Chain!IsState(disk[d].st) /\ DOMAIN disk[d].notes = DOMAIN disk[d].st.records
    BY <2>1, SameState DEF StartupInv, DiskOK, IsDir
  <2>. QED
    BY <2>2 DEF StartupInv, PlaceOK, StartupTypeOK
<1>. QED
  BY <1>1, StartupInvariant, PTL

\* No two registrations in one store, by its setting or its file, get the same id: for
\* every text that a binary may be built with, and all processes wherever they
\* are started, with purges in between (wordlist.go init, resolve.go Resolve).
THEOREM UniqueFromStart == Spec => []NoIdTwice
<1>1. StartupInv => NoIdTwice
  <2>. SUFFICES ASSUME StartupInv,
                       NEW i \in DOMAIN told, NEW j \in DOMAIN told,
                       SameStore(told[i], told[j].by, told[j].dir), told[i].id = told[j].id
                PROVE  i = j
    BY DEF NoIdTwice
  <2>1. told[i].dir = told[j].dir
    BY DEF StartupInv, ToldOK, IsReport, SameStore
  <2>. QED
    BY <2>1 DEF StartupInv, ToldOnce
<1>. QED
  BY <1>1, StartupInvariant, PTL

\* Two lists of the same records print the same table, however many records there
\* are and in whatever order a range over the map yields them (table.go WriteTable).
THEOREM TablesSame == Spec => []TablesAgree
<1>1. StartupInv => TablesAgree
  <2>. SUFFICES ASSUME StartupInv, NEW p \in Procs, NEW q \in Procs,
                       NEW l \in listing[p], NEW m \in listing[q], l.of = m.of
                PROVE  l.table = m.table
    BY DEF TablesAgree
  <2>1. IsShown(l) /\ IsShown(m)
    BY DEF StartupInv, ListingOK
  <2>. QED
    BY <2>1, SortedSame DEF IsShown
<1>. QED
  BY <1>1, StartupInvariant, PTL

\* For every duration without a zero in front and of a number of seconds below Half,
\* and for these only: a monitor that goes on has the budget it was asked to have,
\* to the second (chain-wait.sh, the duration parser).
THEOREM TimeoutKept == Spec => []TimeoutAsAsked
<1>1. StartupInv => TimeoutAsAsked
  <2>. SUFFICES ASSUME StartupInv, NEW p \in Procs, Plain(wait[p].duration)
                PROVE  /\ at[p] = "wait" => wait[p].budget = Seconds(wait[p].duration)
                       /\ at[p] = "wait" <=> Seconds(wait[p].duration) \in 1 .. MaxBudget
    BY DEF TimeoutAsAsked
  <2>1. wait[p].duration # Empty
    BY DEF Plain, NotDuration, Empty
  <2>2. /\ wait[p].duration \in Texts
        /\ IF at[p] = "wait" THEN /\ ~ Refused(wait[p].duration)
                                  /\ wait[p].budget = Budget(wait[p].duration)
                             ELSE Refused(wait[p].duration)
    BY <2>1 DEF StartupInv, WaitOK
  <2>. QED
    BY <2>2, DurationsKept DEF BudgetAsNamed, KeptOrRefused
<1>. QED
  BY <1>1, StartupInvariant, PTL

\* For every duration, of whatever digits: a monitor that was given one and goes on
\* has a timeout of no more than was asked for; or none, if the numeral has a zero in
\* front or is Half seconds or more (chain-wait.sh, the duration parser).
THEOREM TimeoutBounded == Spec => []TimeoutAtMostAsked
<1>1. StartupInv => TimeoutAtMostAsked
  <2>. SUFFICES ASSUME StartupInv, NEW p \in Procs,
                       at[p] = "wait", wait[p].duration # Empty
                PROVE  LET d == wait[p].duration
                           b == wait[p].budget
                       IN  \/ b \in 1 .. MaxBudget /\ b <= Seconds(d)
                           \/ b = 0 /\ (LeadingZero(d) \/ Seconds(d) >= Half)
    BY DEF TimeoutAtMostAsked
  <2>. DEFINE d == wait[p].duration
  <2>1. d \in Texts /\ ~ Refused(d) /\ wait[p].budget = Budget(d)
    BY DEF StartupInv, WaitOK
  <2>2. ~ NotDuration(d) /\ (Dropped(d) \/ Amount(d) \in 1 .. MaxBudget)
    BY <2>1 DEF Refused
  <2>. HIDE DEF d
  <2>3. CASE Dropped(d)
    <3>1. Budget(d) = 0
      BY <2>3 DEF Budget
    <3>2. d.unit = "s" => Seconds(d) >= Half
      BY <2>3 DEF Dropped, Amount, Seconds
    <3>3. d.unit # "s" => LeadingZero(d)
      BY <2>3 DEF Dropped, BadOctal
    <3>. QED
      BY <2>1, <3>1, <3>2, <3>3 DEF d
  <2>4. CASE ~ Dropped(d)
    <3>1. Budget(d) = Amount(d)
      BY <2>4 DEF Budget, d
    <3>2. Amount(d) <= Seconds(d)
      BY <2>1, <2>2, AmountAtMost
    <3>. QED
      BY <2>1, <2>2, <2>4, <3>1, <3>2 DEF d
  <2>. QED
    BY <2>3, <2>4
<1>. QED
  BY <1>1, StartupInvariant, PTL

\* A list that ends with exit code 0 shows every entry that was registered with
\* the same setting, or in the same file, and is there still, from whichever directories the two were
\* started (resolve.go Resolve, list.go).
THEOREM ListShowsAll == Spec => ListIsComplete
<1>. DEFINE Complete ==
       \A p \in Procs :
         at[p] = "call" /\ cmd[p].program = "list" /\ at'[p] = "exited" /\ code'[p] = 0
         => \A i \in DOMAIN told :
              SameStore(told[i], Setting(env[p]), StateDir(env[p])) /\ told[i].there
                => Shows(p, told[i].id)
<1>1. ASSUME StartupInv, [Next]_vars
      PROVE  [Complete]_vars
  <2>. SUFFICES ASSUME ~ UNCHANGED vars,
                       NEW p \in Procs, at[p] = "call", cmd[p].program = "list",
                       at'[p] = "exited", code'[p] = 0,
                       NEW i \in DOMAIN told, told[i].there,
                       SameStore(told[i], Setting(env[p]), StateDir(env[p]))
                PROVE  Shows(p, told[i].id)
    OBVIOUS
  <2>. DEFINE dir == disk[StateDir(env[p])]
  <2>1. CallStore(p)
    <3>1. PICK q \in Procs :
            Launch(q) \/ CallStore(q) \/ StopServe(q) \/ Kill(q) \/ LaunchWait(q)
      BY <1>1 DEF Next
    <3>2. CASE q # p
      <4>1. UNCHANGED at \/ \E place : at' = [at EXCEPT ![q] = place]
        BY <3>1 DEF Launch, Start, FindPath, CallStore, Proceed, StopServe, Kill,
                    LaunchWait, Exit, Go
      <4>2. at'[p] = at[p]
        BY <1>1, <3>2, <4>1 DEF StartupInv, PlaceOK
      <4>. QED
        BY <4>2
    <3>3. CASE q = p
      <4>1. ~ Launch(p) /\ ~ LaunchWait(p) /\ ~ StopServe(p)
        BY DEF Launch, LaunchWait, StopServe
      <4>2. ~ Kill(p)
        BY <1>1 DEF Kill, Exit, KilledCode, StartupInv, PlaceOK
      <4>. QED
        BY <3>1, <3>3, <4>1, <4>2
    <3>. QED
      BY <3>2, <3>3
  <2>2. IsListing(Listed(dir)) /\ env[p] \in Environments
    BY <1>1, <2>1, CallStoreSteps, ListedFacts
  <2>3. told[i].id \in DOMAIN dir.st.records
    <3>1. IsReport(raw, disk, told[i])
      BY <1>1 DEF StartupInv, ToldOK
    <3>2. told[i].dir = StateDir(env[p])
      BY <3>1, <2>2, SettingSaysWhere DEF IsReport, SameStore
    <3>. QED
      BY <3>1, <3>2 DEF IsReport
  <2>. HIDE DEF dir
  <2>4. PICK r \in Listed(dir) : r.id = told[i].id
    <3>. DEFINE R(id) == [id |-> id, status |-> dir.st.records[id].status,
                          condition |-> dir.notes[id].condition,
                          created |-> dir.notes[id].created,
                          resolved |-> dir.notes[id].resolved]
    <3>1. Listed(dir) = {R(id) : id \in DOMAIN dir.st.records}
      BY DEF Listed
    <3>2. R(told[i].id) \in Listed(dir) /\ R(told[i].id).id = told[i].id
      BY <2>3, <3>1
    <3>. QED
      BY <3>2
  <2>5. PICK records \in Orders(Listed(dir)) :
          listing' = [listing EXCEPT ![p] = {[of |-> Listed(dir), table |-> Table(records)]}]
    BY <2>1, <2>4 DEF CallStore, Display, dir
  <2>6. PICK n \in DOMAIN Sorted(records) : Sorted(records)[n] = r
    <3>1. Sorted(records) \in Orders(Listed(dir))
      BY <2>2, <2>5, TableSorted
    <3>. QED
      BY <2>2, <2>4, <3>1, OrderFacts
  <2>7. n \in DOMAIN Table(records) /\ Table(records)[n].id = told[i].id
    BY <2>4, <2>6 DEF Table, Row, Sorted
  <2>8. listing'[p] = {[of |-> Listed(dir), table |-> Table(records)]}
    BY <1>1, <2>5 DEF StartupInv, ListingOK
  <2>. QED
    BY <2>7, <2>8 DEF Shows
<1>. QED
  BY <1>1, StartupInvariant, PTL DEF Spec, ListIsComplete

==============================================================================
