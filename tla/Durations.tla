------------------------------ MODULE Durations ------------------------------
(***************************************************************************)
(* The duration parser of plugin/scripts/chain-wait.sh, as bash 5 reads    *)
(* it: from the text of a duration to the budget in seconds the poll loop  *)
(* works with.                                                             *)
(*                                                                         *)
(* Numerals matter digit by digit, as bash takes a leading zero for octal  *)
(* in $(( )), but not in [ ], and as numbers wrap around.                  *)
(***************************************************************************)
EXTENDS Integers, Sequences

CONSTANTS
  Half,  \* 2^63: the first number that bash cannot hold
  Texts  \* what may be given as a duration

Minute    == 60
Hour      == 3600
MaxBudget == 604800

ASSUME HalfAssumption == Half \in Nat /\ MaxBudget < Half

Digits == 0 .. 9

\* What the text of a duration is: digits, then s, m or h, or nothing.  Any other
\* text has the unit "junk".
Durations == [digits : Seq(Digits), unit : {"s", "m", "h", "none", "junk"}]

ASSUME TextsAssumption == Texts \subseteq Durations

\* The empty text, which stands for no timeout.
Empty == [digits |-> <<>>, unit |-> "none"]

\* The number that digits are in a base.
Reads(base, digits) ==
  LET first[n \in 0 .. Len(digits)] ==
        IF n = 0 THEN 0 ELSE base * first[n - 1] + digits[n]
  IN  first[Len(digits)]

LeadingZero(d) == Len(d.digits) > 1 /\ d.digits[1] = 0

\* $(( )) takes them for octal; with an 8 or a 9 it fails.
BadOctal(d) == LeadingZero(d) /\ \E i \in DOMAIN d.digits : d.digits[i] > 7

\* A number as $(( )) holds it, in two's complement.
Wrapped(n) == ((n + Half) % (2 * Half)) - Half

Product(d, seconds) ==
  Wrapped(Reads(IF LeadingZero(d) THEN 8 ELSE 10, d.digits) * seconds)

AmountSameBase(d) ==   \* mutant: hours are taken for minutes
  IF d.unit = "s" THEN Reads(10, d.digits) ELSE Product(d, Minute)

Amount(d) ==
  CASE d.unit = "s" -> Reads(10, d.digits)
    [] d.unit = "m" -> Product(d, Minute)
    [] d.unit = "h" -> Product(d, Hour)

NotDuration(d) == d.unit \notin {"s", "m", "h"} \/ d.digits = <<>>

\* The parser gets nowhere and the script goes on without a timeout: $(( ))
\* fails and with it the whole `if`, or both tests of $BUDGET do.
Dropped(d) ==
  IF d.unit = "s" THEN Amount(d) >= Half ELSE BadOctal(d)

RefusedTooLong(d) ==   \* mutant: nothing is as good as a timeout
  d # Empty /\ (NotDuration(d) \/ (~ Dropped(d) /\ Amount(d) > MaxBudget))

Refused(d) ==
  /\ d # Empty
  /\ NotDuration(d) \/ (~ Dropped(d) /\ Amount(d) \notin 1 .. MaxBudget)

\* $BUDGET, or what its tests make of it: 0 for no timeout.
Budget(d) == IF d = Empty \/ Dropped(d) THEN 0 ELSE Amount(d)

(***************************************************************************)
(* Properties                                                              *)
(***************************************************************************)
Seconds(d) ==
  CASE d.unit = "s" -> Reads(10, d.digits)
    [] d.unit = "m" -> Reads(10, d.digits) * Minute
    [] d.unit = "h" -> Reads(10, d.digits) * Hour

\* A duration as the usage means it: no zeros in front, and a number of seconds
\* that bash can hold.
Plain(d) == ~ NotDuration(d) /\ ~ LeadingZero(d) /\ Seconds(d) < Half

\* Such a duration is kept to the second or refused, and it is refused exactly
\* when it is nothing or more than a week (chain-wait.sh: "duration exceeds max
\* 168h", "duration must be positive").
KeptOrRefused(d) ==
  Plain(d) =>
    /\ Refused(d) <=> Seconds(d) \notin 1 .. MaxBudget
    /\ ~ Refused(d) => Budget(d) = Seconds(d)

BudgetAsNamed == \A d \in Texts : KeptOrRefused(d)

==============================================================================
