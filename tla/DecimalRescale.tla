--------------------------- MODULE DecimalRescale ---------------------------
(***************************************************************************)
(* The amount conversion of handle_transfer_in_event (bridge-core math.rs):*)
(*   Decimal::from_raw_with_scale(amount, from_decimals)                   *)
(*           .to_raw_with_scale(to_decimals)                               *)
(* with the code's integer widths: decimals are u8 turned into i8 by `as`, *)
(* the scale difference is an i8 subtraction, amounts are unsigned Width   *)
(* bit integers (256 in the code) with checked_mul / checked_div, and the  *)
(* powers of ten come from a table holding every power below 2^Width.      *)
(* Width and Scale (18 in the code) are constants so that TLC's integers   *)
(* can hold the amounts; the i8 arithmetic keeps its real width.           *)
(*                                                                         *)
(* One conversion is a run of two steps, FromRaw then ToRaw, on inputs     *)
(* chosen in Init: the properties compare its result with the exact value  *)
(* raw * 10^to / 10^from.                                                  *)
(***************************************************************************)
EXTENDS Integers

CONSTANTS
  Width,          \* bits of an amount (U256 in the code)
  Scale,          \* Decimal::SCALE (18 in the code)
  Decimals,       \* the token decimals (u8) the inputs range over
  OverflowChecks  \* TRUE: a debug build, where i8 overflow panics

ASSUME Width \in 1..20 /\ Scale \in 0..127
ASSUME Decimals \subseteq 0..255 /\ OverflowChecks \in BOOLEAN

\* Outcomes other than a number, kept outside the ranges of u256 amounts
\* (non-negative) and of i8 values (-128..127).
NONE  == -1        \* Option::None from a checked operation or the table
PANIC == -1000     \* arithmetic overflow in a build with overflow checks
UNSET == -2        \* a result not computed yet

\* An amount that is not a number: None or a panic.
Failed(x) == x < 0

\* An i8 operation that panicked.
Panicked(d) == d = PANIC

Amount == 0..(2^Width - 1)

-----------------------------------------------------------------------------
(* Fixed-width arithmetic.                                                  *)

\* Two's complement wrap to i8, what `as i8` does and what an overflowing
\* i8 operation gives without overflow checks.
WrapI8(x) == ((x + 128) % 256) - 128

\* `u as i8` for a u8.
AsI8(u) == WrapI8(u)

\* `i as u8` for an i8.
AsU8(i) == i % 256

\* a - b on i8.
SubI8(a, b) ==
  IF a - b \in -128..127 THEN a - b
  ELSE IF OverflowChecks THEN PANIC ELSE WrapI8(a - b)

\* -d on i8.
NegI8(d) ==
  IF d # -128 THEN -d
  ELSE IF OverflowChecks THEN PANIC ELSE -128

\* Mutant of CheckedMul: a multiplication without the overflow check.
UncheckedMul(a, b) == a * b

CheckedMul(a, b) == IF a * b < 2^Width THEN a * b ELSE NONE

CheckedDiv(a, b) == IF b = 0 THEN NONE ELSE a \div b

\* Number of powers of ten below 2^Width.
RECURSIVE PowersBelow(_)
PowersBelow(e) == IF 10^e < 2^Width THEN PowersBelow(e + 1) ELSE e

\* POWERS_OF_10 has 77 entries, 10^0 .. 10^76: it stops one short of the
\* largest power below 2^256 (10^77), so pow10(77) is None.
PowersOf10 == [e \in 0..(PowersBelow(0) - 2) |-> 10^e]

\* pow10: POWERS_OF_10.get(e).
Pow10(e) == IF e \in DOMAIN PowersOf10 THEN PowersOf10[e] ELSE NONE

\* rescale(n, d): multiply by 10^d for d > 0, divide by 10^-d for d < 0.
Rescale(n, d) ==
  CASE d > 0 -> IF Failed(Pow10(AsU8(d))) THEN NONE
                ELSE CheckedMul(n, Pow10(AsU8(d)))
    [] d < 0 -> LET e == NegI8(d) IN
                  IF Panicked(e) THEN PANIC
                  ELSE IF Failed(Pow10(AsU8(e))) THEN NONE
                  ELSE CheckedDiv(n, Pow10(AsU8(e)))
    [] OTHER -> n

\* Mutant of FromRawWithScale: the scale difference taken the wrong way round.
FromRawWithScaleSwapped(raw, scale) ==
  LET diff == SubI8(AsI8(scale), AsI8(Scale)) IN
    IF Panicked(diff) THEN PANIC ELSE Rescale(raw, diff)

\* Decimal::from_raw_with_scale(raw, scale).
FromRawWithScale(raw, scale) ==
  LET diff == SubI8(AsI8(Scale), AsI8(scale)) IN
    IF Panicked(diff) THEN PANIC ELSE Rescale(raw, diff)

\* Decimal::to_raw_with_scale(self, scale).
ToRawWithScale(x, scale) ==
  LET diff == SubI8(AsI8(scale), AsI8(Scale)) IN
    IF Panicked(diff) THEN PANIC ELSE Rescale(x, diff)

-----------------------------------------------------------------------------
(* One conversion.                                                          *)

VARIABLES raw, from, to, mid, out, pc

vars == <<raw, from, to, mid, out, pc>>

Result == Amount \cup {NONE, PANIC}

TypeOK ==
  /\ raw \in Amount /\ from \in Decimals /\ to \in Decimals
  /\ mid \in Result \cup {UNSET} /\ out \in Result \cup {UNSET}
  /\ pc \in {"start", "scaled", "done"}

Init ==
  /\ raw \in Amount /\ from \in Decimals /\ to \in Decimals
  /\ mid = UNSET /\ out = UNSET /\ pc = "start"

FromRaw ==
  /\ pc = "start"
  /\ mid' = FromRawWithScale(raw, from)
  /\ pc' = "scaled"
  /\ UNCHANGED <<raw, from, to, out>>

\* `?` on the first result, then the second call.
ToRaw ==
  /\ pc = "scaled"
  /\ out' = IF Failed(mid) THEN mid ELSE ToRawWithScale(mid, to)
  /\ pc' = "done"
  /\ UNCHANGED <<raw, from, to, mid>>

Next == FromRaw \/ ToRaw

Spec == Init /\ [][Next]_vars

-----------------------------------------------------------------------------
(* The exact value raw * 10^to / 10^from, rounded down, or NONE when it    *)
(* does not fit in Width bits; computed without the large intermediates. *)
Exact ==
  IF to >= from
  THEN IF raw = 0 THEN 0
       ELSE IF to - from >= PowersBelow(0) THEN NONE
       ELSE IF raw * 10^(to - from) < 2^Width THEN raw * 10^(to - from)
       ELSE NONE
  ELSE IF from - to >= PowersBelow(0) THEN 0
       ELSE raw \div 10^(from - to)

\* The bridge never releases more than the deposit is worth: a conversion
\* that succeeds gives at most the exact amount.  About the i8 casts and the
\* two roundings of from_raw_with_scale / to_raw_with_scale.
NoOverpay ==
  (pc = "done" /\ ~Failed(out)) => (Exact = NONE \/ out <= Exact)

\* spec.md section 4.2: for to >= from, a conversion that does not overflow
\* gives exactly raw * 10^(to - from).  About from_raw_with_scale dividing
\* before to_raw_with_scale multiplies when from > Scale.
UpscaleExact ==
  (pc = "done" /\ to >= from /\ ~Failed(out)) => out = Exact

=============================================================================
