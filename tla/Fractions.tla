----------------------------- MODULE Fractions -----------------------------
(***************************************************************************)
(* The decimal numbers of the engines (decimal.js, Decimal columns) as     *)
(* exact fractions <<numerator, denominator>> in lowest terms.  Rounding   *)
(* to the digits of a column or of an answer is Rounded and Stored; that   *)
(* of decimal.js at its twenty-eighth digit is left out.                   *)
(***************************************************************************)
EXTENDS Integers, Functions

Gcd[p \in Nat \X Nat] == IF p[2] = 0 THEN p[1] ELSE Gcd[<<p[2], p[1] % p[2]>>]
Size(n) == IF n < 0 THEN -n ELSE n

Reduced(n, d, g) == <<n \div g, d \div g>>
Fraction(n, d)   == Reduced(IF d < 0 THEN -n ELSE n, Size(d), Gcd[<<Size(n), Size(d)>>])
Whole(n) == <<n, 1>>
Zero     == Whole(0)
One      == Whole(1)

\* A fraction in lowest terms.
IsFraction(x) == x \in Int \X (Nat \ {0}) /\ Gcd[<<Size(x[1]), x[2]>>] = 1

NoData   == <<0, 0>>          \* undefined, null

Plus(x, y)  == Fraction(x[1] * y[2] + y[1] * x[2], x[2] * y[2])
Minus(x, y) == Fraction(x[1] * y[2] - y[1] * x[2], x[2] * y[2])
Times(x, y) == Fraction(x[1] * y[1], x[2] * y[2])
Over(x, y)  == Fraction(x[1] * y[2], x[2] * y[1])
Less(x, y)  == x[1] * y[2] < y[1] * x[2]
AtMost(x, y)   == ~Less(y, x)
IsPositive(x)  == x[1] > 0
IsNegative(x)  == x[1] < 0
Given(x)       == x # NoData
Default(x, y)  == IF Given(x) THEN x ELSE y     \* x ?? y

\* What the forms let through (zod): nonnegative(), and optional().
IsAmount(x)    == IsFraction(x) /\ ~IsNegative(x)
IsOptional(x)  == x = NoData \/ IsAmount(x)

\* The nearest multiple of 1/s: of two as near, the even one (toDecimalPlaces, as money.ts
\* sets it), or the one above (a numeric column, for what is not negative).
Nearest(x, s, ties) ==
  LET k == (x[1] * s) \div x[2]
      r == 2 * ((x[1] * s) % x[2])
  IN Fraction(IF r < x[2] \/ (r = x[2] /\ ties = "even" /\ k % 2 = 0) THEN k ELSE k + 1, s)
Rounded(x, s) == Nearest(x, s, "even")
Stored(x, s)  == Nearest(x, s, "up")

\* x and y differ in t at most.
Near(x, y, t) == AtMost(x, Plus(y, t)) /\ AtMost(y, Plus(x, t))

\* The sum of f over the finite set S.
SumOver(f, S) == FoldFunctionOnSet(Plus, Zero, f, S)
=============================================================================
