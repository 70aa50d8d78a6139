----------------------------- MODULE Rationals -----------------------------
(***************************************************************************)
(* Exact fractions <<numerator, denominator>> in lowest terms, for the     *)
(* floats of the indicators: what the incremental sums compute is compared *)
(* with their definitions free of rounding.                                *)
(***************************************************************************)
EXTENDS Integers, Sequences, SequencesExt, FiniteSetsExt

LOCAL Magnitude(n) == IF n < 0 THEN -n ELSE n

Gcd[a \in Nat, b \in Nat] == IF b = 0 THEN a ELSE Gcd[b, a % b]

LOCAL Reduced(n, d, g) == IF d < 0 THEN <<-n \div g, -d \div g>> ELSE <<n \div g, d \div g>>

Frac(n, d) == IF d = 1 THEN <<n, 1>> ELSE Reduced(n, d, Gcd[Magnitude(n), Magnitude(d)])

Whole(n) == <<n, 1>>
Zero == Whole(0)
One  == Whole(1)
Hundred == Whole(100)

LOCAL Sum2(a, b, g) ==
  Frac(a[1] * (b[2] \div g) + b[1] * (a[2] \div g), a[2] * (b[2] \div g))
LOCAL Product2(x, y) == <<x[1] * y[1], x[2] * y[2]>>

(* Denominators are multiplied up to their least common multiple only. *)
a ++ b == IF a[2] = b[2] THEN Frac(a[1] + b[1], a[2]) ELSE Sum2(a, b, Gcd[a[2], b[2]])
a -- b == a ++ <<-b[1], b[2]>>
a ** b == Product2(Frac(a[1], b[2]), Frac(b[1], a[2]))
a // b == a ** (IF b[1] < 0 THEN <<-b[2], -b[1]>> ELSE <<b[2], b[1]>>)

a \prec b   == IF a[2] = b[2] THEN a[1] < b[1] ELSE (a -- b)[1] < 0
a \preceq b == a = b \/ a \prec b

AbsOf(a) == <<Magnitude(a[1]), a[2]>>
Positive(a) == IF a[1] > 0 THEN a ELSE Zero

Total(s) == FoldLeft(LAMBDA x, y : x ++ y, Zero, s)
Mean(s)  == Total(s) // Whole(Len(s))
Least(s)    == CHOOSE x \in ToSet(s) : \A y \in ToSet(s) : x \preceq y
Greatest(s) == CHOOSE x \in ToSet(s) : \A y \in ToSet(s) : y \preceq x

(* round(a, 2): halves go to the even hundredth. *)
Rounded(a) ==
  LET n == a[1] * 100
      f == n \div a[2]
      twice == 2 * (n - f * a[2])
  IN  Frac(IF twice < a[2] \/ (twice = a[2] /\ f % 2 = 0) THEN f ELSE f + 1, 100)
=============================================================================
