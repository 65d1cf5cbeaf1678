------------------------------ MODULE Fractions ------------------------------
(***************************************************************************)
(* The proportions the allocation of a loss divides and multiplies: a      *)
(* fraction is a pair <<numerator, denominator>> in lowest terms, with a   *)
(* positive denominator.                                                   *)
(***************************************************************************)
EXTENDS Integers, Sequences

gcd[m \in Nat, n \in Nat] == IF n = 0 THEN m ELSE gcd[n, m % n]

DividedBy(n, d, g) == <<n \div g, d \div g>>
Frac(n, d) == DividedBy(n, d, gcd[IF n < 0 THEN -n ELSE n, d])

ZeroFrac == <<0, 1>>

\* By the common divisor first, so that small fractions stay small numbers.
SumWith(g, a, b) ==
    Frac(a[1] * (b[2] \div g) + b[1] * (a[2] \div g), a[2] * (b[2] \div g))
Plus(a, b) == SumWith(gcd[a[2], b[2]], a, b)

Minus(a, b) == Plus(a, <<-b[1], b[2]>>)

Crosswise(x, y) == <<x[1] * y[1], x[2] * y[2]>>
Times(a, b) == Crosswise(Frac(a[1], b[2]), Frac(b[1], a[2]))

Over(a, b) == Times(a, IF b[1] < 0 THEN <<-b[2], -b[1]>> ELSE <<b[2], b[1]>>)

Whole(n) == <<n, 1>>

Less(a, b) == a[1] * b[2] < b[1] * a[2]     \* <<1, 0>> is above every fraction

IsPositive(a) == a[1] > 0
IsNegative(a) == a[1] < 0

FracSum(s) ==
    LET sum[k \in 0..Len(s)] == IF k = 0 THEN ZeroFrac ELSE Plus(sum[k - 1], s[k])
    IN  sum[Len(s)]
==============================================================================
