-------------------------------- MODULE Fraction --------------------------------
(***************************************************************************)
(* Fraction: <<numerator, denominator>>, normalised by its constructor.    *)
(* Shamir's scheme over integers computes with these.                      *)
(***************************************************************************)
EXTENDS Integers

Absolute(n) == IF n < 0 THEN -n ELSE n
RECURSIVE Gcd(_, _)
Gcd(m, n) == IF n = 0 THEN m ELSE Gcd(n, m % n)

\* C++ division rounds toward zero; a gcd leaves no remainder.
Exact(m, g) == IF m < 0 THEN -((-m) \div g) ELSE m \div g

\* normalize: the sign goes to the numerator.
Normalized(num, den) ==
    LET sign == IF den < 0 THEN -1 ELSE 1
        g == Gcd(Absolute(num), Absolute(den))
    IN  <<Exact(sign * num, g), Exact(sign * den, g)>>

FracOf(n) == Normalized(n, 1)
FracPlus(p, q) == Normalized(p[1] * q[2] + q[1] * p[2], p[2] * q[2])
FracNegated(p) == Normalized(-p[1], p[2])
FracMinus(p, q) == FracPlus(p, FracNegated(q))
FracTimes(p, q) == Normalized(p[1] * q[1], p[2] * q[2])
FracInverse(p) == Normalized(p[2], p[1])
FracOver(p, q) == FracTimes(p, FracInverse(q))
\* operator<=> multiplies out.
FracLess(p, q) == p[1] * q[2] < q[1] * p[2]
=============================================================================
