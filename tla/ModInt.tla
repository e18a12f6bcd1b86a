--------------------------------- MODULE ModInt ---------------------------------
(***************************************************************************)
(* ModInt over a prime modulus: integers that every operation reduces.     *)
(* The private key shards and the exponents of the group are such numbers. *)
(***************************************************************************)
EXTENDS Integers

CONSTANTS Modulus,
          MaxValue     \* bounds the values that v++ leaves unreduced

Reduced(v) == v % Modulus
Residues == 0..(Modulus - 1)

\* mod_pow: square and multiply.
RECURSIVE SquareAndMultiply(_, _, _)
SquareAndMultiply(res, base, exp) ==
    IF exp = 0 THEN res
    ELSE SquareAndMultiply(IF exp % 2 # 0 THEN Reduced(res * base) ELSE res,
                           Reduced(base * base), exp \div 2)
ModPow(base, exp) == SquareAndMultiply(1, Reduced(base), exp)

\* prime_modular_inverse: Fermat's formula.  Zero has itself for an inverse.
PrimeInverse(v) == ModPow(v, Modulus - 2)

\* modular_inverse: the extended Euclidean algorithm, on <<a, b, x0, x1>>.
RECURSIVE Euclid(_, _, _, _)
Euclid(a, b, x0, x1) ==
    IF b = 0 THEN <<a, x0>>
    ELSE Euclid(b, a % b, x1, x0 - (a \div b) * x1)
HasInverse(v, m) == Euclid(v, m, 1, 0)[1] = 1
EuclidInverse(v, m) == ((Euclid(v, m, 1, 0)[2] % m) + m) % m

Negated(v) == Reduced(Modulus - v)
ModPlus(v, w) == Reduced(v + w)
\* Fault: what is subtracted is not made up for.
ModMinusLow(v, w) == IF v >= w THEN v - w ELSE 0
ModMinus(v, w) == Reduced(Modulus + v - w)
ModTimes(v, w) == Reduced(v * w)
ModOver(v, w) == ModTimes(v, PrimeInverse(w))

\* ++v and --v; v++ adds to the value without reducing it.
Incremented(v) == Reduced(v + 1)
PostIncremented(v) == v + 1
Decremented(v) == (IF v = 0 THEN Modulus ELSE v) - 1

-----------------------------------------------------------------------------
\* A number under any sequence of operations, and the integer it stands for.
VARIABLES value, standsFor
modVars == <<value, standsFor>>

ModIntInit == value \in Residues /\ standsFor = value

Operate(new, exact) == value' = new /\ standsFor' = exact % Modulus

ModIntNext ==
    \/ \E w \in Residues :
        \/ Operate(ModPlus(value, w), standsFor + w)
        \/ Operate(ModMinus(value, w), standsFor - w)
        \/ Operate(ModTimes(value, w), standsFor * w)
        \/ Operate(ModPow(value, w), IF w = 0 THEN 1 ELSE standsFor ^ w)
        \* the quotient is the one number whose product with w is the value
        \/ /\ w # 0
           /\ Operate(ModOver(value, w), CHOOSE q \in Residues : (q * w - standsFor) % Modulus = 0)
    \/ Operate(Negated(value), -standsFor)
    \/ Operate(Incremented(value), standsFor + 1)
    \/ value < MaxValue /\ Operate(PostIncremented(value), standsFor + 1)
    \/ Operate(Decremented(value), standsFor - 1)

-----------------------------------------------------------------------------
\* The arithmetic is that of the integers modulo the prime, whatever came before;
\* also after a v++ that leaves the modulus itself.  Both inverse algorithms find the
\* inverse of whatever a computation left.
StandsForItsResidue ==
    /\ value % Modulus = standsFor
    /\ Reduced(value) # 0 =>
        /\ HasInverse(value, Modulus)
        /\ ModTimes(value, PrimeInverse(value)) = 1
        /\ PrimeInverse(value) = EuclidInverse(value, Modulus)
=============================================================================
