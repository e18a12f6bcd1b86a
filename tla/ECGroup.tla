--------------------------------- MODULE ECGroup --------------------------------
(***************************************************************************)
(* The elliptic curve group that keys, ciphertexts and decryption parts    *)
(* are elements of.  The curve's arithmetic is the library's; an element   *)
(* adds a flag of its own for the identity, which the library's results    *)
(* do not set.                                                             *)
(***************************************************************************)
EXTENDS ModInt, Sequences, SequencesExt

CONSTANTS
    FieldPrime, CurveA, CurveB,    \* y^2 = x^3 + CurveA x + CurveB
    BaseX, BaseY,                  \* the generator, of order Modulus
    NoElement                      \* what a failed decoding gives

-----------------------------------------------------------------------------
\* The library: points, with an identity of its own at (0, 0).
Point(x, y) == [x |-> x, y |-> y, identity |-> FALSE]
AtInfinity == [x |-> 0, y |-> 0, identity |-> TRUE]
BasePoint == Point(BaseX, BaseY)

InField(n) == n % FieldPrime
FieldOver(n, d) == InField(n * CHOOSE i \in 1..(FieldPrime - 1) : InField(d * i) = 1)
\* The third point of the line through (x, y) with this slope that also meets x2, mirrored.
Meets(x, y, slope, x2) ==
    LET x3 == InField(slope * slope - x - x2) IN Point(x3, InField(slope * (x - x3) - y))
Doubled(p) ==
    IF p.identity \/ p.y = 0 THEN AtInfinity
    ELSE Meets(p.x, p.y, FieldOver(3 * p.x * p.x + CurveA, 2 * p.y), p.x)
Added(p, q) ==
    IF p.identity THEN q
    ELSE IF q.identity THEN p
    ELSE IF p.x = q.x THEN IF p.y = q.y THEN Doubled(p) ELSE AtInfinity
    ELSE Meets(p.x, p.y, FieldOver(q.y - p.y, q.x - p.x), q.x)
Multiple(n, p) == FoldLeft(LAMBDA sum, k : Added(sum, p), AtInfinity, [k \in 1..n |-> k])

\* DecodePoint: the point with this x whose y has this parity.
OnCurve(x, odd) ==
    {y \in 0..(FieldPrime - 1) : y % 2 = odd /\ InField(y * y) = InField(x * x * x + CurveA * x + CurveB)}

-----------------------------------------------------------------------------
\* The class.  Elements made from a point never have the flag.
Self(p) == [point |-> p, isIdentity |-> FALSE]
IdentityElement == [point |-> AtInfinity, isIdentity |-> TRUE]

FromScalar(n) == IF n = 0 THEN IdentityElement ELSE Self(Multiple(n, BasePoint))
ElemTimes(e, f) ==
    IF e.isIdentity THEN f ELSE IF f.isIdentity THEN e ELSE Self(Added(e.point, f.point))
ElemTimesAssign(e, f) ==
    IF f.isIdentity THEN e
    ELSE IF e.isIdentity THEN f ELSE [e EXCEPT !.point = Added(e.point, f.point)]
ElemInverse(e) ==
    IF e.isIdentity THEN IdentityElement ELSE Self(Point(e.point.x, InField(FieldPrime - e.point.y)))
ElemOver(e, f) == ElemTimes(e, ElemInverse(f))
ElemPow(e, n) ==
    IF e.isIdentity \/ n = 0 THEN IdentityElement
    ELSE IF n < 0 THEN Self(Multiple(-n, ElemInverse(e).point))
    ELSE Self(Multiple(n, e.point))
ElemEqual(e, f) ==
    IF e.isIdentity \/ f.isIdentity THEN e.isIdentity /\ f.isIdentity
    ELSE e.point.x = f.point.x /\ e.point.y = f.point.y

\* encode: the prefix has the parity of y.
ElemEncoded(e) == IF e.isIdentity THEN <<0, 0>> ELSE <<IF e.point.y % 2 = 1 THEN 3 ELSE 2, e.point.x>>
ElemDecoded(bytes) ==
    LET ys == OnCurve(bytes[2], bytes[1] - 2)
    IN  CASE bytes[1] = 0 -> IdentityElement
          [] bytes[1] \in {2, 3} /\ ys # {} -> Self(Point(bytes[2], CHOOSE y \in ys : TRUE))
          [] OTHER -> NoElement

\* to_string and from_string, as to_bytes and from_bytes: the coordinates.
ElemString(e) == IF e.isIdentity THEN <<"IDENTITY">> ELSE <<e.point.x, e.point.y>>
FromString(s) == IF s = <<"IDENTITY">> THEN IdentityElement ELSE Self(Point(s[1], s[2]))

-----------------------------------------------------------------------------
\* An element under any sequence of operations, and the exponent it stands for.
VARIABLES
    element, exponent,
    misread     \* whether an identity without its flag was taken for a pair of coordinates
groupVars == <<element, exponent, misread>>

Unflagged(e) == e.point.identity /\ ~e.isIdentity

GroupInit == element = IdentityElement /\ exponent = 0 /\ misread = FALSE

Becomes(e, n) == element' = e /\ exponent' = Reduced(n)
Multiply(e, n) ==
    /\ Becomes(ElemTimes(element, e), exponent + n) \/ Becomes(ElemTimesAssign(element, e), exponent + n)
    /\ UNCHANGED misread
Divide(e, n) ==
    Becomes(ElemOver(element, e), exponent - n) /\ misread' = (misread \/ Unflagged(e))
Invert == Becomes(ElemInverse(element), -exponent) /\ misread' = (misread \/ Unflagged(element))
Raise(n) ==
    /\ Becomes(ElemPow(element, n), exponent * n)
    /\ misread' = (misread \/ (n < 0 /\ Unflagged(element)))
Convey ==
    /\ ~misread /\ ~Unflagged(element)
    /\ \/ Becomes(ElemDecoded(ElemEncoded(element)), exponent)
       \/ Becomes(FromString(ElemString(element)), exponent)
    /\ UNCHANGED misread

\* Exponents go up to the order, which they are not reduced by.
GroupNext ==
    \/ \E n \in 0..Modulus : Multiply(FromScalar(n), n) \/ Divide(FromScalar(n), n) \/ Raise(n) \/ Raise(-n)
    \/ Invert \/ Convey

-----------------------------------------------------------------------------
\* The arithmetic of both groups, of residues and of points: whatever is done to a number
\* it stands for its residue, and whatever is done to an element it is the generator's power
\* that it should be, equal to no other power, also past the identity.  Except where an
\* identity that the library computed was inverted: the flag of the class is not set, and its
\* coordinates are taken for a point's.
ArithmeticSound ==
    /\ StandsForItsResidue
    /\ ~misread =>
        /\ element.point = Multiple(exponent, BasePoint)
        /\ \A n \in Residues : ~Unflagged(element) => (ElemEqual(element, FromScalar(n)) <=> n = exponent)
=============================================================================
