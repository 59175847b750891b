------------------------------- MODULE Numbers --------------------------------
(* math/big: arbitrary-precision integers, a sign and a magnitude in limbs, the
   lowest first.  LimbDigits is the number of decimal digits of a limb, 6 in the
   code.  A method's receiver is its result here, so that aliasing is visible:
   what x.Op(x, y) computes reads x before the assignment, as the code does.  *)
EXTENDS Integers, Sequences, SequencesExt, FiniteSets, FiniteSetsExt

CONSTANTS LimbDigits, IntBits, MantissaBits

LimbBase == 10^LimbDigits
LOCAL Indices(n) == [i \in 1..n |-> i]
LOCAL LimbAt(a, i) == IF i <= Len(a) THEN a[i] ELSE 0

Normalize(limbs) ==
    SubSeq(limbs, 1, Max({0} \cup {i \in DOMAIN limbs : limbs[i] # 0}))

CmpMag(a, b) ==
    LET differ == {i \in DOMAIN a : a[i] # b[i]}
        Sgn(x, y) == IF x < y THEN -1 ELSE 1
    IN  IF Len(a) # Len(b) THEN Sgn(Len(a), Len(b))
        ELSE IF differ = {} THEN 0 ELSE Sgn(a[Max(differ)], b[Max(differ)])

(* The columns are folded from the lowest limb with a carry. *)
LOCAL Carried(column(_), n) ==
    LET Step(acc, i) == LET v == column(i) + acc.carry
                        IN  [carry |-> v \div LimbBase, out |-> Append(acc.out, v % LimbBase)]
    IN  FoldLeft(Step, [carry |-> 0, out |-> <<>>], Indices(n)).out

AddMag(a, b) ==
    Normalize(Carried(LAMBDA i : LimbAt(a, i) + LimbAt(b, i), Max({Len(a), Len(b)}) + 1))

(* b is not above a. *)
SubMag(a, b) ==
    LET Step(acc, i) == LET d == a[i] - LimbAt(b, i) - acc.borrow
                        IN  [borrow |-> IF d < 0 THEN 1 ELSE 0,
                             out |-> Append(acc.out, IF d < 0 THEN d + LimbBase ELSE d)]
    IN  Normalize(FoldLeft(Step, [borrow |-> 0, out |-> <<>>], Indices(Len(a))).out)

MulMag(a, b) ==
    LET column(k) == FoldLeft(LAMBDA acc, i : IF k + 1 - i \in DOMAIN b
                                              THEN acc + a[i] * b[k + 1 - i] ELSE acc,
                              0, Indices(Len(a)))
    IN  IF a = <<>> \/ b = <<>> THEN <<>>
        ELSE Normalize(Carried(column, Len(a) + Len(b)))

MulMagSmall(a, m) ==
    IF m = 0 \/ a = <<>> THEN <<>>
    ELSE Normalize(Carried(LAMBDA i : LimbAt(a, i) * m, Len(a) + 1))

(* The quotient digit, by binary search. *)
RECURSIVE QuotientDigit(_, _, _, _, _)
QuotientDigit_Strict(b, rem, lo, hi, q) ==
    LET mid == (lo + hi) \div 2
    IN  IF lo > hi THEN q
        ELSE IF CmpMag(MulMagSmall(b, mid), rem) < 0 THEN QuotientDigit(b, rem, mid + 1, hi, mid)
        ELSE QuotientDigit(b, rem, lo, mid - 1, q)

QuotientDigit(b, rem, lo, hi, q) ==
    LET mid == (lo + hi) \div 2
    IN  IF lo > hi THEN q
        ELSE IF CmpMag(MulMagSmall(b, mid), rem) <= 0 THEN QuotientDigit(b, rem, mid + 1, hi, mid)
        ELSE QuotientDigit(b, rem, lo, mid - 1, q)

DivModMag(a, b) ==
    LET Step(acc, limb) ==
          LET rem == Normalize(<<limb>> \o acc.rem)
              q == QuotientDigit(b, rem, 0, LimbBase - 1, 0)
          IN  [q |-> <<q>> \o acc.q, rem |-> SubMag(rem, MulMagSmall(b, q))]
        result == FoldLeft(Step, [q |-> <<>>, rem |-> <<>>], Reverse(a))
    IN  IF CmpMag(a, b) < 0 THEN [q |-> <<>>, rem |-> a]
        ELSE [result EXCEPT !.q = Normalize(@)]

-----------------------------------------------------------------------------
(* Int. *)
Int_(neg, limbs) == [neg |-> neg /\ limbs # <<>>, limbs |-> limbs]
Zero == Int_(FALSE, <<>>)

RECURSIVE LimbsOf(_)
LimbsOf(n) == IF n = 0 THEN <<>> ELSE <<n % LimbBase>> \o LimbsOf(n \div LimbBase)
SetInt64(x) == Int_(x < 0, LimbsOf(IF x < 0 THEN -x ELSE x))

Sign(x) == IF x.limbs = <<>> THEN 0 ELSE IF x.neg THEN -1 ELSE 1
Cmp(x, y) ==
    IF x.neg # y.neg THEN IF x.limbs = <<>> /\ y.limbs = <<>> THEN 0 ELSE IF x.neg THEN -1 ELSE 1
    ELSE LET c == CmpMag(x.limbs, y.limbs) IN IF x.neg THEN -c ELSE c

Add(x, y) ==
    LET c == CmpMag(x.limbs, y.limbs)
    IN  IF x.neg = y.neg THEN Int_(x.neg, AddMag(x.limbs, y.limbs))
        ELSE IF c = 0 THEN Zero
        ELSE IF c > 0 THEN [neg |-> x.neg, limbs |-> SubMag(x.limbs, y.limbs)]
        ELSE [neg |-> y.neg, limbs |-> SubMag(y.limbs, x.limbs)]
Neg(x) == Int_(~x.neg, x.limbs)
Sub(x, y) == Add(x, Neg(y))
Mul(x, y) == Int_(x.neg # y.neg, MulMag(x.limbs, y.limbs))

(* The caller divides by something else than zero: QuoRem panics otherwise. *)
QuoRem(x, y) ==
    LET d == DivModMag(x.limbs, y.limbs)
    IN  [q |-> Int_(x.neg # y.neg, d.q), r |-> Int_(x.neg, d.rem)]

DivMod(x, y) ==
    LET d == QuoRem(x, y)
        one == SetInt64(1)
    IN  IF d.r.limbs = <<>> \/ ~x.neg THEN d
        ELSE [q |-> IF y.neg THEN Add(d.q, one) ELSE Sub(d.q, one),
              r |-> Add(d.r, Int_(FALSE, y.limbs))]
Mod(x, y) == DivMod(x, y).r

(* x^y, modulo m when m is positive; m = Zero stands for none. *)
RECURSIVE ExpFrom(_, _, _, _)
ExpFrom(result, base, exp, m) ==
    LET reduced(v) == IF Sign(m) > 0 THEN Mod(v, m) ELSE v
        half == QuoRem(exp, SetInt64(2))
    IN  IF Sign(exp) <= 0 THEN result
        ELSE ExpFrom(IF Sign(half.r) # 0 THEN reduced(Mul(result, base)) ELSE result,
                     reduced(Mul(base, base)), half.q, m)
Exp(x, y, m) == ExpFrom(SetInt64(1), IF Sign(m) > 0 THEN Mod(x, m) ELSE x, y, m)

(* Extended Euclid: the pairs hold the old and the new remainder and
   coefficients.                                                             *)
RECURSIVE Euclid(_, _, _)
Euclid(r, s, t) ==
    LET q == QuoRem(r[1], r[2]).q
        Next(p) == <<p[2], Sub(p[1], Mul(q, p[2]))>>
    IN  IF Sign(r[2]) = 0 THEN [d |-> r[1], x |-> s[1], y |-> t[1]]
        ELSE Euclid(Next(r), Next(s), Next(t))

GCD(a, b) ==
    LET abs(v) == Int_(FALSE, v.limbs)
        one == SetInt64(1)
        unit(v) == IF Sign(v) = 0 THEN Zero ELSE [one EXCEPT !.neg = v.neg]
        e == Euclid(<<abs(a), abs(b)>>, <<one, Zero>>, <<Zero, one>>)
    IN  IF Sign(a) = 0 \/ Sign(b) = 0
        THEN [d |-> abs(IF Sign(a) = 0 THEN b ELSE a), x |-> unit(a), y |-> unit(b)]
        ELSE [e EXCEPT !.x = IF a.neg THEN Neg(@) ELSE @, !.y = IF b.neg THEN Neg(@) ELSE @]

(* <<>> if there is none. *)
ModInverse(g, n) ==
    LET nn == IF n.neg THEN Neg(n) ELSE n
        gg == IF g.neg THEN Mod(g, nn) ELSE g
        e == GCD(gg, nn)
    IN  IF Cmp(e.d, SetInt64(1)) # 0 THEN <<>>
        ELSE <<IF e.x.neg THEN Add(e.x, nn) ELSE e.x>>

-----------------------------------------------------------------------------
(* Text and bytes.  A text is the sequence of its decimal digits and signs. *)
SetBytes(buf) ==
    FoldLeft(LAMBDA z, b : Add(Mul(z, SetInt64(256)), SetInt64(b)), Zero, buf)

RECURSIVE BytesOf(_)
BytesOf(x) ==
    LET d == QuoRem(x, SetInt64(256))
        low == FoldRight(LAMBDA limb, acc : acc * LimbBase + limb, d.r.limbs, 0)
    IN  IF Sign(x) <= 0 THEN <<>> ELSE BytesOf(d.q) \o <<low>>
Bytes(x) == BytesOf(Int_(FALSE, x.limbs))

LOCAL DigitsOf(v, width) == [i \in 1..width |-> (v \div 10^(width - i)) % 10]
LOCAL Width(v) == CHOOSE w \in 1..LimbDigits : v < 10^w /\ (w = 1 \/ v >= 10^(w - 1))
String(x) ==
    LET n == Len(x.limbs)
        top == x.limbs[n]
    IN  IF n = 0 THEN <<0>>
        ELSE (IF x.neg THEN <<"-">> ELSE <<>>) \o DigitsOf(top, Width(top))
             \o FlattenSeq([i \in 1..(n - 1) |-> DigitsOf(x.limbs[n - i], LimbDigits)])

(* <<>> for a text that is not a number. *)
SetString(neg, digits) ==
    LET n == (Len(digits) + LimbDigits - 1) \div LimbDigits
        chunk(i) == SubSeq(digits, Max({1, Len(digits) - i * LimbDigits + 1}),
                           Len(digits) - (i - 1) * LimbDigits)
        value(i) == FoldLeft(LAMBDA acc, d : 10 * acc + d, 0, chunk(i))
    IN  IF digits = <<>> THEN <<>>
        ELSE <<Int_(neg, Normalize([i \in 1..n |-> value(i)]))>>

-----------------------------------------------------------------------------
(* go/constant: the values of untyped constants, in a machine of IntBits-bit
   integers and floats with MantissaBits significant bits (64 and 53 in the
   code).  A float is an integer that such a mantissa can hold, in halves, so
   that 1/2 is a float and a quotient is rounded to it.                      *)

MinInt == -(2 ^ (IntBits - 1))
MaxInt == 2 ^ (IntBits - 1) - 1
Wrap(n) == ((n - MinInt) % (2 ^ IntBits)) + MinInt

AbsVal(n) == IF n < 0 THEN -n ELSE n
Truncated(a, b) == LET q == AbsVal(a) \div AbsVal(b) IN IF (a < 0) # (b < 0) THEN -q ELSE q

(* The bits of n's two's complement, and the number they spell. *)
BitsOf(n) == {b \in 0..(IntBits - 1) : (((n + 2 ^ IntBits) % (2 ^ IntBits)) \div 2 ^ b) % 2 = 1}
Spelled(bits) == Wrap(SumSet({2 ^ b : b \in bits}))

(* n halves rounded to a float: the nearest multiple of the unit its magnitude
   leaves to the mantissa, ties to even.                                     *)
Rounded(n) ==
    LET unit == CHOOSE u \in {2 ^ e : e \in 0..IntBits} :
                  /\ AbsVal(n) < u * 2 ^ MantissaBits
                  /\ \A v \in {2 ^ e : e \in 0..IntBits} :
                       AbsVal(n) < v * 2 ^ MantissaBits => u <= v
        low == AbsVal(n) \div unit
        rest == AbsVal(n) % unit
        up == 2 * rest > unit \/ (2 * rest = unit /\ low % 2 = 1)
        mag == (IF up THEN low + 1 ELSE low) * unit
    IN  IF n < 0 THEN -mag ELSE mag

Unknown == [kind |-> "Unknown", val |-> 0]
MakeBool(b) == [kind |-> "Bool", val |-> IF b THEN 1 ELSE 0]
MakeString(s) == [kind |-> "String", val |-> s]   \* strings: numbers, compared as they are
MakeInt64(n) == [kind |-> "Int", val |-> Wrap(n)]
MakeFloat64(halves) == [kind |-> "Float", val |-> Rounded(halves)]

IsNumeric(v) == v.kind \in {"Int", "Float"}
AsFloat(v) == IF v.kind = "Int" THEN Rounded(2 * v.val) ELSE v.val

IntOp(x, op, y) ==
    CASE op = "ADD" -> MakeInt64(x + y)
      [] op = "SUB" -> MakeInt64(x - y)
      [] op = "MUL" -> MakeInt64(x * y)
      [] op = "QUO" /\ y # 0 -> MakeInt64(Truncated(x, y))
      [] op = "REM" /\ y # 0 -> MakeInt64(x - y * Truncated(x, y))
      [] op = "AND" -> MakeInt64(Spelled(BitsOf(x) \cap BitsOf(y)))
      [] op = "OR" -> MakeInt64(Spelled(BitsOf(x) \cup BitsOf(y)))
      [] op = "XOR" -> MakeInt64(Spelled((BitsOf(x) \ BitsOf(y)) \cup (BitsOf(y) \ BitsOf(x))))
      [] OTHER -> Unknown

FloatOp(x, op, y) ==
    CASE op = "ADD" -> MakeFloat64(x + y)
      [] op = "SUB" -> MakeFloat64(x - y)
      [] op = "MUL" -> MakeFloat64((x * y) \div 2)
      [] op = "QUO" /\ y # 0 -> MakeFloat64(Truncated(2 * x, y))
      [] OTHER -> Unknown

BinaryOp(x, op, y) ==
    CASE x.kind = "Bool" /\ y.kind = "Bool" ->
           (CASE op = "LAND" -> MakeBool(x.val = 1 /\ y.val = 1)
              [] op = "LOR" -> MakeBool(x.val = 1 \/ y.val = 1)
              [] OTHER -> Unknown)
      [] x.kind = "Int" /\ y.kind = "Int" -> IntOp(x.val, op, y.val)
      [] IsNumeric(x) /\ IsNumeric(y) -> FloatOp(AsFloat(x), op, AsFloat(y))
      [] OTHER -> Unknown

UnaryOp(op, x) ==
    CASE op = "SUB" /\ x.kind = "Int" -> MakeInt64(-x.val)
      [] op = "SUB" /\ x.kind = "Float" -> MakeFloat64(-x.val)
      [] op = "NOT" /\ x.kind = "Bool" -> MakeBool(x.val = 0)
      [] op = "XOR" /\ x.kind = "Int" -> MakeInt64(-x.val - 1)
      [] OTHER -> Unknown

Ordered(a, op, b) ==
    CASE op = "EQL" -> a = b [] op = "NEQ" -> a # b
      [] op = "LSS" -> a < b [] op = "LEQ" -> a <= b
      [] op = "GTR" -> a > b [] op = "GEQ" -> a >= b
      [] OTHER -> FALSE

(* Numbers of either kind are compared as floats. *)
Compare(x, op, y) ==
    CASE x.kind = "Bool" /\ y.kind = "Bool" -> op \in {"EQL", "NEQ"} /\ Ordered(x.val, op, y.val)
      [] x.kind = "String" /\ y.kind = "String" -> Ordered(x.val, op, y.val)
      [] IsNumeric(x) /\ IsNumeric(y) -> Ordered(AsFloat(x), op, AsFloat(y))
      [] OTHER -> FALSE

ConstantSign(x) == IF ~IsNumeric(x) \/ x.val = 0 THEN 0 ELSE IF x.val > 0 THEN 1 ELSE -1
=============================================================================
