-------------------------------- MODULE Hashes ---------------------------------
(* hash/crc32, hash/crc64, hash/adler32 and hash/fnv.  The words are wider than
   the integers TLC computes with: a CRC is the set of its bits that are 1,
   bit 0 the lowest, and an FNV hash the sequence of its bytes, low end first. *)
EXTENDS Integers, Sequences, SequencesExt, FiniteSetsExt

LOCAL Same(n, x) == [i \in 1..n |-> x]
Bits(n) == {i \in 0..7 : (n \div 2^i) % 2 = 1}
ByteOf(w) == MapThenSumSet(LAMBDA i : 2^i, w \cap 0..7)
Xor(v, w) == (v \ w) \cup (w \ v)
ShiftRight(w, n) == {i - n : i \in {j \in w : j >= n}}
FromHex(digits) ==
    UNION {{4 * (Len(digits) - k) + i : i \in Bits(digits[k])} : k \in DOMAIN digits}
WordBytes(w, n) == [k \in 1..n |-> ByteOf(ShiftRight(w, 8 * (n - k)))]

-----------------------------------------------------------------------------
(* The polynomials, reflected. *)
IEEE == FromHex(<<14, 13, 11, 8, 8, 3, 2, 0>>)
ISO == FromHex(<<13, 8>> \o Same(14, 0))
ECMA == FromHex(<<12, 9, 6, 12, 5, 7, 9, 5, 13, 7, 8, 7, 0, 15, 4, 2>>)

CrcShift(crc, poly) == IF 0 \in crc THEN Xor(ShiftRight(crc, 1), poly) ELSE ShiftRight(crc, 1)
TableOf(poly) ==
    [i \in 0..255 |-> FoldLeft(LAMBDA crc, j : CrcShift(crc, poly), Bits(i), Same(8, 0))]
MakeIEEETable == TableOf(IEEE)
MakeTableISO == TableOf(ISO)
MakeTableECMA == TableOf(ECMA)

Ones(n) == 0..(n - 1)
CrcByte(table, crc, b) == Xor(table[ByteOf(Xor(crc \cap 0..7, Bits(b)))], ShiftRight(crc, 8))
Crc32Write(crc, data) == FoldLeft(LAMBDA c, b : CrcByte(MakeIEEETable, c, b), crc, data)
Crc32Sum(crc) == Xor(crc, Ones(32))
ChecksumIEEE(data) == Crc32Sum(Crc32Write(Ones(32), data))
Crc64Write(table, crc, data) == FoldLeft(LAMBDA c, b : CrcByte(table, c, b), crc, data)
Checksum64(data, table) == Xor(Crc64Write(table, Ones(64), data), Ones(64))

-----------------------------------------------------------------------------
(* The two halves of an Adler-32 checksum. *)
AdlerMod == 65521
AdlerNew == [a |-> 1, b |-> 0]
AdlerByte(d, x) == LET a == (d.a + x) % AdlerMod IN [a |-> a, b |-> (d.b + a) % AdlerMod]
AdlerWrite(d, data) == FoldLeft(AdlerByte, d, data)
AdlerSum(d) == <<d.b \div 256, d.b % 256, d.a \div 256, d.a % 256>>

-----------------------------------------------------------------------------
(* FNV: h times the prime, modulo the width, and the byte into the low end. *)
Prime32 == <<147, 1, 0, 1>>
Prime64 == <<179, 1, 0, 0, 0, 1, 0, 0>>
Offset32 == <<197, 157, 28, 129>>
Offset64 == <<37, 35, 34, 132, 228, 156, 242, 203>>

Times(h, p) ==
    LET column(k) == FoldLeft(LAMBDA acc, j : acc + h[j] * p[k + 1 - j], 0, [j \in 1..k |-> j])
        carry[k \in 0..Len(h)] == IF k = 0 THEN 0 ELSE (carry[k - 1] + column(k)) \div 256
    IN  [k \in DOMAIN h |-> (carry[k - 1] + column(k)) % 256] \o <<>>
XorLow(h, b) == [h EXCEPT ![1] = ByteOf(Xor(Bits(@), Bits(b)))]

Fnv32(h, data) == FoldLeft(LAMBDA s, b : XorLow(Times(s, Prime32), b), h, data)
Fnv32a(h, data) == FoldLeft(LAMBDA s, b : Times(XorLow(s, b), Prime32), h, data)
Fnv64(h, data) == FoldLeft(LAMBDA s, b : XorLow(Times(s, Prime64), b), h, data)
Fnv64a(h, data) == FoldLeft(LAMBDA s, b : Times(XorLow(s, b), Prime64), h, data)

-----------------------------------------------------------------------------
(* The digest packages as instances of BlockDigest, and the SHA-3 sponge.    *)
Md5 == INSTANCE BlockDigest WITH Block <- 64, LengthBytes <- 8, LittleEndian <- TRUE
Sha1 == INSTANCE BlockDigest WITH Block <- 64, LengthBytes <- 8, LittleEndian <- FALSE
Sha256 == INSTANCE BlockDigest WITH Block <- 64, LengthBytes <- 8, LittleEndian <- FALSE
Sha512 == INSTANCE BlockDigest WITH Block <- 128, LengthBytes <- 16, LittleEndian <- FALSE

-----------------------------------------------------------------------------
(* SHA3-256: blocks of rate256 bytes are absorbed into the state a, which is
   abstracted to their sequence; the last block carries the domain suffix.   *)
Rate256 == 136
LOCAL Zeros(n) == [i \in 1..n |-> 0]
Absorb(a, block) == Append(a, block)

RECURSIVE AbsorbFull(_, _)
AbsorbFull(a, data) ==
    IF Len(data) < Rate256 THEN [a |-> a, buf |-> data]
    ELSE AbsorbFull(Absorb(a, SubSeq(data, 1, Rate256)), SubSeq(data, Rate256 + 1, Len(data)))

LastBlock(rest) ==
    LET suffixed == rest \o <<6>> \o Zeros(Rate256 - Len(rest) - 1)
    IN  [suffixed EXCEPT ![Rate256] = @ + 128]

Sum256(data) == LET s == AbsorbFull(<<>>, data) IN Absorb(s.a, LastBlock(s.buf))
New256 == [a |-> <<>>, buf |-> <<>>]
Write256(d, p) == AbsorbFull(d.a, d.buf \o p)
SumOf256(d) == Absorb(d.a, LastBlock(d.buf))

=============================================================================
