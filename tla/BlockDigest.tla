------------------------------ MODULE BlockDigest ------------------------------
(* The streaming digests of crypto/md5, crypto/sha1, crypto/sha256 and
   crypto/sha512, which differ in the parameters and in the compression of a
   block.  The compression is abstracted to what it must be for the rest to
   matter, an injection of the state and the block: the state h is the sequence
   of the blocks it has absorbed.                                            *)
EXTENDS Integers, Sequences, SequencesExt, Folds

CONSTANTS Block,          \* bytes of a block
          LengthBytes,    \* bytes of the length field that ends the padding
          LittleEndian

LOCAL Zeros(n) == [i \in 1..n |-> 0]
ProcessBlock(h, chunk) == Append(h, chunk)
ProcessBlocks(h, data) ==
    FoldLeft(LAMBDA s, i : ProcessBlock(s, SubSeq(data, (i - 1) * Block + 1, i * Block)),
             h, [i \in 1..(Len(data) \div Block) |-> i])
Full(data) == (Len(data) \div Block) * Block

PadBlock_MarkerUncounted(tail, totalBits) ==
    LET zeros == (2 * Block - LengthBytes - (Len(tail) % Block)) % Block
        low == [i \in 1..LengthBytes |-> IF i <= 4 THEN (totalBits \div 256^(i - 1)) % 256 ELSE 0]
    IN  tail \o <<128>> \o Zeros(zeros) \o IF LittleEndian THEN low ELSE Reverse(low)

(* 0x80, zeros, and the length in bits in the last bytes of a block. *)
PadBlock(tail, totalBits) ==
    LET used == Len(tail) + 1
        zeros == (2 * Block - LengthBytes - (used % Block)) % Block
        low == [i \in 1..LengthBytes |-> IF i <= 4 THEN (totalBits \div 256^(i - 1)) % 256 ELSE 0]
    IN  tail \o <<128>> \o Zeros(zeros) \o IF LittleEndian THEN low ELSE Reverse(low)

(* The one-shot Sum(data). *)
SumOf(data) ==
    ProcessBlocks(ProcessBlocks(<<>>, data),
                  PadBlock(SubSeq(data, Full(data) + 1, Len(data)), 8 * Len(data)))

(* The streaming Digest. *)
New == [h |-> <<>>, buf |-> <<>>, totalLen |-> 0]
Write(d, p) ==
    LET buf == d.buf \o p
    IN  [h |-> ProcessBlocks(d.h, buf), buf |-> SubSeq(buf, Full(buf) + 1, Len(buf)),
         totalLen |-> d.totalLen + Len(p)]
Sum(d) == ProcessBlocks(d.h, PadBlock(d.buf, 8 * d.totalLen))
Reset(d) == New

(* HMAC: hash(opad, hash(ipad, message)).  A digest is DigestBytes bytes of an
   injection of the state; a key byte xored with a pad byte is their pair.   *)
DigestBytes == 16
Digest(data) == [i \in 1..DigestBytes |-> <<SumOf(data), i>>] \o <<>>
HmacCore(key, message) ==
    LET k == IF Len(key) > Block THEN Digest(key) ELSE key
        padded == k \o Zeros(Block - Len(k))
        keyed(pad) == [i \in 1..Block |-> <<padded[i], pad>>] \o <<>>
    IN  Digest(keyed(92) \o Digest(keyed(54) \o message))
=============================================================================
