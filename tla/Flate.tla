--------------------------------- MODULE Flate ---------------------------------
(* compress/flate: the DEFLATE writer (greedy matching, one fixed-Huffman
   block) and the reader of stored, fixed and dynamic blocks.  A compressed
   stream is a sequence of bits in the order they are packed into bytes.

   Window and Candidates are the farthest distance and the number of earlier
   positions the writer looks at, 32768 and 32 in the code.                  *)
EXTENDS Integers, Sequences, Hashes, SequencesExt, FiniteSetsExt

CONSTANTS Window, Candidates

LengthBase == <<3, 4, 5, 6, 7, 8, 9, 10, 11, 13, 15, 17, 19, 23, 27, 31, 35, 43, 51, 59,
                67, 83, 99, 115, 131, 163, 195, 227, 258>>
LengthExtraBits == <<0, 0, 0, 0, 0, 0, 0, 0, 1, 1, 1, 1, 2, 2, 2, 2, 3, 3, 3, 3,
                     4, 4, 4, 4, 5, 5, 5, 5, 0>>
DistBase == <<1, 2, 3, 4, 5, 7, 9, 13, 17, 25, 33, 49, 65, 97, 129, 193, 257, 385, 513, 769,
              1025, 1537, 2049, 3073, 4097, 6145, 8193, 12289, 16385, 24577>>
DistExtraBits == <<0, 0, 0, 0, 1, 1, 2, 2, 3, 3, 4, 4, 5, 5, 6, 6, 7, 7, 8, 8, 9, 9,
                   10, 10, 11, 11, 12, 12, 13, 13>>
ClOrder == <<16, 17, 18, 0, 8, 7, 9, 6, 10, 5, 11, 4, 12, 3, 13, 2, 14, 1, 15>>

-----------------------------------------------------------------------------
(* Canonical Huffman codes: the code of symbol s, at position s + 1, is the
   pair of its length and its number; <<0, 0>> for a symbol without a code.  *)
BuildHuffman(lengths) ==
    LET count(b, n) == Cardinality({i \in 1..n : lengths[i] = b})
        first[b \in 1..15] == IF b = 1 THEN 0 ELSE 2 * (first[b - 1] + count(b - 1, Len(lengths)))
        code(i, l) == <<l, first[l] + count(l, i - 1)>>
    IN  [i \in DOMAIN lengths |-> IF lengths[i] = 0 THEN <<0, 0>> ELSE code(i, lengths[i])] \o <<>>

Same(n, x) == [i \in 1..n |-> x]
FixedLitTree == BuildHuffman(Same(144, 8) \o Same(112, 9) \o Same(24, 7) \o Same(8, 8))
FixedDistTree == BuildHuffman(Same(30, 5))

(* Values go out low bit first, codes high bit first. *)
ValueBits(v, n) == [i \in 1..n |-> (v \div 2^(i - 1)) % 2]
SymbolBits(tree, s) == Reverse(ValueBits(tree[s + 1][2], tree[s + 1][1]))

(* The last base that is not above x. *)
CodeIndex(base, x) == Max({i \in DOMAIN base : base[i] <= x})

-----------------------------------------------------------------------------
(* The writer. *)
MatchLength(data, p, i) ==
    LET most == Min({258, Len(data) - i + 1})
    IN  CHOOSE l \in 0..most : /\ \A k \in 0..(l - 1) : data[p + k] = data[i + k]
                               /\ l = most \/ data[p + l] # data[i + l]

EmitMatch(length, dist) ==
    LET l == CodeIndex(LengthBase, length)
        d == CodeIndex(DistBase, dist)
    IN  SymbolBits(FixedLitTree, 256 + l) \o ValueBits(length - LengthBase[l], LengthExtraBits[l])
        \o SymbolBits(FixedDistTree, d - 1) \o ValueBits(dist - DistBase[d], DistExtraBits[d])

(* The positions before i in i's hash bucket, the latest Candidates of them,
   that are not too far away.                                                *)
Bucket(data, i) ==
    LET same == {p \in 1..(i - 1) : SubSeq(data, p, p + 2) = SubSeq(data, i, i + 2)}
        later(p) == Cardinality({q \in same : q > p})
    IN  IF i + 2 > Len(data) THEN {}
        ELSE {p \in same : later(p) < Candidates /\ i - p <= Window}

(* The latest of the longest matches, 0 if there is none of three bytes. *)
BestMatch(data, i) ==
    LET b == Bucket(data, i)
        longest == Max({MatchLength(data, p, i) : p \in b})
    IN  IF b = {} THEN 0 ELSE Max({p \in b : MatchLength(data, p, i) = longest})

RECURSIVE DeflateFrom(_, _)
DeflateFrom(data, i) ==
    LET p == BestMatch(data, i)
    IN  IF i > Len(data) THEN SymbolBits(FixedLitTree, 256)
        ELSE IF p = 0 THEN SymbolBits(FixedLitTree, data[i]) \o DeflateFrom(data, i + 1)
        ELSE EmitMatch(MatchLength(data, p, i), i - p)
             \o DeflateFrom(data, i + MatchLength(data, p, i))

Flush(bits) == bits \o Same((8 - (Len(bits) % 8)) % 8, 0)
Deflate(data) == Flush(<<1, 1, 0>> \o DeflateFrom(data, 1))

-----------------------------------------------------------------------------
(* The reader r: the bits in, the next one at pos, what was inflated so far,
   and err.                                                                  *)
NewReader(bits) == [in |-> bits, pos |-> 1, out |-> <<>>, err |-> "", done |-> FALSE]

Fail(r, e) == IF r.err = "" THEN [r EXCEPT !.err = e, !.done = TRUE] ELSE r
V(v, r) == [v |-> v, r |-> r]
Append_(r, s) == [r EXCEPT !.out = @ \o s]

ReadBits(r, n) ==
    IF r.err # "" \/ r.pos + n > Len(r.in) + 1 THEN V(0, Fail(r, "EOF"))
    ELSE V(FoldLeft(LAMBDA acc, b : 2 * acc + b, 0, Reverse(SubSeq(r.in, r.pos, r.pos + n - 1))),
           [r EXCEPT !.pos = @ + n])

AlignByte(r) == [r EXCEPT !.pos = ((r.pos + 6) \div 8) * 8 + 1]

(* decode is the tree as a function from <<length, code>> to the symbol. *)
Decoding(tree) ==
    [k \in {tree[i] : i \in DOMAIN tree} \ {<<0, 0>>} |->
       (CHOOSE i \in DOMAIN tree : tree[i] = k) - 1]
FixedLitDecode == Decoding(FixedLitTree)
FixedDistDecode == Decoding(FixedDistTree)

RECURSIVE SymbolFrom(_, _, _, _)
SymbolFrom(r, decode, len, code) ==
    LET b == ReadBits(r, 1)
        c == 2 * code + b.v
    IN  IF len > 15 THEN V(0, Fail(r, "invalid huffman code"))
        ELSE IF b.r.err # "" THEN b
        ELSE IF <<len, c>> \in DOMAIN decode THEN V(decode[<<len, c>>], b.r)
        ELSE SymbolFrom(b.r, decode, len + 1, c)

ReadSymbol(r, decode) == SymbolFrom(r, decode, 1, 0)

(* The code lengths of a dynamic block, run-length coded: a run that passes
   the total is cut off.                                                     *)
RECURSIVE ReadLengths(_, _, _, _), InflateBlock(_, _, _)
ReadLengths(r, decode, total, lens) ==
    LET s == ReadSymbol(r, decode)
        extra == CASE s.v = 16 -> 2 [] s.v = 17 -> 3 [] s.v = 18 -> 7 [] OTHER -> 0
        n == ReadBits(s.r, extra)
        run == IF s.v <= 15 THEN 1 ELSE n.v + IF s.v = 18 THEN 11 ELSE 3
        len == IF s.v <= 15 THEN s.v ELSE IF s.v = 16 THEN lens[Len(lens)] ELSE 0
    IN  IF Len(lens) >= total THEN V(SubSeq(lens, 1, total), r)
        ELSE IF s.r.err # "" THEN V(lens, s.r)
        ELSE IF s.v = 16 /\ lens = <<>> THEN V(lens, Fail(s.r, "no previous length"))
        ELSE ReadLengths(n.r, decode, total, lens \o Same(run, len))

RECURSIVE ReadCl(_, _, _)
ReadCl(r, n, cl) ==
    LET b == ReadBits(r, 3)
    IN  IF Len(cl) = n THEN V(cl, r) ELSE ReadCl(b.r, n, Append(cl, b.v))

ReadDynamicTrees(r) ==
    LET hlit == ReadBits(r, 5)
        hdist == ReadBits(hlit.r, 5)
        hclen == ReadBits(hdist.r, 4)
        cl == ReadCl(hclen.r, hclen.v + 4, <<>>)
        clLens == [s \in 1..19 |-> LET i == CHOOSE j \in 1..19 : ClOrder[j] = s - 1
                                   IN IF i <= Len(cl.v) THEN cl.v[i] ELSE 0]
        lens == ReadLengths(cl.r, Decoding(BuildHuffman(clLens)), hlit.v + hdist.v + 258, <<>>)
    IN  IF cl.r.err # "" THEN V(<<>>, cl.r)
        ELSE IF lens.r.err # "" THEN V(<<>>, lens.r)
        ELSE V(<<SubSeq(lens.v, 1, hlit.v + 257), SubSeq(lens.v, hlit.v + 258, Len(lens.v))>>,
               lens.r)

(* A match may reach into what it copies itself. *)
Copy(out, dist, length) ==
    out \o [k \in 1..length |-> out[Len(out) - dist + 1 + ((k - 1) % dist)]]

InflateBlock(r, lit, dist) ==
    LET s == ReadSymbol(r, lit)
        i == s.v - 256
        l == ReadBits(s.r, LengthExtraBits[i])
        d == ReadSymbol(l.r, dist)
        e == ReadBits(d.r, DistExtraBits[d.v + 1])
        length == LengthBase[i] + l.v
        back == DistBase[d.v + 1] + e.v
    IN  IF s.r.err # "" THEN s.r
        ELSE IF s.v < 256 THEN InflateBlock(Append_(s.r, <<s.v>>), lit, dist)
        ELSE IF s.v = 256 THEN s.r
        ELSE IF i > Len(LengthBase) THEN Fail(s.r, "invalid length code")
        ELSE IF d.r.err # "" THEN d.r
        ELSE IF d.v >= Len(DistBase) THEN Fail(d.r, "invalid distance code")
        ELSE IF e.r.err # "" THEN e.r
        ELSE IF back > Len(e.r.out) THEN Fail(e.r, "distance too far back")
        ELSE InflateBlock([e.r EXCEPT !.out = Copy(@, back, length)], lit, dist)

(* A stored block: the complement of its length is read and not compared;
   bytes that are missing end the stream without the block.                  *)
Stored(r) ==
    LET a == AlignByte(r)
        len == ReadBits(a, 16)
        from == a.pos + 32
        byte(k) == ReadBits([a EXCEPT !.pos = from + 8 * (k - 1)], 8).v
    IN  IF from + 8 * len.v > Len(r.in) + 1 THEN Fail(r, "EOF")
        ELSE [Append_(a, [k \in 1..len.v |-> byte(k)]) EXCEPT !.pos = from + 8 * len.v]

(* One block.  A stream that ends where a block would start is complete. *)
InflateNext(r) ==
    LET final == ReadBits(r, 1)
        type == ReadBits(final.r, 2)
        trees == ReadDynamicTrees(type.r)
        fixed == InflateBlock(type.r, FixedLitDecode, FixedDistDecode)
        block == CASE type.v = 0 -> Stored(type.r)
                   [] type.v = 1 -> fixed
                   [] type.v = 2 -> IF trees.r.err # "" THEN trees.r
                                    ELSE InflateBlock(trees.r, Decoding(BuildHuffman(trees.v[1])),
                                                      Decoding(BuildHuffman(trees.v[2])))
                   [] OTHER -> Fail(type.r, "invalid block type")
    IN  IF final.r.err # "" THEN [r EXCEPT !.done = TRUE]
        ELSE IF type.r.err # "" THEN type.r
        ELSE [block EXCEPT !.done = @ \/ final.v = 1]

RECURSIVE Inflate(_)
Inflate(r) == IF r.done THEN r ELSE Inflate(InflateNext(r))

-----------------------------------------------------------------------------
(* compress/gzip and compress/zlib: the two wrappers of a DEFLATE stream.  A
   file is a sequence of bytes; the inflater takes its bits lowest first.    *)
BitsOf(bytes) == FlattenSeq([k \in DOMAIN bytes |-> ValueBits(bytes[k], 8)])
Packed(bits) ==
    [k \in 1..(Len(bits) \div 8) |->
       FoldLeft(LAMBDA acc, b : 2 * acc + b, 0, Reverse(SubSeq(bits, 8 * k - 7, 8 * k)))]
Bytes(n, w) == [k \in 1..w |-> (n \div 256^(k - 1)) % 256]
HasBit(n, i) == (n \div 2^i) % 2 = 1

(* What NewReader leaves: the inflated bytes, the error its Read ends with,
   and the trailer, empty when the file stops before the end of it.  The
   trailer starts at the first byte the inflater has not touched.            *)
NewWrapped(file, from, n) ==
    LET r == Inflate(NewReader(BitsOf(SubSeq(file, from, Len(file)))))
        at == from + (r.pos + 6) \div 8
    IN  [out |-> r.out, err |-> r.err,
         trailer |-> IF at + n - 1 > Len(file) THEN <<>> ELSE SubSeq(file, at, at + n - 1)]
Refused(e) == [out |-> <<>>, err |-> e, trailer |-> <<>>]

(* The sum is compared once all was read, and only if there was a trailer. *)
ReadAll(z, sum) ==
    IF z.err = "" /\ z.trailer # <<>> /\ SubSeq(z.trailer, 1, 4) # sum
    THEN [z EXCEPT !.err = "checksum mismatch"] ELSE z

-----------------------------------------------------------------------------
(* zlib *)
Header == <<120, (31 - ((120 * 256) % 31)) % 31>>
AdlerBytes(data) == AdlerSum(AdlerWrite(AdlerNew, data))

ZlibClose(data) == Header \o Packed(Deflate(data)) \o AdlerBytes(data)

ZlibNewReader(file) ==
    IF Len(file) < 2 THEN Refused("EOF")
    ELSE IF (file[1] * 256 + file[2]) % 31 # 0 \/ file[1] % 16 # 8 THEN Refused("invalid header")
    ELSE IF HasBit(file[2], 5) THEN Refused("preset dictionary not supported")
    ELSE NewWrapped(file, 3, 4)

ZlibRead(file) == LET z == ZlibNewReader(file) IN ReadAll(z, AdlerBytes(z.out))

-----------------------------------------------------------------------------
(* gzip *)
CrcBytes(data) == Reverse(WordBytes(ChecksumIEEE(data), 4))

GzipClose(data) ==
    <<31, 139, 8, 0, 0, 0, 0, 0, 0, 255>> \o Packed(Deflate(data))
    \o CrcBytes(data) \o Bytes(Len(data), 4)

(* The position after n bytes, and after the next zero byte; 0 when the file
   ends first.                                                               *)
SkipN(file, at, n) == IF at = 0 \/ at + n > Len(file) + 1 THEN 0 ELSE at + n
SkipCString(file, at) ==
    LET zeros == {k \in at..Len(file) : file[k] = 0}
    IN  IF at = 0 \/ zeros = {} THEN 0 ELSE Min(zeros) + 1

(* FEXTRA, FNAME, FCOMMENT and FHCRC, those the flags name, in this order. *)
SkipOptions(file) ==
    LET flg == file[4]
        extra == IF ~HasBit(flg, 2) THEN 11
                 ELSE IF SkipN(file, 11, 2) = 0 THEN 0
                 ELSE SkipN(file, 13, file[11] + 256 * file[12])
        name == IF HasBit(flg, 3) THEN SkipCString(file, extra) ELSE extra
        comment == IF HasBit(flg, 4) THEN SkipCString(file, name) ELSE name
    IN  IF HasBit(flg, 1) THEN SkipN(file, comment, 2) ELSE comment

GzipNewReader(file) ==
    IF Len(file) < 10 THEN Refused("EOF")
    ELSE IF SubSeq(file, 1, 3) # <<31, 139, 8>> THEN Refused("invalid header")
    ELSE IF SkipOptions(file) = 0 THEN Refused("EOF")
    ELSE NewWrapped(file, SkipOptions(file), 8)

GzipRead(file) == LET z == GzipNewReader(file) IN ReadAll(z, CrcBytes(z.out))
=============================================================================
