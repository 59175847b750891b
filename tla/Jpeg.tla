-------------------------------- MODULE Jpeg --------------------------------
(* image/jpeg: the baseline decoder.  A decoder d is the record the code keeps
   (planes, tables, frame), with the input `in`, the read position `pos` and
   the error `err` ("" while there is none).  `bits` holds the bits that were
   loaded into the accumulator and are not consumed yet.  A reading operation
   returns the value v and the decoder d after it; once err is set nothing is
   read any more.                                                            *)
EXTENDS Integers, Sequences, SequencesExt, FiniteSets, Functions, TLC

BlockSize == 64
Unzig == <<0, 1, 8, 16, 9, 2, 3, 10, 17, 24, 32, 25, 18, 11, 4, 5,
           12, 19, 26, 33, 40, 48, 41, 34, 27, 20, 13, 6, 7, 14, 21, 28,
           35, 42, 49, 56, 57, 50, 43, 36, 29, 22, 15, 23, 30, 37, 44, 51,
           58, 59, 52, 45, 38, 31, 39, 46, 53, 60, 61, 54, 47, 55, 62, 63>>

Zeros == [i \in 0..(BlockSize - 1) |-> 0]
NoTable == [nCodes |-> 0]

NewDecoder(in) ==
    [in |-> in, pos |-> 1, err |-> "", done |-> FALSE, bits |-> <<>>,
     width |-> 0, height |-> 0, nComp |-> 0, ri |-> 0, comp |-> <<>>,
     huff |-> [t \in {0, 1} \X {0, 1} |-> NoTable], quant |-> [q \in 0..3 |-> Zeros],
     plane |-> <<>>, planeStride |-> <<>>]

Failed(d) == d.err # ""
Fail(d, e) == IF Failed(d) THEN d ELSE [d EXCEPT !.err = e]
V(v, d) == [v |-> v, d |-> d]

-----------------------------------------------------------------------------
(* Bytes.  ReadFull reads n bytes or runs into the end of the input. *)
ReadFull(d, n) ==
    IF Failed(d) THEN V(<<>>, d)
    ELSE IF d.pos + n > Len(d.in) + 1 THEN V(<<>>, Fail(d, "EOF"))
    ELSE V(SubSeq(d.in, d.pos, d.pos + n - 1), [d EXCEPT !.pos = @ + n])

Ignore(d, n) == ReadFull(d, n).d
Word(hi, lo) == 256 * hi + lo

(* A stuffed 0xff 0x00 is one byte; 0xff before anything else is a marker,
   which stays in the input.                                                 *)
ReadByteStuffed(d) ==
    LET one == ReadFull(d, 1)
        two == ReadFull(d, 2)
    IN  IF Failed(one.d) \/ one.v # <<255>> THEN one
        ELSE IF Failed(two.d) THEN two
        ELSE IF two.v[2] = 0 THEN V(<<255>>, two.d)
        ELSE V(<<>>, Fail(d, "end of entropy data"))

(* Bits, the most significant first. *)
ByteBits(b) == [i \in 1..8 |-> (b \div 2^(8 - i)) % 2]
Value(bits) == FoldLeft(LAMBDA acc, b : 2 * acc + b, 0, bits)

RECURSIVE EnsureBits(_, _), DecodeFrom(_, _, _, _)
EnsureBits(d, n) ==
    LET r == ReadByteStuffed(d)
    IN  IF Failed(d) \/ Len(d.bits) >= n THEN d
        ELSE IF Failed(r.d) THEN r.d
        ELSE EnsureBits([r.d EXCEPT !.bits = @ \o ByteBits(r.v[1])], n)

DecodeBits(d, n) ==
    LET e == EnsureBits(d, n)
    IN  IF Failed(e) THEN V(0, e)
        ELSE V(Value(SubSeq(e.bits, 1, n)), [e EXCEPT !.bits = SubSeq(@, n + 1, Len(@))])

(* RECEIVE and EXTEND: the lower half of the t-bit values is negative. *)
ReceiveExtend(d, t) ==
    LET r == DecodeBits(d, t)
    IN  IF t = 0 THEN V(0, d)
        ELSE V(IF r.v < 2^(t - 1) THEN r.v - 2^t + 1 ELSE r.v, r.d)

-----------------------------------------------------------------------------
(* Huffman tables: per code length the first and last code and where its
   values start, -1 for a length without codes.                              *)
HuffmanTable(counts, vals) ==
    LET Upto[i \in 0..16] == IF i = 0 THEN 0 ELSE Upto[i - 1] + counts[i]
        First[i \in 1..16] == IF i = 1 THEN 0 ELSE 2 * (First[i - 1] + counts[i - 1])
        OrNone(i, x) == IF counts[i] = 0 THEN -1 ELSE x
    IN  [nCodes |-> Upto[16], vals |-> vals,
         minCodes |-> [i \in 1..16 |-> OrNone(i, First[i])],
         maxCodes |-> [i \in 1..16 |-> OrNone(i, First[i] + counts[i] - 1)],
         valsIndices |-> [i \in 1..16 |-> OrNone(i, Upto[i - 1])]]

(* Bit by bit, the code grows until a length has it. *)
DecodeFrom(d, h, code, i) ==
    LET r == DecodeBits(d, 1)
        c == code + r.v
    IN  IF i > 16 THEN V(0, Fail(d, "bad Huffman code"))
        ELSE IF Failed(r.d) THEN r
        ELSE IF h.maxCodes[i] >= 0 /\ c <= h.maxCodes[i]
        THEN V(h.vals[h.valsIndices[i] + c - h.minCodes[i] + 1], r.d)
        ELSE DecodeFrom(r.d, h, 2 * c, i + 1)

DecodeHuffman(d, h) ==
    IF h.nCodes = 0 THEN V(0, Fail(d, "uninitialized Huffman table"))
    ELSE DecodeFrom(d, h, 0, 1)

RECURSIVE ProcessDHT(_, _), ProcessDQT(_, _)
ProcessDHT(d, n) ==
    LET head == ReadFull(d, 17)
        tc == head.v[1] \div 16
        th == head.v[1] % 16
        counts == Tail(head.v)
        total == FoldLeft(+, 0, counts)
        body == ReadFull(head.d, total)
    IN  IF Failed(d) \/ n <= 0 THEN d
        ELSE IF n < 17 THEN Fail(d, "DHT has wrong length")
        ELSE IF Failed(head.d) THEN head.d
        ELSE IF tc > 1 \/ th > 1 THEN Fail(d, "bad Tc or Th value")
        ELSE IF total \notin 1..256 \/ n - total - 17 < 0 THEN Fail(d, "DHT length")
        ELSE IF Failed(body.d) THEN body.d
        ELSE ProcessDHT([body.d EXCEPT !.huff[<<tc, th>>] = HuffmanTable(counts, body.v)],
                        n - total - 17)

(* Quantization tables, in zigzag order.  A header byte that ends the segment
   leaves the loop with n = 0, which is no error, and sets no table.         *)
ProcessDQT(d, n) ==
    LET head == ReadFull(d, 1)
        tq == head.v[1] % 16
        wide == head.v[1] \div 16 = 1
        size == IF wide THEN 2 * BlockSize ELSE BlockSize
        body == ReadFull(head.d, size)
        table == [i \in 0..(BlockSize - 1) |->
                    IF wide THEN Word(body.v[2 * i + 1], body.v[2 * i + 2]) ELSE body.v[i + 1]]
    IN  IF Failed(d) \/ n <= 0 THEN d
        ELSE IF Failed(head.d) THEN head.d
        ELSE IF tq > 3 \/ head.v[1] \div 16 > 1 THEN Fail(d, "bad Tq or Pq value")
        ELSE IF n - 1 < size
        THEN (IF n = 1 THEN head.d ELSE Fail(head.d, "DQT has wrong length"))
        ELSE IF Failed(body.d) THEN body.d
        ELSE ProcessDQT([body.d EXCEPT !.quant[tq] = table], n - 1 - size)

-----------------------------------------------------------------------------
(* The frame. *)
Component(b) == [c |-> b[1], h |-> b[2] \div 16, v |-> b[2] % 16, tq |-> b[3]]

FrameOK(cs) ==
    /\ \A i \in DOMAIN cs : {cs[i].h, cs[i].v} \subseteq {1, 2, 4} /\ cs[i].tq <= 3
    /\ \A i, j \in DOMAIN cs : cs[i].c = cs[j].c => i = j
    /\ Len(cs) = 3 => /\ cs[1].v # 4
                      /\ cs[1].h % cs[2].h = 0 /\ cs[1].v % cs[2].v = 0
                      /\ cs[3].h = cs[2].h /\ cs[3].v = cs[2].v

ProcessSOF(d, n) ==
    LET r == ReadFull(d, n)
        b == r.v
        nComp == (n - 6) \div 3
        cs == [i \in 1..nComp |-> Component(SubSeq(b, 4 + 3 * i, 6 + 3 * i))]
    IN  IF d.nComp # 0 THEN Fail(d, "multiple SOF markers")
        ELSE IF n \notin {9, 15} THEN Fail(d, "number of components")
        ELSE IF Failed(r.d) THEN r.d
        ELSE IF b[1] # 8 \/ b[6] # nComp \/ ~FrameOK(cs) THEN Fail(d, "frame")
        ELSE [r.d EXCEPT !.height = Word(b[2], b[3]), !.width = Word(b[4], b[5]),
                         !.nComp = nComp,
                         !.comp = IF nComp = 1 THEN <<[cs[1] EXCEPT !.h = 1, !.v = 1]>> ELSE cs]

ProcessDRI(d, n) ==
    LET r == ReadFull(d, 2)
    IN  IF n # 2 THEN Fail(d, "DRI has wrong length")
        ELSE IF Failed(r.d) THEN r.d ELSE [r.d EXCEPT !.ri = Word(r.v[1], r.v[2])]

(* Minimum coded units across and down. *)
Ceil(a, b) == (a + b - 1) \div b
Mxx(d) == Ceil(d.width, 8 * d.comp[1].h)
Myy(d) == Ceil(d.height, 8 * d.comp[1].v)

AllocPlanes(d) ==
    LET size(i) == 64 * d.comp[i].h * d.comp[i].v * Mxx(d) * Myy(d)
    IN  [d EXCEPT !.plane = [i \in 1..d.nComp |-> [p \in 0..(size(i) - 1) |-> 0]],
                  !.planeStride = [i \in 1..d.nComp |-> 8 * d.comp[i].h * Mxx(d)]]

-----------------------------------------------------------------------------
(* The inverse DCT on 32-bit integers; a block is a function of 0..63.  The
   constants are dctC's scaled cosines.                                      *)
Box(x0, x1, kcos, ksin) ==
    <<kcos * (x0 + x1) + (ksin - kcos) * x1, kcos * (x0 + x1) - (kcos + ksin) * x0>>

(* The butterfly both passes end with. *)
Butterfly(x0, x1, x2, x3, x4, x5, x6, x7) ==
    LET p == Box(x4, x7, 3406, -2276)
        q == Box(x5, x6, 4017, -799)
    IN  <<x0 + p[2], x1 + q[2], x2 + q[1], x3 + p[1], x3 - p[1], x2 - q[1], x1 - q[2], x0 - p[2]>>

(* One row of eight coefficients. *)
IdctRow(r) ==
    LET a0 == (r[1] + r[5]) * 2^17
        a1 == (r[1] - r[5]) * 2^17
        c == Box(r[3], r[7], 70936, -171254)
        x7 == (r[2] + r[8]) * 2^7
        x4 == (r[2] - r[8]) * 2^7
        x6 == r[6] * 181
        x5 == r[4] * 181
    IN  Butterfly(a0 + c[2], a1 + c[1], a1 - c[1], a0 - c[2],
                  (x4 + x6) \div 4, (x7 - x5) \div 4, (x4 - x6) \div 4,
                  (x7 + x5) \div 4)

(* One column of what the rows left, down to pixel differences. *)
IdctCol(r) ==
    LET a0 == (r[1] + 2^19 + r[5]) \div 4
        a1 == (r[1] + 2^19 - r[5]) \div 4
        c == Box(r[3] \div 2^13, r[7] \div 2^13, 1108, -2676)
        x7 == r[2] + r[8]
        x4 == r[2] - r[8]
        x5 == (r[4] \div 2^13) * 11585
        x6 == (r[6] \div 2^13) * 11585
        out == Butterfly(a0 + c[2], a1 + c[1], a1 - c[1], a0 - c[2],
                         (x4 + x6) \div 2^14, (x7 - x5) \div 2^14, (x4 - x6) \div 2^14,
                         (x7 + x5) \div 2^14)
    IN  [i \in 1..8 |-> out[i] \div 2^18]

Idct(b) ==
    LET rows == [y \in 0..7 |-> IdctRow([i \in 1..8 |-> b[8 * y + i - 1]])]
        cols == [x \in 0..7 |-> IdctCol([i \in 1..8 |-> rows[i - 1][x + 1]])]
    IN  [p \in 0..(BlockSize - 1) |-> cols[p % 8][p \div 8 + 1]]

-----------------------------------------------------------------------------
(* The scan.  A slot is one block to decode: the component in the order of
   the scan, and the block's column and row in that component's plane.        *)
Slots(d, sel, mx, my) ==
    FlattenSeq([ci \in DOMAIN sel |->
        LET k == d.comp[sel[ci].k]
        IN  [j \in 1..(k.h * k.v) |-> [s |-> sel[ci], bx |-> k.h * mx + ((j - 1) % k.h),
                                                    by |-> k.v * my + (j - 1) \div k.h]]])

(* Where a slot's pixel (x, y) lies in its plane. *)
PixelAt(stride, bx, by, x, y) == 8 * (by * stride + bx) + y * stride + x
Clamp(c) == IF c < -128 THEN 0 ELSE IF c > 127 THEN 255 ELSE c + 128

ReconstructBlock(d, b, slot) ==
    LET k == slot.s.k
        qt == d.quant[d.comp[k].tq]
        scaled == [i \in DOMAIN b |-> LET zig == CHOOSE z \in 1..64 : Unzig[z] = i
                                      IN b[i] * qt[zig - 1]]
        out == Idct(scaled)
        at(p) == PixelAt(d.planeStride[k], slot.bx, slot.by, p % 8, p \div 8)
        written == {at(p) : p \in DOMAIN b}
        back == [q \in written |-> CHOOSE p \in DOMAIN b : at(p) = q]
    IN  [d EXCEPT !.plane[k] = [q \in DOMAIN @ |-> IF q \in written THEN Clamp(out[back[q]])
                                                                 ELSE @[q]]]

(* The AC coefficients from zig on: runs of zeros and values, until the end of
   the block; a run that leaves the block ends it without an error.          *)
RECURSIVE ReadAC(_, _, _, _)
ReadAC(d, h, b, zig) ==
    LET sym == DecodeHuffman(d, h)
        run == sym.v \div 16
        ext == ReceiveExtend(sym.d, sym.v % 16)
    IN  IF Failed(d) \/ zig > 63 THEN V(b, d)
        ELSE IF Failed(sym.d) THEN V(b, sym.d)
        ELSE IF sym.v % 16 = 0
        THEN (IF run = 15 THEN ReadAC(sym.d, h, b, zig + 16) ELSE V(b, sym.d))
        ELSE IF zig + run > 63 THEN V(b, sym.d)
        ELSE ReadAC(ext.d, h, [b EXCEPT ![Unzig[zig + run + 1]] = ext.v], zig + run + 1)

(* One block: a DC difference against the component's last DC, then the ACs. *)
DecodeBlock(st, slot) ==
    LET size == DecodeHuffman(st.d, st.d.huff[<<0, slot.s.td>>])
        diff == ReceiveExtend(size.d, size.v)
        k == slot.s.k
        dc == st.dc[k] + diff.v
        block == ReadAC(diff.d, diff.d.huff[<<1, slot.s.ta>>], [Zeros EXCEPT ![0] = dc], 1)
    IN  IF Failed(size.d) THEN [st EXCEPT !.d = size.d]
        ELSE IF size.v > 16 THEN [st EXCEPT !.d = Fail(size.d, "excessive DC component")]
        ELSE IF Failed(block.d) THEN [st EXCEPT !.d = block.d]
        ELSE [st EXCEPT !.d = ReconstructBlock(block.d, block.v, slot), !.dc[k] = dc]

NoDC == <<0, 0, 0>>

Restart_KeepsDC(st, mcu) ==
    LET r == ReadFull(st.d, 2)
    IN  IF st.d.ri = 0 \/ mcu % st.d.ri # 0 \/ mcu = Mxx(st.d) * Myy(st.d) THEN st
        ELSE IF Failed(r.d) THEN [st EXCEPT !.d = r.d]
        ELSE [d |-> [r.d EXCEPT !.bits = <<>>], dc |-> st.dc,
              rst |-> IF st.rst = 215 THEN 208 ELSE st.rst + 1]

(* Between two units, every ri units, the expected restart marker is read:
   it drops the remaining bits and the DC predictions.                       *)
Restart(st, mcu) ==
    LET r == ReadFull(st.d, 2)
    IN  IF st.d.ri = 0 \/ mcu % st.d.ri # 0 \/ mcu = Mxx(st.d) * Myy(st.d) THEN st
        ELSE IF Failed(r.d) THEN [st EXCEPT !.d = r.d]
        ELSE IF r.v # <<255, st.rst>> THEN [st EXCEPT !.d = Fail(r.d, "missing restart marker")]
        ELSE [d |-> [r.d EXCEPT !.bits = <<>>], dc |-> NoDC,
              rst |-> IF st.rst = 215 THEN 208 ELSE st.rst + 1]

DecodeMCU(st, sel, mcu) ==
    LET mxx == Mxx(st.d)
        after == FoldLeft(DecodeBlock, st, Slots(st.d, sel, (mcu - 1) % mxx,
                                                (mcu - 1) \div mxx))
    IN  IF Failed(st.d) THEN st ELSE IF Failed(after.d) THEN after ELSE Restart(after, mcu)

ProcessSOS(d, n) ==
    LET r == ReadFull(d, n)
        b == r.v
        \* The last component with the selector; 0 if there is none.
        named(c) == {k \in 1..d.nComp : d.comp[k].c = c}
        sel == [i \in 1..d.nComp |->
                  [k |-> IF named(b[2 * i]) = {} THEN 0
                         ELSE CHOOSE k \in named(b[2 * i]) : \A j \in named(b[2 * i]) : j <= k,
                   td |-> b[2 * i + 1] \div 16, ta |-> b[2 * i + 1] % 16]]
        ready == IF d.plane = <<>> THEN AllocPlanes(r.d) ELSE r.d
        start == [d |-> [ready EXCEPT !.bits = <<>>], dc |-> NoDC, rst |-> 208]
        mcus == [m \in 1..(Mxx(d) * Myy(d)) |-> m]
    IN  IF d.nComp = 0 THEN Fail(d, "missing SOF marker")
        ELSE IF n # 4 + 2 * d.nComp THEN Fail(d, "SOS has wrong length")
        ELSE IF Failed(r.d) THEN r.d
        ELSE IF b[1] # d.nComp THEN Fail(d, "scan does not cover all components")
        ELSE IF \E i \in DOMAIN sel : sel[i].k = 0 \/ sel[i].td > 1 \/ sel[i].ta > 1
        THEN Fail(d, "selector")
        ELSE FoldLeft(LAMBDA st, m : DecodeMCU(st, sel, m), start, mcus).d

-----------------------------------------------------------------------------
(* Pixels. *)
Within(c) == IF c < 0 THEN 0 ELSE IF c > 255 THEN 255 ELSE c

YcbcrToRGB(y, cb, cr) ==
    LET yy == y * 65793
    IN  <<Within((yy + 91881 * (cr - 128)) \div 2^16),
          Within((yy - 22554 * (cb - 128) - 46802 * (cr - 128)) \div 2^16),
          Within((yy + 116130 * (cb - 128)) \div 2^16)>>

(* The plane positions the pixel (x, y) is made of. *)
Samples(d, x, y) ==
    [k \in 1..d.nComp |->
        IF k = 1 THEN y * d.planeStride[1] + x
        ELSE (y \div (d.comp[1].v \div d.comp[2].v)) * d.planeStride[2]
             + x \div (d.comp[1].h \div d.comp[2].h)]

AssembleRGBA(d) ==
    [x \in 0..(d.width - 1), y \in 0..(d.height - 1) |->
        LET s == [k \in 1..d.nComp |-> d.plane[k][Samples(d, x, y)[k]]]
        IN  IF d.nComp = 1 THEN <<s[1], s[1], s[1]>> ELSE YcbcrToRGB(s[1], s[2], s[3])]

-----------------------------------------------------------------------------
(* One marker of the file and the segment it opens.  Fill bytes before a
   marker, a zero and stray restart markers are passed over.                 *)
Past255(in, i) == CHOOSE j \in i..(Len(in) + 1) :
                    /\ j > Len(in) \/ in[j] # 255
                    /\ \A m \in i..(j - 1) : in[m] = 255

ProcessSegment(d, marker, n) ==
    CASE marker = 192 -> ProcessSOF(d, n)
      [] marker = 196 -> ProcessDHT(d, n)
      [] marker = 219 -> ProcessDQT(d, n)
      [] marker = 218 -> ProcessSOS(d, n)
      [] marker = 221 -> ProcessDRI(d, n)
      [] marker = 254 \/ marker \in 224..239 -> Ignore(d, n)
      [] OTHER -> Fail(d, "unsupported marker")

Finish(d) ==
    IF d.nComp = 0 THEN Fail(d, "missing SOF marker")
    ELSE IF d.plane = <<>> THEN Fail(d, "missing SOS marker") ELSE [d EXCEPT !.done = TRUE]

NextMarker(d) ==
    LET head == ReadFull(d, 2)
        at == Past255(d.in, d.pos + 1)
        marker == ReadFull([d EXCEPT !.pos = at], 1)
        size == ReadFull(marker.d, 2)
        n == Word(size.v[1], size.v[2]) - 2
    IN  IF Failed(head.d) THEN head.d
        ELSE IF head.v[1] # 255 THEN Fail(head.d, "expected marker")
        ELSE IF Failed(marker.d) THEN marker.d
        ELSE IF marker.v[1] \in {0} \cup 208..215 THEN marker.d
        ELSE IF marker.v[1] = 217 THEN Finish(marker.d)
        ELSE IF Failed(size.d) THEN size.d
        ELSE IF n < 0 THEN Fail(size.d, "short segment length")
        ELSE ProcessSegment(size.d, marker.v[1], n)

(* Decode, after the first two bytes: markers until the end of the image. *)
ReadSOI(d) ==
    LET r == ReadFull(d, 2)
    IN  IF Failed(r.d) THEN r.d
        ELSE IF r.v # <<255, 216>> THEN Fail(r.d, "missing SOI marker") ELSE r.d

RECURSIVE Markers(_)
Markers(d) == IF Failed(d) \/ d.done THEN d ELSE Markers(NextMarker(d))
Decode(in) == Markers(ReadSOI(NewDecoder(in)))
=============================================================================
