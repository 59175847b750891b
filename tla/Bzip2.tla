-------------------------------- MODULE Bzip2 --------------------------------
(* compress/bzip2: the decoder.  The input is a sequence of bits; br is the
   bit reader, whose reads give 0 once err is set; bad is ErrStructural.  Huffman codes are numbers
   of MaxLen bits, left-justified; the code keeps 32 bits of which lengths of
   at most 20 use only those.  CRCs are sequences of 32 bits.                *)
EXTENDS Integers, Sequences, SequencesExt, FiniteSetsExt

CONSTANT BlockUnit      \* bytes of a block per level, 100000 in the code

MaxLen == 20
MaxRepeat == 2^21

NewBitReader(bits) == [in |-> bits, pos |-> 1, err |-> FALSE, bad |-> FALSE]
V(v, br) == [v |-> v, br |-> br]
Structural(br) == V(<<>>, [br EXCEPT !.bad = TRUE])
Num(bits) == FoldLeft(LAMBDA acc, b : 2 * acc + b, 0, bits)

ReadRaw(br, n) ==
    IF br.err \/ br.pos + n > Len(br.in) + 1
    THEN V([i \in 1..n |-> 0], [br EXCEPT !.err = TRUE])
    ELSE V(SubSeq(br.in, br.pos, br.pos + n - 1), [br EXCEPT !.pos = @ + n])

ReadBits(br, n) == LET r == ReadRaw(br, n) IN V(Num(r.v), r.br)

-----------------------------------------------------------------------------
(* Huffman trees: a leaf is <<value>>, a node <<left, right>>; the code sees a
   1 bit as left.  Codes are given from the longest length down, and a level
   on which all codes agree is not a node.                                   *)
Invalid == <<>>

RECURSIVE BuildNode(_, _)
BuildNode(codes, level) ==
    LET set(c) == (c.code \div 2^(MaxLen - 1 - level)) % 2 = 1
        left == {c \in codes : ~set(c)}
        right == codes \ left
        Child(s) == IF Cardinality(s) = 1 THEN <<(CHOOSE c \in s : TRUE).value>>
                    ELSE BuildNode(s, level + 1)
        l == Child(left)
        r == Child(right)
    IN  IF level = MaxLen \/ Cardinality(codes) < 2 THEN Invalid
        ELSE IF left = {} \/ right = {} THEN BuildNode(codes, level + 1)
        ELSE IF l = Invalid \/ r = Invalid THEN Invalid ELSE <<l, r>>

NewHuffmanTree_TiesReversed(lengths) ==
    LET after(s) == {t \in DOMAIN lengths : \/ lengths[t] > lengths[s]
                                            \/ lengths[t] = lengths[s] /\ t < s}
        code(s) == MapThenSumSet(LAMBDA t : 2^(MaxLen - lengths[t]), after(s)) % 2^MaxLen
    IN  BuildNode({[code |-> code(s), value |-> s - 1] : s \in DOMAIN lengths}, 0)

(* lengths[s + 1] is the code length of symbol s. *)
NewHuffmanTree(lengths) ==
    LET after(s) == {t \in DOMAIN lengths : \/ lengths[t] > lengths[s]
                                            \/ lengths[t] = lengths[s] /\ t > s}
        weight(S) == MapThenSumSet(LAMBDA t : 2^(MaxLen - lengths[t]), S)
        code(s) == weight(after(s)) % 2^MaxLen
    IN  IF Len(lengths) < 2 THEN Invalid
        ELSE BuildNode({[code |-> code(s), value |-> s - 1] : s \in DOMAIN lengths}, 0)

RECURSIVE Decode(_, _)
Decode(tree, br) ==
    LET bit == ReadBits(br, 1)
        next == IF bit.v = 1 THEN tree[1] ELSE tree[2]
    IN  IF Len(next) = 1 THEN V(next[1], bit.br) ELSE Decode(next, bit.br)

(* Move to front. *)
ToFront(list, n) == <<list[n + 1]>> \o SubSeq(list, 1, n) \o SubSeq(list, n + 2, Len(list))

-----------------------------------------------------------------------------
(* The CRC, bit by bit from the top. *)
Poly == <<0,0,0,0, 0,1,0,0, 1,1,0,0, 0,0,0,1, 0,0,0,1, 1,1,0,1, 1,0,1,1, 0,1,1,1>>
Xor(a, b) == [i \in DOMAIN a |-> (a[i] + b[i]) % 2]
Not(a) == [i \in DOMAIN a |-> 1 - a[i]]
ByteBits(b) == [i \in 1..8 |-> (b \div 2^(8 - i)) % 2]

CrcBit(crc, bit) ==
    LET shifted == Append(Tail(crc), 0)
    IN  IF crc[1] = bit THEN shifted ELSE Xor(shifted, Poly)

NoCRC == [i \in 1..32 |-> 0]
UpdateCRC(val, bytes) ==
    Not(FoldLeft(CrcBit, Not(val), FlattenSeq([i \in DOMAIN bytes |-> ByteBits(bytes[i])])))

FoldCRC(file, block) == Xor(Append(Tail(file), file[1]), block)

(* The inverse Burrows-Wheeler transform: position i of the block goes to the
   place its byte has in the sorted block; following those places from
   origPtr, counted from 0, gives the bytes in order.                        *)
InverseBWT(block, origPtr) ==
    LET place(i) == Cardinality({j \in DOMAIN block : \/ block[j] < block[i]
                                                      \/ block[j] = block[i] /\ j <= i})
        source == [p \in DOMAIN block |-> CHOOSE i \in DOMAIN block : place(i) = p]
        at[k \in DOMAIN block] == IF k = 1 THEN source[origPtr + 1] ELSE source[at[k - 1]]
    IN  [k \in DOMAIN block |-> block[at[k]]]

(* Four equal bytes are followed by the number of further copies. *)
RECURSIVE DecodeRLE1(_, _)
DecodeRLE1(data, i) ==
    LET run == CHOOSE r \in 1..4 : /\ i + r - 1 <= Len(data)
                                   /\ \A k \in 0..(r - 1) : data[i + k] = data[i]
                                   /\ r = 4 \/ i + r > Len(data) \/ data[i + r] # data[i]
        counted == run = 4 /\ i + 4 <= Len(data)
        copies == IF counted THEN 4 + data[i + 4] ELSE run
    IN  IF i > Len(data) THEN <<>>
        ELSE [k \in 1..copies |-> data[i]]
             \o DecodeRLE1(data, IF counted THEN i + 5 ELSE i + run)

-----------------------------------------------------------------------------
(* A block's header: the bytes it uses, the selectors and the trees. *)
ReadUsed(br) ==
    LET ranges == ReadRaw(br, 16)
        Read(st, range) ==
          LET r == ReadRaw(st.br, 16)
          IN  IF ranges.v[range] = 0 THEN st
              ELSE V(st.v \o SelectSeq([i \in 1..16 |-> 16 * (range - 1) + i - 1],
                                       LAMBDA s : r.v[(s % 16) + 1] = 1), r.br)
    IN  FoldLeft(Read, V(<<>>, ranges.br), [i \in 1..16 |-> i])

RECURSIVE Unary(_, _), ReadSelectors(_, _, _, _), ReadLength(_, _), ReadLengths(_, _, _, _),
          ReadTrees(_, _, _, _)
Unary(br, c) == LET b == ReadBits(br, 1) IN IF b.v = 0 THEN V(c, b.br) ELSE Unary(b.br, c + 1)

(* n selectors, each the place of its tree in the list, moved to the front. *)
ReadSelectors(br, n, list, sel) ==
    LET c == Unary(br, 0)
        next == ToFront(list, c.v)
    IN  IF Len(sel) = n THEN V(sel, br)
        ELSE IF c.v >= Len(list) THEN Structural(c.br)
        ELSE ReadSelectors(c.br, n, next, Append(sel, next[1]))

(* A code length: the last one, stepped up or down until a 0 bit. *)
ReadLength(br, length) ==
    LET more == ReadBits(br, 1)
        down == ReadBits(more.br, 1)
    IN  IF length \notin 1..MaxLen THEN Structural(br)
        ELSE IF more.v = 0 THEN V(length, more.br)
        ELSE ReadLength(down.br, IF down.v = 1 THEN length - 1 ELSE length + 1)

ReadLengths(br, n, length, lens) ==
    LET l == ReadLength(br, length)
    IN  IF Len(lens) = n THEN V(lens, br)
        ELSE IF l.br.bad THEN l
        ELSE ReadLengths(l.br, n, l.v, Append(lens, l.v))

ReadTrees(br, n, symbols, trees) ==
    LET base == ReadBits(br, 5)
        lens == ReadLengths(base.br, symbols, base.v, <<>>)
        tree == NewHuffmanTree(lens.v)
    IN  IF Len(trees) = n THEN V(trees, br)
        ELSE IF lens.br.bad THEN lens
        ELSE IF tree = Invalid THEN Structural(lens.br)
        ELSE ReadTrees(lens.br, n, symbols, Append(trees, tree))

(* The symbols of a block: 0 and 1 count repetitions of the front of the
   list, in bijective base 2; the last symbol ends the block.  Every 50
   symbols the next selector picks the tree.                                 *)
RECURSIVE ReadSymbols(_, _, _, _, _)
ReadSymbols(st, trees, sel, end, blockSize) ==
    LET switch == st.decoded = 50
        i == IF switch THEN st.sel + 1 ELSE st.sel
        sym == Decode(trees[sel[i] + 1], st.br)
        power == IF st.repeat = 0 THEN 1 ELSE st.power
        repeat == st.repeat + power * 2^sym.v
        run == [k \in 1..st.repeat |-> st.list[1]]
        list == ToFront(st.list, sym.v - 1)
        base == [st EXCEPT !.br = sym.br, !.sel = i,
                           !.decoded = IF switch THEN 1 ELSE @ + 1]
    IN  IF switch /\ i > Len(sel) THEN Structural(st.br)
        ELSE IF sym.v < 2
        THEN (IF repeat > MaxRepeat THEN Structural(sym.br)
              ELSE ReadSymbols([base EXCEPT !.repeat = repeat, !.power = 2 * power],
                               trees, sel, end, blockSize))
        ELSE IF st.repeat > blockSize - Len(st.tt) THEN Structural(sym.br)
        ELSE IF sym.v = end THEN V(st.tt \o run, sym.br)
        ELSE IF Len(st.tt) + st.repeat >= blockSize THEN Structural(sym.br)
        ELSE ReadSymbols([base EXCEPT !.repeat = 0, !.list = list,
                                      !.tt = Append(@ \o run, list[1])],
                         trees, sel, end, blockSize)

NewSymbols(br, used) ==
    [br |-> br, tt |-> <<>>, list |-> used, repeat |-> 0, power |-> 0, decoded |-> 0, sel |-> 1]

(* One block, and its CRC: what comes before the symbols, then the data. *)
BlockData(tt, origPtr, crc, br) ==
    LET out == DecodeRLE1(InverseBWT(tt, origPtr), 1)
    IN  IF origPtr >= Len(tt) \/ UpdateCRC(NoCRC, out) # crc THEN Structural(br) ELSE V(out, br)

ReadBlock(br, blockSize) ==
    LET crc == ReadRaw(br, 32)
        randomized == ReadBits(crc.br, 1)
        origPtr == ReadBits(randomized.br, 24)
        used == ReadUsed(origPtr.br)
        nTrees == ReadBits(used.br, 3)
        nSel == ReadBits(nTrees.br, 15)
        sel == ReadSelectors(nSel.br, nSel.v, [i \in 1..nTrees.v |-> i - 1], <<>>)
        trees == ReadTrees(sel.br, nTrees.v, Len(used.v) + 2, <<>>)
        tt == ReadSymbols(NewSymbols(trees.br, used.v), trees.v, sel.v, Len(used.v) + 1, blockSize)
    IN  IF randomized.v = 1 \/ used.v = <<>> \/ nTrees.v \notin 2..6 THEN Structural(nSel.br)
        ELSE IF sel.br.bad THEN sel
        ELSE IF trees.br.bad THEN trees
        ELSE IF sel.v = <<>> THEN Structural(sel.br)
        ELSE IF tt.br.bad THEN tt
        ELSE BlockData(tt.v, origPtr.v, crc.v, tt.br)

(* The stream: blocks until the final magic, whose CRC covers all of them. *)
Bits48(b) == FlattenSeq([i \in DOMAIN b |-> ByteBits(b[i])])
BlockMagic == Bits48(<<49, 65, 89, 38, 83, 89>>)
FinalMagic == Bits48(<<23, 114, 69, 56, 80, 144>>)

RECURSIVE ReadBlocks(_, _, _, _)
ReadBlocks(br, blockSize, out, crc) ==
    LET magic == ReadRaw(br, 48)
        want == ReadRaw(magic.br, 32)
        block == ReadBlock(magic.br, blockSize)
    IN  IF magic.br.err THEN Structural(magic.br)
        ELSE IF magic.v = FinalMagic
        THEN (IF want.br.err \/ want.v # crc THEN Structural(want.br) ELSE V(out, want.br))
        ELSE IF magic.v # BlockMagic \/ block.br.bad THEN Structural(magic.br)
        ELSE ReadBlocks(block.br, blockSize, out \o block.v, FoldCRC(crc, want.v))

DecodeAll(bits) ==
    LET head == ReadBits(NewBitReader(bits), 24)
        level == ReadBits(head.br, 8)
    IN  IF head.v # 256 * (256 * 66 + 90) + 104 \/ level.v \notin 49..57
        THEN Structural(level.br)
        ELSE ReadBlocks(level.br, BlockUnit * (level.v - 48), <<>>, NoCRC)
=============================================================================
