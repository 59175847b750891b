------------------------------- MODULE MCLibrary -------------------------------
(* The pure packages of the standard library, checked against what defines
   them: a reference algorithm, an inverse, or the law the package documents.

   A behaviour picks a unit and then extends a word, one symbol at a time, so
   that TLC reaches every input up to the unit's bound.  What a word stands for
   is the unit's: the bytes of a file, the lengths of a Huffman code, the sizes
   of successive writes, the fragments of a program.

   A law is an operator of the unit and the word, and the property says that it
   holds of what every step leads to.  (As an invariant it says the same; but
   when TLC counts how often each expression is evaluated it unfolds the calls
   below an invariant, which for a recursive-descent parser has no end.)     *)
EXTENDS Integers, Sequences, SequencesExt, FiniteSetsExt, Functions

VARIABLES unit, word
vars == <<unit, word>>

KeyLess(a, b) == a[1] < b[1]

Lz == INSTANCE Lzw WITH MaxWidth <- 4
Bz == INSTANCE Bzip2 WITH BlockUnit <- 100
Jp == INSTANCE Jpeg
Fl == INSTANCE Png WITH Window <- 5, Candidates <- 2     \* and Flate, Hashes
Im == INSTANCE Images
Nu == INSTANCE Numbers WITH LimbDigits <- 1, IntBits <- 6, MantissaBits <- 4
Sr == INSTANCE Sorting WITH Less <- KeyLess
St == INSTANCE Strings
Pa == INSTANCE Paths                                     \* and net/url
Re == INSTANCE Regexp
Rs == INSTANCE RegexpSyntax WITH TopByte <- 255
En == INSTANCE Encodings WITH Decimals <- 2
Sc == INSTANCE TextScanner WITH Wide <- {"é"}
Same(s) == s
Tx == INSTANCE Template WITH Escape <- Same
EscapedHtml(s) == Tx!EscapeString(s)
Ht == INSTANCE Template WITH Escape <- EscapedHtml
Go == INSTANCE GoTypes                                   \* and scanner, parser, printer

BitsOf(n, w) == [i \in 1..w |-> (n \div 2^(w - i)) % 2] \o <<>>
Times(n, x) == [i \in 1..n |-> x] \o <<>>

-----------------------------------------------------------------------------
(* Huffman codes.  The word is a list of code lengths, 0 for a symbol without
   a code.  Codes of one length are consecutive in the order of the symbols,
   and a shorter code is never the start of a longer one.                    *)
Before(lengths, s) ==
    {t \in DOMAIN lengths : lengths[t] # 0 /\ \/ lengths[t] < lengths[s]
                                              \/ lengths[t] = lengths[s] /\ t < s}
CanonicalCode(lengths, s) ==
    BitsOf(MapThenSumSet(LAMBDA t : 2^(lengths[s] - lengths[t]), Before(lengths, s)), lengths[s])
Coded(lengths) == {s \in DOMAIN lengths : lengths[s] # 0}
Complete(lengths) == MapThenSumSet(LAMBDA s : 2^(8 - lengths[s]), Coded(lengths)) = 2^8

(* A text with every symbol, the first one twice. *)
Message(lengths) == LET all == SelectSeq([i \in DOMAIN lengths |-> i], LAMBDA i : lengths[i] # 0)
                    IN  Append(all, all[1])
MessageBits(lengths) ==
    FlattenSeq([k \in DOMAIN Message(lengths) |-> CanonicalCode(lengths, Message(lengths)[k])])

FlateMessage(lengths) ==
    LET tree == Fl!Decoding(Fl!BuildHuffman(lengths))
        Read(st, k) == LET r == Fl!ReadSymbol(st.r, tree) IN [r |-> r.r, out |-> Append(st.out, r.v + 1)]
    IN  FoldLeft(Read, [r |-> Fl!NewReader(MessageBits(lengths)), out |-> <<>>], Message(lengths)).out

JpegTable(lengths) ==
    LET ofLength(l) == SelectSeq([i \in DOMAIN lengths |-> i], LAMBDA i : lengths[i] = l)
    IN  Jp!HuffmanTable([l \in 1..16 |-> Len(ofLength(l))], FlattenSeq([l \in 1..4 |-> ofLength(l)]))
JpegMessage(lengths) ==
    LET table == JpegTable(lengths)
        d == [Jp!NewDecoder(<<>>) EXCEPT !.bits = MessageBits(lengths)]
        Read(st, k) == LET r == Jp!DecodeHuffman(st.d, table) IN [d |-> r.d, out |-> Append(st.out, r.v)]
    IN  FoldLeft(Read, [d |-> d, out |-> <<>>], Message(lengths)).out

Bzip2Message(lengths) ==
    LET tree == Bz!NewHuffmanTree(lengths)
        Read(st, k) == LET r == Bz!Decode(tree, st.br)
                       IN  [br |-> r.br, out |-> Append(st.out, r.v + 1)]
    IN  FoldLeft(Read, [br |-> Bz!NewBitReader(MessageBits(lengths)), out |-> <<>>],
                 Message(lengths)).out

(* The three decoders build their tables in three ways (flate from counts of
   lengths, jpeg from ranges per length, bzip2 by splitting the sorted codes
   bit by bit); each decodes a text written in the canonical code of the
   lengths back to that text.                                                *)
Huffman(u, w) ==
    u = "huffman" /\ Cardinality(Coded(w)) > 1 /\ Complete(w) =>
        /\ FlateMessage(w) = Message(w)
        /\ JpegMessage(w) = Message(w)
        /\ Coded(w) = DOMAIN w => Bzip2Message(w) = Message(w)
HuffmanDecodes == [][Huffman(unit', word')]_vars

-----------------------------------------------------------------------------
(* bzip2 has no writer; this one is the reference: runs, the rotations sorted,
   move to front, runs of the front counted in bijective base 2, and a code of
   lengths 1, 2, ..., n - 1, n - 1.                                          *)
RECURSIVE Rle1(_), Bijective(_)
RunAt(d) == Max({r \in 1..Len(d) : \A k \in 1..r : d[k] = d[1]})
Rle1(d) ==
    IF d = <<>> THEN <<>>
    ELSE LET r == RunAt(d)
         IN  (IF r < 4 THEN Times(r, d[1]) ELSE Append(Times(4, d[1]), r - 4))
             \o Rle1(SubSeq(d, r + 1, Len(d)))
Bijective(n) ==
    IF n = 0 THEN <<>>
    ELSE IF n % 2 = 1 THEN <<0>> \o Bijective((n - 1) \div 2) ELSE <<1>> \o Bijective((n - 2) \div 2)

Rotated(d, k) == SubSeq(d, k, Len(d)) \o SubSeq(d, 1, k - 1)
Below(s, t) == \E i \in DOMAIN s : s[i] < t[i] /\ \A j \in 1..(i - 1) : s[j] = t[j]
Rank(d) == [k \in DOMAIN d |->
    Cardinality({j \in DOMAIN d : \/ Below(Rotated(d, j), Rotated(d, k))
                                  \/ Rotated(d, j) = Rotated(d, k) /\ j < k})]
LastColumn(d, rank) == [p \in DOMAIN d |-> Last(Rotated(d, CHOOSE k \in DOMAIN d : rank[k] = p - 1))]

UsedBytes(d) == SetToSortSeq(Range(d), <)
FrontSymbols(column, used) ==
    LET Flushed(st) == st.out \o Bijective(st.run)
        Move(st, b) ==
          LET at == CHOOSE i \in DOMAIN st.list : st.list[i] = b
          IN  IF at = 1 THEN [st EXCEPT !.run = @ + 1]
              ELSE [list |-> <<b>> \o SelectSeq(st.list, LAMBDA x : x # b), run |-> 0,
                    out |-> Append(Flushed(st), at)]
        end == FoldLeft(Move, [list |-> used, run |-> 0, out |-> <<>>], column)
    IN  Append(Flushed(end), Len(used) + 1)

Staircase(n) == [s \in 1..n |-> IF s < n THEN s ELSE n - 1]
TreeBits(n) == BitsOf(1, 5) \o FlattenSeq([s \in 1..n |-> IF s \in {1, n} THEN <<0>> ELSE <<1, 0, 0>>])
UsedBits(used) ==
    LET groups == {b \div 16 : b \in Range(used)}
        map(S, n) == [i \in 1..16 |-> IF n + i - 1 \in S THEN 1 ELSE 0]
    IN  map(groups, 0) \o FlattenSeq([g \in 1..16 |->
            IF g - 1 \in groups THEN map(Range(used), 16 * (g - 1)) ELSE <<>>])
CodeTwice(n) == TreeBits(n) \o TreeBits(n)
BlockBits(data) ==
    LET d == Rle1(data)
        rank == Rank(d)
        used == UsedBytes(d)
        n == Len(used) + 2
        symbols == FrontSymbols(LastColumn(d, rank), used)
    IN  Bz!BlockMagic \o Bz!UpdateCRC(Bz!NoCRC, data) \o <<0>> \o BitsOf(rank[1], 24) \o UsedBits(used)
        \o BitsOf(2, 3) \o BitsOf(1, 15) \o <<0>> \o CodeTwice(n)
        \o FlattenSeq([i \in DOMAIN symbols |-> CanonicalCode(Staircase(n), symbols[i] + 1)])
Bzip2File(blocks) ==
    LET crc == FoldLeft(LAMBDA c, b : Bz!FoldCRC(c, Bz!UpdateCRC(Bz!NoCRC, b)), Bz!NoCRC, blocks)
    IN  FlattenSeq([i \in 1..4 |-> BitsOf(<<66, 90, 104, 57>>[i], 8)])
        \o FlattenSeq([i \in DOMAIN blocks |-> BlockBits(blocks[i])]) \o Bz!FinalMagic \o crc
Parts(d, k) == SelectSeq(<<SubSeq(d, 1, k), SubSeq(d, k + 1, Len(d))>>, LAMBDA p : p # <<>>)

LzwReadsBack(d) ==
    LET r == Lz!ReadAll(Lz!NewReader(Lz!LSB, 2, Lz!Close(Lz!Write(Lz!NewWriter(Lz!LSB, 2), d)).out))
    IN  r.out = d /\ r.err = ""
Flipped(file, k) == [file EXCEPT ![k] = (@ + 1) % 256]
FlateReadsBack(d) ==
    LET gzip == Fl!GzipClose(d)
        zlib == Fl!ZlibClose(d)
    IN  /\ Fl!GzipRead(gzip).out = d /\ Fl!GzipRead(gzip).err = ""
        /\ Fl!ZlibRead(zlib).out = d /\ Fl!ZlibRead(zlib).err = ""
        /\ \A k \in (Len(gzip) - 7)..(Len(gzip) - 4) : Fl!GzipRead(Flipped(gzip, k)).err # ""
        /\ \A k \in (Len(zlib) - 3)..Len(zlib) : Fl!ZlibRead(Flipped(zlib, k)).err # ""
Bzip2ReadsBack(d) ==
    \A k \in {0, Len(d) \div 2} : LET r == Bz!DecodeAll(Bzip2File(Parts(d, k)))
                                  IN  r.v = d /\ ~r.br.bad /\ ~r.br.err

(* Whatever is compressed is read back: the LZW reader follows the writer's
   dictionary one entry behind, through the growth of the code width and the
   clearing of a full dictionary; the DEFLATE reader undoes overlapping copies
   and the wrappers refuse a changed trailer; the bzip2 reader inverts the
   block transforms over any split of the data into blocks.                  *)
Compression(u, w) ==
    /\ u = "lzw" => LzwReadsBack(w)
    /\ u = "flate" => FlateReadsBack(w)
    /\ u = "bzip2" => Bzip2ReadsBack(w)
CompressedReadsBack == [][Compression(unit', word')]_vars

-----------------------------------------------------------------------------
(* Pictures.  The word of a "rect" is the corners of two rectangles, of a
   "filter" a row and the row above it, of a "png" and a "gif" the pixels, of
   a "jpeg" the brightness of its blocks.                                    *)
Points(r) == {Im!Pt(x, y) : x \in r.Min.X..(r.Max.X - 1), y \in r.Min.Y..(r.Max.Y - 1)}
Covered(ps) == IF ps = {} THEN Im!Rect(0, 0, 0, 0)
               ELSE Im!Rect(Min({p.X : p \in ps}), Min({p.Y : p \in ps}),
                            Max({p.X : p \in ps}) + 1, Max({p.Y : p \in ps}) + 1)

Ink == [p \in {Im!Pt(x, y) : x, y \in 0..4} |-> Im!Rgba(100 * p.X, 100 * p.Y, 50, 255)]
DrawnOver(r, s) ==
    LET m == Im!Draw(Im!NewRGBA(s), r, Ink, Im!Pt(0, 1), "Over")
    IN  \A p \in Points(s) :
          Im!At(m, p) = IF Im!PIn(p, r) THEN Ink[Im!PAdd(Im!PSub(p, r.Min), Im!Pt(0, 1))] ELSE Im!Clear

(* Drawing one pixel after the other. *)
DrawnBySet(r, s) ==
    LET m == Im!NewRGBA(s)
        blue == [p \in DOMAIN Ink |-> Im!NRGBA(10, 20, 250, 100)]
    IN  Im!Draw(m, r, blue, Im!Pt(0, 0), "Src")
          = FoldLeft(LAMBDA acc, p : Im!Set(acc, p, blue[p]), m, SetToSeq(Points(r)))

RectanglesArePoints(r, s) ==
    /\ Im!RSub(Im!RAdd(r, s.Min), s.Min) = r
    /\ Points(Im!RAdd(r, s.Min)) = {Im!PAdd(p, s.Min) : p \in Points(r)}
    /\ Points(Im!Intersect(r, s)) = Points(r) \cap Points(s)
    /\ Im!Eq(Im!Union(r, s), Covered(Points(r) \cup Points(s)))
    /\ Im!In(r, s) <=> Points(r) \subseteq Points(s)
    /\ Im!PIn(r.Min, s) => DrawnOver(r, s) /\ DrawnBySet(r, s)

(* A channel is never brighter than its alpha, and nothing wraps at 255. *)
Premultiplied(c) == Max({c.R, c.G, c.B}) <= c.A /\ c.A <= 255
ColoursConvert(w) ==
    LET opaque == Im!Rgba(w[1], w[2], w[3], 255)
        sheer == Im!NRGBA(w[1], w[2], w[3], w[4])
        back == Im!ToRGBA(Im!ToCMYK(opaque))
    IN  /\ Im!ToRGBA(Im!ToNRGBA(opaque)) = opaque
        /\ \A ch \in {"R", "G", "B"} : Fl!Distance(back[ch], opaque[ch]) <= 1
        /\ Im!ToGray(Im!Gray(w[1])) = Im!Gray(w[1])
        /\ Im!ToGray(opaque).Y \in Min({w[1], w[2], w[3]})..Max({w[1], w[2], w[3]})
        /\ Premultiplied(Im!ToRGBA(sheer))
        /\ Premultiplied(Im!Over(sheer, Im!ToRGBA(Im!NRGBA(w[3], w[2], w[1], w[4]))))

Filtered(line, prev, filter, bpp) ==
    LET a(i) == IF i > bpp THEN line[i - bpp] ELSE 0
        c(i) == IF i > bpp THEN prev[i - bpp] ELSE 0
        p(i) == a(i) + prev[i] - c(i)
        near(i) == {x \in {a(i), prev[i], c(i)} : \A y \in {a(i), prev[i], c(i)} :
                      Fl!Distance(p(i), x) <= Fl!Distance(p(i), y)}
        paeth(i) == IF a(i) \in near(i) THEN a(i) ELSE IF prev[i] \in near(i) THEN prev[i] ELSE c(i)
        guess(i) == <<0, a(i), prev[i], (a(i) + prev[i]) \div 2, paeth(i)>>[filter + 1]
    IN  [i \in DOMAIN line |-> (line[i] - guess(i)) % 256]
FiltersInvert(w) ==
    LET n == Len(w) \div 2
        prev == SubSeq(w, 1, n)
        line == SubSeq(w, n + 1, 2 * n)
    IN  \A filter \in 0..4, bpp \in 1..2 :
            Fl!Unfilter(Filtered(line, prev, filter, bpp), prev, filter, bpp) = line

PngReadsBack(pix) ==
    \A w \in {w \in DOMAIN pix : Len(pix) % w = 0} :
      LET file == Fl!Encode([w |-> w, h |-> Len(pix) \div w, pix |-> pix])
          img == Fl!Decode(file)
      IN  /\ img = [w |-> w, h |-> Len(pix) \div w, pix |-> pix, err |-> ""]
          /\ Len(pix) = 1 => \A k \in {3, 20, 24, 30, 34, 45, 50, Len(file)} :
                                Fl!Decode(Flipped(file, k)).err # ""

(* The rows of an interlaced picture: the multiples of 8, the other multiples
   of 4, the other even ones, the odd ones.                                  *)
SentRows(h) ==
    LET rows == [y \in 1..h |-> y - 1]
        Of(step, first) == SelectSeq(rows, LAMBDA y : y % step = first)
    IN  Of(8, 0) \o Of(8, 4) \o Of(4, 2) \o Of(2, 1)
BytesOf(bits) == [k \in 1..(Len(bits) \div 8) |->
                    MapThenSumSet(LAMBDA i : bits[8 * (k - 1) + i] * 2^(i - 1), 1..8)]
GifFile(pix, interlaced) ==
    LET sent == IF interlaced THEN [k \in DOMAIN pix |-> pix[SentRows(Len(pix))[k] + 1]] ELSE pix
        data == BytesOf(Lz!Close(Lz!Write(Lz!NewWriter(Lz!LSB, 2), sent)).out)
    IN  [version |-> "GIF89a", table |-> <<>>, sections |-> <<
            [kind |-> "gce", ok |-> TRUE, transparent |-> TRUE, index |-> 3],
            [kind |-> "image", left |-> 0, top |-> 0, w |-> 1, h |-> Len(pix),
             table |-> [i \in 1..4 |-> <<i, i, i>>], interlaced |-> interlaced, litWidth |-> 2,
             blocks |-> <<SubSeq(data, 1, 1), SubSeq(data, 2, Len(data))>>, ended |-> TRUE]>>]
GifReadsBack(pix) ==
    \A interlaced \in BOOLEAN :
      LET img == Lz!Decode(GifFile(pix, interlaced))
      IN  /\ img.err = ""
          /\ img.pix = [k \in DOMAIN pix |-> IF pix[k] = 3 THEN <<0, 0, 0, 0>>
                                             ELSE <<pix[k] + 1, pix[k] + 1, pix[k] + 1, 255>>]

(* A grey JPEG of one row of blocks.  Only the first coefficient of a block is
   not 0; it is sent as the difference to the last block's since a restart, its
   size in two bits and then its value, negative ones less by one.           *)
Size(d) == IF d = 0 THEN 0 ELSE Min({t \in 1..8 : Fl!Distance(d, 0) < 2^t})
DifferenceBits(d) == BitsOf(Size(d), 2)
                     \o BitsOf(IF d < 0 THEN d + 2^Size(d) - 1 ELSE d, Size(d)) \o <<0>>
ByteAligned(bits) ==
    LET full == bits \o Times((8 - (Len(bits) % 8)) % 8, 1)
        byte(k) == MapThenSumSet(LAMBDA i : full[8 * k + i] * 2^(8 - i), 1..8)
    IN  FlattenSeq([k \in 1..(Len(full) \div 8) |->
                      IF byte(k - 1) = 255 THEN <<255, 0>> ELSE <<byte(k - 1)>>])
Scan(levels, ri) ==
    LET restarts(k) == k = 1 \/ (ri # 0 /\ (k - 1) % ri = 0)
        bits(k) == DifferenceBits(levels[k] - IF restarts(k) THEN 0 ELSE levels[k - 1])
        Put(st, k) == IF restarts(k) /\ k > 1
                      THEN [out |-> st.out \o ByteAligned(st.bits)
                                    \o <<255, 208 + (((k - 1) \div ri - 1) % 8)>>,
                            bits |-> bits(k)]
                      ELSE [st EXCEPT !.bits = @ \o bits(k)]
        end == FoldLeft(Put, [out |-> <<>>, bits |-> <<>>], [k \in DOMAIN levels |-> k])
    IN  end.out \o ByteAligned(end.bits)
JpegFile(levels, ri) ==
    <<255, 216, 255, 219, 0, 67, 0>> \o Times(64, 8)
    \o <<255, 192, 0, 11, 8, 0, 8, 0, 8 * Len(levels), 1, 1, 17, 0>>
    \o <<255, 196, 0, 23, 0, 0, 4>> \o Times(14, 0) \o <<0, 1, 2, 3>>
    \o <<255, 196, 0, 20, 16, 1>> \o Times(15, 0) \o <<0>>
    \o <<255, 221, 0, 4, 0, ri, 255, 218, 0, 8, 1, 1, 0, 0, 63, 0>>
    \o Scan(levels, ri) \o <<255, 217>>
JpegReadsBack(levels) ==
    \A ri \in {0, 2} :
      LET d == Jp!Decode(JpegFile(levels, ri))
      IN  /\ d.err = ""
          /\ \A k \in DOMAIN levels :
               Jp!AssembleRGBA(d)[8 * k - 1, 7] = Times(3, 128 + levels[k])
          /\ \A k \in DOMAIN levels, y \in {0, 7} :
               /\ d.plane[1][y * d.planeStride[1] + 8 * (k - 1)] = 128 + levels[k]
               /\ d.plane[1][y * d.planeStride[1] + 8 * k - 1] = 128 + levels[k]

(* A picture that was encoded is decoded to the same pixels: PNG rows through
   the five filters and chunks whose changed bytes are noticed, GIF rows in
   interlaced order out of split sub-blocks, JPEG blocks across restarts;
   rectangles are the sets of their points, which is what Draw draws; colours
   survive their conversions, and compositing never exceeds the alpha.       *)
Pictures(u, w) ==
    /\ u = "rect" /\ Len(w) = 8 =>
         RectanglesArePoints(Im!Rect(w[1], w[2], w[3], w[4]),
                             Im!Rect(w[5], w[6], w[7], w[8]))
    /\ u = "filter" => FiltersInvert(w) /\ (Len(w) = 4 => ColoursConvert(w))
    /\ u = "png" => PngReadsBack(w)
    /\ u = "gif" => GifReadsBack(w)
    /\ u = "jpeg" /\ w # <<>> => JpegReadsBack(w)
PicturesReadBack == [][Pictures(unit', word')]_vars

-----------------------------------------------------------------------------
(* Digests.  The word is the sizes of successive writes. *)
Chunk(k, n) == [i \in 1..n |-> (17 * k + i) % 256] \o <<>>
Chunks(sizes) == [k \in DOMAIN sizes |-> Chunk(k, sizes[k])]

(* The message is what the digested blocks hold before the padding. *)
Digested(blocks, lengthBytes) ==
    LET all == FlattenSeq(blocks)
        end == Max({i \in 1..(Len(all) - lengthBytes) : all[i] # 0})
    IN  <<all[end], SubSeq(all, 1, end - 1)>>
Md5Blocks(chunks) == Fl!Md5!Sum(FoldLeft(Fl!Md5!Write, Fl!Md5!New, chunks))
Sha1Blocks(chunks) == Fl!Sha1!Sum(FoldLeft(Fl!Sha1!Write, Fl!Sha1!New, chunks))
Sha256Blocks(chunks) == Fl!Sha256!Sum(FoldLeft(Fl!Sha256!Write, Fl!Sha256!New, chunks))
Sha512Blocks(chunks) == Fl!Sha512!Sum(FoldLeft(Fl!Sha512!Write, Fl!Sha512!New, chunks))
Sha3Blocks(chunks) == Fl!SumOf256(FoldLeft(Fl!Write256, Fl!New256, chunks))

(* A CRC followed by its own bytes gives one fixed remainder. *)
Residue == Fl!FromHex(<<13, 14, 11, 11, 2, 0, 14, 3>>)
LittleEndian4(w) == Reverse(Fl!WordBytes(w, 4))
Crc64HasResidue(d, table) ==
    Fl!Crc64Write(table, Fl!Ones(64), d \o Reverse(Fl!WordBytes(Fl!Checksum64(d, table), 8)))
        = Fl!Crc64Write(table, {}, Times(8, 255))
Adler(d) == <<(1 + FoldLeft(+, 0, d)) % 65521,
              (Len(d) + MapThenSumSet(LAMBDA i : (Len(d) + 1 - i) * d[i], DOMAIN d)) % 65521>>

(* A digest does not depend on how its input was cut into writes, across the
   edges of blocks; what it absorbs is exactly the message, the padding and the
   length, so two messages are never padded to the same blocks; the sums have
   the published remainder and closed form, and FNV-1a is FNV-1 with its steps
   in the other order; and HMAC uses a key longer
   than a block as its digest, and pads a shorter one with zeros.            *)
Digests(u, w) ==
    u = "digest" =>
        LET chunks == Chunks(w)
            whole == FlattenSeq(chunks)
            mac(key) == Fl!Md5!HmacCore(key, <<7>>)
        IN  /\ Md5Blocks(chunks) = Fl!Md5!SumOf(whole) /\ Sha512Blocks(chunks) = Fl!Sha512!SumOf(whole)
            /\ Sha1Blocks(chunks) = Fl!Sha1!SumOf(whole) /\ Sha256Blocks(chunks) = Fl!Sha256!SumOf(whole)
            /\ Sha3Blocks(chunks) = Fl!Sum256(whole)
            /\ Digested(Md5Blocks(chunks), 8) = <<128, whole>>
            /\ Digested(Sha512Blocks(chunks), 16) = <<128, whole>>
            /\ Len(whole) > 64 => mac(whole) = mac(Fl!Md5!Digest(whole))
            /\ Len(whole) < 64 => mac(whole) = mac(Append(whole, 0))
            /\ Len(whole) <= 17 =>
                 /\ Fl!Crc32Write(Fl!Ones(32), whole \o LittleEndian4(Fl!ChecksumIEEE(whole))) = Residue
                 /\ FoldLeft(Fl!AdlerWrite, Fl!AdlerNew, chunks) = [a |-> Adler(whole)[1], b |-> Adler(whole)[2]]
                 /\ Crc64HasResidue(whole, Fl!MakeTableISO) /\ Crc64HasResidue(whole, Fl!MakeTableECMA)
                 /\ FoldLeft(Fl!Fnv32a, Fl!Times(Fl!Offset32, Fl!Prime32), chunks)
                      = Fl!Times(Fl!Fnv32(Fl!Offset32, whole), Fl!Prime32)
                 /\ FoldLeft(Fl!Fnv64a, Fl!Times(Fl!Offset64, Fl!Prime64), chunks)
                      = Fl!Times(Fl!Fnv64(Fl!Offset64, whole), Fl!Prime64)
DigestsStream == [][Digests(unit', word')]_vars

-----------------------------------------------------------------------------
(* Numbers.  The word of a "big" is two or three integers of up to three limbs
   of one digit, of a "const" two integers of 6 bits.                        *)
I(n) == Nu!SetInt64(n)
Magnitude(n) == IF n < 0 THEN -n ELSE n
Quotient(x, y) == LET q == Magnitude(x) \div Magnitude(y) IN IF (x < 0) # (y < 0) THEN -q ELSE q
Divisors(n) == {d \in 1..200 : n % d = 0}
Gcd(x, y) == IF x = 0 THEN Magnitude(y) ELSE IF y = 0 THEN Magnitude(x)
             ELSE Max(Divisors(Magnitude(x)) \cap Divisors(Magnitude(y)))
ModPower(x, y, m) == FoldLeft(LAMBDA acc, i : (acc * x) % m, 1 % m, Times(y, 0))

DividesExactly(x, y) ==
    LET r == (x - Quotient(x, y) * y) IN
    /\ Nu!QuoRem(I(x), I(y)) = [q |-> I(Quotient(x, y)), r |-> I(r)]
    /\ \E e \in 0..(Magnitude(y) - 1) :
          /\ (x - e) % Magnitude(y) = 0
          /\ Nu!DivMod(I(x), I(y)) = [q |-> I(Quotient(x - e, y)), r |-> I(e)]
InverseIsOne(x, n) ==
    LET inv == Nu!ModInverse(I(x), I(n))
    IN  IF Gcd(x, n) # 1 THEN inv = <<>>
        ELSE \E v \in 1..(n - 1) : inv = <<I(v)>> /\ (x * v) % n = 1
BigArithmetic(x, y) ==
    LET g == Nu!GCD(I(x), I(y))
        text == Nu!String(I(x))
    IN  /\ Nu!Add(I(x), I(y)) = I(x + y) /\ Nu!Sub(I(x), I(y)) = I(x - y)
        /\ Nu!Mul(I(x), I(y)) = I(x * y)
        /\ Nu!Cmp(I(x), I(y)) = Nu!Sign(I(x - y))
        /\ y # 0 => DividesExactly(x, y)
        /\ g.d = I(Gcd(x, y)) /\ Nu!Add(Nu!Mul(I(x), g.x), Nu!Mul(I(y), g.y)) = g.d
        /\ y > 1 => InverseIsOne(x, y)
        /\ Nu!SetString(x < 0, IF x < 0 THEN Tail(text) ELSE text) = <<I(x)>>
        /\ x >= 0 => Nu!SetBytes(Nu!Bytes(I(x))) = I(x)

C(n) == Nu!MakeInt64(n)
ConstantArithmetic(x, y) ==
    LET Op(op) == Nu!BinaryOp(C(x), op, C(y))
        Is(op) == Nu!Compare(C(x), op, C(y))
    IN  /\ (Nu!Compare(Nu!MakeString(x), "LSS", Nu!MakeString(y)) <=> x < y)
        /\ Nu!BinaryOp(C(Nu!MaxInt), "ADD", C(1)) = C(Nu!MinInt)
        /\ y # 0 => Nu!BinaryOp(Nu!BinaryOp(Op("QUO"), "MUL", C(y)), "ADD", Op("REM")) = C(x)
        /\ Nu!BinaryOp(Op("AND"), "ADD", Op("OR")) = Op("ADD")
        /\ Nu!UnaryOp("XOR", Op("AND")) = Nu!BinaryOp(Nu!UnaryOp("XOR", C(x)), "OR", Nu!UnaryOp("XOR", C(y)))
        /\ Nu!BinaryOp(Op("XOR"), "XOR", C(y)) = C(x)
        /\ Cardinality({op \in {"LSS", "EQL", "GTR"} : Is(op)}) = 1
        /\ (Is("LEQ") <=> ~Is("GTR")) /\ (Is("NEQ") <=> ~Is("EQL"))
        /\ x < y => Is("LEQ")
        /\ Magnitude(x) < 8 /\ Magnitude(y) < 8 => (Is("LSS") <=> x < y)

(* Arithmetic on limbs is the arithmetic of the integers, and every result has
   the one representation of its value: no leading zero limb, no negative
   zero.  Division truncates, DivMod is Euclidean, the coefficients of GCD
   add up to it, text and bytes read back.  Constants wrap at their width, and
   the comparison of constants, which goes through floats, is an order that
   agrees with the integers as far as the mantissa reaches.                  *)
Arithmetic(u, w) ==
    /\ u = "big" /\ Len(w) = 2 => BigArithmetic(w[1], w[2])
    /\ u = "big" /\ Len(w) = 3 /\ w[2] \in 0..12 /\ w[3] > 0 =>
         Nu!Exp(I(w[1]), I(w[2]), I(w[3])) = I(ModPower(w[1], w[2], w[3]))
    /\ u = "const" /\ Len(w) = 2 => ConstantArithmetic(w[1], w[2])
ArithmeticIsExact == [][Arithmetic(unit', word')]_vars

-----------------------------------------------------------------------------
(* Sorting.  The word is the keys of a "sort" or a "heap", the pairs of
   elements of successive calls of Link for a "ring".                        *)
Keyed(w) == [i \in DOMAIN w |-> <<w[i], i>>] \o <<>>
StablySorted(x) == \A i, j \in DOMAIN x : i < j => x[i][1] < x[j][1] \/ (x[i][1] = x[j][1] /\ x[i][2] < x[j][2])
SortsStably(x) ==
    /\ \A y \in {Sr!Sort(x), Sr!Ints(x)} : StablySorted(y) /\ Range(y) = Range(x)
    /\ Sr!SliceIsSorted(x) <=> \A i, j \in DOMAIN x : i < j => x[i][1] <= x[j][1]
    /\ \A key \in 0..3 :
         LET sorted == Sr!Sort(x)
             atLeast == [i \in 0..(Len(x) - 1) |-> sorted[i + 1][1] >= key]
         IN  Sr!Search(Len(x), atLeast) = Cardinality({i \in DOMAIN x : x[i][1] < key})

IsHeap(h) == \A i \in 2..Len(h) : ~KeyLess(h[i], h[i \div 2])
Takes(popped, h, e) == popped.top = e /\ IsHeap(popped.rest) /\ Range(popped.rest) = Range(h) \ {e}
                       /\ Len(popped.rest) = Len(h) - 1
KeepsHeap(x) ==
    LET h == Sr!HeapInit(x)
        grown == FoldLeft(Sr!HeapPush, <<>>, x)
    IN  /\ \A g \in {h, grown} : IsHeap(g) /\ Range(g) = Range(x) /\ Len(g) = Len(x)
        /\ x # <<>> => LET p == Sr!HeapPop(h)
                       IN  Takes(p, h, p.top) /\ \A e \in Range(x) : ~KeyLess(e, p.top)
        /\ \A i \in DOMAIN h : /\ Takes(Sr!HeapRemove(h, i), h, h[i])
                               /\ \A key \in 0..3 : LET e == <<key, 0>>
                                                        f == Sr!HeapFix([h EXCEPT ![i] = e], i)
                                                    IN  IsHeap(f) /\ Range(f) = (Range(h) \ {h[i]}) \cup {e}

Linked(g, r, s) ==
    LET ring == Sr!RingOf(g, r)
        at == CHOOSE k \in 0..Len(ring) : IF s \in Range(ring) THEN k > 0 /\ ring[k] = s ELSE k = 0
    IN  CASE at = 0 -> <<r>> \o Sr!RingOf(g, s) \o Tail(ring)
          [] at = 1 -> <<r>>
          [] OTHER -> <<r>> \o SubSeq(ring, at, Len(ring))
RingsStayRings(pairs) ==
    LET Do(g, p) == Sr!Link(g, p[1], p[2])
        before == FoldLeft(Do, Sr!RingNew(4), Front(pairs))
        after == Do(before, Last(pairs))
        r == Last(pairs)[1]
        ring == Sr!RingOf(before, r)
    IN  /\ \A n \in 0..(Len(ring) - 1) :
             Sr!RingOf(Sr!Unlink(before, r, n), r) = <<r>> \o SubSeq(ring, n + 2, Len(ring))
        /\ \A e \in 1..4 : after.prev[after.next[e]] = e /\ after.next[after.prev[e]] = e
        /\ Sr!RingOf(after, r) = Linked(before, r, Last(pairs)[2])
Pairs(w) == [k \in 1..(Len(w) \div 2) |-> <<w[2 * k - 1], w[2 * k]>>] \o <<>>

(* Sorting is stable and loses nothing; Search finds the first place; every
   heap operation, the removal and the change of an inner element included,
   leaves a heap of exactly the other elements; Link merges two rings or cuts
   one in two, whatever was linked before, and Unlink takes out as many elements
   as it is told.                                                            *)
Ordering(u, w) ==
    /\ u = "sort" => SortsStably(Keyed(w)) /\ KeepsHeap(Keyed(w))
    /\ u = "ring" /\ Len(w) \in {2, 4} => RingsStayRings(Pairs(w))
SortsHeapsAndRings == [][Ordering(unit', word')]_vars

-----------------------------------------------------------------------------
(* Strings and paths. *)
Blanks == <<32>>
SplitLaws(s, sep) ==
    LET parts == St!Split(s, sep)
    IN  /\ St!Join(parts, sep) = s
        /\ St!Count(s, sep) = Len(parts) - 1
        /\ \A i \in DOMAIN parts : St!Index(parts[i], sep) = -1
        /\ St!Replace(s, sep, <<98>>, -1) = St!Join(parts, <<98>>)
        /\ St!Cut(s, sep).found => St!Cut(s, sep).before = parts[1]
                                   /\ St!Cut(s, sep).after = St!Join(Tail(parts), sep)
        /\ St!HasPrefix(s, sep) <=> St!TrimPrefix(s, sep) # s
        /\ Reverse(St!TrimSuffix(s, sep)) = St!TrimPrefix(Reverse(s), Reverse(sep))
StringLaws(s) ==
    /\ St!EqualFold(s, St!ToUpper(s)) /\ St!ToLower(St!ToUpper(s)) = s
    /\ \A chars \in {<<97, 32>>, <<98>>} :
          St!IndexAny(s, chars) = IF s = <<>> \/ St!TrimFunc(s, {<<c>> : c \in {97, 98, 32} \ Range(chars)}) = <<>>
                                  THEN -1 ELSE Min({i \in DOMAIN s : s[i] \in Range(chars)}) - 1
    /\ \A sep \in {<<97>>, <<97, 97>>, <<97, 32, 97>>} : SplitLaws(s, sep)
    /\ St!Fields(s) = SelectSeq(St!Split(s, Blanks), LAMBDA f : f # <<>>)
    /\ St!Trim(s, Blanks) = St!TrimSpace(s) /\ St!TrimFunc(s, {Blanks}) = St!TrimSpace(s)
    /\ St!TrimSpace(s) = IF St!Fields(s) = <<>> THEN <<>>
                         ELSE St!Slice(s, St!Index(s, St!Fields(s)[1]),
                                       St!LastIndex(s, Last(St!Fields(s))) + Len(Last(St!Fields(s))))

(* What a path means: the root or a number of steps up, then the names down. *)
Meaning(path) ==
    LET Walk(m, seg) ==
          IF seg = Pa!Dot THEN m
          ELSE IF seg # Pa!DotDot THEN [m EXCEPT !.down = Append(@, seg)]
          ELSE IF m.down # <<>> THEN [m EXCEPT !.down = Front(@)]
          ELSE IF m.abs THEN m ELSE [m EXCEPT !.up = @ + 1]
        cuts == SelectSeq([i \in DOMAIN path |-> i], LAMBDA i : path[i] = "/")
        ends == Append(cuts, Len(path) + 1)
        segs == [k \in DOMAIN ends |-> SubSeq(path, IF k = 1 THEN 1 ELSE ends[k - 1] + 1, ends[k] - 1)]
    IN  FoldLeft(Walk, [abs |-> Pa!IsAbs(path), up |-> 0, down |-> <<>>],
                 SelectSeq(segs, LAMBDA seg : seg # <<>>))
Spelled(m) ==
    LET segs == Times(m.up, Pa!DotDot) \o m.down
        text == FoldLeft(LAMBDA acc, k : IF k = 1 THEN segs[1] ELSE acc \o <<"/">> \o segs[k], <<>>,
                         [k \in DOMAIN segs |-> k])
    IN  IF m.abs THEN <<"/">> \o text ELSE IF text = <<>> THEN Pa!Dot ELSE text
RelLeadsThere(base, target) ==
    LET rel == Pa!Rel(base, target)
    IN  IF rel = <<>> THEN \/ Meaning(base).abs # Meaning(target).abs
                          \/ Meaning(base).up > Meaning(target).up
        ELSE Pa!Clean(Pa!Join(<<base, rel>>)) = Pa!Clean(target)
(* The pieces of a path, which ends in a name. *)
PiecesFit(p) ==
    /\ Pa!Clean(Pa!Join(<<Pa!Dir(p), Pa!Base(p)>>)) = Pa!Clean(p)
    /\ Pa!Split(p).file = Pa!Base(p) /\ Pa!Split(p).dir \o Pa!Base(p) = p
    /\ Pa!Clean(Pa!Split(p).dir) = Pa!Clean(Pa!Dir(p))
    /\ Pa!Ext(p) # <<>> => /\ St!HasSuffix(Pa!Base(p), Pa!Ext(p))
                           /\ "." \notin Range(Tail(Pa!Ext(p)))
PathLaws(p) ==
    /\ p # <<>> /\ ~Pa!HasSlash(p) => PiecesFit(p)
    /\ Pa!Clean(p) = Spelled(Meaning(p))
    /\ Meaning(Pa!Clean(p)) = Meaning(p)
    /\ \A k \in 0..Len(p) :
         LET base == SubSeq(p, 1, k) IN
         Pa!Clean(base) # Pa!Dot => RelLeadsThere(base, SubSeq(p, k + 1, Len(p)))

(* Split, Join, Count, Cut, Replace, Fields and the trims agree with each
   other on overlapping and adjacent separators; Dir and Base (Split's file) are
   a path's two pieces and Ext the end of the second; Clean spells what the path
   means in the one shortest way, and a path followed from a base by the Rel
   of a target leads to the target (a base "." excepted, where it does not).  *)
StringsAndPaths(u, w) ==
    /\ u = "string" => StringLaws(w)
    /\ u = "path" => PathLaws(w)
StringsAndPathsAgree == [][StringsAndPaths(unit', word')]_vars

-----------------------------------------------------------------------------
(* Regular expressions.  The word is the fragments of a pattern; what the
   pattern denotes in a text is a set of spans <<start, end>>.               *)
SmallTexts == UNION {[1..n -> {97, 98}] : n \in 0..3}

RECURSIVE Spans(_, _)
Spans(n, s) ==
    LET Empty == {<<i, i>> : i \in 0..Len(s)}
        Compose(A, B) == UNION {{<<a[1], b[2]>> : b \in {b \in B : b[1] = a[2]}} : a \in A}
        Closure(A) == FoldLeft(LAMBDA acc, i : UNION {acc, Compose(acc, A)}, Empty, Append(s, 0))
        One(ok(_)) == {<<i - 1, i>> : i \in {i \in DOMAIN s : ok(s[i])}}
        sub == IF "sub" \in DOMAIN n THEN [i \in DOMAIN n.sub |-> Spans(n.sub[i], s)] \o <<>> ELSE <<>>
    IN  CASE n.k = "char" -> One(LAMBDA c : c = n.ch)
          [] n.k = "class" -> One(LAMBDA c : Re!ClassMatches(n, c))
          [] n.k = "group" -> sub[1]
          [] n.k = "concat" -> FoldLeft(Compose, Empty, sub)
          [] n.k = "alt" -> UNION Range(sub)
          [] n.k = "quest" -> Empty \cup sub[1]
          [] n.k = "star" -> Closure(sub[1])
          [] n.k = "plus" -> Compose(sub[1], Closure(sub[1]))

(* The tree of regexp/syntax as nodes of the matcher. *)
RECURSIVE AsNode(_)
AsNode(t) ==
    LET sub == [i \in DOMAIN t.sub |-> AsNode(t.sub[i])] \o <<>>
        kind == [Star |-> "star", Plus |-> "plus", Quest |-> "quest", Capture |-> "group",
                 Concat |-> "concat", Alternate |-> "alt"]
    IN  CASE t.op = "Literal" -> Re!Char(t.rune[1])
          [] t.op = "CharClass" -> Re!Class([i \in 1..(Len(t.rune) \div 2) |->
                                               <<t.rune[2 * i - 1], t.rune[2 * i]>>], FALSE)
          [] OTHER -> Re!Sub(kind[t.op], sub)

MatchesLeftmost(n, s) ==
    LET spans == Spans(n, s)
        found == Re!FindAll(n, s, 0, -1)
        gap(k) == Re!Between(s, IF k = 1 THEN 0 ELSE found[k - 1][2],
                             IF k > Len(found) THEN Len(s) ELSE found[k][1])
        gaps == [k \in 1..(Len(found) + 1) |-> gap(k)]
        oneByte == n.k \in {"quest", "star", "plus"} /\ n.sub[1].k \in {"char", "class"}
    IN  /\ Re!MatchString(n, s) <=> spans # {}
        /\ \A i \in 0..Len(s) :
             LET ends == Re!Ends(n, s, i)
             IN  /\ Range(ends) = {e \in 0..Len(s) : <<i, e>> \in spans}
                 /\ oneByte /\ ends # <<>> => ends[1] = Max(Range(ends))
        /\ Range(found) \subseteq spans
        /\ \A k \in 2..Len(found) : found[k][1] >= found[k - 1][2] /\ found[k][1] > found[k - 1][1]
        /\ \A sp \in spans : \E m \in Range(found) : sp[1] = m[1] \/ sp[1] \in (m[1] + 1)..(m[2] - 1)
        /\ Re!Replace(n, s, 0, <<120>>) = St!Join(gaps, <<120>>)
        /\ (\A m \in Range(found) : m[1] # m[2]) => Re!SplitFrom(n, s, 0, -1) = gaps

(* The backtracking matcher ends where the pattern says, however stars, groups
   and alternatives nest (a loop that consumes nothing included), and a repeated
   byte takes all it can; the matches found are the leftmost ones, never overlap
   and leave none out; Replace and Split keep every byte between them; and
   regexp/syntax accepts the same patterns, with trees of the same meaning.   *)
Matching(u, w) ==
    u = "regexp" =>
        LET r == Re!Compile(FlattenSeq(w))
            t == Rs!Parse(FlattenSeq(w))
        IN  /\ r.i # 0 <=> t.err = ""
            /\ r.i # 0 => \A s \in SmallTexts :
                 /\ MatchesLeftmost(r.n, s)
                 /\ Re!Ends(AsNode(t.n), s, 0) = Re!Ends(r.n, s, 0)
RegexpFindsLeftmost == [][Matching(unit', word')]_vars

-----------------------------------------------------------------------------
(* Data as text.  The word of a "json" is the tokens of a text, of a "csv" the
   characters of records with "F" and "R" between fields and records, of a
   "text" and a "url" bytes, of a "scan" the pieces of a source text.        *)
RECURSIVE IsJson(_), IsJsonList(_), IsJsonMembers(_)
Commas(w) == {k \in 2..(Len(w) - 1) : w[k] = <<44>>}
IsScalar(w) == w \in {<<<<49, 46, 53>>>>, <<En!Letters.null>>}
IsJson(w) ==
    LET inner == SubSeq(w, 2, Len(w) - 1)
        within(l, r) == Len(w) > 1 /\ w[1] = l /\ Last(w) = r
    IN  \/ IsScalar(w)
        \/ within(<<91>>, <<93>>) /\ (inner = <<>> \/ IsJsonList(inner))
        \/ within(<<123>>, <<125>>) /\ (inner = <<>> \/ IsJsonMembers(inner))
IsJsonList(w) ==
    IsJson(w) \/ \E k \in Commas(w) : IsJson(SubSeq(w, 1, k - 1)) /\ IsJsonList(SubSeq(w, k + 1, Len(w)))
IsJsonMembers(w) ==
    LET member(m) == m # <<>> /\ m[1] = <<34, 97, 34, 58>> /\ IsJson(Tail(m))
    IN  member(w) \/ \E k \in Commas(w) : member(SubSeq(w, 1, k - 1)) /\ IsJsonMembers(SubSeq(w, k + 1, Len(w)))
JsonReadsBack(w) ==
    LET r == En!UnmarshalAny(FlattenSeq(w))
        target == [k |-> "struct", struct |-> <<<<<<97>>, [k |-> "num", num |-> 7]>>>>]
        into == En!UnmarshalStruct(target, FlattenSeq(w))
        fits == r.v.k = "nil" \/ (r.v.k = "map" /\ \A p \in r.v.map : p[2].k \in {"num", "nil"})
    IN  /\ ~r.err <=> IsJson(w)
        /\ ~r.err => En!UnmarshalAny(En!MarshalValue(r.v)) = [r EXCEPT !.pos = Len(En!MarshalValue(r.v)) + 1]
        /\ ~into.err <=> ~r.err /\ fits
        /\ into.v = IF ~r.err /\ r.v.k = "map" /\ \E p \in r.v.map : p[2].k = "num"
                    THEN [target EXCEPT !.struct[1][2].num = 1500] ELSE target

(* 10^-3 is the unit: two digits are kept, except where rounding carries. *)
NumbersReadBack(f) ==
    Magnitude(f) % 1000 < 995 => Magnitude(En!UnmarshalAny(En!FormatNumber(f)).v.num - f) <= 5

StringsReadBack(s) ==
    LET text == En!MarshalString(s)
    IN  /\ En!UnmarshalAny(text) = [v |-> [k |-> "str", str |-> s], pos |-> Len(text) + 1, err |-> FALSE]
        /\ Pa!QueryUnescape(Pa!QueryEscape(s)) = [s |-> s, err |-> FALSE]
        /\ Pa!PathUnescape(Pa!PathEscape(s)) = [s |-> s, err |-> FALSE]
        /\ Pa!ParseQuery(Pa!QueryEscape(s) \o <<61>> \o Pa!QueryEscape(Reverse(s)) \o <<38, 98, 61>>)
             = [pairs |-> {<<s, Reverse(s)>>, <<<<98>>, <<>>>>}, err |-> FALSE]

Cut(w, mark) ==
    LET ends == Append(SelectSeq([i \in DOMAIN w |-> i], LAMBDA i : w[i] = mark), Len(w) + 1)
    IN  [k \in DOMAIN ends |-> SubSeq(w, IF k = 1 THEN 1 ELSE ends[k - 1] + 1, ends[k] - 1)] \o <<>>
CsvReadsBack(w) ==
    LET lines == Cut(w, "R")
        records == [k \in DOMAIN lines |-> Cut(lines[k], "F")] \o <<>>
    IN  (\A k \in DOMAIN records : Len(records[k]) = Len(records[1])) =>
            \A crlf, trim \in BOOLEAN :
                En!ReadAll(En!NewReader(",", "none", trim, En!WriteAll(",", crlf, records)), <<>>)
                  = [records |-> SelectSeq(records, LAMBDA r : r # <<<<>>>>), err |-> ""]

(* The end of a token and the beginning of the next are the same scanner; its
   offset, line and column are counted over the text before it.              *)
RECURSIVE TokensFrom(_, _)
TokensFrom(src, s) ==
    LET t == Sc!ScanToken(src, s) IN IF t.kind = "EOF" THEN <<t>> ELSE <<t>> \o TokensFrom(src, t.end)
TokensTile(src) ==
    LET toks == TokensFrom(src, Sc!Start)
        lines(k) == Cardinality({i \in 1..k : src[i] = "\n"})
        lineStart(k) == Max({0} \cup {i \in 1..k : src[i] = "\n"})
        At(t) == t.start.at - 1
        from(k) == IF k = 1 THEN 1 ELSE toks[k - 1].end.at
    IN  \A k \in DOMAIN toks :
          /\ Sc!Position(toks[k]) = [offset |-> MapThenSumSet(LAMBDA i : Sc!Bytes(src[i]), 1..At(toks[k])),
                                     line |-> 1 + lines(At(toks[k])),
                                     column |-> At(toks[k]) - lineStart(At(toks[k])) + 1]
          /\ Sc!TokenText(src, toks[k]) # <<>> <=> toks[k].kind # "EOF"
          /\ Sc!ScanToken(SubSeq(src, from(k), At(toks[k])), Sc!Start).kind = "EOF"

(* What is written as text is read back as what it was: JSON values (and a text
   is read exactly if it is one, a struct keeping its fields when it is not),
   strings through their escapes, CSV records through quotes and line ends (the
   record of one empty field excepted, which is written as a blank line), URLs
   (but those that begin with the mark after a scheme);
   and scanned tokens, with what lies between them, are the text.            *)
Texts(u, w) ==
    /\ u = "json" => JsonReadsBack(w)
    /\ u = "const" /\ Len(w) = 2 => NumbersReadBack(64 * w[1] + w[2])
    /\ u = "text" => StringsReadBack(w)
    /\ u = "csv" => CsvReadsBack(w)
    /\ u = "url" /\ ~IsPrefix(<<58, 47, 47>>, w) => Pa!Parse(Pa!String(Pa!Parse(w))) = Pa!Parse(w)
    /\ u = "scan" => TokensTile(FlattenSeq(w))
TextsReadBack == [][Texts(unit', word')]_vars

-----------------------------------------------------------------------------
(* Templates.  The word is the fragments of a template over the fields A, B and
   C of a struct; X is no field.  Read from left to right, a template keeps the
   conditions of the ifs it is in.                                           *)
Act(words) == <<"{{">> \o words \o <<"}}">>
Data(a, b) == [k |-> "struct", fields |-> [A |-> [k |-> "bool", bool |-> a], B |-> [k |-> "int", int |-> b],
                                           C |-> [k |-> "str", str |-> <<"<", "a">>]]]
Depth(w, k) == Cardinality({i \in 1..k : w[i] \in {Act(<<"if", "A">>), Act(<<"if", "B">>)}})
               - Cardinality({i \in 1..k : w[i] = Act(<<"end">>)})
Opener(w, k) == Max({i \in 1..(k - 1) : Depth(w, i) = Depth(w, k) /\ Depth(w, i - 1) < Depth(w, i)})
WellNested(w) ==
    /\ \A k \in DOMAIN w : Depth(w, k) >= 0
    /\ Depth(w, Len(w)) = 0
    /\ \A k \in DOMAIN w : w[k] = Act(<<"else">>) =>
         /\ Depth(w, k) > 0
         /\ ~\E j \in Opener(w, k)..(k - 1) : w[j] = w[k] /\ Depth(w, j) = Depth(w, k)

Live(conds) == FALSE \notin Range(conds)
Rendered(w, data, markup) ==
    LET Put(st, text) == IF Live(st.conds) /\ ~st.err THEN [st EXCEPT !.out = @ \o text] ELSE st
        Enter(st, c) == [st EXCEPT !.conds = Append(@, c)]
        Do(st, frag) ==
          CASE frag = Act(<<"if", "A">>) -> Enter(st, data.fields.A.bool)
            [] frag = Act(<<"if", "B">>) -> Enter(st, data.fields.B.int # 0)
            [] frag = Act(<<"else">>) -> [st EXCEPT !.conds = Append(Front(@), ~Last(@))]
            [] frag = Act(<<"end">>) -> [st EXCEPT !.conds = Front(@)]
            [] frag = Act(<<"C">>) -> Put(st, <<markup, "a">>)
            [] frag = Act(<<"X">>) -> [st EXCEPT !.err = @ \/ Live(st.conds)]
            [] OTHER -> Put(st, frag)
        end == FoldLeft(Do, [conds |-> <<>>, out |-> <<>>, err |-> FALSE], w)
    IN  [out |-> IF end.err THEN <<>> ELSE end.out, err |-> end.err]

(* The tree of text/template/parse, written out again. *)
RECURSIVE Written(_)
Written(tree) ==
    LET Node(n) == CASE n.type = "Text" -> n.text
                     [] n.type = "Action" -> Act(n.pipe)
                     [] n.type = "If" -> Act(<<"if">> \o n.pipe) \o Written(n.list)
                          \o (IF n.elseList = <<>> THEN <<>> ELSE Act(<<"else">>) \o Written(n.elseList[1]))
                          \o Act(<<"end">>)
    IN  FlattenSeq([i \in DOMAIN tree |-> Node(tree[i])])
RECURSIVE WithoutEmptyElse(_)
WithoutEmptyElse(w) ==
    LET at == {i \in 1..(Len(w) - 1) : w[i] = Act(<<"else">>) /\ w[i + 1] = Act(<<"end">>)}
    IN  IF at = {} THEN w ELSE WithoutEmptyElse(RemoveAt(w, Max(at)))

(* A template is accepted exactly when its ifs nest and have one else each; it
   writes what reading it from left to right would, a missing field failing only
   where it is reached; html/template differs in the data it writes and in
   nothing else; and the tree has everything but an else without a body.     *)
Nesting(u, w) ==
    u = "template" =>
        LET text == FlattenSeq(w)
            parsed == Tx!Parse(text)
        IN  /\ ~parsed.err <=> WellNested(w)
            /\ ~parsed.err => \A a \in BOOLEAN, b \in 0..1 :
                 /\ Tx!Execute(parsed.nodes, Data(a, b)) = Rendered(w, Data(a, b), "<")
                 /\ Ht!Execute(parsed.nodes, Data(a, b)) = Rendered(w, Data(a, b), "&lt;")
            /\ ~parsed.err => Written(Tx!ParseTree(text).tree) = FlattenSeq(WithoutEmptyElse(w))
TemplatesNest == [][Nesting(unit', word')]_vars

-----------------------------------------------------------------------------
(* Source text.  The word of an "expr" is the pieces of an expression, of a
   "body" the lines of a function's body, of a "type" the pieces of a type.  *)
Unspaced(text) == SelectSeq(text, LAMBDA c : c \notin {" ", "\n", "\t"})
WholeRead(r, src) == LET toks == Go!Scan(src)
                     IN  r.i >= Len(toks) /\ Go!Tok(toks, r.i) \in {"EOF", "SEMICOLON"}

(* Every piece ends an operand, so what may follow depends on the brackets
   that are open and on what the piece itself begins with.                   *)
Starts == {<<"a">>, <<"+", "a">>, <<"*", "a">>, <<"*", "(", "a">>, <<"(", "a">>, <<"!", "a">>}
EndsInName(piece) == Last(piece) \in {"a", "x"}
ExprAccepted(w) ==
    LET Do(st, k) ==
          LET piece == w[k]
              closes == piece \in {<<")">>, <<"]">>}
              open == IF closes THEN st.open # <<>> /\ Last(st.open) = piece[1] ELSE TRUE
              fits == IF k = 1 THEN piece \in Starts
                      ELSE /\ piece = <<"a">> => EndsInName(w[k - 1])
                           /\ piece # <<"!", "a">>
          IN  [ok |-> st.ok /\ open /\ fits,
               open |-> IF closes THEN IF st.open = <<>> THEN <<>> ELSE Front(st.open)
                        ELSE IF piece = <<"(", "a">> \/ (Len(piece) > 1 /\ piece[2] = "(") THEN Append(st.open, ")")
                        ELSE IF piece = <<"[", "a">> THEN Append(st.open, "]") ELSE st.open]
        end == FoldLeft(Do, [ok |-> TRUE, open |-> <<>>], [k \in DOMAIN w |-> k])
    IN  w # <<>> /\ end.ok /\ end.open = <<>>

(* A tree whose text is the source and whose operators bind as their precedence
   says, equal ones to the left, is the only one.                            *)
RECURSIVE BindsTightly(_)
BindsTightly(n) ==
    CASE n.k = "BinaryExpr" ->
           LET p(e) == IF e.k = "BinaryExpr" THEN Go!BinPrec(e.op) ELSE 9
           IN  p(n.x) >= Go!BinPrec(n.op) /\ p(n.y) > Go!BinPrec(n.op) /\ BindsTightly(n.x) /\ BindsTightly(n.y)
      [] n.k = "UnaryExpr" -> n.x.k # "BinaryExpr" /\ BindsTightly(n.x)
      [] n.k = "ParenExpr" -> BindsTightly(n.x)
      [] n.k = "SelectorExpr" -> n.x.k \notin {"BinaryExpr", "UnaryExpr"} /\ BindsTightly(n.x)
      [] n.k = "IndexExpr" -> n.x.k \notin {"BinaryExpr", "UnaryExpr"} /\ BindsTightly(n.x) /\ BindsTightly(n.y)
      [] n.k = "CallExpr" -> n.x.k \notin {"BinaryExpr", "UnaryExpr"} /\ BindsTightly(n.x)
                             /\ \A i \in DOMAIN n.args : BindsTightly(n.args[i])
      [] OTHER -> TRUE
ExprReadsBack(w) ==
    LET src == FlattenSeq(w)
        r == Go!ParseExprText(src)
        text == Go!Sprint(r.n)
    IN  /\ WholeRead(r, src) <=> ExprAccepted(w)
        /\ WholeRead(r, src) => /\ Unspaced(text) = src
                                /\ BindsTightly(r.n)
                                /\ Go!ParseExprText(text).n = r.n

(* A file that declares x, p and the types T and U, and a block with the lines
   of the word and what closes them.                                         *)
Lines(ls) == FlattenSeq([k \in DOMAIN ls |-> Append(ls[k], "\n")])
File == Lines(<< <<"package", " ", "p">>, <<"type", " ", "T", " ", "int">>,
            <<"type", " ", "U", "[", "e", " ", "any", "]", "*", "e">>,
            <<"func", "(", "x", "*", "T", ")", "M", "(", ")", "int", "{">>, <<"return", " ", "1">>, <<"}">>,
            <<"func", " ", "a", "(", ")", "{">>, <<"var", " ", "x", " ", "map", "[", "string", "]", "int">>,
            <<"var", " ", "p", "*", "T">>, <<"const", " ", "e", "=", "1">>,
            <<"for", " ", "o", ":", "=", "e", ";", "o", "<", "9", ";", "o", "+", "+", "{">>, <<"break">>,
            <<"}">>, <<"for", "{">>, <<"return">>, <<"}">>, <<"}">> >>)
IfLine == <<"if", " ", "a", "=", "=", "b", "{">>
ElseLine == <<"}", "else", "{">>
SwitchLine == <<"switch", " ", "a", "{">>
CaseLine == <<"case", " ", "b", ":">>
RangeLine == <<"for", " ", "b", ",", "a", ":", "=", "range", " ", "x", "{">>
Close == <<"}">>
AssignLines == {<<"a", ":", "=", "1">>, <<"a", ":", "=", "T", "(", "1", ")">>, <<"b", ":", "=", "a">>,
                <<"b", ":", "=", "p", ".", "M", "(", ")">>, <<"b", ":", "=", "[", "]", "T", "{", "a", "}">>,
                <<"a", "=", "x", "[", "b", "]">>, <<"a", "=", "b">>,
                <<"var", " ", "b", " ", "int", "=", "a">>}

(* The blocks that are open, outermost first. *)
Blocks(w) ==
    LET Do(st, line) ==
          LET top == IF st = <<>> THEN "" ELSE Last(st)
          IN  CASE top = "bad" -> st
                [] line = ElseLine /\ top = "if" -> Append(Front(st), "block")
                [] line = CaseLine /\ top \in {"switch", "case"} -> Append(Front(st), "case")
                [] line = Close /\ top # "" -> Front(st)
                [] line \in {ElseLine, CaseLine, Close} \/ top = "switch" -> Append(st, "bad")
                [] line = IfLine -> Append(st, "if")
                [] line = SwitchLine -> Append(st, "switch")
                [] line = RangeLine -> Append(st, "block")
                [] OTHER -> st
    IN  FoldLeft(Do, <<>>, w)
Nested(w) == "bad" \notin Range(Blocks(w))
Source(w) == <<"{">> \o Lines(w \o Times(Len(Blocks(w)) + 1, Close))
ParseSource(text) == Go!ParseBlock(Go!Scan(text), 1, TRUE)

BodyReadsBack(w) ==
    LET r == ParseSource(Source(w))
    IN  /\ WholeRead(r, Source(w)) <=> Nested(w)
        /\ Nested(w) => ParseSource(Go!Sprint(r.n)).n = r.n
FileReadsBack(src) ==
    LET r == Go!ParseFile(src)
    IN  WholeRead(r, src) /\ Go!ParseFile(Go!Sprint(r.n)).n = r.n

(* Source that is printed parses to the tree it was printed from, and a tree is
   what the precedences and brackets of its source make it (one sign directly
   before the same sign excepted, which are printed as one operator); what is
   not well formed is refused.                                               *)
Printing(u, w) ==
    /\ u = "expr" => ExprReadsBack(w)
    /\ u = "body" => BodyReadsBack(w)
    /\ u = "body" /\ w = <<>> => FileReadsBack(File)
PrintedSourceParsesBack == [][Printing(unit', word')]_vars

-----------------------------------------------------------------------------
(* Types.  Read line by line, a body binds a and b to types; a binding replaces
   the one before it, whatever block it was in.                              *)
T == <<"T">>
IntT == Go!IntType
Typing(w) ==
    LET Bound(st, x, t) == [st EXCEPT ![x] = t]
        Fits(st, ok) == IF ok THEN st ELSE [st EXCEPT !.ok = FALSE]
        same(st) == st.a # <<>> /\ st.a = st.b
        Do(st, line) ==
          CASE line = <<"a", ":", "=", "1">> -> Bound(st, "a", IntT)
            [] line = <<"a", ":", "=", "T", "(", "1", ")">> -> Bound(st, "a", T)
            [] line = <<"b", ":", "=", "a">> -> Bound(Fits(st, st.a # <<>>), "b", st.a)
            [] line = <<"b", ":", "=", "p", ".", "M", "(", ")">> -> Bound(st, "b", IntT)
            [] line = <<"b", ":", "=", "[", "]", "T", "{", "a", "}">> ->
                 Bound(Fits(st, st.a = T), "b", <<"[", "]", "T">>)
            [] line = <<"a", "=", "x", "[", "b", "]">> -> Fits(st, st.a = IntT /\ st.b = <<"string">>)
            [] line = <<"var", " ", "b", " ", "int", "=", "a">> -> Bound(Fits(st, st.a = IntT), "b", IntT)
            [] line = RangeLine -> Bound(Bound([st EXCEPT !.tags = Append(@, <<>>)], "b", <<"string">>), "a", IntT)
            [] line = IfLine -> [Fits(st, same(st)) EXCEPT !.tags = Append(@, <<>>)]
            [] line = SwitchLine -> [Fits(st, st.a # <<>>) EXCEPT !.tags = Append(@, st.a)]
            [] line = CaseLine -> Fits(st, st.b # <<>> /\ Last(st.tags) = st.b)
            [] line = Close -> [st EXCEPT !.tags = Front(@)]
            [] line = ElseLine -> st
            [] OTHER -> Fits(st, same(st))
    IN  FoldLeft(Do, [a |-> <<>>, b |-> <<>>, tags |-> <<>>, ok |-> TRUE], w)
Declared ==
    LET f == Go!ParseFile(File).n
    IN  Go!CheckStmt(Go!CheckFile(Go!NewChecker(Go!BasicTable), f), Last(f.list).body)
BodyTypes(w) ==
    LET c == Go!CheckStmt(Declared, ParseSource(Source(w)).n)
        ref == Typing(w)
        typeOf(x) == IF x \in DOMAIN c.env THEN c.env[x] ELSE <<>>
    IN  Nested(w) => /\ ~c.err <=> ref.ok
                     /\ ref.ok => typeOf(<<"a">>) = ref.a /\ typeOf(<<"b">>) = ref.b

(* The types a key is made of are in the table, under their own keys. *)
Spelling(c, key) ==
    LET t == c.tab[key]
    IN  CASE t.kind = "Pointer" -> key = <<"*">> \o t.elem
          [] t.kind = "Slice" -> key = <<"[", "]">> \o t.elem
          [] t.kind = "Map" -> key = <<"map", "[">> \o t.key \o <<"]">> \o t.elem
          [] t.kind = "Named" /\ key[1] = "U" -> key = <<"U", "[">> \o Tail(t.elem) \o <<"]">>
          [] OTHER -> TRUE
TypeKeys(src) ==
    LET Read(text) == Go!ParseType(Go!Scan(text), 1)
        r == Read(src)
        typed == Go!TypeFromNode(Declared, r.n, Go!NoNames)
        again == Go!TypeFromNode(typed.c, Read(typed.t).n, Go!NoNames)
    IN  WholeRead(r, src) /\ ~typed.c.err =>
            /\ Read(typed.t).n = r.n
            /\ again = typed
            /\ \A key \in DOMAIN typed.c.tab : Spelling(typed.c, key)

(* The checker accepts a body exactly when it has a typing, and binds the names
   to the types of that typing; and the key a type is interned under is the type
   written out, so types are identical when their keys are: it reads back as the
   type, finds the entries it was interned with, and adds none.              *)
TypeIdentity(u, w) ==
    /\ u = "body" => BodyTypes(w)
    /\ u = "type" => TypeKeys(FlattenSeq(w))
TypesAreExact == [][TypeIdentity(unit', word')]_vars

-----------------------------------------------------------------------------
Symbols == [huffman |-> 0..3, lzw |-> {0, 3}, flate |-> {97, 200}, bzip2 |-> {3, 200},
            rect |-> 0..2, filter |-> {0, 100, 255}, png |-> {<<0, 0, 0, 0>>, <<255, 1, 2, 255>>},
            gif |-> {1, 3}, jpeg |-> {-3, 2}, digest |-> {1, 8, 47, 64, 136},
            big |-> {-101, -100, -12, -9, -1, 0, 2, 7, 10, 99, 100}, const |-> -32..31,
            sort |-> 0..2, ring |-> 1..4, string |-> {97, 98, 32}, path |-> {"/", ".", "a"},
            regexp |-> {<<40, 97>>, <<41>>, <<42>>, <<63>>, <<124>>, <<98>>, <<91, 94, 97, 93>>},
            json |-> {<<123>>, <<125>>, <<91>>, <<93>>, <<44>>, <<49, 46, 53>>, <<34, 97, 34, 58>>,
                      En!Letters.null},
            text |-> {34, 92, 10, 97, 37, 43, 32, 195, 1}, url |-> {97, 47, 58, 63, 35},
            csv |-> {"a", ",", En!DoubleQuote, En!LF, En!CR, En!Blank, "F", "R"},
            scan |-> {<<"a">>, <<"é">>, <<"0">>, <<".">>, <<"\n">>, <<"\"">>, <<"\\">>, <<"bq">>,
                      <<"/", "*">>, <<"*", "/">>, <<"/", "/">>},
            template |-> {<<"t">>} \cup {Act(w) : w \in {<<"if", "A">>, <<"if", "B">>, <<"else">>,
                                                      <<"end">>, <<"C">>, <<"X">>}},
            expr |-> {<<"a">>, <<"+", "a">>, <<"*", "a">>, <<"=", "=", "a">>, <<"(", "a">>, <<"*", "(", "a">>,
                      <<")">>, <<"[", "a">>, <<"]">>, <<".", "x">>, <<"!", "a">>},
            body |-> AssignLines \cup {IfLine, ElseLine, RangeLine, SwitchLine, CaseLine, Close},
            type |-> {<<"int">>, <<"*">>, <<"[", "]">>, <<"map", "[", "T", "]">>, <<"func", "(">>,
                      <<",", "*", "T">>, <<")">>, <<")", "(", "int">>, <<"struct", "{", "x", " ">>,
                      <<"interface", "{", "M", "(">>, <<"}">>, <<"U", "[">>, <<"]">>}]
Longest == [huffman |-> 5, lzw |-> 12, flate |-> 8, bzip2 |-> 7,
            rect |-> 8, filter |-> 6, png |-> 4, gif |-> 9, jpeg |-> 3, digest |-> 3,
            big |-> 3, const |-> 2, sort |-> 7, ring |-> 4, string |-> 6, path |-> 6, regexp |-> 5,
            json |-> 5, text |-> 4, url |-> 6, csv |-> 5, scan |-> 4, template |-> 6, expr |-> 4, body |-> 3, type |-> 4]

Init == unit = "none" /\ word = <<>>
Pick(u) == unit = "none" /\ unit' = u /\ UNCHANGED word
Extend(x) == Len(word) < Longest[unit] /\ word' = Append(word, x) /\ UNCHANGED unit
Next == \/ \E u \in DOMAIN Symbols : Pick(u)
        \/ unit # "none" /\ \E x \in Symbols[unit] : Extend(x)
Spec == Init /\ [][Next]_vars
=============================================================================
