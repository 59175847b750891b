---------------------------------- MODULE Png ----------------------------------
(* image/png: the encoder, one IDAT chunk of unfiltered rows of colour type 6,
   and the decoder of colour types 0, 2 and 6 with the five row filters.  A
   pixel is <<r, g, b, a>>, an image [w, h, pix], its pixels row by row.      *)
EXTENDS Flate

Signature == <<137, 80, 78, 71, 13, 10, 26, 10>>
IHDR == <<73, 72, 68, 82>>
IDAT == <<73, 68, 65, 84>>
IEND == <<73, 69, 78, 68>>

BigEndian(n) == Reverse(Bytes(n, 4))
Number(b) == FoldLeft(LAMBDA acc, x : 256 * acc + x, 0, b)

WriteChunk(typ, data) ==
    BigEndian(Len(data)) \o typ \o data \o WordBytes(ChecksumIEEE(typ \o data), 4)

Row(img, y) == FlattenSeq(SubSeq(img.pix, (y - 1) * img.w + 1, y * img.w))

Encode(img) ==
    Signature
    \o WriteChunk(IHDR, BigEndian(img.w) \o BigEndian(img.h) \o <<8, 6, 0, 0, 0>>)
    \o WriteChunk(IDAT, ZlibClose(FlattenSeq([y \in 1..img.h |-> <<0>> \o Row(img, y)])))
    \o WriteChunk(IEND, <<>>)

-----------------------------------------------------------------------------
(* Row filters: a is the byte one pixel to the left, b the one above, c the
   one above a.                                                              *)
Distance(x, y) == IF x > y THEN x - y ELSE y - x

Paeth(a, b, c) ==
    LET p == a + b - c
    IN  IF Distance(p, a) <= Distance(p, b) /\ Distance(p, a) <= Distance(p, c) THEN a
        ELSE IF Distance(p, b) <= Distance(p, c) THEN b ELSE c

Predicted(filter, a, b, c) ==
    CASE filter = 1 -> a [] filter = 2 -> b [] filter = 3 -> (a + b) \div 2
      [] filter = 4 -> Paeth(a, b, c) [] OTHER -> 0

Unfilter(line, prev, filter, bpp) ==
    LET Next(done, x) ==
          LET i == Len(done) + 1
              a == IF i > bpp THEN done[i - bpp] ELSE 0
              c == IF i > bpp THEN prev[i - bpp] ELSE 0
          IN  Append(done, (x + Predicted(filter, a, prev[i], c)) % 256)
    IN  FoldLeft(Next, <<>>, line)

-----------------------------------------------------------------------------
(* The decoder.  s is what the chunks said so far; err is "panic" where the
   code slices past the end of a short row or header.                        *)
Start == [w |-> 0, h |-> 0, depth |-> 0, color |-> 0, idat |-> <<>>, at |-> 9, err |-> "", end |-> FALSE]

Chunk(file, s) ==
    LET length == Number(SubSeq(file, s.at, s.at + 3))
        typ == SubSeq(file, s.at + 4, s.at + 7)
        data == SubSeq(file, s.at + 8, s.at + 7 + length)
        crc == SubSeq(file, s.at + 8 + length, s.at + 11 + length)
        after == [s EXCEPT !.at = @ + 12 + length]
    IN  IF s.at + 3 > Len(file) \/ s.at + 11 + length > Len(file) THEN [s EXCEPT !.err = "EOF"]
        ELSE IF crc # WordBytes(ChecksumIEEE(typ \o data), 4)
        THEN [s EXCEPT !.err = "chunk checksum mismatch"]
        ELSE IF typ = IHDR /\ length < 10 THEN [s EXCEPT !.err = "panic"]
        ELSE IF typ = IHDR
        THEN [after EXCEPT !.w = Number(SubSeq(data, 1, 4)), !.h = Number(SubSeq(data, 5, 8)),
                           !.depth = data[9], !.color = data[10]]
        ELSE IF typ = IDAT THEN [after EXCEPT !.idat = @ \o data]
        ELSE [after EXCEPT !.end = typ = IEND]

RECURSIVE Chunks(_, _)
Chunks(file, s) == IF s.end \/ s.err # "" THEN s ELSE Chunks(file, Chunk(file, s))

Bpp(color) == CASE color = 6 -> 4 [] color = 2 -> 3 [] color = 0 -> 1
Pixel(line, x, color) ==
    LET at == (x - 1) * Bpp(color)
    IN  CASE color = 6 -> SubSeq(line, at + 1, at + 4)
          [] color = 2 -> SubSeq(line, at + 1, at + 3) \o <<255>>
          [] color = 0 -> <<line[x], line[x], line[x], 255>>

(* d has the pixels so far, the row above and the position in raw. *)
DecodeRow(d, raw, s) ==
    LET stride == s.w * Bpp(s.color)
        line == Unfilter(SubSeq(raw, d.pos + 1, d.pos + stride), d.prev, raw[d.pos], Bpp(s.color))
    IN  IF d.err # "" THEN d
        ELSE IF d.pos > Len(raw) THEN [d EXCEPT !.err = "invalid format"]
        ELSE IF d.pos + stride > Len(raw) THEN [d EXCEPT !.err = "panic"]
        ELSE [d EXCEPT !.pos = @ + stride + 1, !.prev = line,
                       !.pix = @ \o [x \in 1..s.w |-> Pixel(line, x, s.color)]]

Decoded(s, pix, e) == [w |-> s.w, h |-> s.h, pix |-> pix, err |-> e]

Decode(file) ==
    LET s == Chunks(file, Start)
        z == ZlibRead(s.idat)
        first == [pix |-> <<>>, prev |-> Same(s.w * Bpp(s.color), 0), pos |-> 1, err |-> ""]
        d == FoldLeft(LAMBDA acc, y : DecodeRow(acc, z.out, s), first, Same(s.h, 0))
    IN  IF Len(file) < 8 THEN Decoded(Start, <<>>, "EOF")
        ELSE IF SubSeq(file, 1, 8) # Signature THEN Decoded(Start, <<>>, "invalid format")
        ELSE IF s.err # "" THEN Decoded(s, <<>>, s.err)
        ELSE IF s.depth # 8 \/ s.color \notin {0, 2, 6}
        THEN Decoded(s, <<>>, "unsupported PNG feature")
        ELSE IF z.err # "" THEN Decoded(s, <<>>, z.err)
        ELSE Decoded(s, IF d.err = "" THEN d.pix ELSE <<>>, d.err)
=============================================================================
