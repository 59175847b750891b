---------------------------------- MODULE Lzw ----------------------------------
(* compress/lzw: the variable-width LZW writer and reader.  The compressed
   stream is a sequence of bits, in the order the reader takes them from the
   bytes: low bits first for LSB, high bits first for MSB.  A reader can only
   take bits of whole bytes, so Close pads the stream to a multiple of 8.

   MaxWidth is the width at which the dictionary is full, 12 in the code.    *)
EXTENDS Integers, Sequences, SequencesExt

CONSTANT MaxWidth
MaxCode == 2^MaxWidth - 1

LSB == "LSB"
MSB == "MSB"
ClearCode(z) == 2^z.litWidth
EofCode(z) == ClearCode(z) + 1

(* A code of the current width, as bits of the stream. *)
CodeBits(order, code, width) ==
    [i \in 1..width |-> (code \div 2^(IF order = LSB THEN i - 1 ELSE width - i)) % 2]

CodeOf(order, bits) ==
    LET msb == IF order = LSB THEN Reverse(bits) ELSE bits
    IN  FoldLeft(LAMBDA acc, b : 2 * acc + b, 0, msb)

-----------------------------------------------------------------------------
(* The writer. dict maps the strings of two and more bytes to their codes. *)
NewWriter(order, litWidth) ==
    [order |-> order, litWidth |-> litWidth, nextCode |-> 2^litWidth + 2,
     codeWidth |-> litWidth + 1, dict |-> {}, prefix |-> <<>>, started |-> FALSE, out |-> <<>>]

Emit(w, code) == [w EXCEPT !.out = @ \o CodeBits(w.order, code, w.codeWidth)]

ResetDict(w) == [w EXCEPT !.dict = {}, !.nextCode = EofCode(w) + 1, !.codeWidth = w.litWidth + 1]

Known(w, s) == \E e \in w.dict : e.s = s

CodeFor(w, prefix) ==
    IF Len(prefix) = 1 THEN prefix[1] ELSE (CHOOSE e \in w.dict : e.s = prefix).code

Start(w) == IF w.started THEN w ELSE [Emit(w, ClearCode(w)) EXCEPT !.started = TRUE]

(* candidate becomes the next code; a full dictionary is cleared. *)
Learn(w, candidate) ==
    LET next == w.nextCode + 1
        learnt == [w EXCEPT !.dict = @ \cup {[s |-> candidate, code |-> w.nextCode]},
                            !.nextCode = next,
                            !.codeWidth = IF next = 2^@ /\ @ < MaxWidth THEN @ + 1 ELSE @]
    IN  IF w.nextCode > MaxCode THEN w
        ELSE IF next > MaxCode THEN ResetDict(Emit(learnt, ClearCode(w)))
        ELSE learnt

WriteByte(w, b) ==
    LET candidate == Append(w.prefix, b)
    IN  IF w.prefix = <<>> \/ Known(w, candidate) THEN [w EXCEPT !.prefix = candidate]
        ELSE [Learn(Emit(w, CodeFor(w, w.prefix)), candidate) EXCEPT !.prefix = <<b>>]

Write(w, p) == FoldLeft(WriteByte, Start(w), p)

Padded(bits) == bits \o [i \in 1..((8 - (Len(bits) % 8)) % 8) |-> 0]

Close(w) ==
    LET s == Start(w)
        last == IF s.prefix = <<>> THEN s ELSE [Emit(s, CodeFor(s, s.prefix)) EXCEPT !.prefix = <<>>]
        end == Emit(last, EofCode(w))
    IN  [end EXCEPT !.out = Padded(@)]

-----------------------------------------------------------------------------
(* The reader: in is what is left of the stream, dict the strings by code,
   <<>> where there is none.                                                 *)
Literals(litWidth) == [c \in 0..(2^litWidth + 1) |-> IF c < 2^litWidth THEN <<c>> ELSE <<>>]

NewReader(order, litWidth, in) ==
    [order |-> order, litWidth |-> litWidth, nextCode |-> 2^litWidth + 2,
     codeWidth |-> litWidth + 1, dict |-> Literals(litWidth), prev |-> <<>>,
     out |-> <<>>, done |-> FALSE, err |-> "", in |-> in]

ResetReader(r) ==
    [r EXCEPT !.dict = Literals(r.litWidth), !.nextCode = EofCode(r) + 1,
              !.codeWidth = r.litWidth + 1, !.prev = <<>>]

(* The entry of a code: known, or the one about to be learnt. *)
EntryOf(r, code) ==
    IF code \in DOMAIN r.dict /\ r.dict[code] # <<>> THEN r.dict[code]
    ELSE IF code = r.nextCode /\ r.prev # <<>> THEN Append(r.prev, r.prev[1])
    ELSE <<>>

LearnEntry_WidthLate(r, entry) ==
    LET next == r.nextCode + 1
    IN  IF r.prev = <<>> THEN r
        ELSE [r EXCEPT !.dict = [c \in DOMAIN @ \cup {r.nextCode} |->
                                   IF c = r.nextCode THEN Append(r.prev, entry[1]) ELSE @[c]],
                       !.nextCode = next,
                       !.codeWidth = IF next = 2^@ /\ @ < MaxWidth THEN @ + 1 ELSE @]

(* The dictionary lags the writer's by one entry, so the width grows one
   entry before the writer's does.                                           *)
LearnEntry(r, entry) ==
    LET next == r.nextCode + 1
        new == Append(r.prev, entry[1])
    IN  IF r.prev = <<>> THEN r
        ELSE [r EXCEPT !.dict = [c \in DOMAIN @ \cup {r.nextCode} |->
                                   IF c = r.nextCode THEN new ELSE @[c]],
                       !.nextCode = next,
                       !.codeWidth = IF next = 2^@ - 1 /\ @ < MaxWidth THEN @ + 1 ELSE @]

(* One code; a stream that is used up ends like the EOF code. *)
DecodeNext(r) ==
    LET code == CodeOf(r.order, SubSeq(r.in, 1, r.codeWidth))
        taken == [r EXCEPT !.in = SubSeq(@, r.codeWidth + 1, Len(@))]
        entry == EntryOf(r, code)
    IN  IF Len(r.in) < r.codeWidth THEN [r EXCEPT !.done = TRUE]
        ELSE IF code = ClearCode(r) THEN ResetReader(taken)
        ELSE IF code = EofCode(r) THEN [taken EXCEPT !.done = TRUE]
        ELSE IF entry = <<>> THEN [taken EXCEPT !.err = "invalid code", !.done = TRUE]
        ELSE [LearnEntry(taken, entry) EXCEPT !.prev = entry, !.out = @ \o entry]

RECURSIVE ReadAll(_)
ReadAll(r) == IF r.done THEN r ELSE ReadAll(DecodeNext(r))

-----------------------------------------------------------------------------
(* image/gif: decoding the first image of a file.  A file is [version, table,
   sections], a colour table a sequence of <<r, g, b>>, empty when there is
   none.  The sections are, in order,
     [kind |-> "gce", ok, transparent, index]   a graphic control extension,
     [kind |-> "ext", ended]                    any other extension,
     [kind |-> "image", left, top, w, h, table, interlaced, litWidth, blocks,
      ended]                                    an image and its sub-blocks,
     [kind |-> "trailer"] and [kind |-> "unknown"];
   ended says that the sub-blocks have their terminator.                      *)
ByteBits(b) == [i \in 1..8 |-> (b \div 2^(i - 1)) % 2]

(* The decompressor is read until the image has its n pixels, no further. *)
RECURSIVE ReadPixels(_, _)
ReadPixels(r, n) == IF r.done \/ Len(r.out) >= n THEN r ELSE ReadPixels(DecodeNext(r), n)

InterlaceSkip == <<8, 8, 4, 2>>
InterlaceStart == <<0, 4, 2, 1>>

(* The rows of the picture in the order they are sent. *)
Passes(h) ==
    FlattenSeq([p \in 1..4 |->
      IF InterlaceStart[p] >= h THEN <<>>
      ELSE [k \in 1..((h - 1 - InterlaceStart[p]) \div InterlaceSkip[p] + 1) |->
              InterlaceStart[p] + (k - 1) * InterlaceSkip[p]]])

Deinterlace(pix, w, h) ==
    LET passes == Passes(h)
        source(y) == CHOOSE k \in 1..h : passes[k] = y
    IN  [i \in 1..(w * h) |-> pix[(source((i - 1) \div w) - 1) * w + ((i - 1) % w) + 1]]

Failed(e) == [err |-> e]
Shown(table, st, index) ==
    IF st.transparent /\ index = st.index THEN <<0, 0, 0, 0>> ELSE Append(table[index + 1], 255)

(* st: the transparent colour of the last control extension. *)
DecodeImage(file, s, st) ==
    LET table == IF s.table # <<>> THEN s.table ELSE file.table
        bits == FlattenSeq([k \in DOMAIN s.blocks |->
                              FlattenSeq([j \in DOMAIN s.blocks[k] |-> ByteBits(s.blocks[k][j])])])
        r == ReadPixels(NewReader("LSB", s.litWidth, bits), s.w * s.h)
        sent == SubSeq(r.out, 1, s.w * s.h)
        pix == IF s.interlaced THEN Deinterlace(sent, s.w, s.h) ELSE sent
    IN  IF table = <<>> THEN Failed("no color table")
        ELSE IF s.litWidth \notin 2..8 THEN Failed("invalid format")
        ELSE IF Len(r.out) < s.w * s.h THEN Failed("not enough image data")
        ELSE IF ~s.ended THEN Failed("EOF")
        ELSE IF \E i \in DOMAIN pix : pix[i] >= Len(table) THEN Failed("invalid pixel value")
        ELSE [err |-> "", left |-> s.left, top |-> s.top, w |-> s.w, h |-> s.h,
              pix |-> [i \in DOMAIN pix |-> Shown(table, st, pix[i])]]

RECURSIVE DecodeFrom(_, _, _)
DecodeFrom(file, i, st) ==
    LET s == file.sections[i]
    IN  IF i > Len(file.sections) THEN Failed("EOF")
        ELSE CASE s.kind = "trailer" -> Failed("missing image data")
               [] s.kind = "gce" -> IF ~s.ok THEN Failed("invalid format")
                                    ELSE DecodeFrom(file, i + 1, [transparent |-> s.transparent,
                                                                  index |-> s.index])
               [] s.kind = "ext" -> IF s.ended THEN DecodeFrom(file, i + 1, st) ELSE Failed("EOF")
               [] s.kind = "image" -> DecodeImage(file, s, st)
               [] OTHER -> Failed("unknown block type")

Decode(file) ==
    IF file.version \notin {"GIF87a", "GIF89a"} THEN Failed("invalid format")
    ELSE DecodeFrom(file, 1, [transparent |-> FALSE, index |-> 0])
=============================================================================
