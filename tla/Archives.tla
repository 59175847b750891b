------------------------------- MODULE Archives --------------------------------
(* archive/zip and archive/tar, two machines that share nothing.

   archive/zip.  The file under the Writer is the sequence of the writes that
   reached it; each has the offset it starts at and a length in bytes.  A write
   that fails may leave a part of itself in the file, up to all of it, and the
   Writer counts nothing of that.  Compression is external: what it makes of a
   content is longer than the content by one, and the CRC of a content stands
   for the content.

   Names and Chunks are the names and the pieces of content that are used,
   MaxEntries, MaxContent and MaxFile bound the runs, Torn is how many bytes a
   failing write may leave.  One that has left bytes is the last to fail: this
   too is a bound.                                                             *)
EXTENDS Integers, Sequences, SequencesExt, FiniteSetsExt

CONSTANTS Names, Chunks, MaxEntries, MaxContent, MaxFile, Torn

ASSUME ZipAssumption == /\ Names \subseteq Seq(STRING) /\ Chunks \subseteq Seq(Nat)
                        /\ Torn \union {MaxEntries, MaxContent, MaxFile} \subseteq Nat

VARIABLES entries,      \* Writer.entries
          current,      \* the index of Writer.current, 0 for nil
          written,      \* Writer.written
          file,         \* what reached the io.Writer
          ends,         \* how many end records did
          sealed,       \* the content an entry had when it was written out
          zipTorn       \* a failed call has left bytes in the file
zipVars == <<entries, current, written, file, ends, sealed, zipTorn>>

LocalLen == 30
CentralLen == 46
EndLen == 22

ZipInit == /\ entries = <<>> /\ current = 0 /\ written = 0
           /\ file = <<>> /\ ends = 0 /\ sealed = <<>> /\ zipTorn = FALSE

-----------------------------------------------------------------------------
Compressed(buf) == [kind |-> "data", content |-> buf, len |-> Len(buf) + 1]
LocalHeader(e) == [kind |-> "local", name |-> e.name, len |-> LocalLen]
CentralHeader(e) ==
    [kind |-> "central", name |-> e.name, crc |-> e.crc, comp |-> e.comp,
     offset |-> e.offset, len |-> CentralLen]
NameOf(e) == [kind |-> "name", name |-> e.name, len |-> Len(e.name)]
Pieces(e) == <<LocalHeader(e), NameOf(e), Compressed(e.buf)>>

(* What a failing write leaves: n bytes of a piece. *)
Rest(n) == IF n = 0 THEN <<>> ELSE <<[kind |-> "part", len |-> n]>>

(* The sum of the lengths before the i-th: where the i-th piece starts. *)
SumBefore(lens, i) ==
    LET sum[k \in 0..Len(lens)] == IF k = 0 THEN 0 ELSE sum[k - 1] + lens[k]
    IN  sum[i - 1]
Start(pieces, i) == SumBefore([k \in DOMAIN pieces |-> pieces[k].len], i)
Length(pieces) == Start(pieces, Len(pieces) + 1)

(* finishCurrent, when the first k of its three writes succeed. *)
Finished(k) ==
    LET e == entries[current]
        done == [e EXCEPT !.crc = e.buf, !.comp = Compressed(e.buf).len, !.offset = written]
        out == SubSeq(Pieces(done), 1, k)
    IN  [entries |-> [entries EXCEPT ![current] = done],
         current |-> IF k = 3 THEN 0 ELSE current,
         written |-> written + Length(out),
         file |-> file \o out,
         sealed |-> IF k = 3 THEN [sealed EXCEPT ![current] = done.buf] ELSE sealed]
Unfinished ==
    [entries |-> entries, current |-> current, written |-> written, file |-> file, sealed |-> sealed]
FinishCurrent(k) == IF current = 0 THEN Unfinished ELSE Finished(k)

Becomes(w) == /\ entries' = w.entries /\ current' = w.current /\ written' = w.written
              /\ file' = w.file /\ sealed' = w.sealed

Create(name) ==
    LET w == FinishCurrent(3)
        e == [name |-> name, buf |-> <<>>, crc |-> <<>>, comp |-> 0, offset |-> 0]
    IN  /\ Len(entries) < MaxEntries
        /\ Becomes([w EXCEPT !.entries = Append(@, e), !.current = Len(entries) + 1,
                             !.sealed = Append(@, <<>>)])
        /\ UNCHANGED <<ends, zipTorn>>

(* The write of finishCurrent after the first k fails: Create and Close return
   its error.                                                                 *)
FinishFails(k, n) ==
    /\ current # 0 /\ Len(file) < MaxFile /\ ~zipTorn
    /\ n <= Pieces(entries[current])[k + 1].len
    /\ Becomes([Finished(k) EXCEPT !.file = @ \o Rest(n)])
    /\ zipTorn' = (n > 0)
    /\ UNCHANGED ends

(* entryWriter.Write: to any entry ever created, also one that is written. *)
WriteEntry(i, chunk) ==
    /\ i \in DOMAIN entries
    /\ Len(entries[i].buf) < MaxContent
    /\ entries' = [entries EXCEPT ![i].buf = @ \o chunk]
    /\ UNCHANGED <<current, written, file, ends, sealed, zipTorn>>

(* The central directory and the end record; the length of the end record is
   not added to written.                                                     *)
Directory(w) == [i \in 1..(2 * Len(w.entries)) |->
                   LET e == w.entries[(i + 1) \div 2]
                   IN  IF i % 2 = 1 THEN CentralHeader(e) ELSE NameOf(e)]
EndRecord_AfterDirectory(w) ==
    [kind |-> "end", count |-> Len(w.entries), start |-> w.written + Length(Directory(w)), len |-> EndLen]

EndRecord(w) ==
    [kind |-> "end", count |-> Len(w.entries), start |-> w.written, len |-> EndLen]

Close ==
    LET w == FinishCurrent(3)
    IN  /\ Len(file) < MaxFile
        /\ Becomes([w EXCEPT !.written = @ + Length(Directory(w)),
                             !.file = @ \o Directory(w) \o <<EndRecord(w)>>])
        /\ ends' = ends + 1 /\ UNCHANGED zipTorn

(* Close fails after k writes of the directory, at the next or at the end record. *)
CloseFails(k, n) ==
    LET w == FinishCurrent(3)
        out == SubSeq(Directory(w), 1, k)
    IN  /\ Len(file) < MaxFile /\ ~zipTorn /\ k <= Len(Directory(w))
        /\ n <= (Directory(w) \o <<EndRecord(w)>>)[k + 1].len
        /\ Becomes([w EXCEPT !.written = @ + Length(out), !.file = @ \o out \o Rest(n)])
        /\ zipTorn' = (n > 0)
        /\ UNCHANGED ends

ZipNext ==
    \/ \E name \in Names : Create(name)
    \/ \E k \in 0..2, n \in Torn : FinishFails(k, n)
    \/ \E i \in 1..MaxEntries, chunk \in Chunks : WriteEntry(i, chunk)
    \/ Close
    \/ \E k \in 0..(2 * MaxEntries), n \in Torn : CloseFails(k, n)

-----------------------------------------------------------------------------
(* NewReader and File.Open, read to the end: the last end record, then count
   central headers from its start on; err when one is not where it should be. *)
PieceAt(off, kind) ==
    LET found == {i \in DOMAIN file : /\ file[i].kind = kind /\ file[i].len > 0
                                      /\ Start(file, i) = off}
    IN  IF found = {} THEN [kind |-> "none", name |-> <<>>] ELSE file[Max(found)]

OpenFile(h) ==
    LET local == PieceAt(h.offset, "local")
        data == PieceAt(h.offset + LocalLen + Len(local.name), "data")
        ok == local.kind # "none" /\ data.kind # "none"
    IN  [name |-> h.name,
         content |-> IF ok THEN data.content ELSE <<>>,
         ok |-> ok /\ h.comp = data.len /\ h.crc = data.content]

HeaderStarts(start, count) ==
    LET pos[i \in 0..count] ==
          IF i = 0 THEN start
          ELSE pos[i - 1] + CentralLen + Len(PieceAt(pos[i - 1], "central").name)
    IN  pos
NewReader ==
    LET end == file[Max({i \in DOMAIN file : file[i].kind = "end"})]
        header(i) == PieceAt(HeaderStarts(end.start, end.count)[i - 1], "central")
        err == \E i \in 1..end.count : header(i).kind = "none"
    IN  [err |-> err,
         files |-> IF err THEN <<>> ELSE [i \in 1..end.count |-> OpenFile(header(i))]]

(* archive/zip promises: what NewReader finds after the one successful Close is
   every entry with the content it had when it was written out, also when
   writes failed and were tried again, as long as those left nothing in the
   file: what they leave is not in written, and the offsets are wrong by it.  *)
ZipReadsBack ==
    (ends = 1 /\ ~zipTorn /\ Last(file).kind = "end" /\ Last(file).count = Len(entries)) =>
      NewReader = [err |-> FALSE,
                   files |-> [i \in DOMAIN entries |->
                     [name |-> entries[i].name, content |-> sealed[i], ok |-> TRUE]]]

-----------------------------------------------------------------------------
(* archive/tar.  The tape is a sequence of cells, one per byte: <<"byte", v>>,
   <<"header", name, size>> for the first cell of a header block and <<"h">>
   for its others.  A block has Block cells, 512 in the code.  A write may fail
   and leave bytes on the tape; with the same bound as above.

   Sizes and Lengths are the sizes and the lengths of writes
   and reads that are used; MaxTape bounds the tape.                           *)
CONSTANTS Block, Sizes, Lengths, MaxTape

AtEnd == <<"io.EOF">>    \* what Next's io.EOF leaves in got, in the place of a name

ASSUME TarAssumption == /\ AtEnd \notin Names
                        /\ Block \in Nat \ {0} /\ MaxTape \in Nat
                        /\ Sizes \subseteq Nat /\ Lengths \subseteq Nat

VARIABLES tape, pending, closed,   \* the Writer: pending is its field written
          tarTorn,                    \* a failed call has left bytes on the tape
          given,                   \* what the caller wrote: [name, size, n]
          tr,                      \* the Reader: at, remain, padLeft; NoReader
          got                      \* what it returned: [name, size, n, data], AtEnd at the end
tarVars == <<tape, pending, closed, tarTorn, given, tr, got>>

NoReader == [at |-> -1, remain |-> 0, padLeft |-> 0]

TarInit == /\ tape = <<>> /\ pending = 0 /\ given = <<>>
           /\ closed = FALSE /\ tarTorn = FALSE
           /\ tr = NoReader /\ got = <<>>

Zeros(n) == [i \in 1..n |-> <<"byte", 0>>]
Padding(n) == (Block - (n % Block)) % Block
HeaderBlock(name, size) ==
    [i \in 1..Block |-> IF i = 1 THEN <<"header", name, size>> ELSE <<"h">>]

-----------------------------------------------------------------------------
(* The writer: an entry is padded when the next header, or the end, comes.  The
   caller writes what it announced before it goes on; the writer does not look. *)
Complete == \A i \in DOMAIN given : given[i].n = given[i].size

WriteHeader(name, size) ==
    /\ ~closed /\ Complete /\ Len(tape) < MaxTape
    /\ tape' = tape \o Zeros(Padding(pending)) \o HeaderBlock(name, size)
    /\ pending' = 0
    /\ given' = Append(given, [name |-> name, size |-> size, n |-> 0])
    /\ UNCHANGED <<closed, tarTorn, tr, got>>

(* WriteHeader or Close fails when it pads, and leaves n bytes: the padding is
   written again, whole, by the next call.                                    *)
PaddingFails(n) ==
    /\ ~closed /\ Complete /\ Len(tape) < MaxTape /\ ~tarTorn
    /\ Padding(pending) > 0 /\ n <= Padding(pending)
    /\ tape' = tape \o Zeros(n)
    /\ tarTorn' = (n > 0)
    /\ UNCHANGED <<pending, closed, given, tr, got>>

(* WriteHeader fails when it writes the header, and leaves n bytes of it. *)
HeaderFails(name, size, n) ==
    /\ ~closed /\ Complete /\ Len(tape) < MaxTape /\ ~tarTorn
    /\ n <= Block
    /\ tape' = tape \o Zeros(Padding(pending)) \o SubSeq(HeaderBlock(name, size), 1, n)
    /\ pending' = 0
    /\ tarTorn' = (n > 0)
    /\ UNCHANGED <<closed, given, tr, got>>

(* A write that fails is one of fewer bytes: the writer counts those. *)
WriteData(n) ==
    /\ ~closed /\ given # <<>>
    /\ Last(given).n + n <= Last(given).size
    /\ tape' = tape \o [i \in 1..n |-> <<"byte", Last(given).n + i>>]
    /\ pending' = pending + n
    /\ given' = [given EXCEPT ![Len(given)].n = @ + n]
    /\ UNCHANGED <<closed, tarTorn, tr, got>>

CloseWriter ==
    /\ ~closed /\ Complete
    /\ tape' = tape \o Zeros(Padding(pending)) \o Zeros(2 * Block)
    /\ pending' = 0
    /\ closed' = TRUE
    /\ UNCHANGED <<tarTorn, given, tr, got>>

(* Close fails when it writes one of the two blocks, and leaves n zeros of them. *)
CloseWriterFails(n) ==
    /\ ~closed /\ Complete /\ Len(tape) < MaxTape /\ ~tarTorn
    /\ n <= 2 * Block
    /\ tape' = tape \o Zeros(Padding(pending)) \o Zeros(n)
    /\ pending' = 0
    /\ tarTorn' = (n > 0)
    /\ UNCHANGED <<closed, given, tr, got>>

-----------------------------------------------------------------------------
(* The reader, of a file that may be cut short.  It answers io.EOF at the end
   and where the file ends in the middle of a header or of what Next skips.   *)
StartReader ==
    /\ closed /\ tr = NoReader
    /\ tr' = [at |-> 0, remain |-> 0, padLeft |-> 0]
    /\ \E n \in 0..Len(tape) : tape' = SubSeq(tape, 1, n)
    /\ UNCHANGED <<pending, closed, tarTorn, given, got>>

(* The block at off; what is no header, behind bytes that a failed call left,
   parses as a header of size 0.                                              *)
BlockAt(off) == SubSeq(tape, off + 1, Min({off + Block, Len(tape)}))
ParseHeader(b) ==
    IF b[1][1] = "header" THEN [name |-> b[1][2], size |-> b[1][3], n |-> 0, data |-> <<>>]
    ELSE [name |-> <<"garbage">>, size |-> 0, n |-> 0, data |-> <<>>]

NextHeader ==
    LET off == tr.at + tr.remain + tr.padLeft
        h == ParseHeader(BlockAt(off))
    IN  /\ tr # NoReader
        /\ ~(got # <<>> /\ Last(got).name = AtEnd)
        /\ IF Len(BlockAt(off)) < Block \/ BlockAt(off) = Zeros(Block)
           THEN /\ tr' = [at |-> off + Block, remain |-> 0, padLeft |-> 0]
                /\ got' = Append(got, [name |-> AtEnd, size |-> 0, n |-> 0, data |-> <<>>])
           ELSE /\ tr' = [at |-> off + Block, remain |-> h.size, padLeft |-> Padding(h.size)]
                /\ got' = Append(got, h)
        /\ UNCHANGED <<tape, pending, closed, tarTorn, given>>

ReadData(n) ==
    LET k == Min({n, tr.remain, Len(tape) - tr.at})
    IN  /\ k > 0
        /\ ~(got # <<>> /\ Last(got).name = AtEnd)
        /\ tr' = [tr EXCEPT !.at = @ + k, !.remain = @ - k]
        /\ got' = [got EXCEPT ![Len(got)].n = @ + k,
                              ![Len(got)].data = @ \o SubSeq(tape, tr.at + 1, tr.at + k)]
        /\ UNCHANGED <<tape, pending, closed, tarTorn, given>>

TarNext ==
    \/ \E name \in Names, size \in Sizes : WriteHeader(name, size)
    \/ \E n \in Torn : PaddingFails(n)
    \/ \E name \in Names, size \in Sizes, n \in Torn : HeaderFails(name, size, n)
    \/ \E n \in Lengths : WriteData(n)
    \/ CloseWriter
    \/ \E blocks \in {0, 1}, n \in Torn : CloseWriterFails(blocks * Block + n)
    \/ StartReader
    \/ NextHeader
    \/ \E n \in Lengths : ReadData(n)

-----------------------------------------------------------------------------
(* archive/tar promises: the reader returns the entries in the order they were
   written, each with the first bytes of its content, whatever was left unread
   of those before it, and reaches the end after the last one, or where the file
   was cut before the next header was complete.  A call that fails changes none
   of this, as long as it leaves no bytes on the tape: WriteHeader and Close do
   not count those, and they shift what follows.                              *)
HeaderEnds(i) ==
    Block + SumBefore([k \in DOMAIN given |-> Block + given[k].size + Padding(given[k].size)], i)
TarReadsBack ==
    ~tarTorn => \A i \in DOMAIN got :
      IF got[i].name = AtEnd THEN i = Len(given) + 1 \/ HeaderEnds(i) > Len(tape)
      ELSE /\ i <= Len(given)
           /\ got[i].name = given[i].name /\ got[i].size = given[i].size
           /\ got[i].data = [k \in 1..got[i].n |-> <<"byte", k>>]

-----------------------------------------------------------------------------
(* The two machines, side by side. *)
ArchivesNext == \/ ZipNext /\ UNCHANGED tarVars
                \/ TarNext /\ UNCHANGED zipVars
ArchivesSpec == /\ ZipInit /\ TarInit
                /\ [][ArchivesNext]_<<zipVars, tarVars>>

(* archive/zip and archive/tar read back what was written: zip after the one
   successful Close, tar entry by entry, whatever was left unread of those before
   and wherever the file is cut; and also when calls failed and were made again,
   unless a failed write left bytes in the file that the writer does not count. *)
ArchivesReadBack == ZipReadsBack /\ TarReadsBack
=============================================================================
