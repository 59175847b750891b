------------------------------ MODULE Encodings -------------------------------
(* encoding/json: Marshal and Unmarshal.  A text is a sequence of bytes.  A Go
   value is a record: [k |-> "nil"], or "bool", "num", "str", "arr", "map" or
   "struct" with a field of that name.  A map is a set of pairs <<key, value>>
   and a struct a sequence of them.  A float is an integer number of units of
   10^-(Decimals + 1), so that its rounding to Decimals digits, 6 in the code,
   can be seen.                                                              *)
EXTENDS Integers, Sequences, SequencesExt, FiniteSetsExt

CONSTANT Decimals

Quote == 34
Backslash == 92
Space == {32, 9, 10, 13}
DigitBytes == 48..57
Letters == [true |-> <<116, 114, 117, 101>>, false |-> <<102, 97, 108, 115, 101>>,
            null |-> <<110, 117, 108, 108>>]

LOCAL Cat(seqs) == FoldLeft(LAMBDA acc, s : acc \o s, <<>>, seqs)
LOCAL Separated(seqs) ==
    Cat([i \in DOMAIN seqs |-> IF i = 1 THEN seqs[i] ELSE <<44>> \o seqs[i]])

-----------------------------------------------------------------------------
(* Marshal. *)
HexDigit(n) == IF n < 10 THEN 48 + n ELSE 87 + n
EscapedByte(c) ==
    CASE c \in {Quote, Backslash} -> <<Backslash, c>>
      [] c = 10 -> <<Backslash, 110>>
      [] c = 13 -> <<Backslash, 114>>
      [] c = 9 -> <<Backslash, 116>>
      [] c < 32 /\ c \notin {9, 10, 13} ->
           <<Backslash, 117, 48, 48, HexDigit(c \div 16), HexDigit(c % 16)>>
      [] OTHER -> <<c>>
MarshalString(s) == <<Quote>> \o Cat([i \in DOMAIN s |-> EscapedByte(s[i])]) \o <<Quote>>

RECURSIVE Decimal(_), TrimZeros(_)
Decimal(n) == IF n < 10 THEN <<48 + n>> ELSE Decimal(n \div 10) \o <<48 + (n % 10)>>
TrimZeros(s) == IF s # <<>> /\ Last(s) = 48 THEN TrimZeros(Front(s)) ELSE s

FormatNumber(f) ==
    LET one == 10^(Decimals + 1)
        abs == IF f < 0 THEN -f ELSE f
        frac == abs % one
        scaled == (frac + 5) \div 10
        digits == Decimal(scaled)
        padded == [i \in 1..(Decimals - Len(digits)) |-> 48] \o digits
        fs == TrimZeros(padded)
    IN  (IF f < 0 THEN <<45>> ELSE <<>>) \o Decimal(abs \div one)
        \o IF frac > 1 /\ fs # <<>> THEN <<46>> \o fs ELSE <<>>

RECURSIVE LessBytes(_, _)
LessBytes(a, b) ==
    IF b = <<>> THEN FALSE ELSE IF a = <<>> THEN TRUE
    ELSE IF a[1] # b[1] THEN a[1] < b[1] ELSE LessBytes(Tail(a), Tail(b))
SortedPairs(m) == SetToSortSeq(m, LAMBDA p, q : LessBytes(p[1], q[1]))

RECURSIVE MarshalValue(_)
MarshalPairs(pairs) ==
    <<123>> \o Separated([i \in DOMAIN pairs |->
                            MarshalString(pairs[i][1]) \o <<58>> \o MarshalValue(pairs[i][2])])
    \o <<125>>
MarshalArray(arr) == <<91>> \o Separated([i \in DOMAIN arr |-> MarshalValue(arr[i])]) \o <<93>>
MarshalValue(v) ==
    CASE v.k = "nil" -> Letters.null
      [] v.k = "bool" -> IF v.bool THEN Letters.true ELSE Letters.false
      [] v.k = "str" -> MarshalString(v.str)
      [] v.k = "num" -> FormatNumber(v.num)
      [] v.k = "arr" -> MarshalArray(v.arr)
      [] v.k = "map" -> MarshalPairs(SortedPairs(v.map))
      [] v.k = "struct" -> MarshalPairs(v.struct)

-----------------------------------------------------------------------------
(* The parser.  A step returns the value, the position after it, and whether it
   failed.                                                                   *)
LOCAL Res(v, pos) == [v |-> v, pos |-> pos, err |-> FALSE]
LOCAL Err == [v |-> [k |-> "nil"], pos |-> 0, err |-> TRUE]
ByteAt(s, pos) == IF pos > Len(s) THEN 0 ELSE s[pos]

RECURSIVE SkipSpace(_, _), Digits(_, _)
SkipSpace(s, pos) == IF ByteAt(s, pos) \in Space THEN SkipSpace(s, pos + 1) ELSE pos
Digits(s, pos) == IF ByteAt(s, pos) \in DigitBytes THEN Digits(s, pos + 1) ELSE pos

ParseLiteral(s, pos, lit, v) ==
    IF \A i \in DOMAIN lit : ByteAt(s, pos + i - 1) = lit[i] THEN Res(v, pos + Len(lit)) ELSE Err

HexVal(c) ==
    CASE c \in 48..57 -> c - 48 [] c \in 97..102 -> c - 87 [] c \in 65..70 -> c - 55 [] OTHER -> -1

(* Only runes of one byte of UTF-8 are spelt out here. *)
Utf8(rune) == <<rune % 128>>

RECURSIVE StringFrom(_, _, _)
StringFrom(s, pos, out) ==
    LET c == ByteAt(s, pos)
        e == ByteAt(s, pos + 1)
        hex == [i \in 1..4 |-> HexVal(ByteAt(s, pos + 1 + i))]
        plain == CASE e \in {Quote, Backslash, 47} -> e [] e = 110 -> 10 [] e = 116 -> 9
                   [] e = 114 -> 13 [] e = 98 -> 8 [] e = 102 -> 12 [] OTHER -> -1
        rune == FoldLeft(LAMBDA acc, d : 16 * acc + d, 0, hex)
    IN  IF pos > Len(s) THEN Err
        ELSE IF c = Quote THEN Res([k |-> "str", str |-> out], pos + 1)
        ELSE IF c # Backslash THEN StringFrom(s, pos + 1, Append(out, c))
        ELSE IF plain >= 0 THEN StringFrom(s, pos + 2, Append(out, plain))
        ELSE IF e = 117 /\ pos + 5 <= Len(s) /\ \A i \in 1..4 : hex[i] >= 0
             THEN StringFrom(s, pos + 6, out \o Utf8(rune))
        ELSE Err
ParseString(s, pos) == StringFrom(s, pos + 1, <<>>)

(* strconv.ParseFloat of what was scanned: it knows no exponents. *)
ParseFloat(text) ==
    LET neg == text # <<>> /\ text[1] = 45
        abs == IF neg THEN Tail(text) ELSE text
        point == {i \in DOMAIN abs : abs[i] = 46}
        at == IF point = {} THEN Len(abs) + 1 ELSE Min(point)
        frac == SubSeq(abs, at + 1, Len(abs))
        Value(ds) == FoldLeft(LAMBDA acc, d : 10 * acc + (d - 48), 0, ds)
        cut == [i \in 1..(Decimals + 1) |-> IF i <= Len(frac) THEN frac[i] ELSE 48]
        units == Value(SubSeq(abs, 1, at - 1)) * 10^(Decimals + 1) + Value(cut)
    IN  IF \E i \in DOMAIN abs : abs[i] \in {101, 69} THEN Err
        ELSE IF \A i \in DOMAIN abs : abs[i] \notin DigitBytes THEN Err
        ELSE Res([k |-> "num", num |-> IF neg THEN -units ELSE units], 0)

ParseNumber(s, pos) ==
    LET first == IF ByteAt(s, pos) = 45 THEN pos + 1 ELSE pos
        whole == Digits(s, first)
        frac == IF ByteAt(s, whole) = 46 THEN Digits(s, whole + 1) ELSE whole
        mark == IF ByteAt(s, frac + 1) \in {43, 45} THEN frac + 2 ELSE frac + 1
        end == IF ByteAt(s, frac) \in {101, 69} THEN Digits(s, mark) ELSE frac
        f == ParseFloat(SubSeq(s, pos, end - 1))
    IN  IF f.err THEN Err ELSE [f EXCEPT !.pos = end]

RECURSIVE ParseValue(_, _), Members(_, _, _), Elements(_, _, _)
ParseObject(s, pos) ==
    LET p == SkipSpace(s, pos + 1)
    IN  IF ByteAt(s, p) = 125 THEN Res([k |-> "map", map |-> {}], p + 1)
        ELSE Members(s, pos + 1, {})
ParseArray(s, pos) ==
    LET p == SkipSpace(s, pos + 1)
    IN  IF ByteAt(s, p) = 93 THEN Res([k |-> "arr", arr |-> <<>>], p + 1)
        ELSE Elements(s, pos + 1, <<>>)
ParseValue(s, at) ==
    LET pos == SkipSpace(s, at)
        c == ByteAt(s, pos)
    IN  CASE c = 123 -> ParseObject(s, pos)
          [] c = 91 -> ParseArray(s, pos)
          [] c = Quote -> ParseString(s, pos)
          [] c = 116 -> ParseLiteral(s, pos, Letters.true, [k |-> "bool", bool |-> TRUE])
          [] c = 102 -> ParseLiteral(s, pos, Letters.false, [k |-> "bool", bool |-> FALSE])
          [] c = 110 -> ParseLiteral(s, pos, Letters.null, [k |-> "nil"])
          [] c \in DigitBytes \cup {45} -> ParseNumber(s, pos)
          [] OTHER -> Err

(* m holds the members so far; a later member replaces one of its key. *)
Members(s, at, m) ==
    LET open == SkipSpace(s, at)
        key == ParseString(s, open)
        colon == SkipSpace(s, key.pos)
        val == ParseValue(s, colon + 1)
        next == SkipSpace(s, val.pos)
        grown == {p \in m : p[1] # key.v.str} \cup {<<key.v.str, val.v>>}
    IN  IF ByteAt(s, open) # Quote \/ key.err THEN Err
        ELSE IF ByteAt(s, colon) # 58 \/ val.err THEN Err
        ELSE CASE ByteAt(s, next) = 44 -> Members(s, next + 1, grown)
               [] ByteAt(s, next) = 125 -> Res([k |-> "map", map |-> grown], next + 1)
               [] OTHER -> Err

Elements(s, at, arr) ==
    LET val == ParseValue(s, at)
        next == SkipSpace(s, val.pos)
        grown == Append(arr, val.v)
    IN  IF val.err THEN Err
        ELSE CASE ByteAt(s, next) = 44 -> Elements(s, next + 1, grown)
               [] ByteAt(s, next) = 93 -> Res([k |-> "arr", arr |-> grown], next + 1)
               [] OTHER -> Err

-----------------------------------------------------------------------------
(* Unmarshal into *any, and into a target that has a value already: the fields
   of a struct that the text leaves out, and null, leave the target alone; a
   failure leaves the fields already assigned as they are.                   *)
UnmarshalAny(data) ==
    LET r == ParseValue(data, 1)
    IN  IF r.err \/ SkipSpace(data, r.pos) <= Len(data) THEN Err ELSE r

Member(m, name) == (CHOOSE p \in m : p[1] = name)[2]
RECURSIVE DecodeReflect(_, _), DecodeFields(_, _, _)
DecodeFields(target, src, i) ==
    LET name == target[i][1]
        field == DecodeReflect(target[i][2], Member(src, name))
        rest == [target EXCEPT ![i][2] = field.v]
    IN  IF i > Len(target) THEN [v |-> target, err |-> FALSE]
        ELSE IF \A p \in src : p[1] # name THEN DecodeFields(target, src, i + 1)
        ELSE IF field.err THEN [v |-> rest, err |-> TRUE]
        ELSE DecodeFields(rest, src, i + 1)
DecodeReflect(target, src) ==
    LET fields == DecodeFields(target.struct, src.map, 1)
        same(v) == [v |-> v, err |-> FALSE]
    IN  IF src.k = "nil" THEN same(target)
        ELSE IF target.k = "struct" /\ src.k = "map"
             THEN [v |-> [target EXCEPT !.struct = fields.v], err |-> fields.err]
        ELSE IF target.k = src.k /\ target.k \in {"str", "bool", "num", "arr"} THEN same(src)
        ELSE [v |-> target, err |-> TRUE]

UnmarshalStruct(target, data) ==
    LET r == UnmarshalAny(data)
    IN  IF r.err THEN [v |-> target, err |-> TRUE] ELSE DecodeReflect(target, r.v)

-----------------------------------------------------------------------------
(* encoding/csv: Reader and Writer over texts whose characters are the four
   special ones and ordinary ones.                                           *)

LF == "LF"
CR == "CR"
DoubleQuote == "quote"
Blank == "blank"
EOL == {LF, CR}

(* A reader: what is left of the data is from pos on. *)
NewReader(comma, comment, trim, data) ==
    [comma |-> comma, comment |-> comment, trim |-> trim, fields |-> 0, data |-> data, pos |-> 1]
AtEnd(r) == r.pos > Len(r.data)
Char(r) == IF AtEnd(r) THEN "EOF" ELSE r.data[r.pos]

RECURSIVE SkipTo(_, _), SkipCommentsAndBlankLines(_), SkipBlanks(_), Quoted(_, _)
SkipTo(r, S) ==
    IF AtEnd(r) \/ Char(r) \in S THEN r ELSE SkipTo([r EXCEPT !.pos = @ + 1], S)
Step(r) == IF AtEnd(r) THEN r ELSE [r EXCEPT !.pos = @ + 1]

SkipCommentsAndBlankLines(r) ==
    IF Char(r) \in EOL THEN SkipCommentsAndBlankLines(Step(r))
    ELSE IF ~AtEnd(r) /\ Char(r) = r.comment
         THEN SkipCommentsAndBlankLines(Step(SkipTo(r, {LF})))
    ELSE r

LOCAL Field(text, r, err) == [text |-> text, r |-> r, err |-> err]
ParseUnquotedField(r) ==
    LET end == SkipTo(r, {r.comma} \cup EOL)
    IN  Field(SubSeq(r.data, r.pos, end.pos - 1), end, "")

Quoted(r, out) ==
    IF AtEnd(r) THEN Field(<<>>, r, "EOF in quoted field")
    ELSE IF Char(r) # DoubleQuote THEN Quoted(Step(r), Append(out, Char(r)))
    ELSE IF Char(Step(r)) = DoubleQuote THEN Quoted(Step(Step(r)), Append(out, DoubleQuote))
    ELSE Field(out, Step(r), "")
ParseQuotedField(r) == Quoted(Step(r), <<>>)

SkipBlanks(r) == IF Char(r) = Blank THEN SkipBlanks(Step(r)) ELSE r
ParseField(r) ==
    LET s == IF r.trim THEN SkipBlanks(r) ELSE r
    IN  IF Char(s) = DoubleQuote THEN ParseQuotedField(s) ELSE ParseUnquotedField(s)

(* The fields of a record up to the end of its line. *)
RECURSIVE ReadFields(_, _)
ReadFields(r, fields) ==
    LET f == ParseField(r)
        all == Append(fields, f.text)
        next == Step(f.r)
        End(s) == [fields |-> all, r |-> s, err |-> ""]
    IN  IF f.err # "" THEN [fields |-> <<>>, r |-> f.r, err |-> f.err]
        ELSE IF AtEnd(f.r) THEN End(f.r)
        ELSE IF Char(f.r) = r.comma THEN ReadFields(next, all)
        ELSE IF Char(f.r) = CR THEN End(IF Char(next) = LF THEN Step(next) ELSE next)
        ELSE IF Char(f.r) = LF THEN End(next)
        ELSE [fields |-> <<>>, r |-> f.r, err |-> "missing quote"]

Read(r0) ==
    LET r == SkipCommentsAndBlankLines(r0)
        rec == ReadFields(r, <<>>)
        n == Len(rec.fields)
    IN  IF AtEnd(r) THEN [fields |-> <<>>, r |-> r, err |-> "EOF"]
        ELSE IF rec.err # "" THEN rec
        ELSE IF r.fields > 0 /\ n # r.fields THEN [rec EXCEPT !.fields = <<>>, !.err = "wrong number of fields"]
        ELSE [rec EXCEPT !.r.fields = IF @ = 0 THEN n ELSE @]

RECURSIVE ReadAll(_, _)
ReadAll(r, out) ==
    LET rec == Read(r)
    IN  IF rec.err = "EOF" THEN [records |-> out, err |-> ""]
        ELSE IF rec.err # "" THEN [records |-> <<>>, err |-> rec.err]
        ELSE ReadAll(rec.r, Append(out, rec.fields))

-----------------------------------------------------------------------------
FieldNeedsQuotes(comma, s) ==
    /\ s # <<>>
    /\ \/ \E i \in DOMAIN s : s[i] \in {comma, DoubleQuote} \cup EOL
       \/ Blank \in {s[1], Last(s)}
QuoteField(s) ==
    <<DoubleQuote>> \o FlattenSeq([i \in DOMAIN s |-> IF s[i] = DoubleQuote THEN <<DoubleQuote, DoubleQuote>> ELSE <<s[i]>>])
    \o <<DoubleQuote>>

Write(comma, crlf, record) ==
    LET text(s) == IF FieldNeedsQuotes(comma, s) THEN QuoteField(s) ELSE s
    IN  FlattenSeq([i \in DOMAIN record |->
                      (IF i > 1 THEN <<comma>> ELSE <<>>) \o text(record[i])])
        \o IF crlf THEN <<CR, LF>> ELSE <<LF>>
WriteAll(comma, crlf, records) ==
    FlattenSeq([i \in DOMAIN records |-> Write(comma, crlf, records[i])])
=============================================================================
