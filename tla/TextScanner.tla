----------------------------- MODULE TextScanner -----------------------------
(* text/scanner: the general tokenizer, which keeps the byte offset, line and
   column of each token.  A text is a sequence of runes; Bytes says how many
   bytes of UTF-8 a rune takes; the backquote is the symbol "bq".             *)
EXTENDS Integers, Sequences, SequencesExt

CONSTANT Wide        \* the letters of more than one byte

IdentStart == {"a", "b", "e", "_"} \cup Wide
Digit == {"0", "1"}
IdentPart == IdentStart \cup Digit
Bytes(c) == IF c \in Wide THEN 2 ELSE 1

(* Scanner: the rune at src[at] is next; pos is its byte offset. *)
Start == [at |-> 1, pos |-> 0, line |-> 1, col |-> 0]
Peek(src, s) == IF s.at > Len(src) THEN "EOF" ELSE src[s.at]
Next_ColumnInBytes(src, s) ==
    LET c == Peek(src, s)
    IN  IF c = "EOF" THEN s
        ELSE [at |-> s.at + 1, pos |-> s.pos + Bytes(c),
              line |-> IF c = "\n" THEN s.line + 1 ELSE s.line,
              col |-> IF c = "\n" THEN 0 ELSE s.col + Bytes(c)]

Next(src, s) ==
    LET c == Peek(src, s)
    IN  IF c = "EOF" THEN s
        ELSE [at |-> s.at + 1, pos |-> s.pos + Bytes(c),
              line |-> IF c = "\n" THEN s.line + 1 ELSE s.line,
              col |-> IF c = "\n" THEN 0 ELSE s.col + 1]
After(src, s) == Peek(src, Next(src, s))

RECURSIVE NextWhile(_, _, _), BlockComment(_, _), SkipBlanks(_, _), Quoted(_, _, _)
NextWhile(src, s, S) == IF Peek(src, s) \in S THEN NextWhile(src, Next(src, s), S) ELSE s

BlockComment(src, s) ==
    LET n == Next(src, s)
    IN  CASE Peek(src, s) = "EOF" -> s
          [] Peek(src, s) = "*" -> IF Peek(src, n) = "/" THEN Next(src, n)
                                   ELSE BlockComment(src, n)
          [] OTHER -> BlockComment(src, n)

SkipBlanks(src, s) ==
    LET two == Next(src, Next(src, s))
    IN  CASE Peek(src, s) \in {" ", "\t", "\n", "\r"} -> SkipBlanks(src, Next(src, s))
          [] Peek(src, s) = "/" /\ After(src, s) = "/" ->
               SkipBlanks(src, NextWhile(src, two, ToSet(src) \ {"\n"}))
          [] Peek(src, s) = "/" /\ After(src, s) = "*" -> SkipBlanks(src, BlockComment(src, two))
          [] OTHER -> s

(* Past the closing quote, or at the end; a backslash takes the next rune. *)
Quoted(src, s, quote) ==
    CASE Peek(src, s) = "EOF" -> s
      [] Peek(src, s) = quote -> Next(src, s)
      [] Peek(src, s) = "\\" -> Quoted(src, Next(src, Next(src, s)), quote)
      [] OTHER -> Quoted(src, Next(src, s), quote)

Number(src, s) ==
    LET whole == NextWhile(src, s, Digit)
        point == Peek(src, whole) = "."
        frac == IF point THEN NextWhile(src, Next(src, whole), Digit) ELSE whole
        expo == Peek(src, frac) = "e"
        mark == Next(src, frac)
        sign == IF Peek(src, mark) \in {"+", "-"} THEN Next(src, mark) ELSE mark
    IN  [kind |-> IF point \/ expo THEN "Float" ELSE "Int",
         end |-> IF expo THEN NextWhile(src, sign, Digit) ELSE frac]

(* Scan: the token's kind, the scanner before and after it. *)
ScanToken(src, s0) ==
    LET s == SkipBlanks(src, s0)
        c == Peek(src, s)
        n == Number(src, s)
        Tok(kind, end) == [kind |-> kind, start |-> s, end |-> end]
    IN  CASE c = "EOF" -> Tok("EOF", s)
          [] c \in IdentStart -> Tok("Ident", NextWhile(src, s, IdentPart))
          [] c \in Digit -> Tok(n.kind, n.end)
          [] c = "\"" \/ c = "'" ->
               Tok(IF c = "'" THEN "Char" ELSE "String", Quoted(src, Next(src, s), c))
          [] c = "bq" ->
               LET body == NextWhile(src, Next(src, s), ToSet(src) \ {"bq"})
               IN  Tok("RawString", Next(src, body))
          [] OTHER -> Tok(c, Next(src, s))

TokenText(src, t) == SubSeq(src, t.start.at, t.end.at - 1)
Position(t) == [offset |-> t.start.pos, line |-> t.start.line, column |-> t.start.col + 1]
=============================================================================
