----------------------------- MODULE GoScanner -----------------------------
(* go/token and go/scanner: the tokens of the toolchain's own Go subset and
   the scanner that cuts a source text into them.

   A text is a sequence of symbols.  A symbol is one character, except that a
   run of letters that never needs to be taken apart (a keyword, a name) is
   one symbol of the class of letters: `func` is <<"func">>, and <<"if","x">>
   is the identifier `ifx`, since the scanner reads letters greedily.  The
   backquote is the symbol "bq".                                              *)
EXTENDS Integers, Sequences, FiniteSets, TLC

Words == {"a", "b", "x", "e", "o", "T", "U", "p", "int", "bool", "string", "float64",
          "any", "M", "_"}
Digits == {"0", "1", "7", "9"}
HexDigits == Digits \cup {"a", "b", "e"}

Operators ==
    "ADD" :> <<"+">> @@ "SUB" :> <<"-">> @@ "MUL" :> <<"*">> @@ "QUO" :> <<"/">> @@
    "REM" :> <<"%">> @@ "AND" :> <<"&">> @@ "OR" :> <<"|">> @@ "XOR" :> <<"^">> @@
    "SHL" :> <<"<", "<">> @@ "SHR" :> <<">", ">">> @@ "AND_NOT" :> <<"&", "^">> @@
    "ADD_ASSIGN" :> <<"+", "=">> @@ "SUB_ASSIGN" :> <<"-", "=">> @@
    "MUL_ASSIGN" :> <<"*", "=">> @@ "QUO_ASSIGN" :> <<"/", "=">> @@
    "REM_ASSIGN" :> <<"%", "=">> @@ "AND_ASSIGN" :> <<"&", "=">> @@
    "OR_ASSIGN" :> <<"|", "=">> @@ "XOR_ASSIGN" :> <<"^", "=">> @@
    "SHL_ASSIGN" :> <<"<", "<", "=">> @@ "SHR_ASSIGN" :> <<">", ">", "=">> @@
    "AND_NOT_ASSIGN" :> <<"&", "^", "=">> @@ "LAND" :> <<"&", "&">> @@
    "LOR" :> <<"|", "|">> @@ "ARROW" :> <<"<", "-">> @@ "INC" :> <<"+", "+">> @@
    "DEC" :> <<"-", "-">> @@ "EQL" :> <<"=", "=">> @@ "LSS" :> <<"<">> @@
    "GTR" :> <<">">> @@ "ASSIGN" :> <<"=">> @@ "NOT" :> <<"!">> @@
    "NEQ" :> <<"!", "=">> @@ "LEQ" :> <<"<", "=">> @@ "GEQ" :> <<">", "=">> @@
    "DEFINE" :> <<":", "=">> @@ "ELLIPSIS" :> <<".", ".", ".">> @@
    "LPAREN" :> <<"(">> @@ "LBRACK" :> <<"[">> @@ "LBRACE" :> <<"{">> @@
    "COMMA" :> <<",">> @@ "PERIOD" :> <<".">> @@ "RPAREN" :> <<")">> @@
    "RBRACK" :> <<"]">> @@ "RBRACE" :> <<"}">> @@ "SEMICOLON" :> <<";">> @@
    "COLON" :> <<":">>

Keywords ==
    "BREAK" :> "break" @@ "CASE" :> "case" @@ "CHAN" :> "chan" @@
    "CONST" :> "const" @@ "CONTINUE" :> "continue" @@ "DEFAULT" :> "default" @@
    "DEFER" :> "defer" @@ "ELSE" :> "else" @@ "FALLTHROUGH" :> "fallthrough" @@
    "FOR" :> "for" @@ "FUNC" :> "func" @@ "GO" :> "go" @@ "GOTO" :> "goto" @@
    "IF" :> "if" @@ "IMPORT" :> "import" @@ "INTERFACE" :> "interface" @@
    "MAP" :> "map" @@ "PACKAGE" :> "package" @@ "RANGE" :> "range" @@
    "RETURN" :> "return" @@ "SELECT" :> "select" @@ "STRUCT" :> "struct" @@
    "SWITCH" :> "switch" @@ "TYPE" :> "type" @@ "VAR" :> "var"

(* TokenString: how a token is spelled. *)
TokenString(t) == IF t \in DOMAIN Keywords THEN <<Keywords[t]>> ELSE Operators[t]

Letters == Words \cup {Keywords[t] : t \in DOMAIN Keywords}
IsLetter(c) == c \in Letters
IsDigit(c) == c \in Digits

(* A word is a keyword's token or IDENT. *)
Lookup(lit) ==
    IF \E t \in DOMAIN Keywords : lit = <<Keywords[t]>>
    THEN CHOOSE t \in DOMAIN Keywords : lit = <<Keywords[t]>>
    ELSE "IDENT"

-----------------------------------------------------------------------------
(* The scanner's cursor: the symbol at i, and "EOT" (the byte 0) past the end. *)
At(src, i) == IF i <= Len(src) THEN src[i] ELSE "EOT"

(* The first position from i on whose symbol is not in S. *)
Past(src, i, S) ==
    CHOOSE j \in i..(Len(src) + 1) : /\ At(src, j) \notin S
                                     /\ \A k \in i..(j - 1) : src[k] \in S

SkipWhitespace(src, i, semi) ==
    Past(src, i, {" ", "\t", "\r"} \cup IF semi THEN {} ELSE {"\n"})

(* Where a number ends and whether it is a FLOAT. *)
ScanNumber(src, i) ==
    LET radix == [x |-> HexDigits, o |-> {"0", "1", "7"}, b |-> {"0", "1"}]
        dec == Digits \cup {"_"}
        whole == Past(src, i, dec)
        point == At(src, whole) = "."
        frac == IF point THEN Past(src, whole + 1, dec) ELSE whole
        expo == At(src, frac) = "e"
        sign == IF At(src, frac + 1) \in {"+", "-"} THEN frac + 2 ELSE frac + 1
    IN  IF At(src, i) = "0" /\ At(src, i + 1) \in {"x", "o", "b"}
        THEN [tok |-> "INT", end |-> Past(src, i + 2, radix[At(src, i + 1)] \cup {"_"})]
        ELSE [tok |-> IF point \/ expo THEN "FLOAT" ELSE "INT",
              end |-> IF expo THEN Past(src, sign, Digits) ELSE frac]

(* Past the closing quote of a literal opened at i; a backslash takes the
   next symbol with it, and the end of the text closes every literal.        *)
ScanQuoted(src, i, quote, escapes) ==
    LET end[j \in (i + 1)..(Len(src) + 3)] ==
          IF j > Len(src) THEN Len(src) + 1
          ELSE IF src[j] = quote THEN j + 1
          ELSE IF escapes /\ src[j] = "\\" THEN end[j + 2]
          ELSE end[j + 1]
    IN  end[i + 1]

(* Past a block comment opened at i. *)
SkipBlockComment(src, i) ==
    LET closers == {j \in (i + 2)..(Len(src) - 1) : src[j] = "*" /\ src[j + 1] = "/"}
    IN  IF closers = {} THEN Len(src) + 1
        ELSE (CHOOSE j \in closers : \A k \in closers : j <= k) + 2

(* The longest operator spelled at i, or ILLEGAL for a symbol that starts
   none: the chain of single-symbol lookaheads reads as far as it can.       *)
OperatorAt(src, i) ==
    LET fits == {t \in DOMAIN Operators :
                   \A k \in DOMAIN Operators[t] : At(src, i + k - 1) = Operators[t][k]}
    IN  IF fits = {} THEN "ILLEGAL"
        ELSE CHOOSE t \in fits : \A u \in fits : Len(Operators[u]) <= Len(Operators[t])

(* After these tokens a newline, or the end of the text, is a semicolon. *)
EndsStatement == {"IDENT", "INT", "FLOAT", "STRING", "CHAR", "BREAK", "CONTINUE",
                  "FALLTHROUGH", "RETURN", "INC", "DEC", "RPAREN", "RBRACK", "RBRACE"}

Token(t, lit) == [t |-> t, lit |-> lit]

(* Scan, called until it returns EOF: the tokens of src from position i on,
   semi being Scanner.insertSemi.                                            *)
RECURSIVE ScanFrom(_, _, _)
ScanFrom(src, i0, semi) ==
    LET i == SkipWhitespace(src, i0, semi)
        c == At(src, i)
        Emit(t, end) == <<Token(t, SubSeq(src, i, end - 1))>>
                        \o ScanFrom(src, end, t \in EndsStatement)
        Newline(end) == <<Token("SEMICOLON", <<"\n">>)>> \o ScanFrom(src, end, FALSE)
    IN  IF IsLetter(c)
        THEN LET end == Past(src, i, Letters \cup Digits)
             IN  Emit(Lookup(SubSeq(src, i, end - 1)), end)
        ELSE IF IsDigit(c) THEN LET n == ScanNumber(src, i) IN Emit(n.tok, n.end)
        ELSE IF c = "EOT" THEN (IF semi THEN Newline(i) ELSE <<>>)
        ELSE IF c = "\n" THEN Newline(i + 1)
        ELSE IF c = "\"" THEN Emit("STRING", ScanQuoted(src, i, "\"", TRUE))
        ELSE IF c = "bq" THEN Emit("STRING", ScanQuoted(src, i, "bq", FALSE))
        ELSE IF c = "'" THEN Emit("CHAR", ScanQuoted(src, i, "'", TRUE))
        ELSE IF c = "/" /\ At(src, i + 1) = "/"
        THEN ScanFrom(src, Past(src, i, {src[j] : j \in i..Len(src)} \ {"\n"}), semi)
        ELSE IF c = "/" /\ At(src, i + 1) = "*"
        THEN LET end == SkipBlockComment(src, i)
             IN  IF semi /\ "\n" \in {src[j] : j \in i..(end - 1)}
                 THEN Newline(end) ELSE ScanFrom(src, end, semi)
        ELSE LET t == OperatorAt(src, i)
             IN  <<Token(t, <<>>)>>
                 \o ScanFrom(src, i + (IF t = "ILLEGAL" THEN 1 ELSE Len(Operators[t])),
                             t \in EndsStatement)

Scan(src) == ScanFrom(src, 1, FALSE)
=============================================================================
