------------------------------ MODULE GoParser ------------------------------
(* go/parser over the tokens of GoScanner, into the tagged nodes of go/ast.

   A parse function takes the token sequence s, the position i of the current
   token (Parser.tok) and, where it matters, a for Parser.allowCompositeLit,
   and returns the node with the position after it.  Parser.err is sticky, and
   is position 0: nothing matches there and every parse from it stays there.
   Positions in the source text (ast.Node.Pos) are left out.                 *)
EXTENDS GoScanner

Tok(s, i) == IF i = 0 THEN "NONE" ELSE IF i > Len(s) THEN "EOF" ELSE s[i].t
Expect(s, i, t) == IF Tok(s, i) = t THEN i + 1 ELSE 0
Skip(s, i, t) == IF Tok(s, i) = t THEN i + 1 ELSE i
ExpectIdent(s, i) == Expect(s, i, "IDENT")
NameAt(s, i) == IF i \in 1..Len(s) THEN s[i].lit ELSE <<>>

At_(n, i) == [n |-> n, i |-> i]
Nil == [k |-> "nil"]
Failed == At_([k |-> "Bad"], 0)
Hangs == -1       \* the position of a parse that never returns

Ident(name) == [k |-> "Ident", name |-> name]
Field(name, type) == [k |-> "Field", name |-> name, type |-> type]
Node1(k, x) == [k |-> k, x |-> x]

BinPrec(t) ==
    CASE t \in {"MUL", "QUO", "REM", "SHL", "SHR", "AND", "AND_NOT"} -> 5
      [] t \in {"ADD", "SUB", "OR", "XOR"} -> 4
      [] t \in {"EQL", "NEQ", "LSS", "LEQ", "GTR", "GEQ"} -> 3
      [] t = "LAND" -> 2
      [] t = "LOR" -> 1
      [] OTHER -> 0
UnaryOps == {"ADD", "SUB", "NOT", "XOR", "AND", "MUL"}
CompoundAssign == {"ADD_ASSIGN", "SUB_ASSIGN", "MUL_ASSIGN", "QUO_ASSIGN", "REM_ASSIGN",
                   "AND_ASSIGN", "OR_ASSIGN", "XOR_ASSIGN", "SHL_ASSIGN", "SHR_ASSIGN",
                   "AND_NOT_ASSIGN"}

RECURSIVE ParseBinaryExpr(_, _, _, _), BinaryTail(_, _, _, _, _), ParseUnaryExpr(_, _, _),
          PrimaryTail(_, _, _, _), ParseOperand(_, _, _), Elements(_, _, _, _),
          ExprList(_, _, _), ParseType(_, _), ParseParamList(_, _), Members(_, _, _),
          ParseStmt(_, _, _), ParseBlock(_, _, _), StmtsUntil(_, _, _, _),
          ParseIf(_, _, _), Clauses(_, _, _), TypeParams(_, _), ImportGroup(_, _),
          Imports(_, _), Decls(_, _)

-----------------------------------------------------------------------------
(* Expressions *)

ParseExpr(s, i, a) == ParseBinaryExpr(s, i, a, 1)

ParseBinaryExpr(s, i, a, min) ==
    LET x == ParseUnaryExpr(s, i, a) IN BinaryTail(s, x.n, x.i, a, min)

BinaryTail_RightAssociative(s, x, i, a, min) ==
    LET op == Tok(s, i)
        y == ParseBinaryExpr(s, i + 1, a, BinPrec(op))
    IN  IF BinPrec(op) < min THEN At_(x, i)
        ELSE BinaryTail(s, [k |-> "BinaryExpr", op |-> op, x |-> x, y |-> y.n], y.i, a, min)

BinaryTail(s, x, i, a, min) ==
    LET op == Tok(s, i)
        y == ParseBinaryExpr(s, i + 1, a, BinPrec(op) + 1)
    IN  IF BinPrec(op) < min THEN At_(x, i)
        ELSE BinaryTail(s, [k |-> "BinaryExpr", op |-> op, x |-> x, y |-> y.n], y.i, a, min)

ParseUnaryExpr(s, i, a) ==
    IF Tok(s, i) \in UnaryOps
    THEN LET x == ParseUnaryExpr(s, i + 1, a)
         IN  At_([k |-> "UnaryExpr", op |-> Tok(s, i), x |-> x.n], x.i)
    ELSE LET x == ParseOperand(s, i, a) IN PrimaryTail(s, x.n, x.i, a)

(* Comma-separated expressions up to a closing token, a trailing comma allowed. *)
Elements(s, i, a, close) ==
    IF i = 0 \/ Tok(s, i) = close THEN At_(<<>>, i)
    ELSE LET e == ParseExpr(s, i, a)
             more == Elements(s, e.i + 1, a, close)
         IN  IF Tok(s, e.i) = "COMMA" THEN At_(<<e.n>> \o more.n, more.i)
             ELSE At_(<<e.n>>, e.i)

ExprList(s, i, a) ==
    LET e == ParseExpr(s, i, a)
        more == ExprList(s, e.i + 1, a)
    IN  IF Tok(s, e.i) = "COMMA" THEN At_(<<e.n>> \o more.n, more.i) ELSE At_(<<e.n>>, e.i)

(* Inside the braces a literal is always allowed. *)
CompositeLitBody(s, type, i) ==
    LET elts == Elements(s, Expect(s, i, "LBRACE"), TRUE, "RBRACE")
    IN  At_([k |-> "CompositeLit", type |-> type, args |-> elts.n],
            Expect(s, elts.i, "RBRACE"))

PrimaryTail(s, x, i, a) ==
    CASE Tok(s, i) = "PERIOD" ->
           PrimaryTail(s, [k |-> "SelectorExpr", x |-> x, name |-> NameAt(s, i + 1)],
                       ExpectIdent(s, i + 1), a)
      [] Tok(s, i) = "LPAREN" ->
           LET args == Elements(s, i + 1, a, "RPAREN")
           IN  PrimaryTail(s, [k |-> "CallExpr", x |-> x, args |-> args.n],
                           Expect(s, args.i, "RPAREN"), a)
      [] Tok(s, i) = "LBRACK" ->
           LET y == ParseExpr(s, i + 1, a)
           IN  PrimaryTail(s, [k |-> "IndexExpr", x |-> x, y |-> y.n],
                           Expect(s, y.i, "RBRACK"), a)
      [] Tok(s, i) = "LBRACE" /\ a /\ x.k \in {"Ident", "SelectorExpr"} ->
           LET lit == CompositeLitBody(s, x, i) IN PrimaryTail(s, lit.n, lit.i, a)
      [] OTHER -> At_(x, i)

ParseOperand(s, i, a) ==
    CASE Tok(s, i) = "IDENT" -> At_(Ident(NameAt(s, i)), i + 1)
      [] Tok(s, i) \in {"INT", "FLOAT", "STRING", "CHAR"} ->
           At_([k |-> "BasicLit", kind |-> Tok(s, i), lit |-> s[i].lit], i + 1)
      [] Tok(s, i) = "LPAREN" ->
           LET x == ParseExpr(s, i + 1, a)
           IN  At_(Node1("ParenExpr", x.n), Expect(s, x.i, "RPAREN"))
      [] Tok(s, i) \in {"LBRACK", "MAP"} ->
           LET type == ParseType(s, i)
           IN  IF a /\ Tok(s, type.i) = "LBRACE"
               THEN CompositeLitBody(s, type.n, type.i) ELSE type
      [] OTHER -> Failed

-----------------------------------------------------------------------------
(* Types *)

TypeName(s, i) ==
    LET dot == Tok(s, i + 1) = "PERIOD"
        end == IF dot THEN ExpectIdent(s, i + 2) ELSE i + 1
        name == NameAt(s, i) \o IF dot THEN <<".">> \o NameAt(s, i + 2) ELSE <<>>
        arg == ParseType(s, end + 1)
    IN  IF Tok(s, i) # "IDENT" THEN Failed
        ELSE IF Tok(s, end) = "LBRACK"
        THEN At_([k |-> "IndexExpr", x |-> Ident(name), y |-> arg.n],
                 Expect(s, arg.i, "RBRACK"))
        ELSE At_(Ident(name), end)

TypeStart == {"IDENT", "MUL", "LBRACK", "MAP", "FUNC", "INTERFACE", "STRUCT"}

(* One name alone, before a comma or the closing parenthesis, is a type; a
   name before anything else but a dot or a bracket is a parameter's name.   *)
ParseParam(s, i) ==
    LET named == /\ Tok(s, i) = "IDENT"
                 /\ Tok(s, i + 1) \notin {"PERIOD", "LBRACK", "COMMA", "RPAREN"}
        type == ParseType(s, IF named THEN i + 1 ELSE i)
    IN  At_(Field(IF named THEN NameAt(s, i) ELSE <<>>, type.n), type.i)

ParseParamList(s, i) ==
    IF i = 0 \/ Tok(s, i) = "RPAREN" THEN At_(<<>>, i)
    ELSE LET f == ParseParam(s, i)
             more == ParseParamList(s, f.i + 1)
         IN  IF Tok(s, f.i) = "COMMA" THEN At_(<<f.n>> \o more.n, more.i)
             ELSE At_(<<f.n>>, f.i)

ParseResults(s, i) ==
    IF Tok(s, i) = "LPAREN"
    THEN LET fs == ParseParamList(s, i + 1) IN At_(fs.n, Expect(s, fs.i, "RPAREN"))
    ELSE IF Tok(s, i) \in TypeStart
    THEN LET type == ParseType(s, i) IN At_(<<Field(<<>>, type.n)>>, type.i)
    ELSE At_(<<>>, i)

(* "(" parameters ")" results, shared by func types, methods and declarations. *)
Signature(s, i) ==
    LET params == ParseParamList(s, Expect(s, i, "LPAREN"))
        results == ParseResults(s, Expect(s, params.i, "RPAREN"))
    IN  At_([k |-> "FuncType", params |-> params.n, results |-> results.n], results.i)

(* The fields of a struct, or the methods of an interface. *)
Members(s, i, kw) ==
    IF i = 0 \/ Tok(s, i) \in {"RBRACE", "EOF"} THEN At_(<<>>, i)
    ELSE LET after == ExpectIdent(s, i)
             type == IF kw = "STRUCT" THEN ParseType(s, after) ELSE Signature(s, after)
             more == Members(s, Skip(s, type.i, "SEMICOLON"), kw)
         IN  At_(<<Field(NameAt(s, i), type.n)>> \o more.n, more.i)

ParseType(s, i) ==
    CASE Tok(s, i) = "MUL" ->
           LET x == ParseType(s, i + 1) IN At_(Node1("PointerType", x.n), x.i)
      [] Tok(s, i) = "LBRACK" ->
           LET x == ParseType(s, Expect(s, i + 1, "RBRACK"))
           IN  At_(Node1("ArrayType", x.n), x.i)
      [] Tok(s, i) = "MAP" ->
           LET x == ParseType(s, Expect(s, i + 1, "LBRACK"))
               y == ParseType(s, Expect(s, x.i, "RBRACK"))
           IN  At_([k |-> "MapType", x |-> x.n, y |-> y.n], y.i)
      [] Tok(s, i) = "FUNC" -> Signature(s, i + 1)
      [] Tok(s, i) \in {"INTERFACE", "STRUCT"} ->
           LET ms == Members(s, Expect(s, i + 1, "LBRACE"), Tok(s, i))
           IN  At_([k |-> IF Tok(s, i) = "STRUCT" THEN "StructType" ELSE "InterfaceType",
                    list |-> ms.n], Expect(s, ms.i, "RBRACE"))
      [] OTHER -> TypeName(s, i)

-----------------------------------------------------------------------------
(* Statements *)

SimpleStmt(s, i, a) ==
    LET x == ParseExpr(s, i, a)
        lhs == ExprList(s, i, a)
        op == Tok(s, lhs.i)
        rx == ParseExpr(s, lhs.i + 2, a)
        rhs == ExprList(s, lhs.i + 1, a)
    IN  IF Tok(s, x.i) \in {"INC", "DEC"}
        THEN At_([k |-> "IncDecStmt", op |-> Tok(s, x.i), x |-> x.n], x.i + 1)
        ELSE IF op \in {"ASSIGN", "DEFINE"} /\ Tok(s, lhs.i + 1) = "RANGE"
        THEN At_([k |-> "RangeStmt", op |-> op, lhs |-> lhs.n, x |-> rx.n, body |-> Nil],
                 rx.i)
        ELSE IF op \in CompoundAssign \cup {"ASSIGN", "DEFINE"}
        THEN At_([k |-> "AssignStmt", op |-> op, lhs |-> lhs.n, rhs |-> rhs.n], rhs.i)
        ELSE At_(Node1("ExprStmt", x.n), lhs.i)

StmtsUntil(s, i, a, stop) ==
    IF i = 0 \/ Tok(s, i) \in stop THEN At_(<<>>, i)
    ELSE LET x == ParseStmt(s, i, a)
             more == StmtsUntil(s, x.i, a, stop)
         IN  At_(<<x.n>> \o more.n, more.i)

ParseBlock(s, i, a) ==
    LET list == StmtsUntil(s, Expect(s, i, "LBRACE"), a, {"RBRACE", "EOF"})
    IN  At_([k |-> "BlockStmt", list |-> list.n], Expect(s, list.i, "RBRACE"))

(* The header of an if, for or switch allows no composite literal at its
   outermost level; the body is parsed with the enclosing setting back.      *)
ParseIf(s, i, a) ==
    LET cond == ParseExpr(s, Expect(s, i, "IF"), FALSE)
        body == ParseBlock(s, cond.i, a)
        alt == IF Tok(s, body.i) # "ELSE" THEN At_(Nil, body.i)
               ELSE IF Tok(s, body.i + 1) = "IF" THEN ParseIf(s, body.i + 1, a)
               ELSE ParseBlock(s, body.i + 1, a)
    IN  At_([k |-> "IfStmt", cond |-> cond.n, body |-> body.n, else |-> alt.n],
            Skip(s, alt.i, "SEMICOLON"))

For(init, cond, post, body) ==
    [k |-> "ForStmt", init |-> init, cond |-> cond, post |-> post, body |-> body]

ParseFor(s, i, a) ==
    LET Body(j) == LET b == ParseBlock(s, j, a) IN At_(b.n, Skip(s, b.i, "SEMICOLON"))
        first == SimpleStmt(s, i + 1, FALSE)
        range == ParseExpr(s, i + 2, FALSE)
        semi == Expect(s, first.i, "SEMICOLON")
        cond == IF Tok(s, semi) = "SEMICOLON" THEN At_(Nil, semi) ELSE ParseExpr(s, semi, FALSE)
        semi2 == Expect(s, cond.i, "SEMICOLON")
        post == IF Tok(s, semi2) = "LBRACE" THEN At_(Nil, semi2) ELSE SimpleStmt(s, semi2, FALSE)
    IN  CASE Tok(s, i + 1) = "LBRACE" ->
               LET b == Body(i + 1) IN At_(For(Nil, Nil, Nil, b.n), b.i)
          [] Tok(s, i + 1) = "RANGE" ->
               LET b == Body(range.i)
               IN  At_([k |-> "RangeStmt", op |-> "NONE", lhs |-> <<>>, x |-> range.n,
                        body |-> b.n], b.i)
          [] OTHER ->
               IF first.n.k = "RangeStmt"
               THEN LET b == Body(first.i) IN At_([first.n EXCEPT !.body = b.n], b.i)
               ELSE IF Tok(s, first.i) = "LBRACE"
               THEN LET b == Body(first.i)
                        test == IF "x" \in DOMAIN first.n THEN first.n.x ELSE Nil
                    IN  At_(For(Nil, test, Nil, b.n), b.i)
               ELSE LET b == Body(post.i) IN At_(For(first.n, cond.n, post.n, b.n), b.i)

CaseStops == {"CASE", "DEFAULT", "RBRACE", "EOF"}

Clauses(s, i, a) ==
    IF i = 0 \/ Tok(s, i) \in {"RBRACE", "EOF"} THEN At_(<<>>, i)
    ELSE LET args == IF Tok(s, i) = "CASE" THEN ExprList(s, i + 1, a)
                     ELSE At_(<<>>, Expect(s, i, "DEFAULT"))
             list == StmtsUntil(s, Expect(s, args.i, "COLON"), a, CaseStops)
             more == Clauses(s, list.i, a)
         IN  At_(<<[k |-> "CaseClause", args |-> args.n, list |-> list.n]>> \o more.n, more.i)

ParseSwitch(s, i, a) ==
    LET first == SimpleStmt(s, i + 1, FALSE)
        init == Tok(s, first.i) = "SEMICOLON"
        tag == CASE Tok(s, i + 1) = "LBRACE" -> At_(Nil, i + 1)
                 [] init /\ Tok(s, first.i + 1) = "LBRACE" -> At_(Nil, first.i + 1)
                 [] init -> ParseExpr(s, first.i + 1, FALSE)
                 [] first.n.k = "ExprStmt" -> At_(first.n.x, first.i)
                 [] OTHER -> At_(Nil, first.i)
        list == Clauses(s, Expect(s, tag.i, "LBRACE"), a)
    IN  At_([k |-> "SwitchStmt", cond |-> tag.n, list |-> list.n,
             init |-> IF Tok(s, i + 1) # "LBRACE" /\ init THEN first.n ELSE Nil],
            Skip(s, Expect(s, list.i, "RBRACE"), "SEMICOLON"))

ParseReturn(s, i, a) ==
    LET rhs == IF Tok(s, i + 1) \in {"SEMICOLON", "RBRACE"} THEN At_(<<>>, i + 1)
               ELSE ExprList(s, i + 1, a)
    IN  At_([k |-> "ReturnStmt", rhs |-> rhs.n], Skip(s, rhs.i, "SEMICOLON"))

SpecDecl(s, i, a) ==
    LET after == ExpectIdent(s, i + 1)
        type == IF after = 0 \/ Tok(s, after) \in {"ASSIGN", "SEMICOLON", "RPAREN", "EOF"}
                THEN At_(Nil, after) ELSE ParseType(s, after)
        init == IF Tok(s, type.i) = "ASSIGN" THEN ParseExpr(s, type.i + 1, a)
                ELSE At_(Nil, type.i)
    IN  At_([k |-> IF Tok(s, i) = "CONST" THEN "ConstSpec" ELSE "VarSpec",
             name |-> NameAt(s, i + 1), type |-> type.n, x |-> init.n], init.i)

TypeParams(s, i) ==
    IF i = 0 \/ Tok(s, i) = "RBRACK" THEN At_(<<>>, i)
    ELSE LET type == ParseType(s, ExpectIdent(s, i))
             more == TypeParams(s, type.i + 1)
             f == Field(NameAt(s, i), type.n)
         IN  IF Tok(s, type.i) = "COMMA" THEN At_(<<f>> \o more.n, more.i)
             ELSE At_(<<f>>, type.i)

TypeSpecDecl(s, i) ==
    LET after == ExpectIdent(s, i + 1)
        params == TypeParams(s, after + 1)
        generic == Tok(s, after) = "LBRACK"
        type == ParseType(s, IF generic THEN Expect(s, params.i, "RBRACK") ELSE after)
    IN  At_([k |-> "TypeSpec", name |-> NameAt(s, i + 1), type |-> type.n,
             params |-> IF generic THEN params.n ELSE <<>>], type.i)

ParseStmt(s, i, a) ==
    LET Ended(r) == At_(r.n, Skip(s, r.i, "SEMICOLON"))
    IN  CASE Tok(s, i) = "IF" -> ParseIf(s, i, a)
          [] Tok(s, i) = "FOR" -> ParseFor(s, i, a)
          [] Tok(s, i) = "SWITCH" -> ParseSwitch(s, i, a)
          [] Tok(s, i) = "RETURN" -> ParseReturn(s, i, a)
          [] Tok(s, i) = "LBRACE" -> Ended(ParseBlock(s, i, a))
          [] Tok(s, i) \in {"BREAK", "CONTINUE"} ->
               Ended(At_([k |-> "BranchStmt", op |-> Tok(s, i)], i + 1))
          [] Tok(s, i) \in {"VAR", "CONST"} -> Ended(SpecDecl(s, i, a))
          [] Tok(s, i) = "TYPE" -> Ended(TypeSpecDecl(s, i))
          [] OTHER -> Ended(SimpleStmt(s, i, a))

-----------------------------------------------------------------------------
(* Declarations and files *)

FuncDecl(s, i) ==
    LET method == Tok(s, i + 1) = "LPAREN"
        rtype == ParseType(s, ExpectIdent(s, i + 2))
        at == IF method THEN Expect(s, rtype.i, "RPAREN") ELSE i + 1
        sig == Signature(s, ExpectIdent(s, at))
        body == ParseBlock(s, sig.i, TRUE)
    IN  At_([k |-> "FuncDecl", name |-> NameAt(s, at), params |-> sig.n.params,
             x |-> IF method THEN Field(NameAt(s, i + 2), rtype.n) ELSE Nil,
             results |-> sig.n.results, body |-> body.n], Skip(s, body.i, "SEMICOLON"))

(* An import group is skipped token by token up to its parenthesis: at the end
   of the text next() stays where it is, and the loop goes on for ever.      *)
ImportGroup(s, i) ==
    CASE Tok(s, i) = "RPAREN" -> i + 1
      [] Tok(s, i) = "EOF" -> Hangs
      [] OTHER -> ImportGroup(s, Skip(s, i + 1, "SEMICOLON"))

Imports(s, i) ==
    LET after == IF Tok(s, i + 1) = "LPAREN" THEN ImportGroup(s, i + 2) ELSE i + 2
    IN  IF Tok(s, i) # "IMPORT" THEN i
        ELSE IF after = Hangs THEN Hangs ELSE Imports(s, Skip(s, after, "SEMICOLON"))

Decls(s, i) ==
    IF Tok(s, i) \notin {"FUNC", "VAR", "CONST", "TYPE"} THEN At_(<<>>, i)
    ELSE LET d == CASE Tok(s, i) = "FUNC" -> FuncDecl(s, i)
                    [] Tok(s, i) = "TYPE" -> TypeSpecDecl(s, i)
                    [] OTHER -> SpecDecl(s, i, TRUE)
             more == Decls(s, IF Tok(s, i) = "FUNC" THEN d.i ELSE Skip(s, d.i, "SEMICOLON"))
         IN  At_(<<d.n>> \o more.n, more.i)

(* The file ends where no declaration starts: what follows is not looked at. *)
ParseFile(src) ==
    LET s == Scan(src)
        name == Expect(s, 1, "PACKAGE")
        from == Imports(s, Skip(s, ExpectIdent(s, name), "SEMICOLON"))
        list == Decls(s, from)
    IN  IF from = Hangs THEN At_(Nil, Hangs)
        ELSE At_([k |-> "File", name |-> NameAt(s, name), list |-> list.n], list.i)

(* Entry point for one expression. *)
ParseExprText(src) == ParseExpr(Scan(src), 1, TRUE)
=============================================================================
