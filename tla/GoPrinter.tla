----------------------------- MODULE GoPrinter -----------------------------
(* go/printer: the text of a node, as the symbols GoScanner reads.  Tabs after
   a newline follow the depth of the braces.                                 *)
EXTENDS GoParser, SequencesExt

Spaced(t) == <<" ">> \o TokenString(t) \o <<" ">>
Newline(ind) == <<"\n">> \o [j \in 1..ind |-> "\t"]

RECURSIVE PrintNode(_, _)

Joined(texts, sep) ==
    FoldLeftDomain(LAMBDA acc, j : acc \o (IF j > 1 THEN sep ELSE <<>>) \o texts[j],
                   <<>>, texts)

PrintExprList(list) == Joined([j \in DOMAIN list |-> PrintNode(list[j], 0)], <<",", " ">>)

PrintField(f) == (IF f.name = <<>> THEN <<>> ELSE f.name \o <<" ">>) \o PrintNode(f.type, 0)
PrintFieldList(fs) == Joined([j \in DOMAIN fs |-> PrintField(fs[j])], <<",", " ">>)

(* A single result without a name is bare; several are parenthesized; a single
   result with a name is printed in neither way.                             *)
PrintFuncSig(n) ==
    <<"(">> \o PrintFieldList(n.params) \o <<")">>
    \o CASE Len(n.results) = 1 /\ n.results[1].name = <<>> ->
              <<" ">> \o PrintNode(n.results[1].type, 0)
         [] Len(n.results) > 1 -> <<" ", "(">> \o PrintFieldList(n.results) \o <<")">>
         [] OTHER -> <<>>

(* A declaration writes every result list that is not empty. *)
PrintFuncDecl(n) ==
    <<"func", " ">>
    \o (IF n.x = Nil THEN <<>> ELSE <<"(">> \o PrintField(n.x) \o <<")", " ">>)
    \o n.name \o <<"(">> \o PrintFieldList(n.params) \o <<")", " ">>
    \o (CASE Len(n.results) = 1 /\ n.results[1].name = <<>> ->
               PrintNode(n.results[1].type, 0) \o <<" ">>
          [] Len(n.results) > 0 -> <<"(">> \o PrintFieldList(n.results) \o <<")", " ">>
          [] OTHER -> <<>>)
    \o PrintNode(n.body, 0)

(* Statements, clauses one level in, and the closing brace back out. *)
PrintLines(list, ind) ==
    FlattenSeq([j \in DOMAIN list |-> Newline(ind) \o PrintNode(list[j], ind)])
Braced(list, ind) == <<"{">> \o PrintLines(list, ind + 1) \o Newline(ind) \o <<"}">>

Optional(n, before, after) == IF n = Nil THEN <<>> ELSE before \o PrintNode(n, 0) \o after

PrintMembers(n) ==
    Joined([j \in DOMAIN n.list |->
              IF n.k = "InterfaceType" THEN n.list[j].name \o PrintFuncSig(n.list[j].type)
              ELSE PrintField(n.list[j])], <<";", " ">>)

PrintFor(n, ind) ==
    <<"for", " ">>
    \o (IF n.init # Nil
        THEN PrintNode(n.init, ind) \o <<";", " ">> \o Optional(n.cond, <<>>, <<>>)
             \o <<";", " ">> \o Optional(n.post, <<>>, <<>>) \o <<" ">>
        ELSE Optional(n.cond, <<>>, <<" ">>))
    \o PrintNode(n.body, ind)

PrintNode(n, ind) ==
    CASE n.k = "nil" -> <<>>
      [] n.k = "Ident" -> n.name
      [] n.k = "BasicLit" -> n.lit
      [] n.k = "BinaryExpr" -> PrintNode(n.x, ind) \o Spaced(n.op) \o PrintNode(n.y, ind)
      [] n.k = "UnaryExpr" -> TokenString(n.op) \o PrintNode(n.x, ind)
      [] n.k = "ParenExpr" -> <<"(">> \o PrintNode(n.x, ind) \o <<")">>
      [] n.k = "CallExpr" -> PrintNode(n.x, ind) \o <<"(">> \o PrintExprList(n.args) \o <<")">>
      [] n.k = "SelectorExpr" -> PrintNode(n.x, ind) \o <<".">> \o n.name
      [] n.k = "IndexExpr" -> PrintNode(n.x, ind) \o <<"[">> \o PrintNode(n.y, ind) \o <<"]">>
      [] n.k = "PointerType" -> <<"*">> \o PrintNode(n.x, ind)
      [] n.k = "ArrayType" -> <<"[", "]">> \o PrintNode(n.x, ind)
      [] n.k = "MapType" ->
           <<"map", "[">> \o PrintNode(n.x, ind) \o <<"]">> \o PrintNode(n.y, ind)
      [] n.k = "CompositeLit" ->
           PrintNode(n.type, ind) \o <<"{">> \o PrintExprList(n.args) \o <<"}">>
      [] n.k = "FuncType" -> <<"func">> \o PrintFuncSig(n)
      [] n.k = "InterfaceType" -> <<"interface", "{">> \o PrintMembers(n) \o <<"}">>
      [] n.k = "StructType" -> <<"struct", "{">> \o PrintMembers(n) \o <<"}">>
      [] n.k = "ExprStmt" -> PrintNode(n.x, ind)
      [] n.k = "AssignStmt" -> PrintExprList(n.lhs) \o Spaced(n.op) \o PrintExprList(n.rhs)
      [] n.k = "IncDecStmt" -> PrintNode(n.x, ind) \o TokenString(n.op)
      [] n.k = "BranchStmt" -> TokenString(n.op)
      [] n.k = "ReturnStmt" ->
           <<"return">> \o IF n.rhs = <<>> THEN <<>> ELSE <<" ">> \o PrintExprList(n.rhs)
      [] n.k \in {"VarSpec", "ConstSpec"} ->
           <<IF n.k = "VarSpec" THEN "var" ELSE "const", " ">> \o n.name
           \o Optional(n.type, <<" ">>, <<>>) \o Optional(n.x, <<" ", "=", " ">>, <<>>)
      [] n.k = "IfStmt" ->
           <<"if", " ">> \o PrintNode(n.cond, ind) \o <<" ">> \o PrintNode(n.body, ind)
           \o IF n.else = Nil THEN <<>> ELSE <<" ", "else", " ">> \o PrintNode(n.else, ind)
      [] n.k = "ForStmt" -> PrintFor(n, ind)
      [] n.k = "RangeStmt" ->
           <<"for", " ">>
           \o (IF n.lhs = <<>> THEN <<>> ELSE PrintExprList(n.lhs) \o Spaced(n.op))
           \o <<"range", " ">> \o PrintNode(n.x, ind) \o <<" ">> \o PrintNode(n.body, ind)
      [] n.k = "SwitchStmt" ->
           <<"switch", " ">> \o Optional(n.init, <<>>, <<";", " ">>)
           \o Optional(n.cond, <<>>, <<" ">>) \o Braced(n.list, ind)
      [] n.k = "CaseClause" ->
           (IF n.args = <<>> THEN <<"default", ":">>
            ELSE <<"case", " ">> \o PrintExprList(n.args) \o <<":">>)
           \o PrintLines(n.list, ind + 1)
      [] n.k = "BlockStmt" -> Braced(n.list, ind)
      [] n.k = "FuncDecl" -> PrintFuncDecl(n)
      [] n.k = "TypeSpec" ->
           <<"type", " ">> \o n.name
           \o (IF n.params = <<>> THEN <<>> ELSE <<"[">> \o PrintFieldList(n.params) \o <<"]">>)
           \o <<" ">> \o PrintNode(n.type, ind)
      [] n.k = "File" ->
           <<"package", " ">> \o n.name \o <<"\n">>
           \o FlattenSeq([j \in DOMAIN n.list |->
                            <<"\n">> \o PrintNode(n.list[j], 0) \o <<"\n">>])

Sprint(n) == PrintNode(n, 0)
=============================================================================
