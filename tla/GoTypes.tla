------------------------------ MODULE GoTypes ------------------------------
(* go/types: the interned type table and the checker that walks the nodes of
   GoParser.

   A *Type is its intern key, the symbols of its canonical name: two types are
   identical exactly when their keys are.  The state c of a checker is
     tab       the package's interned table, key -> the Type's fields
     env       Checker.Env, types  Checker.Types, generics  Checker.Generics
     err       whether a check has failed.
   The table belongs to the package and outlives every checker.              *)
EXTENDS GoPrinter

NoType == <<>>
Basics == {<<"bool">>, <<"int">>, <<"float64">>, <<"string">>}
IntType == <<"int">>
BoolType == <<"bool">>

Type(kind, elem, key) ==
    [kind |-> kind, elem |-> elem, key |-> key, in |-> <<>>, out |-> <<>>, methods |-> <<>>]
BasicTable == [b \in Basics |-> Type("Basic", NoType, NoType)]

NoNames == [x \in {} |-> NoType]
NewChecker(tab) == [tab |-> tab, env |-> NoNames, types |-> NoNames,
                    generics |-> NoNames, err |-> FALSE]

Res(c, t) == [c |-> c, t |-> t]
Fail(c) == Res([c EXCEPT !.err = TRUE], NoType)

(* intern: the first type interned under a key stays; what a later call brings
   for it is dropped.                                                        *)
Intern(c, key, type) ==
    IF key \in DOMAIN c.tab THEN Res(c, key)
    ELSE Res([c EXCEPT !.tab = (key :> type) @@ @], key)

Of(r, Build(_, _)) == IF r.c.err THEN r ELSE Build(r.c, r.t)
PointerTo(c, e) == Intern(c, <<"*">> \o e, Type("Pointer", e, NoType))
SliceOf(c, e) == Intern(c, <<"[", "]">> \o e, Type("Slice", e, NoType))
MapOf_KeyedByElem(c, k, e) == Intern(c, <<"map", "[", "]">> \o e, Type("Map", e, k))

MapOf(c, k, e) == Intern(c, <<"map", "[">> \o k \o <<"]">> \o e, Type("Map", e, k))
Named(c, name, under) == Intern(c, name, Type("Named", under, NoType))
Instantiate(c, name, arg, under) == Named(c, name \o <<"[">> \o arg \o <<"]">>, under)

JoinTypes(ts) == Joined(ts, <<",">>)
FuncKey(in, out) ==
    <<"func", "(">> \o JoinTypes(in) \o <<")">>
    \o CASE Len(out) = 0 -> <<>>
         [] Len(out) = 1 -> out[1]
         [] OTHER -> <<"(">> \o JoinTypes(out) \o <<")">>
FuncOf(c, in, out) ==
    Intern(c, FuncKey(in, out), [Type("Func", NoType, NoType) EXCEPT !.in = in, !.out = out])

(* A method or a field is its name and the key of its type; the key of an
   interface lists its methods in the order they are written.                *)
Method(name, type) == [name |-> name, type |-> type]
MethodSetKey(ms) ==
    <<"interface", "{">>
    \o Joined([j \in DOMAIN ms |-> ms[j].name \o Tail(ms[j].type)], <<";">>) \o <<"}">>
StructKey(fs) ==
    <<"struct", "{">>
    \o Joined([j \in DOMAIN fs |-> fs[j].name \o <<" ">> \o fs[j].type], <<";">>) \o <<"}">>
MembersOf(c, key, kind, ms) ==
    Intern(c, key, [Type(kind, NoType, NoType) EXCEPT !.methods = ms])

Underlying(c, t) ==
    IF c.tab[t].kind = "Named" /\ c.tab[t].elem # NoType THEN c.tab[t].elem ELSE t

(* The method's signature, through a pointer as well; NoType if there is none. *)
LookupMethod(c, t, name) ==
    LET of == IF c.tab[t].kind = "Pointer" THEN c.tab[t].elem ELSE t
        ms == c.tab[of].methods
        hits == {j \in DOMAIN ms : ms[j].name = name}
    IN  IF hits = {} THEN NoType ELSE ms[CHOOSE j \in hits : \A i \in hits : j <= i].type

AddMethod(c, t, name, sig) ==
    IF LookupMethod(c, t, name) # NoType THEN c
    ELSE [c EXCEPT !.tab[t].methods = Append(@, Method(name, sig))]

-----------------------------------------------------------------------------
(* Type expressions.  sub maps the type parameter of a generic type to its
   argument.                                                                 *)
RECURSIVE TypeFromNode(_, _, _), TypesOfFields(_, _, _), CheckExpr(_, _), AllOf(_, _, _),
          CheckStmt(_, _)

(* The types of a list of fields, in order, stopping at the first failure. *)
TypesOfFields(c, fields, sub) ==
    FoldLeft(LAMBDA r, f : IF r.c.err THEN r
                           ELSE LET e == TypeFromNode(r.c, f.type, sub)
                                IN  Res(e.c, Append(r.t, e.t)),
             Res(c, <<>>), fields)

TypeFromNode(c, n, sub) ==
    CASE n.k = "Ident" ->
           (CASE n.name \in DOMAIN sub -> Res(c, sub[n.name])
              [] n.name \in Basics -> Res(c, n.name)
              [] n.name = <<"any">> -> Named(c, n.name, NoType)
              [] n.name \in DOMAIN c.types -> Res(c, c.types[n.name])
              [] OTHER -> Fail(c))
      [] n.k = "PointerType" -> Of(TypeFromNode(c, n.x, sub), PointerTo)
      [] n.k = "ArrayType" -> Of(TypeFromNode(c, n.x, sub), SliceOf)
      [] n.k = "MapType" ->
           Of(TypeFromNode(c, n.x, sub),
              LAMBDA c1, k : Of(TypeFromNode(c1, n.y, sub), LAMBDA c2, e : MapOf(c2, k, e)))
      [] n.k = "FuncType" ->
           Of(TypesOfFields(c, n.params, sub),
              LAMBDA c1, in : Of(TypesOfFields(c1, n.results, sub),
                                 LAMBDA c2, out : FuncOf(c2, in, out)))
      [] n.k \in {"InterfaceType", "StructType"} ->
           Of(TypesOfFields(c, n.list, sub),
              LAMBDA c1, ts :
                LET ms == [j \in DOMAIN ts |-> Method(n.list[j].name, ts[j])]
                IN  IF n.k = "StructType" THEN MembersOf(c1, StructKey(ms), "Struct", ms)
                    ELSE MembersOf(c1, MethodSetKey(ms), "Interface", ms))
      [] n.k = "IndexExpr" /\ n.x.k = "Ident" ->
           IF n.x.name \notin DOMAIN c.generics THEN Fail(c)
           ELSE LET spec == c.generics[n.x.name]
                IN  Of(TypeFromNode(c, n.y, sub),
                       LAMBDA c1, arg :
                         Of(TypeFromNode(c1, spec.type, spec.params[1].name :> arg),
                            LAMBDA c2, under : Instantiate(c2, n.x.name, arg, under)))
      [] OTHER -> Fail(c)

-----------------------------------------------------------------------------
(* Expressions *)

ComparisonOps == {"EQL", "NEQ", "LSS", "LEQ", "GTR", "GEQ", "LAND", "LOR"}

(* Every expression of the list has the type t. *)
AllOf(c, list, t) ==
    FoldLeft(LAMBDA c1, e : IF c1.err THEN c1
                            ELSE LET r == CheckExpr(c1, e)
                                 IN  IF r.c.err \/ r.t = t THEN r.c ELSE Fail(r.c).c,
             c, list)

(* T(x) for a declared T: x has type T, T's underlying type or, x's type being
   a defined one, has T as its underlying type.                              *)
Conversion(c, n) ==
    LET dest == c.types[n.x.name]
        x == CheckExpr(c, n.args[1])
        Unnamed(a, b) == x.c.tab[a].kind = "Named" /\ x.c.tab[a].elem = b
    IN  IF Len(n.args) # 1 THEN Fail(c)
        ELSE IF x.c.err THEN x
        ELSE IF x.t = dest \/ Unnamed(dest, x.t) \/ Unnamed(x.t, dest)
        THEN Res(x.c, dest) ELSE Fail(x.c)

MethodCall(c, n) ==
    Of(CheckExpr(c, n.x.x),
       LAMBDA c1, recv :
         LET sig == LookupMethod(c1, recv, n.x.name)
             out == c1.tab[sig].out
         IN  CASE sig = NoType -> Fail(c1)
               [] Len(out) = 1 -> Res(c1, out[1])
               [] Len(out) = 0 -> Intern(c1, <<"(", ")">>, Type("Invalid", NoType, NoType))
               [] OTHER -> Res(c1, sig))

IndexOf(c, n) ==
    Of(CheckExpr(c, n.x),
       LAMBDA c1, t :
         LET u == c1.tab[Underlying(c1, t)]
             want == IF u.kind = "Slice" THEN IntType ELSE u.key
         IN  IF u.kind \notin {"Slice", "Map"} THEN Fail(c1)
             ELSE LET y == CheckExpr(c1, n.y)
                  IN  IF y.c.err \/ y.t # want THEN Fail(y.c) ELSE Res(y.c, u.elem))

Literal(c, n) ==
    Of(TypeFromNode(c, n.type, NoNames),
       LAMBDA c1, t :
         LET u == c1.tab[Underlying(c1, t)]
         IN  CASE u.kind = "Slice" -> Res(AllOf(c1, n.args, u.elem), t)
               [] u.kind = "Map" /\ n.args = <<>> -> Res(c1, t)
               [] OTHER -> Fail(c1))

CheckExpr(c, n) ==
    CASE n.k = "Ident" -> IF n.name \in DOMAIN c.env THEN Res(c, c.env[n.name]) ELSE Fail(c)
      [] n.k = "BasicLit" ->
           (CASE n.kind = "INT" -> Res(c, IntType)
              [] n.kind = "FLOAT" -> Res(c, <<"float64">>)
              [] n.kind = "STRING" -> Res(c, <<"string">>)
              [] OTHER -> Fail(c))
      [] n.k \in {"ParenExpr", "UnaryExpr"} -> CheckExpr(c, n.x)
      [] n.k = "BinaryExpr" ->
           Of(CheckExpr(c, n.x),
              LAMBDA c1, xt :
                Of(CheckExpr(c1, n.y),
                   LAMBDA c2, yt :
                     IF xt # yt THEN Fail(c2)
                     ELSE Res(c2, IF n.op \in ComparisonOps THEN BoolType ELSE xt)))
      [] n.k = "IndexExpr" -> IndexOf(c, n)
      [] n.k = "CompositeLit" -> Literal(c, n)
      [] n.k = "CallExpr" /\ n.x.k = "Ident" ->
           IF n.x.name \in DOMAIN c.types THEN Conversion(c, n) ELSE Fail(c)
      [] n.k = "CallExpr" /\ n.x.k = "SelectorExpr" -> MethodCall(c, n)
      [] OTHER -> Fail(c)

-----------------------------------------------------------------------------
(* Statements.  A binding replaces the one its name had, and no block ends the
   bindings made in it.                                                      *)

Bind(c, name, t) ==
    IF c.err \/ name = <<"_">> THEN c ELSE [c EXCEPT !.env = (name :> t) @@ @]
BindLhs(c, lhs, j, t) ==
    IF j <= Len(lhs) /\ lhs[j].k = "Ident" THEN Bind(c, lhs[j].name, t) ELSE c

CheckList(c, list) == FoldLeft(LAMBDA c1, n : IF c1.err THEN c1 ELSE CheckStmt(c1, n), c, list)
Then(c, n) == IF c.err THEN c ELSE CheckStmt(c, n)
CheckCond(c, n) == IF c.err THEN c ELSE AllOf(c, <<n>>, BoolType)

Declare(c, n) ==
    LET typed == n.type # Nil
        d == IF typed THEN TypeFromNode(c, n.type, NoNames) ELSE Res(c, NoType)
        x == IF d.c.err \/ n.x = Nil THEN d ELSE CheckExpr(d.c, n.x)
    IN  IF d.c.err \/ x.c.err \/ (~typed /\ n.x = Nil) \/ (typed /\ x.t # d.t)
        THEN [x.c EXCEPT !.err = TRUE] ELSE Bind(x.c, n.name, x.t)

Define(c, n) ==
    IF Len(n.lhs) # Len(n.rhs) THEN [c EXCEPT !.err = TRUE]
    ELSE FoldLeftDomain(LAMBDA c1, j : IF c1.err THEN c1
                                       ELSE LET r == CheckExpr(c1, n.rhs[j])
                                            IN  BindLhs(r.c, n.lhs, j, r.t),
                        c, n.lhs)

(* Assignments pair left and right sides as far as both go. *)
Assign(c, n) ==
    LET pairs == Zip(n.lhs, n.rhs)
        One(c1, l, r) ==
          IF l.k = "Ident" /\ l.name = <<"_">> THEN CheckExpr(c1, r).c
          ELSE LET lt == CheckExpr(c1, l) IN IF lt.c.err THEN lt.c ELSE AllOf(lt.c, <<r>>, lt.t)
    IN  FoldLeft(LAMBDA c1, p : IF c1.err THEN c1 ELSE One(c1, p[1], p[2]), c, pairs)

(* What a range clause binds: index and element of a slice, key and value of a
   map, the yield function's parameters for a function; NoType: cannot range. *)
RangeTypes(c, t) ==
    LET u == c.tab[Underlying(c, t)]
        yield == c.tab[u.in[1]]
    IN  CASE u.kind = "Slice" -> <<IntType, u.elem>>
          [] u.kind = "Map" -> <<u.key, u.elem>>
          [] u.kind = "Func" /\ Len(u.in) = 1 ->
               IF yield.kind = "Func" /\ yield.out = <<BoolType>> /\ Len(yield.in) \in 1..2
               THEN yield.in ELSE NoType
          [] OTHER -> NoType

CheckRange(c, n) ==
    LET x == CheckExpr(c, n.x)
        ts == RangeTypes(x.c, x.t)
    IN  IF x.c.err THEN x.c
        ELSE IF ts = NoType \/ (Len(ts) = 1 /\ Len(n.lhs) > 1) THEN Fail(x.c).c
        ELSE Then(IF Len(ts) = 1 THEN BindLhs(x.c, n.lhs, 1, ts[1])
                  ELSE BindLhs(BindLhs(x.c, n.lhs, 1, ts[1]), n.lhs, 2, ts[2]), n.body)

CheckSwitch(c, n) ==
    LET start == Then(c, n.init)
        tag == IF n.cond = Nil THEN Res(start, BoolType) ELSE CheckExpr(start, n.cond)
    IN  IF start.err \/ tag.c.err THEN [tag.c EXCEPT !.err = TRUE]
        ELSE FoldLeft(LAMBDA c1, cc : LET args == AllOf(c1, cc.args, tag.t)
                                      IN  IF c1.err THEN c1
                                          ELSE IF args.err THEN args ELSE CheckList(args, cc.list),
                      tag.c, n.list)

(* A generic type is kept as its node, an interface is bound to its own type,
   any other type is a defined one, interned by its name.                    *)
CheckTypeSpec(c, d) ==
    IF d.params # <<>> THEN [c EXCEPT !.generics = (d.name :> d) @@ @]
    ELSE LET under == TypeFromNode(c, d.type, NoNames)
             type == IF d.type.k = "InterfaceType" THEN under
                     ELSE Of(under, LAMBDA c1, u : Named(c1, d.name, u))
         IN  IF type.c.err THEN type.c
             ELSE [type.c EXCEPT !.types = (d.name :> type.t) @@ @]

CheckStmt(c, n) ==
    CASE n.k \in {"nil", "BranchStmt"} -> c
      [] n.k \in {"ExprStmt", "IncDecStmt"} -> CheckExpr(c, n.x).c
      [] n.k \in {"VarSpec", "ConstSpec"} -> Declare(c, n)
      [] n.k = "AssignStmt" -> IF n.op = "DEFINE" THEN Define(c, n) ELSE Assign(c, n)
      [] n.k = "ReturnStmt" ->
           FoldLeft(LAMBDA c1, e : IF c1.err THEN c1 ELSE CheckExpr(c1, e).c, c, n.rhs)
      [] n.k = "BlockStmt" -> CheckList(c, n.list)
      [] n.k = "IfStmt" -> Then(Then(CheckCond(c, n.cond), n.body), n.else)
      [] n.k = "ForStmt" ->
           LET init == Then(c, n.init)
               cond == IF n.cond = Nil THEN init ELSE CheckCond(init, n.cond)
           IN  Then(Then(cond, n.post), n.body)
      [] n.k = "RangeStmt" -> CheckRange(c, n)
      [] n.k = "SwitchStmt" -> CheckSwitch(c, n)
      [] n.k = "TypeSpec" -> CheckTypeSpec(c, n)
      [] OTHER -> [c EXCEPT !.err = TRUE]

(* CheckFile: the type declarations in order, then the methods. *)
AttachMethod(c, d) ==
    Of(TypeFromNode(c, d.x.type, NoNames),
       LAMBDA c1, t :
         Of(TypesOfFields(c1, d.params, NoNames),
            LAMBDA c2, in :
              Of(TypesOfFields(c2, d.results, NoNames),
                 LAMBDA c3, out :
                   LET f == FuncOf(c3, in, out)
                       on == IF f.c.tab[t].kind = "Pointer" THEN f.c.tab[t].elem ELSE t
                   IN  Res(AddMethod(f.c, on, d.name, f.t), on)))).c

CheckFile(c, f) ==
    LET types == FoldLeft(LAMBDA c1, d : IF c1.err \/ d.k # "TypeSpec" THEN c1
                                         ELSE CheckTypeSpec(c1, d), c, f.list)
    IN  FoldLeft(LAMBDA c1, d : IF c1.err \/ d.k # "FuncDecl" THEN c1
                                ELSE IF d.x = Nil THEN c1 ELSE AttachMethod(c1, d),
                 types, f.list)
=============================================================================
