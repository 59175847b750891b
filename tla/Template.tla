------------------------------- MODULE Template -------------------------------
(* text/template and html/template: two packages with the same tokenizer, parser
   and interpreter, which differ in what an action writes: Escape is the
   identity for the one and html.EscapeString for the other.  The same parser
   with nodes of another shape is text/template/parse.

   A text is a sequence of characters, two of which, "{{" and "}}", stand for
   the delimiters; an action's content is a sequence of words, and a path a
   sequence of field names.  A value is [k |-> "struct", fields |-> ...] or
   [k |-> "str" | "bool" | "int", v |-> ...].                                *)
EXTENDS Integers, Sequences, SequencesExt, FiniteSetsExt

CONSTANT Escape(_)

(* html.EscapeString, the Escape of html/template. *)
EscapeString(s) ==
    LET Entity(c) == CASE c = "&" -> "&amp;" [] c = "'" -> "&#39;" [] c = "<" -> "&lt;"
                       [] c = ">" -> "&gt;" [] c = "\"" -> "&#34;" [] OTHER -> c
    IN  [i \in DOMAIN s |-> Entity(s[i])]

LOCAL Index(s, x, from) ==
    LET at == {i \in from..Len(s) : s[i] = x} IN IF at = {} THEN 0 ELSE Min(at)

RECURSIVE Tokenize(_)
Tokenize(s) ==
    LET j == Index(s, "{{", 1)
        k == Index(s, "}}", j + 1)
        rest == Tokenize(SubSeq(s, k + 1, Len(s)))
        text(t) == IF t = <<>> THEN <<>> ELSE <<[isAction |-> FALSE, text |-> t]>>
    IN  IF j = 0 THEN [toks |-> text(s), err |-> FALSE]
        ELSE IF k = 0 THEN [toks |-> <<>>, err |-> TRUE]
        ELSE [rest EXCEPT !.toks =
                text(SubSeq(s, 1, j - 1))
                \o <<[isAction |-> TRUE, text |-> SubSeq(s, j + 1, k - 1)]>> \o @]

(* The nodes from pos to the next unmatched {{else}} or {{end}}, which is stop,
   or to the end of the tokens.                                              *)
Text(t) == [kind |-> "text", text |-> t]
Action(path) == [kind |-> "action", path |-> path]
If(path, body, elseBody) == [kind |-> "if", path |-> path, body |-> body, elseBody |-> elseBody]
LOCAL Built(nodes, pos, stop) == [nodes |-> nodes, pos |-> pos, stop |-> stop, err |-> FALSE]
LOCAL Failed == [nodes |-> <<>>, pos |-> 0, stop |-> "", err |-> TRUE]

RECURSIVE BuildNodes(_, _, _)
BuildNodes_EndOptional(toks, pos, nodes) ==
    LET t == toks[pos]
        body == BuildNodes(toks, pos + 1, <<>>)
        alt == IF body.stop = "else" THEN BuildNodes(toks, body.pos, <<>>) ELSE body
        elseBody == IF body.stop = "else" THEN alt.nodes ELSE <<>>
        More(node, next) == BuildNodes(toks, next, Append(nodes, node))
    IN  IF pos > Len(toks) THEN Built(nodes, pos, "")
        ELSE IF ~t.isAction THEN More(Text(t.text), pos + 1)
        ELSE IF t.text \in {<<"end">>, <<"else">>} THEN Built(nodes, pos + 1, t.text[1])
        ELSE IF Len(t.text) > 1 /\ t.text[1] = "if"
             THEN IF body.err \/ alt.err THEN Failed
                  ELSE More(If(Tail(t.text), body.nodes, elseBody), alt.pos)
        ELSE More(Action(t.text), pos + 1)

BuildNodes(toks, pos, nodes) ==
    LET t == toks[pos]
        body == BuildNodes(toks, pos + 1, <<>>)
        alt == IF body.stop = "else" THEN BuildNodes(toks, body.pos, <<>>) ELSE body
        elseBody == IF body.stop = "else" THEN alt.nodes ELSE <<>>
        More(node, next) == BuildNodes(toks, next, Append(nodes, node))
    IN  IF pos > Len(toks) THEN Built(nodes, pos, "")
        ELSE IF ~t.isAction THEN More(Text(t.text), pos + 1)
        ELSE IF t.text = <<"end">> THEN Built(nodes, pos + 1, "end")
        ELSE IF t.text = <<"else">> THEN Built(nodes, pos + 1, "else")
        ELSE IF Len(t.text) > 1 /\ t.text[1] = "if"
             THEN IF body.err \/ alt.err \/ alt.stop # "end" THEN Failed
                  ELSE More(If(Tail(t.text), body.nodes, elseBody), alt.pos)
        ELSE More(Action(t.text), pos + 1)

Parse(s) ==
    LET toks == Tokenize(s)
        built == BuildNodes(toks.toks, 1, <<>>)
    IN  IF toks.err \/ built.err \/ built.stop # "" THEN Failed ELSE built

(* text/template/parse: an if has no ElseList when its else has no nodes. *)
RECURSIVE TreeOf(_)
TreeOf(nodes) ==
    LET Node(n) == CASE n.kind = "text" -> [type |-> "Text", text |-> n.text]
                     [] n.kind = "action" -> [type |-> "Action", pipe |-> n.path]
                     [] n.kind = "if" -> [type |-> "If", pipe |-> n.path, list |-> TreeOf(n.body),
                                          elseList |-> IF n.elseBody = <<>> THEN <<>>
                                                       ELSE <<TreeOf(n.elseBody)>>]
    IN  [i \in DOMAIN nodes |-> Node(nodes[i])]
ParseTree(s) == LET p == Parse(s) IN [tree |-> TreeOf(p.nodes), err |-> p.err]

-----------------------------------------------------------------------------
(* Execution. *)
RECURSIVE LookupPath(_, _)
LookupPath(v, path) ==
    IF path = <<>> THEN [v |-> v, err |-> FALSE]
    ELSE IF v.k # "struct" \/ path[1] \notin DOMAIN v.fields THEN [v |-> v, err |-> TRUE]
    ELSE LookupPath(v.fields[path[1]], Tail(path))

Truthy(v) ==
    CASE v.k = "bool" -> v.bool [] v.k = "str" -> v.str # <<>> [] v.k = "int" -> v.int # 0
      [] OTHER -> TRUE

Stringify(v) ==
    CASE v.k = "str" -> v.str
      [] v.k = "bool" -> IF v.bool THEN <<"true">> ELSE <<"false">>
      [] v.k = "int" -> <<ToString(v.int)>>
      [] OTHER -> <<>>

(* What was written before an error is dropped by Execute. *)
RECURSIVE ExecNodes(_, _, _)
ExecNodes(nodes, data, buf) ==
    LET n == Head(nodes)
        v == LookupPath(data, n.path)
        branch == ExecNodes(IF Truthy(v.v) THEN n.body ELSE n.elseBody, data, buf)
        More(out) == ExecNodes(Tail(nodes), data, out)
    IN  IF nodes = <<>> THEN [out |-> buf, err |-> FALSE]
        ELSE IF n.kind = "text" THEN More(buf \o n.text)
        ELSE IF v.err THEN [out |-> buf, err |-> TRUE]
        ELSE IF n.kind = "action" THEN More(buf \o Escape(Stringify(v.v)))
        ELSE IF branch.err THEN branch
        ELSE More(branch.out)

Execute(nodes, data) ==
    LET r == ExecNodes(nodes, data, <<>>) IN IF r.err THEN [r EXCEPT !.out = <<>>] ELSE r
=============================================================================
