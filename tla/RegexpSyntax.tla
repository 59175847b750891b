----------------------------- MODULE RegexpSyntax -----------------------------
(* regexp/syntax: the parser of patterns into trees.  A pattern is a sequence of
   bytes; a parser state is the position pos and the number of groups numCap.  *)
EXTENDS Integers, Sequences, SequencesExt

CONSTANT TopByte      \* the largest byte, 255 in the code

LOCAL Node(op, sub, rune, cap) == [op |-> op, sub |-> sub, rune |-> rune, cap |-> cap]
Literal(c) == Node("Literal", <<>>, <<c>>, 0)
CharClass(ranges) == Node("CharClass", <<>>, ranges, 0)
Unary(op, a) == Node(op, <<a>>, <<>>, 0)
Leaf(op) == Node(op, <<>>, <<>>, 0)

Peek(s, p) == IF p.pos > Len(s) THEN 0 ELSE s[p.pos]
Skip(p, n) == [p EXCEPT !.pos = @ + n]
LOCAL Ok(n, p) == [n |-> n, p |-> p, err |-> ""]
LOCAL Err(p, e) == [n |-> Leaf("Concat"), p |-> p, err |-> e]

-----------------------------------------------------------------------------
(* Classes: ranges is a flat sequence of bounds, as in Regexp.Rune. *)
DigitRanges == <<48, 57>>
WordRanges == <<48, 57, 65, 90, 97, 122, 95, 95>>
SpaceRanges == <<32, 32, 9, 9, 10, 10, 13, 13, 12, 12, 11, 11>>

(* One pass over the ranges as they come. *)
NegateByteRanges(ranges) ==
    LET Pass(acc, i) ==
          LET lo == ranges[2 * i - 1]
              hi == ranges[2 * i]
          IN  [cur |-> IF hi + 1 > acc.cur THEN hi + 1 ELSE acc.cur,
               out |-> IF acc.cur < lo THEN acc.out \o <<acc.cur, lo - 1>> ELSE acc.out]
        end == FoldLeft(Pass, [cur |-> 0, out |-> <<>>], [i \in 1..(Len(ranges) \div 2) |-> i])
    IN  IF end.cur <= TopByte THEN end.out \o <<end.cur, TopByte>> ELSE end.out

EscapeAtom(e) ==
    CASE e = 100 -> CharClass(DigitRanges)
      [] e = 68 -> CharClass(NegateByteRanges(DigitRanges))
      [] e = 119 -> CharClass(WordRanges)
      [] e = 87 -> CharClass(NegateByteRanges(WordRanges))
      [] e = 115 -> CharClass(SpaceRanges)
      [] e = 83 -> CharClass(NegateByteRanges(SpaceRanges))
      [] e = 110 -> Literal(10)
      [] e = 116 -> Literal(9)
      [] e = 114 -> Literal(13)
      [] OTHER -> Literal(e)

ClassEscapeByte(e) ==
    CASE e = 110 -> 10 [] e = 116 -> 9 [] e = 114 -> 13 [] OTHER -> e

(* A bound of a class, with its escape. *)
ClassByte(s, p) ==
    LET esc == Peek(s, p) = 92
        at == IF esc THEN Skip(p, 1) ELSE p
    IN  [c |-> IF esc THEN ClassEscapeByte(Peek(s, at)) ELSE Peek(s, at), p |-> Skip(at, 1)]

RECURSIVE ClassItems(_, _, _, _)
ClassItems(s, p, first, ranges) ==
    LET lo == ClassByte(s, p)
        range == Peek(s, lo.p) = 45 /\ lo.p.pos < Len(s) /\ s[lo.p.pos + 1] # 93
        hi == IF range THEN ClassByte(s, Skip(lo.p, 1)) ELSE lo
    IN  IF p.pos > Len(s) \/ (Peek(s, p) = 93 /\ ~first) THEN [ranges |-> ranges, p |-> p]
        ELSE ClassItems(s, hi.p, FALSE, ranges \o <<lo.c, hi.c>>)

ParseClass(s, p) ==
    LET neg == Peek(s, Skip(p, 1)) = 94
        items == ClassItems(s, Skip(p, IF neg THEN 2 ELSE 1), TRUE, <<>>)
    IN  IF Peek(s, items.p) # 93 THEN Err(items.p, "missing closing ]")
        ELSE Ok(CharClass(IF neg THEN NegateByteRanges(items.ranges) ELSE items.ranges),
                Skip(items.p, 1))

-----------------------------------------------------------------------------
RECURSIVE ParseAlt(_, _), Alternatives(_, _, _), Parts(_, _, _), Repeats(_, _)
ParseAtom(s, p) ==
    LET c == Peek(s, p)
        group == ParseAlt(s, [pos |-> p.pos + 1, numCap |-> p.numCap + 1])
    IN  CASE c = 40 ->
               IF group.err # "" THEN group
               ELSE IF Peek(s, group.p) # 41 THEN Err(group.p, "missing closing )")
               ELSE Ok(Node("Capture", <<group.n>>, <<>>, p.numCap + 1), Skip(group.p, 1))
          [] c = 46 -> Ok(Leaf("AnyChar"), Skip(p, 1))
          [] c = 94 -> Ok(Leaf("BeginLine"), Skip(p, 1))
          [] c = 36 -> Ok(Leaf("EndLine"), Skip(p, 1))
          [] c = 91 -> ParseClass(s, p)
          [] c = 92 -> Ok(EscapeAtom(Peek(s, Skip(p, 1))), Skip(p, 2))
          [] c = 0 -> Err(p, "unexpected end of pattern")
          [] OTHER -> Ok(Literal(c), Skip(p, 1))

Repeats(s, a) ==
    LET c == Peek(s, a.p)
        Op == CASE c = 42 -> "Star" [] c = 43 -> "Plus" [] c = 63 -> "Quest" [] OTHER -> ""
    IN  IF a.err # "" \/ Op = "" THEN a ELSE Repeats(s, Ok(Unary(Op, a.n), Skip(a.p, 1)))
ParseRepeat(s, p) == Repeats(s, ParseAtom(s, p))

Parts(s, p, parts) ==
    LET a == ParseRepeat(s, p)
    IN  IF p.pos > Len(s) \/ Peek(s, p) \in {124, 41}
        THEN Ok(IF Len(parts) = 1 THEN parts[1] ELSE Node("Concat", parts, <<>>, 0), p)
        ELSE IF a.err # "" THEN a
        ELSE Parts(s, a.p, Append(parts, a.n))
ParseConcat(s, p) == Parts(s, p, <<>>)

Alternatives(s, p, alts) ==
    LET next == ParseConcat(s, Skip(p, 1))
    IN  IF Peek(s, p) # 124
        THEN Ok(IF Len(alts) = 1 THEN alts[1] ELSE Node("Alternate", alts, <<>>, 0), p)
        ELSE IF next.err # "" THEN next
        ELSE Alternatives(s, next.p, Append(alts, next.n))
ParseAlt(s, p) ==
    LET first == ParseConcat(s, p)
    IN  IF first.err # "" THEN first ELSE Alternatives(s, first.p, <<first.n>>)

Parse(s) ==
    LET r == ParseAlt(s, [pos |-> 1, numCap |-> 0])
    IN  IF r.err = "" /\ r.p.pos # Len(s) + 1 THEN Err(r.p, "unexpected ')'") ELSE r
=============================================================================
