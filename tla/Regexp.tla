------------------------------- MODULE Regexp -------------------------------
(* regexp: the recursive-descent parser of patterns and the backtracking
   matcher.  Patterns and texts are sequences of byte values.  A parse returns
   the node n and the position i after it; 0 is an error.

   The matcher passes continuations: matchNode calls cont with each position
   the node can end at, in order, until one succeeds.  Ends is that order.   *)
EXTENDS Integers, Sequences, SequencesExt, FiniteSets

Byte(p, i) == IF i \in 1..Len(p) THEN p[i] ELSE 0       \* peek
R(n, i) == [n |-> n, i |-> i]
Error == R([k |-> "err"], 0)

Char(c) == [k |-> "char", ch |-> c]
Class(ranges, negate) == [k |-> "class", ranges |-> ranges, negate |-> negate]
Sub(k, sub) == [k |-> k, sub |-> sub]

DigitClass == <<<<48, 57>>>>
WordClass == <<<<48, 57>>, <<65, 90>>, <<97, 122>>, <<95, 95>>>>
SpaceClass == <<<<32, 32>>, <<9, 9>>, <<10, 10>>, <<13, 13>>, <<12, 12>>, <<11, 11>>>>

Control(e) == CASE e = 110 -> 10 [] e = 116 -> 9 [] e = 114 -> 13 [] OTHER -> e

EscapeNode(e) ==
    CASE e = 100 -> Class(DigitClass, FALSE) [] e = 68 -> Class(DigitClass, TRUE)
      [] e = 119 -> Class(WordClass, FALSE) [] e = 87 -> Class(WordClass, TRUE)
      [] e = 115 -> Class(SpaceClass, FALSE) [] e = 83 -> Class(SpaceClass, TRUE)
      [] OTHER -> Char(Control(e))

(* One bound of a range inside a class, an escape resolved, and what follows. *)
ClassByte(p, i) ==
    IF Byte(p, i) = 92 THEN R(Control(Byte(p, i + 1)), i + 2) ELSE R(Byte(p, i), i + 1)

RECURSIVE ClassRanges(_, _, _), ParseAlt(_, _), ParseConcat(_, _), Repeated(_, _, _)
ClassRanges(p, i, first) ==
    LET lo == ClassByte(p, i)
        dash == Byte(p, lo.i) = 45 /\ lo.i + 1 <= Len(p) /\ Byte(p, lo.i + 1) # 93
        hi == IF dash THEN ClassByte(p, lo.i + 1) ELSE lo
        more == ClassRanges(p, hi.i, FALSE)
    IN  IF i > Len(p) \/ (Byte(p, i) = 93 /\ ~first) THEN R(<<>>, i)
        ELSE R(<<<<lo.n, hi.n>>>> \o more.n, more.i)

ParseClass(p, i) ==
    LET neg == Byte(p, i + 1) = 94
        rs == ClassRanges(p, IF neg THEN i + 2 ELSE i + 1, TRUE)
    IN  IF Byte(p, rs.i) # 93 THEN Error ELSE R(Class(rs.n, neg), rs.i + 1)

ParseGroup(p, i) ==
    LET open == IF Byte(p, i + 1) = 63 /\ Byte(p, i + 2) = 58 THEN i + 3 ELSE i + 1
        alt == ParseAlt(p, open)
    IN  IF alt.i = 0 \/ Byte(p, alt.i) # 41 THEN Error
        ELSE R(Sub("group", <<alt.n>>), alt.i + 1)

ParseAtom(p, i) ==
    LET c == Byte(p, i)
    IN  CASE c = 40 -> ParseGroup(p, i)
          [] c = 46 -> R([k |-> "any"], i + 1)
          [] c = 94 -> R([k |-> "start"], i + 1)
          [] c = 36 -> R([k |-> "end"], i + 1)
          [] c = 91 -> ParseClass(p, i)
          [] c = 92 -> R(EscapeNode(Byte(p, i + 1)), i + 2)
          [] c = 0 -> Error
          [] OTHER -> R(Char(c), i + 1)

Repeated(p, n, i) ==
    CASE Byte(p, i) = 42 -> Repeated(p, Sub("star", <<n>>), i + 1)
      [] Byte(p, i) = 43 -> Repeated(p, Sub("plus", <<n>>), i + 1)
      [] Byte(p, i) = 63 -> Repeated(p, Sub("quest", <<n>>), i + 1)
      [] OTHER -> R(n, i)

(* The parts of a concatenation, and the alternatives of an alternation. *)
ParseConcat(p, i) ==
    LET atom == ParseAtom(p, i)
        part == Repeated(p, atom.n, atom.i)
        rest == ParseConcat(p, part.i)
    IN  IF i > Len(p) \/ Byte(p, i) \in {124, 41} THEN R(<<>>, i)
        ELSE IF atom.i = 0 \/ rest.i = 0 THEN R(<<>>, 0)
        ELSE R(<<part.n>> \o rest.n, rest.i)

One(k, parts) == IF Len(parts) = 1 THEN parts[1] ELSE Sub(k, parts)

RECURSIVE Alternatives(_, _)
Alternatives(p, i) ==
    LET c == ParseConcat(p, i)
        rest == Alternatives(p, c.i + 1)
    IN  IF c.i = 0 \/ Byte(p, c.i) # 124 THEN R(<<One("concat", c.n)>>, c.i)
        ELSE R(<<One("concat", c.n)>> \o rest.n, rest.i)

ParseAlt(p, i) == LET as == Alternatives(p, i) IN R(One("alt", as.n), as.i)

(* Compile: the whole pattern is one alternation. *)
Compile(p) == LET r == ParseAlt(p, 1) IN IF r.i = Len(p) + 1 THEN r ELSE Error

-----------------------------------------------------------------------------
(* Matching.  Positions in the text are counted from 0, as in the code. *)

ClassMatches(n, c) ==
    n.negate # \E j \in DOMAIN n.ranges : n.ranges[j][1] <= c /\ c <= n.ranges[j][2]

RECURSIVE Ends(_, _, _), StarEnds(_, _, _)

Through(starts, Step(_)) == FlattenSeq([j \in DOMAIN starts |-> Step(starts[j])])

StarEnds_Lazy(sub, s, pos) ==
    <<pos>> \o
    Through(SelectSeq(Ends(sub, s, pos), LAMBDA q : q # pos), LAMBDA q : StarEnds(sub, s, q))

(* matchStar: an iteration that consumes nothing is not taken again. *)
StarEnds(sub, s, pos) ==
    Through(SelectSeq(Ends(sub, s, pos), LAMBDA q : q # pos), LAMBDA q : StarEnds(sub, s, q))
    \o <<pos>>

Ends(n, s, pos) ==
    LET Take(ok) == IF pos < Len(s) /\ ok THEN <<pos + 1>> ELSE <<>>
        Stay(ok) == IF ok THEN <<pos>> ELSE <<>>
    IN  CASE n.k = "char" -> Take(s[pos + 1] = n.ch)
          [] n.k = "any" -> Take(s[pos + 1] # 10)
          [] n.k = "class" -> Take(ClassMatches(n, s[pos + 1]))
          [] n.k = "start" -> Stay(pos = 0)
          [] n.k = "end" -> Stay(pos = Len(s))
          [] n.k = "group" -> Ends(n.sub[1], s, pos)
          [] n.k = "concat" ->
               FoldLeft(LAMBDA at, part : Through(at, LAMBDA q : Ends(part, s, q)), <<pos>>, n.sub)
          [] n.k = "alt" -> FlattenSeq([j \in DOMAIN n.sub |-> Ends(n.sub[j], s, pos)])
          [] n.k = "quest" -> Ends(n.sub[1], s, pos) \o <<pos>>
          [] n.k = "star" -> StarEnds(n.sub[1], s, pos)
          [] n.k = "plus" ->
               Through(Ends(n.sub[1], s, pos), LAMBDA q : StarEnds(n.sub[1], s, q))

NoMatch == <<>>
RECURSIVE FindAt(_, _, _), FindAll(_, _, _, _), Replace(_, _, _, _), SplitFrom(_, _, _, _)

(* <<start, end>> of the first match at or after i. *)
FindAt(n, s, i) ==
    IF i > Len(s) THEN NoMatch
    ELSE LET ends == Ends(n, s, i)
         IN  IF ends = <<>> THEN FindAt(n, s, i + 1) ELSE <<i, ends[1]>>

MatchString(n, s) == FindAt(n, s, 0) # NoMatch
Between(s, i, j) == SubSeq(s, i + 1, j)
Advance(m) == IF m[1] = m[2] THEN m[2] + 1 ELSE m[2]

(* FindAllString's matches from pos on, as index pairs; limit < 0: all. *)
FindAll(n, s, pos, limit) ==
    LET m == FindAt(n, s, pos)
    IN  IF pos > Len(s) \/ limit = 0 \/ m = NoMatch THEN <<>>
        ELSE <<m>> \o FindAll(n, s, Advance(m), limit - 1)

Replace(n, s, pos, repl) ==
    LET m == FindAt(n, s, pos)
        copied == IF m[1] = m[2] /\ m[1] < Len(s) THEN <<s[m[1] + 1]>> ELSE <<>>
    IN  IF pos > Len(s) THEN <<>>
        ELSE IF m = NoMatch THEN Between(s, pos, Len(s))
        ELSE Between(s, pos, m[1]) \o repl \o copied \o Replace(n, s, Advance(m), repl)

(* Split gives up at the first empty match. *)
SplitFrom(n, s, pos, limit) ==
    LET m == FindAt(n, s, pos)
    IN  IF pos > Len(s) \/ limit = 1 \/ m = NoMatch THEN <<Between(s, pos, Len(s))>>
        ELSE IF m[1] >= Len(s) \/ m[1] = m[2] THEN <<Between(s, pos, Len(s))>>
        ELSE <<Between(s, pos, m[1])>> \o SplitFrom(n, s, m[2], limit - 1)
=============================================================================
