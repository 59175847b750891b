--------------------------------- MODULE Paths ---------------------------------
(* path/filepath: lexical processing of slash-separated paths, sequences of
   characters.  Package path has the same functions except Rel.              *)
EXTENDS Integers, Sequences, SequencesExt, FiniteSetsExt

Slash == "/"
Dot == <<".">>
DotDot == <<".", ".">>
LOCAL Slashes(name) == {i \in DOMAIN name : name[i] = Slash}
LOCAL Others(name) == DOMAIN name \ Slashes(name)
LOCAL LastOf(S) == Max(S \cup {0})

IsAbs(path) == path # <<>> /\ path[1] = Slash
HasSlash(s) == s # <<>> /\ Last(s) = Slash

Base(name) ==
    LET n == LastOf(Others(name))
        trimmed == SubSeq(name, 1, n)
    IN  IF name = <<>> THEN Dot ELSE IF n = 0 THEN <<Slash>>
        ELSE SubSeq(trimmed, LastOf(Slashes(trimmed)) + 1, n)

(* Everything before the last slash, without the slashes it ends in; the first
   character is never cut.                                                   *)
Dir(name) ==
    LET i == LastOf(Slashes(name))
        keep == {1} \cup {k \in Others(name) : k < i}
    IN  IF i = 0 THEN Dot ELSE SubSeq(name, 1, LastOf(keep))

Ext(name) ==
    LET dots == {i \in DOMAIN name : name[i] = "." /\ i > LastOf(Slashes(name))}
    IN  IF dots = {} THEN <<>> ELSE SubSeq(name, Max(dots), Len(name))

Split(path) ==
    LET i == LastOf(Slashes(path))
    IN  [dir |-> SubSeq(path, 1, i), file |-> SubSeq(path, i + 1, Len(path))]

Join(elem) ==
    FoldLeft(LAMBDA out, e : IF e = <<>> THEN out ELSE IF out = <<>> THEN e
                             ELSE IF HasSlash(out) THEN out \o e ELSE out \o <<Slash>> \o e,
             <<>>, elem)

RECURSIVE SplitSegs(_)
SplitSegs(path) ==
    LET end == Min(Slashes(path) \cup {Len(path) + 1})
        seg == SubSeq(path, 1, end - 1)
    IN  IF path = <<>> THEN <<>>
        ELSE (IF seg = <<>> THEN <<>> ELSE <<seg>>)
             \o SplitSegs(SubSeq(path, end + 1, Len(path)))

LOCAL Joined(segs) ==
    FlattenSeq([i \in DOMAIN segs |-> IF i = 1 THEN segs[i] ELSE <<Slash>> \o segs[i]])

Clean_PopsDotDot(path) ==
    LET abs == IsAbs(path)
        Take(out, seg) == IF seg = Dot THEN out
                          ELSE IF seg # DotDot THEN Append(out, seg)
                          ELSE IF out # <<>> THEN Front(out)
                          ELSE IF abs THEN out ELSE Append(out, DotDot)
        res == (IF abs THEN <<Slash>> ELSE <<>>) \o Joined(FoldLeft(Take, <<>>, SplitSegs(path)))
    IN  IF res = <<>> THEN Dot ELSE res

Clean(path) ==
    LET abs == IsAbs(path)
        Take(out, seg) ==
          IF seg = Dot THEN out
          ELSE IF seg # DotDot THEN Append(out, seg)
          ELSE IF out # <<>> /\ Last(out) # DotDot THEN Front(out)
          ELSE IF abs THEN out
          ELSE Append(out, DotDot)
        res == (IF abs THEN <<Slash>> ELSE <<>>) \o Joined(FoldLeft(Take, <<>>, SplitSegs(path)))
    IN  IF path = <<>> \/ res = <<>> THEN Dot ELSE res

(* <<>> is the error: no relative path is empty. *)
Rel(base0, target0) ==
    LET base == Clean(base0)
        target == Clean(target0)
        b == SplitSegs(base)
        t == SplitSegs(target)
        common == Max({k \in 0..Min({Len(b), Len(t)}) : SubSeq(b, 1, k) = SubSeq(t, 1, k)})
        climb == SubSeq(b, common + 1, Len(b))
        rel == Joined([i \in DOMAIN climb |-> DotDot] \o SubSeq(t, common + 1, Len(t)))
    IN  IF base = target THEN Dot
        ELSE IF IsAbs(base) # IsAbs(target) \/ DotDot \in Range(climb) THEN <<>>
        ELSE IF rel = <<>> THEN Dot ELSE rel

-----------------------------------------------------------------------------
(* net/url: escaping, splitting and joining URLs.  A text is a sequence of
   bytes.                                                                    *)
Percent == 37
Plus == 43
Blank == 32
Solidus == 47
IsUnreserved(c) == c \in (65..90) \cup (97..122) \cup (48..57) \cup {45, 95, 46, 126}
HexDigit(n) == IF n < 10 THEN 48 + n ELSE 55 + n
HexVal(c) ==
    CASE c \in 48..57 -> c - 48 [] c \in 97..102 -> c - 87 [] c \in 65..70 -> c - 55 [] OTHER -> -1

LOCAL Escaped(c) == <<Percent, HexDigit(c \div 16), HexDigit(c % 16)>>
QueryEscape(s) ==
    FlattenSeq([i \in DOMAIN s |-> IF IsUnreserved(s[i]) THEN <<s[i]>>
                                   ELSE IF s[i] = Blank THEN <<Plus>> ELSE Escaped(s[i])])
PathEscape(s) ==
    FlattenSeq([i \in DOMAIN s |-> IF IsUnreserved(s[i]) \/ s[i] = Solidus THEN <<s[i]>>
                                   ELSE Escaped(s[i])])

(* The text is read from i on; query says whether a plus is a blank. *)
RECURSIVE Unescape(_, _, _, _)
Unescape(s, i, query, out) ==
    LET hi == HexVal(s[i + 1])
        lo == HexVal(s[i + 2])
    IN  IF i > Len(s) THEN [s |-> out, err |-> FALSE]
        ELSE IF query /\ s[i] = Plus THEN Unescape(s, i + 1, query, Append(out, Blank))
        ELSE IF s[i] # Percent THEN Unescape(s, i + 1, query, Append(out, s[i]))
        ELSE IF i + 2 > Len(s) \/ hi < 0 \/ lo < 0 THEN [s |-> <<>>, err |-> TRUE]
        ELSE Unescape(s, i + 3, query, Append(out, 16 * hi + lo))
QueryUnescape(s) == Unescape(s, 1, TRUE, <<>>)
PathUnescape(s) == Unescape(s, 1, FALSE, <<>>)

SplitOnce(s, sep) ==
    LET at == {i \in 1..(Len(s) - Len(sep) + 1) : SubSeq(s, i, i + Len(sep) - 1) = sep}
    IN  IF at = {} THEN [before |-> s, after |-> <<>>, ok |-> FALSE]
        ELSE [before |-> SubSeq(s, 1, Min(at) - 1),
              after |-> SubSeq(s, Min(at) + Len(sep), Len(s)), ok |-> TRUE]

Parse(rawURL) ==
    LET scheme == SplitOnce(rawURL, <<58, Solidus, Solidus>>)
        rest == IF scheme.ok THEN scheme.after ELSE rawURL
        fragment == SplitOnce(rest, <<35>>)
        query == SplitOnce(fragment.before, <<63>>)
        host == SplitOnce(query.before, <<Solidus>>)
        hasScheme == scheme.ok /\ scheme.before # <<>>
    IN  [scheme |-> IF scheme.ok THEN scheme.before ELSE <<>>,
         host |-> IF hasScheme THEN host.before ELSE <<>>,
         path |-> IF ~hasScheme THEN query.before
                  ELSE IF host.ok THEN <<Solidus>> \o host.after ELSE <<>>,
         rawQuery |-> query.after, fragment |-> fragment.after]

String(u) ==
    LET with(mark, s) == IF s = <<>> THEN <<>> ELSE mark \o s
    IN  (IF u.scheme = <<>> THEN <<>> ELSE u.scheme \o <<58, Solidus, Solidus>> \o u.host)
        \o u.path \o with(<<63>>, u.rawQuery) \o with(<<35>>, u.fragment)

(* The pairs of a query, a later one replacing one of its key; the first pair
   that cannot be unescaped ends it.                                         *)
RECURSIVE ParsePairs(_, _)
ParsePairs(q, out) ==
    LET part == SplitOnce(q, <<38>>)
        pair == SplitOnce(part.before, <<61>>)
        key == QueryUnescape(pair.before)
        val == QueryUnescape(pair.after)
        grown == IF part.before = <<>> THEN out
                 ELSE {p \in out : p[1] # key.s} \cup {<<key.s, val.s>>}
    IN  IF part.before # <<>> /\ (key.err \/ val.err) THEN [pairs |-> out, err |-> TRUE]
        ELSE IF part.ok THEN ParsePairs(part.after, grown)
        ELSE [pairs |-> grown, err |-> FALSE]
ParseQuery(rawQuery) == ParsePairs(rawQuery, {})
=============================================================================
