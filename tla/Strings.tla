-------------------------------- MODULE Strings --------------------------------
(* strings: searching, splitting, replacing and trimming.  A string is a
   sequence of bytes; positions count from 0 as in the code and -1 is none.   *)
EXTENDS Integers, Sequences, SequencesExt, FiniteSetsExt

IsSpaceByte(c) == c \in {32, 9, 10, 11, 12, 13}
From(s, i) == SubSeq(s, i + 1, Len(s))
Slice(s, i, j) == SubSeq(s, i + 1, j)

HasPrefix(s, prefix) == Len(prefix) <= Len(s) /\ Slice(s, 0, Len(prefix)) = prefix
HasSuffix(s, suffix) == Len(suffix) <= Len(s) /\ From(s, Len(s) - Len(suffix)) = suffix
LOCAL Matches(s, sub) == {i \in 0..(Len(s) - Len(sub)) : Slice(s, i, i + Len(sub)) = sub}
Index(s, sub) == LET at == Matches(s, sub) IN IF at = {} THEN -1 ELSE Min(at)
LastIndex(s, sub) == LET at == Matches(s, sub) IN IF at = {} THEN -1 ELSE Max(at)
Contains_(s, sub) == Index(s, sub) >= 0
IndexAny(s, chars) ==
    LET at == {i \in 0..(Len(s) - 1) : Contains_(chars, <<s[i + 1]>>)}
    IN  IF at = {} THEN -1 ELSE Min(at)

RECURSIVE Count(_, _), SplitFrom(_, _, _), ReplaceFrom(_, _, _, _, _), Fields(_)
Count(s, sub) ==
    LET j == Index(s, sub)
    IN  IF sub = <<>> THEN Len(s) + 1
        ELSE IF j < 0 THEN 0
        ELSE 1 + Count(From(s, j + Len(sub)), sub)

Join(elems, sep) ==
    FoldLeft(LAMBDA out, i : IF i = 1 THEN elems[1] ELSE out \o sep \o elems[i],
             <<>>, [i \in DOMAIN elems |-> i])

SplitFrom(s, sep, out) ==
    LET j == Index(s, sep)
    IN  IF j < 0 THEN Append(out, s)
        ELSE SplitFrom(From(s, j + Len(sep)), sep, Append(out, Slice(s, 0, j)))
Split(s, sep) ==
    IF sep = <<>> THEN [i \in DOMAIN s |-> <<s[i]>>] ELSE SplitFrom(s, sep, <<>>)

(* n is the number of replacements left, negative for all of them. *)
ReplaceFrom(s, old, new, n, out) ==
    LET j == Index(s, old)
    IN  IF n = 0 \/ j < 0 THEN out \o s
        ELSE ReplaceFrom(From(s, j + Len(old)), old, new, n - 1, out \o Slice(s, 0, j) \o new)
Replace(s, old, new, n) == IF old = <<>> THEN s ELSE ReplaceFrom(s, old, new, n, <<>>)

ToUpper(s) == [i \in DOMAIN s |-> IF s[i] \in 97..122 THEN s[i] - 32 ELSE s[i]]
ToLower(s) == [i \in DOMAIN s |-> IF s[i] \in 65..90 THEN s[i] + 32 ELSE s[i]]
EqualFold(s, t) == Len(s) = Len(t) /\ ToLower(s) = ToLower(t)

TrimPrefix(s, prefix) == IF HasPrefix(s, prefix) THEN From(s, Len(prefix)) ELSE s
TrimSuffix(s, suffix) == IF HasSuffix(s, suffix) THEN Slice(s, 0, Len(s) - Len(suffix)) ELSE s

LOCAL Kept(s, out(_)) == {i \in DOMAIN s : ~out(s[i])}
TrimLeft(s, cutset) ==
    LET keep == Kept(s, LAMBDA c : Contains_(cutset, <<c>>))
    IN  IF keep = {} THEN <<>> ELSE From(s, Min(keep) - 1)
TrimRight(s, cutset) ==
    LET keep == Kept(s, LAMBDA c : Contains_(cutset, <<c>>))
    IN  IF keep = {} THEN <<>> ELSE Slice(s, 0, Max(keep))
Trim(s, cutset) == TrimLeft(TrimRight(s, cutset), cutset)
TrimSpace(s) ==
    LET keep == Kept(s, IsSpaceByte)
    IN  IF keep = {} THEN <<>> ELSE SubSeq(s, Min(keep), Max(keep))

(* UTF-8: a rune is its first byte and the continuation bytes after it. *)
IsUTF8Cont(c) == c \in 128..191
RECURSIVE RuneEnd(_, _), RuneStart(_, _, _)
RuneEnd(s, k) == IF k < Len(s) /\ IsUTF8Cont(s[k + 1]) THEN RuneEnd(s, k + 1) ELSE k
DecodeRuneAt(s, i) == Slice(s, i, RuneEnd(s, i + 1))
RuneStart(s, start, i) == IF i > start /\ IsUTF8Cont(s[i + 1]) THEN RuneStart(s, start, i - 1) ELSE i

(* f is the set of runes that are trimmed. *)
RECURSIVE TrimHead(_, _, _), TrimTail(_, _, _, _)
TrimHead(s, start, f) ==
    LET r == DecodeRuneAt(s, start)
    IN  IF start < Len(s) /\ r \in f THEN TrimHead(s, start + Len(r), f) ELSE start
TrimTail(s, start, end, f) ==
    LET i == RuneStart(s, start, end - 1)
    IN  IF end > start /\ DecodeRuneAt(s, i) \in f THEN TrimTail(s, start, i, f) ELSE end
TrimFunc(s, f) == LET start == TrimHead(s, 0, f) IN Slice(s, start, TrimTail(s, start, Len(s), f))

Fields(s) ==
    LET start == Kept(s, IsSpaceByte)
        i == Min(start)
        end == {k \in i..Len(s) : IsSpaceByte(s[k])}
        stop == IF end = {} THEN Len(s) + 1 ELSE Min(end)
    IN  IF start = {} THEN <<>>
        ELSE <<SubSeq(s, i, stop - 1)>> \o Fields(From(s, stop - 1))

Cut(s, sep) ==
    LET i == Index(s, sep)
    IN  IF i < 0 THEN [before |-> s, after |-> <<>>, found |-> FALSE]
        ELSE [before |-> Slice(s, 0, i), after |-> From(s, i + Len(sep)), found |-> TRUE]
=============================================================================
