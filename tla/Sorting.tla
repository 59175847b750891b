-------------------------------- MODULE Sorting --------------------------------
(* sort, container/heap and container/ring.  A collection behind sort.Interface
   or heap.Interface is a sequence; Less compares what is at two indices.      *)
EXTENDS Integers, Sequences, SequencesExt

CONSTANT Less(_, _)

Swapped(x, i, j) == [x EXCEPT ![i] = x[j], ![j] = x[i]]

(* sort.Ints and its kin: x[i] moves left past the greater ones. *)
Shifted(x, i) ==
    LET j == CHOOSE k \in 1..i : /\ \A m \in k..(i - 1) : Less(x[i], x[m])
                                 /\ k = 1 \/ ~Less(x[i], x[k - 1])
    IN  SubSeq(x, 1, j - 1) \o <<x[i]>> \o SubSeq(x, j, i - 1) \o SubSeq(x, i + 1, Len(x))
Ints(x) == FoldLeft(Shifted, x, [i \in DOMAIN x |-> i])

(* sort.Sort and sort.Slice: the same by adjacent swaps. *)
RECURSIVE Sink(_, _)
Sink(x, j) == IF j > 1 /\ Less(x[j], x[j - 1]) THEN Sink(Swapped(x, j, j - 1), j - 1) ELSE x
Sort(x) == FoldLeft(Sink, x, [i \in DOMAIN x |-> i])
SliceIsSorted(x) == \A i \in 2..Len(x) : ~Less(x[i], x[i - 1])

Search(n, f) ==
    LET in[lo \in 0..n, hi \in 0..n] ==
          LET mid == (lo + hi) \div 2
          IN  IF lo >= hi THEN lo ELSE IF ~f[mid] THEN in[mid + 1, hi] ELSE in[lo, mid]
    IN  in[0, n]

-----------------------------------------------------------------------------
(* container/heap; positions start at 1 here, so the children of i are 2 i
   and 2 i + 1.                                                               *)
RECURSIVE Up(_, _), Down(_, _, _)
Up(h, j) ==
    LET i == j \div 2
    IN  IF j > 1 /\ Less(h[j], h[i]) THEN Up(Swapped(h, i, j), i) ELSE h

Down(h, i, n) ==
    LET j == IF 2 * i < n /\ Less(h[2 * i + 1], h[2 * i]) THEN 2 * i + 1 ELSE 2 * i
    IN  IF 2 * i > n \/ ~Less(h[j], h[i]) THEN h ELSE Down(Swapped(h, i, j), j, n)

Settle_DownOnly(h, i, n) == Down(h, i, n)

(* down says whether it moved anything; if it did not, up is tried. *)
Settle(h, i, n) == LET d == Down(h, i, n) IN IF d = h THEN Up(h, i) ELSE d

HeapInit(h) ==
    FoldLeft(LAMBDA x, i : Down(x, i, Len(h)), h,
             Reverse([i \in 1..(Len(h) \div 2) |-> i]))
HeapPush(h, x) == Up(Append(h, x), Len(h) + 1)
Popped(h) == [top |-> h[Len(h)], rest |-> SubSeq(h, 1, Len(h) - 1)]
HeapPop(h) == Popped(Down(Swapped(h, 1, Len(h)), 1, Len(h) - 1))
HeapRemove(h, i) ==
    IF i = Len(h) THEN Popped(h) ELSE Popped(Settle(Swapped(h, i, Len(h)), i, Len(h) - 1))
HeapFix(h, i) == Settle(h, i, Len(h))

-----------------------------------------------------------------------------
(* container/ring: next and prev of every element. *)
RingNew(n) == [next |-> [i \in 1..n |-> (i % n) + 1],
               prev |-> [i \in 1..n |-> ((i - 2 + n) % n) + 1]]

RECURSIVE Move(_, _, _)
Move(g, p, n) ==
    IF n = 0 THEN p
    ELSE IF n < 0 THEN Move(g, g.prev[p], n + 1) ELSE Move(g, g.next[p], n - 1)

(* The four assignments, in their order: r and s may be the same element. *)
Link(g, r, s) ==
    LET n == g.next[r]
        p == g.prev[s]
        a == [g EXCEPT !.next[r] = s]
        b == [a EXCEPT !.prev[s] = r]
        c == [b EXCEPT !.prev[n] = p]
    IN  [c EXCEPT !.next[p] = n]
Unlink(g, r, n) == IF n <= 0 THEN g ELSE Link(g, r, Move(g, r, n + 1))

RECURSIVE Around(_, _, _)
Around(g, r, s) == IF g.next[Last(s)] = r THEN s ELSE Around(g, r, Append(s, g.next[Last(s)]))
RingOf(g, r) == Around(g, r, <<r>>)
=============================================================================
