-------------------------------- MODULE SeqList --------------------------------
(* What a container/list promises: every list is a sequence of elements, the
   same read from the front and from the back, with its length and, for every
   element, the list it is on.                                               *)
EXTENDS Naturals, Sequences, SequencesExt

CONSTANTS Elems, Lists, Nil

VARIABLES order,   \* the elements of a list from the front
          back,    \* the same, found from the back
          len,
          on       \* the list of an element, or Nil
vars == <<order, back, len, on>>

Owner(o, e) == IF \E l \in Lists : Contains(o[l], e)
               THEN CHOOSE l \in Lists : Contains(o[l], e) ELSE Nil
Becomes(l, s) ==
    /\ order' = [order EXCEPT ![l] = s]
    /\ back' = order'
    /\ len' = [k \in Lists |-> Len(order'[k])]
    /\ on' = [e \in Elems |-> Owner(order', e)]

Init == /\ order = [l \in Lists |-> <<>>] /\ back = order
        /\ len = [l \in Lists |-> 0] /\ on = [e \in Elems |-> Nil]

Position(l, e) == CHOOSE i \in DOMAIN order[l] : order[l][i] = e
Fresh(e) == on[e] = Nil
PushBack(l, e) == Fresh(e) /\ Becomes(l, Append(order[l], e))
PushFront(l, e) == Fresh(e) /\ Becomes(l, <<e>> \o order[l])
InsertBefore(l, e, m) == /\ Fresh(e) /\ on[m] = l
                         /\ Becomes(l, InsertAt(order[l], Position(l, m), e))
InsertAfter(l, e, m) == /\ Fresh(e) /\ on[m] = l
                        /\ Becomes(l, InsertAt(order[l], Position(l, m) + 1, e))
Drop(l, e) == on[e] = l /\ Becomes(l, RemoveAt(order[l], Position(l, e)))
Empty(l) == Becomes(l, <<>>)

Next == \E l \in Lists :
          \/ Empty(l)
          \/ \E e \in Elems : \/ PushBack(l, e) \/ PushFront(l, e) \/ Drop(l, e)
                             \/ \E m \in Elems : InsertBefore(l, e, m) \/ InsertAfter(l, e, m)

Spec == Init /\ [][Next]_vars
=============================================================================
