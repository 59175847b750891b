------------------------------ MODULE LinkedList ------------------------------
(* container/list.  An element is made by the push or the insertion that puts
   it in; one that was removed, or that Init left behind, is not given to the
   list again (Init does not clear the elements' list field, so ListRemove would
   take them for elements of the list).                                        *)
EXTENDS Naturals, Sequences, SequencesExt

CONSTANTS Elems, Lists, Nil

ASSUME LinkedListAssumption == IsFiniteSet(Elems) /\ Nil \notin Elems \union Lists

VARIABLES elem,     \* Element: next, prev, list
          lists,    \* List: head, tail, n
          made,     \* the elements made so far
          left      \* those an Init left behind
listVars == <<elem, lists, made, left>>

Zero == [next |-> Nil, prev |-> Nil, list |-> Nil]

ListInit == /\ elem = [e \in Elems |-> Zero]
            /\ lists = [l \in Lists |-> [head |-> Nil, tail |-> Nil, n |-> 0]]
            /\ made = {} /\ left = {}

(* Several pointers are set in one step: the link p -> e -> q. *)
Linked(l, e, p, q) ==
    /\ elem' = [x \in Elems |->
                  IF x = e THEN [next |-> q, prev |-> p, list |-> l]
                  ELSE [elem[x] EXCEPT !.next = IF x = p THEN e ELSE @,
                                       !.prev = IF x = q THEN e ELSE @]]
    /\ lists' = [lists EXCEPT ![l] = [head |-> IF p = Nil THEN e ELSE @.head,
                                      tail |-> IF q = Nil THEN e ELSE @.tail,
                                      n |-> @.n + 1]]
    /\ made' = made \cup {e}
    /\ UNCHANGED left

PushBack(l, e) == Linked(l, e, lists[l].tail, Nil)
PushFront(l, e) == Linked(l, e, Nil, lists[l].head)

(* mark may be of another list: then nothing is inserted. *)
Marks(l, mark) == mark \in made \ left /\ elem[mark].list = l
InsertBefore(l, e, mark) == Marks(l, mark) /\ Linked(l, e, elem[mark].prev, mark)
InsertAfter_AnyList(l, e, mark) ==
    mark \in made \ left /\ Linked(l, e, mark, elem[mark].next)

InsertAfter(l, e, mark) == Marks(l, mark) /\ Linked(l, e, mark, elem[mark].next)

ListRemove(l, e) ==
    LET p == elem[e].prev
        q == elem[e].next
    IN  /\ e \in made \ left
        /\ elem[e].list = l
        /\ elem' = [x \in Elems |->
                      IF x = e THEN Zero
                      ELSE [elem[x] EXCEPT !.next = IF x = p THEN q ELSE @,
                                           !.prev = IF x = q THEN p ELSE @]]
        /\ lists' = [lists EXCEPT ![l] = [head |-> IF p = Nil THEN q ELSE @.head,
                                          tail |-> IF q = Nil THEN p ELSE @.tail,
                                          n |-> @.n - 1]]
        /\ UNCHANGED <<made, left>>

ListClear(l) ==
    /\ left' = left \cup {e \in made : elem[e].list = l}
    /\ lists' = [lists EXCEPT ![l] = [head |-> Nil, tail |-> Nil, n |-> 0]]
    /\ UNCHANGED <<elem, made>>

ListNext ==
    \E l \in Lists :
      \/ ListClear(l)
      \/ \E e \in Elems \ made :
           \/ PushBack(l, e)
           \/ PushFront(l, e)
           \/ \E mark \in Elems : InsertBefore(l, e, mark)
           \/ \E mark \in Elems : InsertAfter(l, e, mark)
      \/ \E e \in Elems : ListRemove(l, e)

ListSpec == ListInit /\ [][ListNext]_listVars

-----------------------------------------------------------------------------
(* The elements met from first on along a field of theirs; a walk is no longer
   than there are elements.  From the front by next, and from the back by prev. *)
Met(links, first, field) ==
    LET from[k \in 0..Cardinality(Elems)] ==
          [e \in Elems \union {Nil} |->
             IF k = 0 \/ e = Nil THEN <<>> ELSE <<e>> \o from[k - 1][links[e][field]]]
    IN  from[Cardinality(Elems)][first]

Walk(l) == Met(elem, lists[l].head, "next")
WalkBack(l) == Reverse(Met(elem, lists[l].tail, "prev"))

Abstract == INSTANCE SeqList WITH
    order <- [l \in Lists |-> Walk(l)],
    back <- [l \in Lists |-> WalkBack(l)],
    len <- [l \in Lists |-> lists[l].n],
    on <- [e \in Elems |-> IF e \in left THEN Nil ELSE elem[e].list]

(* What a call of the package that changes something means for the sequence. *)
CallIsAbstract ==
    listVars' # listVars => \A l \in Lists :
      /\ ListClear(l) => Abstract!Empty(l)
      /\ \A e \in Elems \ made :
           /\ PushBack(l, e) => Abstract!PushBack(l, e)
           /\ PushFront(l, e) => Abstract!PushFront(l, e)
           /\ \A m \in made : /\ InsertBefore(l, e, m) => Abstract!InsertBefore(l, e, m)
                              /\ InsertAfter(l, e, m) => Abstract!InsertAfter(l, e, m)
      /\ \A e \in made : ListRemove(l, e) => Abstract!Drop(l, e)

(* container/list is a sequence: whatever is pushed, inserted before or after a
   mark (also one of another list) and removed, on several lists, each call does
   to the sequence what its name says; the elements found from the front and from
   the back, the length and each element's own list stay in agreement.           *)
ListRefines == Abstract!Spec /\ [][CallIsAbstract]_listVars
=============================================================================
