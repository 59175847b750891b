------------------------------ MODULE GoChannel ------------------------------
(***************************************************************************)
(* What one channel promises its users, without waiters, cells or a        *)
(* scheduler: the values offered and not yet received form a FIFO queue    *)
(* whose first Capacity entries are accepted, the receives that found it   *)
(* empty form a FIFO queue of requests, and a receive and a send that meet *)
(* are paired in those orders.  Only an offer that is not accepted may be  *)
(* withdrawn (its select took another case, or the channel was closed).    *)
(***************************************************************************)
EXTENDS Naturals, Sequences

CONSTANTS
  Op,        \* the identities of operations; a value is named by its send
  Capacity   \* the capacity the channel was made with, a natural number

VARIABLES
  offers,    \* values sent and not received, oldest first
  requests,  \* receives waiting for a value, oldest first
  isClosed,
  pairs      \* history: which value went to which receive, in order

chan == <<offers, requests, isClosed, pairs>>

RangeOf(s) == {s[i] : i \in DOMAIN s}

\* t is what is left of s when the elements of O are taken out.
LeavesOut(t, s, O) ==
  /\ t \in Seq(RangeOf(s))
  /\ \E at \in [DOMAIN t -> DOMAIN s] :
       /\ \A j, k \in DOMAIN t : j < k => at[j] < at[k]
       /\ \A k \in DOMAIN t : t[k] = s[at[k]]
       /\ \A i \in DOMAIN s : s[i] \notin O <=> \E k \in DOMAIN t : at[k] = i

Accepted == SubSeq(offers, 1, IF Len(offers) < Capacity THEN Len(offers) ELSE Capacity)
Pending == SubSeq(offers, Capacity + 1, Len(offers))

Init ==
  /\ offers = <<>>
  /\ requests = <<>>
  /\ isClosed = FALSE
  /\ pairs = <<>>

Pair(v, o) == pairs' = Append(pairs, [val |-> v, to |-> o])

\* A send that nobody waits for is accepted, or waits behind a full buffer.
Offer(o) ==
  /\ ~isClosed
  /\ requests = <<>>
  /\ offers' = Append(offers, o)
  /\ UNCHANGED <<requests, isClosed, pairs>>

\* A send that meets the oldest request.
Meet(o) ==
  /\ ~isClosed
  /\ requests # <<>>
  /\ Pair(o, Head(requests))
  /\ requests' = Tail(requests)
  /\ LeavesOut(offers', offers, {Head(requests)})
  /\ UNCHANGED isClosed

\* A receive of the oldest offer.
Take(o) ==
  /\ offers # <<>>
  /\ Pair(Head(offers), o)
  /\ offers' = Tail(offers)
  /\ LeavesOut(requests', requests, {Head(offers)})
  /\ UNCHANGED isClosed

\* A receive that has to wait.
Request(o) ==
  /\ ~isClosed
  /\ offers = <<>>
  /\ requests' = Append(requests, o)
  /\ UNCHANGED <<offers, isClosed, pairs>>

\* A select that waits to send and to receive on this one channel.
OfferAndRequest(o) ==
  /\ ~isClosed
  /\ offers = <<>>
  /\ requests = <<>>
  /\ offers' = <<o>>
  /\ requests' = <<o>>
  /\ UNCHANGED <<isClosed, pairs>>

\* Selects that took a case on another channel.
Withdraw(O) ==
  /\ UNCHANGED <<isClosed, pairs>>
  /\ Accepted' = Accepted
  /\ LeavesOut(Pending', Pending, O)
  /\ LeavesOut(requests', requests, O)

\* Accepted values stay; everything that waits is let go.
CloseChan ==
  /\ ~isClosed
  /\ isClosed' = TRUE
  /\ offers' = Accepted
  /\ requests' = <<>>
  /\ UNCHANGED pairs

Next ==
  \/ \E O \in SUBSET (RangeOf(Pending) \union RangeOf(requests)) : Withdraw(O)
  \/ \E o \in Op : Offer(o) \/ Meet(o) \/ Take(o) \/ Request(o) \/ OfferAndRequest(o)
  \/ CloseChan

Spec == Init /\ [][Next]_chan
=============================================================================
