--------------------------- MODULE ChanSchedProofs ---------------------------
(***************************************************************************)
(* Theorems about ChanSched for any finite set of goroutines, any          *)
(* channels and capacities, any case lists and any operation bound: its    *)
(* invariants, the verdict of run(), and that it implements GoChannel.     *)
(***************************************************************************)
EXTENDS ChanSched, SequenceTheorems, FiniteSetTheorems, TLAPS

-----------------------------------------------------------------------------
(* Types                                                                   *)

\* What is left of a waiter queue behind position i is a waiter queue.
LEMMA AfterType ==
  ASSUME NEW S, NEW q \in Seq(S), NEW i \in DOMAIN q
  PROVE  /\ After(q, i) \in Seq(S)
         /\ Len(After(q, i)) = Len(q) - i
         /\ \A j \in 1..(Len(q) - i) : After(q, i)[j] = q[i + j]
<1>1. i \in 1..Len(q) /\ Len(q) \in Nat /\ DOMAIN q = 1..Len(q)
  BY LenProperties
<1>2. \A j \in (i + 1)..Len(q) : q[j] \in S
  BY <1>1, ElementOfSeq
<1>3. /\ SubSeq(q, i + 1, Len(q)) \in Seq(S)
      /\ Len(SubSeq(q, i + 1, Len(q))) = IF i + 1 <= Len(q) THEN Len(q) - (i + 1) + 1 ELSE 0
      /\ \A j \in 1..(Len(q) - (i + 1) + 1) : SubSeq(q, i + 1, Len(q))[j] = q[i + 1 + j - 1]
  BY <1>1, <1>2, SubSeqProperties
<1>4. Len(After(q, i)) = Len(q) - i
  BY <1>1, <1>3 DEF After
<1>5. ASSUME NEW j \in 1..(Len(q) - i) PROVE After(q, i)[j] = q[i + j]
  <2>1. j \in 1..(Len(q) - (i + 1) + 1) /\ i + 1 + j - 1 = i + j
    BY <1>1
  <2> QED BY <1>3, <2>1 DEF After
<1> QED BY <1>3, <1>4, <1>5 DEF After

\* complete_recv and complete_send keep the types of what they write.
LEMMA CompleteType ==
  ASSUME TypeOK, NEW w \in Waiter, Complete(w)
  PROVE  /\ cancelled' \subseteq Op
         /\ winner' \in [Goroutine -> Nat]
         /\ parked' \in Int
         /\ ready' \in Seq(Goroutine)
         /\ pc' \in [Goroutine -> {"unborn", "ready", "running", "parked", "done"}]
<1>1. w.g \in Goroutine /\ w.n \in OpNo /\ w.kind \in {"plain", "select"} /\ w.idx \in Nat
  BY DEF Waiter
<1>2. TheOp(w) \in Op
  BY <1>1 DEF TheOp, Op
<1>3. cancelled' \subseteq Op
  BY <1>2 DEF TypeOK, Complete, CancelledBy
<1>4. winner' \in [Goroutine -> Nat]
  BY <1>1 DEF TypeOK, Complete
<1>5. parked' \in Int
  <2>1. parked \in Int
    BY DEF TypeOK
  <2>2. parked' = IF w.kind = "select" THEN parked ELSE parked - 1
    BY DEF Complete, Uncounted
  <2> QED BY <2>1, <2>2
<1>6. ready' \in Seq(Goroutine)
  <2>1. ready \in Seq(Goroutine) /\ ready' = Append(ready, w.g)
    BY DEF TypeOK, Complete, Enqueued
  <2> QED BY <1>1, <2>1, AppendProperties
<1>7. pc' \in [Goroutine -> {"unborn", "ready", "running", "parked", "done"}]
  BY <1>1 DEF TypeOK, Complete
<1> QED BY <1>3, <1>4, <1>5, <1>6, <1>7

\* A delivery is logged.
LEMMA DeliverType ==
  ASSUME TypeOK, NEW c \in Chan, NEW v \in Op, NEW o \in Op, Deliver(c, v, o)
  PROVE  delivered' \in [Chan -> Seq(Delivery)]
<1>1. [val |-> v, to |-> o] \in Delivery
  BY DEF Delivery
<1>2. Append(delivered[c], [val |-> v, to |-> o]) \in Seq(Delivery)
  BY <1>1, AppendProperties DEF TypeOK
<1> QED BY <1>2 DEF Deliver, TypeOK

\* The variables that try_send and try_recv may write.
TryType ==
  /\ ready \in Seq(Goroutine)
  /\ parked \in Int
  /\ pc \in [Goroutine -> {"unborn", "ready", "running", "parked", "done"}]
  /\ cancelled \subseteq Op
  /\ winner \in [Goroutine -> Nat]
  /\ buf \in [Chan -> Seq(Op)]
  /\ recvs \in [Chan -> Seq(Waiter)]
  /\ sends \in [Chan -> Seq(Waiter)]
  /\ delivered \in [Chan -> Seq(Delivery)]

LEMMA TrySendType ==
  ASSUME TypeOK, NEW c \in Chan, NEW o \in Op,
         NEW rq \in [Chan -> Seq(Waiter)], NEW sq \in [Chan -> Seq(Waiter)],
         TrySend(c, o, rq, sq)
  PROVE  TryType'
<1>1. CASE HandOff(c, o, rq, sq)
  <2>1. PICK i \in DOMAIN rq[c] :
          /\ recvs' = [rq EXCEPT ![c] = After(@, i)]
          /\ Deliver(c, o, TheOp(rq[c][i]))
          /\ Complete(rq[c][i])
          /\ sends' = sq
          /\ UNCHANGED buf
    BY <1>1 DEF HandOff
  <2>2. rq[c][i] \in Waiter
    BY <2>1, ElementOfSeq, LenProperties
  <2>3. TheOp(rq[c][i]) \in Op
    BY <2>2 DEF Waiter, TheOp, Op
  <2>4. delivered' \in [Chan -> Seq(Delivery)]
    BY <2>1, <2>3, DeliverType
  <2>5. recvs' \in [Chan -> Seq(Waiter)]
    BY <2>1, AfterType
  <2> QED BY <2>1, <2>2, <2>4, <2>5, CompleteType DEF TryType, TypeOK
<1>2. CASE Enbuffer(c, o, rq, sq)
  <2>1. Append(buf[c], o) \in Seq(Op)
    BY AppendProperties DEF TypeOK
  <2>2. buf' \in [Chan -> Seq(Op)]
    BY <1>2, <2>1 DEF Enbuffer, TypeOK
  <2>3. recvs' \in [Chan -> Seq(Waiter)]
    BY <1>2, EmptySeq DEF Enbuffer
  <2> QED BY <1>2, <2>2, <2>3 DEF Enbuffer, CompleteNobody, TryType, TypeOK
<1> QED BY <1>1, <1>2 DEF TrySend

LEMMA TryRecvType ==
  ASSUME TypeOK, NEW c \in Chan, NEW o \in Op,
         NEW rq \in [Chan -> Seq(Waiter)], NEW sq \in [Chan -> Seq(Waiter)],
         TryRecv(c, o, rq, sq)
  PROVE  TryType'
<1>0. /\ buf[c] \in Seq(Op)
      /\ buf[c] # <<>> => Head(buf[c]) \in Op /\ Tail(buf[c]) \in Seq(Op)
  BY HeadTailProperties DEF TypeOK
<1>1. CASE TakeAndRefill(c, o, rq, sq)
  <2>1. PICK i \in DOMAIN sq[c] :
          /\ buf[c] # <<>>
          /\ Deliver(c, Head(buf[c]), o)
          /\ buf' = [buf EXCEPT ![c] = Append(Tail(@), TheOp(sq[c][i]))]
          /\ sends' = [sq EXCEPT ![c] = After(@, i)]
          /\ recvs' = rq
          /\ Complete(sq[c][i])
    BY <1>1 DEF TakeAndRefill
  <2>2. sq[c][i] \in Waiter
    BY <2>1, ElementOfSeq, LenProperties
  <2>3. TheOp(sq[c][i]) \in Op
    BY <2>2 DEF Waiter, TheOp, Op
  <2>4. delivered' \in [Chan -> Seq(Delivery)]
    BY <1>0, <2>1, DeliverType
  <2>5. sends' \in [Chan -> Seq(Waiter)]
    BY <2>1, AfterType
  <2>6. Append(Tail(buf[c]), TheOp(sq[c][i])) \in Seq(Op)
    BY <1>0, <2>1, <2>3, AppendProperties
  <2>7. buf' \in [Chan -> Seq(Op)]
    BY <2>1, <2>6 DEF TypeOK
  <2> QED BY <2>1, <2>2, <2>4, <2>5, <2>7, CompleteType DEF TryType, TypeOK
<1>2. CASE Take(c, o, rq, sq)
  <2>1. delivered' \in [Chan -> Seq(Delivery)]
    BY <1>0, <1>2, DeliverType DEF Take
  <2>2. buf' \in [Chan -> Seq(Op)]
    BY <1>0, <1>2 DEF Take, TypeOK
  <2>3. sends' \in [Chan -> Seq(Waiter)]
    BY <1>2, EmptySeq DEF Take
  <2> QED BY <1>2, <2>1, <2>2, <2>3 DEF Take, CompleteNobody, TryType, TypeOK
<1>3. CASE TakeFromSender(c, o, rq, sq)
  <2>1. PICK i \in DOMAIN sq[c] :
          /\ Deliver(c, TheOp(sq[c][i]), o)
          /\ sends' = [sq EXCEPT ![c] = After(@, i)]
          /\ recvs' = rq
          /\ Complete(sq[c][i])
          /\ UNCHANGED buf
    BY <1>3 DEF TakeFromSender
  <2>2. sq[c][i] \in Waiter
    BY <2>1, ElementOfSeq, LenProperties
  <2>3. TheOp(sq[c][i]) \in Op
    BY <2>2 DEF Waiter, TheOp, Op
  <2>4. delivered' \in [Chan -> Seq(Delivery)]
    BY <2>1, <2>3, DeliverType
  <2>5. sends' \in [Chan -> Seq(Waiter)]
    BY <2>1, AfterType
  <2> QED BY <2>1, <2>2, <2>4, <2>5, CompleteType DEF TryType, TypeOK
<1>4. CASE TakeZero(c, o, rq, sq)
  <2>1. sends' \in [Chan -> Seq(Waiter)]
    BY <1>4, EmptySeq DEF TakeZero
  <2> QED BY <1>4, <2>1 DEF TakeZero, CompleteNobody, TryType, TypeOK
<1> QED BY <1>1, <1>2, <1>3, <1>4 DEF TryRecv

\* The awaiter and the waiters an operation builds.
LEMMA NewTypes ==
  ASSUME TypeOK, NEW g \in Goroutine, StartOp(g)
  PROVE  /\ ops' \in [Goroutine -> OpNo]
         /\ NewOp(g) \in Op
         /\ \A k \in {"plain", "select"}, i \in Nat : NewWaiter(g, k, i) \in Waiter
<1>1. ops \in [Goroutine -> 0..MaxOps] /\ MaxOps \in Nat
  BY ChanSchedAssumption DEF TypeOK, OpNo
<1>2. ops[g] \in 0..MaxOps /\ ops[g] < MaxOps
  BY <1>1 DEF StartOp
<1>3. ops[g] + 1 \in OpNo
  BY <1>1, <1>2 DEF OpNo
<1>4. ops' \in [Goroutine -> OpNo]
  BY <1>1, <1>3 DEF StartOp, OpNo
<1>5. NewOp(g) \in Op
  BY <1>3 DEF NewOp, Op
<1>6. \A k \in {"plain", "select"}, i \in Nat : NewWaiter(g, k, i) \in Waiter
  BY <1>3 DEF NewWaiter, Waiter
<1> QED BY <1>4, <1>5, <1>6

LEMMA SuspendType ==
  ASSUME TypeOK, NEW g \in Goroutine, NEW k \in {"send", "recv", "select"},
         NEW cs \in Seq(Case), Suspend(g, k, cs)
  PROVE  /\ running' \in Goroutine \union {None}
         /\ op' \in [Goroutine -> [kind : {"none", "send", "recv", "select"}, cases : Seq(Case)]]
         /\ pc' \in [Goroutine -> {"unborn", "ready", "running", "parked", "done"}]
         /\ parked' \in Int
         /\ ready' \in Seq(Goroutine)
         /\ halt' = halt
<1>1. [kind |-> k, cases |-> cs] \in [kind : {"none", "send", "recv", "select"}, cases : Seq(Case)]
  OBVIOUS
<1>2. op' \in [Goroutine -> [kind : {"none", "send", "recv", "select"}, cases : Seq(Case)]]
  BY <1>1 DEF Suspend, TypeOK
<1>3. parked \in Int /\ parked' = parked + 1
  BY DEF Suspend, TypeOK
<1>4. pc' \in [Goroutine -> {"unborn", "ready", "running", "parked", "done"}]
  BY DEF Suspend, TypeOK
<1>5. running' \in Goroutine \union {None} /\ halt' = halt /\ ready' \in Seq(Goroutine)
  BY DEF Suspend, TypeOK
<1>6. parked' \in Int
  BY <1>3
<1> QED BY <1>2, <1>4, <1>5, <1>6

\* What earlier cases of a select leave of the waiter queues.
LEMMA TriedTypes ==
  ASSUME TypeOK, NEW cs, NEW i
  PROVE  /\ RecvsAfter(cs, i) \in [Chan -> Seq(Waiter)]
         /\ SendsAfter(cs, i) \in [Chan -> Seq(Waiter)]
  BY EmptySeq DEF RecvsAfter, SendsAfter, TypeOK

LEMMA ParkedCasesType ==
  ASSUME TypeOK, NEW g \in Goroutine, StartOp(g), NEW cs \in Seq(Case),
         NEW dir, NEW c
  PROVE  ParkedCases(g, cs, dir, c) \in Seq(Waiter)
<1>1. CASE Tried(cs, Len(cs), dir, c)
  <2>1. DOMAIN cs = 1..Len(cs) /\ Len(cs) \in Nat
    BY LenProperties
  <2>2. \E i \in DOMAIN cs : cs[i] = [dir |-> dir, ch |-> c]
    BY <1>1, <2>1 DEF Tried
  <2> DEFINE i == CHOOSE i \in DOMAIN cs : cs[i] = [dir |-> dir, ch |-> c]
  <2>3. i \in DOMAIN cs
    BY <2>2
  <2> HIDE DEF i
  <2>4. NewWaiter(g, "select", i) \in Waiter
    BY <2>1, <2>3, NewTypes
  <2>5. ParkedCases(g, cs, dir, c) = <<NewWaiter(g, "select", i)>>
    BY <1>1 DEF ParkedCases, i
  <2> QED BY <2>4, <2>5
<1>2. CASE ~Tried(cs, Len(cs), dir, c)
  BY <1>2, EmptySeq DEF ParkedCases
<1> QED BY <1>1, <1>2

\* close() wakes waiters of the channel, each of them a goroutine.
LEMMA WokenFacts ==
  ASSUME NEW q \in Seq(Waiter)
  PROVE  /\ Woken(q) \subseteq 1..Len(q)
         /\ IsFiniteSet(Woken(q))
         /\ \A i \in Woken(q) : q[i] \in Waiter
<1>1. Woken(q) \subseteq 1..Len(q) /\ Len(q) \in Nat
  BY LenProperties DEF Woken
<1>2. IsFiniteSet(1..Len(q))
  BY <1>1, FS_Interval
<1> QED BY <1>1, <1>2, FS_Subset, ElementOfSeq

LEMMA CloseType ==
  ASSUME TypeOK, NEW g \in Goroutine, NEW c \in Chan, Close(g, c)
  PROVE  TypeOK'
<1> DEFINE q == recvs[c] \o sends[c]
           W == Woken(q)
           sel == {i \in W : q[i].kind = "select"}
<1>1. q \in Seq(Waiter)
  BY ConcatProperties DEF TypeOK
<1>2. IsFiniteSet(W) /\ \A i \in W : q[i] \in Waiter
  BY <1>1, WokenFacts
<1>3. Cardinality(W) \in Nat /\ Cardinality(W \ sel) \in Nat
  BY <1>2, FS_CardinalityType, FS_Difference
<1>4. /\ StartOp(g)
      /\ closed' = closed \union {c}
      /\ recvs' = [recvs EXCEPT ![c] = <<>>]
      /\ sends' = [sends EXCEPT ![c] = <<>>]
      /\ cancelled' = cancelled \union {TheOp(q[i]) : i \in sel}
      /\ winner' = [h \in Goroutine |->
                      IF \E i \in sel : q[i].g = h
                      THEN q[CHOOSE i \in sel : q[i].g = h].idx
                      ELSE winner[h]]
      /\ parked' = parked - Cardinality(W \ sel)
      /\ \E s \in [1..Cardinality(W) -> W] :
           /\ Enumerates(s, W)
           /\ ready' = ready \o [k \in 1..Cardinality(W) |-> q[s[k]].g]
      /\ pc' = [h \in Goroutine |-> IF \E i \in W : q[i].g = h THEN "ready" ELSE pc[h]]
      /\ UNCHANGED <<running, halt, op, buf, delivered>>
  BY DEF Close, KeepRunning
<1> HIDE DEF q, W
<1>5. recvs' \in [Chan -> Seq(Waiter)] /\ sends' \in [Chan -> Seq(Waiter)]
  BY <1>4, EmptySeq DEF TypeOK
<1>6. \A i \in W : TheOp(q[i]) \in Op /\ q[i].idx \in Nat /\ q[i].g \in Goroutine
  BY <1>2 DEF Waiter, TheOp, Op
<1>7. cancelled' \subseteq Op
  BY <1>4, <1>6 DEF TypeOK
<1>8. winner' \in [Goroutine -> Nat]
  <2>1. ASSUME NEW h \in Goroutine, \E i \in sel : q[i].g = h
        PROVE  q[CHOOSE i \in sel : q[i].g = h].idx \in Nat
    BY <1>6, <2>1
  <2> QED BY <1>4, <2>1 DEF TypeOK
<1>9. parked' \in Int
  <2>1. parked \in Int
    BY DEF TypeOK
  <2> QED BY <1>3, <1>4, <2>1
<1>10. ready' \in Seq(Goroutine)
  <2>1. PICK s \in [1..Cardinality(W) -> W] :
          ready' = ready \o [k \in 1..Cardinality(W) |-> q[s[k]].g]
    BY <1>4
  <2>2. \A k \in 1..Cardinality(W) : q[s[k]].g \in Goroutine
    BY <1>6
  <2>3. [k \in 1..Cardinality(W) |-> q[s[k]].g] \in Seq(Goroutine)
    BY <1>3, <2>2, IsASeq
  <2>4. ready \in Seq(Goroutine)
    BY DEF TypeOK
  <2> QED BY <2>1, <2>3, <2>4, ConcatProperties
<1>11. pc' \in [Goroutine -> {"unborn", "ready", "running", "parked", "done"}]
  BY <1>4 DEF TypeOK
<1>12. ops' \in [Goroutine -> OpNo]
  BY <1>4, NewTypes
<1> QED BY <1>4, <1>5, <1>7, <1>8, <1>9, <1>10, <1>11, <1>12 DEF TypeOK

LEMMA TypeStep == TypeOK /\ [Next]_vars => TypeOK'
<1> SUFFICES ASSUME TypeOK, [Next]_vars PROVE TypeOK'
  OBVIOUS
<1>r. recvs \in [Chan -> Seq(Waiter)] /\ sends \in [Chan -> Seq(Waiter)]
  BY DEF TypeOK
<1>1. ASSUME NEW g \in Goroutine, NEW c \in Chan, SendNow(g, c) PROVE TypeOK'
  <2>1. TryType'
    BY <1>r, <1>1, NewTypes, TrySendType DEF SendNow
  <2> QED BY <1>1, <2>1, NewTypes DEF SendNow, KeepRunning, TryType, TypeOK
<1>2. ASSUME NEW g \in Goroutine, NEW c \in Chan, SendPark(g, c) PROVE TypeOK'
  <2>1. <<[dir |-> "send", ch |-> c]>> \in Seq(Case)
    BY DEF Case
  <2>2. NewWaiter(g, "plain", 0) \in Waiter
    BY <1>2, NewTypes DEF SendPark
  <2>3. Append(sends[c], NewWaiter(g, "plain", 0)) \in Seq(Waiter)
    BY <1>r, <2>2, AppendProperties
  <2>4. recvs' \in [Chan -> Seq(Waiter)] /\ sends' \in [Chan -> Seq(Waiter)]
    BY <1>r, <1>2, <2>3, EmptySeq DEF SendPark
  <2> QED BY <1>2, <2>1, <2>4, NewTypes, SuspendType DEF SendPark, TypeOK
<1>3. ASSUME NEW g \in Goroutine, NEW c \in Chan, SendOnClosed(g, c) PROVE TypeOK'
  BY <1>3, NewTypes DEF SendOnClosed, Abort, chanVars, TypeOK
<1>4. ASSUME NEW g \in Goroutine, NEW c \in Chan, RecvNow(g, c) PROVE TypeOK'
  <2>1. TryType'
    BY <1>r, <1>4, NewTypes, TryRecvType DEF RecvNow
  <2> QED BY <1>4, <2>1, NewTypes DEF RecvNow, KeepRunning, TryType, TypeOK
<1>5. ASSUME NEW g \in Goroutine, NEW c \in Chan, RecvPark(g, c) PROVE TypeOK'
  <2>1. <<[dir |-> "recv", ch |-> c]>> \in Seq(Case)
    BY DEF Case
  <2>2. NewWaiter(g, "plain", 0) \in Waiter
    BY <1>5, NewTypes DEF RecvPark
  <2>3. Append(recvs[c], NewWaiter(g, "plain", 0)) \in Seq(Waiter)
    BY <1>r, <2>2, AppendProperties
  <2>4. recvs' \in [Chan -> Seq(Waiter)] /\ sends' \in [Chan -> Seq(Waiter)]
    BY <1>r, <1>5, <2>3, EmptySeq DEF RecvPark
  <2> QED BY <1>5, <2>1, <2>4, NewTypes, SuspendType DEF RecvPark, TypeOK
<1>6. ASSUME NEW g \in Goroutine, NEW c \in Chan, Close(g, c) PROVE TypeOK'
  BY <1>6, CloseType
<1>7. ASSUME NEW g \in Goroutine, NEW c \in Chan, CloseOfClosed(g, c) PROVE TypeOK'
  BY <1>7, NewTypes DEF CloseOfClosed, Abort, chanVars, TypeOK
<1>8. ASSUME NEW g \in Goroutine, NEW cs \in SelectCases, SelectNow(g, cs) PROVE TypeOK'
  <2>1. PICK i \in DOMAIN cs :
          \/ TrySend(cs[i].ch, NewOp(g), RecvsAfter(cs, i - 1), SendsAfter(cs, i - 1))
          \/ TryRecv(cs[i].ch, NewOp(g), RecvsAfter(cs, i - 1), SendsAfter(cs, i - 1))
    BY <1>8 DEF SelectNow
  <2>2. cs[i] \in Case
    BY ChanSchedAssumption, ElementOfSeq, LenProperties
  <2>3. cs[i].ch \in Chan /\ NewOp(g) \in Op
    BY <1>8, <2>2, NewTypes DEF Case, SelectNow
  <2>4. TryType'
    BY <2>1, <2>3, TriedTypes, TrySendType, TryRecvType
  <2> QED BY <1>8, <2>4, NewTypes DEF SelectNow, KeepRunning, TryType, TypeOK
<1>9. ASSUME NEW g \in Goroutine, NEW cs \in SelectCases, SelectOnClosed(g, cs) PROVE TypeOK'
  BY <1>9, NewTypes DEF SelectOnClosed, Abort, chanVars, TypeOK
<1>10. ASSUME NEW g \in Goroutine, NEW cs \in SelectCases, SelectDefault(g, cs) PROVE TypeOK'
  BY <1>10, NewTypes, TriedTypes DEF SelectDefault, KeepRunning, TypeOK
<1>11. ASSUME NEW g \in Goroutine, NEW cs \in SelectCases, SelectPark(g, cs) PROVE TypeOK'
  <2>1. cs \in Seq(Case)
    BY ChanSchedAssumption
  <2>2. StartOp(g) /\ Suspend(g, "select", cs)
    BY <1>11 DEF SelectPark
  <2>3. \A c \in Chan :
          /\ RecvsAfter(cs, Len(cs))[c] \o ParkedCases(g, cs, "recv", c) \in Seq(Waiter)
          /\ SendsAfter(cs, Len(cs))[c] \o ParkedCases(g, cs, "send", c) \in Seq(Waiter)
    BY <2>1, <2>2, TriedTypes, ParkedCasesType, ConcatProperties
  <2>4. recvs' \in [Chan -> Seq(Waiter)] /\ sends' \in [Chan -> Seq(Waiter)]
    BY <1>11, <2>3 DEF SelectPark
  <2> QED BY <1>11, <2>1, <2>2, <2>4, NewTypes, SuspendType DEF SelectPark, TypeOK
<1>12. ASSUME NEW g \in Goroutine, NEW h \in Goroutine, Go(g, h) PROVE TypeOK'
  <2>1. ready' \in Seq(Goroutine)
    BY <1>12, AppendProperties DEF Go, Enqueued, TypeOK
  <2> QED BY <1>12, <2>1 DEF Go, KeepRunning, Unscathed, chanVars, TypeOK
<1>13. ASSUME NEW g \in Goroutine, CallTask(g) PROVE TypeOK'
  <2>1. ready' \in Seq(Goroutine)
    BY <1>13, AppendProperties DEF CallTask, Enqueued, TypeOK
  <2> QED BY <1>13, <2>1, NewTypes DEF CallTask, Unscathed, chanVars, TypeOK
<1>14. ASSUME NEW g \in Goroutine, Finish(g) PROVE TypeOK'
  BY <1>14 DEF Finish, Unscathed, chanVars, opVars, TypeOK
<1>15. ASSUME Resume PROVE TypeOK'
  <2> DEFINE g == Head(ready)
  <2>1. ready \in Seq(Goroutine) /\ ready # <<>>
    BY <1>15 DEF Resume, TypeOK
  <2>2. g \in Goroutine /\ ready' \in Seq(Goroutine)
    BY <1>15, <2>1, HeadTailProperties DEF Resume
  <2>3. NoOp \in [kind : {"none", "send", "recv", "select"}, cases : Seq(Case)]
    BY EmptySeq DEF NoOp
  <2>4. op' \in [Goroutine -> [kind : {"none", "send", "recv", "select"}, cases : Seq(Case)]]
    BY <1>15, <2>2, <2>3 DEF Resume, TypeOK
  <2>5. parked' \in Int
    <3>1. parked \in Int /\ parked' = IF op[g].kind = "select" THEN parked - 1 ELSE parked
      BY <1>15 DEF Resume, TypeOK
    <3> QED BY <3>1
  <2>6. /\ running' \in Goroutine \union {None}
        /\ pc' \in [Goroutine -> {"unborn", "ready", "running", "parked", "done"}]
        /\ winner' \in [Goroutine -> Nat]
    BY <1>15, <2>2 DEF Resume, TypeOK
  <2> QED BY <1>15, <2>2, <2>4, <2>5, <2>6 DEF Resume, chanVars, TypeOK
<1>16. ASSUME ResumeOnClosed PROVE TypeOK'
  BY <1>16 DEF ResumeOnClosed, Abort, chanVars, TypeOK
<1>17. ASSUME Drained PROVE TypeOK'
  <2>1. Verdict \in {"deadlock", "exit"}
    BY DEF Verdict
  <2> QED BY <1>17, <2>1 DEF Drained, Unscathed, chanVars, opVars, TypeOK
<1>18. ASSUME UNCHANGED vars PROVE TypeOK'
  BY <1>18 DEF vars, schedVars, opVars, chanVars, TypeOK
<1> QED
  BY <1>1, <1>2, <1>3, <1>4, <1>5, <1>6, <1>7, <1>8, <1>9, <1>10, <1>11, <1>12, <1>13, <1>14,
     <1>15, <1>16, <1>17, <1>18
  DEF Next, ChanStep, SelectStep, Halted

\* Every variable keeps its type in every behaviour of the scheduler and its
\* channels.
THEOREM TypeCorrect == Spec => []TypeOK
<1>1. Init => TypeOK
  <2> SUFFICES ASSUME Init PROVE TypeOK
    OBVIOUS
  <2>1. <<Main>> \in Seq(Goroutine) /\ 0 \in OpNo
    BY ChanSchedAssumption DEF OpNo
  <2>2. NoOp \in [kind : {"none", "send", "recv", "select"}, cases : Seq(Case)]
    BY EmptySeq DEF NoOp
  <2> QED BY <2>1, <2>2, EmptySeq DEF Init, TypeOK
<1> QED BY <1>1, TypeStep, PTL DEF Spec

-----------------------------------------------------------------------------
(* No missed rendezvous.  The conditions on the waiter queues and the      *)
(* buffer are inductive together, channel by channel: a queue only     *)
(* loses live waiters, or gains one when the readiness check just failed.  *)

Rdv(c) ==
  /\ Len(buf[c]) <= Cap[c]
  /\ NoneLive(recvs[c]) \/ buf[c] = <<>>
  /\ NoneLive(sends[c]) \/ Len(buf[c]) = Cap[c]
  /\ \A i \in DOMAIN recvs[c], j \in DOMAIN sends[c] :
       Live(recvs[c][i]) /\ Live(sends[c][j]) => recvs[c][i].g = sends[c][j].g
  /\ c \in closed => NoneLive(recvs[c]) /\ NoneLive(sends[c])

LEMMA RdvIsAll == (\A c \in Chan : Rdv(c)) <=> NoMissedRendezvous
  BY DEF Rdv, NoMissedRendezvous, NoneLive

\* q2 holds only waiters of q1.
Within(q2, q1) == \A j \in DOMAIN q2 : \E i \in DOMAIN q1 : q2[j] = q1[i]

LEMMA AfterWithin ==
  ASSUME NEW q \in Seq(Waiter), NEW i \in DOMAIN q
  PROVE  Within(After(q, i), q)
<1>1. /\ DOMAIN q = 1..Len(q) /\ Len(q) \in Nat /\ i \in 1..Len(q)
      /\ DOMAIN After(q, i) = 1..(Len(q) - i)
  BY AfterType, LenProperties
<1>2. ASSUME NEW j \in DOMAIN After(q, i)
      PROVE  After(q, i)[j] = q[i + j] /\ i + j \in DOMAIN q
  <2>1. j \in 1..(Len(q) - i)
    BY <1>1
  <2>2. After(q, i)[j] = q[i + j]
    BY <2>1, AfterType
  <2>3. i + j \in DOMAIN q
    BY <1>1, <2>1
  <2> QED BY <2>2, <2>3
<1> QED BY <1>2 DEF Within

LEMMA NoneLiveWithin ==
  ASSUME NEW q1, NEW q2, Within(q2, q1), NoneLive(q1), cancelled \subseteq cancelled'
  PROVE  \A j \in DOMAIN q2 : ~Live(q2[j])'
  BY DEF Within, NoneLive, Live, IsCancelled

\* A channel whose queues only shrink stays as it is.
LEMMA RdvShrink ==
  ASSUME NEW c \in Chan, Rdv(c),
         Within(recvs'[c], recvs[c]), Within(sends'[c], sends[c]),
         cancelled \subseteq cancelled', buf'[c] = buf[c],
         c \in closed' => c \in closed
  PROVE  Rdv(c)'
<1>1. NoneLive(recvs[c]) => NoneLive(recvs[c])'
  BY NoneLiveWithin DEF NoneLive
<1>2. NoneLive(sends[c]) => NoneLive(sends[c])'
  BY NoneLiveWithin DEF NoneLive
<1>3. ASSUME NEW i \in DOMAIN recvs'[c], NEW j \in DOMAIN sends'[c],
             Live(recvs[c][i])', Live(sends[c][j])'
      PROVE  recvs'[c][i].g = sends'[c][j].g
  <2>1. PICK k \in DOMAIN recvs[c] : recvs'[c][i] = recvs[c][k]
    BY DEF Within
  <2>2. PICK l \in DOMAIN sends[c] : sends'[c][j] = sends[c][l]
    BY DEF Within
  <2>3. Live(recvs[c][k]) /\ Live(sends[c][l])
    BY <1>3, <2>1, <2>2 DEF Live, IsCancelled
  <2> QED BY <2>1, <2>2, <2>3 DEF Rdv
<1> QED BY <1>1, <1>2, <1>3 DEF Rdv

\* A waiter queue as a select's earlier cases leave it.
Cleaned(p, q) ==
  /\ p \in [Chan -> Seq(Waiter)]
  /\ \A d \in Chan : p[d] = q[d] \/ p[d] = <<>>

LEMMA CleanedWithin ==
  ASSUME NEW p, NEW q, Cleaned(p, q), NEW d \in Chan
  PROVE  Within(p[d], q[d]) /\ Within(<<>>, q[d])
  BY DEF Cleaned, Within

\* Completing a waiter only adds to the cancelled cells.
LEMMA CompleteCancels ==
  ASSUME NEW w, Complete(w) \/ CompleteNobody
  PROVE  cancelled \subseteq cancelled'
  BY DEF Complete, CancelledBy, CompleteNobody

LEMMA TrySendRdv ==
  ASSUME TypeOK, \A d \in Chan : Rdv(d), NEW c \in Chan, NEW o \in Op,
         NEW rq, NEW sq, Cleaned(rq, recvs), Cleaned(sq, sends),
         TrySend(c, o, rq, sq), UNCHANGED closed, NEW d \in Chan
  PROVE  Rdv(d)'
<1>1. CASE HandOff(c, o, rq, sq)
  <2>1. PICK i \in DOMAIN rq[c] :
          /\ recvs' = [rq EXCEPT ![c] = After(@, i)]
          /\ Complete(rq[c][i])
          /\ sends' = sq
          /\ UNCHANGED buf
    BY <1>1 DEF HandOff
  <2>2. cancelled \subseteq cancelled'
    BY <2>1, CompleteCancels
  <2>3. Within(After(rq[c], i), rq[c])
    BY AfterWithin DEF Cleaned
  <2>4. Within(recvs'[d], recvs[d]) /\ Within(sends'[d], sends[d])
    <3>1. CASE d = c
      <4>1. recvs'[d] = After(rq[c], i) /\ sends'[d] = sq[c]
        BY <2>1, <3>1 DEF Cleaned
      <4>2. Within(After(rq[c], i), recvs[c])
        BY <2>3, CleanedWithin DEF Within
      <4> QED BY <3>1, <4>1, <4>2, CleanedWithin
    <3>2. CASE d # c
      BY <2>1, <3>2, CleanedWithin DEF Cleaned
    <3> QED BY <3>1, <3>2
  <2> QED BY <2>1, <2>2, <2>4, RdvShrink
<1>2. CASE Enbuffer(c, o, rq, sq)
  <2>1. cancelled' = cancelled
    BY <1>2 DEF Enbuffer, CompleteNobody
  <2>2. CASE d # c
    <3>1. recvs'[d] = rq[d] /\ sends'[d] = sq[d] /\ buf'[d] = buf[d]
      BY <1>2, <2>2 DEF Enbuffer, Cleaned, TypeOK
    <3> QED BY <2>1, <3>1, CleanedWithin, RdvShrink
  <2>3. CASE d = c
    <3>1. /\ recvs'[c] = <<>> /\ sends'[c] = sq[c]
          /\ buf'[c] = Append(buf[c], o) /\ Len(buf[c]) < Cap[c]
      BY <1>2 DEF Enbuffer, Cleaned, TypeOK
    <3>a. buf[c] \in Seq(Op)
      BY DEF TypeOK
    <3>b. Len(buf'[c]) = Len(buf[c]) + 1
      BY <3>1, <3>a, AppendProperties
    <3>2. Len(buf'[c]) = Len(buf[c]) + 1 /\ Len(buf[c]) \in Nat /\ Cap[c] \in Nat
      BY <3>a, <3>b, LenProperties, ChanSchedAssumption
    <3>3. NoneLive(recvs[c])'
      BY <3>1 DEF NoneLive
    <3>4. NoneLive(sends[c])
      BY <3>1, <3>2 DEF Rdv
    <3>5. NoneLive(sends[c])'
      BY <2>1, <3>1, <3>4, CleanedWithin, NoneLiveWithin DEF NoneLive
    <3>6. Len(buf'[c]) <= Cap[c]
      BY <3>1, <3>2
    <3> QED BY <2>3, <3>3, <3>5, <3>6 DEF Rdv, NoneLive
  <2> QED BY <2>2, <2>3
<1> QED BY <1>1, <1>2 DEF TrySend

LEMMA TryRecvRdv ==
  ASSUME TypeOK, \A d \in Chan : Rdv(d), NEW c \in Chan, NEW o \in Op,
         NEW rq, NEW sq, Cleaned(rq, recvs), Cleaned(sq, sends),
         TryRecv(c, o, rq, sq), UNCHANGED closed, NEW d \in Chan
  PROVE  Rdv(d)'
<1>a. buf \in [Chan -> Seq(Op)] /\ Len(buf[c]) \in Nat /\ Cap[c] \in Nat
  BY LenProperties, ChanSchedAssumption DEF TypeOK
<1>b. recvs' = rq
  BY DEF TryRecv, TakeAndRefill, Take, TakeFromSender, TakeZero
<1>c. cancelled \subseteq cancelled'
  BY CompleteCancels DEF TryRecv, TakeAndRefill, Take, TakeFromSender, TakeZero
<1>d. Within(sends'[d], sends[d])
  <2>1. CASE d # c
    <3>1. sends'[d] = sq[d]
      BY <2>1 DEF TryRecv, TakeAndRefill, Take, TakeFromSender, TakeZero, Cleaned
    <3> QED BY <3>1, CleanedWithin
  <2>2. CASE d = c
    <3>1. ASSUME NEW i \in DOMAIN sq[c], sends' = [sq EXCEPT ![c] = After(@, i)]
          PROVE  Within(sends'[c], sends[c])
      <4>1. Within(After(sq[c], i), sq[c])
        BY AfterWithin DEF Cleaned
      <4>2. Within(After(sq[c], i), sends[c])
        BY <4>1, CleanedWithin DEF Within
      <4> QED BY <3>1, <4>2 DEF Cleaned
    <3>2. ASSUME sends' = [sq EXCEPT ![c] = <<>>] PROVE Within(sends'[c], sends[c])
      BY <3>2, CleanedWithin DEF Cleaned
    <3> QED BY <2>2, <3>1, <3>2 DEF TryRecv, TakeAndRefill, Take, TakeFromSender, TakeZero
  <2> QED BY <2>1, <2>2
<1>e. Within(recvs'[d], recvs[d])
  BY <1>b, CleanedWithin
<1>1. CASE buf'[d] = buf[d]
  BY <1>c, <1>d, <1>e, <1>1, RdvShrink
<1>2. CASE buf'[d] # buf[d]
  <2>1. d = c /\ buf[c] # <<>>
    BY <1>a, <1>2 DEF TryRecv, TakeAndRefill, Take, TakeFromSender, TakeZero
  <2>2. NoneLive(recvs[c])
    BY <2>1 DEF Rdv
  <2>3. NoneLive(recvs[c])'
    BY <1>c, <1>e, <2>1, <2>2, NoneLiveWithin DEF NoneLive
  <2>4. /\ Tail(buf[c]) \in Seq(Op)
        /\ Len(Tail(buf[c])) = Len(buf[c]) - 1
        /\ Len(buf[c]) <= Cap[c]
    BY <1>a, <2>1, HeadTailProperties DEF Rdv
  <2>5. CASE TakeAndRefill(c, o, rq, sq)
    <3>1. PICK i \in DOMAIN sq[c] :
            /\ Live(sq[c][i])
            /\ buf' = [buf EXCEPT ![c] = Append(Tail(@), TheOp(sq[c][i]))]
      BY <2>5 DEF TakeAndRefill, FirstLive
    <3>2. sq[c][i] \in Waiter
      BY ElementOfSeq, LenProperties DEF Cleaned
    <3>3. TheOp(sq[c][i]) \in Op
      BY <3>2 DEF Waiter, TheOp, Op
    <3>4. buf'[c] = Append(Tail(buf[c]), TheOp(sq[c][i]))
      BY <1>a, <3>1
    <3>5. Len(buf'[c]) = Len(buf[c]) - 1 + 1
      BY <2>4, <3>3, <3>4, AppendProperties
    <3>6. Len(buf'[c]) = Len(buf[c])
      BY <1>a, <3>5
    <3>7. ~NoneLive(sends[c])
      BY <3>1 DEF NoneLive, Cleaned
    <3>8. Len(buf[c]) = Cap[c]
      BY <3>7 DEF Rdv
    <3>9. c \in closed => NoneLive(sends[c])
      BY DEF Rdv
    <3> QED BY <1>a, <2>1, <2>3, <2>4, <3>6, <3>7, <3>8, <3>9 DEF Rdv, NoneLive
  <2>6. CASE Take(c, o, rq, sq)
    <3>1. buf'[c] = Tail(buf[c]) /\ sends'[c] = <<>>
      BY <1>a, <2>6 DEF Take, Cleaned
    <3>2. NoneLive(sends[c])'
      BY <3>1 DEF NoneLive
    <3>3. Len(buf'[c]) <= Cap[c]
      BY <1>a, <2>4, <3>1
    <3> QED BY <2>1, <2>3, <3>2, <3>3 DEF Rdv, NoneLive
  <2>7. CASE TakeFromSender(c, o, rq, sq) \/ TakeZero(c, o, rq, sq)
    BY <2>1, <2>7 DEF TakeFromSender, TakeZero
  <2> QED BY <2>5, <2>6, <2>7 DEF TryRecv
<1> QED BY <1>1, <1>2

\* A goroutine that parks in a plain receive, or in a plain send, does so on a
\* channel that is not ready for it.
LEMMA RecvParkRdv ==
  ASSUME TypeOK, \A d \in Chan : Rdv(d), NEW g \in Goroutine, NEW c \in Chan,
         RecvPark(g, c), NEW d \in Chan
  PROVE  Rdv(d)'
<1>1. /\ cancelled' = cancelled /\ buf' = buf /\ closed' = closed
      /\ sends' = [sends EXCEPT ![c] = <<>>]
      /\ recvs' = [recvs EXCEPT ![c] = Append(@, NewWaiter(g, "plain", 0))]
      /\ buf[c] = <<>> /\ c \notin closed
  BY DEF RecvPark, RecvReady
<1>2. recvs \in [Chan -> Seq(Waiter)] /\ sends \in [Chan -> Seq(Waiter)]
  BY DEF TypeOK
<1>3. CASE d # c
  <2>1. recvs'[d] = recvs[d] /\ sends'[d] = sends[d]
    BY <1>1, <1>2, <1>3
  <2>2. Within(recvs'[d], recvs[d]) /\ Within(sends'[d], sends[d])
    BY <2>1 DEF Within
  <2> QED BY <1>1, <2>2, RdvShrink
<1>4. CASE d = c
  <2>1. sends'[c] = <<>>
    BY <1>1, <1>2
  <2>2. NoneLive(sends[c])'
    BY <2>1 DEF NoneLive
  <2> QED BY <1>1, <1>4, <2>2 DEF Rdv, NoneLive
<1> QED BY <1>3, <1>4

LEMMA SendParkRdv ==
  ASSUME TypeOK, \A d \in Chan : Rdv(d), NEW g \in Goroutine, NEW c \in Chan,
         SendPark(g, c), NEW d \in Chan
  PROVE  Rdv(d)'
<1>1. /\ cancelled' = cancelled /\ buf' = buf /\ closed' = closed
      /\ recvs' = [recvs EXCEPT ![c] = <<>>]
      /\ sends' = [sends EXCEPT ![c] = Append(@, NewWaiter(g, "plain", 0))]
      /\ ~(Len(buf[c]) < Cap[c]) /\ c \notin closed
  BY DEF SendPark, SendReady
<1>2. recvs \in [Chan -> Seq(Waiter)] /\ sends \in [Chan -> Seq(Waiter)]
  BY DEF TypeOK
<1>3. CASE d # c
  <2>1. recvs'[d] = recvs[d] /\ sends'[d] = sends[d]
    BY <1>1, <1>2, <1>3
  <2>2. Within(recvs'[d], recvs[d]) /\ Within(sends'[d], sends[d])
    BY <2>1 DEF Within
  <2> QED BY <1>1, <2>2, RdvShrink
<1>4. CASE d = c
  <2>1. recvs'[c] = <<>>
    BY <1>1, <1>2
  <2>2. NoneLive(recvs[c])'
    BY <2>1 DEF NoneLive
  <2>3. buf[c] \in Seq(Op)
    BY DEF TypeOK
  <2>4. Len(buf[c]) \in Nat /\ Cap[c] \in Nat
    BY <2>3, LenProperties, ChanSchedAssumption
  <2>5. Len(buf[c]) <= Cap[c]
    BY DEF Rdv
  <2>6. Len(buf[c]) = Cap[c]
    BY <1>1, <2>4, <2>5
  <2> QED BY <1>1, <1>4, <2>2, <2>5, <2>6 DEF Rdv, NoneLive
<1> QED BY <1>3, <1>4

\* A select parks on every channel it tried, and none of them was ready.
LEMMA SelectParkRdv ==
  ASSUME TypeOK, \A d \in Chan : Rdv(d), NEW g \in Goroutine, NEW cs \in SelectCases,
         SelectPark(g, cs), NEW d \in Chan
  PROVE  Rdv(d)'
<1> DEFINE R == Tried(cs, Len(cs), "recv", d)
           S == Tried(cs, Len(cs), "send", d)
<1>1. /\ cancelled' = cancelled /\ buf' = buf /\ closed' = closed
      /\ recvs'[d] = (IF S THEN <<>> ELSE recvs[d]) \o ParkedCases(g, cs, "recv", d)
      /\ sends'[d] = (IF R THEN <<>> ELSE sends[d]) \o ParkedCases(g, cs, "send", d)
  BY DEF SelectPark, RecvsAfter, SendsAfter
<1>2. recvs[d] \in Seq(Waiter) /\ sends[d] \in Seq(Waiter)
  BY DEF TypeOK
<1>3. cs \in Seq(Case) /\ Len(cs) \in Nat /\ DOMAIN cs = 1..Len(cs)
  BY ChanSchedAssumption, LenProperties
<1>4. R => buf[d] = <<>> /\ d \notin closed
  <2>1. ASSUME NEW j \in 1..Len(cs), cs[j] = [dir |-> "recv", ch |-> d]
        PROVE  ~RecvReady(d)
    <3>1. cs[j].dir # "send" /\ cs[j].ch = d
      BY <2>1
    <3>2. ~CaseReady(cs[j])
      BY <1>3 DEF SelectPark, NoneReady
    <3> QED BY <3>1, <3>2 DEF CaseReady
  <2> QED BY <2>1 DEF Tried, RecvReady
<1>5. S => ~(Len(buf[d]) < Cap[d]) /\ d \notin closed
  <2>1. ASSUME NEW j \in 1..Len(cs), cs[j] = [dir |-> "send", ch |-> d]
        PROVE  ~SendReady(d) /\ d \notin closed
    <3>1. cs[j].dir = "send" /\ cs[j].ch = d
      BY <2>1
    <3>2. ~CaseReady(cs[j])
      BY <1>3 DEF SelectPark, NoneReady
    <3> QED BY <3>1, <3>2 DEF CaseReady
  <2> QED BY <2>1 DEF Tried, SendReady
<1>6. buf[d] \in Seq(Op)
  BY DEF TypeOK
<1>7. Len(buf[d]) \in Nat /\ Cap[d] \in Nat /\ Len(buf[d]) <= Cap[d]
  BY <1>6, LenProperties, ChanSchedAssumption DEF Rdv
<1>8. S => Len(buf[d]) = Cap[d]
  BY <1>5, <1>7
<1>9. CASE R /\ S
  <2>a. \A i : NewWaiter(g, "select", i).g = g
    BY DEF NewWaiter
  <2>1. \A dir \in {"recv", "send"} :
          \E w : ParkedCases(g, cs, dir, d) = <<w>> /\ w.g = g
    BY <1>9, <2>a DEF ParkedCases
  <2>2. PICK v, w : /\ recvs'[d] = <<>> \o <<v>> /\ v.g = g
                    /\ sends'[d] = <<>> \o <<w>> /\ w.g = g
    BY <1>1, <1>9, <2>1
  <2>3. recvs'[d] = <<v>> /\ sends'[d] = <<w>>
    BY <2>2
  <2>4. \A i \in DOMAIN recvs'[d], j \in DOMAIN sends'[d] : recvs'[d][i].g = sends'[d][j].g
    BY <2>2, <2>3
  <2> QED BY <1>1, <1>4, <1>7, <1>8, <1>9, <2>4 DEF Rdv, NoneLive
<1>10. CASE R /\ ~S
  <2>1. ParkedCases(g, cs, "send", d) = <<>>
    BY <1>10 DEF ParkedCases
  <2>2. sends'[d] = <<>>
    BY <1>1, <1>10, <2>1
  <2>3. NoneLive(sends[d])'
    BY <2>2 DEF NoneLive
  <2> QED BY <1>1, <1>4, <1>7, <1>10, <2>3 DEF Rdv, NoneLive
<1>11. CASE S /\ ~R
  <2>1. ParkedCases(g, cs, "recv", d) = <<>>
    BY <1>11 DEF ParkedCases
  <2>2. recvs'[d] = <<>>
    BY <1>1, <1>11, <2>1
  <2>3. NoneLive(recvs[d])'
    BY <2>2 DEF NoneLive
  <2> QED BY <1>1, <1>5, <1>7, <1>8, <1>11, <2>3 DEF Rdv, NoneLive
<1>12. CASE ~R /\ ~S
  <2>1. ParkedCases(g, cs, "recv", d) = <<>> /\ ParkedCases(g, cs, "send", d) = <<>>
    BY <1>12 DEF ParkedCases
  <2>2. recvs'[d] = recvs[d] \o <<>> /\ sends'[d] = sends[d] \o <<>>
    BY <1>1, <1>12, <2>1
  <2>3. recvs'[d] = recvs[d] /\ sends'[d] = sends[d]
    BY <1>2, <2>2, ConcatEmptySeq
  <2>4. Within(recvs'[d], recvs[d]) /\ Within(sends'[d], sends[d])
    BY <2>3 DEF Within
  <2> QED BY <1>1, <2>4, RdvShrink
<1> QED BY <1>9, <1>10, <1>11, <1>12

LEMMA AfterCleaned ==
  ASSUME TypeOK, NEW cs, NEW i
  PROVE  Cleaned(RecvsAfter(cs, i), recvs) /\ Cleaned(SendsAfter(cs, i), sends)
<1>1. recvs \in [Chan -> Seq(Waiter)] /\ sends \in [Chan -> Seq(Waiter)]
  BY DEF TypeOK
<1> QED BY <1>1, EmptySeq DEF Cleaned, RecvsAfter, SendsAfter

\* A step that leaves the queues, the buffers and the cells alone.
LEMMA RdvSame ==
  ASSUME \A d \in Chan : Rdv(d), UNCHANGED <<chanVars, cancelled>>, NEW d \in Chan
  PROVE  Rdv(d)'
<1>1. /\ buf' = buf /\ closed' = closed /\ recvs' = recvs /\ sends' = sends
      /\ cancelled' = cancelled
  BY DEF chanVars
<1>2. Within(recvs'[d], recvs[d]) /\ Within(sends'[d], sends[d])
  BY <1>1 DEF Within
<1> QED BY <1>1, <1>2, RdvShrink

LEMMA RdvStep ==
  ASSUME TypeOK, \A d \in Chan : Rdv(d), [Next]_vars
  PROVE  \A d \in Chan : Rdv(d)'
<1> SUFFICES ASSUME NEW d \in Chan PROVE Rdv(d)'
  OBVIOUS
<1>a. Cleaned(recvs, recvs) /\ Cleaned(sends, sends)
  BY DEF Cleaned, TypeOK
<1>b. \A g \in Goroutine : StartOp(g) => NewOp(g) \in Op
  BY NewTypes
<1>1. ASSUME NEW g \in Goroutine, NEW c \in Chan, ChanStep(g, c)
      PROVE  Rdv(d)'
  <2>1. CASE SendNow(g, c)
    BY <1>a, <1>b, <2>1, TrySendRdv DEF SendNow
  <2>2. CASE SendPark(g, c)
    BY <2>2, SendParkRdv
  <2>3. CASE SendOnClosed(g, c) \/ CloseOfClosed(g, c)
    BY <2>3, RdvSame DEF SendOnClosed, CloseOfClosed, Abort
  <2>4. CASE RecvNow(g, c)
    BY <1>a, <1>b, <2>4, TryRecvRdv DEF RecvNow
  <2>5. CASE RecvPark(g, c)
    BY <2>5, RecvParkRdv
  <2>6. CASE Close(g, c)
    <3>1. /\ closed' = closed \union {c} /\ buf' = buf
          /\ recvs' = [recvs EXCEPT ![c] = <<>>]
          /\ sends' = [sends EXCEPT ![c] = <<>>]
          /\ cancelled \subseteq cancelled'
      BY <2>6 DEF Close
    <3>2. recvs \in [Chan -> Seq(Waiter)] /\ sends \in [Chan -> Seq(Waiter)]
      BY DEF TypeOK
    <3>3. CASE d = c
      <4>1. recvs'[c] = <<>> /\ sends'[c] = <<>>
        BY <3>1, <3>2
      <4>2. NoneLive(recvs[c])' /\ NoneLive(sends[c])'
        BY <4>1 DEF NoneLive
      <4> QED BY <3>1, <3>3, <4>1, <4>2 DEF Rdv
    <3>4. CASE d # c
      <4>1. recvs'[d] = recvs[d] /\ sends'[d] = sends[d]
        BY <3>1, <3>2, <3>4
      <4>2. Within(recvs'[d], recvs[d]) /\ Within(sends'[d], sends[d])
        BY <4>1 DEF Within
      <4> QED BY <3>1, <3>4, <4>2, RdvShrink
    <3> QED BY <3>3, <3>4
  <2> QED BY <1>1, <2>1, <2>2, <2>3, <2>4, <2>5, <2>6 DEF ChanStep
<1>2. ASSUME NEW g \in Goroutine, NEW cs \in SelectCases, SelectStep(g, cs)
      PROVE  Rdv(d)'
  <2>1. CASE SelectNow(g, cs)
    <3>1. PICK i \in DOMAIN cs :
            \/ TrySend(cs[i].ch, NewOp(g), RecvsAfter(cs, i - 1), SendsAfter(cs, i - 1))
            \/ TryRecv(cs[i].ch, NewOp(g), RecvsAfter(cs, i - 1), SendsAfter(cs, i - 1))
      BY <2>1 DEF SelectNow
    <3>2. cs[i] \in Case
      BY ChanSchedAssumption, ElementOfSeq, LenProperties
    <3>3. cs[i].ch \in Chan /\ NewOp(g) \in Op /\ UNCHANGED closed
      BY <1>b, <2>1, <3>2 DEF Case, SelectNow
    <3> QED BY <3>1, <3>3, AfterCleaned, TrySendRdv, TryRecvRdv
  <2>2. CASE SelectOnClosed(g, cs)
    BY <2>2, RdvSame DEF SelectOnClosed, Abort
  <2>3. CASE SelectDefault(g, cs)
    <3>1. /\ recvs' = RecvsAfter(cs, Len(cs)) /\ sends' = SendsAfter(cs, Len(cs))
          /\ UNCHANGED <<cancelled, buf, closed>>
      BY <2>3 DEF SelectDefault
    <3>2. Within(recvs'[d], recvs[d]) /\ Within(sends'[d], sends[d])
      BY <3>1, AfterCleaned, CleanedWithin
    <3> QED BY <3>1, <3>2, RdvShrink
  <2>4. CASE SelectPark(g, cs)
    BY <2>4, SelectParkRdv
  <2> QED BY <1>2, <2>1, <2>2, <2>3, <2>4 DEF SelectStep
<1>3. ASSUME NEW g \in Goroutine, (\E h \in Goroutine : Go(g, h)) \/ CallTask(g) \/ Finish(g)
      PROVE  Rdv(d)'
  BY <1>3, RdvSame DEF Go, CallTask, Finish, Unscathed
<1>4. CASE Resume \/ ResumeOnClosed \/ Drained \/ Halted \/ UNCHANGED vars
  BY <1>4, RdvSame DEF Resume, ResumeOnClosed, Abort, Drained, Unscathed, Halted, vars
<1> QED BY <1>1, <1>2, <1>3, <1>4 DEF Next

\* No execution leaves a receiver waiting while a value is buffered, a sender
\* waiting while there is room, or a receiver and a sender of one channel waiting
\* for each other; and nobody is left waiting on a closed channel.
THEOREM NoCommunicationMissed == Spec => []NoMissedRendezvous
<1> DEFINE Inv == \A c \in Chan : Rdv(c)
<1>1. Init => Inv
  <2> SUFFICES ASSUME Init, NEW c \in Chan PROVE Rdv(c)
    OBVIOUS
  <2>1. buf[c] = <<>> /\ recvs[c] = <<>> /\ sends[c] = <<>> /\ closed = {}
    BY DEF Init
  <2>2. Len(buf[c]) = 0 /\ Cap[c] \in Nat
    BY <2>1, ChanSchedAssumption
  <2> QED BY <2>1, <2>2 DEF Rdv, NoneLive
<1>2. TypeOK /\ Inv /\ [Next]_vars => Inv'
  BY RdvStep
<1>3. Inv => NoMissedRendezvous
  BY RdvIsAll
<1> HIDE DEF Inv
<1> QED BY <1>1, <1>2, <1>3, TypeCorrect, PTL DEF Spec

-----------------------------------------------------------------------------
(* Waiters, runqueue and counter agree.  What has to be known beside the   *)
(* parts of WaitersConsistent: a set cell belongs to an operation that is  *)
(* no longer waited for, an awaiter is in use only from the suspension to  *)
(* the resumption, and a goroutine has one live waiter on a queue.         *)

\* The waiter queue that a case of a select, or a plain operation, looks at.
Queues == [k \in Case |-> IF k.dir = "send" THEN sends[k.ch] ELSE recvs[k.ch]]

Current(g) == [g |-> g, n |-> ops[g]]

CellsAreOld ==
  \A o \in cancelled :
    /\ o.n <= ops[o.g]
    /\ o = Current(o.g) => pc[o.g] # "parked"

AwaitersInUse == \A g \in Goroutine : op[g].kind # "none" => pc[g] \in {"ready", "parked"}

OnlyWaiter ==
  \A k \in Case : \A i, j \in DOMAIN Queues[k] :
    /\ Live(Queues[k][i])
    /\ Live(Queues[k][j])
    /\ Queues[k][i].g = Queues[k][j].g
    => i = j

Waits(w, k) ==
  /\ pc[w.g] = "parked"
  /\ w.n = ops[w.g]
  /\ IF w.kind = "select"
     THEN /\ op[w.g].kind = "select"
          /\ w.idx \in DOMAIN op[w.g].cases
          /\ op[w.g].cases[w.idx] = k
     ELSE op[w.g] = [kind |-> k.dir, cases |-> <<k>>]

LiveWait ==
  \A k \in Case : \A i \in DOMAIN Queues[k] : Live(Queues[k][i]) => Waits(Queues[k][i], k)

\* The live waiter w stands for case j of goroutine g.
StandsFor(w, g, j) == Live(w) /\ w.g = g /\ (w.kind = "select" => w.idx = j)

CasesWait ==
  \A g \in Goroutine : pc[g] = "parked" =>
    \A j \in DOMAIN op[g].cases :
      \E i \in DOMAIN Queues[op[g].cases[j]] : StandsFor(Queues[op[g].cases[j]][i], g, j)

LEMMA QueuesType ==
  ASSUME TypeOK, NEW k \in Case
  PROVE  /\ Queues[k] \in Seq(Waiter)
         /\ Len(Queues[k]) \in Nat
         /\ DOMAIN Queues[k] = 1..Len(Queues[k])
         /\ \A i \in DOMAIN Queues[k] : Queues[k][i] \in Waiter
<1>1. Queues[k] \in Seq(Waiter)
  BY DEF TypeOK, Queues, Case
<1> QED BY <1>1, LenProperties, ElementOfSeq

\* LiveWait and CasesWait are two parts of WaitersConsistent, said of Queues.
LEMMA QueueIs ==
  ASSUME NEW k \in Case
  PROVE  Queues[k] = Queue(k.dir, k.ch)
  BY DEF Queues, Queue

LEMMA CaseIs ==
  ASSUME NEW dir \in {"send", "recv"}, NEW c \in Chan
  PROVE  [dir |-> dir, ch |-> c] \in Case
  BY DEF Case

LEMMA LiveWaitIs == LiveWait => WaitersAreParked
<1> SUFFICES ASSUME LiveWait, NEW c \in Chan, NEW dir \in {"send", "recv"},
                    NEW i \in DOMAIN Queue(dir, c), Live(Queue(dir, c)[i])
             PROVE  Awaits(Queue(dir, c)[i], dir, c)
  BY DEF WaitersAreParked
<1> DEFINE k == [dir |-> dir, ch |-> c]
           w == Queue(dir, c)[i]
<1>1. k \in Case /\ Queues[k] = Queue(dir, c) /\ k.dir = dir /\ k.ch = c
  BY CaseIs, QueueIs
<1>2. Waits(w, k)
  BY <1>1 DEF LiveWait
<1> QED BY <1>2 DEF Waits, Awaits

LEMMA CasesWaitIs == TypeOK /\ CasesWait => NoLostWaiter
<1> SUFFICES ASSUME TypeOK, CasesWait, NEW g \in Goroutine, pc[g] = "parked",
                    NEW j \in DOMAIN op[g].cases
             PROVE  LET q == Queue(op[g].cases[j].dir, op[g].cases[j].ch)
                    IN \E i \in DOMAIN q : Live(q[i]) /\ q[i].g = g /\ (q[i].kind = "select" => q[i].idx = j)
  BY DEF NoLostWaiter
<1>1. op[g].cases \in Seq(Case)
  BY DEF TypeOK
<1>2. op[g].cases[j] \in Case
  BY <1>1, ElementOfSeq, LenProperties
<1> QED BY <1>2, QueueIs DEF CasesWait, StandsFor

\* The goroutines that parked counts.
Counted(g) == pc[g] = "parked" \/ (pc[g] = "ready" /\ op[g].kind = "select")
Suspended == {g \in Goroutine : Counted(g)}

\* What a woken select reports did happen.
GotBy(o, c) == \E i \in DOMAIN delivered[c] : delivered[c][i].to = o
Happened(g) ==
  /\ winner[g] \in DOMAIN op[g].cases
  /\ LET k == op[g].cases[winner[g]] IN
       \/ k.ch \in closed
       \/ k.dir = "send" /\ InFlight(Current(g), k.ch)
       \/ k.dir = "recv" /\ GotBy(Current(g), k.ch)

WinnersHappened ==
  \A g \in Goroutine : pc[g] = "ready" /\ op[g].kind = "select" => Happened(g)

\* The part about waiters, and all of it.
WaitPart == LiveWait /\ CasesWait /\ OnlyWaiter /\ CellsAreOld
Placed ==
  /\ OnePlace
  /\ WaitPart
  /\ AwaitersInUse
  /\ parked = Cardinality(Suspended)
  /\ WinnersHappened

LEMMA PlacedIsConsistent == TypeOK /\ Placed => WaitersConsistent
  BY LiveWaitIs, CasesWaitIs
  DEF Placed, WaitPart, WaitersConsistent, ParkedCount, Suspended, Counted, WinnerCommitted,
      WinnersHappened, Happened, Current, GotBy

LEMMA SuspendedFinite == IsFiniteSet(Suspended) /\ Suspended \subseteq Goroutine
<1>1. Suspended \subseteq Goroutine
  BY DEF Suspended
<1> QED BY <1>1, ChanSchedAssumption, FS_Subset

-----------------------------------------------------------------------------
(* Steps and the waiters.                                                  *)

\* q2 is what a pop loop leaves of q1: it dropped k waiters from the front.
Popped(q2, q1, k) ==
  /\ k \in 0..Len(q1)
  /\ DOMAIN q2 = 1..(Len(q1) - k)
  /\ \A j \in 1..(Len(q1) - k) : q2[j] = q1[k + j]

\* The goroutines of G are woken: their waiters are gone, or cancelled.
WakesOnly(G, k) ==
  \E n \in Nat :
    /\ Popped(Queues'[k], Queues[k], n)
    /\ \A i \in 1..n : Live(Queues[k][i]) => Queues[k][i].g \in G
    /\ \A i \in DOMAIN Queues[k] :
         i > n /\ Queues[k][i].kind = "plain" => Queues[k][i].g \notin G

WakesWaiters(G) ==
  /\ G \subseteq Goroutine
  /\ \A h \in G : pc[h] = "parked" /\ pc'[h] = "ready"
  /\ \A h \in Goroutine : h \notin G => (pc'[h] = "parked" <=> pc[h] = "parked")
  /\ \A h \in Goroutine : pc[h] = "parked" => ops'[h] = ops[h] /\ op'[h] = op[h]
  /\ \A h \in Goroutine : ops[h] <= ops'[h]
  /\ cancelled' = cancelled \union {Current(h) : h \in {x \in G : op[x].kind = "select"}}
  /\ \A k \in Case : WakesOnly(G, k)

LEMMA WakeWaits ==
  ASSUME TypeOK, TypeOK', WaitPart, NEW G, WakesWaiters(G)
  PROVE  WaitPart'
<1>q. \A k \in Case : /\ Len(Queues[k]) \in Nat
                      /\ DOMAIN Queues[k] = 1..Len(Queues[k])
                      /\ \A i \in DOMAIN Queues[k] : Queues[k][i] \in Waiter
  BY QueuesType
<1>o. \A h \in Goroutine : ops[h] \in Nat /\ ops'[h] \in Nat
  <2>1. ops \in [Goroutine -> 0..MaxOps] /\ ops' \in [Goroutine -> 0..MaxOps]
    BY DEF TypeOK, OpNo
  <2> QED BY <2>1, ChanSchedAssumption
<1>c. cancelled \subseteq cancelled'
  BY DEF WakesWaiters
\* A waiter of a goroutine that is not woken stays as live as it was.
<1>1. ASSUME NEW w \in Waiter, w.g \notin G
      PROVE  Live(w)' <=> Live(w)
  <2>1. ASSUME TheOp(w) \in cancelled' PROVE TheOp(w) \in cancelled
    <3>1. \A h \in G : TheOp(w) # Current(h)
      BY <1>1 DEF TheOp, Current
    <3> QED BY <2>1, <3>1 DEF WakesWaiters
  <2> QED BY <2>1, <1>c DEF Live, IsCancelled, TheOp
\* A live waiter is one of a goroutine that goes on waiting.
<1>2. ASSUME NEW k \in Case, NEW n \in Nat, NEW i \in DOMAIN Queues[k],
             \A x \in DOMAIN Queues[k] :
               x > n /\ Queues[k][x].kind = "plain" => Queues[k][x].g \notin G,
             i > n, NEW w, w = Queues[k][i], Live(w)'
      PROVE  Live(w) /\ w.g \notin G /\ Waits(w, k)
  <2>1. w \in Waiter /\ w.g \in Goroutine /\ w.kind \in {"plain", "select"}
    BY <1>2, <1>q DEF Waiter
  <2>2. Live(w)
    BY <1>2, <1>c DEF Live, IsCancelled, TheOp
  <2>3. Waits(w, k)
    BY <1>2, <2>2 DEF WaitPart, LiveWait
  <2>4. ASSUME w.g \in G PROVE FALSE
    <3>1. w.kind = "select"
      BY <1>2, <2>1, <2>4
    <3>2. TheOp(w) = Current(w.g) /\ op[w.g].kind = "select"
      BY <2>3, <3>1 DEF Waits, TheOp, Current
    <3>3. TheOp(w) \in cancelled'
      BY <2>4, <3>2 DEF WakesWaiters
    <3> QED BY <1>2, <3>1, <3>3 DEF Live, IsCancelled, TheOp
  <2> QED BY <2>2, <2>3, <2>4
<1>3. LiveWait'
  <2> SUFFICES ASSUME NEW k \in Case, NEW j \in DOMAIN Queues'[k], Live(Queues[k][j])'
               PROVE  Waits(Queues[k][j], k)'
    BY DEF LiveWait
  <2>1. PICK n \in Nat :
          /\ Popped(Queues'[k], Queues[k], n)
          /\ \A i \in 1..n : Live(Queues[k][i]) => Queues[k][i].g \in G
          /\ \A i \in DOMAIN Queues[k] :
               i > n /\ Queues[k][i].kind = "plain" => Queues[k][i].g \notin G
    BY DEF WakesWaiters, WakesOnly
  <2>2. /\ n + j \in DOMAIN Queues[k] /\ n + j > n
        /\ Queues'[k][j] = Queues[k][n + j]
    BY <1>q, <2>1 DEF Popped
  <2>3. PICK w \in Waiter : w = Queues[k][n + j] /\ w.g \in Goroutine
    BY <1>q, <2>2 DEF Waiter
  <2>4. Live(w)' /\ Queues'[k][j] = w
    BY <2>2, <2>3
  <2>5. w.g \notin G /\ Waits(w, k)
    BY <1>2, <2>1, <2>2, <2>3, <2>4
  <2>6. Waits(w, k)'
    BY <2>3, <2>5 DEF Waits, WakesWaiters
  <2> QED BY <2>4, <2>6
<1>4. CasesWait'
  <2> SUFFICES ASSUME NEW g \in Goroutine, pc'[g] = "parked", NEW j \in DOMAIN op'[g].cases
               PROVE  \E i \in DOMAIN Queues'[op'[g].cases[j]] :
                        StandsFor(Queues[op[g].cases[j]][i], g, j)'
    BY DEF CasesWait
  <2>1. pc[g] = "parked" /\ g \notin G /\ op'[g] = op[g]
    BY DEF WakesWaiters
  <2>2. PICK k \in Case : k = op[g].cases[j] /\ k = op'[g].cases[j]
    BY <2>1, ElementOfSeq, LenProperties DEF TypeOK
  <2>3. PICK i \in DOMAIN Queues[k] : StandsFor(Queues[k][i], g, j)
    BY <2>1, <2>2 DEF WaitPart, CasesWait
  <2>4. PICK n \in Nat :
          /\ Popped(Queues'[k], Queues[k], n)
          /\ \A x \in 1..n : Live(Queues[k][x]) => Queues[k][x].g \in G
    BY <2>2 DEF WakesWaiters, WakesOnly
  <2>5. Queues[k][i] \in Waiter /\ i \in Nat /\ i > n
    BY <1>q, <2>1, <2>2, <2>3, <2>4 DEF StandsFor
  <2>6. i - n \in DOMAIN Queues'[k] /\ Queues'[k][i - n] = Queues[k][i]
    BY <1>q, <2>2, <2>4, <2>5 DEF Popped
  <2>w. PICK w \in Waiter : w = Queues[k][i]
    BY <2>5
  <2>7. Live(w)' /\ Queues'[k][i - n] = w
    BY <1>1, <2>1, <2>3, <2>w, <2>6 DEF StandsFor
  <2>8. w.g = g /\ (w.kind = "select" => w.idx = j)
    BY <2>3, <2>w DEF StandsFor
  <2>9. StandsFor(Queues[op[g].cases[j]][i - n], g, j)'
    BY <2>2, <2>7, <2>8 DEF StandsFor
  <2> QED BY <2>2, <2>6, <2>9
<1>5. OnlyWaiter'
  <2> SUFFICES ASSUME NEW k \in Case, NEW x \in DOMAIN Queues'[k], NEW y \in DOMAIN Queues'[k],
                      Live(Queues[k][x])', Live(Queues[k][y])',
                      Queues'[k][x].g = Queues'[k][y].g
               PROVE  x = y
    BY DEF OnlyWaiter
  <2>1. PICK n \in Nat : Popped(Queues'[k], Queues[k], n)
    BY DEF WakesWaiters, WakesOnly
  <2>2. /\ n + x \in DOMAIN Queues[k] /\ n + y \in DOMAIN Queues[k] /\ x \in Nat /\ y \in Nat
        /\ Queues'[k][x] = Queues[k][n + x] /\ Queues'[k][y] = Queues[k][n + y]
    BY <1>q, <2>1 DEF Popped
  <2>3. Live(Queues[k][n + x]) /\ Live(Queues[k][n + y])
    BY <1>c, <2>2 DEF Live, IsCancelled, TheOp
  <2>4. n + x = n + y
    BY <2>2, <2>3 DEF WaitPart, OnlyWaiter
  <2> QED BY <2>2, <2>4
<1>6. CellsAreOld'
  <2> SUFFICES ASSUME NEW o \in cancelled'
               PROVE  o.n <= ops'[o.g] /\ (o = Current(o.g)' => pc'[o.g] # "parked")
    BY DEF CellsAreOld
  <2>1. CASE o \in cancelled
    <3>1. o.g \in Goroutine /\ o.n \in Nat
      <4>1. o.g \in Goroutine /\ o.n \in 0..MaxOps
        BY <2>1 DEF TypeOK, Op, OpNo
      <4> QED BY <4>1, ChanSchedAssumption
    <3>2. o.n <= ops[o.g] /\ (o = Current(o.g) => pc[o.g] # "parked")
      BY <2>1 DEF WaitPart, CellsAreOld
    <3>3. o.n <= ops'[o.g]
      BY <1>o, <3>1, <3>2 DEF WakesWaiters
    <3>4. ASSUME o = Current(o.g)', pc'[o.g] = "parked" PROVE FALSE
      <4>1. pc[o.g] = "parked"
        BY <3>1, <3>4 DEF WakesWaiters
      <4>2. ops'[o.g] = ops[o.g]
        BY <3>1, <4>1 DEF WakesWaiters
      <4> QED BY <3>2, <3>4, <4>1, <4>2 DEF Current
    <3> QED BY <3>3, <3>4
  <2>2. CASE o \notin cancelled
    <3>1. PICK h \in G : o = Current(h)
      BY <2>2 DEF WakesWaiters
    <3>2. o.g = h /\ o.n = ops[h] /\ h \in Goroutine /\ pc'[h] = "ready"
      BY <3>1 DEF Current, WakesWaiters
    <3> QED BY <1>o, <3>2 DEF WakesWaiters
  <2> QED BY <2>1, <2>2
<1> QED BY <1>3, <1>4, <1>5, <1>6 DEF WaitPart

-----------------------------------------------------------------------------
(* Steps and the places of goroutines.                                     *)

\* s lists the goroutines of G, each once.
Lists(s, G) ==
  /\ s \in Seq(Goroutine)
  /\ \A i \in DOMAIN s : s[i] \in G
  /\ \A h \in G : \E i \in DOMAIN s : s[i] = h
  /\ \A i, j \in DOMAIN s : s[i] = s[j] => i = j

Plain(G) == {h \in G : op[h].kind # "select"}

\* The goroutines of G go to the back of the runqueue in the order s.
WakesGoroutines(G, s) ==
  /\ pc' = [h \in Goroutine |-> IF h \in G THEN "ready" ELSE pc[h]]
  /\ running' = running
  /\ op' = op
  /\ Lists(s, G)
  /\ ready' = ready \o s
  /\ parked' = parked - Cardinality(Plain(G))

LEMMA WakePlaces ==
  ASSUME TypeOK, Placed, NEW G, NEW s, WakesWaiters(G), WakesGoroutines(G, s)
  PROVE  OnePlace' /\ AwaitersInUse' /\ parked' = Cardinality(Suspended')
<1>1. /\ G \subseteq Goroutine
      /\ \A h \in G : pc[h] = "parked" /\ pc'[h] = "ready"
      /\ \A h \in Goroutine : pc'[h] = IF h \in G THEN "ready" ELSE pc[h]
  BY DEF WakesWaiters, WakesGoroutines
<1>2. /\ Len(ready) \in Nat /\ Len(s) \in Nat /\ Len(ready') = Len(ready) + Len(s)
      /\ DOMAIN ready = 1..Len(ready) /\ DOMAIN s = 1..Len(s)
      /\ DOMAIN ready' = 1..(Len(ready) + Len(s))
      /\ \A i \in DOMAIN ready' :
           ready'[i] = IF i <= Len(ready) THEN ready[i] ELSE s[i - Len(ready)]
  <2>1. ready \in Seq(Goroutine) /\ s \in Seq(Goroutine) /\ ready' = ready \o s
    BY DEF TypeOK, WakesGoroutines, Lists
  <2> QED BY <2>1, LenProperties, ConcatProperties
<1>3. /\ \A i \in DOMAIN ready : ready[i] \in Goroutine /\ pc[ready[i]] = "ready"
      /\ \A i, j \in DOMAIN ready : ready[i] = ready[j] => i = j
  <2>1. \A i \in DOMAIN ready : ready[i] \in Goroutine
    <3>1. ready \in Seq(Goroutine)
      BY DEF TypeOK
    <3> QED BY <3>1, ElementOfSeq, LenProperties
  <2> QED BY <2>1 DEF Placed, OnePlace
<1>4. /\ \A i \in DOMAIN s : s[i] \in G
      /\ \A i, j \in DOMAIN s : s[i] = s[j] => i = j
  BY DEF WakesGoroutines, Lists
<1>5. \A i \in DOMAIN ready' : pc'[ready'[i]] = "ready"
  <2> SUFFICES ASSUME NEW i \in DOMAIN ready' PROVE pc'[ready'[i]] = "ready"
    OBVIOUS
  <2>1. CASE i \in DOMAIN ready
    BY <1>1, <1>2, <1>3, <2>1
  <2>2. CASE i \notin DOMAIN ready
    <3>1. i - Len(ready) \in DOMAIN s /\ ready'[i] = s[i - Len(ready)]
      BY <1>2, <2>2
    <3> QED BY <1>1, <1>4, <3>1
  <2> QED BY <2>1, <2>2
<1>6. ASSUME NEW i \in DOMAIN ready', NEW j \in DOMAIN ready', ready'[i] = ready'[j]
      PROVE  i = j
  <2>1. ASSUME NEW x \in DOMAIN ready', NEW y \in DOMAIN ready',
               x \in DOMAIN ready, y \notin DOMAIN ready
        PROVE  ready'[x] # ready'[y]
    <3>1. ready'[x] = ready[x] /\ pc[ready[x]] = "ready"
      BY <1>2, <1>3, <2>1
    <3>2. ready'[y] = s[y - Len(ready)] /\ y - Len(ready) \in DOMAIN s
      BY <1>2, <2>1
    <3> QED BY <1>1, <1>4, <3>1, <3>2
  <2>2. CASE i \in DOMAIN ready /\ j \in DOMAIN ready
    BY <1>2, <1>3, <1>6, <2>2
  <2>3. CASE i \notin DOMAIN ready /\ j \notin DOMAIN ready
    <3>1. /\ ready'[i] = s[i - Len(ready)] /\ i - Len(ready) \in DOMAIN s
          /\ ready'[j] = s[j - Len(ready)] /\ j - Len(ready) \in DOMAIN s
      BY <1>2, <2>3
    <3>2. i - Len(ready) = j - Len(ready)
      BY <1>4, <1>6, <3>1
    <3> QED BY <1>2, <3>2
  <2> QED BY <1>6, <2>1, <2>2, <2>3
<1>7. ASSUME NEW h \in Goroutine, pc'[h] = "ready"
      PROVE  \E i \in DOMAIN ready' : ready'[i] = h
  <2>1. CASE h \in G
    <3>1. PICK i \in DOMAIN s : s[i] = h
      BY <2>1 DEF WakesGoroutines, Lists
    <3>2. Len(ready) + i \in DOMAIN ready' /\ ready'[Len(ready) + i] = s[i]
      BY <1>2, <3>1
    <3> QED BY <3>1, <3>2
  <2>2. CASE h \notin G
    <3>1. pc[h] = "ready"
      BY <1>1, <1>7, <2>2
    <3>2. PICK i \in DOMAIN ready : ready[i] = h
      BY <3>1 DEF Placed, OnePlace
    <3>3. i \in DOMAIN ready' /\ ready'[i] = ready[i]
      BY <1>2, <3>2
    <3> QED BY <3>2, <3>3
  <2> QED BY <2>1, <2>2
<1>8. \A h \in Goroutine : pc'[h] = "running" <=> running' = h
  BY <1>1 DEF Placed, OnePlace, WakesGoroutines
<1>9. OnePlace'
  BY <1>5, <1>6, <1>7, <1>8 DEF OnePlace
<1>10. AwaitersInUse'
  BY <1>1 DEF Placed, AwaitersInUse, WakesGoroutines
<1>11. parked' = Cardinality(Suspended')
  <2>1. Plain(G) \subseteq Suspended
    BY <1>1 DEF Plain, Suspended, Counted
  <2>2. Suspended' = Suspended \ Plain(G)
    <3>1. op' = op
      BY DEF WakesGoroutines
    <3>2. ASSUME NEW h \in Goroutine
          PROVE  h \in Suspended' <=> h \in Suspended /\ h \notin Plain(G)
      BY <1>1, <3>1 DEF Suspended, Counted, Plain
    <3>3. Suspended \subseteq Goroutine /\ Suspended' \subseteq Goroutine
      BY DEF Suspended
    <3> QED BY <3>2, <3>3
  <2>3. /\ IsFiniteSet(Plain(G))
        /\ Cardinality(Suspended \ Plain(G)) = Cardinality(Suspended) - Cardinality(Suspended \cap Plain(G))
    BY <2>1, SuspendedFinite, FS_Subset, FS_Difference
  <2>4. Suspended \cap Plain(G) = Plain(G)
    BY <2>1
  <2> QED BY <2>2, <2>3, <2>4 DEF Placed, WakesGoroutines
<1> QED BY <1>9, <1>10, <1>11

\* Closed stays closed, a value that was sent stays sent or received.
History ==
  /\ closed \subseteq closed'
  /\ \A o \in Op, c \in Chan : /\ InFlight(o, c) => InFlight(o, c)'
                               /\ GotBy(o, c) => GotBy(o, c)'

LEMMA CurrentType == TypeOK => \A g \in Goroutine : Current(g) \in Op
  BY DEF TypeOK, Current, Op

\* What happened to a woken select is not undone.
LEMMA HappenedStays ==
  ASSUME TypeOK, NEW g \in Goroutine, Happened(g), History,
         winner'[g] = winner[g], op'[g] = op[g], ops'[g] = ops[g]
  PROVE  Happened(g)'
<1> DEFINE j == winner[g]
<1>1. PICK k \in Case : k = op[g].cases[j] /\ k = op'[g].cases[winner'[g]]
  BY ElementOfSeq, LenProperties DEF TypeOK, Happened
<1>2. k.ch \in Chan /\ Current(g) \in Op /\ Current(g)' = Current(g)
  BY CurrentType DEF Case, Current
<1>3. \/ k.ch \in closed
      \/ k.dir = "send" /\ InFlight(Current(g), k.ch)
      \/ k.dir = "recv" /\ GotBy(Current(g), k.ch)
  BY <1>1 DEF Happened
<1>4. PICK o \in Op : o = Current(g) /\ o = Current(g)'
  BY <1>2
<1>5. \/ k.ch \in closed'
      \/ k.dir = "send" /\ InFlight(o, k.ch)'
      \/ k.dir = "recv" /\ GotBy(o, k.ch)'
  BY <1>2, <1>3, <1>4 DEF History
<1>6. \/ k.ch \in closed'
      \/ k.dir = "send" /\ InFlight(Current(g), k.ch)'
      \/ k.dir = "recv" /\ GotBy(Current(g), k.ch)'
  BY <1>4, <1>5 DEF InFlight, GotBy
<1>7. winner'[g] \in DOMAIN op'[g].cases
  BY DEF Happened
<1> QED BY <1>1, <1>6, <1>7 DEF Happened

LEMMA WakeWinners ==
  ASSUME TypeOK, Placed, NEW G, NEW s, WakesGoroutines(G, s), History,
         G \subseteq Goroutine,
         \A h \in Goroutine : h \notin G => winner'[h] = winner[h],
         \A h \in Goroutine : pc[h] = "ready" => ops'[h] = ops[h],
         \A h \in G : op[h].kind = "select" => Happened(h)'
  PROVE  WinnersHappened'
<1> SUFFICES ASSUME NEW h \in Goroutine, pc'[h] = "ready", op'[h].kind = "select"
             PROVE  Happened(h)'
  BY DEF WinnersHappened
<1>1. op' = op /\ pc'[h] = IF h \in G THEN "ready" ELSE pc[h]
  BY DEF WakesGoroutines
<1>2. CASE h \in G
  BY <1>1, <1>2
<1>3. CASE h \notin G
  <2>1. pc[h] = "ready" /\ Happened(h)
    BY <1>1, <1>3 DEF Placed, WinnersHappened
  <2> QED BY <1>1, <1>3, <2>1, HappenedStays
<1> QED BY <1>2, <1>3

-----------------------------------------------------------------------------
(* try_send and try_recv: at most one goroutine is woken.                  *)

LEMMA WakeStep ==
  ASSUME TypeOK, TypeOK', Placed, NEW G, NEW s, WakesWaiters(G), WakesGoroutines(G, s), History,
         \A h \in Goroutine : h \notin G => winner'[h] = winner[h],
         \A h \in Goroutine : pc[h] = "ready" => ops'[h] = ops[h],
         \A h \in G : op[h].kind = "select" => Happened(h)'
  PROVE  Placed'
<1>1. WaitPart'
  BY WakeWaits DEF Placed
<1>2. OnePlace' /\ AwaitersInUse' /\ parked' = Cardinality(Suspended')
  BY WakePlaces
<1>3. WinnersHappened'
  <2>1. G \subseteq Goroutine
    BY DEF WakesWaiters
  <2> QED BY <2>1, WakeWinners
<1> QED BY <1>1, <1>2, <1>3 DEF Placed

\* The running goroutine starts an operation: no other is touched.
LEMMA StartFacts ==
  ASSUME TypeOK, Placed, NEW g \in Goroutine, StartOp(g)
  PROVE  /\ pc[g] = "running"
         /\ \A h \in Goroutine : h # g => ops'[h] = ops[h]
         /\ ops'[g] = ops[g] + 1
         /\ \A h \in Goroutine : ops[h] \in Nat /\ ops[h] <= ops'[h]
         /\ \A h \in Goroutine : pc[h] # "running" => ops'[h] = ops[h]
<1>1. ops \in [Goroutine -> 0..MaxOps] /\ MaxOps \in Nat
  BY ChanSchedAssumption DEF TypeOK, OpNo
<1>2. \A h \in Goroutine : ops[h] \in Nat
  BY <1>1
<1>3. pc[g] = "running"
  BY DEF Placed, OnePlace, StartOp
<1>4. \A h \in Goroutine : h # g => ops'[h] = ops[h]
  BY <1>1 DEF StartOp
<1>5. ops'[g] = ops[g] + 1
  BY <1>1 DEF StartOp
<1>6. \A h \in Goroutine : ops[h] <= ops'[h]
  BY <1>2, <1>4, <1>5
<1> QED BY <1>2, <1>3, <1>4, <1>5, <1>6

LEMMA PoppedAll ==
  ASSUME NEW q \in Seq(Waiter)
  PROVE  /\ Popped(<<>>, q, Len(q))
         /\ Popped(q, q, 0)
         /\ \A i \in DOMAIN q : Popped(After(q, i), q, i)
<1>1. Len(q) \in Nat /\ DOMAIN q = 1..Len(q)
  BY LenProperties
<1>2. Popped(<<>>, q, Len(q))
  BY <1>1 DEF Popped
<1>3. Popped(q, q, 0)
  BY <1>1 DEF Popped
<1>4. ASSUME NEW i \in DOMAIN q PROVE Popped(After(q, i), q, i)
  <2>1. /\ After(q, i) \in Seq(Waiter) /\ Len(After(q, i)) = Len(q) - i
        /\ \A j \in 1..(Len(q) - i) : After(q, i)[j] = q[i + j]
    BY AfterType
  <2>2. DOMAIN After(q, i) = 1..(Len(q) - i)
    BY <2>1, LenProperties
  <2> QED BY <1>1, <2>1, <2>2 DEF Popped
<1> QED BY <1>2, <1>3, <1>4


\* A queue that is left as it is, or emptied of cancelled waiters.
DeadDropped(q2, q1) == q2 = q1 \/ (q2 = <<>> /\ NoneLive(q1))

\* A completion takes the first live waiter w off queue k.
Takes(w, k) ==
  /\ \E i \in DOMAIN Queues[k] :
       FirstLive(Queues[k], i) /\ w = Queues[k][i] /\ Queues'[k] = After(Queues[k], i)
  /\ \A x \in Case : x # k => DeadDropped(Queues'[x], Queues[x])

LEMMA DropsDead ==
  ASSUME TypeOK, NEW k \in Case, DeadDropped(Queues'[k], Queues[k]), NEW G,
         \A i \in DOMAIN Queues[k] : Queues[k][i].kind = "plain" => Queues[k][i].g \notin G
  PROVE  WakesOnly(G, k)
<1>1. Queues[k] \in Seq(Waiter) /\ Len(Queues[k]) \in Nat /\ DOMAIN Queues[k] = 1..Len(Queues[k])
  BY QueuesType
<1>2. CASE Queues'[k] = Queues[k]
  <2>1. Popped(Queues'[k], Queues[k], 0) /\ 1..0 = {}
    BY <1>1, <1>2, PoppedAll
  <2> QED BY <2>1 DEF WakesOnly
<1>3. CASE Queues'[k] = <<>> /\ NoneLive(Queues[k])
  <2>1. Popped(Queues'[k], Queues[k], Len(Queues[k]))
    BY <1>1, <1>3, PoppedAll
  <2>2. \A i \in 1..Len(Queues[k]) : ~Live(Queues[k][i])
    BY <1>1, <1>3 DEF NoneLive
  <2> QED BY <1>1, <2>1, <2>2 DEF WakesOnly
<1> QED BY <1>2, <1>3 DEF DeadDropped

LEMMA NobodyWakes ==
  ASSUME TypeOK, Placed, NEW g \in Goroutine, StartOp(g), KeepRunning, CompleteNobody,
         \A k \in Case : DeadDropped(Queues'[k], Queues[k])
  PROVE  WakesWaiters({}) /\ WakesGoroutines({}, <<>>)
<1>1. \A k \in Case : WakesOnly({}, k)
  BY DropsDead
<1>2. pc' = pc /\ op' = op /\ running' = running /\ ready' = ready /\ parked' = parked
      /\ cancelled' = cancelled
  BY DEF CompleteNobody, KeepRunning
<1>3. WakesWaiters({})
  BY <1>1, <1>2, StartFacts DEF WakesWaiters
<1>4. Lists(<<>>, {}) /\ ready \o <<>> = ready
  <2>1. ready \in Seq(Goroutine)
    BY DEF TypeOK
  <2>2. Lists(<<>>, {})
    BY EmptySeq DEF Lists
  <2> QED BY <2>1, <2>2, ConcatEmptySeq
<1>5. parked - Cardinality(Plain({})) = parked
  <2>1. parked \in Int
    BY DEF TypeOK
  <2>2. Plain({}) = {}
    BY DEF Plain
  <2>3. Cardinality({}) = 0
    BY FS_EmptySet
  <2> QED BY <2>1, <2>2, <2>3
<1>6. pc' = [h \in Goroutine |-> IF h \in {} THEN "ready" ELSE pc[h]]
  BY <1>2 DEF TypeOK
<1> QED BY <1>2, <1>3, <1>4, <1>5, <1>6 DEF WakesGoroutines

\* What a live waiter of queue k says of its goroutine.
WaitsOn(w, k) ==
  /\ w \in Waiter /\ w.g \in Goroutine /\ w.kind \in {"plain", "select"}
  /\ pc[w.g] = "parked" /\ TheOp(w) = Current(w.g)
  /\ w.kind = "select" => /\ op[w.g].kind = "select"
                          /\ w.idx \in DOMAIN op[w.g].cases
                          /\ op[w.g].cases[w.idx] = k
  /\ w.kind = "plain" => op[w.g] = [kind |-> k.dir, cases |-> <<k>>] /\ op[w.g].kind # "select"

LEMMA WaiterFacts ==
  ASSUME TypeOK, Placed, NEW k \in Case, NEW i \in DOMAIN Queues[k], NEW w,
         w = Queues[k][i], Live(w)
  PROVE  WaitsOn(w, k)
<1>1. w \in Waiter /\ Waits(w, k) /\ k.dir \in {"send", "recv"}
  BY QueuesType DEF Placed, WaitPart, LiveWait, Case
<1>2. w.g \in Goroutine /\ w.kind \in {"plain", "select"}
  BY <1>1 DEF Waiter
<1> QED BY <1>1, <1>2 DEF WaitsOn, Waits, TheOp, Current

LEMMA CompletionWakes ==
  ASSUME TypeOK, Placed, NEW g \in Goroutine, StartOp(g), KeepRunning,
         NEW k \in Case, NEW w, Takes(w, k), Complete(w)
  PROVE  WakesWaiters({w.g}) /\ WakesGoroutines({w.g}, <<w.g>>)
<1>1. PICK i \in DOMAIN Queues[k] :
        FirstLive(Queues[k], i) /\ w = Queues[k][i] /\ Queues'[k] = After(Queues[k], i)
  BY DEF Takes
<1>2. Live(w) /\ \A x \in 1..(i - 1) : ~Live(Queues[k][x])
  BY <1>1 DEF FirstLive
<1>a. WaitsOn(w, k)
  BY <1>1, <1>2, WaiterFacts
<1>3. /\ w \in Waiter /\ w.g \in Goroutine /\ w.kind \in {"plain", "select"}
      /\ pc[w.g] = "parked" /\ TheOp(w) = Current(w.g)
      /\ w.kind = "select" => op[w.g].kind = "select"
      /\ w.kind = "plain" => op[w.g] = [kind |-> k.dir, cases |-> <<k>>] /\ op[w.g].kind # "select"
  BY <1>a DEF WaitsOn
\* Only w was a plain waiter of its goroutine.
<1>4. ASSUME NEW x \in Case, NEW j \in DOMAIN Queues[x],
             Queues[x][j].kind = "plain", Queues[x][j].g = w.g
      PROVE  x = k /\ j = i
  <2>1. Live(Queues[x][j])
    BY <1>4 DEF Live, IsCancelled
  <2>2. op[w.g] = [kind |-> x.dir, cases |-> <<x>>] /\ op[w.g].kind # "select"
    BY <1>4, <2>1, WaiterFacts DEF WaitsOn
  <2>3. w.kind = "plain" /\ op[w.g] = [kind |-> k.dir, cases |-> <<k>>]
    BY <1>3, <2>2
  <2>4. x = k
    BY <2>2, <2>3
  <2> QED BY <1>1, <1>2, <1>4, <2>1, <2>4 DEF Placed, WaitPart, OnlyWaiter
<1>5. WakesOnly({w.g}, k)
  <2>1. /\ Queues[k] \in Seq(Waiter) /\ Len(Queues[k]) \in Nat
        /\ DOMAIN Queues[k] = 1..Len(Queues[k])
    BY QueuesType
  <2>2. Popped(Queues'[k], Queues[k], i)
    BY <1>1, <2>1, PoppedAll
  <2>3. \A x \in 1..i : Live(Queues[k][x]) => Queues[k][x].g \in {w.g}
    <3>1. \A x \in 1..i : x = i \/ x \in 1..(i - 1)
      BY <2>1
    <3> QED BY <1>1, <1>2, <3>1
  <2>4. \A x \in DOMAIN Queues[k] : x > i /\ Queues[k][x].kind = "plain" => Queues[k][x].g # w.g
    BY <1>4, <2>1
  <2> QED BY <2>1, <2>2, <2>3, <2>4 DEF WakesOnly
<1>6. ASSUME NEW x \in Case PROVE WakesOnly({w.g}, x)
  <2>1. CASE x = k
    BY <1>5, <2>1
  <2>2. CASE x # k
    <3>1. \A j \in DOMAIN Queues[x] : Queues[x][j].kind = "plain" => Queues[x][j].g \notin {w.g}
      BY <1>4, <2>2
    <3> QED BY <2>2, <3>1, DropsDead DEF Takes
  <2> QED BY <2>1, <2>2
<1>7. /\ cancelled' = CancelledBy(w) /\ parked' = Uncounted(w) /\ ready' = Append(ready, w.g)
      /\ pc' = [pc EXCEPT ![w.g] = "ready"] /\ op' = op /\ running' = running
  BY DEF Complete, KeepRunning, Enqueued
<1>8. pc' = [h \in Goroutine |-> IF h \in {w.g} THEN "ready" ELSE pc[h]]
  BY <1>7 DEF TypeOK
<1>9. cancelled' = cancelled \union {Current(h) : h \in {x \in {w.g} : op[x].kind = "select"}}
  BY <1>3, <1>7 DEF CancelledBy
<1>10. WakesWaiters({w.g})
  BY <1>3, <1>6, <1>7, <1>8, <1>9, StartFacts DEF WakesWaiters
<1>11. Lists(<<w.g>>, {w.g})
  BY <1>3 DEF Lists
<1>12. ready' = ready \o <<w.g>>
  <2>1. ready \in Seq(Goroutine)
    BY DEF TypeOK
  <2> QED BY <1>3, <1>7, <2>1, AppendIsConcat
<1>13. parked' = parked - Cardinality(Plain({w.g}))
  <2>1. parked \in Int
    BY DEF TypeOK
  <2>2. CASE w.kind = "select"
    <3>1. Plain({w.g}) = {}
      BY <1>3, <2>2 DEF Plain
    <3>2. Cardinality({}) = 0
      BY FS_EmptySet
    <3>3. Cardinality(Plain({w.g})) = 0 /\ parked' = parked
      BY <1>7, <2>2, <3>1, <3>2 DEF Uncounted
    <3> QED BY <2>1, <3>3
  <2>3. CASE w.kind # "select"
    <3>1. Plain({w.g}) = {w.g}
      BY <1>3, <2>3 DEF Plain
    <3> QED BY <1>7, <2>1, <2>3, <3>1, FS_Singleton DEF Uncounted
  <2> QED BY <2>2, <2>3
<1> QED BY <1>7, <1>8, <1>10, <1>11, <1>12, <1>13 DEF WakesGoroutines

-----------------------------------------------------------------------------
(* What try_send and try_recv do to values.                                *)

\* Values only move from buffers to receivers.
LEMMA HistoryOf ==
  ASSUME closed \subseteq closed',
         \A d \in Chan : \A i \in DOMAIN delivered[d] :
           i \in DOMAIN delivered'[d] /\ delivered'[d][i] = delivered[d][i],
         \A d \in Chan : \A i \in DOMAIN buf[d] :
           \/ \E j \in DOMAIN buf'[d] : buf'[d][j] = buf[d][i]
           \/ \E j \in DOMAIN delivered'[d] : delivered'[d][j].val = buf[d][i]
  PROVE  History
<1> SUFFICES ASSUME NEW o \in Op, NEW d \in Chan
             PROVE  /\ InFlight(o, d) => InFlight(o, d)'
                    /\ GotBy(o, d) => GotBy(o, d)'
  BY DEF History
<1>1. GotBy(o, d) => GotBy(o, d)'
  BY DEF GotBy
<1>2. ASSUME NEW i \in DOMAIN buf[d], buf[d][i] = o PROVE InFlight(o, d)'
  BY <1>2 DEF InFlight
<1>3. ASSUME NEW i \in DOMAIN delivered[d], delivered[d][i].val = o PROVE InFlight(o, d)'
  BY <1>3 DEF InFlight
<1> QED BY <1>1, <1>2, <1>3 DEF InFlight

LEMMA DeliverFacts ==
  ASSUME TypeOK, NEW c \in Chan, NEW v \in Op, NEW o \in Op, Deliver(c, v, o)
  PROVE  /\ \A d \in Chan : \A i \in DOMAIN delivered[d] :
              i \in DOMAIN delivered'[d] /\ delivered'[d][i] = delivered[d][i]
         /\ \E i \in DOMAIN delivered'[c] : delivered'[c][i] = [val |-> v, to |-> o]
<1>1. delivered[c] \in Seq(Delivery) /\ [val |-> v, to |-> o] \in Delivery
  BY DEF TypeOK, Delivery
<1>2. delivered'[c] = Append(delivered[c], [val |-> v, to |-> o])
  BY DEF Deliver, TypeOK
<1>3. \A d \in Chan : d # c => delivered'[d] = delivered[d]
  BY DEF Deliver, TypeOK
<1>4. /\ Len(delivered[c]) \in Nat /\ DOMAIN delivered[c] = 1..Len(delivered[c])
      /\ DOMAIN delivered'[c] = 1..(Len(delivered[c]) + 1)
      /\ delivered'[c][Len(delivered[c]) + 1] = [val |-> v, to |-> o]
      /\ \A i \in 1..Len(delivered[c]) : delivered'[c][i] = delivered[c][i]
  BY <1>1, <1>2, AppendProperties, LenProperties
<1>5. ASSUME NEW d \in Chan, NEW i \in DOMAIN delivered[d]
      PROVE  i \in DOMAIN delivered'[d] /\ delivered'[d][i] = delivered[d][i]
  <2>1. CASE d # c
    BY <1>3, <2>1
  <2>2. CASE d = c
    BY <1>4, <2>2
  <2> QED BY <2>1, <2>2
<1>6. Len(delivered[c]) + 1 \in DOMAIN delivered'[c]
  BY <1>4
<1> QED BY <1>4, <1>5, <1>6

\* A select whose waiter w on queue k was completed reports case k.
LEMMA CompletedSelect ==
  ASSUME TypeOK, Placed, NEW g \in Goroutine, StartOp(g), KeepRunning,
         NEW k \in Case, NEW w, Takes(w, k), Complete(w), op[w.g].kind = "select"
  PROVE  /\ Current(w.g)' = TheOp(w)
         /\ winner'[w.g] \in DOMAIN op'[w.g].cases
         /\ op'[w.g].cases[winner'[w.g]] = k
<1>1. PICK i \in DOMAIN Queues[k] : FirstLive(Queues[k], i) /\ w = Queues[k][i]
  BY DEF Takes
<1>2. Live(w)
  BY <1>1 DEF FirstLive
<1>a. WaitsOn(w, k)
  BY <1>1, <1>2, WaiterFacts
<1>3. /\ w.g \in Goroutine /\ w.kind \in {"plain", "select"}
      /\ pc[w.g] = "parked" /\ TheOp(w) = Current(w.g)
      /\ w.kind = "select" => /\ w.idx \in DOMAIN op[w.g].cases
                              /\ op[w.g].cases[w.idx] = k
      /\ w.kind = "plain" => op[w.g].kind # "select"
  BY <1>a DEF WaitsOn
<1>4. w.kind = "select" /\ ops'[w.g] = ops[w.g]
  BY <1>3, StartFacts
<1>5. winner'[w.g] = w.idx /\ op' = op
  BY <1>3, <1>4 DEF Complete, KeepRunning, TypeOK
<1> QED BY <1>3, <1>4, <1>5 DEF Current

\* The winner of anybody else is not written.
LEMMA OtherWinners ==
  ASSUME TypeOK, NEW w, Complete(w)
  PROVE  \A h \in Goroutine : h \notin {w.g} => winner'[h] = winner[h]
  BY DEF Complete, TypeOK

LEMMA NobodyStep ==
  ASSUME TypeOK, TypeOK', Placed, NEW g \in Goroutine, StartOp(g), KeepRunning,
         CompleteNobody, History,
         \A k \in Case : DeadDropped(Queues'[k], Queues[k])
  PROVE  Placed'
<1>1. WakesWaiters({}) /\ WakesGoroutines({}, <<>>)
  BY NobodyWakes
<1>2. winner' = winner
  BY DEF CompleteNobody
<1>3. \A h \in Goroutine : pc[h] = "ready" => ops'[h] = ops[h]
  BY StartFacts
<1> QED BY <1>1, <1>2, <1>3, WakeStep

LEMMA CompletionStep ==
  ASSUME TypeOK, TypeOK', Placed, NEW g \in Goroutine, StartOp(g), KeepRunning,
         NEW k \in Case, NEW w, Takes(w, k), Complete(w), History,
         \/ k.dir = "send" /\ InFlight(TheOp(w), k.ch)'
         \/ k.dir = "recv" /\ GotBy(TheOp(w), k.ch)'
  PROVE  Placed'
<1>1. WakesWaiters({w.g}) /\ WakesGoroutines({w.g}, <<w.g>>)
  BY CompletionWakes
<1>2. \A h \in Goroutine : h \notin {w.g} => winner'[h] = winner[h]
  BY OtherWinners
<1>3. \A h \in Goroutine : pc[h] = "ready" => ops'[h] = ops[h]
  BY StartFacts
<1>4. ASSUME op[w.g].kind = "select" PROVE Happened(w.g)'
  <2>1. /\ Current(w.g)' = TheOp(w)
        /\ winner'[w.g] \in DOMAIN op'[w.g].cases
        /\ op'[w.g].cases[winner'[w.g]] = k
    BY <1>4, CompletedSelect
  <2>2. \/ k.dir = "send" /\ InFlight(Current(w.g), k.ch)'
        \/ k.dir = "recv" /\ GotBy(Current(w.g), k.ch)'
    BY <2>1 DEF InFlight, GotBy
  <2> QED BY <2>1, <2>2 DEF Happened
<1> QED BY <1>1, <1>2, <1>3, <1>4, WakeStep

\* What the queues rq and sq keep of the deques before the attempt.
DeadCleaned(p, q) ==
  /\ p \in [Chan -> Seq(Waiter)]
  /\ \A d \in Chan : DeadDropped(p[d], q[d])

\* The first live waiter of the receivers of c is taken, the senders are sq.
LEMMA TakesReceiver ==
  ASSUME TypeOK, NEW c \in Chan, NEW rq, NEW sq, DeadCleaned(rq, recvs), DeadCleaned(sq, sends),
         NEW i \in DOMAIN rq[c], FirstLive(rq[c], i),
         recvs' = [rq EXCEPT ![c] = After(@, i)], sends' = sq
  PROVE  Takes(rq[c][i], [dir |-> "recv", ch |-> c])
<1> DEFINE k == [dir |-> "recv", ch |-> c]
<1>1. k \in Case /\ Queues[k] = recvs[c] /\ Queues'[k] = recvs'[c]
  BY DEF Case, Queues
<1>2. rq[c] = recvs[c]
  BY DEF DeadCleaned, DeadDropped
<1>3. recvs'[c] = After(recvs[c], i)
  BY <1>2 DEF DeadCleaned
<1>4. ASSUME NEW x \in Case, x # k PROVE DeadDropped(Queues'[x], Queues[x])
  <2>1. x.ch \in Chan /\ x.dir \in {"send", "recv"} /\ x = [dir |-> x.dir, ch |-> x.ch]
    BY DEF Case
  <2>2. CASE x.dir = "send"
    <3>1. Queues[x] = sends[x.ch] /\ Queues'[x] = sq[x.ch]
      BY <2>2 DEF Queues
    <3> QED BY <2>1, <3>1 DEF DeadCleaned
  <2>3. CASE x.dir = "recv"
    <3>1. x.ch # c
      BY <1>4, <2>1, <2>3
    <3>2. Queues[x] = recvs[x.ch] /\ Queues'[x] = rq[x.ch]
      BY <2>1, <2>3, <3>1 DEF Queues, DeadCleaned
    <3> QED BY <2>1, <3>2 DEF DeadCleaned
  <2> QED BY <2>1, <2>2, <2>3
<1> HIDE DEF k
<1> QED BY <1>1, <1>2, <1>3, <1>4 DEF Takes, k

LEMMA TakesSender ==
  ASSUME TypeOK, NEW c \in Chan, NEW rq, NEW sq, DeadCleaned(rq, recvs), DeadCleaned(sq, sends),
         NEW i \in DOMAIN sq[c], FirstLive(sq[c], i),
         sends' = [sq EXCEPT ![c] = After(@, i)], recvs' = rq
  PROVE  Takes(sq[c][i], [dir |-> "send", ch |-> c])
<1> DEFINE k == [dir |-> "send", ch |-> c]
<1>1. k \in Case /\ Queues[k] = sends[c] /\ Queues'[k] = sends'[c]
  BY DEF Case, Queues
<1>2. sq[c] = sends[c]
  BY DEF DeadCleaned, DeadDropped
<1>3. sends'[c] = After(sends[c], i)
  BY <1>2 DEF DeadCleaned
<1>4. ASSUME NEW x \in Case, x # k PROVE DeadDropped(Queues'[x], Queues[x])
  <2>1. x.ch \in Chan /\ x.dir \in {"send", "recv"} /\ x = [dir |-> x.dir, ch |-> x.ch]
    BY DEF Case
  <2>2. CASE x.dir = "recv"
    <3>1. Queues[x] = recvs[x.ch] /\ Queues'[x] = rq[x.ch]
      BY <2>2 DEF Queues
    <3> QED BY <2>1, <3>1 DEF DeadCleaned
  <2>3. CASE x.dir = "send"
    <3>1. x.ch # c
      BY <1>4, <2>1, <2>3
    <3>2. Queues[x] = sends[x.ch] /\ Queues'[x] = sq[x.ch]
      BY <2>1, <2>3, <3>1 DEF Queues, DeadCleaned
    <3> QED BY <2>1, <3>2 DEF DeadCleaned
  <2> QED BY <2>1, <2>2, <2>3
<1> HIDE DEF k
<1> QED BY <1>1, <1>2, <1>3, <1>4 DEF Takes, k

\* No waiter is taken; the receivers or the senders of one channel were all dead.
LEMMA TakesNone ==
  ASSUME NEW rq, NEW sq, DeadCleaned(rq, recvs), DeadCleaned(sq, sends),
         DeadCleaned(recvs', rq), DeadCleaned(sends', sq), NEW k \in Case
  PROVE  DeadDropped(Queues'[k], Queues[k])
<1>1. k.ch \in Chan /\ Queues[k] = (IF k.dir = "send" THEN sends[k.ch] ELSE recvs[k.ch])
      /\ Queues'[k] = (IF k.dir = "send" THEN sends'[k.ch] ELSE recvs'[k.ch])
  BY DEF Case, Queues
<1>2. ASSUME NEW p, NEW q, NEW r, DeadDropped(p, q), DeadDropped(q, r) PROVE DeadDropped(p, r)
  BY <1>2 DEF DeadDropped
<1> QED BY <1>1, <1>2 DEF DeadCleaned

LEMMA SameQueues == ASSUME NEW q \in [Chan -> Seq(Waiter)] PROVE DeadCleaned(q, q)
  BY DEF DeadCleaned, DeadDropped

LEMMA EmptiedQueue ==
  ASSUME NEW q \in [Chan -> Seq(Waiter)], NEW c \in Chan, NoneLive(q[c])
  PROVE  DeadCleaned([q EXCEPT ![c] = <<>>], q)
  BY EmptySeq DEF DeadCleaned, DeadDropped

LEMMA TrySendStep ==
  ASSUME TypeOK, TypeOK', Placed, NEW g \in Goroutine, StartOp(g), KeepRunning, UNCHANGED closed,
         NEW c \in Chan, NEW o \in Op, NEW rq, NEW sq,
         DeadCleaned(rq, recvs), DeadCleaned(sq, sends), TrySend(c, o, rq, sq)
  PROVE  Placed'
<1>t. rq \in [Chan -> Seq(Waiter)] /\ sq \in [Chan -> Seq(Waiter)]
  BY DEF DeadCleaned
<1>1. CASE HandOff(c, o, rq, sq)
  <2>1. PICK i \in DOMAIN rq[c] :
          /\ FirstLive(rq[c], i)
          /\ recvs' = [rq EXCEPT ![c] = After(@, i)]
          /\ Deliver(c, o, TheOp(rq[c][i]))
          /\ Complete(rq[c][i])
          /\ sends' = sq
          /\ buf' = buf
    BY <1>1 DEF HandOff
  <2>2. PICK w \in Waiter : w = rq[c][i]
    BY <1>t, <2>1, ElementOfSeq, LenProperties
  <2>3. PICK k \in Case : k = [dir |-> "recv", ch |-> c]
    BY CaseIs
  <2>4. Takes(w, k)
    BY <2>1, <2>2, <2>3, TakesReceiver
  <2>5. TheOp(w) \in Op /\ Deliver(c, o, TheOp(w))
    BY <2>1, <2>2 DEF TheOp, Op, Waiter
  <2>6. History
    BY <2>1, <2>5, DeliverFacts, HistoryOf
  <2>7. GotBy(TheOp(w), c)'
    <3>1. PICK j \in DOMAIN delivered'[c] : delivered'[c][j] = [val |-> o, to |-> TheOp(w)]
      BY <2>5, DeliverFacts
    <3> QED BY <3>1 DEF GotBy, TheOp
  <2>8. k.dir = "recv" /\ k.ch = c
    BY <2>3
  <2>9. Complete(w)
    BY <2>1, <2>2
  <2> QED BY <2>4, <2>6, <2>7, <2>8, <2>9, CompletionStep
<1>2. CASE Enbuffer(c, o, rq, sq)
  <2>1. /\ NoneLive(rq[c]) /\ recvs' = [rq EXCEPT ![c] = <<>>] /\ sends' = sq
        /\ buf' = [buf EXCEPT ![c] = Append(@, o)]
        /\ CompleteNobody /\ delivered' = delivered
    BY <1>2 DEF Enbuffer
  <2>2. DeadCleaned(recvs', rq) /\ DeadCleaned(sends', sq)
    BY <1>t, <2>1, SameQueues, EmptiedQueue
  <2>3. \A k \in Case : DeadDropped(Queues'[k], Queues[k])
    BY <2>2, TakesNone
  <2>4. ASSUME NEW d \in Chan, NEW i \in DOMAIN buf[d]
        PROVE  \E j \in DOMAIN buf'[d] : buf'[d][j] = buf[d][i]
    <3>1. CASE d # c
      BY <2>1, <3>1 DEF TypeOK
    <3>2. CASE d = c
      <4>1. buf[c] \in Seq(Op) /\ buf'[c] = Append(buf[c], o)
        BY <2>1 DEF TypeOK
      <4>2. i \in 1..Len(buf[c]) /\ Len(buf[c]) \in Nat
        BY <2>4, <3>2, <4>1, LenProperties
      <4>3. DOMAIN buf'[c] = 1..(Len(buf[c]) + 1) /\ buf'[c][i] = buf[c][i]
        BY <4>1, <4>2, AppendProperties, LenProperties
      <4> QED BY <3>2, <4>2, <4>3
    <3> QED BY <3>1, <3>2
  <2>5. History
    BY <2>1, <2>4, HistoryOf
  <2> QED BY <2>1, <2>3, <2>5, NobodyStep
<1> QED BY <1>1, <1>2 DEF TrySend

\* A receive takes the head of the buffer, o, and may append v behind the rest.
LEMMA TakeKeepsValues ==
  ASSUME TypeOK, NEW c \in Chan, NEW o \in Op, buf[c] # <<>>, Deliver(c, Head(buf[c]), o),
         closed \subseteq closed', \A d \in Chan : d # c => buf'[d] = buf[d],
         \/ buf'[c] = Tail(buf[c])
         \/ \E v \in Op : buf'[c] = Append(Tail(buf[c]), v)
  PROVE  History
<1>1. /\ buf[c] \in Seq(Op) /\ Len(buf[c]) \in Nat \ {0} /\ DOMAIN buf[c] = 1..Len(buf[c])
      /\ Tail(buf[c]) \in Seq(Op) /\ Len(Tail(buf[c])) = Len(buf[c]) - 1
      /\ DOMAIN Tail(buf[c]) = 1..(Len(buf[c]) - 1)
      /\ Head(buf[c]) \in Op /\ Head(buf[c]) = buf[c][1]
      /\ \A i \in 1..(Len(buf[c]) - 1) : Tail(buf[c])[i] = buf[c][i + 1]
  <2>1. buf[c] \in Seq(Op)
    BY DEF TypeOK
  <2> QED BY <2>1, HeadTailProperties, LenProperties, EmptySeq
<1>2. \A i \in 1..(Len(buf[c]) - 1) : i \in DOMAIN buf'[c] /\ buf'[c][i] = Tail(buf[c])[i]
  <2>1. CASE buf'[c] = Tail(buf[c])
    BY <1>1, <2>1
  <2>2. CASE \E v \in Op : buf'[c] = Append(Tail(buf[c]), v)
    <3>1. PICK v \in Op : buf'[c] = Append(Tail(buf[c]), v)
      BY <2>2
    <3>2. /\ DOMAIN buf'[c] = 1..(Len(Tail(buf[c])) + 1)
          /\ \A i \in 1..Len(Tail(buf[c])) : buf'[c][i] = Tail(buf[c])[i]
      BY <1>1, <3>1, AppendProperties, LenProperties
    <3> QED BY <1>1, <3>2
  <2> QED BY <2>1, <2>2
<1>3. /\ \A d \in Chan : \A i \in DOMAIN delivered[d] :
              i \in DOMAIN delivered'[d] /\ delivered'[d][i] = delivered[d][i]
      /\ \E i \in DOMAIN delivered'[c] : delivered'[c][i] = [val |-> Head(buf[c]), to |-> o]
  BY <1>1, DeliverFacts
<1>4. ASSUME NEW d \in Chan, NEW i \in DOMAIN buf[d]
      PROVE  \/ \E j \in DOMAIN buf'[d] : buf'[d][j] = buf[d][i]
             \/ \E j \in DOMAIN delivered'[d] : delivered'[d][j].val = buf[d][i]
  <2>1. CASE d # c
    BY <2>1
  <2>2. CASE d = c /\ i = 1
    BY <1>1, <1>3, <2>2
  <2>3. CASE d = c /\ i # 1
    <3>1. i - 1 \in 1..(Len(buf[c]) - 1) /\ (i - 1) + 1 = i
      BY <1>1, <1>4, <2>3
    <3>2. buf'[c][i - 1] = buf[c][i] /\ i - 1 \in DOMAIN buf'[c]
      BY <1>1, <1>2, <3>1
    <3> QED BY <2>3, <3>2
  <2> QED BY <2>1, <2>2, <2>3
<1> QED BY <1>3, <1>4, HistoryOf

LEMMA TryRecvStep ==
  ASSUME TypeOK, TypeOK', Placed, NEW g \in Goroutine, StartOp(g), KeepRunning, UNCHANGED closed,
         NEW c \in Chan, NEW o \in Op, NEW rq, NEW sq,
         DeadCleaned(rq, recvs), DeadCleaned(sq, sends), TryRecv(c, o, rq, sq)
  PROVE  Placed'
<1>t. rq \in [Chan -> Seq(Waiter)] /\ sq \in [Chan -> Seq(Waiter)]
  BY DEF DeadCleaned
<1>k. PICK k \in Case : k = [dir |-> "send", ch |-> c] /\ k.dir = "send" /\ k.ch = c
  BY CaseIs
<1>1. CASE TakeAndRefill(c, o, rq, sq)
  <2>1. PICK i \in DOMAIN sq[c] :
          /\ buf[c] # <<>>
          /\ FirstLive(sq[c], i)
          /\ Deliver(c, Head(buf[c]), o)
          /\ buf' = [buf EXCEPT ![c] = Append(Tail(@), TheOp(sq[c][i]))]
          /\ sends' = [sq EXCEPT ![c] = After(@, i)]
          /\ recvs' = rq
          /\ Complete(sq[c][i])
    BY <1>1 DEF TakeAndRefill
  <2>2. PICK w \in Waiter : w = sq[c][i]
    BY <1>t, <2>1, ElementOfSeq, LenProperties
  <2>3. Takes(w, k) /\ Complete(w)
    BY <1>k, <2>1, <2>2, TakesSender
  <2>4. TheOp(w) \in Op
    BY DEF TheOp, Op, Waiter
  <2>5. buf'[c] = Append(Tail(buf[c]), TheOp(w)) /\ \A d \in Chan : d # c => buf'[d] = buf[d]
    BY <2>1, <2>2 DEF TypeOK
  <2>6. History
    BY <2>1, <2>4, <2>5, TakeKeepsValues
  <2>7. InFlight(TheOp(w), c)'
    <3>1. Tail(buf[c]) \in Seq(Op)
      BY <2>1, HeadTailProperties DEF TypeOK
    <3>2. /\ DOMAIN buf'[c] = 1..(Len(Tail(buf[c])) + 1) /\ Len(Tail(buf[c])) \in Nat
          /\ buf'[c][Len(Tail(buf[c])) + 1] = TheOp(w)
      BY <2>4, <2>5, <3>1, AppendProperties, LenProperties
    <3>3. \E j \in DOMAIN buf'[c] : buf'[c][j] = TheOp(w)
      BY <3>2
    <3> QED BY <3>3 DEF InFlight, TheOp
  <2> QED BY <1>k, <2>3, <2>6, <2>7, CompletionStep
<1>2. CASE Take(c, o, rq, sq)
  <2>1. /\ buf[c] # <<>> /\ NoneLive(sq[c]) /\ Deliver(c, Head(buf[c]), o)
        /\ buf' = [buf EXCEPT ![c] = Tail(@)]
        /\ sends' = [sq EXCEPT ![c] = <<>>] /\ recvs' = rq /\ CompleteNobody
    BY <1>2 DEF Take
  <2>2. DeadCleaned(recvs', rq) /\ DeadCleaned(sends', sq)
    BY <1>t, <2>1, SameQueues, EmptiedQueue
  <2>3. \A x \in Case : DeadDropped(Queues'[x], Queues[x])
    BY <2>2, TakesNone
  <2>4. buf'[c] = Tail(buf[c]) /\ \A d \in Chan : d # c => buf'[d] = buf[d]
    BY <2>1 DEF TypeOK
  <2>5. History
    BY <2>1, <2>4, TakeKeepsValues
  <2> QED BY <2>1, <2>3, <2>5, NobodyStep
<1>3. CASE TakeFromSender(c, o, rq, sq)
  <2>1. PICK i \in DOMAIN sq[c] :
          /\ FirstLive(sq[c], i)
          /\ Deliver(c, TheOp(sq[c][i]), o)
          /\ sends' = [sq EXCEPT ![c] = After(@, i)]
          /\ recvs' = rq
          /\ Complete(sq[c][i])
          /\ buf' = buf
    BY <1>3 DEF TakeFromSender
  <2>2. PICK w \in Waiter : w = sq[c][i]
    BY <1>t, <2>1, ElementOfSeq, LenProperties
  <2>3. Takes(w, k) /\ Complete(w)
    BY <1>k, <2>1, <2>2, TakesSender
  <2>4. TheOp(w) \in Op /\ Deliver(c, TheOp(w), o)
    BY <2>1, <2>2 DEF TheOp, Op, Waiter
  <2>5. History
    BY <2>1, <2>4, DeliverFacts, HistoryOf
  <2>6. InFlight(TheOp(w), c)'
    <3>1. PICK j \in DOMAIN delivered'[c] : delivered'[c][j] = [val |-> TheOp(w), to |-> o]
      BY <2>4, DeliverFacts
    <3> QED BY <3>1 DEF InFlight, TheOp
  <2> QED BY <1>k, <2>3, <2>5, <2>6, CompletionStep
<1>4. CASE TakeZero(c, o, rq, sq)
  <2>1. /\ NoneLive(sq[c]) /\ sends' = [sq EXCEPT ![c] = <<>>] /\ recvs' = rq
        /\ CompleteNobody /\ buf' = buf /\ delivered' = delivered
    BY <1>4 DEF TakeZero
  <2>2. DeadCleaned(recvs', rq) /\ DeadCleaned(sends', sq)
    BY <1>t, <2>1, SameQueues, EmptiedQueue
  <2>3. \A x \in Case : DeadDropped(Queues'[x], Queues[x])
    BY <2>2, TakesNone
  <2>4. History
    BY <2>1, HistoryOf
  <2> QED BY <2>1, <2>3, <2>4, NobodyStep
<1> QED BY <1>1, <1>2, <1>3, <1>4 DEF TryRecv

-----------------------------------------------------------------------------
(* close(): the goroutines of all live waiters are woken.                  *)

LEMMA Least ==
  ASSUME NEW T, T \subseteq Nat, T # {}
  PROVE  \E x \in T : \A y \in T : x <= y
<1>1. IsWellFoundedOn(OpToRel(<, Nat), Nat)
  BY NatLessThanWellFounded
<1>2. PICK x \in T : \A y \in T : ~(<<y, x>> \in OpToRel(<, Nat))
  BY <1>1, WFMin
<1>3. \A y \in T : ~(y < x)
  BY <1>2 DEF OpToRel
<1> QED BY <1>3

\* Close wakes the goroutines of W, the woken positions of q.
ClosesWith(g, c, q, W, sel) ==
  /\ StartOp(g) /\ KeepRunning /\ closed' = closed \union {c}
  /\ recvs' = [recvs EXCEPT ![c] = <<>>]
  /\ sends' = [sends EXCEPT ![c] = <<>>]
  /\ cancelled' = cancelled \union {TheOp(q[i]) : i \in sel}
  /\ winner' = [h \in Goroutine |->
                  IF \E i \in sel : q[i].g = h
                  THEN q[CHOOSE i \in sel : q[i].g = h].idx
                  ELSE winner[h]]
  /\ parked' = parked - Cardinality(W \ sel)
  /\ \E s \in [1..Cardinality(W) -> W] :
       /\ Enumerates(s, W)
       /\ ready' = ready \o [x \in 1..Cardinality(W) |-> q[s[x]].g]
  /\ pc' = [h \in Goroutine |-> IF \E i \in W : q[i].g = h THEN "ready" ELSE pc[h]]
  /\ buf' = buf /\ delivered' = delivered

\* The goroutines of G are woken in the order s, and their selects report that.
WakesAll(G, s) ==
  /\ WakesWaiters(G) /\ WakesGoroutines(G, s)
  /\ \A h \in Goroutine : h \notin G => winner'[h] = winner[h]
  /\ \A h \in G : op[h].kind = "select" => Happened(h)'

LEMMA CloseWakes ==
  ASSUME TypeOK, TypeOK', Placed, NEW g \in Goroutine, NEW c \in Chan, Close(g, c)
  PROVE  \E G, s : WakesAll(G, s)
<1> DEFINE waiters == recvs[c] \o sends[c]
           woken == Woken(waiters)
           wokenSelects == {i \in woken : waiters[i].kind = "select"}
<1>a. ClosesWith(g, c, waiters, woken, wokenSelects)
  BY DEF Close, ClosesWith
<1>0. PICK q, W, sel : /\ q = recvs[c] \o sends[c] /\ W = Woken(q)
                       /\ sel = {i \in W : q[i].kind = "select"}
                       /\ ClosesWith(g, c, q, W, sel)
  BY <1>a
<1> HIDE DEF waiters, woken, wokenSelects
<1>1. StartOp(g) /\ KeepRunning
  BY <1>0 DEF ClosesWith
<1>2. PICK m \in Nat, n \in Nat :
        /\ q \in Seq(Waiter) /\ DOMAIN q = 1..(m + n)
        /\ DOMAIN recvs[c] = 1..m /\ DOMAIN sends[c] = 1..n
        /\ m = Len(recvs[c]) /\ n = Len(sends[c]) /\ Len(q) = m + n
        /\ \A i \in 1..m : q[i] = recvs[c][i]
        /\ \A i \in 1..n : q[m + i] = sends[c][i]
  <2>1. recvs[c] \in Seq(Waiter) /\ sends[c] \in Seq(Waiter)
    BY DEF TypeOK
  <2>2. PICK m \in Nat, n \in Nat : m = Len(recvs[c]) /\ n = Len(sends[c])
    BY <2>1, LenProperties
  <2>3. DOMAIN recvs[c] = 1..m /\ DOMAIN sends[c] = 1..n
    BY <2>1, <2>2, LenProperties
  <2>4. /\ q \in Seq(Waiter) /\ Len(q) = m + n
        /\ \A i \in 1..(m + n) : q[i] = IF i <= m THEN recvs[c][i] ELSE sends[c][i - m]
    BY <1>0, <2>1, <2>2, ConcatProperties
  <2>5. DOMAIN q = 1..(m + n)
    BY <2>4, LenProperties
  <2>6. \A i \in 1..m : i \in 1..(m + n) /\ i <= m
    OBVIOUS
  <2>7. \A i \in 1..n : m + i \in 1..(m + n) /\ ~(m + i <= m) /\ (m + i) - m = i
    OBVIOUS
  <2>8. \A i \in 1..m : q[i] = recvs[c][i]
    BY <2>4, <2>6
  <2>9. \A i \in 1..n : q[m + i] = sends[c][i]
    BY <2>4, <2>7
  <2> QED BY <2>2, <2>3, <2>4, <2>5, <2>8, <2>9
<1>e. DOMAIN q = 1..(m + n)
  BY <1>2
<1>s. sel \subseteq W
  BY <1>0
<1>d. \A i \in DOMAIN q : i \in Nat /\ (i \in 1..m \/ \E j \in 1..n : i = m + j)
  <2>1. \A i \in 1..(m + n) : i \in Nat /\ (i \in 1..m \/ (i - m \in 1..n /\ i = m + (i - m)))
    OBVIOUS
  <2> QED BY <1>e, <2>1
<1>w. /\ W \subseteq DOMAIN q /\ IsFiniteSet(W)
      /\ \A i \in W : Live(q[i]) /\ \A j \in 1..(i - 1) : Live(q[j]) => TheOp(q[j]) # TheOp(q[i])
  BY <1>0, <1>2, WokenFacts DEF Woken
<1>3. PICK kr \in Case, ks \in Case :
        /\ kr = [dir |-> "recv", ch |-> c] /\ Queues[kr] = recvs[c] /\ Queues'[kr] = <<>>
        /\ ks = [dir |-> "send", ch |-> c] /\ Queues[ks] = sends[c] /\ Queues'[ks] = <<>>
  <2>1. recvs'[c] = <<>> /\ sends'[c] = <<>>
    BY <1>0 DEF TypeOK, ClosesWith
  <2> QED BY <2>1, CaseIs DEF Queues
<1>4. ASSUME NEW x \in Case, x # kr, x # ks PROVE Queues'[x] = Queues[x]
  <2>1. x.ch \in Chan /\ x.dir \in {"send", "recv"} /\ x = [dir |-> x.dir, ch |-> x.ch]
    BY DEF Case
  <2>2. x.ch # c
    BY <1>3, <1>4, <2>1
  <2> QED BY <1>0, <2>1, <2>2 DEF Queues, TypeOK, ClosesWith
\* A live position is one of a goroutine that waits on the channel.
<1>5. ASSUME NEW i \in DOMAIN q, Live(q[i])
      PROVE  \E k \in {kr, ks} : WaitsOn(q[i], k)
  <2>1. CASE i \in 1..m
    <3>1. i \in DOMAIN Queues[kr] /\ q[i] = Queues[kr][i]
      BY <1>2, <1>3, <2>1
    <3>2. WaitsOn(q[i], kr)
      BY <1>5, <3>1, WaiterFacts
    <3> QED BY <3>2
  <2>2. CASE \E j \in 1..n : i = m + j
    <3>1. PICK j \in 1..n : i = m + j
      BY <2>2
    <3>2. j \in DOMAIN Queues[ks] /\ q[i] = Queues[ks][j]
      BY <1>2, <1>3, <3>1
    <3>3. WaitsOn(q[i], ks)
      BY <1>5, <3>2, WaiterFacts
    <3> QED BY <3>3
  <2> QED BY <1>5, <1>d, <2>1, <2>2
<1>6. \A i \in W : /\ q[i].g \in Goroutine /\ pc[q[i].g] = "parked"
                   /\ TheOp(q[i]) = Current(q[i].g)
                   /\ i \in sel <=> op[q[i].g].kind = "select"
                   /\ i \in sel => \E k \in {kr, ks} : /\ q[i].idx \in DOMAIN op[q[i].g].cases
                                                      /\ op[q[i].g].cases[q[i].idx] = k
  <2> SUFFICES ASSUME NEW i \in W
               PROVE  /\ q[i].g \in Goroutine /\ pc[q[i].g] = "parked"
                      /\ TheOp(q[i]) = Current(q[i].g)
                      /\ i \in sel <=> op[q[i].g].kind = "select"
                      /\ i \in sel => \E k \in {kr, ks} : /\ q[i].idx \in DOMAIN op[q[i].g].cases
                                                         /\ op[q[i].g].cases[q[i].idx] = k
    OBVIOUS
  <2>1. PICK k \in {kr, ks} : WaitsOn(q[i], k)
    BY <1>5, <1>w
  <2> QED BY <1>0, <2>1 DEF WaitsOn
\* Each goroutine is woken once.
<1>7. \A i, j \in W : q[i].g = q[j].g => i = j
  <2>1. ASSUME NEW i \in W, NEW j \in W, i < j PROVE q[i].g # q[j].g
    <3>1. i \in 1..(j - 1)
      BY <1>d, <1>w, <2>1
    <3>2. TheOp(q[i]) # TheOp(q[j])
      BY <1>w, <3>1
    <3> QED BY <1>6, <3>2
  <2>2. \A i \in W : i \in Nat
    BY <1>d, <1>w
  <2> QED BY <2>1, <2>2
<1>8. PICK G : G = {q[i].g : i \in W}
  OBVIOUS
\* Every live waiter is one of a woken goroutine.
<1>9. ASSUME NEW i \in DOMAIN q, Live(q[i]) PROVE q[i].g \in G
  <2> DEFINE T == {j \in DOMAIN q : Live(q[j]) /\ TheOp(q[j]) = TheOp(q[i])}
  <2>1. T \subseteq Nat /\ i \in T
    BY <1>d, <1>9
  <2>2. PICK j \in T : \A x \in T : j <= x
    BY <2>1, Least
  <2>3. j \in W
    <3>1. j \in DOMAIN q /\ Live(q[j]) /\ TheOp(q[j]) = TheOp(q[i])
      BY <2>2
    <3>2. ASSUME NEW x \in 1..(j - 1), Live(q[x]), TheOp(q[x]) = TheOp(q[j]) PROVE FALSE
      <4>1. x \in DOMAIN q /\ x < j /\ x \in Nat /\ j \in Nat
        BY <1>e, <3>1, <3>2
      <4>2. x \in T
        BY <3>1, <3>2, <4>1
      <4> QED BY <2>2, <4>1, <4>2
    <3> QED BY <1>0, <3>1, <3>2 DEF Woken
  <2>4. q[j].g = q[i].g
    BY <2>2 DEF TheOp
  <2> QED BY <1>8, <2>3, <2>4
<1>10. WakesOnly(G, kr) /\ WakesOnly(G, ks)
  <2>1. recvs[c] \in Seq(Waiter) /\ sends[c] \in Seq(Waiter)
    BY DEF TypeOK
  <2>2. Popped(<<>>, recvs[c], m) /\ Popped(<<>>, sends[c], n)
    BY <1>2, <2>1, PoppedAll
  <2>3. \A i \in 1..m : Live(recvs[c][i]) => recvs[c][i].g \in G
    <3>1. \A i \in 1..m : i \in DOMAIN q
      BY <1>e
    <3> QED BY <1>2, <1>9, <3>1
  <2>4. \A i \in 1..n : Live(sends[c][i]) => sends[c][i].g \in G
    <3> SUFFICES ASSUME NEW i \in 1..n, Live(sends[c][i])
                 PROVE  sends[c][i].g \in G
      OBVIOUS
    <3>1. m + i \in DOMAIN q
      BY <1>e
    <3> QED BY <1>2, <1>9, <3>1
  <2> QED BY <1>2, <1>3, <2>2, <2>3, <2>4 DEF WakesOnly
<1>11. ASSUME NEW x \in Case PROVE WakesOnly(G, x)
  <2>1. CASE x # kr /\ x # ks
    <3>1. ASSUME NEW j \in DOMAIN Queues[x], Queues[x][j].kind = "plain", Queues[x][j].g \in G
          PROVE  FALSE
      <4>1. Live(Queues[x][j])
        BY <3>1 DEF Live, IsCancelled
      <4>2. WaitsOn(Queues[x][j], x)
        BY <4>1, WaiterFacts
      <4>3. PICK i \in W : q[i].g = Queues[x][j].g
        BY <1>8, <3>1
      <4>4. PICK k \in {kr, ks} : WaitsOn(q[i], k)
        BY <1>5, <1>w
      <4>5. op[q[i].g] = [kind |-> x.dir, cases |-> <<x>>] /\ op[q[i].g].kind # "select"
        BY <3>1, <4>2, <4>3 DEF WaitsOn
      <4>6. op[q[i].g] = [kind |-> k.dir, cases |-> <<k>>]
        BY <4>4, <4>5 DEF WaitsOn
      <4>7. x = k
        BY <4>5, <4>6
      <4> QED BY <2>1, <4>7
    <3>2. DeadDropped(Queues'[x], Queues[x])
      BY <1>4, <2>1 DEF DeadDropped
    <3> QED BY <3>1, <3>2, DropsDead
  <2> QED BY <1>10, <2>1
<1>12. G \subseteq Goroutine /\ \A h \in G : pc[h] = "parked"
  BY <1>6, <1>8
<1>13. pc' = [h \in Goroutine |-> IF h \in G THEN "ready" ELSE pc[h]]
  BY <1>0, <1>8 DEF ClosesWith
<1>14. cancelled' = cancelled \union {Current(h) : h \in {x \in G : op[x].kind = "select"}}
  <2>1. {TheOp(q[i]) : i \in sel} = {Current(h) : h \in {x \in G : op[x].kind = "select"}}
    <3>1. sel \subseteq W
      BY <1>s
    <3>2. \A i \in sel : TheOp(q[i]) \in {Current(h) : h \in {x \in G : op[x].kind = "select"}}
      BY <1>6, <1>8, <3>1
    <3>3. \A h \in G : op[h].kind = "select" => Current(h) \in {TheOp(q[i]) : i \in sel}
      BY <1>6, <1>8
    <3> QED BY <3>2, <3>3
  <2> QED BY <1>0, <2>1 DEF ClosesWith
<1>15. op' = op /\ running' = running
  BY <1>1 DEF KeepRunning
<1>16. WakesWaiters(G)
  <2>1. \A h \in G : pc'[h] = "ready"
    BY <1>12, <1>13
  <2>2. \A h \in Goroutine : h \notin G => pc'[h] = pc[h]
    BY <1>13
  <2> QED BY <1>1, <1>11, <1>12, <1>14, <1>15, <2>1, <2>2, StartFacts DEF WakesWaiters
<1>17. parked' = parked - Cardinality(Plain(G))
  <2> DEFINE f == [i \in W \ sel |-> q[i].g]
  <2>1. Plain(G) = {q[i].g : i \in W \ sel}
    BY <1>6, <1>8 DEF Plain
  <2>2. f \in Bijection(W \ sel, Plain(G))
    <3>1. f \in [W \ sel -> Plain(G)]
      BY <2>1
    <3>2. \A i, j \in W \ sel : f[i] = f[j] => i = j
      BY <1>7
    <3>3. \A h \in Plain(G) : \E i \in W \ sel : f[i] = h
      BY <2>1
    <3> HIDE DEF f
    <3>4. f \in Injection(W \ sel, Plain(G))
      BY <3>1, <3>2 DEF Injection, IsInjective
    <3>5. f \in Surjection(W \ sel, Plain(G))
      BY <3>1, <3>3 DEF Surjection
    <3> QED BY <3>4, <3>5 DEF Bijection
  <2>3. IsFiniteSet(W \ sel)
    BY <1>w, FS_Subset
  <2>4. Cardinality(Plain(G)) = Cardinality(W \ sel)
    BY <2>2, <2>3, FS_Bijection DEF ExistsBijection
  <2> QED BY <1>0, <2>4 DEF ClosesWith
<1>18. PICK s \in [1..Cardinality(W) -> W] :
         /\ Enumerates(s, W)
         /\ ready' = ready \o [x \in 1..Cardinality(W) |-> q[s[x]].g]
  BY <1>0 DEF ClosesWith
<1>19. PICK t : t = [x \in 1..Cardinality(W) |-> q[s[x]].g]
  OBVIOUS
<1>20. Lists(t, G)
  <2>0. Cardinality(W) \in Nat
    BY <1>w, FS_CardinalityType
  <2>1. t \in Seq(Goroutine) /\ DOMAIN t = 1..Cardinality(W)
    <3>1. t \in [1..Cardinality(W) -> Goroutine]
      BY <1>6, <1>19
    <3> QED BY <2>0, <3>1, SeqDef
  <2>2. \A i \in DOMAIN t : t[i] \in G
    BY <1>8, <1>19, <2>1
  <2>3. \A h \in G : \E i \in DOMAIN t : t[i] = h
    <3> SUFFICES ASSUME NEW h \in G PROVE \E i \in DOMAIN t : t[i] = h
      OBVIOUS
    <3>1. PICK i \in W : q[i].g = h
      BY <1>8
    <3>2. PICK x \in DOMAIN s : s[x] = i
      BY <1>18 DEF Enumerates
    <3> QED BY <1>19, <2>1, <3>1, <3>2
  <2>4. ASSUME NEW x \in DOMAIN t, NEW y \in DOMAIN t, t[x] = t[y] PROVE x = y
    <3>1. s[x] = s[y] /\ s[x] \in Nat
      BY <1>7, <1>18, <1>19, <1>d, <1>w, <2>1, <2>4
    <3>2. x \in DOMAIN s /\ y \in DOMAIN s /\ x \in Nat /\ y \in Nat
      BY <2>0, <2>1
    <3>3. ~(x < y) /\ ~(y < x)
      BY <1>18, <3>1, <3>2 DEF Enumerates
    <3> QED BY <3>2, <3>3
  <2> QED BY <2>1, <2>2, <2>3, <2>4 DEF Lists
<1>21. WakesGoroutines(G, t)
  BY <1>13, <1>15, <1>17, <1>18, <1>19, <1>20 DEF WakesGoroutines
<1>23. \A h \in Goroutine : h \notin G => winner'[h] = winner[h]
  <2>1. \A h \in Goroutine : h \notin G => ~\E i \in sel : q[i].g = h
    BY <1>0, <1>8
  <2> QED BY <1>0, <2>1 DEF ClosesWith
<1>24. ASSUME NEW h \in G, op[h].kind = "select" PROVE Happened(h)'
  <2> DEFINE i == CHOOSE i \in sel : q[i].g = h
  <2>1. \E j \in sel : q[j].g = h
    BY <1>6, <1>8, <1>24
  <2>2. i \in sel /\ q[i].g = h
    BY <2>1
  <2>3. winner'[h] = q[i].idx
    BY <1>0, <1>12, <2>1 DEF ClosesWith
  <2>4. PICK k \in {kr, ks} : q[i].idx \in DOMAIN op[h].cases /\ op[h].cases[q[i].idx] = k
    <3>1. i \in W
      BY <1>s, <2>2
    <3> QED BY <1>6, <2>2, <3>1
  <2>5. k.ch = c /\ c \in closed'
    <3>1. kr.ch = c /\ ks.ch = c
      BY <1>3
    <3> QED BY <1>0, <3>1 DEF ClosesWith
  <2> HIDE DEF i
  <2> QED BY <1>15, <2>3, <2>4, <2>5 DEF Happened
<1> QED BY <1>16, <1>21, <1>23, <1>24 DEF WakesAll

LEMMA CloseStep ==
  ASSUME TypeOK, TypeOK', Placed, NEW g \in Goroutine, NEW c \in Chan, Close(g, c)
  PROVE  Placed'
<1>1. PICK G, s : WakesAll(G, s)
  BY CloseWakes
<1>2. StartOp(g) /\ closed' = closed \union {c} /\ buf' = buf /\ delivered' = delivered
  BY DEF Close
<1>3. History
  BY <1>2, HistoryOf
<1>4. \A h \in Goroutine : pc[h] = "ready" => ops'[h] = ops[h]
  BY <1>2, StartFacts
<1> QED BY <1>1, <1>3, <1>4, WakeStep DEF WakesAll

-----------------------------------------------------------------------------
(* Suspending in a channel operation.                                      *)

\* The earlier cases of a select that were not ready leave only dead waiters out.
LEMMA TriedAreDead ==
  ASSUME TypeOK, NEW cs \in SelectCases, NEW n \in Nat, 1..n \subseteq DOMAIN cs,
         \A j \in 1..n : ~CaseReady(cs[j])
  PROVE  DeadCleaned(RecvsAfter(cs, n), recvs) /\ DeadCleaned(SendsAfter(cs, n), sends)
<1>1. RecvsAfter(cs, n) \in [Chan -> Seq(Waiter)] /\ SendsAfter(cs, n) \in [Chan -> Seq(Waiter)]
  BY TriedTypes
<1>2. ASSUME NEW d \in Chan, Tried(cs, n, "send", d) PROVE NoneLive(recvs[d])
  <2>1. PICK j \in 1..n : cs[j] = [dir |-> "send", ch |-> d]
    BY <1>2 DEF Tried
  <2>2. ~SendReady(d)
    BY <2>1 DEF CaseReady
  <2> QED BY <2>2 DEF SendReady
<1>3. ASSUME NEW d \in Chan, Tried(cs, n, "recv", d) PROVE NoneLive(sends[d])
  <2>1. PICK j \in 1..n : cs[j] = [dir |-> "recv", ch |-> d]
    BY <1>3 DEF Tried
  <2>2. ~RecvReady(d)
    BY <2>1 DEF CaseReady
  <2> QED BY <2>2 DEF RecvReady
<1>4. ASSUME NEW d \in Chan PROVE DeadDropped(RecvsAfter(cs, n)[d], recvs[d])
  BY <1>2 DEF RecvsAfter, DeadDropped
<1>5. ASSUME NEW d \in Chan PROVE DeadDropped(SendsAfter(cs, n)[d], sends[d])
  BY <1>3 DEF SendsAfter, DeadDropped
<1> QED BY <1>1, <1>4, <1>5 DEF DeadCleaned

\* The waiter w that goroutine g parks on queue k for the awaiter [kind, cases].
ParkedFor(w, g, kind, cases, k) ==
  /\ w \in Waiter /\ w.g = g /\ w.n = ops[g] + 1
  /\ w.kind = "select" => kind = "select" /\ w.idx \in DOMAIN cases /\ cases[w.idx] = k
  /\ w.kind # "select" => kind = k.dir /\ cases = <<k>>

Extends(g, kind, cases, k) ==
  \E b \in Seq(Waiter) :
    /\ DeadDropped(b, Queues[k])
    /\ \/ Queues'[k] = b
       \/ \E w \in Waiter : ParkedFor(w, g, kind, cases, k) /\ Queues'[k] = Append(b, w)

\* One queue, position by position: an old waiter, or the new one at the end.
LEMMA ExtendsFacts ==
  ASSUME TypeOK, NEW g, NEW kind, NEW cases, NEW k \in Case, Extends(g, kind, cases, k)
  PROVE  /\ \A i \in DOMAIN Queues'[k] :
              \/ i \in DOMAIN Queues[k] /\ Queues'[k][i] = Queues[k][i]
              \/ /\ ParkedFor(Queues'[k][i], g, kind, cases, k)
                 /\ \A j \in DOMAIN Queues'[k] :
                      j # i => j \in DOMAIN Queues[k] /\ Queues'[k][j] = Queues[k][j]
         /\ \A i \in DOMAIN Queues[k] :
              Live(Queues[k][i]) => i \in DOMAIN Queues'[k] /\ Queues'[k][i] = Queues[k][i]
<1>1. PICK b \in Seq(Waiter) :
        /\ DeadDropped(b, Queues[k])
        /\ \/ Queues'[k] = b
           \/ \E w \in Waiter : ParkedFor(w, g, kind, cases, k) /\ Queues'[k] = Append(b, w)
  BY DEF Extends
<1>2. PICK n \in Nat : n = Len(b) /\ DOMAIN b = 1..n
  BY LenProperties
<1>3. /\ \A i \in DOMAIN b : i \in DOMAIN Queues[k] /\ b[i] = Queues[k][i]
      /\ \A i \in DOMAIN Queues[k] : Live(Queues[k][i]) => i \in DOMAIN b /\ b[i] = Queues[k][i]
  BY <1>1 DEF DeadDropped, NoneLive
<1>4. CASE Queues'[k] = b
  BY <1>3, <1>4
<1>5. CASE \E w \in Waiter : ParkedFor(w, g, kind, cases, k) /\ Queues'[k] = Append(b, w)
  <2>1. PICK w \in Waiter : ParkedFor(w, g, kind, cases, k) /\ Queues'[k] = Append(b, w)
    BY <1>5
  <2>2. /\ DOMAIN Queues'[k] = 1..(n + 1) /\ Queues'[k][n + 1] = w
        /\ \A i \in 1..n : Queues'[k][i] = b[i]
    BY <1>2, <2>1, AppendProperties, LenProperties
  <2>3. \A i \in 1..(n + 1) : i = n + 1 \/ i \in 1..n
    OBVIOUS
  <2>4. \A i \in 1..n : i \in 1..(n + 1) /\ i # n + 1
    OBVIOUS
  <2>5. \A i \in DOMAIN Queues'[k] :
          i # n + 1 => i \in DOMAIN Queues[k] /\ Queues'[k][i] = Queues[k][i]
    BY <1>2, <1>3, <2>2, <2>3
  <2>6. \A i \in DOMAIN Queues[k] :
          Live(Queues[k][i]) => i \in DOMAIN Queues'[k] /\ Queues'[k][i] = Queues[k][i]
    BY <1>2, <1>3, <2>2, <2>4
  <2>7. ParkedFor(Queues'[k][n + 1], g, kind, cases, k)
    BY <2>1, <2>2
  <2> QED BY <2>5, <2>6, <2>7
<1> QED BY <1>1, <1>4, <1>5

\* g suspends in the awaiter [kind, cases] with a waiter for each case.
Parks(g, kind, cases) ==
  /\ StartOp(g) /\ Suspend(g, kind, cases)
  /\ UNCHANGED <<cancelled, winner, buf, closed, delivered>>
  /\ \A k \in Case : Extends(g, kind, cases, k)
  /\ \A j \in DOMAIN cases : \E i \in DOMAIN Queues'[cases[j]] :
       /\ ParkedFor(Queues'[cases[j]][i], g, kind, cases, cases[j])
       /\ Queues'[cases[j]][i].kind = "select" => Queues'[cases[j]][i].idx = j

LEMMA ParkStep ==
  ASSUME TypeOK, TypeOK', Placed, NEW g \in Goroutine,
         NEW kind \in {"send", "recv", "select"}, NEW cases \in Seq(Case), Parks(g, kind, cases)
  PROVE  Placed'
<1>1. /\ pc[g] = "running"
      /\ \A h \in Goroutine : h # g => ops'[h] = ops[h]
      /\ ops'[g] = ops[g] + 1
      /\ \A h \in Goroutine : ops[h] \in Nat /\ ops[h] <= ops'[h]
  BY StartFacts DEF Parks
<1>2. /\ running' = None /\ running = g /\ ready' = ready /\ parked' = parked + 1
      /\ op'[g] = [kind |-> kind, cases |-> cases] /\ pc'[g] = "parked"
      /\ \A h \in Goroutine : h # g => op'[h] = op[h] /\ pc'[h] = pc[h]
      /\ cancelled' = cancelled /\ winner' = winner /\ buf' = buf /\ closed' = closed
      /\ delivered' = delivered
  BY DEF Parks, Suspend, StartOp, TypeOK
<1>3. \A w : Live(w)' <=> Live(w)
  BY <1>2 DEF Live, IsCancelled, TheOp
<1>4. ASSUME NEW k \in Case, NEW i \in DOMAIN Queues[k], Live(Queues[k][i])
      PROVE  WaitsOn(Queues[k][i], k) /\ Queues[k][i].g # g
  <2>1. WaitsOn(Queues[k][i], k)
    BY <1>4, WaiterFacts
  <2> QED BY <1>1, <2>1 DEF WaitsOn
<1>5. \A k \in Case : Extends(g, kind, cases, k)
  BY DEF Parks
<1>6. LiveWait'
  <2> SUFFICES ASSUME NEW k \in Case, NEW i \in DOMAIN Queues'[k], Live(Queues[k][i])'
               PROVE  Waits(Queues[k][i], k)'
    BY DEF LiveWait
  <2>1. PICK w : w = Queues'[k][i]
    OBVIOUS
  <2>2. CASE i \in DOMAIN Queues[k] /\ w = Queues[k][i]
    <3>1. Live(w)
      BY <1>3, <2>1 DEF Live, IsCancelled, TheOp
    <3>2. WaitsOn(w, k) /\ w.g # g
      BY <1>4, <2>2, <3>1
    <3>3. Waits(w, k)
      BY <2>2, <3>1 DEF Placed, WaitPart, LiveWait
    <3>4. Waits(w, k)'
      BY <1>1, <1>2, <3>2, <3>3 DEF Waits, WaitsOn
    <3> QED BY <2>1, <3>4
  <2>3. CASE ParkedFor(w, g, kind, cases, k)
    <3>1. Waits(w, k)'
      BY <1>1, <1>2, <2>3 DEF Waits, ParkedFor
    <3> QED BY <2>1, <3>1
  <2> QED BY <1>5, <2>1, <2>2, <2>3, ExtendsFacts
<1>7. CasesWait'
  <2> SUFFICES ASSUME NEW h \in Goroutine, pc'[h] = "parked", NEW j \in DOMAIN op'[h].cases
               PROVE  \E i \in DOMAIN Queues'[op'[h].cases[j]] :
                        StandsFor(Queues[op[h].cases[j]][i], h, j)'
    BY DEF CasesWait
  <2>1. CASE h = g
    <3>1. op'[h].cases = cases
      BY <1>2, <2>1
    <3>2. PICK k \in Case : k = cases[j] /\ k = op'[h].cases[j]
      BY <3>1, ElementOfSeq, LenProperties
    <3>3. PICK i \in DOMAIN Queues'[k] :
            /\ ParkedFor(Queues'[k][i], g, kind, cases, k)
            /\ Queues'[k][i].kind = "select" => Queues'[k][i].idx = j
      BY <3>1, <3>2 DEF Parks
    <3>4. PICK w \in Waiter : w = Queues'[k][i]
      BY <3>3 DEF ParkedFor
    <3>5. Live(w)
      <4>1. ASSUME TheOp(w) \in cancelled PROVE FALSE
        <5>1. TheOp(w).g = g /\ TheOp(w).n = ops[g] + 1
          BY <3>3, <3>4 DEF ParkedFor, TheOp
        <5>2. TheOp(w).n <= ops[TheOp(w).g]
          BY <4>1 DEF Placed, WaitPart, CellsAreOld
        <5> QED BY <1>1, <5>1, <5>2
      <4> QED BY <4>1 DEF Live, IsCancelled
    <3>6. w.g = h /\ (w.kind = "select" => w.idx = j)
      BY <2>1, <3>3, <3>4 DEF ParkedFor
    <3>7. StandsFor(w, h, j)'
      BY <1>3, <3>5, <3>6 DEF StandsFor
    <3> QED BY <3>2, <3>4, <3>7
  <2>2. CASE h # g
    <3>1. pc[h] = "parked" /\ op'[h] = op[h]
      BY <1>2, <2>2
    <3>2. PICK k \in Case : k = op[h].cases[j] /\ k = op'[h].cases[j]
      BY <3>1, ElementOfSeq, LenProperties DEF TypeOK
    <3>3. PICK i \in DOMAIN Queues[k] : StandsFor(Queues[k][i], h, j)
      BY <3>1, <3>2 DEF Placed, WaitPart, CasesWait
    <3>4. i \in DOMAIN Queues'[k] /\ Queues'[k][i] = Queues[k][i]
      BY <1>5, <3>3, ExtendsFacts DEF StandsFor
    <3>5. PICK w : w = Queues[k][i] /\ w = Queues'[k][i]
      BY <3>4
    <3>6. StandsFor(w, h, j)'
      BY <1>3, <3>3, <3>5 DEF StandsFor
    <3> QED BY <3>2, <3>4, <3>5, <3>6
  <2> QED BY <2>1, <2>2
<1>8. OnlyWaiter'
  <2> SUFFICES ASSUME NEW k \in Case, NEW x \in DOMAIN Queues'[k], NEW y \in DOMAIN Queues'[k],
                      Live(Queues[k][x])', Live(Queues[k][y])',
                      Queues'[k][x].g = Queues'[k][y].g, x # y
               PROVE  FALSE
    BY DEF OnlyWaiter
  <2>1. Live(Queues'[k][x]) /\ Live(Queues'[k][y])
    BY <1>2 DEF Live, IsCancelled, TheOp
  <2>2. CASE /\ x \in DOMAIN Queues[k] /\ Queues'[k][x] = Queues[k][x]
             /\ y \in DOMAIN Queues[k] /\ Queues'[k][y] = Queues[k][y]
    BY <2>1, <2>2 DEF Placed, WaitPart, OnlyWaiter
  <2>3. ASSUME NEW i \in {x, y}, ParkedFor(Queues'[k][i], g, kind, cases, k),
               \A j \in DOMAIN Queues'[k] :
                 j # i => j \in DOMAIN Queues[k] /\ Queues'[k][j] = Queues[k][j]
        PROVE  FALSE
    <3>1. PICK j \in {x, y} : j # i
      OBVIOUS
    <3>2. j \in DOMAIN Queues[k] /\ Live(Queues[k][j]) /\ Queues[k][j].g = Queues'[k][i].g
      BY <2>1, <2>3, <3>1
    <3>3. Queues'[k][i].g = g
      BY <2>3 DEF ParkedFor
    <3> QED BY <1>4, <3>2, <3>3
  <2> QED BY <1>5, <2>2, <2>3, ExtendsFacts
<1>9. CellsAreOld'
  <2> SUFFICES ASSUME NEW o \in cancelled
               PROVE  o.n <= ops'[o.g] /\ (o = Current(o.g)' => pc'[o.g] # "parked")
    BY <1>2 DEF CellsAreOld
  <2>1. o.g \in Goroutine /\ o.n \in Nat
    <3>1. o.g \in Goroutine /\ o.n \in 0..MaxOps
      BY DEF TypeOK, Op, OpNo
    <3> QED BY <3>1, ChanSchedAssumption
  <2>2. o.n <= ops[o.g] /\ (o = Current(o.g) => pc[o.g] # "parked")
    BY DEF Placed, WaitPart, CellsAreOld
  <2>3. CASE o.g = g
    <3>1. o.n < ops'[o.g] /\ ops'[o.g] \in Nat
      BY <1>1, <2>1, <2>2, <2>3
    <3>2. o # Current(o.g)'
      BY <2>1, <3>1 DEF Current
    <3> QED BY <2>1, <3>1, <3>2
  <2>4. CASE o.g # g
    <3>1. ops'[o.g] = ops[o.g] /\ pc'[o.g] = pc[o.g]
      BY <1>1, <1>2, <2>1, <2>4
    <3> QED BY <2>2, <3>1 DEF Current
  <2> QED BY <2>3, <2>4
<1>10. OnePlace'
  <2>1. \A i \in DOMAIN ready : ready[i] # g
    BY <1>1 DEF Placed, OnePlace
  <2>2. \A i \in DOMAIN ready : ready[i] \in Goroutine
    <3>1. ready \in Seq(Goroutine)
      BY DEF TypeOK
    <3> QED BY <3>1, ElementOfSeq, LenProperties
  <2>3. \A h \in Goroutine : pc'[h] # "running"
    BY <1>2 DEF Placed, OnePlace
  <2>4. \A i \in DOMAIN ready' : pc'[ready'[i]] = "ready"
    BY <1>2, <2>1, <2>2 DEF Placed, OnePlace
  <2>5. \A i, j \in DOMAIN ready' : ready'[i] = ready'[j] => i = j
    BY <1>2 DEF Placed, OnePlace
  <2>6. \A h \in Goroutine : pc'[h] = "ready" => \E i \in DOMAIN ready' : ready'[i] = h
    BY <1>2 DEF Placed, OnePlace
  <2>7. \A h \in Goroutine : running' # h
    BY <1>2, ChanSchedAssumption
  <2> QED BY <2>3, <2>4, <2>5, <2>6, <2>7 DEF OnePlace
<1>11. AwaitersInUse'
  BY <1>2 DEF Placed, AwaitersInUse
<1>12. parked' = Cardinality(Suspended')
  <2>1. g \notin Suspended
    BY <1>1 DEF Suspended, Counted
  <2>2. Suspended' = Suspended \union {g}
    <3>1. \A h \in Goroutine : h \in Suspended' <=> h \in Suspended \/ h = g
      BY <1>2 DEF Suspended, Counted
    <3>2. Suspended \subseteq Goroutine /\ Suspended' \subseteq Goroutine
      BY DEF Suspended
    <3> QED BY <3>1, <3>2
  <2>3. Cardinality(Suspended \union {g}) = Cardinality(Suspended) + 1
    BY <2>1, SuspendedFinite, FS_AddElement
  <2> QED BY <1>2, <2>2, <2>3 DEF Placed
<1>13. WinnersHappened'
  <2> SUFFICES ASSUME NEW h \in Goroutine, pc'[h] = "ready", op'[h].kind = "select"
               PROVE  Happened(h)'
    BY DEF WinnersHappened
  <2>1. h # g
    BY <1>2
  <2>2. pc[h] = "ready" /\ op'[h] = op[h] /\ ops'[h] = ops[h] /\ winner'[h] = winner[h]
    BY <1>1, <1>2, <2>1
  <2>3. Happened(h)
    BY <2>2 DEF Placed, WinnersHappened
  <2>4. History
    BY <1>2, HistoryOf
  <2> QED BY <2>2, <2>3, <2>4, HappenedStays
<1> QED BY <1>6, <1>7, <1>8, <1>9, <1>10, <1>11, <1>12, <1>13 DEF Placed, WaitPart

\* The waiter of a plain operation on queue k0; another queue may have been emptied.
LEMMA PlainPark ==
  ASSUME TypeOK, NEW g \in Goroutine, StartOp(g), NEW k0 \in Case, NEW w,
         w = NewWaiter(g, "plain", 0),
         Queues'[k0] = Append(Queues[k0], w),
         \A x \in Case : x # k0 => DeadDropped(Queues'[x], Queues[x]),
         Suspend(g, k0.dir, <<k0>>), UNCHANGED <<cancelled, winner, buf, closed, delivered>>
  PROVE  Parks(g, k0.dir, <<k0>>)
<1>1. ParkedFor(w, g, k0.dir, <<k0>>, k0) /\ w.kind = "plain"
  BY NewTypes DEF ParkedFor, NewWaiter
<1>2. w \in Waiter
  BY <1>1 DEF ParkedFor
<1>3. Extends(g, k0.dir, <<k0>>, k0)
  <2>1. Queues[k0] \in Seq(Waiter) /\ DeadDropped(Queues[k0], Queues[k0])
    BY QueuesType DEF DeadDropped
  <2> QED BY <1>1, <1>2, <2>1 DEF Extends
<1>4. ASSUME NEW x \in Case, x # k0 PROVE Extends(g, k0.dir, <<k0>>, x)
  <2>1. DeadDropped(Queues'[x], Queues[x])
    BY <1>4
  <2>2. Queues'[x] \in Seq(Waiter)
    BY <2>1, QueuesType, EmptySeq DEF DeadDropped
  <2> QED BY <2>1, <2>2 DEF Extends
<1>5. \E i \in DOMAIN Queues'[k0] :
        /\ ParkedFor(Queues'[k0][i], g, k0.dir, <<k0>>, k0)
        /\ Queues'[k0][i].kind = "plain"
  <2>1. Queues[k0] \in Seq(Waiter) /\ Len(Queues[k0]) \in Nat
    BY QueuesType
  <2>2. /\ DOMAIN Queues'[k0] = 1..(Len(Queues[k0]) + 1)
        /\ Queues'[k0][Len(Queues[k0]) + 1] = w
    BY <1>2, <2>1, AppendProperties, LenProperties
  <2>3. Len(Queues[k0]) + 1 \in DOMAIN Queues'[k0]
    BY <2>1, <2>2
  <2> QED BY <1>1, <2>2, <2>3
<1>6. \A j \in DOMAIN <<k0>> : <<k0>>[j] = k0
  OBVIOUS
<1>7. \A k \in Case : Extends(g, k0.dir, <<k0>>, k)
  BY <1>3, <1>4
<1>8. \A j \in DOMAIN <<k0>> : \E i \in DOMAIN Queues'[<<k0>>[j]] :
       /\ ParkedFor(Queues'[<<k0>>[j]][i], g, k0.dir, <<k0>>, <<k0>>[j])
       /\ Queues'[<<k0>>[j]][i].kind = "select" => Queues'[<<k0>>[j]][i].idx = j
  BY <1>5, <1>6
<1> QED BY <1>7, <1>8 DEF Parks

LEMMA SendParks ==
  ASSUME TypeOK, NEW g \in Goroutine, NEW c \in Chan, SendPark(g, c)
  PROVE  Parks(g, "send", <<[dir |-> "send", ch |-> c]>>)
<1>1. /\ StartOp(g) /\ ~SendReady(c)
      /\ recvs' = [recvs EXCEPT ![c] = <<>>]
      /\ sends' = [sends EXCEPT ![c] = Append(@, NewWaiter(g, "plain", 0))]
      /\ Suspend(g, "send", <<[dir |-> "send", ch |-> c]>>)
      /\ UNCHANGED <<cancelled, winner, buf, closed, delivered>>
  BY DEF SendPark
<1>2. recvs \in [Chan -> Seq(Waiter)] /\ sends \in [Chan -> Seq(Waiter)]
  BY DEF TypeOK
<1>3. PICK k0 \in Case : k0 = [dir |-> "send", ch |-> c] /\ k0.dir = "send" /\ k0.ch = c
  BY CaseIs
<1>4. Queues'[k0] = Append(Queues[k0], NewWaiter(g, "plain", 0))
  BY <1>1, <1>2, <1>3 DEF Queues
<1>5. ASSUME NEW x \in Case, x # k0 PROVE DeadDropped(Queues'[x], Queues[x])
  <2>1. x.ch \in Chan /\ x.dir \in {"send", "recv"} /\ x = [dir |-> x.dir, ch |-> x.ch]
    BY DEF Case
  <2>2. CASE x.dir = "send"
    <3>1. x.ch # c
      BY <1>3, <1>5, <2>1, <2>2
    <3>2. Queues'[x] = Queues[x]
      BY <1>1, <1>2, <2>1, <2>2, <3>1 DEF Queues
    <3> QED BY <3>2 DEF DeadDropped
  <2>3. CASE x.dir = "recv"
    <3>1. Queues[x] = recvs[x.ch] /\ Queues'[x] = recvs'[x.ch]
      BY <2>3 DEF Queues
    <3>2. NoneLive(recvs[c])
      BY <1>1 DEF SendReady
    <3> QED BY <1>1, <1>2, <2>1, <3>1, <3>2 DEF DeadDropped
  <2> QED BY <2>1, <2>2, <2>3
<1>6. Parks(g, k0.dir, <<k0>>)
  BY <1>1, <1>3, <1>4, <1>5, PlainPark
<1> QED BY <1>3, <1>6

LEMMA SendParkStep ==
  ASSUME TypeOK, TypeOK', Placed, NEW g \in Goroutine, NEW c \in Chan, SendPark(g, c)
  PROVE  Placed'
<1>1. PICK k \in Case : k = [dir |-> "send", ch |-> c]
  BY CaseIs
<1>2. <<k>> \in Seq(Case)
  OBVIOUS
<1> QED BY <1>1, <1>2, SendParks, ParkStep

LEMMA RecvParks ==
  ASSUME TypeOK, NEW g \in Goroutine, NEW c \in Chan, RecvPark(g, c)
  PROVE  Parks(g, "recv", <<[dir |-> "recv", ch |-> c]>>)
<1>1. /\ StartOp(g) /\ ~RecvReady(c)
      /\ sends' = [sends EXCEPT ![c] = <<>>]
      /\ recvs' = [recvs EXCEPT ![c] = Append(@, NewWaiter(g, "plain", 0))]
      /\ Suspend(g, "recv", <<[dir |-> "recv", ch |-> c]>>)
      /\ UNCHANGED <<cancelled, winner, buf, closed, delivered>>
  BY DEF RecvPark
<1>2. recvs \in [Chan -> Seq(Waiter)] /\ sends \in [Chan -> Seq(Waiter)]
  BY DEF TypeOK
<1>3. PICK k0 \in Case : k0 = [dir |-> "recv", ch |-> c] /\ k0.dir = "recv" /\ k0.ch = c
  BY CaseIs
<1>4. Queues'[k0] = Append(Queues[k0], NewWaiter(g, "plain", 0))
  BY <1>1, <1>2, <1>3 DEF Queues
<1>5. ASSUME NEW x \in Case, x # k0 PROVE DeadDropped(Queues'[x], Queues[x])
  <2>1. x.ch \in Chan /\ x.dir \in {"send", "recv"} /\ x = [dir |-> x.dir, ch |-> x.ch]
    BY DEF Case
  <2>2. CASE x.dir = "recv"
    <3>1. x.ch # c
      BY <1>3, <1>5, <2>1, <2>2
    <3>2. Queues'[x] = Queues[x]
      BY <1>1, <1>2, <2>1, <2>2, <3>1 DEF Queues
    <3> QED BY <3>2 DEF DeadDropped
  <2>3. CASE x.dir = "send"
    <3>1. Queues[x] = sends[x.ch] /\ Queues'[x] = sends'[x.ch]
      BY <2>3 DEF Queues
    <3>2. NoneLive(sends[c])
      BY <1>1 DEF RecvReady
    <3> QED BY <1>1, <1>2, <2>1, <3>1, <3>2 DEF DeadDropped
  <2> QED BY <2>1, <2>2, <2>3
<1>6. Parks(g, k0.dir, <<k0>>)
  BY <1>1, <1>3, <1>4, <1>5, PlainPark
<1> QED BY <1>3, <1>6

LEMMA RecvParkStep ==
  ASSUME TypeOK, TypeOK', Placed, NEW g \in Goroutine, NEW c \in Chan, RecvPark(g, c)
  PROVE  Placed'
<1>1. PICK k \in Case : k = [dir |-> "recv", ch |-> c]
  BY CaseIs
<1>2. <<k>> \in Seq(Case)
  OBVIOUS
<1> QED BY <1>1, <1>2, RecvParks, ParkStep

LEMMA SelectParks ==
  ASSUME TypeOK, NEW g \in Goroutine, NEW cs \in SelectCases, SelectPark(g, cs)
  PROVE  Parks(g, "select", cs)
<1>1. /\ StartOp(g) /\ NoneReady(cs)
      /\ recvs' = [c \in Chan |-> RecvsAfter(cs, Len(cs))[c] \o ParkedCases(g, cs, "recv", c)]
      /\ sends' = [c \in Chan |-> SendsAfter(cs, Len(cs))[c] \o ParkedCases(g, cs, "send", c)]
      /\ Suspend(g, "select", cs)
      /\ UNCHANGED <<cancelled, winner, buf, closed, delivered>>
  BY DEF SelectPark
<1>2. cs \in Seq(Case) /\ \A i, j \in DOMAIN cs : cs[i] = cs[j] => i = j
  BY ChanSchedAssumption
<1>3. PICK n \in Nat : n = Len(cs) /\ DOMAIN cs = 1..n
  BY <1>2, LenProperties
<1>4. DeadCleaned(RecvsAfter(cs, n), recvs) /\ DeadCleaned(SendsAfter(cs, n), sends)
  <2>1. \A j \in 1..n : ~CaseReady(cs[j])
    BY <1>1, <1>3 DEF NoneReady
  <2> QED BY <1>3, <2>1, TriedAreDead
\* What is left of queue k, and what the select appends to it.
<1>5. ASSUME NEW k \in Case
      PROVE  \E b \in Seq(Waiter) : /\ DeadDropped(b, Queues[k])
                                   /\ Queues'[k] = b \o ParkedCases(g, cs, k.dir, k.ch)
  <2>1. k.ch \in Chan /\ k.dir \in {"send", "recv"}
    BY DEF Case
  <2>2. CASE k.dir = "recv"
    <3>1. Queues[k] = recvs[k.ch] /\ Queues'[k] = recvs'[k.ch]
      BY <2>2 DEF Queues
    <3>2. recvs'[k.ch] = RecvsAfter(cs, n)[k.ch] \o ParkedCases(g, cs, "recv", k.ch)
      BY <1>1, <1>3, <2>1
    <3>3. RecvsAfter(cs, n)[k.ch] \in Seq(Waiter) /\ DeadDropped(RecvsAfter(cs, n)[k.ch], recvs[k.ch])
      BY <1>4, <2>1 DEF DeadCleaned
    <3> QED BY <2>2, <3>1, <3>2, <3>3
  <2>3. CASE k.dir = "send"
    <3>1. Queues[k] = sends[k.ch] /\ Queues'[k] = sends'[k.ch]
      BY <2>3 DEF Queues
    <3>2. sends'[k.ch] = SendsAfter(cs, n)[k.ch] \o ParkedCases(g, cs, "send", k.ch)
      BY <1>1, <1>3, <2>1
    <3>3. SendsAfter(cs, n)[k.ch] \in Seq(Waiter) /\ DeadDropped(SendsAfter(cs, n)[k.ch], sends[k.ch])
      BY <1>4, <2>1 DEF DeadCleaned
    <3> QED BY <2>3, <3>1, <3>2, <3>3
  <2> QED BY <2>1, <2>2, <2>3
<1>6. ASSUME NEW k \in Case, ~\E i \in DOMAIN cs : cs[i] = k
      PROVE  ParkedCases(g, cs, k.dir, k.ch) = <<>>
  <2>1. k = [dir |-> k.dir, ch |-> k.ch]
    BY DEF Case
  <2> QED BY <1>3, <1>6, <2>1 DEF ParkedCases, Tried
<1>7. ASSUME NEW k \in Case, NEW i \in DOMAIN cs, cs[i] = k
      PROVE  /\ ParkedCases(g, cs, k.dir, k.ch) = <<NewWaiter(g, "select", i)>>
             /\ ParkedFor(NewWaiter(g, "select", i), g, "select", cs, k)
  <2>1. k = [dir |-> k.dir, ch |-> k.ch]
    BY DEF Case
  <2>2. Tried(cs, Len(cs), k.dir, k.ch)
    BY <1>3, <1>7, <2>1 DEF Tried
  <2>3. (CHOOSE x \in DOMAIN cs : cs[x] = [dir |-> k.dir, ch |-> k.ch]) = i
    BY <1>2, <1>7, <2>1
  <2>4. i \in Nat
    BY <1>3
  <2>5. NewWaiter(g, "select", i) \in Waiter
    BY <1>1, <2>4, NewTypes
  <2>6. ParkedFor(NewWaiter(g, "select", i), g, "select", cs, k)
    BY <1>7, <2>5 DEF ParkedFor, NewWaiter
  <2> QED BY <2>2, <2>3, <2>6 DEF ParkedCases
<1>8. ASSUME NEW k \in Case PROVE Extends(g, "select", cs, k)
  <2>1. PICK b \in Seq(Waiter) : /\ DeadDropped(b, Queues[k])
                                 /\ Queues'[k] = b \o ParkedCases(g, cs, k.dir, k.ch)
    BY <1>5
  <2>2. CASE ~\E i \in DOMAIN cs : cs[i] = k
    <3>1. Queues'[k] = b
      BY <1>6, <2>1, <2>2, ConcatEmptySeq
    <3> QED BY <2>1, <3>1 DEF Extends
  <2>3. CASE \E i \in DOMAIN cs : cs[i] = k
    <3>1. PICK i \in DOMAIN cs : cs[i] = k
      BY <2>3
    <3>2. PICK w \in Waiter : w = NewWaiter(g, "select", i) /\ ParkedFor(w, g, "select", cs, k)
      BY <1>7, <3>1 DEF ParkedFor
    <3>3. Queues'[k] = Append(b, w)
      BY <1>7, <2>1, <3>1, <3>2, AppendIsConcat
    <3> QED BY <2>1, <3>2, <3>3 DEF Extends
  <2> QED BY <2>2, <2>3
<1>9. ASSUME NEW j \in DOMAIN cs
      PROVE  \E i \in DOMAIN Queues'[cs[j]] :
               /\ ParkedFor(Queues'[cs[j]][i], g, "select", cs, cs[j])
               /\ Queues'[cs[j]][i].kind = "select" => Queues'[cs[j]][i].idx = j
  <2>1. PICK k \in Case : k = cs[j]
    BY <1>2, <1>3, ElementOfSeq
  <2>2. PICK b \in Seq(Waiter) : Queues'[k] = b \o ParkedCases(g, cs, k.dir, k.ch)
    BY <1>5
  <2>3. PICK w \in Waiter : w = NewWaiter(g, "select", j) /\ ParkedFor(w, g, "select", cs, k)
    BY <1>7, <2>1 DEF ParkedFor
  <2>4. Queues'[k] = Append(b, w)
    BY <1>7, <2>1, <2>2, <2>3, AppendIsConcat
  <2>5. PICK m \in Nat : m = Len(b)
    BY LenProperties
  <2>6. DOMAIN Queues'[k] = 1..(m + 1) /\ Queues'[k][m + 1] = w /\ m + 1 \in 1..(m + 1)
    BY <2>4, <2>5, AppendProperties, LenProperties
  <2>7. w.idx = j
    BY <2>3 DEF NewWaiter
  <2> QED BY <2>1, <2>3, <2>6, <2>7
<1> QED BY <1>1, <1>8, <1>9 DEF Parks

LEMMA SelectParkStep ==
  ASSUME TypeOK, TypeOK', Placed, NEW g \in Goroutine, NEW cs \in SelectCases, SelectPark(g, cs)
  PROVE  Placed'
  BY SelectParks, ParkStep, ChanSchedAssumption

LEMMA SelectNowStep ==
  ASSUME TypeOK, TypeOK', Placed, NEW g \in Goroutine, NEW cs \in SelectCases, SelectNow(g, cs)
  PROVE  Placed'
<1>1. PICK i \in DOMAIN cs :
        /\ FirstReady(cs, i)
        /\ \/ TrySend(cs[i].ch, NewOp(g), RecvsAfter(cs, i - 1), SendsAfter(cs, i - 1))
           \/ TryRecv(cs[i].ch, NewOp(g), RecvsAfter(cs, i - 1), SendsAfter(cs, i - 1))
  BY DEF SelectNow
<1>2. cs \in Seq(Case)
  BY ChanSchedAssumption
<1>3. DOMAIN cs = 1..Len(cs) /\ Len(cs) \in Nat /\ cs[i] \in Case
  BY <1>2, ElementOfSeq, LenProperties
<1>4. cs[i].ch \in Chan /\ StartOp(g) /\ KeepRunning /\ UNCHANGED closed
  BY <1>3 DEF Case, SelectNow
<1>5. i - 1 \in Nat /\ 1..(i - 1) \subseteq DOMAIN cs
  BY <1>3
<1>6. \A j \in 1..(i - 1) : ~CaseReady(cs[j])
  BY <1>1 DEF FirstReady
<1>7. DeadCleaned(RecvsAfter(cs, i - 1), recvs) /\ DeadCleaned(SendsAfter(cs, i - 1), sends)
  BY <1>5, <1>6, TriedAreDead
<1>8. NewOp(g) \in Op
  BY <1>4, NewTypes
<1>9. PICK c \in Chan, o \in Op :
        \E rq, sq : /\ DeadCleaned(rq, recvs) /\ DeadCleaned(sq, sends)
                    /\ TrySend(c, o, rq, sq) \/ TryRecv(c, o, rq, sq)
  BY <1>1, <1>4, <1>7, <1>8
<1>12. PICK rq, sq : /\ DeadCleaned(rq, recvs) /\ DeadCleaned(sq, sends)
                     /\ TrySend(c, o, rq, sq) \/ TryRecv(c, o, rq, sq)
  BY <1>9
<1>10. CASE TrySend(c, o, rq, sq)
  BY <1>4, <1>12, <1>10, TrySendStep
<1>11. CASE TryRecv(c, o, rq, sq)
  BY <1>4, <1>12, <1>11, TryRecvStep
<1> QED BY <1>12, <1>10, <1>11

LEMMA SelectDefaultStep ==
  ASSUME TypeOK, TypeOK', Placed, NEW g \in Goroutine, NEW cs \in SelectCases, SelectDefault(g, cs)
  PROVE  Placed'
<1>1. /\ StartOp(g) /\ NoneReady(cs) /\ KeepRunning
      /\ recvs' = RecvsAfter(cs, Len(cs)) /\ sends' = SendsAfter(cs, Len(cs))
      /\ UNCHANGED <<ready, parked, pc, cancelled, winner, buf, closed, delivered>>
  BY DEF SelectDefault
<1>2. cs \in Seq(Case)
  BY ChanSchedAssumption
<1>3. PICK n \in Nat : n = Len(cs) /\ DOMAIN cs = 1..n
  BY <1>2, LenProperties
<1>4. \A j \in 1..n : ~CaseReady(cs[j])
  BY <1>1, <1>3 DEF NoneReady
<1>5. DeadCleaned(recvs', recvs) /\ DeadCleaned(sends', sends)
  BY <1>1, <1>3, <1>4, TriedAreDead
<1>6. DeadCleaned(recvs, recvs) /\ DeadCleaned(sends, sends)
  BY SameQueues DEF TypeOK
<1>7. \A k \in Case : DeadDropped(Queues'[k], Queues[k])
  BY <1>5, <1>6, TakesNone
<1>8. History /\ CompleteNobody
  BY <1>1, HistoryOf DEF CompleteNobody
<1> QED BY <1>1, <1>7, <1>8, NobodyStep

-----------------------------------------------------------------------------
(* The loop, go statements and calls: the channels are not touched.        *)

LEMMA QuietWaits ==
  ASSUME TypeOK, TypeOK', WaitPart, UNCHANGED <<cancelled, recvs, sends>>,
         \A h \in Goroutine : pc'[h] = "parked" <=> pc[h] = "parked",
         \A h \in Goroutine : pc[h] = "parked" => ops'[h] = ops[h] /\ op'[h] = op[h],
         \A h \in Goroutine : ops[h] <= ops'[h]
  PROVE  WaitPart'
<1>1. \A k \in Case : Queues'[k] = Queues[k]
  BY DEF Queues
<1>2. \A k \in Case : WakesOnly({}, k)
  BY <1>1, DropsDead DEF DeadDropped
<1>3. WakesWaiters({})
  BY <1>2 DEF WakesWaiters
<1> QED BY <1>3, WakeWaits

\* h, which was not on the runqueue, goes to its back; if it ran, it stops.
LEMMA EnqueuedPlace ==
  ASSUME TypeOK, OnePlace, NEW h \in Goroutine, pc[h] # "ready",
         ready' = Append(ready, h), pc' = [pc EXCEPT ![h] = "ready"],
         running' = IF running = h THEN None ELSE running
  PROVE  OnePlace'
<1>1. ready \in Seq(Goroutine)
  BY DEF TypeOK
<1>2. PICK n \in Nat : /\ DOMAIN ready = 1..n /\ DOMAIN ready' = 1..(n + 1)
                       /\ ready'[n + 1] = h /\ \A i \in 1..n : ready'[i] = ready[i]
  BY <1>1, AppendProperties, LenProperties
<1>3. \A i \in 1..n : ready[i] \in Goroutine /\ ready[i] # h /\ pc[ready[i]] = "ready"
  BY <1>1, <1>2, ElementOfSeq, LenProperties DEF OnePlace
<1>4. pc'[h] = "ready" /\ \A x \in Goroutine : x # h => pc'[x] = pc[x]
  BY DEF TypeOK
<1>5. \A i \in 1..(n + 1) : i = n + 1 \/ i \in 1..n
  OBVIOUS
<1>6. \A i \in 1..n : i \in 1..(n + 1) /\ i # n + 1
  OBVIOUS
<1>7. \A i \in DOMAIN ready' : pc'[ready'[i]] = "ready"
  BY <1>2, <1>3, <1>4, <1>5
<1>8. ASSUME NEW i \in DOMAIN ready', NEW j \in DOMAIN ready', ready'[i] = ready'[j] PROVE i = j
  BY <1>2, <1>3, <1>5, <1>8 DEF OnePlace
<1>9. ASSUME NEW x \in Goroutine, pc'[x] = "ready" PROVE \E i \in DOMAIN ready' : ready'[i] = x
  <2>1. CASE x = h
    <3>1. n + 1 \in DOMAIN ready'
      BY <1>2
    <3> QED BY <1>2, <2>1, <3>1
  <2>2. CASE x # h
    <3>1. PICK i \in DOMAIN ready : ready[i] = x
      BY <1>4, <1>9, <2>2 DEF OnePlace
    <3> QED BY <1>2, <1>6, <3>1
  <2> QED BY <2>1, <2>2
<1>10. \A x \in Goroutine : pc'[x] = "running" <=> running' = x
  BY <1>4, ChanSchedAssumption DEF OnePlace
<1> QED BY <1>7, <1>8, <1>9, <1>10 DEF OnePlace

\* h becomes ready without having waited.
LEMMA EnqueueStep ==
  ASSUME TypeOK, TypeOK', Placed, NEW h \in Goroutine, pc[h] \in {"unborn", "running"},
         ready' = Append(ready, h), pc' = [pc EXCEPT ![h] = "ready"],
         running' = IF running = h THEN None ELSE running,
         op' = op, parked' = parked, Unscathed,
         \A x \in Goroutine : ops[x] <= ops'[x] /\ (x # h => ops'[x] = ops[x])
  PROVE  Placed'
<1>1. /\ cancelled' = cancelled /\ winner' = winner /\ recvs' = recvs /\ sends' = sends
      /\ buf' = buf /\ closed' = closed /\ delivered' = delivered
  BY DEF Unscathed, chanVars
<1>2. pc'[h] = "ready" /\ \A x \in Goroutine : x # h => pc'[x] = pc[x]
  BY DEF TypeOK
<1>3. op[h].kind = "none"
  BY DEF Placed, AwaitersInUse
<1>4. OnePlace'
  BY EnqueuedPlace DEF Placed
<1>5. WaitPart'
  BY <1>1, <1>2, QuietWaits DEF Placed
<1>6. AwaitersInUse'
  BY <1>2, <1>3 DEF Placed, AwaitersInUse
<1>7. Suspended' = Suspended
  <2>1. \A x \in Goroutine : x \in Suspended' <=> x \in Suspended
    BY <1>2, <1>3 DEF Suspended, Counted
  <2>2. Suspended \subseteq Goroutine /\ Suspended' \subseteq Goroutine
    BY DEF Suspended
  <2> QED BY <2>1, <2>2
<1>8. WinnersHappened'
  <2> SUFFICES ASSUME NEW x \in Goroutine, pc'[x] = "ready", op'[x].kind = "select"
               PROVE  Happened(x)'
    BY DEF WinnersHappened
  <2>1. x # h
    BY <1>3
  <2>2. Happened(x) /\ ops'[x] = ops[x]
    BY <1>2, <2>1 DEF Placed, WinnersHappened
  <2>3. History
    BY <1>1, HistoryOf
  <2> QED BY <1>1, <2>2, <2>3, HappenedStays
<1> QED BY <1>4, <1>5, <1>6, <1>7, <1>8 DEF Placed

LEMMA GoStep ==
  ASSUME TypeOK, TypeOK', Placed, NEW g \in Goroutine, NEW h \in Goroutine, Go(g, h)
  PROVE  Placed'
<1>1. /\ running = g /\ pc[h] = "unborn" /\ pc' = [pc EXCEPT ![h] = "ready"]
      /\ ready' = Append(ready, h) /\ running' = running /\ op' = op /\ parked' = parked
      /\ ops' = ops /\ Unscathed
  BY DEF Go, Enqueued, KeepRunning
<1>2. running # h
  BY <1>1 DEF Placed, OnePlace
<1>3. \A x \in Goroutine : ops[x] \in Nat
  <2>1. ops \in [Goroutine -> 0..MaxOps]
    BY DEF TypeOK, OpNo
  <2> QED BY <2>1, ChanSchedAssumption
<1>4. running' = IF running = h THEN None ELSE running
  BY <1>1, <1>2
<1>5. \A x \in Goroutine : ops[x] <= ops'[x] /\ (x # h => ops'[x] = ops[x])
  BY <1>1, <1>3
<1>6. pc[h] \in {"unborn", "running"}
  BY <1>1
<1> QED BY <1>1, <1>4, <1>5, <1>6, EnqueueStep

LEMMA CallTaskStep ==
  ASSUME TypeOK, TypeOK', Placed, NEW g \in Goroutine, CallTask(g)
  PROVE  Placed'
<1>1. /\ StartOp(g) /\ running = g /\ running' = None /\ pc' = [pc EXCEPT ![g] = "ready"]
      /\ ready' = Append(ready, g) /\ op' = op /\ parked' = parked /\ Unscathed
  BY DEF CallTask, Enqueued, StartOp
<1>2. /\ pc[g] = "running"
      /\ \A x \in Goroutine : ops[x] <= ops'[x] /\ (x # g => ops'[x] = ops[x])
  BY <1>1, StartFacts
<1> QED BY <1>1, <1>2, EnqueueStep

\* The running goroutine leaves, or nothing but its operation count changes.
LEMMA FinishStep ==
  ASSUME TypeOK, TypeOK', Placed, NEW g \in Goroutine, Finish(g)
  PROVE  Placed'
<1>1. /\ running = g /\ running' = None /\ pc' = [pc EXCEPT ![g] = "done"]
      /\ ready' = ready /\ op' = op /\ ops' = ops /\ parked' = parked
      /\ cancelled' = cancelled /\ winner' = winner /\ recvs' = recvs /\ sends' = sends
      /\ buf' = buf /\ closed' = closed /\ delivered' = delivered
  BY DEF Finish, Unscathed, chanVars, opVars
<1>2. pc[g] = "running" /\ op[g].kind = "none"
  BY <1>1 DEF Placed, OnePlace, AwaitersInUse
<1>3. pc'[g] = "done" /\ \A x \in Goroutine : x # g => pc'[x] = pc[x]
  BY <1>1 DEF TypeOK
<1>4. OnePlace'
  <2>1. \A i \in DOMAIN ready : ready[i] \in Goroutine /\ ready[i] # g
    <3>1. ready \in Seq(Goroutine)
      BY DEF TypeOK
    <3> QED BY <1>2, <3>1, ElementOfSeq, LenProperties DEF Placed, OnePlace
  <2>2. \A x \in Goroutine : pc'[x] = "running" <=> running' = x
    BY <1>1, <1>3, ChanSchedAssumption DEF Placed, OnePlace
  <2> QED BY <1>1, <1>3, <2>1, <2>2 DEF Placed, OnePlace
<1>5. WaitPart'
  <2>1. \A x \in Goroutine : ops[x] \in Nat
    <3>1. ops \in [Goroutine -> 0..MaxOps]
      BY DEF TypeOK, OpNo
    <3> QED BY <3>1, ChanSchedAssumption
  <2> QED BY <1>1, <1>2, <1>3, <2>1, QuietWaits DEF Placed
<1>6. AwaitersInUse'
  BY <1>1, <1>2, <1>3 DEF Placed, AwaitersInUse
<1>7. Suspended' = Suspended
  <2>1. \A x \in Goroutine : x \in Suspended' <=> x \in Suspended
    BY <1>1, <1>2, <1>3 DEF Suspended, Counted
  <2>2. Suspended \subseteq Goroutine /\ Suspended' \subseteq Goroutine
    BY DEF Suspended
  <2> QED BY <2>1, <2>2
<1>8. WinnersHappened'
  <2> SUFFICES ASSUME NEW x \in Goroutine, pc'[x] = "ready", op'[x].kind = "select"
               PROVE  Happened(x)'
    BY DEF WinnersHappened
  <2>1. Happened(x)
    BY <1>1, <1>3 DEF Placed, WinnersHappened
  <2>2. History
    BY <1>1, HistoryOf
  <2> QED BY <1>1, <2>1, <2>2, HappenedStays
<1> QED BY <1>1, <1>4, <1>5, <1>6, <1>7, <1>8 DEF Placed

LEMMA ResumeStep ==
  ASSUME TypeOK, TypeOK', Placed, Resume
  PROVE  Placed'
<1>1. ready \in Seq(Goroutine) /\ ready # <<>>
  BY DEF TypeOK, Resume
<1>2. PICK g \in Goroutine : g = Head(ready)
  BY <1>1, HeadTailProperties
<1>3. PICK n \in Nat : /\ DOMAIN ready = 1..(n + 1) /\ ready[1] = g
                       /\ DOMAIN Tail(ready) = 1..n
                       /\ \A i \in 1..n : Tail(ready)[i] = ready[i + 1]
  <2>1. /\ Len(ready) \in Nat \ {0} /\ Tail(ready) \in Seq(Goroutine)
        /\ Len(Tail(ready)) = Len(ready) - 1 /\ g = ready[1]
        /\ \A i \in 1..(Len(ready) - 1) : Tail(ready)[i] = ready[i + 1]
    BY <1>1, <1>2, HeadTailProperties, LenProperties, EmptySeq
  <2>2. PICK n \in Nat : n = Len(ready) - 1 /\ Len(ready) = n + 1
    <3>1. Len(ready) - 1 \in Nat /\ Len(ready) = (Len(ready) - 1) + 1
      BY <2>1
    <3> QED BY <3>1
  <2> QED BY <1>1, <2>1, <2>2, LenProperties
<1>4. /\ running = None /\ ready' = Tail(ready) /\ running' = g
      /\ pc' = [pc EXCEPT ![g] = "running"]
      /\ parked' = IF op[g].kind = "select" THEN parked - 1 ELSE parked
      /\ op' = [op EXCEPT ![g] = NoOp]
      /\ winner' = [winner EXCEPT ![g] = 0]
      /\ ops' = ops /\ cancelled' = cancelled /\ recvs' = recvs /\ sends' = sends
      /\ buf' = buf /\ closed' = closed /\ delivered' = delivered
  BY <1>2 DEF Resume, chanVars
<1>5. /\ pc'[g] = "running" /\ op'[g] = NoOp
      /\ \A x \in Goroutine : x # g => pc'[x] = pc[x] /\ op'[x] = op[x] /\ winner'[x] = winner[x]
  BY <1>4 DEF TypeOK
<1>6. pc[g] = "ready"
  <2>1. 1 \in DOMAIN ready
    BY <1>3
  <2> QED BY <1>3, <2>1 DEF Placed, OnePlace
<1>7. NoOp.kind = "none"
  BY DEF NoOp
<1>8. OnePlace'
  <2>1. \A i \in 1..n : i + 1 \in DOMAIN ready /\ i + 1 # 1
    BY <1>3
  <2>2. \A i \in 1..n : ready[i + 1] # g /\ ready[i + 1] \in Goroutine
    <3>1. \A i \in 1..n : ready[i + 1] # g
      <4>1. 1 \in DOMAIN ready
        BY <1>3
      <4> QED BY <1>3, <2>1, <4>1 DEF Placed, OnePlace
    <3>2. \A i \in DOMAIN ready : ready[i] \in Goroutine
      BY <1>1, ElementOfSeq, LenProperties
    <3> QED BY <2>1, <3>1, <3>2
  <2>3. \A i \in DOMAIN ready' : pc'[ready'[i]] = "ready"
    BY <1>3, <1>4, <1>5, <2>1, <2>2 DEF Placed, OnePlace
  <2>4. ASSUME NEW i \in DOMAIN ready', NEW j \in DOMAIN ready', ready'[i] = ready'[j] PROVE i = j
    <3>1. i \in 1..n /\ j \in 1..n /\ ready[i + 1] = ready[j + 1]
      BY <1>3, <1>4, <2>4
    <3>2. i + 1 = j + 1
      BY <2>1, <3>1 DEF Placed, OnePlace
    <3> QED BY <3>1, <3>2
  <2>5. ASSUME NEW x \in Goroutine, pc'[x] = "ready" PROVE \E i \in DOMAIN ready' : ready'[i] = x
    <3>1. x # g /\ pc[x] = "ready"
      BY <1>5, <2>5
    <3>2. PICK i \in DOMAIN ready : ready[i] = x
      BY <3>1 DEF Placed, OnePlace
    <3>3. i \in 1..(n + 1) /\ i # 1
      BY <1>3, <3>1, <3>2
    <3>4. i - 1 \in 1..n /\ (i - 1) + 1 = i
      BY <3>3
    <3> QED BY <1>3, <1>4, <3>2, <3>4
  <2>6. \A x \in Goroutine : pc'[x] = "running" <=> running' = x
    <3>1. \A x \in Goroutine : pc[x] # "running"
      BY <1>4, ChanSchedAssumption DEF Placed, OnePlace
    <3> QED BY <1>4, <1>5, <3>1
  <2> QED BY <2>3, <2>4, <2>5, <2>6 DEF OnePlace
<1>9. WaitPart'
  <2>1. \A x \in Goroutine : ops[x] \in Nat
    <3>1. ops \in [Goroutine -> 0..MaxOps]
      BY DEF TypeOK, OpNo
    <3> QED BY <3>1, ChanSchedAssumption
  <2> QED BY <1>4, <1>5, <1>6, <2>1, QuietWaits DEF Placed
<1>10. AwaitersInUse'
  BY <1>5, <1>7 DEF Placed, AwaitersInUse
<1>11. parked' = Cardinality(Suspended')
  <2>1. Suspended' = Suspended \ {g}
    <3>1. \A x \in Goroutine : x \in Suspended' <=> x \in Suspended /\ x # g
      BY <1>5, <1>7 DEF Suspended, Counted
    <3>2. Suspended \subseteq Goroutine /\ Suspended' \subseteq Goroutine
      BY DEF Suspended
    <3> QED BY <3>1, <3>2
  <2>2. g \in Suspended <=> op[g].kind = "select"
    BY <1>6 DEF Suspended, Counted
  <2>3. Cardinality(Suspended \ {g}) = IF g \in Suspended THEN Cardinality(Suspended) - 1
                                                         ELSE Cardinality(Suspended)
    BY SuspendedFinite, FS_RemoveElement
  <2> QED BY <1>4, <2>1, <2>2, <2>3 DEF Placed
<1>12. WinnersHappened'
  <2> SUFFICES ASSUME NEW x \in Goroutine, pc'[x] = "ready", op'[x].kind = "select"
               PROVE  Happened(x)'
    BY DEF WinnersHappened
  <2>1. x # g
    BY <1>5
  <2>2. Happened(x) /\ op'[x] = op[x] /\ winner'[x] = winner[x] /\ ops'[x] = ops[x]
    BY <1>4, <1>5, <2>1 DEF Placed, WinnersHappened
  <2>3. History
    BY <1>4, HistoryOf
  <2> QED BY <2>2, <2>3, HappenedStays
<1> QED BY <1>8, <1>9, <1>10, <1>11, <1>12 DEF Placed

\* The verdict, or a panic outside a bridge: at most the operation of the running
\* goroutine has been counted.
LEMMA QuietStep ==
  ASSUME TypeOK, TypeOK', Placed,
         UNCHANGED <<ready, parked, running, pc, op, cancelled, winner, chanVars, delivered>>,
         \A x \in Goroutine : ops[x] <= ops'[x],
         \A x \in Goroutine : pc[x] # "running" => ops'[x] = ops[x]
  PROVE  Placed'
<1>1. /\ ready' = ready /\ parked' = parked /\ running' = running /\ pc' = pc /\ op' = op
      /\ cancelled' = cancelled /\ winner' = winner /\ recvs' = recvs /\ sends' = sends
      /\ buf' = buf /\ closed' = closed /\ delivered' = delivered
  BY DEF chanVars
<1>2. WaitPart'
  BY <1>1, QuietWaits DEF Placed
<1>3. Suspended' = Suspended
  BY <1>1 DEF Suspended, Counted
<1>4. WinnersHappened'
  <2> SUFFICES ASSUME NEW x \in Goroutine, pc'[x] = "ready", op'[x].kind = "select"
               PROVE  Happened(x)'
    BY DEF WinnersHappened
  <2>1. Happened(x) /\ ops'[x] = ops[x]
    BY <1>1 DEF Placed, WinnersHappened
  <2>2. History
    BY <1>1, HistoryOf
  <2> QED BY <1>1, <2>1, <2>2, HappenedStays
<1> QED BY <1>1, <1>2, <1>3, <1>4 DEF Placed, OnePlace, AwaitersInUse

LEMMA AbortStep ==
  ASSUME TypeOK, TypeOK', Placed, NEW g \in Goroutine, StartOp(g), NEW why, Abort(why)
  PROVE  Placed'
  BY StartFacts, QuietStep DEF Abort

LEMMA OpsSame ==
  ASSUME TypeOK, ops' = ops
  PROVE  \A x \in Goroutine : ops[x] <= ops'[x] /\ ops'[x] = ops[x]
<1>1. ops \in [Goroutine -> 0..MaxOps]
  BY DEF TypeOK, OpNo
<1> QED BY <1>1, ChanSchedAssumption

LEMMA ChanPlaced ==
  ASSUME TypeOK, TypeOK', Placed, NEW g \in Goroutine, NEW c \in Chan, ChanStep(g, c)
  PROVE  Placed'
<1>0. /\ DeadCleaned(recvs, recvs) /\ DeadCleaned(sends, sends)
      /\ StartOp(g) => NewOp(g) \in Op
  BY SameQueues, NewTypes DEF TypeOK
<1>1. CASE SendNow(g, c)
  BY <1>0, <1>1, TrySendStep DEF SendNow
<1>2. CASE RecvNow(g, c)
  BY <1>0, <1>2, TryRecvStep DEF RecvNow
<1>3. CASE SendPark(g, c) \/ RecvPark(g, c)
  BY <1>3, SendParkStep, RecvParkStep
<1>4. CASE Close(g, c)
  BY <1>4, CloseStep
<1>5. CASE SendOnClosed(g, c) \/ CloseOfClosed(g, c)
  BY <1>5, AbortStep DEF SendOnClosed, CloseOfClosed
<1> QED BY <1>1, <1>2, <1>3, <1>4, <1>5 DEF ChanStep

LEMMA SelectPlaced ==
  ASSUME TypeOK, TypeOK', Placed, NEW g \in Goroutine, NEW cs \in SelectCases, SelectStep(g, cs)
  PROVE  Placed'
<1>1. CASE SelectOnClosed(g, cs)
  BY <1>1, AbortStep DEF SelectOnClosed
<1> QED BY <1>1, SelectNowStep, SelectDefaultStep, SelectParkStep DEF SelectStep

LEMMA PlacedStep == TypeOK /\ TypeOK' /\ Placed /\ [Next]_vars => Placed'
<1> SUFFICES ASSUME TypeOK, TypeOK', Placed, [Next]_vars PROVE Placed'
  OBVIOUS
<1>1. ASSUME NEW g \in Goroutine, NEW c \in Chan, ChanStep(g, c) PROVE Placed'
  BY <1>1, ChanPlaced
<1>2. ASSUME NEW g \in Goroutine, NEW cs \in SelectCases, SelectStep(g, cs) PROVE Placed'
  BY <1>2, SelectPlaced
<1>3. ASSUME NEW g \in Goroutine, (\E h \in Goroutine : Go(g, h)) \/ CallTask(g) \/ Finish(g)
      PROVE  Placed'
  BY <1>3, GoStep, CallTaskStep, FinishStep
<1>4. CASE Resume
  BY <1>4, ResumeStep
<1>5. CASE ResumeOnClosed \/ Drained \/ Halted \/ UNCHANGED vars
  <2>1. /\ UNCHANGED <<ready, parked, running, pc, op, cancelled, winner, chanVars, delivered>>
        /\ ops' = ops
    BY <1>5 DEF ResumeOnClosed, Abort, Drained, Unscathed, opVars, Halted, vars, schedVars
  <2> QED BY <2>1, OpsSame, QuietStep
<1> QED BY <1>1, <1>2, <1>3, <1>4, <1>5 DEF Next

LEMMA PlacedInit == Init => Placed
<1> SUFFICES ASSUME Init PROVE Placed
  OBVIOUS
<1>1. /\ ready = <<Main>> /\ parked = 0 /\ running = None /\ cancelled = {}
      /\ \A g \in Goroutine : /\ pc[g] = IF g = Main THEN "ready" ELSE "unborn"
                              /\ op[g] = NoOp
      /\ \A k \in Case : Queues[k] = <<>>
  BY DEF Init, Queues, Case
<1>2. OnePlace
  <2>1. /\ \A i \in DOMAIN <<Main>> : <<Main>>[i] = Main
        /\ \A i, j \in DOMAIN <<Main>> : i = j
        /\ 1 \in DOMAIN <<Main>>
    OBVIOUS
  <2>2. \A g \in Goroutine : pc[g] # "running" /\ running # g
    BY <1>1, ChanSchedAssumption
  <2>3. pc[Main] = "ready"
    BY <1>1, ChanSchedAssumption
  <2>4. \A g \in Goroutine : pc[g] = "ready" => g = Main
    BY <1>1
  <2>5. /\ \A i \in DOMAIN ready : pc[ready[i]] = "ready"
        /\ \A i, j \in DOMAIN ready : ready[i] = ready[j] => i = j
    BY <1>1, <2>1, <2>3
  <2>6. \A g \in Goroutine : pc[g] = "ready" => \E i \in DOMAIN ready : ready[i] = g
    BY <1>1, <2>1, <2>4
  <2> QED BY <2>2, <2>5, <2>6 DEF OnePlace
<1>3. \A g \in Goroutine : pc[g] # "parked" /\ op[g].kind = "none"
  BY <1>1 DEF NoOp
<1>4. WaitPart
  <2>1. \A k \in Case : DOMAIN Queues[k] = {}
    BY <1>1
  <2> QED BY <1>1, <1>3, <2>1 DEF WaitPart, LiveWait, CasesWait, OnlyWaiter, CellsAreOld
<1>5. Suspended = {}
  BY <1>3 DEF Suspended, Counted
<1>6. Cardinality({}) = 0
  BY FS_EmptySet
<1>7. AwaitersInUse /\ WinnersHappened
  BY <1>3 DEF AwaitersInUse, WinnersHappened
<1> QED BY <1>1, <1>2, <1>4, <1>5, <1>6, <1>7 DEF Placed

LEMMA PlacedAlways == Spec => [](TypeOK /\ Placed)
<1>1. TypeOK /\ Placed /\ TypeOK' /\ [Next]_vars => Placed'
  BY PlacedStep
<1> QED BY <1>1, PlacedInit, TypeCorrect, PTL DEF Spec

\* The runqueue, the waiter deques, the cells of selects, the parked counter and
\* the winners agree: in every execution each goroutine is in one place, whoever
\* is parked has a live waiter for every case, a completion never reaches an
\* awaiter that is gone, and a select reports what happened.
THEOREM WaitersAgree == Spec => []WaitersConsistent
<1>1. TypeOK /\ Placed => WaitersConsistent
  BY PlacedIsConsistent
<1> QED BY <1>1, PlacedAlways, PTL

-----------------------------------------------------------------------------
(* The verdict of run().                                                   *)

\* What the loop saw when it ended still holds, as nothing runs any more.
VerdictSeen ==
  halt \in {"exit", "deadlock"} =>
    /\ ready = <<>> /\ running = None
    /\ halt = "deadlock" <=> parked > 0

LEMMA VerdictStep == VerdictSeen /\ [Next]_vars => VerdictSeen'
<1> SUFFICES ASSUME VerdictSeen, [Next]_vars, halt' \in {"exit", "deadlock"} PROVE VerdictSeen'
  BY DEF VerdictSeen
<1>1. CASE Drained
  BY <1>1 DEF Drained, Verdict, VerdictSeen
<1>2. CASE Halted \/ UNCHANGED vars
  BY <1>2 DEF Halted, vars, schedVars, VerdictSeen
<1>4. ASSUME NEW g \in Goroutine, NEW c \in Chan, ChanStep(g, c) PROVE VerdictSeen'
  BY <1>4 DEF ChanStep, SendNow, SendPark, SendOnClosed, RecvNow, RecvPark, Close, CloseOfClosed,
              StartOp, KeepRunning, Suspend, Abort
<1>5. ASSUME NEW g \in Goroutine, NEW cs \in SelectCases, SelectStep(g, cs) PROVE VerdictSeen'
  BY <1>5 DEF SelectStep, SelectNow, SelectOnClosed, SelectDefault, SelectPark,
              StartOp, KeepRunning, Suspend, Abort
<1>6. ASSUME NEW g \in Goroutine, (\E h \in Goroutine : Go(g, h)) \/ CallTask(g) \/ Finish(g)
      PROVE  VerdictSeen'
  BY <1>6 DEF Go, CallTask, Finish, StartOp, KeepRunning
<1>7. CASE Resume \/ ResumeOnClosed
  BY <1>7 DEF Resume, ResumeOnClosed, Abort
<1> QED BY <1>1, <1>2, <1>4, <1>5, <1>6, <1>7 DEF Next

LEMMA VerdictIsRight ==
  ASSUME TypeOK, Placed, NoMissedRendezvous, VerdictSeen
  PROVE  DeadlockVerdict
<1>1. ASSUME halt \in {"exit", "deadlock"}
      PROVE  /\ \A g \in Goroutine : pc[g] \notin {"ready", "running"}
             /\ halt = "deadlock" <=> parked > 0
  BY <1>1, ChanSchedAssumption DEF VerdictSeen, Placed, OnePlace
<1>2. ASSUME halt = "exit", NEW g \in Goroutine PROVE pc[g] \in {"unborn", "done"}
  <2>1. Cardinality(Suspended) = 0
    <3>1. Cardinality(Suspended) \in Nat
      BY SuspendedFinite, FS_CardinalityType
    <3> QED BY <1>1, <1>2, <3>1 DEF Placed
  <2>2. Suspended = {}
    BY <2>1, SuspendedFinite, FS_EmptySet
  <2>3. pc[g] # "parked"
    BY <2>2 DEF Suspended, Counted
  <2> QED BY <1>1, <1>2, <2>3 DEF TypeOK
<1>3. ASSUME halt = "deadlock" PROVE \E g \in Goroutine : pc[g] = "parked"
  <2>1. Suspended # {}
    <3>1. Cardinality({}) = 0
      BY FS_EmptySet
    <3> QED BY <1>1, <1>3, <3>1 DEF Placed
  <2> QED BY <1>1, <1>3, <2>1 DEF Suspended, Counted
<1>4. ASSUME NEW g \in Goroutine, NEW h \in Goroutine, NEW c \in Chan,
             pc[g] = "parked", [dir |-> "recv", ch |-> c] \in {op[g].cases[k] : k \in DOMAIN op[g].cases},
             pc[h] = "parked", [dir |-> "send", ch |-> c] \in {op[h].cases[k] : k \in DOMAIN op[h].cases}
      PROVE  g = h
  <2>1. PICK kr \in Case : kr = [dir |-> "recv", ch |-> c] /\ Queues[kr] = recvs[c]
    BY CaseIs DEF Queues
  <2>2. PICK ks \in Case : ks = [dir |-> "send", ch |-> c] /\ Queues[ks] = sends[c]
    BY CaseIs DEF Queues
  <2>3. PICK x \in DOMAIN op[g].cases : op[g].cases[x] = kr
    BY <1>4, <2>1
  <2>4. PICK y \in DOMAIN op[h].cases : op[h].cases[y] = ks
    BY <1>4, <2>2
  <2>5. PICK i \in DOMAIN recvs[c] : Live(recvs[c][i]) /\ recvs[c][i].g = g
    BY <1>4, <2>1, <2>3 DEF Placed, WaitPart, CasesWait, StandsFor
  <2>6. PICK j \in DOMAIN sends[c] : Live(sends[c][j]) /\ sends[c][j].g = h
    BY <1>4, <2>2, <2>4 DEF Placed, WaitPart, CasesWait, StandsFor
  <2> QED BY <2>5, <2>6 DEF NoMissedRendezvous
<1> QED BY <1>2, <1>3, <1>4 DEF DeadlockVerdict

\* run() returns only when every goroutine has finished, and whenever it reports a
\* deadlock some goroutine is parked and no two parked ones could communicate.
THEOREM VerdictCorrect == Spec => []DeadlockVerdict
<1>1. Init => VerdictSeen
  BY DEF Init, VerdictSeen
<1>2. TypeOK /\ Placed /\ NoMissedRendezvous /\ VerdictSeen => DeadlockVerdict
  BY VerdictIsRight
<1> QED BY <1>1, <1>2, VerdictStep, PlacedAlways, NoCommunicationMissed, PTL DEF Spec

-----------------------------------------------------------------------------
(* Every channel implements GoChannel, step by step.                       *)
(*                                                                         *)
(* A channel's deques keep the waiters of selects that took another case,  *)
(* so the abstract queues are what is left of them when those are taken    *)
(* out, in their order.  What follows is about such selections first:      *)
(* there is one increasing enumeration of a set of positions.  Then come   *)
(* what the kinds of steps distinguished above (goroutines are woken, or   *)
(* one parks) do to the selections, and a name of GoChannel for each step. *)

-----------------------------------------------------------------------------
(* Enumerations of positions.                                              *)

Ordered(e, n, W) == n \in Nat /\ e \in [1..n -> W] /\ Enumerates(e, W)

\* Two enumerations of the same positions agree as far as both go.
LEMMA OrderedAgree ==
  ASSUME NEW W \in SUBSET Nat, NEW n, NEW e, NEW m, NEW f, Ordered(e, n, W), Ordered(f, m, W)
  PROVE  \A k \in 1..n : k \in 1..m => e[k] = f[k]
<1>1. /\ n \in Nat /\ m \in Nat /\ DOMAIN e = 1..n /\ DOMAIN f = 1..m
      /\ \A k \in 1..n : e[k] \in W /\ e[k] \in Nat
      /\ \A k \in 1..m : f[k] \in W /\ f[k] \in Nat
      /\ \A i \in W : (\E k \in 1..n : e[k] = i) /\ (\E k \in 1..m : f[k] = i)
      /\ \A j, k \in 1..n : j < k => e[j] < e[k]
      /\ \A j, k \in 1..m : j < k => f[j] < f[k]
  BY DEF Ordered, Enumerates
<1> DEFINE T == {k \in 1..n : k \in 1..m /\ e[k] # f[k]}
<1>2. SUFFICES ASSUME T # {} PROVE FALSE
  OBVIOUS
<1>3. PICK k \in T : \A j \in T : k <= j
  <2>1. T \subseteq Nat
    OBVIOUS
  <2> HIDE DEF T
  <2> QED BY <1>2, <2>1, Least
<1>4. k \in 1..n /\ k \in 1..m /\ k \in Nat /\ e[k] # f[k]
  BY <1>1, <1>3
<1>5. \A j \in Nat : j < k /\ j >= 1 => e[j] = f[j]
  BY <1>1, <1>3, <1>4
<1> HIDE DEF T
<1>6. CASE e[k] < f[k]
  <2>1. PICK j \in 1..m : f[j] = e[k]
    BY <1>1, <1>4
  <2>2. j < k
    <3>1. ~(k < j) /\ j # k
      BY <1>1, <1>4, <1>6, <2>1
    <3> QED BY <1>4, <2>1, <3>1
  <2>3. e[j] = f[j] /\ j \in 1..n
    BY <1>1, <1>4, <1>5, <2>1, <2>2
  <2> QED BY <1>1, <1>4, <2>1, <2>2, <2>3
<1>7. CASE f[k] < e[k]
  <2>1. PICK j \in 1..n : e[j] = f[k]
    BY <1>1, <1>4
  <2>2. j < k
    <3>1. ~(k < j) /\ j # k
      BY <1>1, <1>4, <1>7, <2>1
    <3> QED BY <1>4, <2>1, <3>1
  <2>3. e[j] = f[j] /\ j \in 1..m
    BY <1>1, <1>4, <1>5, <2>1, <2>2
  <2>4. f[j] < f[k] /\ f[j] = f[k] /\ f[k] \in Nat
    BY <1>1, <1>4, <2>1, <2>2, <2>3
  <2> QED BY <2>4
<1> QED BY <1>1, <1>4, <1>6, <1>7

LEMMA OrderedNoLonger ==
  ASSUME NEW W \in SUBSET Nat, NEW n, NEW e, NEW m, NEW f, Ordered(e, n, W), Ordered(f, m, W)
  PROVE  n <= m
<1> SUFFICES ASSUME m < n PROVE FALSE
  BY DEF Ordered
<1>1. /\ n \in Nat /\ m \in Nat /\ DOMAIN e = 1..n /\ DOMAIN f = 1..m
      /\ \A k \in 1..n : e[k] \in W /\ e[k] \in Nat
      /\ \A i \in W : \E k \in 1..m : f[k] = i
      /\ \A j, k \in 1..n : j < k => e[j] < e[k]
  BY DEF Ordered, Enumerates
<1>2. PICK j \in 1..m : f[j] = e[n]
  BY <1>1
<1>3. j \in 1..n /\ j < n
  BY <1>1
<1>4. e[j] = f[j]
  BY <1>3, OrderedAgree
<1> QED BY <1>1, <1>2, <1>3, <1>4

\* There is one enumeration.
LEMMA OrderedUnique ==
  ASSUME NEW W \in SUBSET Nat, NEW n, NEW e, NEW m, NEW f, Ordered(e, n, W), Ordered(f, m, W)
  PROVE  n = m /\ e = f
<1>1. n = m
  <2>1. n <= m /\ m <= n
    BY OrderedNoLonger
  <2> QED BY <2>1 DEF Ordered
<1>2. \A k \in 1..n : e[k] = f[k]
  BY <1>1, OrderedAgree
<1> QED BY <1>1, <1>2 DEF Ordered

\* An enumeration of W without its largest position n is extended by n.
LEMMA OrderedExtends ==
  ASSUME NEW n \in Nat, NEW V \in SUBSET (1..n), NEW m, NEW e, Ordered(e, m, V)
  PROVE  Ordered([k \in 1..(m + 1) |-> IF k = m + 1 THEN n + 1 ELSE e[k]], m + 1, V \union {n + 1})
<1> DEFINE f == [k \in 1..(m + 1) |-> IF k = m + 1 THEN n + 1 ELSE e[k]]
<1>1. /\ m \in Nat /\ DOMAIN e = 1..m
      /\ \A k \in 1..m : e[k] \in V /\ e[k] \in 1..n
      /\ \A i \in V : \E k \in 1..m : e[k] = i
      /\ \A j, k \in 1..m : j < k => e[j] < e[k]
  BY DEF Ordered, Enumerates
<1>2. \A k \in 1..(m + 1) : k = m + 1 \/ (k \in 1..m /\ k # m + 1)
  BY <1>1
<1>3. /\ m + 1 \in 1..(m + 1) /\ f[m + 1] = n + 1
      /\ \A k \in 1..m : k \in 1..(m + 1) /\ f[k] = e[k]
  BY <1>1
<1>4. f \in [1..(m + 1) -> V \union {n + 1}]
  BY <1>1, <1>2
<1>5. \A i \in V \union {n + 1} : \E k \in 1..(m + 1) : f[k] = i
  BY <1>1, <1>3
<1>6. ASSUME NEW j \in 1..(m + 1), NEW k \in 1..(m + 1), j < k PROVE f[j] < f[k]
  <2>1. j \in 1..m /\ f[j] = e[j]
    BY <1>1, <1>3, <1>6
  <2>2. CASE k = m + 1
    BY <1>1, <1>3, <2>1, <2>2
  <2>3. CASE k \in 1..m
    BY <1>1, <1>3, <1>6, <2>1, <2>3
  <2> QED BY <1>2, <2>2, <2>3
<1>7. DOMAIN f = 1..(m + 1)
  OBVIOUS
<1> HIDE DEF f
<1>8. Enumerates(f, V \union {n + 1})
  BY <1>5, <1>6, <1>7 DEF Enumerates
<1>9. Ordered(f, m + 1, V \union {n + 1})
  BY <1>1, <1>4, <1>8 DEF Ordered
<1> QED BY <1>9 DEF f

\* Every set of positions has one, whose length is its cardinality.
LEMMA OrderedExists ==
  ASSUME NEW n \in Nat, NEW W \in SUBSET (1..n)
  PROVE  \E e : Ordered(e, Cardinality(W), W)
<1> DEFINE Fails(x) == \E V \in SUBSET (1..x) : ~\E e : Ordered(e, Cardinality(V), V)
           T == {x \in Nat : Fails(x)}
<1>1. SUFFICES ASSUME T # {} PROVE FALSE
  OBVIOUS
<1>2. PICK x \in T : \A y \in T : x <= y
  <2>1. T \subseteq Nat
    OBVIOUS
  <2> HIDE DEF T
  <2> QED BY <1>1, <2>1, Least
<1>3. PICK V \in SUBSET (1..x) : ~\E e : Ordered(e, Cardinality(V), V)
  BY <1>2
<1>4. x \in Nat
  BY <1>2
<1>5. CASE x = 0
  <2>1. V = {} /\ Cardinality({}) = 0
    BY <1>5, FS_EmptySet
  <2>2. Ordered(<<>>, 0, {})
    BY DEF Ordered, Enumerates
  <2> QED BY <1>3, <2>1, <2>2
<1>6. CASE x # 0
  <2>1. PICK y \in Nat : x = y + 1 /\ y < x
    <3>1. x - 1 \in Nat /\ x = (x - 1) + 1 /\ x - 1 < x
      BY <1>4, <1>6
    <3> QED BY <3>1
  <2>2. ~Fails(y)
    BY <1>2, <1>4, <2>1
  <2> DEFINE U == V \ {x}
  <2>3. U \in SUBSET (1..y)
    BY <2>1
  <2>4. PICK e : Ordered(e, Cardinality(U), U)
    BY <2>2, <2>3
  <2>5. CASE x \notin V
    <3>1. U = V
      BY <2>5
    <3> QED BY <1>3, <2>4, <3>1
  <2>6. CASE x \in V
    <3>1. V = U \union {y + 1} /\ y + 1 \notin U
      BY <2>1, <2>6
    <3>2. IsFiniteSet(U)
      <4>1. IsFiniteSet(1..y)
        BY FS_Interval
      <4> QED BY <2>3, <4>1, FS_Subset
    <3>3. Cardinality(V) = Cardinality(U) + 1
      BY <3>1, <3>2, FS_AddElement
    <3> HIDE DEF U
    <3>4. \E f : Ordered(f, Cardinality(U) + 1, U \union {y + 1})
      BY <2>3, <2>4, OrderedExtends
    <3> QED BY <1>3, <3>1, <3>3, <3>4
  <2> QED BY <2>5, <2>6
<1> QED BY <1>5, <1>6

LEMMA InOrderIs ==
  ASSUME NEW n \in Nat, NEW W \in SUBSET (1..n)
  PROVE  Ordered(InOrder(W), Cardinality(W), W)
<1>1. PICK e : Ordered(e, Cardinality(W), W)
  BY OrderedExists
<1>2. \E s \in [1..Cardinality(W) -> W] : Enumerates(s, W)
  BY <1>1 DEF Ordered
<1>3. InOrder(W) \in [1..Cardinality(W) -> W] /\ Enumerates(InOrder(W), W)
  BY <1>2 DEF InOrder
<1> QED BY <1>1, <1>3 DEF Ordered

-----------------------------------------------------------------------------
(* The operations at some positions of a queue.                            *)

LEMMA OpsAtIs ==
  ASSUME NEW q \in Seq(Waiter), NEW W \in SUBSET (DOMAIN q), NEW m, NEW e, Ordered(e, m, W)
  PROVE  OpsAt(q, W) = [k \in 1..m |-> TheOp(q[e[k]])]
<1>1. PICK n \in Nat : DOMAIN q = 1..n
  BY LenProperties
<1>2. Ordered(InOrder(W), Cardinality(W), W)
  BY <1>1, InOrderIs
<1>3. W \in SUBSET Nat
  BY <1>1
<1>4. Cardinality(W) = m /\ InOrder(W) = e
  BY <1>2, <1>3, OrderedUnique
<1> QED BY <1>4 DEF OpsAt

\* What the enumeration e of the positions W of q gives.
Picks(e, m, q, W) ==
  /\ Ordered(e, m, W) /\ m \in Nat /\ DOMAIN e = 1..m
  /\ \A k \in 1..m : e[k] \in W /\ e[k] \in DOMAIN q /\ e[k] \in Nat
  /\ \A i \in W : \E k \in 1..m : e[k] = i
  /\ \A j, k \in 1..m : j < k => e[j] < e[k]
  /\ OpsAt(q, W) \in Seq(Op) /\ Len(OpsAt(q, W)) = m /\ DOMAIN OpsAt(q, W) = 1..m
  /\ \A k \in 1..m : OpsAt(q, W)[k] = TheOp(q[e[k]])

LEMMA OpsAtFacts ==
  ASSUME NEW q \in Seq(Waiter), NEW W \in SUBSET (DOMAIN q)
  PROVE  \E e, m : Picks(e, m, q, W)
<1>1. PICK n \in Nat : DOMAIN q = 1..n /\ \A i \in 1..n : q[i] \in Waiter
  BY LenProperties, ElementOfSeq
<1>2. PICK e, m : Ordered(e, m, W)
  BY <1>1, InOrderIs
<1>3. OpsAt(q, W) = [k \in 1..m |-> TheOp(q[e[k]])]
  BY <1>2, OpsAtIs
<1>4. /\ m \in Nat /\ DOMAIN e = 1..m
      /\ \A k \in 1..m : e[k] \in W /\ e[k] \in DOMAIN q /\ e[k] \in Nat
      /\ \A i \in W : \E k \in 1..m : e[k] = i
      /\ \A j, k \in 1..m : j < k => e[j] < e[k]
  BY <1>1, <1>2 DEF Ordered, Enumerates
<1>5. \A k \in 1..m : TheOp(q[e[k]]) \in Op
  BY <1>1, <1>4 DEF TheOp, Op, Waiter
<1>6. OpsAt(q, W) \in [1..m -> Op]
  BY <1>3, <1>5
<1>7. OpsAt(q, W) \in Seq(Op) /\ Len(OpsAt(q, W)) = m /\ DOMAIN OpsAt(q, W) = 1..m
  BY <1>4, <1>6, SeqDef, LenProperties
<1>8. \A k \in 1..m : OpsAt(q, W)[k] = TheOp(q[e[k]])
  BY <1>3
<1>9. Picks(e, m, q, W)
  BY <1>2, <1>4, <1>7, <1>8 DEF Picks
<1> QED BY <1>9

LEMMA OpsAtType ==
  ASSUME NEW q \in Seq(Waiter), NEW W \in SUBSET (DOMAIN q)
  PROVE  OpsAt(q, W) \in Seq(Op)
  BY OpsAtFacts DEF Picks

LEMMA OpsAtNone ==
  ASSUME NEW q \in Seq(Waiter)
  PROVE  OpsAt(q, {}) = <<>>
<1>1. PICK e, m : Picks(e, m, q, {})
  BY OpsAtFacts
<1>2. m = 0 /\ OpsAt(q, {}) \in Seq(Op) /\ Len(OpsAt(q, {})) = 0
  BY <1>1 DEF Picks
<1> QED BY <1>2, EmptySeq

\* The first position of W comes first.
LEMMA OpsAtHead ==
  ASSUME NEW q \in Seq(Waiter), NEW W \in SUBSET (DOMAIN q),
         NEW i \in W, \A j \in W : i <= j
  PROVE  OpsAt(q, W) # <<>> /\ Head(OpsAt(q, W)) = TheOp(q[i])
<1>1. PICK e, m : Picks(e, m, q, W)
  BY OpsAtFacts
<1>2. PICK k \in 1..m : e[k] = i
  BY <1>1 DEF Picks
<1>3. 1 \in 1..m /\ m # 0
  BY <1>1, <1>2 DEF Picks
<1>4. k = 1
  <2>1. ASSUME 1 < k PROVE FALSE
    <3>1. e[1] < e[k] /\ e[1] \in W /\ e[1] \in Nat /\ e[k] \in Nat
      BY <1>1, <1>2, <1>3, <2>1 DEF Picks
    <3>2. e[k] <= e[1]
      BY <1>2, <3>1
    <3> QED BY <3>1, <3>2
  <2> QED BY <1>1, <1>2, <2>1 DEF Picks
<1>5. OpsAt(q, W) \in Seq(Op) /\ Len(OpsAt(q, W)) # 0 /\ OpsAt(q, W)[1] = TheOp(q[i])
  BY <1>1, <1>2, <1>3, <1>4 DEF Picks
<1>6. OpsAt(q, W) # <<>>
  BY <1>5, EmptySeq
<1> QED BY <1>5, <1>6, HeadTailProperties

\* A waiter behind all others comes last.
LEMMA OpsAtAppend ==
  ASSUME NEW q \in Seq(Waiter), NEW W \in SUBSET (DOMAIN q), NEW w \in Waiter
  PROVE  OpsAt(Append(q, w), W \union {Len(q) + 1}) = Append(OpsAt(q, W), TheOp(w))
<1>1. PICK e, m : Picks(e, m, q, W)
  BY OpsAtFacts
<1>2. PICK n \in Nat : n = Len(q) /\ DOMAIN q = 1..n
  BY LenProperties
<1>3. /\ Append(q, w) \in Seq(Waiter) /\ DOMAIN Append(q, w) = 1..(n + 1)
      /\ Append(q, w)[n + 1] = w /\ \A i \in 1..n : Append(q, w)[i] = q[i]
  BY <1>2, AppendProperties, LenProperties
<1>4. PICK f : /\ f = [k \in 1..(m + 1) |-> IF k = m + 1 THEN n + 1 ELSE e[k]]
               /\ Ordered(f, m + 1, W \union {n + 1})
  <2>1. Ordered(e, m, W) /\ W \in SUBSET (1..n)
    BY <1>1, <1>2 DEF Picks
  <2> QED BY <2>1, OrderedExtends
<1>5. W \union {n + 1} \in SUBSET (DOMAIN Append(q, w))
  BY <1>2, <1>3
<1>6. PICK t : /\ t = OpsAt(Append(q, w), W \union {n + 1}) /\ t \in Seq(Op)
               /\ t = [k \in 1..(m + 1) |-> TheOp(Append(q, w)[f[k]])]
  <2>1. PICK r, X : r \in Seq(Waiter) /\ r = Append(q, w) /\ X = W \union {n + 1}
    BY <1>3
  <2>2. r \in Seq(Waiter) /\ X \in SUBSET (DOMAIN r) /\ Ordered(f, m + 1, X)
    BY <1>4, <1>5, <2>1
  <2>3. OpsAt(r, X) = [k \in 1..(m + 1) |-> TheOp(r[f[k]])]
    BY <2>2, OpsAtIs
  <2>4. OpsAt(r, X) \in Seq(Op)
    BY <2>2, OpsAtType
  <2> QED BY <2>1, <2>3, <2>4
<1>7. PICK s \in Seq(Op) : /\ s = OpsAt(q, W) /\ Len(s) = m /\ m \in Nat
                           /\ \A k \in 1..m : s[k] = TheOp(q[e[k]])
  BY <1>1 DEF Picks
<1>8. TheOp(w) \in Op
  BY DEF TheOp, Op, Waiter
<1>9. /\ Append(s, TheOp(w)) \in Seq(Op) /\ Len(Append(s, TheOp(w))) = m + 1
      /\ DOMAIN Append(s, TheOp(w)) = 1..(m + 1)
      /\ Append(s, TheOp(w))[m + 1] = TheOp(w)
      /\ \A k \in 1..m : Append(s, TheOp(w))[k] = s[k]
  BY <1>7, <1>8, AppendProperties, LenProperties
<1>10. ASSUME NEW k \in 1..(m + 1) PROVE Append(s, TheOp(w))[k] = TheOp(Append(q, w)[f[k]])
  <2>1. CASE k = m + 1
    BY <1>3, <1>4, <1>9, <2>1
  <2>2. CASE k # m + 1
    <3>1. k \in 1..m
      BY <1>7, <2>2
    <3>2. f[k] = e[k] /\ e[k] \in 1..n
      BY <1>1, <1>2, <1>4, <2>2, <3>1 DEF Picks
    <3> QED BY <1>3, <1>7, <1>9, <3>1, <3>2
  <2> QED BY <2>1, <2>2
<1>11. Len(t) = m + 1 /\ \A k \in 1..(m + 1) : t[k] = Append(s, TheOp(w))[k]
  <2>1. DOMAIN t = 1..(m + 1) /\ m + 1 \in Nat
    BY <1>6, <1>7
  <2>2. Len(t) = m + 1
    BY <1>6, <2>1, LenProperties
  <2> QED BY <1>6, <1>10, <2>2
<1>12. Append(s, TheOp(w)) = t
  BY <1>6, <1>9, <1>11, SeqEqual
<1> QED BY <1>2, <1>6, <1>7, <1>12

\* Dropping the first n waiters, none of which is in W, changes only positions.
LEMMA OpsAtShift ==
  ASSUME NEW p \in Seq(Waiter), NEW q \in Seq(Waiter), NEW n \in Nat, Popped(p, q, n),
         NEW W \in SUBSET (DOMAIN q), NEW V \in SUBSET (DOMAIN p),
         \A i \in W : i > n, \A j \in DOMAIN p : j \in V <=> n + j \in W
  PROVE  OpsAt(p, V) = OpsAt(q, W)
<1>1. PICK e, m : Picks(e, m, p, V)
  BY OpsAtFacts
<1>2. /\ DOMAIN p = 1..(Len(q) - n) /\ DOMAIN q = 1..Len(q) /\ Len(q) \in Nat
      /\ \A j \in DOMAIN p : p[j] = q[n + j]
  BY LenProperties DEF Popped
<1>3. /\ m \in Nat /\ \A k \in 1..m : e[k] \in V /\ e[k] \in DOMAIN p /\ e[k] \in Nat
      /\ \A i \in V : \E k \in 1..m : e[k] = i
      /\ \A j, k \in 1..m : j < k => e[j] < e[k]
      /\ OpsAt(p, V) \in Seq(Op) /\ DOMAIN OpsAt(p, V) = 1..m
      /\ \A k \in 1..m : OpsAt(p, V)[k] = TheOp(p[e[k]])
  BY <1>1 DEF Picks
<1> DEFINE f == [k \in 1..m |-> n + e[k]]
<1>4. f \in [1..m -> W] /\ DOMAIN f = 1..m
  BY <1>3
<1>5. ASSUME NEW i \in W PROVE \E k \in 1..m : f[k] = i
  <2>1. i \in Nat /\ i > n /\ i \in 1..Len(q)
    BY <1>2
  <2>2. i - n \in DOMAIN p /\ n + (i - n) = i
    BY <1>2, <2>1
  <2>3. PICK k \in 1..m : e[k] = i - n
    BY <1>3, <2>2
  <2> QED BY <2>1, <2>3
<1>6. ASSUME NEW j \in 1..m, NEW k \in 1..m, j < k PROVE f[j] < f[k]
  <2>1. e[j] < e[k] /\ e[j] \in Nat /\ e[k] \in Nat
    BY <1>3, <1>6
  <2> QED BY <2>1
<1>7. \A k \in 1..m : OpsAt(p, V)[k] = TheOp(q[f[k]])
  BY <1>2, <1>3
<1> HIDE DEF f
<1>8. Ordered(f, m, W)
  BY <1>3, <1>4, <1>5, <1>6 DEF Ordered, Enumerates
<1>9. OpsAt(q, W) = [k \in 1..m |-> TheOp(q[f[k]])]
  BY <1>8, OpsAtIs
<1>10. OpsAt(p, V) = [k \in 1..m |-> OpsAt(p, V)[k]]
  BY <1>3
<1> QED BY <1>7, <1>9, <1>10

-----------------------------------------------------------------------------
(* Leaving elements out of a sequence.                                     *)

Kept(s, O) == {i \in DOMAIN s : s[i] \notin O}

LEMMA LeavesOutBy ==
  ASSUME NEW c \in Chan, NEW s \in Seq(Op), NEW O, NEW t \in Seq(Op),
         NEW e, Ordered(e, Len(t), Kept(s, O)), \A k \in 1..Len(t) : t[k] = s[e[k]]
  PROVE  Promise(c)!LeavesOut(t, s, O)
<1>1. PICK m \in Nat : m = Len(t) /\ DOMAIN t = 1..m
  BY LenProperties
<1>2. /\ e \in [1..m -> DOMAIN s] /\ DOMAIN e = 1..m
      /\ \A k \in 1..m : e[k] \in DOMAIN s /\ s[e[k]] \notin O /\ t[k] = s[e[k]]
      /\ \A j, k \in 1..m : j < k => e[j] < e[k]
      /\ \A i \in DOMAIN s : s[i] \notin O => \E k \in 1..m : e[k] = i
  BY <1>1 DEF Ordered, Enumerates, Kept
<1>3. t \in Seq({s[i] : i \in DOMAIN s})
  <2>1. t = [k \in 1..m |-> t[k]]
    BY <1>1
  <2>2. t \in [1..m -> {s[i] : i \in DOMAIN s}]
    BY <1>2, <2>1
  <2> QED BY <2>2, SeqDef
<1>4. \A i \in DOMAIN s : s[i] \notin O <=> \E k \in 1..m : e[k] = i
  BY <1>2
<1>5. /\ e \in [DOMAIN t -> DOMAIN s]
      /\ \A j, k \in DOMAIN t : j < k => e[j] < e[k]
      /\ \A k \in DOMAIN t : t[k] = s[e[k]]
      /\ \A i \in DOMAIN s : s[i] \notin O <=> \E k \in DOMAIN t : e[k] = i
  BY <1>1, <1>2, <1>4
<1> QED BY <1>3, <1>5 DEF Promise!LeavesOut, Promise!RangeOf

LEMMA LeavesOutIs ==
  ASSUME NEW c \in Chan, NEW s \in Seq(Op), NEW O, NEW t \in Seq(Op), Promise(c)!LeavesOut(t, s, O)
  PROVE  \E e : Ordered(e, Len(t), Kept(s, O)) /\ \A k \in 1..Len(t) : t[k] = s[e[k]]
<1>1. PICK m \in Nat : m = Len(t) /\ DOMAIN t = 1..m
  BY LenProperties
<1>2. PICK e \in [DOMAIN t -> DOMAIN s] :
        /\ \A j, k \in DOMAIN t : j < k => e[j] < e[k]
        /\ \A k \in DOMAIN t : t[k] = s[e[k]]
        /\ \A i \in DOMAIN s : s[i] \notin O <=> \E k \in DOMAIN t : e[k] = i
  BY DEF Promise!LeavesOut
<1>3. \A k \in 1..m : e[k] \in Kept(s, O)
  BY <1>1, <1>2 DEF Kept
<1>4. \A i \in Kept(s, O) : \E k \in 1..m : e[k] = i
  BY <1>1, <1>2 DEF Kept
<1>5. Ordered(e, m, Kept(s, O))
  BY <1>1, <1>2, <1>3, <1>4 DEF Ordered, Enumerates
<1> QED BY <1>1, <1>2, <1>5

\* What is left is determined.
LEMMA LeavesOutUnique ==
  ASSUME NEW c \in Chan, NEW s \in Seq(Op), NEW O, NEW t \in Seq(Op), NEW u \in Seq(Op),
         Promise(c)!LeavesOut(t, s, O), Promise(c)!LeavesOut(u, s, O)
  PROVE  t = u
<1>1. PICK e : Ordered(e, Len(t), Kept(s, O)) /\ \A k \in 1..Len(t) : t[k] = s[e[k]]
  BY LeavesOutIs
<1>2. PICK f : Ordered(f, Len(u), Kept(s, O)) /\ \A k \in 1..Len(u) : u[k] = s[f[k]]
  BY LeavesOutIs
<1>3. Kept(s, O) \in SUBSET Nat
  BY LenProperties DEF Kept
<1>4. Len(t) = Len(u) /\ e = f
  BY <1>1, <1>2, <1>3, OrderedUnique
<1> QED BY <1>1, <1>2, <1>4, SeqEqual

LEMMA LeavesOutNothing ==
  ASSUME NEW c \in Chan, NEW s \in Seq(Op), NEW t \in Seq(Op), Promise(c)!LeavesOut(t, s, {})
  PROVE  t = s
<1>1. PICK n \in Nat : n = Len(s) /\ DOMAIN s = 1..n
  BY LenProperties
<1>2. PICK e : e = [i \in 1..n |-> i]
  OBVIOUS
<1>3. Kept(s, {}) = 1..n
  BY <1>1 DEF Kept
<1>4. Ordered(e, n, 1..n)
  BY <1>2 DEF Ordered, Enumerates
<1>5. \A k \in 1..n : s[k] = s[e[k]]
  BY <1>2
<1>6. Promise(c)!LeavesOut(s, s, {})
  BY <1>1, <1>3, <1>4, <1>5, LeavesOutBy
<1> QED BY <1>6, LeavesOutUnique

LEMMA LeavesOutEmpty ==
  ASSUME NEW c \in Chan, NEW O
  PROVE  Promise(c)!LeavesOut(<<>>, <<>>, O)
<1>1. Ordered(<<>>, 0, {}) /\ Kept(<<>>, O) = {}
  BY DEF Ordered, Enumerates, Kept
<1>2. <<>> \in Seq(Op) /\ Len(<<>>) = 0
  BY EmptySeq
<1>3. \A k \in 1..0 : <<>>[k] = <<>>[<<>>[k]]
  OBVIOUS
<1> QED BY <1>1, <1>2, <1>3, LeavesOutBy

\* Only the elements of s matter.
LEMMA LeavesOutSame ==
  ASSUME NEW c \in Chan, NEW s \in Seq(Op), NEW O, NEW P, NEW t \in Seq(Op),
         \A i \in DOMAIN s : s[i] \in O <=> s[i] \in P, Promise(c)!LeavesOut(t, s, O)
  PROVE  Promise(c)!LeavesOut(t, s, P)
<1>1. Kept(s, O) = Kept(s, P)
  BY DEF Kept
<1> QED BY <1>1, LeavesOutIs, LeavesOutBy

\* If no element is there twice, leaving out the first one leaves the rest.
LEMMA LeavesOutHead ==
  ASSUME NEW c \in Chan, NEW s \in Seq(Op), s # <<>>, \A i, j \in DOMAIN s : s[i] = s[j] => i = j,
         NEW t \in Seq(Op), Promise(c)!LeavesOut(t, s, {Head(s)})
  PROVE  t = Tail(s)
<1>1. PICK n \in Nat : /\ Len(s) = n + 1 /\ DOMAIN s = 1..(n + 1) /\ Head(s) = s[1]
                       /\ Tail(s) \in Seq(Op) /\ Len(Tail(s)) = n
                       /\ \A i \in 1..n : Tail(s)[i] = s[i + 1]
  <2>1. Len(s) \in Nat /\ Len(s) # 0 /\ DOMAIN s = 1..Len(s) /\ Head(s) = s[1]
    BY LenProperties, EmptySeq
  <2>2. Len(s) - 1 \in Nat /\ Len(s) = (Len(s) - 1) + 1
    BY <2>1
  <2> QED BY <2>1, <2>2, HeadTailProperties
<1>2. PICK e : e = [i \in 1..n |-> i + 1]
  OBVIOUS
<1>3. Kept(s, {Head(s)}) = 2..(n + 1)
  <2>1. ASSUME NEW i \in 1..(n + 1) PROVE s[i] # s[1] <=> i \in 2..(n + 1)
    <3>1. 1 \in 1..(n + 1)
      OBVIOUS
    <3> QED BY <1>1, <3>1
  <2>2. 2..(n + 1) \subseteq 1..(n + 1)
    OBVIOUS
  <2>3. Kept(s, {Head(s)}) = {i \in 1..(n + 1) : s[i] # s[1]}
    BY <1>1 DEF Kept
  <2> QED BY <2>1, <2>2, <2>3
<1>4. Ordered(e, n, 2..(n + 1))
  <2>1. e \in [1..n -> 2..(n + 1)] /\ \A j, k \in 1..n : j < k => e[j] < e[k]
    BY <1>2
  <2>2. \A i \in 2..(n + 1) : i - 1 \in 1..n /\ e[i - 1] = i
    BY <1>2
  <2> QED BY <2>1, <2>2 DEF Ordered, Enumerates
<1>5. \A k \in 1..n : Tail(s)[k] = s[e[k]]
  BY <1>1, <1>2
<1>6. Promise(c)!LeavesOut(Tail(s), s, {Head(s)})
  <2>1. PICK u, O : u \in Seq(Op) /\ u = Tail(s) /\ O = {Head(s)}
    BY <1>1
  <2>2. Ordered(e, Len(u), Kept(s, O)) /\ \A k \in 1..Len(u) : u[k] = s[e[k]]
    BY <1>1, <1>3, <1>4, <1>5, <2>1
  <2>3. Promise(c)!LeavesOut(u, s, O)
    BY <2>1, <2>2, LeavesOutBy
  <2> QED BY <2>1, <2>3
<1> QED BY <1>1, <1>6, LeavesOutUnique

\* Fewer positions of one queue: the operations of the others are left out.
LEMMA OpsAtFewer ==
  ASSUME NEW c \in Chan, NEW q \in Seq(Waiter), NEW W \in SUBSET (DOMAIN q), NEW V \in SUBSET W,
         NEW O, \A i \in W : i \in V <=> TheOp(q[i]) \notin O
  PROVE  Promise(c)!LeavesOut(OpsAt(q, V), OpsAt(q, W), O)
<1>1. PICK s \in Seq(Op), t \in Seq(Op) : s = OpsAt(q, W) /\ t = OpsAt(q, V)
  BY OpsAtType
<1>2. PICK e, n : Picks(e, n, q, W)
  BY OpsAtFacts
<1>3. PICK f, m : Picks(f, m, q, V)
  BY OpsAtFacts
<1>4. /\ n \in Nat /\ DOMAIN s = 1..n /\ \A k \in 1..n : s[k] = TheOp(q[e[k]])
      /\ \A k \in 1..n : e[k] \in W /\ e[k] \in Nat
      /\ \A i \in W : \E k \in 1..n : e[k] = i
      /\ \A j, k \in 1..n : j < k => e[j] < e[k]
  BY <1>1, <1>2 DEF Picks
<1>5. /\ m \in Nat /\ Len(t) = m /\ \A k \in 1..m : t[k] = TheOp(q[f[k]])
      /\ \A k \in 1..m : f[k] \in V /\ f[k] \in Nat
      /\ \A i \in V : \E k \in 1..m : f[k] = i
      /\ \A j, k \in 1..m : j < k => f[j] < f[k]
  BY <1>1, <1>3 DEF Picks
<1>6. PICK at : at = [k \in 1..m |-> CHOOSE j \in 1..n : e[j] = f[k]]
  OBVIOUS
<1>7. ASSUME NEW k \in 1..m PROVE at[k] \in 1..n /\ e[at[k]] = f[k]
  <2>1. \E j \in 1..n : e[j] = f[k]
    BY <1>4, <1>5
  <2> QED BY <1>6, <2>1
<1>8. ASSUME NEW k \in 1..m PROVE at[k] \in Kept(s, O) /\ t[k] = s[at[k]]
  <2>1. s[at[k]] = TheOp(q[f[k]]) /\ TheOp(q[f[k]]) \notin O
    BY <1>4, <1>5, <1>7
  <2> QED BY <1>4, <1>5, <1>7, <2>1 DEF Kept
<1>9. ASSUME NEW j \in Kept(s, O) PROVE \E k \in 1..m : at[k] = j
  <2>1. j \in 1..n /\ e[j] \in V
    BY <1>4 DEF Kept
  <2>2. PICK k \in 1..m : f[k] = e[j]
    BY <1>5, <2>1
  <2>3. e[at[k]] = e[j] /\ at[k] \in 1..n
    BY <1>7, <2>2
  <2>4. ~(at[k] < j) /\ ~(j < at[k])
    BY <1>4, <2>1, <2>3
  <2> QED BY <2>1, <2>3, <2>4
<1>10. ASSUME NEW j \in 1..m, NEW k \in 1..m, j < k PROVE at[j] < at[k]
  <2>1. f[j] < f[k] /\ e[at[j]] = f[j] /\ e[at[k]] = f[k] /\ at[j] \in 1..n /\ at[k] \in 1..n
    BY <1>5, <1>7, <1>10
  <2>2. at[j] # at[k] /\ ~(at[k] < at[j])
    BY <1>4, <1>5, <2>1
  <2> QED BY <2>1, <2>2
<1>11. Ordered(at, m, Kept(s, O))
  <2>1. at \in [1..m -> Kept(s, O)] /\ DOMAIN at = 1..m
    BY <1>6, <1>8
  <2> QED BY <1>5, <1>9, <1>10, <2>1 DEF Ordered, Enumerates
<1> QED BY <1>1, <1>5, <1>8, <1>11, LeavesOutBy

-----------------------------------------------------------------------------
(* The live operations of a queue, and the kinds of steps.                 *)

LEMMA LiveOpsFacts ==
  ASSUME NEW q \in Seq(Waiter)
  PROVE  /\ LiveOps(q) \in Seq(Op)
         /\ NoneLive(q) => LiveOps(q) = <<>>
         /\ \A i \in DOMAIN q :
              FirstLive(q, i) => LiveOps(q) # <<>> /\ Head(LiveOps(q)) = TheOp(q[i])
<1>1. LiveAt(q) \in SUBSET (DOMAIN q)
  BY DEF LiveAt
<1>2. LiveOps(q) \in Seq(Op)
  BY <1>1, OpsAtType DEF LiveOps
<1>3. ASSUME NoneLive(q) PROVE LiveOps(q) = <<>>
  <2>1. LiveAt(q) = {}
    BY <1>3 DEF LiveAt, NoneLive
  <2> QED BY <2>1, OpsAtNone DEF LiveOps
<1>4. ASSUME NEW i \in DOMAIN q, FirstLive(q, i)
      PROVE  LiveOps(q) # <<>> /\ Head(LiveOps(q)) = TheOp(q[i])
  <2>1. DOMAIN q = 1..Len(q) /\ Len(q) \in Nat
    BY LenProperties
  <2>2. i \in LiveAt(q)
    BY <1>4 DEF LiveAt, FirstLive
  <2>3. ASSUME NEW j \in LiveAt(q) PROVE i <= j
    <3>1. j \in DOMAIN q /\ Live(q[j])
      BY DEF LiveAt
    <3>2. j \notin 1..(i - 1)
      BY <1>4, <3>1 DEF FirstLive
    <3> QED BY <2>1, <3>1, <3>2
  <2> QED BY <1>1, <2>2, <2>3, OpsAtHead DEF LiveOps
<1> QED BY <1>2, <1>3, <1>4

\* No operation has two live waiters on a queue.
LEMMA LiveOpsDistinct ==
  ASSUME TypeOK, Placed, NEW k \in Case
  PROVE  \A x, y \in DOMAIN LiveOps(Queues[k]) :
           LiveOps(Queues[k])[x] = LiveOps(Queues[k])[y] => x = y
<1>1. PICK q \in Seq(Waiter) : q = Queues[k]
  BY QueuesType
<1>2. LiveAt(q) \in SUBSET (DOMAIN q)
  BY DEF LiveAt
<1>3. PICK e, m : Picks(e, m, q, LiveAt(q))
  BY <1>2, OpsAtFacts
<1>4. /\ m \in Nat /\ DOMAIN LiveOps(q) = 1..m
      /\ \A x \in 1..m : e[x] \in LiveAt(q) /\ LiveOps(q)[x] = TheOp(q[e[x]]) /\ e[x] \in Nat
      /\ \A x, y \in 1..m : x < y => e[x] < e[y]
  BY <1>3 DEF Picks, LiveOps
<1>5. ASSUME NEW x \in 1..m, NEW y \in 1..m, LiveOps(q)[x] = LiveOps(q)[y] PROVE x = y
  <2>1. TheOp(q[e[x]]) = TheOp(q[e[y]]) /\ Live(q[e[x]]) /\ Live(q[e[y]])
        /\ e[x] \in DOMAIN q /\ e[y] \in DOMAIN q
    BY <1>4, <1>5 DEF LiveAt
  <2>2. q[e[x]].g = q[e[y]].g
    BY <2>1 DEF TheOp
  <2>3. e[x] = e[y]
    BY <1>1, <2>1, <2>2 DEF Placed, WaitPart, OnlyWaiter
  <2>4. ~(x < y) /\ ~(y < x)
    BY <1>4, <2>3
  <2> QED BY <2>4
<1> QED BY <1>1, <1>4, <1>5

\* A queue after the step.
LEMMA LiveOpsNext ==
  ASSUME TypeOK', NEW k \in Case
  PROVE  \E p, V :
           /\ p \in Seq(Waiter) /\ V \in SUBSET (DOMAIN p) /\ p = Queues'[k]
           /\ V = {i \in DOMAIN p : ~(p[i].kind = "select" /\ TheOp(p[i]) \in cancelled')}
           /\ LiveOps(Queues[k])' = OpsAt(p, V)
<1>1. PICK p \in Seq(Waiter) : p = Queues'[k]
  BY DEF TypeOK, Queues, Case
<1>2. PICK V \in SUBSET (DOMAIN p) :
        V = {i \in DOMAIN p : ~(p[i].kind = "select" /\ TheOp(p[i]) \in cancelled')}
  OBVIOUS
<1>3. LiveAt(Queues[k])' = V
  BY <1>1, <1>2 DEF LiveAt, Live, IsCancelled, TheOp
<1>4. LiveOps(Queues[k])' = OpsAt(p, V)
  BY <1>1, <1>3 DEF LiveOps, OpsAt, TheOp
<1> QED BY <1>1, <1>2, <1>4

CurrentOf(G) == {Current(h) : h \in G}

\* Waking the goroutines of G takes their operations out, and no others.
LEMMA WokenLeave ==
  ASSUME TypeOK, TypeOK', Placed, NEW G, WakesWaiters(G), NEW k \in Case, NEW c \in Chan
  PROVE  Promise(c)!LeavesOut(LiveOps(Queues[k])', LiveOps(Queues[k]), CurrentOf(G))
<1>1. PICK p, V :
           /\ p \in Seq(Waiter) /\ V \in SUBSET (DOMAIN p) /\ p = Queues'[k]
           /\ V = {i \in DOMAIN p : ~(p[i].kind = "select" /\ TheOp(p[i]) \in cancelled')}
           /\ LiveOps(Queues[k])' = OpsAt(p, V)
  BY LiveOpsNext
<1>2. PICK q, W :
        /\ q \in Seq(Waiter) /\ W \in SUBSET (DOMAIN q) /\ q = Queues[k] /\ W = LiveAt(q) /\ LiveOps(Queues[k]) = OpsAt(q, W)
        /\ W = {i \in DOMAIN q : ~(q[i].kind = "select" /\ TheOp(q[i]) \in cancelled)}
  <2>1. PICK q \in Seq(Waiter) : q = Queues[k]
    BY QueuesType
  <2>2. LiveAt(q) = {i \in DOMAIN q : ~(q[i].kind = "select" /\ TheOp(q[i]) \in cancelled)}
    BY DEF LiveAt, Live, IsCancelled
  <2> QED BY <2>1, <2>2 DEF LiveOps
<1>3. PICK n \in Nat : 
        /\ Popped(p, q, n)
        /\ \A i \in 1..n : Live(q[i]) => q[i].g \in G
        /\ \A i \in DOMAIN q : i > n /\ q[i].kind = "plain" => q[i].g \notin G
  BY <1>1, <1>2 DEF WakesWaiters, WakesOnly
<1>4. /\ DOMAIN p = 1..(Len(q) - n) /\ DOMAIN q = 1..Len(q) /\ Len(q) \in Nat
      /\ \A j \in DOMAIN p : p[j] = q[n + j]
  BY <1>3, LenProperties DEF Popped
<1>5. ASSUME NEW i \in W
      PROVE  /\ q[i].g \in Goroutine /\ TheOp(q[i]) = Current(q[i].g)
             /\ q[i].kind \in {"plain", "select"}
             /\ q[i].kind = "select" => op[q[i].g].kind = "select"
  <2>1. i \in DOMAIN Queues[k] /\ Live(Queues[k][i]) /\ Queues[k][i] = q[i] /\ q[i] \in Waiter
    BY <1>2, ElementOfSeq, LenProperties DEF LiveAt
  <2>2. WaitsOn(q[i], k)
    BY <2>1, WaiterFacts
  <2> QED BY <2>1, <2>2 DEF WaitsOn
<1>6. ASSUME NEW i \in W PROVE TheOp(q[i]) \in CurrentOf(G) <=> q[i].g \in G
  <2>1. ASSUME NEW h \in G, Current(h) = TheOp(q[i]) PROVE h = q[i].g
    <3>1. Current(h) = Current(q[i].g)
      BY <1>5, <2>1
    <3>2. Current(h).g = h /\ Current(q[i].g).g = q[i].g
      BY DEF Current
    <3> QED BY <3>1, <3>2
  <2>2. q[i].g \in G => TheOp(q[i]) \in CurrentOf(G)
    BY <1>5 DEF CurrentOf
  <2> QED BY <2>1, <2>2 DEF CurrentOf
<1>7. PICK U \in SUBSET W :
        U = {i \in W : i > n /\ ~(q[i].kind = "select" /\ TheOp(q[i]) \in cancelled')}
  OBVIOUS
<1>8. \A i \in W : i \in U <=> TheOp(q[i]) \notin CurrentOf(G)
  <2> SUFFICES ASSUME NEW i \in W PROVE i \in U <=> q[i].g \notin G
    BY <1>6
  <2>1. i \in DOMAIN q /\ i \in Nat /\ Live(q[i])
    BY <1>2, <1>4 DEF LiveAt
  <2>2. CASE ~(i > n)
    <3>1. i \in 1..n
      BY <1>4, <2>1, <2>2
    <3> QED BY <1>3, <1>7, <2>1, <2>2, <3>1
  <2>3. CASE i > n /\ q[i].kind = "plain"
    BY <1>3, <1>7, <2>1, <2>3
  <2>4. CASE i > n /\ q[i].kind = "select"
    <3>1. op[q[i].g].kind = "select" /\ TheOp(q[i]) \notin cancelled
      BY <1>2, <1>5, <2>4
    <3>2. TheOp(q[i]) \in cancelled' <=> \E h \in G : op[h].kind = "select" /\ Current(h) = Current(q[i].g)
      BY <1>5, <3>1 DEF WakesWaiters
    <3>3. TheOp(q[i]) \in cancelled' <=> q[i].g \in G
      BY <3>1, <3>2 DEF Current
    <3> QED BY <1>7, <2>4, <3>3
  <2> QED BY <1>5, <2>2, <2>3, <2>4
<1>9. Promise(c)!LeavesOut(OpsAt(q, U), OpsAt(q, W), CurrentOf(G))
  <2>1. q \in Seq(Waiter) /\ W \in SUBSET (DOMAIN q) /\ U \in SUBSET W
    BY <1>2
  <2> HIDE DEF CurrentOf
  <2> QED BY <1>8, <2>1, OpsAtFewer
<1>10. OpsAt(p, V) = OpsAt(q, U)
  <2>1. U \in SUBSET (DOMAIN q) /\ \A i \in U : i > n
    BY <1>2, <1>7
  <2>a. p \in Seq(Waiter) /\ q \in Seq(Waiter) /\ V \in SUBSET (DOMAIN p) /\ Popped(p, q, n)
    BY <1>1, <1>2, <1>3
  <2>2. ASSUME NEW j \in DOMAIN p PROVE j \in V <=> n + j \in U
    <3>1. n + j \in DOMAIN q /\ n + j > n /\ p[j] = q[n + j]
      BY <1>4
    <3>2. cancelled \subseteq cancelled'
      BY DEF WakesWaiters
    <3>3. j \in V <=> ~(q[n + j].kind = "select" /\ TheOp(q[n + j]) \in cancelled')
      BY <1>1, <3>1
    <3>4. n + j \in W <=> ~(q[n + j].kind = "select" /\ TheOp(q[n + j]) \in cancelled)
      BY <1>2, <3>1
    <3> QED BY <1>7, <3>1, <3>2, <3>3, <3>4
  <2> QED BY <2>1, <2>2, <2>a, OpsAtShift
<1> QED BY <1>1, <1>2, <1>9, <1>10


\* The queues of one channel, before and after the step.
LEMMA QueuesNow ==
  \A c \in Chan : /\ LiveOps(Queues[[dir |-> "send", ch |-> c]]) = LiveOps(sends[c])
                  /\ LiveOps(Queues[[dir |-> "recv", ch |-> c]]) = LiveOps(recvs[c])
  BY DEF Queues, Case

LEMMA QueuesNext ==
  (\A c \in Chan : /\ LiveOps(Queues[[dir |-> "send", ch |-> c]]) = LiveOps(sends[c])
                   /\ LiveOps(Queues[[dir |-> "recv", ch |-> c]]) = LiveOps(recvs[c]))'
  BY QueuesNow, PTL

-----------------------------------------------------------------------------
(* Sequences.                                                              *)

\* A buffer b and the senders s that wait behind it.
LEMMA BufferAndSenders ==
  ASSUME NEW b \in Seq(Op), NEW s \in Seq(Op), NEW n \in Nat, Len(b) <= n, s = <<>> \/ Len(b) = n
  PROVE  /\ SubSeq(b \o s, 1, IF Len(b \o s) < n THEN Len(b \o s) ELSE n) = b
         /\ SubSeq(b \o s, n + 1, Len(b \o s)) = s
<1>1. /\ b \o s \in Seq(Op) /\ Len(b \o s) = Len(b) + Len(s) /\ Len(b) \in Nat /\ Len(s) \in Nat
      /\ \A i \in 1..(Len(b) + Len(s)) : (b \o s)[i] = IF i <= Len(b) THEN b[i] ELSE s[i - Len(b)]
  BY ConcatProperties, LenProperties
<1>2. PICK m \in Nat : m = IF Len(b \o s) < n THEN Len(b \o s) ELSE n
  BY <1>1
<1>3. s = <<>> => Len(s) = 0
  BY EmptySeq
<1>4. m = Len(b)
  BY <1>1, <1>2, <1>3
<1>5. \A i \in 1..(Len(b) + Len(s)) : (b \o s)[i] \in Op
  <2>1. DOMAIN (b \o s) = 1..(Len(b) + Len(s))
    BY <1>1, LenProperties
  <2> QED BY <1>1, <2>1, ElementOfSeq
<1>6. SubSeq(b \o s, 1, m) = b
  <2>1. \A i \in 1..m : (b \o s)[i] \in Op
    BY <1>1, <1>4, <1>5
  <2>2. /\ SubSeq(b \o s, 1, m) \in Seq(Op)
        /\ Len(SubSeq(b \o s, 1, m)) = IF 1 <= m THEN m - 1 + 1 ELSE 0
        /\ \A i \in 1..(m - 1 + 1) : SubSeq(b \o s, 1, m)[i] = (b \o s)[1 + i - 1]
    BY <1>2, <2>1, SubSeqProperties
  <2>3. Len(SubSeq(b \o s, 1, m)) = m
    BY <1>2, <2>2
  <2>4. \A i \in 1..m : SubSeq(b \o s, 1, m)[i] = b[i]
    BY <1>1, <1>2, <1>4, <2>2
  <2> QED BY <1>4, <2>2, <2>3, <2>4, SeqEqual
<1>7. SubSeq(b \o s, n + 1, Len(b \o s)) = s
  <2>1. CASE s = <<>>
    <3>1. Len(b \o s) < n + 1
      BY <1>1, <1>3, <2>1
    <3> QED BY <1>1, <2>1, <3>1, SubSeqEmpty
  <2>2. CASE Len(b) = n
    <3> DEFINE t == SubSeq(b \o s, n + 1, Len(b \o s))
    <3>1. \A i \in (n + 1)..Len(b \o s) : (b \o s)[i] \in Op
      BY <1>1, <1>5
    <3>2. /\ t \in Seq(Op)
          /\ Len(t) = IF n + 1 <= Len(b \o s) THEN Len(b \o s) - (n + 1) + 1 ELSE 0
          /\ \A i \in 1..(Len(b \o s) - (n + 1) + 1) : t[i] = (b \o s)[n + 1 + i - 1]
      BY <1>1, <3>1, SubSeqProperties
    <3> HIDE DEF t
    <3>3. Len(t) = Len(s)
      BY <1>1, <2>2, <3>2
    <3>4. ASSUME NEW i \in 1..Len(s) PROVE t[i] = s[i]
      <4>1. i \in 1..(Len(b \o s) - (n + 1) + 1) /\ n + 1 + i - 1 = n + i
        BY <1>1, <2>2
      <4>2. n + i \in 1..(Len(b) + Len(s)) /\ ~(n + i <= Len(b)) /\ n + i - Len(b) = i
        BY <1>1, <2>2
      <4>3. t[i] = (b \o s)[n + i]
        BY <3>2, <4>1
      <4>4. (b \o s)[n + i] = s[i]
        BY <1>1, <4>2
      <4> QED BY <4>3, <4>4
    <3>5. t = s
      BY <3>2, <3>3, <3>4, SeqEqual
    <3> QED BY <3>5 DEF t
  <2> QED BY <2>1, <2>2
<1> QED BY <1>2, <1>6, <1>7

LEMMA TailOfConcat ==
  ASSUME NEW b \in Seq(Op), b # <<>>, NEW s \in Seq(Op)
  PROVE  b \o s # <<>> /\ Head(b \o s) = Head(b) /\ Tail(b \o s) = Tail(b) \o s
<1>1. /\ b \o s \in Seq(Op) /\ Len(b \o s) = Len(b) + Len(s) /\ Len(b) \in Nat /\ Len(s) \in Nat
      /\ \A i \in 1..(Len(b) + Len(s)) : (b \o s)[i] = IF i <= Len(b) THEN b[i] ELSE s[i - Len(b)]
      /\ Len(b) # 0
  BY ConcatProperties, LenProperties, EmptySeq
<1>2. b \o s # <<>>
  BY <1>1, EmptySeq
<1>3. Head(b \o s) = Head(b)
  BY <1>1, <1>2
<1>4. /\ Tail(b \o s) \in Seq(Op) /\ Len(Tail(b \o s)) = Len(b) + Len(s) - 1
      /\ \A i \in 1..(Len(b) + Len(s) - 1) : Tail(b \o s)[i] = (b \o s)[i + 1]
  BY <1>1, <1>2, HeadTailProperties
<1>5. /\ Tail(b) \in Seq(Op) /\ Len(Tail(b)) = Len(b) - 1
      /\ \A i \in 1..(Len(b) - 1) : Tail(b)[i] = b[i + 1]
  BY <1>1, HeadTailProperties
<1>6. /\ Tail(b) \o s \in Seq(Op) /\ Len(Tail(b) \o s) = Len(b) + Len(s) - 1
      /\ \A i \in 1..(Len(b) + Len(s) - 1) :
           (Tail(b) \o s)[i] = IF i <= Len(b) - 1 THEN Tail(b)[i] ELSE s[i - (Len(b) - 1)]
  <2>1. Len(Tail(b)) + Len(s) = Len(b) + Len(s) - 1
    BY <1>1, <1>5
  <2> QED BY <1>5, <2>1, ConcatProperties
<1>7. \A i \in 1..(Len(b) + Len(s) - 1) : Tail(b \o s)[i] = (Tail(b) \o s)[i]
  <2> SUFFICES ASSUME NEW i \in 1..(Len(b) + Len(s) - 1) PROVE Tail(b \o s)[i] = (Tail(b) \o s)[i]
    OBVIOUS
  <2>1. i \in Nat /\ i + 1 \in 1..(Len(b) + Len(s))
    BY <1>1
  <2>2. CASE i <= Len(b) - 1
    BY <1>1, <1>4, <1>5, <1>6, <2>1, <2>2
  <2>3. CASE ~(i <= Len(b) - 1)
    <3>1. ~(i + 1 <= Len(b)) /\ i + 1 - Len(b) = i - (Len(b) - 1)
      BY <1>1, <2>1, <2>3
    <3> QED BY <1>1, <1>4, <1>6, <2>1, <2>3, <3>1
  <2> QED BY <2>2, <2>3
<1> QED BY <1>2, <1>3, <1>4, <1>6, <1>7, SeqEqual

\* The first sender's value moves into the slot that the receive frees.
LEMMA RefillIs ==
  ASSUME NEW b \in Seq(Op), b # <<>>, NEW s \in Seq(Op), s # <<>>
  PROVE  Append(Tail(b), Head(s)) \o Tail(s) = Tail(b \o s)
<1>1. /\ Tail(b) \in Seq(Op) /\ Head(s) \in Op /\ Tail(s) \in Seq(Op) /\ <<Head(s)>> \in Seq(Op)
  BY HeadTailProperties
<1>2. Append(Tail(b), Head(s)) = Tail(b) \o <<Head(s)>>
  BY <1>1, AppendIsConcat
<1>3. (Tail(b) \o <<Head(s)>>) \o Tail(s) = Tail(b) \o (<<Head(s)>> \o Tail(s))
  BY <1>1, ConcatAssociative
<1>4. s = <<Head(s)>> \o Tail(s)
  <2>1. Len(s) \in Nat /\ Len(s) # 0 /\ SubSeq(s, 1, Len(s)) = s /\ Tail(s) = SubSeq(s, 2, Len(s))
    BY LenProperties, EmptySeq, SubSeqFull, TailIsSubSeq
  <2>2. 1 \in 1..Len(s) /\ Len(s) \in 1..Len(s)
    BY <2>1
  <2>3. SubSeq(s, 1, Len(s)) = <<s[1]>> \o SubSeq(s, 1 + 1, Len(s))
    BY <2>2, SubSeqRecursiveFirst
  <2>4. 1 + 1 = 2 /\ Head(s) = s[1]
    BY <2>1
  <2> QED BY <2>1, <2>3, <2>4
<1> QED BY <1>2, <1>3, <1>4, TailOfConcat

LEMMA AppendToSenders ==
  ASSUME NEW b \in Seq(Op), NEW s \in Seq(Op), NEW o \in Op
  PROVE  b \o Append(s, o) = Append(b \o s, o)
<1>1. <<o>> \in Seq(Op) /\ b \o s \in Seq(Op)
  BY ConcatProperties
<1> QED BY <1>1, AppendIsConcat, ConcatAssociative

-----------------------------------------------------------------------------
(* One channel as GoChannel sees it.                                       *)

ViewOK(c) ==
  /\ Cap[c] \in Nat /\ buf[c] \in Seq(Op)
  /\ LiveOps(sends[c]) \in Seq(Op) /\ LiveOps(recvs[c]) \in Seq(Op)
  /\ LiveOps(sends[c]) = <<>> \/ Len(buf[c]) = Cap[c]
  /\ LiveOps(recvs[c]) = <<>> \/ buf[c] = <<>>
  /\ c \in closed => LiveOps(sends[c]) = <<>> /\ LiveOps(recvs[c]) = <<>>
  /\ Promise(c)!Accepted = buf[c] /\ Promise(c)!Pending = LiveOps(sends[c])

LEMMA Views == TypeOK /\ (\A c \in Chan : Rdv(c)) => \A c \in Chan : ViewOK(c)
<1> SUFFICES ASSUME TypeOK, NEW c \in Chan, Rdv(c) PROVE ViewOK(c)
  OBVIOUS
<1>1. PICK b \in Seq(Op) : b = buf[c]
  BY DEF TypeOK
<1>2. sends[c] \in Seq(Waiter) /\ recvs[c] \in Seq(Waiter) /\ Cap[c] \in Nat
  BY ChanSchedAssumption DEF TypeOK
<1>3. PICK s \in Seq(Op) : s = LiveOps(sends[c]) /\ (NoneLive(sends[c]) => s = <<>>)
  BY <1>2, LiveOpsFacts
<1>4. PICK r \in Seq(Op) : r = LiveOps(recvs[c]) /\ (NoneLive(recvs[c]) => r = <<>>)
  BY <1>2, LiveOpsFacts
<1>5. /\ Len(b) <= Cap[c] /\ (s = <<>> \/ Len(b) = Cap[c]) /\ (r = <<>> \/ b = <<>>)
      /\ c \in closed => s = <<>> /\ r = <<>>
  BY <1>1, <1>3, <1>4 DEF Rdv
<1>6. Promise(c)!Accepted = b /\ Promise(c)!Pending = s
  <2>1. /\ SubSeq(b \o s, 1, IF Len(b \o s) < Cap[c] THEN Len(b \o s) ELSE Cap[c]) = b
        /\ SubSeq(b \o s, Cap[c] + 1, Len(b \o s)) = s
    BY <1>2, <1>5, BufferAndSenders
  <2> QED BY <1>1, <1>3, <2>1 DEF Promise!Accepted, Promise!Pending
<1> QED BY <1>1, <1>2, <1>3, <1>4, <1>5, <1>6 DEF ViewOK

LEMMA ViewsNext == (TypeOK /\ (\A c \in Chan : Rdv(c)) => \A c \in Chan : ViewOK(c))'
  BY Views, PTL

-----------------------------------------------------------------------------
(* The names that GoChannel has for what happens to a channel.             *)

Keeps(c) == [Promise(c)!Next]_(Promise(c)!chan)

\* A channel on which nothing happens.
LEMMA UntouchedKeeps ==
  ASSUME NEW c \in Chan, buf'[c] = buf[c], delivered'[c] = delivered[c], c \in closed' <=> c \in closed,
         LiveOps(sends[c])' = LiveOps(sends[c]), LiveOps(recvs[c])' = LiveOps(recvs[c])
  PROVE  Keeps(c)
  BY DEF Keeps, Promise!chan

\* A value is buffered, or its sender waits.
LEMMA OfferKeeps ==
  ASSUME NEW c \in Chan, NEW o \in Op, ViewOK(c), c \notin closed, c \notin closed',
         delivered'[c] = delivered[c], LiveOps(recvs[c]) = <<>>, LiveOps(recvs[c])' = <<>>,
         \/ /\ buf'[c] = Append(buf[c], o)
            /\ LiveOps(sends[c]) = <<>> /\ LiveOps(sends[c])' = <<>>
         \/ /\ buf'[c] = buf[c]
            /\ LiveOps(sends[c])' = Append(LiveOps(sends[c]), o)
  PROVE  Keeps(c)
<1>1. PICK b \in Seq(Op), s \in Seq(Op) : b = buf[c] /\ s = LiveOps(sends[c])
  BY DEF ViewOK
<1>2. buf'[c] \o LiveOps(sends[c])' = Append(b \o s, o)
  <2>1. CASE buf'[c] = Append(b, o) /\ s = <<>> /\ LiveOps(sends[c])' = <<>>
    <3>1. Append(b, o) \o <<>> = Append(b, o) /\ b \o <<>> = b
      BY AppendProperties, ConcatEmptySeq
    <3> QED BY <2>1, <3>1
  <2>2. CASE buf'[c] = b /\ LiveOps(sends[c])' = Append(s, o)
    BY <2>2, AppendToSenders
  <2> QED BY <1>1, <2>1, <2>2
<1>3. Promise(c)!Offer(o)
  BY <1>1, <1>2 DEF Promise!Offer
<1> QED BY <1>3 DEF Keeps, Promise!Next

\* A receiver waits.
LEMMA RequestKeeps ==
  ASSUME NEW c \in Chan, NEW o \in Op, c \notin closed, c \notin closed',
         delivered'[c] = delivered[c], buf[c] = <<>>, buf'[c] = <<>>,
         LiveOps(sends[c]) = <<>>, LiveOps(sends[c])' = <<>>,
         LiveOps(recvs[c])' = Append(LiveOps(recvs[c]), o)
  PROVE  Keeps(c)
<1>1. <<>> \o <<>> = <<>>
  BY EmptySeq, ConcatEmptySeq
<1>2. Promise(c)!Request(o)
  BY <1>1 DEF Promise!Request
<1> QED BY <1>2 DEF Keeps, Promise!Next

\* A select waits both to send and to receive.
LEMMA BothKeeps ==
  ASSUME NEW c \in Chan, NEW o \in Op, c \notin closed, c \notin closed',
         delivered'[c] = delivered[c], buf[c] = <<>>, buf'[c] = <<>>,
         LiveOps(sends[c]) = <<>>, LiveOps(sends[c])' = <<o>>,
         LiveOps(recvs[c]) = <<>>, LiveOps(recvs[c])' = <<o>>
  PROVE  Keeps(c)
<1>1. <<>> \o <<>> = <<>> /\ <<>> \o <<o>> = <<o>>
  BY EmptySeq, ConcatEmptySeq
<1>2. Promise(c)!OfferAndRequest(o)
  BY <1>1 DEF Promise!OfferAndRequest
<1> QED BY <1>2 DEF Keeps, Promise!Next

\* A send meets the first receiver, whose select may also have waited to send.
LEMMA MeetKeeps ==
  ASSUME NEW c \in Chan, NEW o \in Op, ViewOK(c), ViewOK(c)', c \notin closed, c \notin closed',
         buf'[c] = buf[c], LiveOps(recvs[c]) # <<>>,
         delivered'[c] = Append(delivered[c], [val |-> o, to |-> Head(LiveOps(recvs[c]))]),
         LiveOps(recvs[c])' = Tail(LiveOps(recvs[c])),
         Promise(c)!LeavesOut(LiveOps(sends[c])', LiveOps(sends[c]), {Head(LiveOps(recvs[c]))})
  PROVE  Keeps(c)
<1>1. buf[c] = <<>> /\ LiveOps(sends[c]) \in Seq(Op) /\ LiveOps(sends[c])' \in Seq(Op)
  BY DEF ViewOK
<1>2. buf[c] \o LiveOps(sends[c]) = LiveOps(sends[c]) /\ buf'[c] \o LiveOps(sends[c])' = LiveOps(sends[c])'
  BY <1>1, ConcatEmptySeq
<1>3. Promise(c)!Meet(o)
  BY <1>2 DEF Promise!Meet, Promise!Pair
<1> QED BY <1>3 DEF Keeps, Promise!Next

\* A receive takes the first value.
LEMMA TakeKeeps ==
  ASSUME NEW c \in Chan, NEW o \in Op, NEW b, b = buf[c] \o LiveOps(sends[c]), b # <<>>,
         c \in closed' <=> c \in closed,
         delivered'[c] = Append(delivered[c], [val |-> Head(b), to |-> o]),
         buf'[c] \o LiveOps(sends[c])' = Tail(b),
         Promise(c)!LeavesOut(LiveOps(recvs[c])', LiveOps(recvs[c]), {Head(b)})
  PROVE  Keeps(c)
<1>1. UNCHANGED (c \in closed)
  OBVIOUS
<1>2. Promise(c)!LeavesOut(LiveOps(recvs[c])', LiveOps(recvs[c]), {Head(buf[c] \o LiveOps(sends[c]))})
  OBVIOUS
<1>3. Promise(c)!Pair(Head(buf[c] \o LiveOps(sends[c])), o)
  BY DEF Promise!Pair
<1>4. (buf[c] \o LiveOps(sends[c]))' = Tail(buf[c] \o LiveOps(sends[c]))
  OBVIOUS
<1>5. Promise(c)!Take(o)
  BY <1>1, <1>2, <1>3, <1>4 DEF Promise!Take
<1> QED BY <1>5 DEF Keeps, Promise!Next

\* Selects that waited here are woken on another channel.
LEMMA WithdrawKeeps ==
  ASSUME TypeOK, TypeOK', Placed, NEW c \in Chan, ViewOK(c), ViewOK(c)', NEW G, WakesWaiters(G),
         buf'[c] = buf[c], delivered'[c] = delivered[c], c \in closed' <=> c \in closed
  PROVE  Keeps(c)
<1>1. PICK s \in Seq(Op), s1 \in Seq(Op) : /\ s = LiveOps(sends[c]) /\ s1 = LiveOps(sends[c])'
                                           /\ s = Promise(c)!Pending /\ s1 = Promise(c)!Pending'
  BY DEF ViewOK
<1>2. PICK r \in Seq(Op), r1 \in Seq(Op) : r = LiveOps(recvs[c]) /\ r1 = LiveOps(recvs[c])'
  BY DEF ViewOK
<1>3. PICK X : X = CurrentOf(G)
  OBVIOUS
<1>4. Promise(c)!LeavesOut(s1, s, X) /\ Promise(c)!LeavesOut(r1, r, X)
  <2>1. PICK ks \in Case, kr \in Case : ks = [dir |-> "send", ch |-> c] /\ kr = [dir |-> "recv", ch |-> c]
    BY CaseIs
  <2>2. Promise(c)!LeavesOut(LiveOps(Queues[ks])', LiveOps(Queues[ks]), X)
    BY <1>3, WokenLeave
  <2>3. Promise(c)!LeavesOut(LiveOps(Queues[kr])', LiveOps(Queues[kr]), X)
    BY <1>3, WokenLeave
  <2>4. LiveOps(Queues[ks]) = s /\ LiveOps(Queues[kr]) = r
    BY <1>1, <1>2, <2>1 DEF Queues
  <2>5. LiveOps(Queues[ks])' = s1 /\ LiveOps(Queues[kr])' = r1
    BY <1>1, <1>2, <2>1, QueuesNext
  <2> QED BY <2>2, <2>3, <2>4, <2>5
<1>5. PICK O : O = X \intersect (Promise(c)!RangeOf(s) \union Promise(c)!RangeOf(r))
  OBVIOUS
<1>6. Promise(c)!LeavesOut(s1, s, O) /\ Promise(c)!LeavesOut(r1, r, O)
  <2>1. \A i \in DOMAIN s : s[i] \in X <=> s[i] \in O
    BY <1>5 DEF Promise!RangeOf
  <2>2. \A i \in DOMAIN r : r[i] \in X <=> r[i] \in O
    BY <1>5 DEF Promise!RangeOf
  <2> QED BY <1>4, <2>1, <2>2, LeavesOutSame
<1>7. Promise(c)!Accepted' = Promise(c)!Accepted
  BY DEF ViewOK
<1>8. Promise(c)!Withdraw(O)
  BY <1>1, <1>2, <1>6, <1>7 DEF Promise!Withdraw
<1>9. O \in SUBSET (Promise(c)!RangeOf(Promise(c)!Pending) \union Promise(c)!RangeOf(LiveOps(recvs[c])))
  BY <1>1, <1>2, <1>5
<1> QED BY <1>8, <1>9 DEF Keeps, Promise!Next

LEMMA CloseKeeps ==
  ASSUME NEW c \in Chan, ViewOK(c), ViewOK(c)', c \notin closed, c \in closed',
         buf'[c] = buf[c], delivered'[c] = delivered[c]
  PROVE  Keeps(c)
<1>1. /\ buf[c] \in Seq(Op) /\ Promise(c)!Accepted = buf[c]
      /\ LiveOps(sends[c])' = <<>> /\ LiveOps(recvs[c])' = <<>>
  BY DEF ViewOK
<1>2. buf'[c] \o LiveOps(sends[c])' = Promise(c)!Accepted
  BY <1>1, ConcatEmptySeq
<1>3. Promise(c)!CloseChan
  BY <1>1, <1>2 DEF Promise!CloseChan
<1> QED BY <1>3 DEF Keeps, Promise!Next

-----------------------------------------------------------------------------
(* What the kinds of steps do to the live operations.                      *)

\* A completion takes the first operation of its queue, and that alone.
LEMMA CompletionTakes ==
  ASSUME TypeOK, TypeOK', Placed, NEW g \in Goroutine, StartOp(g), KeepRunning,
         NEW k \in Case, NEW w, Takes(w, k), Complete(w)
  PROVE  /\ LiveOps(Queues[k]) # <<>> /\ Head(LiveOps(Queues[k])) = TheOp(w)
         /\ LiveOps(Queues[k])' = Tail(LiveOps(Queues[k]))
         /\ WakesWaiters({w.g}) /\ CurrentOf({w.g}) = {TheOp(w)}
<1>1. PICK i \in DOMAIN Queues[k] : FirstLive(Queues[k], i) /\ w = Queues[k][i]
  BY DEF Takes
<1>2. WakesWaiters({w.g})
  BY CompletionWakes
<1>3. TheOp(w) = Current(w.g)
  <2>1. Live(w)
    BY <1>1 DEF FirstLive
  <2>2. WaitsOn(w, k)
    BY <1>1, <2>1, WaiterFacts
  <2> QED BY <2>2 DEF WaitsOn
<1>4. CurrentOf({w.g}) = {TheOp(w)}
  BY <1>3 DEF CurrentOf
<1>5. PICK s \in Seq(Op) : s = LiveOps(Queues[k]) /\ s # <<>> /\ Head(s) = TheOp(w)
  BY <1>1, QueuesType, LiveOpsFacts
<1>6. k.ch \in Chan
  BY DEF Case
<1>7. Promise(k.ch)!LeavesOut(LiveOps(Queues[k])', s, {Head(s)})
  BY <1>2, <1>4, <1>5, <1>6, WokenLeave
<1>8. PICK t \in Seq(Op) : t = LiveOps(Queues[k])'
  BY LiveOpsNext, OpsAtType
<1>9. t = Tail(s)
  <2>1. \A x, y \in DOMAIN s : s[x] = s[y] => x = y
    BY <1>5, LiveOpsDistinct
  <2> QED BY <1>5, <1>6, <1>7, <1>8, <2>1, LeavesOutHead
<1> QED BY <1>2, <1>4, <1>5, <1>8, <1>9

\* If nobody is woken, no live operation goes.
LEMMA NobodyLeaves ==
  ASSUME TypeOK, TypeOK', Placed, WakesWaiters({}), NEW k \in Case
  PROVE  LiveOps(Queues[k])' = LiveOps(Queues[k])
<1>1. PICK s \in Seq(Op), t \in Seq(Op) : s = LiveOps(Queues[k]) /\ t = LiveOps(Queues[k])'
  BY QueuesType, LiveOpsFacts, LiveOpsNext, OpsAtType
<1>2. k.ch \in Chan /\ CurrentOf({}) = {}
  BY DEF Case, CurrentOf
<1>3. Promise(k.ch)!LeavesOut(t, s, {})
  BY <1>1, <1>2, WokenLeave
<1> QED BY <1>1, <1>2, <1>3, LeavesOutNothing

LEMMA NobodyKeeps ==
  ASSUME TypeOK, TypeOK', Placed, WakesWaiters({}),
         NEW c \in Chan, buf'[c] = buf[c], delivered'[c] = delivered[c], c \in closed' <=> c \in closed
  PROVE  Keeps(c)
<1>1. LiveOps(sends[c])' = LiveOps(sends[c]) /\ LiveOps(recvs[c])' = LiveOps(recvs[c])
  BY CaseIs, NobodyLeaves, QueuesNow, QueuesNext
<1> QED BY <1>1, UntouchedKeeps

\* A step that leaves the channels alone.
LEMMA QuietKeeps ==
  ASSUME UNCHANGED <<cancelled, buf, closed, recvs, sends, delivered>>, NEW c \in Chan
  PROVE  Keeps(c)
<1>1. LiveOps(sends[c])' = LiveOps(sends[c]) /\ LiveOps(recvs[c])' = LiveOps(recvs[c])
  BY DEF LiveOps, LiveAt, Live, IsCancelled, OpsAt
<1> QED BY <1>1, UntouchedKeeps

\* A goroutine that parks brings its operation to the end of each queue it
\* waits on, and changes no other.
LEMMA ParkAppends ==
  ASSUME TypeOK, TypeOK', Placed, NEW g \in Goroutine, NEW kind, NEW cases, Parks(g, kind, cases),
         NEW k \in Case
  PROVE  /\ (\E j \in DOMAIN cases : cases[j] = k) =>
              LiveOps(Queues[k])' = Append(LiveOps(Queues[k]), NewOp(g))
         /\ (\A j \in DOMAIN cases : cases[j] # k) => LiveOps(Queues[k])' = LiveOps(Queues[k])
<1>1. /\ StartOp(g) /\ cancelled' = cancelled /\ Extends(g, kind, cases, k)
      /\ \A j \in DOMAIN cases : \E i \in DOMAIN Queues'[cases[j]] :
           ParkedFor(Queues'[cases[j]][i], g, kind, cases, cases[j])
  BY DEF Parks
<1>2. PICK p, V :
           /\ p \in Seq(Waiter) /\ V \in SUBSET (DOMAIN p) /\ p = Queues'[k]
           /\ V = {i \in DOMAIN p : ~(p[i].kind = "select" /\ TheOp(p[i]) \in cancelled')}
           /\ LiveOps(Queues[k])' = OpsAt(p, V)
  BY LiveOpsNext
<1>3. V = LiveAt(p) /\ LiveOps(Queues[k])' = LiveOps(p)
  <2>1. V = LiveAt(p)
    BY <1>1, <1>2 DEF LiveAt, Live, IsCancelled
  <2> QED BY <1>2, <2>1 DEF LiveOps
<1>4. PICK q \in Seq(Waiter) : q = Queues[k]
  BY QueuesType
<1>5. PICK b \in Seq(Waiter) :
        /\ DeadDropped(b, q)
        /\ p = b \/ \E w \in Waiter : ParkedFor(w, g, kind, cases, k) /\ p = Append(b, w)
  BY <1>1, <1>2, <1>4 DEF Extends
<1>6. LiveOps(b) = LiveOps(q)
  <2>1. CASE b = <<>> /\ NoneLive(q)
    <3>1. NoneLive(b)
      BY <2>1 DEF NoneLive
    <3> QED BY <1>4, <1>5, <2>1, <3>1, LiveOpsFacts
  <2> QED BY <1>5, <2>1 DEF DeadDropped
\* What g parks is new: no waiter, dead or alive, carries that number.
<1>7. ASSUME NEW i \in DOMAIN q PROVE ~ParkedFor(q[i], g, kind, cases, k)
  <2>1. pc[g] = "running" /\ ops[g] \in Nat
    BY <1>1, StartFacts
  <2>2. CASE Live(q[i])
    BY <1>4, <2>1, <2>2 DEF Placed, WaitPart, LiveWait, Waits, ParkedFor
  <2>3. CASE ~Live(q[i])
    <3>1. TheOp(q[i]) \in cancelled
      BY <2>3 DEF Live, IsCancelled
    <3>2. q[i].n <= ops[q[i].g]
      BY <3>1 DEF Placed, WaitPart, CellsAreOld, TheOp
    <3> QED BY <2>1, <3>2 DEF ParkedFor
  <2> QED BY <2>2, <2>3
<1>8. CASE p = b
  <2>1. \A i \in DOMAIN b : i \in DOMAIN q /\ b[i] = q[i]
    BY <1>5 DEF DeadDropped
  <2>2. ASSUME NEW j \in DOMAIN cases, cases[j] = k PROVE FALSE
    <3>1. PICK i \in DOMAIN Queues'[k] : ParkedFor(Queues'[k][i], g, kind, cases, k)
      BY <1>1, <2>2
    <3>2. i \in DOMAIN b /\ ParkedFor(b[i], g, kind, cases, k)
      BY <1>2, <1>8, <3>1
    <3> QED BY <1>7, <2>1, <3>2
  <2> QED BY <1>3, <1>4, <1>6, <1>8, <2>2
<1>9. CASE \E w \in Waiter : ParkedFor(w, g, kind, cases, k) /\ p = Append(b, w)
  <2>1. PICK w \in Waiter : ParkedFor(w, g, kind, cases, k) /\ p = Append(b, w)
    BY <1>9
  <2>2. \E j \in DOMAIN cases : cases[j] = k
    <3>1. CASE w.kind = "select"
      BY <2>1, <3>1 DEF ParkedFor
    <3>2. CASE w.kind # "select"
      <4>1. cases = <<k>>
        BY <2>1, <3>2 DEF ParkedFor
      <4> QED BY <4>1
    <3> QED BY <3>1, <3>2
  <2>3. TheOp(w) = NewOp(g) /\ TheOp(w) \notin cancelled
    <3>1. w.g = g /\ w.n = ops[g] + 1 /\ ops[g] \in Nat
      BY <1>1, <2>1, StartFacts DEF ParkedFor
    <3>2. TheOp(w) \in cancelled => w.n <= ops[g]
      BY <3>1 DEF Placed, WaitPart, CellsAreOld, TheOp
    <3> QED BY <3>1, <3>2 DEF TheOp, NewOp
  <2>4. PICK n \in Nat : n = Len(b) /\ DOMAIN b = 1..n
    BY LenProperties
  <2>5. /\ DOMAIN p = 1..(n + 1) /\ p[n + 1] = w
        /\ \A i \in 1..n : p[i] = b[i]
    BY <2>1, <2>4, AppendProperties, LenProperties
  <2>6. LiveAt(p) = LiveAt(b) \union {n + 1}
    <3>1. Live(w)
      BY <2>3 DEF Live, IsCancelled
    <3>2. \A i \in 1..(n + 1) : i = n + 1 \/ i \in 1..n
      OBVIOUS
    <3>3. \A i \in 1..n : i \in 1..(n + 1) /\ i # n + 1
      OBVIOUS
    <3>4. n + 1 \in 1..(n + 1)
      OBVIOUS
    <3> QED BY <2>4, <2>5, <3>1, <3>2, <3>3, <3>4 DEF LiveAt
  <2>7. LiveOps(p) = Append(LiveOps(b), NewOp(g))
    <3>1. LiveAt(b) \in SUBSET (DOMAIN b)
      BY DEF LiveAt
    <3>2. OpsAt(Append(b, w), LiveAt(b) \union {Len(b) + 1}) = Append(OpsAt(b, LiveAt(b)), TheOp(w))
      BY <3>1, OpsAtAppend
    <3> QED BY <2>1, <2>3, <2>4, <2>6, <3>2 DEF LiveOps
  <2> QED BY <1>3, <1>4, <1>6, <2>2, <2>7
<1> QED BY <1>5, <1>8, <1>9

-----------------------------------------------------------------------------
(* Every step is one of GoChannel, on every channel.                       *)

AllViewed == \A c \in Chan : ViewOK(c)

LEMMA DeliversOn ==
  ASSUME TypeOK, NEW c \in Chan, NEW v, NEW o, Deliver(c, v, o)
  PROVE  /\ delivered'[c] = Append(delivered[c], [val |-> v, to |-> o])
         /\ \A d \in Chan : d # c => delivered'[d] = delivered[d]
  BY DEF Deliver, TypeOK

LEMMA TrySendKeeps ==
  ASSUME TypeOK, TypeOK', Placed, AllViewed, AllViewed',
         NEW g \in Goroutine, StartOp(g), KeepRunning, closed' = closed,
         NEW c \in Chan, NEW o \in Op, NEW rq, NEW sq, c \notin closed,
         DeadCleaned(rq, recvs), DeadCleaned(sq, sends), TrySend(c, o, rq, sq)
  PROVE  \A d \in Chan : Keeps(d)
<1>t. rq \in [Chan -> Seq(Waiter)] /\ sq \in [Chan -> Seq(Waiter)]
  BY DEF DeadCleaned
<1>v. \A d \in Chan : ViewOK(d) /\ ViewOK(d)'
  BY DEF AllViewed
<1>k. PICK k \in Case : /\ k = [dir |-> "recv", ch |-> c]
                        /\ LiveOps(Queues[k]) = LiveOps(recvs[c])
                        /\ LiveOps(Queues[k])' = LiveOps(recvs[c])'
  BY CaseIs, QueuesNow, QueuesNext
<1>l. PICK l \in Case : /\ l = [dir |-> "send", ch |-> c]
                        /\ LiveOps(Queues[l]) = LiveOps(sends[c])
                        /\ LiveOps(Queues[l])' = LiveOps(sends[c])'
  BY CaseIs, QueuesNow, QueuesNext
<1>1. CASE HandOff(c, o, rq, sq)
  <2>1. PICK i \in DOMAIN rq[c] :
          /\ FirstLive(rq[c], i)
          /\ recvs' = [rq EXCEPT ![c] = After(@, i)]
          /\ Deliver(c, o, TheOp(rq[c][i]))
          /\ Complete(rq[c][i])
          /\ sends' = sq
          /\ buf' = buf
    BY <1>1 DEF HandOff
  <2>2. PICK w \in Waiter : w = rq[c][i]
    BY <1>t, <2>1, ElementOfSeq, LenProperties
  <2>3. Takes(w, k) /\ Complete(w) /\ Deliver(c, o, TheOp(w))
    BY <1>k, <2>1, <2>2, TakesReceiver
  <2>4. /\ LiveOps(Queues[k]) # <<>> /\ Head(LiveOps(Queues[k])) = TheOp(w)
        /\ LiveOps(Queues[k])' = Tail(LiveOps(Queues[k]))
        /\ WakesWaiters({w.g}) /\ CurrentOf({w.g}) = {TheOp(w)}
    BY <2>3, CompletionTakes
  <2>5. /\ delivered'[c] = Append(delivered[c], [val |-> o, to |-> TheOp(w)])
        /\ \A d \in Chan : d # c => delivered'[d] = delivered[d]
    BY <2>3, DeliversOn
  <2>6. Promise(c)!LeavesOut(LiveOps(Queues[l])', LiveOps(Queues[l]), {TheOp(w)})
    BY <2>4, WokenLeave
  <2>7. Keeps(c)
    BY <1>k, <1>l, <1>v, <2>1, <2>4, <2>5, <2>6, MeetKeeps
  <2>8. ASSUME NEW d \in Chan, d # c PROVE Keeps(d)
    BY <1>v, <2>1, <2>4, <2>5, <2>8, WithdrawKeeps
  <2> QED BY <2>7, <2>8
<1>2. CASE Enbuffer(c, o, rq, sq)
  <2>1. /\ NoneLive(rq[c]) /\ Len(buf[c]) < Cap[c]
        /\ recvs' = [rq EXCEPT ![c] = <<>>] /\ sends' = sq
        /\ buf' = [buf EXCEPT ![c] = Append(@, o)]
        /\ CompleteNobody /\ delivered' = delivered
    BY <1>2 DEF Enbuffer
  <2>2. DeadCleaned(recvs', rq) /\ DeadCleaned(sends', sq)
    BY <1>t, <2>1, SameQueues, EmptiedQueue
  <2>3. WakesWaiters({})
    BY <2>1, <2>2, TakesNone, NobodyWakes
  <2>4. /\ buf'[c] = Append(buf[c], o) /\ \A d \in Chan : d # c => buf'[d] = buf[d]
    BY <2>1 DEF TypeOK
  <2>5. LiveOps(sends[c]) = <<>>
    <3>1. Len(buf[c]) \in Nat /\ Cap[c] \in Nat /\ buf[c] \in Seq(Op)
      BY <1>v, LenProperties DEF ViewOK
    <3> QED BY <1>v, <2>1, <3>1 DEF ViewOK
  <2>6. LiveOps(recvs[c]) = <<>>
    <3>1. NoneLive(recvs[c]) /\ recvs[c] \in Seq(Waiter)
      BY <2>1 DEF DeadCleaned, DeadDropped, TypeOK
    <3> QED BY <3>1, LiveOpsFacts
  <2>7. LiveOps(sends[c])' = <<>> /\ LiveOps(recvs[c])' = <<>>
    BY <1>k, <1>l, <2>3, <2>5, <2>6, NobodyLeaves
  <2>8. Keeps(c)
    BY <1>v, <2>1, <2>4, <2>5, <2>6, <2>7, OfferKeeps
  <2>9. ASSUME NEW d \in Chan, d # c PROVE Keeps(d)
    BY <2>1, <2>3, <2>4, <2>9, NobodyKeeps
  <2> QED BY <2>8, <2>9
<1> QED BY <1>1, <1>2 DEF TrySend

LEMMA TryRecvKeeps ==
  ASSUME TypeOK, TypeOK', Placed, AllViewed, AllViewed',
         NEW g \in Goroutine, StartOp(g), KeepRunning, closed' = closed,
         NEW c \in Chan, NEW o \in Op, NEW rq, NEW sq,
         DeadCleaned(rq, recvs), DeadCleaned(sq, sends), TryRecv(c, o, rq, sq)
  PROVE  \A d \in Chan : Keeps(d)
<1>t. rq \in [Chan -> Seq(Waiter)] /\ sq \in [Chan -> Seq(Waiter)]
  BY DEF DeadCleaned
<1>v. \A d \in Chan : ViewOK(d) /\ ViewOK(d)'
  BY DEF AllViewed
<1>k. PICK k \in Case : /\ k = [dir |-> "recv", ch |-> c]
                        /\ LiveOps(Queues[k]) = LiveOps(recvs[c])
                        /\ LiveOps(Queues[k])' = LiveOps(recvs[c])'
  BY CaseIs, QueuesNow, QueuesNext
<1>l. PICK l \in Case : /\ l = [dir |-> "send", ch |-> c]
                        /\ LiveOps(Queues[l]) = LiveOps(sends[c])
                        /\ LiveOps(Queues[l])' = LiveOps(sends[c])'
  BY CaseIs, QueuesNow, QueuesNext
<1>s. PICK s \in Seq(Op), b \in Seq(Op) : s = LiveOps(sends[c]) /\ b = buf[c]
  BY <1>v DEF ViewOK
\* What is left when the first live sender w has been taken.
<1>w. ASSUME NEW w, Takes(w, l), Complete(w)
      PROVE  /\ s # <<>> /\ Head(s) = TheOp(w) /\ LiveOps(sends[c])' = Tail(s)
             /\ WakesWaiters({w.g})
             /\ Promise(c)!LeavesOut(LiveOps(recvs[c])', LiveOps(recvs[c]), {TheOp(w)})
  <2>1. /\ LiveOps(Queues[l]) # <<>> /\ Head(LiveOps(Queues[l])) = TheOp(w)
        /\ LiveOps(Queues[l])' = Tail(LiveOps(Queues[l]))
        /\ WakesWaiters({w.g}) /\ CurrentOf({w.g}) = {TheOp(w)}
    BY <1>w, CompletionTakes
  <2>2. Promise(c)!LeavesOut(LiveOps(Queues[k])', LiveOps(Queues[k]), {TheOp(w)})
    BY <2>1, WokenLeave
  <2> QED BY <1>k, <1>l, <1>s, <2>1, <2>2
\* A channel with a value in its buffer has no waiting receiver.
<1>r. ASSUME b # <<>>, NEW O, NEW G, WakesWaiters(G)
      PROVE  Promise(c)!LeavesOut(LiveOps(recvs[c])', LiveOps(recvs[c]), O)
  <2>1. LiveOps(recvs[c]) = <<>>
    BY <1>r, <1>s, <1>v DEF ViewOK
  <2>2. Promise(c)!LeavesOut(LiveOps(recvs[c])', <<>>, CurrentOf(G))
    BY <1>k, <1>r, <2>1, WokenLeave
  <2>3. LiveOps(recvs[c])' = <<>>
    <3>1. PICK t \in Seq(Op) : t = LiveOps(recvs[c])'
      BY <1>v DEF ViewOK
    <3> QED BY <2>2, <3>1, EmptySeq, LeavesOutEmpty, LeavesOutUnique
  <2> QED BY <2>1, <2>3, LeavesOutEmpty
<1>1. CASE TakeAndRefill(c, o, rq, sq)
  <2>1. PICK i \in DOMAIN sq[c] :
          /\ b # <<>>
          /\ FirstLive(sq[c], i)
          /\ Deliver(c, Head(b), o)
          /\ buf' = [buf EXCEPT ![c] = Append(Tail(@), TheOp(sq[c][i]))]
          /\ sends' = [sq EXCEPT ![c] = After(@, i)]
          /\ recvs' = rq
          /\ Complete(sq[c][i])
    BY <1>1, <1>s DEF TakeAndRefill
  <2>2. PICK w \in Waiter : w = sq[c][i]
    BY <1>t, <2>1, ElementOfSeq, LenProperties
  <2>3. Takes(w, l) /\ Complete(w)
    BY <1>l, <2>1, <2>2, TakesSender
  <2>4. /\ s # <<>> /\ Head(s) = TheOp(w) /\ LiveOps(sends[c])' = Tail(s) /\ WakesWaiters({w.g})
    BY <1>w, <2>3
  <2>5. buf'[c] = Append(Tail(b), TheOp(w)) /\ \A d \in Chan : d # c => buf'[d] = buf[d]
    BY <1>s, <2>1, <2>2 DEF TypeOK
  <2>6. /\ delivered'[c] = Append(delivered[c], [val |-> Head(b), to |-> o])
        /\ \A d \in Chan : d # c => delivered'[d] = delivered[d]
    BY <2>1, DeliversOn
  <2>7. b \o s # <<>> /\ Head(b \o s) = Head(b) /\ buf'[c] \o LiveOps(sends[c])' = Tail(b \o s)
    <3>1. buf'[c] = Append(Tail(b), Head(s)) /\ LiveOps(sends[c])' = Tail(s)
      BY <2>4, <2>5
    <3>2. Append(Tail(b), Head(s)) \o Tail(s) = Tail(b \o s)
      BY <2>1, <2>4, RefillIs
    <3> QED BY <2>1, <3>1, <3>2, TailOfConcat
  <2>8. Promise(c)!LeavesOut(LiveOps(recvs[c])', LiveOps(recvs[c]), {Head(b \o s)})
    BY <1>r, <2>1, <2>4
  <2>9. Keeps(c)
    BY <1>s, <2>6, <2>7, <2>8, TakeKeeps
  <2>10. ASSUME NEW d \in Chan, d # c PROVE Keeps(d)
    BY <1>v, <2>4, <2>5, <2>6, <2>10, WithdrawKeeps
  <2> QED BY <2>9, <2>10
<1>2. CASE Take(c, o, rq, sq)
  <2>1. /\ b # <<>> /\ NoneLive(sq[c]) /\ Deliver(c, Head(b), o)
        /\ buf' = [buf EXCEPT ![c] = Tail(@)]
        /\ sends' = [sq EXCEPT ![c] = <<>>] /\ recvs' = rq /\ CompleteNobody
    BY <1>2, <1>s DEF Take
  <2>2. DeadCleaned(recvs', rq) /\ DeadCleaned(sends', sq)
    BY <1>t, <2>1, SameQueues, EmptiedQueue
  <2>3. WakesWaiters({})
    BY <2>1, <2>2, TakesNone, NobodyWakes
  <2>4. s = <<>> /\ LiveOps(sends[c])' = <<>>
    <3>1. NoneLive(sends[c]) /\ sends[c] \in Seq(Waiter)
      BY <2>1 DEF DeadCleaned, DeadDropped, TypeOK
    <3>2. s = <<>>
      BY <1>s, <3>1, LiveOpsFacts
    <3> QED BY <1>l, <1>s, <2>3, <3>2, NobodyLeaves
  <2>5. buf'[c] = Tail(b) /\ \A d \in Chan : d # c => buf'[d] = buf[d]
    BY <1>s, <2>1 DEF TypeOK
  <2>6. /\ delivered'[c] = Append(delivered[c], [val |-> Head(b), to |-> o])
        /\ \A d \in Chan : d # c => delivered'[d] = delivered[d]
    BY <2>1, DeliversOn
  <2>7. b \o s # <<>> /\ Head(b \o s) = Head(b) /\ buf'[c] \o LiveOps(sends[c])' = Tail(b \o s)
    BY <2>1, <2>4, <2>5, TailOfConcat
  <2>8. Promise(c)!LeavesOut(LiveOps(recvs[c])', LiveOps(recvs[c]), {Head(b \o s)})
    BY <1>r, <2>1, <2>3
  <2>9. Keeps(c)
    BY <1>s, <2>6, <2>7, <2>8, TakeKeeps
  <2>10. ASSUME NEW d \in Chan, d # c PROVE Keeps(d)
    BY <2>3, <2>5, <2>6, <2>10, NobodyKeeps
  <2> QED BY <2>9, <2>10
<1>3. CASE TakeFromSender(c, o, rq, sq)
  <2>1. PICK i \in DOMAIN sq[c] :
          /\ b = <<>>
          /\ FirstLive(sq[c], i)
          /\ Deliver(c, TheOp(sq[c][i]), o)
          /\ sends' = [sq EXCEPT ![c] = After(@, i)]
          /\ recvs' = rq
          /\ Complete(sq[c][i])
          /\ buf' = buf
    BY <1>3, <1>s DEF TakeFromSender
  <2>2. PICK w \in Waiter : w = sq[c][i]
    BY <1>t, <2>1, ElementOfSeq, LenProperties
  <2>3. Takes(w, l) /\ Complete(w) /\ Deliver(c, TheOp(w), o)
    BY <1>l, <2>1, <2>2, TakesSender
  <2>4. /\ s # <<>> /\ Head(s) = TheOp(w) /\ LiveOps(sends[c])' = Tail(s) /\ WakesWaiters({w.g})
        /\ Promise(c)!LeavesOut(LiveOps(recvs[c])', LiveOps(recvs[c]), {TheOp(w)})
    BY <1>w, <2>3
  <2>5. /\ delivered'[c] = Append(delivered[c], [val |-> TheOp(w), to |-> o])
        /\ \A d \in Chan : d # c => delivered'[d] = delivered[d]
    BY <2>3, DeliversOn
  <2>6. b \o s = s /\ buf'[c] \o LiveOps(sends[c])' = Tail(s)
    <3>1. Tail(s) \in Seq(Op)
      BY <2>4, HeadTailProperties
    <3> QED BY <1>s, <2>1, <2>4, <3>1, ConcatEmptySeq
  <2>7. Keeps(c)
    BY <1>s, <2>4, <2>5, <2>6, TakeKeeps
  <2>8. ASSUME NEW d \in Chan, d # c PROVE Keeps(d)
    BY <1>v, <2>1, <2>4, <2>5, <2>8, WithdrawKeeps
  <2> QED BY <2>7, <2>8
<1>4. CASE TakeZero(c, o, rq, sq)
  <2>1. /\ NoneLive(sq[c]) /\ sends' = [sq EXCEPT ![c] = <<>>] /\ recvs' = rq
        /\ CompleteNobody /\ buf' = buf /\ delivered' = delivered
    BY <1>4 DEF TakeZero
  <2>2. DeadCleaned(recvs', rq) /\ DeadCleaned(sends', sq)
    BY <1>t, <2>1, SameQueues, EmptiedQueue
  <2>3. WakesWaiters({})
    BY <2>1, <2>2, TakesNone, NobodyWakes
  <2> QED BY <2>1, <2>3, NobodyKeeps
<1> QED BY <1>1, <1>2, <1>3, <1>4 DEF TryRecv

\* A goroutine parks because none of its cases can proceed.
LEMMA ParkKeeps ==
  ASSUME TypeOK, TypeOK', Placed, AllViewed, AllViewed',
         NEW g \in Goroutine, NEW kind, NEW cases, Parks(g, kind, cases),
         \A j \in DOMAIN cases : ~CaseReady(cases[j]), NEW c \in Chan
  PROVE  Keeps(c)
<1> DEFINE InCases(k) == \E j \in DOMAIN cases : cases[j] = k
<1>1. /\ StartOp(g) /\ UNCHANGED <<buf, closed, delivered>>
      /\ ViewOK(c) /\ ViewOK(c)'
  BY DEF Parks, AllViewed
<1>2. PICK s \in Seq(Op), r \in Seq(Op), o \in Op :
        s = LiveOps(sends[c]) /\ r = LiveOps(recvs[c]) /\ o = NewOp(g)
  BY <1>1, NewTypes DEF ViewOK
<1>k. PICK kr \in Case : /\ kr = [dir |-> "recv", ch |-> c]
                         /\ LiveOps(Queues[kr]) = LiveOps(recvs[c])
                         /\ LiveOps(Queues[kr])' = LiveOps(recvs[c])'
  BY CaseIs, QueuesNow, QueuesNext
<1>l. PICK ks \in Case : /\ ks = [dir |-> "send", ch |-> c]
                         /\ LiveOps(Queues[ks]) = LiveOps(sends[c])
                         /\ LiveOps(Queues[ks])' = LiveOps(sends[c])'
  BY CaseIs, QueuesNow, QueuesNext
<1>3. /\ InCases(ks) => LiveOps(sends[c])' = Append(s, o)
      /\ ~InCases(ks) => LiveOps(sends[c])' = s
  BY <1>2, <1>l, ParkAppends
<1>4. /\ InCases(kr) => LiveOps(recvs[c])' = Append(r, o)
      /\ ~InCases(kr) => LiveOps(recvs[c])' = r
  BY <1>2, <1>k, ParkAppends
<1>q. sends[c] \in Seq(Waiter) /\ recvs[c] \in Seq(Waiter)
  BY DEF TypeOK
<1>5. ASSUME InCases(ks) PROVE c \notin closed /\ r = <<>>
  <2>1. ~CaseReady(ks) /\ ks.dir = "send" /\ ks.ch = c
    BY <1>5, <1>l
  <2>2. c \notin closed /\ NoneLive(recvs[c])
    BY <2>1 DEF CaseReady, SendReady
  <2> QED BY <1>2, <1>q, <2>2, LiveOpsFacts
<1>6. ASSUME InCases(kr) PROVE c \notin closed /\ s = <<>> /\ buf[c] = <<>>
  <2>1. ~CaseReady(kr) /\ kr.dir = "recv" /\ kr.ch = c
    BY <1>6, <1>k
  <2>2. c \notin closed /\ NoneLive(sends[c]) /\ buf[c] = <<>>
    BY <2>1 DEF CaseReady, RecvReady
  <2> QED BY <1>2, <1>q, <2>2, LiveOpsFacts
<1> HIDE DEF InCases
<1>7. CASE InCases(ks) /\ InCases(kr)
  <2>1. Append(<<>>, o) = <<o>>
    OBVIOUS
  <2> QED BY <1>1, <1>2, <1>3, <1>4, <1>5, <1>6, <1>7, <2>1, BothKeeps
<1>8. CASE InCases(ks) /\ ~InCases(kr)
  BY <1>1, <1>2, <1>3, <1>4, <1>5, <1>8, OfferKeeps
<1>9. CASE ~InCases(ks) /\ InCases(kr)
  BY <1>1, <1>2, <1>3, <1>4, <1>6, <1>9, RequestKeeps
<1>10. CASE ~InCases(ks) /\ ~InCases(kr)
  BY <1>1, <1>2, <1>3, <1>4, <1>10, UntouchedKeeps
<1> QED BY <1>7, <1>8, <1>9, <1>10

LEMMA CloseStepKeeps ==
  ASSUME TypeOK, TypeOK', Placed, AllViewed, AllViewed',
         NEW g \in Goroutine, NEW c \in Chan, Close(g, c), NEW d \in Chan
  PROVE  Keeps(d)
<1>1. PICK G, s : WakesAll(G, s)
  BY CloseWakes
<1>2. c \notin closed /\ closed' = closed \union {c} /\ buf' = buf /\ delivered' = delivered
  BY DEF Close
<1>3. ViewOK(d) /\ ViewOK(d)'
  BY DEF AllViewed
<1>4. CASE d = c
  BY <1>2, <1>3, <1>4, CloseKeeps
<1>5. CASE d # c
  <2>1. WakesWaiters(G)
    BY <1>1 DEF WakesAll
  <2>2. buf'[d] = buf[d] /\ delivered'[d] = delivered[d] /\ (d \in closed' <=> d \in closed)
    BY <1>2, <1>5
  <2> QED BY <1>3, <2>1, <2>2, WithdrawKeeps
<1> QED BY <1>4, <1>5

LEMMA ChanStepKeeps ==
  ASSUME TypeOK, TypeOK', Placed, AllViewed, AllViewed',
         NEW g \in Goroutine, NEW c \in Chan, ChanStep(g, c), NEW d \in Chan
  PROVE  Keeps(d)
<1>1. /\ DeadCleaned(recvs, recvs) /\ DeadCleaned(sends, sends)
      /\ StartOp(g) => NewOp(g) \in Op
  BY SameQueues, NewTypes DEF TypeOK
<1>2. CASE SendNow(g, c)
  <2>1. /\ StartOp(g) /\ KeepRunning /\ closed' = closed /\ c \notin closed
        /\ TrySend(c, NewOp(g), recvs, sends)
    BY <1>2 DEF SendNow
  <2> QED BY <1>1, <2>1, TrySendKeeps
<1>3. CASE RecvNow(g, c)
  <2>1. StartOp(g) /\ KeepRunning /\ closed' = closed /\ TryRecv(c, NewOp(g), recvs, sends)
    BY <1>3 DEF RecvNow
  <2> QED BY <1>1, <2>1, TryRecvKeeps
<1>4. CASE SendPark(g, c)
  <2>1. ~CaseReady([dir |-> "send", ch |-> c])
    BY <1>4 DEF SendPark, CaseReady
  <2>2. \A j \in DOMAIN <<[dir |-> "send", ch |-> c]>> : <<[dir |-> "send", ch |-> c]>>[j] = [dir |-> "send", ch |-> c]
    OBVIOUS
  <2>3. PICK cases : cases = <<[dir |-> "send", ch |-> c]>>
    OBVIOUS
  <2>4. \A j \in DOMAIN cases : ~CaseReady(cases[j])
    BY <2>1, <2>2, <2>3
  <2> QED BY <1>4, <2>3, <2>4, SendParks, ParkKeeps
<1>5. CASE RecvPark(g, c)
  <2>1. ~CaseReady([dir |-> "recv", ch |-> c])
    BY <1>5 DEF RecvPark, CaseReady
  <2>2. \A j \in DOMAIN <<[dir |-> "recv", ch |-> c]>> : <<[dir |-> "recv", ch |-> c]>>[j] = [dir |-> "recv", ch |-> c]
    OBVIOUS
  <2>3. PICK cases : cases = <<[dir |-> "recv", ch |-> c]>>
    OBVIOUS
  <2>4. \A j \in DOMAIN cases : ~CaseReady(cases[j])
    BY <2>1, <2>2, <2>3
  <2> QED BY <1>5, <2>3, <2>4, RecvParks, ParkKeeps
<1>6. CASE Close(g, c)
  BY <1>6, CloseStepKeeps
<1>7. CASE SendOnClosed(g, c) \/ CloseOfClosed(g, c)
  BY <1>7, QuietKeeps DEF SendOnClosed, CloseOfClosed, Abort, chanVars
<1> QED BY <1>2, <1>3, <1>4, <1>5, <1>6, <1>7 DEF ChanStep

LEMMA SelectStepKeeps ==
  ASSUME TypeOK, TypeOK', Placed, AllViewed, AllViewed',
         NEW g \in Goroutine, NEW cs \in SelectCases, SelectStep(g, cs), NEW d \in Chan
  PROVE  Keeps(d)
<1>1. cs \in Seq(Case)
  BY ChanSchedAssumption
<1>2. PICK n \in Nat : n = Len(cs) /\ DOMAIN cs = 1..n /\ \A i \in 1..n : cs[i] \in Case
  BY <1>1, ElementOfSeq, LenProperties
<1>3. CASE SelectNow(g, cs)
  <2>1. PICK i \in DOMAIN cs :
          /\ FirstReady(cs, i)
          /\ \/ /\ cs[i].ch \notin closed
                /\ TrySend(cs[i].ch, NewOp(g), RecvsAfter(cs, i - 1), SendsAfter(cs, i - 1))
             \/ TryRecv(cs[i].ch, NewOp(g), RecvsAfter(cs, i - 1), SendsAfter(cs, i - 1))
    BY <1>3 DEF SelectNow
  <2>2. StartOp(g) /\ KeepRunning /\ closed' = closed
    BY <1>3 DEF SelectNow
  <2>3. cs[i].ch \in Chan /\ NewOp(g) \in Op
    BY <1>2, <2>2, NewTypes DEF Case
  <2>4. i - 1 \in Nat /\ 1..(i - 1) \subseteq DOMAIN cs /\ \A j \in 1..(i - 1) : ~CaseReady(cs[j])
    BY <1>2, <2>1 DEF FirstReady
  <2>5. DeadCleaned(RecvsAfter(cs, i - 1), recvs) /\ DeadCleaned(SendsAfter(cs, i - 1), sends)
    BY <2>4, TriedAreDead
  <2>6. PICK c \in Chan, o \in Op :
          \E rq, sq : /\ DeadCleaned(rq, recvs) /\ DeadCleaned(sq, sends)
                      /\ (c \notin closed /\ TrySend(c, o, rq, sq)) \/ TryRecv(c, o, rq, sq)
    BY <2>1, <2>3, <2>5
  <2>7. PICK rq, sq : /\ DeadCleaned(rq, recvs) /\ DeadCleaned(sq, sends)
                      /\ (c \notin closed /\ TrySend(c, o, rq, sq)) \/ TryRecv(c, o, rq, sq)
    BY <2>6
  <2>8. CASE c \notin closed /\ TrySend(c, o, rq, sq)
    BY <2>2, <2>7, <2>8, TrySendKeeps
  <2>9. CASE TryRecv(c, o, rq, sq)
    BY <2>2, <2>7, <2>9, TryRecvKeeps
  <2> QED BY <2>7, <2>8, <2>9
<1>4. CASE SelectPark(g, cs)
  <2>1. \A j \in DOMAIN cs : ~CaseReady(cs[j])
    BY <1>4 DEF SelectPark, NoneReady
  <2> QED BY <1>4, <2>1, SelectParks, ParkKeeps
<1>5. CASE SelectDefault(g, cs)
  <2>1. /\ StartOp(g) /\ KeepRunning /\ CompleteNobody
        /\ recvs' = RecvsAfter(cs, n) /\ sends' = SendsAfter(cs, n)
        /\ buf' = buf /\ closed' = closed /\ delivered' = delivered
    BY <1>2, <1>5 DEF SelectDefault, CompleteNobody
  <2>2. \A j \in 1..n : ~CaseReady(cs[j])
    BY <1>2, <1>5 DEF SelectDefault, NoneReady
  <2>3. DeadCleaned(recvs', recvs) /\ DeadCleaned(sends', sends)
    BY <1>2, <2>1, <2>2, TriedAreDead
  <2>4. DeadCleaned(recvs, recvs) /\ DeadCleaned(sends, sends)
    BY SameQueues DEF TypeOK
  <2>5. WakesWaiters({})
    BY <2>1, <2>3, <2>4, TakesNone, NobodyWakes
  <2> QED BY <2>1, <2>5, NobodyKeeps
<1>6. CASE SelectOnClosed(g, cs)
  BY <1>6, QuietKeeps DEF SelectOnClosed, Abort, chanVars
<1> QED BY <1>3, <1>4, <1>5, <1>6 DEF SelectStep

LEMMA NextKeeps ==
  ASSUME TypeOK, TypeOK', Placed, AllViewed, AllViewed', [Next]_vars, NEW c \in Chan
  PROVE  Keeps(c)
<1>1. CASE \E g \in Goroutine, d \in Chan : ChanStep(g, d)
  BY <1>1, ChanStepKeeps
<1>2. CASE \E g \in Goroutine, cs \in SelectCases : SelectStep(g, cs)
  BY <1>2, SelectStepKeeps
<1>3. CASE UNCHANGED <<cancelled, buf, closed, recvs, sends, delivered>>
  BY <1>3, QuietKeeps
<1>4. CASE \E g, h \in Goroutine : Go(g, h)
  BY <1>3, <1>4 DEF Go, Unscathed, chanVars
<1>5. CASE \E g \in Goroutine : CallTask(g) \/ Finish(g)
  BY <1>3, <1>5 DEF CallTask, Finish, Unscathed, chanVars
<1>6. CASE Resume \/ ResumeOnClosed \/ Drained
  BY <1>3, <1>6 DEF Resume, ResumeOnClosed, Drained, Abort, Unscathed, chanVars
<1>7. CASE Halted \/ UNCHANGED vars
  BY <1>3, <1>7 DEF Halted, vars, chanVars
<1> QED BY <1>1, <1>2, <1>4, <1>5, <1>6, <1>7 DEF Next

LEMMA InitKeeps == Init => \A c \in Chan : Promise(c)!Init
<1> SUFFICES ASSUME Init, NEW c \in Chan PROVE Promise(c)!Init
  OBVIOUS
<1>1. buf[c] = <<>> /\ sends[c] = <<>> /\ recvs[c] = <<>> /\ delivered[c] = <<>> /\ closed = {}
  BY DEF Init
<1>2. LiveOps(<<>>) = <<>>
  <2>1. <<>> \in Seq(Waiter) /\ LiveAt(<<>>) = {}
    BY EmptySeq DEF LiveAt
  <2> QED BY <2>1, OpsAtNone DEF LiveOps
<1>3. <<>> \o <<>> = <<>>
  BY EmptySeq, ConcatEmptySeq
<1> QED BY <1>1, <1>2, <1>3 DEF Promise!Init

\* Seen from its senders and receivers, every channel of runtime.hpp is a FIFO
\* queue of values and a FIFO queue of receives, which close() ends and from which
\* only the losing cases of selects are withdrawn: whatever the scheduler, the
\* other channels and the cancelled waiters in the deques do.
THEOREM ChannelsImplementPromise == Spec => ChannelsKeepPromise
<1>1. Init => \A c \in Chan : Promise(c)!Init
  BY InitKeeps
<1>2. TypeOK /\ NoMissedRendezvous => AllViewed
  BY Views, RdvIsAll DEF AllViewed
<1>3. (TypeOK /\ Placed) /\ (TypeOK /\ Placed)' /\ AllViewed /\ AllViewed' /\ [Next]_vars
      => [\A c \in Chan : [Promise(c)!Next]_(Promise(c)!chan)]_vars
  BY NextKeeps DEF Keeps
<1> QED BY <1>1, <1>2, <1>3, TypeCorrect, PlacedAlways, NoCommunicationMissed, PTL
  DEF Spec, ChannelsKeepPromise
=============================================================================
