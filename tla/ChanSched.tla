------------------------------ MODULE ChanSched ------------------------------
(***************************************************************************)
(* The cooperative scheduler of src/src/runtime.hpp (Scheduler, go, run)   *)
(* together with the channels (Chan) and select (GSelect) that park        *)
(* goroutines and hand them back to it.                                    *)
(*                                                                         *)
(* One OS thread runs generated code, so between two suspension points a   *)
(* goroutine is atomic: every action below is one channel operation of the *)
(* running goroutine (await_ready and await_suspend together), or one step *)
(* of the loop in Scheduler::run.                                          *)
(*                                                                         *)
(* The program is the most general client: the running goroutine picks any *)
(* operation on any channel, at most MaxOps times.  The operation number n *)
(* of goroutine g names everything that the operation allocates: the value *)
(* it sends and the cancelled cell its select cases share.                 *)
(*                                                                         *)
(* Definitions named X_Fault are faulty variants of X, used to see that a  *)
(* property would fail if the code had that fault; the specification does  *)
(* not use them.                                                           *)
(***************************************************************************)
EXTENDS Integers, Sequences, FiniteSets

CONSTANTS
  Goroutine,    \* the coroutine handles that go() may spawn
  Main,         \* the goroutine wasigo::run(Task) starts with
  Chan,         \* the channels
  Cap,          \* Cap[c] is the argument of make_chan
  SelectCases,  \* the case lists a select statement may have
  MaxOps,       \* bound: operations per goroutine
  None          \* no goroutine is running

Case == [dir : {"send", "recv"}, ch : Chan]

\* No case list names a case twice: ParkedCases parks one waiter per channel and direction.
ASSUME ChanSchedAssumption ==
  /\ IsFiniteSet(Goroutine)
  /\ Main \in Goroutine
  /\ None \notin Goroutine
  /\ Cap \in [Chan -> Nat]
  /\ MaxOps \in Nat
  /\ SelectCases \subseteq Seq(Case)
  /\ \A cs \in SelectCases : \A i, j \in DOMAIN cs : cs[i] = cs[j] => i = j

VARIABLES
  ready,      \* Scheduler::ready, the runqueue
  parked,     \* Scheduler::parked
  running,    \* the goroutine inside h.resume(), or None
  pc,         \* where each goroutine is
  op,         \* the awaiter each goroutine is suspended in, NoOp for none
  ops,        \* how many operations each goroutine has started
  cancelled,  \* the operations whose shared cancelled cell is set
  winner,     \* the winner cell of the select it is suspended in, 0 for -1
  buf,        \* State::buf of each channel
  closed,     \* the channels whose State::closed is set
  recvs,      \* State::recvs
  sends,      \* State::sends
  delivered,  \* history: per channel, which value went to which receive
  halt        \* how the process ended, "no" while it runs

schedVars == <<ready, parked, running, pc, halt>>
opVars == <<op, ops>>
chanVars == <<buf, closed, recvs, sends>>
vars == <<schedVars, opVars, cancelled, winner, chanVars, delivered>>

-----------------------------------------------------------------------------
(* Operations, values and waiters                                          *)

OpNo == 0..MaxOps
Op == [g : Goroutine, n : OpNo]        \* one operation; also the value it sends
Waiter == [g : Goroutine, n : OpNo, kind : {"plain", "select"}, idx : Nat]
Delivery == [val : Op, to : Op]

TheOp(w) == [g |-> w.g, n |-> w.n]

\* is_cancelled: only the waiters of a select carry a cancelled cell.
IsCancelled(w) == w.kind = "select" /\ TheOp(w) \in cancelled
Live(w) == ~IsCancelled(w)

\* The waiter at position i is the one a pop loop stops at; the cancelled
\* ones in front of it are dropped.
FirstLive(q, i) ==
  i \in DOMAIN q /\ Live(q[i]) /\ \A j \in 1..(i - 1) : ~Live(q[j])
NoneLive(q) == \A i \in DOMAIN q : ~Live(q[i])
After(q, i) == SubSeq(q, i + 1, Len(q))

SendReady(c) == ~NoneLive(recvs[c]) \/ Len(buf[c]) < Cap[c]
RecvReady(c) == buf[c] # <<>> \/ ~NoneLive(sends[c]) \/ c \in closed

-----------------------------------------------------------------------------
(* complete_recv and complete_send: set the shared cells of a select       *)
(* waiter, uncount a plain one, and put its goroutine on the runqueue.     *)

Enqueued(g) == Append(ready, g)

CancelledBy(w) == cancelled \union (IF w.kind = "select" THEN {TheOp(w)} ELSE {})

Uncounted(w) == IF w.kind = "select" THEN parked ELSE parked - 1

Complete(w) ==
  /\ cancelled' = CancelledBy(w)
  /\ winner' = IF w.kind = "select" THEN [winner EXCEPT ![w.g] = w.idx] ELSE winner
  /\ parked' = Uncounted(w)
  /\ ready' = Enqueued(w.g)
  /\ pc' = [pc EXCEPT ![w.g] = "ready"]

CompleteNobody == UNCHANGED <<cancelled, winner, parked, ready, pc>>

Deliver(c, v, o) == delivered' = [delivered EXCEPT ![c] = Append(@, [val |-> v, to |-> o])]

(* try_send_locked on an open channel, given the waiter queues rq and sq   *)
(* that earlier cases of the same select have already cleaned.             *)
HandOff(c, o, rq, sq) ==
  \E i \in DOMAIN rq[c] :
    /\ FirstLive(rq[c], i)
    /\ recvs' = [rq EXCEPT ![c] = After(@, i)]
    /\ Deliver(c, o, TheOp(rq[c][i]))
    /\ Complete(rq[c][i])
    /\ sends' = sq
    /\ UNCHANGED buf

Enbuffer(c, o, rq, sq) ==
  /\ NoneLive(rq[c])
  /\ Len(buf[c]) < Cap[c]
  /\ buf' = [buf EXCEPT ![c] = Append(@, o)]
  /\ recvs' = [rq EXCEPT ![c] = <<>>]
  /\ sends' = sq
  /\ CompleteNobody
  /\ UNCHANGED delivered

TrySend(c, o, rq, sq) == HandOff(c, o, rq, sq) \/ Enbuffer(c, o, rq, sq)

(* try_recv_locked.  A receive that frees a buffer slot moves the first    *)
(* live parked sender's value into it.                                     *)
TakeAndRefill_LeavesSender(c, o, rq, sq) ==
  /\ buf[c] # <<>>
  /\ ~NoneLive(sq[c])
  /\ Deliver(c, Head(buf[c]), o)
  /\ buf' = [buf EXCEPT ![c] = Tail(@)]
  /\ sends' = sq
  /\ recvs' = rq
  /\ CompleteNobody

TakeAndRefill(c, o, rq, sq) ==
  \E i \in DOMAIN sq[c] :
    /\ buf[c] # <<>>
    /\ FirstLive(sq[c], i)
    /\ Deliver(c, Head(buf[c]), o)
    /\ buf' = [buf EXCEPT ![c] = Append(Tail(@), TheOp(sq[c][i]))]
    /\ sends' = [sq EXCEPT ![c] = After(@, i)]
    /\ recvs' = rq
    /\ Complete(sq[c][i])

Take(c, o, rq, sq) ==
  /\ buf[c] # <<>>
  /\ NoneLive(sq[c])
  /\ Deliver(c, Head(buf[c]), o)
  /\ buf' = [buf EXCEPT ![c] = Tail(@)]
  /\ sends' = [sq EXCEPT ![c] = <<>>]
  /\ recvs' = rq
  /\ CompleteNobody

TakeFromSender(c, o, rq, sq) ==
  \E i \in DOMAIN sq[c] :
    /\ buf[c] = <<>>
    /\ FirstLive(sq[c], i)
    /\ Deliver(c, TheOp(sq[c][i]), o)
    /\ sends' = [sq EXCEPT ![c] = After(@, i)]
    /\ recvs' = rq
    /\ Complete(sq[c][i])
    /\ UNCHANGED buf

TakeZero(c, o, rq, sq) ==
  /\ buf[c] = <<>>
  /\ NoneLive(sq[c])
  /\ c \in closed
  /\ sends' = [sq EXCEPT ![c] = <<>>]
  /\ recvs' = rq
  /\ CompleteNobody
  /\ UNCHANGED <<buf, delivered>>

TryRecv(c, o, rq, sq) ==
  \/ TakeAndRefill(c, o, rq, sq)
  \/ Take(c, o, rq, sq)
  \/ TakeFromSender(c, o, rq, sq)
  \/ TakeZero(c, o, rq, sq)

-----------------------------------------------------------------------------
(* The operations of the running goroutine                                 *)

StartOp(g) ==
  /\ halt = "no"
  /\ running = g
  /\ ops[g] < MaxOps
  /\ ops' = [ops EXCEPT ![g] = @ + 1]

NewOp(g) == [g |-> g, n |-> ops[g] + 1]
NewWaiter_NextOp(g, kind, i) == [g |-> g, n |-> ops[g] + 2, kind |-> kind, idx |-> i]
NewWaiter(g, kind, i) == [g |-> g, n |-> ops[g] + 1, kind |-> kind, idx |-> i]

KeepRunning == UNCHANGED <<running, halt, op>>

\* panic() outside a bridge aborts the process.
Abort(why) ==
  /\ halt' = why
  /\ UNCHANGED <<ready, parked, running, pc, op, cancelled, winner, chanVars, delivered>>

\* await_suspend: the awaiter lives in the frame until the resume.
NoOp == [kind |-> "none", cases |-> <<>>]

Suspend(g, kind, cases) ==
  /\ running' = None
  /\ op' = [op EXCEPT ![g] = [kind |-> kind, cases |-> cases]]
  /\ pc' = [pc EXCEPT ![g] = "parked"]
  /\ parked' = parked + 1
  /\ UNCHANGED <<ready, halt>>

SendNow(g, c) ==
  /\ StartOp(g)
  /\ c \notin closed
  /\ TrySend(c, NewOp(g), recvs, sends)
  /\ KeepRunning
  /\ UNCHANGED closed

SendPark_Front(g, c) ==
  /\ StartOp(g)
  /\ c \notin closed
  /\ ~SendReady(c)
  /\ recvs' = [recvs EXCEPT ![c] = <<>>]
  /\ sends' = [sends EXCEPT ![c] = <<NewWaiter(g, "plain", 0)>> \o @]
  /\ Suspend(g, "send", <<[dir |-> "send", ch |-> c]>>)
  /\ UNCHANGED <<cancelled, winner, buf, closed, delivered>>

SendPark(g, c) ==
  /\ StartOp(g)
  /\ c \notin closed
  /\ ~SendReady(c)
  /\ recvs' = [recvs EXCEPT ![c] = <<>>]
  /\ sends' = [sends EXCEPT ![c] = Append(@, NewWaiter(g, "plain", 0))]
  /\ Suspend(g, "send", <<[dir |-> "send", ch |-> c]>>)
  /\ UNCHANGED <<cancelled, winner, buf, closed, delivered>>

SendOnClosed(g, c) ==
  /\ StartOp(g)
  /\ c \in closed
  /\ Abort("send on closed channel")

RecvNow(g, c) ==
  /\ StartOp(g)
  /\ TryRecv(c, NewOp(g), recvs, sends)
  /\ KeepRunning
  /\ UNCHANGED closed

RecvPark(g, c) ==
  /\ StartOp(g)
  /\ ~RecvReady(c)
  /\ sends' = [sends EXCEPT ![c] = <<>>]
  /\ recvs' = [recvs EXCEPT ![c] = Append(@, NewWaiter(g, "plain", 0))]
  /\ Suspend(g, "recv", <<[dir |-> "recv", ch |-> c]>>)
  /\ UNCHANGED <<cancelled, winner, buf, closed, delivered>>

\* close(): every live waiter is woken, receivers first, each select once.
Woken(q) ==
  {i \in DOMAIN q : Live(q[i]) /\ \A j \in 1..(i - 1) : Live(q[j]) => TheOp(q[j]) # TheOp(q[i])}

Enumerates(s, W) ==
  /\ \A j, k \in DOMAIN s : j < k => s[j] < s[k]
  /\ \A i \in W : \E k \in DOMAIN s : s[k] = i

Close(g, c) ==
  LET q == recvs[c] \o sends[c]
      W == Woken(q)
      wokenSelects == {i \in W : q[i].kind = "select"}
  IN
  /\ StartOp(g)
  /\ c \notin closed
  /\ closed' = closed \union {c}
  /\ recvs' = [recvs EXCEPT ![c] = <<>>]
  /\ sends' = [sends EXCEPT ![c] = <<>>]
  /\ cancelled' = cancelled \union {TheOp(q[i]) : i \in wokenSelects}
  /\ winner' = [h \in Goroutine |->
                  IF \E i \in wokenSelects : q[i].g = h
                  THEN q[CHOOSE i \in wokenSelects : q[i].g = h].idx
                  ELSE winner[h]]
  /\ parked' = parked - Cardinality(W \ wokenSelects)
  /\ \E s \in [1..Cardinality(W) -> W] :
       /\ Enumerates(s, W)
       /\ ready' = ready \o [k \in 1..Cardinality(W) |-> q[s[k]].g]
  /\ pc' = [h \in Goroutine |-> IF \E i \in W : q[i].g = h THEN "ready" ELSE pc[h]]
  /\ KeepRunning
  /\ UNCHANGED <<buf, delivered>>

CloseOfClosed(g, c) ==
  /\ StartOp(g)
  /\ c \in closed
  /\ Abort("close of closed channel")

(* select: try the cases in order.  A case that is not ready has drained   *)
(* the cancelled waiters it looked at.                                     *)
CaseReady(k) == IF k.dir = "send" THEN k.ch \in closed \/ SendReady(k.ch) ELSE RecvReady(k.ch)

FirstReady(cs, i) == i \in DOMAIN cs /\ CaseReady(cs[i]) /\ \A j \in 1..(i - 1) : ~CaseReady(cs[j])
NoneReady(cs) == \A i \in DOMAIN cs : ~CaseReady(cs[i])

Tried(cs, i, dir, c) == \E j \in 1..i : cs[j] = [dir |-> dir, ch |-> c]
RecvsAfter(cs, i) == [c \in Chan |-> IF Tried(cs, i, "send", c) THEN <<>> ELSE recvs[c]]
SendsAfter(cs, i) == [c \in Chan |-> IF Tried(cs, i, "recv", c) THEN <<>> ELSE sends[c]]

SelectNow(g, cs) ==
  /\ StartOp(g)
  /\ \E i \in DOMAIN cs :
       /\ FirstReady(cs, i)
       /\ \/ /\ cs[i].dir = "send"
             /\ cs[i].ch \notin closed
             /\ TrySend(cs[i].ch, NewOp(g), RecvsAfter(cs, i - 1), SendsAfter(cs, i - 1))
          \/ /\ cs[i].dir = "recv"
             /\ TryRecv(cs[i].ch, NewOp(g), RecvsAfter(cs, i - 1), SendsAfter(cs, i - 1))
  /\ KeepRunning
  /\ UNCHANGED closed

SelectOnClosed(g, cs) ==
  /\ StartOp(g)
  /\ \E i \in DOMAIN cs :
       FirstReady(cs, i) /\ cs[i].dir = "send" /\ cs[i].ch \in closed
  /\ Abort("send on closed channel")

SelectDefault(g, cs) ==
  /\ StartOp(g)
  /\ NoneReady(cs)
  /\ recvs' = RecvsAfter(cs, Len(cs))
  /\ sends' = SendsAfter(cs, Len(cs))
  /\ KeepRunning
  /\ UNCHANGED <<ready, parked, pc, cancelled, winner, buf, closed, delivered>>

ParkedCases_LastIndex(g, cs, dir, c) ==
  IF Tried(cs, Len(cs), dir, c) THEN <<NewWaiter(g, "select", Len(cs))>> ELSE <<>>

ParkedCases(g, cs, dir, c) ==
  IF Tried(cs, Len(cs), dir, c)
  THEN <<NewWaiter(g, "select", CHOOSE i \in DOMAIN cs : cs[i] = [dir |-> dir, ch |-> c])>>
  ELSE <<>>

SelectPark(g, cs) ==
  /\ StartOp(g)
  /\ NoneReady(cs)
  /\ recvs' = [c \in Chan |-> RecvsAfter(cs, Len(cs))[c] \o ParkedCases(g, cs, "recv", c)]
  /\ sends' = [c \in Chan |-> SendsAfter(cs, Len(cs))[c] \o ParkedCases(g, cs, "send", c)]
  /\ Suspend(g, "select", cs)
  /\ UNCHANGED <<cancelled, winner, buf, closed, delivered>>

-----------------------------------------------------------------------------
(* go statements, calls of asynchronous functions, and the run loop        *)

Unscathed == UNCHANGED <<cancelled, winner, chanVars, delivered>>

Go(g, h) ==
  /\ halt = "no"
  /\ running = g
  /\ pc[h] = "unborn"
  /\ pc' = [pc EXCEPT ![h] = "ready"]
  /\ ready' = Enqueued(h)
  /\ KeepRunning
  /\ UNCHANGED <<parked, ops>>
  /\ Unscathed

\* co_await of a Task: the callee goes to the back of the runqueue.
CallTask(g) ==
  /\ StartOp(g)
  /\ running' = None
  /\ pc' = [pc EXCEPT ![g] = "ready"]
  /\ ready' = Enqueued(g)
  /\ UNCHANGED <<parked, halt, op>>
  /\ Unscathed

Finish(g) ==
  /\ halt = "no"
  /\ running = g
  /\ running' = None
  /\ pc' = [pc EXCEPT ![g] = "done"]
  /\ UNCHANGED <<ready, parked, halt, opVars>>
  /\ Unscathed

\* await_resume of a parked send checks the channel again.
ResumeMayPanic(g) == op[g].kind = "send" /\ op[g].cases[1].ch \in closed

Resume ==
  /\ halt = "no"
  /\ running = None
  /\ ready # <<>>
  /\ LET g == Head(ready) IN
       /\ ~ResumeMayPanic(g)
       /\ ready' = Tail(ready)
       /\ running' = g
       /\ pc' = [pc EXCEPT ![g] = "running"]
       /\ parked' = IF op[g].kind = "select" THEN parked - 1 ELSE parked
       /\ op' = [op EXCEPT ![g] = NoOp]
       /\ winner' = [winner EXCEPT ![g] = 0]
  /\ UNCHANGED <<halt, ops, cancelled, chanVars, delivered>>

ResumeOnClosed ==
  /\ halt = "no"
  /\ running = None
  /\ ready # <<>>
  /\ ResumeMayPanic(Head(ready))
  /\ Abort("send on closed channel")
  /\ UNCHANGED ops

\* The runqueue is drained: run() returns, or panics if anything is parked.
Verdict_OffByOne == IF parked > 1 THEN "deadlock" ELSE "exit"
Verdict == IF parked > 0 THEN "deadlock" ELSE "exit"

Drained ==
  /\ halt = "no"
  /\ running = None
  /\ ready = <<>>
  /\ halt' = Verdict
  /\ UNCHANGED <<ready, parked, running, pc, opVars>>
  /\ Unscathed

Halted == halt # "no" /\ UNCHANGED vars

-----------------------------------------------------------------------------

Init ==
  /\ ready = <<Main>>
  /\ parked = 0
  /\ running = None
  /\ pc = [g \in Goroutine |-> IF g = Main THEN "ready" ELSE "unborn"]
  /\ op = [g \in Goroutine |-> NoOp]
  /\ ops = [g \in Goroutine |-> 0]
  /\ cancelled = {}
  /\ winner = [g \in Goroutine |-> 0]
  /\ buf = [c \in Chan |-> <<>>]
  /\ closed = {}
  /\ recvs = [c \in Chan |-> <<>>]
  /\ sends = [c \in Chan |-> <<>>]
  /\ delivered = [c \in Chan |-> <<>>]
  /\ halt = "no"

ChanStep(g, c) ==
  \/ SendNow(g, c) \/ SendPark(g, c) \/ SendOnClosed(g, c)
  \/ RecvNow(g, c) \/ RecvPark(g, c)
  \/ Close(g, c) \/ CloseOfClosed(g, c)

SelectStep(g, cs) ==
  \/ SelectNow(g, cs) \/ SelectOnClosed(g, cs)
  \/ SelectDefault(g, cs) \/ SelectPark(g, cs)

Next ==
  \/ \E g \in Goroutine :
       \/ \E c \in Chan : ChanStep(g, c)
       \/ \E cs \in SelectCases : SelectStep(g, cs)
       \/ \E h \in Goroutine : Go(g, h)
       \/ CallTask(g)
       \/ Finish(g)
  \/ Resume \/ ResumeOnClosed \/ Drained
  \/ Halted

Spec == Init /\ [][Next]_vars

-----------------------------------------------------------------------------
(* Properties                                                              *)

\* Every variable has its type.
TypeOK ==
  /\ ready \in Seq(Goroutine)
  /\ parked \in Int
  /\ running \in Goroutine \union {None}
  /\ pc \in [Goroutine -> {"unborn", "ready", "running", "parked", "done"}]
  /\ op \in [Goroutine -> [kind : {"none", "send", "recv", "select"},
                           cases : Seq(Case)]]
  /\ ops \in [Goroutine -> OpNo]
  /\ cancelled \subseteq Op
  /\ winner \in [Goroutine -> Nat]
  /\ buf \in [Chan -> Seq(Op)]
  /\ closed \subseteq Chan
  /\ recvs \in [Chan -> Seq(Waiter)]
  /\ sends \in [Chan -> Seq(Waiter)]
  /\ delivered \in [Chan -> Seq(Delivery)]
  /\ halt \in {"no", "exit", "deadlock", "send on closed channel", "close of closed channel"}

\* A goroutine is in exactly one place: inside resume(), once in the runqueue,
\* or in neither.  A second entry would resume a finished coroutine.
OnePlace ==
  /\ \A g \in Goroutine : pc[g] = "running" <=> running = g
  /\ \A i \in DOMAIN ready : pc[ready[i]] = "ready"
  /\ \A i, j \in DOMAIN ready : ready[i] = ready[j] => i = j
  /\ \A g \in Goroutine : pc[g] = "ready" => \E i \in DOMAIN ready : ready[i] = g

Queue(dir, c) == IF dir = "send" THEN sends[c] ELSE recvs[c]

\* The waiter w on a queue of channel c is the one its goroutine parked.
Awaits(w, dir, c) ==
  /\ pc[w.g] = "parked"
  /\ w.n = ops[w.g]
  /\ IF w.kind = "select"
     THEN /\ op[w.g].kind = "select"
          /\ w.idx \in DOMAIN op[w.g].cases
          /\ op[w.g].cases[w.idx] = [dir |-> dir, ch |-> c]
     ELSE op[w.g] = [kind |-> dir, cases |-> <<[dir |-> dir, ch |-> c]>>]

\* A waiter that a completion would act on belongs to a goroutine suspended in
\* that very operation: complete_recv never writes through the slot pointer of
\* an awaiter that is gone, and no coroutine is enqueued twice.
WaitersAreParked ==
  \A c \in Chan : \A dir \in {"send", "recv"} :
    \A i \in DOMAIN Queue(dir, c) :
      Live(Queue(dir, c)[i]) => Awaits(Queue(dir, c)[i], dir, c)

\* A goroutine parked in a channel operation can still be found: each case it
\* waits for has a live waiter.  Dropping one would lose a wake-up.
NoLostWaiter ==
  \A g \in Goroutine : pc[g] = "parked" =>
    \A k \in DOMAIN op[g].cases :
      LET q == Queue(op[g].cases[k].dir, op[g].cases[k].ch)
      IN \E i \in DOMAIN q : Live(q[i]) /\ q[i].g = g /\ (q[i].kind = "select" => q[i].idx = k)

\* No communication is missed: a live receiver waits only on an empty buffer, a
\* live sender only behind a full one, and a receiver and a sender wait on one
\* channel together only as two cases of one select.  Nobody waits on a closed
\* channel.
NoMissedRendezvous ==
  \A c \in Chan :
    /\ Len(buf[c]) <= Cap[c]
    /\ \A i \in DOMAIN recvs[c] : Live(recvs[c][i]) => buf[c] = <<>>
    /\ \A j \in DOMAIN sends[c] : Live(sends[c][j]) => Len(buf[c]) = Cap[c]
    /\ \A i \in DOMAIN recvs[c], j \in DOMAIN sends[c] :
         Live(recvs[c][i]) /\ Live(sends[c][j]) => recvs[c][i].g = sends[c][j].g
    /\ c \in closed => NoneLive(recvs[c]) /\ NoneLive(sends[c])

\* Scheduler::parked counts the goroutines suspended in a plain send or receive
\* and those in a select that has not been resumed, whatever woke them.
ParkedCount ==
  parked = Cardinality({g \in Goroutine :
             \/ pc[g] = "parked"
             \/ pc[g] = "ready" /\ op[g].kind = "select"})

InFlight(o, c) ==
  \/ \E i \in DOMAIN buf[c] : buf[c][i] = o
  \/ \E i \in DOMAIN delivered[c] : delivered[c][i].val = o

\* A select that was woken reports the case that happened: the value it received
\* came from that channel, the value it sent is on its way there, or that
\* channel was closed.
WinnerCommitted ==
  \A g \in Goroutine : pc[g] = "ready" /\ op[g].kind = "select" =>
    /\ winner[g] \in DOMAIN op[g].cases
    /\ LET k == op[g].cases[winner[g]]
           o == [g |-> g, n |-> ops[g]]
       IN \/ k.ch \in closed
          \/ k.dir = "send" /\ InFlight(o, k.ch)
          \/ k.dir = "recv" /\ \E i \in DOMAIN delivered[k.ch] : delivered[k.ch][i].to = o

\* The runqueue, the waiter deques, the parked counter and the winners of selects
\* agree about every goroutine: it is in one place, what it waits for can wake it,
\* once and with the case that happened, and parked counts it.
WaitersConsistent ==
  OnePlace /\ WaitersAreParked /\ NoLostWaiter /\ ParkedCount /\ WinnerCommitted

\* run() returns only when every goroutine has finished, and reports a deadlock
\* only when some are parked and no two of them could communicate.
DeadlockVerdict ==
  /\ halt = "exit" => \A g \in Goroutine : pc[g] \in {"unborn", "done"}
  /\ halt = "deadlock" =>
       /\ \E g \in Goroutine : pc[g] = "parked"
       /\ \A g, h \in Goroutine : \A c \in Chan :
            /\ pc[g] = "parked" /\ [dir |-> "recv", ch |-> c] \in {op[g].cases[k] : k \in DOMAIN op[g].cases}
            /\ pc[h] = "parked" /\ [dir |-> "send", ch |-> c] \in {op[h].cases[k] : k \in DOMAIN op[h].cases}
            => g = h

\* "send on closed channel" is raised for sends on a closed channel only: the
\* goroutine that aborts the process did not get its value across before.
PanickingSendWasNotDelivered ==
  halt = "send on closed channel" /\ running = None =>
    LET g == Head(ready) IN
    \A c \in Chan : ~InFlight([g |-> g, n |-> ops[g]], c)

-----------------------------------------------------------------------------
(* Every channel implements GoChannel                                      *)

\* The operations of the waiters of q at the positions W, in their order.
InOrder(W) == CHOOSE s \in [1..Cardinality(W) -> W] : Enumerates(s, W)
OpsAt(q, W) == LET at == InOrder(W) IN [k \in 1..Cardinality(W) |-> TheOp(q[at[k]])]

LiveAt(q) == {i \in DOMAIN q : Live(q[i])}
LiveOps(q) == OpsAt(q, LiveAt(q))

Promise(c) ==
  INSTANCE GoChannel WITH
    Capacity <- Cap[c],
    offers <- buf[c] \o LiveOps(sends[c]),
    requests <- LiveOps(recvs[c]),
    isClosed <- c \in closed,
    pairs <- delivered[c]

\* Seen from its senders and receivers, every channel is a FIFO queue of values
\* and a FIFO queue of receives: nothing is lost, duplicated, overtaken or
\* handed to the losing case of a select, whatever cancelled waiters its deques
\* still hold.
ChannelsKeepPromise ==
  /\ \A c \in Chan : Promise(c)!Init
  /\ [][\A c \in Chan : [Promise(c)!Next]_(Promise(c)!chan)]_vars

=============================================================================
