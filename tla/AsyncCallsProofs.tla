-------------------------- MODULE AsyncCallsProofs --------------------------
(***************************************************************************)
(* For any number of goroutines, operations and nested loops: every answer *)
(* of the host is where the goroutine that asked will look for it, each    *)
(* goroutine runs with its own VThread, and the loops report a deadlock    *)
(* only when they have nothing left to do.                                 *)
(*                                                                         *)
(* That a goroutine resumes with its own VThread needs VThreads, of the    *)
(* queue, of the pending calls, of the parked waiters and of the RunUntil  *)
(* callers alike.  That a fetched answer is one's own needs Requests: no   *)
(* two goroutines wait for one id, which holds as Submit's ids only grow.  *)
(* DeadlockIsReal needs Queue, for a goroutine that is ready is in the     *)
(* queue that the loop has found empty.                                    *)
(***************************************************************************)
EXTENDS AsyncCalls, SequenceTheorems, FiniteSetTheorems, TLAPS

\* The goroutines that wait on a channel are the ones Scheduler::parked counts.
Parkers == {g \in Goroutine : pc[g] = "parked"}
ParkedCounts == parked = Cardinality(Parkers)

\* Wherever a VThread is remembered it is the goroutine's own, and inside a loop
\* the current one is that of the function that entered the loop.
VThreads ==
  /\ \A i \in 1..Len(ready) : ready[i].vt = ready[i].g
  /\ \A id \in DOMAIN pending : pending[id].vt = pending[id].g
  /\ \A g \in Parkers : owner[g] = g
  /\ IF cur = None THEN vt = Inner.caller ELSE vt = cur

\* A goroutine is queued once if it is ready, and never otherwise; the one that
\* executes is the one that is running.
Queue ==
  /\ \A i \in 1..Len(ready) : pc[ready[i].g] = "ready"
  /\ \A i, j \in 1..Len(ready) : ready[i].g = ready[j].g => i = j
  /\ \A g \in Goroutine : pc[g] = "ready" => \E i \in 1..Len(ready) : ready[i].g = g
  /\ \A g \in Goroutine : pc[g] = "running" <=> cur = g

\* Scheduler::run is at the bottom of the C++ stack, and on it are the RunUntil calls
\* of the goroutines that are inside one, each once.
Nesting ==
  /\ Inner \in Loop /\ Len(loops) \in Nat \ {0}
  /\ loops[1] = [caller |-> None, waits |-> None]
  /\ \A i \in 2..Len(loops) :
       loops[i].caller \in Goroutine /\ loops[i].waits \in Goroutine /\ pc[loops[i].caller] = "nested"
  /\ \A i, j \in 2..Len(loops) : loops[i].caller = loops[j].caller => i = j

\* A goroutine remembers a request from CallAsync until it resumes, each its own,
\* and every id in use was given out.
Requests ==
  /\ \A g \in Goroutine : req[g] # 0 => pc[g] \in {"awaiting", "ready"}
  /\ \A g, h \in Goroutine : req[g] = req[h] /\ req[g] # 0 => g = h
  /\ \A g \in Goroutine : req[g] <= nextId
  /\ \A id \in DOMAIN pending \union results \union inflight : id <= nextId
  /\ \A i \in 1..Len(out) : out[i] <= nextId

\* The host works on what is pending, and on nothing that it has answered.
HostWork ==
  /\ inflight \subseteq DOMAIN pending
  /\ \A i \in 1..Len(out) : out[i] \notin inflight

\* What Stop has seen when it reports a deadlock stays so.
StopSaw ==
  halt = "deadlock" => ready = <<>> /\ DOMAIN pending = {} /\ cur = None /\ ~FlagSet(Inner)

Invariant ==
  /\ TypeOK /\ ParkedCounts /\ VThreads /\ Queue /\ Nesting /\ Requests
  /\ AnswersAreFetched /\ HostWork /\ StopSaw

-----------------------------------------------------------------------------
(* Sequences and counts *)

LEMMA AppendFacts ==
  ASSUME NEW S, NEW s \in Seq(S), NEW e \in S
  PROVE  /\ Append(s, e) \in Seq(S)
         /\ Len(s) \in Nat /\ Len(Append(s, e)) = Len(s) + 1
         /\ \A i \in 1..Len(s) : Append(s, e)[i] = s[i]
         /\ Append(s, e)[Len(s) + 1] = e
  BY AppendProperties, LenProperties

LEMMA TailFacts ==
  ASSUME NEW S, NEW s \in Seq(S), s # <<>>
  PROVE  /\ Tail(s) \in Seq(S)
         /\ Len(s) \in Nat \ {0} /\ Len(Tail(s)) = Len(s) - 1
         /\ \A i \in 1..Len(s) - 1 : Tail(s)[i] = s[i + 1]
         /\ Head(s) = s[1] /\ Head(s) \in S
  BY HeadTailProperties, LenProperties, EmptySeq

LEMMA PopFacts ==
  ASSUME NEW S, NEW s \in Seq(S), NEW n \in Nat, Len(s) = n + 1
  PROVE  /\ SubSeq(s, 1, n) \in Seq(S)
         /\ Len(SubSeq(s, 1, n)) = n
         /\ \A i \in 1..n : SubSeq(s, 1, n)[i] = s[i]
  <1>1. \A i \in 1..n : s[i] \in S
    BY ElementOfSeq, LenProperties
  <1> QED
    BY <1>1, SubSeqProperties

LEMMA Below ==
  ASSUME NEW n \in Nat \ {0}, n # 1
  PROVE  /\ n \in 2..n /\ n - 1 \in Nat \ {0} /\ n = (n - 1) + 1 /\ n - 1 \in 1..n
         /\ \A i \in 2..n - 1 : i \in 2..n /\ i # n /\ i \in 1..n - 1
         /\ 1 \in 1..n - 1 /\ n - 1 \in 1..n - 1
  OBVIOUS

\* One more or one less goroutine on a channel is what ++parked and --parked say.
LEMMA ParkersFinite == IsFiniteSet(Parkers) /\ Cardinality(Parkers) \in Nat
                       /\ Cardinality(Parkers) <= Cardinality(Goroutine)
  BY AsyncCallsAssumption, FS_Subset, FS_CardinalityType DEF Parkers

LEMMA ParkersKept ==
  ASSUME TypeOK, ParkedCounts, Parkers' = Parkers, parked' = parked
  PROVE  ParkedCounts' /\ parked' \in 0..Cardinality(Goroutine)
  BY DEF TypeOK, ParkedCounts

-----------------------------------------------------------------------------
(* What a goroutine does keeps the invariant *)

\* What the type invariant says of single elements.
LEMMA TypeFacts ==
  ASSUME Invariant
  PROVE  /\ TypeOK
         /\ ready \in Seq(ReadyItem) /\ Len(ready) \in Nat
         /\ \A i \in 1..Len(ready) : ready[i] \in ReadyItem /\ ready[i].g \in Goroutine
         /\ \A id \in DOMAIN pending : pending[id] \in ReadyItem /\ pending[id].g \in Goroutine
         /\ out \in Seq(Nat) /\ Len(out) \in Nat
         /\ \A i \in 1..Len(out) : out[i] \in Nat
         /\ loops \in Seq(Loop) /\ Len(loops) \in Nat \ {0}
         /\ \A g \in Goroutine : req[g] \in Nat
         /\ nextId \in Nat
  <1>1. /\ TypeOK /\ Nesting
        /\ ready \in Seq(ReadyItem) /\ loops \in Seq(Loop) /\ nextId \in Nat
        /\ \A id \in DOMAIN pending : pending[id] \in ReadyItem
        /\ \A g \in Goroutine : req[g] \in Nat
    BY DEF Invariant, TypeOK, Id
  <1>2. Id \union {0} = Nat
    BY DEF Id
  <1>3. out \in Seq(Nat)
    BY <1>1, <1>2 DEF TypeOK
  <1>4. Len(ready) \in Nat /\ Len(out) \in Nat /\ Len(loops) \in Nat \ {0}
    BY <1>1, <1>3, LenProperties DEF Nesting
  <1>5. /\ \A i \in 1..Len(ready) : ready[i] \in ReadyItem
        /\ \A i \in 1..Len(out) : out[i] \in Nat
    BY <1>1, <1>3, ElementOfSeq
  <1> QED
    BY <1>1, <1>3, <1>4, <1>5 DEF ReadyItem

\* enqueue of a goroutine that is not in the queue.
LEMMA Enqueued ==
  ASSUME Invariant, NEW h \in Goroutine, pc[h] # "ready", pc'[h] = "ready",
         ready' = Append(ready, [g |-> h, vt |-> h]),
         \A k \in Goroutine \ {h} : pc'[k] = "ready" <=> pc[k] = "ready",
         \A k \in Goroutine : pc'[k] = "running" <=> cur' = k
  PROVE  /\ ready' \in Seq(ReadyItem)
         /\ Queue'
         /\ \A i \in 1..Len(ready') : ready'[i].vt = ready'[i].g
  <1> DEFINE e == [g |-> h, vt |-> h]
             n == Len(ready)
  <1>1. /\ Queue /\ n \in Nat
        /\ \A i \in 1..n : ready[i].vt = ready[i].g /\ ready[i].g \in Goroutine
    BY TypeFacts DEF Invariant, VThreads
  <1>2. e \in ReadyItem /\ e.g = h /\ e.vt = h
    BY DEF ReadyItem
  <1>3. /\ ready' \in Seq(ReadyItem) /\ Len(ready') = n + 1
        /\ \A i \in 1..n : ready'[i] = ready[i]
        /\ ready'[n + 1] = e
    BY <1>2, TypeFacts, AppendFacts
  <1> HIDE DEF e, n
  <1>4. \A i \in 1..n + 1 : i \in 1..n \/ i = n + 1
    BY <1>1
  <1>5. \A i \in 1..n : ready[i].g # h /\ pc[ready[i].g] = "ready"
    BY <1>1 DEF Queue, n
  <1>6. n + 1 \in 1..n + 1 /\ \A i \in 1..n : i \in 1..n + 1
    BY <1>1
  <1>7. \A i \in 1..n + 1 : pc'[ready'[i].g] = "ready"
    BY <1>1, <1>2, <1>3, <1>4, <1>5
  <1>8. \A i, j \in 1..n + 1 : ready'[i].g = ready'[j].g => i = j
    BY <1>1, <1>2, <1>3, <1>4, <1>5 DEF Queue, n
  <1>9. \A k \in Goroutine : pc'[k] = "ready" => \E i \in 1..n + 1 : ready'[i].g = k
    BY <1>1, <1>2, <1>3, <1>6 DEF Queue, n
  <1>10. \A i \in 1..n + 1 : ready'[i].vt = ready'[i].g
    BY <1>1, <1>2, <1>3, <1>4
  <1> QED
    BY <1>3, <1>7, <1>8, <1>9, <1>10 DEF Queue

\* A goroutine that suspends leaves the queue and the loops alone.
LEMMA Suspended ==
  ASSUME Invariant, NEW g \in Goroutine, cur = g,
         NEW where \in {"awaiting", "parked", "done"}, Suspend(g, where),
         UNCHANGED <<ready, loops>>
  PROVE  /\ pc' = [pc EXCEPT ![g] = where] /\ pc[g] = "running"
         /\ pc' \in [Goroutine -> {"unborn", "ready", "running", "awaiting", "parked", "nested", "done"}]
         /\ \A k \in Goroutine \ {g} : pc'[k] = pc[k]
         /\ pc'[g] = where /\ cur' = None /\ vt' = Inner'.caller /\ phase' = "drain"
         /\ vt' \in Goroutine \union {None}
         /\ Queue' /\ Nesting'
  <1>1. /\ pc' = [pc EXCEPT ![g] = where] /\ cur' = None /\ vt' = Inner.caller /\ phase' = "drain"
        /\ Inner' = Inner
    BY DEF Suspend, Restored, Inner
  <1>2. pc[g] = "running" /\ TypeOK /\ Queue /\ Nesting
    BY DEF Invariant, Queue
  <1>3. /\ pc' \in [Goroutine -> {"unborn", "ready", "running", "awaiting", "parked", "nested", "done"}]
        /\ \A k \in Goroutine \ {g} : pc'[k] = pc[k]
        /\ pc'[g] = where
    BY <1>1, <1>2 DEF TypeOK
  <1>4. Queue'
    <2>1. \A i \in 1..Len(ready) : ready[i].g \in Goroutine \ {g} /\ pc'[ready[i].g] = "ready"
      BY <1>2, <1>3, TypeFacts DEF Queue
    <2>2. \A k \in Goroutine : pc'[k] = "running" <=> cur' = k
      BY <1>1, <1>2, <1>3, AsyncCallsAssumption DEF Queue
    <2> QED
      BY <1>2, <1>3, <2>1, <2>2 DEF Queue
  <1>5. Nesting'
    BY <1>1, <1>2, <1>3 DEF Nesting
  <1>6. vt' \in Goroutine \union {None}
    BY <1>1, <1>2 DEF Nesting, Loop
  <1> QED
    BY <1>1, <1>2, <1>3, <1>4, <1>5, <1>6

LEMMA CallImmediateKeeps ==
  ASSUME Invariant, NEW g \in Goroutine, CallImmediate(g)
  PROVE  Invariant'
  <1>1. /\ ops' = [ops EXCEPT ![g] = ops[g] + 1] /\ ops[g] < MaxOps
        /\ UNCHANGED <<pc, owner, ready, parked, callVars, hostVars, loopVars, cur, vt, halt>>
    BY DEF CallImmediate, StartOp
  <1>2. TypeOK'
    <2>1. ops' \in [Goroutine -> 0..MaxOps]
      BY <1>1, AsyncCallsAssumption DEF Invariant, TypeOK
    <2> QED
      BY <1>1, <2>1 DEF Invariant, TypeOK, callVars, hostVars, loopVars
  <1> QED
    BY <1>1, <1>2 DEF Invariant, ParkedCounts, Parkers, VThreads, Queue, Nesting, Requests,
       AnswersAreFetched, HostWork, StopSaw, FlagSet, Inner, callVars, hostVars, loopVars

LEMMA CallAsyncKeeps ==
  ASSUME Invariant, NEW g \in Goroutine, CallAsync(g)
  PROVE  Invariant'
  <1> DEFINE id == nextId + 1
             item == [g |-> g, vt |-> vt]
  <1>1. /\ halt = "no" /\ cur = g
        /\ ops' = [ops EXCEPT ![g] = ops[g] + 1] /\ ops[g] < MaxOps
        /\ nextId' = id
        /\ \/ inflight' = inflight \union {id} /\ out' = out
           \/ out' = Append(out, id) /\ inflight' = inflight
        /\ pending' = [j \in DOMAIN pending \union {id} |-> IF j = id THEN item ELSE pending[j]]
        /\ awaiting' = awaiting \union {id}
        /\ req' = [req EXCEPT ![g] = id]
        /\ Suspend(g, "awaiting")
        /\ UNCHANGED <<owner, ready, parked, results, stray, loops, halt>>
    BY DEF CallAsync, StartOp
  <1>2. /\ pc[g] = "running" /\ pc'[g] = "awaiting"
        /\ pc' \in [Goroutine -> {"unborn", "ready", "running", "awaiting", "parked", "nested", "done"}]
        /\ \A k \in Goroutine \ {g} : pc'[k] = pc[k]
        /\ cur' = None /\ vt' = Inner'.caller /\ phase' = "drain" /\ vt' \in Goroutine \union {None}
        /\ Queue' /\ Nesting'
    BY <1>1, Suspended
  <1>3. vt = g /\ item \in ReadyItem /\ item.g = g /\ item.vt = g
    <2>1. cur # None
      BY <1>1, AsyncCallsAssumption
    <2>2. vt = g
      BY <1>1, <2>1 DEF Invariant, VThreads
    <2> QED
      BY <2>2 DEF ReadyItem
  <1>4. /\ nextId \in Nat /\ id \in Nat \ {0} /\ id > nextId
        /\ TypeOK /\ Requests /\ AnswersAreFetched /\ HostWork /\ ParkedCounts /\ VThreads
        /\ \A h \in Goroutine : req[h] \in Nat /\ req[h] <= nextId
        /\ \A j \in DOMAIN pending \union results \union inflight : j \in Nat /\ j <= nextId
        /\ out \in Seq(Nat) /\ Len(out) \in Nat
        /\ \A i \in 1..Len(out) : out[i] \in Nat /\ out[i] <= nextId
    <2>1. nextId \in Nat /\ out \in Seq(Nat) /\ Len(out) \in Nat /\ TypeOK /\ Requests
      BY TypeFacts DEF Invariant
    <2>2. \A j \in DOMAIN pending \union results \union inflight : j \in Nat
      BY <2>1 DEF TypeOK, Id
    <2> QED
      BY <2>1, <2>2, TypeFacts DEF Invariant, Requests
  <1>5. /\ id \notin DOMAIN pending /\ id \notin results /\ id \notin inflight
        /\ \A h \in Goroutine : req[h] # id
        /\ \A i \in 1..Len(out) : out[i] # id
    BY <1>4
  <1>6. /\ Len(out') \in Nat /\ out' \in Seq(Nat)
        /\ \A i \in 1..Len(out) : i \in 1..Len(out') /\ out'[i] = out[i]
        /\ \A i \in 1..Len(out') : i \in 1..Len(out) \/ (out'[i] = id /\ inflight' = inflight)
        /\ id \in inflight' \/ \E i \in 1..Len(out') : out'[i] = id
    <2>1. CASE inflight' = inflight \union {id} /\ out' = out
      BY <1>4, <2>1
    <2>2. CASE out' = Append(out, id) /\ inflight' = inflight
      <3>1. /\ out' \in Seq(Nat) /\ Len(out') = Len(out) + 1
            /\ \A i \in 1..Len(out) : out'[i] = out[i]
            /\ out'[Len(out) + 1] = id
        BY <1>4, <2>2, AppendFacts
      <3>2. \A i \in 1..Len(out) + 1 : i \in 1..Len(out) \/ i = Len(out) + 1
        BY <1>4
      <3>3. /\ Len(out) + 1 \in 1..Len(out) + 1
            /\ \A i \in 1..Len(out) : i \in 1..Len(out) + 1
        BY <1>4
      <3> HIDE DEF id
      <3>4. \A i \in 1..Len(out') : i \in 1..Len(out) \/ (out'[i] = id /\ inflight' = inflight)
        BY <2>2, <3>1, <3>2
      <3>5. \E i \in 1..Len(out') : out'[i] = id
        BY <3>1, <3>3
      <3> QED
        BY <1>4, <3>1, <3>3, <3>4, <3>5
    <2> QED
      BY <1>1, <2>1, <2>2
  <1>7. /\ DOMAIN pending' = DOMAIN pending \union {id}
        /\ pending'[id] = item
        /\ \A j \in DOMAIN pending : pending'[j] = pending[j]
    BY <1>1, <1>5
  <1>8. /\ req' \in [Goroutine -> Nat] /\ req'[g] = id
        /\ \A k \in Goroutine \ {g} : req'[k] = req[k]
    BY <1>1, <1>4 DEF TypeOK, Id
  <1>9. inflight \subseteq inflight' /\ inflight' \subseteq inflight \union {id}
    BY <1>1
  <1>10. /\ out' \in Seq(Id \union {0}) /\ req' \in [Goroutine -> Id \union {0}] /\ id \in Id
    <2>1. Id \union {0} = Nat
      BY DEF Id
    <2> QED
      BY <1>4, <1>6, <1>8, <2>1 DEF Id
  <1>11. DOMAIN out' = 1..Len(out') /\ DOMAIN out = 1..Len(out)
    BY <1>4, <1>6, LenProperties
  <1>12. \A j \in DOMAIN pending' : j \in DOMAIN pending \/ j = id
    BY <1>7
  <1>13. awaiting' = awaiting \union {id} /\ results' = results /\ nextId' = id
    BY <1>1
  <1>14. ops' \in [Goroutine -> 0..MaxOps]
    BY <1>1, <1>4, AsyncCallsAssumption DEF TypeOK
  <1> HIDE DEF id, item
  <1>15. TypeOK'
    <2>1. DOMAIN pending' \subseteq Id /\ \A j \in DOMAIN pending' : pending'[j] \in ReadyItem
      BY <1>3, <1>4, <1>7, <1>10, <1>12 DEF TypeOK
    <2>2. inflight' \subseteq Id /\ awaiting' \subseteq Id /\ results' \subseteq Id /\ nextId' \in Id \union {0}
      BY <1>4, <1>9, <1>10, <1>13 DEF TypeOK
    <2>3. cur' \in Goroutine \union {None} /\ phase' \in {"drain", "loop"}
      BY <1>2
    <2> QED
      BY <1>1, <1>2, <1>4, <1>10, <1>14, <2>1, <2>2, <2>3 DEF TypeOK
  <1>16. ParkedCounts'
    <2>1. Parkers' = Parkers
      BY <1>2 DEF Parkers
    <2> QED
      BY <1>1, <1>4, <2>1 DEF ParkedCounts
  <1>17. VThreads'
    <2>1. Parkers' = Parkers
      BY <1>2 DEF Parkers
    <2> QED
      BY <1>1, <1>2, <1>3, <1>4, <1>7, <1>12, <2>1 DEF VThreads
  <1>18. Requests'
    <2>1. \A h \in Goroutine : req'[h] # 0 => pc'[h] \in {"awaiting", "ready"}
      BY <1>2, <1>4, <1>8 DEF Requests
    <2>2. \A h, k \in Goroutine : req'[h] = req'[k] /\ req'[h] # 0 => h = k
      BY <1>4, <1>5, <1>8 DEF Requests
    <2>3. \A h \in Goroutine : req'[h] <= nextId'
      BY <1>4, <1>8, <1>13
    <2>4. \A j \in DOMAIN pending' \union results' \union inflight' : j <= nextId'
      BY <1>4, <1>9, <1>12, <1>13
    <2>5. ASSUME NEW i \in 1..Len(out') PROVE out'[i] <= nextId'
      <3>1. CASE i \in 1..Len(out)
        BY <1>4, <1>6, <1>13, <3>1
      <3>2. CASE out'[i] = id
        BY <1>4, <1>13, <3>2
      <3> QED
        BY <1>6, <3>1, <3>2
    <2> QED
      BY <2>1, <2>2, <2>3, <2>4, <2>5 DEF Requests
  <1>19. AnswersAreFetched'
    <2>1. \A h \in Goroutine :
            /\ pc'[h] = "awaiting" => req'[h] \in DOMAIN pending' /\ pending'[req'[h]].g = h
            /\ pc'[h] = "ready" /\ req'[h] # 0 => req'[h] \in results'
      BY <1>2, <1>3, <1>4, <1>7, <1>8, <1>13 DEF AnswersAreFetched
    <2>2. \A j \in DOMAIN pending' : pc'[pending'[j].g] = "awaiting" /\ req'[pending'[j].g] = j
      BY <1>2, <1>3, <1>4, <1>7, <1>8, <1>12, TypeFacts DEF AnswersAreFetched
    <2>3. \A j \in results' : \E h \in Goroutine : pc'[h] = "ready" /\ req'[h] = j
      BY <1>2, <1>4, <1>8, <1>13 DEF AnswersAreFetched
    <2>4. \A j \in DOMAIN pending' : j \in inflight' \/ \E i \in 1..Len(out') : out'[i] = j
      BY <1>4, <1>6, <1>9, <1>11, <1>12 DEF AnswersAreFetched
    <2>5. awaiting' = DOMAIN pending'
      BY <1>4, <1>7, <1>13 DEF AnswersAreFetched
    <2> QED
      BY <1>11, <2>1, <2>2, <2>3, <2>4, <2>5 DEF AnswersAreFetched
  <1>20. HostWork'
    <2>1. inflight' \subseteq DOMAIN pending'
      BY <1>4, <1>7, <1>9 DEF HostWork
    <2>2. \A i \in 1..Len(out') : out'[i] \notin inflight'
      BY <1>4, <1>5, <1>6, <1>9 DEF HostWork
    <2> QED
      BY <2>1, <2>2 DEF HostWork
  <1>21. StopSaw'
    BY <1>1 DEF StopSaw
  <1> QED
    BY <1>2, <1>15, <1>16, <1>17, <1>18, <1>19, <1>20, <1>21 DEF Invariant

LEMMA ParkKeeps ==
  ASSUME Invariant, NEW g \in Goroutine, Park(g)
  PROVE  Invariant'
  <1>1. /\ halt = "no" /\ cur = g
        /\ ops' = [ops EXCEPT ![g] = ops[g] + 1] /\ ops[g] < MaxOps
        /\ owner' = [owner EXCEPT ![g] = vt]
        /\ parked' = parked + 1
        /\ Suspend(g, "parked")
        /\ UNCHANGED <<ready, loops, halt, req, pending, results, awaiting, nextId, inflight, out, stray>>
    BY DEF Park, StartOp, callVars, hostVars
  <1>2. /\ pc[g] = "running" /\ pc'[g] = "parked"
        /\ pc' \in [Goroutine -> {"unborn", "ready", "running", "awaiting", "parked", "nested", "done"}]
        /\ \A k \in Goroutine \ {g} : pc'[k] = pc[k]
        /\ cur' = None /\ vt' = Inner'.caller /\ phase' = "drain" /\ vt' \in Goroutine \union {None}
        /\ Queue' /\ Nesting'
    BY <1>1, Suspended
  <1>3. /\ TypeOK /\ VThreads /\ ParkedCounts /\ Requests /\ AnswersAreFetched /\ HostWork
        /\ cur # None /\ vt = g
    BY <1>1, AsyncCallsAssumption DEF Invariant, VThreads
  <1>4. /\ Parkers' = Parkers \union {g} /\ g \notin Parkers
    BY <1>2 DEF Parkers
  <1>5. ParkedCounts' /\ parked' \in 0..Cardinality(Goroutine)
    <2>1. Cardinality(Parkers \union {g}) = Cardinality(Parkers) + 1
      BY <1>4, ParkersFinite, FS_AddElement
    <2>2. Parkers' \subseteq Goroutine
      BY DEF Parkers
    <2>3. Cardinality(Parkers') <= Cardinality(Goroutine) /\ Cardinality(Parkers) \in Nat
      BY <2>2, AsyncCallsAssumption, ParkersFinite, FS_Subset
    <2>4. parked' = Cardinality(Parkers')
      BY <1>1, <1>3, <1>4, <2>1 DEF ParkedCounts
    <2>5. parked' = Cardinality(Parkers) + 1 /\ Cardinality(Goroutine) \in Nat
      BY <1>4, <2>1, <2>4, AsyncCallsAssumption, FS_CardinalityType
    <2> QED
      BY <2>3, <2>4, <2>5 DEF ParkedCounts
  <1>6. /\ owner' \in [Goroutine -> Goroutine \union {None}] /\ owner'[g] = g
        /\ \A k \in Goroutine \ {g} : owner'[k] = owner[k]
        /\ ops' \in [Goroutine -> 0..MaxOps]
    BY <1>1, <1>3, AsyncCallsAssumption DEF TypeOK
  <1>7. TypeOK'
    BY <1>1, <1>2, <1>3, <1>5, <1>6 DEF TypeOK
  <1>8. VThreads'
    BY <1>1, <1>2, <1>3, <1>4, <1>6 DEF VThreads
  <1>9. Requests'
    BY <1>1, <1>2, <1>3 DEF Requests
  <1>10. AnswersAreFetched'
    <2>1. \A k \in Goroutine : /\ pc'[k] = "ready" <=> pc[k] = "ready"
                              /\ pc'[k] = "awaiting" <=> pc[k] = "awaiting"
      BY <1>2
    <2>2. \A id \in DOMAIN pending : pending[id].g \in Goroutine
      BY TypeFacts
    <2>3. \A k \in Goroutine :
            /\ pc'[k] = "awaiting" => req[k] \in DOMAIN pending /\ pending[req[k]].g = k
            /\ pc'[k] = "ready" /\ req[k] # 0 => req[k] \in results
      BY <1>2, <1>3 DEF AnswersAreFetched
    <2>4. \A id \in DOMAIN pending : pc'[pending[id].g] = "awaiting" /\ req[pending[id].g] = id
      BY <1>3, <2>1, <2>2 DEF AnswersAreFetched
    <2>5. \A id \in results : \E k \in Goroutine : pc'[k] = "ready" /\ req[k] = id
      BY <1>2, <1>3 DEF AnswersAreFetched
    <2> QED
      BY <1>1, <1>3, <2>3, <2>4, <2>5 DEF AnswersAreFetched
  <1>11. HostWork' /\ StopSaw'
    BY <1>1, <1>3 DEF HostWork, StopSaw
  <1> QED
    BY <1>2, <1>5, <1>7, <1>8, <1>9, <1>10, <1>11 DEF Invariant

LEMMA FinishKeeps ==
  ASSUME Invariant, NEW g \in Goroutine, Finish(g)
  PROVE  Invariant'
  <1>1. /\ halt = "no" /\ cur = g
        /\ Suspend(g, "done")
        /\ UNCHANGED <<ops, owner, ready, parked, loops, halt, req, pending, results, awaiting,
                       nextId, inflight, out, stray>>
    BY DEF Finish, callVars, hostVars
  <1>2. /\ pc[g] = "running" /\ pc'[g] = "done"
        /\ pc' \in [Goroutine -> {"unborn", "ready", "running", "awaiting", "parked", "nested", "done"}]
        /\ \A k \in Goroutine \ {g} : pc'[k] = pc[k]
        /\ cur' = None /\ vt' = Inner'.caller /\ phase' = "drain" /\ vt' \in Goroutine \union {None}
        /\ Queue' /\ Nesting'
    BY <1>1, Suspended
  <1>3. /\ TypeOK /\ VThreads /\ ParkedCounts /\ Requests /\ AnswersAreFetched /\ HostWork
        /\ cur # None /\ vt = g
    BY <1>1, AsyncCallsAssumption DEF Invariant, VThreads
  <1>4. Parkers' = Parkers
    BY <1>2 DEF Parkers
  <1>5. ParkedCounts'
    BY <1>1, <1>3, <1>4 DEF ParkedCounts
  <1>6. TypeOK'
    BY <1>1, <1>2, <1>3 DEF TypeOK
  <1>7. VThreads'
    BY <1>1, <1>2, <1>3, <1>4 DEF VThreads
  <1>8. Requests'
    BY <1>1, <1>2, <1>3 DEF Requests
  <1>9. AnswersAreFetched'
    <2>1. \A k \in Goroutine : /\ pc'[k] = "ready" <=> pc[k] = "ready"
                              /\ pc'[k] = "awaiting" <=> pc[k] = "awaiting"
      BY <1>2
    <2>2. \A id \in DOMAIN pending : pending[id].g \in Goroutine
      BY TypeFacts
    <2>3. \A k \in Goroutine :
            /\ pc'[k] = "awaiting" => req[k] \in DOMAIN pending /\ pending[req[k]].g = k
            /\ pc'[k] = "ready" /\ req[k] # 0 => req[k] \in results
      BY <1>2, <1>3 DEF AnswersAreFetched
    <2>4. \A id \in DOMAIN pending : pc'[pending[id].g] = "awaiting" /\ req[pending[id].g] = id
      BY <1>3, <2>1, <2>2 DEF AnswersAreFetched
    <2>5. \A id \in results : \E k \in Goroutine : pc'[k] = "ready" /\ req[k] = id
      BY <1>2, <1>3 DEF AnswersAreFetched
    <2> QED
      BY <1>1, <1>3, <2>3, <2>4, <2>5 DEF AnswersAreFetched
  <1>10. HostWork' /\ StopSaw'
    BY <1>1, <1>3 DEF HostWork, StopSaw
  <1> QED
    BY <1>2, <1>5, <1>6, <1>7, <1>8, <1>9, <1>10 DEF Invariant

LEMMA WakeKeeps ==
  ASSUME Invariant, NEW g \in Goroutine, NEW h \in Goroutine, Wake(g, h)
  PROVE  Invariant'
  <1>1. /\ halt = "no" /\ cur = g
        /\ ops' = [ops EXCEPT ![g] = ops[g] + 1] /\ ops[g] < MaxOps
        /\ pc[h] = "parked" /\ pc' = [pc EXCEPT ![h] = "ready"]
        /\ ready' = Append(ready, [g |-> h, vt |-> owner[h]])
        /\ parked' = parked - 1
        /\ UNCHANGED <<owner, req, pending, results, awaiting, nextId, inflight, out, stray,
                       loops, phase, cur, vt, halt>>
    BY DEF Wake, StartOp, Unparked, callVars, hostVars, loopVars
  <1>2. /\ TypeOK /\ VThreads /\ ParkedCounts /\ Queue /\ Nesting /\ Requests
        /\ AnswersAreFetched /\ HostWork
        /\ h \in Parkers /\ owner[h] = h
    BY <1>1 DEF Invariant, VThreads, Parkers
  <1>3. /\ pc' \in [Goroutine -> {"unborn", "ready", "running", "awaiting", "parked", "nested", "done"}]
        /\ pc'[h] = "ready" /\ \A k \in Goroutine \ {h} : pc'[k] = pc[k]
        /\ ops' \in [Goroutine -> 0..MaxOps]
    BY <1>1, <1>2, AsyncCallsAssumption DEF TypeOK
  <1>4. /\ ready' \in Seq(ReadyItem) /\ Queue'
        /\ \A i \in 1..Len(ready') : ready'[i].vt = ready'[i].g
    <2>1. \A k \in Goroutine : pc'[k] = "running" <=> cur' = k
      BY <1>1, <1>2, <1>3 DEF Queue
    <2> QED
      BY <1>1, <1>2, <1>3, <2>1, Enqueued
  <1>5. Parkers' = Parkers \ {h}
    BY <1>1, <1>3 DEF Parkers
  <1>6. ParkedCounts' /\ parked' \in 0..Cardinality(Goroutine)
    <2>1. Cardinality(Parkers \ {h}) = Cardinality(Parkers) - 1
      BY <1>2, ParkersFinite, FS_RemoveElement
    <2>2. Parkers' \subseteq Goroutine
      BY DEF Parkers
    <2>3. /\ Cardinality(Parkers') <= Cardinality(Goroutine) /\ Cardinality(Parkers') \in Nat
          /\ Cardinality(Goroutine) \in Nat
      BY <2>2, AsyncCallsAssumption, FS_Subset, FS_CardinalityType
    <2>4. parked' = Cardinality(Parkers')
      BY <1>1, <1>2, <1>5, <2>1 DEF ParkedCounts
    <2> QED
      BY <2>3, <2>4 DEF ParkedCounts
  <1>7. TypeOK'
    BY <1>1, <1>2, <1>3, <1>4, <1>6 DEF TypeOK
  <1>8. VThreads'
    <2>1. Inner' = Inner
      BY <1>1 DEF Inner
    <2> QED
      BY <1>1, <1>2, <1>4, <1>5, <2>1 DEF VThreads
  <1>9. Nesting'
    BY <1>1, <1>2, <1>3 DEF Nesting, Inner
  <1>10. Requests'
    BY <1>1, <1>2, <1>3 DEF Requests
  <1>11. AnswersAreFetched'
    <2>1. req[h] = 0 /\ \A id \in DOMAIN pending : pending[id].g # h
      BY <1>1, <1>2 DEF Requests, AnswersAreFetched
    <2> QED
      BY <1>1, <1>2, <1>3, <2>1, TypeFacts DEF AnswersAreFetched
  <1>12. HostWork' /\ StopSaw'
    BY <1>1, <1>2 DEF HostWork, StopSaw
  <1> QED
    BY <1>4, <1>6, <1>7, <1>8, <1>9, <1>10, <1>11, <1>12 DEF Invariant

LEMMA GoKeeps ==
  ASSUME Invariant, NEW g \in Goroutine, NEW h \in Goroutine, Go(g, h)
  PROVE  Invariant'
  <1>1. /\ halt = "no" /\ cur = g
        /\ pc[h] = "unborn" /\ pc' = [pc EXCEPT ![h] = "ready"]
        /\ ready' = Append(ready, [g |-> h, vt |-> h])
        /\ UNCHANGED <<ops, owner, parked, req, pending, results, awaiting, nextId, inflight, out,
                       stray, loops, phase, cur, vt, halt>>
    BY DEF Go, Spawn, callVars, hostVars, loopVars
  <1>2. /\ TypeOK /\ VThreads /\ ParkedCounts /\ Queue /\ Nesting /\ Requests
        /\ AnswersAreFetched /\ HostWork
    BY DEF Invariant
  <1>3. /\ pc' \in [Goroutine -> {"unborn", "ready", "running", "awaiting", "parked", "nested", "done"}]
        /\ pc'[h] = "ready" /\ \A k \in Goroutine \ {h} : pc'[k] = pc[k]
    BY <1>1, <1>2 DEF TypeOK
  <1>4. /\ ready' \in Seq(ReadyItem) /\ Queue'
        /\ \A i \in 1..Len(ready') : ready'[i].vt = ready'[i].g
    <2>1. \A k \in Goroutine : pc'[k] = "running" <=> cur' = k
      BY <1>1, <1>2, <1>3 DEF Queue
    <2> QED
      BY <1>1, <1>2, <1>3, <2>1, Enqueued
  <1>5. Parkers' = Parkers
    BY <1>1, <1>3 DEF Parkers
  <1>6. ParkedCounts'
    BY <1>1, <1>2, <1>5 DEF ParkedCounts
  <1>7. TypeOK'
    BY <1>1, <1>2, <1>3, <1>4 DEF TypeOK
  <1>8. VThreads'
    <2>1. Inner' = Inner
      BY <1>1 DEF Inner
    <2> QED
      BY <1>1, <1>2, <1>4, <1>5, <2>1 DEF VThreads
  <1>9. Nesting'
    BY <1>1, <1>2, <1>3 DEF Nesting, Inner
  <1>10. Requests'
    BY <1>1, <1>2, <1>3 DEF Requests
  <1>11. AnswersAreFetched'
    <2>1. req[h] = 0 /\ \A id \in DOMAIN pending : pending[id].g # h
      BY <1>1, <1>2 DEF Requests, AnswersAreFetched
    <2> QED
      BY <1>1, <1>2, <1>3, <2>1, TypeFacts DEF AnswersAreFetched
  <1>12. HostWork' /\ StopSaw'
    BY <1>1, <1>2 DEF HostWork, StopSaw
  <1> QED
    BY <1>4, <1>6, <1>7, <1>8, <1>9, <1>10, <1>11, <1>12 DEF Invariant

LEMMA DeferAsyncKeeps ==
  ASSUME Invariant, NEW g \in Goroutine, NEW h \in Goroutine, DeferAsync(g, h)
  PROVE  Invariant'
  <1> DEFINE n == Len(loops)
             l == [caller |-> g, waits |-> h]
  <1>1. /\ halt = "no" /\ cur = g /\ cur' = None
        /\ ops' = [ops EXCEPT ![g] = ops[g] + 1] /\ ops[g] < MaxOps
        /\ pc[h] = "unborn" /\ pc' = [pc EXCEPT ![h] = "ready", ![g] = "nested"]
        /\ ready' = Append(ready, [g |-> h, vt |-> h])
        /\ loops' = Append(loops, l) /\ phase' = "loop"
        /\ UNCHANGED <<owner, parked, req, pending, results, awaiting, nextId, inflight, out,
                       stray, vt, halt>>
    BY DEF DeferAsync, StartOp, Spawn, callVars, hostVars
  <1>2. /\ TypeOK /\ VThreads /\ ParkedCounts /\ Queue /\ Nesting /\ Requests
        /\ AnswersAreFetched /\ HostWork
        /\ cur # None /\ vt = g /\ pc[g] = "running" /\ h # g
    BY <1>1, AsyncCallsAssumption DEF Invariant, VThreads, Queue
  <1>3. /\ pc' \in [Goroutine -> {"unborn", "ready", "running", "awaiting", "parked", "nested", "done"}]
        /\ pc'[h] = "ready" /\ pc'[g] = "nested" /\ \A k \in Goroutine \ {g, h} : pc'[k] = pc[k]
        /\ ops' \in [Goroutine -> 0..MaxOps]
    <2>1. ops' \in [Goroutine -> 0..MaxOps]
      BY <1>1, <1>2, AsyncCallsAssumption DEF TypeOK
    <2>2. pc \in [Goroutine -> {"unborn", "ready", "running", "awaiting", "parked", "nested", "done"}]
      BY <1>2 DEF TypeOK
    <2> QED
      BY <1>1, <1>2, <2>1, <2>2
  <1>4. /\ ready' \in Seq(ReadyItem) /\ Queue'
        /\ \A i \in 1..Len(ready') : ready'[i].vt = ready'[i].g
    <2>1. \A k \in Goroutine : pc'[k] = "running" <=> cur' = k
      BY <1>1, <1>2, <1>3, AsyncCallsAssumption DEF Queue
    <2>2. \A k \in Goroutine \ {h} : pc'[k] = "ready" <=> pc[k] = "ready"
      BY <1>2, <1>3
    <2> QED
      BY <1>1, <1>3, <2>1, <2>2, Enqueued
  <1>5. Parkers' = Parkers
    BY <1>1, <1>2, <1>3 DEF Parkers
  <1>6. ParkedCounts'
    BY <1>1, <1>2, <1>5 DEF ParkedCounts
  <1>7. /\ n \in Nat \ {0} /\ l \in Loop /\ l.caller = g /\ l.waits = h
        /\ loops' \in Seq(Loop) /\ Len(loops') = n + 1 /\ loops'[n + 1] = l
        /\ \A i \in 1..n : loops'[i] = loops[i]
    <2>1. l \in Loop /\ loops \in Seq(Loop) /\ n \in Nat \ {0}
      BY TypeFacts DEF Loop
    <2> QED
      BY <1>1, <2>1, AppendFacts
  <1> HIDE DEF n, l
  <1>8. TypeOK'
    <2>1. loops' # <<>>
      BY <1>7, EmptySeq
    <2> QED
      BY <1>1, <1>2, <1>3, <1>4, <1>7, <2>1 DEF TypeOK
  <1>9. VThreads'
    <2>1. Inner' = l
      BY <1>7 DEF Inner
    <2> QED
      BY <1>1, <1>2, <1>4, <1>5, <1>7, <2>1 DEF VThreads
  <1>10. Nesting'
    <2>1. Inner' \in Loop /\ Len(loops') \in Nat \ {0}
      BY <1>7 DEF Inner
    <2>2. loops'[1] = [caller |-> None, waits |-> None]
      BY <1>2, <1>7 DEF Nesting
    <2>3. \A i \in 2..n + 1 : (i \in 2..n /\ i \in 1..n) \/ i = n + 1
      BY <1>7
    <2>4. \A i \in 2..n : loops[i].caller \in Goroutine \ {g, h} /\ pc[loops[i].caller] = "nested"
      BY <1>1, <1>2 DEF Nesting, n
    <2>5. ASSUME NEW i \in 2..n + 1
          PROVE  loops'[i].caller \in Goroutine /\ loops'[i].waits \in Goroutine /\ pc'[loops'[i].caller] = "nested"
      <3>1. CASE i \in 2..n /\ i \in 1..n
        BY <1>2, <1>3, <1>7, <2>4, <3>1 DEF Nesting, n
      <3>2. CASE i = n + 1
        BY <1>3, <1>7, <3>2
      <3> QED
        BY <2>3, <3>1, <3>2
    <2>6. ASSUME NEW i \in 2..n + 1, NEW j \in 2..n + 1, loops'[i].caller = loops'[j].caller
          PROVE  i = j
      BY <1>2, <1>7, <2>3, <2>4, <2>6 DEF Nesting, n
    <2> QED
      BY <1>7, <2>1, <2>2, <2>5, <2>6 DEF Nesting
  <1>11. Requests'
    BY <1>1, <1>2, <1>3 DEF Requests
  <1>12. AnswersAreFetched'
    <2>1. /\ req[h] = 0 /\ req[g] = 0
          /\ \A id \in DOMAIN pending : pending[id].g \in Goroutine \ {g, h}
      BY <1>1, <1>2, TypeFacts DEF Requests, AnswersAreFetched
    <2> QED
      BY <1>1, <1>2, <1>3, <2>1 DEF AnswersAreFetched
  <1>13. HostWork' /\ StopSaw'
    BY <1>1, <1>2 DEF HostWork, StopSaw
  <1> QED
    BY <1>4, <1>6, <1>8, <1>9, <1>10, <1>11, <1>12, <1>13 DEF Invariant

-----------------------------------------------------------------------------
(* The host and the loops keep it *)

LEMMA HostAnswersKeeps == Invariant /\ HostAnswers => Invariant'
  <1> SUFFICES ASSUME Invariant, HostAnswers PROVE Invariant'
    OBVIOUS
  <1>1. PICK id \in inflight : inflight' = inflight \ {id} /\ out' = Append(out, id)
    BY DEF HostAnswers
  <1>2. /\ halt = "no"
        /\ UNCHANGED <<pc, ops, owner, ready, parked, req, pending, results, awaiting, nextId,
                       stray, loops, phase, cur, vt, halt>>
    BY DEF HostAnswers, callVars, loopVars
  <1>3. /\ TypeOK /\ Requests /\ AnswersAreFetched /\ HostWork
        /\ id \in Id /\ id \in Nat /\ id <= nextId
        /\ out \in Seq(Nat) /\ Len(out) \in Nat
    BY TypeFacts DEF Invariant, Requests, TypeOK, Id
  <1>4. /\ out' \in Seq(Nat) /\ Len(out') = Len(out) + 1
        /\ \A i \in 1..Len(out) : out'[i] = out[i]
        /\ out'[Len(out) + 1] = id
    BY <1>1, <1>3, AppendFacts
  <1>5. /\ \A i \in 1..Len(out') : i \in 1..Len(out) \/ i = Len(out) + 1
        /\ Len(out) + 1 \in 1..Len(out')
        /\ \A i \in 1..Len(out) : i \in 1..Len(out')
    BY <1>3, <1>4
  <1>6. out' \in Seq(Id \union {0}) /\ DOMAIN out = 1..Len(out) /\ DOMAIN out' = 1..Len(out')
    <2>1. Id \union {0} = Nat
      BY DEF Id
    <2> QED
      BY <1>3, <1>4, <2>1, LenProperties
  <1>7. TypeOK'
    BY <1>1, <1>2, <1>3, <1>6 DEF TypeOK
  <1>8. ParkedCounts' /\ VThreads' /\ Queue' /\ Nesting' /\ StopSaw'
    BY <1>2 DEF Invariant, ParkedCounts, Parkers, VThreads, Queue, Nesting, StopSaw, Inner
  <1>9. Requests'
    BY <1>1, <1>2, <1>3, <1>4, <1>5 DEF Requests
  <1>10. AnswersAreFetched'
    <2>1. \A j \in DOMAIN pending : j \in inflight' \/ \E i \in DOMAIN out' : out'[i] = j
      BY <1>1, <1>3, <1>4, <1>5, <1>6 DEF AnswersAreFetched
    <2> QED
      BY <1>2, <1>3, <2>1 DEF AnswersAreFetched
  <1>11. HostWork'
    BY <1>1, <1>2, <1>3, <1>4, <1>5 DEF HostWork
  <1> QED
    BY <1>7, <1>8, <1>9, <1>10, <1>11 DEF Invariant

LEMMA HostStraysKeeps == Invariant /\ HostStrays => Invariant'
  <1> SUFFICES ASSUME Invariant, HostStrays PROVE Invariant'
    OBVIOUS
  <1>1. /\ halt = "no" /\ stray < MaxStray /\ stray' = stray + 1 /\ out' = Append(out, 0)
        /\ UNCHANGED <<pc, ops, owner, ready, parked, req, pending, results, awaiting, nextId,
                       inflight, loops, phase, cur, vt, halt>>
    BY DEF HostStrays, callVars, loopVars
  <1>2. /\ TypeOK /\ Requests /\ AnswersAreFetched /\ HostWork
        /\ out \in Seq(Nat) /\ Len(out) \in Nat /\ nextId \in Nat /\ 0 \notin inflight
    BY TypeFacts DEF Invariant, TypeOK, Id
  <1>3. /\ out' \in Seq(Nat) /\ Len(out') = Len(out) + 1
        /\ \A i \in 1..Len(out) : out'[i] = out[i]
        /\ out'[Len(out) + 1] = 0
    BY <1>1, <1>2, AppendFacts
  <1>4. /\ \A i \in 1..Len(out') : i \in 1..Len(out) \/ i = Len(out) + 1
        /\ \A i \in 1..Len(out) : i \in 1..Len(out')
    BY <1>2, <1>3
  <1>5. out' \in Seq(Id \union {0}) /\ DOMAIN out = 1..Len(out) /\ DOMAIN out' = 1..Len(out')
    <2>1. Id \union {0} = Nat
      BY DEF Id
    <2> QED
      BY <1>2, <1>3, <2>1, LenProperties
  <1>6. TypeOK'
    <2>1. stray' \in 0..MaxStray
      BY <1>1, <1>2, AsyncCallsAssumption DEF TypeOK
    <2> QED
      BY <1>1, <1>2, <1>5, <2>1 DEF TypeOK
  <1>7. ParkedCounts' /\ VThreads' /\ Queue' /\ Nesting' /\ StopSaw'
    BY <1>1 DEF Invariant, ParkedCounts, Parkers, VThreads, Queue, Nesting, StopSaw, Inner
  <1>8. Requests'
    BY <1>1, <1>2, <1>3, <1>4 DEF Requests
  <1>9. AnswersAreFetched'
    <2>1. \A j \in DOMAIN pending : j \in inflight' \/ \E i \in DOMAIN out' : out'[i] = j
      BY <1>1, <1>2, <1>3, <1>4, <1>5 DEF AnswersAreFetched
    <2> QED
      BY <1>1, <1>2, <2>1 DEF AnswersAreFetched
  <1>10. HostWork'
    BY <1>1, <1>2, <1>3, <1>4 DEF HostWork
  <1> QED
    BY <1>6, <1>7, <1>8, <1>9, <1>10 DEF Invariant

\* PollOne or WaitOne hands out the oldest completion.
LEMMA Popped ==
  ASSUME Invariant, out # <<>>, out' = Tail(out)
  PROVE  /\ out' \in Seq(Id \union {0}) /\ Head(out) \in Nat
         /\ \A i \in 1..Len(out') : \E j \in 1..Len(out) : out'[i] = out[j]
         /\ \A j \in 1..Len(out) : out[j] = Head(out) \/ \E i \in 1..Len(out') : out'[i] = out[j]
         /\ \E j \in 1..Len(out) : out[j] = Head(out)
         /\ DOMAIN out = 1..Len(out) /\ DOMAIN out' = 1..Len(out')
  <1>1. /\ out' \in Seq(Nat) /\ Len(out) \in Nat \ {0} /\ Len(out') = Len(out) - 1
        /\ \A i \in 1..Len(out) - 1 : out'[i] = out[i + 1]
        /\ Head(out) = out[1] /\ Head(out) \in Nat
    BY TypeFacts, TailFacts
  <1>2. Id \union {0} = Nat
    BY DEF Id
  <1>3. ASSUME NEW i \in 1..Len(out') PROVE \E j \in 1..Len(out) : out'[i] = out[j]
    <2>1. i \in 1..Len(out) - 1 /\ i + 1 \in 1..Len(out)
      BY <1>1
    <2> QED
      BY <1>1, <2>1
  <1>4. ASSUME NEW j \in 1..Len(out), out[j] # Head(out)
        PROVE  \E i \in 1..Len(out') : out'[i] = out[j]
    <2>1. j # 1
      BY <1>1, <1>4
    <2>2. j - 1 \in 1..Len(out) - 1 /\ (j - 1) + 1 = j
      BY <1>1, <2>1
    <2>3. out'[j - 1] = out[j]
      BY <1>1, <2>2
    <2> QED
      BY <1>1, <2>2, <2>3
  <1>5. 1 \in 1..Len(out)
    BY <1>1
  <1>6. DOMAIN out = 1..Len(out) /\ DOMAIN out' = 1..Len(out')
    BY <1>1, TypeFacts, LenProperties
  <1> QED
    BY <1>1, <1>2, <1>3, <1>4, <1>5, <1>6

LEMMA CompletionKeeps ==
  ASSUME Invariant, halt = "no", cur = None, out # <<>>, ApplyCompletion,
         UNCHANGED <<ops, owner, parked, req, nextId, inflight, stray, loops, phase, cur, vt, halt>>
  PROVE  Invariant'
  <1> DEFINE id == Head(out)
             g == pending[id].g
  <1>1. /\ TypeOK /\ VThreads /\ ParkedCounts /\ Queue /\ Nesting /\ Requests
        /\ AnswersAreFetched /\ HostWork
        /\ out' = Tail(out)
    BY DEF Invariant, ApplyCompletion
  <1>2. /\ out' \in Seq(Id \union {0}) /\ id \in Nat
        /\ \A i \in 1..Len(out') : \E j \in 1..Len(out) : out'[i] = out[j]
        /\ \A j \in 1..Len(out) : out[j] = id \/ \E i \in 1..Len(out') : out'[i] = out[j]
        /\ \E j \in 1..Len(out) : out[j] = id
        /\ DOMAIN out = 1..Len(out) /\ DOMAIN out' = 1..Len(out')
    BY <1>1, Popped
  <1>3. CASE id \notin DOMAIN pending
    <2>1. UNCHANGED <<awaiting, results, ready, pc, pending>>
      BY <1>3 DEF ApplyCompletion, Woken
    <2>2. TypeOK'
      BY <1>1, <1>2, <2>1 DEF TypeOK
    <2>3. ParkedCounts' /\ VThreads' /\ Queue' /\ Nesting' /\ StopSaw'
      BY <1>1, <2>1 DEF ParkedCounts, Parkers, VThreads, Queue, Nesting, StopSaw, Inner
    <2>4. Requests' /\ HostWork'
      BY <1>1, <1>2, <2>1 DEF Requests, HostWork
    <2>5. AnswersAreFetched'
      <3>1. ASSUME NEW j \in DOMAIN pending
            PROVE  j \in inflight \/ \E i \in 1..Len(out') : out'[i] = j
        <4>1. j \in inflight \/ \E i \in 1..Len(out) : out[i] = j
          BY <1>1, <1>2 DEF AnswersAreFetched
        <4>2. j # id
          BY <1>3
        <4> QED
          BY <1>2, <4>1, <4>2
      <3> QED
        BY <1>1, <1>2, <2>1, <3>1 DEF AnswersAreFetched
    <2> QED
      BY <2>2, <2>3, <2>4, <2>5 DEF Invariant
  <1>4. CASE id \in DOMAIN pending
    <2>1. /\ awaiting' = awaiting \ {id} /\ results' = results \union {id}
          /\ ready' = Append(ready, pending[id])
          /\ pc' = [pc EXCEPT ![g] = "ready"]
          /\ pending' = [j \in DOMAIN pending \ {id} |-> pending[j]]
      BY <1>4 DEF ApplyCompletion, Woken, Stored, Restrict
    <2>2. /\ g \in Goroutine /\ pending[id] = [g |-> g, vt |-> g]
          /\ pc[g] = "awaiting" /\ req[g] = id /\ id \in Id /\ id <= nextId
      <3>1. pending[id] \in ReadyItem /\ pending[id].vt = pending[id].g
        BY <1>1, <1>4 DEF TypeOK, VThreads
      <3>2. pending[id] = [g |-> g, vt |-> g] /\ g \in Goroutine
        BY <3>1 DEF ReadyItem
      <3> QED
        BY <1>1, <1>4, <3>2 DEF AnswersAreFetched, TypeOK, Requests
    <2> HIDE DEF g, id
    <2>3. /\ DOMAIN pending' = DOMAIN pending \ {id}
          /\ \A j \in DOMAIN pending' : pending'[j] = pending[j]
      BY <2>1
    <2>4. /\ pc' \in [Goroutine -> {"unborn", "ready", "running", "awaiting", "parked", "nested", "done"}]
          /\ pc'[g] = "ready" /\ \A k \in Goroutine \ {g} : pc'[k] = pc[k]
      BY <1>1, <2>1, <2>2 DEF TypeOK
    <2>5. /\ ready' \in Seq(ReadyItem) /\ Queue'
          /\ \A i \in 1..Len(ready') : ready'[i].vt = ready'[i].g
      <3>1. \A k \in Goroutine : pc'[k] = "running" <=> cur' = k
        BY <1>1, <2>2, <2>4 DEF Queue
      <3> QED
        BY <2>1, <2>2, <2>4, <3>1, Enqueued
    <2>6. Parkers' = Parkers /\ Inner' = Inner
      BY <2>2, <2>4 DEF Parkers, Inner
    <2>7. TypeOK'
      <3>1. \A j \in DOMAIN pending' : pending'[j] \in ReadyItem
        BY <1>1, <2>3 DEF TypeOK
      <3> QED
        BY <1>1, <1>2, <2>1, <2>2, <2>3, <2>4, <2>5, <3>1 DEF TypeOK
    <2>8. ParkedCounts' /\ VThreads'
      BY <1>1, <2>3, <2>5, <2>6 DEF ParkedCounts, VThreads
    <2>9. Nesting'
      BY <1>1, <2>2, <2>4 DEF Nesting, Inner
    <2>10. Requests'
      BY <1>1, <1>2, <2>1, <2>2, <2>3, <2>4 DEF Requests
    <2>11. AnswersAreFetched'
      <3>1. \A h \in Goroutine :
              /\ pc'[h] = "awaiting" => req'[h] \in DOMAIN pending' /\ pending'[req'[h]].g = h
              /\ pc'[h] = "ready" /\ req'[h] # 0 => req'[h] \in results'
        <4> SUFFICES ASSUME NEW h \in Goroutine
                     PROVE  /\ pc'[h] = "awaiting" => req[h] \in DOMAIN pending' /\ pending'[req[h]].g = h
                            /\ pc'[h] = "ready" /\ req[h] # 0 => req[h] \in results'
          OBVIOUS
        <4>1. CASE h = g
          BY <2>1, <2>2, <2>4, <4>1
        <4>2. CASE h # g
          <5>1. req[h] # id \/ req[h] = 0
            BY <1>1, <2>2, <4>2 DEF Requests
          <5>2. id # 0
            BY <2>2 DEF Id
          <5> QED
            BY <1>1, <2>1, <2>3, <2>4, <4>2, <5>1, <5>2 DEF AnswersAreFetched
        <4> QED
          BY <4>1, <4>2
      <3>2. \A j \in DOMAIN pending' : pc'[pending'[j].g] = "awaiting" /\ req'[pending'[j].g] = j
        <4>1. ASSUME NEW j \in DOMAIN pending, j # id
              PROVE  pc'[pending[j].g] = "awaiting" /\ req[pending[j].g] = j
          <5>1. pending[j].g \in Goroutine /\ pc[pending[j].g] = "awaiting" /\ req[pending[j].g] = j
            BY <1>1, TypeFacts DEF AnswersAreFetched
          <5>2. pending[j].g # g
            BY <2>2, <4>1, <5>1
          <5> QED
            BY <2>4, <5>1, <5>2
        <4> QED
          BY <2>3, <4>1
      <3>3. \A j \in results' : \E h \in Goroutine : pc'[h] = "ready" /\ req'[h] = j
        <4>1. ASSUME NEW j \in results PROVE \E h \in Goroutine : pc'[h] = "ready" /\ req'[h] = j
          BY <1>1, <2>4 DEF AnswersAreFetched
        <4> QED
          BY <2>1, <2>2, <2>4, <4>1
      <3>4. ASSUME NEW j \in DOMAIN pending'
            PROVE  j \in inflight' \/ \E i \in DOMAIN out' : out'[i] = j
        <4>1. j \in inflight \/ \E i \in 1..Len(out) : out[i] = j
          BY <1>1, <1>2, <2>3 DEF AnswersAreFetched
        <4>2. j # id
          BY <2>3
        <4> QED
          BY <1>2, <4>1, <4>2
      <3>5. awaiting' = DOMAIN pending'
        BY <1>1, <2>1, <2>3 DEF AnswersAreFetched
      <3> QED
        BY <3>1, <3>2, <3>3, <3>4, <3>5 DEF AnswersAreFetched
    <2>12. HostWork'
      BY <1>1, <1>2, <2>3 DEF HostWork
    <2>13. StopSaw'
      BY DEF StopSaw
    <2> QED
      BY <2>5, <2>7, <2>8, <2>9, <2>10, <2>11, <2>12, <2>13 DEF Invariant
  <1> QED
    BY <1>3, <1>4

LEMMA DrainKeeps == Invariant /\ Drain => Invariant'
  BY CompletionKeeps DEF Drain, InLoop, hostVars, callVars, loopVars

LEMMA BlockKeeps == Invariant /\ Block => Invariant'
  BY CompletionKeeps DEF Block, InLoop, hostVars, callVars, loopVars

LEMMA DrainedKeeps == Invariant /\ Drained => Invariant'
  <1> SUFFICES ASSUME Invariant, Drained PROVE Invariant'
    OBVIOUS
  <1>1. /\ halt = "no" /\ phase' = "loop"
        /\ UNCHANGED <<pc, ops, owner, ready, parked, req, pending, results, awaiting, nextId,
                       inflight, out, stray, loops, cur, vt, halt>>
    BY DEF Drained, InLoop, callVars, hostVars
  <1>2. TypeOK'
    BY <1>1 DEF Invariant, TypeOK
  <1>3. ParkedCounts' /\ VThreads' /\ Queue' /\ Nesting' /\ StopSaw'
    BY <1>1 DEF Invariant, ParkedCounts, Parkers, VThreads, Queue, Nesting, StopSaw, Inner
  <1>4. Requests' /\ AnswersAreFetched' /\ HostWork'
    BY <1>1 DEF Invariant, Requests, AnswersAreFetched, HostWork
  <1> QED
    BY <1>2, <1>3, <1>4 DEF Invariant

LEMMA UntilDoneKeeps == Invariant /\ UntilDone => Invariant'
  <1> SUFFICES ASSUME Invariant, UntilDone PROVE Invariant'
    OBVIOUS
  <1> DEFINE g == Inner.caller
             n == Len(loops)
  <1>1. /\ halt = "no" /\ cur = None /\ FlagSet(Inner)
        /\ cur' = g /\ pc' = [pc EXCEPT ![g] = "running"]
        /\ loops' = SubSeq(loops, 1, n - 1)
        /\ UNCHANGED <<ops, owner, ready, parked, req, pending, results, awaiting, nextId,
                       inflight, out, stray, phase, vt, halt>>
    BY DEF UntilDone, InLoop, callVars, hostVars
  <1>2. /\ TypeOK /\ VThreads /\ ParkedCounts /\ Queue /\ Nesting /\ Requests
        /\ AnswersAreFetched /\ HostWork
        /\ n \in Nat \ {0} /\ loops \in Seq(Loop)
    BY TypeFacts DEF Invariant
  <1>3. n # 1
    BY <1>1, <1>2 DEF Nesting, FlagSet, Inner
  <1>4. n \in 2..n /\ n - 1 \in Nat \ {0} /\ n = (n - 1) + 1 /\ n - 1 \in 1..n
    BY <1>2, <1>3, Below
  <1>5. g \in Goroutine /\ pc[g] = "nested" /\ vt = g
    BY <1>1, <1>2, <1>4 DEF Nesting, Inner, VThreads
  <1>6. /\ loops' \in Seq(Loop) /\ Len(loops') = n - 1
        /\ \A i \in 1..n - 1 : loops'[i] = loops[i]
    BY <1>1, <1>2, <1>4, PopFacts
  <1>7. /\ \A i \in 2..n - 1 : i \in 2..n /\ i # n /\ i \in 1..n - 1
        /\ 1 \in 1..n - 1 /\ n - 1 \in 1..n - 1
    BY <1>2, <1>3, Below
  <1>8. \A i \in 2..n - 1 : loops[i].caller # g
    BY <1>2, <1>4, <1>7 DEF Nesting, Inner
  <1> HIDE DEF g, n
  <1>9. /\ pc' \in [Goroutine -> {"unborn", "ready", "running", "awaiting", "parked", "nested", "done"}]
        /\ pc'[g] = "running" /\ \A k \in Goroutine \ {g} : pc'[k] = pc[k]
    BY <1>1, <1>2, <1>5 DEF TypeOK
  <1>10. Parkers' = Parkers
    BY <1>5, <1>9 DEF Parkers
  <1>11. TypeOK'
    <2>1. loops' # <<>>
      BY <1>4, <1>6, EmptySeq
    <2> QED
      BY <1>1, <1>2, <1>5, <1>6, <1>9, <2>1 DEF TypeOK
  <1>12. ParkedCounts' /\ VThreads'
    <2>1. g # None
      BY <1>5, AsyncCallsAssumption
    <2> QED
      BY <1>1, <1>2, <1>5, <1>10, <2>1 DEF ParkedCounts, VThreads
  <1>13. Queue'
    <2>1. \A k \in Goroutine : pc'[k] = "running" <=> cur' = k
      BY <1>1, <1>2, <1>5, <1>9, AsyncCallsAssumption DEF Queue
    <2>2. \A k \in Goroutine : pc'[k] = "ready" <=> pc[k] = "ready"
      BY <1>5, <1>9
    <2>3. \A i \in 1..Len(ready) : ready[i].g \in Goroutine
      BY TypeFacts
    <2> QED
      BY <1>1, <1>2, <2>1, <2>2, <2>3 DEF Queue
  <1>14. Nesting'
    <2>1. Inner' \in Loop
      <3>1. Inner' = loops[n - 1]
        BY <1>6, <1>7 DEF Inner
      <3> QED
        BY <1>2, <1>4, <3>1, ElementOfSeq DEF n
    <2>2. \A i \in 2..n - 1 : loops[i].caller \in Goroutine \ {g}
      BY <1>2, <1>7, <1>8 DEF Nesting, n
    <2>3. \A i \in 2..n - 1 : /\ loops'[i].caller \in Goroutine /\ loops'[i].waits \in Goroutine
                               /\ pc'[loops'[i].caller] = "nested"
      BY <1>2, <1>6, <1>7, <1>9, <2>2 DEF Nesting, n
    <2>4. \A i, j \in 2..n - 1 : loops'[i].caller = loops'[j].caller => i = j
      BY <1>2, <1>6, <1>7 DEF Nesting, n
    <2>5. loops'[1] = [caller |-> None, waits |-> None] /\ Len(loops') \in Nat \ {0}
      BY <1>2, <1>4, <1>6, <1>7 DEF Nesting
    <2> QED
      BY <1>6, <2>1, <2>3, <2>4, <2>5 DEF Nesting
  <1>15. Requests'
    BY <1>1, <1>2, <1>5, <1>9 DEF Requests
  <1>16. AnswersAreFetched'
    <2>1. \A id \in DOMAIN pending : pending[id].g \in Goroutine \ {g}
      BY <1>2, <1>5, TypeFacts DEF AnswersAreFetched
    <2>2. \A k \in Goroutine :
            /\ pc'[k] = "awaiting" => req[k] \in DOMAIN pending /\ pending[req[k]].g = k
            /\ pc'[k] = "ready" /\ req[k] # 0 => req[k] \in results
      BY <1>2, <1>5, <1>9 DEF AnswersAreFetched
    <2>3. \A id \in DOMAIN pending : pc'[pending[id].g] = "awaiting" /\ req[pending[id].g] = id
      BY <1>2, <1>9, <2>1 DEF AnswersAreFetched
    <2>4. \A id \in results : \E k \in Goroutine : pc'[k] = "ready" /\ req[k] = id
      BY <1>2, <1>5, <1>9 DEF AnswersAreFetched
    <2> QED
      BY <1>1, <1>2, <2>2, <2>3, <2>4 DEF AnswersAreFetched
  <1>17. HostWork' /\ StopSaw'
    BY <1>1, <1>2 DEF HostWork, StopSaw
  <1> QED
    BY <1>11, <1>12, <1>13, <1>14, <1>15, <1>16, <1>17 DEF Invariant

LEMMA ResumeKeeps == Invariant /\ Resume => Invariant'
  <1> SUFFICES ASSUME Invariant, Resume PROVE Invariant'
    OBVIOUS
  <1> DEFINE g == Head(ready).g
             n == Len(ready)
  <1>1. /\ halt = "no" /\ cur = None /\ ready # <<>>
        /\ cur' = g /\ pc' = [pc EXCEPT ![g] = "running"]
        /\ results' = results \ {req[g]} /\ req' = [req EXCEPT ![g] = 0]
        /\ vt' = Head(ready).vt /\ ready' = Tail(ready)
        /\ UNCHANGED <<ops, owner, parked, pending, awaiting, nextId, inflight, out, stray,
                       loops, phase, halt>>
    BY DEF Resume, InLoop, hostVars, loopVars
  <1>2. /\ TypeOK /\ VThreads /\ ParkedCounts /\ Queue /\ Nesting /\ Requests
        /\ AnswersAreFetched /\ HostWork
        /\ ready \in Seq(ReadyItem)
    BY TypeFacts DEF Invariant
  <1>3. /\ ready' \in Seq(ReadyItem) /\ n \in Nat \ {0} /\ Len(ready') = n - 1
        /\ \A i \in 1..n - 1 : ready'[i] = ready[i + 1]
        /\ Head(ready) = ready[1]
    BY <1>1, <1>2, TailFacts
  <1>4. /\ 1 \in 1..n
        /\ \A i \in 1..n - 1 : i + 1 \in 1..n /\ i + 1 # 1
        /\ \A i \in 1..n : i = 1 \/ (i - 1 \in 1..n - 1 /\ (i - 1) + 1 = i)
    BY <1>3
  <1>5. g \in Goroutine /\ pc[g] = "ready" /\ vt' = g /\ g # None
    BY <1>1, <1>2, <1>3, <1>4, TypeFacts, AsyncCallsAssumption DEF Queue, VThreads
  <1>6. \A i \in 1..n - 1 : /\ ready'[i].g \in Goroutine \ {g} /\ pc[ready'[i].g] = "ready"
                            /\ ready'[i].vt = ready'[i].g
    <2> SUFFICES ASSUME NEW i \in 1..n - 1
                 PROVE  /\ ready[i + 1].g \in Goroutine \ {g} /\ pc[ready[i + 1].g] = "ready"
                        /\ ready[i + 1].vt = ready[i + 1].g
      BY <1>3
    <2>1. i + 1 \in 1..n /\ i + 1 # 1
      BY <1>4
    <2>2. ready[i + 1].g # ready[1].g
      BY <1>2, <1>4, <2>1 DEF Queue
    <2> QED
      BY <1>2, <1>3, <2>1, <2>2, TypeFacts DEF Queue, VThreads
  <1>7. \A k \in Goroutine \ {g} : pc[k] = "ready" => \E i \in 1..n - 1 : ready'[i].g = k
    <2> SUFFICES ASSUME NEW k \in Goroutine \ {g}, pc[k] = "ready"
                 PROVE  \E i \in 1..n - 1 : ready'[i].g = k
      OBVIOUS
    <2>1. PICK i \in 1..n : ready[i].g = k
      BY <1>2 DEF Queue
    <2>2. i # 1
      BY <1>3, <2>1
    <2> QED
      BY <1>3, <1>4, <2>1, <2>2
  <1>8. \A i, j \in 1..n - 1 : ready'[i].g = ready'[j].g => i = j
    <2> SUFFICES ASSUME NEW i \in 1..n - 1, NEW j \in 1..n - 1, ready'[i].g = ready'[j].g
                 PROVE  i = j
      OBVIOUS
    <2>1. i + 1 \in 1..n /\ j + 1 \in 1..n /\ ready[i + 1].g = ready[j + 1].g
      BY <1>3, <1>4
    <2>2. i + 1 = j + 1
      BY <1>2, <2>1 DEF Queue
    <2> QED
      BY <2>2
  <1> HIDE DEF g, n
  <1>9. /\ pc' \in [Goroutine -> {"unborn", "ready", "running", "awaiting", "parked", "nested", "done"}]
        /\ pc'[g] = "running" /\ \A k \in Goroutine \ {g} : pc'[k] = pc[k]
        /\ req' \in [Goroutine -> Id \union {0}]
        /\ req'[g] = 0 /\ \A k \in Goroutine \ {g} : req'[k] = req[k]
    BY <1>1, <1>2, <1>5 DEF TypeOK
  <1>10. Parkers' = Parkers /\ Inner' = Inner
    BY <1>1, <1>5, <1>9 DEF Parkers, Inner
  <1>11. TypeOK'
    BY <1>1, <1>2, <1>3, <1>5, <1>9 DEF TypeOK
  <1>12. ParkedCounts' /\ VThreads'
    BY <1>1, <1>2, <1>3, <1>5, <1>6, <1>10 DEF ParkedCounts, VThreads
  <1>13. Queue'
    <2>1. \A k \in Goroutine : pc'[k] = "running" <=> cur' = k
      BY <1>1, <1>2, <1>5, <1>9, AsyncCallsAssumption DEF Queue
    <2>2. \A i \in 1..n - 1 : pc'[ready'[i].g] = "ready"
      BY <1>6, <1>9
    <2>3. \A k \in Goroutine : pc'[k] = "ready" => \E i \in 1..n - 1 : ready'[i].g = k
      BY <1>7, <1>9
    <2> QED
      BY <1>3, <1>8, <2>1, <2>2, <2>3 DEF Queue
  <1>14. Nesting'
    BY <1>1, <1>2, <1>5, <1>9, <1>10 DEF Nesting
  <1>15. Requests'
    <2>1. nextId \in Nat
      BY TypeFacts
    <2> QED
      BY <1>1, <1>2, <1>5, <1>9, <2>1 DEF Requests
  <1>16. AnswersAreFetched'
    <2>1. \A id \in DOMAIN pending : pending[id].g \in Goroutine \ {g}
      BY <1>2, <1>5, TypeFacts DEF AnswersAreFetched
    <2>2. \A k \in Goroutine \ {g} : req[k] # 0 => req[k] # req[g]
      BY <1>2, <1>5 DEF Requests
    <2>3. \A k \in Goroutine :
            /\ pc'[k] = "awaiting" => req'[k] \in DOMAIN pending /\ pending[req'[k]].g = k
            /\ pc'[k] = "ready" /\ req'[k] # 0 => req'[k] \in results'
      BY <1>1, <1>2, <1>9, <2>2 DEF AnswersAreFetched
    <2>4. \A id \in DOMAIN pending : pc'[pending[id].g] = "awaiting" /\ req'[pending[id].g] = id
      BY <1>2, <1>9, <2>1 DEF AnswersAreFetched
    <2>5. \A id \in results' : \E k \in Goroutine : pc'[k] = "ready" /\ req'[k] = id
      BY <1>1, <1>2, <1>9 DEF AnswersAreFetched
    <2> QED
      BY <1>1, <1>2, <2>3, <2>4, <2>5 DEF AnswersAreFetched
  <1>17. HostWork' /\ StopSaw'
    BY <1>1, <1>2 DEF HostWork, StopSaw
  <1> QED
    BY <1>11, <1>12, <1>13, <1>14, <1>15, <1>16, <1>17 DEF Invariant

LEMMA StopKeeps == Invariant /\ Stop => Invariant'
  <1> SUFFICES ASSUME Invariant, Stop PROVE Invariant'
    OBVIOUS
  <1>1. /\ cur = None /\ ~FlagSet(Inner) /\ ready = <<>> /\ DOMAIN pending = {}
        /\ halt' \in {"exit", "deadlock"}
        /\ UNCHANGED <<pc, ops, owner, ready, parked, req, pending, results, awaiting, nextId,
                       inflight, out, stray, loops, phase, cur, vt>>
    BY DEF Stop, InLoop, HasPendingAsync, callVars, hostVars, loopVars
  <1>2. TypeOK'
    BY <1>1 DEF Invariant, TypeOK
  <1>3. ParkedCounts' /\ VThreads' /\ Queue' /\ Nesting'
    BY <1>1 DEF Invariant, ParkedCounts, Parkers, VThreads, Queue, Nesting, Inner
  <1>4. Requests' /\ AnswersAreFetched' /\ HostWork'
    BY <1>1 DEF Invariant, Requests, AnswersAreFetched, HostWork
  <1>5. StopSaw'
    BY <1>1 DEF StopSaw, FlagSet, Inner
  <1> QED
    BY <1>2, <1>3, <1>4, <1>5 DEF Invariant

LEMMA StutterKeeps == Invariant /\ UNCHANGED vars => Invariant'
  <1> SUFFICES ASSUME Invariant, UNCHANGED vars PROVE Invariant'
    OBVIOUS
  <1>1. UNCHANGED <<pc, ops, owner, ready, parked, req, pending, results, awaiting, nextId,
                    inflight, out, stray, loops, phase, cur, vt, halt>>
    BY DEF vars, callVars, hostVars, loopVars
  <1>2. TypeOK'
    BY <1>1 DEF Invariant, TypeOK
  <1>3. ParkedCounts' /\ VThreads' /\ Queue' /\ Nesting'
    BY <1>1 DEF Invariant, ParkedCounts, Parkers, VThreads, Queue, Nesting, Inner
  <1>4. Requests' /\ AnswersAreFetched' /\ HostWork'
    BY <1>1 DEF Invariant, Requests, AnswersAreFetched, HostWork
  <1>5. StopSaw'
    BY <1>1 DEF Invariant, StopSaw, FlagSet, Inner
  <1> QED
    BY <1>2, <1>3, <1>4, <1>5 DEF Invariant

-----------------------------------------------------------------------------
(* The theorems *)

LEMMA InitInvariant == Init => Invariant
  <1> SUFFICES ASSUME Init PROVE Invariant
    OBVIOUS
  <1> DEFINE item == [g |-> Main, vt |-> Main]
             l == [caller |-> None, waits |-> None]
  <1>1. Main \in Goroutine /\ None \notin Goroutine
    BY AsyncCallsAssumption
  <1>2. /\ item \in ReadyItem /\ item.g = Main /\ item.vt = Main
        /\ l \in Loop /\ l.caller = None /\ l.waits = None
    BY <1>1 DEF ReadyItem, Loop
  <1>3. /\ ready = <<item>> /\ ready \in Seq(ReadyItem) /\ Len(ready) = 1 /\ ready[1] = item
        /\ loops = <<l>> /\ loops \in Seq(Loop) /\ Len(loops) = 1 /\ loops[1] = l /\ loops # <<>>
    BY <1>2 DEF Init
  <1>4. /\ pending = <<>> /\ DOMAIN pending = {} /\ out = <<>> /\ DOMAIN out = {}
        /\ out \in Seq(Id \union {0}) /\ Len(out) = 0
    BY EmptySeq DEF Init
  <1> HIDE DEF item, l
  <1>5. /\ pc \in [Goroutine -> {"unborn", "ready", "running", "awaiting", "parked", "nested", "done"}]
        /\ pc[Main] = "ready" /\ \A g \in Goroutine \ {Main} : pc[g] = "unborn"
    BY <1>1 DEF Init
  <1>6. TypeOK
    <2>1. /\ 0 \in 0..MaxOps /\ 0 \in 0..MaxStray /\ 0 \in 0..Cardinality(Goroutine)
      BY AsyncCallsAssumption, FS_CardinalityType
    <2> QED
      BY <1>3, <1>4, <1>5, <2>1 DEF Init, TypeOK
  <1>7. ParkedCounts
    <2>1. Parkers = {}
      BY <1>5 DEF Parkers
    <2> QED
      BY <2>1, FS_EmptySet DEF Init, ParkedCounts
  <1>8. VThreads /\ Queue
    <2>1. \A i \in 1..Len(ready) : i = 1
      BY <1>3
    <2>2. Parkers = {} /\ cur = None /\ vt = None /\ 1 \in 1..Len(ready)
      BY <1>3, <1>5 DEF Parkers, Init
    <2>3. VThreads
      BY <1>2, <1>3, <1>4, <2>1, <2>2 DEF VThreads, Inner
    <2>4. Queue
      BY <1>1, <1>2, <1>3, <1>5, <2>1, <2>2 DEF Queue
    <2> QED
      BY <2>3, <2>4
  <1>9. Nesting
    <2>1. \A i : i \notin 2..Len(loops)
      BY <1>3
    <2> QED
      BY <1>2, <1>3, <2>1 DEF Nesting, Inner, l
  <1>10. Requests /\ AnswersAreFetched /\ HostWork /\ StopSaw
    BY <1>4, <1>5 DEF Init, Requests, AnswersAreFetched, HostWork, StopSaw
  <1> QED
    BY <1>6, <1>7, <1>8, <1>9, <1>10 DEF Invariant

\* The invariant holds in every state.
THEOREM InvariantHolds == Spec => []Invariant
  <1>1. Invariant /\ [Next]_vars => Invariant'
    <2> SUFFICES ASSUME Invariant, [Next]_vars PROVE Invariant'
      OBVIOUS
    <2>1. ASSUME NEW g \in Goroutine,
                 CallImmediate(g) \/ CallAsync(g) \/ Park(g) \/ Finish(g)
          PROVE  Invariant'
      BY <2>1, CallImmediateKeeps, CallAsyncKeeps, ParkKeeps, FinishKeeps
    <2>2. ASSUME NEW g \in Goroutine, NEW h \in Goroutine,
                 Wake(g, h) \/ Go(g, h) \/ DeferAsync(g, h)
          PROVE  Invariant'
      BY <2>2, WakeKeeps, GoKeeps, DeferAsyncKeeps
    <2>3. CASE Drain \/ Drained \/ UntilDone \/ Resume \/ Block \/ Stop
      BY <2>3, DrainKeeps, DrainedKeeps, UntilDoneKeeps, ResumeKeeps, BlockKeeps, StopKeeps
    <2>4. CASE HostAnswers \/ HostStrays
      BY <2>4, HostAnswersKeeps, HostStraysKeeps
    <2>5. CASE Halted \/ UNCHANGED vars
      BY <2>5, StutterKeeps DEF Halted
    <2> QED
      BY <2>1, <2>2, <2>3, <2>4, <2>5 DEF Next, Guest
  <1> QED
    BY InitInvariant, <1>1, PTL DEF Spec

\* await_resume finds the result of its own request, and panic and recover the chain
\* of their own goroutine, however many goroutines call the host and however deep
\* RunUntil nests.
THEOREM CallsStayConsistent == Spec => []CallsConsistent
  <1>1. Invariant => CallsConsistent
    BY DEF Invariant, CallsConsistent, VThreadIsOwn, VThreads
  <1> QED
    BY <1>1, InvariantHolds, PTL

\* "all goroutines are asleep": neither loop reports it while a goroutine is runnable,
\* a host call is out, or the closure it waits for is done.
THEOREM NoFalseDeadlock == Spec => []DeadlockIsReal
  <1>1. Invariant => DeadlockIsReal
    <2> SUFFICES ASSUME Invariant, halt = "deadlock" PROVE DeadlockIsReal
      BY DEF DeadlockIsReal
    <2>1. /\ TypeOK /\ Queue /\ AnswersAreFetched /\ HostWork
          /\ ready = <<>> /\ DOMAIN pending = {} /\ cur = None /\ ~FlagSet(Inner)
      BY DEF Invariant, StopSaw
    <2>2. inflight = {}
      BY <2>1 DEF HostWork
    <2>3. \A i : i \notin 1..Len(ready)
      BY <2>1, EmptySeq
    <2>4. \A g \in Goroutine : pc[g] # "ready" /\ pc[g] # "running" /\ pc[g] # "awaiting"
      BY <2>1, <2>3, AsyncCallsAssumption DEF Queue, AnswersAreFetched
    <2>5. \A g \in Goroutine : pc[g] \in {"unborn", "parked", "nested", "done"}
      BY <2>1, <2>4 DEF TypeOK
    <2> QED
      BY <2>1, <2>2, <2>5 DEF DeadlockIsReal
  <1> QED
    BY <1>1, InvariantHolds, PTL

=============================================================================
