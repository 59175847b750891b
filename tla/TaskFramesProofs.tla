-------------------------- MODULE TaskFramesProofs --------------------------
(***************************************************************************)
(* For any number of frames, and any program that spawns, awaits, parks    *)
(* and returns: a frame that has not finished is executing or has exactly  *)
(* one party that will resume it, no handle that is followed names a       *)
(* destroyed frame, and of the temporaries of a full expression only those *)
(* that it held when it suspended again can be left without their frame.   *)
(*                                                                         *)
(* The hard part is that the VThread of a goroutine is rooted by a frame   *)
(* that lives: why is the frame that go() spawned not destroyed before the *)
(* frames that work for it?  Chains says that the continuations of the     *)
(* unfinished frames have no cycle, so they lead from each of them to the  *)
(* spawned frame, which therefore waits and does not return.               *)
(***************************************************************************)
EXTENDS TaskFrames, SequenceTheorems, FiniteSetTheorems, TLAPS

Queued(f) == \E i \in 1..Len(ready) : ready[i].h = f
Parked(f) == \E w \in waiting : w.h = f
Calling(f) == \E c \in Frame : Unfinished(c) /\ cont[c] = f

\* A party that resumes a frame is there once...
Once ==
  /\ \A i, j \in 1..Len(ready) : ready[i].h = ready[j].h => i = j
  /\ \A w, x \in waiting : w.h = x.h => w = x
  /\ \A c, d \in Frame :
       Unfinished(c) /\ Unfinished(d) /\ cont[c] = cont[d] /\ cont[c] # None => c = d

\* ...and is the only one, for exactly the frames that need it.
Placed ==
  \A f \in Frame :
    /\ Queued(f) => state[f] \in {"initial", "suspended"} /\ ~Parked(f) /\ ~Calling(f)
    /\ Parked(f) => state[f] = "suspended" /\ ~Calling(f)
    /\ Calling(f) => state[f] = "suspended"
    /\ state[f] \in {"initial", "suspended"} => Queued(f) \/ Parked(f) \/ Calling(f)
    /\ state[f] = "running" <=> f = cur

\* A temporary made since the frame last suspended is one that the frame awaits,
\* or awaited last, and then executes: the loop has had no chance to destroy it.
Held ==
  \A f \in Frame :
    /\ \A c \in temps[f] : c \in detached /\ state[c] # "none"
    /\ \A c \in temps[f] \ earlier[f] :
         /\ cont[c] = f
         /\ Unfinished(c) \/ (state[c] = "final" /\ cur = f)

\* The loop holds a frame that it has not destroyed.
LoopHolds == handle # None => state[handle] \notin {"none", "destroyed"}

\* A frame that was not made has no caller.
Unmade == \A f \in Frame : state[f] = "none" => cont[f] = None

\* Every reference to a frame goes with the VThread of its goroutine.
Rooted ==
  /\ cur # None => vt = top[cur]
  /\ \A i \in 1..Len(ready) : ready[i].vt = top[ready[i].h]
  /\ \A w \in waiting : w.vt = top[w.h]
  /\ \A f \in Frame : Unfinished(f) =>
       /\ top[f] \in Frame
       /\ Unfinished(top[f])
       /\ top[f] # f => cont[f] # None
       /\ cont[f] # None => top[cont[f]] = top[f]

\* Following the callers of unfinished frames leads out of any set of them.
Chains ==
  \A S \in SUBSET Frame :
    S # {} /\ (\A f \in S : Unfinished(f)) => \E f \in S : cont[f] \notin S

Invariant ==
  TypeOK /\ Once /\ Placed /\ Held /\ LoopHolds /\ Unmade /\ Rooted /\ Chains

-----------------------------------------------------------------------------
\* An entry for a frame that has none goes to the end of the runqueue.
LEMMA Enqueued ==
  ASSUME TypeOK, Once, NEW x \in ReadyItem, ~Queued(x.h), ready' = Append(ready, x)
  PROVE  /\ ready' \in Seq(ReadyItem)
         /\ \A f \in Frame : Queued(f)' <=> Queued(f) \/ f = x.h
         /\ \A i, j \in 1..Len(ready') : ready'[i].h = ready'[j].h => i = j
         /\ \A i \in 1..Len(ready') : ready'[i] = x \/ \E k \in 1..Len(ready) : ready'[i] = ready[k]
  <1>1. /\ ready' \in Seq(ReadyItem)
        /\ Len(ready) \in Nat
        /\ Len(ready') = Len(ready) + 1
        /\ \A i \in 1..Len(ready) : ready'[i] = ready[i]
        /\ ready'[Len(ready) + 1] = x
    BY AppendProperties, LenProperties DEF TypeOK
  <1>2. \A i \in 1..Len(ready') : i \in 1..Len(ready) \/ i = Len(ready) + 1
    BY <1>1
  <1>3. \A i \in 1..Len(ready) : i \in 1..Len(ready') /\ ready[i].h # x.h
    BY <1>1 DEF Queued
  <1>4. Len(ready) + 1 \in 1..Len(ready')
    BY <1>1
  <1>5. \A f \in Frame : Queued(f)' <=> Queued(f) \/ f = x.h
    BY <1>1, <1>2, <1>3, <1>4 DEF Queued
  <1>6. \A i, j \in 1..Len(ready') : ready'[i].h = ready'[j].h => i = j
    BY <1>1, <1>2, <1>3 DEF Once
  <1> QED
    BY <1>1, <1>2, <1>5, <1>6

\* The first entry leaves the runqueue.
LEMMA Dequeued ==
  ASSUME TypeOK, Once, ready # <<>>, ready' = Tail(ready)
  PROVE  /\ ready' \in Seq(ReadyItem)
         /\ Head(ready) = ready[1] /\ 1 \in 1..Len(ready) /\ ready[1] \in ReadyItem
         /\ \A f \in Frame : Queued(f)' <=> Queued(f) /\ f # ready[1].h
         /\ \A i, j \in 1..Len(ready') : ready'[i].h = ready'[j].h => i = j
         /\ \A i \in 1..Len(ready') : \E k \in 1..Len(ready) : ready'[i] = ready[k]
  <1>1. /\ ready' \in Seq(ReadyItem)
        /\ Len(ready) \in Nat
        /\ Len(ready) > 0
        /\ Len(ready') = Len(ready) - 1
        /\ \A i \in 1..(Len(ready) - 1) : ready'[i] = ready[i + 1]
        /\ Head(ready) = ready[1]
    BY HeadTailProperties, LenProperties, EmptySeq DEF TypeOK
  <1>2. 1 \in 1..Len(ready) /\ ready[1] \in ReadyItem
    BY <1>1, ElementOfSeq DEF TypeOK
  <1>3. \A i \in 1..Len(ready') : /\ i + 1 \in 1..Len(ready)
                                  /\ i + 1 # 1
                                  /\ ready'[i] = ready[i + 1]
    BY <1>1
  <1>4. \A i \in 1..Len(ready) : i # 1 => i - 1 \in 1..Len(ready') /\ ready'[i - 1] = ready[i]
    BY <1>1
  <1>5. \A f \in Frame : Queued(f)' <=> Queued(f) /\ f # ready[1].h
    <2> TAKE f \in Frame
    <2>1. ASSUME Queued(f)' PROVE Queued(f) /\ f # ready[1].h
      <3>1. PICK i \in 1..Len(ready') : ready'[i].h = f
        BY <2>1 DEF Queued
      <3> QED
        BY <1>2, <1>3, <3>1 DEF Queued, Once
    <2>2. ASSUME Queued(f), f # ready[1].h PROVE Queued(f)'
      BY <1>4, <2>2 DEF Queued
    <2> QED
      BY <2>1, <2>2
  <1>6. \A i, j \in 1..Len(ready') : ready'[i].h = ready'[j].h => i = j
    <2> TAKE i, j \in 1..Len(ready')
    <2> HAVE ready'[i].h = ready'[j].h
    <2>1. i + 1 = j + 1
      BY <1>3 DEF Once
    <2> QED
      BY <2>1, <1>1
  <1> QED
    BY <1>1, <1>2, <1>3, <1>5, <1>6

\* Frames that finish, or go on, leave the chains as they are.
LEMMA ChainsStay ==
  ASSUME Chains, cont' = cont, \A g \in Frame : Unfinished(g)' => Unfinished(g)
  PROVE  Chains'
  BY DEF Chains

\* A new frame is at the end of a chain.
LEMMA ChainsGrow ==
  ASSUME Chains, NEW c \in Frame,
         \A g \in Frame : Unfinished(g)' => Unfinished(g) \/ g = c,
         \A g \in Frame : g # c => cont'[g] = cont[g],
         \A g \in Frame : Unfinished(g) => cont[g] # c,
         cont'[c] # c
  PROVE  Chains'
  <1> SUFFICES ASSUME NEW S \in SUBSET Frame, S # {}, \A g \in S : Unfinished(g)'
               PROVE  \E g \in S : cont'[g] \notin S
    BY DEF Chains
  <1> DEFINE T == S \ {c}
  <1>1. CASE T = {}
    BY <1>1
  <1>2. CASE T # {}
    <2>1. T \in SUBSET Frame /\ \A g \in T : Unfinished(g)
      OBVIOUS
    <2>2. PICK g \in T : cont[g] \notin T
      BY <1>2, <2>1 DEF Chains
    <2> QED
      BY <2>1, <2>2
  <1> QED
    BY <1>1, <1>2

\* While the frame that go() spawned executes, no other frame works for it.
LEMMA SpawnedFrameIsLast ==
  ASSUME Invariant, NEW t \in Frame, state[t] = "running",
         NEW g \in Frame, Unfinished(g), top[g] = t
  PROVE  g = t
  <1> DEFINE S == {h \in Frame : Unfinished(h) /\ top[h] = t /\ h # t}
  <1> SUFFICES ASSUME g # t PROVE FALSE
    OBVIOUS
  <1>1. PICK h \in S : cont[h] \notin S
    BY DEF Invariant, Chains
  <1>2. cont[h] \in Frame /\ top[cont[h]] = t
    BY <1>1 DEF Invariant, Rooted, TypeOK
  <1>3. state[cont[h]] = "suspended"
    BY <1>1, <1>2 DEF Invariant, Placed, Calling
  <1>4. cont[h] = t
    BY <1>1, <1>2, <1>3 DEF Unfinished
  <1> QED
    BY <1>3, <1>4

-----------------------------------------------------------------------------
LEMMA InitInvariant == Init => Invariant
  <1> SUFFICES ASSUME Init PROVE Invariant
    OBVIOUS
  <1> USE TaskFramesAssumption DEF Init
  <1>1. TypeOK
    BY DEF TypeOK, State, ReadyItem
  <1>2. Len(ready) = 1 /\ ready[1] = [h |-> Main, vt |-> Main]
    OBVIOUS
  <1>3. Once /\ Rooted
    BY <1>2 DEF Once, Rooted, Unfinished
  <1>4. Placed
    BY <1>2 DEF Placed, Queued, Parked, Calling, Unfinished
  <1>5. Held /\ LoopHolds /\ Unmade
    BY DEF Held, LoopHolds, Unmade
  <1>6. Chains
    BY DEF Chains, Unfinished
  <1> QED
    BY <1>1, <1>3, <1>4, <1>5, <1>6 DEF Invariant

LEMMA GoStep ==
  ASSUME Invariant, NEW f \in Frame, NEW c \in Frame, Go(f, c)
  PROVE  Invariant'
  <1> DEFINE x == [h |-> c, vt |-> c]
  <1> USE TaskFramesAssumption
  <1>1. TypeOK /\ Once /\ Placed /\ Held /\ LoopHolds /\ Unmade /\ Rooted /\ Chains
    BY DEF Invariant
  <1>2. x \in ReadyItem /\ x.h = c /\ x.vt = c /\ c # f
    BY <1>1 DEF ReadyItem, Go, Placed
  <1>3. /\ ~Queued(c) /\ ~Parked(c) /\ ~Calling(c)
        /\ cont[c] = None
    BY <1>1 DEF Placed, Go, Unmade
  <1>4. /\ ready' \in Seq(ReadyItem)
        /\ \A g \in Frame : Queued(g)' <=> Queued(g) \/ g = c
        /\ \A i, j \in 1..Len(ready') : ready'[i].h = ready'[j].h => i = j
        /\ \A i \in 1..Len(ready') : ready'[i] = x \/ \E k \in 1..Len(ready) : ready'[i] = ready[k]
    <2> HIDE DEF x
    <2>1. ready' = Append(ready, x)
      BY DEF Go, x
    <2> QED
      BY <1>1, <1>2, <1>3, <2>1, Enqueued
  <1>5. /\ state' \in [Frame -> State]
        /\ \A g \in Frame : state'[g] = IF g = c THEN "initial" ELSE state[g]
        /\ \A g \in Frame : top'[g] = IF g = c THEN c ELSE top[g]
    BY <1>1 DEF Go, TypeOK, State
  <1>6. \A g \in Frame : Unfinished(g)' <=> Unfinished(g) \/ g = c
    BY <1>5 DEF Unfinished, Go
  <1>7. \A g \in Frame : (Parked(g)' <=> Parked(g)) /\ (Calling(g)' <=> Calling(g))
    BY <1>3, <1>6 DEF Parked, Calling, Go
  <1>8. TypeOK'
    BY <1>1, <1>4, <1>5 DEF TypeOK, Go
  <1>9. Once'
    BY <1>1, <1>3, <1>4, <1>6 DEF Once, Go
  <1>10. Placed'
    BY <1>1, <1>2, <1>3, <1>4, <1>5, <1>7 DEF Placed, Go
  <1>11. Held'
    BY <1>1, <1>5, <1>6 DEF Held, Go, TypeOK
  <1>12. LoopHolds' /\ Unmade'
    BY <1>1, <1>5 DEF LoopHolds, Unmade, Go, TypeOK
  <1>13. Rooted'
    <2>1. cur' # None => vt' = top'[cur']
      BY <1>1, <1>2, <1>5 DEF Rooted, Go
    <2>2. \A i \in 1..Len(ready') : ready'[i].vt = top'[ready'[i].h]
      <3> TAKE i \in 1..Len(ready')
      <3>1. CASE ready'[i] = x
        BY <1>2, <1>5, <3>1
      <3>2. CASE \E k \in 1..Len(ready) : ready'[i] = ready[k]
        <4>1. PICK k \in 1..Len(ready) : ready'[i] = ready[k]
          BY <3>2
        <4>2. ready[k] \in ReadyItem /\ ready[k].h # c
          BY <1>1, <1>3, ElementOfSeq DEF TypeOK, Queued
        <4> QED
          BY <1>1, <1>5, <4>1, <4>2 DEF Rooted, ReadyItem
      <3> QED
        BY <1>4, <3>1, <3>2
    <2>3. \A w \in waiting' : w.vt = top'[w.h]
      BY <1>1, <1>3, <1>5 DEF Rooted, Parked, Go, TypeOK, ReadyItem
    <2>4. \A g \in Frame : Unfinished(g) => top[g] # c /\ cont[g] # c
      BY <1>1, <1>3 DEF Rooted, Unfinished, Go, Calling
    <2>5. ASSUME NEW g \in Frame, Unfinished(g)'
          PROVE  (/\ top[g] \in Frame
                  /\ Unfinished(top[g])
                  /\ top[g] # g => cont[g] # None
                  /\ cont[g] # None => top[cont[g]] = top[g])'
      <3>1. CASE g = c
        BY <1>3, <1>5, <3>1 DEF Unfinished, Go
      <3>2. CASE g # c
        BY <1>1, <1>5, <1>6, <2>4, <2>5, <3>2 DEF Rooted, Unfinished, Go, TypeOK
      <3> QED
        BY <3>1, <3>2
    <2> QED
      BY <2>1, <2>2, <2>3, <2>5 DEF Rooted
  <1>14. Chains'
    BY <1>1, <1>3, <1>6, ChainsGrow DEF Go, Calling
  <1> QED
    BY <1>1, <1>8, <1>9, <1>10, <1>11, <1>12, <1>13, <1>14 DEF Invariant, Go

LEMMA AwaitStep ==
  ASSUME Invariant, NEW f \in Frame, NEW c \in Frame, Await(f, c)
  PROVE  Invariant'
  <1> DEFINE x == [h |-> c, vt |-> vt]
  <1> USE TaskFramesAssumption
  <1>1. TypeOK /\ Once /\ Placed /\ Held /\ LoopHolds /\ Unmade /\ Rooted /\ Chains
    BY DEF Invariant
  <1>2. /\ cur = f /\ cur' = None /\ c # f
        /\ state[f] = "running" /\ state[c] = "none"
        /\ vt = top[f] /\ vt \in Frame /\ Unfinished(vt)
        /\ c \notin temps[f]
    BY <1>1 DEF Await, Yield, Held, Placed, Rooted, Unfinished
  <1>3. /\ ~Queued(c) /\ ~Parked(c) /\ ~Calling(c)
        /\ ~Queued(f) /\ ~Parked(f) /\ ~Calling(f)
    BY <1>1, <1>2 DEF Placed
  <1>4. x \in ReadyItem /\ x.h = c /\ x.vt = vt
    BY <1>2 DEF ReadyItem
  <1>5. /\ ready' \in Seq(ReadyItem)
        /\ \A g \in Frame : Queued(g)' <=> Queued(g) \/ g = c
        /\ \A i, j \in 1..Len(ready') : ready'[i].h = ready'[j].h => i = j
        /\ \A i \in 1..Len(ready') : ready'[i] = x \/ \E k \in 1..Len(ready) : ready'[i] = ready[k]
    <2> HIDE DEF x
    <2>1. ready' = Append(ready, x)
      BY DEF Await, AwaitVThread, x
    <2> QED
      BY <1>1, <1>3, <1>4, <2>1, Enqueued
  <1>6. /\ state' \in [Frame -> State]
        /\ cont' \in [Frame -> Frame \union {None}]
        /\ top' \in [Frame -> Frame \union {None}]
        /\ temps' \in [Frame -> SUBSET Frame]
        /\ \A g \in Frame : state'[g] = IF g = c THEN "initial"
                                       ELSE IF g = f THEN "suspended" ELSE state[g]
        /\ \A g \in Frame : cont'[g] = IF g = c THEN f ELSE cont[g]
        /\ \A g \in Frame : top'[g] = IF g = c THEN top[f] ELSE top[g]
        /\ earlier' \in [Frame -> SUBSET Frame]
        /\ \A g \in Frame : temps'[g] = IF g = f THEN temps[f] \union {c} ELSE temps[g]
        /\ \A g \in Frame : earlier'[g] = IF g = f THEN temps[f] ELSE earlier[g]
    BY <1>1, <1>2 DEF Await, TypeOK, State
  <1>7. \A g \in Frame : Unfinished(g)' <=> Unfinished(g) \/ g = c
    BY <1>2, <1>6 DEF Unfinished
  <1>8. \A g \in Frame : (Parked(g)' <=> Parked(g)) /\ (Calling(g)' <=> Calling(g) \/ g = f)
    BY <1>2, <1>6, <1>7 DEF Parked, Calling, Await, Unfinished
  <1>9. TypeOK'
    <2>1. /\ waiting' = waiting /\ handle' = handle /\ vt' = vt /\ twice' = twice
          /\ detached' = detached \union {c}
      BY DEF Await, DetachedBy
    <2> QED
      BY <1>1, <1>2, <1>5, <1>6, <2>1 DEF TypeOK
  <1>10. Once'
    BY <1>1, <1>2, <1>3, <1>5, <1>6, <1>7 DEF Once, Await, Calling
  <1>11. Placed'
    BY <1>1, <1>2, <1>3, <1>5, <1>6, <1>8 DEF Placed
  <1>12. Held'
    BY <1>1, <1>2, <1>6, <1>7 DEF Held, Await, DetachedBy, Unfinished
  <1>13. LoopHolds' /\ Unmade'
    BY <1>1, <1>2, <1>6 DEF LoopHolds, Unmade, Await, TypeOK
  <1>14. Rooted'
    <2>1. cur' # None => vt' = top'[cur']
      BY <1>2
    <2>2. \A i \in 1..Len(ready') : ready'[i].vt = top'[ready'[i].h]
      <3> TAKE i \in 1..Len(ready')
      <3>1. CASE ready'[i] = x
        BY <1>2, <1>4, <1>6, <3>1
      <3>2. CASE \E k \in 1..Len(ready) : ready'[i] = ready[k]
        <4>1. PICK k \in 1..Len(ready) : ready'[i] = ready[k]
          BY <3>2
        <4>2. ready[k] \in ReadyItem /\ ready[k].h # c
          BY <1>1, <1>3, ElementOfSeq DEF TypeOK, Queued
        <4> QED
          BY <1>1, <1>6, <4>1, <4>2 DEF Rooted, ReadyItem
      <3> QED
        BY <1>5, <3>1, <3>2
    <2>3. \A w \in waiting' : w.vt = top'[w.h]
      BY <1>1, <1>3, <1>6 DEF Rooted, Parked, Await, TypeOK, ReadyItem
    <2>4. \A g \in Frame : Unfinished(g) => top[g] # c /\ cont[g] # c
      BY <1>1, <1>2, <1>3 DEF Rooted, Unfinished, Calling
    <2>5. ASSUME NEW g \in Frame, Unfinished(g)'
          PROVE  (/\ top[g] \in Frame
                  /\ Unfinished(top[g])
                  /\ top[g] # g => cont[g] # None
                  /\ cont[g] # None => top[cont[g]] = top[g])'
      <3>1. CASE g = c
        BY <1>2, <1>6, <3>1 DEF Unfinished
      <3>2. CASE g # c
        BY <1>1, <1>6, <1>7, <2>4, <2>5, <3>2 DEF Rooted, Unfinished, TypeOK
      <3> QED
        BY <3>1, <3>2
    <2> QED
      BY <2>1, <2>2, <2>3, <2>5 DEF Rooted
  <1>15. Chains'
    BY <1>1, <1>2, <1>3, <1>6, <1>7, ChainsGrow DEF Calling
  <1> QED
    BY <1>1, <1>9, <1>10, <1>11, <1>12, <1>13, <1>14, <1>15 DEF Invariant, Await

LEMMA EndExprStep ==
  ASSUME Invariant, NEW f \in Frame, EndExpr(f)
  PROVE  Invariant'
  <1>1. TypeOK /\ Once /\ Placed /\ Held /\ LoopHolds /\ Unmade /\ Rooted /\ Chains
    BY DEF Invariant
  <1>2. temps[f] \subseteq detached
    BY <1>1 DEF Held
  <1>3. state' = state /\ twice' \subseteq Frame
    BY <1>1, <1>2 DEF EndExpr, TypeOK
  <1>4. /\ temps' \in [Frame -> SUBSET Frame]
        /\ earlier' \in [Frame -> SUBSET Frame]
        /\ \A g \in Frame : IF g = f THEN temps'[g] = {}
                                     ELSE temps'[g] = temps[g] /\ earlier'[g] = earlier[g]
    BY <1>1 DEF EndExpr, TypeOK
  <1>5. \A g \in Frame : /\ Queued(g)' <=> Queued(g)
                         /\ Parked(g)' <=> Parked(g)
                         /\ Calling(g)' <=> Calling(g)
                         /\ Unfinished(g)' <=> Unfinished(g)
    BY <1>3 DEF EndExpr, Queued, Parked, Calling, Unfinished
  <1>6. TypeOK' /\ Once' /\ LoopHolds' /\ Unmade' /\ Chains'
    BY <1>1, <1>3, <1>4 DEF EndExpr, TypeOK, Once, LoopHolds, Unmade, Chains, Unfinished
  <1>7. Placed' /\ Held'
    BY <1>1, <1>3, <1>4, <1>5 DEF EndExpr, Placed, Held
  <1>8. Rooted'
    BY <1>1, <1>3 DEF EndExpr, Rooted, Unfinished
  <1> QED
    BY <1>3, <1>6, <1>7, <1>8 DEF Invariant

LEMMA ParkStep ==
  ASSUME Invariant, NEW f \in Frame, Park(f)
  PROVE  Invariant'
  <1> DEFINE x == [h |-> f, vt |-> vt]
  <1> USE TaskFramesAssumption
  <1>1. TypeOK /\ Once /\ Placed /\ Held /\ LoopHolds /\ Unmade /\ Rooted /\ Chains
    BY DEF Invariant
  <1>2. /\ cur = f /\ cur' = None /\ state[f] = "running"
        /\ vt = top[f] /\ vt \in Frame
        /\ waiting' = waiting \union {x}
    BY <1>1 DEF Park, Yield, Placed, Rooted, Unfinished
  <1>3. x \in ReadyItem /\ x.h = f /\ x.vt = vt
    BY <1>2 DEF ReadyItem
  <1>4. ~Queued(f) /\ ~Parked(f) /\ ~Calling(f)
    BY <1>1, <1>2 DEF Placed
  <1>5. /\ state' \in [Frame -> State]
        /\ earlier' \in [Frame -> SUBSET Frame]
        /\ \A g \in Frame : state'[g] = IF g = f THEN "suspended" ELSE state[g]
        /\ \A g \in Frame : earlier'[g] = IF g = f THEN temps[f] ELSE earlier[g]
    BY <1>1 DEF Park, TypeOK, State
  <1>6. \A g \in Frame : /\ Unfinished(g)' <=> Unfinished(g)
                         /\ Queued(g)' <=> Queued(g)
                         /\ Parked(g)' <=> Parked(g) \/ g = f
    BY <1>2, <1>3, <1>5 DEF Unfinished, Queued, Parked, Park
  <1>7. \A g \in Frame : Calling(g)' <=> Calling(g)
    BY <1>6 DEF Calling, Park
  <1>8. TypeOK'
    BY <1>1, <1>2, <1>3, <1>5 DEF TypeOK, Park
  <1>9. Once'
    BY <1>1, <1>2, <1>3, <1>4, <1>6 DEF Once, Parked, Park
  <1>10. Placed'
    BY <1>1, <1>2, <1>4, <1>5, <1>6, <1>7 DEF Placed
  <1>11. Held' /\ LoopHolds' /\ Unmade'
    BY <1>1, <1>2, <1>5, <1>6 DEF Held, LoopHolds, Unmade, Park, TypeOK
  <1>12. Rooted'
    <2>1. \A v \in waiting' : v.vt = top'[v.h]
      BY <1>1, <1>2, <1>3 DEF Rooted, Park
    <2>2. ASSUME NEW g \in Frame, Unfinished(g)'
          PROVE  (/\ top[g] \in Frame
                  /\ Unfinished(top[g])
                  /\ top[g] # g => cont[g] # None
                  /\ cont[g] # None => top[cont[g]] = top[g])'
      BY <1>1, <1>5, <1>6, <2>2 DEF Rooted, Unfinished, Park
    <2>3. /\ cur' # None => vt' = top'[cur']
          /\ \A i \in 1..Len(ready') : ready'[i].vt = top'[ready'[i].h]
      BY <1>1, <1>2 DEF Rooted, Park
    <2> QED
      BY <2>1, <2>2, <2>3 DEF Rooted
  <1>13. Chains'
    BY <1>1, <1>6, ChainsStay DEF Park
  <1> QED
    BY <1>1, <1>8, <1>9, <1>10, <1>11, <1>12, <1>13 DEF Invariant, Park

LEMMA WakeStep ==
  ASSUME Invariant, NEW w \in waiting, Wake(w)
  PROVE  Invariant'
  <1> USE TaskFramesAssumption
  <1>1. TypeOK /\ Once /\ Placed /\ Held /\ LoopHolds /\ Unmade /\ Rooted /\ Chains
    BY DEF Invariant
  <1>2. w \in ReadyItem /\ w.h \in Frame /\ w.vt = top[w.h]
    BY <1>1 DEF TypeOK, ReadyItem, Rooted
  <1>3. Parked(w.h) /\ state[w.h] = "suspended" /\ ~Queued(w.h) /\ ~Calling(w.h)
    BY <1>1, <1>2 DEF Placed, Parked
  <1>4. /\ ready' \in Seq(ReadyItem)
        /\ \A g \in Frame : Queued(g)' <=> Queued(g) \/ g = w.h
        /\ \A i, j \in 1..Len(ready') : ready'[i].h = ready'[j].h => i = j
        /\ \A i \in 1..Len(ready') : ready'[i] = w \/ \E k \in 1..Len(ready) : ready'[i] = ready[k]
    BY <1>1, <1>2, <1>3, Enqueued DEF Wake
  <1>5. \A g \in Frame : /\ Unfinished(g)' <=> Unfinished(g)
                         /\ Parked(g)' <=> Parked(g) /\ g # w.h
    BY <1>1 DEF Unfinished, Parked, Once, Wake
  <1>6. \A g \in Frame : Calling(g)' <=> Calling(g)
    BY <1>5 DEF Calling, Wake
  <1>7. TypeOK'
    BY <1>1, <1>4 DEF TypeOK, Wake
  <1>8. Once'
    BY <1>1, <1>4, <1>5 DEF Once, Wake
  <1>9. Placed'
    BY <1>1, <1>2, <1>3, <1>4, <1>5, <1>6 DEF Placed, Wake
  <1>10. Held' /\ LoopHolds' /\ Unmade'
    BY <1>1, <1>5 DEF Held, LoopHolds, Unmade, Wake, TypeOK
  <1>11. Rooted'
    <2>1. \A i \in 1..Len(ready') : ready'[i].vt = top'[ready'[i].h]
      BY <1>1, <1>2, <1>4 DEF Rooted, Wake
    <2> QED
      BY <1>1, <1>5, <2>1 DEF Rooted, Wake
  <1>12. Chains'
    BY <1>1, <1>5, ChainsStay DEF Wake
  <1> QED
    BY <1>1, <1>7, <1>8, <1>9, <1>10, <1>11, <1>12 DEF Invariant, Wake

LEMMA ReturnStep ==
  ASSUME Invariant, NEW f \in Frame, Return(f)
  PROVE  Invariant'
  <1> USE TaskFramesAssumption
  <1>1. TypeOK /\ Once /\ Placed /\ Held /\ LoopHolds /\ Unmade /\ Rooted /\ Chains
    BY DEF Invariant
  <1>2. /\ cur = f /\ cur' = cont[f] /\ cont[f] # f
        /\ state[f] = "running" /\ Unfinished(f)
        /\ vt = top[f]
        /\ temps[f] = {}
        /\ cont[f] # None => cont[f] \in Frame /\ state[cont[f]] = "suspended"
    BY <1>1 DEF Return, TransferTo, Placed, Rooted, Calling, Unfinished, TypeOK
  <1>3. /\ state' \in [Frame -> State]
        /\ \A g \in Frame : state'[g] = IF g = f THEN "final"
                                       ELSE IF g = cont[f] THEN "running" ELSE state[g]
    BY <1>1 DEF Return, TransferTo, FinalState, TypeOK, State
  <1>4. ~Queued(f) /\ ~Parked(f) /\ ~Calling(f)
    BY <1>1, <1>2 DEF Placed
  <1>5. \A g \in Frame : /\ Unfinished(g)' <=> Unfinished(g) /\ g # f
                         /\ Queued(g)' <=> Queued(g)
                         /\ Parked(g)' <=> Parked(g)
    BY <1>2, <1>3 DEF Unfinished, Queued, Parked, Return
  <1>6. cont[f] # None => Calling(cont[f]) /\ ~Queued(cont[f]) /\ ~Parked(cont[f])
    BY <1>1, <1>2 DEF Placed, Calling
  <1>7. \A g \in Frame : Calling(g)' <=> Calling(g) /\ g # cont[f]
    BY <1>1, <1>2, <1>5 DEF Calling, Once, Return
  <1>8. TypeOK'
    BY <1>1, <1>2, <1>3 DEF TypeOK, Return
  <1>9. Once'
    BY <1>1, <1>5 DEF Once, Return
  <1>10. Placed'
    BY <1>1, <1>2, <1>3, <1>4, <1>5, <1>6, <1>7 DEF Placed
  <1>11. Held'
    BY <1>1, <1>2, <1>3, <1>5 DEF Held, Return, TypeOK
  <1>12. LoopHolds' /\ Unmade'
    BY <1>1, <1>2, <1>3 DEF LoopHolds, Unmade, Return, TypeOK
  <1>13. Rooted'
    <2>1. cur' # None => vt' = top'[cur']
      BY <1>1, <1>2 DEF Rooted, Return
    <2>2. ASSUME NEW g \in Frame, Unfinished(g)'
          PROVE  (/\ top[g] \in Frame
                  /\ Unfinished(top[g])
                  /\ top[g] # g => cont[g] # None
                  /\ cont[g] # None => top[cont[g]] = top[g])'
      <3>1. Unfinished(g) /\ g # f
        BY <1>5, <2>2
      <3>2. top[g] # f
        BY <1>2, <3>1, SpawnedFrameIsLast
      <3> QED
        BY <1>1, <1>3, <3>1, <3>2 DEF Rooted, Unfinished, Return
    <2> QED
      BY <1>1, <2>1, <2>2 DEF Rooted, Return
  <1>14. Chains'
    BY <1>1, <1>5, ChainsStay DEF Return
  <1> QED
    BY <1>1, <1>8, <1>9, <1>10, <1>11, <1>12, <1>13, <1>14 DEF Invariant, Return

LEMMA DispatchStep ==
  ASSUME Invariant, Dispatch
  PROVE  Invariant'
  <1> USE TaskFramesAssumption
  <1>1. TypeOK /\ Once /\ Placed /\ Held /\ LoopHolds /\ Unmade /\ Rooted /\ Chains
    BY DEF Invariant
  <1> DEFINE h == ready[1].h
  <1>2. /\ ready' \in Seq(ReadyItem)
        /\ Head(ready) = ready[1] /\ 1 \in 1..Len(ready) /\ ready[1] \in ReadyItem
        /\ \A g \in Frame : Queued(g)' <=> Queued(g) /\ g # h
        /\ \A i, j \in 1..Len(ready') : ready'[i].h = ready'[j].h => i = j
        /\ \A i \in 1..Len(ready') : \E k \in 1..Len(ready) : ready'[i] = ready[k]
    BY <1>1, Dequeued DEF Dispatch
  <1>3. /\ h \in Frame /\ ready[1].vt \in Frame /\ ready[1].vt = top[h]
        /\ cur = None /\ cur' = h /\ handle' = h /\ vt' = top[h]
        /\ Queued(h) /\ ~Parked(h) /\ ~Calling(h)
        /\ state[h] \in {"initial", "suspended"}
    BY <1>1, <1>2 DEF Dispatch, ReadyItem, Rooted, Placed, Queued
  <1>4. /\ state' \in [Frame -> State]
        /\ \A g \in Frame : state'[g] = IF g = h THEN "running" ELSE state[g]
    BY <1>1, <1>2, <1>3 DEF Dispatch, TypeOK, State
  <1> HIDE DEF h
  <1>5. \A g \in Frame : /\ Unfinished(g)' <=> Unfinished(g)
                         /\ Parked(g)' <=> Parked(g)
    BY <1>3, <1>4 DEF Unfinished, Parked, Dispatch
  <1>6. \A g \in Frame : Calling(g)' <=> Calling(g)
    BY <1>5 DEF Calling, Dispatch
  <1>7. TypeOK'
    BY <1>1, <1>2, <1>3, <1>4 DEF TypeOK, Dispatch
  <1>8. Once'
    BY <1>1, <1>2, <1>5 DEF Once, Dispatch
  <1>9. Placed'
    BY <1>1, <1>2, <1>3, <1>4, <1>5, <1>6 DEF Placed
  <1>10. Held'
    BY <1>1, <1>3, <1>4, <1>5 DEF Held, Dispatch, TypeOK
  <1>11. LoopHolds' /\ Unmade'
    BY <1>1, <1>3, <1>4 DEF LoopHolds, Unmade, Dispatch
  <1>12. Rooted'
    <2>1. \A i \in 1..Len(ready') : ready'[i].vt = top'[ready'[i].h]
      BY <1>1, <1>2 DEF Rooted, Dispatch
    <2>2. ASSUME NEW g \in Frame, Unfinished(g)'
          PROVE  (/\ top[g] \in Frame
                  /\ Unfinished(top[g])
                  /\ top[g] # g => cont[g] # None
                  /\ cont[g] # None => top[cont[g]] = top[g])'
      BY <1>1, <1>4, <1>5, <2>2 DEF Rooted, Unfinished, Dispatch
    <2> QED
      BY <1>1, <1>3, <2>1, <2>2 DEF Rooted, Dispatch
  <1>13. Chains'
    BY <1>1, <1>5, ChainsStay DEF Dispatch
  <1> QED
    BY <1>1, <1>7, <1>8, <1>9, <1>10, <1>11, <1>12, <1>13 DEF Invariant, Dispatch

LEMMA AfterResumeStep ==
  ASSUME Invariant, AfterResume
  PROVE  Invariant'
  <1> USE TaskFramesAssumption
  <1>1. TypeOK /\ Once /\ Placed /\ Held /\ LoopHolds /\ Unmade /\ Rooted /\ Chains
    BY DEF Invariant
  <1>2. /\ state' \in [Frame -> State]
        /\ \A g \in Frame : \/ state'[g] = state[g]
                            \/ state[g] = "final" /\ state'[g] = "destroyed"
    BY <1>1 DEF AfterResume, Destroyed, TypeOK, State
  <1>3. \A g \in Frame : /\ Unfinished(g)' <=> Unfinished(g)
                         /\ Queued(g)' <=> Queued(g)
                         /\ Parked(g)' <=> Parked(g)
    BY <1>2 DEF Unfinished, Queued, Parked, AfterResume
  <1>4. \A g \in Frame : Calling(g)' <=> Calling(g)
    BY <1>3 DEF Calling, AfterResume
  <1>5. TypeOK' /\ LoopHolds'
    BY <1>1, <1>2 DEF TypeOK, LoopHolds, AfterResume
  <1>6. Once' /\ Unmade'
    BY <1>1, <1>2, <1>3 DEF Once, Unmade, AfterResume
  <1>7. Placed'
    BY <1>1, <1>2, <1>3, <1>4 DEF Placed, AfterResume
  <1>8. Held'
    BY <1>1, <1>2, <1>3 DEF Held, AfterResume, TypeOK
  <1>9. Rooted'
    <2>1. ASSUME NEW g \in Frame, Unfinished(g)'
          PROVE  (/\ top[g] \in Frame
                  /\ Unfinished(top[g])
                  /\ top[g] # g => cont[g] # None
                  /\ cont[g] # None => top[cont[g]] = top[g])'
      BY <1>1, <1>2, <1>3, <2>1 DEF Rooted, Unfinished, AfterResume
    <2> QED
      BY <1>1, <2>1 DEF Rooted, AfterResume
  <1>10. Chains'
    BY <1>1, <1>3, ChainsStay DEF AfterResume
  <1> QED
    BY <1>1, <1>5, <1>6, <1>7, <1>8, <1>9, <1>10 DEF Invariant, AfterResume

-----------------------------------------------------------------------------
\* Every program keeps all of the above, whatever a full expression awaits.
THEOREM InvariantHolds == Spec => []Invariant
  <1>1. Invariant /\ [Next]_vars => Invariant'
    <2> SUFFICES ASSUME Invariant, [Next]_vars PROVE Invariant'
      OBVIOUS
    <2>1. CASE \E f \in Frame, c \in Frame : Go(f, c) \/ Await(f, c)
      BY <2>1, GoStep, AwaitStep
    <2>2. CASE \E f \in Frame : EndExpr(f) \/ Park(f) \/ Return(f)
      BY <2>2, EndExprStep, ParkStep, ReturnStep
    <2>3. CASE \E w \in waiting : Wake(w)
      BY <2>3, WakeStep
    <2>4. CASE Dispatch \/ AfterResume
      BY <2>4, DispatchStep, AfterResumeStep
    <2>5. CASE UNCHANGED vars
      <3>1. TypeOK' /\ Once' /\ Held' /\ LoopHolds' /\ Unmade'
        BY <2>5 DEF vars, Invariant, TypeOK, Once, Held, LoopHolds, Unmade, Unfinished
      <3>2. Placed'
        BY <2>5 DEF vars, Invariant, Placed, Queued, Parked, Calling, Unfinished
      <3>3. Rooted' /\ Chains'
        BY <2>5 DEF vars, Invariant, Rooted, Chains, Unfinished
      <3> QED
        BY <3>1, <3>2, <3>3 DEF Invariant
    <2> QED
      BY <2>1, <2>2, <2>3, <2>4, <2>5 DEF Next, Step, Returned, Undefined
  <1> QED
    BY <1>1, InitInvariant, PTL DEF Spec

\* A frame that has not finished is executing or has exactly one party that will
\* resume it: no goroutine is lost, and none is resumed twice.
THEOREM EveryFrameHasItsResumer == Spec => []OneResumer
  <1>1. Invariant => OneResumer
    <2> SUFFICES ASSUME Invariant, NEW f \in Frame
                 PROVE  Cardinality(Resumers(f)) = IF Unfinished(f) /\ f # cur THEN 1 ELSE 0
      BY DEF OneResumer
    <2>1. Once /\ Placed /\ ready \in Seq(ReadyItem)
      BY DEF Invariant, TypeOK
    <2> DEFINE Q == {<<"ready", i>> : i \in {j \in DOMAIN ready : ready[j].h = f}}
               P == {<<"parked", w>> : w \in {x \in waiting : x.h = f}}
               C == {<<"callee", c>> : c \in {d \in Frame : cont[d] = f /\ Unfinished(d)}}
    <2>2. DOMAIN ready = 1..Len(ready)
      BY <2>1, LenProperties
    <2>3. /\ ~Queued(f) => Q = {}
          /\ ~Parked(f) => P = {}
          /\ ~Calling(f) => C = {}
      BY <2>2 DEF Queued, Parked, Calling
    <2>4. Queued(f) => \E e : Q = {e}
      <3> SUFFICES ASSUME Queued(f) PROVE \E e : Q = {e}
        OBVIOUS
      <3>1. PICK i \in 1..Len(ready) : ready[i].h = f
        BY DEF Queued
      <3>2. {j \in DOMAIN ready : ready[j].h = f} = {i}
        BY <2>1, <2>2, <3>1 DEF Once
      <3>3. Q = {<<"ready", i>>}
        BY <3>2
      <3> QED
        BY <3>3
    <2>5. Parked(f) => \E e : P = {e}
      <3> SUFFICES ASSUME Parked(f) PROVE \E e : P = {e}
        OBVIOUS
      <3>1. PICK w \in waiting : w.h = f
        BY DEF Parked
      <3>2. {x \in waiting : x.h = f} = {w}
        BY <2>1, <3>1 DEF Once
      <3>3. P = {<<"parked", w>>}
        BY <3>2
      <3> QED
        BY <3>3
    <2>6. Calling(f) => \E e : C = {e}
      <3> SUFFICES ASSUME Calling(f) PROVE \E e : C = {e}
        OBVIOUS
      <3>1. PICK c \in Frame : cont[c] = f /\ Unfinished(c)
        BY DEF Calling
      <3>2. {d \in Frame : cont[d] = f /\ Unfinished(d)} = {c}
        BY <2>1, <3>1, TaskFramesAssumption DEF Once
      <3>3. C = {<<"callee", c>>}
        BY <3>2
      <3> QED
        BY <3>3
    <2>7. Resumers(f) = Q \union P \union C
      BY DEF Resumers
    <2> HIDE DEF Q, P, C
    <2>8. CASE Unfinished(f) /\ f # cur
      <3>1. \E e : Resumers(f) = {e}
        BY <2>1, <2>3, <2>4, <2>5, <2>6, <2>7, <2>8 DEF Placed, Unfinished
      <3> QED
        BY <2>8, <3>1, FS_Singleton
    <2>9. CASE ~(Unfinished(f) /\ f # cur)
      <3>1. Resumers(f) = {}
        BY <2>1, <2>3, <2>7, <2>9 DEF Placed, Unfinished
      <3> QED
        BY <2>9, <3>1, FS_EmptySet
    <2> QED
      BY <2>8, <2>9
  <1> QED
    BY <1>1, InvariantHolds, PTL

\* No handle that is resumed, continued into or checked by the loop names a destroyed
\* frame; ~Task finds the frame of every temporary that its full expression did not
\* keep over a further suspension; and the current VThread is the one of the
\* goroutine that executes, rooted by a frame that lives.
THEOREM HandlesAgreeWithFrames == Spec => []FramesConsistent
  <1>1. Invariant => FramesConsistent
    <2> SUFFICES ASSUME Invariant PROVE FramesConsistent
      OBVIOUS
    <2>1. TypeOK /\ Placed /\ Held /\ LoopHolds /\ Rooted
      BY DEF Invariant
    <2>2. HandlesAreAlive
      BY <2>1 DEF HandlesAreAlive, Placed, Calling, LoopHolds, TypeOK
    <2>3. VThreadFollows
      BY <2>1 DEF VThreadFollows, Rooted, Unfinished
    <2>4. TemporariesLive
      BY <2>1 DEF TemporariesLive, Held, Unfinished
    <2> QED
      BY <2>1, <2>2, <2>3, <2>4 DEF FramesConsistent
  <1> QED
    BY <1>1, InvariantHolds, PTL

=============================================================================
