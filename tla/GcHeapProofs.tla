---------------------------- MODULE GcHeapProofs ----------------------------
(***************************************************************************)
(* For any number of objects, Persistents and threads, a program that      *)
(* keeps to Disciplined never has a dangling pointer, and a collection     *)
(* keeps exactly what is reachable.                                        *)
(*                                                                         *)
(* HeapClosed is not inductive: the sweep needs to know that what is black *)
(* when the grey set is empty contains the roots' targets and is closed.   *)
(* MarkInvariant says so of every moment of a collection.                  *)
(***************************************************************************)
EXTENDS GcHeap, SequenceTheorems, TLAPS

\* Sequences of roots: no entry twice, and the set of entries.
Distinct(r) == \A i, j \in DOMAIN r : r[i] = r[j] => i = j
Entries(r) == {r[i] : i \in DOMAIN r}
NonNull == {s \in Slot : p_[s] # None}

\* attach_locked adds a root that is not there.
LEMMA AttachedRoot ==
  ASSUME NEW r \in Seq(Slot), NEW s \in Slot, Distinct(r), s \notin Entries(r)
  PROVE  /\ Append(r, s) \in Seq(Slot)
         /\ Distinct(Append(r, s))
         /\ Entries(Append(r, s)) = Entries(r) \union {s}
  <1> DEFINE q == Append(r, s)
  <1>1. /\ q \in Seq(Slot)
        /\ Len(q) = Len(r) + 1
        /\ \A i \in 1..Len(r) : q[i] = r[i]
        /\ q[Len(r) + 1] = s
    BY AppendProperties
  <1>2. /\ Len(r) \in Nat
        /\ DOMAIN r = 1..Len(r)
        /\ DOMAIN q = 1..(Len(r) + 1)
    BY <1>1, LenProperties
  <1> HIDE DEF q
  <1>3. \A i \in DOMAIN q : i \in DOMAIN r \/ i = Len(r) + 1
    BY <1>2
  <1>4. \A i \in DOMAIN r : i \in DOMAIN q /\ i # Len(r) + 1 /\ q[i] = r[i] /\ r[i] # s
    BY <1>1, <1>2 DEF Entries
  <1>5. Len(r) + 1 \in DOMAIN q
    BY <1>2
  <1>6. Distinct(q)
    BY <1>1, <1>3, <1>4 DEF Distinct
  <1>7. Entries(q) = Entries(r) \union {s}
    BY <1>1, <1>3, <1>4, <1>5 DEF Entries
  <1> QED
    BY <1>1, <1>6, <1>7 DEF q

\* RemoveRoot_locked takes out the one entry it is asked for and no other.
LEMMA RemovedRoot ==
  ASSUME NEW r \in Seq(Slot), NEW s \in Slot, Distinct(r), s \in Entries(r)
  PROVE  /\ Removed(r, s) \in Seq(Slot)
         /\ Distinct(Removed(r, s))
         /\ Entries(Removed(r, s)) = Entries(r) \ {s}
  <1> DEFINE i == CHOOSE j \in DOMAIN r : r[j] = s
             n == Len(r)
             q == [j \in 1..(n - 1) |-> IF j = i THEN r[n] ELSE r[j]]
  <1>1. /\ n \in Nat
        /\ DOMAIN r = 1..n
        /\ \A j \in 1..n : r[j] \in Slot
    BY LenProperties, ElementOfSeq
  <1>2. i \in DOMAIN r /\ r[i] = s
    BY DEF Entries
  <1>3. Removed(r, s) = q
    BY <1>2 DEF Removed
  <1> HIDE DEF i, n
  <1>4. n - 1 \in Nat /\ n \in 1..n
    BY <1>1, <1>2
  <1>5. \A j \in 1..(n - 1) : j \in 1..n /\ j # n
    BY <1>1
  <1>6. \A j \in 1..n : j = n \/ j \in 1..(n - 1)
    BY <1>1
  <1>7. DOMAIN q = 1..(n - 1) /\ \A j \in 1..(n - 1) : q[j] = IF j = i THEN r[n] ELSE r[j]
    OBVIOUS
  <1>8. q \in Seq(Slot)
    <2>1. q \in [1..(n - 1) -> Slot]
      BY <1>1, <1>4, <1>5
    <2> QED
      BY <2>1, <1>4, SeqDef
  <1> HIDE DEF q
  <1>9. Distinct(q)
    <2> SUFFICES ASSUME NEW a \in 1..(n - 1), NEW b \in 1..(n - 1), q[a] = q[b]
                 PROVE  a = b
      BY <1>7 DEF Distinct
    <2>1. a \in 1..n /\ b \in 1..n /\ a # n /\ b # n
      BY <1>5
    <2> QED
      BY <2>1, <1>1, <1>4, <1>7 DEF Distinct
  <1>10. \A j \in 1..(n - 1) : q[j] \in Entries(r) \ {s}
    <2> SUFFICES ASSUME NEW j \in 1..(n - 1)
                 PROVE  q[j] \in Entries(r) /\ q[j] # s
      OBVIOUS
    <2>1. j \in 1..n /\ j # n
      BY <1>5
    <2>2. CASE j = i
      BY <2>1, <2>2, <1>1, <1>2, <1>4, <1>7 DEF Distinct, Entries
    <2>3. CASE j # i
      BY <2>1, <2>3, <1>1, <1>2, <1>7 DEF Distinct, Entries
    <2> QED
      BY <2>2, <2>3
  <1>11. \A j \in 1..n : r[j] # s => r[j] \in Entries(q)
    <2> SUFFICES ASSUME NEW j \in 1..n, r[j] # s
                 PROVE  \E k \in 1..(n - 1) : q[k] = r[j]
      BY <1>7 DEF Entries
    <2>1. CASE j = n
      <3>1. i # n
        BY <2>1, <1>2
      <3>2. i \in 1..(n - 1)
        BY <3>1, <1>1, <1>2, <1>6
      <3> QED
        BY <3>2, <2>1, <1>7
    <2>2. CASE j # n
      <3>1. j \in 1..(n - 1) /\ j # i
        BY <2>2, <1>2, <1>6
      <3> QED
        BY <3>1, <1>7
    <2> QED
      BY <2>1, <2>2
  <1>12. Entries(q) = Entries(r) \ {s}
    <2>1. \A x \in Entries(q) : x \in Entries(r) \ {s}
      BY <1>10, <1>7 DEF Entries
    <2>2. \A x \in Entries(r) \ {s} : x \in Entries(q)
      BY <1>11, <1>1 DEF Entries
    <2> QED
      BY <2>1, <2>2
  <1> QED
    BY <1>3, <1>8, <1>9, <1>12

\* attach_locked and detach_locked, with the null check.
LEMMA AttachedEntries ==
  ASSUME NEW r \in Seq(Slot), NEW s \in Slot, NEW v, Distinct(r), s \notin Entries(r)
  PROVE  /\ Attached(r, s, v) \in Seq(Slot)
         /\ Distinct(Attached(r, s, v))
         /\ Entries(Attached(r, s, v)) = IF v # None THEN Entries(r) \union {s} ELSE Entries(r)
  BY AttachedRoot DEF Attached

LEMMA DetachedEntries ==
  ASSUME NEW r \in Seq(Slot), NEW s \in Slot, NEW v, Distinct(r), v # None <=> s \in Entries(r)
  PROVE  /\ Detached(r, s, v) \in Seq(Slot)
         /\ Distinct(Detached(r, s, v))
         /\ Entries(Detached(r, s, v)) = Entries(r) \ {s}
  BY RemovedRoot DEF Detached

-----------------------------------------------------------------------------
(* The inductive invariant                                                 *)

\* An object that Make has returned and nobody has rooted is there, the thread
\* that made it is alone, and no collection is under way.
RawInvariant ==
  /\ \A t \in Thread : raw[t] # None => raw[t] \in objects
  /\ \A t \in Thread : raw[t] # None => solo = t
  /\ mu # None => solo \in {mu, None} /\ \A t \in Thread : raw[t] = None

\* During a collection black and grey objects are live, they cover the roots'
\* targets and the Members of the black ones, none is both, and all of them are
\* reachable.
MarkInvariant ==
  mu # None =>
    /\ grey \subseteq objects
    /\ black \subseteq objects
    /\ black \intersect grey = {}
    /\ Targets \subseteq black \union grey
    /\ \A o \in black : edges[o] \subseteq black \union grey
    /\ \A S \in SUBSET objects : ClosedUnder(S) => black \union grey \subseteq S

RootsInvariant == Distinct(roots) /\ Entries(roots) = NonNull

Invariant == TypeOK /\ RootsInvariant /\ HeapClosed /\ RawInvariant /\ MarkInvariant

\* The names of the roots are those of RootsMatch.
LEMMA RootsMatchInvariant == RootsInvariant <=> RootsMatch
  BY DEF RootsInvariant, RootsMatch, Distinct, Entries, NonNull

\* Initially there is nothing.
LEMMA InitInvariant == Init => Invariant
  <1> SUFFICES ASSUME Init PROVE Invariant
    OBVIOUS
  <1>1. TypeOK
    BY EmptySeq DEF Init, TypeOK
  <1>2. RootsInvariant
    BY DEF Init, RootsInvariant, Distinct, Entries, NonNull
  <1>3. HeapClosed
    BY DEF Init, HeapClosed, Targets
  <1>4. RawInvariant /\ MarkInvariant
    BY DEF Init, RawInvariant, MarkInvariant
  <1> QED
    BY <1>1, <1>2, <1>3, <1>4 DEF Invariant

\* What follows when one Persistent is reset.
LEMMA ResetRoots ==
  ASSUME TypeOK, RootsInvariant, NEW s \in Slot, NEW o \in Object \union {None}, Reset(s, o)
  PROVE  roots' \in Seq(Slot) /\ RootsInvariant'
  <1> DEFINE d == Detached(roots, s, p_[s])
  <1>1. roots \in Seq(Slot) /\ p_ \in [Slot -> Object \union {None}]
    BY DEF TypeOK
  <1>2. p_[s] # None <=> s \in Entries(roots)
    BY DEF RootsInvariant, NonNull
  <1>3. d \in Seq(Slot) /\ Distinct(d) /\ Entries(d) = Entries(roots) \ {s}
    BY <1>1, <1>2, DetachedEntries DEF RootsInvariant
  <1>4. roots' = Attached(d, s, o) /\ p_' = [p_ EXCEPT ![s] = o]
    BY DEF Reset
  <1> HIDE DEF d
  <1>5. /\ roots' \in Seq(Slot)
        /\ Distinct(roots')
        /\ Entries(roots') = IF o # None THEN Entries(d) \union {s} ELSE Entries(d)
    BY <1>3, <1>4, AttachedEntries
  <1>6. Entries(roots') = NonNull'
    BY <1>1, <1>3, <1>4, <1>5 DEF RootsInvariant, NonNull
  <1> QED
    BY <1>5, <1>6 DEF RootsInvariant

\* Each way of changing the roots keeps roots_ and the Persistents in step.
LEMMA StepRoots ==
  ASSUME Invariant, NEW t \in Thread, Step(t) \/ Collect(t) \/ UNCHANGED vars
  PROVE  roots' \in Seq(Slot) /\ RootsInvariant'
  <1>0. /\ TypeOK /\ RootsInvariant
        /\ roots \in Seq(Slot)
        /\ p_ \in [Slot -> Object \union {None}]
        /\ raw \in [Thread -> Object \union {None}]
    BY DEF Invariant, TypeOK
  <1>1. CASE UNCHANGED <<p_, roots>>
    BY <1>0, <1>1 DEF RootsInvariant, Distinct, Entries, NonNull
  <1>2. ASSUME NEW s \in Slot, RootMade(t, s)
        PROVE  roots' \in Seq(Slot) /\ RootsInvariant'
    BY <1>0, <1>2, ResetRoots DEF RootMade
  <1>3. ASSUME NEW s \in Slot, NEW o \in Object, NEW E, MakeRooted(t, s, o, E)
        PROVE  roots' \in Seq(Slot) /\ RootsInvariant'
    <2>1. s \notin Entries(roots)
      BY <1>0, <1>3 DEF MakeRooted, RootsInvariant, NonNull
    <2>2. o # None
      BY GcHeapAssumption
    <2>3. roots' = Attached(roots, s, o) /\ p_' = [p_ EXCEPT ![s] = o]
      BY <1>3 DEF MakeRooted, RootNew
    <2>4. roots' \in Seq(Slot) /\ Distinct(roots') /\ Entries(roots') = Entries(roots) \union {s}
      BY <1>0, <2>1, <2>2, <2>3, AttachedEntries DEF RootsInvariant
    <2>5. Entries(roots') = NonNull'
      BY <1>0, <2>2, <2>3, <2>4 DEF RootsInvariant, NonNull
    <2> QED
      BY <2>4, <2>5 DEF RootsInvariant
  <1>4. ASSUME NEW s \in Slot, NEW o \in Targets, Assign(t, s, o)
        PROVE  roots' \in Seq(Slot) /\ RootsInvariant'
    <2>1. o \in Object \union {None}
      BY <1>0, <1>4 DEF Targets
    <2> QED
      BY <1>0, <1>4, <2>1, ResetRoots DEF Assign
  <1>5. ASSUME NEW s \in Slot, NEW u \in Slot, Move(t, s, u)
        PROVE  roots' \in Seq(Slot) /\ RootsInvariant'
    <2> DEFINE d == Detached(roots, s, p_[s])
               e == Detached(d, u, p_[u])
    <2>1. s # u /\ roots' = Attached(e, s, p_[u]) /\ p_' = [p_ EXCEPT ![s] = p_[u], ![u] = None]
      BY <1>5 DEF Move, MovedRoots
    <2>2. d \in Seq(Slot) /\ Distinct(d) /\ Entries(d) = Entries(roots) \ {s}
      BY <1>0, DetachedEntries DEF RootsInvariant, NonNull
    <2>3. p_[u] # None <=> u \in Entries(d)
      BY <1>0, <2>1, <2>2 DEF RootsInvariant, NonNull
    <2> HIDE DEF d
    <2>4. e \in Seq(Slot) /\ Distinct(e) /\ Entries(e) = Entries(d) \ {u}
      BY <2>2, <2>3, DetachedEntries
    <2> HIDE DEF e
    <2>5. s \notin Entries(e)
      BY <2>2, <2>4
    <2>6. /\ roots' \in Seq(Slot)
          /\ Distinct(roots')
          /\ Entries(roots') = IF p_[u] # None THEN Entries(e) \union {s} ELSE Entries(e)
      BY <2>1, <2>4, <2>5, AttachedEntries
    <2>7. Entries(roots') = NonNull'
      BY <1>0, <2>1, <2>2, <2>4, <2>6 DEF RootsInvariant, NonNull
    <2> QED
      BY <2>6, <2>7 DEF RootsInvariant
  <1>6. ASSUME NEW s \in Slot, Drop(t, s)
        PROVE  roots' \in Seq(Slot) /\ RootsInvariant'
    <2>1. roots' = Detached(roots, s, p_[s]) /\ p_' = [p_ EXCEPT ![s] = None]
      BY <1>6 DEF Drop
    <2>2. roots' \in Seq(Slot) /\ Distinct(roots') /\ Entries(roots') = Entries(roots) \ {s}
      BY <1>0, <2>1, DetachedEntries DEF RootsInvariant, NonNull
    <2>3. Entries(roots') = NonNull'
      BY <1>0, <2>1, <2>2 DEF RootsInvariant, NonNull
    <2> QED
      BY <2>2, <2>3 DEF RootsInvariant
  <1>7. ASSUME NEW o, NEW E, Make(t, o, E)
        PROVE  UNCHANGED <<p_, roots>>
    BY <1>7 DEF Make
  <1>8. ASSUME NEW o, NEW E, SetMembers(t, o, E)
        PROVE  UNCHANGED <<p_, roots>>
    BY <1>8 DEF SetMembers
  <1>9. CASE Collect(t)
    <2>1. UNCHANGED <<p_, roots>>
      BY <1>9 DEF Collect, CollectBegin, Mark, Sweep
    <2> QED
      BY <2>1, <1>1
  <1>10. CASE UNCHANGED vars
    BY <1>1, <1>10 DEF vars
  <1>11. CASE Step(t)
    BY <1>11, <1>1, <1>2, <1>3, <1>4, <1>5, <1>6, <1>7, <1>8 DEF Step
  <1> QED
    BY <1>9, <1>10, <1>11

-----------------------------------------------------------------------------
(* One step                                                                *)

\* A step that only moves Persistents: the heap stays closed when their new
\* targets are live.
LEMMA PointerStep ==
  ASSUME Invariant, mu = None,
         UNCHANGED <<objects, edges, mu, black, grey>>,
         NEW s \in Slot, NEW v \in objects \union {None},
         \A u \in Slot : p_'[u] = p_[u] \/ p_'[u] = None \/ p_'[u] = v
  PROVE  HeapClosed' /\ MarkInvariant'
  <1>1. Targets \subseteq objects /\ \A o \in objects : edges[o] \subseteq objects
    BY DEF Invariant, HeapClosed
  <1>2. Targets' \subseteq objects
    BY <1>1 DEF Targets
  <1>3. HeapClosed'
    BY <1>1, <1>2 DEF HeapClosed
  <1>4. MarkInvariant'
    BY DEF MarkInvariant
  <1> QED
    BY <1>3, <1>4

\* A new object whose Members are targets of Persistents keeps the heap closed.
LEMMA NewObject ==
  ASSUME Invariant, NEW o \in Object, NEW E \in SUBSET Targets,
         o \notin objects,
         objects' = objects \union {o},
         edges' = [edges EXCEPT ![o] = E],
         Targets' \subseteq Targets \union {o}
  PROVE  HeapClosed'
  <1>1. edges \in [Object -> SUBSET Object] /\ objects \subseteq Object
    BY DEF Invariant, TypeOK
  <1>2. Targets \subseteq objects /\ \A x \in objects : edges[x] \subseteq objects
    BY DEF Invariant, HeapClosed
  <1>3. \A x \in objects : edges'[x] = edges[x]
    BY <1>1
  <1>4. edges'[o] = E
    BY <1>1
  <1> QED
    BY <1>2, <1>3, <1>4 DEF HeapClosed

\* Every step of a disciplined program keeps the heap closed, the objects that are
\* not rooted yet live, and the marking on its way.
LEMMA StepHeap ==
  ASSUME Disciplined, Invariant, NEW t \in Thread, UNCHANGED solo,
         Step(t) \/ Collect(t) \/ UNCHANGED vars
  PROVE  HeapClosed' /\ MarkInvariant' /\ RawInvariant'
  <1>1. /\ objects \subseteq Object
        /\ edges \in [Object -> SUBSET Object]
        /\ p_ \in [Slot -> Object \union {None}]
        /\ raw \in [Thread -> Object \union {None}]
        /\ mu \in Thread \union {None}
    BY DEF Invariant, TypeOK
  <1>2. Targets \subseteq objects /\ \A o \in objects : edges[o] \subseteq objects
    BY DEF Invariant, HeapClosed
  <1>3. /\ \A u \in Thread : raw[u] # None => raw[u] \in objects
        /\ \A u \in Thread : raw[u] # None => solo = u
        /\ mu # None => solo \in {mu, None} /\ \A u \in Thread : raw[u] = None
    BY DEF Invariant, RawInvariant
  <1>4. None \notin Object /\ None \notin Thread
    BY GcHeapAssumption
  <1>5. ASSUME NEW o \in Object, NEW E \in SUBSET Targets, Make(t, o, E)
        PROVE  HeapClosed' /\ MarkInvariant' /\ RawInvariant'
    <2>1. /\ solo = t /\ mu = None /\ mu' = None /\ o \notin objects
          /\ objects' = objects \union {o}
          /\ edges' = [edges EXCEPT ![o] = E]
          /\ raw' = [raw EXCEPT ![t] = o]
          /\ p_' = p_
      BY <1>5 DEF Make, Locks, Alone, Disciplined
    <2>2. Targets' = Targets
      BY <2>1 DEF Targets
    <2>3. HeapClosed'
      BY <2>1, <2>2, NewObject
    <2>4. MarkInvariant'
      BY <2>1 DEF MarkInvariant
    <2>5. RawInvariant'
      BY <1>1, <1>3, <2>1 DEF RawInvariant
    <2> QED
      BY <2>3, <2>4, <2>5
  <1>6. ASSUME NEW s \in Slot, NEW o \in Object, NEW E \in SUBSET Targets, MakeRooted(t, s, o, E)
        PROVE  HeapClosed' /\ MarkInvariant' /\ RawInvariant'
    <2>1. /\ mu = None /\ mu' = None /\ o \notin objects
          /\ objects' = objects \union {o}
          /\ edges' = [edges EXCEPT ![o] = E]
          /\ raw' = raw
          /\ p_' = [p_ EXCEPT ![s] = o]
      BY <1>6 DEF MakeRooted, RootNew, Locks
    <2>2. Targets' \subseteq Targets \union {o}
      BY <1>1, <2>1 DEF Targets
    <2>3. HeapClosed'
      BY <2>1, <2>2, NewObject
    <2>4. MarkInvariant'
      BY <2>1 DEF MarkInvariant
    <2>5. RawInvariant'
      BY <1>3, <2>1 DEF RawInvariant
    <2> QED
      BY <2>3, <2>4, <2>5
  <1>7. ASSUME NEW s \in Slot, RootMade(t, s)
        PROVE  HeapClosed' /\ MarkInvariant' /\ RawInvariant'
    <2>1. /\ mu = None /\ UNCHANGED <<objects, edges, mu, black, grey>>
          /\ raw[t] # None
          /\ raw' = [raw EXCEPT ![t] = None]
          /\ p_' = [p_ EXCEPT ![s] = raw[t]]
      BY <1>7 DEF RootMade, Reset, Locks
    <2>2. raw[t] \in objects \union {None}
      BY <1>3, <2>1
    <2>3. \A u \in Slot : p_'[u] = p_[u] \/ p_'[u] = None \/ p_'[u] = raw[t]
      BY <1>1, <2>1
    <2>4. HeapClosed' /\ MarkInvariant'
      BY <2>1, <2>2, <2>3, PointerStep
    <2>5. RawInvariant'
      BY <1>1, <1>3, <2>1 DEF RawInvariant
    <2> QED
      BY <2>4, <2>5
  <1>8. ASSUME NEW s \in Slot, NEW v \in objects \union {None},
               UNCHANGED <<objects, edges, raw, mu, black, grey>>, mu = None,
               \A u \in Slot : p_'[u] = p_[u] \/ p_'[u] = None \/ p_'[u] = v
        PROVE  HeapClosed' /\ MarkInvariant' /\ RawInvariant'
    <2>1. HeapClosed' /\ MarkInvariant'
      BY <1>8, PointerStep
    <2>2. RawInvariant'
      BY <1>3, <1>8 DEF RawInvariant
    <2> QED
      BY <2>1, <2>2
  <1>9. ASSUME NEW s \in Slot, NEW o \in Targets, Assign(t, s, o)
        PROVE  HeapClosed' /\ MarkInvariant' /\ RawInvariant'
    <2>1. /\ UNCHANGED <<objects, edges, raw, mu, black, grey>> /\ mu = None
          /\ p_' = [p_ EXCEPT ![s] = o]
      BY <1>9 DEF Assign, Reset, Locks
    <2>2. \A u \in Slot : p_'[u] = p_[u] \/ p_'[u] = None \/ p_'[u] = o
      BY <1>1, <2>1
    <2>3. o \in objects \union {None}
      BY <1>2
    <2> QED
      BY <2>1, <2>2, <2>3, <1>8
  <1>10. ASSUME NEW s \in Slot, NEW u \in Slot, Move(t, s, u)
         PROVE  HeapClosed' /\ MarkInvariant' /\ RawInvariant'
    <2>1. /\ UNCHANGED <<objects, edges, raw, mu, black, grey>> /\ mu = None
          /\ p_' = [p_ EXCEPT ![s] = p_[u], ![u] = None]
      BY <1>10 DEF Move, Locks
    <2>2. \A x \in Slot : p_'[x] = p_[x] \/ p_'[x] = None \/ p_'[x] = p_[u]
      BY <1>1, <2>1
    <2>3. p_[u] \in objects \union {None}
      BY <1>2 DEF Targets
    <2> QED
      BY <2>1, <2>2, <2>3, <1>8
  <1>11. ASSUME NEW s \in Slot, Drop(t, s)
         PROVE  HeapClosed' /\ MarkInvariant' /\ RawInvariant'
    <2>1. /\ UNCHANGED <<objects, edges, raw, mu, black, grey>> /\ mu = None
          /\ p_' = [p_ EXCEPT ![s] = None]
      BY <1>11 DEF Drop, Locks
    <2>2. \A x \in Slot : p_'[x] = p_[x] \/ p_'[x] = None \/ p_'[x] = None
      BY <1>1, <2>1
    <2> QED
      BY <2>1, <2>2, <1>8
  <1>12. ASSUME NEW o \in Reachable, NEW E \in SUBSET Reachable, SetMembers(t, o, E)
         PROVE  HeapClosed' /\ MarkInvariant' /\ RawInvariant'
    <2>1. /\ solo = t /\ mu # t
          /\ edges' = [edges EXCEPT ![o] = E]
          /\ UNCHANGED <<objects, p_, raw, mu>>
      BY <1>12 DEF SetMembers, Works, Alone, Disciplined
    <2>2. o \in objects /\ E \subseteq objects
      BY DEF Reachable
    <2>3. \A x \in objects : edges'[x] = edges[x] \/ edges'[x] = E
      BY <1>1, <2>1
    <2>4. HeapClosed'
      BY <1>2, <2>1, <2>2, <2>3 DEF HeapClosed, Targets
    <2>5. mu = None
      BY <1>3, <1>4, <2>1
    <2>6. MarkInvariant'
      BY <2>1, <2>5 DEF MarkInvariant
    <2>7. RawInvariant'
      BY <1>3, <2>1 DEF RawInvariant
    <2> QED
      BY <2>4, <2>6, <2>7
  <1>13. CASE CollectBegin(t)
    <2>1. /\ mu' = t /\ solo \in {t, None} /\ raw[t] = None /\ black' = {}
          /\ grey' = {p_[roots[i]] : i \in DOMAIN roots} \ {None}
          /\ UNCHANGED <<objects, edges, p_, roots, raw>>
      BY <1>13 DEF CollectBegin, Locks
    <2>2. Entries(roots) = NonNull
      BY DEF Invariant, RootsInvariant
    <2>3. grey' = Targets
      <3>1. \A i \in DOMAIN roots : roots[i] \in NonNull
        BY <2>2 DEF Entries
      <3>2. \A s \in NonNull : \E i \in DOMAIN roots : roots[i] = s
        BY <2>2 DEF Entries
      <3>3. grey' \subseteq Targets
        BY <2>1, <3>1 DEF NonNull, Targets
      <3>4. Targets \subseteq grey'
        BY <2>1, <3>2 DEF NonNull, Targets
      <3> QED
        BY <3>3, <3>4
    <2>4. Targets' = Targets
      BY <2>1 DEF Targets
    <2>5. HeapClosed'
      BY <1>2, <2>1, <2>4 DEF HeapClosed
    <2>6. \A S \in SUBSET objects : ClosedUnder(S)' => Targets \subseteq S
      BY <2>4 DEF ClosedUnder
    <2>7. MarkInvariant'
      BY <1>2, <2>1, <2>3, <2>4, <2>6 DEF MarkInvariant
    <2>8. \A u \in Thread : raw[u] = None
      BY <1>3, <1>4, <2>1
    <2>9. RawInvariant'
      BY <2>1, <2>8 DEF RawInvariant
    <2> QED
      BY <2>5, <2>7, <2>9
  <1>14. ASSUME NEW o \in Object, Mark(t, o)
         PROVE  HeapClosed' /\ MarkInvariant' /\ RawInvariant'
    <2>1. /\ mu = t /\ o \in grey
          /\ black' = black \union {o}
          /\ grey' = (grey \ {o}) \union (edges[o] \ (black \union {o}))
          /\ UNCHANGED <<objects, edges, p_, roots, raw, mu>>
      BY <1>14 DEF Mark, Traced
    <2>2. /\ grey \subseteq objects
          /\ black \subseteq objects
          /\ black \intersect grey = {}
          /\ Targets \subseteq black \union grey
          /\ \A x \in black : edges[x] \subseteq black \union grey
          /\ \A S \in SUBSET objects : ClosedUnder(S) => black \union grey \subseteq S
      BY <1>4, <2>1 DEF Invariant, MarkInvariant
    <2>3. Targets' = Targets /\ HeapClosed'
      BY <1>2, <2>1 DEF HeapClosed, Targets
    <2>4. black' \union grey' = black \union grey \union edges[o]
      BY <2>1
    <2>5. black' \subseteq objects /\ grey' \subseteq objects /\ black' \intersect grey' = {}
      BY <1>2, <2>1, <2>2
    <2>6. \A x \in black' : edges[x] \subseteq black' \union grey'
      BY <2>1, <2>2, <2>4
    <2>7. ASSUME NEW S \in SUBSET objects, ClosedUnder(S)'
          PROVE  black' \union grey' \subseteq S
      <3>1. Targets \subseteq S /\ \A x \in S : edges[x] \subseteq S
        BY <2>1, <2>3, <2>7 DEF ClosedUnder
      <3>2. black \union grey \subseteq S
        BY <3>1, <2>2 DEF ClosedUnder
      <3> QED
        BY <2>1, <2>4, <3>1, <3>2
    <2>8. MarkInvariant'
      BY <2>1, <2>2, <2>3, <2>4, <2>5, <2>6, <2>7 DEF MarkInvariant
    <2>9. RawInvariant'
      BY <1>3, <2>1 DEF RawInvariant
    <2> QED
      BY <2>3, <2>8, <2>9
  <1>15. CASE Sweep(t)
    <2>1. /\ mu = t /\ grey = {} /\ mu' = None
          /\ objects' = objects \intersect black
          /\ UNCHANGED <<edges, p_, raw>>
      BY <1>15 DEF Sweep, Kept
    <2>2. Targets \subseteq black /\ \A x \in black : edges[x] \subseteq black
      BY <1>4, <2>1 DEF Invariant, MarkInvariant
    <2>3. HeapClosed'
      BY <1>2, <2>1, <2>2 DEF HeapClosed, Targets
    <2>4. MarkInvariant'
      BY <2>1 DEF MarkInvariant
    <2>5. RawInvariant'
      BY <1>3, <1>4, <2>1 DEF RawInvariant
    <2> QED
      BY <2>3, <2>4, <2>5
  <1>16. CASE UNCHANGED vars
    <2>1. UNCHANGED <<objects, edges, p_, raw, mu, black, grey>>
      BY <1>16 DEF vars
    <2>2. Targets' = Targets
      BY <2>1 DEF Targets
    <2>3. HeapClosed' /\ RawInvariant'
      BY <1>2, <1>3, <2>1, <2>2 DEF HeapClosed, RawInvariant
    <2>4. \A S \in SUBSET objects : ClosedUnder(S)' => ClosedUnder(S)
      BY <2>1, <2>2 DEF ClosedUnder
    <2>5. MarkInvariant'
      BY <2>1, <2>2, <2>4 DEF Invariant, MarkInvariant
    <2> QED
      BY <2>3, <2>5
  <1>17. CASE Step(t)
    BY <1>17, <1>5, <1>6, <1>7, <1>9, <1>10, <1>11, <1>12 DEF Step
  <1>18. CASE Collect(t)
    BY <1>18, <1>13, <1>14, <1>15 DEF Collect
  <1> QED
    BY <1>16, <1>17, <1>18

\* Every step keeps the types.
LEMMA StepType ==
  ASSUME Invariant, NEW t \in Thread, UNCHANGED solo,
         Step(t) \/ Collect(t) \/ UNCHANGED vars
  PROVE  TypeOK'
  <1>1. /\ objects \subseteq Object
        /\ edges \in [Object -> SUBSET Object]
        /\ p_ \in [Slot -> Object \union {None}]
        /\ raw \in [Thread -> Object \union {None}]
        /\ mu \in Thread \union {None}
        /\ black \subseteq Object
        /\ grey \subseteq Object
    BY DEF Invariant, TypeOK
  <1>2. roots' \in Seq(Slot) /\ solo' \in Thread \union {None}
    BY StepRoots DEF Invariant, TypeOK
  <1>3. Targets \subseteq Object
    BY <1>1 DEF Targets
  <1>4. Reachable \subseteq Object
    BY <1>1 DEF Reachable
  <1> DEFINE Rest == /\ objects' \subseteq Object
                     /\ edges' \in [Object -> SUBSET Object]
                     /\ p_' \in [Slot -> Object \union {None}]
                     /\ raw' \in [Thread -> Object \union {None}]
                     /\ mu' \in Thread \union {None}
                     /\ black' \subseteq Object
                     /\ grey' \subseteq Object
  <1> SUFFICES Rest
    BY <1>2 DEF TypeOK
  <1>5. ASSUME NEW o \in Object, NEW E \in SUBSET Targets, Make(t, o, E)
        PROVE  Rest
    BY <1>1, <1>3, <1>5 DEF Make
  <1>6. ASSUME NEW s \in Slot, NEW o \in Object, NEW E \in SUBSET Targets, MakeRooted(t, s, o, E)
        PROVE  Rest
    BY <1>1, <1>3, <1>6 DEF MakeRooted, RootNew
  <1>7. ASSUME NEW s \in Slot, RootMade(t, s)
        PROVE  Rest
    BY <1>1, <1>7 DEF RootMade, Reset
  <1>8. ASSUME NEW s \in Slot, NEW o \in Targets, Assign(t, s, o)
        PROVE  Rest
    BY <1>1, <1>3, <1>8 DEF Assign, Reset
  <1>9. ASSUME NEW s \in Slot, NEW u \in Slot, Move(t, s, u)
        PROVE  Rest
    BY <1>1, <1>9 DEF Move
  <1>10. ASSUME NEW s \in Slot, Drop(t, s)
         PROVE  Rest
    BY <1>1, <1>10 DEF Drop
  <1>11. ASSUME NEW o \in Reachable, NEW E \in SUBSET Reachable, SetMembers(t, o, E)
         PROVE  Rest
    BY <1>1, <1>4, <1>11 DEF SetMembers
  <1>12. CASE CollectBegin(t)
    <2>1. \A i \in DOMAIN roots : roots[i] \in NonNull
      BY DEF Invariant, RootsInvariant, Entries
    <2>2. {p_[roots[i]] : i \in DOMAIN roots} \ {None} \subseteq Object
      BY <1>1, <2>1 DEF NonNull
    <2> QED
      BY <1>1, <2>2, <1>12 DEF CollectBegin
  <1>13. ASSUME NEW o \in Object, Mark(t, o)
         PROVE  Rest
    BY <1>1, <1>13 DEF Mark, Traced
  <1>14. CASE Sweep(t)
    BY <1>1, <1>14 DEF Sweep, Kept
  <1>15. CASE UNCHANGED vars
    BY <1>1, <1>15 DEF vars
  <1> HIDE DEF Rest
  <1>16. CASE Step(t)
    BY <1>16, <1>5, <1>6, <1>7, <1>8, <1>9, <1>10, <1>11 DEF Step
  <1>17. CASE Collect(t)
    BY <1>17, <1>12, <1>13, <1>14 DEF Collect
  <1> QED
    BY <1>15, <1>16, <1>17

\* The invariant is inductive for disciplined programs.
LEMMA NextInvariant ==
  ASSUME Disciplined
  PROVE  Invariant /\ [Next]_vars => Invariant'
  <1> SUFFICES ASSUME Invariant, [Next]_vars
               PROVE  Invariant'
    OBVIOUS
  <1>1. CASE Next
    <2>1. UNCHANGED solo /\ \E t \in Thread : Step(t) \/ Collect(t)
      BY <1>1 DEF Next
    <2> QED
      BY <2>1, StepRoots, StepHeap, StepType DEF Invariant
  <1>2. CASE UNCHANGED vars
    <2>1. ASSUME NEW t \in Thread
          PROVE  Invariant'
      <3>1. UNCHANGED solo
        BY <1>2 DEF vars
      <3> QED
        BY <1>2, <3>1, StepRoots, StepHeap, StepType DEF Invariant
    <2>2. CASE Thread = {}
      <3>1. UNCHANGED <<objects, edges, p_, roots, raw, mu, black, grey, solo>>
        BY <1>2 DEF vars
      <3>2. TypeOK'
        BY <3>1 DEF Invariant, TypeOK
      <3>3. RootsInvariant'
        BY <3>1 DEF Invariant, RootsInvariant, Distinct, Entries, NonNull
      <3>4. HeapClosed' /\ RawInvariant'
        BY <3>1 DEF Invariant, HeapClosed, Targets, RawInvariant
      <3>5. MarkInvariant'
        BY <3>1, <2>2 DEF Invariant, TypeOK, MarkInvariant
      <3> QED
        BY <3>2, <3>3, <3>4, <3>5 DEF Invariant
    <2> QED
      BY <2>1, <2>2
  <1> QED
    BY <1>1, <1>2

\* When the grey set is empty, what is black is what is reachable.
LEMMA BlackIsReachable ==
  ASSUME Invariant, mu # None, grey = {}
  PROVE  objects \intersect black = Reachable
  <1>1. /\ black \subseteq objects
        /\ Targets \subseteq black
        /\ \A o \in black : edges[o] \subseteq black
        /\ \A S \in SUBSET objects : ClosedUnder(S) => black \subseteq S
    BY DEF Invariant, MarkInvariant
  <1>2. ClosedUnder(black)
    BY <1>1 DEF ClosedUnder
  <1>3. Reachable \subseteq black
    BY <1>1, <1>2 DEF Reachable
  <1>4. black \subseteq Reachable
    BY <1>1 DEF Reachable
  <1> QED
    BY <1>1, <1>3, <1>4

-----------------------------------------------------------------------------
(* Theorems                                                                *)

\* The inductive invariant holds in every reachable state of a disciplined program.
THEOREM InvariantHolds ==
  ASSUME Disciplined
  PROVE  Spec => []Invariant
  <1>1. Init => Invariant
    BY InitInvariant
  <1>2. Invariant /\ [Next]_vars => Invariant'
    BY NextInvariant
  <1> QED
    BY <1>1, <1>2, PTL DEF Spec

\* A disciplined program never has a dangling Persistent or Member.
THEOREM NoDanglingPointer ==
  ASSUME Disciplined
  PROVE  Spec => []HeapClosed
  <1>1. Invariant => HeapClosed
    BY DEF Invariant
  <1> QED
    BY <1>1, InvariantHolds, PTL

\* roots_ is the set of non-null Persistents, whatever order they are moved,
\* assigned and destroyed in.
THEOREM RootsAreThePersistents ==
  ASSUME Disciplined
  PROVE  Spec => [](TypeOK /\ RootsMatch)
  <1>1. Invariant => TypeOK /\ RootsMatch
    BY RootsMatchInvariant DEF Invariant
  <1> QED
    BY <1>1, InvariantHolds, PTL

\* A collection frees exactly what a disciplined program cannot reach.
THEOREM CollectIsExact ==
  ASSUME Disciplined
  PROVE  Spec => SweepIsExact
  <1>1. Invariant /\ [Next]_vars => [mu # None /\ mu' = None => objects' = Reachable]_vars
    <2> SUFFICES ASSUME Invariant, Next, mu # None, mu' = None
                 PROVE  objects' = Reachable
      OBVIOUS
    <2>1. PICK t \in Thread : Step(t) \/ Collect(t)
      BY DEF Next
    <2>2. t # None
      BY GcHeapAssumption
    <2>3. ~Step(t)
      BY DEF Step, Make, MakeRooted, RootMade, Assign, Move, Drop, SetMembers, Locks
    <2>4. ~CollectBegin(t)
      BY DEF CollectBegin, Locks
    <2>5. ~(\E o \in Object : Mark(t, o))
      BY DEF Mark
    <2>6. grey = {} /\ objects' = objects \intersect black
      BY <2>1, <2>3, <2>4, <2>5 DEF Collect, Sweep, Kept
    <2> QED
      BY <2>6, BlackIsReachable
  <1> QED
    BY <1>1, InvariantHolds, PTL DEF Spec, SweepIsExact

\* Every variable keeps its type: only objects of the heap are rooted, colored or
\* pointed to.
THEOREM TypeCorrect ==
  ASSUME Disciplined
  PROVE  Spec => []TypeOK
  <1>1. Invariant => TypeOK
    BY DEF Invariant
  <1> QED
    BY <1>1, InvariantHolds, PTL

\* Collect() ends: whatever the heap looks like, a step of its mark loop blackens
\* one more live object.
THEOREM MarkingEnds ==
  ASSUME Disciplined
  PROVE  Spec => MarkingProgresses
  <1>1. Invariant /\ Invariant' /\ [Next]_vars
          => [mu # None /\ mu' = mu /\ edges' = edges =>
                black' \subseteq objects /\ black \subseteq black' /\ black' # black]_vars
    <2> SUFFICES ASSUME Invariant, Invariant', Next, vars' # vars,
                        mu # None, mu' = mu, edges' = edges
                 PROVE  black' \subseteq objects /\ black \subseteq black' /\ black' # black
      OBVIOUS
    <2>1. PICK t \in Thread : Step(t) \/ Collect(t)
      BY DEF Next
    <2>2. ~CollectBegin(t) /\ ~Sweep(t)
      BY DEF CollectBegin, Sweep, Locks
    <2>3. CASE Step(t)
      <3>1. \E o \in Reachable, E \in SUBSET Reachable : SetMembers(t, o, E)
        BY <2>3 DEF Step, Make, MakeRooted, RootMade, Assign, Move, Drop, Locks
      <3>2. UNCHANGED vars
        BY <3>1 DEF SetMembers, Next, vars
      <3> QED
        BY <3>2
    <2>4. CASE \E o \in Object : Mark(t, o)
      <3>1. PICK o \in Object : Mark(t, o)
        BY <2>4
      <3>2. o \in grey /\ black' = black \union {o} /\ objects' = objects
        BY <3>1 DEF Mark
      <3>3. o \notin black /\ black' \subseteq objects
        BY <3>2 DEF Invariant, MarkInvariant
      <3> QED
        BY <3>2, <3>3
    <2> QED
      BY <2>1, <2>2, <2>3, <2>4 DEF Collect
  <1> QED
    BY <1>1, InvariantHolds, PTL DEF Spec, MarkingProgresses

=============================================================================
