------------------------------- MODULE GcHeap -------------------------------
(***************************************************************************)
(* Oilpan-lite, the mark-sweep collector of src/src/runtime.hpp: Heap,     *)
(* Visitor, Member and Persistent.                                         *)
(*                                                                         *)
(* Heap::mu() guards allocation, every change of a Persistent and a whole  *)
(* Collect(), so those are single steps of a thread that finds mu() free,  *)
(* and Collect() is a begin, one step per marked object and a sweep.       *)
(* Nothing guards a Member, nor an object between Make and its first root: *)
(* the code relies on programs that do either having one thread at the     *)
(* heap.  Shared lets several threads do it all the same.  The grey vector *)
(* is a set: an object that is on it twice is skipped the second time, and *)
(* no property depends on its order.                                       *)
(*                                                                         *)
(* Definitions named X_Fault are faulty variants of X that the             *)
(* specification does not use.                                             *)
(***************************************************************************)
EXTENDS Integers, Sequences, FiniteSets, TLC

CONSTANTS
  Object,   \* the addresses of collected objects
  Slot,     \* the Persistents
  Thread,   \* the threads
  Shared,   \* what programs with several threads do without a lock
  None      \* a null pointer, a free mutex

ASSUME GcHeapAssumption ==
  /\ None \notin Object /\ None \notin Thread
  /\ Shared \subseteq {"make", "member"}

VARIABLES
  objects,  \* Heap::objects_
  edges,    \* the targets of each object's Members
  p_,       \* Persistent::p_ of each Persistent
  roots,    \* Heap::roots_
  raw,      \* the T* that Make returned to each thread, not yet rooted
  mu,       \* the thread that is inside Collect(), holding Heap::mu_
  black,    \* the objects colored kBlack
  grey,     \* what is left of Collect()'s grey vector
  solo      \* the only thread that uses the heap, None if several do

vars == <<objects, edges, p_, roots, raw, mu, black, grey, solo>>

\* TLC: addresses, Persistents and threads are interchangeable.
Symmetric == Permutations(Object) \union Permutations(Slot) \union Permutations(Thread)

Targets == {p_[s] : s \in Slot} \ {None}

\* What a program can get hold of: the least set with the Persistents' targets
\* that is closed under Members.
ClosedUnder(S) == Targets \subseteq S /\ \A o \in S : edges[o] \subseteq S
Reachable == {o \in objects : \A S \in SUBSET objects : ClosedUnder(S) => o \in S}

\* A thread takes mu() for one step, or works outside a Collect() of its own.
Locks(t) == mu = None /\ solo \in {t, None}
Works(t) == mu # t /\ solo \in {t, None}
Alone(t, op) == solo = t \/ op \in Shared

-----------------------------------------------------------------------------
(* Roots                                                                   *)

\* RemoveRoot_locked: the last entry takes the place of the first match.
Removed(r, s) ==
  IF \E i \in DOMAIN r : r[i] = s
  THEN LET i == CHOOSE j \in DOMAIN r : r[j] = s
       IN [j \in 1..(Len(r) - 1) |-> IF j = i THEN r[Len(r)] ELSE r[j]]
  ELSE r

\* attach_locked and detach_locked on the roots r, for the pointer v in s.
Attached(r, s, v) == IF v # None THEN Append(r, s) ELSE r
Detached(r, s, v) == IF v # None THEN Removed(r, s) ELSE r

\* Persistent(T*), operator=(T*): reset_locked.
Reset(s, o) ==
  /\ p_' = [p_ EXCEPT ![s] = o]
  /\ roots' = Attached(Detached(roots, s, p_[s]), s, o)

\* Heap::Make, then rooting its result in a step of its own.
Make(t, o, E) ==
  /\ Locks(t)
  /\ Alone(t, "make")
  /\ raw[t] = None
  /\ o \notin objects
  /\ objects' = objects \union {o}
  /\ edges' = [edges EXCEPT ![o] = E]
  /\ black' = black \ {o}
  /\ raw' = [raw EXCEPT ![t] = o]
  /\ UNCHANGED <<p_, roots, mu, grey>>

RootMade(t, s) ==
  /\ Locks(t)
  /\ raw[t] # None
  /\ Reset(s, raw[t])
  /\ raw' = [raw EXCEPT ![t] = None]
  /\ UNCHANGED <<objects, edges, mu, black, grey>>

\* Heap::MakeRooted into a Persistent that holds nothing.
RootNew(s, o) ==
  /\ p_' = [p_ EXCEPT ![s] = o]
  /\ roots' = Attached(roots, s, o)

MakeRooted(t, s, o, E) ==
  /\ Locks(t)
  /\ p_[s] = None
  /\ o \notin objects
  /\ objects' = objects \union {o}
  /\ edges' = [edges EXCEPT ![o] = E]
  /\ black' = black \ {o}
  /\ RootNew(s, o)
  /\ UNCHANGED <<raw, mu, grey>>

\* Persistent::operator=(T*), with a pointer that another Persistent holds.
Assign(t, s, o) ==
  /\ Locks(t)
  /\ Reset(s, o)
  /\ UNCHANGED <<objects, edges, raw, mu, black, grey>>

\* The move constructor and the move assignment.
MovedRoots_SourceKept(s, u) == Attached(Detached(roots, s, p_[s]), s, p_[u])
MovedRoots(s, u) ==
  Attached(Detached(Detached(roots, s, p_[s]), u, p_[u]), s, p_[u])

Move(t, s, u) ==
  /\ Locks(t)
  /\ s # u
  /\ p_' = [p_ EXCEPT ![s] = p_[u], ![u] = None]
  /\ roots' = MovedRoots(s, u)
  /\ UNCHANGED <<objects, edges, raw, mu, black, grey>>

\* ~Persistent and operator=(nullptr).
Drop(t, s) ==
  /\ Locks(t)
  /\ p_' = [p_ EXCEPT ![s] = None]
  /\ roots' = Detached(roots, s, p_[s])
  /\ UNCHANGED <<objects, edges, raw, mu, black, grey>>

\* Member::operator=, without a lock: o's Members are now E.
SetMembers(t, o, E) ==
  /\ Works(t)
  /\ Alone(t, "member")
  /\ edges' = [edges EXCEPT ![o] = E]
  /\ UNCHANGED <<objects, p_, roots, raw, mu, black, grey>>

-----------------------------------------------------------------------------
(* Collect                                                                 *)

\* A thread roots what Make gave it before it collects.
CollectBegin(t) ==
  /\ Locks(t)
  /\ raw[t] = None
  /\ mu' = t
  /\ black' = {}
  /\ grey' = {p_[roots[i]] : i \in DOMAIN roots} \ {None}
  /\ UNCHANGED <<objects, edges, p_, roots, raw>>

\* Visitor::Trace pushes what is not black yet.
Traced_IfGreyEmpty(o) == IF grey = {o} THEN edges[o] \ (black \union {o}) ELSE {}
Traced_NullToo(o) == {None} \union (edges[o] \ (black \union {o}))
Traced(o) == edges[o] \ (black \union {o})

Mark(t, o) ==
  /\ mu = t
  /\ o \in grey
  /\ black' = black \union {o}
  /\ grey' = (grey \ {o}) \union Traced(o)
  /\ UNCHANGED <<objects, edges, p_, roots, raw, mu>>

Kept_All == objects
Kept == objects \intersect black

Sweep(t) ==
  /\ mu = t
  /\ grey = {}
  /\ objects' = Kept
  /\ mu' = None
  /\ UNCHANGED <<edges, p_, roots, raw, black, grey>>

-----------------------------------------------------------------------------

Init ==
  /\ objects = {}
  /\ edges = [o \in Object |-> {}]
  /\ p_ = [s \in Slot |-> None]
  /\ roots = <<>>
  /\ raw = [t \in Thread |-> None]
  /\ mu = None
  /\ black = {}
  /\ grey = {}
  /\ solo \in Thread \union {None}

\* A program passes pointers that it can reach.
Step(t) ==
  \/ \E o \in Object, E \in SUBSET Targets :
       \/ Make(t, o, E)
       \/ \E s \in Slot : MakeRooted(t, s, o, E)
  \/ \E s \in Slot :
       \/ RootMade(t, s)
       \/ \E o \in Targets : Assign(t, s, o)
       \/ \E u \in Slot : Move(t, s, u)
       \/ Drop(t, s)
  \/ \E o \in Reachable, E \in SUBSET Reachable : SetMembers(t, o, E)

Collect(t) == CollectBegin(t) \/ Sweep(t) \/ \E o \in Object : Mark(t, o)

Next == UNCHANGED solo /\ \E t \in Thread : Step(t) \/ Collect(t)

Spec == Init /\ [][Next]_vars

-----------------------------------------------------------------------------
(* Properties                                                              *)

\* Every variable has its type.
TypeOK ==
  /\ objects \subseteq Object
  /\ edges \in [Object -> SUBSET Object]
  /\ p_ \in [Slot -> Object \union {None}]
  /\ roots \in Seq(Slot)
  /\ raw \in [Thread -> Object \union {None}]
  /\ mu \in Thread \union {None}
  /\ black \subseteq Object
  /\ grey \subseteq Object
  /\ solo \in Thread \union {None}

\* The programs for which Collect() is safe: several threads neither use Make nor
\* assign Members.
Disciplined == Shared = {}

\* No pointer dangles: what a Persistent or a Member of a live object points to is
\* live, through every collection.
HeapClosed ==
  /\ Targets \subseteq objects
  /\ \A o \in objects : edges[o] \subseteq objects

\* roots_ holds each non-null Persistent exactly once and no other, so that Collect
\* never follows a destroyed one.
RootsMatch ==
  /\ \A i, j \in DOMAIN roots : roots[i] = roots[j] => i = j
  /\ {roots[i] : i \in DOMAIN roots} = {s \in Slot : p_[s] # None}

\* A collection keeps exactly what is reachable from the Persistents.
SweepIsExact == [][mu # None /\ mu' = None => objects' = Reachable]_vars

\* Every step of the mark loop blackens a live object that was not black, so
\* that Collect() ends and releases the mutex, on cycles too.
MarkingProgresses ==
  [][mu # None /\ mu' = mu /\ edges' = edges =>
       black' \subseteq objects /\ black \subseteq black' /\ black' # black]_vars

=============================================================================
