----------------------------- MODULE TaskFrames -----------------------------
(***************************************************************************)
(* The coroutine frames of src/src/runtime.hpp: who creates, resumes and   *)
(* destroys the frame of a Task or TaskT.                                  *)
(*                                                                         *)
(* A frame is named by its handle.  go() detaches a frame and roots a      *)
(* VThread in its promise; the VThread is named by that frame.  co_await   *)
(* of a Task enqueues the callee and remembers the caller as continuation; *)
(* the callee's final_suspend transfers control straight back to it.  The  *)
(* run loop destroys only the handle it dequeued.                          *)
(*                                                                         *)
(* A Task temporary lives until the end of the full expression that made   *)
(* it, so f(g()) or f() + <-ch with two await points keeps the first       *)
(* temporary across the second suspension, when the loop may destroy its   *)
(* frame.  ~Task then reads freed memory: it finds detached still set, or  *)
(* not, and in that case destroys the frame again, after which nothing is  *)
(* defined and the model stops.                                            *)
(*                                                                         *)
(* MaxAwaits bounds how many co_awaits one full expression holds.          *)
(*                                                                         *)
(* Definitions named X_Fault are faulty variants of X that the             *)
(* specification does not use.                                             *)
(***************************************************************************)
EXTENDS Integers, Sequences, FiniteSets

CONSTANTS
  Frame,     \* the coroutine handles
  Main,      \* the frame that wasigo::run(Task) detaches
  MaxAwaits, \* bound: co_awaits in one full expression
  None       \* no handle, no VThread

ASSUME TaskFramesAssumption ==
  /\ IsFiniteSet(Frame)
  /\ Main \in Frame
  /\ None \notin Frame
  /\ MaxAwaits \in Nat \ {0}

VARIABLES
  state,     \* where the frame of each handle is in its life
  cont,      \* promise_type::continuation
  detached,  \* the frames whose promise_type::detached is set
  temps,     \* the frames whose Task temporary a frame still holds
  waiting,   \* parked awaiters: handle and the VThread read when it parked
  ready,     \* Scheduler::ready
  handle,    \* h of Scheduler::run between try_dequeue and its done() check
  cur,       \* the frame whose code is executing, None inside the loop
  vt,        \* current_vthread()
  twice,     \* the frames destroyed a second time
  top,       \* history: the go()-spawned frame each frame works for
  earlier    \* history: the temporaries a frame held when it suspended again

vars == <<state, cont, detached, temps, waiting, ready, handle, cur, vt, twice, top, earlier>>

State == {"none", "initial", "running", "suspended", "final", "destroyed"}
ReadyItem == [h : Frame, vt : Frame]

(* Suspend the running frame: control returns to the run loop.             *)
Yield(f) ==
  /\ cur = f
  /\ cur' = None

\* go(Task): the handle is moved out of the temporary, nothing holds it.
Go(f, c) ==
  /\ cur = f
  /\ state[c] = "none"
  /\ state' = [state EXCEPT ![c] = "initial"]
  /\ detached' = detached \union {c}
  /\ ready' = Append(ready, [h |-> c, vt |-> c])
  /\ top' = [top EXCEPT ![c] = c]
  /\ UNCHANGED <<cont, temps, waiting, handle, cur, vt, twice, earlier>>

\* co_await callee(): Task::await_suspend.
DetachedBy_Nobody(f, c) == detached
DetachedBy(f, c) == detached \union {c}

AwaitVThread(f, c) == vt

Await(f, c) ==
  /\ Yield(f)
  /\ state[c] = "none"
  /\ Cardinality(temps[f]) < MaxAwaits
  /\ state' = [state EXCEPT ![c] = "initial", ![f] = "suspended"]
  /\ cont' = [cont EXCEPT ![c] = f]
  /\ detached' = DetachedBy(f, c)
  /\ temps' = [temps EXCEPT ![f] = @ \union {c}]
  /\ earlier' = [earlier EXCEPT ![f] = temps[f]]
  /\ ready' = Append(ready, [h |-> c, vt |-> AwaitVThread(f, c)])
  /\ top' = [top EXCEPT ![c] = top[f]]
  /\ UNCHANGED <<waiting, handle, vt, twice>>

(* The full expression ends: ~Task of every temporary reads                *)
(* promise().detached, and destroys a frame that is not detached.  What it *)
(* reads of a frame that is destroyed already may be either.               *)
EndExpr(f) ==
  /\ cur = f
  /\ temps[f] # {}
  /\ twice' \in SUBSET {c \in temps[f] : state[c] = "destroyed"}
  /\ state' = [c \in Frame |->
                 IF c \in temps[f] \ detached THEN "destroyed" ELSE state[c]]
  /\ temps' = [temps EXCEPT ![f] = {}]
  /\ earlier' = [earlier EXCEPT ![f] = {}]
  /\ UNCHANGED <<cont, detached, waiting, ready, handle, cur, vt, top>>

\* A channel operation, a select or a host call parks the frame...
Park(f) ==
  /\ Yield(f)
  /\ Cardinality(temps[f]) < MaxAwaits
  /\ state' = [state EXCEPT ![f] = "suspended"]
  /\ waiting' = waiting \union {[h |-> f, vt |-> vt]}
  /\ earlier' = [earlier EXCEPT ![f] = temps[f]]
  /\ UNCHANGED <<cont, detached, temps, ready, handle, vt, twice, top>>

\* ...until another frame, or a completion that the loop drains, wakes it.
Wake(w) ==
  /\ cur # None \/ handle = None
  /\ waiting' = waiting \ {w}
  /\ ready' = Append(ready, w)
  /\ UNCHANGED <<state, cont, detached, temps, handle, cur, vt, twice, top, earlier>>

\* co_return, then final_suspend: symmetric transfer to the continuation.
TransferTo_Nobody(f) == None
TransferTo(f) == cont[f]

FinalState == "final"

Return(f) ==
  /\ cur = f
  /\ temps[f] = {}
  /\ cur' = TransferTo(f)
  /\ state' = [c \in Frame |->
                 IF c = f THEN FinalState ELSE IF c = TransferTo(f) THEN "running" ELSE state[c]]
  /\ UNCHANGED <<cont, detached, temps, waiting, ready, handle, vt, twice, top, earlier>>

(* The loop in Scheduler::run.                                             *)
Dispatch ==
  /\ cur = None
  /\ handle = None
  /\ ready # <<>>
  /\ ready' = Tail(ready)
  /\ handle' = Head(ready).h
  /\ vt' = Head(ready).vt
  /\ cur' = Head(ready).h
  /\ state' = [state EXCEPT ![Head(ready).h] = "running"]
  /\ UNCHANGED <<cont, detached, temps, waiting, twice, top, earlier>>

\* resume() returned: restore current_vthread, destroy the handle if it is done.
Destroyed(h) == IF state[h] = "final" THEN [state EXCEPT ![h] = "destroyed"] ELSE state

AfterResume ==
  /\ cur = None
  /\ handle # None
  /\ vt' = None
  /\ state' = Destroyed(handle)
  /\ handle' = None
  /\ UNCHANGED <<cont, detached, temps, waiting, ready, cur, twice, top, earlier>>

\* The runqueue is empty and nothing is parked: run() returns.
Idle == cur = None /\ handle = None /\ ready = <<>> /\ waiting = {}
Returned == Idle /\ UNCHANGED vars

\* A frame was destroyed twice: what follows is undefined.
Undefined == twice # {} /\ UNCHANGED vars

Init ==
  /\ state = [f \in Frame |-> IF f = Main THEN "initial" ELSE "none"]
  /\ cont = [f \in Frame |-> None]
  /\ detached = {Main}
  /\ temps = [f \in Frame |-> {}]
  /\ waiting = {}
  /\ ready = <<[h |-> Main, vt |-> Main]>>
  /\ handle = None
  /\ cur = None
  /\ vt = None
  /\ top = [f \in Frame |-> IF f = Main THEN Main ELSE None]
  /\ twice = {}
  /\ earlier = [f \in Frame |-> {}]

Step ==
  \/ \E f \in Frame :
       \/ \E c \in Frame : Go(f, c) \/ Await(f, c)
       \/ EndExpr(f) \/ Park(f) \/ Return(f)
  \/ \E w \in waiting : Wake(w)
  \/ Dispatch \/ AfterResume
  \/ Returned

Next ==
  \/ twice = {} /\ Step
  \/ Undefined

Spec == Init /\ [][Next]_vars

-----------------------------------------------------------------------------
(* Properties                                                              *)

\* Every variable has its type.
TypeOK ==
  /\ state \in [Frame -> State]
  /\ cont \in [Frame -> Frame \union {None}]
  /\ detached \subseteq Frame
  /\ temps \in [Frame -> SUBSET Frame]
  /\ waiting \subseteq ReadyItem
  /\ ready \in Seq(ReadyItem)
  /\ handle \in Frame \union {None}
  /\ cur \in Frame \union {None}
  /\ vt \in Frame \union {None}
  /\ top \in [Frame -> Frame \union {None}]
  /\ twice \subseteq Frame
  /\ earlier \in [Frame -> SUBSET Frame]

Unfinished(f) == state[f] \in {"initial", "running", "suspended"}

\* The ways in which a frame that is not executing can be resumed.
Resumers(f) ==
  {<<"ready", i>> : i \in {j \in DOMAIN ready : ready[j].h = f}}
    \union {<<"parked", w>> : w \in {x \in waiting : x.h = f}}
    \union {<<"callee", c>> : c \in {d \in Frame : cont[d] = f /\ Unfinished(d)}}

\* A frame that has not finished and is not executing is resumed by exactly one
\* party: its runqueue entry, its parked awaiter, or the callee it awaits.  With
\* none it would be lost, with two it would be resumed after its end.
OneResumer ==
  \A f \in Frame :
    Cardinality(Resumers(f)) = IF Unfinished(f) /\ f # cur THEN 1 ELSE 0

\* No frame is destroyed while a handle to it can still be resumed, continued
\* into, or checked by the loop.
HandlesAreAlive ==
  /\ \A f \in Frame : Unfinished(f) /\ cont[f] # None => state[cont[f]] = "suspended"
  /\ handle # None => state[handle] # "destroyed"
  /\ cur # None => state[cur] = "running"

\* Whichever frame executes, current_vthread() is the VThread of the goroutine it
\* works for, also after a callee transferred control to its caller, and that
\* VThread is still rooted by an undestroyed frame.
VThreadFollows ==
  /\ cur # None => vt = top[cur]
  /\ \A f \in Frame : Unfinished(f) => state[top[f]] # "destroyed"

\* ~Task finds the frame of a temporary, unless the full expression suspended
\* again after that temporary's await: the frame may be gone only then.
TemporariesLive ==
  \A f \in Frame : cur = f => \A c \in temps[f] \ earlier[f] : state[c] # "destroyed"

\* The handles of the loop, of callers and of temporaries agree with the frames:
\* nothing destroyed is resumed or continued into, of the temporaries only those
\* before the last suspension can be, and the current VThread is that of the
\* goroutine that executes.
FramesConsistent == TypeOK /\ HandlesAreAlive /\ VThreadFollows /\ TemporariesLive

=============================================================================
