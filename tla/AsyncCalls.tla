----------------------------- MODULE AsyncCalls -----------------------------
(***************************************************************************)
(* gocvm::CallAsync and the loops that serve it in src/src/runtime.hpp:    *)
(* Scheduler::run, and RunUntil, which a synchronous function enters to    *)
(* wait for a deferred asynchronous closure while its own C++ frame stays  *)
(* on the stack.                                                           *)
(*                                                                         *)
(* The host bridge is external: it accepts a request, answers the accepted *)
(* ones in any order, from another thread, and may also produce a          *)
(* completion whose id nobody waits for.  Channels appear as Park and Wake *)
(* only (ChanSched has their detail).  A goroutine is named by its         *)
(* VThread.                                                                *)
(*                                                                         *)
(* Definitions named X_Fault are faulty variants of X that the             *)
(* specification does not use.                                             *)
(***************************************************************************)
EXTENDS Integers, Sequences, FiniteSets, Functions

CONSTANTS
  Goroutine,  \* the goroutines, each with its VThread
  Main,       \* the one wasigo::run(Task) starts with
  MaxOps,     \* bound: operations per goroutine
  MaxNest,    \* bound: RunUntil calls on the C++ stack
  MaxStray,   \* bound: completions for ids nobody waits for
  None        \* no goroutine, a null VThread

ASSUME AsyncCallsAssumption ==
  /\ IsFiniteSet(Goroutine)
  /\ Main \in Goroutine
  /\ None \notin Goroutine
  /\ MaxOps \in Nat /\ MaxNest \in Nat /\ MaxStray \in Nat

VARIABLES
  pc,        \* where each goroutine is
  ops,       \* operations each goroutine has started
  req,       \* CallAsyncAwaiter::request_id of a suspended call, 0 for none
  owner,     \* the VThread a parked waiter remembers
  ready,     \* Scheduler::ready
  parked,    \* Scheduler::parked
  pending,   \* pending_async_calls()
  results,   \* the ids in async_results()
  awaiting,  \* the calls whose own VThread is kAwaitingHost
  nextId,    \* the last request id the bridge gave out
  inflight,  \* requests the host works on
  out,       \* completions the bridge holds
  stray,     \* how many unknown completions were produced
  loops,     \* the loops on the C++ stack, innermost last
  phase,     \* "drain" after a resume, else "loop"
  cur,       \* the goroutine that executes, None inside a loop
  vt,        \* current_vthread()
  halt       \* how the process ended

hostVars == <<nextId, inflight, out, stray>>
callVars == <<req, pending, results, awaiting>>
loopVars == <<loops, phase>>
vars == <<pc, ops, owner, ready, parked, callVars, hostVars, loopVars, cur, vt, halt>>

Loop == [caller : Goroutine \union {None}, waits : Goroutine \union {None}]
ReadyItem == [g : Goroutine, vt : Goroutine \union {None}]
Id == Nat \ {0}
Inner == loops[Len(loops)]

StartOp(g) ==
  /\ halt = "no"
  /\ cur = g
  /\ ops[g] < MaxOps
  /\ ops' = [ops EXCEPT ![g] = @ + 1]

\* resume() returned: the loop restores the VThread it was entered with.
Restored == Inner.caller

Suspend(g, where) ==
  /\ pc' = [pc EXCEPT ![g] = where]
  /\ cur' = None
  /\ vt' = Restored
  /\ phase' = "drain"

-----------------------------------------------------------------------------
(* What a goroutine does                                                   *)

\* CallAsync: ABAC denies the topic, or no bridge is registered.
CallImmediate(g) ==
  /\ StartOp(g)
  /\ UNCHANGED <<pc, owner, ready, parked, callVars, hostVars, loopVars, cur, vt, halt>>

\* CallAsyncAwaiter::await_suspend.  Submit may answer at once.

CallAsync(g) ==
  /\ StartOp(g)
  /\ nextId' = nextId + 1
  /\ \/ inflight' = inflight \union {nextId'} /\ UNCHANGED out
     \/ out' = Append(out, nextId') /\ UNCHANGED inflight
  /\ pending' = [id \in DOMAIN pending \union {nextId'} |->
                   IF id = nextId' THEN [g |-> g, vt |-> vt] ELSE pending[id]]
  /\ awaiting' = awaiting \union {nextId'}
  /\ req' = [req EXCEPT ![g] = nextId']
  /\ Suspend(g, "awaiting")
  /\ UNCHANGED <<owner, ready, parked, results, stray, loops, halt>>

Park(g) ==
  /\ StartOp(g)
  /\ owner' = [owner EXCEPT ![g] = vt]
  /\ parked' = parked + 1
  /\ Suspend(g, "parked")
  /\ UNCHANGED <<ready, callVars, hostVars, loops, halt>>

Unparked == parked - 1

Wake(g, h) ==
  /\ StartOp(g)
  /\ pc[h] = "parked"
  /\ pc' = [pc EXCEPT ![h] = "ready"]
  /\ ready' = Append(ready, [g |-> h, vt |-> owner[h]])
  /\ parked' = Unparked
  /\ UNCHANGED <<owner, callVars, hostVars, loopVars, cur, vt, halt>>

Spawn(h) ==
  /\ pc[h] = "unborn"
  /\ ready' = Append(ready, [g |-> h, vt |-> h])

Go(g, h) ==
  /\ halt = "no"
  /\ cur = g
  /\ Spawn(h)
  /\ pc' = [pc EXCEPT ![h] = "ready"]
  /\ UNCHANGED <<ops, owner, parked, callVars, hostVars, loopVars, cur, vt, halt>>

\* DeferList::AsyncImpl::run: spawn the closure and pump until it is done.
DeferAsync(g, h) ==
  /\ StartOp(g)
  /\ Len(loops) <= MaxNest
  /\ Spawn(h)
  /\ pc' = [pc EXCEPT ![h] = "ready", ![g] = "nested"]
  /\ loops' = Append(loops, [caller |-> g, waits |-> h])
  /\ phase' = "loop"
  /\ cur' = None
  /\ UNCHANGED <<owner, parked, callVars, hostVars, vt, halt>>

Finish(g) ==
  /\ halt = "no"
  /\ cur = g
  /\ Suspend(g, "done")
  /\ UNCHANGED <<ops, owner, ready, parked, callVars, hostVars, loops, halt>>

-----------------------------------------------------------------------------
(* The host                                                                *)

HostAnswers ==
  /\ halt = "no"
  /\ \E id \in inflight :
       /\ inflight' = inflight \ {id}
       /\ out' = Append(out, id)
  /\ UNCHANGED <<pc, ops, owner, ready, parked, callVars, nextId, stray, loopVars, cur, vt, halt>>

HostStrays ==
  /\ halt = "no"
  /\ stray < MaxStray
  /\ stray' = stray + 1
  /\ out' = Append(out, 0)
  /\ UNCHANGED <<pc, ops, owner, ready, parked, callVars, nextId, inflight, loopVars, cur, vt, halt>>

-----------------------------------------------------------------------------
(* The loops.  A loop runs while nothing executes.                         *)

InLoop(ph) == halt = "no" /\ cur = None /\ phase = ph

FlagSet(l) == l.waits # None /\ pc[l.waits] = "done"

\* apply_completion: an unknown id is dropped.
Woken(id) == id \in DOMAIN pending

Stored_Nowhere(id) == results
Stored(id) == results \union {id}

ApplyCompletion ==
  LET id == Head(out) IN
  /\ out' = Tail(out)
  /\ IF Woken(id)
     THEN /\ awaiting' = awaiting \ {id}
          /\ results' = Stored(id)
          /\ ready' = Append(ready, pending[id])
          /\ pc' = [pc EXCEPT ![pending[id].g] = "ready"]
          /\ pending' = Restrict(pending, DOMAIN pending \ {id})
     ELSE UNCHANGED <<awaiting, results, ready, pc, pending>>

\* drain_async_completions: every completion PollOne has, then on.
Drain ==
  /\ InLoop("drain")
  /\ out # <<>>
  /\ ApplyCompletion
  /\ UNCHANGED <<ops, owner, parked, req, nextId, inflight, stray, loopVars, cur, vt, halt>>

Drained ==
  /\ InLoop("drain")
  /\ out = <<>>
  /\ phase' = "loop"
  /\ UNCHANGED <<pc, ops, owner, ready, parked, callVars, hostVars, loops, cur, vt, halt>>

\* RunUntil's flag is set: the function that deferred the closure returns.
UntilDone ==
  /\ InLoop("loop")
  /\ FlagSet(Inner)
  /\ cur' = Inner.caller
  /\ pc' = [pc EXCEPT ![Inner.caller] = "running"]
  /\ loops' = SubSeq(loops, 1, Len(loops) - 1)
  /\ UNCHANGED <<ops, owner, ready, parked, callVars, hostVars, phase, vt, halt>>

\* resume() of the next handle; await_resume of a call takes its result.
Resume ==
  /\ InLoop("loop")
  /\ ~FlagSet(Inner)
  /\ ready # <<>>
  /\ LET g == Head(ready).g IN
       /\ cur' = g
       /\ pc' = [pc EXCEPT ![g] = "running"]
       /\ results' = results \ {req[g]}
       /\ req' = [req EXCEPT ![g] = 0]
  /\ vt' = Head(ready).vt
  /\ ready' = Tail(ready)
  /\ UNCHANGED <<ops, owner, parked, pending, awaiting, hostVars, loopVars, halt>>

HasPendingAsync_Never == FALSE
HasPendingAsync == DOMAIN pending # {}

\* block_until_async_completion: WaitOne returns the next completion.
Block ==
  /\ InLoop("loop")
  /\ ~FlagSet(Inner)
  /\ ready = <<>>
  /\ HasPendingAsync
  /\ out # <<>>
  /\ ApplyCompletion
  /\ UNCHANGED <<ops, owner, parked, req, nextId, inflight, stray, loopVars, cur, vt, halt>>

Stop ==
  /\ InLoop("loop")
  /\ ~FlagSet(Inner)
  /\ ready = <<>>
  /\ ~HasPendingAsync
  /\ halt' = IF Inner.waits # None \/ parked > 0 THEN "deadlock" ELSE "exit"
  /\ UNCHANGED <<pc, ops, owner, ready, parked, callVars, hostVars, loopVars, cur, vt>>

Halted == halt # "no" /\ UNCHANGED vars

-----------------------------------------------------------------------------

Init ==
  /\ pc = [g \in Goroutine |-> IF g = Main THEN "ready" ELSE "unborn"]
  /\ ops = [g \in Goroutine |-> 0]
  /\ req = [g \in Goroutine |-> 0]
  /\ owner = [g \in Goroutine |-> None]
  /\ ready = <<[g |-> Main, vt |-> Main]>>
  /\ parked = 0
  /\ pending = <<>>
  /\ results = {}
  /\ awaiting = {}
  /\ nextId = 0
  /\ inflight = {}
  /\ out = <<>>
  /\ stray = 0
  /\ loops = <<[caller |-> None, waits |-> None]>>
  /\ phase = "loop"
  /\ cur = None
  /\ vt = None
  /\ halt = "no"

Guest ==
  \/ \E g \in Goroutine :
       \/ CallImmediate(g) \/ CallAsync(g) \/ Park(g) \/ Finish(g)
       \/ \E h \in Goroutine : Wake(g, h) \/ Go(g, h) \/ DeferAsync(g, h)
  \/ Drain \/ Drained \/ UntilDone \/ Resume \/ Block \/ Stop

Next == Guest \/ HostAnswers \/ HostStrays \/ Halted

Spec == Init /\ [][Next]_vars

\* The guest's thread keeps running and the host answers every request.
FairSpec == Spec /\ WF_vars(Guest) /\ WF_vars(HostAnswers)

-----------------------------------------------------------------------------
(* Properties                                                              *)

\* Every variable has its type.
TypeOK ==
  /\ pc \in [Goroutine -> {"unborn", "ready", "running", "awaiting", "parked", "nested", "done"}]
  /\ ops \in [Goroutine -> 0..MaxOps]
  /\ req \in [Goroutine -> Id \union {0}]
  /\ owner \in [Goroutine -> Goroutine \union {None}]
  /\ ready \in Seq(ReadyItem)
  /\ parked \in 0..Cardinality(Goroutine)
  /\ DOMAIN pending \subseteq Id
  /\ \A id \in DOMAIN pending : pending[id] \in ReadyItem
  /\ results \subseteq Id
  /\ awaiting \subseteq Id
  /\ nextId \in Id \union {0}
  /\ inflight \subseteq Id
  /\ out \in Seq(Id \union {0})
  /\ stray \in 0..MaxStray
  /\ loops \in Seq(Loop) /\ loops # <<>>
  /\ phase \in {"drain", "loop"}
  /\ cur \in Goroutine \union {None}
  /\ vt \in Goroutine \union {None}
  /\ halt \in {"no", "exit", "deadlock"}

\* await_resume finds the result of its own request: a goroutine that waits for
\* an answer has exactly one, pending or stored, and nothing is stored that no
\* goroutine will fetch.  What is pending is still at the host or in the bridge, so
\* that block_until_async_completion has something to wait for.
AnswersAreFetched ==
  /\ \A g \in Goroutine :
       /\ pc[g] = "awaiting" => req[g] \in DOMAIN pending /\ pending[req[g]].g = g
       /\ pc[g] = "ready" /\ req[g] # 0 => req[g] \in results
  /\ \A id \in DOMAIN pending : pc[pending[id].g] = "awaiting" /\ req[pending[id].g] = id
  /\ \A id \in results : \E g \in Goroutine : pc[g] = "ready" /\ req[g] = id
  /\ \A id \in DOMAIN pending : id \in inflight \/ \E i \in DOMAIN out : out[i] = id
  /\ awaiting = DOMAIN pending

\* Whatever loop resumes a goroutine, and however deep, panic and recover find the
\* chain of that goroutine: current_vthread() is its own VThread.
VThreadIsOwn == cur # None => vt = cur

\* Requests, results and VThreads agree about every goroutine, however deep the
\* loops nest: its answer is where it will look, and its panics are its own.
CallsConsistent == TypeOK /\ AnswersAreFetched /\ VThreadIsOwn

\* The loops report a deadlock only when they have nothing left to do: no
\* goroutine is runnable, no host call is out, and the closure the innermost
\* RunUntil waits for has not finished.
DeadlockIsReal ==
  halt = "deadlock" =>
    /\ ready = <<>> /\ inflight = {} /\ DOMAIN pending = {}
    /\ \A g \in Goroutine : pc[g] \in {"unborn", "parked", "nested", "done"}
    /\ ~FlagSet(Inner)

\* A goroutine suspended in a host call is resumed with the answer.
CallReturns ==
  \A g \in Goroutine : pc[g] = "awaiting" ~> (cur = g /\ req[g] = 0)

=============================================================================
