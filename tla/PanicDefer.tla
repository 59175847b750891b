----------------------------- MODULE PanicDefer -----------------------------
(***************************************************************************)
(* defer, panic and recover as src/src/cpp_generator.cc emits them and     *)
(* src/src/runtime.hpp runs them, and the ErrorState of a synchronous      *)
(* gocvm::Call.                                                            *)
(*                                                                         *)
(* A goroutine is a stack of activations.  One whose body has a defer      *)
(* declares a PanicFrame and a DeferList; the PanicFrame links itself into *)
(* the chain of the current VThread, or into the flat chain of the thread  *)
(* when main is not a coroutine.  An asynchronous activation may suspend,  *)
(* and then another goroutine runs with its PanicFrames still linked.      *)
(* current_vthread() is always the VThread of the goroutine that executes  *)
(* (VThreadIsOwn in AsyncCalls), so that chains are indexed by goroutine.  *)
(* Which suspended goroutine runs next is left open.                       *)
(*                                                                         *)
(* Definitions named X_Fault are faulty variants of X that the             *)
(* specification does not use.                                             *)
(***************************************************************************)
EXTENDS Integers, Sequences, FiniteSets, FiniteSetsExt, SequencesExt

CONSTANTS
  Goroutine,  \* the goroutines
  Main,       \* the one that runs main
  MaxDepth,   \* bound: activations on one stack, at least a function and what it defers
  MaxLive,    \* bound: activations and outstanding deferred calls
  MaxDefers,  \* bound: deferred calls in one DeferList
  None        \* no frame, no VThread

ASSUME PanicDeferAssumption ==
  /\ IsFiniteSet(Goroutine)
  /\ Main \in Goroutine
  /\ None \notin Goroutine
  /\ MaxDepth \in Nat \ {0, 1} /\ MaxLive \in Nat \ {0} /\ MaxDefers \in Nat

VARIABLES
  stack,      \* the activations of each goroutine, innermost last
  born,       \* the goroutines that have been spawned
  head,       \* the chains: VThread::panic_head, and g_panic_frame() at None
  mainIsTask, \* main is a coroutine: wasigo::run(Task) gave it a VThread
  cur,        \* the goroutine that executes, None inside a loop
  pumps,      \* the RunUntil calls on the C++ stack, innermost last
  calling,    \* a gocvm::Call is on the C++ stack
  err,        \* ErrorState::kind
  stashed,    \* history: a panic was stashed in that call
  missed,     \* history: a deferred closure's recover() missed its function's panic
  halt        \* how the process ended

callVars == <<calling, err, stashed>>
vars == <<stack, born, head, mainIsTask, cur, pumps, callVars, missed, halt>>

\* TLC: the goroutines other than Main are interchangeable.
Symmetric == Permutations(Goroutine \ {Main})

Frame == Goroutine \X (1..MaxDepth)
Activation ==
  [async : BOOLEAN, lit : BOOLEAN, wrap : BOOLEAN, named : BOOLEAN,
   owner : Frame \union {None}, defers : UNION {[1..n -> {"sync", "async"}] : n \in 0..MaxDefers},
   has_pending : BOOLEAN, recovered : BOOLEAN, prev : Frame \union {None},
   phase : {"body", "return", "end"}]

Top(g) == Last(stack[g])
At(f) == stack[f[1]][f[2]]
Live == {f \in Frame : f[2] <= Len(stack[f[1]])}
Deferred(kinds) == UNION {{<<f, i>> : i \in {j \in DOMAIN At(f).defers : At(f).defers[j] \in kinds}} : f \in Live}
Room == Cardinality(Live) + Cardinality(Deferred({"sync", "async"})) < MaxLive
Spawnable == Cardinality(Goroutine \ born) > Cardinality(Deferred({"async"}))

\* current_panic_head(): the chain that the goroutine's frames are linked into.
Chain_Flat(g) == None
Chain(g) == IF g = Main /\ ~mainIsTask THEN None ELSE g

\* Which bodies declare a PanicFrame: an asynchronous func literal does not.
HasFrame(a) == a.wrap /\ ~(a.lit /\ a.async)

NewActivation(g, async, lit, wrap, named, owner) ==
  [async |-> async, lit |-> lit, wrap |-> wrap, named |-> named, owner |-> owner,
   defers |-> <<>>, has_pending |-> FALSE, recovered |-> FALSE,
   prev |-> head[Chain(g)], phase |-> "body"]

\* Push a on the stack st of goroutine g; PanicFrame::PanicFrame links it.
Push(g, st, a) ==
  /\ stack' = [stack EXCEPT ![g] = Append(st, a)]
  /\ head' = IF HasFrame(a) THEN [head EXCEPT ![Chain(g)] = <<g, Len(st) + 1>>] ELSE head

SetTop(g, a) == stack' = [stack EXCEPT ![g][Len(stack[g])] = a]

\* Go++ code of g executes, not the bridge.
Running(g) == halt = "no" /\ cur = g /\ ~calling
InBody(g) == Running(g) /\ Top(g).phase = "body"

-----------------------------------------------------------------------------
(* The body of a function                                                  *)

\* A call; only asynchronous functions call asynchronous ones.  Named results
\* matter where an asynchronous function leaves, so only there they are told
\* apart.
Enter(g, async, wrap, named) ==
  /\ InBody(g)
  /\ Room
  /\ Len(stack[g]) + (IF wrap THEN 1 ELSE 0) < MaxDepth
  /\ async => Top(g).async
  /\ named => async /\ wrap
  /\ Push(g, stack[g], NewActivation(g, async, FALSE, wrap, named, None))
  /\ UNCHANGED <<born, mainIsTask, cur, pumps, callVars, missed, halt>>

\* EmitDefer: push, or push_async for a closure that uses channels.
DeferStmt(g, kind) ==
  /\ InBody(g)
  /\ Room
  /\ Top(g).wrap
  /\ Len(Top(g).defers) < MaxDefers
  /\ kind = "async" => Spawnable
  /\ SetTop(g, [Top(g) EXCEPT !.defers = Append(@, kind)])
  /\ UNCHANGED <<born, head, mainIsTask, cur, pumps, callVars, missed, halt>>

GoStmt(g, h) ==
  /\ InBody(g)
  /\ Room /\ Spawnable
  /\ h \notin born
  /\ born' = born \union {h}
  /\ \E lit, wrap \in BOOLEAN :
       Push(h, <<>>, NewActivation(h, TRUE, lit, wrap, FALSE, None))
  /\ UNCHANGED <<mainIsTask, cur, pumps, callVars, missed, halt>>

\* A channel operation or a host call suspends the whole chain of coroutines.
Suspend(g) ==
  /\ InBody(g)
  /\ \A i \in DOMAIN stack[g] : stack[g][i].async
  /\ cur' = None
  /\ UNCHANGED <<stack, born, head, mainIsTask, pumps, callVars, missed, halt>>

\* recover(): takes the pending panic of the innermost frame of the chain.
Recover(g) ==
  /\ InBody(g)
  /\ LET f == head[Chain(g)]
         o == Top(g).owner
         caught == f # None /\ At(f).has_pending
     IN
     /\ stack' = IF caught
                 THEN [stack EXCEPT ![f[1]][f[2]].has_pending = FALSE,
                                    ![f[1]][f[2]].recovered = TRUE]
                 ELSE stack
     /\ missed' = (missed \/ (~caught /\ o # None /\ At(o).has_pending))
  /\ UNCHANGED <<born, head, mainIsTask, cur, pumps, callVars, halt>>

\* The body is left: by a return statement, or at __wasigo_end.  There a main
\* that is no coroutine runs the scheduler before its own defers.
LeaveBody(g, a, how) ==
  /\ SetTop(g, [a EXCEPT !.phase = how])
  /\ IF g = Main /\ Len(stack[g]) = 1 /\ ~mainIsTask /\ how = "end"
     THEN pumps' = Append(pumps, [caller |-> g, waits |-> None]) /\ cur' = None
     ELSE UNCHANGED <<pumps, cur>>
  /\ UNCHANGED <<born, head, mainIsTask, callVars, missed>>

ReturnStmt(g, how) ==
  /\ InBody(g)
  /\ LeaveBody(g, Top(g), how)
  /\ UNCHANGED halt

PanicStmt(g) ==
  /\ InBody(g)
  /\ HasFrame(Top(g))
  /\ LeaveBody(g, [Top(g) EXCEPT !.has_pending = TRUE], "end")
  /\ UNCHANGED halt

\* panic(): a runtime fault, or panic in a body without a defer.
Fault(g) ==
  /\ InBody(g)
  /\ halt' = "abort"
  /\ UNCHANGED <<stack, born, head, mainIsTask, cur, pumps, callVars, missed>>

-----------------------------------------------------------------------------
(* Running the deferred calls, last in first out                           *)

\* RunAllAwait is emitted where an asynchronous function leaves through its named
\* results or at __wasigo_end; every other exit leaves it to ~DeferList.
Awaits(a) == a.async /\ ~a.lit /\ (a.named \/ a.phase = "end")

Leaving(g) == Running(g) /\ Top(g).phase # "body"

PopDefer(g) == Append(Front(stack[g]), [Top(g) EXCEPT !.defers = Front(@)])

\* A closure with a defer of its own needs room for what that defer runs.
Closure(g, st, async, owner) ==
  \E wrap \in BOOLEAN :
    /\ wrap => Len(st) + 1 < MaxDepth
    /\ stack' = [stack EXCEPT ![owner[1]] = PopDefer(owner[1]),
                              ![g] = Append(st, NewActivation(g, async, TRUE, wrap, FALSE, owner))]
    /\ head' = IF wrap /\ ~async THEN [head EXCEPT ![Chain(g)] = <<g, Len(st) + 1>>] ELSE head

Me(g) == <<g, Len(stack[g])>>

RunSync(g) ==
  /\ Leaving(g)
  /\ Top(g).defers # <<>>
  /\ Last(Top(g).defers) = "sync"
  /\ Closure(g, PopDefer(g), FALSE, Me(g))
  /\ UNCHANGED <<born, mainIsTask, cur, pumps, callVars, missed, halt>>

\* AsyncImpl::run_await: the closure runs on the same goroutine.
RunAwait(g) ==
  /\ Leaving(g)
  /\ Top(g).defers # <<>>
  /\ Last(Top(g).defers) = "async"
  /\ Awaits(Top(g))
  /\ Closure(g, PopDefer(g), TRUE, Me(g))
  /\ UNCHANGED <<born, mainIsTask, cur, pumps, callVars, missed, halt>>

\* AsyncImpl::run: the closure becomes a goroutine, RunUntil waits for it.
PumpFor_Nobody(g, h) == UNCHANGED <<pumps, cur>>
PumpFor(g, h) ==
  /\ pumps' = Append(pumps, [caller |-> g, waits |-> h])
  /\ cur' = None

RunPumped(g, h) ==
  /\ Leaving(g)
  /\ Top(g).defers # <<>>
  /\ Last(Top(g).defers) = "async"
  /\ ~Awaits(Top(g))
  /\ h \notin born
  /\ born' = born \union {h}
  /\ Closure(h, <<>>, TRUE, Me(g))
  /\ PumpFor(g, h)
  /\ UNCHANGED <<mainIsTask, callVars, missed, halt>>

\* ~PanicFrame.
Unlinked_Kept(g) == head
Unlinked(g) == [head EXCEPT ![Chain(g)] = Top(g).prev]

Leave(g) ==
  /\ Leaving(g)
  /\ Top(g).defers = <<>>
  /\ stack' = [stack EXCEPT ![g] = Front(@)]
  /\ head' = IF HasFrame(Top(g)) THEN Unlinked(g) ELSE head
  /\ halt' = CASE HasFrame(Top(g)) /\ Top(g).has_pending /\ ~Top(g).recovered -> "abort"
               [] g = Main /\ ~mainIsTask /\ Len(stack[g]) = 1 -> "exit"
               [] OTHER -> "no"
  /\ cur' = IF Len(stack[g]) = 1 THEN None ELSE g
  /\ UNCHANGED <<born, mainIsTask, pumps, callVars, missed>>

-----------------------------------------------------------------------------
(* Scheduler::run and RunUntil                                             *)

InLoop == halt = "no" /\ cur = None
Callers == {pumps[i].caller : i \in DOMAIN pumps}
Over(l) == l.waits # None /\ stack[l.waits] = <<>>

Resume(g) ==
  /\ InLoop
  /\ ~Over(Last(pumps))
  /\ g \notin Callers
  /\ stack[g] # <<>>
  /\ cur' = g
  /\ UNCHANGED <<stack, born, head, mainIsTask, pumps, callVars, missed, halt>>

UntilDone ==
  /\ InLoop
  /\ Over(Last(pumps))
  /\ cur' = Last(pumps).caller
  /\ pumps' = Front(pumps)
  /\ UNCHANGED <<stack, born, head, mainIsTask, callVars, missed, halt>>

RunDone ==
  /\ InLoop
  /\ Last(pumps).waits = None
  /\ \A g \in Goroutine \ Callers : stack[g] = <<>>
  /\ IF Last(pumps).caller = None
     THEN halt' = "exit" /\ UNCHANGED <<cur, pumps>>
     ELSE cur' = Last(pumps).caller /\ pumps' = Front(pumps) /\ UNCHANGED halt
  /\ UNCHANGED <<stack, born, head, mainIsTask, callVars, missed>>

-----------------------------------------------------------------------------
(* gocvm::Call and what a bridge may do while it is on the stack           *)

CallBridge(g) ==
  /\ InBody(g)
  /\ err = "clear"
  /\ calling' = TRUE
  /\ err' = "bridge"
  /\ stashed' = FALSE
  /\ UNCHANGED <<stack, born, head, mainIsTask, cur, pumps, missed, halt>>

\* panic_or_stash(), or ~PanicFrame of a frame of the bridge's own.  A second
\* panic finds the state at kPanic and is not stashed: ~PanicFrame aborts, and
\* panic_or_stash() tells its caller to.
BridgeStash ==
  /\ halt = "no" /\ calling
  /\ IF err = "bridge"
     THEN err' = "panic" /\ stashed' = TRUE /\ UNCHANGED halt
     ELSE halt' = "abort" /\ UNCHANGED <<err, stashed>>
  /\ UNCHANGED <<stack, born, head, mainIsTask, cur, pumps, calling, missed>>

\* panic() itself stashes and aborts.
BridgePanic ==
  /\ halt = "no" /\ calling
  /\ err' = IF err = "bridge" THEN "panic" ELSE err
  /\ stashed' = (stashed \/ err = "bridge")
  /\ halt' = "abort"
  /\ UNCHANGED <<stack, born, head, mainIsTask, cur, pumps, calling, missed>>

\* A gocvm::Call inside the bridge: enter_bridge refuses, ~BridgeScope does nothing.
AfterReentry == err

BridgeReenter ==
  /\ halt = "no" /\ calling
  /\ err' = AfterReentry
  /\ UNCHANGED <<stack, born, head, mainIsTask, cur, pumps, calling, stashed, missed, halt>>

\* consume_panic or leave_bridge.
BridgeReturn ==
  /\ halt = "no" /\ calling
  /\ calling' = FALSE
  /\ err' = "clear"
  /\ stashed' = FALSE
  /\ UNCHANGED <<stack, born, head, mainIsTask, cur, pumps, missed, halt>>

Halted == halt # "no" /\ UNCHANGED vars

-----------------------------------------------------------------------------

Init ==
  /\ mainIsTask \in BOOLEAN
  /\ \E wrap \in BOOLEAN :
       LET a == [async |-> mainIsTask, lit |-> FALSE, wrap |-> wrap, named |-> FALSE, owner |-> None,
                 defers |-> <<>>, has_pending |-> FALSE, recovered |-> FALSE,
                 prev |-> None, phase |-> "body"]
       IN
       /\ stack = [g \in Goroutine |-> IF g = Main THEN <<a>> ELSE <<>>]
       /\ head = [c \in Goroutine \union {None} |->
                    IF wrap /\ c = Chain(Main) THEN <<Main, 1>> ELSE None]
  /\ born = {Main}
  /\ cur = IF mainIsTask THEN None ELSE Main
  /\ pumps = IF mainIsTask THEN <<[caller |-> None, waits |-> None]>> ELSE <<>>
  /\ calling = FALSE
  /\ err = "clear"
  /\ stashed = FALSE
  /\ missed = FALSE
  /\ halt = "no"

Next ==
  \/ \E g \in Goroutine :
       \/ \E async, wrap, named \in BOOLEAN : Enter(g, async, wrap, named)
       \/ \E kind \in {"sync", "async"} : DeferStmt(g, kind)
       \/ \E h \in Goroutine : GoStmt(g, h) \/ RunPumped(g, h)
       \/ Suspend(g) \/ Recover(g) \/ PanicStmt(g) \/ Fault(g) \/ CallBridge(g)
       \/ \E how \in {"return", "end"} : ReturnStmt(g, how)
       \/ RunSync(g) \/ RunAwait(g) \/ Leave(g) \/ Resume(g)
  \/ UntilDone \/ RunDone
  \/ BridgeStash \/ BridgePanic \/ BridgeReenter \/ BridgeReturn
  \/ Halted

Spec == Init /\ [][Next]_vars

-----------------------------------------------------------------------------
(* Properties                                                              *)

\* Every variable has its type.
TypeOK ==
  /\ \A g \in Goroutine : Len(stack[g]) <= MaxDepth /\ \A i \in DOMAIN stack[g] : stack[g][i] \in Activation
  /\ born \subseteq Goroutine
  /\ head \in [Goroutine \union {None} -> Frame \union {None}]
  /\ mainIsTask \in BOOLEAN
  /\ cur \in Goroutine \union {None}
  /\ pumps \in Seq([caller : Goroutine \union {None}, waits : Goroutine \union {None}])
  /\ calling \in BOOLEAN
  /\ err \in {"clear", "bridge", "panic"}
  /\ stashed \in BOOLEAN
  /\ missed \in BOOLEAN
  /\ halt \in {"no", "abort", "exit"}

Framed(g) == {i \in DOMAIN stack[g] : HasFrame(stack[g][i])}
Innermost(g, S) == IF S = {} THEN None ELSE <<g, Max(S)>>

\* Whatever runs between, the chain of a goroutine links exactly its own live
\* PanicFrames, innermost first: suspended goroutines do not scramble each other.
ChainIsOwnFrames ==
  halt = "no" =>
    \A g \in Goroutine :
      /\ stack[g] # <<>> => head[Chain(g)] = Innermost(g, Framed(g))
      /\ \A i \in Framed(g) : stack[g][i].prev = Innermost(g, {j \in Framed(g) : j < i})

\* recover() takes a panic only from a function of the goroutine that executes,
\* and one that is running its deferred calls.
RecoverIsLocal ==
  [][\A f \in Live : At(f).has_pending /\ stack'[f[1]] # <<>> /\ Len(stack'[f[1]]) >= f[2]
       /\ ~stack'[f[1]][f[2]].has_pending
         => f[1] = cur /\ At(f).phase = "end"]_vars

\* A deferred closure belongs to the exit of its function: while it runs, also as a
\* goroutine of its own that a nested loop resumes among others, the function is
\* there, leaving, and has not gone on to its next deferred call or to its caller.
DeferRunsInItsFunction ==
  \A f \in Live :
    LET o == At(f).owner IN
    o # None /\ halt = "no" =>
      /\ o \in Live /\ At(o).phase # "body"
      /\ \/ f = <<o[1], o[2] + 1>>
         \/ /\ f[2] = 1 /\ o[2] = Len(stack[o[1]])
            /\ \E i \in DOMAIN pumps : pumps[i] = [caller |-> o[1], waits |-> f[1]]

\* ErrorState says what the C++ stack says: kClear outside gocvm::Call, and inside
\* it kPanic exactly when a panic has been stashed.
ErrorStateFollows ==
  /\ calling <=> err # "clear"
  /\ stashed <=> err = "panic"

\* The chains of PanicFrames and the ErrorState agree with the stacks of the
\* goroutines, through suspensions, nested loops and re-entrant calls.
ChainsConsistent == TypeOK /\ ChainIsOwnFrames /\ ErrorStateFollows

\* A deferred closure that calls recover() gets the pending panic of the function
\* that deferred it.
DeferRecovers == ~missed

=============================================================================
