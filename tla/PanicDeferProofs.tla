-------------------------- MODULE PanicDeferProofs --------------------------
(***************************************************************************)
(* For any number of goroutines, activations and deferred calls: the chain *)
(* of PanicFrames of a goroutine links exactly its own frames, recover()   *)
(* takes no panic of another goroutine, and a deferred closure finds the   *)
(* function that deferred it still there.                                  *)
(*                                                                         *)
(* That a suspended goroutine's chain is left alone needs Chain to be      *)
(* injective and the frames to be linked also where the process has been   *)
(* halted.  That a function outlives a deferred closure that runs as a     *)
(* goroutine of its own needs Nesting: whoever waits in a RunUntil does    *)
(* not execute, and is in one RunUntil only, so that the loop that returns *)
(* to it is the one whose goroutine has ended.                             *)
(***************************************************************************)
EXTENDS PanicDefer, SequenceTheorems, WellFoundedInduction, TLAPS

Item == [caller : Goroutine \union {None}, waits : Goroutine \union {None}]

\* Every stack is a sequence, of goroutines that have been spawned, and the one that
\* executes has something to execute.
Stacks ==
  /\ stack \in [Goroutine -> Seq(Activation)]
  /\ Main \in born
  /\ \A g \in Goroutine : stack[g] # <<>> => g \in born
  /\ \A g \in Goroutine : cur = g => stack[g] # <<>>
  /\ ~mainIsTask => \A i \in 1..Len(stack[Main]) : i = 1 => ~stack[Main][i].async

\* Only a body with a defer has deferred calls, and room to run them; a panic that is
\* pending has left its body.
Activations ==
  \A g \in Goroutine : \A i \in 1..Len(stack[g]) :
    LET a == stack[g][i] IN
    /\ a.wrap => i < MaxDepth
    /\ a.defers # <<>> => a.wrap
    /\ a.has_pending => a.phase = "end"

\* The chain of g links the frames of g, innermost first.
ChainOf(g) ==
  /\ head[Chain(g)] = Innermost(g, Framed(g))
  /\ \A i \in Framed(g) : stack[g][i].prev = Innermost(g, {j \in Framed(g) : j < i})

Chains == \A g \in Goroutine : ChainOf(g)

\* The function o is still there for what it deferred, which runs as the activation
\* <<g, i>>.
Waits(g, i, o) ==
  /\ o \in Frame /\ o[2] \in 1..Len(stack[o[1]]) /\ stack[o[1]][o[2]].phase # "body"
  /\ \/ g = o[1] /\ i = o[2] + 1
     \/ /\ i = 1 /\ o[2] = Len(stack[o[1]])
        /\ \E p \in 1..Len(pumps) : pumps[p].caller = o[1] /\ pumps[p].waits = g

Owners ==
  \A g \in Goroutine : \A i \in 1..Len(stack[g]) :
    stack[g][i].owner # None => Waits(g, i, stack[g][i].owner)

\* At the bottom of the C++ stack is Scheduler::run, of run(Task) or of main; above
\* it are the RunUntil calls of goroutines that do not execute, each once.
Nesting ==
  /\ pumps \in Seq(Item)
  /\ \A i \in 1..Len(pumps) :
       \/ pumps[i].caller \in Goroutine /\ stack[pumps[i].caller] # <<>> /\ pumps[i].caller # cur
       \/ pumps[i].caller = None /\ pumps[i].waits = None /\ i = 1
  /\ \A i, j \in 1..Len(pumps) : pumps[i].caller = pumps[j].caller => i = j
  /\ mainIsTask => pumps # <<>> /\ pumps[1].caller = None
  /\ ~mainIsTask => /\ pumps # <<>> => pumps[1].caller = Main
                    /\ pumps = <<>> /\ halt = "no" => cur = Main

Invariant ==
  /\ TypeOK /\ Stacks /\ Activations /\ Chains /\ Owners /\ Nesting /\ ErrorStateFollows

-----------------------------------------------------------------------------
(* Sequences, activations and chains *)

LEMMA AppendFacts ==
  ASSUME NEW S, NEW s \in Seq(S), NEW e \in S
  PROVE  /\ Append(s, e) \in Seq(S)
         /\ Len(s) \in Nat /\ Len(Append(s, e)) = Len(s) + 1
         /\ \A i \in 1..Len(s) : Append(s, e)[i] = s[i]
         /\ Append(s, e)[Len(s) + 1] = e
  BY AppendProperties, LenProperties

LEMMA PopFacts ==
  ASSUME NEW S, NEW s \in Seq(S), NEW n \in Nat, Len(s) = n + 1
  PROVE  /\ SubSeq(s, 1, n) \in Seq(S)
         /\ Len(SubSeq(s, 1, n)) = n
         /\ \A i \in 1..n : SubSeq(s, 1, n)[i] = s[i]
  <1>1. \A i \in 1..n : s[i] \in S
    BY ElementOfSeq, LenProperties
  <1> QED
    BY <1>1, SubSeqProperties

LEMMA FrontFacts ==
  ASSUME NEW S, NEW s \in Seq(S), s # <<>>
  PROVE  /\ Front(s) \in Seq(S)
         /\ Len(s) \in Nat \ {0} /\ Len(Front(s)) = Len(s) - 1
         /\ \A i \in 1..Len(s) - 1 : Front(s)[i] = s[i]
         /\ Last(s) = s[Len(s)] /\ Last(s) \in S
  <1>1. Len(s) \in Nat \ {0} /\ \A i \in 1..Len(s) : s[i] \in S
    BY ElementOfSeq, LenProperties, EmptySeq
  <1>2. /\ Len(s) - 1 \in Nat /\ \A i \in 1..Len(s) - 1 : i \in 1..Len(s)
        /\ Len(s) \in 1..Len(s)
    BY <1>1
  <1>3. Front(s) = SubSeq(s, 1, Len(s) - 1) /\ Last(s) = s[Len(s)]
    BY DEF Front, Last
  <1>4. Len(s) - 1 \in Nat /\ Len(s) = (Len(s) - 1) + 1
    BY <1>1
  <1>5. /\ SubSeq(s, 1, Len(s) - 1) \in Seq(S)
        /\ Len(SubSeq(s, 1, Len(s) - 1)) = Len(s) - 1
        /\ \A i \in 1..Len(s) - 1 : SubSeq(s, 1, Len(s) - 1)[i] = s[i]
    BY <1>4, PopFacts
  <1> QED
    BY <1>1, <1>2, <1>3, <1>5

LEMMA ExceptFacts ==
  ASSUME NEW S, NEW s \in Seq(S), NEW i \in 1..Len(s), NEW e \in S
  PROVE  /\ [s EXCEPT ![i] = e] \in Seq(S)
         /\ Len([s EXCEPT ![i] = e]) = Len(s)
         /\ [s EXCEPT ![i] = e][i] = e
         /\ \A j \in 1..Len(s) : j # i => [s EXCEPT ![i] = e][j] = s[j]
  BY ExceptSeq, LenProperties

\* b is the activation a later: what was linked is unchanged, and a body that has been
\* left is not entered again.
Later(a, b) ==
  /\ b.async = a.async /\ b.lit = a.lit /\ b.wrap = a.wrap
  /\ b.owner = a.owner /\ b.prev = a.prev
  /\ a.phase # "body" => b.phase # "body"

Keeps(g) ==
  \A i \in 1..Len(stack[g]) : i \in 1..Len(stack'[g]) => Later(stack[g][i], stack'[g][i])

\* What the invariant says of the stack of one goroutine.
LEMMA StackFacts ==
  ASSUME Invariant, NEW g \in Goroutine
  PROVE  /\ stack[g] \in Seq(Activation)
         /\ Len(stack[g]) \in Nat /\ Len(stack[g]) <= MaxDepth
         /\ DOMAIN stack[g] = 1..Len(stack[g])
         /\ stack[g] = <<>> <=> Len(stack[g]) = 0
         /\ \A i \in 1..Len(stack[g]) : stack[g][i] \in Activation
         /\ MaxDepth \in Nat \ {0, 1} /\ MaxDefers \in Nat
  <1>1. stack[g] \in Seq(Activation) /\ Len(stack[g]) <= MaxDepth
    BY DEF Invariant, Stacks, TypeOK
  <1> QED
    BY <1>1, LenProperties, EmptySeq, ElementOfSeq, PanicDeferAssumption

\* The chains of two goroutines are different ones.
LEMMA ChainsApart ==
  ASSUME NEW g \in Goroutine, NEW h \in Goroutine, g # h
  PROVE  Chain(g) # Chain(h) /\ Chain(g) \in Goroutine \union {None}
  BY PanicDeferAssumption DEF Chain

\* A set of indices that is not empty has a largest one.
LEMMA LessIsWellFounded ==
  IsWellFoundedOn({ss \in Nat \X Nat : ss[1] < ss[2]}, Nat)
  BY ONLY NatLessThanWellFounded DEF OpToRel

LEMMA LargestIn ==
  ASSUME NEW n \in Nat, NEW S \in SUBSET (1..n), S # {}
  PROVE  Max(S) \in S
  <1> DEFINE T == {n - j : j \in S}
  <1>1. T \in SUBSET Nat /\ T # {}
    OBVIOUS
  <1>2. PICK x \in T : \A y \in T : ~(<<y, x>> \in {ss \in Nat \X Nat : ss[1] < ss[2]})
    BY <1>1, LessIsWellFounded, WFMin
  <1>3. PICK m \in S : x = n - m
    BY <1>2
  <1>4. ASSUME NEW y \in S PROVE m >= y
    <2>1. n - y \in T /\ n - y \in Nat /\ x \in Nat /\ m \in Nat /\ y \in Nat
      BY <1>1, <1>2
    <2>2. ~(n - y < x)
      BY <1>2, <2>1
    <2> QED
      BY <1>3, <2>1, <2>2
  <1>5. \E z \in S : \A y \in S : z >= y
    BY <1>4
  <1> QED
    BY <1>5 DEF Max

LEMMA InnermostIs ==
  ASSUME NEW g, NEW S, NEW n \in S, n \in Nat, \A j \in S : j \in Nat /\ j <= n
  PROVE  Innermost(g, S) = <<g, n>>
  <1>1. \A y \in S : n >= y
    OBVIOUS
  <1>2. \A x \in S : (\A y \in S : x >= y) => x = n
    OBVIOUS
  <1>3. Max(S) = n
    BY <1>1, <1>2 DEF Max
  <1> QED
    BY <1>3 DEF Innermost

\* g neither enters nor leaves a function.
LEMMA ChainKept ==
  ASSUME NEW g \in Goroutine, ChainOf(g), stack[g] \in Seq(Activation), stack'[g] \in Seq(Activation),
         Len(stack'[g]) = Len(stack[g]), Keeps(g),
         mainIsTask' = mainIsTask, head'[Chain(g)] = head[Chain(g)]
  PROVE  ChainOf(g)'
  <1>1. /\ DOMAIN stack[g] = 1..Len(stack[g]) /\ DOMAIN stack'[g] = 1..Len(stack[g])
        /\ \A i \in 1..Len(stack[g]) : Later(stack[g][i], stack'[g][i])
    BY LenProperties DEF Keeps
  <1>2. Framed(g)' = Framed(g) /\ \A i \in Framed(g) : stack'[g][i].prev = stack[g][i].prev
    BY <1>1 DEF Framed, HasFrame, Later
  <1>3. Chain(g)' = Chain(g)
    BY DEF Chain
  <1> QED
    BY <1>2, <1>3 DEF ChainOf

\* g enters a function.
LEMMA ChainPushed ==
  ASSUME NEW g \in Goroutine, ChainOf(g), stack[g] \in Seq(Activation), stack'[g] \in Seq(Activation),
         NEW n \in Nat, Len(stack[g]) = n, Len(stack'[g]) = n + 1, Keeps(g),
         NEW a, stack'[g][n + 1] = a, a.prev = head[Chain(g)],
         mainIsTask' = mainIsTask,
         head'[Chain(g)] = IF HasFrame(a) THEN <<g, n + 1>> ELSE head[Chain(g)]
  PROVE  ChainOf(g)'
  <1>1. /\ DOMAIN stack[g] = 1..n /\ DOMAIN stack'[g] = 1..n + 1
        /\ \A i \in 1..n : i \in 1..n + 1 /\ Later(stack[g][i], stack'[g][i])
    BY LenProperties DEF Keeps
  <1>2. /\ \A i \in 1..n + 1 : i \in 1..n \/ i = n + 1
        /\ n + 1 \in 1..n + 1 /\ n + 1 \notin 1..n
        /\ \A i \in 1..n : i < n + 1 /\ i <= n + 1 /\ i \in Nat /\ ~(n + 1 < i)
        /\ ~(n + 1 < n + 1)
    OBVIOUS
  <1>3. Framed(g) \subseteq 1..n
    BY <1>1 DEF Framed
  <1>4. Framed(g)' = IF HasFrame(a) THEN Framed(g) \union {n + 1} ELSE Framed(g)
    BY <1>1, <1>2 DEF Framed, HasFrame, Later
  <1>5. \A i \in Framed(g) : /\ stack'[g][i].prev = stack[g][i].prev
                             /\ {j \in Framed(g)' : j < i} = {j \in Framed(g) : j < i}
    BY <1>1, <1>2, <1>3, <1>4 DEF Later
  <1>6. Chain(g)' = Chain(g)
    BY DEF Chain
  <1>7. CASE HasFrame(a)
    <2>1. Innermost(g, Framed(g)') = <<g, n + 1>>
      <3>1. /\ n + 1 \in Framed(g)' /\ n + 1 \in Nat
            /\ \A j \in Framed(g)' : j \in Nat /\ j <= n + 1
        BY <1>2, <1>3, <1>4, <1>7
      <3> HIDE DEF Framed
      <3> QED
        BY <3>1, InnermostIs
    <2>2. {j \in Framed(g)' : j < n + 1} = Framed(g)
      BY <1>2, <1>3, <1>4, <1>7
    <2>3. \A i \in Framed(g)' : stack'[g][i].prev = Innermost(g, {j \in Framed(g)' : j < i})
      BY <1>4, <1>5, <1>7, <2>2 DEF ChainOf
    <2> QED
      BY <1>6, <1>7, <2>1, <2>3 DEF ChainOf, Innermost
  <1>8. CASE ~HasFrame(a)
    BY <1>4, <1>5, <1>6, <1>8 DEF ChainOf
  <1> QED
    BY <1>7, <1>8

\* g leaves a function.
LEMMA ChainPopped ==
  ASSUME NEW g \in Goroutine, ChainOf(g), stack[g] \in Seq(Activation), stack'[g] \in Seq(Activation),
         NEW n \in Nat, Len(stack[g]) = n + 1, Len(stack'[g]) = n, Keeps(g),
         mainIsTask' = mainIsTask,
         head'[Chain(g)] = IF HasFrame(stack[g][n + 1]) THEN stack[g][n + 1].prev ELSE head[Chain(g)]
  PROVE  ChainOf(g)'
  <1>1. /\ DOMAIN stack[g] = 1..n + 1 /\ DOMAIN stack'[g] = 1..n
        /\ \A i \in 1..n : i \in 1..n + 1 /\ Later(stack[g][i], stack'[g][i])
    BY LenProperties DEF Keeps
  <1>2. /\ \A i \in 1..n + 1 : i \in 1..n \/ i = n + 1
        /\ n + 1 \in 1..n + 1 /\ n + 1 \notin 1..n
        /\ \A i \in 1..n : i < n + 1 /\ ~(n + 1 < i)
        /\ ~(n + 1 < n + 1)
    OBVIOUS
  <1>3. Framed(g)' = {i \in Framed(g) : i < n + 1}
    BY <1>1, <1>2 DEF Framed, HasFrame, Later
  <1>4. Framed(g) \subseteq 1..n + 1 /\ (n + 1 \in Framed(g) <=> HasFrame(stack[g][n + 1]))
    BY <1>1, <1>2 DEF Framed
  <1>5. \A i \in Framed(g)' : /\ i \in Framed(g) /\ stack'[g][i].prev = stack[g][i].prev
                              /\ {j \in Framed(g)' : j < i} = {j \in Framed(g) : j < i}
    <2>1. \A i \in Framed(g)' : i \in Framed(g) /\ i \in 1..n
      BY <1>2, <1>3, <1>4
    <2>2. \A i \in 1..n : \A j \in 1..n + 1 : j < i => j < n + 1
      OBVIOUS
    <2>3. \A i \in Framed(g)' : {j \in Framed(g)' : j < i} = {j \in Framed(g) : j < i}
      BY <1>3, <1>4, <2>1, <2>2
    <2> QED
      BY <1>1, <2>1, <2>3 DEF Later
  <1>6. Chain(g)' = Chain(g)
    BY DEF Chain
  <1>7. head'[Chain(g)] = Innermost(g, Framed(g)')
    <2>1. CASE HasFrame(stack[g][n + 1])
      BY <1>3, <1>4, <2>1 DEF ChainOf
    <2>2. CASE ~HasFrame(stack[g][n + 1])
      <3>1. Framed(g)' = Framed(g)
        BY <1>2, <1>3, <1>4, <2>2
      <3> QED
        BY <2>2, <3>1 DEF ChainOf
    <2> QED
      BY <2>1, <2>2
  <1>8. \A i \in Framed(g)' : stack'[g][i].prev = Innermost(g, {j \in Framed(g)' : j < i})
    BY <1>5 DEF ChainOf
  <1> QED
    BY <1>6, <1>7, <1>8 DEF ChainOf, Innermost

-----------------------------------------------------------------------------
(* What a step does to the stacks *)

DeferLists == UNION {[1..n -> {"sync", "async"}] : n \in 0..MaxDefers}

LEMMA DeferListsAre ==
  ASSUME NEW d, MaxDefers \in Nat
  PROVE  d \in DeferLists <=> d \in Seq({"sync", "async"}) /\ Len(d) <= MaxDefers
  <1>1. ASSUME d \in DeferLists PROVE d \in Seq({"sync", "async"}) /\ Len(d) <= MaxDefers
    <2>1. PICK n \in 0..MaxDefers : d \in [1..n -> {"sync", "async"}]
      BY <1>1 DEF DeferLists
    <2>2. d = [i \in 1..n |-> d[i]] /\ n \in Nat /\ \A i \in 1..n : d[i] \in {"sync", "async"}
      BY <2>1
    <2>3. d \in Seq({"sync", "async"}) /\ Len(d) = n
      BY <2>2, IsASeq
    <2> QED
      BY <2>1, <2>3
  <1>2. ASSUME d \in Seq({"sync", "async"}), Len(d) <= MaxDefers PROVE d \in DeferLists
    <2>1. d \in [1..Len(d) -> {"sync", "async"}] /\ Len(d) \in 0..MaxDefers
      BY <1>2, LenProperties
    <2> QED
      BY <2>1 DEF DeferLists
  <1> QED
    BY <1>1, <1>2

\* The deferred call that is run is the last one of its list.
LEMMA DeferPopped ==
  ASSUME MaxDefers \in Nat, NEW a \in Activation, a.defers # <<>>
  PROVE  /\ [a EXCEPT !.defers = Front(@)] \in Activation
         /\ Last(a.defers) \in {"sync", "async"}
  <1>1. a.defers \in DeferLists
    BY DEF Activation, DeferLists
  <1>2. a.defers \in Seq({"sync", "async"}) /\ Len(a.defers) <= MaxDefers
    BY <1>1, DeferListsAre
  <1>3. Front(a.defers) \in Seq({"sync", "async"}) /\ Len(Front(a.defers)) <= MaxDefers
    BY <1>2, FrontFacts
  <1>4. Front(a.defers) \in DeferLists
    BY <1>3, DeferListsAre
  <1>5. Last(a.defers) \in {"sync", "async"}
    BY <1>2, FrontFacts
  <1> QED
    BY <1>4, <1>5 DEF Activation, DeferLists

LEMMA DeferPushed ==
  ASSUME MaxDefers \in Nat, NEW a \in Activation, Len(a.defers) < MaxDefers, NEW kind \in {"sync", "async"}
  PROVE  [a EXCEPT !.defers = Append(@, kind)] \in Activation
  <1>1. a.defers \in DeferLists
    BY DEF Activation, DeferLists
  <1>2. a.defers \in Seq({"sync", "async"})
    BY <1>1, DeferListsAre
  <1>3. /\ Append(a.defers, kind) \in Seq({"sync", "async"})
        /\ Len(Append(a.defers, kind)) <= MaxDefers
    BY <1>2, AppendFacts
  <1>4. Append(a.defers, kind) \in DeferLists
    BY <1>3, DeferListsAre
  <1> QED
    BY <1>4 DEF Activation, DeferLists

\* What Activations says of one activation, at depth i.
Sound(a, i) ==
  /\ a.wrap => i < MaxDepth
  /\ a.defers # <<>> => a.wrap
  /\ a.has_pending => a.phase = "end"

\* The activation i of g becomes a.
LEMMA Amended ==
  ASSUME Invariant, NEW g \in Goroutine, NEW i \in 1..Len(stack[g]), NEW a \in Activation,
         stack' = [stack EXCEPT ![g] = [stack[g] EXCEPT ![i] = a]],
         Later(stack[g][i], a), Sound(a, i)
  PROVE  /\ stack' \in [Goroutine -> Seq(Activation)]
         /\ \A k \in Goroutine : Len(stack'[k]) = Len(stack[k]) /\ Keeps(k)
         /\ Activations'
  <1>1. /\ stack \in [Goroutine -> Seq(Activation)] /\ Activations
        /\ stack[g] \in Seq(Activation)
    BY DEF Invariant, Stacks
  <1>2. /\ [stack[g] EXCEPT ![i] = a] \in Seq(Activation)
        /\ Len([stack[g] EXCEPT ![i] = a]) = Len(stack[g])
        /\ [stack[g] EXCEPT ![i] = a][i] = a
        /\ \A j \in 1..Len(stack[g]) : j # i => [stack[g] EXCEPT ![i] = a][j] = stack[g][j]
    BY <1>1, ExceptFacts
  <1>3. /\ stack' \in [Goroutine -> Seq(Activation)]
        /\ stack'[g] = [stack[g] EXCEPT ![i] = a]
        /\ \A k \in Goroutine \ {g} : stack'[k] = stack[k]
    BY <1>1, <1>2
  <1>4. \A k \in Goroutine : Len(stack'[k]) = Len(stack[k])
    BY <1>2, <1>3
  <1>5. \A k \in Goroutine : Keeps(k)
    BY <1>2, <1>3 DEF Keeps, Later
  <1>6. Activations'
    BY <1>1, <1>2, <1>3, <1>4 DEF Activations, Sound
  <1> QED
    BY <1>3, <1>4, <1>5, <1>6

\* A loop is entered, or none.
PumpsKept ==
  \A p \in 1..Len(pumps) : p \in 1..Len(pumps') /\ pumps'[p] = pumps[p]

LEMMA WaitsKept ==
  ASSUME NEW g, NEW i, NEW o, Waits(g, i, o), Keeps(o[1]),
         o[2] \in 1..Len(stack'[o[1]]), PumpsKept,
         (\E p \in 1..Len(pumps) : pumps[p].caller = o[1]) => Len(stack'[o[1]]) = Len(stack[o[1]])
  PROVE  Waits(g, i, o)'
  <1>1. stack'[o[1]][o[2]].phase # "body"
    BY DEF Waits, Keeps, Later
  <1>2. o \in Frame
    BY DEF Waits
  <1> QED
    BY <1>1, <1>2 DEF Waits, PumpsKept

\* No goroutine enters or leaves a function.
LEMMA NoneEntered ==
  ASSUME Invariant, stack' \in [Goroutine -> Seq(Activation)],
         \A k \in Goroutine : Len(stack'[k]) = Len(stack[k]) /\ Keeps(k),
         head' = head, mainIsTask' = mainIsTask, born' = born, PumpsKept,
         \A g \in Goroutine : cur' = g => stack[g] # <<>>
  PROVE  Chains' /\ Owners' /\ Stacks'
  <1>1. Chains'
    BY ChainKept DEF Invariant, Chains, Stacks
  <1>2. Owners'
    <2> SUFFICES ASSUME NEW g \in Goroutine, NEW i \in 1..Len(stack'[g]),
                        NEW o, stack'[g][i].owner = o, o # None
                 PROVE  Waits(g, i, o)'
      BY DEF Owners
    <2>1. stack[g][i].owner = o /\ i \in 1..Len(stack[g])
      BY DEF Keeps, Later
    <2>2. Waits(g, i, o)
      BY <2>1 DEF Invariant, Owners
    <2>3. o[1] \in Goroutine /\ o[2] \in 1..Len(stack[o[1]])
      BY <2>2 DEF Waits, Frame
    <2>4. o[2] \in 1..Len(stack'[o[1]]) /\ Len(stack'[o[1]]) = Len(stack[o[1]]) /\ Keeps(o[1])
      BY <2>3
    <2> QED
      BY <2>2, <2>4, WaitsKept
  <1>3. Stacks'
    <2>1. \A g \in Goroutine : stack'[g] # <<>> <=> stack[g] # <<>>
      BY StackFacts, LenProperties, EmptySeq
    <2>2. Main \in Goroutine /\ \A i \in 1..Len(stack'[Main]) : stack'[Main][i].async = stack[Main][i].async
      BY PanicDeferAssumption DEF Keeps, Later
    <2> QED
      BY <2>1, <2>2 DEF Invariant, Stacks
  <1> QED
    BY <1>1, <1>2, <1>3

\* The goroutine h enters a function, as the activation a.
LEMMA Entered ==
  ASSUME Invariant, stack' \in [Goroutine -> Seq(Activation)],
         NEW h \in Goroutine, NEW a, NEW n \in Nat, Len(stack[h]) = n, Len(stack'[h]) = n + 1,
         stack'[h][n + 1] = a, a.prev = head[Chain(h)],
         \A k \in Goroutine : Keeps(k) /\ (k # h => Len(stack'[k]) = Len(stack[k])),
         head' = IF HasFrame(a) THEN [head EXCEPT ![Chain(h)] = <<h, n + 1>>] ELSE head,
         mainIsTask' = mainIsTask, born' = born \union {h}, PumpsKept,
         \A p \in 1..Len(pumps) : pumps[p].caller # h,
         h = Main => n # 0,
         a.owner # None => Waits(h, n + 1, a.owner)',
         \A g \in Goroutine : cur' = g => stack'[g] # <<>>
  PROVE  Chains' /\ Owners' /\ Stacks'
  <1>1. /\ stack \in [Goroutine -> Seq(Activation)]
        /\ head \in [Goroutine \union {None} -> Frame \union {None}]
        /\ \A k \in Goroutine : ChainOf(k) /\ stack[k] \in Seq(Activation) /\ stack'[k] \in Seq(Activation)
    BY DEF Invariant, Stacks, TypeOK, Chains
  <1>2. Chains'
    <2>1. \A k \in Goroutine \ {h} : head'[Chain(k)] = head[Chain(k)]
      BY <1>1, ChainsApart
    <2>2. \A k \in Goroutine \ {h} : ChainOf(k)'
      BY <1>1, <2>1, ChainKept
    <2>3. Chain(h) \in Goroutine \union {None}
      BY DEF Chain
    <2>4. head'[Chain(h)] = IF HasFrame(a) THEN <<h, n + 1>> ELSE head[Chain(h)]
      BY <1>1, <2>3
    <2>5. ChainOf(h)'
      BY <1>1, <2>4, ChainPushed
    <2> QED
      BY <2>2, <2>5 DEF Chains
  <1>3. Owners'
    <2> SUFFICES ASSUME NEW g \in Goroutine, NEW i \in 1..Len(stack'[g]),
                        NEW o, stack'[g][i].owner = o, o # None
                 PROVE  Waits(g, i, o)'
      BY DEF Owners
    <2>1. CASE g = h /\ i = n + 1
      BY <2>1
    <2>2. CASE ~(g = h /\ i = n + 1)
      <3>1. i \in 1..Len(stack[g])
        BY <2>2
      <3>2. stack[g][i].owner = o
        BY <3>1 DEF Keeps, Later
      <3>3. Waits(g, i, o)
        BY <3>1, <3>2 DEF Invariant, Owners
      <3>4. o[1] \in Goroutine /\ o[2] \in 1..Len(stack[o[1]])
        BY <3>3 DEF Waits, Frame
      <3>5. /\ o[2] \in 1..Len(stack'[o[1]]) /\ Keeps(o[1])
            /\ (\E p \in 1..Len(pumps) : pumps[p].caller = o[1]) => Len(stack'[o[1]]) = Len(stack[o[1]])
        <4>1. CASE o[1] = h
          BY <3>4, <4>1
        <4>2. CASE o[1] # h
          BY <3>4, <4>2
        <4> QED
          BY <4>1, <4>2
      <3> QED
        BY <3>3, <3>5, WaitsKept
    <2> QED
      BY <2>1, <2>2
  <1>4. Stacks'
    <2>1. \A g \in Goroutine : stack'[g] # <<>> => g \in born'
      <3>1. \A g \in Goroutine \ {h} : stack'[g] # <<>> => stack[g] # <<>>
        BY <1>1, LenProperties, EmptySeq
      <3> QED
        BY <3>1 DEF Invariant, Stacks
    <2>2. ~mainIsTask => \A i \in 1..Len(stack'[Main]) : i = 1 => ~stack'[Main][i].async
      <3>1. Main \in Goroutine
        BY PanicDeferAssumption
      <3>2. \A i \in 1..Len(stack'[Main]) : i = 1 => i \in 1..Len(stack[Main])
        BY <1>1, <3>1, LenProperties
      <3>3. \A i \in 1..Len(stack'[Main]) : i = 1 => stack'[Main][i].async = stack[Main][i].async
        BY <3>1, <3>2 DEF Keeps, Later
      <3> QED
        BY <3>2, <3>3 DEF Invariant, Stacks
    <2>3. Main \in born'
      BY DEF Invariant, Stacks
    <2> QED
      BY <2>1, <2>2, <2>3 DEF Stacks
  <1> QED
    BY <1>2, <1>3, <1>4

-----------------------------------------------------------------------------
(* The loops on the C++ stack *)

LEMMA PumpFacts ==
  ASSUME Invariant
  PROVE  /\ pumps \in Seq(Item) /\ Len(pumps) \in Nat
         /\ \A p \in 1..Len(pumps) : pumps[p] \in Item
         /\ pumps = <<>> <=> Len(pumps) = 0
         /\ Nesting /\ Main \in Goroutine /\ None \notin Goroutine
         /\ DOMAIN pumps = 1..Len(pumps)
  BY LenProperties, EmptySeq, ElementOfSeq, PanicDeferAssumption DEF Invariant, Nesting

\* The goroutine that executes has something to execute, and waits in no loop.
LEMMA Executes ==
  ASSUME Invariant, NEW g \in Goroutine, cur = g
  PROVE  stack[g] # <<>> /\ g \in born /\ \A p \in 1..Len(pumps) : pumps[p].caller # g
  BY PumpFacts DEF Invariant, Stacks, Nesting

LEMMA NestingStays ==
  ASSUME Invariant, pumps' = pumps, mainIsTask' = mainIsTask,
         \A k \in Goroutine : stack[k] # <<>> /\ k # cur => stack'[k] # <<>>,
         \A p \in 1..Len(pumps) : pumps[p].caller \in Goroutine => pumps[p].caller # cur',
         ~mainIsTask /\ pumps = <<>> /\ halt' = "no" => cur' = Main
  PROVE  Nesting' /\ PumpsKept
  <1>1. Nesting
    BY DEF Invariant
  <1>2. \A i \in 1..Len(pumps) :
          \/ pumps[i].caller \in Goroutine /\ stack'[pumps[i].caller] # <<>> /\ pumps[i].caller # cur'
          \/ pumps[i].caller = None /\ pumps[i].waits = None /\ i = 1
    BY <1>1 DEF Nesting
  <1>3. PumpsKept
    BY DEF PumpsKept
  <1> QED
    BY <1>1, <1>2, <1>3 DEF Nesting

\* The goroutine that executes enters a loop.
LEMMA NestingPushed ==
  ASSUME Invariant, NEW g \in Goroutine, cur = g, halt = "no", NEW w \in Goroutine \union {None},
         pumps' = Append(pumps, [caller |-> g, waits |-> w]), cur' = None, mainIsTask' = mainIsTask,
         \A k \in Goroutine : stack[k] # <<>> => stack'[k] # <<>>
  PROVE  /\ Nesting' /\ PumpsKept
         /\ \E p \in 1..Len(pumps') : pumps'[p].caller = g /\ pumps'[p].waits = w
  <1> DEFINE n == Len(pumps)
             e == [caller |-> g, waits |-> w]
  <1>1. n \in Nat /\ e \in Item /\ e.caller = g /\ e.waits = w /\ Nesting /\ None \notin Goroutine
    BY PumpFacts DEF Item
  <1>2. /\ pumps' \in Seq(Item) /\ Len(pumps') = n + 1
        /\ \A i \in 1..n : pumps'[i] = pumps[i]
        /\ pumps'[n + 1] = e
    BY <1>1, PumpFacts, AppendFacts
  <1>3. stack[g] # <<>> /\ \A i \in 1..n : pumps[i].caller # g
    BY Executes
  <1>4. pumps = <<>> <=> n = 0
    BY PumpFacts
  <1>5. pumps' # <<>>
    BY <1>1, <1>2, EmptySeq
  <1> HIDE DEF n, e
  <1>6. /\ \A i \in 1..n + 1 : i \in 1..n \/ i = n + 1
        /\ \A i \in 1..n : i \in 1..n + 1
        /\ n + 1 \in 1..n + 1
        /\ n # 0 => 1 \in 1..n
    BY <1>1
  <1>7. \A i \in 1..n + 1 :
          \/ pumps'[i].caller \in Goroutine /\ stack'[pumps'[i].caller] # <<>> /\ pumps'[i].caller # cur'
          \/ pumps'[i].caller = None /\ pumps'[i].waits = None /\ i = 1
    <2>1. \A i \in 1..n : \/ pumps[i].caller \in Goroutine /\ stack[pumps[i].caller] # <<>>
                          \/ pumps[i].caller = None /\ pumps[i].waits = None /\ i = 1
      BY <1>1 DEF Nesting, n
    <2>2. \A i \in 1..n :
            \/ pumps'[i].caller \in Goroutine /\ stack'[pumps'[i].caller] # <<>> /\ pumps'[i].caller # cur'
            \/ pumps'[i].caller = None /\ pumps'[i].waits = None /\ i = 1
      BY <1>1, <1>2, <2>1
    <2>3. /\ pumps'[n + 1].caller \in Goroutine /\ stack'[pumps'[n + 1].caller] # <<>>
          /\ pumps'[n + 1].caller # cur'
      BY <1>1, <1>2, <1>3
    <2> QED
      BY <1>6, <2>2, <2>3
  <1>8. \A i, j \in 1..n + 1 : pumps'[i].caller = pumps'[j].caller => i = j
    BY <1>1, <1>2, <1>3, <1>6 DEF Nesting, n
  <1>9. mainIsTask => pumps'[1].caller = None
    BY <1>1, <1>2, <1>4, <1>6 DEF Nesting
  <1>10. ~mainIsTask => pumps'[1].caller = Main
    <2>1. CASE n = 0
      BY <1>1, <1>2, <1>4, <2>1 DEF Nesting
    <2>2. CASE n # 0
      BY <1>1, <1>2, <1>4, <1>6, <2>2 DEF Nesting
    <2> QED
      BY <2>1, <2>2
  <1>11. Nesting'
    BY <1>2, <1>5, <1>7, <1>8, <1>9, <1>10 DEF Nesting
  <1>12. PumpsKept
    BY <1>2, <1>6 DEF PumpsKept, n
  <1>13. \E p \in 1..Len(pumps') : pumps'[p].caller = g /\ pumps'[p].waits = w
    BY <1>1, <1>2, <1>6
  <1> QED
    BY <1>11, <1>12, <1>13

\* A loop returns to the goroutine that entered it.
LEMMA NestingPopped ==
  ASSUME Invariant, cur = None, pumps # <<>>, Last(pumps).caller # None,
         pumps' = Front(pumps), cur' = Last(pumps).caller, UNCHANGED <<stack, mainIsTask>>
  PROVE  /\ Nesting'
         /\ cur' \in Goroutine /\ stack[cur'] # <<>>
         /\ \A p \in 1..Len(pumps) :
              (p \in 1..Len(pumps') /\ pumps'[p] = pumps[p]) \/ p = Len(pumps)
         /\ \A p \in 1..Len(pumps) : pumps[p].caller = Last(pumps).caller => p = Len(pumps)
  <1> DEFINE n == Len(pumps) - 1
  <1>1. /\ Len(pumps) \in Nat \ {0} /\ pumps' \in Seq(Item) /\ Len(pumps') = n
        /\ \A i \in 1..n : pumps'[i] = pumps[i]
        /\ Last(pumps) = pumps[n + 1]
    <2>1. pumps \in Seq(Item)
      BY PumpFacts
    <2>2. /\ Front(pumps) \in Seq(Item) /\ Len(pumps) \in Nat \ {0} /\ Len(Front(pumps)) = Len(pumps) - 1
          /\ \A i \in 1..Len(pumps) - 1 : Front(pumps)[i] = pumps[i]
          /\ Last(pumps) = pumps[Len(pumps)]
      BY <2>1, FrontFacts
    <2>3. (Len(pumps) - 1) + 1 = Len(pumps)
      BY <2>2
    <2> QED
      BY <2>2, <2>3
  <1>2. n \in Nat /\ Len(pumps) = n + 1
    BY <1>1
  <1>3. Nesting /\ None \notin Goroutine
    BY PumpFacts
  <1>4. pumps' = <<>> <=> n = 0
    BY <1>1, EmptySeq
  <1> HIDE DEF n
  <1>5. /\ \A i \in 1..n : i \in 1..n + 1 /\ i # n + 1
        /\ \A i \in 1..n + 1 : i \in 1..n \/ i = n + 1
        /\ n + 1 \in 1..n + 1 /\ 1 \in 1..n + 1
        /\ n # 0 => 1 \in 1..n
        /\ n = 0 => n + 1 = 1
    BY <1>2
  <1>6. /\ pumps[n + 1].caller \in Goroutine /\ stack[pumps[n + 1].caller] # <<>>
        /\ \A i, j \in 1..n + 1 : pumps[i].caller = pumps[j].caller => i = j
        /\ \A i \in 1..n + 1 : \/ pumps[i].caller \in Goroutine /\ stack[pumps[i].caller] # <<>>
                               \/ pumps[i].caller = None /\ pumps[i].waits = None /\ i = 1
    BY <1>1, <1>2, <1>3, <1>5 DEF Nesting
  <1>7. \A i \in 1..n :
          \/ pumps'[i].caller \in Goroutine /\ stack'[pumps'[i].caller] # <<>> /\ pumps'[i].caller # cur'
          \/ pumps'[i].caller = None /\ pumps'[i].waits = None /\ i = 1
    <2> SUFFICES ASSUME NEW i \in 1..n
                 PROVE  \/ pumps[i].caller \in Goroutine /\ stack[pumps[i].caller] # <<>> /\ pumps[i].caller # cur'
                        \/ pumps[i].caller = None /\ pumps[i].waits = None /\ i = 1
      BY <1>1
    <2>1. pumps[i].caller # pumps[n + 1].caller
      BY <1>5, <1>6
    <2> QED
      BY <1>1, <1>5, <1>6, <2>1
  <1>8. \A i, j \in 1..n : pumps'[i].caller = pumps'[j].caller => i = j
    <2>1. \A i, j \in 1..n : pumps[i].caller = pumps[j].caller => i = j
      BY <1>5, <1>6
    <2> QED
      BY <1>1, <2>1
  <1>9. mainIsTask => pumps' # <<>> /\ pumps'[1].caller = None
    BY <1>1, <1>3, <1>4, <1>5, <1>6 DEF Nesting
  <1>10. ~mainIsTask => /\ pumps' # <<>> => pumps'[1].caller = Main
                        /\ pumps' = <<>> => cur' = Main
    BY <1>1, <1>3, <1>4, <1>5 DEF Nesting
  <1>11. Nesting'
    BY <1>1, <1>7, <1>8, <1>9, <1>10 DEF Nesting
  <1>12. /\ \A p \in 1..Len(pumps) :
              (p \in 1..Len(pumps') /\ pumps'[p] = pumps[p]) \/ p = Len(pumps)
         /\ \A p \in 1..Len(pumps) : pumps[p].caller = Last(pumps).caller => p = Len(pumps)
    BY <1>1, <1>2, <1>5, <1>6
  <1>13. cur' \in Goroutine /\ stack[cur'] # <<>>
    BY <1>1, <1>6
  <1> QED
    BY <1>11, <1>12, <1>13

\* Inside a loop there is a loop.
LEMMA InsideALoop ==
  ASSUME Invariant, InLoop
  PROVE  pumps # <<>> /\ Last(pumps) \in Item /\ Len(pumps) \in 1..Len(pumps) /\ Last(pumps) = pumps[Len(pumps)]
  <1>1. pumps # <<>>
    BY PumpFacts DEF Nesting, InLoop, Invariant, TypeOK
  <1>2. pumps \in Seq(Item)
    BY PumpFacts
  <1>3. /\ Len(pumps) \in Nat \ {0} /\ Last(pumps) \in Item /\ Last(pumps) = pumps[Len(pumps)]
    BY <1>1, <1>2, FrontFacts
  <1>4. Len(pumps) \in 1..Len(pumps)
    BY <1>3
  <1> QED
    BY <1>1, <1>3, <1>4

-----------------------------------------------------------------------------
(* Steps that leave the stacks as they are *)

\* The type invariant, from what a step says of the variables.
LEMMA Typed ==
  ASSUME stack' \in [Goroutine -> Seq(Activation)], \A g \in Goroutine : Len(stack'[g]) <= MaxDepth,
         born' \subseteq Goroutine, head' \in [Goroutine \union {None} -> Frame \union {None}],
         mainIsTask' \in BOOLEAN, cur' \in Goroutine \union {None}, Nesting',
         calling' \in BOOLEAN, err' \in {"clear", "bridge", "panic"}, stashed' \in BOOLEAN,
         missed' \in BOOLEAN, halt' \in {"no", "abort", "exit"}
  PROVE  TypeOK'
  <1>1. \A g \in Goroutine : \A i \in DOMAIN stack'[g] : stack'[g][i] \in Activation
    BY LenProperties, ElementOfSeq
  <1> QED
    BY <1>1 DEF TypeOK, Nesting, Item

LEMMA Unmoved ==
  ASSUME Invariant, UNCHANGED <<stack, born, head, mainIsTask>>, PumpsKept,
         \A g \in Goroutine : cur' = g => stack[g] # <<>>
  PROVE  /\ Chains' /\ Owners' /\ Stacks' /\ Activations'
         /\ stack' \in [Goroutine -> Seq(Activation)]
         /\ \A g \in Goroutine : Len(stack'[g]) <= MaxDepth
         /\ born' \subseteq Goroutine /\ head' \in [Goroutine \union {None} -> Frame \union {None}]
         /\ mainIsTask' \in BOOLEAN
  <1>1. /\ stack' \in [Goroutine -> Seq(Activation)]
        /\ \A k \in Goroutine : Len(stack'[k]) = Len(stack[k]) /\ Keeps(k)
    BY DEF Invariant, Stacks, Keeps, Later
  <1>2. Chains' /\ Owners' /\ Stacks'
    BY <1>1, NoneEntered
  <1>3. Activations'
    BY DEF Invariant, Activations
  <1> QED
    BY <1>1, <1>2, <1>3 DEF Invariant, TypeOK

\* A step that changes only who executes, the bridge call or how the process ended.
LEMMA OnlyControl ==
  ASSUME Invariant, UNCHANGED <<stack, born, head, mainIsTask, pumps, missed>>,
         \/ cur' = cur
         \/ cur' = None /\ pumps # <<>>
         \/ cur' \in Goroutine /\ stack[cur'] # <<>> /\ pumps # <<>> /\ \A p \in 1..Len(pumps) : pumps[p].caller # cur',
         halt' \in {"no", "abort", "exit"}, halt # "no" => halt' # "no",
         calling' \in BOOLEAN, err' \in {"clear", "bridge", "panic"}, stashed' \in BOOLEAN,
         ErrorStateFollows'
  PROVE  Invariant'
  <1>1. /\ \A p \in 1..Len(pumps) : pumps[p].caller \in Goroutine => pumps[p].caller # cur'
        /\ ~mainIsTask /\ pumps = <<>> /\ halt' = "no" => cur' = Main
        /\ \A g \in Goroutine : cur' = g => stack[g] # <<>>
        /\ cur' \in Goroutine \union {None}
    BY PumpFacts DEF Invariant, Nesting, Stacks, TypeOK
  <1>2. Nesting' /\ PumpsKept
    BY <1>1, NestingStays
  <1>3. /\ Chains' /\ Owners' /\ Stacks' /\ Activations'
        /\ stack' \in [Goroutine -> Seq(Activation)]
        /\ \A g \in Goroutine : Len(stack'[g]) <= MaxDepth
        /\ born' \subseteq Goroutine /\ head' \in [Goroutine \union {None} -> Frame \union {None}]
        /\ mainIsTask' \in BOOLEAN
    <2>1. UNCHANGED <<stack, born, head, mainIsTask>>
      OBVIOUS
    <2> QED
      BY <1>1, <1>2, <2>1, Unmoved
  <1>4. missed' \in BOOLEAN
    BY DEF Invariant, TypeOK
  <1>5. TypeOK'
    BY <1>1, <1>2, <1>3, <1>4, Typed
  <1> QED
    BY <1>2, <1>3, <1>5 DEF Invariant

LEMMA SuspendKeeps ==
  ASSUME Invariant, NEW g \in Goroutine, Suspend(g)
  PROVE  Invariant'
  <1>1. /\ halt = "no" /\ cur = g /\ cur' = None
        /\ \A i \in DOMAIN stack[g] : stack[g][i].async
        /\ UNCHANGED <<stack, born, head, mainIsTask, pumps, callVars, missed, halt>>
    BY DEF Suspend, InBody, Running
  <1>2. pumps # <<>>
    <2>1. CASE mainIsTask
      BY <2>1, PumpFacts DEF Nesting
    <2>2. CASE ~mainIsTask
      <3>1. ASSUME g = Main PROVE FALSE
        <4>1. stack[Main] # <<>> /\ Main \in Goroutine
          BY <1>1, <3>1, Executes
        <4>2. 1 \in 1..Len(stack[Main]) /\ 1 \in DOMAIN stack[Main]
          BY <4>1, StackFacts
        <4>3. ~stack[Main][1].async
          BY <2>2, <4>2 DEF Invariant, Stacks
        <4> QED
          BY <1>1, <3>1, <4>2, <4>3
      <3> QED
        BY <1>1, <2>2, <3>1, PumpFacts DEF Nesting
    <2> QED
      BY <2>1, <2>2 DEF Invariant, TypeOK
  <1>3. ErrorStateFollows'
    BY <1>1 DEF Invariant, ErrorStateFollows, callVars
  <1> QED
    BY <1>1, <1>2, <1>3, OnlyControl DEF Invariant, TypeOK, callVars

LEMMA ResumeKeeps ==
  ASSUME Invariant, NEW g \in Goroutine, Resume(g)
  PROVE  Invariant'
  <1>1. /\ InLoop /\ g \notin Callers /\ stack[g] # <<>> /\ cur' = g
        /\ UNCHANGED <<stack, born, head, mainIsTask, pumps, callVars, missed, halt>>
    BY DEF Resume
  <1>2. \A p \in 1..Len(pumps) : pumps[p].caller # g
    BY <1>1, PumpFacts DEF Callers
  <1>3. pumps # <<>>
    BY <1>1, InsideALoop
  <1>4. ErrorStateFollows'
    BY <1>1 DEF Invariant, ErrorStateFollows, callVars
  <1> QED
    BY <1>1, <1>2, <1>3, <1>4, OnlyControl DEF Invariant, TypeOK, callVars

LEMMA FaultKeeps ==
  ASSUME Invariant, NEW g \in Goroutine, Fault(g)
  PROVE  Invariant'
  <1>1. /\ halt' = "abort"
        /\ UNCHANGED <<stack, born, head, mainIsTask, cur, pumps, callVars, missed>>
    BY DEF Fault
  <1>2. ErrorStateFollows'
    BY <1>1 DEF Invariant, ErrorStateFollows, callVars
  <1> QED
    BY <1>1, <1>2, OnlyControl DEF Invariant, TypeOK, callVars

\* Where ErrorState changes: gocvm::Call and what the bridge does.
LEMMA BridgeKeeps ==
  ASSUME Invariant, (\E g \in Goroutine : CallBridge(g)) \/ BridgeStash \/ BridgePanic \/ BridgeReenter \/ BridgeReturn
  PROVE  Invariant'
  <1>1. /\ UNCHANGED <<stack, born, head, mainIsTask, cur, pumps, missed>>
        /\ halt = "no" /\ halt' \in {"no", "abort"}
    BY DEF CallBridge, InBody, Running, BridgeStash, BridgePanic, BridgeReenter, BridgeReturn
  <1>2. /\ calling \in BOOLEAN /\ err \in {"clear", "bridge", "panic"} /\ stashed \in BOOLEAN
        /\ calling <=> err # "clear"
        /\ stashed <=> err = "panic"
    BY DEF Invariant, TypeOK, ErrorStateFollows
  <1>3. /\ calling' \in BOOLEAN /\ err' \in {"clear", "bridge", "panic"} /\ stashed' \in BOOLEAN
        /\ calling' <=> err' # "clear"
        /\ stashed' <=> err' = "panic"
    <2>1. CASE \E g \in Goroutine : CallBridge(g)
      BY <2>1 DEF CallBridge
    <2>2. CASE BridgeStash
      BY <1>2, <2>2 DEF BridgeStash
    <2>3. CASE BridgePanic
      BY <1>2, <2>3 DEF BridgePanic
    <2>4. CASE BridgeReenter
      BY <1>2, <2>4 DEF BridgeReenter, AfterReentry
    <2>5. CASE BridgeReturn
      BY <2>5 DEF BridgeReturn
    <2> QED
      BY <2>1, <2>2, <2>3, <2>4, <2>5
  <1>4. ErrorStateFollows'
    BY <1>3 DEF ErrorStateFollows
  <1> QED
    BY <1>1, <1>3, <1>4, OnlyControl

\* Scheduler::run or RunUntil returns to the goroutine that entered it, once whatever it
\* waited for has ended.
LEMMA Returned ==
  ASSUME Invariant, InLoop, Last(pumps).caller # None,
         Last(pumps).waits = None \/ stack[Last(pumps).waits] = <<>>,
         cur' = Last(pumps).caller, pumps' = Front(pumps),
         UNCHANGED <<stack, born, head, mainIsTask, callVars, missed, halt>>
  PROVE  Invariant'
  <1>1. /\ pumps # <<>> /\ Last(pumps) = pumps[Len(pumps)] /\ cur = None
        /\ None \notin Goroutine
    BY InsideALoop, PumpFacts DEF InLoop
  <1>2. /\ Nesting'
        /\ cur' \in Goroutine /\ stack[cur'] # <<>>
        /\ \A p \in 1..Len(pumps) :
              (p \in 1..Len(pumps') /\ pumps'[p] = pumps[p]) \/ p = Len(pumps)
    <2>1. UNCHANGED <<stack, mainIsTask>>
      OBVIOUS
    <2> QED
      BY <1>1, <2>1, NestingPopped
  <1>3. Owners'
    <2> SUFFICES ASSUME NEW g \in Goroutine, NEW i \in 1..Len(stack[g]),
                        NEW o, stack[g][i].owner = o, o # None
                 PROVE  Waits(g, i, o)'
      BY DEF Owners
    <2>1. Waits(g, i, o)
      BY DEF Invariant, Owners
    <2>2. stack[g] # <<>>
      BY StackFacts
    <2>3. \A p \in 1..Len(pumps) : pumps[p].waits = g => p \in 1..Len(pumps') /\ pumps'[p] = pumps[p]
      BY <1>1, <1>2, <2>2
    <2> QED
      BY <2>1, <2>3 DEF Waits
  <1>4. Chains' /\ Stacks' /\ Activations'
    <2>1. Chains'
      <3>1. \A k \in Goroutine : Keeps(k) /\ ChainOf(k) /\ stack[k] \in Seq(Activation)
        BY StackFacts DEF Keeps, Later, Invariant, Chains
      <3> QED
        BY <3>1, ChainKept DEF Chains
    <2>2. Stacks'
      BY <1>2 DEF Invariant, Stacks
    <2>3. Activations'
      BY DEF Invariant, Activations
    <2> QED
      BY <2>1, <2>2, <2>3
  <1>5. /\ stack' \in [Goroutine -> Seq(Activation)]
        /\ \A g \in Goroutine : Len(stack'[g]) <= MaxDepth
        /\ born' \subseteq Goroutine /\ head' \in [Goroutine \union {None} -> Frame \union {None}]
        /\ mainIsTask' \in BOOLEAN /\ missed' \in BOOLEAN /\ halt' \in {"no", "abort", "exit"}
        /\ calling' \in BOOLEAN /\ err' \in {"clear", "bridge", "panic"} /\ stashed' \in BOOLEAN
        /\ ErrorStateFollows'
    BY DEF Invariant, Stacks, TypeOK, callVars, ErrorStateFollows
  <1>6. TypeOK'
    BY <1>2, <1>5, Typed
  <1> QED
    BY <1>2, <1>3, <1>4, <1>5, <1>6 DEF Invariant

LEMMA UntilDoneKeeps ==
  ASSUME Invariant, UntilDone
  PROVE  Invariant'
  <1>1. /\ InLoop /\ Last(pumps).waits # None /\ stack[Last(pumps).waits] = <<>>
        /\ cur' = Last(pumps).caller /\ pumps' = Front(pumps)
        /\ UNCHANGED <<stack, born, head, mainIsTask, callVars, missed, halt>>
    BY DEF UntilDone, Over
  <1>2. Last(pumps).caller # None
    BY <1>1, InsideALoop, PumpFacts DEF Nesting
  <1> QED
    BY <1>1, <1>2, Returned

LEMMA RunDoneKeeps ==
  ASSUME Invariant, RunDone
  PROVE  Invariant'
  <1>1. /\ InLoop /\ Last(pumps).waits = None
        /\ UNCHANGED <<stack, born, head, mainIsTask, callVars, missed>>
    BY DEF RunDone
  <1>2. CASE Last(pumps).caller = None
    <2>1. halt' = "exit" /\ UNCHANGED <<cur, pumps>>
      BY <1>2 DEF RunDone
    <2>2. ErrorStateFollows'
      BY <1>1 DEF Invariant, ErrorStateFollows, callVars
    <2> QED
      BY <1>1, <2>1, <2>2, OnlyControl DEF Invariant, TypeOK, callVars
  <1>3. CASE Last(pumps).caller # None
    <2>1. cur' = Last(pumps).caller /\ pumps' = Front(pumps) /\ halt' = halt
      BY <1>3 DEF RunDone
    <2> QED
      BY <1>1, <1>3, <2>1, Returned
  <1> QED
    BY <1>2, <1>3

-----------------------------------------------------------------------------
(* Steps inside a body *)

\* What the guard of a goroutine's own step says of it.
LEMMA TopFacts ==
  ASSUME Invariant, NEW g \in Goroutine, Running(g)
  PROVE  /\ halt = "no" /\ cur = g
         /\ Len(stack[g]) \in Nat \ {0} /\ Len(stack[g]) \in 1..Len(stack[g])
         /\ Top(g) = stack[g][Len(stack[g])] /\ Top(g) \in Activation
         /\ Sound(Top(g), Len(stack[g]))
  <1>1. halt = "no" /\ cur = g
    BY DEF Running
  <1>2. stack[g] # <<>> /\ stack[g] \in Seq(Activation)
    BY <1>1, Executes, StackFacts
  <1>3. Len(stack[g]) \in Nat \ {0} /\ Top(g) = stack[g][Len(stack[g])] /\ Top(g) \in Activation
    BY <1>2, FrontFacts DEF Top
  <1>4. Len(stack[g]) \in 1..Len(stack[g])
    BY <1>3
  <1>5. Sound(Top(g), Len(stack[g]))
    BY <1>3, <1>4 DEF Invariant, Activations, Sound
  <1> QED
    BY <1>1, <1>3, <1>4, <1>5

\* An activation of g becomes a, and g may enter a loop.
LEMMA OnlyOneActivation ==
  ASSUME Invariant, NEW g \in Goroutine, cur = g, halt = "no",
         NEW i \in 1..Len(stack[g]), NEW a \in Activation,
         stack' = [stack EXCEPT ![g] = [stack[g] EXCEPT ![i] = a]],
         Later(stack[g][i], a), Sound(a, i),
         UNCHANGED <<born, head, mainIsTask, callVars, halt>>, missed' \in BOOLEAN,
         \/ UNCHANGED <<pumps, cur>>
         \/ pumps' = Append(pumps, [caller |-> g, waits |-> None]) /\ cur' = None
  PROVE  Invariant'
  <1>1. /\ stack' \in [Goroutine -> Seq(Activation)]
        /\ \A k \in Goroutine : Len(stack'[k]) = Len(stack[k]) /\ Keeps(k)
        /\ Activations'
    BY Amended
  <1>2. \A k \in Goroutine : stack'[k] # <<>> <=> stack[k] # <<>>
    BY <1>1, StackFacts, LenProperties, EmptySeq
  <1>3. Nesting' /\ PumpsKept
    <2>1. CASE UNCHANGED <<pumps, cur>>
      <3>1. /\ \A p \in 1..Len(pumps) : pumps[p].caller \in Goroutine => pumps[p].caller # cur'
            /\ ~mainIsTask /\ pumps = <<>> /\ halt' = "no" => cur' = Main
        BY <2>1, PumpFacts DEF Nesting
      <3> QED
        BY <1>2, <2>1, <3>1, NestingStays
    <2>2. CASE pumps' = Append(pumps, [caller |-> g, waits |-> None]) /\ cur' = None
      BY <1>2, <2>2, NestingPushed
    <2> QED
      BY <2>1, <2>2
  <1>4. cur' \in {cur, None} /\ \A k \in Goroutine : cur' = k => stack[k] # <<>>
    BY PumpFacts DEF Invariant, Stacks
  <1>5. Chains' /\ Owners' /\ Stacks'
    BY <1>1, <1>3, <1>4, NoneEntered
  <1>6. /\ \A k \in Goroutine : Len(stack'[k]) <= MaxDepth
        /\ born' \subseteq Goroutine /\ head' \in [Goroutine \union {None} -> Frame \union {None}]
        /\ mainIsTask' \in BOOLEAN /\ halt' \in {"no", "abort", "exit"}
        /\ cur' \in Goroutine \union {None}
        /\ calling' \in BOOLEAN /\ err' \in {"clear", "bridge", "panic"} /\ stashed' \in BOOLEAN
        /\ ErrorStateFollows'
    BY <1>1, <1>4 DEF Invariant, TypeOK, callVars, ErrorStateFollows
  <1>7. TypeOK'
    BY <1>1, <1>3, <1>6, Typed
  <1> QED
    BY <1>1, <1>3, <1>5, <1>6, <1>7 DEF Invariant

LEMMA DeferStmtKeeps ==
  ASSUME Invariant, NEW g \in Goroutine, NEW kind \in {"sync", "async"}, DeferStmt(g, kind)
  PROVE  Invariant'
  <1> DEFINE n == Len(stack[g])
             a == [Top(g) EXCEPT !.defers = Append(@, kind)]
  <1>1. /\ Running(g) /\ Top(g).wrap /\ Len(Top(g).defers) < MaxDefers
        /\ stack' = [stack EXCEPT ![g][n] = a]
        /\ UNCHANGED <<born, head, mainIsTask, cur, pumps, callVars, missed, halt>>
    BY DEF DeferStmt, InBody, SetTop
  <1>2. /\ halt = "no" /\ cur = g /\ n \in 1..n
        /\ Top(g) = stack[g][n] /\ Top(g) \in Activation /\ Sound(Top(g), n)
    BY <1>1, TopFacts
  <1>3. a \in Activation
    BY <1>1, <1>2, DeferPushed, PanicDeferAssumption
  <1>4. Later(stack[g][n], a) /\ Sound(a, n)
    BY <1>1, <1>2 DEF Later, Sound, Activation
  <1>5. stack' = [stack EXCEPT ![g] = [stack[g] EXCEPT ![n] = a]] /\ missed' \in BOOLEAN
    BY <1>1 DEF Invariant, TypeOK
  <1> HIDE DEF a
  <1> QED
    BY <1>1, <1>2, <1>3, <1>4, <1>5, OnlyOneActivation

\* The body of g is left, by a statement or by a panic.
LEMMA LeaveBodyKeeps ==
  ASSUME Invariant, NEW g \in Goroutine, InBody(g), NEW how \in {"return", "end"},
         NEW a \in {Top(g), [Top(g) EXCEPT !.has_pending = TRUE]},
         a = Top(g) \/ how = "end", LeaveBody(g, a, how), halt' = halt
  PROVE  Invariant'
  <1> DEFINE n == Len(stack[g])
             b == [a EXCEPT !.phase = how]
  <1>1. /\ Running(g) /\ Top(g).phase = "body"
        /\ stack' = [stack EXCEPT ![g][n] = b]
        /\ \/ UNCHANGED <<pumps, cur>>
           \/ pumps' = Append(pumps, [caller |-> g, waits |-> None]) /\ cur' = None
        /\ UNCHANGED <<born, head, mainIsTask, callVars, missed, halt>>
    BY DEF InBody, LeaveBody, SetTop
  <1>2. /\ halt = "no" /\ cur = g /\ n \in 1..n
        /\ Top(g) = stack[g][n] /\ Top(g) \in Activation /\ Sound(Top(g), n)
    BY <1>1, TopFacts
  <1>3. b \in Activation /\ b.phase = how /\ b.defers = Top(g).defers /\ b.wrap = Top(g).wrap
        /\ b.async = Top(g).async /\ b.lit = Top(g).lit /\ b.owner = Top(g).owner /\ b.prev = Top(g).prev
        /\ b.has_pending = a.has_pending
    BY <1>2 DEF Activation
  <1>4. a.has_pending => how = "end"
    BY <1>1, <1>2 DEF Sound
  <1>5. Later(stack[g][n], b) /\ Sound(b, n)
    BY <1>2, <1>3, <1>4 DEF Later, Sound
  <1>6. stack' = [stack EXCEPT ![g] = [stack[g] EXCEPT ![n] = b]] /\ missed' \in BOOLEAN
    BY <1>1 DEF Invariant, TypeOK
  <1> HIDE DEF b
  <1> QED
    BY <1>1, <1>2, <1>3, <1>5, <1>6, OnlyOneActivation

LEMMA ReturnStmtKeeps ==
  ASSUME Invariant, NEW g \in Goroutine, NEW how \in {"return", "end"}, ReturnStmt(g, how)
  PROVE  Invariant'
  BY LeaveBodyKeeps DEF ReturnStmt

LEMMA PanicStmtKeeps ==
  ASSUME Invariant, NEW g \in Goroutine, PanicStmt(g)
  PROVE  Invariant'
  BY LeaveBodyKeeps DEF PanicStmt

\* recover() looks at a frame of the goroutine that calls it.
LEMMA RecoversOwn ==
  ASSUME Invariant, NEW g \in Goroutine, Running(g), head[Chain(g)] # None
  PROVE  /\ head[Chain(g)] = <<g, Max(Framed(g))>> /\ Framed(g) # {}
         /\ head[Chain(g)] \in Frame
  <1>1. head[Chain(g)] = Innermost(g, Framed(g))
    BY DEF Invariant, Chains, ChainOf
  <1>2. head[Chain(g)] \in Frame
    BY DEF Invariant, TypeOK, Chain
  <1> QED
    BY <1>1, <1>2 DEF Innermost

LEMMA RecoverKeeps ==
  ASSUME Invariant, NEW g \in Goroutine, Recover(g)
  PROVE  Invariant'
  <1> DEFINE f == head[Chain(g)]
             i == f[2]
             caught == f # None /\ At(f).has_pending
             a == [stack[g][i] EXCEPT !.has_pending = FALSE, !.recovered = TRUE]
  <1>1. /\ Running(g)
        /\ stack' = IF caught
                    THEN [stack EXCEPT ![f[1]][f[2]].has_pending = FALSE,
                                       ![f[1]][f[2]].recovered = TRUE]
                    ELSE stack
        /\ missed' = (missed \/ (~caught /\ Top(g).owner # None /\ At(Top(g).owner).has_pending))
        /\ UNCHANGED <<born, head, mainIsTask, cur, pumps, callVars, halt>>
    BY DEF Recover, InBody
  <1>2. missed' \in BOOLEAN /\ halt = "no" /\ cur = g
    BY <1>1 DEF Invariant, TypeOK, Running
  <1>3. stack \in [Goroutine -> Seq(Activation)] /\ stack[g] \in Seq(Activation) /\ DOMAIN stack[g] = 1..Len(stack[g])
    BY StackFacts DEF Invariant, Stacks
  <1>4. CASE ~caught
    <2>1. stack' = stack
      BY <1>1, <1>4
    <2>2. /\ \A p \in 1..Len(pumps) : pumps[p].caller \in Goroutine => pumps[p].caller # cur'
          /\ ~mainIsTask /\ pumps = <<>> /\ halt' = "no" => cur' = Main
          /\ \A k \in Goroutine : cur' = k => stack[k] # <<>>
      BY <1>1, PumpFacts DEF Invariant, Nesting, Stacks
    <2>3. Nesting' /\ PumpsKept
      BY <1>1, <2>1, <2>2, NestingStays
    <2>4. /\ Chains' /\ Owners' /\ Stacks' /\ Activations'
          /\ stack' \in [Goroutine -> Seq(Activation)]
          /\ \A k \in Goroutine : Len(stack'[k]) <= MaxDepth
          /\ born' \subseteq Goroutine /\ head' \in [Goroutine \union {None} -> Frame \union {None}]
          /\ mainIsTask' \in BOOLEAN
      <3>1. UNCHANGED <<stack, born, head, mainIsTask>>
        BY <1>1, <2>1
      <3> QED
        BY <2>2, <2>3, <3>1, Unmoved
    <2>5. /\ cur' \in Goroutine \union {None} /\ halt' \in {"no", "abort", "exit"}
          /\ calling' \in BOOLEAN /\ err' \in {"clear", "bridge", "panic"} /\ stashed' \in BOOLEAN
          /\ ErrorStateFollows'
      BY <1>1 DEF Invariant, TypeOK, callVars, ErrorStateFollows
    <2>6. TypeOK'
      BY <1>2, <2>3, <2>4, <2>5, Typed
    <2> QED
      BY <2>3, <2>4, <2>5, <2>6 DEF Invariant
  <1>5. CASE caught
    <2>1. f = <<g, Max(Framed(g))>> /\ Framed(g) # {} /\ f \in Frame
      BY <1>1, <1>5, RecoversOwn
    <2>2. f[1] = g /\ i \in 1..MaxDepth
      BY <2>1 DEF Frame
    <2>3. i \in 1..Len(stack[g])
      <3>1. PICK j \in Framed(g) : TRUE
        BY <2>1
      <3>2. Framed(g) \subseteq 1..Len(stack[g])
        BY <1>3 DEF Framed
      <3>3. i = Max(Framed(g))
        BY <2>1
      <3>4. Max(Framed(g)) \in Framed(g)
        BY <3>1, <3>2, StackFacts, LargestIn
      <3> QED
        BY <3>2, <3>3, <3>4
    <2>4. stack' = [stack EXCEPT ![g] = [stack[g] EXCEPT ![i] = a]]
      BY <1>1, <1>3, <1>5, <2>2, <2>3
    <2>5. stack[g][i] \in Activation /\ Sound(stack[g][i], i)
      BY <2>3, StackFacts DEF Invariant, Activations, Sound
    <2>6. a \in Activation /\ Later(stack[g][i], a) /\ Sound(a, i)
      BY <2>5 DEF Activation, Later, Sound
    <2> HIDE DEF a, i
    <2> QED
      BY <1>1, <1>2, <2>3, <2>4, <2>6, OnlyOneActivation
  <1> QED
    BY <1>4, <1>5

-----------------------------------------------------------------------------
(* Functions are entered and left *)

\* While g executes, h enters a function, as the activation a at depth n + 1; and g may
\* enter a loop for it.
Enters(g, h, a, n) ==
  /\ halt = "no" /\ halt' = halt /\ cur = g /\ (h = g \/ h \notin born)
  /\ n = Len(stack[h]) /\ n < MaxDepth
  /\ stack' \in [Goroutine -> Seq(Activation)]
  /\ Len(stack'[h]) = n + 1 /\ stack'[h][n + 1] = a /\ Sound(a, n + 1)
  /\ \A k \in Goroutine : Keeps(k) /\ (k # h => Len(stack'[k]) = Len(stack[k]))
  /\ \A k \in Goroutine : \A i \in 1..Len(stack[k]) : Sound(stack'[k][i], i)
  /\ a.prev = head[Chain(h)]
  /\ head' = IF HasFrame(a) THEN [head EXCEPT ![Chain(h)] = <<h, n + 1>>] ELSE head
  /\ born' = born \union {h} /\ UNCHANGED <<mainIsTask, callVars, missed>>
  /\ \/ UNCHANGED <<pumps, cur>> /\ (a.owner # None => h = g)
     \/ pumps' = Append(pumps, [caller |-> g, waits |-> h]) /\ cur' = None
  /\ a.owner # None => /\ a.owner = <<g, Len(stack[g])>>
                       /\ stack[g][Len(stack[g])].phase # "body"
                       /\ h # g => n = 0

LEMMA EntersKeeps ==
  ASSUME Invariant, NEW g \in Goroutine, NEW h \in Goroutine, NEW a \in Activation, NEW n \in Nat,
         Enters(g, h, a, n)
  PROVE  Invariant'
  <1> USE DEF Enters
  <1>1. /\ \A k \in Goroutine : stack[k] # <<>> => stack'[k] # <<>>
        /\ stack'[h] # <<>> /\ stack[g] # <<>>
        /\ \A p \in 1..Len(pumps) : pumps[p].caller # g /\ pumps[p].caller # h
    <2>1. \A k \in Goroutine : stack[k] # <<>> => stack'[k] # <<>>
      BY StackFacts, LenProperties, EmptySeq
    <2>2. stack'[h] # <<>>
      BY LenProperties, EmptySeq
    <2>3. stack[g] # <<>> /\ g \in born /\ \A p \in 1..Len(pumps) : pumps[p].caller # g
      BY Executes
    <2>4. \A p \in 1..Len(pumps) : pumps[p].caller \in Goroutine => pumps[p].caller \in born
      BY PumpFacts DEF Nesting, Invariant, Stacks
    <2> QED
      BY <2>1, <2>2, <2>3, <2>4
  <1>2. /\ Nesting' /\ PumpsKept
        /\ cur' # g => \E p \in 1..Len(pumps') : pumps'[p].caller = g /\ pumps'[p].waits = h
    <2>1. CASE UNCHANGED <<pumps, cur>>
      <3>1. /\ \A p \in 1..Len(pumps) : pumps[p].caller \in Goroutine => pumps[p].caller # cur'
            /\ ~mainIsTask /\ pumps = <<>> /\ halt' = "no" => cur' = Main
        BY <2>1, PumpFacts DEF Nesting
      <3> QED
        BY <1>1, <2>1, <3>1, NestingStays
    <2>2. CASE pumps' = Append(pumps, [caller |-> g, waits |-> h]) /\ cur' = None
      BY <1>1, <2>2, NestingPushed
    <2> QED
      BY <2>1, <2>2
  <1>3. cur' \in {cur, None} /\ \A k \in Goroutine : cur' = k => stack'[k] # <<>>
    BY <1>1, PumpFacts
  <1>4. h = Main => n # 0
    <2>1. h = Main => h = g
      BY DEF Invariant, Stacks
    <2> QED
      BY <1>1, <2>1, StackFacts
  <1>5. a.owner # None => Waits(h, n + 1, a.owner)'
    <2> SUFFICES ASSUME a.owner # None
                 PROVE  Waits(h, n + 1, a.owner)'
      OBVIOUS
    <2> DEFINE m == Len(stack[g])
    <2>1. m \in Nat \ {0} /\ m <= MaxDepth /\ MaxDepth \in Nat /\ m \in 1..m
      BY <1>1, StackFacts
    <2>2. a.owner = <<g, m>> /\ a.owner[1] = g /\ a.owner[2] = m
      OBVIOUS
    <2>3. <<g, m>> \in Frame
      BY <2>1 DEF Frame
    <2>4. m \in 1..Len(stack'[g])
      <3>1. CASE g = h
        BY <2>1, <3>1
      <3>2. CASE g # h
        BY <2>1, <3>2
      <3> QED
        BY <3>1, <3>2
    <2>5. stack'[g][m].phase # "body"
      BY <2>1, <2>4 DEF Keeps, Later
    <2>6. CASE h = g
      BY <2>1, <2>2, <2>3, <2>4, <2>5, <2>6 DEF Waits
    <2>7. CASE h # g
      <3>1. n + 1 = 1 /\ m = Len(stack'[g])
        BY <2>7
      <3>2. \E p \in 1..Len(pumps') : pumps'[p].caller = g /\ pumps'[p].waits = h
        BY <1>2, <2>7, PumpFacts
      <3> QED
        BY <2>1, <2>2, <2>3, <2>4, <2>5, <3>1, <3>2 DEF Waits
    <2> QED
      BY <2>6, <2>7
  <1>6. Chains' /\ Owners' /\ Stacks'
    BY <1>1, <1>2, <1>3, <1>4, <1>5, Entered
  <1>7. \A k \in Goroutine : Len(stack'[k]) <= MaxDepth
    <2>1. \A k \in Goroutine \ {h} : Len(stack'[k]) <= MaxDepth
      BY StackFacts
    <2>2. Len(stack'[h]) <= MaxDepth
      BY PanicDeferAssumption
    <2> QED
      BY <2>1, <2>2
  <1>8. head' \in [Goroutine \union {None} -> Frame \union {None}]
    <2>1. n + 1 \in 1..MaxDepth
      BY StackFacts
    <2>2. <<h, n + 1>> \in Frame
      BY <2>1 DEF Frame
    <2> QED
      BY <2>2 DEF Invariant, TypeOK
  <1>9. Activations'
    <2> SUFFICES ASSUME NEW k \in Goroutine, NEW i \in 1..Len(stack'[k]) PROVE Sound(stack'[k][i], i)
      BY DEF Activations, Sound
    <2>1. CASE k = h /\ i = n + 1
      BY <2>1
    <2>2. CASE ~(k = h /\ i = n + 1)
      <3>1. i \in 1..Len(stack[k])
        <4>1. CASE k = h
          BY <2>2, <4>1
        <4>2. CASE k # h
          BY <4>2
        <4> QED
          BY <4>1, <4>2
      <3> QED
        BY <3>1
    <2> QED
      BY <2>1, <2>2
  <1>10. /\ born' \subseteq Goroutine /\ mainIsTask' \in BOOLEAN /\ halt' \in {"no", "abort", "exit"}
         /\ cur' \in Goroutine \union {None} /\ missed' \in BOOLEAN
         /\ calling' \in BOOLEAN /\ err' \in {"clear", "bridge", "panic"} /\ stashed' \in BOOLEAN
         /\ ErrorStateFollows'
    BY <1>3 DEF Invariant, TypeOK, callVars, ErrorStateFollows
  <1>11. TypeOK'
    BY <1>2, <1>7, <1>8, <1>10, Typed
  <1> QED
    BY <1>2, <1>6, <1>9, <1>10, <1>11 DEF Invariant

\* An activation that has just been entered.
LEMMA Fresh ==
  ASSUME Invariant, NEW g \in Goroutine, NEW async \in BOOLEAN, NEW lit \in BOOLEAN, NEW wrap \in BOOLEAN,
         NEW named \in BOOLEAN, NEW owner \in Frame \union {None}, NEW i \in Nat, wrap => i < MaxDepth,
         NEW a, a = NewActivation(g, async, lit, wrap, named, owner)
  PROVE  /\ a \in Activation /\ a.prev = head[Chain(g)] /\ a.owner = owner /\ a.phase = "body"
         /\ Sound(a, i) /\ (HasFrame(a) <=> wrap /\ ~(lit /\ async))
  <1>1. head[Chain(g)] \in Frame \union {None}
    BY DEF Invariant, TypeOK, Chain
  <1>2. <<>> \in DeferLists
    <2>1. <<>> \in Seq({"sync", "async"}) /\ Len(<<>>) = 0
      BY EmptySeq
    <2>2. MaxDefers \in Nat /\ 0 <= MaxDefers
      BY PanicDeferAssumption
    <2> QED
      BY <2>1, <2>2, DeferListsAre
  <1> QED
    BY <1>1, <1>2 DEF NewActivation, Activation, DeferLists, Sound, HasFrame

\* A function is called, or a goroutine started, on the stack of h.
LEMMA PushKeeps ==
  ASSUME Invariant, halt = "no", halt' = halt,
         NEW g \in Goroutine, cur = g,
         NEW h \in Goroutine, h = g \/ h \notin born,
         NEW async \in BOOLEAN, NEW lit \in BOOLEAN, NEW wrap \in BOOLEAN, NEW named \in BOOLEAN,
         Len(stack[h]) + (IF wrap THEN 1 ELSE 0) < MaxDepth,
         Push(h, stack[h], NewActivation(h, async, lit, wrap, named, None)),
         born' = born \union {h}, UNCHANGED <<mainIsTask, cur, pumps, callVars, missed>>
  PROVE  Invariant'
  <1> DEFINE a == NewActivation(h, async, lit, wrap, named, None)
             n == Len(stack[h])
  <1>1. /\ stack[h] \in Seq(Activation) /\ n \in Nat /\ n < MaxDepth /\ (wrap => n + 1 < MaxDepth)
        /\ stack \in [Goroutine -> Seq(Activation)]
    BY StackFacts DEF Invariant, Stacks
  <1>2. /\ a \in Activation /\ a.prev = head[Chain(h)] /\ a.owner = None /\ Sound(a, n + 1)
    BY <1>1, Fresh
  <1>3. /\ stack' = [stack EXCEPT ![h] = Append(stack[h], a)]
        /\ head' = IF HasFrame(a) THEN [head EXCEPT ![Chain(h)] = <<h, n + 1>>] ELSE head
    BY DEF Push
  <1> HIDE DEF a
  <1>4. /\ Append(stack[h], a) \in Seq(Activation) /\ Len(Append(stack[h], a)) = n + 1
        /\ \A i \in 1..n : Append(stack[h], a)[i] = stack[h][i]
        /\ Append(stack[h], a)[n + 1] = a
    BY <1>1, <1>2, AppendFacts
  <1>5. /\ stack' \in [Goroutine -> Seq(Activation)]
        /\ stack'[h] = Append(stack[h], a)
        /\ \A k \in Goroutine \ {h} : stack'[k] = stack[k]
    BY <1>1, <1>3, <1>4
  <1> HIDE DEF n
  <1>6. \A k \in Goroutine : \A i \in 1..Len(stack[k]) : stack'[k][i] = stack[k][i]
    BY <1>4, <1>5 DEF n
  <1>7. /\ \A k \in Goroutine : Keeps(k) /\ (k # h => Len(stack'[k]) = Len(stack[k]))
        /\ \A k \in Goroutine : \A i \in 1..Len(stack[k]) : Sound(stack'[k][i], i)
    <2>1. \A k \in Goroutine : Keeps(k)
      BY <1>6 DEF Keeps, Later
    <2>2. \A k \in Goroutine : \A i \in 1..Len(stack[k]) : Sound(stack[k][i], i)
      BY DEF Sound, Invariant, Activations
    <2>3. \A k \in Goroutine : \A i \in 1..Len(stack[k]) : Sound(stack'[k][i], i)
      BY <1>6, <2>2
    <2> QED
      BY <1>5, <2>1, <2>3
  <1>8. Enters(g, h, a, n)
    BY <1>1, <1>2, <1>3, <1>4, <1>5, <1>7 DEF Enters, n
  <1> QED
    BY <1>1, <1>2, <1>8, EntersKeeps

LEMMA EnterKeeps ==
  ASSUME Invariant, NEW g \in Goroutine, NEW async \in BOOLEAN, NEW wrap \in BOOLEAN, NEW named \in BOOLEAN,
         Enter(g, async, wrap, named)
  PROVE  Invariant'
  <1>1. /\ halt = "no" /\ cur = g
        /\ Len(stack[g]) + (IF wrap THEN 1 ELSE 0) < MaxDepth
        /\ Push(g, stack[g], NewActivation(g, async, FALSE, wrap, named, None))
        /\ UNCHANGED <<born, mainIsTask, cur, pumps, callVars, missed, halt>>
    BY DEF Enter, InBody, Running
  <1>2. born' = born \union {g}
    BY <1>1, Executes
  <1> QED
    BY <1>1, <1>2, PushKeeps

LEMMA GoStmtKeeps ==
  ASSUME Invariant, NEW g \in Goroutine, NEW h \in Goroutine, GoStmt(g, h)
  PROVE  Invariant'
  <1>1. /\ halt = "no" /\ cur = g /\ h \notin born
        /\ born' = born \union {h}
        /\ UNCHANGED <<mainIsTask, cur, pumps, callVars, missed, halt>>
    BY DEF GoStmt, InBody, Running
  <1>2. PICK lit, wrap \in BOOLEAN : Push(h, <<>>, NewActivation(h, TRUE, lit, wrap, FALSE, None))
    BY DEF GoStmt
  <1>3. stack[h] = <<>> /\ Len(stack[h]) = 0 /\ MaxDepth \in Nat \ {0, 1}
    BY <1>1, StackFacts DEF Invariant, Stacks
  <1>4. /\ Len(stack[h]) + (IF wrap THEN 1 ELSE 0) < MaxDepth
        /\ Push(h, stack[h], NewActivation(h, TRUE, lit, wrap, FALSE, None))
    <2>1. (IF wrap THEN 1 ELSE 0) \in {0, 1}
      OBVIOUS
    <2>2. Len(stack[h]) + (IF wrap THEN 1 ELSE 0) < MaxDepth
      BY <1>3, <2>1
    <2> QED
      BY <1>2, <1>3, <2>2
  <1>5. TRUE \in BOOLEAN /\ FALSE \in BOOLEAN /\ lit \in BOOLEAN /\ wrap \in BOOLEAN
    BY <1>2
  <1> QED
    BY <1>1, <1>4, <1>5, PushKeeps

\* A deferred closure is entered, by the goroutine g that leaves a function or by a new
\* goroutine h that runs it for g.
LEMMA ClosureKeeps ==
  ASSUME Invariant, NEW g \in Goroutine, Leaving(g), Top(g).defers # <<>>,
         NEW h \in Goroutine, NEW st, NEW async \in BOOLEAN, Closure(h, st, async, Me(g)),
         \/ h = g /\ st = PopDefer(g) /\ UNCHANGED <<pumps, cur>>
         \/ h \notin born /\ st = stack[h] /\ PumpFor(g, h),
         born' = born \union {h}, UNCHANGED <<mainIsTask, callVars, missed, halt>>
  PROVE  Invariant'
  <1> DEFINE m == Len(stack[g])
             n == Len(stack[h])
             t == [Top(g) EXCEPT !.defers = Front(@)]
  <1>1. /\ halt = "no" /\ cur = g /\ Top(g).phase # "body"
        /\ m \in Nat \ {0} /\ m \in 1..m /\ Top(g) = stack[g][m] /\ Top(g) \in Activation
        /\ Sound(Top(g), m)
    BY TopFacts DEF Leaving
  <1>2. /\ stack[g] \in Seq(Activation) /\ stack[g] # <<>> /\ m <= MaxDepth
        /\ stack[h] \in Seq(Activation) /\ n \in Nat
        /\ stack \in [Goroutine -> Seq(Activation)] /\ MaxDepth \in Nat \ {0, 1}
    BY <1>1, StackFacts DEF Invariant, Stacks
  <1>3. /\ g \in born
        /\ h # g => h \notin born /\ stack[h] = <<>> /\ n = 0 /\ st = stack[h]
        /\ h = g => st = PopDefer(g)
    <2>1. g \in born
      BY <1>1, Executes
    <2>2. h # g => stack[h] = <<>> /\ n = 0
      BY StackFacts DEF Invariant, Stacks
    <2> QED
      BY <2>1, <2>2
  <1>4. t \in Activation /\ Later(Top(g), t) /\ Sound(t, m) /\ Top(g).wrap /\ m < MaxDepth
    BY <1>1, <1>2, DeferPopped, PanicDeferAssumption DEF Later, Sound, Activation
  <1>5. /\ PopDefer(g) \in Seq(Activation) /\ Len(PopDefer(g)) = m
        /\ \A i \in 1..m : i # m => PopDefer(g)[i] = stack[g][i]
        /\ PopDefer(g)[m] = t
    <2>1. /\ Front(stack[g]) \in Seq(Activation) /\ Len(Front(stack[g])) = m - 1
          /\ \A i \in 1..m - 1 : Front(stack[g])[i] = stack[g][i]
      BY <1>2, FrontFacts
    <2>2. PopDefer(g) = Append(Front(stack[g]), t)
      BY DEF PopDefer
    <2> HIDE DEF t
    <2>3. /\ PopDefer(g) \in Seq(Activation) /\ Len(PopDefer(g)) = (m - 1) + 1
          /\ \A i \in 1..m - 1 : PopDefer(g)[i] = Front(stack[g])[i]
          /\ PopDefer(g)[(m - 1) + 1] = t
      BY <1>4, <2>1, <2>2, AppendFacts
    <2>4. (m - 1) + 1 = m /\ \A i \in 1..m : i # m => i \in 1..m - 1
      BY <1>1
    <2> QED
      BY <2>1, <2>3, <2>4
  <1>6. st \in Seq(Activation) /\ Len(st) = n /\ Me(g) = <<g, m>> /\ Me(g)[1] = g
    BY <1>2, <1>3, <1>5 DEF Me
  <1>7. PICK wrap \in BOOLEAN :
          /\ wrap => n + 1 < MaxDepth
          /\ stack' = [stack EXCEPT ![g] = PopDefer(g),
                                    ![h] = Append(st, NewActivation(h, async, TRUE, wrap, FALSE, Me(g)))]
          /\ head' = IF wrap /\ ~async THEN [head EXCEPT ![Chain(h)] = <<h, n + 1>>] ELSE head
    BY <1>6 DEF Closure
  <1> DEFINE a == NewActivation(h, async, TRUE, wrap, FALSE, Me(g))
  <1>8. /\ a \in Activation /\ a.prev = head[Chain(h)] /\ a.owner = <<g, m>>
        /\ Sound(a, n + 1) /\ (HasFrame(a) <=> wrap /\ ~async)
    <2>1. Me(g) \in Frame \union {None} /\ n + 1 \in Nat
      BY <1>1, <1>2, <1>6 DEF Frame
    <2>2. TRUE \in BOOLEAN /\ FALSE \in BOOLEAN /\ (wrap => n + 1 < MaxDepth)
      BY <1>7
    <2>3. a = NewActivation(h, async, TRUE, wrap, FALSE, Me(g))
      OBVIOUS
    <2> HIDE DEF n, a
    <2>4. PICK j \in Nat : j = n + 1
      BY <2>1
    <2>5. PICK o \in Frame \union {None} : o = Me(g)
      BY <2>1
    <2>6. PICK lit \in BOOLEAN : lit = TRUE
      OBVIOUS
    <2>7. PICK named \in BOOLEAN : named = FALSE
      OBVIOUS
    <2>8. (wrap => j < MaxDepth) /\ a = NewActivation(h, async, lit, wrap, named, o)
      BY <2>2, <2>3, <2>4, <2>5, <2>6, <2>7
    <2>9. /\ a \in Activation /\ a.prev = head[Chain(h)] /\ a.owner = o
          /\ Sound(a, j) /\ (HasFrame(a) <=> wrap /\ ~(lit /\ async))
      BY <2>8, Fresh
    <2>10. /\ a \in Activation /\ a.prev = head[Chain(h)] /\ a.owner = Me(g)
          /\ Sound(a, n + 1) /\ (HasFrame(a) <=> wrap /\ ~(TRUE /\ async))
      BY <2>9, <2>4, <2>5, <2>6
    <2> QED
      BY <1>6, <2>10
  <1> HIDE DEF a, t
  <1>9. /\ Append(st, a) \in Seq(Activation) /\ Len(Append(st, a)) = n + 1
        /\ \A i \in 1..n : Append(st, a)[i] = st[i]
        /\ Append(st, a)[n + 1] = a
    BY <1>6, <1>8, AppendFacts
  <1>10. /\ stack' \in [Goroutine -> Seq(Activation)]
         /\ stack'[h] = Append(st, a)
         /\ h # g => stack'[g] = PopDefer(g)
         /\ \A k \in Goroutine \ {g, h} : stack'[k] = stack[k]
    BY <1>2, <1>5, <1>7, <1>9 DEF a
  <1>11. \A k \in Goroutine : \A i \in 1..Len(stack[k]) :
           stack'[k][i] = IF k = g /\ i = m THEN t ELSE stack[k][i]
    <2>1. \A i \in 1..m : stack'[g][i] = IF i = m THEN t ELSE stack[g][i]
      <3>1. CASE h = g
        BY <1>3, <1>5, <1>9, <1>10, <3>1
      <3>2. CASE h # g
        BY <1>5, <1>10, <3>2
      <3> QED
        BY <3>1, <3>2
    <2>2. h # g => \A i \in 1..n : FALSE
      BY <1>3
    <2>3. \A k \in Goroutine \ {g} : \A i \in 1..Len(stack[k]) : stack'[k][i] = stack[k][i]
      BY <1>10, <2>2
    <2> QED
      BY <2>1, <2>3
  <1>12. \A k \in Goroutine : \A i \in 1..Len(stack[k]) :
           Later(stack[k][i], stack'[k][i]) /\ Sound(stack'[k][i], i)
    <2>1. \A k \in Goroutine : \A i \in 1..Len(stack[k]) : Sound(stack[k][i], i)
      BY DEF Invariant, Activations, Sound
    <2>2. \A k \in Goroutine : \A i \in 1..Len(stack[k]) : Later(stack[k][i], stack[k][i])
      BY DEF Later
    <2> QED
      BY <1>1, <1>4, <1>11, <2>1, <2>2
  <1>13. /\ \A k \in Goroutine : Keeps(k) /\ (k # h => Len(stack'[k]) = Len(stack[k]))
         /\ \A k \in Goroutine : \A i \in 1..Len(stack[k]) : Sound(stack'[k][i], i)
    <2>1. \A k \in Goroutine : Keeps(k)
      BY <1>12 DEF Keeps
    <2>2. h # g => Len(stack'[g]) = Len(stack[g])
      BY <1>5, <1>10
    <2> QED
      BY <1>10, <1>12, <2>1, <2>2
  <1>14. n < MaxDepth /\ (h # g => n = 0)
    BY <1>2, <1>3, <1>4
  <1>15. \/ UNCHANGED <<pumps, cur>> /\ (a.owner # None => h = g)
         \/ pumps' = Append(pumps, [caller |-> g, waits |-> h]) /\ cur' = None
    BY <1>3 DEF PumpFor
  <1>16. head' = IF HasFrame(a) THEN [head EXCEPT ![Chain(h)] = <<h, n + 1>>] ELSE head
    BY <1>7, <1>8
  <1>17. a.owner # None => /\ a.owner = <<g, Len(stack[g])>>
                           /\ stack[g][Len(stack[g])].phase # "body"
                           /\ h # g => n = 0
    BY <1>1, <1>8, <1>14
  <1>18. Len(stack'[h]) = n + 1 /\ stack'[h][n + 1] = a
    BY <1>9, <1>10
  <1> HIDE DEF n, m
  <1>19. n = Len(stack[h])
    BY DEF n
  <1>20. /\ halt = "no" /\ halt' = halt /\ cur = g /\ (h = g \/ h \notin born)
         /\ a \in Activation /\ n \in Nat /\ n = Len(stack[h]) /\ n < MaxDepth
         /\ stack' \in [Goroutine -> Seq(Activation)]
         /\ Len(stack'[h]) = n + 1 /\ stack'[h][n + 1] = a /\ Sound(a, n + 1)
         /\ a.prev = head[Chain(h)]
         /\ UNCHANGED <<mainIsTask, callVars, missed>>
    BY <1>1, <1>2, <1>8, <1>10, <1>14, <1>18, <1>19
  <1>21. PICK e \in Activation, k \in Nat : e = a /\ k = n
    BY <1>20
  <1>22. Enters(g, h, e, k)
    BY <1>13, <1>15, <1>16, <1>17, <1>20, <1>21 DEF Enters
  <1> QED
    BY <1>22, EntersKeeps

LEMMA RunSyncKeeps ==
  ASSUME Invariant, NEW g \in Goroutine, RunSync(g) \/ RunAwait(g)
  PROVE  Invariant'
  <1>1. PICK async \in BOOLEAN : Closure(g, PopDefer(g), async, Me(g))
    BY DEF RunSync, RunAwait
  <1>2. /\ Leaving(g) /\ Top(g).defers # <<>>
        /\ UNCHANGED <<born, mainIsTask, cur, pumps, callVars, missed, halt>>
    BY DEF RunSync, RunAwait
  <1>3. born' = born \union {g}
    BY <1>2, Executes DEF Leaving, Running
  <1> QED
    BY <1>1, <1>2, <1>3, ClosureKeeps

LEMMA RunPumpedKeeps ==
  ASSUME Invariant, NEW g \in Goroutine, NEW h \in Goroutine, RunPumped(g, h)
  PROVE  Invariant'
  <1>1. /\ Leaving(g) /\ Top(g).defers # <<>> /\ h \notin born /\ born' = born \union {h}
        /\ Closure(h, <<>>, TRUE, Me(g)) /\ PumpFor(g, h)
        /\ UNCHANGED <<mainIsTask, callVars, missed, halt>>
    BY DEF RunPumped
  <1>2. h # g /\ stack[h] = <<>>
    BY <1>1, Executes DEF Leaving, Running, Invariant, Stacks
  <1> QED
    BY <1>1, <1>2, ClosureKeeps

LEMMA LeaveKeeps ==
  ASSUME Invariant, NEW g \in Goroutine, Leave(g)
  PROVE  Invariant'
  <1> DEFINE m == Len(stack[g])
             n == m - 1
  <1>1. /\ Running(g)
        /\ stack' = [stack EXCEPT ![g] = Front(stack[g])]
        /\ head' = IF HasFrame(Top(g)) THEN Unlinked(g) ELSE head
        /\ cur' = IF m = 1 THEN None ELSE g
        /\ halt' \in {"no", "abort", "exit"}
        /\ g = Main /\ ~mainIsTask /\ m = 1 => halt' # "no"
        /\ UNCHANGED <<born, mainIsTask, pumps, callVars, missed>>
    BY DEF Leave, Leaving
  <1>2. /\ halt = "no" /\ cur = g /\ m \in Nat \ {0} /\ Top(g) = stack[g][m] /\ Top(g) \in Activation
    BY <1>1, TopFacts
  <1>3. /\ stack[g] \in Seq(Activation) /\ stack[g] # <<>> /\ m <= MaxDepth
        /\ stack \in [Goroutine -> Seq(Activation)] /\ None \notin Goroutine
        /\ \A p \in 1..Len(pumps) : pumps[p].caller # g
    BY <1>2, StackFacts, Executes, PumpFacts DEF Invariant, Stacks
  <1>4. n \in Nat /\ m = n + 1
    BY <1>2
  <1>5. /\ Front(stack[g]) \in Seq(Activation) /\ Len(Front(stack[g])) = n
        /\ \A i \in 1..n : Front(stack[g])[i] = stack[g][i]
    BY <1>3, FrontFacts
  <1> HIDE DEF n
  <1>6. /\ stack' \in [Goroutine -> Seq(Activation)]
        /\ stack'[g] = Front(stack[g]) /\ Len(stack'[g]) = n
        /\ \A k \in Goroutine \ {g} : stack'[k] = stack[k]
        /\ \A k \in Goroutine : Keeps(k)
    <2>1. /\ stack' \in [Goroutine -> Seq(Activation)]
          /\ stack'[g] = Front(stack[g])
          /\ \A k \in Goroutine \ {g} : stack'[k] = stack[k]
      BY <1>1, <1>3, <1>5
    <2>2. \A k \in Goroutine : \A i \in 1..Len(stack'[k]) : stack'[k][i] = stack[k][i]
      BY <1>5, <2>1
    <2> QED
      BY <1>5, <2>1, <2>2 DEF Keeps, Later
  <1>7. Chains'
    <2>1. /\ head \in [Goroutine \union {None} -> Frame \union {None}]
          /\ \A k \in Goroutine : ChainOf(k)
      BY DEF Invariant, TypeOK, Chains
    <2>2. Chain(g) \in Goroutine \union {None} /\ \A k \in Goroutine \ {g} : Chain(k) # Chain(g)
      BY ChainsApart DEF Chain
    <2>3. /\ head'[Chain(g)] = IF HasFrame(stack[g][n + 1]) THEN stack[g][n + 1].prev ELSE head[Chain(g)]
          /\ \A k \in Goroutine \ {g} : head'[Chain(k)] = head[Chain(k)]
      BY <1>1, <1>2, <1>4, <2>1, <2>2 DEF Unlinked
    <2>4. ChainOf(g)'
      BY <1>1, <1>3, <1>4, <1>6, <2>1, <2>3, ChainPopped
    <2>5. \A k \in Goroutine \ {g} : ChainOf(k)'
      BY <1>1, <1>3, <1>6, <2>1, <2>3, ChainKept
    <2> QED
      BY <2>4, <2>5 DEF Chains
  <1>8. Nesting' /\ PumpsKept
    <2>1. \A p \in 1..Len(pumps) : pumps[p].caller \in Goroutine => pumps[p].caller # cur'
      BY <1>1, <1>3
    <2>2. ~mainIsTask /\ pumps = <<>> /\ halt' = "no" => cur' = Main
      BY <1>1, <1>2, PumpFacts DEF Nesting
    <2>3. \A k \in Goroutine : stack[k] # <<>> /\ k # cur => stack'[k] # <<>>
      BY <1>2, <1>6
    <2> QED
      BY <1>1, <2>1, <2>2, <2>3, NestingStays
  <1>9. Owners'
    <2> SUFFICES ASSUME NEW k \in Goroutine, NEW i \in 1..Len(stack'[k]),
                        NEW o, stack'[k][i].owner = o, o # None
                 PROVE  Waits(k, i, o)'
      BY DEF Owners
    <2>1. i \in 1..Len(stack[k]) /\ stack[k][i].owner = o /\ (k = g => i <= n)
      <3>1. CASE k = g
        BY <1>4, <1>5, <1>6, <3>1
      <3>2. CASE k # g
        BY <1>6, <3>2
      <3> QED
        BY <3>1, <3>2
    <2>2. Waits(k, i, o)
      BY <2>1 DEF Invariant, Owners
    <2>3. o[1] \in Goroutine /\ o[2] \in 1..Len(stack[o[1]])
      BY <2>2 DEF Waits, Frame
    <2>4. o[2] \in 1..Len(stack'[o[1]]) /\ Keeps(o[1])
      <3>1. CASE o[1] = g
        <4>1. k = g /\ i = o[2] + 1
          BY <1>3, <2>2, <3>1 DEF Waits
        <4> QED
          BY <1>4, <1>6, <2>1, <2>3, <3>1, <4>1
      <3>2. CASE o[1] # g
        BY <1>6, <2>3, <3>2
      <3> QED
        BY <3>1, <3>2
    <2>5. (\E p \in 1..Len(pumps) : pumps[p].caller = o[1]) => Len(stack'[o[1]]) = Len(stack[o[1]])
      BY <1>3, <1>6, <2>3
    <2> QED
      BY <1>8, <2>2, <2>4, <2>5, WaitsKept
  <1>10. Stacks'
    <2>1. \A k \in Goroutine : stack'[k] # <<>> => k \in born'
      BY <1>1, <1>2, <1>6, Executes DEF Invariant, Stacks
    <2>2. \A k \in Goroutine : cur' = k => stack'[k] # <<>>
      <3>1. m # 1 => stack'[g] # <<>>
        BY <1>4, <1>6, StackFacts, EmptySeq
      <3> QED
        BY <1>1, <1>3, <3>1
    <2>3. ~mainIsTask => \A i \in 1..Len(stack'[Main]) : i = 1 => ~stack'[Main][i].async
      <3>1. Main \in Goroutine
        BY PanicDeferAssumption
      <3>2. \A i \in 1..Len(stack'[Main]) : i \in 1..Len(stack[Main])
        BY <1>4, <1>6, <3>1
      <3>3. \A i \in 1..Len(stack'[Main]) : stack'[Main][i].async = stack[Main][i].async
        BY <1>6, <3>1, <3>2 DEF Keeps, Later
      <3> QED
        BY <3>2, <3>3 DEF Invariant, Stacks
    <2> QED
      BY <1>1, <1>6, <2>1, <2>2, <2>3 DEF Stacks, Invariant
  <1>11. Activations'
    <2>1. \A k \in Goroutine : \A i \in 1..Len(stack'[k]) : i \in 1..Len(stack[k]) /\ stack'[k][i] = stack[k][i]
      <3>1. \A i \in 1..n : i \in 1..m
        BY <1>4
      <3> QED
        BY <1>5, <1>6, <3>1
    <2> QED
      BY <2>1 DEF Invariant, Activations
  <1>12. /\ \A k \in Goroutine : Len(stack'[k]) <= MaxDepth
         /\ head' \in [Goroutine \union {None} -> Frame \union {None}]
    <2>1. \A k \in Goroutine : Len(stack'[k]) <= MaxDepth
      <3>1. MaxDepth \in Nat
        BY PanicDeferAssumption
      <3>2. \A k \in Goroutine \ {g} : Len(stack'[k]) <= MaxDepth
        BY <1>6, StackFacts
      <3>3. Len(stack'[g]) <= MaxDepth
        BY <1>3, <1>4, <1>6, <3>1
      <3> QED
        BY <3>2, <3>3
    <2>2. Top(g).prev \in Frame \union {None}
      BY <1>2 DEF Activation
    <2> QED
      BY <1>1, <2>1, <2>2 DEF Unlinked, Invariant, TypeOK
  <1>13. /\ born' \subseteq Goroutine /\ mainIsTask' \in BOOLEAN /\ missed' \in BOOLEAN
         /\ cur' \in Goroutine \union {None}
         /\ calling' \in BOOLEAN /\ err' \in {"clear", "bridge", "panic"} /\ stashed' \in BOOLEAN
         /\ ErrorStateFollows'
    BY <1>1 DEF Invariant, TypeOK, callVars, ErrorStateFollows
  <1>14. TypeOK'
    BY <1>1, <1>6, <1>8, <1>12, <1>13, Typed
  <1> QED
    BY <1>7, <1>8, <1>9, <1>10, <1>11, <1>13, <1>14 DEF Invariant

-----------------------------------------------------------------------------
(* The theorems *)

LEMMA InvariantInit == Init => Invariant
  <1> SUFFICES ASSUME Init PROVE Invariant
    OBVIOUS
  <1> DEFINE Bottom(w) ==
        [async |-> mainIsTask, lit |-> FALSE, wrap |-> w, named |-> FALSE, owner |-> None,
         defers |-> <<>>, has_pending |-> FALSE, recovered |-> FALSE,
         prev |-> None, phase |-> "body"]
  <1>0. PICK wrap \in BOOLEAN :
          /\ stack = [g \in Goroutine |-> IF g = Main THEN <<Bottom(wrap)>> ELSE <<>>]
          /\ head = [c \in Goroutine \union {None} |->
                       IF wrap /\ c = Chain(Main) THEN <<Main, 1>> ELSE None]
    BY DEF Init
  <1> DEFINE a == Bottom(wrap)
  <1>1. /\ a = [async |-> mainIsTask, lit |-> FALSE, wrap |-> wrap, named |-> FALSE, owner |-> None,
                defers |-> <<>>, has_pending |-> FALSE, recovered |-> FALSE,
                prev |-> None, phase |-> "body"]
        /\ stack = [g \in Goroutine |-> IF g = Main THEN <<a>> ELSE <<>>]
        /\ head = [c \in Goroutine \union {None} |->
                     IF wrap /\ c = Chain(Main) THEN <<Main, 1>> ELSE None]
    BY <1>0
  <1> HIDE DEF a
  <1>2. /\ mainIsTask \in BOOLEAN /\ born = {Main}
        /\ cur = IF mainIsTask THEN None ELSE Main
        /\ pumps = IF mainIsTask THEN <<[caller |-> None, waits |-> None]>> ELSE <<>>
        /\ calling = FALSE /\ err = "clear" /\ stashed = FALSE /\ missed = FALSE /\ halt = "no"
    BY DEF Init
  <1>3. Main \in Goroutine /\ None \notin Goroutine /\ MaxDepth \in Nat \ {0, 1} /\ MaxDefers \in Nat
    BY PanicDeferAssumption
  <1>4. a \in Activation
    <2>1. <<>> \in Seq({"sync", "async"}) /\ Len(<<>>) = 0 /\ 0 <= MaxDefers
      BY <1>3, EmptySeq
    <2>2. <<>> \in DeferLists
      BY <1>3, <2>1, DeferListsAre
    <2> QED
      BY <1>1, <1>2, <2>2 DEF Activation, DeferLists
  <1>5. /\ <<a>> \in Seq(Activation) /\ Len(<<a>>) = 1 /\ <<a>>[1] = a
        /\ <<>> \in Seq(Activation) /\ Len(<<>>) = 0
    BY <1>4, EmptySeq
  <1>6. /\ stack \in [Goroutine -> Seq(Activation)] /\ stack[Main] = <<a>>
        /\ \A g \in Goroutine \ {Main} : stack[g] = <<>>
        /\ \A g \in Goroutine : \A i \in 1..Len(stack[g]) : g = Main /\ i = 1 /\ stack[g][i] = a
    <2>1. /\ stack \in [Goroutine -> Seq(Activation)] /\ stack[Main] = <<a>>
          /\ \A g \in Goroutine \ {Main} : stack[g] = <<>>
      BY <1>1, <1>3, <1>5
    <2>2. \A i \in 1..Len(stack[Main]) : i = 1 /\ stack[Main][i] = a
      BY <1>5, <2>1
    <2>3. \A g \in Goroutine \ {Main} : \A i \in 1..Len(stack[g]) : FALSE
      BY <1>5, <2>1
    <2> QED
      BY <2>1, <2>2, <2>3
  <1>7. Stacks
    BY <1>1, <1>2, <1>3, <1>5, <1>6 DEF Stacks
  <1>8. Activations
    <2>1. a.defers = <<>> /\ a.has_pending = FALSE /\ 1 < MaxDepth
      BY <1>1, <1>3
    <2> QED
      BY <1>6, <2>1 DEF Activations
  <1>9. Chains
    <2>1. /\ \A g \in Goroutine : Chain(g) \in Goroutine \union {None}
          /\ \A g \in Goroutine \ {Main} : Chain(g) # Chain(Main)
      BY <1>3, ChainsApart DEF Chain
    <2>2. \A g \in Goroutine : DOMAIN stack[g] = 1..Len(stack[g])
      BY <1>6, LenProperties
    <2>3. HasFrame(a) <=> wrap
      BY <1>1 DEF HasFrame
    <2>4. \A g \in Goroutine \ {Main} : Framed(g) = {}
      BY <1>6, <2>2 DEF Framed
    <2>5. ChainOf(Main)
      <3>1. CASE wrap
        <4>1. Framed(Main) = {1}
          BY <1>3, <1>5, <1>6, <2>2, <2>3, <3>1 DEF Framed
        <4>2. Innermost(Main, Framed(Main)) = <<Main, 1>>
          BY <4>1, InnermostIs
        <4>3. {j \in {1} : j < 1} = {}
          OBVIOUS
        <4>4. stack[Main][1].prev = None
          BY <1>1, <1>5, <1>6
        <4> QED
          BY <1>1, <1>3, <2>1, <3>1, <4>1, <4>2, <4>3, <4>4 DEF ChainOf, Innermost
      <3>2. CASE ~wrap
        <4>1. Framed(Main) = {}
          BY <1>3, <1>5, <1>6, <2>2, <2>3, <3>2 DEF Framed
        <4> QED
          BY <1>1, <1>3, <2>1, <3>2, <4>1 DEF ChainOf, Innermost
      <3> QED
        BY <3>1, <3>2
    <2>6. \A g \in Goroutine \ {Main} : ChainOf(g)
      BY <1>1, <2>1, <2>4 DEF ChainOf, Innermost
    <2> QED
      BY <2>5, <2>6 DEF Chains
  <1>10. Owners
    BY <1>1, <1>6 DEF Owners
  <1>11. Nesting
    <2>1. CASE mainIsTask
      <3> DEFINE e == [caller |-> None, waits |-> None]
      <3>1. e \in Item /\ e.caller = None /\ e.waits = None
        BY DEF Item
      <3>2. pumps = <<e>>
        BY <1>2, <2>1
      <3> HIDE DEF e
      <3>3. pumps \in Seq(Item) /\ Len(pumps) = 1 /\ pumps[1] = e /\ pumps # <<>>
        BY <3>1, <3>2
      <3>4. \A i \in 1..Len(pumps) : i = 1
        BY <3>3
      <3> QED
        BY <2>1, <3>1, <3>3, <3>4 DEF Nesting
    <2>2. CASE ~mainIsTask
      <3>1. pumps \in Seq(Item) /\ Len(pumps) = 0 /\ pumps = <<>>
        BY <1>2, <2>2, EmptySeq
      <3>2. \A i \in 1..Len(pumps) : FALSE
        BY <3>1
      <3> QED
        BY <1>2, <2>2, <3>1, <3>2 DEF Nesting
    <2> QED
      BY <1>2, <2>1, <2>2
  <1>12. TypeOK
    <2>1. \A g \in Goroutine : Len(stack[g]) <= MaxDepth
      BY <1>3, <1>5, <1>6
    <2>2. \A g \in Goroutine : \A i \in DOMAIN stack[g] : stack[g][i] \in Activation
      BY <1>6, ElementOfSeq, LenProperties
    <2>3. <<Main, 1>> \in Frame
      BY <1>3 DEF Frame
    <2>4. head \in [Goroutine \union {None} -> Frame \union {None}]
      BY <1>1, <2>3
    <2> QED
      BY <1>2, <1>3, <1>11, <2>1, <2>2, <2>4 DEF TypeOK, Nesting, Item
  <1>13. ErrorStateFollows
    BY <1>2 DEF ErrorStateFollows
  <1> QED
    BY <1>7, <1>8, <1>9, <1>10, <1>11, <1>12, <1>13 DEF Invariant

LEMMA InvariantStutter == Invariant /\ UNCHANGED vars => Invariant'
  <1> SUFFICES ASSUME Invariant, UNCHANGED vars PROVE Invariant'
    OBVIOUS
  <1>1. /\ UNCHANGED <<stack, born, head, mainIsTask, pumps, missed>>
        /\ UNCHANGED <<cur, halt, calling, err, stashed>>
    BY DEF vars, callVars
  <1>2. ErrorStateFollows'
    BY <1>1 DEF Invariant, ErrorStateFollows
  <1> QED
    BY <1>1, <1>2, OnlyControl DEF Invariant, TypeOK

LEMMA InvariantNext == Invariant /\ [Next]_vars => Invariant'
  <1> SUFFICES ASSUME Invariant, [Next]_vars PROVE Invariant'
    OBVIOUS
  <1>1. ASSUME NEW g \in Goroutine, NEW async \in BOOLEAN, NEW wrap \in BOOLEAN, NEW named \in BOOLEAN,
               Enter(g, async, wrap, named)
        PROVE  Invariant'
    BY <1>1, EnterKeeps
  <1>2. ASSUME NEW g \in Goroutine, NEW kind \in {"sync", "async"}, DeferStmt(g, kind) PROVE Invariant'
    BY <1>2, DeferStmtKeeps
  <1>3. ASSUME NEW g \in Goroutine, NEW h \in Goroutine, GoStmt(g, h) PROVE Invariant'
    BY <1>3, GoStmtKeeps
  <1>4. ASSUME NEW g \in Goroutine, NEW h \in Goroutine, RunPumped(g, h) PROVE Invariant'
    BY <1>4, RunPumpedKeeps
  <1>5. ASSUME NEW g \in Goroutine, Suspend(g) PROVE Invariant'
    BY <1>5, SuspendKeeps
  <1>6. ASSUME NEW g \in Goroutine, Recover(g) PROVE Invariant'
    BY <1>6, RecoverKeeps
  <1>7. ASSUME NEW g \in Goroutine, PanicStmt(g) PROVE Invariant'
    BY <1>7, PanicStmtKeeps
  <1>8. ASSUME NEW g \in Goroutine, Fault(g) PROVE Invariant'
    BY <1>8, FaultKeeps
  <1>9. ASSUME NEW g \in Goroutine, NEW how \in {"return", "end"}, ReturnStmt(g, how) PROVE Invariant'
    BY <1>9, ReturnStmtKeeps
  <1>10. ASSUME NEW g \in Goroutine, RunSync(g) \/ RunAwait(g) PROVE Invariant'
    BY <1>10, RunSyncKeeps
  <1>11. ASSUME NEW g \in Goroutine, Leave(g) PROVE Invariant'
    BY <1>11, LeaveKeeps
  <1>12. ASSUME NEW g \in Goroutine, Resume(g) PROVE Invariant'
    BY <1>12, ResumeKeeps
  <1>13. CASE UntilDone
    BY <1>13, UntilDoneKeeps
  <1>14. CASE RunDone
    BY <1>14, RunDoneKeeps
  <1>15. CASE (\E g \in Goroutine : CallBridge(g)) \/ BridgeStash \/ BridgePanic \/ BridgeReenter \/ BridgeReturn
    BY <1>15, BridgeKeeps
  <1>16. CASE Halted \/ UNCHANGED vars
    BY <1>16, InvariantStutter DEF Halted
  <1> QED
    BY <1>1, <1>2, <1>3, <1>4, <1>5, <1>6, <1>7, <1>8, <1>9, <1>10, <1>11, <1>12, <1>13, <1>14, <1>15,
       <1>16 DEF Next

\* The invariant holds in every reachable state.
THEOREM InvariantHolds == Spec => []Invariant
  BY InvariantInit, InvariantNext, PTL DEF Spec

LEMMA InvariantGivesChains == Invariant => ChainsConsistent
  BY DEF Invariant, Chains, ChainOf, ChainsConsistent, ChainIsOwnFrames

\* The chain of PanicFrames of each goroutine links exactly its live frames, innermost
\* first, however the goroutines suspend and the loops nest, and the ErrorState says
\* what the C++ stack says.
THEOREM ChainsStayConsistent == Spec => []ChainsConsistent
  BY InvariantHolds, InvariantGivesChains, PTL

LEMMA InvariantGivesOwners == Invariant => DeferRunsInItsFunction
  <1> SUFFICES ASSUME Invariant, NEW f \in Live, NEW o, At(f).owner = o, o # None
               PROVE  /\ o \in Live /\ At(o).phase # "body"
                      /\ \/ f = <<o[1], o[2] + 1>>
                         \/ /\ f[2] = 1 /\ o[2] = Len(stack[o[1]])
                            /\ \E i \in DOMAIN pumps : pumps[i] = [caller |-> o[1], waits |-> f[1]]
    BY DEF DeferRunsInItsFunction
  <1>1. /\ f[1] \in Goroutine /\ f[2] \in 1..Len(stack[f[1]]) /\ f = <<f[1], f[2]>>
    BY StackFacts DEF Live, Frame
  <1>2. Waits(f[1], f[2], o)
    BY <1>1 DEF Invariant, Owners, At
  <1>3. o \in Live /\ At(o).phase # "body"
    BY <1>2, StackFacts DEF Waits, Live, At, Frame
  <1>4. ASSUME f[2] = 1, o[2] = Len(stack[o[1]]),
               NEW p \in 1..Len(pumps), pumps[p].caller = o[1], pumps[p].waits = f[1]
        PROVE  \E i \in DOMAIN pumps : pumps[i] = [caller |-> o[1], waits |-> f[1]]
    BY <1>4, PumpFacts DEF Item
  <1> QED
    BY <1>1, <1>2, <1>3, <1>4 DEF Waits

\* A deferred closure finds the function that deferred it still there, leaving: it runs
\* on top of it, or while it waits in a RunUntil for the goroutine that runs the closure.
THEOREM DeferredFindTheirFunction == Spec => []DeferRunsInItsFunction
  BY InvariantHolds, InvariantGivesOwners, PTL

\* What a goroutine does leaves the activations of the others as they are.
LEMMA OthersUntouched ==
  ASSUME Invariant, [Next]_vars, NEW k \in Goroutine, k # cur, NEW i \in 1..Len(stack[k])
  PROVE  stack'[k] = stack[k]
  <1>1. /\ stack \in [Goroutine -> Seq(Activation)] /\ k \in born
    BY StackFacts DEF Invariant, Stacks
  <1>2. ASSUME NEW g \in Goroutine, NEW async \in BOOLEAN, NEW wrap \in BOOLEAN, NEW named \in BOOLEAN,
               Enter(g, async, wrap, named)
        PROVE  stack'[k] = stack[k]
    BY <1>1, <1>2 DEF Enter, InBody, Running, Push
  <1>3. ASSUME NEW g \in Goroutine, NEW kind \in {"sync", "async"}, DeferStmt(g, kind) PROVE stack'[k] = stack[k]
    BY <1>1, <1>3 DEF DeferStmt, InBody, Running, SetTop
  <1>4. ASSUME NEW g \in Goroutine, NEW h \in Goroutine, GoStmt(g, h) PROVE stack'[k] = stack[k]
    BY <1>1, <1>4 DEF GoStmt, Push
  <1>5. ASSUME NEW g \in Goroutine, NEW h \in Goroutine, RunPumped(g, h) PROVE stack'[k] = stack[k]
    <2>1. cur = g /\ h \notin born /\ Closure(h, <<>>, TRUE, Me(g)) /\ Me(g)[1] = g
      BY <1>5 DEF RunPumped, Leaving, Running, Me
    <2> QED
      BY <1>1, <2>1 DEF Closure
  <1>6. ASSUME NEW g \in Goroutine, RunSync(g) \/ RunAwait(g) PROVE stack'[k] = stack[k]
    <2>1. PICK async \in BOOLEAN : Closure(g, PopDefer(g), async, Me(g))
      BY <1>6 DEF RunSync, RunAwait
    <2>2. cur = g /\ Me(g)[1] = g
      BY <1>6 DEF RunSync, RunAwait, Leaving, Running, Me
    <2> QED
      BY <1>1, <2>1, <2>2 DEF Closure
  <1>7. ASSUME NEW g \in Goroutine, Recover(g) PROVE stack'[k] = stack[k]
    <2>1. Running(g) /\ cur = g
      BY <1>7 DEF Recover, InBody, Running
    <2>2. head[Chain(g)] # None => head[Chain(g)][1] = g
      BY <2>1, RecoversOwn
    <2> QED
      BY <1>1, <1>7, <2>1, <2>2 DEF Recover
  <1>8. ASSUME NEW g \in Goroutine, PanicStmt(g) \/ \E how \in {"return", "end"} : ReturnStmt(g, how)
        PROVE  stack'[k] = stack[k]
    BY <1>1, <1>8 DEF PanicStmt, ReturnStmt, LeaveBody, SetTop, InBody, Running
  <1>9. ASSUME NEW g \in Goroutine, Leave(g) PROVE stack'[k] = stack[k]
    BY <1>1, <1>9 DEF Leave, Leaving, Running
  <1>10. ASSUME NEW g \in Goroutine, Suspend(g) \/ Fault(g) \/ CallBridge(g) \/ Resume(g)
         PROVE  stack'[k] = stack[k]
    BY <1>10 DEF Suspend, Fault, CallBridge, Resume
  <1>11. CASE UntilDone \/ RunDone \/ BridgeStash \/ BridgePanic \/ BridgeReenter \/ BridgeReturn
    BY <1>11 DEF UntilDone, RunDone, BridgeStash, BridgePanic, BridgeReenter, BridgeReturn
  <1>12. CASE Halted \/ UNCHANGED vars
    BY <1>12 DEF Halted, vars
  <1> QED
    BY <1>2, <1>3, <1>4, <1>5, <1>6, <1>7, <1>8, <1>9, <1>10, <1>11, <1>12 DEF Next

LEMMA StepRecoversOwn ==
  ASSUME Invariant, [Next]_vars, NEW f \in Live, At(f).has_pending,
         Len(stack'[f[1]]) >= f[2], ~stack'[f[1]][f[2]].has_pending
  PROVE  f[1] = cur /\ At(f).phase = "end"
  <1>1. f[1] \in Goroutine /\ f[2] \in 1..Len(stack[f[1]])
    BY StackFacts DEF Live, Frame
  <1>2. At(f).phase = "end"
    BY <1>1 DEF Invariant, Activations, At
  <1> QED
    BY <1>1, <1>2, OthersUntouched DEF At

\* recover() takes a panic only from a function of the goroutine that executes it, and
\* one that is running its deferred calls.
THEOREM RecoverStaysLocal == Spec => RecoverIsLocal
  <1>1. ASSUME Invariant, [Next]_vars
        PROVE  \A f \in Live : At(f).has_pending /\ stack'[f[1]] # <<>> /\ Len(stack'[f[1]]) >= f[2]
                 /\ ~stack'[f[1]][f[2]].has_pending
                   => f[1] = cur /\ At(f).phase = "end"
    BY <1>1, StepRecoversOwn
  <1> QED
    BY <1>1, InvariantHolds, PTL DEF Spec, RecoverIsLocal
=============================================================================
