------------------------- MODULE ModuleLoaderProofs -------------------------
(***************************************************************************)
(* For any set of packages, whatever they import: the graph is in          *)
(* dependency order, no package is in it twice, and a reported import      *)
(* cycle is one.                                                           *)
(*                                                                         *)
(* DependenciesFirst is not inductive: when a package is finished it has   *)
(* to be known that what its file imports is merged.  StackInvariant says  *)
(* so of what each unfinished package has collected, except for the import *)
(* that the next package on the stack is.                                  *)
(***************************************************************************)
EXTENDS ModuleLoader, SequenceTheorems, TLAPS

\* direct_resolved is the part of file.imports the loop is through with.
CollectedIsPrefix ==
  \A p \in Package :
    /\ Len(direct[p]) <= Len(imports[p])
    /\ \A k \in 1 .. Len(direct[p]) : direct[p][k] = imports[p][k]

\* A package that was never entered has collected nothing.
Untouched ==
  \A p \in Package : p \notin merged /\ p \notin Elements(loading) => direct[p] = <<>>

MergedIsGraph == merged = Elements(graph)

\* What a package on the stack has collected is merged, or is the package
\* above it.
StackInvariant ==
  Running =>
    \A i \in 1 .. Len(loading) : \A k \in 1 .. Len(direct[loading[i]]) :
      \/ direct[loading[i]][k] \in merged
      \/ i < Len(loading) /\ direct[loading[i]][k] = loading[i + 1]

\* The stack is a path along imports.
StackIsPath ==
  \A i \in 1 .. Len(loading) - 1 : loading[i + 1] \in Elements(imports[loading[i]])

Invariant ==
  /\ TypeOK /\ CollectedIsPrefix /\ Untouched /\ MergedIsGraph
  /\ StackInvariant /\ StackIsPath
  /\ EachLoadedOnce /\ DependenciesFirst /\ CycleIsReal

-----------------------------------------------------------------------------
(* Sequences of packages *)

LEMMA SequenceFacts ==
  ASSUME NEW s \in Seq(Package)
  PROVE  /\ Len(s) \in Nat
         /\ DOMAIN s = 1 .. Len(s)
         /\ \A i \in 1 .. Len(s) : s[i] \in Package
         /\ s = <<>> <=> Len(s) = 0
         /\ Elements(s) \subseteq Package
  <1>1. Len(s) \in Nat /\ DOMAIN s = 1 .. Len(s)
    BY LenProperties
  <1>2. \A i \in 1 .. Len(s) : s[i] \in Package
    BY ElementOfSeq
  <1>3. s = <<>> <=> Len(s) = 0
    BY EmptySeq, <1>1
  <1> QED
    BY <1>1, <1>2, <1>3 DEF Elements

LEMMA AppendFacts ==
  ASSUME NEW s \in Seq(Package), NEW p \in Package
  PROVE  /\ Append(s, p) \in Seq(Package)
         /\ Len(Append(s, p)) = Len(s) + 1
         /\ \A i \in 1 .. Len(s) : Append(s, p)[i] = s[i]
         /\ Append(s, p)[Len(s) + 1] = p
         /\ Elements(Append(s, p)) = Elements(s) \union {p}
  <1> DEFINE q == Append(s, p)
  <1>1. /\ q \in Seq(Package)
        /\ Len(q) = Len(s) + 1
        /\ \A i \in 1 .. Len(s) : q[i] = s[i]
        /\ q[Len(s) + 1] = p
    BY AppendProperties
  <1> HIDE DEF q
  <1>2. Len(s) \in Nat /\ DOMAIN s = 1 .. Len(s) /\ DOMAIN q = 1 .. Len(s) + 1
    BY <1>1, SequenceFacts
  <1>3. \A i \in DOMAIN q : i \in DOMAIN s \/ i = Len(s) + 1
    BY <1>2
  <1>4. DOMAIN s \subseteq DOMAIN q /\ Len(s) + 1 \in DOMAIN q
    BY <1>2
  <1>5. \A i \in DOMAIN s : q[i] = s[i]
    BY <1>1, <1>2
  <1>6. Elements(q) = Elements(s) \union {p}
    BY <1>1, <1>3, <1>4, <1>5 DEF Elements
  <1> QED
    BY <1>1, <1>6 DEF q

\* pop_back() takes the top off and nothing else.
LEMMA PoppedFacts ==
  ASSUME loading \in Seq(Package), loading # <<>>
  PROVE  /\ Popped \in Seq(Package)
         /\ Len(Popped) = Len(loading) - 1
         /\ \A i \in 1 .. Len(loading) - 1 : Popped[i] = loading[i]
         /\ Elements(loading) = Elements(Popped) \union {Top}
  <1> DEFINE n == Len(loading)
  <1>1. /\ n \in Nat /\ n # 0 /\ DOMAIN loading = 1 .. n
        /\ \A i \in 1 .. n : loading[i] \in Package
    BY SequenceFacts
  <1>2. /\ Popped \in Seq(Package)
        /\ Len(Popped) = n - 1
        /\ \A i \in 1 .. n - 1 : Popped[i] = loading[i]
    <2>1. \A i \in 1 .. n - 1 : loading[i] \in Package
      BY <1>1
    <2>2. /\ Popped \in Seq(Package)
          /\ Len(Popped) = IF 1 <= n - 1 THEN n - 1 - 1 + 1 ELSE 0
          /\ \A i \in 1 .. n - 1 - 1 + 1 : Popped[i] = loading[1 + i - 1]
      BY <1>1, <2>1, SubSeqProperties DEF Popped
    <2> DEFINE m == Len(Popped)
    <2>3. m = n - 1
      <3>1. m = IF 1 <= n - 1 THEN n - 1 - 1 + 1 ELSE 0
        BY <2>2
      <3> HIDE DEF m, n
      <3> QED
        BY <1>1, <3>1
    <2>4. ASSUME NEW i \in 1 .. n - 1 PROVE Popped[i] = loading[i]
      <3>1. i \in 1 .. n - 1 - 1 + 1 /\ 1 + i - 1 = i
        BY <1>1
      <3> QED
        BY <2>2, <3>1
    <2> QED
      BY <2>2, <2>3, <2>4
  <1>3. DOMAIN Popped = 1 .. n - 1
    BY <1>2, SequenceFacts
  <1> HIDE DEF n
  <1>4. \A i \in DOMAIN loading : i \in DOMAIN Popped \/ i = n
    BY <1>1, <1>3
  <1>5. DOMAIN Popped \subseteq DOMAIN loading /\ n \in DOMAIN loading
    BY <1>1, <1>3
  <1>6. \A i \in DOMAIN Popped : Popped[i] = loading[i]
    BY <1>2, <1>3
  <1>7. Elements(loading) = Elements(Popped) \union {loading[n]}
    BY <1>4, <1>5, <1>6 DEF Elements
  <1> QED
    BY <1>2, <1>7 DEF n, Top

-----------------------------------------------------------------------------
(* The invariant *)

LEMMA InitInvariant == Init => Invariant
  <1> SUFFICES ASSUME Init PROVE Invariant
    OBVIOUS
  <1>1. <<>> \in Seq(Package) /\ Len(<<>>) = 0 /\ DOMAIN <<>> = {} /\ Elements(<<>>) = {}
    BY EmptySeq DEF Elements
  <1>2. TypeOK
    BY <1>1 DEF TypeOK, Init
  <1>3. CollectedIsPrefix /\ Untouched /\ MergedIsGraph
    BY <1>1 DEF Init, CollectedIsPrefix, Untouched, MergedIsGraph
  <1>4. StackInvariant /\ StackIsPath
    BY <1>1 DEF Init, StackInvariant, StackIsPath
  <1>5. EachLoadedOnce /\ DependenciesFirst /\ CycleIsReal
    BY <1>1 DEF Init, EachLoadedOnce, DependenciesFirst, CycleIsReal
  <1> QED
    BY <1>2, <1>3, <1>4, <1>5 DEF Invariant

\* The type invariant of each variable by itself.
LEMMA TypeFacts ==
  ASSUME TypeOK
  PROVE  /\ loading \in Seq(Package) /\ graph \in Seq(Package) /\ merged \subseteq Package
         /\ \A p \in Package : imports[p] \in Seq(Package) /\ direct[p] \in Seq(Package)
         /\ \A p \in Package : Len(imports[p]) \in Nat /\ Len(direct[p]) \in Nat
         /\ DOMAIN imports = Package /\ DOMAIN direct = Package
         /\ DOMAIN loading = 1 .. Len(loading) /\ Len(loading) \in Nat
         /\ DOMAIN graph = 1 .. Len(graph) /\ Len(graph) \in Nat
         /\ \A i \in DOMAIN loading : loading[i] \in Package
         /\ \A i \in DOMAIN graph : graph[i] \in Package
  <1>1. /\ loading \in Seq(Package) /\ graph \in Seq(Package) /\ merged \subseteq Package
        /\ imports \in [Package -> File \union {<<>>}]
        /\ direct \in [Package -> Seq(Package)]
    BY DEF TypeOK
  <1>2. File \union {<<>>} \subseteq Seq(Package)
    BY EmptySeq, ModuleLoaderAssumption
  <1>3. \A p \in Package : imports[p] \in Seq(Package) /\ direct[p] \in Seq(Package)
    BY <1>1, <1>2
  <1>4. \A p \in Package : Len(imports[p]) \in Nat /\ Len(direct[p]) \in Nat
    BY <1>3, LenProperties
  <1>5. DOMAIN loading = 1 .. Len(loading) /\ Len(loading) \in Nat
    BY <1>1, LenProperties
  <1>6. DOMAIN graph = 1 .. Len(graph) /\ Len(graph) \in Nat
    BY <1>1, LenProperties
  <1>7. \A i \in DOMAIN loading : loading[i] \in Package
    BY <1>1, <1>5, ElementOfSeq
  <1>8. \A i \in DOMAIN graph : graph[i] \in Package
    BY <1>1, <1>6, ElementOfSeq
  <1> QED
    BY <1>1, <1>3, <1>4, <1>5, <1>6, <1>7, <1>8

\* Between two files the innermost LoadResolved has a next import.
LEMMA ImportFacts ==
  ASSUME TypeOK, AtImport
  PROVE  /\ Len(loading) \in Nat /\ Len(loading) # 0
         /\ Top \in Package /\ Top \in Elements(loading)
         /\ Len(direct[Top]) \in Nat /\ Len(direct[Top]) + 1 \in 1 .. Len(imports[Top])
         /\ Import \in Package /\ Import \in Elements(imports[Top])
         /\ Import = imports[Top][Len(direct[Top]) + 1]
  <1>1. /\ loading \in Seq(Package) /\ loading # <<>>
        /\ Len(loading) \in Nat /\ DOMAIN loading = 1 .. Len(loading)
    BY TypeFacts DEF AtImport
  <1>2. Len(loading) # 0
    BY <1>1, SequenceFacts
  <1>3. Len(loading) \in DOMAIN loading
    BY <1>1, <1>2
  <1>4. Top \in Package /\ Top \in Elements(loading)
    BY <1>3, TypeFacts DEF Top, Elements
  <1>5. /\ imports[Top] \in Seq(Package)
        /\ Len(imports[Top]) \in Nat /\ Len(direct[Top]) \in Nat
    BY <1>4, TypeFacts
  <1>6. Len(direct[Top]) < Len(imports[Top])
    BY DEF AtImport, MoreImports
  <1>7. Len(direct[Top]) + 1 \in 1 .. Len(imports[Top])
    BY <1>5, <1>6
  <1>8. DOMAIN imports[Top] = 1 .. Len(imports[Top])
    BY <1>5, LenProperties
  <1>9. Import \in Package /\ Import \in Elements(imports[Top])
    BY <1>5, <1>7, <1>8, ElementOfSeq DEF Import, Elements
  <1> QED
    BY <1>1, <1>2, <1>4, <1>5, <1>7, <1>9 DEF Import

\* direct.push_back(resolved->path) changes the one list, at its end.
LEMMA CollectedFacts ==
  ASSUME TypeOK, AtImport, direct' = Collected
  PROVE  /\ direct' \in [Package -> Seq(Package)]
         /\ \A p \in Package : p # Top => direct'[p] = direct[p]
         /\ Len(direct'[Top]) = Len(direct[Top]) + 1
         /\ \A k \in 1 .. Len(direct[Top]) : direct'[Top][k] = direct[Top][k]
         /\ direct'[Top][Len(direct[Top]) + 1] = Import
  <1>1. Top \in Package /\ Import \in Package
    BY ImportFacts
  <1>2. direct \in [Package -> Seq(Package)]
    BY DEF TypeOK
  <1> DEFINE t == Top
             q == Import
  <1>3. direct' = [direct EXCEPT ![t] = Append(direct[t], q)]
    BY DEF Collected
  <1>4. /\ Append(direct[t], q) \in Seq(Package)
        /\ Len(Append(direct[t], q)) = Len(direct[t]) + 1
        /\ \A k \in 1 .. Len(direct[t]) : Append(direct[t], q)[k] = direct[t][k]
        /\ Append(direct[t], q)[Len(direct[t]) + 1] = q
    BY <1>1, <1>2, AppendFacts
  <1>5. t \in Package /\ q \in Package
    BY <1>1
  <1> HIDE DEF t, q
  <1>6. direct' \in [Package -> Seq(Package)]
    BY <1>2, <1>3, <1>4, <1>5
  <1>7. \A p \in Package : p # t => direct'[p] = direct[p]
    BY <1>2, <1>3
  <1>8. direct'[t] = Append(direct[t], q)
    BY <1>2, <1>3, <1>5
  <1> QED
    BY <1>4, <1>6, <1>7, <1>8 DEF t, q

\* However a loop over imports goes on, the collected part stays a prefix.
LEMMA CollectedStaysPrefix ==
  ASSUME TypeOK, CollectedIsPrefix, AtImport, direct' = Collected, imports' = imports
  PROVE  CollectedIsPrefix'
  <1>1. SUFFICES ASSUME NEW p \in Package
                 PROVE  /\ Len(direct'[p]) <= Len(imports[p])
                        /\ \A k \in 1 .. Len(direct'[p]) : direct'[p][k] = imports[p][k]
    BY DEF CollectedIsPrefix
  <1>2. CASE p # Top
    BY <1>2, CollectedFacts DEF CollectedIsPrefix
  <1>3. CASE p = Top
    <2> DEFINE n == Len(direct[p])
    <2>1. n \in Nat /\ n + 1 \in 1 .. Len(imports[p]) /\ Len(imports[p]) \in Nat
      BY <1>3, ImportFacts, TypeFacts
    <2>2. /\ Len(direct'[p]) = n + 1
          /\ \A k \in 1 .. n : direct'[p][k] = direct[p][k]
          /\ direct'[p][n + 1] = imports[p][n + 1]
      BY <1>3, CollectedFacts, ImportFacts
    <2>3. \A k \in 1 .. n : direct[p][k] = imports[p][k]
      BY DEF CollectedIsPrefix
    <2> HIDE DEF n
    <2>4. \A k \in 1 .. n + 1 : k \in 1 .. n \/ k = n + 1
      BY <2>1
    <2>5. \A k \in 1 .. n + 1 : direct'[p][k] = imports[p][k]
      BY <2>2, <2>3, <2>4
    <2>6. n + 1 <= Len(imports[p])
      BY <2>1
    <2> QED
      BY <2>2, <2>5, <2>6
  <1> QED
    BY <1>2, <1>3

LEMMA SkipMergedPreserves == Invariant /\ SkipMerged => Invariant'
  <1> SUFFICES ASSUME Invariant, SkipMerged PROVE Invariant'
    OBVIOUS
  <1>1. /\ AtImport /\ Import \in merged /\ direct' = Collected /\ Running
        /\ UNCHANGED <<loading, merged, imports, graph, disk, written, outcome>>
    BY DEF SkipMerged, IsMerged, AtImport
  <1>2. /\ TypeOK /\ CollectedIsPrefix /\ Untouched /\ MergedIsGraph
        /\ StackInvariant /\ StackIsPath /\ EachLoadedOnce /\ DependenciesFirst
    BY DEF Invariant
  <1>3. TypeOK'
    BY <1>1, <1>2, CollectedFacts DEF TypeOK
  <1>4. CollectedIsPrefix'
    BY <1>1, <1>2, CollectedStaysPrefix
  <1>5. Untouched'
    <2>1. \A p \in Package : p \notin Elements(loading) => direct'[p] = direct[p]
      BY <1>1, <1>2, CollectedFacts, ImportFacts
    <2> QED
      BY <1>1, <1>2, <2>1 DEF Untouched, Elements
  <1>6. MergedIsGraph' /\ StackIsPath' /\ EachLoadedOnce' /\ DependenciesFirst'
    BY <1>1, <1>2 DEF MergedIsGraph, StackIsPath, EachLoadedOnce, DependenciesFirst, Elements
  <1>7. StackInvariant'
    <2>1. SUFFICES ASSUME NEW i \in 1 .. Len(loading), NEW k \in 1 .. Len(direct'[loading[i]])
                   PROVE  \/ direct'[loading[i]][k] \in merged
                          \/ i < Len(loading) /\ direct'[loading[i]][k] = loading[i + 1]
      BY <1>1 DEF StackInvariant
    <2>2. loading[i] \in Package
      BY <1>2, TypeFacts
    <2>3. \A j \in 1 .. Len(direct[loading[i]]) :
            \/ direct[loading[i]][j] \in merged
            \/ i < Len(loading) /\ direct[loading[i]][j] = loading[i + 1]
      BY <1>1, <1>2 DEF StackInvariant
    <2>4. CASE loading[i] # Top
      BY <1>1, <1>2, <2>2, <2>3, <2>4, CollectedFacts
    <2>5. CASE loading[i] = Top
      <3>1. Len(direct'[Top]) = Len(direct[Top]) + 1 /\ Len(direct[Top]) \in Nat
        BY <1>1, <1>2, CollectedFacts, ImportFacts
      <3>2. k \in 1 .. Len(direct[Top]) \/ k = Len(direct[Top]) + 1
        BY <2>5, <3>1
      <3> QED
        BY <1>1, <1>2, <2>3, <2>5, <3>2, CollectedFacts
    <2> QED
      BY <2>4, <2>5
  <1>8. CycleIsReal'
    BY <1>1 DEF CycleIsReal, Running
  <1> QED
    BY <1>3, <1>4, <1>5, <1>6, <1>7, <1>8 DEF Invariant

LEMMA CycleFoundPreserves == Invariant /\ CycleFound => Invariant'
  <1> SUFFICES ASSUME Invariant, CycleFound PROVE Invariant'
    OBVIOUS
  <1>1. /\ AtImport /\ Import \in Elements(loading) /\ direct' = Collected
        /\ outcome' = "cycle"
        /\ UNCHANGED <<loading, merged, imports, graph, disk, written>>
    BY DEF CycleFound, ClosesCycle
  <1>2. /\ TypeOK /\ CollectedIsPrefix /\ Untouched /\ MergedIsGraph
        /\ StackIsPath /\ EachLoadedOnce /\ DependenciesFirst
    BY DEF Invariant
  <1>3. TypeOK'
    BY <1>1, <1>2, CollectedFacts DEF TypeOK
  <1>4. CollectedIsPrefix'
    BY <1>1, <1>2, CollectedStaysPrefix
  <1>5. Untouched'
    <2>1. \A p \in Package : p \notin Elements(loading) => direct'[p] = direct[p]
      BY <1>1, <1>2, CollectedFacts, ImportFacts
    <2> QED
      BY <1>1, <1>2, <2>1 DEF Untouched, Elements
  <1>6. MergedIsGraph' /\ StackIsPath' /\ EachLoadedOnce' /\ DependenciesFirst'
    BY <1>1, <1>2 DEF MergedIsGraph, StackIsPath, EachLoadedOnce, DependenciesFirst, Elements
  <1>7. StackInvariant'
    BY <1>1 DEF StackInvariant, Running
  <1>8. CycleIsReal'
    <2>1. Top' = Top
      BY <1>1 DEF Top
    <2>2. direct'[Top][Len(direct'[Top])] = Import
      BY <1>1, <1>2, CollectedFacts
    <2>3. Import \in Elements(imports[Top])
      BY <1>1, <1>2, ImportFacts
    <2>4. \E d \in Elements(imports[Top]) : d \in Elements(loading)
             /\ d = direct'[Top][Len(direct'[Top])]
      BY <1>1, <2>2, <2>3
    <2>5. Elements(imports[Top])' = Elements(imports[Top]) /\ Elements(loading)' = Elements(loading)
      BY <1>1, <2>1 DEF Elements
    <2>6. StackIsPath'
      BY <1>6
    <2> QED
      BY <2>1, <2>4, <2>5, <2>6 DEF CycleIsReal, StackIsPath
  <1> QED
    BY <1>3, <1>4, <1>5, <1>6, <1>7, <1>8 DEF Invariant

\* Pushing a package that was never entered, whatever it imports, keeps the
\* parts of the invariant that do not depend on who imports it.
LEMMA EnterPreserves ==
  ASSUME TypeOK, EachLoadedOnce, DependenciesFirst, MergedIsGraph,
         NEW q \in Package, NEW file \in File, Enter(q, file),
         q \notin merged, q \notin Elements(loading),
         graph' = graph, merged' = merged
  PROVE  /\ loading' \in Seq(Package) /\ Elements(loading)' = Elements(loading) \union {q}
         /\ Len(loading') = Len(loading) + 1 /\ loading'[Len(loading) + 1] = q
         /\ \A i \in 1 .. Len(loading) : loading'[i] = loading[i] /\ loading[i] # q
         /\ imports' \in [Package -> File \union {<<>>}] /\ imports'[q] = file
         /\ \A p \in Package : p # q => imports'[p] = imports[p]
         /\ EachLoadedOnce' /\ DependenciesFirst' /\ MergedIsGraph'
  <1>1. /\ loading' \in Seq(Package) /\ Elements(loading)' = Elements(loading) \union {q}
        /\ Len(loading') = Len(loading) + 1 /\ loading'[Len(loading) + 1] = q
        /\ \A i \in 1 .. Len(loading) : loading'[i] = loading[i]
    <2>1. loading' = Append(loading, q) /\ loading \in Seq(Package)
      BY TypeFacts DEF Enter
    <2>2. Elements(loading)' = Elements(Append(loading, q))
      BY <2>1 DEF Elements
    <2> QED
      BY <2>1, <2>2, AppendFacts
  <1>2. Len(loading) \in Nat /\ DOMAIN loading = 1 .. Len(loading)
    BY TypeFacts
  <1>3. \A i \in 1 .. Len(loading) : loading[i] # q
    BY <1>2 DEF Elements
  <1>4. imports' = [imports EXCEPT ![q] = file] /\ imports \in [Package -> File \union {<<>>}]
    BY DEF Enter, TypeOK
  <1>5. /\ imports' \in [Package -> File \union {<<>>}] /\ imports'[q] = file
        /\ \A p \in Package : p # q => imports'[p] = imports[p]
    BY <1>4
  <1>6. \A i \in DOMAIN graph : graph[i] # q /\ graph[i] \in Package
    BY TypeFacts DEF MergedIsGraph, Elements
  <1>7. DependenciesFirst'
    <2>1. \A i \in DOMAIN graph : imports'[graph[i]] = imports[graph[i]]
      BY <1>5, <1>6
    <2>2. \A i \in DOMAIN graph : Elements(imports[graph[i]])' = Elements(imports[graph[i]])
      BY <2>1 DEF Elements
    <2> QED
      BY <2>2 DEF DependenciesFirst
  <1>8. EachLoadedOnce'
    <2>1. DOMAIN loading' = 1 .. Len(loading) + 1
      BY <1>1, LenProperties
    <2>2. \A i \in DOMAIN loading' :
            \/ i \in DOMAIN loading /\ loading'[i] = loading[i]
            \/ i = Len(loading) + 1 /\ loading'[i] = q
      BY <1>1, <1>2, <2>1
    <2>3. \A i \in DOMAIN loading : loading[i] # q
      BY <1>2, <1>3
    <2> QED
      BY <1>6, <2>2, <2>3 DEF EachLoadedOnce
  <1>9. MergedIsGraph'
    BY DEF MergedIsGraph, Elements
  <1> QED
    BY <1>1, <1>3, <1>5, <1>7, <1>8, <1>9

LEMMA OpenPreserves ==
  ASSUME NEW file \in File, Invariant, Open(file)
  PROVE  Invariant'
  <1>1. /\ loading = <<>> /\ graph = <<>> /\ Running /\ Enter(Entry, file)
        /\ UNCHANGED <<merged, direct, graph, disk, written, outcome>>
    BY DEF Open
  <1>2. /\ TypeOK /\ Untouched /\ MergedIsGraph /\ EachLoadedOnce /\ DependenciesFirst
    BY DEF Invariant
  <1>3. merged = {} /\ Elements(loading) = {} /\ Len(loading) = 0
    BY <1>1, <1>2, EmptySeq DEF MergedIsGraph, Elements
  <1>4. Entry \in Package
    BY ModuleLoaderAssumption
  <1>5. /\ loading' \in Seq(Package) /\ Elements(loading)' = {Entry}
        /\ Len(loading') = 1 /\ loading'[1] = Entry
        /\ imports' \in [Package -> File \union {<<>>}]
        /\ EachLoadedOnce' /\ DependenciesFirst' /\ MergedIsGraph'
    BY <1>1, <1>2, <1>3, <1>4, EnterPreserves
  <1>6. TypeOK'
    BY <1>1, <1>2, <1>5 DEF TypeOK
  <1>7. \A p \in Package : direct'[p] = <<>> /\ Len(direct'[p]) = 0
    BY <1>1, <1>2, <1>3, EmptySeq DEF Untouched
  <1>8. CollectedIsPrefix'
    <2>1. \A p \in Package : imports'[p] \in Seq(Package)
      BY <1>5, EmptySeq, ModuleLoaderAssumption
    <2>2. \A p \in Package : Len(imports'[p]) \in Nat
      BY <2>1, LenProperties
    <2> QED
      BY <1>7, <2>2 DEF CollectedIsPrefix
  <1>9. Untouched'
    BY <1>7 DEF Untouched
  <1>10. StackInvariant' /\ StackIsPath'
    BY <1>4, <1>5, <1>7 DEF StackInvariant, StackIsPath
  <1>11. CycleIsReal'
    BY <1>1 DEF CycleIsReal, Running
  <1> QED
    BY <1>5, <1>6, <1>8, <1>9, <1>10, <1>11 DEF Invariant

LEMMA DescendPreserves ==
  ASSUME NEW file \in File, Invariant, Descend(file)
  PROVE  Invariant'
  <1> DEFINE q == Import
             n == Len(loading)
  <1>1. /\ AtImport /\ q \notin merged /\ q \notin Elements(loading) /\ direct' = Collected
        /\ Enter(q, file) /\ Running
        /\ UNCHANGED <<merged, graph, disk, written, outcome>>
    BY DEF Descend, IsMerged, ClosesCycle, AtImport
  <1>2. /\ TypeOK /\ CollectedIsPrefix /\ Untouched /\ MergedIsGraph
        /\ StackInvariant /\ StackIsPath /\ EachLoadedOnce /\ DependenciesFirst
    BY DEF Invariant
  <1>3. /\ n \in Nat /\ n # 0 /\ q \in Package /\ Top \in Package
        /\ q # Top /\ q \in Elements(imports[Top]) /\ loading[n] = Top
    BY <1>1, <1>2, ImportFacts DEF Top
  <1>4. /\ loading' \in Seq(Package) /\ Elements(loading)' = Elements(loading) \union {q}
        /\ Len(loading') = n + 1 /\ loading'[n + 1] = q
        /\ \A i \in 1 .. n : loading'[i] = loading[i] /\ loading[i] # q
        /\ imports' \in [Package -> File \union {<<>>}] /\ imports'[q] = file
        /\ \A p \in Package : p # q => imports'[p] = imports[p]
        /\ EachLoadedOnce' /\ DependenciesFirst' /\ MergedIsGraph'
    BY <1>1, <1>2, <1>3, EnterPreserves
  <1>5. /\ direct' \in [Package -> Seq(Package)]
        /\ \A p \in Package : p # Top => direct'[p] = direct[p]
        /\ Len(direct'[Top]) = Len(direct[Top]) + 1 /\ Len(direct[Top]) \in Nat
        /\ \A k \in 1 .. Len(direct[Top]) : direct'[Top][k] = direct[Top][k]
        /\ direct'[Top][Len(direct[Top]) + 1] = q
    BY <1>1, <1>2, CollectedFacts, ImportFacts
  <1>6. direct'[q] = <<>> /\ Len(direct'[q]) = 0
    BY <1>1, <1>2, <1>3, <1>5, EmptySeq DEF Untouched
  <1>7. \A i \in 1 .. n : loading[i] \in Package
    BY <1>2, TypeFacts
  <1>8. \A i \in 1 .. n : i # n => loading[i] # Top
    <2>1. DOMAIN loading = 1 .. n /\ n \in 1 .. n
      BY <1>2, <1>3, TypeFacts
    <2> QED
      BY <1>2, <1>3, <2>1 DEF EachLoadedOnce
  <1> HIDE DEF q, n
  <1>9. TypeOK'
    BY <1>1, <1>2, <1>4, <1>5 DEF TypeOK
  <1>10. CollectedIsPrefix'
    <2>1. SUFFICES ASSUME NEW p \in Package
                   PROVE  /\ Len(direct'[p]) <= Len(imports'[p])
                          /\ \A k \in 1 .. Len(direct'[p]) : direct'[p][k] = imports'[p][k]
      BY DEF CollectedIsPrefix
    <2>2. CASE p = q
      <3>1. Len(imports'[q]) \in Nat
        <4>1. file \in Seq(Package)
          BY ModuleLoaderAssumption
        <4> QED
          BY <1>4, <4>1, LenProperties
      <3> QED
        BY <1>6, <2>2, <3>1
    <2>3. CASE p # q /\ p # Top
      <3>1. direct'[p] = direct[p] /\ imports'[p] = imports[p]
        BY <1>4, <1>5, <2>3
      <3> QED
        BY <1>2, <3>1 DEF CollectedIsPrefix
    <2>4. CASE p = Top
      <3> DEFINE m == Len(direct[Top])
      <3>1. m \in Nat /\ m + 1 \in 1 .. Len(imports[Top]) /\ Len(imports[Top]) \in Nat
        BY <1>1, <1>2, <1>3, ImportFacts, TypeFacts
      <3>2. imports'[Top] = imports[Top]
        BY <1>3, <1>4
      <3>3. /\ Len(direct'[Top]) = m + 1
            /\ \A k \in 1 .. m : direct'[Top][k] = direct[Top][k]
            /\ direct'[Top][m + 1] = imports[Top][m + 1]
        BY <1>1, <1>2, <1>5, ImportFacts DEF q
      <3>4. \A k \in 1 .. m : direct[Top][k] = imports[Top][k]
        BY <1>2, <1>3 DEF CollectedIsPrefix
      <3> HIDE DEF m
      <3>5. \A k \in 1 .. m + 1 : k \in 1 .. m \/ k = m + 1
        BY <3>1
      <3>6. \A k \in 1 .. m + 1 : direct'[Top][k] = imports[Top][k]
        BY <3>3, <3>4, <3>5
      <3>7. m + 1 <= Len(imports[Top])
        BY <3>1
      <3> QED
        BY <2>4, <3>2, <3>3, <3>6, <3>7
    <2> QED
      BY <2>2, <2>3, <2>4
  <1>11. Untouched'
    <2>1. SUFFICES ASSUME NEW p \in Package, p \notin merged, p \notin Elements(loading), p # q
                   PROVE  direct'[p] = <<>>
      BY <1>1, <1>4 DEF Untouched
    <2>2. p # Top
      BY <1>1, <1>2, <2>1, ImportFacts
    <2> QED
      BY <1>2, <1>5, <2>1, <2>2 DEF Untouched
  <1>12. StackInvariant'
    <2>1. SUFFICES ASSUME NEW i \in 1 .. n + 1, NEW k \in 1 .. Len(direct'[loading'[i]])
                   PROVE  \/ direct'[loading'[i]][k] \in merged
                          \/ i < n + 1 /\ direct'[loading'[i]][k] = loading'[i + 1]
      BY <1>1, <1>4 DEF StackInvariant
    <2>2. CASE i = n + 1
      BY <1>4, <1>6, <2>2
    <2>3. CASE i \in 1 .. n /\ i # n
      <3>1. direct'[loading'[i]] = direct[loading[i]] /\ loading'[i] = loading[i]
        BY <1>4, <1>5, <1>7, <1>8, <2>3
      <3>2. i + 1 \in 1 .. n /\ i < n + 1
        BY <1>3, <2>3
      <3>3. loading'[i + 1] = loading[i + 1]
        BY <1>4, <3>2
      <3>4. \/ direct[loading[i]][k] \in merged
            \/ direct[loading[i]][k] = loading[i + 1]
        BY <1>1, <1>2, <2>3, <3>1 DEF StackInvariant, n
      <3> QED
        BY <3>1, <3>2, <3>3, <3>4
    <2>4. CASE i = n
      <3>1. n \in 1 .. n /\ i < n + 1 /\ ~(n < n)
        BY <1>3, <2>4
      <3>2. loading'[i] = Top
        BY <1>3, <1>4, <2>4, <3>1
      <3>3. \A j \in 1 .. Len(direct[Top]) : direct[Top][j] \in merged
        BY <1>1, <1>2, <1>3, <3>1 DEF StackInvariant, n
      <3>4. k \in 1 .. Len(direct[Top]) \/ k = Len(direct[Top]) + 1
        BY <1>5, <3>2
      <3>5. direct'[Top][k] \in merged \/ direct'[Top][k] = q
        BY <1>5, <3>3, <3>4
      <3> QED
        BY <1>4, <2>4, <3>1, <3>2, <3>5
    <2>5. i = n + 1 \/ (i \in 1 .. n /\ i # n) \/ i = n
      BY <1>3
    <2> QED
      BY <2>2, <2>3, <2>4, <2>5
  <1>13. StackIsPath'
    <2>1. SUFFICES ASSUME NEW i \in 1 .. n
                   PROVE  loading'[i + 1] \in Elements(imports'[loading'[i]])
      <3>1. Len(loading') - 1 = n
        BY <1>3, <1>4
      <3> QED
        BY <3>1 DEF StackIsPath, Elements
    <2>2. imports'[loading'[i]] = imports[loading[i]]
      BY <1>4, <1>7
    <2>3. CASE i = n
      BY <1>3, <1>4, <2>2, <2>3
    <2>4. CASE i # n
      <3>1. i \in 1 .. n - 1 /\ i + 1 \in 1 .. n
        BY <1>3, <2>4
      <3>2. loading[i + 1] \in Elements(imports[loading[i]])
        BY <1>2, <3>1 DEF StackIsPath, n
      <3> QED
        BY <1>4, <2>2, <3>1, <3>2
    <2> QED
      BY <2>3, <2>4
  <1>14. CycleIsReal'
    BY <1>1 DEF CycleIsReal, Running
  <1> QED
    BY <1>4, <1>9, <1>10, <1>11, <1>12, <1>13, <1>14 DEF Invariant

\* A package that is finished imports nothing that is not merged.
LEMMA FinishedImports ==
  ASSUME TypeOK, CollectedIsPrefix, StackInvariant, Running, loading # <<>>, ~AtImport
  PROVE  /\ Top \in Package /\ loading[Len(loading)] = Top
         /\ Len(loading) \in 1 .. Len(loading) /\ Len(loading) \in Nat
         /\ Elements(imports[Top]) \subseteq merged
  <1> DEFINE n == Len(loading)
  <1>1. n \in Nat /\ n # 0 /\ DOMAIN loading = 1 .. n
    BY TypeFacts, SequenceFacts
  <1>2. n \in 1 .. n /\ ~(n < n)
    BY <1>1
  <1>3. Top \in Package /\ loading[n] = Top
    BY <1>1, <1>2, TypeFacts DEF Top
  <1>4. \A k \in 1 .. Len(direct[Top]) : direct[Top][k] \in merged
    BY <1>2, <1>3 DEF StackInvariant
  <1>5. /\ Len(direct[Top]) \in Nat /\ Len(imports[Top]) \in Nat
        /\ DOMAIN imports[Top] = 1 .. Len(imports[Top])
    BY <1>3, TypeFacts, LenProperties
  <1>6. /\ ~(Len(direct[Top]) < Len(imports[Top])) /\ Len(direct[Top]) <= Len(imports[Top])
        /\ \A k \in 1 .. Len(direct[Top]) : direct[Top][k] = imports[Top][k]
    BY <1>3 DEF AtImport, MoreImports, CollectedIsPrefix
  <1>7. Len(direct[Top]) = Len(imports[Top])
    BY <1>5, <1>6
  <1>8. Elements(imports[Top]) \subseteq merged
    BY <1>4, <1>5, <1>6, <1>7 DEF Elements
  <1> QED
    BY <1>1, <1>2, <1>3, <1>8

LEMMA FinishPreserves == Invariant /\ Finish => Invariant'
  <1> SUFFICES ASSUME Invariant, Finish PROVE Invariant'
    OBVIOUS
  <1> DEFINE n == Len(loading)
             g == Len(graph)
  <1>1. /\ Running /\ loading # <<>> /\ ~AtImport
        /\ graph' = Append(graph, Top) /\ merged' = merged \union {Top} /\ loading' = Popped
        /\ UNCHANGED <<imports, direct, disk, written, outcome>>
    BY DEF Finish, WithTop
  <1>2. /\ TypeOK /\ CollectedIsPrefix /\ Untouched /\ MergedIsGraph
        /\ StackInvariant /\ StackIsPath /\ EachLoadedOnce /\ DependenciesFirst
    BY DEF Invariant
  <1>3. /\ n \in Nat /\ n \in 1 .. n /\ Top \in Package /\ loading[n] = Top
        /\ Elements(imports[Top]) \subseteq merged
    BY <1>1, <1>2, FinishedImports
  <1>4. /\ loading' \in Seq(Package) /\ Len(loading') = n - 1
        /\ \A i \in 1 .. n - 1 : loading'[i] = loading[i]
        /\ Elements(loading) = Elements(Popped) \union {Top}
    BY <1>1, <1>2, TypeFacts, PoppedFacts
  <1>5. /\ graph' \in Seq(Package) /\ Len(graph') = g + 1 /\ g \in Nat
        /\ \A i \in 1 .. g : graph'[i] = graph[i]
        /\ graph'[g + 1] = Top
        /\ Elements(Append(graph, Top)) = Elements(graph) \union {Top}
    BY <1>1, <1>2, <1>3, TypeFacts, AppendFacts
  <1>6. /\ DOMAIN loading = 1 .. n /\ DOMAIN graph = 1 .. g
        /\ DOMAIN loading' = 1 .. n - 1 /\ DOMAIN graph' = 1 .. g + 1
    BY <1>2, <1>4, <1>5, TypeFacts, LenProperties
  <1> HIDE DEF n, g
  <1>7. TypeOK'
    <2>1. written = 0 \/ written < g
      BY <1>2 DEF TypeOK, g
    <2>2. written \in Nat /\ (written' = 0 \/ written' < Len(graph'))
      BY <1>1, <1>2, <1>5, <2>1 DEF TypeOK
    <2> QED
      BY <1>1, <1>2, <1>3, <1>4, <1>5, <2>2 DEF TypeOK
  <1>8. CollectedIsPrefix'
    BY <1>1, <1>2 DEF CollectedIsPrefix
  <1>9. Untouched'
    <2>1. Elements(loading)' = Elements(Popped)
      BY <1>1 DEF Elements
    <2> QED
      BY <1>1, <1>2, <1>4, <2>1 DEF Untouched
  <1>10. MergedIsGraph'
    <2>1. Elements(graph)' = Elements(Append(graph, Top))
      BY <1>1 DEF Elements
    <2> QED
      BY <1>1, <1>2, <1>5, <2>1 DEF MergedIsGraph
  <1>11. StackInvariant'
    <2>1. SUFFICES ASSUME NEW i \in 1 .. n - 1, NEW k \in 1 .. Len(direct[loading[i]])
                   PROVE  \/ direct[loading[i]][k] \in merged'
                          \/ i < n - 1 /\ direct[loading[i]][k] = loading'[i + 1]
      BY <1>1, <1>4 DEF StackInvariant
    <2>2. i \in 1 .. n /\ (i + 1 = n \/ (i < n - 1 /\ i + 1 \in 1 .. n - 1))
      BY <1>3
    <2>3. direct[loading[i]][k] \in merged \/ direct[loading[i]][k] = loading[i + 1]
      BY <1>1, <1>2, <2>2 DEF StackInvariant, n
    <2>4. CASE i + 1 = n
      BY <1>1, <1>3, <2>3, <2>4
    <2>5. CASE i < n - 1 /\ i + 1 \in 1 .. n - 1
      BY <1>1, <1>4, <2>3, <2>5
    <2> QED
      BY <2>2, <2>4, <2>5
  <1>12. StackIsPath'
    <2>1. SUFFICES ASSUME NEW i \in 1 .. n - 1 - 1
                   PROVE  loading'[i + 1] \in Elements(imports'[loading'[i]])
      BY <1>4 DEF StackIsPath, Elements
    <2>2. i \in 1 .. n - 1 /\ i + 1 \in 1 .. n - 1
      BY <1>3
    <2>3. loading[i + 1] \in Elements(imports[loading[i]])
      BY <1>2, <2>2 DEF StackIsPath, n
    <2> QED
      BY <1>1, <1>4, <2>2, <2>3
  <1>13. EachLoadedOnce'
    <2>1. \A i \in DOMAIN graph : graph[i] # Top
      BY <1>2, <1>3, <1>6 DEF EachLoadedOnce
    <2>2. \A i \in DOMAIN loading' : i \in DOMAIN loading /\ loading'[i] = loading[i] /\ i # n
      BY <1>3, <1>4, <1>6
    <2>3. \A i \in DOMAIN loading' : loading'[i] # Top
      BY <1>2, <1>3, <1>6, <2>2 DEF EachLoadedOnce
    <2>4. \A i \in DOMAIN graph' :
            \/ i \in DOMAIN graph /\ graph'[i] = graph[i]
            \/ i = g + 1 /\ graph'[i] = Top
      BY <1>5, <1>6
    <2> QED
      BY <1>2, <2>1, <2>2, <2>3, <2>4 DEF EachLoadedOnce
  <1>14. DependenciesFirst'
    <2>1. SUFFICES ASSUME NEW i \in 1 .. g + 1, NEW d \in Elements(imports'[graph'[i]])
                   PROVE  \E j \in 1 .. i - 1 : graph'[j] = d
      BY <1>6 DEF DependenciesFirst, Elements
    <2>2. CASE i = g + 1
      <3>1. d \in Elements(graph)
        BY <1>1, <1>2, <1>3, <1>5, <2>2 DEF MergedIsGraph
      <3>2. PICK j \in 1 .. g : graph[j] = d
        BY <1>6, <3>1 DEF Elements
      <3>3. j \in 1 .. i - 1
        BY <1>5, <2>2, <3>2
      <3> QED
        BY <1>5, <3>2, <3>3
    <2>3. CASE i \in 1 .. g
      <3>1. PICK j \in 1 .. i - 1 : graph[j] = d
        BY <1>1, <1>2, <1>5, <1>6, <2>3 DEF DependenciesFirst
      <3>2. j \in 1 .. g
        BY <1>5, <2>3, <3>1
      <3> QED
        BY <1>5, <3>1, <3>2
    <2>4. i = g + 1 \/ i \in 1 .. g
      BY <1>5
    <2> QED
      BY <2>2, <2>3, <2>4
  <1>15. CycleIsReal'
    BY <1>1 DEF CycleIsReal, Running
  <1> QED
    BY <1>7, <1>8, <1>9, <1>10, <1>11, <1>12, <1>13, <1>14, <1>15 DEF Invariant

\* main() changes none of the loader's state, and neither does a failure.
LEMMA MainPreserves ==
  ASSUME Invariant,
         OpenFails \/ ImportFails \/ GenerateFails \/ WriteHeader \/ WriteOutput
  PROVE  Invariant'
  <1>1. /\ UNCHANGED <<loading, merged, imports, direct, graph>>
        /\ outcome' = "cycle" => outcome = "cycle"
        /\ Running' => Running
    BY DEF OpenFails, ImportFails, GenerateFails, WriteHeader, WriteOutput, Running
  <1>2. TypeOK'
    <2>1. TypeOK
      BY DEF Invariant
    <2>2. CASE WriteHeader
      <3> DEFINE p == graph[written + 1]
      <3>1. /\ written \in Nat /\ written < Len(graph) - 1 /\ Len(graph) \in Nat
            /\ disk' = [disk EXCEPT ![HeaderFor[p]] = p] /\ written' = written + 1
            /\ outcome' = outcome
        BY <2>1, <2>2, TypeFacts DEF WriteHeader, ImportedCount, TypeOK
      <3>2. written + 1 \in 1 .. Len(graph) /\ written' \in Nat /\ written' < Len(graph)
        BY <3>1
      <3>3. p \in Package
        BY <2>1, <3>2, TypeFacts
      <3> HIDE DEF p
      <3>4. disk' \in [Header -> Package \union {None}]
        BY <2>1, <3>1, <3>3 DEF TypeOK
      <3> QED
        BY <1>1, <2>1, <3>1, <3>2, <3>4 DEF TypeOK
    <2>3. CASE OpenFails \/ ImportFails \/ GenerateFails \/ WriteOutput
      BY <1>1, <2>1, <2>3 DEF TypeOK, OpenFails, ImportFails, GenerateFails, WriteOutput
    <2> QED
      BY <2>2, <2>3
  <1>3. /\ CollectedIsPrefix' /\ Untouched' /\ MergedIsGraph' /\ StackIsPath'
        /\ EachLoadedOnce' /\ DependenciesFirst'
    BY <1>1 DEF Invariant, CollectedIsPrefix, Untouched, MergedIsGraph, StackIsPath,
                EachLoadedOnce, DependenciesFirst, Elements
  <1>4. StackInvariant'
    BY <1>1 DEF Invariant, StackInvariant
  <1>5. CycleIsReal'
    BY <1>1 DEF Invariant, CycleIsReal, Top, Elements
  <1> QED
    BY <1>2, <1>3, <1>4, <1>5 DEF Invariant

\* Stuttering.
LEMMA StutterPreserves == Invariant /\ UNCHANGED vars => Invariant'
  BY DEF Invariant, vars, TypeOK, CollectedIsPrefix, Untouched, MergedIsGraph, StackInvariant,
         StackIsPath, EachLoadedOnce, DependenciesFirst, CycleIsReal, Running, Top, Elements

-----------------------------------------------------------------------------
(* The theorems *)

\* The invariant holds in every state.
THEOREM InvariantHolds == Spec => []Invariant
  <1>1. Invariant /\ [Next]_vars => Invariant'
    <2> SUFFICES ASSUME Invariant, [Next]_vars PROVE Invariant'
      OBVIOUS
    <2>1. CASE \E file \in File : Open(file)
      BY <2>1, OpenPreserves
    <2>2. CASE \E file \in File : Descend(file)
      BY <2>2, DescendPreserves
    <2>3. CASE SkipMerged
      BY <2>3, SkipMergedPreserves
    <2>4. CASE CycleFound
      BY <2>4, CycleFoundPreserves
    <2>5. CASE Finish
      BY <2>5, FinishPreserves
    <2>6. CASE OpenFails \/ ImportFails \/ GenerateFails \/ WriteHeader \/ WriteOutput
      BY <2>6, MainPreserves
    <2>7. CASE UNCHANGED vars
      BY <2>7, StutterPreserves
    <2> QED
      BY <2>1, <2>2, <2>3, <2>4, <2>5, <2>6, <2>7 DEF Next, Work
  <1> QED
    BY InitInvariant, <1>1, PTL DEF Spec

\* LoadModuleGraph's result is in dependency order: what a file imports is
\* before it, for any import relation.
THEOREM GraphIsOrdered == Spec => []DependenciesFirst
  <1>1. Invariant => DependenciesFirst
    BY DEF Invariant
  <1> QED
    BY InvariantHolds, <1>1, PTL

\* No package is parsed twice or gets two headers, and an unfinished one is
\* not in the graph.
THEOREM NothingTwice == Spec => [](TypeOK /\ EachLoadedOnce)
  <1>1. Invariant => TypeOK /\ EachLoadedOnce
    BY DEF Invariant
  <1> QED
    BY InvariantHolds, <1>1, PTL

\* CycleChainMessage reports a cycle of the import relation, and nothing else.
THEOREM ReportedCycleIsOne == Spec => []CycleIsReal
  <1>1. Invariant => CycleIsReal
    BY DEF Invariant
  <1> QED
    BY InvariantHolds, <1>1, PTL

-----------------------------------------------------------------------------
(* What is on disk.  Nothing is written before the whole graph is loaded,  *)
(* then the headers of the first packages of the graph, each under its own *)
(* name; HeadersComplete is what DependenciesFirst makes of that.          *)

DiskInvariant ==
  /\ written > 0 => Loaded
  /\ \A h \in Header :
       disk[h] # None => \E i \in 1 .. written : graph[i] = disk[h] /\ HeaderFor[disk[h]] = h
  /\ \A i \in 1 .. written : disk[HeaderFor[graph[i]]] # None
  /\ outcome = "ok" => written >= Len(graph) - 1

LEMMA InitDisk == Init => DiskInvariant
  BY DEF Init, DiskInvariant, Loaded

\* As long as the loader runs, nothing is written.
LEMMA LoaderKeepsDisk ==
  ASSUME TypeOK, DiskInvariant, Running, loading # <<>> \/ graph = <<>>,
         UNCHANGED <<disk, written>>, outcome' # "ok"
  PROVE  DiskInvariant'
  <1>1. written \in Nat /\ ~Loaded
    BY DEF TypeOK, Loaded
  <1>2. written = 0
    BY <1>1 DEF DiskInvariant
  <1>3. \A i : i \notin 1 .. written
    BY <1>2
  <1>4. \A h \in Header : disk[h] = None
    BY <1>3 DEF DiskInvariant
  <1> QED
    BY <1>2, <1>3, <1>4 DEF DiskInvariant

LEMMA NextDisk ==
  ASSUME Invariant, DiskInvariant, [Next]_vars
  PROVE  DiskInvariant'
  <1>1. TypeOK /\ written \in Nat /\ Len(graph) \in Nat
    BY TypeFacts DEF Invariant, TypeOK
  <1>2. CASE WriteHeader
    <2> DEFINE p == graph[written + 1]
    <2>1. /\ Loaded /\ written < Len(graph) - 1
          /\ disk' = [disk EXCEPT ![HeaderFor[p]] = p] /\ written' = written + 1
          /\ UNCHANGED <<loading, graph>> /\ outcome = "running" /\ outcome' = "running"
      BY <1>2 DEF WriteHeader, ImportedCount, Running
    <2>2. written + 1 \in 1 .. Len(graph)
      BY <1>1, <2>1
    <2>3. p \in Package /\ p # None
      BY <1>1, <2>2, TypeFacts, ModuleLoaderAssumption
    <2>4. HeaderFor[p] \in Header /\ disk \in [Header -> Package \union {None}]
      BY <1>1, <2>3 DEF Header, TypeOK
    <2>5. Loaded'
      BY <2>1 DEF Loaded
    <2>6. ASSUME NEW h \in Header, disk'[h] # None
          PROVE  \E i \in 1 .. written' : graph'[i] = disk'[h] /\ HeaderFor[disk'[h]] = h
      <3>1. CASE h = HeaderFor[p]
        <4>1. written + 1 \in 1 .. written'
          BY <1>1, <2>1
        <4>2. disk'[h] = p
          BY <2>1, <2>4, <3>1
        <4> QED
          BY <2>1, <3>1, <4>1, <4>2
      <3>2. CASE h # HeaderFor[p]
        <4>1. disk'[h] = disk[h]
          BY <2>1, <2>4, <3>2
        <4>2. PICK i \in 1 .. written : graph[i] = disk[h] /\ HeaderFor[disk[h]] = h
          BY <2>6, <4>1 DEF DiskInvariant
        <4>3. i \in 1 .. written'
          BY <1>1, <2>1
        <4> QED
          BY <2>1, <4>1, <4>2, <4>3
      <3> QED
        BY <3>1, <3>2
    <2>7. ASSUME NEW i \in 1 .. written'
          PROVE  disk'[HeaderFor[graph'[i]]] # None
      <3>1. i \in 1 .. written \/ i = written + 1
        BY <1>1, <2>1
      <3>2. i \in 1 .. Len(graph)
        BY <1>1, <2>1, <3>1
      <3>3. HeaderFor[graph[i]] \in Header
        BY <1>1, <3>2, TypeFacts DEF Header
      <3>4. CASE i = written + 1
        BY <2>1, <2>3, <2>4, <3>4
      <3>5. CASE i \in 1 .. written
        <4>1. disk[HeaderFor[graph[i]]] # None
          BY <3>5 DEF DiskInvariant
        <4> QED
          BY <2>1, <2>3, <2>4, <3>3, <4>1
      <3> QED
        BY <3>1, <3>4, <3>5
    <2> QED
      BY <2>1, <2>5, <2>6, <2>7 DEF DiskInvariant
  <1>3. CASE WriteOutput
    <2>1. /\ UNCHANGED <<loading, graph, disk, written>>
          /\ written >= Len(graph) - 1
      BY <1>3 DEF WriteOutput, ImportedCount
    <2> QED
      BY <2>1 DEF DiskInvariant, Loaded
  <1>4. CASE GenerateFails \/ UNCHANGED vars
    <2>1. /\ UNCHANGED <<loading, graph, disk, written>>
          /\ outcome' = "ok" => outcome = "ok"
      BY <1>4 DEF GenerateFails, vars
    <2> QED
      BY <2>1 DEF DiskInvariant, Loaded
  <1>5. CASE \/ \E file \in File : Open(file) \/ Descend(file)
             \/ SkipMerged \/ CycleFound \/ Finish \/ OpenFails \/ ImportFails
    <2>1. /\ Running /\ (loading # <<>> \/ graph = <<>>)
          /\ UNCHANGED <<disk, written>> /\ outcome' # "ok"
      BY <1>5 DEF Open, Descend, SkipMerged, CycleFound, Finish, OpenFails, ImportFails,
                  AtImport, Running
    <2> QED
      BY <1>1, <2>1, LoaderKeepsDisk
  <1> QED
    BY <1>2, <1>3, <1>4, <1>5 DEF Next, Work

\* What a header of the graph includes was written before it.
LEMMA DiskIsComplete ==
  ASSUME Invariant, DiskInvariant
  PROVE  HeadersComplete
  <1>1. /\ TypeOK /\ CollectedIsPrefix /\ DependenciesFirst
        /\ written \in Nat /\ Len(graph) \in Nat /\ DOMAIN graph = 1 .. Len(graph)
        /\ written = 0 \/ written < Len(graph)
    BY TypeFacts DEF Invariant, TypeOK
  <1>2. ASSUME NEW h \in Header, disk[h] # None, NEW g \in Includes(disk[h])
        PROVE  disk[g] # None
    <2>1. PICK i \in 1 .. written : graph[i] = disk[h]
      BY <1>2 DEF DiskInvariant
    <2>2. i \in DOMAIN graph /\ graph[i] \in Package
      BY <1>1, TypeFacts
    <2>3. PICK d \in Elements(direct[graph[i]]) : g = HeaderFor[d]
      BY <1>2, <2>1 DEF Includes
    <2>4. d \in Elements(imports[graph[i]])
      <3> DEFINE p == graph[i]
      <3>1. /\ direct[p] \in Seq(Package) /\ imports[p] \in Seq(Package)
            /\ Len(direct[p]) <= Len(imports[p])
            /\ \A k \in 1 .. Len(direct[p]) : direct[p][k] = imports[p][k]
        BY <1>1, <2>2, TypeFacts DEF CollectedIsPrefix
      <3>2. /\ DOMAIN direct[p] = 1 .. Len(direct[p]) /\ Len(direct[p]) \in Nat
            /\ DOMAIN imports[p] = 1 .. Len(imports[p]) /\ Len(imports[p]) \in Nat
        BY <3>1, LenProperties
      <3>3. PICK k \in 1 .. Len(direct[p]) : d = direct[p][k]
        BY <3>2 DEF Elements
      <3>4. k \in DOMAIN imports[p]
        BY <3>1, <3>2
      <3> QED
        BY <3>1, <3>3, <3>4 DEF Elements
    <2>5. PICK j \in 1 .. i - 1 : graph[j] = d
      BY <1>1, <2>2, <2>4 DEF DependenciesFirst
    <2>6. j \in 1 .. written
      BY <1>1
    <2> QED
      BY <2>3, <2>5, <2>6 DEF DiskInvariant
  <1>3. ASSUME outcome = "ok", NEW p \in Imported
        PROVE  disk[HeaderFor[p]] # None
    <2>1. PICK i \in 1 .. Len(graph) - 1 : graph[i] = p
      BY DEF Imported
    <2>2. written >= Len(graph) - 1
      BY <1>3 DEF DiskInvariant
    <2>3. i \in 1 .. written
      BY <1>1, <2>2
    <2> QED
      BY <2>1, <2>3 DEF DiskInvariant
  <1>4. ASSUME outcome = "ok", NEW p \in Imported
        PROVE  \/ disk[HeaderFor[p]] = p
               \/ \E q \in Imported \ {p} :
                    HeaderFor[q] = HeaderFor[p] /\ disk[HeaderFor[p]] = q
    <2> DEFINE h == HeaderFor[p]
    <2>1. p \in Package
      BY <1>1, TypeFacts DEF Imported
    <2>2. h \in Header /\ disk[h] # None
      BY <1>3, <1>4, <2>1 DEF Header
    <2>3. PICK i \in 1 .. written : graph[i] = disk[h] /\ HeaderFor[disk[h]] = h
      BY <2>2 DEF DiskInvariant
    <2>4. i \in 1 .. Len(graph) - 1
      BY <1>1
    <2>5. disk[h] \in Imported
      BY <2>3, <2>4 DEF Imported
    <2> QED
      BY <2>3, <2>5
  <1>5. ASSUME outcome = "ok", NEW g \in Includes(Entry)
        PROVE  disk[g] # None
    <2>1. PICK d \in Imported : g = HeaderFor[d]
      BY DEF Includes
    <2> QED
      BY <1>3, <1>5, <2>1
  <1> QED
    BY <1>2, <1>4, <1>5 DEF HeadersComplete

\* Whatever header is on disk, so is all it includes, at every moment; and a run
\* that ends with 0 has written every imported package's header.
THEOREM OutputComplete == Spec => []OutputConsistent
  <1>1. Init => Invariant /\ DiskInvariant
    BY InitInvariant, InitDisk
  <1>2. Invariant /\ DiskInvariant /\ [Next]_vars => DiskInvariant'
    BY NextDisk
  <1>3. Invariant /\ DiskInvariant => OutputConsistent
    BY DiskIsComplete DEF OutputConsistent, Invariant
  <1> QED
    BY <1>1, <1>2, <1>3, InvariantHolds, PTL DEF Spec

=============================================================================
