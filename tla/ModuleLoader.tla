---------------------------- MODULE ModuleLoader ----------------------------
(***************************************************************************)
(* One run of the compiler driver: src/src/module_loader.cc loads the      *)
(* entry file and everything it imports, depth first, and main() of        *)
(* src/src/main.cc writes a header for each imported package and then the  *)
(* C++ file of the entry.                                                  *)
(*                                                                         *)
(* A package is its resolved path.  What a file imports is chosen when it  *)
(* is parsed; builtin imports, which LoadResolved skips, are not in the    *)
(* list.  The reasons for which a read, a parse, a resolution, an internal *)
(* check, a generation or an open can fail are not told apart.  disk is    *)
(* what this run has opened for writing: WriteFile does not check that the *)
(* text arrived.                                                           *)
(*                                                                         *)
(* Definitions named X_Fault are faulty variants of X that the             *)
(* specification does not use.                                             *)
(***************************************************************************)
EXTENDS Integers, Sequences

CONSTANTS
  Package,    \* the resolved paths
  Entry,      \* the path of the entry file
  File,       \* the import lists a parsed file can have
  HeaderFor,  \* GenFilenameFor: the name of each package's header
  None        \* a header this run has not written

ASSUME ModuleLoaderAssumption ==
  /\ Entry \in Package /\ None \notin Package
  /\ File \subseteq Seq(Package)
  /\ DOMAIN HeaderFor = Package

VARIABLES
  loading,    \* LoadState::loading
  merged,     \* LoadState::merged
  imports,    \* file.imports of each package, resolved
  direct,     \* LoadedFile::direct_resolved, as far as it is collected
  graph,      \* LoadedGraph
  disk,       \* whose text each header name holds
  written,    \* the index of the loop that writes headers
  outcome     \* how main() ended

vars == <<loading, merged, imports, direct, graph, disk, written, outcome>>

Elements(s) == {s[i] : i \in DOMAIN s}

Header == {HeaderFor[p] : p \in Package}

Running == outcome = "running"

-----------------------------------------------------------------------------
(* LoadModuleGraph and LoadResolved *)

Top == loading[Len(loading)]

\* The loop over file.imports of LoadResolved has one to do.
MoreImports_ButLast(p) == Len(direct[p]) + 1 < Len(imports[p])
MoreImports(p) == Len(direct[p]) < Len(imports[p])

AtImport == Running /\ loading # <<>> /\ MoreImports(Top)

Import == imports[Top][Len(direct[Top]) + 1]

IsMerged_Never(p) == FALSE
IsMerged(p) == p \in merged

Collected_OnlyLoaded == IF IsMerged(Import) THEN direct ELSE [direct EXCEPT ![Top] = Append(@, Import)]
Collected == [direct EXCEPT ![Top] = Append(@, Import)]

ClosesCycle_ByName(p) == \E q \in Elements(loading) : HeaderFor[q] = HeaderFor[p]
ClosesCycle(p) == p \in Elements(loading)

\* LoadResolved pushes the path and reads and parses the file.
Enter(p, file) ==
  /\ loading' = Append(loading, p)
  /\ imports' = [imports EXCEPT ![p] = file]

Open(file) ==
  /\ Running /\ loading = <<>> /\ graph = <<>>
  /\ Enter(Entry, file)
  /\ UNCHANGED <<merged, direct, graph, disk, written, outcome>>

OpenFails ==
  /\ Running /\ loading = <<>> /\ graph = <<>>
  /\ outcome' = "failed"
  /\ UNCHANGED <<loading, merged, imports, direct, graph, disk, written>>

SkipMerged ==
  /\ AtImport /\ IsMerged(Import)
  /\ direct' = Collected
  /\ UNCHANGED <<loading, merged, imports, graph, disk, written, outcome>>

CycleFound ==
  /\ AtImport /\ ~IsMerged(Import) /\ ClosesCycle(Import)
  /\ direct' = Collected
  /\ outcome' = "cycle"
  /\ UNCHANGED <<loading, merged, imports, graph, disk, written>>

Descend(file) ==
  /\ AtImport /\ ~IsMerged(Import) /\ ~ClosesCycle(Import)
  /\ direct' = Collected
  /\ Enter(Import, file)
  /\ UNCHANGED <<merged, graph, disk, written, outcome>>

\* The import does not resolve or is internal to others, or its file cannot
\* be read or parsed.
ImportFails ==
  /\ AtImport
  /\ outcome' = "failed"
  /\ UNCHANGED <<loading, merged, imports, direct, graph, disk, written>>

WithTop == Append(graph, Top)

Popped == SubSeq(loading, 1, Len(loading) - 1)

Finish ==
  /\ Running /\ loading # <<>> /\ ~AtImport
  /\ graph' = WithTop
  /\ merged' = merged \union {Top}
  /\ loading' = Popped
  /\ UNCHANGED <<imports, direct, disk, written, outcome>>

-----------------------------------------------------------------------------
(* main() *)

Loaded == loading = <<>> /\ graph # <<>>

\* The packages the loops with i + 1 < graph.size() visit.
ImportedCount_OneLess == Len(graph) - 2
ImportedCount == Len(graph) - 1

\* path_to_hdr's keys.
Imported == {graph[i] : i \in 1 .. Len(graph) - 1}

\* DirectHeaders: what the text of p includes.
Includes(p) == {HeaderFor[d] : d \in Elements(direct[p]) \intersect Imported}

WriteHeader ==
  /\ Running /\ Loaded /\ written < ImportedCount
  /\ LET p == graph[written + 1] IN disk' = [disk EXCEPT ![HeaderFor[p]] = p]
  /\ written' = written + 1
  /\ UNCHANGED <<loading, merged, imports, direct, graph, outcome>>

WriteOutput ==
  /\ Running /\ Loaded /\ written >= ImportedCount
  /\ outcome' = "ok"
  /\ UNCHANGED <<loading, merged, imports, direct, graph, disk, written>>

\* An imported package is package main, GenerateCpp throws or a file cannot
\* be opened for writing: the headers written so far stay.
GenerateFails ==
  /\ Running /\ Loaded
  /\ outcome' = "failed"
  /\ UNCHANGED <<loading, merged, imports, direct, graph, disk, written>>

Init ==
  /\ loading = <<>> /\ merged = {} /\ graph = <<>>
  /\ imports = [p \in Package |-> <<>>]
  /\ direct = [p \in Package |-> <<>>]
  /\ disk = [h \in Header |-> None]
  /\ written = 0
  /\ outcome = "running"

Work ==
  \/ \E file \in File : Open(file) \/ Descend(file)
  \/ SkipMerged \/ CycleFound \/ Finish
  \/ WriteHeader \/ WriteOutput

Next == Work \/ OpenFails \/ ImportFails \/ GenerateFails

\* main() is one thread that runs until it returns.  Fairness is of Work, as
\* no failure has to happen.
Spec == Init /\ [][Next]_vars /\ WF_vars(Work)

-----------------------------------------------------------------------------
(* Properties *)

\* The values that LoadState, LoadedGraph and main()'s locals can have.
TypeOK ==
  /\ loading \in Seq(Package) /\ graph \in Seq(Package) /\ merged \subseteq Package
  /\ imports \in [Package -> File \union {<<>>}]
  /\ direct \in [Package -> Seq(Package)]
  /\ disk \in [Header -> Package \union {None}]
  /\ written \in Nat /\ (written = 0 \/ written < Len(graph))
  /\ outcome \in {"running", "ok", "cycle", "failed"}

\* graph is in dependency order: whatever a loaded file imports is before it,
\* which is what lets main() write headers, and the generated code use types,
\* in that order.
DependenciesFirst ==
  \A i \in DOMAIN graph :
    \A d \in Elements(imports[graph[i]]) : \E j \in 1 .. i - 1 : graph[j] = d

\* However many files import a package it is parsed and put in graph once: no
\* two headers define the same names.
EachLoadedOnce ==
  /\ \A i, j \in DOMAIN graph : i # j => graph[i] # graph[j]
  /\ \A i, j \in DOMAIN loading : i # j => loading[i] # loading[j]
  /\ \A i \in DOMAIN graph, j \in DOMAIN loading : graph[i] # loading[j]

\* "import cycle" is never reported of a diamond: CycleChainMessage names a
\* path along imports that comes back to one of its own files.
CycleIsReal ==
  outcome = "cycle" =>
    /\ \A i \in 1 .. Len(loading) - 1 : loading[i + 1] \in Elements(imports[loading[i]])
    /\ \E d \in Elements(imports[Top]) : d \in Elements(loading)
       /\ d = direct[Top][Len(direct[Top])]

\* Whatever a header on disk includes is on disk too, at every moment, also
\* after a run that failed half way.  When main() returns 0 so is all the
\* output includes, and each imported package's header holds that package
\* unless another package of the graph has the same name.
HeadersComplete ==
  /\ \A h \in Header : disk[h] # None => \A g \in Includes(disk[h]) : disk[g] # None
  /\ outcome = "ok" =>
       /\ \A g \in Includes(Entry) : disk[g] # None
       /\ \A p \in Imported :
            \/ disk[HeaderFor[p]] = p
            \/ \E q \in Imported \ {p} :
                 HeaderFor[q] = HeaderFor[p] /\ disk[HeaderFor[p]] = q

\* What the loader and main() hold are values of their types, and the headers on
\* disk are closed under inclusion.
OutputConsistent == TypeOK /\ HeadersComplete

\* Whatever files import each other, main() returns.
Terminates == <>(outcome # "running")

=============================================================================
