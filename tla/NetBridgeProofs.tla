--------------------------- MODULE NetBridgeProofs ---------------------------
(***************************************************************************)
(* For any number of requests, descriptors and idle pumps: every request   *)
(* is in one place and polls the socket it was made on, and the bridge     *)
(* implements AsyncBridge, so each id is completed and handed out once.    *)
(*                                                                         *)
(* RequestsConsistent is not inductive.  That a failing connect closes     *)
(* nobody else's descriptor, and that a closed control connection takes no *)
(* guest's request with it, need Parking: handles that the guest does not  *)
(* know have nothing else parked on them.  That the host's replies name    *)
(* only requests that wait for it needs HostOwesWaiting.                   *)
(***************************************************************************)
EXTENDS NetBridge, SequenceTheorems, FiniteSetTheorems, WellFoundedInduction, TLAPS

\* What a list of completions names: requests, and handles for the guest.
Ids(c) == {c[i].id : i \in 1..Len(c)}
Handles(c) == {c[i].handle : i \in 1..Len(c)} \ {0}
Distinct(c) ==
  \A i, j \in 1..Len(c) : c[i].id = c[j].id /\ c[i].id # kHostReadId => i = j

Held == Ids(completions) \ {kHostReadId}
Guests == DOMAIN pending \ {kHostReadId}

\* RequestInOnePlace, with sets for its counts.
Places ==
  /\ nextId \in 0..MaxReq /\ completions \in Seq(Completion)
  /\ Distinct(completions)
  /\ 1..nextId = Held \union Guests \union hostWait \union taken
  /\ Held \intersect Guests = {} /\ Held \intersect hostWait = {} /\ Held \intersect taken = {}
  /\ Guests \intersect hostWait = {} /\ Guests \intersect taken = {}
  /\ hostWait \intersect taken = {}

Sockets ==
  /\ nextHandle \in Nat
  /\ DOMAIN socks \subseteq 1..nextHandle /\ Range(socks) \subseteq 1..MaxFd
  /\ hostFd \in 0..MaxFd /\ hostHandle \in 0..nextHandle
  /\ HandlesMatchDescriptors

\* The handles that the guest knows or is about to know.
Public == told \union Handles(completions)

\* The guest does not hear of the control connection's handle, nor of the handle of
\* a connect before it is done, so nothing else is parked on either.
Private ==
  /\ hostHandle \notin Public
  /\ \A id \in Guests : pending[id].handle # hostHandle
  /\ \A id \in Guests : pending[id].op = "connect" =>
       /\ pending[id].handle \notin Public
       /\ \A j \in DOMAIN pending \ {id} : pending[j].handle # pending[id].handle

\* A sentinel whose handle still exists reads the present control connection.
SentinelReadsHost ==
  /\ \A id \in DOMAIN pending : pending[id].op = "hostread" <=> id = kHostReadId
  /\ kHostReadId \in DOMAIN pending /\ pending[kHostReadId].handle \in DOMAIN socks
       => hostFd # 0 /\ pending[kHostReadId].handle = hostHandle

Parking ==
  /\ DOMAIN pending \subseteq Id \union {kHostReadId}
  /\ \A id \in DOMAIN pending : pending[id] \in Parked /\ pending[id].handle <= nextHandle
  /\ Public \subseteq 1..nextHandle
  /\ ParkedOnOwnSocket /\ Private /\ SentinelReadsHost

\* The host answers on the present connection only what waits for it.
HostOwesWaiting == owed \subseteq Id /\ (hostFd # 0 => owed \subseteq hostWait)

\* Of the variables that pump() and its callers use among themselves.
PumpType ==
  /\ mode \in {"guest", "poll", "wait", "pump"}
  /\ polled \in BOOLEAN
  /\ toResume \subseteq Id \union {kHostReadId}
  /\ before \in Nat /\ idle \in 0..MaxIdle

Core == Places /\ Sockets /\ Parking /\ HostOwesWaiting
Invariant == Core /\ PumpType

\* What a step that hands nothing out does to the requests.
Keeps == Core' /\ Held \subseteq Held' /\ UNCHANGED taken

-----------------------------------------------------------------------------
(* Lists of completions *)

LEMMA CompletionsTyped ==
  ASSUME NEW c \in Seq(Completion)
  PROVE  /\ Len(c) \in Nat
         /\ \A i \in 1..Len(c) : c[i] \in Completion
         /\ Ids(c) \subseteq Id \union {kHostReadId} /\ Handles(c) \subseteq Nat \ {0}
  <1>1. Len(c) \in Nat /\ \A i \in 1..Len(c) : c[i] \in Completion
    BY LenProperties, ElementOfSeq
  <1>2. \A i \in 1..Len(c) : c[i].id \in Id \union {kHostReadId} /\ c[i].handle \in Nat
    BY <1>1 DEF Completion
  <1> QED
    BY <1>1, <1>2 DEF Ids, Handles

LEMMA Concatenated ==
  ASSUME NEW c \in Seq(Completion), NEW d \in Seq(Completion), Distinct(c), Distinct(d),
         \A id \in Ids(c) : id \in Ids(d) => id = kHostReadId
  PROVE  /\ c \o d \in Seq(Completion) /\ Distinct(c \o d)
         /\ Ids(c \o d) = Ids(c) \union Ids(d)
         /\ Handles(c \o d) = Handles(c) \union Handles(d)
  <1> DEFINE e == c \o d
  <1>1. /\ e \in Seq(Completion) /\ Len(c) \in Nat /\ Len(d) \in Nat
        /\ Len(e) = Len(c) + Len(d)
        /\ \A i \in 1..Len(e) : e[i] = IF i <= Len(c) THEN c[i] ELSE d[i - Len(c)]
    BY ConcatProperties, LenProperties
  <1> HIDE DEF e
  <1>2. \A i \in 1..Len(e) : \/ i \in 1..Len(c) /\ e[i] = c[i]
                             \/ i - Len(c) \in 1..Len(d) /\ e[i] = d[i - Len(c)]
    BY <1>1
  <1>3. \A i \in 1..Len(c) : i \in 1..Len(e) /\ e[i] = c[i]
    BY <1>1
  <1>4. ASSUME NEW i \in 1..Len(d) PROVE \E j \in 1..Len(e) : e[j] = d[i]
    <2>1. /\ Len(c) + i \in 1..Len(e) /\ ~(Len(c) + i <= Len(c))
          /\ (Len(c) + i) - Len(c) = i
      BY <1>1
    <2>2. e[Len(c) + i] = d[i]
      BY <1>1, <2>1
    <2> QED
      BY <2>1, <2>2
  <1>5. Ids(e) = Ids(c) \union Ids(d)
    <2>1. Ids(e) \subseteq Ids(c) \union Ids(d)
      BY <1>2 DEF Ids
    <2>2. Ids(c) \subseteq Ids(e)
      BY <1>3 DEF Ids
    <2>3. Ids(d) \subseteq Ids(e)
      BY <1>4 DEF Ids
    <2> QED
      BY <2>1, <2>2, <2>3
  <1>6. Handles(e) = Handles(c) \union Handles(d)
    <2>1. Handles(e) \subseteq Handles(c) \union Handles(d)
      BY <1>2 DEF Handles
    <2>2. Handles(c) \subseteq Handles(e)
      BY <1>3 DEF Handles
    <2>3. Handles(d) \subseteq Handles(e)
      BY <1>4 DEF Handles
    <2> QED
      BY <2>1, <2>2, <2>3
  <1>7. ASSUME NEW i \in 1..Len(e), NEW j \in 1..Len(e), e[i].id = e[j].id, e[i].id # kHostReadId
        PROVE  i = j
    <2>1. CASE i \in 1..Len(c) /\ e[i] = c[i] /\ j \in 1..Len(c) /\ e[j] = c[j]
      BY <1>7, <2>1 DEF Distinct
    <2>2. CASE /\ i - Len(c) \in 1..Len(d) /\ e[i] = d[i - Len(c)]
               /\ j - Len(c) \in 1..Len(d) /\ e[j] = d[j - Len(c)]
      <3>1. i - Len(c) = j - Len(c)
        BY <1>7, <2>2 DEF Distinct
      <3> QED
        BY <1>1, <3>1
    <2>3. CASE i \in 1..Len(c) /\ e[i] = c[i] /\ j - Len(c) \in 1..Len(d) /\ e[j] = d[j - Len(c)]
      BY <1>7, <2>3 DEF Ids
    <2>4. CASE j \in 1..Len(c) /\ e[j] = c[j] /\ i - Len(c) \in 1..Len(d) /\ e[i] = d[i - Len(c)]
      BY <1>7, <2>4 DEF Ids
    <2> QED
      BY <1>2, <2>1, <2>2, <2>3, <2>4
  <1> QED
    BY <1>1, <1>5, <1>6, <1>7 DEF Distinct, e

LEMMA Appended ==
  ASSUME NEW c \in Seq(Completion), Distinct(c), NEW id \in Id \union {kHostReadId},
         NEW res \in {"ok", "error", "closed", "timeout"}, NEW h \in Nat,
         id \notin Ids(c) \ {kHostReadId}
  PROVE  LET e == Append(c, Done(id, res, h)) IN
         /\ e \in Seq(Completion) /\ Distinct(e)
         /\ Ids(e) = Ids(c) \union {id} /\ Handles(e) = Handles(c) \union ({h} \ {0})
  <1> DEFINE d == <<Done(id, res, h)>>
  <1>1. Done(id, res, h) \in Completion
    BY DEF Done, Completion
  <1>2. d \in Seq(Completion) /\ Len(d) = 1 /\ d[1] = Done(id, res, h)
    BY <1>1
  <1>3. d[1].id = id /\ d[1].handle = h /\ 1..Len(d) = {1}
    BY <1>2 DEF Done
  <1>4. Append(c, Done(id, res, h)) = c \o d
    BY <1>1, AppendIsConcat
  <1> HIDE DEF d
  <1>5. Distinct(d) /\ Ids(d) = {id} /\ Handles(d) = {h} \ {0}
    BY <1>3 DEF Distinct, Ids, Handles
  <1> QED
    BY <1>2, <1>4, <1>5, Concatenated

\* An order of a set names each element once.
LEMMA Batched ==
  ASSUME NEW ids \in SUBSET (Id \union {kHostReadId}), NEW res \in {"ok", "error", "closed"},
         NEW order \in [1..Cardinality(ids) -> ids],
         \A i, j \in DOMAIN order : order[i] = order[j] => i = j
  PROVE  LET d == [i \in DOMAIN order |-> Done(order[i], res, 0)] IN
         /\ d \in Seq(Completion) /\ Distinct(d)
         /\ Ids(d) = ids /\ Handles(d) = {}
  <1> DEFINE n == Cardinality(ids)
             d == [i \in DOMAIN order |-> Done(order[i], res, 0)]
  <1>1. IsFiniteSet(Id \union {kHostReadId})
    <2>1. IsFiniteSet(1..MaxReq)
      BY NetBridgeAssumption, FS_Interval
    <2> QED
      BY <2>1, FS_AddElement DEF Id
  <1>2. IsFiniteSet(ids) /\ n \in Nat
    BY <1>1, FS_Subset, FS_CardinalityType
  <1>3. IsFiniteSet(1..n) /\ Cardinality(1..n) = n
    BY <1>2, FS_Interval
  <1>4. order \in Injection(1..n, ids)
    BY DEF Injection, IsInjective
  <1>5. order \in Surjection(1..n, ids)
    BY <1>2, <1>3, <1>4, FS_Injection
  <1>6. \A id \in ids : \E i \in 1..n : order[i] = id
    BY <1>5 DEF Surjection
  <1>7. DOMAIN d = 1..n /\ \A i \in 1..n : d[i] = Done(order[i], res, 0) /\ order[i] \in ids
    OBVIOUS
  <1>8. \A i \in 1..n : d[i] \in Completion /\ d[i].id = order[i] /\ d[i].handle = 0
    BY <1>7 DEF Done, Completion
  <1>9. d \in Seq(Completion) /\ Len(d) = n
    <2>1. d \in [1..n -> Completion]
      BY <1>7, <1>8
    <2> QED
      BY <1>2, <2>1, IsASeq, LenProperties
  <1>10. Ids(d) = ids /\ Handles(d) = {}
    <2> HIDE DEF d, n
    <2> QED
      BY <1>6, <1>7, <1>8, <1>9 DEF Ids, Handles
  <1>11. Distinct(d)
    <2> HIDE DEF d
    <2> QED
      BY <1>8, <1>9 DEF Distinct
  <1> QED
    BY <1>9, <1>10, <1>11

LEMMA FirstTaken ==
  ASSUME NEW c \in Seq(Completion), Distinct(c), c # <<>>
  PROVE  /\ Head(c) \in Completion
         /\ Head(c).id \in Ids(c) /\ (Head(c).handle # 0 => Head(c).handle \in Handles(c))
         /\ Tail(c) \in Seq(Completion) /\ Distinct(Tail(c))
         /\ Ids(Tail(c)) \ {kHostReadId} = Ids(c) \ {kHostReadId, Head(c).id}
         /\ Handles(Tail(c)) \subseteq Handles(c)
  <1> DEFINE t == Tail(c)
  <1>1. /\ t \in Seq(Completion) /\ Len(c) \in Nat \ {0} /\ Len(t) = Len(c) - 1
        /\ \A i \in 1..Len(t) : t[i] = c[i + 1]
        /\ Head(c) = c[1] /\ Head(c) \in Completion
    BY HeadTailProperties, LenProperties, EmptySeq
  <1> HIDE DEF t
  <1>2. \A i \in 1..Len(t) : i + 1 \in 1..Len(c) /\ i + 1 # 1 /\ t[i] = c[i + 1]
    BY <1>1
  <1>3. ASSUME NEW i \in 1..Len(c), i # 1 PROVE i - 1 \in 1..Len(t) /\ t[i - 1] = c[i]
    <2>1. i - 1 \in 1..Len(t) /\ (i - 1) + 1 = i
      BY <1>1, <1>3
    <2> QED
      BY <1>1, <2>1
  <1>4. 1 \in 1..Len(c)
    BY <1>1
  <1>5. Ids(c) = Ids(t) \union {Head(c).id}
    BY <1>1, <1>2, <1>3, <1>4 DEF Ids
  <1>6. Head(c).id # kHostReadId => Head(c).id \notin Ids(t)
    BY <1>1, <1>2, <1>4 DEF Ids, Distinct
  <1>7. Handles(t) \subseteq Handles(c) /\ (Head(c).handle # 0 => Head(c).handle \in Handles(c))
    BY <1>1, <1>2, <1>4 DEF Handles
  <1>8. ASSUME NEW i \in 1..Len(t), NEW j \in 1..Len(t), t[i].id = t[j].id, t[i].id # kHostReadId
        PROVE  i = j
    <2>1. i + 1 = j + 1
      BY <1>2, <1>8 DEF Distinct
    <2> QED
      BY <1>1, <2>1
  <1> QED
    BY <1>1, <1>5, <1>6, <1>7, <1>8 DEF Distinct, t

-----------------------------------------------------------------------------
(* Descriptors *)

LEMMA LessIsWellFounded ==
  IsWellFoundedOn({ss \in Nat \X Nat : ss[1] < ss[2]}, Nat)
  BY ONLY NatLessThanWellFounded DEF OpToRel

LEMMA SmallestIn ==
  ASSUME NEW S \in SUBSET Nat, S # {}
  PROVE  Min(S) \in S
  <1>1. PICK x \in S : \A y \in S : ~(<<y, x>> \in {ss \in Nat \X Nat : ss[1] < ss[2]})
    BY LessIsWellFounded, WFMin
  <1>2. ASSUME NEW y \in S PROVE x =< y
    <2>1. <<y, x>> \in Nat \X Nat /\ ~(y < x)
      BY <1>1
    <2> QED
      BY <2>1
  <1>3. \E z \in S : \A y \in S : z =< y
    BY <1>2
  <1> QED
    BY <1>3 DEF Min

\* What socket() or accept() returns is free.
LEMMA FreshFd ==
  ASSUME FdFree, open \subseteq 1..MaxFd
  PROVE  NewFd \in 1..MaxFd /\ NewFd \notin open
  <1>1. (1..MaxFd) \ open # {}
    BY DEF FdFree
  <1>2. (1..MaxFd) \ open \in SUBSET Nat
    BY NetBridgeAssumption
  <1> QED
    BY <1>1, <1>2, SmallestIn DEF NewFd

LEMMA OpenFds ==
  ASSUME Sockets
  PROVE  /\ open \subseteq 1..MaxFd
         /\ \A h \in DOMAIN socks : socks[h] \in open /\ h \in 1..nextHandle
         /\ \A fd \in open : \E h \in DOMAIN socks : socks[h] = fd
  BY DEF Sockets, HandlesMatchDescriptors, Range

\* A new handle, that nobody knows yet, for a descriptor that nobody had.
LEMMA Allocated ==
  ASSUME Sockets, Alloc
  PROVE  /\ nextHandle' = nextHandle + 1 /\ nextHandle' \notin DOMAIN socks
         /\ nextHandle' \in Handle
         /\ DOMAIN socks' = DOMAIN socks \union {nextHandle'}
         /\ \A h \in DOMAIN socks : socks'[h] = socks[h]
         /\ socks'[nextHandle'] = NewFd /\ NewFd \in 1..MaxFd
         /\ UNCHANGED <<hostFd, hostHandle>> => Sockets'
         /\ hostFd' = NewFd /\ hostHandle' = nextHandle' => Sockets'
  <1>1. NewFd \in 1..MaxFd /\ NewFd \notin open
    BY FreshFd, OpenFds DEF Alloc
  <1>2. nextHandle' = nextHandle + 1 /\ nextHandle' \notin DOMAIN socks /\ nextHandle \in Nat
    BY OpenFds DEF Alloc, Sockets
  <1>3. /\ DOMAIN socks' = DOMAIN socks \union {nextHandle'}
        /\ \A h \in DOMAIN socks : socks'[h] = socks[h]
        /\ socks'[nextHandle'] = NewFd
    BY <1>2 DEF Alloc, With
  <1>4. Range(socks') = open' /\ open' \subseteq 1..MaxFd
    BY <1>1, <1>3, OpenFds DEF Alloc, Range
  <1>5. \A h, k \in DOMAIN socks' : socks'[h] = socks'[k] => h = k
    BY <1>1, <1>2, <1>3, OpenFds DEF Sockets, HandlesMatchDescriptors
  <1>6. DOMAIN socks' \subseteq 1..nextHandle'
    BY <1>2, <1>3 DEF Sockets
  <1>7. ASSUME UNCHANGED <<hostFd, hostHandle>>
        PROVE  Sockets'
    <2>1. hostFd' # 0 => hostHandle' \in DOMAIN socks' /\ socks'[hostHandle'] = hostFd'
      BY <1>3, <1>7 DEF Sockets, HandlesMatchDescriptors
    <2>2. hostFd' \in 0..MaxFd /\ hostHandle' \in 0..nextHandle'
      BY <1>2, <1>7 DEF Sockets
    <2> QED
      BY <1>2, <1>4, <1>5, <1>6, <2>1, <2>2 DEF Sockets, HandlesMatchDescriptors
  <1>8. ASSUME hostFd' = NewFd, hostHandle' = nextHandle'
        PROVE  Sockets'
    <2>1. hostFd' # 0 => hostHandle' \in DOMAIN socks' /\ socks'[hostHandle'] = hostFd'
      BY <1>3, <1>8
    <2>2. hostFd' \in 0..MaxFd /\ hostHandle' \in 0..nextHandle'
      BY <1>1, <1>2, <1>8, NetBridgeAssumption
    <2> QED
      BY <1>2, <1>4, <1>5, <1>6, <2>1, <2>2 DEF Sockets, HandlesMatchDescriptors
  <1> QED
    BY <1>1, <1>2, <1>3, <1>7, <1>8 DEF Handle

\* A handle and its descriptor go together.
LEMMA Removed ==
  ASSUME Sockets, NEW h \in DOMAIN socks, socks' = Without(socks, {h}),
         open' = open \ {socks[h]}, UNCHANGED nextHandle,
         \/ UNCHANGED <<hostFd, hostHandle>> /\ (hostFd # 0 => h # hostHandle)
         \/ hostFd' = 0 /\ UNCHANGED hostHandle
  PROVE  /\ Sockets'
         /\ DOMAIN socks' = DOMAIN socks \ {h}
         /\ \A k \in DOMAIN socks' : socks'[k] = socks[k]
  <1>1. /\ DOMAIN socks' = DOMAIN socks \ {h}
        /\ \A k \in DOMAIN socks' : socks'[k] = socks[k]
    BY DEF Without, Restrict
  <1>2. Range(socks') = open' /\ open' \subseteq 1..MaxFd
    BY <1>1, OpenFds DEF Range, Sockets, HandlesMatchDescriptors
  <1>3. \A j, k \in DOMAIN socks' : socks'[j] = socks'[k] => j = k
    BY <1>1 DEF Sockets, HandlesMatchDescriptors
  <1>4. hostFd' # 0 => hostHandle' \in DOMAIN socks' /\ socks'[hostHandle'] = hostFd'
    BY <1>1 DEF Sockets, HandlesMatchDescriptors
  <1>5. hostFd' \in 0..MaxFd /\ hostHandle' \in 0..nextHandle' /\ DOMAIN socks' \subseteq 1..nextHandle'
    BY <1>1, NetBridgeAssumption DEF Sockets
  <1> QED
    BY <1>1, <1>2, <1>3, <1>4, <1>5 DEF Sockets, HandlesMatchDescriptors

LEMMA DropIsRemoval ==
  ASSUME Sockets, NEW h \in DOMAIN socks, DropAndClose(socks[h])
  PROVE  socks' = Without(socks, {h}) /\ open' = open \ {socks[h]} /\ UNCHANGED nextHandle
  <1>1. {k \in DOMAIN socks : socks[k] = socks[h]} = {h}
    BY DEF Sockets, HandlesMatchDescriptors
  <1> QED
    BY <1>1 DEF DropAndClose, Dropped

-----------------------------------------------------------------------------
(* Requests *)

\* id is served: it has just been asked for, or has left pending_, of which p remains.
Serving(p, id) ==
  /\ id \in Id \union {kHostReadId} /\ id \notin Held \union hostWait \union taken
  /\ nextId' \in 0..MaxReq /\ 1..nextId' = 1..nextId \union ({id} \ {kHostReadId})
  /\ DOMAIN p = DOMAIN pending \ {id} /\ \A j \in DOMAIN p : p[j] = pending[j]
  /\ UNCHANGED <<told, taken>>

LEMMA Sentinel0 == kHostReadId \notin Id /\ kHostReadId \in Nat /\ Id \subseteq Nat
  BY NetBridgeAssumption DEF Id, kHostReadId

LEMMA HostIsNoRequest ==
  ASSUME Core
  PROVE  /\ kHostReadId \notin hostWait /\ kHostReadId \notin taken /\ kHostReadId \notin Guests
         /\ hostWait \subseteq Id /\ taken \subseteq Id
  <1>1. 1..nextId \subseteq Id
    BY NetBridgeAssumption DEF Core, Places, Id
  <1>2. hostWait \subseteq 1..nextId /\ taken \subseteq 1..nextId
    BY DEF Core, Places
  <1> QED
    BY <1>1, <1>2, Sentinel0 DEF Guests

LEMMA NewIsServed ==
  ASSUME Core, NEW topic, NewRequest(topic)
  PROVE  /\ Serving(pending, nextId') /\ nextId' = nextId + 1
         /\ nextId' \in Id /\ nextId' \notin DOMAIN pending
  <1>1. nextId' = nextId + 1 /\ nextId \in Nat /\ nextId' \in 1..MaxReq /\ nextId' \notin 1..nextId
    BY NetBridgeAssumption DEF NewRequest, Core, Places
  <1>2. 1..nextId' = 1..nextId \union {nextId'}
    BY <1>1
  <1>3. nextId' \in Id /\ nextId' # kHostReadId
    BY <1>1, Sentinel0 DEF Id
  <1>4. nextId' \notin Held \union Guests \union hostWait \union taken
    BY <1>1 DEF Core, Places
  <1>5. nextId' \notin DOMAIN pending
    BY <1>3, <1>4 DEF Guests
  <1>6. DOMAIN pending = DOMAIN pending \ {nextId'}
    BY <1>5
  <1> QED
    BY <1>1, <1>2, <1>3, <1>4, <1>5, <1>6, NetBridgeAssumption DEF Serving, NewRequest

LEMMA ParkedIsServed ==
  ASSUME Core, NEW id \in DOMAIN pending, UNCHANGED <<nextId, told, taken>>
  PROVE  Serving(Without(pending, {id}), id)
  <1>1. id \in Id \union {kHostReadId}
    BY DEF Core, Parking
  <1>2. id # kHostReadId => id \in Guests
    BY DEF Guests
  <1>3. id \notin Held \union hostWait \union taken
    <2>1. CASE id = kHostReadId
      BY <2>1, HostIsNoRequest DEF Held
    <2>2. CASE id \in Guests
      BY <2>2 DEF Core, Places
    <2> QED
      BY <1>2, <2>1, <2>2
  <1>4. 1..nextId' = 1..nextId \union ({id} \ {kHostReadId})
    BY <1>2 DEF Core, Places
  <1>5. /\ DOMAIN Without(pending, {id}) = DOMAIN pending \ {id}
        /\ \A j \in DOMAIN pending \ {id} : Without(pending, {id})[j] = pending[j]
    BY DEF Without, Restrict
  <1> QED
    BY <1>1, <1>3, <1>4, <1>5 DEF Serving, Core, Places

\* Served and completed.
LEMMA AnsweredPlaces ==
  ASSUME Core, NEW p, NEW id, Serving(p, id), pending' = p, UNCHANGED hostWait,
         NEW res \in {"ok", "error", "closed", "timeout"}, NEW h \in Nat,
         Complete(id, res, h)
  PROVE  Places' /\ Held \subseteq Held' /\ Handles(completions)' = Handles(completions) \union ({h} \ {0})
  <1>1. /\ completions' \in Seq(Completion) /\ Distinct(completions)'
        /\ Ids(completions)' = Ids(completions) \union {id}
        /\ Handles(completions)' = Handles(completions) \union ({h} \ {0})
    BY Appended DEF Core, Places, Serving, Held, Complete
  <1>2. Held' = Held \union ({id} \ {kHostReadId})
    BY <1>1 DEF Held
  <1>3. Guests' = Guests \ {id}
    BY DEF Guests, Serving
  <1>4. 1..nextId' = Held' \union Guests' \union hostWait' \union taken'
    <2>1. /\ 1..nextId' = 1..nextId \union ({id} \ {kHostReadId})
          /\ 1..nextId = Held \union Guests \union hostWait \union taken
          /\ hostWait' = hostWait /\ taken' = taken /\ kHostReadId \notin Guests
      BY DEF Core, Places, Serving, Guests
    <2> QED
      BY <1>2, <1>3, <2>1
  <1>5. id \notin hostWait /\ id \notin taken /\ kHostReadId \notin Guests
    BY DEF Serving, Guests
  <1> QED
    BY <1>1, <1>2, <1>3, <1>4, <1>5 DEF Core, Places, Serving

\* Served and parked.
LEMMA ParkedPlaces ==
  ASSUME Core, NEW p, NEW id, Serving(p, id), id # kHostReadId,
         UNCHANGED <<completions, hostWait>>, DOMAIN pending' = DOMAIN p \union {id}
  PROVE  Places' /\ Held' = Held
  <1>1. Guests' = (Guests \ {id}) \union {id}
    BY DEF Guests, Serving
  <1>2. Held' = Held
    BY DEF Held
  <1> QED
    BY <1>1, <1>2 DEF Core, Places, Serving

\* A batch of requests is completed: ids leave pending_ or host_wait_ids_.
LEMMA BatchPlaces ==
  ASSUME Core, NEW ids \in SUBSET (Id \union {kHostReadId}), NEW d \in Seq(Completion),
         Distinct(d), Ids(d) = ids, Handles(d) = {}, completions' = completions \o d,
         UNCHANGED <<nextId, taken>>,
         Guests' \union hostWait' = (Guests \union hostWait) \ ids,
         Guests' \subseteq Guests, hostWait' \subseteq hostWait,
         ids \ {kHostReadId} \subseteq Guests \union hostWait
  PROVE  Places' /\ Held \subseteq Held' /\ Handles(completions)' = Handles(completions)
  <1>1. \A id \in Ids(completions) : id \in Ids(d) => id = kHostReadId
    BY DEF Core, Places, Held
  <1>2. /\ completions' \in Seq(Completion) /\ Distinct(completions)'
        /\ Ids(completions)' = Ids(completions) \union ids
        /\ Handles(completions)' = Handles(completions)
    <2>1. completions \in Seq(Completion) /\ Distinct(completions)
      BY DEF Core, Places
    <2>2. /\ completions \o d \in Seq(Completion) /\ Distinct(completions \o d)
          /\ Ids(completions \o d) = Ids(completions) \union Ids(d)
          /\ Handles(completions \o d) = Handles(completions) \union Handles(d)
      BY <1>1, <2>1, Concatenated
    <2> QED
      BY <2>2
  <1>3. Held' = Held \union (ids \ {kHostReadId})
    BY <1>2 DEF Held
  <1>4. 1..nextId' = Held' \union Guests' \union hostWait' \union taken'
    <2>1. kHostReadId \notin Guests /\ kHostReadId \notin hostWait
      BY HostIsNoRequest
    <2>3. 1..nextId' = Held \union Guests \union hostWait \union taken /\ taken' = taken
      BY DEF Core, Places
    <2>2. Held' \union (Guests' \union hostWait') = Held \union (Guests \union hostWait)
      BY <1>3, <2>1
    <2> QED
      BY <2>2, <2>3
  <1>5. kHostReadId \notin Guests' /\ Held' \intersect Guests' = {} /\ Held' \intersect hostWait' = {}
    BY <1>3 DEF Core, Places, Guests
  <1> QED
    BY <1>2, <1>3, <1>4, <1>5 DEF Core, Places

-----------------------------------------------------------------------------
(* What is parked *)

\* Entries only leave pending_, and nothing private becomes public.
LEMMA FewerParked ==
  ASSUME Core, NEW X \in SUBSET Nat, nextHandle' \in Nat, nextHandle <= nextHandle',
         \A j \in DOMAIN pending' : j \in DOMAIN pending /\ pending'[j] = pending[j],
         \A j \in DOMAIN pending' \ {kHostReadId} :
            /\ pending[j].handle \in DOMAIN socks'
            /\ socks'[pending[j].handle] = socks[pending[j].handle]
            /\ pending[j].op = "connect" => pending[j].handle \notin X,
         hostHandle' = hostHandle \/ hostHandle' > nextHandle,
         kHostReadId \in DOMAIN pending' /\ pending[kHostReadId].handle \in DOMAIN socks'
            => hostFd' # 0 /\ pending[kHostReadId].handle = hostHandle',
         Public' \subseteq Public \union X, X \subseteq 1..nextHandle', hostHandle' \notin X
  PROVE  Parking'
  <1>1. /\ DOMAIN pending' \subseteq Id \union {kHostReadId}
        /\ \A id \in DOMAIN pending' : pending'[id] \in Parked /\ pending'[id].handle <= nextHandle'
    <2>1. \A id \in DOMAIN pending : pending[id].handle \in Nat
      BY DEF Core, Parking, Parked, Handle
    <2> QED
      BY <2>1 DEF Core, Parking, Sockets
  <1>2. Public' \subseteq 1..nextHandle'
    BY DEF Core, Parking, Sockets
  <1>3. ParkedOnOwnSocket'
    BY DEF Core, Parking, ParkedOnOwnSocket
  <1>4. hostHandle' \notin Public'
    <2>1. hostHandle \notin Public /\ Public \subseteq 1..nextHandle /\ nextHandle \in Nat
      BY DEF Core, Parking, Private, Sockets
    <2>2. hostHandle' \notin Public
      BY <2>1
    <2> QED
      BY <2>2
  <1>5. \A id \in Guests' : id \in Guests /\ id \in DOMAIN pending' /\ pending'[id] = pending[id]
    BY DEF Guests
  <1>6. \A id \in Guests' : pending'[id].handle # hostHandle'
    <2>1. \A id \in Guests : pending[id].handle <= nextHandle /\ pending[id].handle \in Nat
      BY DEF Core, Parking, Parked, Handle, Guests
    <2> QED
      BY <1>5, <2>1 DEF Core, Parking, Private, Sockets
  <1>7. \A id \in Guests' : pending'[id].op = "connect" =>
          /\ pending'[id].handle \notin Public'
          /\ \A j \in DOMAIN pending' \ {id} : pending'[j].handle # pending'[id].handle
    <2>1. ASSUME NEW id \in Guests', pending'[id].op = "connect"
          PROVE  /\ pending'[id].handle \notin Public'
                 /\ \A j \in DOMAIN pending' \ {id} : pending'[j].handle # pending'[id].handle
      <3>1. pending[id].op = "connect" /\ id \in Guests
        BY <1>5, <2>1
      <3>2. pending[id].handle \notin X
        BY <1>5, <2>1, <3>1 DEF Guests
      <3>3. pending[id].handle \notin Public /\ \A j \in DOMAIN pending \ {id} : pending[j].handle # pending[id].handle
        BY <3>1 DEF Core, Parking, Private
      <3> QED
        BY <1>5, <2>1, <3>2, <3>3
    <2> QED
      BY <2>1
  <1>8. SentinelReadsHost'
    BY DEF Core, Parking, SentinelReadsHost
  <1> QED
    BY <1>1, <1>2, <1>3, <1>4, <1>6, <1>7, <1>8 DEF Parking, Private

\* A guest's request parks on a socket that is not private, or on a new one.
LEMMA OneMoreParked ==
  ASSUME Core, NEW id \in Id, nextHandle' \in Nat, nextHandle <= nextHandle',
         DOMAIN pending' = (DOMAIN pending \ {id}) \union {id},
         \A j \in DOMAIN pending \ {id} : pending'[j] = pending[j],
         \A h \in DOMAIN socks : h \in DOMAIN socks' /\ socks'[h] = socks[h],
         \A h \in DOMAIN socks' : h \in DOMAIN socks \/ h > nextHandle,
         UNCHANGED <<hostFd, hostHandle>>, Public' = Public,
         pending'[id] \in Parked, pending'[id].op # "hostread",
         pending'[id].handle \in DOMAIN socks', pending'[id].handle <= nextHandle',
         socks'[pending'[id].handle] = pending'[id].fd,
         \/ /\ pending'[id].op # "connect"
            /\ pending'[id].handle # hostHandle
            /\ \A j \in Guests \ {id} : pending[j].op = "connect" => pending[j].handle # pending'[id].handle
         \/ pending'[id].handle > nextHandle
  PROVE  Parking'
  <1> DEFINE e == pending'[id]
  <1>0. id # kHostReadId /\ e.handle \in Nat
    BY Sentinel0 DEF Parked, Handle
  <1>1. \A j \in DOMAIN pending : pending[j].handle \in Nat /\ pending[j].handle <= nextHandle
    BY DEF Core, Parking, Parked, Handle
  <1>2. /\ DOMAIN pending' \subseteq Id \union {kHostReadId}
        /\ \A j \in DOMAIN pending' : pending'[j] \in Parked /\ pending'[j].handle <= nextHandle'
    BY <1>1 DEF Core, Parking, Sockets
  <1>3. Public' \subseteq 1..nextHandle'
    BY DEF Core, Parking, Sockets
  <1>4. ParkedOnOwnSocket'
    BY DEF Core, Parking, ParkedOnOwnSocket
  <1>5. hostHandle' \notin Public' /\ hostHandle \in Nat /\ hostHandle <= nextHandle
    BY DEF Core, Parking, Private, Sockets
  <1>6. \A j \in Guests' \ {id} : j \in Guests /\ j \in DOMAIN pending \ {id} /\ pending'[j] = pending[j]
    BY DEF Guests
  <1>7. e.handle # hostHandle
    BY <1>0, <1>5 DEF Core, Sockets
  <1>8. \A j \in Guests' : pending'[j].handle # hostHandle'
    BY <1>6, <1>7 DEF Core, Parking, Private
  <1>9. ASSUME NEW j \in Guests', pending'[j].op = "connect"
        PROVE  /\ pending'[j].handle \notin Public'
               /\ \A i \in DOMAIN pending' \ {j} : pending'[i].handle # pending'[j].handle
    <2>1. CASE j = id
      <3>1. e.handle > nextHandle
        BY <1>9, <2>1
      <3>2. e.handle \notin Public
        BY <1>0, <3>1 DEF Core, Parking, Sockets
      <3>3. \A i \in DOMAIN pending \ {id} : pending[i].handle # e.handle
        BY <1>0, <1>1, <3>1 DEF Core, Sockets
      <3> QED
        BY <2>1, <3>2, <3>3
    <2>2. CASE j # id
      <3>1. /\ j \in Guests /\ pending'[j] = pending[j] /\ pending[j].op = "connect"
            /\ pending[j].handle \notin Public /\ j \in DOMAIN pending
            /\ \A i \in DOMAIN pending \ {j} : pending[i].handle # pending[j].handle
        BY <1>6, <1>9, <2>2 DEF Core, Parking, Private
      <3>2. e.handle # pending[j].handle
        BY <1>0, <1>1, <2>2, <3>1 DEF Core, Sockets
      <3> QED
        BY <2>2, <3>1, <3>2
    <2> QED
      BY <2>1, <2>2
  <1>10. SentinelReadsHost'
    <2>1. \A j \in DOMAIN pending' : pending'[j].op = "hostread" <=> j = kHostReadId
      BY <1>0 DEF Core, Parking, SentinelReadsHost
    <2>2. ASSUME kHostReadId \in DOMAIN pending', pending'[kHostReadId].handle \in DOMAIN socks'
          PROVE  hostFd' # 0 /\ pending'[kHostReadId].handle = hostHandle'
      <3>1. kHostReadId \in DOMAIN pending /\ pending'[kHostReadId] = pending[kHostReadId]
        BY <1>0, <2>2
      <3>2. pending[kHostReadId].handle \in DOMAIN socks
        BY <1>1, <2>2, <3>1 DEF Core, Sockets
      <3> QED
        BY <3>1, <3>2 DEF Core, Parking, SentinelReadsHost
    <2> QED
      BY <2>1, <2>2 DEF SentinelReadsHost
  <1> QED
    BY <1>2, <1>3, <1>4, <1>5, <1>8, <1>9, <1>10 DEF Parking, Private

-----------------------------------------------------------------------------
(* How a request is served *)

\* Nobody but id has something private on h.
Open2All(h, id) ==
  h # hostHandle /\ \A j \in Guests \ {id} : pending[j].op = "connect" => pending[j].handle # h

LEMMA GuestHandle ==
  ASSUME Core, NEW h \in told, NEW id
  PROVE  Open2All(h, id)
  BY DEF Core, Parking, Private, Public, Open2All

LEMMA OwnHandle ==
  ASSUME Core, NEW id \in Guests
  PROVE  Open2All(pending[id].handle, id)
  BY DEF Core, Parking, Private, Guests, Open2All

LEMMA TypedEntries ==
  ASSUME Core
  PROVE  /\ nextHandle \in Nat /\ hostHandle \in 0..nextHandle
         /\ \A j \in DOMAIN pending : pending[j] \in Parked /\ pending[j].handle \in 1..nextHandle
         /\ Public \subseteq 1..nextHandle /\ Id \subseteq Id \union {kHostReadId}
  BY DEF Core, Parking, Sockets, Parked, Handle

LEMMA HostStays ==
  ASSUME Core, UNCHANGED <<hostFd, hostWait, owed>>
  PROVE  HostOwesWaiting'
  BY DEF Core, HostOwesWaiting

LEMMA Answered ==
  ASSUME Core, NEW p, NEW id, Serving(p, id), pending' = p,
         NEW res \in {"ok", "error", "closed", "timeout"}, NEW h, Complete(id, res, h),
         h = 0 \/ (h \in DOMAIN socks /\ Open2All(h, id)),
         UNCHANGED <<sockVars, hostVars>>
  PROVE  Keeps
  <1>1. h \in Nat /\ h \in 0..nextHandle
    BY DEF Core, Sockets
  <1>2. Places' /\ Held \subseteq Held' /\ Handles(completions)' = Handles(completions) \union ({h} \ {0})
    BY <1>1, AnsweredPlaces DEF hostVars
  <1>3. Sockets'
    BY DEF Core, Sockets, HandlesMatchDescriptors, sockVars, hostVars
  <1>4. \A j \in DOMAIN pending' : j \in DOMAIN pending /\ j # id /\ pending'[j] = pending[j]
    BY DEF Serving
  <1>5. Parking'
    <2> DEFINE X == {h} \ {0}
    <2>1. Public' = Public \union X
      BY <1>2 DEF Public, Serving
    <2>2. X \in SUBSET Nat /\ X \subseteq 1..nextHandle' /\ hostHandle' \notin X
      BY <1>1, TypedEntries DEF Open2All, sockVars, hostVars
    <2>3. \A j \in DOMAIN pending' \ {kHostReadId} :
            /\ pending[j].handle \in DOMAIN socks'
            /\ socks'[pending[j].handle] = socks[pending[j].handle]
            /\ pending[j].op = "connect" => pending[j].handle \notin X
      BY <1>4 DEF Core, Parking, ParkedOnOwnSocket, Open2All, Guests, sockVars
    <2>4. kHostReadId \in DOMAIN pending' /\ pending[kHostReadId].handle \in DOMAIN socks'
            => hostFd' # 0 /\ pending[kHostReadId].handle = hostHandle'
      BY <1>4 DEF Core, Parking, SentinelReadsHost, sockVars, hostVars
    <2>5. nextHandle' \in Nat /\ nextHandle <= nextHandle' /\ hostHandle' = hostHandle
      BY DEF Core, Sockets, sockVars, hostVars
    <2> HIDE DEF X
    <2> QED
      BY <1>4, <2>1, <2>2, <2>3, <2>4, <2>5, FewerParked
  <1>6. HostOwesWaiting'
    BY HostStays DEF hostVars
  <1> QED
    BY <1>2, <1>3, <1>5, <1>6 DEF Keeps, Core, Serving

LEMMA AnsweredWithNewHandle ==
  ASSUME Core, NEW p, NEW id, Serving(p, id), pending' = p, Alloc,
         Complete(id, "ok", nextHandle'), UNCHANGED hostVars
  PROVE  Keeps
  <1>1. /\ nextHandle' = nextHandle + 1 /\ nextHandle' \in Nat \ {0} /\ nextHandle \in Nat
        /\ DOMAIN socks' = DOMAIN socks \union {nextHandle'}
        /\ \A h \in DOMAIN socks : socks'[h] = socks[h]
        /\ Sockets'
    BY Allocated DEF Core, Sockets, Handle, hostVars
  <1>2. Places' /\ Held \subseteq Held' /\ Handles(completions)' = Handles(completions) \union {nextHandle'}
    <2>1. Places' /\ Held \subseteq Held' /\ Handles(completions)' = Handles(completions) \union ({nextHandle'} \ {0})
      BY <1>1, AnsweredPlaces DEF hostVars
    <2> QED
      BY <1>1, <2>1
  <1>3. \A j \in DOMAIN pending' : j \in DOMAIN pending /\ pending'[j] = pending[j]
    BY DEF Serving
  <1>4. Parking'
    <2> DEFINE X == {nextHandle'}
    <2>1. Public' = Public \union X
      BY <1>2 DEF Public, Serving
    <2>2. X \in SUBSET Nat /\ X \subseteq 1..nextHandle' /\ hostHandle' = hostHandle /\ hostHandle' \notin X
      BY <1>1, TypedEntries DEF hostVars
    <2>3. \A j \in DOMAIN pending : pending[j].handle # nextHandle'
      BY <1>1, TypedEntries
    <2>4. \A j \in DOMAIN pending' \ {kHostReadId} :
            /\ pending[j].handle \in DOMAIN socks'
            /\ socks'[pending[j].handle] = socks[pending[j].handle]
            /\ pending[j].op = "connect" => pending[j].handle \notin X
      BY <1>1, <1>3, <2>3 DEF Core, Parking, ParkedOnOwnSocket
    <2>5. kHostReadId \in DOMAIN pending' /\ pending[kHostReadId].handle \in DOMAIN socks'
            => hostFd' # 0 /\ pending[kHostReadId].handle = hostHandle'
      BY <1>1, <1>3, <2>3 DEF Core, Parking, SentinelReadsHost, hostVars
    <2>6. nextHandle <= nextHandle'
      BY <1>1
    <2> HIDE DEF X
    <2> QED
      BY <1>1, <1>3, <2>1, <2>2, <2>4, <2>5, <2>6, FewerParked
  <1>5. HostOwesWaiting'
    BY HostStays DEF hostVars
  <1> QED
    BY <1>1, <1>2, <1>4, <1>5 DEF Keeps, Core, Serving

LEMMA Connecting ==
  ASSUME Core, NEW p, NEW id \in Id, Serving(p, id), Alloc,
         ParkOn(p, id, "connect", nextHandle', NewFd, 0), UNCHANGED <<completions, hostVars>>
  PROVE  Keeps
  <1> DEFINE e == [op |-> "connect", handle |-> nextHandle', fd |-> NewFd, left |-> 0]
  <1>1. /\ nextHandle' = nextHandle + 1 /\ nextHandle' \in Handle /\ nextHandle \in Nat
        /\ DOMAIN socks' = DOMAIN socks \union {nextHandle'}
        /\ \A h \in DOMAIN socks : socks'[h] = socks[h]
        /\ socks'[nextHandle'] = NewFd /\ NewFd \in 1..MaxFd
        /\ Sockets'
    BY Allocated DEF Core, Sockets, hostVars
  <1>2. /\ DOMAIN pending' = (DOMAIN pending \ {id}) \union {id}
        /\ DOMAIN pending' = DOMAIN p \union {id}
        /\ \A j \in DOMAIN pending \ {id} : pending'[j] = pending[j]
        /\ pending'[id] = e
    <2>1. pending' = With(p, id, e)
      BY DEF ParkOn
    <2> HIDE DEF e
    <2> QED
      BY <2>1 DEF With, Serving
  <1>3. e \in Parked
    BY <1>1, NetBridgeAssumption DEF Parked
  <1>4. e.op = "connect" /\ e.handle = nextHandle' /\ e.fd = NewFd
    OBVIOUS
  <1> HIDE DEF e
  <1>5. id # kHostReadId
    BY Sentinel0
  <1>6. Places' /\ Held' = Held
    BY <1>2, <1>5, ParkedPlaces DEF hostVars
  <1>7. Public' = Public
    BY DEF Public, Serving
  <1>8. nextHandle' \in Nat /\ nextHandle <= nextHandle' /\ nextHandle' > nextHandle
    BY <1>1
  <1>9. UNCHANGED <<hostFd, hostHandle>>
    BY DEF hostVars
  <1>10. /\ \A h \in DOMAIN socks : h \in DOMAIN socks' /\ socks'[h] = socks[h]
         /\ \A h \in DOMAIN socks' : h \in DOMAIN socks \/ h > nextHandle
    BY <1>1, <1>8
  <1>11. /\ pending'[id] \in Parked /\ pending'[id].op # "hostread"
         /\ pending'[id].handle \in DOMAIN socks' /\ pending'[id].handle <= nextHandle'
         /\ socks'[pending'[id].handle] = pending'[id].fd
         /\ pending'[id].handle > nextHandle
    BY <1>1, <1>2, <1>3, <1>4
  <1>12. Parking'
    BY <1>2, <1>7, <1>8, <1>9, <1>10, <1>11, OneMoreParked
  <1>13. HostOwesWaiting'
    BY HostStays DEF hostVars
  <1> QED
    BY <1>1, <1>6, <1>12, <1>13 DEF Keeps, Core, Serving

LEMMA Waiting ==
  ASSUME Core, NEW p, NEW id \in Id, Serving(p, id), NEW h \in DOMAIN socks, Open2All(h, id),
         NEW op \in {"accept", "read", "write"}, NEW left \in 0..WriteLen,
         ParkOn(p, id, op, h, socks[h], left), UNCHANGED <<completions, sockVars, hostVars>>
  PROVE  Keeps
  <1> DEFINE e == [op |-> op, handle |-> h, fd |-> socks[h], left |-> left]
  <1>1. socks[h] \in 1..MaxFd /\ h \in 1..nextHandle /\ nextHandle \in Nat
    BY OpenFds DEF Core, Sockets
  <1>2. /\ DOMAIN pending' = (DOMAIN pending \ {id}) \union {id}
        /\ DOMAIN pending' = DOMAIN p \union {id}
        /\ \A j \in DOMAIN pending \ {id} : pending'[j] = pending[j]
        /\ pending'[id] = e
    <2>1. pending' = With(p, id, e)
      BY DEF ParkOn
    <2> HIDE DEF e
    <2> QED
      BY <2>1 DEF With, Serving
  <1>3. e \in Parked
    BY <1>1 DEF Parked, Handle
  <1>4. e.op # "connect" /\ e.op # "hostread" /\ e.handle = h /\ e.fd = socks[h]
    OBVIOUS
  <1> HIDE DEF e
  <1>5. id # kHostReadId
    BY Sentinel0
  <1>6. Places' /\ Held' = Held
    BY <1>2, <1>5, ParkedPlaces DEF hostVars
  <1>7. Public' = Public
    BY DEF Public, Serving
  <1>8. Sockets'
    BY DEF Core, Sockets, HandlesMatchDescriptors, sockVars, hostVars
  <1>9. UNCHANGED <<socks, nextHandle, hostFd, hostHandle>>
    BY DEF hostVars, sockVars
  <1>10. /\ pending'[id] \in Parked /\ pending'[id].op # "hostread"
         /\ pending'[id].handle \in DOMAIN socks' /\ pending'[id].handle <= nextHandle'
         /\ socks'[pending'[id].handle] = pending'[id].fd
         /\ pending'[id].op # "connect"
         /\ pending'[id].handle # hostHandle
         /\ \A j \in Guests \ {id} : pending[j].op = "connect" => pending[j].handle # pending'[id].handle
    BY <1>1, <1>2, <1>3, <1>4, <1>9 DEF Open2All
  <1>11. Parking'
    BY <1>1, <1>2, <1>7, <1>9, <1>10, OneMoreParked
  <1>12. HostOwesWaiting'
    BY HostStays DEF hostVars
  <1> QED
    BY <1>6, <1>8, <1>11, <1>12 DEF Keeps, Core, Serving

-----------------------------------------------------------------------------
(* The calls that are made for a request, and made again *)

LEMMA FailKeeps ==
  ASSUME Core, NEW p, NEW id, Serving(p, id), Fail(p, id), UNCHANGED hostVars
  PROVE  Keeps
  BY Answered DEF Fail

LEMMA TransferKeeps ==
  ASSUME Core, NEW p, NEW id \in Id, Serving(p, id), NEW op \in {"accept", "read"},
         NEW h, Open2All(h, id), Transfer(p, id, op, h), UNCHANGED hostVars
  PROVE  Keeps
  <1>1. CASE Fail(p, id)
    BY <1>1, FailKeeps
  <1>2. CASE h \in DOMAIN socks /\ ParkOn(p, id, op, h, socks[h], 0) /\ UNCHANGED <<completions, sockVars>>
    <2>1. 0 \in 0..WriteLen
      BY NetBridgeAssumption
    <2> QED
      BY <1>2, <2>1, Waiting
  <1>3. CASE Complete(id, "ok", 0) /\ pending' = p /\ UNCHANGED sockVars
    BY <1>3, Answered
  <1>4. CASE Alloc /\ Complete(id, "ok", nextHandle') /\ pending' = p
    BY <1>4, AnsweredWithNewHandle
  <1> QED
    BY <1>1, <1>2, <1>3, <1>4 DEF Transfer

LEMMA WriteKeeps ==
  ASSUME Core, NEW p, NEW id \in Id, Serving(p, id), NEW h \in DOMAIN socks, Open2All(h, id),
         NEW left \in 0..WriteLen, WriteAll(p, id, h, left), UNCHANGED hostVars
  PROVE  Keeps
  <1>1. PICK sent \in 0..left :
          /\ UNCHANGED sockVars
          /\ IF sent = left
             THEN Complete(id, "ok", 0) /\ pending' = p
             ELSE \/ Fail(p, id)
                  \/ ParkOn(p, id, "write", h, socks[h], left - sent) /\ UNCHANGED completions
    BY DEF WriteAll
  <1>2. CASE Complete(id, "ok", 0) /\ pending' = p
    BY <1>1, <1>2, Answered
  <1>3. CASE Fail(p, id)
    BY <1>3, FailKeeps
  <1>4. CASE ParkOn(p, id, "write", h, socks[h], left - sent) /\ UNCHANGED completions
    <2>1. left - sent \in 0..WriteLen
      BY NetBridgeAssumption
    <2> QED
      BY <1>1, <1>4, <2>1, Waiting
  <1> QED
    BY <1>1, <1>2, <1>3, <1>4

\* A handle is closed, with its descriptor and with every guest's request parked on it.
LEMMA ParkingAfterRemoval ==
  ASSUME Core, NEW h \in DOMAIN socks, UNCHANGED <<nextHandle, hostHandle, told>>,
         DOMAIN socks' = DOMAIN socks \ {h}, \A k \in DOMAIN socks' : socks'[k] = socks[k],
         \A j \in DOMAIN pending' : j \in DOMAIN pending /\ pending'[j] = pending[j],
         \A j \in DOMAIN pending' \ {kHostReadId} : pending[j].handle # h,
         hostFd' = hostFd \/ kHostReadId \notin DOMAIN pending' \/ h = hostHandle,
         Handles(completions)' = Handles(completions)
  PROVE  Parking'
  <1> DEFINE X == {}
  <1>1. Public' = Public \union X
    BY DEF Public
  <1>2. X \in SUBSET Nat /\ X \subseteq 1..nextHandle' /\ hostHandle' \notin X
    OBVIOUS
  <1>3. \A j \in DOMAIN pending' \ {kHostReadId} :
          /\ pending[j].handle \in DOMAIN socks'
          /\ socks'[pending[j].handle] = socks[pending[j].handle]
          /\ pending[j].op = "connect" => pending[j].handle \notin X
    BY DEF Core, Parking, ParkedOnOwnSocket
  <1>4. kHostReadId \in DOMAIN pending' /\ pending[kHostReadId].handle \in DOMAIN socks'
          => hostFd' # 0 /\ pending[kHostReadId].handle = hostHandle'
    BY DEF Core, Parking, SentinelReadsHost
  <1>5. nextHandle' \in Nat /\ nextHandle <= nextHandle'
    BY DEF Core, Sockets
  <1>6. \A k \in DOMAIN socks' : k \in DOMAIN socks \/ k > nextHandle
    OBVIOUS
  <1> HIDE DEF X
  <1> QED
    BY <1>1, <1>2, <1>3, <1>4, <1>5, <1>6, FewerParked

LEMMA FinishConnectKeeps ==
  ASSUME Core, NEW id \in DOMAIN pending, pending[id].op = "connect",
         pending[id].handle \in DOMAIN socks, UNCHANGED <<nextId, told, taken, hostVars>>,
         FinishConnect(Without(pending, {id}), id, pending[id].handle, pending[id].fd)
  PROVE  Keeps
  <1> DEFINE p == Without(pending, {id})
             h == pending[id].handle
  <1>1. Serving(p, id) /\ pending' = p
    BY ParkedIsServed DEF FinishConnect
  <1>2. id \in Guests /\ id # kHostReadId
    BY DEF Core, Parking, SentinelReadsHost, Guests
  <1>3. h \in DOMAIN socks /\ socks[h] = pending[id].fd /\ Open2All(h, id)
    BY <1>2, OwnHandle DEF Core, Parking, ParkedOnOwnSocket
  <1>4. FinishConnect(p, id, h, socks[h])
    BY <1>3
  <1>5. CASE Complete(id, "ok", h) /\ UNCHANGED sockVars
    <2> HIDE DEF p, h
    <2> QED
      BY <1>1, <1>3, <1>5, Answered
  <1>6. CASE Complete(id, "error", 0) /\ DropAndClose(socks[h])
    <2>1. socks' = Without(socks, {h}) /\ open' = open \ {socks[h]} /\ UNCHANGED nextHandle
      BY <1>3, <1>6, DropIsRemoval DEF Core
    <2>2. h # hostHandle
      BY <1>3 DEF Open2All
    <2>3. /\ Sockets' /\ DOMAIN socks' = DOMAIN socks \ {h}
          /\ \A k \in DOMAIN socks' : socks'[k] = socks[k]
      BY <1>3, <2>1, <2>2, Removed DEF Core, hostVars
    <2>4. Places' /\ Held \subseteq Held' /\ Handles(completions)' = Handles(completions) \union ({0} \ {0})
      <3> HIDE DEF p, h
      <3> QED
        BY <1>1, <1>6, AnsweredPlaces DEF hostVars
    <2>5. \A j \in DOMAIN pending' : j \in DOMAIN pending /\ j # id /\ pending'[j] = pending[j]
      BY <1>1 DEF Serving
    <2>6. \A j \in DOMAIN pending' : pending[j].handle # h
      BY <1>2, <2>5 DEF Core, Parking, Private
    <2>7. Parking'
      <3> HIDE DEF p, h
      <3> QED
        BY <1>3, <2>1, <2>3, <2>4, <2>5, <2>6, ParkingAfterRemoval DEF hostVars
    <2>8. HostOwesWaiting'
      BY HostStays DEF hostVars
    <2> QED
      BY <2>3, <2>4, <2>7, <2>8 DEF Keeps, Core
  <1> QED
    BY <1>4, <1>5, <1>6 DEF FinishConnect

-----------------------------------------------------------------------------
(* The guest's requests *)

LEMMA DialKeeps ==
  ASSUME Core, Dial
  PROVE  Keeps
  <1>1. Serving(pending, nextId') /\ nextId' \in Id /\ UNCHANGED hostVars
    BY NewIsServed DEF Dial
  <1>2. CASE Fail(pending, nextId')
    BY <1>1, <1>2, FailKeeps
  <1>3. CASE Alloc /\ Complete(nextId', "ok", nextHandle') /\ UNCHANGED pending
    BY <1>1, <1>3, AnsweredWithNewHandle
  <1>4. CASE /\ Alloc /\ ParkOn(pending, nextId', "connect", nextHandle', NewFd, 0)
             /\ UNCHANGED completions
    BY <1>1, <1>4, Connecting
  <1> QED
    BY <1>2, <1>3, <1>4 DEF Dial

LEMMA ListenKeeps ==
  ASSUME Core, Listen
  PROVE  Keeps
  <1>1. Serving(pending, nextId') /\ UNCHANGED hostVars
    BY NewIsServed DEF Listen
  <1>2. CASE Fail(pending, nextId')
    BY <1>1, <1>2, FailKeeps
  <1>3. CASE Alloc /\ Complete(nextId', "ok", nextHandle') /\ UNCHANGED pending
    BY <1>1, <1>3, AnsweredWithNewHandle
  <1> QED
    BY <1>2, <1>3 DEF Listen

LEMMA BindProbeKeeps ==
  ASSUME Core, BindProbe
  PROVE  Keeps
  <1>1. Serving(pending, nextId') /\ UNCHANGED hostVars
    BY NewIsServed DEF BindProbe
  <1>2. CASE Fail(pending, nextId')
    BY <1>1, <1>2, FailKeeps
  <1>3. CASE Complete(nextId', "ok", 0) /\ UNCHANGED <<pending, sockVars>>
    BY <1>1, <1>3, Answered
  <1> QED
    BY <1>2, <1>3 DEF BindProbe

LEMMA AcceptReadWriteKeep ==
  ASSUME Core, NEW h \in told, Accept(h) \/ Read(h) \/ Write(h)
  PROVE  Keeps
  <1>1. Serving(pending, nextId') /\ nextId' \in Id /\ UNCHANGED hostVars
    BY NewIsServed DEF Accept, Read, Write
  <1>2. Open2All(h, nextId')
    BY GuestHandle
  <1>3. CASE Accept(h)
    BY <1>1, <1>2, <1>3, TransferKeeps DEF Accept
  <1>4. CASE Read(h)
    BY <1>1, <1>2, <1>4, TransferKeeps DEF Read
  <1>5. CASE Write(h)
    <2>1. CASE Fail(pending, nextId')
      BY <1>1, <2>1, FailKeeps
    <2>2. CASE h \in DOMAIN socks /\ WriteAll(pending, nextId', h, WriteLen)
      <3>1. WriteLen \in 0..WriteLen
        BY NetBridgeAssumption
      <3> QED
        BY <1>1, <1>2, <2>2, <3>1, WriteKeeps
    <2> QED
      BY <1>5, <2>1, <2>2 DEF Write
  <1> QED
    BY <1>3, <1>4, <1>5

\* The requests parked on the descriptor are completed before the close itself.
LEMMA CloseHandleKeeps ==
  ASSUME Core, NEW h \in told, CloseHandle(h)
  PROVE  Keeps
  <1>1. /\ Serving(pending, nextId') /\ nextId' \in Id /\ nextId' \notin DOMAIN pending
        /\ UNCHANGED hostVars
    BY NewIsServed DEF CloseHandle
  <1>2. CASE Fail(pending, nextId')
    BY <1>1, <1>2, FailKeeps
  <1>3. ASSUME h \in DOMAIN socks
        PROVE  Keeps
    <2> DEFINE ids == ParkedOn(socks[h])
    <2>1. PICK order \in [1..Cardinality(ids) -> ids] :
            /\ \A i, j \in DOMAIN order : order[i] = order[j] => i = j
            /\ completions' = completions
                 \o [i \in DOMAIN order |-> Done(order[i], "closed", 0)]
                 \o <<Done(nextId', "ok", 0)>>
            /\ pending' = Without(pending, ids)
            /\ open' = open \ {socks[h]} /\ socks' = Without(socks, {h}) /\ UNCHANGED nextHandle
      BY <1>3 DEF CloseHandle, Uncancelled
    <2> DEFINE d == [i \in DOMAIN order |-> Done(order[i], "closed", 0)]
               c == completions \o d
    <2>2. ids \in SUBSET DOMAIN pending /\ ids \in SUBSET (Id \union {kHostReadId})
      BY DEF ParkedOn, Core, Parking
    <2>3. d \in Seq(Completion) /\ Distinct(d) /\ Ids(d) = ids /\ Handles(d) = {}
      BY <2>1, <2>2, Batched
    <2>4. completions' = Append(c, Done(nextId', "ok", 0))
      <3>1. Done(nextId', "ok", 0) \in Completion
        BY <1>1 DEF Done, Completion
      <3>2. c \in Seq(Completion)
        BY <2>3, ConcatProperties DEF Core, Places
      <3> HIDE DEF d, c
      <3>3. c \o <<Done(nextId', "ok", 0)>> = Append(c, Done(nextId', "ok", 0))
        BY <3>1, <3>2, AppendIsConcat
      <3> QED
        BY <2>1, <3>3 DEF c, d
    <2> HIDE DEF d
    <2>5. /\ DOMAIN pending' = DOMAIN pending \ ids
          /\ \A j \in DOMAIN pending' : pending'[j] = pending[j]
      BY <2>1 DEF Without, Restrict
    <2>6. h # hostHandle /\ Open2All(h, nextId')
      BY GuestHandle DEF Open2All
    <2>7. /\ Sockets' /\ DOMAIN socks' = DOMAIN socks \ {h}
          /\ \A k \in DOMAIN socks' : socks'[k] = socks[k]
      BY <1>1, <1>3, <2>1, <2>6, Removed DEF Core, hostVars
    <2>8. \A j \in DOMAIN pending' \ {kHostReadId} : j \in DOMAIN pending /\ pending[j].handle # h
      BY <2>5 DEF Core, Parking, ParkedOnOwnSocket, ParkedOn
    <2>9. /\ c \in Seq(Completion) /\ Distinct(c) /\ Ids(c) = Ids(completions) \union ids
          /\ Handles(c) = Handles(completions)
      <3>1. completions \in Seq(Completion) /\ Distinct(completions)
        BY DEF Core, Places
      <3>2. \A id \in Ids(completions) : id \in ids => id = kHostReadId
        BY <2>2 DEF Core, Places, Held, Guests
      <3>3. /\ c \in Seq(Completion) /\ Distinct(c) /\ Ids(c) = Ids(completions) \union Ids(d)
            /\ Handles(c) = Handles(completions) \union Handles(d)
        BY <2>3, <3>1, <3>2, Concatenated
      <3> QED
        BY <2>3, <3>3
    <2> HIDE DEF c, ids
    <2>10. nextId' \notin Ids(c) \ {kHostReadId} /\ nextId' # kHostReadId
      BY <1>1, <2>2, <2>9, Sentinel0 DEF Serving, Held
    <2>11. /\ completions' \in Seq(Completion) /\ Distinct(completions')
           /\ Ids(completions') = Ids(completions) \union ids \union {nextId'}
           /\ Handles(completions') = Handles(completions)
      <3>1. /\ completions' \in Seq(Completion) /\ Distinct(completions')
            /\ Ids(completions') = Ids(c) \union {nextId'}
            /\ Handles(completions') = Handles(c) \union ({0} \ {0})
        BY <1>1, <2>4, <2>9, <2>10, Appended
      <3> QED
        BY <2>9, <3>1
    <2>12. Held' = Held \union (ids \ {kHostReadId}) \union {nextId'}
      BY <2>10, <2>11 DEF Held
    <2>13. Guests' = Guests \ ids
      BY <2>5 DEF Guests
    <2>14. 1..nextId' = Held' \union Guests' \union hostWait' \union taken'
      <3>1. /\ 1..nextId' = 1..nextId \union {nextId'}
            /\ 1..nextId = Held \union Guests \union hostWait \union taken
            /\ hostWait' = hostWait /\ taken' = taken
            /\ ids \ {kHostReadId} \subseteq Guests /\ kHostReadId \notin Guests
        BY <1>1, <2>2, <2>10 DEF Core, Places, Serving, hostVars, Guests
      <3> QED
        BY <2>12, <2>13, <3>1
    <2>15. Places'
      <3>1. /\ nextId' \notin Guests \union hostWait \union taken
            /\ ids \ {kHostReadId} \subseteq Guests
            /\ hostWait' = hostWait /\ taken' = taken /\ nextId' \in 0..MaxReq
        BY <1>1, <2>2 DEF Serving, hostVars, Guests
      <3>2. kHostReadId \notin Guests
        BY DEF Guests
      <3> QED
        BY <2>11, <2>12, <2>13, <2>14, <3>1, <3>2 DEF Core, Places
    <2>16. Parking'
      BY <1>1, <1>3, <2>1, <2>5, <2>7, <2>8, <2>11, ParkingAfterRemoval DEF hostVars, Serving
    <2>17. HostOwesWaiting' /\ UNCHANGED taken
      BY <1>1, HostStays DEF hostVars, Serving
    <2> QED
      BY <2>7, <2>12, <2>15, <2>16, <2>17 DEF Keeps, Core
  <1> QED
    BY <1>2, <1>3 DEF CloseHandle

\* HostCall's two ways to a connection, and its sentinel.
LEMMA HostCallKeeps ==
  ASSUME Core, HostCall
  PROVE  Keeps
  <1>1. /\ Serving(pending, nextId') /\ nextId' = nextId + 1
        /\ nextId' \in Id /\ nextId' \notin DOMAIN pending
        /\ UNCHANGED <<completions, told, taken>>
    BY NewIsServed DEF HostCall, Serving
  <1>2. PICK fd \in 1..MaxFd, h \in 1..(nextHandle + 1) :
          HostConnected(fd, h) /\ hostFd' = fd /\ hostHandle' = h /\ pending' = Sentinel(h, fd)
    BY DEF HostCall
  <1>3. hostFd' # 0
    BY <1>2, NetBridgeAssumption
  <1>4. /\ Sockets' /\ nextHandle' \in Nat /\ nextHandle <= nextHandle'
        /\ \A k \in DOMAIN socks : k \in DOMAIN socks' /\ socks'[k] = socks[k]
        /\ \A k \in DOMAIN socks' : k \in DOMAIN socks \/ k > nextHandle
        /\ h \in DOMAIN socks' /\ h \in Handle /\ h <= nextHandle'
        /\ \/ hostFd # 0 /\ h = hostHandle
           \/ hostFd = 0 /\ h = nextHandle' /\ h > nextHandle
    <2>1. CASE hostFd # 0 /\ fd = hostFd /\ h = hostHandle /\ UNCHANGED sockVars
      <3>1. Sockets' /\ nextHandle' = nextHandle /\ nextHandle \in Nat /\ h \in DOMAIN socks
        BY <1>2, <2>1 DEF Core, Sockets, HandlesMatchDescriptors, sockVars
      <3> QED
        BY <1>2, <2>1, <3>1, OpenFds DEF Core, sockVars, Handle
    <2>2. CASE hostFd = 0 /\ FdFree /\ fd = NewFd /\ h = nextHandle + 1 /\ Alloc
      <3>1. /\ nextHandle' = nextHandle + 1 /\ nextHandle \in Nat
            /\ DOMAIN socks' = DOMAIN socks \union {nextHandle'}
            /\ \A k \in DOMAIN socks : socks'[k] = socks[k]
            /\ hostFd' = NewFd /\ hostHandle' = nextHandle' => Sockets'
        BY <2>2, Allocated DEF Core, Sockets
      <3> QED
        BY <1>2, <2>2, <3>1 DEF Handle
    <2> QED
      BY <1>2, <2>1, <2>2 DEF HostConnected
  <1>5. hostWait' = hostWait \union {nextId'} /\ Held' = Held
    BY <1>1 DEF HostCall, Held
  <1>6. /\ \A j \in DOMAIN pending : j \in DOMAIN pending' /\ pending'[j] = pending[j]
        /\ DOMAIN pending' = DOMAIN pending \union {kHostReadId}
        /\ kHostReadId \notin DOMAIN pending => pending'[kHostReadId] = [op |-> "hostread", handle |-> h, fd |-> fd, left |-> 0]
    BY <1>2 DEF Sentinel, With
  <1>7. Guests' = Guests
    BY <1>6 DEF Guests
  <1>8. Places'
    <2>1. 1..nextId' = 1..nextId \union {nextId'} /\ nextId' \in 0..MaxReq
          /\ nextId' \notin Held \union Guests \union hostWait \union taken
      BY <1>1, Sentinel0 DEF Serving, Guests
    <2> QED
      BY <1>1, <1>5, <1>7, <2>1 DEF Core, Places
  <1>9. HostOwesWaiting'
    BY <1>1, <1>5 DEF Core, HostOwesWaiting, HostCall
  <1>10. Public' = Public
    BY <1>1 DEF Public
  <1>11. Parking'
    <2>1. \A j \in DOMAIN pending : pending[j] \in Parked /\ pending[j].handle \in Nat /\ pending[j].handle <= nextHandle
      BY TypedEntries DEF Core, Sockets
    <2>2. /\ DOMAIN pending' \subseteq Id \union {kHostReadId}
          /\ \A j \in DOMAIN pending' : pending'[j] \in Parked /\ pending'[j].handle <= nextHandle'
      <3>1. [op |-> "hostread", handle |-> h, fd |-> fd, left |-> 0] \in Parked
        BY <1>4, NetBridgeAssumption DEF Parked
      <3>2. nextHandle \in Nat
        BY TypedEntries
      <3> QED
        BY <1>4, <1>6, <2>1, <3>1, <3>2 DEF Core, Parking
    <2>3. Public' \subseteq 1..nextHandle'
      BY <1>4, <1>10, TypedEntries
    <2>4. ParkedOnOwnSocket'
      BY <1>4, <1>6 DEF Core, Parking, ParkedOnOwnSocket
    <2>5. hostHandle' \notin Public'
      BY <1>2, <1>4, <1>10, TypedEntries DEF Core, Parking, Private
    <2>6. \A j \in Guests' : pending'[j].handle # hostHandle'
      <3>1. \A j \in Guests : pending[j].handle # hostHandle /\ pending[j].handle <= nextHandle
                              /\ j \in DOMAIN pending /\ pending[j].handle \in Nat
        BY <2>1 DEF Core, Parking, Private, Guests
      <3> QED
        BY <1>2, <1>4, <1>6, <1>7, <3>1, TypedEntries
    <2>7. ASSUME NEW j \in Guests', pending'[j].op = "connect"
          PROVE  /\ pending'[j].handle \notin Public'
                 /\ \A i \in DOMAIN pending' \ {j} : pending'[i].handle # pending'[j].handle
      <3>1. j \in Guests /\ pending'[j] = pending[j] /\ pending[j].op = "connect"
        BY <1>6, <1>7, <2>7 DEF Guests
      <3>2. /\ pending[j].handle \notin Public
            /\ \A i \in DOMAIN pending \ {j} : pending[i].handle # pending[j].handle
        BY <3>1 DEF Core, Parking, Private
      <3>3. kHostReadId \notin DOMAIN pending => pending'[kHostReadId].handle # pending'[j].handle
        BY <1>2, <1>6, <2>6, <2>7
      <3> QED
        BY <1>6, <1>10, <3>1, <3>2, <3>3
    <2>8. SentinelReadsHost'
      <3>1. \A j \in DOMAIN pending' : pending'[j].op = "hostread" <=> j = kHostReadId
        BY <1>6 DEF Core, Parking, SentinelReadsHost
      <3>2. pending'[kHostReadId].handle \in DOMAIN socks' => pending'[kHostReadId].handle = hostHandle'
        <4>1. CASE kHostReadId \notin DOMAIN pending
          BY <1>2, <1>6, <4>1
        <4>2. CASE kHostReadId \in DOMAIN pending
          <5>1. pending'[kHostReadId] = pending[kHostReadId]
            BY <1>6, <4>2
          <5>2. pending[kHostReadId].handle \in DOMAIN socks' => pending[kHostReadId].handle \in DOMAIN socks
            BY <1>4, <2>1, <4>2, TypedEntries
          <5>3. pending[kHostReadId].handle \in DOMAIN socks => hostFd # 0 /\ pending[kHostReadId].handle = hostHandle
            BY <4>2 DEF Core, Parking, SentinelReadsHost
          <5> QED
            BY <1>2, <1>4, <5>1, <5>2, <5>3
        <4> QED
          BY <4>1, <4>2
      <3> QED
        BY <1>3, <3>1, <3>2 DEF SentinelReadsHost
    <2> QED
      BY <2>2, <2>3, <2>4, <2>5, <2>6, <2>7, <2>8 DEF Parking, Private
  <1> QED
    BY <1>1, <1>4, <1>5, <1>8, <1>9, <1>11 DEF Keeps, Core

LEMMA HostUnreachableKeeps ==
  ASSUME Core, HostUnreachable
  PROVE  Keeps
  BY NewIsServed, FailKeeps DEF HostUnreachable

\* The connection goes, with its handle, and its sentinel is left without a socket.
LEMMA HostSendFailsKeeps ==
  ASSUME Core, HostSendFails
  PROVE  Keeps
  <1>1. /\ Serving(pending, nextId') /\ UNCHANGED <<pending, hostWait, owed, told, taken>>
        /\ Complete(nextId', "error", 0) /\ hostFd' = 0
    BY NewIsServed DEF HostSendFails, Serving
  <1>2. Places' /\ Held \subseteq Held' /\ Handles(completions)' = Handles(completions) \union ({0} \ {0})
    BY <1>1, AnsweredPlaces
  <1>3. HostOwesWaiting'
    BY <1>1 DEF Core, HostOwesWaiting
  <1>4. Public' = Public
    BY <1>1, <1>2 DEF Public
  <1>5. CASE hostFd # 0 /\ DropAndClose(hostFd) /\ UNCHANGED hostHandle
    <2>1. hostHandle \in DOMAIN socks /\ socks[hostHandle] = hostFd
      BY <1>5 DEF Core, Sockets, HandlesMatchDescriptors
    <2>2. /\ socks' = Without(socks, {hostHandle}) /\ open' = open \ {socks[hostHandle]}
          /\ UNCHANGED nextHandle
      BY <1>5, <2>1, DropIsRemoval DEF Core
    <2>3. /\ Sockets' /\ DOMAIN socks' = DOMAIN socks \ {hostHandle}
          /\ \A k \in DOMAIN socks' : socks'[k] = socks[k]
      BY <1>1, <1>5, <2>1, <2>2, Removed DEF Core
    <2>4. \A j \in DOMAIN pending' \ {kHostReadId} : pending[j].handle # hostHandle
      BY <1>1 DEF Core, Parking, Private, Guests
    <2>5. Parking'
      BY <1>1, <1>2, <1>5, <2>1, <2>2, <2>3, <2>4, ParkingAfterRemoval
    <2> QED
      BY <1>1, <1>2, <1>3, <2>3, <2>5 DEF Keeps, Core
  <1>6. CASE /\ hostFd = 0 /\ FdFree /\ nextHandle' = nextHandle + 1
             /\ hostHandle' = nextHandle' /\ UNCHANGED <<socks, open>>
    <2>1. nextHandle \in Nat /\ nextHandle' \in Nat /\ nextHandle <= nextHandle' /\ hostHandle' > nextHandle
      BY <1>6 DEF Core, Sockets
    <2>2. Sockets'
      BY <1>1, <1>6, <2>1, NetBridgeAssumption DEF Core, Sockets, HandlesMatchDescriptors
    <2>3. kHostReadId \in DOMAIN pending' => pending[kHostReadId].handle \notin DOMAIN socks'
      BY <1>1, <1>6 DEF Core, Parking, SentinelReadsHost
    <2>4. \A j \in DOMAIN pending' \ {kHostReadId} :
            pending[j].handle \in DOMAIN socks' /\ socks'[pending[j].handle] = socks[pending[j].handle]
      BY <1>1, <1>6 DEF Core, Parking, ParkedOnOwnSocket
    <2> DEFINE X == {}
    <2>5. Public' \subseteq Public \union X /\ X \in SUBSET Nat /\ X \subseteq 1..nextHandle' /\ hostHandle' \notin X
      BY <1>4
    <2>6. \A j : j \notin X
      OBVIOUS
    <2> HIDE DEF X
    <2>7. Parking'
      BY <1>1, <1>6, <2>1, <2>3, <2>4, <2>5, <2>6, FewerParked
    <2> QED
      BY <1>1, <1>2, <1>3, <2>2, <2>7 DEF Keeps, Core
  <1> QED
    BY <1>5, <1>6 DEF HostSendFails

-----------------------------------------------------------------------------
(* pump() *)

\* The sentinel left pending_ and its connection is the present one.
LEMMA HostReadKeeps ==
  ASSUME Core, kHostReadId \in DOMAIN pending, pending[kHostReadId].handle \in DOMAIN socks,
         HostRead(Without(pending, {kHostReadId})), UNCHANGED <<nextId, told, taken>>
  PROVE  Keeps
  <1> DEFINE p == Without(pending, {kHostReadId})
  <1>1. /\ hostFd # 0 /\ hostHandle \in DOMAIN socks /\ socks[hostHandle] = hostFd
        /\ pending[kHostReadId].handle = hostHandle
    BY DEF Core, Parking, SentinelReadsHost, Sockets, HandlesMatchDescriptors
  <1>2. /\ DOMAIN p = DOMAIN pending \ {kHostReadId}
        /\ \A j \in DOMAIN p : p[j] = pending[j]
    BY DEF Without, Restrict
  <1>3. hostWait \subseteq Id /\ owed \subseteq hostWait
    BY <1>1, HostIsNoRequest DEF Core, HostOwesWaiting
  <1> HIDE DEF p
  <1>4. ASSUME NEW order \in [1..Cardinality(hostWait) -> hostWait],
               \A i, j \in DOMAIN order : order[i] = order[j] => i = j,
               completions' = completions \o [i \in DOMAIN order |-> Done(order[i], "error", 0)],
               hostWait' = {}, DropAndClose(hostFd), hostFd' = 0, pending' = p,
               UNCHANGED <<hostHandle, owed>>
        PROVE  Keeps
    <2> DEFINE d == [i \in DOMAIN order |-> Done(order[i], "error", 0)]
    <2>0. hostWait \in SUBSET (Id \union {kHostReadId})
      BY <1>3
    <2>1. d \in Seq(Completion) /\ Distinct(d) /\ Ids(d) = hostWait /\ Handles(d) = {}
      BY <1>4, <2>0, Batched
    <2> HIDE DEF d
    <2>2. completions' = completions \o d
      BY <1>4 DEF d
    <2>3. Guests' = Guests
      BY <1>2, <1>4 DEF Guests
    <2>4. /\ hostWait \in SUBSET (Id \union {kHostReadId})
          /\ Guests' \union hostWait' = (Guests \union hostWait) \ hostWait
          /\ Guests' \subseteq Guests /\ hostWait' \subseteq hostWait
          /\ hostWait \ {kHostReadId} \subseteq Guests \union hostWait
      BY <1>3, <1>4, <2>3 DEF Core, Places
    <2>5. Places' /\ Held \subseteq Held' /\ Handles(completions)' = Handles(completions)
      BY <2>1, <2>2, <2>4, BatchPlaces
    <2>6. /\ socks' = Without(socks, {hostHandle}) /\ open' = open \ {socks[hostHandle]}
          /\ UNCHANGED nextHandle
      BY <1>1, <1>4, DropIsRemoval DEF Core
    <2>7. /\ Sockets' /\ DOMAIN socks' = DOMAIN socks \ {hostHandle}
          /\ \A k \in DOMAIN socks' : socks'[k] = socks[k]
      BY <1>1, <1>4, <2>6, Removed DEF Core
    <2>8. \A j \in DOMAIN pending' \ {kHostReadId} : pending[j].handle # hostHandle
      BY <1>2, <1>4 DEF Core, Parking, Private, Guests
    <2>9. Parking'
      BY <1>1, <1>2, <1>4, <2>5, <2>6, <2>7, <2>8, ParkingAfterRemoval
    <2>10. HostOwesWaiting'
      BY <1>4 DEF Core, HostOwesWaiting
    <2> QED
      BY <2>5, <2>7, <2>9, <2>10 DEF Keeps, Core
  <1>5. ASSUME NEW ids \in SUBSET owed, NEW order \in [1..Cardinality(ids) -> ids],
               \A i, j \in DOMAIN order : order[i] = order[j] => i = j,
               completions' = completions \o [i \in DOMAIN order |-> Done(order[i], "ok", 0)],
               owed' = owed \ ids, hostWait' = hostWait \ ids,
               pending' = IF hostWait \ ids # {}
                          THEN With(p, kHostReadId, [op |-> "hostread", handle |-> hostHandle,
                                                     fd |-> hostFd, left |-> 0])
                          ELSE p,
               UNCHANGED <<hostFd, hostHandle, sockVars>>
        PROVE  Keeps
    <2> DEFINE d == [i \in DOMAIN order |-> Done(order[i], "ok", 0)]
               e == [op |-> "hostread", handle |-> hostHandle, fd |-> hostFd, left |-> 0]
    <2>1. ids \in SUBSET (Id \union {kHostReadId}) /\ kHostReadId \notin ids /\ ids \subseteq hostWait
      BY <1>3, Sentinel0
    <2>2. d \in Seq(Completion) /\ Distinct(d) /\ Ids(d) = ids /\ Handles(d) = {}
      BY <1>5, <2>1, Batched
    <2> HIDE DEF d
    <2>3. completions' = completions \o d
      BY <1>5 DEF d
    <2>4. /\ DOMAIN pending' \subseteq DOMAIN pending
          /\ \A j \in DOMAIN pending' \ {kHostReadId} : pending'[j] = pending[j]
          /\ \A j \in DOMAIN pending \ {kHostReadId} : j \in DOMAIN pending'
          /\ kHostReadId \in DOMAIN pending' => pending'[kHostReadId] = e
      BY <1>2, <1>5 DEF With
    <2>5. Guests' = Guests
      BY <2>4 DEF Guests
    <2>6. /\ Guests' \union hostWait' = (Guests \union hostWait) \ ids
          /\ Guests' \subseteq Guests /\ hostWait' \subseteq hostWait
          /\ ids \ {kHostReadId} \subseteq Guests \union hostWait
      BY <1>5, <2>1, <2>5 DEF Core, Places
    <2>7. Places' /\ Held \subseteq Held' /\ Handles(completions)' = Handles(completions)
      BY <2>1, <2>2, <2>3, <2>6, BatchPlaces
    <2>8. Sockets'
      BY <1>5 DEF Core, Sockets, HandlesMatchDescriptors, sockVars
    <2>9. Public' = Public
      BY <2>7 DEF Public
    <2>10. HostOwesWaiting'
      BY <1>3, <1>5 DEF Core, HostOwesWaiting
    <2>11. e \in Parked /\ e.op = "hostread" /\ e.handle = hostHandle
      <3>1. hostHandle \in Handle /\ hostFd \in 1..MaxFd /\ 0 \in 0..WriteLen
        BY <1>1, OpenFds, NetBridgeAssumption DEF Core, Sockets, Handle
      <3> QED
        BY <3>1 DEF Parked
    <2> HIDE DEF e
    <2>12. Parking'
      <3>1. /\ DOMAIN pending' \subseteq Id \union {kHostReadId}
            /\ \A id \in DOMAIN pending' : pending'[id] \in Parked /\ pending'[id].handle <= nextHandle'
        BY <1>5, <2>4, <2>11, TypedEntries DEF Core, Parking, sockVars
      <3>2. Public' \subseteq 1..nextHandle' /\ ParkedOnOwnSocket'
        BY <1>5, <2>4, <2>9 DEF Core, Parking, ParkedOnOwnSocket, sockVars
      <3>3. hostHandle' \notin Public' /\ \A id \in Guests' : pending'[id].handle # hostHandle'
        BY <1>5, <2>4, <2>5, <2>9 DEF Core, Parking, Private, Guests
      <3>4. ASSUME NEW id \in Guests', pending'[id].op = "connect"
            PROVE  /\ pending'[id].handle \notin Public'
                   /\ \A j \in DOMAIN pending' \ {id} : pending'[j].handle # pending'[id].handle
        <4>1. id \in Guests /\ pending'[id] = pending[id]
          BY <2>4, <2>5, <3>4 DEF Guests
        <4>2. /\ pending[id].handle \notin Public /\ pending[id].handle # hostHandle
              /\ \A j \in DOMAIN pending \ {id} : pending[j].handle # pending[id].handle
          BY <3>4, <4>1 DEF Core, Parking, Private
        <4> QED
          BY <2>4, <2>9, <2>11, <4>1, <4>2
      <3>5. SentinelReadsHost'
        BY <1>1, <1>5, <2>4, <2>11 DEF Core, Parking, SentinelReadsHost
      <3> QED
        BY <3>1, <3>2, <3>3, <3>4, <3>5 DEF Parking, Private
    <2> QED
      BY <2>7, <2>8, <2>10, <2>12 DEF Keeps, Core
  <1> QED
    BY <1>4, <1>5 DEF HostRead, HostWaitFailed, p

LEMMA Unchanged ==
  ASSUME Core, UNCHANGED <<nextId, reqVars, sockVars, hostVars, told, taken>>
  PROVE  Keeps
  <1>1. Places' /\ Held' = Held
    BY DEF Core, Places, Held, Guests, reqVars, hostVars
  <1>2. Sockets' /\ HostOwesWaiting'
    BY DEF Core, Sockets, HandlesMatchDescriptors, HostOwesWaiting, sockVars, hostVars
  <1>3. Parking'
    BY DEF Core, Parking, ParkedOnOwnSocket, Private, SentinelReadsHost, Public, Guests,
           reqVars, sockVars, hostVars
  <1> QED
    BY <1>1, <1>2, <1>3 DEF Keeps, Core

LEMMA ResumeOneKeeps ==
  ASSUME Core, NEW id, ResumeOne(id)
  PROVE  Keeps
  <1>1. UNCHANGED <<nextId, told, taken>>
    BY DEF ResumeOne
  <1>2. CASE id \notin DOMAIN pending
    BY <1>2, Unchanged DEF ResumeOne
  <1>3. CASE id \in DOMAIN pending
    <2> DEFINE p == Without(pending, {id})
               h == pending[id].handle
    <2>1. Serving(p, id)
      BY <1>1, <1>3, ParkedIsServed
    <2>2. pending[id] \in Parked /\ pending[id].left \in 0..WriteLen
      BY <1>3 DEF Core, Parking, Parked
    <2>3. id # kHostReadId => id \in Guests /\ id \in Id /\ Open2All(h, id)
      BY <1>3, OwnHandle DEF Guests, Core, Parking
    <2>4. pending[id].op = "hostread" <=> id = kHostReadId
      BY <1>3 DEF Core, Parking, SentinelReadsHost
    <2>5. CASE Fail(p, id) /\ UNCHANGED hostVars
      <3> HIDE DEF p
      <3> QED
        BY <2>1, <2>5, FailKeeps
    <2>6. CASE /\ h \in DOMAIN socks /\ pending[id].op = "connect"
               /\ FinishConnect(p, id, h, pending[id].fd) /\ UNCHANGED hostVars
      BY <1>1, <1>3, <2>6, FinishConnectKeeps
    <2>7. CASE /\ h \in DOMAIN socks /\ pending[id].op \in {"accept", "read"}
               /\ Transfer(p, id, pending[id].op, h) /\ UNCHANGED hostVars
      <3>1. id \in Id /\ Open2All(h, id)
        BY <2>3, <2>4, <2>7
      <3> HIDE DEF p, h
      <3> QED
        BY <2>1, <2>7, <3>1, TransferKeeps
    <2>8. CASE /\ h \in DOMAIN socks /\ pending[id].op = "write"
               /\ WriteAll(p, id, h, pending[id].left) /\ UNCHANGED hostVars
      <3>1. id \in Id /\ Open2All(h, id)
        BY <2>3, <2>4, <2>8
      <3> HIDE DEF p, h
      <3> QED
        BY <2>1, <2>2, <2>8, <3>1, WriteKeeps
    <2>9. CASE h \in DOMAIN socks /\ pending[id].op = "hostread" /\ HostRead(p)
      BY <1>1, <1>3, <2>4, <2>9, HostReadKeeps
    <2> QED
      BY <1>3, <2>5, <2>6, <2>7, <2>8, <2>9 DEF ResumeOne
  <1> QED
    BY <1>2, <1>3

LEMMA WaitTimeoutKeeps ==
  ASSUME Core, WaitTimeout
  PROVE  Keeps
  <1>1. PICK id \in DOMAIN pending :
          Complete(id, "timeout", 0) /\ pending' = Without(pending, {id})
    BY DEF WaitTimeout
  <1>2. Serving(Without(pending, {id}), id)
    BY ParkedIsServed DEF WaitTimeout
  <1>3. UNCHANGED <<sockVars, hostVars>>
    BY DEF WaitTimeout
  <1> QED
    BY <1>1, <1>2, <1>3, Answered

\* The first completion is handed to the scheduler.
LEMMA PopKeeps ==
  ASSUME Core, Pop, completions # <<>>
  PROVE  /\ Core' /\ UNCHANGED nextId
         /\ \/ UNCHANGED <<Held, taken>>
            \/ \E id \in Held : Held' = Held \ {id} /\ taken' = taken \union {id}
  <1> DEFINE e == Head(completions)
  <1>1. /\ completions' = Tail(completions)
        /\ taken' = taken \union ({e.id} \ {kHostReadId})
        /\ told' = told \union ({e.handle} \ {0})
        /\ UNCHANGED <<nextId, pending, sockVars, hostVars>>
    BY DEF Pop
  <1>2. /\ e \in Completion /\ e.id \in Ids(completions)
        /\ (e.handle # 0 => e.handle \in Handles(completions))
        /\ completions' \in Seq(Completion) /\ Distinct(completions')
        /\ Ids(completions') \ {kHostReadId} = Ids(completions) \ {kHostReadId, e.id}
        /\ Handles(completions') \subseteq Handles(completions)
    BY <1>1, FirstTaken DEF Core, Places
  <1> HIDE DEF e
  <1>3. Held' = Held \ {e.id} /\ (e.id # kHostReadId => e.id \in Held)
    BY <1>2 DEF Held
  <1>4. Guests' = Guests /\ hostWait' = hostWait
    BY <1>1 DEF Guests, hostVars
  <1>5. \/ UNCHANGED <<Held, taken>>
        \/ \E id \in Held : Held' = Held \ {id} /\ taken' = taken \union {id}
    <2>1. CASE e.id = kHostReadId
      BY <1>1, <1>3, <2>1 DEF Held
    <2>2. CASE e.id # kHostReadId
      BY <1>1, <1>3, <2>2
    <2> QED
      BY <2>1, <2>2
  <1>6. Places'
    <2>1. CASE e.id = kHostReadId
      <3>1. Held' = Held /\ taken' = taken
        BY <1>1, <1>3, <2>1 DEF Held
      <3> QED
        BY <1>1, <1>2, <1>4, <3>1 DEF Core, Places
    <2>2. CASE e.id # kHostReadId
      <3>1. Held' = Held \ {e.id} /\ taken' = taken \union {e.id} /\ e.id \in Held
        BY <1>1, <1>3, <2>2
      <3> QED
        BY <1>1, <1>2, <1>4, <3>1 DEF Core, Places
    <2> QED
      BY <2>1, <2>2
  <1>7. Sockets'
    BY <1>1 DEF Core, Sockets, HandlesMatchDescriptors, sockVars, hostVars
  <1>8. HostOwesWaiting'
    BY <1>1, HostStays DEF hostVars
  <1>9. Parking'
    <2>1. Public' \subseteq Public
      BY <1>1, <1>2 DEF Public
    <2>2. UNCHANGED <<pending, socks, nextHandle, hostFd, hostHandle>>
      BY <1>1 DEF sockVars, hostVars
    <2>3. Public' \subseteq 1..nextHandle' /\ hostHandle' \notin Public'
      BY <2>1, <2>2 DEF Core, Parking, Private
    <2>4. \A id \in Guests' : pending'[id].op = "connect" => pending'[id].handle \notin Public'
      BY <1>4, <2>1, <2>2 DEF Core, Parking, Private
    <2> QED
      BY <1>4, <2>2, <2>3, <2>4 DEF Core, Parking, ParkedOnOwnSocket, Private, SentinelReadsHost
  <1> QED
    BY <1>1, <1>5, <1>6, <1>7, <1>8, <1>9 DEF Core

-----------------------------------------------------------------------------
(* The theorems *)

LEMMA PendingFinite ==
  ASSUME Core
  PROVE  IsFiniteSet(DOMAIN pending) /\ Cardinality(DOMAIN pending) \in Nat
  <1>1. IsFiniteSet(1..MaxReq)
    BY NetBridgeAssumption, FS_Interval
  <1>2. IsFiniteSet(Id \union {kHostReadId})
    BY <1>1, FS_AddElement DEF Id
  <1> QED
    BY <1>2, FS_Subset, FS_CardinalityType DEF Core, Parking

LEMMA SubmitKeeps ==
  ASSUME Core, Submit
  PROVE  Keeps /\ nextId' = nextId + 1
  <1>1. CASE Dial
    BY <1>1, DialKeeps DEF Dial, NewRequest
  <1>2. CASE Listen
    BY <1>2, ListenKeeps DEF Listen, NewRequest
  <1>3. CASE BindProbe
    BY <1>3, BindProbeKeeps DEF BindProbe, NewRequest
  <1>4. ASSUME NEW h \in told, Accept(h) \/ Read(h) \/ Write(h) \/ CloseHandle(h)
        PROVE  Keeps /\ nextId' = nextId + 1
    BY <1>4, AcceptReadWriteKeep, CloseHandleKeeps
       DEF Accept, Read, Write, CloseHandle, NewRequest
  <1>5. CASE HostUnreachable
    BY <1>5, HostUnreachableKeeps DEF HostUnreachable, NewRequest
  <1>6. CASE HostCall
    BY <1>6, HostCallKeeps DEF HostCall, NewRequest
  <1>7. CASE HostSendFails
    BY <1>7, HostSendFailsKeeps DEF HostSendFails, NewRequest
  <1> QED
    BY <1>1, <1>2, <1>3, <1>4, <1>5, <1>6, <1>7 DEF Submit

\* What the thread does between requests, but for handing out a completion.
LEMMA ServeKeeps ==
  ASSUME Core, Serve \/ Quiet \/ UNCHANGED vars
  PROVE  \/ Keeps /\ UNCHANGED nextId
         \/ Pop /\ completions # <<>>
  <1>1. ASSUME NEW id \in toResume, ResumeOne(id)
        PROVE  Keeps /\ UNCHANGED nextId
    BY <1>1, ResumeOneKeeps DEF ResumeOne
  <1>2. CASE PollPump \/ PollNothing \/ WaitOne \/ WaitNoWork \/ WaitPump \/ WaitAgain
    BY <1>2, Unchanged DEF PollPump, PollNothing, WaitOne, WaitNoWork, WaitPump, WaitAgain
  <1>3. CASE WaitTimeout
    BY <1>3, WaitTimeoutKeeps DEF WaitTimeout
  <1>4. CASE PollOne \/ WaitPop
    BY <1>4 DEF PollOne, WaitPop
  <1>5. CASE Quiet \/ UNCHANGED vars
    BY <1>5, Unchanged DEF Quiet, vars
  <1> QED
    BY <1>1, <1>2, <1>3, <1>4, <1>5 DEF Serve

LEMMA NextPumpType ==
  ASSUME Invariant, [Next]_vars
  PROVE  PumpType'
  <1>1. CASE Submit
    BY <1>1 DEF Invariant, PumpType, Submit, Dial, Listen, BindProbe, Accept, Read, Write,
                CloseHandle, HostUnreachable, HostCall, HostSendFails, NewRequest
  <1>2. ASSUME NEW id \in toResume, ResumeOne(id)
        PROVE  PumpType'
    BY <1>2 DEF Invariant, PumpType, ResumeOne
  <1>3. CASE PollPump \/ WaitPump
    <2>1. PICK R \in SUBSET DOMAIN pending :
            \/ Pump(R, "poll") /\ UNCHANGED <<polled, idle>>
            \/ Pump(R, "pump") /\ UNCHANGED <<polled, idle>>
      BY <1>3 DEF PollPump, WaitPump
    <2>2. R \subseteq Id \union {kHostReadId} /\ Cardinality(DOMAIN pending) \in Nat
      BY PendingFinite DEF Invariant, Core, Parking
    <2> QED
      BY <2>1, <2>2 DEF Invariant, PumpType, Pump
  <1>4. CASE PollOne \/ WaitPop
    BY <1>4 DEF Invariant, PumpType, PollOne, WaitPop, Pop
  <1>5. CASE PollNothing \/ WaitOne \/ WaitNoWork
    <2>1. UNCHANGED <<toResume, before>> /\ (idle' = 0 \/ idle' = idle) /\ mode' \in {"guest", "wait"}
      BY <1>5 DEF PollNothing, WaitOne, WaitNoWork
    <2>2. polled' \in BOOLEAN
      BY <1>5 DEF Invariant, PumpType, PollNothing, WaitOne, WaitNoWork
    <2>3. 0 \in 0..MaxIdle
      BY NetBridgeAssumption
    <2> QED
      BY <2>1, <2>2, <2>3 DEF Invariant, PumpType
  <1>6. CASE WaitTimeout \/ WaitAgain
    <2>1. idle' \in 0..MaxIdle
      BY <1>6, NetBridgeAssumption DEF Invariant, PumpType, WaitTimeout, WaitAgain, TimedOut
    <2> QED
      BY <1>6, <2>1 DEF Invariant, PumpType, WaitTimeout, WaitAgain
  <1>7. CASE Quiet \/ UNCHANGED vars
    BY <1>7 DEF Invariant, PumpType, Quiet, vars, pumpVars
  <1> QED
    BY <1>1, <1>2, <1>3, <1>4, <1>5, <1>6, <1>7 DEF Next, Serve

LEMMA InitInvariant ==
  ASSUME Init
  PROVE  Invariant
  <1>1. /\ completions = <<>> /\ completions \in Seq(Completion) /\ Len(completions) = 0
        /\ 1..Len(completions) = {} /\ 1..nextId = {}
    BY DEF Init
  <1>2. Ids(completions) = {} /\ Handles(completions) = {} /\ Distinct(completions)
    BY <1>1 DEF Ids, Handles, Distinct
  <1>3. DOMAIN pending = {} /\ DOMAIN socks = {}
    BY DEF Init
  <1>4. Places
    BY <1>1, <1>2, <1>3, NetBridgeAssumption DEF Init, Places, Held, Guests
  <1>5. Sockets
    BY <1>3, NetBridgeAssumption DEF Init, Sockets, HandlesMatchDescriptors, Range
  <1>6. Parking
    BY <1>2, <1>3 DEF Init, Parking, ParkedOnOwnSocket, Private, SentinelReadsHost, Public, Guests
  <1>7. HostOwesWaiting /\ PumpType
    BY NetBridgeAssumption DEF Init, HostOwesWaiting, PumpType
  <1> QED
    BY <1>4, <1>5, <1>6, <1>7 DEF Invariant, Core

LEMMA NextInvariant ==
  ASSUME Invariant, [Next]_vars
  PROVE  Invariant'
  <1>1. Core'
    BY SubmitKeeps, ServeKeeps, PopKeeps DEF Invariant, Next, Keeps
  <1> QED
    BY <1>1, NextPumpType DEF Invariant

\* The invariant holds in every state of the bridge.
THEOREM InvariantHolds == Spec => []Invariant
  BY InitInvariant, NextInvariant, PTL DEF Spec

\* With no id completed twice, an id is queued once or not at all.
LEMMA QueuedOnce ==
  ASSUME Places, NEW id \in Id
  PROVE  Cardinality(Queued(id)) = IF id \in Held THEN 1 ELSE 0
  <1>1. Len(completions) \in Nat /\ DOMAIN completions = 1..Len(completions)
    BY LenProperties DEF Places
  <1>2. CASE id \in Held
    <2>1. PICK i \in 1..Len(completions) : completions[i].id = id
      BY <1>2 DEF Held, Ids
    <2>2. Queued(id) = {i}
      BY <1>1, <2>1, Sentinel0 DEF Queued, Places, Distinct
    <2> QED
      BY <1>2, <2>2, FS_Singleton
  <1>3. CASE id \notin Held
    <2>1. Queued(id) = {}
      BY <1>1, <1>3, Sentinel0 DEF Queued, Held, Ids
    <2> QED
      BY <1>3, <2>1, FS_EmptySet
  <1> QED
    BY <1>2, <1>3

LEMMA InvariantIsConsistent ==
  ASSUME Invariant
  PROVE  RequestsConsistent
  <1>1. hostWait \subseteq Id /\ taken \subseteq Id
    BY HostIsNoRequest DEF Invariant
  <1>2. TypeOK
    BY <1>1, OpenFds DEF Invariant, Core, Places, Sockets, Parking, Public, HostOwesWaiting, PumpType, TypeOK
  <1>3. ASSUME NEW id \in 1..nextId
        PROVE  Cardinality(Queued(id))
                 + (IF id \in DOMAIN pending THEN 1 ELSE 0)
                 + (IF id \in hostWait THEN 1 ELSE 0)
                 + (IF id \in taken THEN 1 ELSE 0) = 1
    <2>1. id \in Id
      BY NetBridgeAssumption DEF Invariant, Core, Places, Id
    <2>2. id \in DOMAIN pending <=> id \in Guests
      BY <2>1, Sentinel0 DEF Guests
    <2>3. /\ id \in Held \union Guests \union hostWait \union taken
          /\ ~(id \in Held /\ id \in Guests) /\ ~(id \in Held /\ id \in hostWait)
          /\ ~(id \in Held /\ id \in taken) /\ ~(id \in Guests /\ id \in hostWait)
          /\ ~(id \in Guests /\ id \in taken) /\ ~(id \in hostWait /\ id \in taken)
      BY DEF Invariant, Core, Places
    <2>4. Cardinality(Queued(id)) = IF id \in Held THEN 1 ELSE 0
      BY <2>1, QueuedOnce DEF Invariant, Core
    <2> QED
      BY <2>2, <2>3, <2>4
  <1> QED
    BY <1>2, <1>3 DEF RequestsConsistent, RequestInOnePlace, Invariant, Core, Sockets, Parking

\* RequestsConsistent in every execution: whatever closes, times out, fails or is
\* dropped, a request is parked, with the host, completed or handed out, in one of
\* these only, and what is parked polls the descriptor of the handle it names.
THEOREM RequestsStayConsistent == Spec => []RequestsConsistent
  BY InvariantHolds, InvariantIsConsistent, PTL

\* BridgePromise: each step of the bridge is one that AsyncBridge allows, so no id
\* is completed twice or handed out twice, and none before it was asked.
THEOREM KeepsThePromise == Spec => BridgePromise
  <1> DEFINE held == {completions[i].id : i \in DOMAIN completions} \ {kHostReadId}
  <1>1. Init => Promise!Init
    BY DEF Init, Promise!Init
  <1>2. ASSUME Invariant, Invariant', [Next]_vars
        PROVE  [Promise!Next]_(Promise!bridge)
    <2>1. held = Held /\ held' = Held'
      <3>1. DOMAIN completions = 1..Len(completions) /\ DOMAIN completions' = 1..Len(completions')
        BY <1>2, LenProperties DEF Invariant, Core, Places
      <3> QED
        BY <3>1 DEF Held, Ids
    <2> HIDE DEF held
    <2>2. /\ Held' \subseteq 1..nextId' /\ Held' \intersect taken' = {} /\ nextId \in Nat
          /\ Held \subseteq 1..nextId
      BY <1>2, NetBridgeAssumption DEF Invariant, Core, Places
    <2>3. CASE Submit
      <3>1. Held \subseteq Held' /\ taken' = taken /\ nextId' = nextId + 1
        BY <1>2, <2>3, SubmitKeeps DEF Invariant, Keeps
      <3>2. nextId' \in (1..nextId') \ (1..nextId) /\ 1..nextId' = 1..nextId \union {nextId'}
            /\ nextId' \in Nat \ {0}
        BY <2>2, <3>1
      <3>3. Promise!Submit
        BY <2>1, <2>2, <3>1, <3>2 DEF Promise!Submit, held
      <3> QED
        BY <3>3 DEF Promise!Next
    <2>4. CASE Keeps /\ UNCHANGED nextId
      <3>1. Held \subseteq Held' /\ taken' = taken /\ 1..nextId' = 1..nextId
        BY <2>4 DEF Keeps
      <3>2. Promise!Complete
        BY <2>1, <2>2, <3>1 DEF Promise!Complete, held
      <3> QED
        BY <3>2 DEF Promise!Next
    <2>5. CASE Pop /\ completions # <<>>
      <3>1. /\ UNCHANGED nextId
            /\ \/ UNCHANGED <<Held, taken>>
               \/ \E id \in Held : Held' = Held \ {id} /\ taken' = taken \union {id}
        BY <1>2, <2>5, PopKeeps DEF Invariant
      <3>2. CASE UNCHANGED <<Held, taken>>
        BY <2>1, <3>1, <3>2 DEF Promise!bridge, held
      <3>3. CASE \E id \in Held : Held' = Held \ {id} /\ taken' = taken \union {id}
        <4>1. Promise!Take
          BY <2>1, <3>1, <3>3 DEF Promise!Take, held
        <4> QED
          BY <4>1 DEF Promise!Next
      <3> QED
        BY <3>1, <3>2, <3>3
    <2> QED
      BY <1>2, <2>3, <2>4, <2>5, ServeKeeps DEF Invariant, Next
  <1>3. Spec => [][Promise!Next]_(Promise!bridge)
    BY <1>2, InvariantHolds, PTL DEF Spec
  <1> QED
    BY <1>1, <1>3, PTL DEF Spec, BridgePromise, Promise!Spec

=============================================================================
