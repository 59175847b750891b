------------------------------ MODULE NetBridge ------------------------------
(***************************************************************************)
(* WasigocvmNetBridge of src/src/wasigocvm_net.hpp: sockets, the requests  *)
(* parked on them, the poll() pump and its timeouts, and the control       *)
(* connection to the native host whose replies one sentinel entry reads.   *)
(*                                                                         *)
(* One thread runs everything.  Between two guest requests the scheduler   *)
(* calls PollOne until it has nothing, then WaitOne while calls are        *)
(* pending (AsyncCalls has that side).  The operating system is external:  *)
(* every system call may succeed, block or fail, poll() may report any     *)
(* parked descriptor, and descriptors are the smallest free number, so     *)
(* they are reused.  Payloads are left out but for the length of a write.  *)
(*                                                                         *)
(* Definitions named X_Fault are faulty variants of X that the             *)
(* specification does not use.                                             *)
(***************************************************************************)
EXTENDS Integers, Sequences, FiniteSets, FiniteSetsExt, Functions

CONSTANTS
  MaxReq,    \* bound: requests
  MaxFd,     \* bound: open descriptors
  MaxIdle,   \* the 100 idle pumps of WaitOne
  WriteLen,  \* the length of a write
  Topics     \* which topics the guest uses

ASSUME NetBridgeAssumption ==
  /\ MaxReq \in Nat /\ MaxFd \in Nat /\ MaxIdle \in Nat
  /\ WriteLen \in Nat \ {0}
  /\ Topics \subseteq {"dial", "listen", "probe", "accept", "read", "write", "close", "host"}

VARIABLES
  nextId,       \* next_id_
  nextHandle,   \* next_handle_
  socks,        \* socks_: handle to descriptor
  pending,      \* pending_
  completions,  \* completions_
  hostFd,       \* host_fd_, 0 for -1
  hostHandle,   \* host_handle_
  hostWait,     \* host_wait_ids_
  open,         \* external: the open descriptors
  owed,         \* external: requests the host got on this connection
  mode,         \* what the thread is doing
  polled,       \* PollOne said no since the guest last ran
  toResume,     \* ready ids that pump has not resumed yet
  before,       \* pending_.size() before the pump
  idle,         \* idle of WaitOne
  told,         \* handles the guest has been given
  taken         \* history: ids handed to the scheduler

reqVars == <<pending, completions>>
sockVars == <<nextHandle, socks, open>>
hostVars == <<hostFd, hostHandle, hostWait, owed>>
pumpVars == <<mode, polled, toResume, before, idle>>
vars == <<nextId, reqVars, sockVars, hostVars, pumpVars, told, taken>>

kHostReadId == MaxReq + 1                 \* ~0ull
Id == 1..MaxReq
Handle == Nat \ {0}
Parked == [op : {"connect", "accept", "read", "write", "hostread"},
           handle : Handle, fd : 1..MaxFd, left : 0..WriteLen]
Completion == [id : Id \union {kHostReadId},
               res : {"ok", "error", "closed", "timeout"}, handle : Nat]

-----------------------------------------------------------------------------
(* Completing, parking, allocating                                         *)

Done(id, res, h) == [id |-> id, res |-> res, handle |-> h]

Complete(id, res, h) == completions' = Append(completions, Done(id, res, h))

With(p, id, v) == [j \in DOMAIN p \union {id} |-> IF j = id THEN v ELSE p[j]]
Without(p, ids) == Restrict(p, DOMAIN p \ ids)

\* park(), on the entries that remain.
ParkOn(p, id, op, h, fd, left) ==
  pending' = With(p, id, [op |-> op, handle |-> h, fd |-> fd, left |-> left])

FdFree == open # 1..MaxFd
NewFd == Min((1..MaxFd) \ open)

\* alloc() of the descriptor that socket() or accept() just returned.
Alloc ==
  /\ FdFree
  /\ open' = open \union {NewFd}
  /\ nextHandle' = nextHandle + 1
  /\ socks' = With(socks, nextHandle', NewFd)

\* drop_fd() and close().
Dropped_Kept(fd) == socks
Dropped(fd) == Without(socks, {h \in DOMAIN socks : socks[h] = fd})

DropAndClose(fd) ==
  /\ socks' = Dropped(fd)
  /\ open' = open \ {fd}
  /\ UNCHANGED nextHandle

Fail(p, id) == Complete(id, "error", 0) /\ pending' = p /\ UNCHANGED sockVars

(* The requests.  p is pending_ without the request itself.                *)

\* do_accept, do_read, do_readfrom and do_writeto.
Transfer(p, id, op, h) ==
  \/ Fail(p, id)                      \* unknown handle, or the call fails
  \/ /\ h \in DOMAIN socks
     /\ \/ /\ ParkOn(p, id, op, h, socks[h], 0)
           /\ UNCHANGED <<completions, sockVars>>
        \/ /\ op = "read"
           /\ Complete(id, "ok", 0)
           /\ pending' = p
           /\ UNCHANGED sockVars
        \/ /\ op = "accept"
           /\ Alloc
           /\ Complete(id, "ok", nextHandle')
           /\ pending' = p

\* write_all: send as much as the socket takes.
WriteAll(p, id, h, left) ==
  \E sent \in 0..left :
    /\ UNCHANGED sockVars
    /\ IF sent = left
       THEN Complete(id, "ok", 0) /\ pending' = p
       ELSE \/ Fail(p, id)
            \/ ParkOn(p, id, "write", h, socks[h], left - sent) /\ UNCHANGED completions

\* finish_connect of a parked connect.
FinishConnect(p, id, h, fd) ==
  /\ pending' = p
  /\ \/ Complete(id, "ok", h) /\ UNCHANGED sockVars
     \/ Complete(id, "error", 0) /\ DropAndClose(fd)

-----------------------------------------------------------------------------
(* Submit                                                                  *)

Guest == mode = "guest"

NewRequest(topic) ==
  /\ Guest
  /\ topic \in Topics
  /\ nextId < MaxReq
  /\ nextId' = nextId + 1
  /\ polled' = FALSE
  /\ UNCHANGED <<mode, toResume, before, idle, told, taken>>

\* do_dial: a bad address or a failing call, connected at once, or in progress.
Dial ==
  /\ NewRequest("dial")
  /\ \/ Fail(pending, nextId')
     \/ Alloc /\ Complete(nextId', "ok", nextHandle') /\ UNCHANGED pending
     \/ Alloc /\ ParkOn(pending, nextId', "connect", nextHandle', NewFd, 0) /\ UNCHANGED completions
  /\ UNCHANGED hostVars

\* do_listen.
Listen ==
  /\ NewRequest("listen")
  /\ \/ Fail(pending, nextId')
     \/ Alloc /\ Complete(nextId', "ok", nextHandle') /\ UNCHANGED pending
  /\ UNCHANGED hostVars

\* do_bind_probe: the descriptor is closed again before the reply.
BindProbe ==
  /\ NewRequest("probe")
  /\ \/ Fail(pending, nextId')
     \/ FdFree /\ Complete(nextId', "ok", 0) /\ UNCHANGED <<pending, sockVars>>
  /\ UNCHANGED hostVars

Accept(h) ==
  /\ NewRequest("accept")
  /\ Transfer(pending, nextId', "accept", h)
  /\ UNCHANGED hostVars

Read(h) ==
  /\ NewRequest("read")
  /\ Transfer(pending, nextId', "read", h)
  /\ UNCHANGED hostVars

Write(h) ==
  /\ NewRequest("write")
  /\ \/ h \notin DOMAIN socks /\ Fail(pending, nextId')
     \/ h \in DOMAIN socks /\ WriteAll(pending, nextId', h, WriteLen)
  /\ UNCHANGED hostVars

\* do_close: requests parked on the descriptor are cancelled first.
ParkedOn(fd) == {id \in DOMAIN pending : pending[id].fd = fd}

Uncancelled_Kept(ids) == pending
Uncancelled(ids) == Without(pending, ids)

CloseHandle(h) ==
  /\ NewRequest("close")
  /\ \/ h \notin DOMAIN socks /\ Fail(pending, nextId')
     \/ /\ h \in DOMAIN socks
        /\ LET ids == ParkedOn(socks[h]) IN
             /\ \E order \in [1..Cardinality(ids) -> ids] :
                  /\ \A i, j \in DOMAIN order : order[i] = order[j] => i = j
                  /\ completions' = completions
                       \o [i \in DOMAIN order |-> Done(order[i], "closed", 0)]
                       \o <<Done(nextId', "ok", 0)>>
             /\ pending' = Uncancelled(ids)
        /\ open' = open \ {socks[h]}
        /\ socks' = Without(socks, {h})
        /\ UNCHANGED nextHandle
  /\ UNCHANGED hostVars

(* do_host_call: connect on first use, send the frame, and make sure that  *)
(* the sentinel is parked.                                                 *)
HostUnreachable ==
  /\ NewRequest("host")
  /\ hostFd = 0
  /\ Fail(pending, nextId')
  /\ UNCHANGED hostVars

Sentinel(h, fd) ==
  IF kHostReadId \in DOMAIN pending
  THEN pending
  ELSE With(pending, kHostReadId, [op |-> "hostread", handle |-> h, fd |-> fd, left |-> 0])

HostConnected(fd, h) ==
  \/ hostFd # 0 /\ fd = hostFd /\ h = hostHandle /\ UNCHANGED sockVars
  \/ hostFd = 0 /\ FdFree /\ fd = NewFd /\ h = nextHandle + 1 /\ Alloc

HostCall ==
  /\ NewRequest("host")
  /\ \E fd \in 1..MaxFd, h \in 1..(nextHandle + 1) :
       /\ HostConnected(fd, h)
       /\ hostFd' = fd
       /\ hostHandle' = h
       /\ pending' = Sentinel(h, fd)
  /\ hostWait' = hostWait \union {nextId'}
  /\ owed' = (IF hostFd = 0 THEN {} ELSE owed) \union {nextId'}
  /\ UNCHANGED <<completions>>

\* The send fails: the connection is dropped, nothing else is told.
HostSendFails ==
  /\ NewRequest("host")
  /\ \/ hostFd # 0 /\ DropAndClose(hostFd) /\ UNCHANGED hostHandle
     \/ /\ hostFd = 0 /\ FdFree                 \* just connected
        /\ nextHandle' = nextHandle + 1
        /\ hostHandle' = nextHandle'
        /\ UNCHANGED <<socks, open>>
  /\ hostFd' = 0
  /\ Complete(nextId', "error", 0)
  /\ UNCHANGED <<pending, hostWait, owed>>

-----------------------------------------------------------------------------
(* pump()                                                                  *)

\* poll() reports a parked entry whose descriptor is closed (POLLNVAL) at once.
Pollable(R) == R \subseteq DOMAIN pending /\ \A id \in DOMAIN pending : pending[id].fd \notin open => id \in R

Pump(R, next) ==
  /\ Pollable(R)
  /\ toResume' = R
  /\ before' = Cardinality(DOMAIN pending)
  /\ mode' = next

\* fail_all_host: every waiting request is failed and forgotten.
HostWaitFailed == {}

\* host_pump_read: the connection ends, or some replies are complete.
HostRead(p) ==
  \/ /\ \E order \in [1..Cardinality(hostWait) -> hostWait] :
          /\ \A i, j \in DOMAIN order : order[i] = order[j] => i = j
          /\ completions' = completions \o [i \in DOMAIN order |-> Done(order[i], "error", 0)]
     /\ hostWait' = HostWaitFailed
     /\ DropAndClose(hostFd)
     /\ hostFd' = 0
     /\ pending' = p
     /\ UNCHANGED <<hostHandle, owed>>
  \/ \E ids \in SUBSET owed :
       /\ \E order \in [1..Cardinality(ids) -> ids] :
            /\ \A i, j \in DOMAIN order : order[i] = order[j] => i = j
            /\ completions' = completions \o [i \in DOMAIN order |-> Done(order[i], "ok", 0)]
       /\ owed' = owed \ ids
       /\ hostWait' = hostWait \ ids
       /\ pending' = IF hostWait \ ids # {}
                     THEN With(p, kHostReadId, [op |-> "hostread", handle |-> hostHandle,
                                                fd |-> hostFd, left |-> 0])
                     ELSE p
       /\ UNCHANGED <<hostFd, hostHandle, sockVars>>

\* resume(): the entry leaves pending_ and its call is made again.
ResumeOne(id) ==
  /\ id \in toResume
  /\ toResume' = toResume \ {id}
  /\ IF id \notin DOMAIN pending
     THEN UNCHANGED <<reqVars, sockVars, hostVars>>
     ELSE LET e == pending[id]
              p == Without(pending, {id})
          IN
          \/ /\ e.handle \notin DOMAIN socks
             /\ Fail(p, id)
             /\ UNCHANGED hostVars
          \/ /\ e.handle \in DOMAIN socks
             /\ \/ /\ e.op = "connect"
                   /\ FinishConnect(p, id, e.handle, e.fd)
                   /\ UNCHANGED hostVars
                \/ /\ e.op \in {"accept", "read"}
                   /\ Transfer(p, id, e.op, e.handle)
                   /\ UNCHANGED hostVars
                \/ /\ e.op = "write"
                   /\ WriteAll(p, id, e.handle, e.left)
                   /\ UNCHANGED hostVars
                \/ e.op = "hostread" /\ HostRead(p)
  /\ UNCHANGED <<nextId, mode, polled, before, idle, told, taken>>

-----------------------------------------------------------------------------
(* PollOne and WaitOne                                                     *)

\* pop(), and the scheduler's apply_completion.
Pop ==
  /\ completions' = Tail(completions)
  /\ taken' = taken \union ({Head(completions).id} \ {kHostReadId})
  /\ told' = told \union ({Head(completions).handle} \ {0})
  /\ mode' = "guest"
  /\ polled' = FALSE
  /\ UNCHANGED <<nextId, pending, sockVars, hostVars, toResume, before, idle>>

PollPump ==
  /\ Guest
  /\ ~polled
  /\ completions = <<>>
  /\ \E R \in SUBSET DOMAIN pending : Pump(R, "poll")
  /\ UNCHANGED <<nextId, reqVars, sockVars, hostVars, polled, idle, told, taken>>

PollOne ==
  /\ mode = "poll" \/ (Guest /\ ~polled)
  /\ toResume = {}
  /\ completions # <<>>
  /\ Pop

PollNothing ==
  /\ mode = "poll"
  /\ toResume = {}
  /\ completions = <<>>
  /\ mode' = "guest"
  /\ polled' = TRUE
  /\ UNCHANGED <<nextId, reqVars, sockVars, hostVars, toResume, before, idle, told, taken>>

\* The scheduler has nothing runnable and calls are pending.
WaitOne ==
  /\ Guest
  /\ polled
  /\ 1..nextId # taken
  /\ mode' = "wait"
  /\ idle' = 0
  /\ UNCHANGED <<nextId, reqVars, sockVars, hostVars, polled, toResume, before, told, taken>>

WaitPop ==
  /\ mode = "wait"
  /\ completions # <<>>
  /\ Pop

WaitNoWork ==
  /\ mode = "wait"
  /\ completions = <<>>
  /\ DOMAIN pending = {}
  /\ mode' = "guest"
  /\ UNCHANGED <<nextId, reqVars, sockVars, hostVars, polled, toResume, before, idle, told, taken>>

WaitPump ==
  /\ mode = "wait"
  /\ completions = <<>>
  /\ DOMAIN pending # {}
  /\ \E R \in SUBSET DOMAIN pending : Pump(R, "pump")
  /\ UNCHANGED <<nextId, reqVars, sockVars, hostVars, polled, idle, told, taken>>

IdlePump_Shrinks == completions = <<>> /\ Cardinality(DOMAIN pending) < before
IdlePump == completions = <<>> /\ Cardinality(DOMAIN pending) = before

TimedOut == idle + 1 > MaxIdle

\* pending_.begin() of an unordered_map may be any entry.
WaitTimeout ==
  /\ mode = "pump"
  /\ toResume = {}
  /\ IdlePump
  /\ TimedOut
  /\ \E id \in DOMAIN pending :
       /\ Complete(id, "timeout", 0)
       /\ pending' = Without(pending, {id})
  /\ idle' = 0
  /\ mode' = "wait"
  /\ UNCHANGED <<nextId, sockVars, hostVars, polled, toResume, before, told, taken>>

WaitAgain ==
  /\ mode = "pump"
  /\ toResume = {}
  /\ \/ ~IdlePump /\ idle' = 0
     \/ IdlePump /\ ~TimedOut /\ idle' = idle + 1
  /\ mode' = "wait"
  /\ UNCHANGED <<nextId, reqVars, sockVars, hostVars, polled, toResume, before, told, taken>>

\* Every request is answered and the guest asks no more.
Quiet ==
  /\ Guest
  /\ polled
  /\ 1..nextId = taken
  /\ UNCHANGED vars

-----------------------------------------------------------------------------

Init ==
  /\ nextId = 0
  /\ nextHandle = 0
  /\ socks = <<>>
  /\ pending = <<>>
  /\ completions = <<>>
  /\ hostFd = 0
  /\ hostHandle = 0
  /\ hostWait = {}
  /\ open = {}
  /\ owed = {}
  /\ mode = "guest"
  /\ polled = TRUE
  /\ toResume = {}
  /\ before = 0
  /\ idle = 0
  /\ told = {}
  /\ taken = {}

Submit ==
  \/ Dial \/ Listen \/ BindProbe
  \/ \E h \in told : Accept(h) \/ Read(h) \/ Write(h) \/ CloseHandle(h)
  \/ HostUnreachable \/ HostCall \/ HostSendFails

Serve ==
  \/ \E id \in toResume : ResumeOne(id)
  \/ PollPump \/ PollOne \/ PollNothing
  \/ WaitOne \/ WaitPop \/ WaitNoWork \/ WaitPump \/ WaitTimeout \/ WaitAgain

Next == Submit \/ Serve \/ Quiet

Spec == Init /\ [][Next]_vars

\* The thread keeps running; nothing is assumed of the network or of the host.
FairSpec == Spec /\ WF_vars(Serve)

-----------------------------------------------------------------------------
(* Properties                                                              *)

\* Every variable has its type.
TypeOK ==
  /\ nextId \in 0..MaxReq
  /\ nextHandle \in Nat
  /\ DOMAIN socks \subseteq 1..nextHandle /\ Range(socks) \subseteq 1..MaxFd
  /\ DOMAIN pending \subseteq Id \union {kHostReadId}
  /\ \A id \in DOMAIN pending : pending[id] \in Parked
  /\ completions \in Seq(Completion)
  /\ hostFd \in 0..MaxFd
  /\ hostHandle \in 0..nextHandle
  /\ hostWait \subseteq Id /\ owed \subseteq Id
  /\ open \subseteq 1..MaxFd
  /\ mode \in {"guest", "poll", "wait", "pump"}
  /\ polled \in BOOLEAN
  /\ toResume \subseteq Id \union {kHostReadId}
  /\ before \in Nat /\ idle \in 0..MaxIdle
  /\ told \subseteq 1..nextHandle /\ taken \subseteq Id

Queued(id) == {i \in DOMAIN completions : completions[i].id = id}

\* A request is in one place: parked, waiting for the host, completed, or handed
\* out, never in two, whatever closes, times out or fails in between.
RequestInOnePlace ==
  \A id \in 1..nextId :
    Cardinality(Queued(id))
      + (IF id \in DOMAIN pending THEN 1 ELSE 0)
      + (IF id \in hostWait THEN 1 ELSE 0)
      + (IF id \in taken THEN 1 ELSE 0) = 1

\* The handle table and the operating system agree: the open descriptors are
\* those of the handles, each of one handle.
HandlesMatchDescriptors ==
  /\ Range(socks) = open
  /\ \A h, k \in DOMAIN socks : socks[h] = socks[k] => h = k
  /\ hostFd # 0 => hostHandle \in DOMAIN socks /\ socks[hostHandle] = hostFd

\* A guest's parked request polls the descriptor of its own handle, never one
\* that was closed and given to another socket.
ParkedOnOwnSocket ==
  \A id \in DOMAIN pending \ {kHostReadId} :
    pending[id].handle \in DOMAIN socks /\ socks[pending[id].handle] = pending[id].fd

\* Requests, handles and descriptors agree, whatever closes, times out or fails:
\* each request is in one place and polls the socket it was made on.
RequestsConsistent == TypeOK /\ RequestInOnePlace /\ HandlesMatchDescriptors /\ ParkedOnOwnSocket

\* The bridge keeps AsyncHostBridge's promise to the scheduler.
Promise == INSTANCE AsyncBridge WITH
  asked <- 1..nextId,
  held <- {completions[i].id : i \in DOMAIN completions} \ {kHostReadId},
  taken <- taken
BridgePromise == Promise!Spec

\* A request that does not wait for the host is answered, at the latest by the
\* timeout, even if the network stays silent and host requests hang.
SocketRequestAnswered == \A id \in Id : id <= nextId /\ id \notin hostWait ~> id \in taken

\* "instead of hanging": a request is answered, at the latest by the timeout,
\* even if the network and the host stay silent.
EveryRequestAnswered == \A id \in Id : id <= nextId ~> id \in taken

=============================================================================
