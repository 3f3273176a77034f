------------------------------- MODULE CppZmq -------------------------------
(***************************************************************************)
(* Who owns what in the classes of zmq.hpp (cppzmq; the same file in the   *)
(* server and in the client) that both programs are built on: message_t    *)
(* owns a zmq_msg_t and its data, socket_t, monitor_t and context_t own    *)
(* handles.  The functions of libzmq below them are external.  A call that *)
(* throws, or returns an empty optional, and changes nothing is no step.   *)
(***************************************************************************)
EXTENDS Naturals, FiniteSets, ZmqBuffers

CONSTANTS
  Messages,   \* message_t objects
  Blocks,     \* data of messages, on the heap of libzmq
  Sockets,    \* socket_t objects
  Handles,    \* what zmq_socket returns: at most so many (ZMQ_MAX_SOCKETS)
  Contexts,   \* context_t objects
  Ptrs,       \* what zmq_ctx_new returns
  Slots       \* places for messages in the pipes between sockets

VARIABLES
  msg,       \* "gone" (no object), "closed", "empty", or the block it refers to
  refs,      \* the references to a block that libzmq counts; 0: freed
  wire,      \* per slot: "free", or what was sent and is not yet received
  route,     \* per slot: the context whose sockets the pipe is between
  sock,      \* "gone", "null", or _handle; with it _monitor_socket
  open,      \* handles not yet closed
  home,      \* per handle: the context it was made in
  monRef,    \* monitor_t::_socket
  watched,   \* handles whose events libzmq reports
  cobj,      \* "gone", "null" or ptr
  ctx,       \* per ptr: "none", "live" or "shut"
  closing,   \* per context_t in close(): what comes after, or "no"
  up         \* the process has not aborted

messageVars == <<msg, refs>>
wireVars    == <<wire, route>>
socketVars  == <<sock, open, home, monRef, watched>>
contextVars == <<cobj, ctx, closing>>
vars        == <<messageVars, wireVars, socketVars, contextVars, up>>

\* monitor_t has one.
Mon == "_monitor_socket"

Owners == Sockets \cup {Mon}

ASSUME NamesAssumption ==
  /\ Mon \notin Sockets
  /\ {"gone", "null"} \cap Handles = {} /\ {"gone", "null"} \cap Ptrs = {}
  /\ {"gone", "null", "no"} \cap Contexts = {}
  /\ {"gone", "closed", "empty", "free"} \cap Blocks = {}
\* A process has finitely many objects.
ASSUME ObjectsAssumption == IsFiniteSet(Messages) /\ IsFiniteSet(Slots)

Init ==
  /\ msg = [m \in Messages |-> "gone"] /\ refs = [b \in Blocks |-> 0]
  /\ wire = [i \in Slots |-> "free"] /\ route = [i \in Slots |-> "null"]
  /\ sock = [s \in Owners |-> "gone"] /\ open = {} /\ home = [h \in Handles |-> "null"]
  /\ monRef = "null" /\ watched = {}
  /\ cobj = [c \in Contexts |-> "gone"] /\ ctx = [p \in Ptrs |-> "none"]
  /\ closing = [c \in Contexts |-> "no"]
  /\ up = TRUE

-----------------------------------------------------------------------------
(* message_t.                                                              *)

Valid(m) == msg[m] \notin {"gone", "closed"}

\* A reference to x is given up, if x is a block at all.
Dropped(x) == [b \in Blocks |-> refs[b] - (IF b = x THEN 1 ELSE 0)]

\* The objects or slots of D that refer to b.
Referring(f, D, b) == Cardinality({i \in D : f[i] = b})

\* msg[m] becomes a new block, counted in r.
Fresh(m, r) ==
  \E b \in Blocks :
    /\ r[b] = 0
    /\ msg' = [msg EXCEPT ![m] = b]
    /\ refs' = [r EXCEPT ![b] = 1]

NewMessage(m) ==
  /\ msg[m] = "gone"
  /\ \/ msg' = [msg EXCEPT ![m] = "empty"] /\ UNCHANGED refs
     \/ Fresh(m, refs)

\* Mutant: the source is not initialised again.
MoveMessage_KeepsSource(m, r) ==
  /\ msg[m] = "gone" /\ msg[r] # "gone"
  /\ msg' = [msg EXCEPT ![m] = msg[r]]
  /\ UNCHANGED refs

MoveMessage(m, r) ==
  /\ msg[m] = "gone" /\ msg[r] # "gone"
  /\ msg' = [msg EXCEPT ![m] = msg[r], ![r] = "empty"]
  /\ UNCHANGED refs

\* Move assignment, and swap.
SwapMessages(m, r) ==
  /\ msg[m] # "gone" /\ msg[r] # "gone"
  /\ msg' = [msg EXCEPT ![m] = msg[r], ![r] = msg[m]]
  /\ UNCHANGED refs

\* zmq_msg_close of a message that is closed may fail, and then ZMQ_ASSERT does.
DestroyMessage(m) ==
  /\ msg[m] # "gone"
  /\ msg' = [msg EXCEPT ![m] = "gone"]
  /\ refs' = Dropped(msg[m])
  /\ up' \in IF msg[m] = "closed" THEN BOOLEAN ELSE {TRUE}

\* A rebuild without memory throws and leaves the message closed.
Rebuild(m) ==
  /\ Valid(m)
  /\ \/ msg' \in {[msg EXCEPT ![m] = x] : x \in {"empty", "closed"}} /\ refs' = Dropped(msg[m])
     \/ Fresh(m, Dropped(msg[m]))

MoveFrom(m, r) ==
  /\ Valid(m) /\ Valid(r)
  /\ msg' = [msg EXCEPT ![m] = msg[r], ![r] = "empty"]
  /\ refs' = Dropped(msg[m])

\* The two share the block from here on.
CopyFrom(m, r) ==
  /\ Valid(m) /\ Valid(r)
  /\ msg' = [msg EXCEPT ![m] = msg[r]]
  /\ refs' = [b \in Blocks |-> Dropped(msg[m])[b] + (IF b = msg[r] THEN 1 ELSE 0)]

-----------------------------------------------------------------------------
(* send and recv.                                                          *)

Usable(s) == sock[s] \in open /\ ctx[home[sock[s]]] = "live"

\* s puts x into a pipe of its context, takes x out of one.  Which of the
\* messages on their way comes next matters to nobody's ownership.
Puts(s, x) ==
  /\ Usable(s)
  /\ \E i \in Slots :
       /\ wire[i] = "free"
       /\ wire' = [wire EXCEPT ![i] = x]
       /\ route' = [route EXCEPT ![i] = home[sock[s]]]

Takes(s, x) ==
  /\ Usable(s)
  /\ \E i \in Slots :
       /\ wire[i] = x /\ x # "free" /\ route[i] = home[sock[s]]
       /\ wire' = [wire EXCEPT ![i] = "free"]
       /\ route' = [route EXCEPT ![i] = "null"]

\* What is on its way.
Contents == {"empty"} \cup Blocks

\* nbytes >= 0: the message is empty then.
Send(m, s) ==
  /\ Valid(m) /\ Puts(s, msg[m])
  /\ msg' = [msg EXCEPT ![m] = "empty"]
  /\ UNCHANGED refs

\* What the message held before is released.
Recv(m, s) ==
  /\ Valid(m)
  /\ \E x \in Contents : Takes(s, x) /\ msg' = [msg EXCEPT ![m] = x]
  /\ refs' = Dropped(msg[m])

\* Data are copied into a message of libzmq's own.
SendBuffer(s) ==
  /\ \E b \in Blocks : refs[b] = 0 /\ refs' = [refs EXCEPT ![b] = 1] /\ Puts(s, b)
  /\ UNCHANGED msg

\* They are copied out, as many as fit (ReceivedInto).
RecvBuffer(s) ==
  /\ \E x \in Contents : Takes(s, x) /\ refs' = Dropped(x)
  /\ UNCHANGED msg

-----------------------------------------------------------------------------
(* socket_t and monitor_t.                                                 *)

\* zmq_close.
CloseHandle(h) ==
  /\ open' = open \ {h}
  /\ watched' = watched \ {h}
  /\ UNCHANGED home

\* zmq_socket: s gets a handle of p's, and the one it had is closed.
OpenHandle(s, h, p) ==
  /\ h \notin open
  /\ sock' = [sock EXCEPT ![s] = h]
  /\ open' = (open \cup {h}) \ {sock[s]}
  /\ home' = [home EXCEPT ![h] = p]

NewSocket(s) ==
  /\ sock[s] = "gone"
  /\ \/ sock' = [sock EXCEPT ![s] = "null"] /\ UNCHANGED <<open, home>>
     \/ \E h \in Handles, p \in Ptrs : ctx[p] = "live" /\ OpenHandle(s, h, p)
  /\ UNCHANGED <<monRef, watched>>

MoveSocket(s, r) ==
  /\ sock[s] = "gone" /\ sock[r] # "gone"
  /\ sock' = [sock EXCEPT ![s] = sock[r], ![r] = "null"]
  /\ UNCHANGED <<open, home, monRef, watched>>

\* close(), and then swap.
AssignSocket(s, r) ==
  /\ sock[s] # "gone" /\ sock[r] # "gone"
  /\ sock' = [sock EXCEPT ![s] = sock[r], ![r] = "null"]
  /\ CloseHandle(sock[s])
  /\ UNCHANGED monRef

CloseSocket(s, after) ==
  /\ sock[s] # "gone"
  /\ sock' = [sock EXCEPT ![s] = after]
  /\ CloseHandle(sock[s])
  /\ UNCHANGED monRef

NewMonitor ==
  /\ sock[Mon] = "gone"
  /\ sock' = [sock EXCEPT ![Mon] = "null"]
  /\ UNCHANGED <<open, home, monRef, watched>>

\* socket_t(socket.ctxptr, ZMQ_PAIR) may throw when _socket is set already.  A
\* caller is taken to abort() before it monitors another socket.
MonitorInit(s) ==
  /\ sock[Mon] # "gone" /\ monRef = "null"
  /\ Usable(s)
  /\ monRef' = sock[s]
  /\ \/ /\ watched' = watched \cup {sock[s]}
        /\ UNCHANGED <<sock, open, home>>
     \/ \E h \in Handles :
          /\ OpenHandle(Mon, h, home[sock[s]])
          /\ watched' = watched \cup {sock[s]}

MonitorAbort ==
  /\ sock[Mon] # "gone"
  /\ monRef' = "null"
  /\ watched' = watched \ {monRef}
  /\ UNCHANGED <<sock, open, home>>

DestroyMonitor ==
  /\ sock[Mon] # "gone"
  /\ sock' = [sock EXCEPT ![Mon] = "gone"]
  /\ open' = open \ {sock[Mon]}
  /\ UNCHANGED home
  /\ monRef' = "null"
  /\ watched' = watched \ {monRef, sock[Mon]}

-----------------------------------------------------------------------------
(* context_t.                                                              *)

NewContext(c) ==
  /\ cobj[c] = "gone"
  /\ \E p \in Ptrs :
       /\ ctx[p] = "none"
       /\ cobj' = [cobj EXCEPT ![c] = p]
       /\ ctx' = [ctx EXCEPT ![p] = "live"]
  /\ UNCHANGED closing

\* The context_t objects that no thread is closing or assigning from.
Idle(c) ==
  /\ cobj[c] # "gone" /\ closing[c] = "no"
  /\ \A d \in Contexts : closing[d] # c

MoveContext(c, r) ==
  /\ cobj[c] = "gone" /\ Idle(r)
  /\ cobj' = [cobj EXCEPT ![c] = cobj[r], ![r] = "null"]
  /\ UNCHANGED <<ctx, closing>>

\* zmq_ctx_shutdown, by which zmq_ctx_term begins.
Shut(c) == ctx' = [p \in Ptrs |-> IF p = cobj[c] THEN "shut" ELSE ctx[p]]

Shutdown(c) ==
  /\ Idle(c) /\ Shut(c)
  /\ UNCHANGED <<cobj, closing>>

\* after: "null" for close(), "gone" for the destructor, the other operand for
\* move assignment.
BeginClose(c, after) ==
  /\ Idle(c) /\ (after \in Contexts => Idle(after))
  /\ closing' = [closing EXCEPT ![c] = after]
  /\ Shut(c)
  /\ UNCHANGED cobj

\* Mutant: the operand keeps the context that is swapped with none.
Swapped_Copied(c, after) ==
  IF after \in Contexts THEN [cobj EXCEPT ![c] = cobj[after]]
  ELSE [cobj EXCEPT ![c] = after]

\* std::swap of a closed context_t with the operand.
Swapped(c, after) ==
  IF after \in Contexts THEN [cobj EXCEPT ![c] = cobj[after], ![after] = "null"]
  ELSE [cobj EXCEPT ![c] = after]

\* zmq_ctx_term returns when all sockets of the context are closed;
\* interrupted, it is called again.  Messages on their way are released.
EndClose(c) ==
  /\ closing[c] # "no"
  /\ \A h \in open : home[h] # cobj[c]
  /\ cobj' = Swapped(c, closing[c])
  /\ closing' = [closing EXCEPT ![c] = "no"]
  /\ ctx' = [p \in Ptrs |-> IF p = cobj[c] THEN "none" ELSE ctx[p]]
  /\ LET ends == {i \in Slots : route[i] = cobj[c] /\ cobj[c] \in Ptrs}
     IN  /\ wire' = [i \in Slots |-> IF i \in ends THEN "free" ELSE wire[i]]
         /\ route' = [i \in Slots |-> IF i \in ends THEN "null" ELSE route[i]]
         /\ refs' = [b \in Blocks |-> refs[b] - Referring(wire, ends, b)]
  /\ UNCHANGED <<msg, socketVars, up>>

-----------------------------------------------------------------------------
MessageStep ==
  \/ /\ \/ \E m \in Messages : NewMessage(m) \/ Rebuild(m)
        \/ \E m \in Messages : \E r \in Messages \ {m} :
             MoveMessage(m, r) \/ SwapMessages(m, r) \/ MoveFrom(m, r) \/ CopyFrom(m, r)
     /\ UNCHANGED <<wireVars, socketVars, contextVars, up>>
  \/ \E m \in Messages : DestroyMessage(m) /\ UNCHANGED <<wireVars, socketVars, contextVars>>

WireStep ==
  /\ \E s \in Sockets :
       \/ \E m \in Messages : Send(m, s) \/ Recv(m, s)
       \/ SendBuffer(s) \/ RecvBuffer(s)
  /\ UNCHANGED <<socketVars, contextVars, up>>

SocketStep ==
  /\ \/ \E s \in Sockets : NewSocket(s) \/ MonitorInit(s)
     \/ \E s \in Sockets, after \in {"null", "gone"} : CloseSocket(s, after)
     \/ \E s \in Sockets : \E r \in Sockets \ {s} : MoveSocket(s, r) \/ AssignSocket(s, r)
     \/ NewMonitor \/ MonitorAbort \/ DestroyMonitor
  /\ UNCHANGED <<messageVars, wireVars, contextVars, up>>

ContextStep ==
  /\ \/ \E c \in Contexts : NewContext(c) \/ Shutdown(c)
     \/ \E c \in Contexts, after \in {"null", "gone"} : BeginClose(c, after)
     \/ \E c \in Contexts : \E r \in Contexts \ {c} :
          MoveContext(c, r) \/ BeginClose(c, r)
  /\ UNCHANGED <<messageVars, wireVars, socketVars, up>>

Next ==
  /\ up
  /\ \/ MessageStep \/ WireStep \/ SocketStep \/ ContextStep
     \/ \E c \in Contexts : EndClose(c)

Spec == Init /\ [][Next]_vars

-----------------------------------------------------------------------------
(* Properties.                                                             *)

\* The data of a message are referred to by as many messages, in objects and on
\* their way, as libzmq counts: none leaks, none is freed under a message
\* (zmq.hpp:493-585, 1957-2026).
BlocksOwned ==
  \A b \in Blocks :
    refs[b] = Referring(msg, Messages, b) + Referring(wire, Slots, b)

\* An open handle belongs to one object, a closed one to none, a context to one
\* context_t and it outlives every socket made in it, and a socket is watched
\* only for a monitor that can end it (zmq.hpp:823-878, 2183-2219, 2329-2343).
HandlesOwned ==
  /\ \A h \in Handles : h \in open <=> \E s \in Owners : sock[s] = h
  /\ \A s, t \in Owners : sock[s] = sock[t] /\ sock[s] \in Handles => s = t
  /\ \A p \in Ptrs : ctx[p] # "none" <=> \E c \in Contexts : cobj[c] = p
  /\ \A c, d \in Contexts : cobj[c] = cobj[d] /\ cobj[c] \in Ptrs => c = d
  /\ \A h \in open : \E p \in Ptrs : home[h] = p /\ ctx[p] # "none"
  /\ watched \subseteq {monRef}
=============================================================================
