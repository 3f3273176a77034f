------------------------------ MODULE ZmqCalls ------------------------------
(***************************************************************************)
(* What the functions of zmq.hpp make of what libzmq answers: a return     *)
(* code and an errno become a value, an empty optional, an error_t that is *)
(* thrown, or a failed assertion.                                          *)
(***************************************************************************)
EXTENDS Integers, Sequences

\* How a call ends.
Returns(x)    == <<"returns", x>>
Throwing(e)   == <<"throws", e>>
Asserts       == <<"asserts">>
Void          == Returns("void")

-----------------------------------------------------------------------------
(* trivial_optional: the client is C++11 and has no std::optional.         *)

Some(x) == <<"some", x>>
None    == <<"none">>

HasValue(o) == o # None

\* value().
ValueOf(o) == IF HasValue(o) THEN Returns(o[2]) ELSE Throwing("exception")

\* operator* and operator->, with assertions compiled in.
Dereferenced(o) == IF HasValue(o) THEN Returns(o[2]) ELSE Asserts

-----------------------------------------------------------------------------
(* send and recv: rc is the size of a message, or -1.                      *)

Transferred(rc, errno, done, again) ==
  IF rc >= 0 THEN Returns(done)
  ELSE IF errno = "EAGAIN" THEN Returns(again) ELSE Throwing(errno)

\* With send_flags or recv_flags.
Optional(rc, errno) == Transferred(rc, errno, Some(rc), None)

\* The deprecated overloads, for bytes and for message_t.
SizeOf(rc, errno) == Transferred(rc, errno, rc, 0)
Flag(rc, errno)   == Transferred(rc, errno, TRUE, FALSE)

-----------------------------------------------------------------------------
(* Everything else.                                                        *)

\* bind, unbind, connect and disconnect.
Checked(rc, errno) == IF rc # 0 THEN Throwing(errno) ELSE Void

\* All overloads of poll; -1 waits for ever.
Polled(rc, errno) == IF rc < 0 THEN Throwing(errno) ELSE Returns(rc)

\* context_t::setctxopt and set.
SetChecked(rc)    == IF rc = 0 THEN Returns(rc) ELSE Asserts
SetOpt(rc, errno) == IF rc = -1 THEN Throwing(errno) ELSE Void

\* context_t::get: an option that is -1 is taken for a failure, and the error
\* is whatever errno was.
GetOpt(v, errno) == IF v = -1 THEN Throwing(errno) ELSE Returns(v)

-----------------------------------------------------------------------------
(* monitor_t::check_event.  An event is two messages, sent as one: the     *)
(* event and the address.                                                  *)

\* The events with a handler of their own, from libzmq 4.3.0 on.
Handlers ==
  {"connected", "connect_delayed", "connect_retried", "listening", "bind_failed",
   "accepted", "accept_failed", "closed", "close_failed", "disconnected",
   "handshake_failed_no_detail", "handshake_failed_protocol",
   "handshake_failed_auth", "handshake_succeeded"}

Handler(event) == IF event \in Handlers THEN event ELSE "unknown"

\* parts: what waits in _monitor_socket.  calls: how many of the calls of libzmq
\* (poll, recv, recv) come before the context is shut down.
CheckEvent(parts, calls) ==
  LET Ends(how, rest, handled) == [ends |-> how, rest |-> rest, handled |-> handled]
      no == Returns(FALSE)
  IN  CASE calls = 0                   -> Ends(Throwing("ETERM"), parts, << >>)
        [] calls > 0 /\ parts = << >>  -> Ends(no, parts, << >>)
        [] calls = 1 /\ parts # << >>  -> Ends(no, parts, << >>)
        [] calls = 2 /\ parts # << >>  -> Ends(no, Tail(parts), << >>)
        [] calls > 2 /\ parts # << >>  ->
             LET rest == SubSeq(parts, 3, Len(parts))
             IN  IF parts[1] = "monitor_stopped"
                 THEN Ends(no, rest, << >>)
                 ELSE Ends(Returns(TRUE), rest, << <<Handler(parts[1]), parts[2]>> >>)
=============================================================================
