------------------------------ MODULE MCCppZmq ------------------------------
(* Bounded instances of CppZmq, and the functions of zmq.hpp without a state *)
(* over small ranges.                                                        *)
EXTENDS CppZmq, ZmqOptions, TLC

\* Objects, handles and contexts of a kind are alike.
MCAlike ==
  UNION {Permutations(S) : S \in {Messages, Sockets, Handles, Contexts, Ptrs}}

\* Whatever is done to a buffer, its bytes are bytes of the original, and
\* advancing twice is advancing once by the sum.
ASSUME BuffersStayInside ==
  \A b \in Buffers(1 .. 3, 0 .. 4), m, n \in 0 .. 5 :
    /\ Extent(Advance(b, n)) \subseteq Extent(b)
    /\ Extent(Shorten(b, n)) \subseteq Extent(b)
    /\ Advance(Advance(b, m), n) = Advance(b, m + n)
    /\ Extent(b) = Extent(Shorten(b, n)) \cup Extent(Advance(b, n))

\* A shortened view of a sequence is the view with a bound, and a receive into
\* a buffer is truncated exactly when the message does not fit.
ASSUME SequencesBounded ==
  \A count \in 0 .. 3, width \in {1, 2, 4}, n \in 0 .. 6 :
    LET b == OfSequence(8, count, width)
    IN  /\ Shorten(b, n) = BufferOf(8, count, width, <<n>>)
        /\ b = BufferOf(8, count, width, << >>)
        /\ count > 0 => StrBuffer(8, count, width) = Literal(8, count - 1, width)
        /\ Truncated(ReceivedInto(b, n)) <=> n > b.size

\* An empty optional is a transfer that would have blocked, and nothing else
\* is: the older overloads, which return a size, cannot tell it from an empty
\* message.
ASSUME OptionalsTell ==
  \A rc \in -1 .. 2, errno \in {"EAGAIN", "EINTR", "ETERM"} :
    LET o == Optional(rc, errno)
    IN  /\ o = Returns(None) <=> rc = -1 /\ errno = "EAGAIN"
        /\ o[1] = "returns" => ValueOf(o[2]) = (IF rc < 0 THEN Throwing("exception") ELSE Returns(rc))
        /\ SizeOf(rc, errno) = Returns(0) <=> rc = 0 \/ o = Returns(None)
        /\ Flag(rc, errno) = Returns(TRUE) <=> rc >= 0

\* Called again and again, check_event hands every event to the handler of its
\* kind with the address that came with it, except a stop.
ASSUME EventsHandled ==
  \A n \in 0 .. 3 : \A events \in [1 .. n -> {"connected", "monitor_stopped", "other"}] :
    LET parts == [i \in 1 .. 2 * n |-> IF i % 2 = 1 THEN events[(i + 1) \div 2] ELSE i \div 2]
        after[k \in 0 .. n + 1] ==
          IF k = 0 THEN [rest |-> parts, handled |-> << >>]
          ELSE LET c == CheckEvent(after[k - 1].rest, 3)
               IN  [rest |-> c.rest, handled |-> after[k - 1].handled \o c.handled]
        kept == SelectSeq([i \in 1 .. n |-> i], LAMBDA i : events[i] # "monitor_stopped")
    IN  after[n + 1] = [rest |-> << >>,
                        handled |-> [i \in 1 .. Len(kept) |-> <<Handler(events[kept[i]]), kept[i]>>]]

\* A context that ends between the two parts of an event handles nothing, and
\* every later call throws.
ASSUME EventsEnd ==
  \A calls \in 0 .. 2 :
    LET c == CheckEvent(<<"connected", "address">>, calls)
    IN  c.handled = << >> /\ c.ends = (IF calls = 0 THEN Throwing("ETERM") ELSE Returns(FALSE))

\* get gives back the string that was set, without the null character libzmq
\* adds; a pointer loses what follows a null character in it.
ASSUME OptionsComeBack ==
  /\ \A n \in 0 .. 3 : \A s \in [1 .. n -> 0 .. 2] :
       /\ \A kind \in {"binary", "text"} : GetString(kind, FromString(s), 1024) = Returns(s)
       /\ FromPointer(s) = s <=> \A i \in 1 .. n : s[i] # 0
       /\ GetString("text", s, n) = Throwing("EINVAL")
  /\ LET key == [i \in 1 .. 40 |-> 1]
     IN  /\ GetString("key", key, 1024) = Returns(key)
         /\ GetString("key", key, 32) = Returns(SubSeq(key, 1, 32))
         /\ GetString("key", key, 40) = Throwing("EINVAL")
  /\ \A b \in BOOLEAN : GetNumber(FromBool(b), 4, 4) = Returns(IF b THEN 1 ELSE 0)

\* An option of a context whose value is -1 cannot be read.
ASSUME MinusOneUnreadable ==
  \A v \in -1 .. 2 : GetOpt(v, "EINTR") = Returns(v) <=> v # -1
=============================================================================
