---------------------------- MODULE CppZmq_proofs ----------------------------
(* Proofs about the buffers and the handles of zmq.hpp, for any number of    *)
(* objects.                                                                  *)
EXTENDS CppZmq, FiniteSetTheorems, TLAPS

-----------------------------------------------------------------------------
(* Buffers.                                                                *)

LEMMA LeastIs ==
  ASSUME NEW m \in Nat, NEW n \in Nat
  PROVE  /\ Least(m, n) \in Nat /\ Least(m, n) <= m /\ Least(m, n) <= n
         /\ Least(m, n) = m \/ Least(m, n) = n
  BY DEF Least

\* However far a buffer is advanced, it ends where it ended before, and
\* advancing it twice is advancing it by the sum (zmq.hpp:1096-1118).
THEOREM AdvanceKeepsEnd ==
  ASSUME NEW p \in Nat, NEW n \in Nat, NEW i \in Nat, NEW j \in Nat
  PROVE  LET b == Buffer(p, n)  c == Advance(b, i)
         IN  /\ c.at + c.size = b.at + b.size
             /\ c.at >= b.at /\ c.size <= b.size
             /\ Advance(c, j) = Advance(b, i + j)
  BY DEF Buffer, Advance, Least

\* buffer(b, i) and b + i are the two parts of b: together they have its bytes,
\* and none in common (zmq.hpp:1110-1118, 1175-1186).
THEOREM TwoParts ==
  ASSUME NEW p \in Nat, NEW n \in Nat, NEW i \in Nat
  PROVE  LET b == Buffer(p, n)
         IN  /\ Extent(Shorten(b, i)) \cup Extent(Advance(b, i)) = Extent(b)
             /\ Extent(Shorten(b, i)) \cap Extent(Advance(b, i)) = {}
  BY DEF Buffer, Advance, Shorten, Extent, Least

\* A view of a sequence with a bound is the view shortened to it, a string
\* literal and the array it is differ by the null character, and a receive into
\* a view is truncated exactly when the message does not fit
\* (zmq.hpp:1188-1340, 2005-2017).
THEOREM ViewsBounded ==
  ASSUME NEW p \in Nat, NEW count \in Nat, NEW width \in Nat, NEW n \in Nat
  PROVE  LET b == OfSequence(p, count, width)
         IN  /\ Shorten(b, n) = BufferOf(p, count, width, <<n>>)
             /\ count > 0 => StrBuffer(p, count, width) = Literal(p, count - 1, width)
             /\ Truncated(ReceivedInto(b, n)) <=> n > b.size
<1>. DEFINE b == OfSequence(p, count, width)
<1>1. count * width \in Nat
  OBVIOUS
<1>2. b.size = count * width
  BY DEF OfSequence, Buffer
<1>3. Shorten(b, n) = BufferOf(p, count, width, <<n>>)
  <2>1. <<n>> # << >> /\ <<n>>[1] = n
    OBVIOUS
  <2>. QED
    BY <2>1 DEF Shorten, BufferOf, OfSequenceUpTo, OfSequence, Buffer
<1>4. count > 0 => StrBuffer(p, count, width) = Literal(p, count - 1, width)
  BY DEF StrBuffer, Literal
<1>5. Truncated(ReceivedInto(b, n)) <=> n > b.size
  <2>. HIDE DEF b
  <2>. QED
    BY <1>1, <1>2 DEF Truncated, ReceivedInto, Least
<1>. QED
  BY <1>3, <1>4, <1>5

-----------------------------------------------------------------------------
(* Handles.                                                                *)

HandlesType ==
  /\ sock \in [Owners -> {"gone", "null"} \cup Handles]
  /\ open \subseteq Handles /\ watched \subseteq Handles
  /\ DOMAIN home = Handles
  /\ cobj \in [Contexts -> {"gone", "null"} \cup Ptrs]
  /\ ctx \in [Ptrs -> {"none", "live", "shut"}]
  /\ closing \in [Contexts -> {"no", "gone", "null"} \cup Contexts]

HandlesInv == HandlesType /\ HandlesOwned

LEMMA HandlesInit == Init => HandlesInv
  BY NamesAssumption DEF Init, HandlesInv, HandlesType, HandlesOwned

LEMMA HandlesKept ==
  ASSUME HandlesInv, UNCHANGED <<sock, open, home, monRef, watched, cobj, ctx, closing>>
  PROVE  HandlesInv'
  BY DEF HandlesInv, HandlesType, HandlesOwned

\* What is closed belongs to the object that is changed.
LEMMA CloseOwned ==
  ASSUME HandlesInv, UNCHANGED <<contextVars, home>>, NEW s \in Owners,
         NEW x \in {"gone", "null"}, sock' = [sock EXCEPT ![s] = x],
         open' = open \ {sock[s]}, watched' \subseteq {monRef'} \cap Handles
  PROVE  HandlesInv'
  BY NamesAssumption DEF HandlesInv, HandlesType, HandlesOwned, contextVars

LEMMA OpenOwned ==
  ASSUME HandlesInv, UNCHANGED contextVars, NEW s \in Owners, NEW h \in Handles,
         NEW p \in Ptrs, ctx[p] # "none", OpenHandle(s, h, p),
         watched' \subseteq {monRef'} \cap Handles
  PROVE  HandlesInv'
<1>1. /\ h \notin open /\ sock' = [sock EXCEPT ![s] = h]
      /\ open' = (open \cup {h}) \ {sock[s]} /\ home' = [home EXCEPT ![h] = p]
  BY DEF OpenHandle
<1>2. HandlesType'
  BY <1>1 DEF HandlesInv, HandlesType, contextVars
<1>3. /\ \A g \in Handles : g \in open' <=> \E t \in Owners : sock'[t] = g
      /\ \A t, u \in Owners : sock'[t] = sock'[u] /\ sock'[t] \in Handles => t = u
  BY <1>1, NamesAssumption DEF HandlesInv, HandlesType, HandlesOwned
<1>4. \A g \in open' : \E q \in Ptrs : home'[g] = q /\ ctx'[q] # "none"
  BY <1>1 DEF HandlesInv, HandlesType, HandlesOwned, contextVars
<1> QED
  BY <1>2, <1>3, <1>4 DEF HandlesInv, HandlesOwned, contextVars

LEMMA MoveOwned ==
  ASSUME HandlesInv, UNCHANGED <<contextVars, home>>, NEW s \in Owners, NEW r \in Owners \ {s},
         sock' = [sock EXCEPT ![s] = sock[r], ![r] = "null"],
         open' = open \ {sock[s]}, watched' \subseteq {monRef'} \cap Handles
  PROVE  HandlesInv'
  BY NamesAssumption DEF HandlesInv, HandlesType, HandlesOwned, contextVars

LEMMA HandlesSocket ==
  ASSUME HandlesInv, SocketStep
  PROVE  HandlesInv'
<1> USE DEF SocketStep
<1>0. watched \subseteq {monRef} \cap Handles /\ UNCHANGED contextVars
  BY DEF HandlesInv, HandlesType, HandlesOwned
<1>g. {"gone", "null"} \cap Handles = {} /\ open \subseteq Handles
  BY NamesAssumption DEF HandlesInv, HandlesType
<1>1. ASSUME NEW s \in Sockets, NewSocket(s)
      PROVE  HandlesInv'
  <2>1. CASE sock' = [sock EXCEPT ![s] = "null"] /\ UNCHANGED <<open, home>>
    BY <1>0, <1>1, <1>g, <2>1, CloseOwned DEF NewSocket, Owners
  <2>2. ASSUME NEW h \in Handles, NEW p \in Ptrs, ctx[p] = "live", OpenHandle(s, h, p)
        PROVE  HandlesInv'
    <3>1. watched' \subseteq {monRef'} \cap Handles /\ s \in Owners /\ ctx[p] # "none"
      BY <1>0, <1>1, <2>2 DEF NewSocket, Owners
    <3> QED
      BY <1>0, <2>2, <3>1, OpenOwned
  <2> QED
    BY <1>1, <2>1, <2>2 DEF NewSocket
<1>2. ASSUME NEW s \in Sockets, MonitorInit(s)
      PROVE  HandlesInv'
  <2>1. watched' \subseteq {monRef'} \cap Handles
    BY <1>0, <1>2, <1>g DEF MonitorInit, Usable
  <2>2. CASE UNCHANGED <<sock, open, home>>
    BY <1>0, <2>1, <2>2 DEF HandlesInv, HandlesType, HandlesOwned, contextVars
  <2>3. ASSUME NEW h \in Handles, OpenHandle(Mon, h, home[sock[s]])
        PROVE  HandlesInv'
    <3>1. sock[s] \in open /\ ctx[home[sock[s]]] # "none"
      BY <1>2 DEF MonitorInit, Usable
    <3>2. home[sock[s]] \in Ptrs
      BY <3>1 DEF HandlesInv, HandlesOwned
    <3> QED
      BY <1>0, <2>1, <2>3, <3>1, <3>2, OpenOwned DEF Owners
  <2> QED
    BY <1>2, <2>2, <2>3 DEF MonitorInit
<1>3. ASSUME NEW s \in Sockets, NEW after \in {"null", "gone"}, CloseSocket(s, after)
      PROVE  HandlesInv'
  BY <1>0, <1>3, CloseOwned DEF CloseSocket, CloseHandle, Owners
<1>4. ASSUME NEW s \in Sockets, NEW r \in Sockets \ {s}, MoveSocket(s, r)
      PROVE  HandlesInv'
  BY <1>0, <1>4, <1>g, MoveOwned DEF MoveSocket, Owners
<1>5. ASSUME NEW s \in Sockets, NEW r \in Sockets \ {s}, AssignSocket(s, r)
      PROVE  HandlesInv'
  BY <1>0, <1>5, MoveOwned DEF AssignSocket, CloseHandle, Owners
<1>6. CASE NewMonitor
  BY <1>0, <1>6, <1>g, CloseOwned DEF NewMonitor, Owners
<1>7. CASE MonitorAbort
  BY <1>0, <1>7 DEF MonitorAbort, HandlesInv, HandlesType, HandlesOwned, contextVars
<1>8. CASE DestroyMonitor
  BY <1>0, <1>8, CloseOwned DEF DestroyMonitor, Owners
<1> QED
  BY <1>1, <1>2, <1>3, <1>4, <1>5, <1>6, <1>7, <1>8

LEMMA HandlesContext ==
  ASSUME HandlesInv, ContextStep
  PROVE  HandlesInv'
<1> USE DEF HandlesInv, HandlesType, HandlesOwned
<1>0. UNCHANGED socketVars
  BY DEF ContextStep
<1>n. {"gone", "null"} \cap Ptrs = {} /\ {"gone", "null", "no"} \cap Contexts = {}
  BY NamesAssumption
<1>s. ASSUME NEW c \in Contexts, Shut(c)
      PROVE  /\ ctx' \in [Ptrs -> {"none", "live", "shut"}]
             /\ \A p \in Ptrs : ctx'[p] # "none" <=> ctx[p] # "none"
  BY <1>s DEF Shut
<1>1. ASSUME NEW c \in Contexts, NewContext(c)
      PROVE  HandlesInv'
  <2>1. PICK p \in Ptrs : /\ ctx[p] = "none"
                          /\ cobj' = [cobj EXCEPT ![c] = p]
                          /\ ctx' = [ctx EXCEPT ![p] = "live"]
    BY <1>1 DEF NewContext
  <2>2. cobj[c] = "gone" /\ closing' = closing
    BY <1>1 DEF NewContext
  <2>3. HandlesType'
    BY <1>0, <2>1, <2>2 DEF socketVars
  <2>4. \A q \in Ptrs : ctx'[q] # "none" <=> \E d \in Contexts : cobj'[d] = q
    BY <1>n, <2>1, <2>2
  <2>5. \A d, e \in Contexts : cobj'[d] = cobj'[e] /\ cobj'[d] \in Ptrs => d = e
    BY <1>n, <2>1, <2>2
  <2>6. \A h \in open' : \E q \in Ptrs : home'[h] = q /\ ctx'[q] # "none"
    BY <1>0, <2>1 DEF socketVars
  <2> QED
    BY <1>0, <2>3, <2>4, <2>5, <2>6 DEF socketVars
<1>2. ASSUME NEW c \in Contexts, Shutdown(c)
      PROVE  HandlesInv'
  BY <1>0, <1>2, <1>s DEF Shutdown, socketVars
<1>3. ASSUME NEW c \in Contexts, NEW after \in {"null", "gone"} \cup Contexts,
             BeginClose(c, after)
      PROVE  HandlesInv'
  BY <1>0, <1>3, <1>s DEF BeginClose, socketVars
<1>4. ASSUME NEW c \in Contexts, NEW r \in Contexts \ {c}, MoveContext(c, r)
      PROVE  HandlesInv'
  <2>1. /\ cobj' = [cobj EXCEPT ![c] = cobj[r], ![r] = "null"] /\ cobj[c] = "gone"
        /\ UNCHANGED <<ctx, closing>>
    BY <1>4 DEF MoveContext
  <2> QED
    BY <1>0, <1>n, <2>1 DEF socketVars
<1> QED
  BY <1>1, <1>2, <1>3, <1>4, <1>n DEF ContextStep

LEMMA HandlesEndClose ==
  ASSUME HandlesInv, NEW c \in Contexts, EndClose(c)
  PROVE  HandlesInv'
<1> USE DEF HandlesInv, HandlesType, HandlesOwned
<1>0. UNCHANGED socketVars /\ closing' = [closing EXCEPT ![c] = "no"]
  BY DEF EndClose
<1>n. {"gone", "null"} \cap Ptrs = {} /\ {"gone", "null", "no"} \cap Contexts = {}
  BY NamesAssumption
<1>1. PICK after \in {"gone", "null"} \cup Contexts : cobj' = Swapped(c, after)
  BY DEF EndClose
<1>2. /\ ctx' = [p \in Ptrs |-> IF p = cobj[c] THEN "none" ELSE ctx[p]]
      /\ \A h \in open : home[h] # cobj[c]
  BY DEF EndClose
<1>3. /\ cobj' \in [Contexts -> {"gone", "null"} \cup Ptrs]
      /\ \A p \in Ptrs : (\E d \in Contexts : cobj'[d] = p) <=>
                           (p # cobj[c] /\ \E d \in Contexts : cobj[d] = p)
      /\ \A d, e \in Contexts : cobj'[d] = cobj'[e] /\ cobj'[d] \in Ptrs => d = e
  <2>1. CASE after \in Contexts
    <3>1. cobj' = [cobj EXCEPT ![c] = cobj[after], ![after] = "null"]
      BY <1>1, <2>1 DEF Swapped
    <3> QED
      BY <1>n, <2>1, <3>1
  <2>2. CASE after \in {"gone", "null"}
    <3>1. cobj' = [cobj EXCEPT ![c] = after]
      BY <1>1, <1>n, <2>2 DEF Swapped
    <3> QED
      BY <1>n, <2>2, <3>1
  <2> QED
    BY <2>1, <2>2
<1>4. HandlesType'
  BY <1>0, <1>2, <1>3 DEF socketVars
<1>5. \A p \in Ptrs : ctx'[p] # "none" <=> \E d \in Contexts : cobj'[d] = p
  BY <1>2, <1>3
<1>6. \A h \in open' : \E p \in Ptrs : home'[h] = p /\ ctx'[p] # "none"
  BY <1>0, <1>2 DEF socketVars
<1> QED
  BY <1>0, <1>3, <1>4, <1>5, <1>6 DEF socketVars

LEMMA HandlesNext ==
  ASSUME HandlesInv, [Next]_vars
  PROVE  HandlesInv'
<1> USE DEF socketVars, contextVars, messageVars
<1>1. CASE MessageStep
  BY <1>1, HandlesKept DEF MessageStep
<1>2. CASE WireStep
  BY <1>2, HandlesKept DEF WireStep
<1>3. CASE UNCHANGED vars
  BY <1>3, HandlesKept DEF vars
<1> QED
  BY <1>1, <1>2, <1>3, HandlesSocket, HandlesContext, HandlesEndClose DEF Next

\* For any number of sockets, monitors' sockets included, and of contexts, moved,
\* assigned and closed in any order, several at a time: no handle and no context
\* leaks, none is closed twice, and a context outlives its sockets
\* (zmq.hpp:823-878, 2160-2219, 2283-2343).
THEOREM HandlesAreOwned == Spec => []HandlesOwned
<1>1. HandlesInv => HandlesOwned
  BY DEF HandlesInv
<1>2. HandlesInv /\ [Next]_vars => HandlesInv'
  BY HandlesNext
<1> HIDE DEF HandlesInv, Init, Next, vars, HandlesOwned
<1> QED
  BY <1>1, <1>2, HandlesInit, PTL DEF Spec
-----------------------------------------------------------------------------
(* Data.                                                                   *)

One(x, b) == IF x = b THEN 1 ELSE 0

LEMMA ReferringType ==
  ASSUME NEW D, IsFiniteSet(D), NEW f, NEW b
  PROVE  IsFiniteSet({n \in D : f[n] = b}) /\ Referring(f, D, b) \in Nat
  BY FS_Subset, FS_CardinalityType DEF Referring

\* g is f but for the value x at m.
Updated(f, D, m, x, g) == \A n \in D : g[n] = IF n = m THEN x ELSE f[n]

\* A reference is exchanged for another.
LEMMA ReferringUpdate ==
  ASSUME NEW D, IsFiniteSet(D), NEW f, NEW m \in D, NEW x, NEW b, NEW g,
         Updated(f, D, m, x, g)
  PROVE  /\ Referring(f, D, b) \in Nat /\ Referring(g, D, b) \in Nat
         /\ Referring(g, D, b) = Referring(f, D, b) - One(f[m], b) + One(x, b)
<1> DEFINE S == {n \in D : f[n] = b}
           T == {n \in D : g[n] = b}
<1>1. IsFiniteSet(S) /\ Cardinality(S) \in Nat /\ IsFiniteSet(T) /\ Cardinality(T) \in Nat
  BY FS_Subset, FS_CardinalityType
<1>2. \A n \in D : g[n] = IF n = m THEN x ELSE f[n]
  BY DEF Updated
<1>3. /\ IsFiniteSet(S \ {m})
      /\ Cardinality(S \ {m}) = IF f[m] = b THEN Cardinality(S) - 1 ELSE Cardinality(S)
  BY <1>1, FS_RemoveElement
<1>4. CASE x = b
  <2>1. T = (S \ {m}) \cup {m}
    BY <1>2, <1>4
  <2>2. Cardinality(T) = Cardinality(S \ {m}) + 1
    BY <1>3, <2>1, FS_AddElement
  <2> QED
    BY <1>1, <1>2, <1>3, <1>4, <2>2 DEF Referring, One
<1>5. CASE x # b
  <2>1. T = S \ {m}
    BY <1>2, <1>5
  <2> QED
    BY <1>1, <1>2, <1>3, <1>5, <2>1 DEF Referring, One
<1> QED
  BY <1>4, <1>5

\* The references from E are taken away.
LEMMA ReferringWithout ==
  ASSUME NEW D, IsFiniteSet(D), NEW E \in SUBSET D, NEW f, NEW g, NEW b,
         \A n \in D : g[n] = IF n \in E THEN "free" ELSE f[n], b # "free"
  PROVE  Referring(g, D, b) = Referring(f, D, b) - Referring(f, E, b)
<1> DEFINE S == {n \in D : f[n] = b}
           R == {n \in E : f[n] = b}
           T == {n \in D : g[n] = b}
<1>1. IsFiniteSet(E)
  BY FS_Subset
<1>2. IsFiniteSet(R) /\ IsFiniteSet(T)
  BY <1>1, FS_Subset
<1>3. S = R \cup T /\ R \cap T = {}
  OBVIOUS
<1>4. Cardinality(S) = Cardinality(R) + Cardinality(T) - Cardinality(R \cap T)
  BY <1>2, <1>3, FS_Union
<1>5. Cardinality(R \cap T) = 0
  BY <1>3, FS_EmptySet
<1>6. Cardinality(R) \in Nat /\ Cardinality(T) \in Nat
  BY <1>2, FS_CardinalityType
<1> QED
  BY <1>4, <1>5, <1>6 DEF Referring

Held(f, b) == Referring(f, Messages, b)

Queued(w, b) == Referring(w, Slots, b)

Values == {"gone", "closed", "empty", "free"} \cup Blocks

BlocksInv ==
  /\ msg \in [Messages -> Values]
  /\ refs \in [Blocks -> Nat]
  /\ wire \in [Slots -> Values]
  /\ BlocksOwned

LEMMA Counts ==
  ASSUME BlocksInv, NEW b \in Blocks
  PROVE  /\ refs[b] = Held(msg, b) + Queued(wire, b)
         /\ Held(msg, b) \in Nat /\ Queued(wire, b) \in Nat /\ refs[b] \in Nat
<1>1. Held(msg, b) \in Nat /\ Queued(wire, b) \in Nat
  BY ObjectsAssumption, ReferringType DEF Held, Queued
<1>2. refs[b] = Held(msg, b) + Queued(wire, b)
  BY DEF BlocksInv, BlocksOwned, Held, Queued
<1> QED
  BY <1>1, <1>2

\* It is enough to count.
LEMMA Balance ==
  ASSUME msg' \in [Messages -> Values], wire' \in [Slots -> Values],
         refs' = [b \in Blocks |-> refs'[b]],
         \A b \in Blocks : refs'[b] = Held(msg', b) + Queued(wire', b)
  PROVE  BlocksInv'
<1>1. ASSUME NEW b \in Blocks PROVE refs'[b] \in Nat
  <2>1. Held(msg', b) \in Nat /\ Queued(wire', b) \in Nat
    BY ObjectsAssumption, ReferringType DEF Held, Queued
  <2> QED
    BY <2>1
<1>2. refs' \in [Blocks -> Nat]
  BY <1>1
<1>3. BlocksOwned'
  BY DEF BlocksOwned, Held, Queued
<1> QED
  BY <1>2, <1>3 DEF BlocksInv

\* One message changes.
LEMMA OneChanged ==
  ASSUME BlocksInv, NEW m \in Messages, NEW x \in Values,
         msg' = [msg EXCEPT ![m] = x]
  PROVE  /\ msg' \in [Messages -> Values]
         /\ \A b \in Blocks : Held(msg', b) = Held(msg, b) - One(msg[m], b) + One(x, b)
<1>1. msg \in [Messages -> Values]
  BY DEF BlocksInv
<1>2. Updated(msg, Messages, m, x, msg')
  BY <1>1 DEF Updated
<1> QED
  BY <1>1, <1>2, ReferringUpdate, ObjectsAssumption DEF Held

\* One slot changes.
LEMMA SlotChanged ==
  ASSUME BlocksInv, NEW i \in Slots, NEW x \in Values,
         wire' = [wire EXCEPT ![i] = x]
  PROVE  /\ wire' \in [Slots -> Values]
         /\ \A b \in Blocks : Queued(wire', b) = Queued(wire, b) - One(wire[i], b) + One(x, b)
<1>1. wire \in [Slots -> Values]
  BY DEF BlocksInv
<1>2. Updated(wire, Slots, i, x, wire')
  BY <1>1 DEF Updated
<1> QED
  BY <1>1, <1>2, ReferringUpdate, ObjectsAssumption DEF Queued

Exchanged(m, x, r, y) == msg' = [msg EXCEPT ![m] = x, ![r] = y]

\* Two messages change.
LEMMA TwoChanged ==
  ASSUME BlocksInv, NEW m \in Messages, NEW r \in Messages \ {m},
         NEW x \in Values, NEW y \in Values, Exchanged(m, x, r, y)
  PROVE  /\ msg' \in [Messages -> Values]
         /\ \A b \in Blocks : Held(msg', b) = Held(msg, b) - One(msg[m], b)
                                - One(msg[r], b) + One(x, b) + One(y, b)
<1> DEFINE h == [msg EXCEPT ![m] = x]
<1>1. /\ Updated(msg, Messages, m, x, h) /\ Updated(h, Messages, r, y, msg')
      /\ h[r] = msg[r]
  BY DEF BlocksInv, Updated, Exchanged
<1>2. msg' \in [Messages -> Values]
  BY DEF BlocksInv, Exchanged
<1> HIDE DEF h
<1>3. ASSUME NEW b \in Blocks
      PROVE  Held(msg', b) = Held(msg, b) - One(msg[m], b) - One(msg[r], b)
                               + One(x, b) + One(y, b)
  <2>1. /\ Held(msg, b) \in Nat /\ Held(h, b) \in Nat
        /\ Held(h, b) = Held(msg, b) - One(msg[m], b) + One(x, b)
    BY <1>1, ReferringUpdate, ObjectsAssumption DEF Held
  <2>2. Held(msg', b) = Held(h, b) - One(h[r], b) + One(y, b)
    BY <1>1, ReferringUpdate, ObjectsAssumption DEF Held
  <2>3. /\ One(x, b) \in {0, 1} /\ One(y, b) \in {0, 1}
        /\ One(msg[m], b) \in {0, 1} /\ One(msg[r], b) \in {0, 1}
    BY DEF One
  <2> QED
    BY <1>1, <2>1, <2>2, <2>3
<1> QED
  BY <1>2, <1>3

LEMMA NoBlock ==
  ASSUME NEW b \in Blocks
  PROVE  One("gone", b) = 0 /\ One("closed", b) = 0 /\ One("empty", b) = 0
         /\ One("free", b) = 0
  BY NamesAssumption DEF One

LEMMA Ones ==
  ASSUME NEW x, NEW b
  PROVE  One(x, b) \in {0, 1} /\ (One(x, b) = 1 <=> x = b)
  BY DEF One

LEMMA DroppedIs ==
  ASSUME NEW x, NEW b \in Blocks
  PROVE  Dropped(x)[b] = refs[b] - One(x, b)
  BY DEF Dropped, One

\* A new block for m, the block of m given up in r.
LEMMA FreshOwned ==
  ASSUME BlocksInv, NEW m \in Messages, NEW r, DOMAIN r = Blocks,
         \A b \in Blocks : r[b] = refs[b] - One(msg[m], b),
         Fresh(m, r), UNCHANGED wire
  PROVE  BlocksInv'
<1>1. PICK b \in Blocks : /\ r[b] = 0
                          /\ msg' = [msg EXCEPT ![m] = b]
                          /\ refs' = [r EXCEPT ![b] = 1]
  BY DEF Fresh
<1>2. /\ msg' \in [Messages -> Values]
      /\ \A a \in Blocks : Held(msg', a) = Held(msg, a) - One(msg[m], a) + One(b, a)
  BY <1>1, OneChanged DEF Values
<1>3. ASSUME NEW a \in Blocks PROVE refs'[a] = Held(msg', a) + Queued(wire', a)
  <2>1. /\ refs[a] = Held(msg, a) + Queued(wire, a)
        /\ Held(msg, a) \in Nat /\ Queued(wire, a) \in Nat
    BY Counts
  <2>2. r[a] = refs[a] - One(msg[m], a)
    OBVIOUS
  <2>3. refs'[a] = IF a = b THEN 1 ELSE r[a]
    BY <1>1
  <2>4. a = b => r[a] = 0
    BY <1>1
  <2>5. Held(msg', a) = Held(msg, a) - One(msg[m], a) + One(b, a)
    BY <1>2
  <2>6. One(b, a) = (IF a = b THEN 1 ELSE 0) /\ One(msg[m], a) \in {0, 1}
    BY DEF One
  <2> QED
    BY <2>1, <2>2, <2>3, <2>4, <2>5, <2>6
<1>4. refs' = [a \in Blocks |-> refs'[a]] /\ wire' \in [Slots -> Values]
  BY <1>1 DEF BlocksInv
<1> QED
  BY <1>2, <1>3, <1>4, Balance

LEMMA MessagesOwned ==
  ASSUME BlocksInv, MessageStep
  PROVE  BlocksInv'
<1> USE DEF MessageStep
<1>0. wire' \in [Slots -> Values] /\ UNCHANGED wire
  BY DEF BlocksInv, wireVars
<1>t. msg \in [Messages -> Values] /\ refs \in [Blocks -> Nat]
  BY DEF BlocksInv
<1>f. UNCHANGED refs => refs' = [b \in Blocks |-> refs'[b]]
  BY <1>t
<1>g. \A x : refs' = Dropped(x) => refs' = [b \in Blocks |-> refs'[b]]
  BY DEF Dropped
<1>1. ASSUME NEW m \in Messages, NewMessage(m)
      PROVE  BlocksInv'
  <2>1. CASE msg' = [msg EXCEPT ![m] = "empty"] /\ UNCHANGED refs
    <3>1. /\ msg' \in [Messages -> Values]
          /\ \A b \in Blocks : Held(msg', b) = Held(msg, b) - One(msg[m], b) + One("empty", b)
      BY <2>1, OneChanged DEF Values
    <3>2. ASSUME NEW b \in Blocks PROVE refs'[b] = Held(msg', b) + Queued(wire', b)
      <4>1. refs'[b] = refs[b] /\ One(msg[m], b) = 0 /\ One("empty", b) = 0
        BY <1>1, <2>1, NoBlock DEF NewMessage
      <4>2. /\ refs[b] = Held(msg, b) + Queued(wire, b)
            /\ Held(msg, b) \in Nat /\ Queued(wire, b) \in Nat
        BY Counts
      <4> QED
        BY <1>0, <3>1, <4>1, <4>2
    <3> QED
      BY <1>0, <1>f, <2>1, <3>1, <3>2, Balance
  <2>2. CASE Fresh(m, refs)
    <3>1. ASSUME NEW b \in Blocks PROVE refs[b] = refs[b] - One(msg[m], b)
      BY <1>1, <1>t, NoBlock DEF NewMessage
    <3> QED
      BY <1>0, <1>t, <2>2, <3>1, FreshOwned
  <2> QED
    BY <1>1, <2>1, <2>2 DEF NewMessage
<1>2. ASSUME NEW m \in Messages, Rebuild(m)
      PROVE  BlocksInv'
  <2>1. ASSUME NEW x \in {"empty", "closed"}, msg' = [msg EXCEPT ![m] = x],
               refs' = Dropped(msg[m])
        PROVE  BlocksInv'
    <3>1. /\ msg' \in [Messages -> Values]
          /\ \A b \in Blocks : Held(msg', b) = Held(msg, b) - One(msg[m], b) + One(x, b)
      BY <2>1, OneChanged DEF Values
    <3>2. ASSUME NEW b \in Blocks PROVE refs'[b] = Held(msg', b) + Queued(wire', b)
      <4>1. refs'[b] = refs[b] - One(msg[m], b) /\ One(msg[m], b) \in {0, 1} /\ One(x, b) = 0
        BY <2>1, DroppedIs, Ones, NoBlock
      <4>2. /\ refs[b] = Held(msg, b) + Queued(wire, b)
            /\ Held(msg, b) \in Nat /\ Queued(wire, b) \in Nat
        BY Counts
      <4> QED
        BY <1>0, <3>1, <4>1, <4>2
    <3> QED
      BY <1>0, <1>g, <2>1, <3>1, <3>2, Balance
  <2>2. CASE Fresh(m, Dropped(msg[m]))
    <3>1. DOMAIN Dropped(msg[m]) = Blocks
      BY DEF Dropped
    <3> QED
      BY <1>0, <2>2, <3>1, DroppedIs, FreshOwned
  <2> QED
    BY <1>2, <2>1, <2>2 DEF Rebuild
<1>3. ASSUME NEW m \in Messages, NEW r \in Messages \ {m}, MoveMessage(m, r), UNCHANGED wire
      PROVE  BlocksInv'
  <2>1. msg[r] \in Values /\ "empty" \in Values
    BY <1>t DEF Values
  <2>2. /\ msg' \in [Messages -> Values]
        /\ \A b \in Blocks : Held(msg', b) = Held(msg, b) - One(msg[m], b)
                               - One(msg[r], b) + One(msg[r], b) + One("empty", b)
    <3>1. Exchanged(m, msg[r], r, "empty")
      BY <1>3 DEF MoveMessage, Exchanged
    <3> QED
      BY <2>1, <3>1, TwoChanged
  <2>3. ASSUME NEW b \in Blocks PROVE refs'[b] = Held(msg', b) + Queued(wire', b)
    <3>1. refs'[b] = refs[b] /\ One(msg[m], b) = 0 /\ One("empty", b) = 0
          /\ One(msg[r], b) \in {0, 1}
      BY <1>3, Ones, NoBlock DEF MoveMessage
    <3>2. /\ refs[b] = Held(msg, b) + Queued(wire, b)
          /\ Held(msg, b) \in Nat /\ Queued(wire, b) \in Nat
      BY Counts
    <3> QED
      BY <1>0, <2>2, <3>1, <3>2
  <2> QED
    BY <1>0, <1>3, <1>f, <2>2, <2>3, Balance DEF MoveMessage
<1>4. ASSUME NEW m \in Messages, NEW r \in Messages \ {m}, SwapMessages(m, r)
      PROVE  BlocksInv'
  <2>1. msg[r] \in Values /\ msg[m] \in Values
    BY <1>t
  <2>2. /\ msg' \in [Messages -> Values]
        /\ \A b \in Blocks : Held(msg', b) = Held(msg, b) - One(msg[m], b)
                               - One(msg[r], b) + One(msg[r], b) + One(msg[m], b)
    <3>1. Exchanged(m, msg[r], r, msg[m])
      BY <1>4 DEF SwapMessages, Exchanged
    <3> QED
      BY <2>1, <3>1, TwoChanged
  <2>3. ASSUME NEW b \in Blocks PROVE refs'[b] = Held(msg', b) + Queued(wire', b)
    <3>1. refs'[b] = refs[b] /\ One(msg[m], b) \in {0, 1} /\ One(msg[r], b) \in {0, 1}
      BY <1>4, Ones DEF SwapMessages
    <3>2. /\ refs[b] = Held(msg, b) + Queued(wire, b)
          /\ Held(msg, b) \in Nat /\ Queued(wire, b) \in Nat
      BY Counts
    <3> QED
      BY <1>0, <2>2, <3>1, <3>2
  <2> QED
    BY <1>0, <1>4, <1>f, <2>2, <2>3, Balance DEF SwapMessages
<1>5. ASSUME NEW m \in Messages, NEW r \in Messages \ {m}, MoveFrom(m, r)
      PROVE  BlocksInv'
  <2>1. msg[r] \in Values /\ "empty" \in Values
    BY <1>t DEF Values
  <2>2. /\ msg' \in [Messages -> Values]
        /\ \A b \in Blocks : Held(msg', b) = Held(msg, b) - One(msg[m], b)
                               - One(msg[r], b) + One(msg[r], b) + One("empty", b)
    <3>1. Exchanged(m, msg[r], r, "empty")
      BY <1>5 DEF MoveFrom, Exchanged
    <3> QED
      BY <2>1, <3>1, TwoChanged
  <2>3. ASSUME NEW b \in Blocks PROVE refs'[b] = Held(msg', b) + Queued(wire', b)
    <3>1. refs'[b] = refs[b] - One(msg[m], b) /\ One("empty", b) = 0
          /\ One(msg[m], b) \in {0, 1} /\ One(msg[r], b) \in {0, 1}
      BY <1>5, DroppedIs, Ones, NoBlock DEF MoveFrom
    <3>2. /\ refs[b] = Held(msg, b) + Queued(wire, b)
          /\ Held(msg, b) \in Nat /\ Queued(wire, b) \in Nat
      BY Counts
    <3> QED
      BY <1>0, <2>2, <3>1, <3>2
  <2>4. refs' = Dropped(msg[m])
    BY <1>5 DEF MoveFrom
  <2> QED
    BY <1>0, <1>g, <2>2, <2>3, <2>4, Balance
<1>6. ASSUME NEW m \in Messages, NEW r \in Messages \ {m}, CopyFrom(m, r)
      PROVE  BlocksInv'
  <2>1. msg[r] \in Values
    BY <1>t
  <2>2. /\ msg' \in [Messages -> Values]
        /\ \A b \in Blocks : Held(msg', b) = Held(msg, b) - One(msg[m], b) + One(msg[r], b)
    BY <1>6, <2>1, OneChanged DEF CopyFrom
  <2>3. ASSUME NEW b \in Blocks PROVE refs'[b] = Held(msg', b) + Queued(wire', b)
    <3>1. /\ refs'[b] = Dropped(msg[m])[b] + One(msg[r], b)
          /\ Dropped(msg[m])[b] = refs[b] - One(msg[m], b)
          /\ One(msg[m], b) \in {0, 1} /\ One(msg[r], b) \in {0, 1}
      BY <1>6, DroppedIs, Ones DEF CopyFrom, One
    <3>2. /\ refs[b] = Held(msg, b) + Queued(wire, b)
          /\ Held(msg, b) \in Nat /\ Queued(wire, b) \in Nat
      BY Counts
    <3> QED
      BY <1>0, <2>2, <3>1, <3>2
  <2>4. refs' = [b \in Blocks |-> refs'[b]]
    BY <1>6 DEF CopyFrom
  <2> QED
    BY <1>0, <2>2, <2>3, <2>4, Balance
<1>7. ASSUME NEW m \in Messages, DestroyMessage(m)
      PROVE  BlocksInv'
  <2>1. /\ msg' \in [Messages -> Values]
        /\ \A b \in Blocks : Held(msg', b) = Held(msg, b) - One(msg[m], b) + One("gone", b)
    BY <1>7, OneChanged DEF DestroyMessage, Values
  <2>2. ASSUME NEW b \in Blocks PROVE refs'[b] = Held(msg', b) + Queued(wire', b)
    <3>1. refs'[b] = refs[b] - One(msg[m], b) /\ One(msg[m], b) \in {0, 1} /\ One("gone", b) = 0
      BY <1>7, DroppedIs, Ones, NoBlock DEF DestroyMessage
    <3>2. /\ refs[b] = Held(msg, b) + Queued(wire, b)
          /\ Held(msg, b) \in Nat /\ Queued(wire, b) \in Nat
      BY Counts
    <3> QED
      BY <1>0, <2>1, <3>1, <3>2
  <2>3. refs' = Dropped(msg[m])
    BY <1>7 DEF DestroyMessage
  <2> QED
    BY <1>0, <1>g, <2>1, <2>2, <2>3, Balance
<1> QED
  BY <1>0, <1>1, <1>2, <1>3, <1>4, <1>5, <1>6, <1>7

LEMMA PutsQueued ==
  ASSUME BlocksInv, NEW s, NEW x \in Values, Puts(s, x)
  PROVE  /\ wire' \in [Slots -> Values]
         /\ \A b \in Blocks : Queued(wire', b) = Queued(wire, b) + One(x, b)
<1>1. PICK i \in Slots : wire[i] = "free" /\ wire' = [wire EXCEPT ![i] = x]
  BY DEF Puts
<1>2. ASSUME NEW b \in Blocks PROVE Queued(wire', b) = Queued(wire, b) + One(x, b)
  <2>1. Queued(wire', b) = Queued(wire, b) - One(wire[i], b) + One(x, b)
    BY <1>1, SlotChanged
  <2>2. One(wire[i], b) = 0 /\ One(x, b) \in {0, 1} /\ Queued(wire, b) \in Nat
    BY <1>1, NoBlock, Ones, Counts
  <2> QED
    BY <2>1, <2>2
<1> QED
  BY <1>1, <1>2, SlotChanged

LEMMA TakesQueued ==
  ASSUME BlocksInv, NEW s, NEW x, Takes(s, x)
  PROVE  /\ wire' \in [Slots -> Values]
         /\ \A b \in Blocks : Queued(wire', b) = Queued(wire, b) - One(x, b)
<1>1. PICK i \in Slots : wire[i] = x /\ wire' = [wire EXCEPT ![i] = "free"]
  BY DEF Takes
<1>v. "free" \in Values
  BY DEF Values
<1>2. ASSUME NEW b \in Blocks PROVE Queued(wire', b) = Queued(wire, b) - One(x, b)
  <2>1. Queued(wire', b) = Queued(wire, b) - One(wire[i], b) + One("free", b)
    BY <1>1, <1>v, SlotChanged
  <2>2. One("free", b) = 0 /\ One(x, b) \in {0, 1} /\ Queued(wire, b) \in Nat
    BY NoBlock, Ones, Counts
  <2> QED
    BY <1>1, <2>1, <2>2
<1> QED
  BY <1>1, <1>2, <1>v, SlotChanged

LEMMA WireOwned ==
  ASSUME BlocksInv, WireStep
  PROVE  BlocksInv'
<1> USE DEF WireStep
<1>t. msg \in [Messages -> Values] /\ refs \in [Blocks -> Nat]
  BY DEF BlocksInv
<1>g. \A x : refs' = Dropped(x) => refs' = [b \in Blocks |-> refs'[b]]
  BY DEF Dropped
<1>v. Contents \subseteq Values /\ "empty" \in Values
  BY DEF Contents, Values
<1>1. ASSUME NEW m \in Messages, NEW s \in Sockets, Send(m, s)
      PROVE  BlocksInv'
  <2>1. msg[m] \in Values
    BY <1>t
  <2>2. msg' = [msg EXCEPT ![m] = "empty"] /\ Puts(s, msg[m]) /\ refs' = refs
    BY <1>1 DEF Send
  <2>3. /\ msg' \in [Messages -> Values]
        /\ \A b \in Blocks : Held(msg', b) = Held(msg, b) - One(msg[m], b) + One("empty", b)
    BY <1>v, <2>2, OneChanged
  <2>4. /\ wire' \in [Slots -> Values]
        /\ \A b \in Blocks : Queued(wire', b) = Queued(wire, b) + One(msg[m], b)
    BY <2>1, <2>2, PutsQueued
  <2>5. ASSUME NEW b \in Blocks PROVE refs'[b] = Held(msg', b) + Queued(wire', b)
    <3>1. One("empty", b) = 0 /\ One(msg[m], b) \in {0, 1} /\ refs'[b] = refs[b]
      BY <2>2, Ones, NoBlock
    <3>2. /\ refs[b] = Held(msg, b) + Queued(wire, b)
          /\ Held(msg, b) \in Nat /\ Queued(wire, b) \in Nat
      BY Counts
    <3> QED
      BY <2>3, <2>4, <3>1, <3>2
  <2>6. refs' = [b \in Blocks |-> refs'[b]]
    BY <1>t, <2>2
  <2> QED
    BY <2>3, <2>4, <2>5, <2>6, Balance
<1>2. ASSUME NEW m \in Messages, NEW s \in Sockets, Recv(m, s)
      PROVE  BlocksInv'
  <2>1. PICK x \in Contents : Takes(s, x) /\ msg' = [msg EXCEPT ![m] = x]
    BY <1>2 DEF Recv
  <2>r. refs' = Dropped(msg[m])
    BY <1>2 DEF Recv
  <2>2. /\ msg' \in [Messages -> Values]
        /\ \A b \in Blocks : Held(msg', b) = Held(msg, b) - One(msg[m], b) + One(x, b)
    BY <1>v, <2>1, OneChanged
  <2>3. /\ wire' \in [Slots -> Values]
        /\ \A b \in Blocks : Queued(wire', b) = Queued(wire, b) - One(x, b)
    BY <2>1, TakesQueued
  <2>4. ASSUME NEW b \in Blocks PROVE refs'[b] = Held(msg', b) + Queued(wire', b)
    <3>1. /\ One(x, b) \in {0, 1} /\ One(msg[m], b) \in {0, 1}
          /\ refs'[b] = refs[b] - One(msg[m], b)
      BY <2>r, Ones, DroppedIs
    <3>2. /\ refs[b] = Held(msg, b) + Queued(wire, b)
          /\ Held(msg, b) \in Nat /\ Queued(wire, b) \in Nat
      BY Counts
    <3> QED
      BY <2>2, <2>3, <3>1, <3>2
  <2> QED
    BY <1>g, <2>r, <2>2, <2>3, <2>4, Balance
<1>3. ASSUME NEW s \in Sockets, SendBuffer(s)
      PROVE  BlocksInv'
  <2>1. PICK x \in Blocks : refs[x] = 0 /\ refs' = [refs EXCEPT ![x] = 1] /\ Puts(s, x)
    BY <1>3 DEF SendBuffer
  <2>m. msg' = msg /\ msg' \in [Messages -> Values]
    BY <1>3, <1>t DEF SendBuffer
  <2>2. /\ wire' \in [Slots -> Values]
        /\ \A b \in Blocks : Queued(wire', b) = Queued(wire, b) + One(x, b)
    BY <2>1, PutsQueued DEF Values
  <2>3. ASSUME NEW b \in Blocks PROVE refs'[b] = Held(msg', b) + Queued(wire', b)
    <3>1. /\ refs[b] = Held(msg, b) + Queued(wire, b)
          /\ Held(msg, b) \in Nat /\ Queued(wire, b) \in Nat
      BY Counts
    <3>3. refs'[b] = refs[b] + One(x, b)
      BY <1>t, <2>1 DEF One
    <3>4. Held(msg', b) = Held(msg, b) /\ One(x, b) \in {0, 1}
      BY <2>m, Ones
    <3> QED
      BY <2>2, <3>1, <3>3, <3>4
  <2>4. refs' = [b \in Blocks |-> refs'[b]]
    BY <1>t, <2>1
  <2> QED
    BY <2>m, <2>2, <2>3, <2>4, Balance
<1>4. ASSUME NEW s \in Sockets, RecvBuffer(s)
      PROVE  BlocksInv'
  <2>1. PICK x \in Contents : Takes(s, x) /\ refs' = Dropped(x)
    BY <1>4 DEF RecvBuffer
  <2>m. msg' = msg /\ msg' \in [Messages -> Values]
    BY <1>4, <1>t DEF RecvBuffer
  <2>2. /\ wire' \in [Slots -> Values]
        /\ \A b \in Blocks : Queued(wire', b) = Queued(wire, b) - One(x, b)
    BY <2>1, TakesQueued
  <2>3. ASSUME NEW b \in Blocks PROVE refs'[b] = Held(msg', b) + Queued(wire', b)
    <3>1. /\ refs[b] = Held(msg, b) + Queued(wire, b)
          /\ Held(msg, b) \in Nat /\ Queued(wire, b) \in Nat
      BY Counts
    <3>3. refs'[b] = refs[b] - One(x, b) /\ One(x, b) \in {0, 1}
      BY <2>1, DroppedIs, Ones
    <3>4. Held(msg', b) = Held(msg, b)
      BY <2>m
    <3> QED
      BY <2>2, <3>1, <3>3, <3>4
  <2> QED
    BY <1>g, <2>1, <2>m, <2>2, <2>3, Balance
<1> QED
  BY <1>1, <1>2, <1>3, <1>4

\* Messages on their way are released with their context.
LEMMA CloseReleases ==
  ASSUME BlocksInv, NEW c \in Contexts, EndClose(c)
  PROVE  BlocksInv'
<1> DEFINE ends == {i \in Slots : route[i] = cobj[c] /\ cobj[c] \in Ptrs}
<1>t. msg \in [Messages -> Values] /\ wire \in [Slots -> Values]
  BY DEF BlocksInv
<1>1. /\ wire' = [i \in Slots |-> IF i \in ends THEN "free" ELSE wire[i]]
      /\ refs' = [b \in Blocks |-> refs[b] - Referring(wire, ends, b)]
      /\ msg' = msg
  BY DEF EndClose
<1>2. ends \in SUBSET Slots
  OBVIOUS
<1> HIDE DEF ends
<1>3. wire' \in [Slots -> Values]
  BY <1>t, <1>1 DEF Values
<1>4. ASSUME NEW b \in Blocks PROVE refs'[b] = Held(msg', b) + Queued(wire', b)
  <2>1. /\ refs[b] = Held(msg, b) + Queued(wire, b)
        /\ Held(msg, b) \in Nat /\ Queued(wire, b) \in Nat
    BY Counts
  <2>2. b # "free"
    BY NamesAssumption
  <2>3. Queued(wire', b) = Queued(wire, b) - Referring(wire, ends, b)
    BY <1>1, <1>2, <2>2, ReferringWithout, ObjectsAssumption DEF Queued
  <2>4. Referring(wire, ends, b) \in Nat
    BY <1>2, ObjectsAssumption, FS_Subset, ReferringType
  <2>5. refs'[b] = refs[b] - Referring(wire, ends, b) /\ Held(msg', b) = Held(msg, b)
    BY <1>1
  <2> QED
    BY <2>1, <2>3, <2>4, <2>5
<1>5. refs' = [b \in Blocks |-> refs'[b]]
  BY <1>1
<1> QED
  BY <1>t, <1>1, <1>3, <1>4, <1>5, Balance

LEMMA BlocksInit == Init => BlocksInv
<1> SUFFICES ASSUME Init PROVE BlocksInv
  OBVIOUS
<1>1. /\ msg \in [Messages -> Values] /\ refs \in [Blocks -> Nat]
      /\ wire \in [Slots -> Values]
  BY DEF Init, Values
<1>2. ASSUME NEW b \in Blocks
      PROVE  refs[b] = Referring(msg, Messages, b) + Referring(wire, Slots, b)
  <2>1. /\ {m \in Messages : msg[m] = b} = {}
        /\ {i \in Slots : wire[i] = b} = {}
    BY NamesAssumption DEF Init
  <2>2. Referring(msg, Messages, b) = 0 /\ Referring(wire, Slots, b) = 0
    BY <2>1, FS_EmptySet DEF Referring
  <2>4. refs[b] = 0
    BY DEF Init
  <2> QED
    BY <2>2, <2>4
<1> QED
  BY <1>1, <1>2 DEF BlocksInv, BlocksOwned

LEMMA BlocksNext ==
  ASSUME BlocksInv, [Next]_vars
  PROVE  BlocksInv'
<1>0. ASSUME UNCHANGED <<messageVars, wire>> PROVE BlocksInv'
  BY <1>0 DEF BlocksInv, BlocksOwned, messageVars, Referring
<1>1. CASE SocketStep \/ ContextStep \/ UNCHANGED vars
  BY <1>0, <1>1 DEF SocketStep, ContextStep, vars, wireVars
<1> QED
  BY <1>1, MessagesOwned, WireOwned, CloseReleases DEF Next

\* However messages are created, moved, swapped, copied, rebuilt, sent, received
\* and destroyed, libzmq's count of references to their data is right: nothing
\* leaks, and nothing is freed under a message (zmq.hpp:493-585, 1957-2026).
THEOREM BlocksAreOwned == Spec => []BlocksOwned
<1>1. BlocksInv => BlocksOwned
  BY DEF BlocksInv
<1>2. BlocksInv /\ [Next]_vars => BlocksInv'
  BY BlocksNext
<1> HIDE DEF BlocksInv, Init, Next, vars, BlocksOwned
<1> QED
  BY <1>1, <1>2, BlocksInit, PTL DEF Spec
=============================================================================
