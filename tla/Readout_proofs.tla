---------------------------- MODULE Readout_proofs ----------------------------
(***************************************************************************)
(* Theorems about the acquisition thread on its board, for any chips, any  *)
(* settings, any width of int and any bound of the FIFOs: every event is   *)
(* one whole burst, the board is never more than two bursts ahead, no      *)
(* trigger is merged, the DMA buffer and the descriptor ring are not       *)
(* touched at the wrong time.                                              *)
(***************************************************************************)
EXTENDS Readout, DAQThread_proofs

-----------------------------------------------------------------------------
(* The inductive invariant that the properties above follow from.          *)

\* The driver call the thread is at belongs to the step it is at.
SubAgrees ==
  /\ sub = "configured" => thr = "none"
  /\ sub \in {"mode", "idle", "prime", "primed"} <=> thr = "enter"
  /\ sub \in {"start", "wait", "sync", "copy"} <=> thr = "read"
  /\ sub = "primed" => daq.nsum = 0

\* Registers, ring and buffer are those of the settings, from the first
\* configure on.
Configured ==
  /\ ring = <<>> => thr = "none" /\ sub = "none"
  /\ ring # <<>> =>
       /\ depth = daq.reads /\ ltc.nEvents = daq.reads /\ daq.reads > 0
       /\ ltc.nSG = daq.nchan + 1
       /\ Len(ring) = daq.nchan + 1 /\ Len(buf) = Len(ring)
       /\ \A i \in 1..Len(ring) : ring[i] = Stamp <=> i = Len(ring)
       /\ \A i, j \in 1..Len(ring) : ring[i] = ring[j] => i = j

\* The engine moves while the thread waits for it, and only then; when its
\* interrupt comes it has been through the ring.
AtRest(done) == dma = [active |-> FALSE, next |-> 1, done |-> done]

EngineAgrees ==
  /\ sub = "wait" =>
       /\ owner = "device"
       /\ \/ /\ dma.active /\ dmaIrq = "armed"
             /\ dma.next \in 1..Len(ring) /\ dma.done = 1..dma.next-1
          \/ AtRest(1..Len(ring)) /\ dmaIrq = "raised"
  /\ sub \in {"sync", "copy"} => AtRest(1..Len(ring)) /\ dmaIrq = "armed"
  /\ sub = "copy" => owner = "cpu"
  /\ sub \notin {"wait", "sync", "copy"} => AtRest({}) /\ dmaIrq = "armed"

\* From the reset of the FIFOs to the end of the run.
Counting == thr \in Running /\ sub \notin {"mode", "idle"}

\* Triggered bursts are one at a time and at most one is kept.
BoardAgrees ==
  /\ pend => burst > 0
  /\ free <=> daq.nsum # 0 /\ thr \in Running \ {"enter"}
  /\ Counting => accept /\ burst <= depth /\ (daq.nsum # 0 => ~pend)

\* The words delivered of the burst in progress.
Begun == IF burst = 0 THEN 0 ELSE depth - burst

\* What is left of the FIFO of descriptor i has lost the event's burst.
Taken(i) == IF thr = "send" \/ i \in dma.done THEN 1 ELSE 0

\* f holds m whole bursts of d words, numbered from first, and b words of the
\* next one.
Bursts(f, d, b, first, m) ==
  /\ Len(f) = m * d + b
  /\ \A q \in 0..m, j \in 1..d :
       q * d + j <= Len(f) => f[q * d + j] = (first + q) % BurstIds

Bursting == IF burst > 0 THEN 1 ELSE 0
Pending  == IF pend THEN 1 ELSE 0

\* The board is n whole bursts ahead of the thread, and every FIFO holds those
\* it has not given to the event.
Holding(n) ==
  /\ id = (iTrig + n) % BurstIds
  /\ \A i \in 1..Len(ring) :
       /\ Taken(i) <= n
       /\ Bursts(fifo[ring[i]], depth, Begun, iTrig + Taken(i), n - Taken(i))

\* The regions of the completed descriptors hold the burst of the event.
Fetched ==
  \A i \in dma.done : buf[i] = [k \in 1..ltc.nEvents |-> iTrig % BurstIds]

\* In a triggered run the board is one burst ahead between events, the one in
\* progress and a kept trigger counted, and two in an event.  A free-running
\* one interrupts for a burst it holds.
InStep(n) ==
  /\ thr \in {"read", "send"} => n >= 1
  /\ daq.nsum = 0 =>
       n + Bursting + Pending =
         (IF thr = "enter" /\ sub = "prime" THEN 0
          ELSE IF thr \in {"acquire", "read", "send"} THEN 2 ELSE 1)
  /\ daq.nsum # 0 =>
       /\ thr = "enter" => n = 0 /\ burst = 0 /\ intr = "armed"
       /\ thr \in {"read", "send"} => intr = "taken"
       /\ thr \notin {"read", "send"} => intr # "taken" /\ (intr = "raised" => n >= 1)

Ahead(n) == Holding(n) /\ Fetched /\ InStep(n)

\* Each burst leaves at least one word, but the one of the event.
Accounted ==
  Counting /\ ChipSelected => \E n \in 0..Len(fifo[Stamp]) + 1 : Ahead(n)

RInv ==
  /\ RTypeOK /\ DAQInv /\ SubAgrees /\ Configured /\ EngineAgrees
  /\ BoardAgrees /\ Accounted

-----------------------------------------------------------------------------
(* Arithmetic of bursts.                                                   *)

LEMMA Products ==
  ASSUME NEW m \in Nat, NEW d \in Nat
  PROVE  /\ m * d \in Nat
         /\ (m + 1) * d = m * d + d
         /\ 0 * d = 0 /\ 1 * d = d /\ 2 * d = d + d
         /\ m # 0 => (m - 1) * d = m * d - d /\ m * d >= d
<1>1. m * d \in Nat /\ (m + 1) * d = m * d + d /\ (m - 1) * d = m * d - d
  OBVIOUS
<1>2. m # 0 => m * d >= d
  <2>1. m # 0 => (m - 1) * d \in Nat
    <3>1. m # 0 => m - 1 \in Nat
      OBVIOUS
    <3>2. \A a \in Nat : a * d \in Nat
      OBVIOUS
    <3>. QED
      BY <3>1, <3>2
  <2>. QED
    BY <1>1, <2>1
<1>. QED
  BY <1>1, <1>2

\* Fewer bursts are fewer words.
LEMMA FewerWords ==
  ASSUME NEW d \in Nat, NEW k \in Nat, NEW m \in Nat, k <= m
  PROVE  k * d <= m * d
<1>1. (m - k) * d \in Nat
  <2>1. m - k \in Nat
    OBVIOUS
  <2>2. \A a \in Nat : a * d \in Nat
    OBVIOUS
  <2>. QED
    BY <2>1, <2>2
<1>2. m * d = k * d + (m - k) * d
  OBVIOUS
<1>3. k * d \in Nat /\ m * d \in Nat
  OBVIOUS
<1>. QED
  BY <1>1, <1>2, <1>3

\* A word belongs to one burst.
LEMMA OneBurst ==
  ASSUME NEW d \in Nat, NEW q \in Nat, NEW m \in Nat,
         NEW j \in 1..d, NEW k \in 1..d, q * d + j = m * d + k
  PROVE  q = m
<1>0. /\ q * d \in Nat /\ m * d \in Nat
      /\ (q + 1) * d = q * d + d /\ (m + 1) * d = m * d + d
  BY Products
<1>1. CASE q < m
  <2>1. (q + 1) * d <= m * d
    BY <1>1, FewerWords
  <2>. QED
    BY <1>0, <2>1
<1>2. CASE m < q
  <2>1. (m + 1) * d <= q * d
    BY <1>2, FewerWords
  <2>. QED
    BY <1>0, <2>1
<1>. QED
  BY <1>1, <1>2

\* A burst leaves at least one word.
LEMMA WordsOfBursts ==
  ASSUME NEW d \in Nat, NEW m \in Nat, d > 0
  PROVE  m <= m * d
<1>1. m * (d - 1) \in Nat
  <2>1. d - 1 \in Nat
    OBVIOUS
  <2>2. \A a \in Nat : m * a \in Nat
    OBVIOUS
  <2>. QED
    BY <2>1, <2>2
<1>2. m * d = m * (d - 1) + m
  OBVIOUS
<1>. QED
  BY <1>1, <1>2

\* Burst numbers, counted on.
LEMMA NextBurst ==
  ASSUME NEW x \in Int, NEW y \in Int, x % BurstIds = y % BurstIds
  PROVE  /\ (x + 1) % BurstIds = (y + 1) % BurstIds
         /\ x % BurstIds \in 0..BurstIds-1
         /\ ((x % BurstIds) + 1) % BurstIds = (x + 1) % BurstIds
BY DEF BurstIds
LEMMA CountOn ==
  ASSUME NEW x \in Int, NEW y \in Int, NEW k \in Int,
         x % BurstIds = y % BurstIds
  PROVE  (x + k) % BurstIds = (y + k) % BurstIds
BY DEF BurstIds

LEMMA Small ==
  /\ \A x \in Int : x + 0 = x /\ x - 0 = x
  /\ \A x \in Nat : 0 <= x
  /\ \A x \in Int, t \in {0, 1} : x + t \in Int /\ (x - t) + 1 = (x + 1) - t
  /\ \A x \in Nat, t \in {0, 1} : t <= x => x - t \in Nat /\ t <= x + 1
OBVIOUS

-----------------------------------------------------------------------------
(* What happens to the bursts of one FIFO.                                 *)

\* After the reset: nothing.
LEMMA NoBursts ==
  ASSUME NEW d \in Nat, NEW first \in Int
  PROVE  Bursts(<<>>, d, 0, first, 0)
<1>1. 0 * d = 0
  BY Products
<1>2. \A q \in 0..0, j \in 1..d : q * d + j > 0
  BY <1>1
<1>. QED
  BY <1>1, <1>2 DEF Bursts

\* The board appends a word of the burst in progress.
LEMMA AppendWord ==
  ASSUME NEW f \in Seq(0..BurstIds-1), NEW d \in Nat, NEW b \in Nat, b < d,
         NEW first \in Int, NEW m \in Nat, Bursts(f, d, b, first, m),
         NEW w \in 0..BurstIds-1, w = (first + m) % BurstIds
  PROVE  Bursts(Append(f, w), d, b + 1, first, m)
<1>. DEFINE g == Append(f, w)
<1>1. /\ Len(f) \in Nat /\ Len(g) = Len(f) + 1 /\ g[Len(f) + 1] = w
      /\ \A k \in 1..Len(f) : g[k] = f[k]
  BY AppendProperties, LenProperties
<1>2. Len(f) = m * d + b /\ m * d \in Nat
  BY Products DEF Bursts
<1>3. ASSUME NEW q \in 0..m, NEW j \in 1..d, q * d + j <= Len(g)
      PROVE  g[q * d + j] = (first + q) % BurstIds
  <2>0. q * d \in Nat /\ q \in Nat
    BY Products
  <2>1. CASE q * d + j <= Len(f)
    <3>1. q * d + j \in 1..Len(f)
      BY <1>1, <2>0, <2>1
    <3>2. f[q * d + j] = (first + q) % BurstIds
      BY <2>1 DEF Bursts
    <3>. QED
      BY <1>1, <3>1, <3>2
  <2>2. CASE q * d + j = Len(f) + 1
    <3>1. q * d + j = m * d + (b + 1) /\ b + 1 \in 1..d
      BY <1>2, <2>2
    <3>2. q = m
      BY <2>0, <3>1, OneBurst
    <3>. QED
      BY <1>1, <2>2, <3>2
  <2>3. q * d + j <= Len(f) \/ q * d + j = Len(f) + 1
    <3>1. \A x \in Nat, y \in Nat, z \in Int :
            x + j <= z /\ z = y + 1 => x + j <= y \/ x + j = y + 1
      OBVIOUS
    <3>. QED
      BY <1>1, <1>3, <2>0, <3>1
  <2>. QED
    BY <2>1, <2>2, <2>3
<1>4. Len(g) = m * d + (b + 1)
  BY <1>1, <1>2
<1>. QED
  BY <1>3, <1>4 DEF Bursts

\* With all its words delivered a burst is whole.
LEMMA CompleteBurst ==
  ASSUME NEW f, NEW d \in Nat, NEW first \in Int, NEW m \in Nat,
         Bursts(f, d, d, first, m)
  PROVE  Bursts(f, d, 0, first, m + 1)
<1>1. Len(f) = (m + 1) * d + 0 /\ (m + 1) * d \in Nat
  BY Products DEF Bursts
<1>2. ASSUME NEW q \in 0..m+1, NEW j \in 1..d, q * d + j <= Len(f)
      PROVE  f[q * d + j] = (first + q) % BurstIds
  <2>1. q # m + 1
    BY <1>1, <1>2
  <2>2. q \in 0..m
    BY <2>1
  <2>. QED
    BY <1>2, <2>2 DEF Bursts
<1>. QED
  BY <1>1, <1>2 DEF Bursts

\* The engine takes the first burst: it gets that one, whole, and the rest is
\* numbered from the next.
LEMMA DropBurst ==
  ASSUME NEW f \in Seq(0..BurstIds-1), NEW d \in Nat, NEW b \in Nat,
         NEW first \in Int, NEW m \in Nat, m # 0, Bursts(f, d, b, first, m)
  PROVE  /\ d <= Len(f)
         /\ SubSeq(f, 1, d) = [k \in 1..d |-> first % BurstIds]
         /\ Len(SubSeq(f, 1, d)) = d
         /\ Bursts(SubSeq(f, d + 1, Len(f)), d, b, first + 1, m - 1)
<1>. DEFINE h == SubSeq(f, 1, d)
            g == SubSeq(f, d + 1, Len(f))
<1>0. /\ Len(f) = m * d + b /\ Len(f) \in Nat /\ m * d \in Nat
      /\ (m - 1) * d = m * d - d /\ d <= Len(f) /\ 0 * d = 0
  BY Products DEF Bursts
<1>1. h = [k \in 1..d |-> f[k]]
  BY <1>0, LenProperties
<1>2. ASSUME NEW k \in 1..d PROVE f[k] = first % BurstIds
  <2>1. 0 * d + k = k /\ k <= Len(f) /\ 0 \in 0..m
    BY <1>0
  <2>2. f[0 * d + k] = (first + 0) % BurstIds
    BY <2>1 DEF Bursts
  <2>. QED
    BY <2>1, <2>2
<1>3. h = [k \in 1..d |-> first % BurstIds]
  BY <1>1, <1>2
<1>4. Len(h) = d
  BY <1>1
<1>5. Len(g) = (m - 1) * d + b /\ \A k \in 1..Len(g) : g[k] = f[d + k]
  <2>1. \A k \in d+1..Len(f) : f[k] \in 0..BurstIds-1
    <3>1. \A k \in 1..Len(f) : f[k] \in 0..BurstIds-1
      BY LenProperties
    <3>. QED
      BY <1>0, <3>1
  <2>2. /\ Len(g) = IF d + 1 <= Len(f) THEN Len(f) - (d + 1) + 1 ELSE 0
        /\ \A k \in 1..Len(f) - (d + 1) + 1 : g[k] = f[d + 1 + k - 1]
    BY <1>0, <2>1, SubSeqProperties
  <2>3. Len(g) = Len(f) - d /\ \A k \in 1..Len(g) : g[k] = f[d + k]
    BY <1>0, <2>2
  <2>. QED
    BY <1>0, <2>3
<1>6. ASSUME NEW q \in 0..m-1, NEW j \in 1..d, q * d + j <= Len(g)
      PROVE  g[q * d + j] = (first + 1 + q) % BurstIds
  <2>1. q \in Nat /\ q * d \in Nat /\ (q + 1) * d = q * d + d
    BY Products
  <2>2. q * d + j \in 1..Len(g)
    BY <1>0, <1>5, <1>6, <2>1
  <2>3. g[q * d + j] = f[(q + 1) * d + j] /\ (q + 1) * d + j <= Len(f)
    <3>1. d + (q * d + j) = (q + 1) * d + j
      BY <2>1
    <3>. QED
      BY <1>0, <1>5, <1>6, <2>1, <2>2, <3>1
  <2>4. q + 1 \in 0..m
    OBVIOUS
  <2>5. f[(q + 1) * d + j] = (first + (q + 1)) % BurstIds
    BY <2>3, <2>4 DEF Bursts
  <2>6. first + (q + 1) = first + 1 + q
    OBVIOUS
  <2>. QED
    BY <2>3, <2>5, <2>6
<1>. QED
  BY <1>0, <1>3, <1>4, <1>5, <1>6 DEF Bursts

\* Only the number of the first burst modulo BurstIds counts.
LEMMA RenumberBursts ==
  ASSUME NEW f, NEW d \in Nat, NEW b \in Nat, NEW x \in Int, NEW y \in Int,
         NEW m \in Nat, x % BurstIds = y % BurstIds, Bursts(f, d, b, x, m)
  PROVE  Bursts(f, d, b, y, m)
<1>1. \A q \in 0..m : (x + q) % BurstIds = (y + q) % BurstIds
  BY DEF BurstIds
<1>. QED
  BY <1>1 DEF Bursts
-----------------------------------------------------------------------------
(* Types.                                                                  *)

\* The board and the driver's side of it.
BoardTypes ==
  /\ depth \in Nat /\ burst \in Nat /\ id \in 0..BurstIds-1
  /\ free \in BOOLEAN /\ pend \in BOOLEAN /\ accept \in BOOLEAN
  /\ fifo \in [Fifos -> Seq(0..BurstIds-1)]

EngineTypes ==
  /\ intr \in Irqs /\ dmaIrq \in Irqs
  /\ ring \in Seq(Fifos)
  /\ dma \in [active: BOOLEAN, next: Nat, done: SUBSET Nat]
  /\ owner \in {"cpu", "device"}
  /\ buf \in Seq(Seq(0..BurstIds-1))

LEMMA RTypes ==
  /\ RTypeOK <=> DAQTypeOK /\ sub \in Subs /\ BoardTypes /\ EngineTypes
  /\ RTypeOK' <=> DAQTypeOK' /\ sub' \in Subs /\ BoardTypes' /\ EngineTypes'
BY DEF RTypeOK, BoardTypes, EngineTypes

\* What the ring of a selection looks like.
LEMMA RingShape ==
  ASSUME NEW mask \in SUBSET Chips, NEW r \in Rings(mask)
  PROVE  /\ Cardinality(mask) \in Nat
         /\ r \in Seq(Fifos) /\ Len(r) = Cardinality(mask) + 1
         /\ \A i \in 1..Len(r) : r[i] = Stamp <=> i = Len(r)
         /\ \A i, j \in 1..Len(r) : r[i] = r[j] => i = j
<1>. DEFINE n == Cardinality(mask)
<1>1. n \in Nat
  BY MaskCount
<1>2. /\ r \in [1..n+1 -> mask \cup {Stamp}] /\ r[n+1] = Stamp
      /\ \A i \in 1..n : r[i] \in mask
      /\ \A i \in 1..n, j \in 1..n : i < j => Bit[r[i]] < Bit[r[j]]
  BY DEF Rings
<1>. HIDE DEF n
<1>3. r \in Seq(Fifos) /\ Len(r) = n + 1
  BY <1>1, <1>2 DEF Fifos
<1>4. \A i \in 1..n : r[i] # Stamp /\ Bit[r[i]] \in Nat
  BY <1>2, BitAssumption
<1>5. \A i \in 1..Len(r) : r[i] = Stamp <=> i = Len(r)
  BY <1>1, <1>2, <1>3, <1>4
<1>6. \A i, j \in 1..n : r[i] = r[j] => i = j
  BY <1>1, <1>2, <1>4
<1>7. \A i, j \in 1..Len(r) : r[i] = r[j] => i = j
  BY <1>1, <1>3, <1>5, <1>6
<1>. QED
  BY <1>1, <1>3, <1>5, <1>7 DEF n

\* Every step is a step of the DAQ_Thread object, or leaves it alone.
LEMMA RNextIsDAQStep ==
  ASSUME [RNext]_rvars
  PROVE  DAQStep
<1>1. CASE UNCHANGED rvars
  BY <1>1 DEF rvars, DAQStep
<1>2. CASE DriverStep
  <2>1. CASE ClearMode \/ ResetFifos \/ Prime \/ StartSG \/ DMAWait \/ SyncCpu
    BY <2>1 DEF ClearMode, ResetFifos, Prime, StartSG, DMAWait, SyncCpu, DAQStep
  <2>2. CASE \/ Primed \/ FreeRun \/ RLoopBody \/ WaitFifo \/ WaitIRQ
             \/ CopyOut \/ RSend \/ RPost \/ LoopControl
    BY <2>2 DEF Primed, FreeRun, RLoopBody, WaitFifo, WaitIRQ, CopyOut, RSend,
                RPost, LoopControl, DAQStep, ThreadStep
  <2>. QED
    BY <1>2, <2>1, <2>2 DEF DriverStep
<1>3. CASE BoardStep
  BY <1>3 DEF BoardStep, BurstWord, BurstStart, DMADescriptor, DAQStep
<1>4. ASSUME NEW s \in RunSettings, RConfigure(s) PROVE DAQStep
  <2>1. s \in Settings /\ configure(s)
    BY <1>4, RunAssumption DEF RConfigure
  <2>. QED
    BY <2>1 DEF DAQStep, Reconfigure
<1>5. CASE Launch \/ RStop
  BY <1>5 DEF Launch, RStop, DAQStep
<1>. QED
  BY <1>1, <1>2, <1>3, <1>4, <1>5 DEF RNext, CallerStep

\* When the engine moves a descriptor the thread is waiting for it.
LEMMA AtDescriptor ==
  ASSUME RInv, DMADescriptor
  PROVE  /\ sub = "wait" /\ thr = "read" /\ owner = "device"
         /\ Len(ring) \in Nat /\ Len(ring) = Len(buf)
         /\ dma.next \in 1..Len(ring) /\ dma.done = 1..dma.next-1
         /\ dmaIrq = "armed"
         /\ ring[dma.next] \in Fifos /\ fifo[ring[dma.next]] \in Seq(0..BurstIds-1)
<1>1. EngineTypes /\ BoardTypes
  BY RTypes DEF RInv
<1>2. dma.active
  BY DEF DMADescriptor
<1>3. sub = "wait"
  BY <1>2 DEF RInv, EngineAgrees, AtRest
<1>4. thr = "read" /\ Len(ring) = Len(buf)
  BY <1>3 DEF RInv, SubAgrees, Configured
<1>5. /\ owner = "device" /\ dmaIrq = "armed"
      /\ dma.next \in 1..Len(ring) /\ dma.done = 1..dma.next-1
  BY <1>2, <1>3 DEF RInv, EngineAgrees, AtRest
<1>6. Len(ring) \in Nat /\ ring[dma.next] \in Fifos
  BY <1>1, <1>5, LenProperties DEF EngineTypes
<1>7. fifo[ring[dma.next]] \in Seq(0..BurstIds-1)
  BY <1>1, <1>6 DEF BoardTypes
<1>. QED
  BY <1>3, <1>4, <1>5, <1>6, <1>7

\* The words it moves are a part of the FIFO, and so is what is left.
LEMMA PartsOfFifo ==
  ASSUME NEW f \in Seq(0..BurstIds-1), NEW n \in Nat
  PROVE  LET words == SubSeq(f, 1, IF Len(f) < n THEN Len(f) ELSE n)
         IN /\ words \in Seq(0..BurstIds-1)
            /\ SubSeq(f, Len(words) + 1, Len(f)) \in Seq(0..BurstIds-1)
<1>. DEFINE k == IF Len(f) < n THEN Len(f) ELSE n
            words == SubSeq(f, 1, k)
<1>0. Len(f) \in Nat /\ \A i \in 1..Len(f) : f[i] \in 0..BurstIds-1
  BY LenProperties
<1>1. k \in Nat /\ k <= Len(f) /\ \A i \in 1..k : f[i] \in 0..BurstIds-1
  BY <1>0
<1>2. words \in Seq(0..BurstIds-1)
  <2>. HIDE DEF k
  <2>. QED
    BY <1>1, SubSeqProperties
<1>3. Len(words) + 1 \in Nat /\ \A i \in Len(words)+1..Len(f) : f[i] \in 0..BurstIds-1
  <2>1. Len(words) \in Nat
    BY <1>2, LenProperties
  <2>. HIDE DEF words
  <2>. QED
    BY <1>0, <2>1
<1>4. SubSeq(f, Len(words) + 1, Len(f)) \in Seq(0..BurstIds-1)
  <2>. HIDE DEF words
  <2>. QED
    BY <1>0, <1>3, SubSeqProperties
<1>. QED
  BY <1>2, <1>4

LEMMA BoardTypeStep == RInv /\ [RNext]_rvars => BoardTypes'
<1>. SUFFICES ASSUME RInv, [RNext]_rvars PROVE BoardTypes'
  OBVIOUS
<1>0. DAQTypeOK /\ BoardTypes /\ EngineTypes
  BY RTypes DEF RInv
<1>. USE <1>0 DEF BoardTypes, board, engine, BurstIds
<1>1. CASE \/ ClearMode \/ Primed \/ FreeRun \/ WaitFifo \/ WaitIRQ \/ StartSG
           \/ DMAWait \/ SyncCpu \/ CopyOut \/ RSend \/ RPost \/ LoopControl
           \/ Launch \/ RStop \/ BurstStart \/ UNCHANGED rvars
  BY <1>1 DEF ClearMode, Primed, FreeRun, WaitFifo, WaitIRQ, StartSG, DMAWait,
              SyncCpu, CopyOut, RSend, RPost, LoopControl, Launch, RStop,
              BurstStart, rvars, Enter, Read
<1>2. CASE ResetFifos
  BY <1>2 DEF ResetFifos, NoWords
<1>3. CASE Prime \/ RLoopBody
  BY <1>3 DEF Prime, RLoopBody, trigger
<1>4. CASE BurstWord
  <2>1. \A f \in Fifos : Append(fifo[f], id) \in Seq(0..BurstIds-1)
    BY AppendProperties
  <2>2. fifo' \in [Fifos -> Seq(0..BurstIds-1)]
    BY <1>4, <2>1 DEF BurstWord
  <2>3. burst' \in Nat /\ id' \in 0..BurstIds-1
    <3>1. (id + 1) % BurstIds \in 0..BurstIds-1
      BY NextBurst
    <3>2. burst \in Nat /\ depth \in Nat /\ burst > 0
      BY <1>4 DEF BurstWord
    <3>3. CASE burst > 1
      BY <1>4, <3>2, <3>3 DEF BurstWord
    <3>4. CASE ~(burst > 1)
      BY <1>4, <3>1, <3>2, <3>4 DEF BurstWord
    <3>. QED
      BY <3>3, <3>4
  <2>4. pend' \in BOOLEAN
    BY <1>4, Zenon DEF BurstWord
  <2>. QED
    BY <1>4, <2>2, <2>3, <2>4 DEF BurstWord
<1>5. CASE DMADescriptor
  <2>1. ltc.nEvents \in Nat
    BY DEF DAQTypeOK, Driver
  <2>. DEFINE f == fifo[ring[dma.next]]
              words == SubSeq(f, 1, IF Len(f) < ltc.nEvents THEN Len(f) ELSE ltc.nEvents)
  <2>2. SubSeq(f, Len(words) + 1, Len(f)) \in Seq(0..BurstIds-1)
    BY <1>5, <2>1, AtDescriptor, PartsOfFifo
  <2>3. fifo' = [fifo EXCEPT ![ring[dma.next]] = SubSeq(f, Len(words) + 1, Len(f))]
    BY <1>5 DEF DMADescriptor
  <2>4. fifo' \in [Fifos -> Seq(0..BurstIds-1)]
    <3>. HIDE DEF f, words
    <3>. QED
      BY <1>5, <2>2, <2>3, AtDescriptor
  <2>. QED
    BY <1>5, <2>4 DEF DMADescriptor
<1>6. ASSUME NEW s \in RunSettings, RConfigure(s) PROVE BoardTypes'
  BY <1>6, RunAssumption DEF RConfigure, Settings
<1>. QED
  BY <1>1, <1>2, <1>3, <1>4, <1>5, <1>6 DEF RNext, DriverStep, BoardStep, CallerStep

LEMMA EngineTypeStep == RInv /\ [RNext]_rvars => EngineTypes'
<1>. SUFFICES ASSUME RInv, [RNext]_rvars PROVE EngineTypes'
  OBVIOUS
<1>0. DAQTypeOK /\ BoardTypes /\ EngineTypes
  BY RTypes DEF RInv
<1>. USE <1>0 DEF EngineTypes, board, engine, Irqs
<1>1. CASE \/ ClearMode \/ Primed \/ FreeRun \/ RLoopBody \/ WaitFifo \/ WaitIRQ
           \/ StartSG \/ DMAWait \/ SyncCpu \/ CopyOut \/ RPost \/ LoopControl
           \/ Launch \/ RStop \/ BurstStart \/ UNCHANGED rvars
  BY <1>1 DEF ClearMode, Primed, FreeRun, RLoopBody, WaitFifo, WaitIRQ, StartSG,
              DMAWait, SyncCpu, CopyOut, RPost, LoopControl, Launch, RStop,
              BurstStart, rvars, Enter, Read
<1>2. CASE ResetFifos \/ Prime \/ RSend
  BY <1>2 DEF ResetFifos, Prime, RSend, IRQReset
<1>3. CASE BurstWord
  BY <1>3 DEF BurstWord
<1>4. CASE DMADescriptor
  <2>1. ltc.nEvents \in Nat
    BY DEF DAQTypeOK, Driver
  <2>. DEFINE f == fifo[ring[dma.next]]
              words == SubSeq(f, 1, IF Len(f) < ltc.nEvents THEN Len(f) ELSE ltc.nEvents)
  <2>2. words \in Seq(0..BurstIds-1)
    BY <1>4, <2>1, AtDescriptor, PartsOfFifo
  <2>3. buf' = [buf EXCEPT ![dma.next] = words]
    BY <1>4 DEF DMADescriptor
  <2>4. buf' \in Seq(Seq(0..BurstIds-1))
    <3>. HIDE DEF words
    <3>. QED
      BY <1>4, <2>2, <2>3, AtDescriptor, ExceptSeq
  <2>5. dma' \in [active: BOOLEAN, next: Nat, done: SUBSET Nat]
    <3>1. /\ dma' = [active |-> dma.next < Len(ring),
                     next   |-> IF dma.next < Len(ring) THEN dma.next + 1 ELSE 1,
                     done   |-> dma.done \cup {dma.next}]
      BY <1>4 DEF DMADescriptor
    <3>2. dma.done \in SUBSET Nat /\ dma.next \in Nat
      OBVIOUS
    <3>. QED
      BY <3>1, <3>2
  <2>. QED
    BY <1>4, <2>4, <2>5 DEF DMADescriptor
<1>5. ASSUME NEW s \in RunSettings, RConfigure(s) PROVE EngineTypes'
  <2>1. ring' \in Seq(Fifos) /\ Len(ring') \in Nat
    BY <1>5, RingShape, RunAssumption, LenProperties DEF RConfigure, Settings
  <2>2. <<>> \in Seq(0..BurstIds-1)
    OBVIOUS
  <2>3. buf' \in Seq(Seq(0..BurstIds-1))
    BY <1>5, <2>1, <2>2 DEF RConfigure
  <2>. QED
    BY <1>5, <2>1, <2>3 DEF RConfigure
<1>. QED
  BY <1>1, <1>2, <1>3, <1>4, <1>5 DEF RNext, DriverStep, BoardStep, CallerStep

LEMMA SubTypeStep == RInv /\ [RNext]_rvars => sub' \in Subs
<1>. SUFFICES ASSUME RInv, [RNext]_rvars PROVE sub' \in Subs
  OBVIOUS
<1>. USE DEF RInv, RTypeOK, Subs
<1>1. CASE DriverStep
  BY <1>1 DEF DriverStep, ClearMode, ResetFifos, Prime, Primed, FreeRun,
              RLoopBody, WaitFifo, WaitIRQ, StartSG, DMAWait, SyncCpu, CopyOut,
              RSend, RPost, LoopControl
<1>2. CASE BoardStep
  BY <1>2 DEF BoardStep, BurstWord, BurstStart, DMADescriptor
<1>. QED
  BY <1>1, <1>2 DEF RNext, CallerStep, RConfigure, Launch, RStop, rvars

LEMMA RTypeStep == RInv /\ [RNext]_rvars => RTypeOK' /\ DAQInv'
BY RNextIsDAQStep, DAQInvStep, BoardTypeStep, EngineTypeStep, SubTypeStep,
   RTypes DEF RInv

-----------------------------------------------------------------------------
(* Where the thread is, the settings, the engine and the board.            *)

LEMMA SubStep == RInv /\ [RNext]_rvars => SubAgrees'
<1>. SUFFICES ASSUME RInv, [RNext]_rvars PROVE SubAgrees'
  OBVIOUS
<1>. USE DEF RInv, SubAgrees
<1>1. CASE \/ ClearMode \/ ResetFifos \/ Prime \/ Primed \/ FreeRun \/ RLoopBody
  BY <1>1 DEF ClearMode, ResetFifos, Prime, Primed, FreeRun, RLoopBody, LoopBody,
              Enter, daqVars
<1>2. CASE \/ WaitFifo \/ WaitIRQ \/ StartSG \/ DMAWait \/ SyncCpu \/ CopyOut
  BY <1>2 DEF WaitFifo, WaitIRQ, StartSG, DMAWait, SyncCpu, CopyOut, Acquire,
              Read, daqVars, daqRest
<1>3. CASE RSend \/ RPost \/ LoopControl
  BY <1>3 DEF RSend, Send, RPost, Post, LoopControl, LoopEnd, SeeStop, ClearStop,
              daqRest
<1>4. CASE BoardStep \/ UNCHANGED rvars
  BY <1>4 DEF BoardStep, BurstWord, BurstStart, DMADescriptor, rvars, daqVars
<1>5. CASE CallerStep
  BY <1>5 DEF CallerStep, RConfigure, configure, join_daq_thread, JoinReturns,
              Launch, start_daq_thread, RStop, stop_daq_thread, daqRest
<1>. QED
  BY <1>1, <1>2, <1>3, <1>4, <1>5 DEF RNext, DriverStep

\* Only configure sets any of what Configured relates, and it sets all of it.
LEMMA ConfiguredStep == RInv /\ [RNext]_rvars => Configured'
<1>. SUFFICES ASSUME RInv, [RNext]_rvars PROVE Configured'
  OBVIOUS
<1>0. SubAgrees'
  BY SubStep
<1>1. ASSUME NEW s \in RunSettings, RConfigure(s) PROVE Configured'
  <2>1. /\ s.mask \in SUBSET Chips /\ s.reads > 0
        /\ ring' \in Rings(s.mask) /\ Len(buf') = Len(ring') /\ depth' = s.reads
        /\ daq' = [reads |-> s.reads, ntrig |-> s.ntrig, nsum |-> s.nsum,
                   nchan |-> Cardinality(s.mask)]
        /\ ltc' = [nEvents |-> s.reads, nSG |-> Cardinality(s.mask) + 1]
    <3>1. Len(buf') = Len(ring')
      <4>1. ring' \in Rings(s.mask) /\ s.mask \in SUBSET Chips
        BY <1>1, RunAssumption DEF RConfigure, Settings
      <4>2. Len(ring') \in Nat
        BY <4>1, RingShape, LenProperties
      <4>. QED
        BY <1>1, <4>2 DEF RConfigure
    <3>. QED
      BY <1>1, <3>1, RunAssumption DEF RConfigure, Settings, configure
  <2>2. Len(ring') = Cardinality(s.mask) + 1 /\ Cardinality(s.mask) \in Nat
    BY <2>1, RingShape
  <2>3. ring' # <<>>
    BY <2>2
  <2>. QED
    BY <2>1, <2>2, <2>3, RingShape DEF Configured
<1>2. ASSUME UNCHANGED <<depth, daq, ltc, ring>>, Len(buf') = Len(buf),
             ring = <<>> => thr' = "none" /\ sub' = "none"
      PROVE  Configured'
  BY <1>2 DEF RInv, Configured
<1>. USE DEF board, engine, daqVars, daqRest
<1>3. CASE \/ ClearMode \/ ResetFifos \/ Prime \/ Primed \/ FreeRun \/ RLoopBody
  BY <1>2, <1>3 DEF ClearMode, ResetFifos, Prime, Primed, FreeRun, RLoopBody,
                    LoopBody, Enter, trigger, RInv, Configured
<1>4. CASE \/ WaitFifo \/ WaitIRQ \/ StartSG \/ DMAWait \/ SyncCpu \/ CopyOut
  BY <1>2, <1>4 DEF WaitFifo, WaitIRQ, StartSG, DMAWait, SyncCpu, CopyOut,
                    Acquire, Read, RInv, Configured
<1>5. CASE RSend \/ RPost \/ LoopControl
  BY <1>2, <1>5 DEF RSend, Send, RPost, Post, LoopControl, LoopEnd, SeeStop,
                    ClearStop, RInv, Configured
<1>6. CASE BurstWord \/ BurstStart \/ UNCHANGED rvars
  BY <1>2, <1>6 DEF BurstWord, BurstStart, rvars, RInv, Configured
<1>7. CASE DMADescriptor
  <2>1. Len(buf') = Len(buf)
    BY <1>7, AtDescriptor DEF DMADescriptor, RInv, RTypeOK
  <2>2. ring # <<>>
    BY <1>7, AtDescriptor DEF RInv, Configured
  <2>. QED
    BY <1>2, <1>7, <2>1, <2>2 DEF DMADescriptor
<1>8. CASE Launch \/ RStop
  BY <1>2, <1>8 DEF Launch, start_daq_thread, RStop, stop_daq_thread, RInv,
                    Configured
<1>. QED
  BY <1>1, <1>3, <1>4, <1>5, <1>6, <1>7, <1>8
     DEF RNext, DriverStep, BoardStep, CallerStep

LEMMA EngineStart == RInv /\ StartSG => EngineAgrees'
<1>. SUFFICES ASSUME RInv, StartSG PROVE EngineAgrees'
  OBVIOUS
<1>1. ring # <<>> /\ ring \in Seq(Fifos) /\ AtRest({}) /\ dmaIrq = "armed"
  BY DEF StartSG, RInv, Configured, RTypeOK, EngineAgrees
<1>2. 1 \in 1..Len(ring) /\ 1..0 = {}
  <2>1. Len(ring) \in Nat /\ Len(ring) # 0
    BY <1>1, EmptySeq
  <2>. QED
    BY <2>1
<1>3. dma' = [active |-> TRUE, next |-> 1, done |-> {}]
  BY <1>1 DEF AtRest, StartSG
<1>4. sub' = "wait" /\ owner' = "device" /\ dmaIrq' = "armed" /\ ring' = ring
  BY <1>1 DEF StartSG
<1>5. dma'.active /\ dma'.next \in 1..Len(ring') /\ dma'.done = 1..dma'.next-1
  BY <1>2, <1>3, <1>4
<1>. QED
  BY <1>4, <1>5 DEF EngineAgrees

LEMMA EngineMoves == RInv /\ DMADescriptor => EngineAgrees'
<1>. SUFFICES ASSUME RInv, DMADescriptor PROVE EngineAgrees'
  OBVIOUS
<1>. DEFINE i == dma.next
<1>1. /\ sub = "wait" /\ owner = "device"
      /\ Len(ring) \in Nat /\ i \in 1..Len(ring)
      /\ dma.done = 1..i-1 /\ dmaIrq = "armed"
  BY AtDescriptor
<1>2. dma.done \cup {i} = 1..i
  BY <1>1
<1>3. /\ dma' = [active |-> i < Len(ring),
                 next   |-> IF i < Len(ring) THEN i + 1 ELSE 1,
                 done   |-> 1..i]
      /\ dmaIrq' = IF i = Len(ring) THEN "raised" ELSE "armed"
      /\ sub' = "wait" /\ owner' = "device" /\ ring' = ring
  BY <1>1, <1>2 DEF DMADescriptor
<1>. HIDE DEF i
<1>4. CASE i < Len(ring)
  <2>0. /\ (i < Len(ring)) = TRUE /\ i # Len(ring)
        /\ (IF i < Len(ring) THEN i + 1 ELSE 1) = i + 1
    BY <1>1, <1>4
  <2>1. dma' = [active |-> TRUE, next |-> i + 1, done |-> 1..i] /\ dmaIrq' = "armed"
    BY <1>3, <2>0, Zenon
  <2>2. dma'.active /\ dma'.next \in 1..Len(ring') /\ dma'.done = 1..dma'.next-1
    BY <1>1, <1>3, <1>4, <2>1
  <2>. QED
    BY <1>3, <2>1, <2>2 DEF EngineAgrees
<1>5. CASE i = Len(ring)
  <2>0. /\ (i < Len(ring)) = FALSE
        /\ (IF i < Len(ring) THEN i + 1 ELSE 1) = 1
    BY <1>1, <1>5
  <2>1. /\ dma' = [active |-> FALSE, next |-> 1, done |-> 1..Len(ring')]
        /\ dmaIrq' = "raised"
    BY <1>3, <1>5, <2>0, Zenon
  <2>. QED
    BY <1>3, <2>1 DEF EngineAgrees, AtRest
<1>. QED
  BY <1>1, <1>4, <1>5

LEMMA EngineStep == RInv /\ [RNext]_rvars => EngineAgrees'
<1>. SUFFICES ASSUME RInv, [RNext]_rvars PROVE EngineAgrees'
  OBVIOUS
<1>. USE DEF RInv, SubAgrees, EngineAgrees, AtRest, board, engine, daqVars, daqRest
<1>1. CASE \/ ClearMode \/ ResetFifos \/ Prime \/ Primed \/ FreeRun \/ RLoopBody
           \/ WaitFifo \/ WaitIRQ
  BY <1>1 DEF ClearMode, ResetFifos, Prime, Primed, FreeRun, RLoopBody, WaitFifo,
              WaitIRQ, LoopBody, Acquire, Enter
<1>2. CASE StartSG
  BY <1>2, EngineStart
<1>3. CASE DMAWait \/ SyncCpu \/ CopyOut
  BY <1>3 DEF DMAWait, SyncCpu, CopyOut, Read
<1>4. CASE RSend \/ RPost \/ LoopControl
  BY <1>4 DEF RSend, Send, RPost, Post, LoopControl, LoopEnd, SeeStop, ClearStop
<1>5. CASE BurstWord \/ BurstStart \/ UNCHANGED rvars
  BY <1>5 DEF BurstWord, BurstStart, rvars
<1>6. CASE DMADescriptor
  BY <1>6, EngineMoves
<1>7. CASE CallerStep
  BY <1>7 DEF CallerStep, RConfigure, configure, join_daq_thread, JoinReturns,
              Launch, start_daq_thread, RStop, stop_daq_thread
<1>. QED
  BY <1>1, <1>2, <1>3, <1>4, <1>5, <1>6, <1>7 DEF RNext, DriverStep, BoardStep

LEMMA BoardStepAgrees == RInv /\ [RNext]_rvars => BoardAgrees'
<1>. SUFFICES ASSUME RInv, [RNext]_rvars PROVE BoardAgrees'
  OBVIOUS
<1>. USE DEF RInv, RTypeOK, SubAgrees, BoardAgrees, Counting, Running, board,
             engine, daqVars, daqRest
<1>1. CASE ClearMode \/ ResetFifos \/ Primed \/ FreeRun
  BY <1>1 DEF ClearMode, ResetFifos, Primed, FreeRun, Enter
<1>2. CASE Prime \/ RLoopBody
  BY <1>2 DEF Prime, RLoopBody, LoopBody, trigger
<1>3. CASE \/ WaitFifo \/ WaitIRQ \/ StartSG \/ DMAWait \/ SyncCpu \/ CopyOut
  BY <1>3 DEF WaitFifo, WaitIRQ, StartSG, DMAWait, SyncCpu, CopyOut, Acquire, Read
<1>4. CASE RSend \/ RPost \/ LoopControl
  BY <1>4 DEF RSend, Send, RPost, Post, LoopControl, LoopEnd, SeeStop, ClearStop
<1>5. CASE BurstWord \/ BurstStart
  BY <1>5 DEF BurstWord, BurstStart
<1>6. CASE DMADescriptor \/ UNCHANGED rvars
  <2>1. UNCHANGED <<thr, sub, daq, depth, free, burst, pend, accept>>
    BY <1>6 DEF DMADescriptor, rvars
  <2>. QED
    BY <2>1
<1>7. CASE CallerStep
  <2>1. CASE \E s \in RunSettings : RConfigure(s)
    BY <2>1 DEF RConfigure, configure, join_daq_thread, JoinReturns
  <2>2. CASE Launch
    BY <2>2 DEF Launch, start_daq_thread
  <2>3. CASE RStop
    BY <2>3 DEF RStop, stop_daq_thread
  <2>. QED
    BY <1>7, <2>1, <2>2, <2>3 DEF CallerStep
<1>. QED
  BY <1>1, <1>2, <1>3, <1>4, <1>5, <1>6, <1>7 DEF RNext, DriverStep, BoardStep

-----------------------------------------------------------------------------
(* The bursts between the board and the thread.                            *)

LEMMA Numbers ==
  ASSUME RInv
  PROVE  /\ depth \in Nat /\ burst \in Nat /\ id \in 0..BurstIds-1
         /\ iTrig \in Int /\ iTrig \in Int32 /\ daq.nsum \in Nat
         /\ fifo \in [Fifos -> Seq(0..BurstIds-1)]
         /\ Len(ring) \in Nat /\ \A i \in 1..Len(ring) : ring[i] \in Fifos
         /\ ring # <<>> => depth > 0 /\ ltc.nEvents = depth
<1>1. RTypeOK /\ Configured
  BY DEF RInv
<1>2. iTrig \in Int32 /\ daq.nsum \in Nat
  BY <1>1 DEF RTypeOK, DAQTypeOK, Members
<1>3. iTrig \in Int
  BY <1>2, IntMaxAssumption DEF Int32
<1>4. Len(ring) \in Nat /\ \A i \in 1..Len(ring) : ring[i] \in Fifos
  BY <1>1, LenProperties DEF RTypeOK
<1>. QED
  BY <1>1, <1>2, <1>3, <1>4 DEF RTypeOK, Configured

\* A FIFO with a burst's words holds a burst, the one in progress not counted.
LEMMA LevelIsBurst ==
  ASSUME NEW f, NEW d \in Nat, NEW b \in Nat, b < d, NEW first, NEW m \in Nat,
         Bursts(f, d, b, first, m), Len(f) >= d
  PROVE  m >= 1
<1>1. 0 * d = 0
  BY Products
<1>. QED
  BY <1>1 DEF Bursts

\* ++iTrig counts on modulo BurstIds, also where the int wraps.
LEMMA NextIntBurst ==
  ASSUME NEW i \in Int32
  PROVE  NextInt(i) % BurstIds = (i + 1) % BurstIds
<1>1. PICK k \in Nat : IntMax = 2 * k + 1
  <2>1. IntMax = 2 * (IntMax \div 2) + (IntMax % 2) /\ IntMax \div 2 \in Nat
    BY IntMaxAssumption
  <2>. QED
    BY <2>1, WidthAssumption
<1>2. (2 * k + 1 + 1) % 4 = (-(2 * k + 1) - 1) % 4
  OBVIOUS
<1>. QED
  BY <1>1, <1>2 DEF NextInt, BurstIds

\* Being ahead is being accounted for: the bound of Accounted is no restriction.
LEMMA AheadNext ==
  ASSUME RTypeOK', Configured', BoardAgrees', NEW n \in Nat,
         Counting' /\ ChipSelected' => Ahead(n)'
  PROVE  Accounted'
<1>. SUFFICES ASSUME Counting', ChipSelected'
              PROVE  n \in 0..Len(fifo[Stamp])' + 1
  BY DEF Accounted
<1>1. /\ ring' \in Seq(Fifos) /\ Len(ring') \in Nat /\ Len(ring') > 1
      /\ fifo' \in [Fifos -> Seq(0..BurstIds-1)] /\ depth' \in Nat /\ burst' \in Nat
  BY LenProperties DEF RTypeOK, ChipSelected
<1>2. ring' # <<>>
  BY <1>1, EmptySeq
<1>3. ring'[Len(ring')] = Stamp /\ depth' > 0 /\ burst' <= depth'
  BY <1>1, <1>2 DEF Configured, BoardAgrees
<1>. DEFINE t == Taken(Len(ring))'
<1>4. t \in {0, 1} /\ Begun' \in Nat
  <2>1. t \in {0, 1}
    BY DEF Taken
  <2>2. Begun' \in Nat
    <3>1. depth' \in Nat /\ burst' \in Nat /\ burst' <= depth'
      BY <1>1, <1>3
    <3>2. \A a, b \in Nat : b <= a => a - b \in Nat
      OBVIOUS
    <3>3. depth' - burst' \in Nat
      BY <3>1, <3>2
    <3>. QED
      BY <3>3 DEF Begun
  <2>. QED
    BY <2>1, <2>2
<1>5. t <= n /\ Len(fifo'[Stamp]) = (n - t) * depth' + Begun'
  <2>1. Holding(n)' /\ Len(ring') \in 1..Len(ring')
    BY <1>1 DEF Ahead
  <2>. QED
    BY <1>3, <2>1 DEF Holding, Bursts
<1>. HIDE DEF t
<1>6. n - t <= (n - t) * depth' /\ n - t \in Nat /\ (n - t) * depth' \in Nat
  <2>1. n - t \in Nat
    BY <1>4, <1>5
  <2>. QED
    BY <1>1, <1>3, <2>1, WordsOfBursts, Products
<1>. QED
  BY <1>4, <1>5, <1>6

\* A step that moves no words.
LEMMA HoldingKept ==
  ASSUME NEW n \in Nat, Holding(n),
         UNCHANGED <<id, iTrig, fifo, depth, ring>>, Begun' = Begun,
         \A i \in 1..Len(ring) : Taken(i)' = Taken(i)
  PROVE  Holding(n)'
BY DEF Holding

\* A step that leaves the DMA buffer as it is, or forgets what is in it.
LEMMA FetchedKept ==
  ASSUME Fetched, UNCHANGED <<buf, ltc, iTrig>>, dma'.done \subseteq dma.done
  PROVE  Fetched'
BY DEF Fetched

\* What the lemmas below start from.
Now(n) ==
  /\ RInv /\ Counting /\ ChipSelected
  /\ n \in Nat /\ Ahead(n)

LEMMA NowFacts ==
  ASSUME NEW n, Now(n)
  PROVE  /\ n \in Nat /\ Holding(n) /\ Fetched /\ InStep(n)
         /\ depth \in Nat /\ depth > 0 /\ ltc.nEvents = depth
         /\ burst \in Nat /\ burst <= depth /\ Begun \in 0..depth-1
         /\ accept /\ (pend => burst > 0)
         /\ (free <=> daq.nsum # 0 /\ thr \in Running \ {"enter"})
         /\ Len(ring) \in Nat /\ Len(ring) > 1
         /\ Bursting \in {0, 1} /\ Pending \in {0, 1}
         /\ (burst = 0 => Bursting = 0 /\ Pending = 0) /\ (burst # 0 => Bursting = 1)
<1>1. ring # <<>> /\ Len(ring) \in Nat /\ Len(ring) > 1
  <2>1. Len(<<>>) = 0
    OBVIOUS
  <2>. QED
    BY <2>1, Numbers DEF Now, ChipSelected
<1>2. /\ depth \in Nat /\ depth > 0 /\ ltc.nEvents = depth /\ burst \in Nat
      /\ burst <= depth /\ accept /\ (pend => burst > 0)
      /\ (free <=> daq.nsum # 0 /\ thr \in Running \ {"enter"})
  BY <1>1, Numbers DEF Now, RInv, BoardAgrees
<1>3. Begun \in 0..depth-1
  BY <1>2 DEF Begun
<1>4. /\ Bursting \in {0, 1} /\ Pending \in {0, 1}
      /\ (burst = 0 => Bursting = 0 /\ Pending = 0) /\ (burst # 0 => Bursting = 1)
  BY <1>2 DEF Bursting, Pending
<1>5. n \in Nat /\ Holding(n) /\ Fetched /\ InStep(n)
  BY DEF Now, Ahead
<1>. QED
  BY <1>1, <1>2, <1>3, <1>4, <1>5

\* The reset of the FIFOs begins the count.
LEMMA AheadReset ==
  ASSUME RInv, ResetFifos, ChipSelected
  PROVE  Ahead(0)'
<1>1. /\ thr = "enter" /\ thr' = "enter" /\ iTrig = 0 /\ iTrig' = 0 /\ burst = 0
      /\ burst' = 0 /\ pend' = FALSE /\ id' = 0 /\ fifo' = NoWords
      /\ dma'.done = {} /\ sub' = "prime" /\ daq' = daq /\ ring' = ring
      /\ depth' = depth
  BY DEF ResetFifos, RInv, RTypeOK, DAQInv, LoopInBounds, BoardAgrees, EngineAgrees,
         AtRest, daqVars, engine
<1>2. depth \in Nat /\ \A i \in 1..Len(ring) : ring[i] \in Fifos
  BY Numbers
<1>3. Begun' = 0 /\ Bursting' = 0 /\ Pending' = 0
  BY <1>1 DEF Begun, Bursting, Pending
<1>4. Holding(0)'
  <2>1. 0 = (0 + 0) % BurstIds
    BY DEF BurstIds
  <2>2. \A i \in 1..Len(ring) : Taken(i)' = 0 /\ fifo'[ring[i]] = <<>>
    BY <1>1, <1>2 DEF Taken, NoWords
  <2>3. Bursts(<<>>, depth, 0, 0 + 0, 0 - 0)
    <3>1. Bursts(<<>>, depth, 0, 0, 0)
      BY <1>2, NoBursts
    <3>. QED
      BY <3>1
  <2>. QED
    BY <1>1, <1>3, <2>1, <2>2, <2>3 DEF Holding
<1>5. Fetched'
  BY <1>1 DEF Fetched
<1>6. intr' = "armed"
  <2>1. ltc.nEvents > 0 /\ ltc.nEvents \in Nat /\ Len(<<>>) = 0
    <3>1. ring # <<>>
      BY DEF ChipSelected
    <3>. QED
      BY <3>1, Numbers
  <2>2. \A i \in 1..Len(ring) : NoWords[ring[i]] = <<>>
    BY <1>2 DEF NoWords
  <2>3. ~Level(NoWords)
    BY <2>1, <2>2 DEF Level
  <2>. QED
    BY <2>3 DEF ResetFifos, IRQReset
<1>7. InStep(0)'
  BY <1>1, <1>3, <1>6 DEF InStep
<1>. QED
  BY <1>4, <1>5, <1>7 DEF Ahead

\* The driver's calls between events: a trigger before or in the loop.
LEMMA AheadTrigger ==
  ASSUME NEW n, Now(n), Prime \/ (RLoopBody /\ daq.nsum = 0)
  PROVE  Ahead(n)'
<1>0. /\ UNCHANGED <<id, iTrig, fifo, depth, ring, dma, buf, ltc, daq>>
      /\ trigger /\ daq.nsum = 0
      /\ thr # "send" /\ thr' # "send" /\ thr' # "read"
      /\ \/ thr = "enter" /\ thr' = "enter" /\ sub = "prime" /\ sub' = "primed"
         \/ thr = "loop" /\ thr' = "acquire"
  BY DEF Prime, RLoopBody, LoopBody, trigger, engine, daqVars
<1>1. /\ burst = 0 => burst' = depth /\ pend' = FALSE
      /\ burst # 0 => burst' = burst /\ pend' = TRUE
  BY <1>0 DEF trigger
<1>2. Begun' = Begun
  BY <1>0, <1>1, NowFacts DEF Begun
<1>3. Holding(n)'
  BY <1>0, <1>2, NowFacts, HoldingKept DEF Taken
<1>4. Fetched'
  BY <1>0, NowFacts, FetchedKept
<1>5. n + Bursting + Pending = IF thr = "enter" THEN 0 ELSE 1
  BY <1>0, NowFacts DEF InStep
<1>6. n + Bursting' + Pending' = n + Bursting + Pending + 1
  <2>1. CASE burst = 0
    BY <1>1, <2>1, NowFacts DEF Bursting, Pending
  <2>2. CASE burst # 0
    <3>1. Bursting = 1 /\ Pending = 0
      BY <1>5, <2>2, NowFacts
    <3>2. Bursting' = 1 /\ Pending' = 1
      BY <1>1, <2>2, NowFacts DEF Bursting, Pending
    <3>. QED
      BY <3>1, <3>2, NowFacts
  <2>. QED
    BY <2>1, <2>2
<1>7. InStep(n)'
  BY <1>0, <1>5, <1>6, NowFacts DEF InStep
<1>. QED
  BY <1>3, <1>4, <1>7 DEF Ahead

\* Into the loop, and round it, when nothing is triggered; an event found.
LEMMA AheadCalls ==
  ASSUME NEW n, Now(n),
         \/ Primed \/ FreeRun \/ (RLoopBody /\ daq.nsum # 0) \/ WaitFifo
         \/ WaitIRQ \/ StartSG \/ DMAWait \/ SyncCpu \/ CopyOut
         \/ LoopControl \/ RStop \/ BurstStart \/ UNCHANGED rvars
  PROVE  Ahead(n)'
<1>. USE DEF board, engine, daqVars, daqRest
<1>0. iTrig' = iTrig
  BY DEF Primed, FreeRun, Enter, RLoopBody, LoopBody, WaitFifo, WaitIRQ, Acquire,
         StartSG, DMAWait, SyncCpu, CopyOut, Read, LoopControl, LoopEnd, SeeStop,
         ClearStop, RStop, stop_daq_thread, BurstStart, rvars, Now, RInv, DAQInv,
         LoopInBounds
<1>1. /\ UNCHANGED <<id, fifo, depth, ring, buf, ltc, daq, pend>>
      /\ burst' = burst \/ (BurstStart /\ burst = 0 /\ burst' = depth)
  BY DEF Primed, FreeRun, Enter, RLoopBody, LoopBody, WaitFifo, WaitIRQ, Acquire,
         StartSG, DMAWait, SyncCpu, CopyOut, Read, LoopControl, LoopEnd, SeeStop,
         ClearStop, RStop, stop_daq_thread, BurstStart, rvars
<1>2. Begun' = Begun /\ Pending' = Pending
  BY <1>1, NowFacts DEF Begun, Pending
<1>3. \A i \in 1..Len(ring) : Taken(i)' = Taken(i)
  <2>1. CASE CopyOut
    <3>1. /\ thr = "read" /\ thr' = "send" /\ dma.done = 1..Len(ring)
      BY <2>1 DEF CopyOut, Read, Now, RInv, EngineAgrees, AtRest
    <3>. QED
      BY <3>1 DEF Taken
  <2>2. CASE ~CopyOut
    <3>1. /\ dma'.done = dma.done
          /\ thr' = "send" <=> thr = "send"
      BY <2>2 DEF Primed, FreeRun, Enter, RLoopBody, LoopBody, WaitFifo, WaitIRQ,
         Acquire, StartSG, DMAWait, SyncCpu, LoopControl, LoopEnd, SeeStop,
         ClearStop, RStop, stop_daq_thread, BurstStart, rvars, Now, RInv, RTypeOK
    <3>. QED
      BY <3>1 DEF Taken
  <2>. QED
    BY <2>1, <2>2
<1>4. Holding(n)'
  BY <1>0, <1>1, <1>2, <1>3, NowFacts, HoldingKept
<1>5. Fetched'
  <2>1. dma'.done \subseteq dma.done
    BY DEF Primed, FreeRun, RLoopBody, WaitFifo, WaitIRQ, StartSG, DMAWait, SyncCpu,
           CopyOut, LoopControl, RStop, BurstStart, rvars, Now, RInv, RTypeOK
  <2>. QED
    BY <1>0, <1>1, <2>1, NowFacts, FetchedKept
<1>6. CASE BurstStart
  BY <1>1, <1>2, <1>4, <1>5, <1>6, NowFacts DEF BurstStart, Ahead, InStep, Bursting
<1>7. CASE WaitFifo
  <2>1. /\ thr = "acquire" /\ thr' = "read" /\ daq.nsum = 0 /\ 1 \in 1..Len(ring)
        /\ dma.done = {} /\ ring[1] # Stamp /\ burst' = burst
    BY <1>1, <1>7, NowFacts
       DEF WaitFifo, Acquire, Now, RInv, EngineAgrees, AtRest, SubAgrees, Configured,
           BurstStart
  <2>2. Len(fifo[ring[1]]) >= depth
    BY <1>7, <2>1, NowFacts DEF WaitFifo, FirstChipFull
  <2>3. Taken(1) = 0
    BY <2>1 DEF Taken
  <2>4. Bursts(fifo[ring[1]], depth, Begun, iTrig + 0, n - 0)
    BY <2>1, <2>3, NowFacts DEF Holding
  <2>5. n >= 1
    <3>1. n - 0 = n /\ Begun \in Nat /\ Begun < depth
      BY NowFacts
    <3>. QED
      BY <2>2, <2>4, <3>1, LevelIsBurst, NowFacts
  <2>. QED
    BY <1>1, <1>2, <1>4, <1>5, <2>1, <2>5, NowFacts DEF Ahead, InStep, Bursting
<1>8. CASE ~BurstStart /\ ~WaitFifo
  <2>. SUFFICES InStep(n)'
    BY <1>4, <1>5 DEF Ahead
  <2>0. burst' = burst
    BY <1>1, <1>8, Zenon
  <2>1. Bursting' = Bursting
    BY <2>0 DEF Bursting
  <2>. DEFINE due(th, su) ==
                IF th = "enter" /\ su = "prime" THEN 0
                ELSE IF th \in {"acquire", "read", "send"} THEN 2 ELSE 1
  <2>a. /\ thr \in {"read", "send"} => n >= 1
        /\ daq.nsum = 0 => n + Bursting + Pending = due(thr, sub)
        /\ daq.nsum # 0 =>
            /\ thr = "enter" => n = 0 /\ burst = 0 /\ intr = "armed"
            /\ thr \in {"read", "send"} => intr = "taken"
            /\ thr \notin {"read", "send"} => intr # "taken" /\ (intr = "raised" => n >= 1)
    BY NowFacts DEF InStep
  <2>b. ASSUME thr' \in {"read", "send"} => n >= 1,
               daq.nsum = 0 => due(thr', sub') = due(thr, sub),
               daq.nsum # 0 =>
                 /\ thr' = "enter" => n = 0 /\ burst = 0 /\ intr' = "armed"
                 /\ thr' \in {"read", "send"} => intr' = "taken"
                 /\ thr' \notin {"read", "send"} =>
                      intr' # "taken" /\ (intr' = "raised" => n >= 1)
        PROVE  InStep(n)'
    BY <1>1, <1>2, <2>0, <2>1, <2>a, <2>b DEF InStep
  <2>c. SubAgrees
    BY DEF Now, RInv
  <2>2. CASE Primed \/ FreeRun
    BY <2>2, <2>a, <2>b, <2>c DEF Primed, FreeRun, Enter, SubAgrees
  <2>3. CASE \/ (RLoopBody /\ daq.nsum # 0) \/ WaitIRQ
             \/ StartSG \/ DMAWait \/ SyncCpu \/ CopyOut
    BY <2>3, <2>a, <2>b, <2>c
       DEF RLoopBody, LoopBody, WaitIRQ, Acquire, StartSG, DMAWait, SyncCpu,
           CopyOut, Read, SubAgrees
  <2>4. CASE LoopControl \/ RStop \/ UNCHANGED rvars
    BY <2>4, <2>a, <2>b
       DEF LoopControl, LoopEnd, SeeStop, ClearStop, RStop, stop_daq_thread, rvars
  <2>. QED
    BY <1>8, <2>2, <2>3, <2>4
<1>. QED
  BY <1>6, <1>7, <1>8

\* FIFOs at their level when all hold the same bursts: a whole one is there.
LEMMA LevelMeansBurst ==
  ASSUME NEW F, NEW m \in Nat, NEW b \in Nat, NEW first, depth \in Nat, b < depth,
         ltc.nEvents = depth, Level(F),
         \A i \in 1..Len(ring) : Bursts(F[ring[i]], depth, b, first, m)
  PROVE  m >= 1
<1>1. PICK i \in 1..Len(ring) : Len(F[ring[i]]) >= depth
  BY DEF Level
<1>. QED
  BY <1>1, LevelIsBurst

\* The event is sent and the thread counts on.
LEMMA AheadSend ==
  ASSUME NEW n, Now(n), RSend
  PROVE  n - 1 \in Nat /\ Ahead(n - 1)'
<1>. DEFINE k == n - 1
<1>0. /\ UNCHANGED <<id, fifo, depth, ring, buf, ltc, daq, pend, burst, dma, sub>>
      /\ thr = "send" /\ thr' = "loop" /\ iTrig' = NextInt(iTrig)
      /\ daq.nsum # 0 => IRQReset(fifo)
  BY DEF RSend, Send, board, engine
<1>1. k \in Nat /\ n = k + 1
  BY <1>0, NowFacts DEF InStep
<1>2. iTrig \in Int /\ iTrig' \in Int /\ iTrig' % BurstIds = (iTrig + 1) % BurstIds
  <2>1. iTrig \in Int /\ iTrig \in Int32
    BY Numbers DEF Now
  <2>2. iTrig' \in Int
    BY <1>0, <2>1, IntMaxAssumption, NextIntType DEF Int32
  <2>. QED
    BY <1>0, <2>1, <2>2, NextIntBurst
<1>3. dma.done = {} /\ sub \notin {"start", "wait", "sync", "copy"}
  BY <1>0 DEF Now, RInv, SubAgrees, EngineAgrees, AtRest
<1>4. \A i \in 1..Len(ring) : Taken(i) = 1 /\ Taken(i)' = 0
  BY <1>0, <1>3 DEF Taken
<1>5. Begun' = Begun /\ Bursting' = Bursting /\ Pending' = Pending
  BY <1>0 DEF Begun, Bursting, Pending
<1>. HIDE DEF k
<1>6. \A i \in 1..Len(ring) : Bursts(fifo[ring[i]], depth, Begun, iTrig', k)
  <2>. SUFFICES ASSUME NEW i \in 1..Len(ring)
                PROVE  Bursts(fifo[ring[i]], depth, Begun, iTrig', k)
    OBVIOUS
  <2>1. Bursts(fifo[ring[i]], depth, Begun, iTrig + 1, k)
    <3>1. Bursts(fifo[ring[i]], depth, Begun, iTrig + Taken(i), n - Taken(i))
      BY NowFacts DEF Holding
    <3>2. Taken(i) = 1 /\ n - 1 = k
      BY <1>1, <1>4
    <3>. QED
      BY <3>1, <3>2
  <2>2. iTrig + 1 \in Int /\ (iTrig + 1) % BurstIds = iTrig' % BurstIds
    BY <1>2
  <2>. QED
    BY <1>1, <1>2, <2>1, <2>2, NowFacts, RenumberBursts
<1>7. Holding(k)'
  <2>1. id = (iTrig' + k) % BurstIds
    <3>1. id = (iTrig + (k + 1)) % BurstIds
      BY <1>1, NowFacts DEF Holding
    <3>2. (iTrig' + k) % BurstIds = ((iTrig + 1) + k) % BurstIds
      <4>1. iTrig + 1 \in Int /\ k \in Int
        BY <1>1, <1>2
      <4>. QED
        BY <1>2, <4>1, CountOn
    <3>3. iTrig + (k + 1) = (iTrig + 1) + k
      BY <1>1, <1>2
    <3>. QED
      BY <3>1, <3>2, <3>3
  <2>2. iTrig' + 0 = iTrig' /\ k - 0 = k /\ 0 <= k
    <3>1. k \in Nat /\ k \in Int /\ iTrig' \in Int
      BY <1>1, <1>2
    <3>. QED
      BY <3>1, Small, Zenon
  <2>. QED
    BY <1>0, <1>4, <1>5, <1>6, <2>1, <2>2 DEF Holding
<1>8. Fetched'
  BY <1>0, <1>3 DEF Fetched
<1>9. InStep(k)'
  <2>1. CASE daq.nsum = 0
    <3>1. n + Bursting + Pending = 2
      BY <1>0, <2>1, NowFacts DEF InStep
    <3>2. k + Bursting + Pending = 1
      <4>1. Bursting \in {0, 1} /\ Pending \in {0, 1}
        BY NowFacts
      <4>. QED
        BY <1>1, <3>1, <4>1
    <3>. QED
      BY <1>0, <1>5, <2>1, <3>2 DEF InStep
  <2>2. CASE daq.nsum # 0
    <3>1. intr' = IF Level(fifo) THEN "raised" ELSE "armed"
      BY <1>0, <2>2 DEF IRQReset
    <3>2. Level(fifo) => k >= 1
      <4>1. /\ Begun \in Nat /\ depth \in Nat /\ Begun < depth
            /\ ltc.nEvents = depth
        BY NowFacts
      <4>2. \A i \in 1..Len(ring) : Bursts(fifo[ring[i]], depth, Begun, iTrig', k)
        BY <1>6
      <4>. QED
        BY <1>1, <4>1, <4>2, LevelMeansBurst
    <3>. QED
      BY <1>0, <2>2, <3>1, <3>2 DEF InStep
  <2>. QED
    BY <2>1, <2>2
<1>. QED
  BY <1>1, <1>7, <1>8, <1>9 DEF Ahead, k

\* A word of the burst in progress comes to every FIFO.
LEMMA AheadWord ==
  ASSUME NEW n, Now(n), BurstWord
  PROVE  \E k \in Nat : Ahead(k)'
<1>. DEFINE b == Begun + 1
            first(i) == iTrig + Taken(i)
            m(i) == n - Taken(i)
<1>0. /\ UNCHANGED <<iTrig, depth, ring, buf, ltc, daq, dma, thr, sub, free>>
      /\ burst > 0
      /\ burst > 1 => burst' = burst - 1 /\ id' = id /\ pend' = pend
      /\ ~(burst > 1) => /\ burst' = IF pend \/ free THEN depth ELSE 0
                         /\ id' = (id + 1) % BurstIds /\ pend' = FALSE
      /\ intr' = IF intr = "armed" /\ Level(fifo') THEN "raised" ELSE intr
  BY DEF BurstWord, engine, daqVars
<1>1. /\ n \in Nat /\ iTrig \in Int /\ id \in 0..BurstIds-1 /\ depth \in Nat
      /\ depth > 0 /\ burst \in Nat /\ burst <= depth /\ Begun \in 0..depth-1
      /\ Begun = depth - burst
  <2>1. /\ n \in Nat /\ iTrig \in Int /\ id \in 0..BurstIds-1
        /\ depth \in Nat /\ depth > 0 /\ burst \in Nat /\ burst <= depth
        /\ Begun \in 0..depth-1
    BY NowFacts, Numbers DEF Now
  <2>2. Begun = depth - burst
    BY <1>0, <2>1 DEF Begun
  <2>. QED
    BY <2>1, <2>2
<1>2. \A i \in 1..Len(ring) :
        /\ ring[i] \in Fifos /\ fifo[ring[i]] \in Seq(0..BurstIds-1)
        /\ fifo'[ring[i]] = Append(fifo[ring[i]], id)
  <2>. SUFFICES ASSUME NEW i \in 1..Len(ring)
                PROVE  /\ ring[i] \in Fifos /\ fifo[ring[i]] \in Seq(0..BurstIds-1)
                       /\ fifo'[ring[i]] = Append(fifo[ring[i]], id)
    OBVIOUS
  <2>1. ring[i] \in Fifos /\ fifo \in [Fifos -> Seq(0..BurstIds-1)] /\ accept
    BY NowFacts, Numbers DEF Now
  <2>2. fifo' = [f \in Fifos |-> IF accept /\ f \in {ring[j] : j \in 1..Len(ring)}
                                   THEN Append(fifo[f], id) ELSE fifo[f]]
    BY DEF BurstWord
  <2>. QED
    BY <2>1, <2>2
<1>3. \A i \in 1..Len(ring) :
        /\ Taken(i) \in {0, 1} /\ Taken(i) <= n /\ Taken(i)' = Taken(i)
        /\ first(i) \in Int /\ m(i) \in Nat
        /\ Bursts(fifo'[ring[i]], depth, b, first(i), m(i))
  <2>. SUFFICES ASSUME NEW i \in 1..Len(ring)
                PROVE  /\ Taken(i) \in {0, 1} /\ Taken(i) <= n /\ Taken(i)' = Taken(i)
                       /\ first(i) \in Int /\ m(i) \in Nat
                       /\ Bursts(fifo'[ring[i]], depth, b, first(i), m(i))
    OBVIOUS
  <2>1. Taken(i) \in {0, 1} /\ Taken(i)' = Taken(i)
    BY <1>0 DEF Taken
  <2>2. /\ Taken(i) <= n
        /\ Bursts(fifo[ring[i]], depth, Begun, iTrig + Taken(i), n - Taken(i))
        /\ id = (iTrig + n) % BurstIds
    BY NowFacts DEF Holding
  <2>3. first(i) \in Int /\ m(i) \in Nat
    BY <1>1, <2>1, <2>2, Small
  <2>4. id = (first(i) + m(i)) % BurstIds
    <3>1. (iTrig + Taken(i)) + (n - Taken(i)) = iTrig + n
      BY <1>1, <2>1
    <3>. QED
      BY <2>2, <3>1
  <2>5. Begun \in Nat /\ Begun < depth
    BY <1>1
  <2>6. Bursts(fifo'[ring[i]], depth, b, first(i), m(i))
    <3>1. Bursts(fifo[ring[i]], depth, Begun, first(i), m(i))
      BY <2>2
    <3>2. /\ fifo[ring[i]] \in Seq(0..BurstIds-1) /\ depth \in Nat
          /\ id \in 0..BurstIds-1 /\ fifo'[ring[i]] = Append(fifo[ring[i]], id)
      BY <1>1, <1>2
    <3>. HIDE DEF first, m
    <3>3. Bursts(Append(fifo[ring[i]], id), depth, Begun + 1, first(i), m(i))
      BY <2>3, <2>4, <2>5, <3>1, <3>2, AppendWord
    <3>. QED
      BY <3>2, <3>3
  <2>. QED
    BY <2>1, <2>2, <2>3, <2>6
<1>4. Fetched'
  BY <1>0, NowFacts DEF Fetched
<1>5. CASE burst > 1
  <2>1. Begun' = b /\ b \in Nat /\ b < depth
    BY <1>0, <1>1, <1>5 DEF Begun
  <2>2. Holding(n)'
    <3>1. id' = (iTrig' + n) % BurstIds
      BY <1>0, <1>5, NowFacts DEF Holding
    <3>. QED
      BY <1>0, <1>3, <2>1, <3>1 DEF Holding
  <2>3. Bursting' = 1 /\ Bursting = 1 /\ Pending' = Pending
    BY <1>0, <1>1, <1>5 DEF Bursting, Pending
  <2>4. daq.nsum # 0 /\ thr \notin {"read", "send"} /\ intr' = "raised" => n >= 1
    <3>. SUFFICES ASSUME daq.nsum # 0, thr \notin {"read", "send"}, intr' = "raised"
                  PROVE  n >= 1
      OBVIOUS
    <3>1. CASE intr = "raised"
      BY <3>1, NowFacts DEF InStep
    <3>2. CASE intr # "raised"
      <4>1. Level(fifo')
        BY <1>0, <3>2
      <4>2. dma.done = {} /\ thr # "send"
        BY DEF Now, RInv, SubAgrees, EngineAgrees, AtRest
      <4>3. \A i \in 1..Len(ring) : Taken(i) = 0
        BY <4>2 DEF Taken
      <4>4. \A i \in 1..Len(ring) : Bursts(fifo'[ring[i]], depth, b, iTrig + 0, n - 0)
        BY <1>3, <4>3
      <4>5. n - 0 = n
        BY <1>1
      <4>. HIDE DEF b
      <4>. QED
        BY <1>1, <2>1, <4>1, <4>4, <4>5, LevelMeansBurst, NowFacts
    <3>. QED
      BY <3>1, <3>2
  <2>5. InStep(n)'
    <3>1. thr' \in {"read", "send"} => n >= 1
      BY <1>0, NowFacts DEF InStep
    <3>2. daq'.nsum = 0 =>
            n + Bursting' + Pending' =
             (IF thr' = "enter" /\ sub' = "prime" THEN 0
              ELSE IF thr' \in {"acquire", "read", "send"} THEN 2 ELSE 1)
      BY <1>0, <2>3, NowFacts DEF InStep
    <3>3. daq'.nsum # 0 =>
           /\ thr' # "enter"
           /\ thr' \in {"read", "send"} => intr' = "taken"
           /\ thr' \notin {"read", "send"} => intr' # "taken"
      BY <1>0, <1>1, NowFacts DEF InStep
    <3>. QED
      BY <1>0, <2>4, <3>1, <3>2, <3>3 DEF InStep
  <2>. QED
    BY <1>1, <1>4, <2>2, <2>5 DEF Ahead
<1>6. CASE burst = 1
  <2>0. n + 1 \in Nat /\ n + 1 >= 1 /\ ~(burst > 1)
    BY <1>1, <1>6
  <2>1. b = depth /\ Begun' = 0
    <3>1. burst' = depth \/ burst' = 0
      BY <1>0, <1>6, <2>0
    <3>. QED
      BY <1>0, <1>1, <1>6, <3>1 DEF Begun
  <2>2. \A i \in 1..Len(ring) :
          /\ Taken(i) <= n + 1
          /\ Bursts(fifo'[ring[i]], depth, 0, first(i), (n + 1) - Taken(i))
    <3>. SUFFICES ASSUME NEW i \in 1..Len(ring)
                  PROVE  /\ Taken(i) <= n + 1
                         /\ Bursts(fifo'[ring[i]], depth, 0, first(i), (n + 1) - Taken(i))
      OBVIOUS
    <3>1. Bursts(fifo'[ring[i]], depth, depth, first(i), m(i))
      BY <1>3, <2>1
    <3>2. first(i) \in Int /\ m(i) \in Nat
      BY <1>3
    <3>3. Bursts(fifo'[ring[i]], depth, 0, first(i), m(i) + 1)
      <4>. HIDE DEF first, m
      <4>. QED
        BY <1>1, <3>1, <3>2, CompleteBurst
    <3>4. m(i) + 1 = (n + 1) - Taken(i) /\ Taken(i) <= n + 1
      <4>1. Taken(i) \in {0, 1} /\ Taken(i) <= n /\ n \in Nat /\ n \in Int
        BY <1>1, <1>3
      <4>. QED
        BY <4>1, Small
    <3>. QED
      BY <3>3, <3>4
  <2>3. id' = (iTrig' + (n + 1)) % BurstIds
    <3>1. id = (iTrig + n) % BurstIds /\ id' = (id + 1) % BurstIds
      BY <1>0, <2>0, NowFacts DEF Holding
    <3>2. (((iTrig + n) % BurstIds) + 1) % BurstIds = ((iTrig + n) + 1) % BurstIds
      BY <1>1, NextBurst
    <3>3. (iTrig + n) + 1 = iTrig + (n + 1)
      BY <1>1
    <3>. QED
      BY <1>0, <3>1, <3>2, <3>3
  <2>4. Holding(n + 1)'
    BY <1>0, <1>3, <2>1, <2>2, <2>3 DEF Holding
  <2>5. daq.nsum = 0 => (n + 1) + Bursting' + Pending' = n + Bursting + Pending
    <3>1. daq.nsum = 0 => ~free
      BY NowFacts
    <3>2. Pending' = 0 /\ Bursting = 1
      BY <1>0, <1>6, <2>0 DEF Pending, Bursting
    <3>3. daq.nsum = 0 => Bursting' = Pending
      BY <1>0, <1>1, <2>0, <3>1 DEF Pending, Bursting
    <3>. QED
      BY <1>1, <3>2, <3>3, NowFacts
  <2>6. InStep(n + 1)'
    <3>1. daq'.nsum = 0 =>
            (n + 1) + Bursting' + Pending' =
             (IF thr' = "enter" /\ sub' = "prime" THEN 0
              ELSE IF thr' \in {"acquire", "read", "send"} THEN 2 ELSE 1)
      BY <1>0, <2>5, NowFacts DEF InStep
    <3>2. daq'.nsum # 0 =>
           /\ thr' # "enter"
           /\ thr' \in {"read", "send"} => intr' = "taken"
           /\ thr' \notin {"read", "send"} => intr' # "taken"
      BY <1>0, <1>1, NowFacts DEF InStep
    <3>. QED
      BY <1>0, <2>0, <3>1, <3>2 DEF InStep
  <2>. QED
    BY <1>4, <2>0, <2>4, <2>6 DEF Ahead
<1>. QED
  BY <1>0, <1>1, <1>5, <1>6

\* The engine moves the event's burst out of one FIFO.
LEMMA AheadDescriptor ==
  ASSUME NEW n, Now(n), DMADescriptor
  PROVE  Ahead(n)'
<1>. DEFINE i == dma.next
            f == fifo[ring[i]]
            rest == SubSeq(f, depth + 1, Len(f))
<1>1. /\ thr = "read" /\ sub = "wait" /\ i \in 1..Len(ring) /\ dma.done = 1..i-1
      /\ ring[i] \in Fifos /\ f \in Seq(0..BurstIds-1) /\ Len(ring) = Len(buf)
  BY AtDescriptor DEF Now
<1>2. /\ n \in Nat /\ n >= 1 /\ iTrig \in Int /\ depth \in Nat /\ Begun \in Nat
      /\ ltc.nEvents = depth
      /\ fifo \in [Fifos -> Seq(0..BurstIds-1)] /\ buf \in Seq(Seq(0..BurstIds-1))
  <2>1. n \in Nat /\ depth \in Nat /\ Begun \in Nat /\ ltc.nEvents = depth
    BY NowFacts
  <2>2. n >= 1
    BY <1>1, NowFacts DEF InStep
  <2>3. iTrig \in Int /\ fifo \in [Fifos -> Seq(0..BurstIds-1)]
    BY Numbers DEF Now
  <2>4. buf \in Seq(Seq(0..BurstIds-1))
    BY DEF Now, RInv, RTypeOK
  <2>. QED
    BY <2>1, <2>2, <2>3, <2>4
<1>3. Taken(i) = 0 /\ i \notin dma.done
  BY <1>1 DEF Taken
<1>4. Bursts(f, depth, Begun, iTrig, n)
  <2>1. Bursts(f, depth, Begun, iTrig + Taken(i), n - Taken(i))
    BY <1>1, NowFacts DEF Holding
  <2>2. iTrig + 0 = iTrig /\ n - 0 = n
    BY <1>2, Small
  <2>. QED
    BY <1>3, <2>1, <2>2
<1>5. /\ depth <= Len(f)
      /\ SubSeq(f, 1, depth) = [k \in 1..depth |-> iTrig % BurstIds]
      /\ Len(SubSeq(f, 1, depth)) = depth
      /\ Bursts(rest, depth, Begun, iTrig + 1, n - 1)
  <2>1. f \in Seq(0..BurstIds-1) /\ n # 0
    BY <1>1, <1>2
  <2>. HIDE DEF f
  <2>. QED
    BY <1>2, <1>4, <2>1, DropBurst DEF rest
<1>6. (IF Len(f) < ltc.nEvents THEN Len(f) ELSE ltc.nEvents) = depth
  <2>1. Len(f) \in Nat
    BY <1>1, LenProperties
  <2>. HIDE DEF f
  <2>. QED
    BY <1>2, <1>5, <2>1
<1>7. /\ buf' = [buf EXCEPT ![i] = SubSeq(f, 1, depth)]
      /\ fifo' = [fifo EXCEPT ![ring[i]] = rest]
      /\ dma'.done = dma.done \cup {i}
      /\ UNCHANGED <<daqVars, sub, depth, free, burst, id, pend, accept, intr, ring>>
  <2>1. /\ buf' = [buf EXCEPT ![i] = SubSeq(f, 1,
                     IF Len(f) < ltc.nEvents THEN Len(f) ELSE ltc.nEvents)]
        /\ fifo' = [fifo EXCEPT ![ring[i]] = SubSeq(f,
                     Len(SubSeq(f, 1, IF Len(f) < ltc.nEvents THEN Len(f)
                                                             ELSE ltc.nEvents)) + 1,
                     Len(f))]
        /\ dma' = [active |-> i < Len(ring),
                   next   |-> IF i < Len(ring) THEN i + 1 ELSE 1,
                   done   |-> dma.done \cup {i}]
        /\ UNCHANGED <<daqVars, sub, depth, free, burst, id, pend, accept, intr, ring>>
    BY DEF DMADescriptor
  <2>2. dma'.done = dma.done \cup {i}
    BY <2>1
  <2>. QED
    BY <1>5, <1>6, <2>1, <2>2
<1>8. Begun' = Begun /\ Bursting' = Bursting /\ Pending' = Pending
  BY <1>7 DEF Begun, Bursting, Pending
<1>. HIDE DEF i, f, rest
<1>9. Holding(n)'
  <2>1. id' = (iTrig' + n) % BurstIds
    BY <1>7, NowFacts DEF Holding, daqVars
  <2>2. ASSUME NEW j \in 1..Len(ring)
        PROVE  /\ Taken(j)' <= n
               /\ Bursts(fifo'[ring[j]], depth, Begun, iTrig + Taken(j)', n - Taken(j)')
    <3>1. CASE j = i
      <4>1. Taken(j)' = 1
        BY <1>7, <3>1 DEF Taken
      <4>2. fifo'[ring[j]] = rest
        BY <1>1, <1>2, <1>7, <3>1
      <4>. QED
        BY <1>2, <1>5, <4>1, <4>2
    <3>2. CASE j # i
      <4>1. Taken(j)' = Taken(j)
        BY <1>7, <3>2 DEF Taken, daqVars
      <4>2. ring[j] # ring[i]
        <5>1. Configured /\ ring # <<>>
          BY NowFacts DEF Now, RInv, ChipSelected, Configured
        <5>. QED
          BY <1>1, <3>2, <5>1 DEF Configured
      <4>3. fifo'[ring[j]] = fifo[ring[j]]
        <5>1. ring[j] \in Fifos
          BY Numbers DEF Now
        <5>. QED
          BY <1>2, <1>7, <4>2, <5>1
      <4>. QED
        BY <4>1, <4>3, NowFacts DEF Holding
    <3>. QED
      BY <3>1, <3>2
  <2>3. depth' = depth /\ iTrig' = iTrig /\ ring' = ring
    BY <1>7 DEF daqVars
  <2>. QED
    BY <1>8, <2>1, <2>2, <2>3 DEF Holding
<1>10. Fetched'
  <2>. SUFFICES ASSUME NEW j \in dma'.done
                PROVE  buf'[j] = [k \in 1..ltc'.nEvents |-> iTrig' % BurstIds]
    BY DEF Fetched
  <2>1. ltc' = ltc /\ iTrig' = iTrig
    BY <1>7 DEF daqVars
  <2>2. j \in 1..Len(buf)
    BY <1>1, <1>7
  <2>3. CASE j = i
    BY <1>2, <1>5, <1>7, <2>1, <2>2, <2>3, ExceptSeq
  <2>4. CASE j # i
    <3>1. buf'[j] = buf[j] /\ j \in dma.done
      BY <1>2, <1>7, <2>2, <2>4
    <3>. QED
      BY <2>1, <3>1, NowFacts DEF Fetched
  <2>. QED
    BY <2>3, <2>4
<1>11. InStep(n)'
  BY <1>7, <1>8, NowFacts DEF InStep, daqVars
<1>. QED
  BY <1>9, <1>10, <1>11 DEF Ahead

\* Outside a count no step but the reset of the FIFOs begins one.
LEMMA CountBegins ==
  ASSUME RInv, [RNext]_rvars, Counting', ~Counting
  PROVE  ResetFifos
<1>. USE DEF RInv, SubAgrees, Counting, Running, daqVars, daqRest, engine
<1>1. CASE DriverStep
  BY <1>1 DEF DriverStep, ClearMode, Prime, Primed, FreeRun, RLoopBody, LoopBody,
              WaitFifo, WaitIRQ, Acquire, StartSG, DMAWait, SyncCpu, CopyOut, Read,
              RSend, Send, RPost, Post, LoopControl, LoopEnd, SeeStop, ClearStop
<1>2. CASE BoardStep \/ UNCHANGED rvars
  BY <1>2 DEF BoardStep, BurstWord, BurstStart, DMADescriptor, rvars
<1>3. CASE CallerStep
  BY <1>3 DEF CallerStep, RConfigure, configure, join_daq_thread, Launch,
              start_daq_thread, RStop, stop_daq_thread
<1>. QED
  BY <1>1, <1>2, <1>3 DEF RNext

\* In a count only a few steps end it.
LEMMA CountGoesOn ==
  ASSUME NEW n, Now(n), [RNext]_rvars, Counting'
  PROVE  \E k \in Nat : Ahead(k)'
<1>1. CASE \/ Primed \/ FreeRun \/ (RLoopBody /\ daq.nsum # 0) \/ WaitFifo
           \/ WaitIRQ \/ StartSG \/ DMAWait \/ SyncCpu \/ CopyOut
           \/ LoopControl \/ RStop \/ BurstStart \/ UNCHANGED rvars
  BY <1>1, AheadCalls, NowFacts
<1>2. CASE Prime \/ (RLoopBody /\ daq.nsum = 0)
  BY <1>2, AheadTrigger, NowFacts
<1>3. CASE RSend
  BY <1>3, AheadSend
<1>4. CASE BurstWord
  BY <1>4, AheadWord
<1>5. CASE DMADescriptor
  BY <1>5, AheadDescriptor, NowFacts
<1>6. ~(ClearMode \/ ResetFifos \/ RPost \/ Launch)
  <2>1. Counting /\ SubAgrees
    BY DEF Now, RInv
  <2>. QED
    BY <2>1 DEF ClearMode, ResetFifos, RPost, Post, Launch, start_daq_thread,
                Counting, SubAgrees, Running
<1>7. ASSUME NEW s \in RunSettings PROVE ~RConfigure(s)
  BY DEF RConfigure, configure, join_daq_thread, Counting, Running
<1>. QED
  BY <1>1, <1>2, <1>3, <1>4, <1>5, <1>6, <1>7
     DEF RNext, DriverStep, BoardStep, CallerStep

\* The ring is the same from configure to the end of the run.
LEMMA RingStays ==
  ASSUME RInv, [RNext]_rvars, Counting'
  PROVE  ring' = ring
<1>1. ASSUME NEW s \in RunSettings PROVE ~RConfigure(s)
  BY DEF RConfigure, configure, join_daq_thread, Counting, Running
<1>. QED
  BY <1>1 DEF RNext, DriverStep, BoardStep, CallerStep, ClearMode, ResetFifos,
     Prime, Primed, FreeRun, RLoopBody, WaitFifo, WaitIRQ, StartSG, DMAWait,
     SyncCpu, CopyOut, RSend, RPost, LoopControl, BurstWord, BurstStart,
     DMADescriptor, Launch, RStop, engine, rvars

LEMMA AccountedStep ==
  ASSUME RInv, [RNext]_rvars, RTypeOK', Configured', BoardAgrees'
  PROVE  Accounted'
<1>. SUFFICES ASSUME Counting', ChipSelected' PROVE \E k \in Nat : Ahead(k)'
  BY AheadNext DEF Accounted
<1>1. ChipSelected
  BY RingStays DEF ChipSelected
<1>2. CASE Counting
  <2>1. PICK n \in Nat : Now(n)
    <3>1. Len(fifo[Stamp]) \in Nat
      <4>1. Stamp \in Fifos /\ fifo \in [Fifos -> Seq(0..BurstIds-1)]
        BY Numbers DEF Fifos
      <4>. QED
        BY <4>1, LenProperties
    <3>2. PICK n \in 0..Len(fifo[Stamp]) + 1 : Ahead(n)
      BY <1>1, <1>2 DEF RInv, Accounted
    <3>. QED
      BY <1>1, <1>2, <3>1, <3>2 DEF Now
  <2>. QED
    BY <2>1, CountGoesOn
<1>3. CASE ~Counting
  <2>1. ResetFifos
    BY <1>3, CountBegins
  <2>. QED
    BY <1>1, <2>1, AheadReset
<1>. QED
  BY <1>2, <1>3

-----------------------------------------------------------------------------
(* The inductive invariant.                                                *)

LEMMA RInitInv == RInit => RInv
<1>. SUFFICES ASSUME RInit PROVE RInv
  OBVIOUS
<1>1. DAQTypeOK /\ DAQInv
  BY DAQInitInv DEF RInit
<1>2. RTypeOK
  <2>1. fifo \in [Fifos -> Seq(0..BurstIds-1)]
    BY DEF RInit, NoWords
  <2>2. 0 \in 0..BurstIds-1
    BY DEF BurstIds
  <2>3. ring \in Seq(Fifos) /\ buf \in Seq(Seq(0..BurstIds-1))
    BY DEF RInit
  <2>4. dma \in [active: BOOLEAN, next: Nat, done: SUBSET Nat]
    BY DEF RInit
  <2>5. free \in BOOLEAN /\ pend \in BOOLEAN /\ accept \in BOOLEAN
    BY Zenon DEF RInit
  <2>6. /\ sub \in Subs /\ intr \in Irqs /\ dmaIrq \in Irqs
        /\ owner \in {"cpu", "device"}
    BY DEF RInit, Subs, Irqs
  <2>7. depth \in Nat /\ burst \in Nat /\ id \in 0..BurstIds-1
    BY <2>2 DEF RInit
  <2>. QED
    BY <1>1, <2>1, <2>3, <2>4, <2>5, <2>6, <2>7, Zenon DEF RTypeOK
<1>3. SubAgrees /\ Configured /\ EngineAgrees /\ BoardAgrees /\ Accounted
  BY DEF RInit, DAQInit, SubAgrees, Configured, EngineAgrees, AtRest, BoardAgrees,
         Accounted, Counting, Running
<1>. QED
  BY <1>1, <1>2, <1>3 DEF RInv

LEMMA RInvStep == RInv /\ [RNext]_rvars => RInv'
<1>. SUFFICES ASSUME RInv, [RNext]_rvars PROVE RInv'
  OBVIOUS
<1>1. RTypeOK' /\ DAQInv'
  BY RTypeStep
<1>2. SubAgrees' /\ Configured' /\ EngineAgrees' /\ BoardAgrees'
  BY SubStep, ConfiguredStep, EngineStep, BoardStepAgrees
<1>3. Accounted'
  BY <1>1, <1>2, AccountedStep
<1>. QED
  BY <1>1, <1>2, <1>3 DEF RInv

\* Where thread, driver, engine and board are, and how many bursts lie between
\* the board and the thread, in every run of any settings (server.cpp:81-173
\* with LTC2333.cpp, DMACtrl.h and UDMABuf.h).
THEOREM BoardInductive == RSpec => []RInv
<1>. QED
  BY RInitInv, RInvStep, PTL DEF RSpec

-----------------------------------------------------------------------------
(* What follows from it.                                                   *)

\* Every event is one whole burst, the same from every FIFO, and the events
\* are the bursts in order, also where the loop variable wraps
\* (server.cpp:107-118, LTC2333.cpp:103-141).
THEOREM OneBurstPerEvent == RSpec => []EventIsOneBurst
<1>1. RInv => EventIsOneBurst
  <2>. SUFFICES ASSUME RInv, sub = "copy", ChipSelected
                PROVE  \A i \in 1..Len(ring) :
                         buf[i] = [k \in 1..ltc.nEvents |-> iTrig % BurstIds]
    BY DEF EventIsOneBurst
  <2>1. dma.done = 1..Len(ring) /\ Counting
    BY DEF RInv, EngineAgrees, AtRest, SubAgrees, Counting, Running
  <2>2. Fetched
    BY <2>1 DEF RInv, Accounted, Ahead
  <2>. QED
    BY <2>1, <2>2 DEF Fetched
<1>. QED
  BY <1>1, BoardInductive, PTL

\* No FIFO of a triggered run ever has to hold more than two bursts, whatever
\* the board and the thread do first (server.cpp:84-110).
THEOREM AtMostTwoAhead == RSpec => []TwoBurstsAhead
<1>1. RInv => TwoBurstsAhead
  <2>. SUFFICES ASSUME RInv, daq.nsum = 0, thr \in Running, thr # "enter", ChipSelected
                PROVE  Len(fifo[Stamp]) + burst + (IF pend THEN depth ELSE 0) <= 2 * depth
    BY DEF TwoBurstsAhead
  <2>1. Counting
    BY DEF RInv, SubAgrees, Counting
  <2>2. PICK n \in Nat : Now(n)
    <3>1. Len(fifo[Stamp]) \in Nat
      <4>1. Stamp \in Fifos /\ fifo \in [Fifos -> Seq(0..BurstIds-1)]
        BY Numbers DEF Fifos
      <4>. QED
        BY <4>1, LenProperties
    <3>2. PICK n \in 0..Len(fifo[Stamp]) + 1 : Ahead(n)
      BY <2>1 DEF RInv, Accounted
    <3>. QED
      BY <2>1, <3>1, <3>2 DEF Now
  <2>. DEFINE t == Taken(Len(ring))
              m == n - t
  <2>3. /\ t \in {0, 1} /\ t <= n /\ n \in Nat
        /\ Len(fifo[Stamp]) = m * depth + Begun
    <3>1. t \in {0, 1}
      BY DEF Taken
    <3>2. Len(ring) \in 1..Len(ring) /\ ring[Len(ring)] = Stamp
      <4>1. Configured /\ ring # <<>> /\ Len(ring) \in Nat /\ Len(ring) > 1
        BY <2>2, NowFacts DEF RInv, Configured, ChipSelected
      <4>. QED
        BY <4>1 DEF Configured
    <3>. QED
      BY <2>2, <3>1, <3>2, NowFacts DEF Holding, Bursts
  <2>4. n + Bursting + Pending <= 2
    <3>1. InStep(n)
      BY <2>2, NowFacts
    <3>2. thr = "enter" => FALSE
      OBVIOUS
    <3>3. n + Bursting + Pending = 1 \/ n + Bursting + Pending = 2
      BY <3>1 DEF InStep
    <3>. QED
      BY <3>3
  <2>5. /\ depth \in Nat /\ burst \in Nat /\ burst <= depth /\ (pend => burst > 0)
        /\ Bursting \in {0, 1} /\ Pending \in {0, 1}
    BY <2>2, NowFacts
  <2>6. /\ 0 * depth = 0 /\ 1 * depth = depth /\ 2 * depth = depth + depth
    BY <2>5, Products
  <2>. HIDE DEF t
  <2>7. m \in Nat /\ m + Bursting + Pending <= 2
    BY <2>3, <2>4, <2>5
  <2>. HIDE DEF m
  <2>8. CASE burst = 0
    <3>1. Begun = 0 /\ ~pend /\ m \in {0, 1, 2}
      BY <2>5, <2>7, <2>8 DEF Begun
    <3>. QED
      BY <2>3, <2>5, <2>6, <2>8, <3>1
  <2>9. CASE burst # 0
    <3>1. Begun = depth - burst /\ Bursting = 1
      BY <2>5, <2>9 DEF Begun, Bursting
    <3>2. CASE pend
      <4>1. m = 0
        BY <2>5, <2>7, <3>1, <3>2 DEF Pending
      <4>. QED
        BY <2>3, <2>5, <2>6, <3>1, <3>2, <4>1
    <3>3. CASE ~pend
      <4>1. m \in {0, 1}
        BY <2>5, <2>7, <3>1
      <4>. QED
        BY <2>3, <2>5, <2>6, <3>1, <3>3, <4>1
    <3>. QED
      BY <3>2, <3>3
  <2>. QED
    BY <2>8, <2>9
<1>. QED
  BY <1>1, BoardInductive, PTL

\* The buffer is the device's while the engine moves, and the CPU's, complete
\* and at rest, while it is copied (LTC2333.cpp:131-137).
THEOREM HandedOver == RSpec => []BufferHandedOver
<1>1. RInv => BufferHandedOver
  BY DEF RInv, EngineAgrees, AtRest, BufferHandedOver
<1>. QED
  BY <1>1, BoardInductive, PTL

\* The thread never triggers while a trigger is kept, so the test that the
\* code leaves out (server.cpp:109) is not needed.
THEOREM TriggersKept == RSpec => NoTriggerLost
<1>1. RInv /\ [RNext]_rvars =>
        [(thr = "loop" /\ thr' = "acquire" /\ daq.nsum = 0 /\ ChipSelected)
           => ~pend]_rvars
  <2>. SUFFICES ASSUME RInv, thr = "loop", daq.nsum = 0, ChipSelected, pend
                PROVE  FALSE
    OBVIOUS
  <2>1. Counting
    BY DEF RInv, SubAgrees, Counting, Running
  <2>2. PICK n \in 0..Len(fifo[Stamp]) + 1 : Ahead(n)
    BY <2>1 DEF RInv, Accounted
  <2>3. Len(fifo[Stamp]) \in Nat
    <3>1. Stamp \in Fifos /\ fifo \in [Fifos -> Seq(0..BurstIds-1)]
      BY Numbers DEF Fifos
    <3>. QED
      BY <3>1, LenProperties
  <2>4. Now(n)
    BY <2>1, <2>2, <2>3 DEF Now
  <2>5. n + Bursting + Pending = 1 /\ n \in Nat /\ burst > 0 /\ burst \in Nat
    BY <2>4, NowFacts DEF InStep
  <2>6. Bursting = 1 /\ Pending = 1
    BY <2>5 DEF Bursting, Pending
  <2>. QED
    BY <2>5, <2>6
<1>. QED
  BY <1>1, BoardInductive, PTL DEF RSpec, NoTriggerLost

\* configure finds the engine at rest, because it has joined the thread
\* (LTC2333.cpp:24, DMACtrl.h:103-121).
THEOREM RingAtRest == RSpec => RingRewrittenAtRest
<1>1. RInv /\ [RNext]_rvars => [ring' # ring => ~dma.active]_rvars
  <2>. SUFFICES ASSUME RInv, [RNext]_rvars, ring' # ring PROVE ~dma.active
    OBVIOUS
  <2>1. PICK s \in RunSettings : RConfigure(s)
    BY DEF RNext, DriverStep, BoardStep, CallerStep, ClearMode, ResetFifos,
       Prime, Primed, FreeRun, RLoopBody, WaitFifo, WaitIRQ, StartSG, DMAWait,
       SyncCpu, CopyOut, RSend, RPost, LoopControl, BurstWord, BurstStart,
       DMADescriptor, Launch, RStop, engine, rvars
  <2>2. thr # "read"
    BY <2>1 DEF RConfigure, configure, join_daq_thread, JoinReturns
  <2>. QED
    BY <2>2 DEF RInv, SubAgrees, EngineAgrees, AtRest
<1>. QED
  BY <1>1, BoardInductive, PTL DEF RSpec, RingRewrittenAtRest

\* To the rest of the server the thread on its board is the thread of module
\* DAQThread: whatever the driver and the FPGA do is one of its steps or none
\* (server.cpp:62-174).  So, as in the server, the copy of an event fills its
\* message exactly, at most the event under way follows a stop, and nobody
\* changes the settings of a running thread (LTC2333.cpp:137,
\* server.cpp:98-105,264).
THEOREM ThreadOnBoard ==
  RSpec => /\ DAQInit /\ [][DAQStep]_daqVars
           /\ [](CopyFitsMessage /\ StopWithinOneEvent)
           /\ ConfigFixedInRun
<1>1. RInv => CopyFitsMessage /\ StopWithinOneEvent
  <2>. SUFFICES ASSUME RInv PROVE CopyFitsMessage /\ StopWithinOneEvent
    OBVIOUS
  <2>1. thr = "read" => SameNumbers
    BY DEF RInv, Configured, SameNumbers
  <2>2. StopWithinOneEvent
    BY DEF RInv, DAQInv, LateOnlyBeforeTest
  <2>. QED
    BY <2>1, <2>2, CopyFitsRoom DEF RInv, RTypeOK, DAQInv
<1>2. [RNext]_rvars =>
        [(thr \in Running /\ thr' \in Running) => (daq' = daq /\ ltc' = ltc)]_daqVars
  BY RNextIsDAQStep, ConfigStays
<1>3. RInit => DAQInit
  BY DEF RInit
<1>4. [RNext]_rvars => [DAQStep]_daqVars
  BY RNextIsDAQStep
<1>. QED
  BY <1>1, <1>2, <1>3, <1>4, BoardInductive, PTL DEF RSpec, ConfigFixedInRun
=============================================================================
