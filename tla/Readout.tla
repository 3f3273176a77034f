------------------------------- MODULE Readout -------------------------------
(***************************************************************************)
(* DAQ_Thread with the driver it calls: LTC2333, the scatter-gather DMA of *)
(* DMACtrl, UDMABuf and UIO, and the blocks of the FPGA they drive.  Every *)
(* step of the acquisition thread of module DAQThread is here the calls of *)
(* the driver it stands for; sub is the position among them.               *)
(*                                                                         *)
(* The FPGA is not in the repository: its blocks are modelled by what the  *)
(* driver relies on.  A trigger starts a burst, or is kept while one is in *)
(* progress and then starts the next one at once; a burst delivers one     *)
(* word per FIFO and read, to all FIFOs together; the FIFOs interrupt while*)
(* they hold a full burst.                                                 *)
(***************************************************************************)
EXTENDS DAQThread

CONSTANTS
  Bit,          \* the bit of each chip in a mask
  Stamp,        \* the timestamp FIFO, the ninth
  RunSettings,  \* the settings of runs
  FifoCap       \* bound: a free-running board stops at this many words

BurstIds == 4   \* bursts are counted modulo this

ASSUME BitAssumption ==
  /\ Bit \in [Chips -> Nat]
  /\ \A c, d \in Chips : Bit[c] = Bit[d] => c = d
  /\ Stamp \notin Chips
\* IntMax is 2^(w-1) - 1: bursts are counted on over the wrap of the int.
ASSUME WidthAssumption == IntMax % 2 = 1
\* A transfer of no bytes is an error of the engine: no run reads 0 words.
ASSUME RunAssumption == \A s \in RunSettings : s \in Settings /\ s.reads > 0

VARIABLES
  sub,      \* the driver call that the thread, or configure, is at
  depth,    \* write_[3]: reads per burst
  free,     \* the mode bit of write_[1]: bursts without triggers
  burst,    \* words still to come of the burst in progress (0: none)
  id,       \* number of the burst in progress, or of the next one
  pend,     \* a trigger is kept
  accept,   \* read_[0]: the FIFOs take words
  fifo,     \* what each FIFO holds: the burst of every word
  intr,     \* the interrupt of the FIFOs as UIO shows it
  ring,     \* the FIFO each descriptor of the ring reads
  dma,      \* the CDMA: active, next descriptor, completed ones
  dmaIrq,   \* its interrupt
  owner,    \* who may use the DMA buffer: "cpu" or "device"
  buf       \* the regions of the DMA buffer, one per descriptor

board  == <<depth, free, burst, id, pend, accept, fifo>>
engine == <<ring, dma, dmaIrq, owner, buf>>
rvars  == <<daqVars, sub, board, intr, engine>>

Fifos == Chips \cup {Stamp}
\* Armed, raised (a count to read), or taken (read, and not enabled again).
Irqs  == {"armed", "raised", "taken"}
Subs  == {"none", "configured", "mode", "idle", "prime", "primed", "start", "wait",
          "sync", "copy"}

RTypeOK ==
  /\ DAQTypeOK
  /\ sub \in Subs
  /\ depth \in Nat /\ burst \in Nat /\ id \in 0..BurstIds-1
  /\ free \in BOOLEAN /\ pend \in BOOLEAN /\ accept \in BOOLEAN
  /\ fifo \in [Fifos -> Seq(0..BurstIds-1)]
  /\ intr \in Irqs /\ dmaIrq \in Irqs
  /\ ring \in Seq(Fifos)
  /\ dma \in [active: BOOLEAN, next: Nat, done: SUBSET Nat]
  /\ owner \in {"cpu", "device"}
  /\ buf \in Seq(Seq(0..BurstIds-1))

NoWords == [f \in Fifos |-> <<>>]

RInit ==
  /\ DAQInit
  /\ sub = "none"
  /\ depth = 0 /\ free = FALSE /\ burst = 0 /\ id = 0 /\ pend = FALSE
  /\ accept = FALSE /\ fifo = NoWords
  /\ intr = "armed" /\ dmaIrq = "armed"
  /\ ring = <<>>
  /\ dma = [active |-> FALSE, next |-> 1, done |-> {}]
  /\ owner = "cpu"
  /\ buf = <<>>

-----------------------------------------------------------------------------
(* LTC2333 and what it calls.                                              *)

\* The FIFOs of the selected chips ask for attention: a full burst is there.
Level(f) == \E i \in 1..Len(ring) : ring[i] # Stamp /\ Len(f[ring[i]]) >= ltc.nEvents

\* IRQReset: drain the count, acknowledge, enable again.  The request of FIFOs
\* that still hold a burst is raised again at once.
IRQReset(f) == intr' = IF Level(f) THEN "raised" ELSE "armed"

\* trigger(): starts a burst, or is kept; a second one kept is the first.
trigger ==
  /\ burst' = IF burst = 0 THEN depth ELSE burst
  /\ pend' = (burst # 0)
  /\ UNCHANGED <<depth, free, id, accept, fifo>>

\* Mutant: one word too few.
FirstChipFull_Early ==
  ring[1] # Stamp => Len(fifo[ring[1]]) + 1 >= ltc.nEvents

\* wait(): the FIFO of the first selected chip holds a burst.  With no chip
\* selected it returns at once.
FirstChipFull ==
  ring[1] # Stamp => Len(fifo[ring[1]]) >= ltc.nEvents

\* configureSGBuf: one descriptor per selected chip, in the order of the bits,
\* and one for the timestamps.
Rings(mask) ==
  LET n == Cardinality(mask)
  IN {r \in [1..n+1 -> mask \cup {Stamp}] :
        /\ r[n+1] = Stamp
        /\ \A i \in 1..n : r[i] \in mask
        /\ \A i \in 1..n, j \in 1..n : i < j => Bit[r[i]] < Bit[r[j]]}

-----------------------------------------------------------------------------
(* The control thread.                                                     *)

\* configure, with the driver's registers.  The mode bit is cleared; a burst
\* in progress goes on; words left in a FIFO that is selected may interrupt.
RConfigure(s) ==
  /\ sub # "configured"
  /\ configure(s)
  /\ sub' = "configured"
  /\ depth' = s.reads
  /\ free' = FALSE
  /\ ring' \in Rings(s.mask)
  /\ dma' = [active |-> FALSE, next |-> 1, done |-> {}]
  /\ buf' = [i \in 1..Len(ring') |-> <<>>]
  /\ UNCHANGED <<burst, id, pend, accept, fifo, dmaIrq, owner>>
  /\ intr' = IF intr = "armed" /\ Level(fifo)' THEN "raised" ELSE intr

Launch ==
  /\ sub = "configured"
  /\ start_daq_thread
  /\ sub' = IF daq.nsum = 0 THEN "idle" ELSE "mode"
  /\ UNCHANGED <<board, intr, engine>>

RStop ==
  /\ ~stop
  /\ stop_daq_thread
  /\ UNCHANGED <<sub, board, intr, engine>>

-----------------------------------------------------------------------------
(* The acquisition thread: before the loop.                                *)

\* setMode(0), when summing.
ClearMode ==
  /\ thr = "enter" /\ sub = "mode"
  /\ free' = FALSE
  /\ sub' = "idle"
  /\ UNCHANGED <<daqVars, depth, burst, id, pend, accept, fifo, intr, engine>>

\* Mutant: the FIFOs are reset during a burst.
ResetFifos_NoWait ==
  /\ thr = "enter" /\ sub = "idle"
  /\ fifo' = NoWords
  /\ id' = 0
  /\ accept' = TRUE
  /\ IRQReset(NoWords)
  /\ sub' = "prime"
  /\ UNCHANGED <<daqVars, depth, free, burst, pend, engine>>

\* writeInProgress() is false: reset the FIFOs, enable reading, IRQReset.
ResetFifos ==
  /\ thr = "enter" /\ sub = "idle"
  /\ burst = 0
  /\ fifo' = NoWords
  /\ id' = 0
  /\ accept' = TRUE
  /\ IRQReset(NoWords)
  /\ sub' = "prime"
  /\ UNCHANGED <<daqVars, depth, free, burst, pend, engine>>

\* The first burst is triggered ahead of the loop, and IRQReset.
Prime ==
  /\ thr = "enter" /\ sub = "prime" /\ daq.nsum = 0
  /\ trigger
  /\ IRQReset(fifo)
  /\ sub' = "primed"
  /\ UNCHANGED <<daqVars, engine>>

\* writeInProgress() is false again.
Primed ==
  /\ thr = "enter" /\ sub = "primed"
  /\ burst = 0
  /\ Enter
  /\ sub' = "none"
  /\ UNCHANGED <<board, intr, engine>>

\* When summing, setMode(1) lets the board run by itself.
FreeRun ==
  /\ thr = "enter" /\ sub = "prime" /\ daq.nsum # 0
  /\ Enter
  /\ free' = TRUE
  /\ sub' = "none"
  /\ UNCHANGED <<depth, burst, id, pend, accept, fifo, intr, engine>>

-----------------------------------------------------------------------------
(* The acquisition thread: an event.                                       *)

\* Without summing every event triggers the burst after the next.
RLoopBody ==
  /\ LoopBody
  /\ IF daq.nsum = 0 THEN trigger ELSE UNCHANGED board
  /\ UNCHANGED <<sub, intr, engine>>

\* Mutant: wait() returns whatever the FIFO holds.
WaitFifo_Blind ==
  /\ thr = "acquire" /\ daq.nsum = 0
  /\ Acquire
  /\ sub' = "start"
  /\ UNCHANGED <<board, intr, engine>>

WaitFifo ==
  /\ thr = "acquire" /\ daq.nsum = 0
  /\ FirstChipFull
  /\ Acquire
  /\ sub' = "start"
  /\ UNCHANGED <<board, intr, engine>>

WaitIRQ ==
  /\ thr = "acquire" /\ daq.nsum # 0
  /\ intr = "raised"
  /\ Acquire
  /\ intr' = "taken"
  /\ sub' = "start"
  /\ UNCHANGED <<board, engine>>

\* read(): syncDevice and startSG (the tail pointer starts the engine).
StartSG ==
  /\ thr = "read" /\ sub = "start"
  /\ owner' = "device"
  /\ dma' = [dma EXCEPT !.active = TRUE]
  /\ sub' = "wait"
  /\ UNCHANGED <<daqVars, board, intr, ring, dmaIrq, buf>>

\* Mutant: the interrupt is not waited for.
DMAWait_NoWait ==
  /\ thr = "read" /\ sub = "wait"
  /\ dmaIrq' = "armed"
  /\ sub' = "sync"
  /\ UNCHANGED <<daqVars, board, intr, ring, dma, owner, buf>>

\* DMACtrl::IRQWait takes the interrupt, then resets it.
DMAWait ==
  /\ thr = "read" /\ sub = "wait"
  /\ dmaIrq = "raised"
  /\ dmaIrq' = "armed"
  /\ sub' = "sync"
  /\ UNCHANGED <<daqVars, board, intr, ring, dma, owner, buf>>

\* DMACtrl::IRQReset a second time, and syncCpu.
SyncCpu ==
  /\ thr = "read" /\ sub = "sync"
  /\ dmaIrq' = "armed"
  /\ owner' = "cpu"
  /\ sub' = "copy"
  /\ UNCHANGED <<daqVars, board, intr, ring, dma, buf>>

\* Mutant: the descriptors stay completed.
CopyOut_NoReset ==
  /\ sub = "copy"
  /\ Read
  /\ sub' = "none"
  /\ UNCHANGED <<board, intr, engine>>

\* memcpy, and sgBufReset of every descriptor.
CopyOut ==
  /\ sub = "copy"
  /\ Read
  /\ dma' = [dma EXCEPT !.done = {}]
  /\ sub' = "none"
  /\ UNCHANGED <<board, intr, ring, dmaIrq, owner, buf>>

\* Without summing there is no interrupt to reset.
RSend ==
  /\ Send
  /\ IF daq.nsum = 0 THEN UNCHANGED intr ELSE IRQReset(fifo)
  /\ UNCHANGED <<sub, board, engine>>

RPost ==
  /\ Post
  /\ free' = FALSE
  /\ accept' = FALSE
  /\ UNCHANGED <<sub, depth, burst, id, pend, fifo, intr, engine>>

LoopControl ==
  (LoopEnd \/ SeeStop \/ ClearStop) /\ UNCHANGED <<sub, board, intr, engine>>

DriverStep ==
  \/ ClearMode \/ ResetFifos \/ Prime \/ Primed \/ FreeRun
  \/ RLoopBody \/ WaitFifo \/ WaitIRQ \/ StartSG \/ DMAWait \/ SyncCpu
  \/ CopyOut \/ RSend \/ RPost \/ LoopControl

-----------------------------------------------------------------------------
(* The FPGA.                                                               *)

\* The next word of the burst, to every FIFO that is read (what the others
\* take and lose is not represented); after the last one a kept trigger, or the
\* free-running mode, starts the next burst.
BurstWord ==
  /\ burst > 0
  /\ free => Len(fifo[Stamp]) < FifoCap
  /\ fifo' = [f \in Fifos |-> IF accept /\ f \in {ring[i] : i \in 1..Len(ring)}
                               THEN Append(fifo[f], id) ELSE fifo[f]]
  /\ IF burst > 1
     THEN burst' = burst - 1 /\ UNCHANGED <<id, pend>>
     ELSE /\ burst' = IF pend \/ free THEN depth ELSE 0
          /\ id' = (id + 1) % BurstIds
          /\ pend' = FALSE
  /\ intr' = IF intr = "armed" /\ Level(fifo') THEN "raised" ELSE intr
  /\ UNCHANGED <<daqVars, sub, depth, free, accept, engine>>

\* Free running starts by itself.
BurstStart ==
  /\ free /\ burst = 0
  /\ burst' = depth
  /\ UNCHANGED <<daqVars, sub, depth, free, id, pend, accept, fifo, intr, engine>>

\* The CDMA moves one descriptor: a burst of words out of its FIFO, fewer if
\* the FIFO is empty before.  The last descriptor raises the interrupt.  A
\* descriptor that is still marked completed is refused, and nothing moves.
DMADescriptor ==
  /\ dma.active /\ dma.next \notin dma.done
  /\ LET i == dma.next
         have == Len(fifo[ring[i]])
         words == SubSeq(fifo[ring[i]], 1, IF have < ltc.nEvents THEN have
                                                                 ELSE ltc.nEvents)
     IN /\ buf' = [buf EXCEPT ![i] = words]
        /\ fifo' = [fifo EXCEPT ![ring[i]] = SubSeq(@, Len(words) + 1, Len(@))]
        /\ dma' = [active |-> i < Len(ring),
                   next   |-> IF i < Len(ring) THEN i + 1 ELSE 1,
                   done   |-> dma.done \cup {i}]
        /\ dmaIrq' = IF i = Len(ring) /\ dmaIrq = "armed" THEN "raised" ELSE dmaIrq
  /\ UNCHANGED <<daqVars, sub, depth, free, burst, id, pend, accept, intr, ring, owner>>

BoardStep == BurstWord \/ BurstStart \/ DMADescriptor

CallerStep == (\E s \in RunSettings : RConfigure(s)) \/ Launch \/ RStop

RNext == DriverStep \/ BoardStep \/ CallerStep

RSpec == RInit /\ [][RNext]_rvars

\* The thread is scheduled, the board works and the DMA engine too.
RFairSpec ==
  RSpec /\ WF_rvars(DriverStep) /\ WF_rvars(BurstWord \/ BurstStart)
        /\ WF_rvars(DMADescriptor)

-----------------------------------------------------------------------------
(* Properties.                                                             *)

\* Some chip is selected: with none, wait() returns at once
\* (LTC2333.cpp:103-121), and the events are not tied to the bursts.
ChipSelected == Len(ring) > 1

\* What is copied to the message of event iTrig is one burst, whole and from
\* every FIFO the same, and no burst is skipped or read twice
\* (server.cpp:107-118, LTC2333.cpp:103-141).
EventIsOneBurst ==
  sub = "copy" /\ ChipSelected =>
    \A i \in 1..Len(ring) :
      buf[i] = [k \in 1..ltc.nEvents |-> iTrig % BurstIds]

\* No trigger is merged with a kept one, although the test for that is
\* commented out (server.cpp:109).
NoTriggerLost ==
  [][(thr = "loop" /\ thr' = "acquire" /\ daq.nsum = 0 /\ ChipSelected)
       => ~pend]_rvars

\* The board is at most two bursts ahead of the thread.
TwoBurstsAhead ==
  daq.nsum = 0 /\ thr \in Running /\ thr # "enter" /\ ChipSelected
    => Len(fifo[Stamp]) + burst + (IF pend THEN depth ELSE 0) <= 2 * depth

\* The engine writes the DMA buffer only while it is synced for the device,
\* and the copy is taken from a buffer synced for the CPU, complete and with
\* the engine at rest (LTC2333.cpp:131-137).
BufferHandedOver ==
  /\ dma.active => owner = "device"
  /\ sub = "copy" => owner = "cpu" /\ ~dma.active /\ dma.done = 1..Len(ring)

\* The descriptor ring is never rewritten under a running engine
\* (LTC2333.cpp:24, DMACtrl.h:103-121).
RingRewrittenAtRest == [][ring' # ring => ~dma.active]_rvars

\* Every event that is waited for is read, and the loop goes on
\* (LTC2333.cpp:110, DMACtrl.h:133: waits without a timeout), but in a summing
\* run with an empty mask: interrupt_[2] is 0 there (LTC2333.cpp:28), and waitIRQ
\* (server.cpp:156) never returns.
EventsArrive ==
  (thr \in {"enter", "acquire", "read"} /\ (daq.nsum = 0 \/ ChipSelected))
    ~> thr \in {"send", "loop"}
=============================================================================
