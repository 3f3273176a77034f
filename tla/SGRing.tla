-------------------------------- MODULE SGRing --------------------------------
(***************************************************************************)
(* DMACtrl of server/include/DMACtrl.h: the scatter-gather descriptor ring *)
(* that configureSGBuf builds, one step per iteration of its loop, and the *)
(* CDMA engine that follows it for every event.  The ring lies in a kernel *)
(* buffer that outlives the process, so that a new one finds what the last *)
(* one and its engine left.                                                *)
(*                                                                         *)
(* Addresses are slots: the descriptor at physAddr() + k*SG_OFFSET is k,   *)
(* the FIFO at sas[i] is i.  Lengths and offsets in the data buffer are    *)
(* words.  Module Readout has the whole ring as one step.                  *)
(***************************************************************************)
EXTENDS Integers, Sequences

CONSTANTS
  NChips,   \* bits of chipMask (8); FIFO NChips holds the timestamps
  Depths    \* the values of nEvents: one or more, and fitting the DMA buffer

ASSUME RingAssumption == NChips \in Nat /\ Depths \subseteq Nat \ {0}

VARIABLES
  pc,      \* where LTC2333 and DMACtrl are
  mask,    \* chipMask
  length,  \* nEvents
  synced,  \* sync_size of the DMA buffer
  i,       \* the loop variable of configureSGBuf
  nSG,     \* nSGBuf_
  desc,    \* the descriptors in sgBuf_
  tail,    \* lastTailPtr_
  cur,     \* the engine's current descriptor
  moved    \* the FIFOs the engine has read since startSG

vars == <<pc, mask, length, synced, i, nSG, desc, tail, cur, moved>>

Fifos == 0..NChips
Slots == 0..NChips
Descriptor ==
  [next: Slots \cup {NChips + 1}, sa: Fifos, da: Nat, len: Nat, done: BOOLEAN]
Blank == [next |-> 0, sa |-> 0, da |-> 0, len |-> 0, done |-> FALSE]

\* boot: not configured.  loop: in configureSGBuf.  ready: configured.
\* run: between startSG and the interrupt.  ran: before sgBufReset.
RingTypeOK ==
  /\ pc \in {"boot", "loop", "ready", "run", "ran"}
  /\ mask \subseteq 0..NChips-1
  /\ length \in Nat /\ synced \in Nat
  /\ i \in 0..NChips+1
  /\ nSG \in 0..NChips+1
  /\ desc \in [Slots -> Descriptor]
  /\ tail \in Slots
  /\ cur \in Slots
  /\ moved \in Seq(Fifos)

Init ==
  /\ pc = "boot"
  /\ mask = {} /\ length = 0 /\ synced = 0
  /\ i = 0 /\ nSG = 0 /\ tail = 0 /\ cur = 0
  /\ desc = [k \in Slots |-> Blank]
  /\ moved = <<>>

-----------------------------------------------------------------------------
(* configureSGBuf.                                                         *)

\* Mutant: the ring buffer is not cleared.
Begin_Stale(m, n) ==
  /\ pc \in {"boot", "ready"}
  /\ mask' = m /\ length' = n /\ synced' = n * (NChips + 2)
  /\ nSG' = 0 /\ i' = 0
  /\ pc' = "loop"
  /\ UNCHANGED <<desc, tail, cur, moved>>

\* LTC2333::configure: syncSize, and configureSGBuf up to its loop; sgBuf_ is
\* cleared.
Begin(m, n) ==
  /\ pc \in {"boot", "ready"}
  /\ mask' = m /\ length' = n /\ synced' = n * (NChips + 2)
  /\ nSG' = 0 /\ i' = 0
  /\ desc' = [k \in Slots |-> Blank]
  /\ pc' = "loop"
  /\ UNCHANGED <<tail, cur, moved>>

Selected == i \in mask \/ i = NChips

\* Mutant: room for one word per timestamp.
BytesOf_Short(f) == length

\* Timestamps are 64 bits, two words.
BytesOf(f) == IF f = NChips THEN 2 * length ELSE length

\* A selected FIFO gets the next descriptor.
AddDescriptor ==
  /\ pc = "loop" /\ i <= NChips /\ Selected
  /\ desc' = [desc EXCEPT ![nSG] =
                [next |-> nSG + 1, sa |-> i, da |-> length * nSG,
                 len |-> BytesOf(i), done |-> @.done]]
  /\ nSG' = nSG + 1
  /\ i' = i + 1
  /\ UNCHANGED <<pc, mask, length, synced, tail, cur, moved>>

SkipFifo ==
  /\ pc = "loop" /\ i <= NChips /\ ~Selected
  /\ i' = i + 1
  /\ UNCHANGED <<pc, mask, length, synced, nSG, desc, tail, cur, moved>>

\* Mutant: the last descriptor keeps its link to the next slot.
CloseRing_Open ==
  /\ pc = "loop" /\ i > NChips
  /\ cur' = 0
  /\ tail' = nSG - 1
  /\ pc' = "ready"
  /\ UNCHANGED <<mask, length, synced, i, nSG, desc, moved>>

\* The last descriptor points to the first; the engine's pointer, the tail and
\* the interrupt threshold (nSGBuf_ completed descriptors) are set.
CloseRing ==
  /\ pc = "loop" /\ i > NChips
  /\ desc' = [desc EXCEPT ![nSG - 1].next = 0]
  /\ cur' = 0
  /\ tail' = nSG - 1
  /\ pc' = "ready"
  /\ UNCHANGED <<mask, length, synced, i, nSG, moved>>

-----------------------------------------------------------------------------
(* LTC2333::read and the engine.                                           *)

startSG ==
  /\ pc = "ready"
  /\ moved' = <<>>
  /\ pc' = "run"
  /\ UNCHANGED <<mask, length, synced, i, nSG, desc, tail, cur>>

\* The engine moves one descriptor and goes to the next, until the tail; it
\* refuses one that is marked completed.
Move ==
  /\ pc = "run"
  /\ ~desc[cur].done
  /\ desc' = [desc EXCEPT ![cur].done = TRUE]
  /\ moved' = Append(moved, desc[cur].sa)
  /\ cur' = desc[cur].next
  /\ pc' = IF cur = tail THEN "ran" ELSE "run"
  /\ UNCHANGED <<mask, length, synced, i, nSG, tail>>

\* Mutant: one descriptor too few.
sgBufReset_OneLess ==
  /\ pc = "ran"
  /\ desc' = [k \in Slots |-> [desc[k] EXCEPT !.done = @ /\ k >= nSG - 1]]
  /\ pc' = "ready"
  /\ UNCHANGED <<mask, length, synced, i, nSG, tail, cur, moved>>

\* sgBufReset of the nSGBuf_ descriptors.
sgBufReset ==
  /\ pc = "ran"
  /\ desc' = [k \in Slots |-> [desc[k] EXCEPT !.done = @ /\ k >= nSG]]
  /\ pc' = "ready"
  /\ UNCHANGED <<mask, length, synced, i, nSG, tail, cur, moved>>

\* The process dies at any point and a new one resets the engine, but not the
\* ring.
NewProcess ==
  /\ pc # "boot"
  /\ pc' = "boot"
  /\ mask' = {} /\ length' = 0
  /\ i' = 0 /\ nSG' = 0 /\ tail' = 0 /\ cur' = 0
  /\ moved' = <<>>
  /\ UNCHANGED <<synced, desc>>

Next ==
  \/ \E m \in SUBSET (0..NChips-1), n \in Depths : Begin(m, n)
  \/ AddDescriptor \/ SkipFifo \/ CloseRing
  \/ startSG \/ Move \/ sgBufReset
  \/ NewProcess

Spec == Init /\ [][Next]_vars

-----------------------------------------------------------------------------
(* Properties.                                                             *)

Configured == pc \in {"ready", "run", "ran"}

\* The engine never meets a descriptor marked completed, in the first event of
\* a process or a later one: read() waits for its interrupt without a timeout
\* (DMACtrl.h:40,133, LTC2333.cpp:139).
NeverRefused == pc = "run" => ~desc[cur].done

\* An event reads every selected FIFO and the timestamps exactly once, in the
\* order of the chips, completes nSGBuf_ descriptors, which is what the
\* interrupt waits for, and leaves the engine at the first descriptor again
\* (DMACtrl.h:41-58).
EachFifoOnce ==
  pc = "ran" =>
    /\ cur = 0
    /\ Len(moved) = nSG
    /\ \A j, k \in 1..nSG : j < k => moved[j] < moved[k]
    /\ \A f \in Fifos : (f \in mask \/ f = NChips) <=> \E k \in 1..nSG : moved[k] = f

\* The descriptors' regions abut, from the start of the buffer to the end of
\* the (nSGBuf_+1)*nEvents words that read() copies, inside the part of the
\* buffer whose cache is synced (DMACtrl.h:47-48, LTC2333.cpp:23,137).
RegionsAbut ==
  Configured =>
    /\ nSG > 0 /\ desc[0].da = 0
    /\ \A k \in 0..nSG-2 : desc[k+1].da = desc[k].da + desc[k].len
    /\ desc[nSG-1].da + desc[nSG-1].len = (nSG + 1) * length
    /\ (nSG + 1) * length <= synced

-----------------------------------------------------------------------------
(* The inductive invariant.                                                *)

\* Descriptor k has one of the selected FIFOs, its region and its link.
Written(k) ==
  /\ desc[k].sa < i
  /\ desc[k].sa \in mask \/ desc[k].sa = NChips
  /\ desc[k].da = length * k
  /\ desc[k].len = BytesOf(desc[k].sa)
  /\ desc[k].next = IF Configured /\ k = nSG - 1 THEN 0 ELSE k + 1

InOrder == \A j, k \in 0..nSG-1 : j < k => desc[j].sa < desc[k].sa

\* FIFO f has a descriptor.
Served(f) == \E k \in 0..nSG-1 : desc[k].sa = f

\* The descriptors written so far: increasing FIFOs below i, all the selected
\* ones, each with its region and its link.
SlotsFilled ==
  pc # "boot" =>
    /\ nSG <= i
    /\ synced = length * (NChips + 2)
    /\ \A k \in 0..nSG-1 : Written(k)
    /\ InOrder
    /\ \A f \in Fifos : f < i /\ (f \in mask \/ f = NChips) => Served(f)

\* Every descriptor is unmarked, except those the engine has completed.
Marks ==
  pc # "boot" =>
    \A k \in Slots : desc[k].done <=> (pc \in {"run", "ran"} /\ k < Len(moved))

\* The engine is where the number of its moves says.
EngineAt ==
  Configured =>
    /\ i = NChips + 1
    /\ nSG > 0 /\ tail = nSG - 1
    /\ pc \in {"ready", "ran"} => cur = 0
    /\ pc = "run" => cur = Len(moved) /\ cur < nSG
    /\ pc = "ran" => Len(moved) = nSG
    /\ pc \in {"run", "ran"} => \A k \in 1..Len(moved) : moved[k] = desc[k-1].sa

RingInv == RingTypeOK /\ SlotsFilled /\ Marks /\ EngineAt
=============================================================================
