-------------------------- MODULE DAQThread_proofs ---------------------------
(***************************************************************************)
(* What every step of a DAQ_Thread object keeps, whoever owns it: its types*)
(* and the parts of DAQInv.  The server (Server_proofs), the board         *)
(* (Readout_proofs) and the whole system (BpmSystem_proofs) take their own *)
(* invariants about the acquisition thread from here.                      *)
(***************************************************************************)
EXTENDS DAQThread, FiniteSetTheorems, SequenceTheorems, TLAPS

-----------------------------------------------------------------------------
(* Lemmas about the operators.                                             *)

\* A selection of chips is counted by a natural number.
LEMMA MaskCount ==
  ASSUME NEW mask \in SUBSET Chips
  PROVE  Cardinality(mask) \in Nat
BY ChipsAssumption, FS_Subset, FS_CardinalityType

\* A message has a natural number of words.
LEMMA MessageWordsNat ==
  ASSUME NEW m \in Members
  PROVE  MessageWords(m) \in Nat
<1>1. m.reads \in Nat /\ m.nchan + 2 \in Nat
  BY DEF Members
<1>2. \A a, b \in Nat : a * b \in Nat
  OBVIOUS
<1>. QED
  BY <1>1, <1>2 DEF MessageWords

\* ++iTrig stays in the type.
LEMMA NextIntType ==
  ASSUME NEW i \in Int32
  PROVE  NextInt(i) \in Int32
BY IntMaxAssumption DEF Int32, NextInt

-----------------------------------------------------------------------------
(* The object that the constructor leaves.                                 *)

\* The members a constructor sets have their types.
LEMMA BootDAQTypes == BootMembers \in Members /\ BootDriver \in Driver
BY BootAssumption DEF BootMembers, BootDriver, Members, Driver

LEMMA DAQInitInv == DAQInit => DAQTypeOK /\ DAQInv
<1>. SUFFICES ASSUME DAQInit PROVE DAQTypeOK /\ DAQInv
  OBVIOUS
<1>1. DAQTypeOK
  <2>1. pipe \in Seq(Event) /\ Len(pipe) <= HWM
    BY HWMAssumption DEF DAQInit
  <2>2. daq \in Members /\ ltc \in Driver
    BY BootDAQTypes DEF DAQInit
  <2>3. iTrig \in Int32
    BY IntMaxAssumption DEF DAQInit, Int32
  <2>. QED
    BY <2>1, <2>2, <2>3 DEF DAQInit, DAQTypeOK, ThreadPoints
<1>2. DAQInv
  BY DEF DAQInit, DAQInv, RoomAllocated, LateOnlyBeforeTest,
         StopWithinOneEvent, LoopInBounds, ClearSeesStop
<1>. QED
  BY <1>1, <1>2

-----------------------------------------------------------------------------
(* The types.                                                              *)

\* The steps of the acquisition thread.
LEMMA ThreadType ==
  ASSUME DAQTypeOK, ThreadStep
  PROVE  DAQTypeOK'
<1>. USE DEF DAQTypeOK, daqRest, ThreadPoints, Running
<1>1. CASE Enter
  BY <1>1, IntMaxAssumption DEF Enter, Int32
<1>2. CASE LoopEnd \/ SeeStop \/ ClearStop \/ Acquire \/ Read
  BY <1>2 DEF LoopEnd, SeeStop, ClearStop, Acquire, Read
<1>3. CASE LoopBody
  BY <1>3, MessageWordsNat DEF LoopBody
<1>4. CASE Send
  <2>1. pipe' \in Seq(Event) /\ Len(pipe') <= HWM
    <3>1. CASE PipeHasRoom
      <4>1. [idx |-> iTrig, cfg |-> daq] \in Event
        BY DEF Event
      <4>2. pipe' = Append(pipe, [idx |-> iTrig, cfg |-> daq])
        BY <1>4, <3>1 DEF Send
      <4>3. Len(pipe) < HWM /\ Len(pipe) \in Nat
        BY <3>1, HWMAssumption, LenProperties DEF PipeHasRoom
      <4>4. pipe' \in Seq(Event) /\ Len(pipe') = Len(pipe) + 1
        BY <4>1, <4>2, AppendProperties
      <4>. QED
        BY <4>3, <4>4, HWMAssumption
    <3>2. CASE ~PipeHasRoom
      BY <1>4, <3>2 DEF Send
    <3>. QED
      BY <3>1, <3>2
  <2>2. iTrig' \in Int32
    BY <1>4, NextIntType DEF Send
  <2>3. late' \in Nat
    BY <1>4 DEF Send
  <2>. QED
    BY <1>4, <2>1, <2>2, <2>3 DEF Send
<1>5. CASE Post
  <2>1. iTrig' \in Int32
    BY <1>5, IntMaxAssumption DEF Post, Int32
  <2>. QED
    BY <1>5, <2>1 DEF Post
<1>. QED
  BY <1>1, <1>2, <1>3, <1>4, <1>5 DEF ThreadStep

\* configure, with some settings.
Reconfigure == \E s \in Settings : configure(s)

\* The first n elements of a sequence.
LEMMA Beginning ==
  ASSUME NEW S, NEW s \in Seq(S), NEW n \in 0 .. Len(s)
  PROVE  /\ SubSeq(s, 1, n) \in Seq(S) /\ Len(SubSeq(s, 1, n)) = n /\ n \in Nat
         /\ n <= Len(s)
         /\ \A k \in 1 .. n : SubSeq(s, 1, n)[k] = s[k]
<1>1. Len(s) \in Nat /\ n \in Nat /\ n <= Len(s)
  BY LenProperties
<1>2. 1 \in 1 .. Len(s) + 1 /\ n \in 1 - 1 .. Len(s)
  BY <1>1
<1>3. /\ SubSeq(s, 1, n) \in Seq(S)
      /\ Len(SubSeq(s, 1, n)) = IF 1 <= n THEN n - 1 + 1 ELSE 0
      /\ \A k \in 1 .. n - 1 + 1 : SubSeq(s, 1, n)[k] = s[1 + k - 1]
  BY <1>1, <1>2, SubSeqProperties
<1>4. \A k \in 1 .. n : 1 + k - 1 = k
  BY <1>1
<1>. QED
  BY <1>1, <1>3, <1>4

\* The methods that the control thread calls.
LEMMA MethodType ==
  ASSUME DAQTypeOK,
         \/ join_daq_thread /\ UNCHANGED daqRest
         \/ Reconfigure
         \/ start_daq_thread
         \/ stop_daq_thread
         \/ DAQReset
  PROVE  DAQTypeOK'
<1>. USE DEF DAQTypeOK, daqRest, ThreadPoints, Running
<1>1. CASE join_daq_thread /\ UNCHANGED daqRest
  BY <1>1 DEF join_daq_thread
<1>2. CASE Reconfigure
  <2>0. PICK s \in Settings : configure(s)
    BY <1>2 DEF Reconfigure
  <2>1. /\ s.reads \in Nat /\ s.ntrig \in Int32
        /\ s.nsum \in Nat /\ Cardinality(s.mask) \in Nat
    BY MaskCount DEF Settings
  <2>2. daq' \in Members /\ ltc' \in Driver
    BY <2>0, <2>1 DEF configure, Members, Driver
  <2>. QED
    BY <2>0, <2>2 DEF configure, join_daq_thread
<1>3. CASE start_daq_thread
  BY <1>3 DEF start_daq_thread
<1>4. CASE stop_daq_thread
  BY <1>4 DEF stop_daq_thread
<1>5. CASE DAQReset
  <2>1. pipe' \in Seq(Event) /\ Len(pipe') <= HWM
    <3>1. PICK n \in 0 .. Len(pipe) : pipe' = SubSeq(pipe, 1, n)
      BY <1>5 DEF DAQReset
    <3>2. pipe' \in Seq(Event) /\ Len(pipe') = n /\ n \in Nat /\ n <= Len(pipe)
      BY <3>1, Beginning
    <3>3. HWM \in Nat /\ Len(pipe) \in Nat
      BY HWMAssumption, LenProperties
    <3>. QED
      BY <3>2, <3>3
  <2>2. daq' \in Members /\ ltc' \in Driver
    BY <1>5, BootDAQTypes DEF DAQReset
  <2>3. iTrig' \in Int32
    BY <1>5, IntMaxAssumption DEF DAQReset, Int32
  <2>. QED
    BY <1>5, <2>1, <2>2, <2>3 DEF DAQReset
<1>. QED
  BY <1>1, <1>2, <1>3, <1>4, <1>5

\* The data peer.
LEMMA PullType ==
  ASSUME DAQTypeOK, PullStep
  PROVE  DAQTypeOK'
<1>. USE DEF DAQTypeOK
<1>1. CASE PullAttach
  BY <1>1 DEF PullAttach
<1>2. CASE PullDetach
  <2>1. pipe' \in Seq(Event) /\ Len(pipe') <= HWM
    BY <1>2, HWMAssumption DEF PullDetach
  <2>. QED
    BY <1>2, <2>1 DEF PullDetach
<1>3. CASE PullRecv
  <2>1. pipe' \in Seq(Event) /\ Len(pipe') = Len(pipe) - 1
    BY <1>3, HeadTailProperties DEF PullRecv
  <2>2. Len(pipe') <= HWM
    BY <2>1, HWMAssumption, LenProperties
  <2>. QED
    BY <1>3, <2>1, <2>2 DEF PullRecv
<1>. QED
  BY <1>1, <1>2, <1>3 DEF PullStep

\* What a step of its owner does to a DAQ_Thread.
DAQStep ==
  \/ ThreadStep
  \/ PullStep
  \/ join_daq_thread /\ UNCHANGED daqRest
  \/ Reconfigure
  \/ start_daq_thread
  \/ stop_daq_thread
  \/ DAQReset
  \/ UNCHANGED daqVars

LEMMA DAQStepType ==
  ASSUME DAQTypeOK, DAQStep
  PROVE  DAQTypeOK'
<1>1. CASE UNCHANGED daqVars
  BY <1>1 DEF daqVars, DAQTypeOK
<1>. QED
  BY <1>1, ThreadType, PullType, MethodType DEF DAQStep

-----------------------------------------------------------------------------
(* The parts of DAQInv.                                                    *)

\* While an event of a finite run is under way, ++iTrig cannot wrap.
LEMMA NextIntBelow ==
  ASSUME NEW i \in Int32, NEW n \in Int32, i < n
  PROVE  NextInt(i) = i + 1
BY IntMaxAssumption DEF Int32, NextInt

LEMMA RoomStep == DAQTypeOK /\ RoomAllocated /\ DAQStep => RoomAllocated'
<1>. SUFFICES ASSUME DAQTypeOK, RoomAllocated, DAQStep PROVE RoomAllocated'
  OBVIOUS
<1>. USE DEF RoomAllocated, MessageWords, daqRest, daqVars
<1>1. CASE ThreadStep
  BY <1>1 DEF ThreadStep, Enter, LoopEnd, SeeStop, ClearStop, LoopBody,
              Acquire, Read, Send, Post
<1>2. CASE PullStep
  BY <1>2 DEF PullStep, PullAttach, PullDetach, PullRecv
<1>. QED
  BY <1>1, <1>2 DEF DAQStep, join_daq_thread, Reconfigure, configure, start_daq_thread,
                    stop_daq_thread, DAQReset

LEMMA LateStep ==
  DAQTypeOK /\ LateOnlyBeforeTest /\ DAQStep => LateOnlyBeforeTest'
<1>. SUFFICES ASSUME DAQTypeOK, LateOnlyBeforeTest, DAQStep
              PROVE  LateOnlyBeforeTest'
  OBVIOUS
<1>. USE DEF LateOnlyBeforeTest, StopWithinOneEvent, daqRest, daqVars
<1>1. CASE ThreadStep
  BY <1>1 DEF ThreadStep, Enter, LoopEnd, SeeStop, ClearStop, LoopBody,
              Acquire, Read, Send, Post
<1>2. CASE PullStep
  BY <1>2 DEF PullStep, PullAttach, PullDetach, PullRecv
<1>3. CASE (join_daq_thread /\ UNCHANGED daqRest) \/ Reconfigure
           \/ start_daq_thread
  BY <1>3 DEF join_daq_thread, JoinReturns, Reconfigure, configure, start_daq_thread
<1>. QED
  BY <1>1, <1>2, <1>3 DEF DAQStep, stop_daq_thread, DAQReset

LEMMA LoopStep == DAQTypeOK /\ LoopInBounds /\ DAQStep => LoopInBounds'
<1>. SUFFICES ASSUME DAQTypeOK, LoopInBounds, DAQStep PROVE LoopInBounds'
  OBVIOUS
<1>. USE DEF LoopInBounds, daqRest, daqVars
<1>0. iTrig \in Int /\ daq.ntrig \in Int
  BY IntMaxAssumption DEF DAQTypeOK, Members, Int32
<1>1. CASE Send
  <2>1. daq.ntrig >= 0 => iTrig' = iTrig + 1 /\ iTrig < daq.ntrig
    BY <1>1, NextIntBelow DEF Send, DAQTypeOK, Members
  <2>. QED
    BY <1>0, <1>1, <2>1 DEF Send
<1>2. CASE ThreadStep /\ ~Send
  BY <1>0, <1>2 DEF ThreadStep, Enter, LoopEnd, SeeStop, ClearStop, LoopBody,
                    Acquire, Read, Post, MoreTriggers
<1>3. CASE PullStep
  BY <1>3 DEF PullStep, PullAttach, PullDetach, PullRecv
<1>4. CASE (join_daq_thread /\ UNCHANGED daqRest) \/ Reconfigure
           \/ start_daq_thread
  BY <1>4 DEF join_daq_thread, JoinReturns, Reconfigure, configure, start_daq_thread
<1>. QED
  BY <1>1, <1>2, <1>3, <1>4 DEF DAQStep, stop_daq_thread, DAQReset

LEMMA ClearStep == ClearSeesStop /\ DAQStep => ClearSeesStop'
<1>. SUFFICES ASSUME ClearSeesStop, DAQStep PROVE ClearSeesStop'
  OBVIOUS
<1>. USE DEF ClearSeesStop, daqRest, daqVars
<1>1. CASE ThreadStep
  BY <1>1 DEF ThreadStep, Enter, LoopEnd, SeeStop, ClearStop, LoopBody,
              Acquire, Read, Send, Post
<1>2. CASE PullStep
  BY <1>2 DEF PullStep, PullAttach, PullDetach, PullRecv
<1>. QED
  BY <1>1, <1>2 DEF DAQStep, join_daq_thread, Reconfigure, configure, start_daq_thread,
                    stop_daq_thread, DAQReset

\* An owner that takes only steps of DAQStep keeps DAQInv.
LEMMA DAQInvStep == DAQTypeOK /\ DAQInv /\ DAQStep => DAQTypeOK' /\ DAQInv'
BY DAQStepType, RoomStep, LateStep, LoopStep, ClearStep DEF DAQInv

-----------------------------------------------------------------------------
(* What follows from it.                                                   *)

\* Driver and thread were configured with the same numbers.
SameNumbers == ltc.nEvents = daq.reads /\ ltc.nSG = daq.nchan + 1

\* With the same numbers in driver and thread, and the message allocated for
\* them, the copy of LTC2333::read fills the message exactly.
LEMMA CopyFitsRoom ==
  ASSUME DAQTypeOK, RoomAllocated, thr = "read" => SameNumbers
  PROVE  CopyFitsMessage
<1>. SUFFICES ASSUME thr = "read" PROVE CopyWords(ltc) = msg
  BY DEF CopyFitsMessage
<1>1. msg = daq.reads * (daq.nchan + 2)
  BY DEF RoomAllocated, MessageWords
<1>2. daq.reads \in Nat /\ daq.nchan \in Nat
  BY DEF DAQTypeOK, Members
<1>3. ltc.nEvents = daq.reads /\ ltc.nSG + 1 = daq.nchan + 2
  BY <1>2 DEF SameNumbers
<1>4. CopyWords(ltc) = (daq.nchan + 2) * daq.reads
  BY <1>3 DEF CopyWords
<1>5. \A a, b \in Nat : a * b = b * a
  OBVIOUS
<1>. QED
  BY <1>1, <1>2, <1>4, <1>5

\* No owner configures a thread that runs.
LEMMA ConfigStays ==
  ASSUME DAQStep
  PROVE  [(thr \in Running /\ thr' \in Running) => (daq' = daq /\ ltc' = ltc)]_daqVars
<1>. SUFFICES ASSUME thr' \in Running PROVE daq' = daq /\ ltc' = ltc
  OBVIOUS
<1>1. CASE ThreadStep
  BY <1>1 DEF ThreadStep, Enter, LoopEnd, SeeStop, ClearStop, LoopBody,
              Acquire, Read, Send, Post, daqRest
<1>2. CASE PullStep
  BY <1>2 DEF PullStep, PullAttach, PullDetach, PullRecv
<1>. QED
  BY <1>1, <1>2 DEF DAQStep, Running, join_daq_thread, Reconfigure, configure,
     start_daq_thread, stop_daq_thread, DAQReset, daqRest, daqVars
=============================================================================
