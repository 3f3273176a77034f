------------------------------ MODULE DAQThread ------------------------------
(***************************************************************************)
(* The class DAQ_Thread of server/src/server.cpp: one object that owns the *)
(* acquisition thread, the stop flag shared with the control thread, the   *)
(* copy of the run's settings, the ADC driver and the PUSH data socket.    *)
(*                                                                         *)
(* The module holds the state, the public methods (called by the control   *)
(* thread, module Server) and the steps of the acquisition thread.  What   *)
(* the board does between a trigger and a full FIFO is one step here,      *)
(* Acquire; samples are not represented, only how many words the driver    *)
(* copies and how many words the message has room for.                     *)
(***************************************************************************)
EXTENDS Integers, FiniteSets, Sequences

CONSTANTS
  Chips,         \* the ADC chips a chipMask selects from (the bits of the mask)
  IntMax,        \* the greatest value of the C++ type int
  HWM,           \* zmq high-water mark: most messages the data pipe holds
  BootReads,     \* the constructors' reads_per_trigger_ (1024)
  BootTriggers,  \* the constructors' num_triggers_ (1000)
  DataClients    \* whether a PULL peer ever attaches to the data socket

\* The values of a C++ int.
Int32 == (-IntMax - 1) .. IntMax

ASSUME ChipsAssumption  == IsFiniteSet(Chips)
ASSUME IntMaxAssumption == IntMax \in Nat \ {0}
ASSUME HWMAssumption    == HWM \in Nat \ {0}
ASSUME DataAssumption   == DataClients \in BOOLEAN
ASSUME BootAssumption   == BootReads \in Nat /\ BootTriggers \in Int32

VARIABLES
  thr,      \* where the acquisition thread is ("none": no joinable thread)
  stop,     \* stop_
  iTrig,    \* the loop variable of daq_thread_all / daq_thread_sum
  daq,      \* reads_per_trigger_, num_triggers_, nsum_, nChan_
  ltc,      \* nEvents_ of LTC2333 and nSGBuf_ of its DMACtrl
  msg,      \* room, in words, of the message being filled (0: no message)
  pulling,  \* a PULL socket is attached to data_socket_
  pipe,     \* the events data_socket_ holds for it
  asked,    \* history: stop_daq_thread was called during the current run
  late      \* history: events sent since stop_ was set

daqRest == <<stop, iTrig, daq, ltc, msg, pulling, pipe, asked, late>>
daqVars == <<thr, stop, iTrig, daq, ltc, msg, pulling, pipe, asked, late>>

Members == [reads: Nat, ntrig: Int32, nsum: Nat, nchan: Nat]
Driver  == [nEvents: Nat, nSG: Nat]
Event   == [idx: Int32, cfg: Members]

\* What configure may be given: the settings members of Ctrl_Thread.
Settings == [mask: SUBSET Chips, reads: Nat, ntrig: Int32, nsum: Nat]

\* Program points of a thread that has been launched and has not returned.
Running == {"enter", "loop", "clear", "acquire", "read", "send", "post"}
ThreadPoints == {"none", "done"} \cup Running

DAQTypeOK ==
  /\ thr \in ThreadPoints
  /\ stop \in BOOLEAN
  /\ iTrig \in Int32
  /\ daq \in Members
  /\ ltc \in Driver
  /\ msg \in Nat
  /\ pulling \in BOOLEAN
  /\ pipe \in Seq(Event) /\ Len(pipe) <= HWM
  /\ asked \in BOOLEAN
  /\ late \in Nat

\* The members DAQ_Thread's constructor sets.
BootMembers ==
  [reads |-> BootReads, ntrig |-> BootTriggers, nsum |-> 0, nchan |-> 0]
BootDriver  == [nEvents |-> 0, nSG |-> 0]

DAQInit ==
  /\ thr = "none"
  /\ stop = FALSE
  /\ iTrig = 0
  /\ daq = BootMembers
  /\ ltc = BootDriver
  /\ msg = 0
  /\ pulling = FALSE
  /\ pipe = <<>>
  /\ asked = FALSE
  /\ late = 0

\* ++iTrig on a two's complement int: only an endless run reaches the wrap.
NextInt(i) == IF i = IntMax THEN -IntMax - 1 ELSE i + 1

\* Mutant: <= for <.
MoreTriggers_OneTooMany == iTrig <= daq.ntrig \/ daq.ntrig < 0

\* The condition of both event loops: a negative num_triggers_ is endless.
MoreTriggers == iTrig < daq.ntrig \/ daq.ntrig < 0

\* Mutant: room for one timestamp word per event only.
MessageWords_ShortTimestamp(m) == m.reads * (m.nchan + 1)

\* Words in a message of the run, as allocated by the loops.
MessageWords(m) == m.reads * (m.nchan + 2)

\* Words LTC2333::read copies into the message.
CopyWords(d) == (d.nSG + 1) * d.nEvents

-----------------------------------------------------------------------------
(* The methods, called by the control thread.                              *)

\* Mutant: join without testing that there is a thread.
JoinReturns_Untested == thr = "done"

\* join_daq_thread returns at once without a joinable thread, and otherwise
\* when the thread function has returned: elsewhere the caller waits.
JoinReturns == thr \in {"none", "done"}

\* Mutant: a join that does not wait.
join_daq_thread_NoWait == thr' = IF thr \in {"none", "done"} THEN "none" ELSE thr

join_daq_thread ==
  /\ JoinReturns
  /\ thr' = "none"

\* configure: join, then the members, the driver and its descriptor ring
\* (one descriptor per selected chip and one for the timestamps).
configure(s) ==
  /\ join_daq_thread
  /\ daq' = [reads |-> s.reads, ntrig |-> s.ntrig, nsum |-> s.nsum,
             nchan |-> Cardinality(s.mask)]
  /\ ltc' = [nEvents |-> s.reads, nSG |-> Cardinality(s.mask) + 1]
  /\ UNCHANGED <<stop, iTrig, msg, pulling, pipe, asked, late>>

\* start_daq_thread: join, then a new thread.  stop_ keeps its value.
start_daq_thread ==
  /\ JoinReturns
  /\ thr' = "enter"
  /\ UNCHANGED daqRest

\* stop_daq_thread: set the flag under the mutex.
stop_daq_thread ==
  /\ stop' = TRUE
  /\ asked' = (asked \/ thr \in Running)
  /\ late' = 0
  /\ UNCHANGED <<thr, iTrig, daq, ltc, msg, pulling, pipe>>

\* The process dies, the thread and the socket with it, wherever it is; a new
\* process constructs the object again.  The events that have reached the PULL
\* peer's end of the pipe are still there for it, the others are lost.
DAQReset ==
  /\ thr' = "none"
  /\ stop' = FALSE
  /\ iTrig' = 0
  /\ daq' = BootMembers
  /\ ltc' = BootDriver
  /\ msg' = 0
  /\ pulling' = FALSE
  /\ \E n \in 0 .. Len(pipe) : pipe' = SubSeq(pipe, 1, n)
  /\ asked' = FALSE
  /\ late' = 0

-----------------------------------------------------------------------------
(* The thread function, daq_thread, and the two loops it chooses from by   *)
(* nsum_.  They differ in how an event is awaited, not in control.         *)

\* Wait for the sequencer to be idle, reset the FIFOs, enable reading.
Enter ==
  /\ thr = "enter"
  /\ thr' = "loop"
  /\ iTrig' = 0
  /\ UNCHANGED <<stop, daq, ltc, msg, pulling, pipe, asked, late>>

\* The loop condition is false: all triggers of the run are done.
LoopEnd ==
  /\ thr = "loop"
  /\ ~MoreTriggers
  /\ thr' = "post"
  /\ UNCHANGED daqRest

\* if(self->stop_), read without the mutex: it is set.
SeeStop ==
  /\ thr = "loop"
  /\ MoreTriggers
  /\ stop
  /\ thr' = "clear"
  /\ UNCHANGED daqRest

\* Mutant: leave the loop, and the flag set.
ClearStop_Forgets == thr = "clear" /\ thr' = "post" /\ UNCHANGED daqRest

\* Take the mutex, reset the flag and leave the loop.
ClearStop ==
  /\ thr = "clear"
  /\ stop' = FALSE
  /\ thr' = "post"
  /\ UNCHANGED <<iTrig, daq, ltc, msg, pulling, pipe, asked, late>>

\* Mutant: the flag is not tested.
LoopBody_Untested ==
  /\ thr = "loop"
  /\ MoreTriggers
  /\ msg' = MessageWords(daq)
  /\ thr' = "acquire"
  /\ UNCHANGED <<stop, iTrig, daq, ltc, pulling, pipe, asked, late>>

\* The flag is not set: allocate the message and (without summing) trigger.
LoopBody ==
  /\ thr = "loop"
  /\ MoreTriggers
  /\ ~stop
  /\ msg' = MessageWords(daq)
  /\ thr' = "acquire"
  /\ UNCHANGED <<stop, iTrig, daq, ltc, pulling, pipe, asked, late>>

\* ltc_.wait() or ltc_.waitIRQ() returns: the board holds an event.
Acquire ==
  /\ thr = "acquire"
  /\ thr' = "read"
  /\ UNCHANGED daqRest

\* ltc_.read(): DMA into the buffer, then CopyWords(ltc) words to the message.
Read ==
  /\ thr = "read"
  /\ thr' = "send"
  /\ UNCHANGED daqRest

\* The socket can take one more message now.
PipeHasRoom == pulling /\ Len(pipe) < HWM

\* Mutant: a send that waits for room.
Send_Blocking ==
  /\ thr = "send"
  /\ PipeHasRoom
  /\ pipe' = Append(pipe, [idx |-> iTrig, cfg |-> daq])
  /\ msg' = 0
  /\ iTrig' = NextInt(iTrig)
  /\ late' = IF stop THEN late + 1 ELSE 0
  /\ thr' = "loop"
  /\ UNCHANGED <<stop, daq, ltc, pulling, asked>>

\* data_socket_.send(dontwait), its result ignored: without a peer, or with a
\* full pipe, it returns EAGAIN and the event is lost.  Then ++iTrig.
Send ==
  /\ thr = "send"
  /\ pipe' = IF PipeHasRoom THEN Append(pipe, [idx |-> iTrig, cfg |-> daq])
                            ELSE pipe
  /\ msg' = 0
  /\ iTrig' = NextInt(iTrig)
  /\ late' = IF stop THEN late + 1 ELSE 0
  /\ thr' = "loop"
  /\ UNCHANGED <<stop, daq, ltc, pulling, asked>>

\* setMode(0) when summing, the FIFO counters, enableRead(false), return: the
\* loop variable is gone, and so is the history of the run.
Post ==
  /\ thr = "post"
  /\ thr' = "done"
  /\ iTrig' = 0
  /\ asked' = FALSE
  /\ late' = 0
  /\ UNCHANGED <<stop, daq, ltc, msg, pulling, pipe>>

ThreadStep ==
  \/ Enter \/ LoopEnd \/ SeeStop \/ ClearStop \/ LoopBody
  \/ Acquire \/ Read \/ Send \/ Post

-----------------------------------------------------------------------------
(* The other end of the data socket (a PULL peer, outside the server).     *)

PullAttach ==
  /\ DataClients
  /\ ~pulling
  /\ pulling' = TRUE
  /\ UNCHANGED <<thr, stop, iTrig, daq, ltc, msg, pipe, asked, late>>

\* The peer goes away: libzmq destroys its pipe with what it holds.
PullDetach ==
  /\ pulling \/ pipe # <<>>
  /\ pulling' = FALSE
  /\ pipe' = <<>>
  /\ UNCHANGED <<thr, stop, iTrig, daq, ltc, msg, asked, late>>

PullRecv ==
  /\ pipe # <<>>
  /\ pipe' = Tail(pipe)
  /\ UNCHANGED <<thr, stop, iTrig, daq, ltc, msg, pulling, asked, late>>

PullStep == PullAttach \/ PullDetach \/ PullRecv

-----------------------------------------------------------------------------
(* Properties of the object.                                               *)

\* What LTC2333::read copies always fits, exactly, the message the loop
\* allocated, although the two sizes are kept in different objects and set by
\* different calls: data.data() (server.cpp:107,116,154,159) is never overrun.
CopyFitsMessage == thr = "read" => CopyWords(ltc) = msg

\* A stop ends the run before a second further event: once stop_ is set, at
\* most the event already under way is sent (server.cpp:98-105).
StopWithinOneEvent == late <= 1

\* A stop ends the run that it finds, endless or not, and no data client,
\* however slow or dead, can prevent that (server.cpp:100-118), when the board
\* delivers the event under way.
StopEndsRun == (stop /\ thr \in Running) ~> thr \notin Running

\* "don't configure until ongoing run is finished" (server.cpp:264): neither
\* the thread's settings nor the driver's change under a running thread.
ConfigFixedInRun == [][(thr \in Running /\ thr' \in Running) => (daq' = daq /\ ltc' = ltc)]_daqVars

\* A run is cut short only by a stop requested while it was running, so that
\* a start takes data as DAQCtrl.h:126 has it.
CutOnlyByOwnStop == thr = "clear" => asked

-----------------------------------------------------------------------------
(* What every state of the object satisfies by itself, and the properties  *)
(* above follow from: the parts of its inductive invariant.                *)

\* The message being filled was allocated for the present settings.
RoomAllocated == thr \in {"acquire", "read"} => msg = MessageWords(daq)

\* An event is late only until the loop tests stop_ again.
LateOnlyBeforeTest ==
  /\ StopWithinOneEvent
  /\ late # 0 => thr = "post" \/ (thr \in {"loop", "clear"} /\ stop)

\* A run starts at 0; the loop variable of a finite one never passes
\* num_triggers_, and lies below it once the loop condition has been tested.
LoopInBounds ==
  /\ thr \in {"none", "done", "enter"} => iTrig = 0
  /\ daq.ntrig >= 0 => /\ thr = "loop" => iTrig <= daq.ntrig
                       /\ thr \in {"clear", "acquire", "read", "send"}
                            => iTrig < daq.ntrig

\* Nobody resets stop_ between the thread's test and its own reset.
ClearSeesStop == thr = "clear" => stop

DAQInv == RoomAllocated /\ LateOnlyBeforeTest /\ LoopInBounds /\ ClearSeesStop
=============================================================================
