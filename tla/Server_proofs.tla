---------------------------- MODULE Server_proofs ----------------------------
(***************************************************************************)
(* Theorems about the server for every set of chips, peers, payloads and   *)
(* every width of int: type correctness, and the safety properties of the  *)
(* runs that follow from one inductive invariant, and the refinement of    *)
(* RunControl.                                                             *)
(***************************************************************************)
EXTENDS Server, DAQThread_proofs

-----------------------------------------------------------------------------
(* Lemmas about the operators.                                             *)

\* parse_config keeps the settings well typed, whichever keys are present.
LEMMA ParseType ==
  ASSUME settings \in Settings, NEW c \in Payloads
  PROVE  parse_config(c) \in Settings
BY PayloadsAssumption DEF parse_config, Settings

\* The settings the constructor leaves are settings.
LEMMA BootTypes == \A junk \in Junk : BootSettings(junk) \in Settings
BY BootAssumption, JunkAssumption DEF BootSettings, Settings

-----------------------------------------------------------------------------
(* Type correctness.                                                       *)

LEMMA InitType == Init => TypeOK
<1>. SUFFICES ASSUME Init PROVE TypeOK
  OBVIOUS
<1>1. DAQTypeOK
  BY DAQInitInv DEF Init
<1>2. settings \in Settings
  BY BootTypes DEF Init
<1>3. inbox \in [Peers -> Messages]
  BY DEF Init, NoMsg, Message, Messages, Tags
<1>. QED
  BY <1>1, <1>2, <1>3 DEF Init, TypeOK, CtlPoints, CmdTags, DialPoints

\* A step of the server is one of the object's steps, or leaves it alone.
LEMMA NextIsDAQStep ==
  ASSUME settings \in Settings, [Next]_vars
  PROVE  DAQStep
<1>1. CASE UNCHANGED vars
  BY <1>1 DEF vars, DAQStep
<1>2. CASE AcquisitionStep \/ DataPeerStep
  BY <1>2 DEF AcquisitionStep, DataPeerStep, DAQStep
<1>3. CASE HandlerStep
  <2>1. CASE CmdNone \/ CmdUnknown \/ CmdConfig \/ CmdTemp \/ TempConvert
              \/ TempReply \/ CmdBias \/ CmdStartReply
    BY <2>1 DEF CmdNone, CmdUnknown, CmdConfig, CmdTemp, TempConvert,
                TempReply, CmdBias, CmdStartReply, DAQStep
  <2>2. CASE CmdStartJoin \/ CmdStopJoin
    BY <2>2 DEF CmdStartJoin, CmdStopJoin, DAQStep
  <2>3. CASE CmdStartConfigure \/ CmdStartLaunch \/ CmdStop
    BY <2>3 DEF CmdStartConfigure, CmdStartLaunch, CmdStop, DAQStep, Reconfigure
  <2>4. CASE TempThrow
    BY <2>4 DEF TempThrow, Terminate, DAQStep
  <2>. QED
    BY <1>3, <2>1, <2>2, <2>3, <2>4 DEF HandlerStep
<1>4. CASE Restart
  BY <1>4 DEF Restart, DAQStep
<1>5. ASSUME NEW p \in Peers, RecvStep(p) PROVE DAQStep
  BY <1>5 DEF RecvStep, RecvCommand, ConfigApply, ConfigEmpty, ConfigThrow,
              ChannelEmpty, ChannelValid, ChannelInvalid, Terminate, DAQStep
<1>6. ASSUME NEW p \in Peers, PeerStep(p) PROVE DAQStep
  BY <1>6 DEF PeerStep, PeerSend, PeerCall, PeerRaw, PeerSendConfig,
              PeerSendChannel, PeerDone, PeerDie, DAQStep
<1>. QED
  BY <1>1, <1>2, <1>3, <1>4, <1>5, <1>6 DEF Next

\* The control thread and its settings.
CtlType ==
  ctl \in CtlPoints /\ rep \in Peers \cup {NoPeer} /\ settings \in Settings

\* The peers and their connections.
PeerType ==
  /\ inbox \in [Peers -> Messages]
  /\ outbox \in [Peers -> Replies \cup {"none"}]
  /\ dial \in [Peers -> DialPoints]

LEMMA MessageTypes ==
  /\ NoMsg \in Messages
  /\ \A t \in Tags : Message(t) \in Messages
  /\ \A c \in Payloads : [tag |-> "yaml", val |-> c] \in Messages
BY DEF NoMsg, Message, Messages, Tags

LEMMA ReplyType ==
  ASSUME PeerType, NEW m \in Replies, Reply(m)
  PROVE  PeerType' /\ rep' = NoPeer /\ settings' = settings
BY DEF PeerType, Reply

LEMMA ReplyToType ==
  ASSUME PeerType, NEW p \in Peers, NEW m \in Replies, ReplyTo(p, m)
  PROVE  PeerType' /\ rep' = NoPeer
BY MessageTypes DEF PeerType, ReplyTo

LEMMA TerminateType ==
  ASSUME PeerType, Terminate
  PROVE  PeerType' /\ CtlType'
<1>1. settings' \in Settings
  BY BootTypes DEF Terminate
<1>2. PeerType'
  BY MessageTypes DEF PeerType, Terminate
<1>. QED
  BY <1>1, <1>2 DEF CtlType, CtlPoints, Terminate

\* The control thread by itself: every handler replies with a reply.
LEMMA HandlerTypes ==
  ASSUME CtlType, PeerType, HandlerStep
  PROVE  CtlType' /\ PeerType'
<1>. USE DEF CtlPoints, CmdTags
<1>1. CASE \/ CmdNone \/ CmdUnknown \/ CmdStartReply
           \/ CmdStopJoin \/ CmdConfig \/ CmdTemp \/ TempReply \/ CmdBias
  <2>1. PICK m \in Replies : Reply(m)
    BY <1>1 DEF CmdNone, CmdUnknown, CmdStartReply, CmdStopJoin, CmdConfig,
                CmdTemp, TempReply, CmdBias, Replies
  <2>2. PeerType' /\ rep' = NoPeer /\ settings' = settings
    BY <2>1, ReplyType
  <2>3. ctl' \in {"recv", "config.recv", "temp.recv"}
    BY <1>1 DEF CmdNone, CmdUnknown, CmdStartReply, CmdStopJoin, CmdConfig,
                CmdTemp, TempReply, CmdBias
  <2>. QED
    BY <2>2, <2>3 DEF CtlType
<1>2. CASE \/ CmdStartJoin \/ CmdStartConfigure \/ CmdStartLaunch
           \/ CmdStop \/ TempConvert
  BY <1>2 DEF CmdStartJoin, CmdStartConfigure, CmdStartLaunch, CmdStop,
              TempConvert, CtlType, PeerType, peerVars
<1>3. CASE TempThrow
  BY <1>3, TerminateType DEF TempThrow
<1>. QED
  BY <1>1, <1>2, <1>3 DEF HandlerStep

\* The control thread with the message of a peer.
LEMMA RecvTypes ==
  ASSUME CtlType, PeerType, NEW p \in Peers, RecvStep(p)
  PROVE  CtlType' /\ PeerType'
<1>. USE DEF CtlPoints, CmdTags
<1>1. CASE RecvCommand(p)
  <2>1. Handler(inbox[p]) \in CtlPoints
    BY DEF Handler
  <2>2. PeerType'
    BY <1>1, MessageTypes DEF RecvCommand, PeerType
  <2>. QED
    BY <1>1, <2>1, <2>2 DEF RecvCommand, CtlType
<1>2. CASE ConfigApply(p)
  <2>1. inbox[p].val \in Payloads
    BY <1>2 DEF ConfigApply, PeerType, Messages, Tags, Channels
  <2>2. settings' \in Settings
    BY <1>2, <2>1, ParseType DEF ConfigApply, CtlType
  <2>3. ReplyTo(p, "Configured") /\ "Configured" \in Replies
    BY <1>2 DEF ConfigApply, Replies
  <2>4. PeerType' /\ rep' = NoPeer
    BY <2>3, ReplyToType
  <2>. QED
    BY <1>2, <2>2, <2>4 DEF ConfigApply, CtlType
<1>3. CASE ConfigEmpty(p) \/ ChannelEmpty(p) \/ ChannelInvalid(p)
  <2>1. PICK m \in Replies : ReplyTo(p, m)
    BY <1>3 DEF ConfigEmpty, ChannelEmpty, ChannelInvalid, Replies
  <2>2. PeerType' /\ rep' = NoPeer
    BY <2>1, ReplyToType
  <2>. QED
    BY <1>3, <2>2 DEF ConfigEmpty, ChannelEmpty, ChannelInvalid, CtlType
<1>4. CASE ConfigThrow(p)
  BY <1>4, TerminateType DEF ConfigThrow
<1>5. CASE ChannelValid(p)
  BY <1>5, MessageTypes DEF ChannelValid, CtlType, PeerType
<1>. QED
  BY <1>1, <1>2, <1>3, <1>4, <1>5 DEF RecvStep

\* The peers.
LEMMA PeerStepTypes ==
  ASSUME PeerType, NEW p \in Peers, PeerStep(p)
  PROVE  PeerType' /\ UNCHANGED ctlVars
<1>. USE DEF DialPoints
<1>1. ASSUME NEW m \in Messages, NEW d \in DialPoints, PeerSend(p, m, d)
      PROVE  PeerType' /\ UNCHANGED ctlVars
  BY <1>1 DEF PeerSend, PeerType
<1>2. ASSUME NEW c \in CmdTags, PeerCall(p, c)
      PROVE  PeerType' /\ UNCHANGED ctlVars
  BY <1>1, <1>2, MessageTypes DEF PeerCall, Tags
<1>3. ASSUME NEW t \in RawMessages, PeerRaw(p, t)
      PROVE  PeerType' /\ UNCHANGED ctlVars
  BY <1>1, <1>3, MessageTypes, RawAssumption DEF PeerRaw
<1>4. ASSUME NEW c \in Payloads, PeerSendConfig(p, c)
      PROVE  PeerType' /\ UNCHANGED ctlVars
  BY <1>1, <1>4, MessageTypes DEF PeerSendConfig
<1>5. ASSUME NEW ch \in Channels, PeerSendChannel(p, ch)
      PROVE  PeerType' /\ UNCHANGED ctlVars
  BY <1>1, <1>5, MessageTypes DEF PeerSendChannel, Tags
<1>6. CASE PeerDone(p) \/ PeerDie(p)
  BY <1>6 DEF PeerDone, PeerDie, PeerType
<1>. QED
  BY <1>2, <1>3, <1>4, <1>5, <1>6 DEF PeerStep

\* Every step keeps the types.
LEMMA TypeStep == TypeOK /\ [Next]_vars => TypeOK'
<1>. SUFFICES ASSUME TypeOK, [Next]_vars PROVE TypeOK'
  OBVIOUS
<1>1. DAQTypeOK /\ CtlType /\ PeerType
  BY DEF TypeOK, CtlType, PeerType
<1>2. DAQTypeOK'
  BY <1>1, NextIsDAQStep, DAQStepType DEF CtlType
<1>3. CtlType' /\ PeerType'
  <2>1. CASE AcquisitionStep \/ DataPeerStep \/ UNCHANGED vars
    BY <1>1, <2>1 DEF AcquisitionStep, DataPeerStep, vars, ctlVars, peerVars,
                      CtlType, PeerType
  <2>2. CASE HandlerStep
    BY <1>1, <2>2, HandlerTypes
  <2>3. CASE Restart
    BY <1>1, <2>3 DEF Restart, peerVars, CtlType, PeerType, CtlPoints
  <2>4. ASSUME NEW p \in Peers, RecvStep(p) PROVE CtlType' /\ PeerType'
    BY <1>1, <2>4, RecvTypes
  <2>5. ASSUME NEW p \in Peers, PeerStep(p) PROVE CtlType' /\ PeerType'
    BY <1>1, <2>5, PeerStepTypes DEF ctlVars, CtlType
  <2>. QED
    BY <2>1, <2>2, <2>3, <2>4, <2>5 DEF Next
<1>. QED
  BY <1>2, <1>3 DEF TypeOK, CtlType, PeerType

\* The variables always have their types, for any chips, peers, payloads and
\* int width: what no handler of server.cpp (211-391) can spoil.
THEOREM TypeCorrect == Spec => []TypeOK
<1>1. Init => TypeOK
  BY InitType
<1>2. TypeOK /\ [Next]_vars => TypeOK'
  BY TypeStep
<1>. QED
  BY <1>1, <1>2, PTL DEF Spec

-----------------------------------------------------------------------------
(* The inductive invariant.                                                *)

LEMMA InitIInv == Init => IInv
<1>. SUFFICES ASSUME Init PROVE IInv
  OBVIOUS
<1>1. DAQInv
  BY DAQInitInv DEF Init
<1>. QED
  BY <1>1, InitType
     DEF Init, DAQInit, IInv, JoinedForStart, DriverAgrees, NothingOwed, Running


\* cmd_start's calls: nobody launches a thread between them.
LEMMA JoinedStep == JoinedForStart /\ [Next]_vars => JoinedForStart'
<1>. SUFFICES ASSUME JoinedForStart, [Next]_vars PROVE JoinedForStart'
  OBVIOUS
<1>. USE DEF JoinedForStart
<1>1. CASE AcquisitionStep
  BY <1>1 DEF AcquisitionStep, ctlVars, ThreadStep, Enter, LoopEnd, SeeStop,
              ClearStop, LoopBody, Acquire, Read, Send, Post
<1>2. CASE DataPeerStep
  BY <1>2 DEF DataPeerStep, ctlVars, PullStep, PullAttach, PullDetach, PullRecv
<1>3. CASE HandlerStep
  BY <1>3 DEF HandlerStep, CmdNone, CmdUnknown, CmdStartJoin, CmdStartConfigure,
              CmdStartLaunch, CmdStartReply, CmdStop, CmdStopJoin, CmdConfig,
              CmdTemp, TempConvert, TempReply, TempThrow, CmdBias, Terminate,
              configure, join_daq_thread
<1>4. CASE Restart \/ UNCHANGED vars
  BY <1>4 DEF Restart, vars, ctlVars, daqVars
<1>5. ASSUME NEW p \in Peers, RecvStep(p) PROVE JoinedForStart'
  BY <1>5 DEF RecvStep, RecvCommand, Handler, CmdTags, ConfigApply, ConfigEmpty,
              ConfigThrow, ChannelEmpty, ChannelValid, ChannelInvalid, Terminate
<1>6. ASSUME NEW p \in Peers, PeerStep(p) PROVE JoinedForStart'
  BY <1>6 DEF PeerStep, PeerSend, PeerCall, PeerRaw, PeerSendConfig,
              PeerSendChannel, PeerDone, PeerDie, ctlVars, daqVars
<1>. QED
  BY <1>1, <1>2, <1>3, <1>4, <1>5, <1>6 DEF Next

\* configure gives the driver and the thread the same numbers; the thread runs
\* with them because no step from there to its end sets either.
LEMMA DriverStep ==
  ASSUME TypeOK, JoinedForStart, DriverAgrees, [Next]_vars
  PROVE  DriverAgrees'
<1>. USE DEF DriverAgrees
<1>1. CASE AcquisitionStep
  BY <1>1 DEF AcquisitionStep, ctlVars, ThreadStep, Enter, LoopEnd, SeeStop,
              ClearStop, LoopBody, Acquire, Read, Send, Post, Running, daqRest
<1>2. CASE DataPeerStep
  BY <1>2 DEF DataPeerStep, ctlVars, PullStep, PullAttach, PullDetach, PullRecv
<1>3. CASE CmdStartConfigure
  BY <1>3 DEF CmdStartConfigure, configure
<1>4. CASE HandlerStep /\ ~CmdStartConfigure
  BY <1>4 DEF HandlerStep, CmdNone, CmdUnknown, CmdStartJoin, CmdStartLaunch,
              CmdStartReply, CmdStop, CmdStopJoin, CmdConfig, CmdTemp,
              TempConvert, TempReply, TempThrow, CmdBias, Terminate, DAQReset,
              join_daq_thread, start_daq_thread, stop_daq_thread, daqRest,
              daqVars, Running
<1>5. CASE Restart \/ UNCHANGED vars
  BY <1>5 DEF Restart, vars, ctlVars, daqVars
<1>6. ASSUME NEW p \in Peers, RecvStep(p) PROVE DriverAgrees'
  BY <1>6 DEF RecvStep, RecvCommand, Handler, CmdTags, ConfigApply, ConfigEmpty,
              ConfigThrow, ChannelEmpty, ChannelValid, ChannelInvalid, Terminate,
              DAQReset, daqVars, Running
<1>7. ASSUME NEW p \in Peers, PeerStep(p) PROVE DriverAgrees'
  BY <1>7 DEF PeerStep, PeerSend, PeerCall, PeerRaw, PeerSendConfig,
              PeerSendChannel, PeerDone, PeerDie, ctlVars, daqVars
<1>. QED
  BY <1>1, <1>2, <1>3, <1>4, <1>5, <1>6, <1>7 DEF Next

\* The control thread returns to recv only after a reply.
LEMMA OwedStep == NothingOwed /\ [Next]_vars => NothingOwed'
<1>. SUFFICES ASSUME NothingOwed, [Next]_vars PROVE NothingOwed'
  OBVIOUS
<1>. USE DEF NothingOwed
<1>1. CASE AcquisitionStep \/ DataPeerStep \/ Restart \/ UNCHANGED vars
  BY <1>1 DEF AcquisitionStep, DataPeerStep, Restart, vars, ctlVars
<1>2. CASE HandlerStep
  BY <1>2 DEF HandlerStep, CmdNone, CmdUnknown, CmdStartJoin, CmdStartConfigure,
              CmdStartLaunch, CmdStartReply, CmdStop, CmdStopJoin, CmdConfig,
              CmdTemp, TempConvert, TempReply, TempThrow, CmdBias, Terminate,
              Reply
<1>3. ASSUME NEW p \in Peers, RecvStep(p) PROVE NothingOwed'
  BY <1>3 DEF RecvStep, RecvCommand, Handler, CmdTags, ConfigApply, ConfigEmpty,
              ConfigThrow, ChannelEmpty, ChannelValid, ChannelInvalid, ReplyTo,
              Terminate
<1>4. ASSUME NEW p \in Peers, PeerStep(p) PROVE NothingOwed'
  BY <1>4 DEF PeerStep, PeerSend, PeerCall, PeerRaw, PeerSendConfig,
              PeerSendChannel, PeerDone, PeerDie, ctlVars
<1>. QED
  BY <1>1, <1>2, <1>3, <1>4 DEF Next

LEMMA IInvStep == IInv /\ [Next]_vars => IInv'
<1>. SUFFICES ASSUME IInv, [Next]_vars PROVE IInv'
  OBVIOUS
<1>1. DAQStep
  BY NextIsDAQStep DEF IInv, TypeOK
<1>2. DAQInv'
  BY <1>1, DAQInvStep DEF IInv, TypeOK
<1>3. TypeOK' /\ JoinedForStart' /\ DriverAgrees' /\ NothingOwed'
  BY TypeStep, JoinedStep, DriverStep, OwedStep DEF IInv
<1>. QED
  BY <1>2, <1>3 DEF IInv

\* The conjunction the properties below follow from holds in every state.
THEOREM Inductive == Spec => []IInv
<1>. QED
  BY InitIInv, IInvStep, PTL DEF Spec

-----------------------------------------------------------------------------
(* What follows from it.                                                   *)

\* Every copy of LTC2333::read (LTC2333.cpp:137) has exactly the room of the
\* message the loop allocated (server.cpp:107, 154).
THEOREM CopyFits == Spec => []CopyFitsMessage
<1>1. IInv => CopyFitsMessage
  <2>. SUFFICES ASSUME IInv PROVE CopyFitsMessage
    OBVIOUS
  <2>1. thr = "read" => SameNumbers
    BY DEF IInv, DriverAgrees, SameNumbers, Running
  <2>. QED
    BY <2>1, CopyFitsRoom DEF IInv, TypeOK, DAQInv
<1>. QED
  BY <1>1, Inductive, PTL

\* No run sends a second event once stop_ is set (server.cpp:98-119, 145-163).
THEOREM StopsInTime == Spec => []StopWithinOneEvent
<1>1. IInv => StopWithinOneEvent
  BY DEF IInv, DAQInv, LateOnlyBeforeTest
<1>. QED
  BY <1>1, Inductive, PTL

\* Whatever peers send and whenever they die, the control thread never waits
\* for a request while it owes a reply (server.cpp:211-391).
THEOREM Alternation == Spec => []RepliesBeforeRecv
<1>1. IInv => RepliesBeforeRecv
  BY DEF IInv, NothingOwed, RepliesBeforeRecv
<1>. QED
  BY <1>1, Inductive, PTL

\* No command, of any peer, configures a running thread (server.cpp:265-266).
THEOREM ConfigFixed == Spec => ConfigFixedInRun
<1>1. IInv /\ [Next]_vars =>
        [(thr \in Running /\ thr' \in Running) => (daq' = daq /\ ltc' = ltc)]_daqVars
  BY NextIsDAQStep, ConfigStays DEF IInv, TypeOK
<1>. QED
  BY <1>1, Inductive, PTL DEF Spec, ConfigFixedInRun

-----------------------------------------------------------------------------
(* The server implements RunControl, for every value of the constants: each*)
(* step of its threads is, seen through RunPhase, EventsLeft and stop_, a  *)
(* step of the abstract run or leaves it alone.                            *)

\* The abstract run's fourth component, under a name.
InFlight == thr \in {"acquire", "read", "send"}

\* The four components have these names in what follows.
LEMMA RunVars ==
  Run!rcVars = <<RunPhase, EventsLeft, InFlight, stop>>
BY DEF Run!rcVars, InFlight

\* EventsLeft, case by case, before and after a step.
LeftCases ==
  /\ thr \in {"none", "done", "post"} => EventsLeft = 0
  /\ thr \in {"enter", "loop", "clear", "acquire", "read", "send"} =>
       /\ daq.ntrig < 0 => EventsLeft = -1
       /\ ~(daq.ntrig < 0) => EventsLeft = daq.ntrig - iTrig

\* RunPhase, likewise.
PhaseCases ==
  /\ thr \in {"none", "done"} => RunPhase = "idle"
  /\ thr = "post" => RunPhase = "ending"
  /\ thr \in {"enter", "loop", "clear", "acquire", "read", "send"} =>
       RunPhase = "running"

LEMMA Cases == LeftCases /\ PhaseCases /\ LeftCases' /\ PhaseCases'
<1>1. LeftCases
  BY DEF LeftCases, EventsLeft
<1>2. PhaseCases
  BY DEF PhaseCases, RunPhase
<1>3. LeftCases'
  BY DEF LeftCases, EventsLeft
<1>4. PhaseCases'
  BY DEF PhaseCases, RunPhase
<1>. QED
  BY <1>1, <1>2, <1>3, <1>4

LEMMA RefinesInit == Init => Run!Init
BY Cases DEF Init, DAQInit, Run!Init, LeftCases, PhaseCases

\* The acquisition thread.
LEMMA RefinesThread ==
  ASSUME IInv, ThreadStep
  PROVE  [Run!Next]_(Run!rcVars)
<1>. USE Cases DEF LeftCases, PhaseCases
<1>0. /\ iTrig \in Int /\ daq.ntrig \in Int /\ iTrig \in Int32
      /\ daq.ntrig \in Int32 /\ stop \in BOOLEAN
  BY IntMaxAssumption DEF IInv, TypeOK, DAQTypeOK, Members, Int32
<1>1. CASE Enter
  <2>1. RunPhase' = RunPhase /\ EventsLeft' = EventsLeft /\ stop' = stop
    BY <1>0, <1>1 DEF Enter, IInv, DAQInv, LoopInBounds
  <2>. QED
    BY <1>1, <2>1 DEF Enter, Run!rcVars
<1>2. CASE LoopEnd
  <2>1. EventsLeft = 0 /\ EventsLeft' = 0
    BY <1>0, <1>2 DEF LoopEnd, MoreTriggers, IInv, DAQInv, LoopInBounds
  <2>2. Run!Expire
    BY <1>2, <2>1 DEF LoopEnd, Run!Expire, daqRest
  <2>. QED
    BY <2>2 DEF Run!Next
<1>3. CASE SeeStop
  <2>1. RunPhase' = RunPhase /\ EventsLeft' = EventsLeft /\ stop' = stop
    BY <1>0, <1>3 DEF SeeStop, daqRest
  <2>. QED
    BY <1>3, <2>1 DEF SeeStop, Run!rcVars
<1>4. CASE ClearStop
  <2>1. EventsLeft # 0 /\ EventsLeft' = 0 /\ stop
    BY <1>0, <1>4 DEF ClearStop, IInv, DAQInv, LoopInBounds, ClearSeesStop
  <2>2. Run!Cut
    BY <1>4, <2>1 DEF ClearStop, Run!Cut
  <2>. QED
    BY <2>2 DEF Run!Next
<1>5. CASE LoopBody
  <2>1. EventsLeft # 0 /\ EventsLeft' = EventsLeft
    BY <1>0, <1>5 DEF LoopBody, MoreTriggers
  <2>2. Run!Commit
    BY <1>5, <2>1 DEF LoopBody, Run!Commit
  <2>. QED
    BY <2>2 DEF Run!Next
<1>6. CASE Acquire \/ Read
  <2>1. RunPhase' = RunPhase /\ EventsLeft' = EventsLeft /\ stop' = stop
    BY <1>0, <1>6 DEF Acquire, Read, daqRest
  <2>. QED
    BY <1>6, <2>1 DEF Acquire, Read, Run!rcVars
<1>7. CASE Send
  <2>1. ~(daq.ntrig < 0) => iTrig' = iTrig + 1 /\ iTrig < daq.ntrig
    BY <1>0, <1>7, NextIntBelow DEF Send, IInv, DAQInv, LoopInBounds
  <2>2. EventsLeft' = IF EventsLeft = -1 THEN -1 ELSE EventsLeft - 1
    <3>1. thr = "send" /\ thr' = "loop" /\ daq' = daq
      BY <1>7 DEF Send
    <3>2. CASE daq.ntrig < 0
      BY <3>1, <3>2
    <3>3. CASE ~(daq.ntrig < 0)
      <4>1. EventsLeft = daq.ntrig - iTrig /\ EventsLeft' = daq.ntrig - iTrig'
        BY <3>1, <3>3
      <4>. QED
        BY <1>0, <2>1, <3>3, <4>1
    <3>. QED
      BY <3>2, <3>3
  <2>3. Run!Deliver
    BY <1>7, <2>2 DEF Send, Run!Deliver, Run!Endless
  <2>. QED
    BY <2>3 DEF Run!Next
<1>8. CASE Post
  <2>1. EventsLeft' = 0 /\ EventsLeft = 0
    BY <1>8 DEF Post
  <2>2. Run!Close
    BY <1>8, <2>1 DEF Post, Run!Close
  <2>. QED
    BY <2>2 DEF Run!Next
<1>. QED
  BY <1>1, <1>2, <1>3, <1>4, <1>5, <1>6, <1>7, <1>8 DEF ThreadStep, IInv

\* The methods the control thread calls, the data peer, and the other steps.
LEMMA RefinesMethods ==
  ASSUME IInv, DAQStep, ~ThreadStep
  PROVE  [Run!Next]_(Run!rcVars)
<1>. USE Cases DEF LeftCases, PhaseCases
<1>1. CASE start_daq_thread
  <2>1. EventsLeft' \in Nat \cup {-1}
    BY <1>1, IntMaxAssumption
       DEF start_daq_thread, JoinReturns, daqRest, IInv, TypeOK, DAQTypeOK,
           Members, Int32, DAQInv, LoopInBounds
  <2>2. Run!Begin
    BY <1>1, <2>1
       DEF start_daq_thread, JoinReturns, daqRest, Run!Begin, Run!Endless
  <2>. QED
    BY <2>2 DEF Run!Next
<1>2. CASE stop_daq_thread
  <2>1. RunPhase' = RunPhase /\ EventsLeft' = EventsLeft
    BY <1>2 DEF stop_daq_thread, RunPhase, EventsLeft
  <2>2. Run!Request
    BY <1>2, <2>1 DEF stop_daq_thread, Run!Request
  <2>. QED
    BY <2>2 DEF Run!Next
<1>3. CASE DAQReset
  <2>1. Run!Abort
    BY <1>3 DEF DAQReset, Run!Abort
  <2>. QED
    BY <2>1 DEF Run!Next
<1>4. CASE (join_daq_thread /\ UNCHANGED daqRest) \/ Reconfigure
  <2>1. thr \in {"none", "done"} /\ thr' = "none" /\ stop' = stop
    BY <1>4 DEF join_daq_thread, JoinReturns, Reconfigure, configure, daqRest
  <2>. QED
    BY <2>1 DEF Run!rcVars
<1>5. CASE PullStep \/ UNCHANGED daqVars
  <2>1. UNCHANGED <<thr, stop, iTrig, daq>>
    BY <1>5 DEF PullStep, PullAttach, PullDetach, PullRecv, daqVars
  <2>. QED
    BY <2>1 DEF Run!rcVars, RunPhase, EventsLeft
<1>. QED
  BY <1>1, <1>2, <1>3, <1>4, <1>5 DEF DAQStep

\* The server implements the abstract run: a request is consumed by one run,
\* a finite run delivers its number of events and none after a request
\* (server.cpp:81-173, 262-283).
THEOREM RunRefinement == Spec => ImplementsRunControl
<1>1. IInv /\ [Next]_vars => [Run!Next]_(Run!rcVars)
  BY NextIsDAQStep, RefinesThread, RefinesMethods DEF IInv, TypeOK
<1>. QED
  BY <1>1, RefinesInit, Inductive, PTL DEF Spec, ImplementsRunControl, Run!Safety
=============================================================================
