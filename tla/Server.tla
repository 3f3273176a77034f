------------------------------- MODULE Server --------------------------------
(***************************************************************************)
(* The server process: the class Ctrl_Thread of server/src/server.cpp and  *)
(* main's command loop, composed with the DAQ_Thread it owns.  The control *)
(* thread reads commands from a REP socket, calls the methods of DAQ_Thread*)
(* and replies; the acquisition thread runs beside it.                     *)
(*                                                                         *)
(* Clients are peers with a REQ socket: one request outstanding each, so   *)
(* the connection of a peer holds at most one message in either direction. *)
(* A peer follows the member functions of client/include/DAQCtrl.h, in any *)
(* order, and may die at any point; RawMessages lets it be some other      *)
(* program that sends what DAQCtrl never does.                             *)
(***************************************************************************)
EXTENDS DAQThread

CONSTANTS
  Peers,        \* the REQ peers that ever connect
  NoPeer,       \* no peer
  MortalPeers,  \* the peers that may die
  Payloads,     \* the configurations peers send: records of some settings
  Junk,         \* what num_sum_ may hold before a configuration sets it
  RawMessages,  \* tags of the messages of peers that are not DAQCtrl
  NoVal         \* no payload

CmdTags  == {"start", "stop", "config", "temp", "bias"}
Channels == {"1", "2"}
Tags     == CmdTags \cup Channels \cup {"3", "other", "empty", "none"}

ASSUME PeersAssumption == NoPeer \notin Peers /\ MortalPeers \subseteq Peers
ASSUME JunkAssumption  == Junk \subseteq Nat /\ Junk # {}
ASSUME RawAssumption   == RawMessages \subseteq Tags \ {"none"}
ASSUME PayloadsAssumption ==
  \A c \in Payloads :
    /\ "mask"  \in DOMAIN c => c.mask \in SUBSET Chips
    /\ "reads" \in DOMAIN c => c.reads \in Nat
    /\ "ntrig" \in DOMAIN c => c.ntrig \in Int32
    /\ "nsum"  \in DOMAIN c => c.nsum \in Nat

VARIABLES
  ctl,       \* where the control thread is ("down": the process has died)
  rep,       \* the peer whose request the REP socket owes a reply to
  settings,  \* the settings members of Ctrl_Thread
  inbox,     \* per peer: its request that the server has not received
  outbox,    \* per peer: the reply it has not received
  dial       \* per peer: the request it waits for a reply to

ctlVars  == <<ctl, rep, settings>>
peerVars == <<inbox, outbox, dial>>
vars     == <<daqVars, ctlVars, peerVars>>

Message(t) == [tag |-> t, val |-> NoVal]
NoMsg      == Message("none")
Messages   == [tag: Tags, val: {NoVal}] \cup [tag: {"yaml"}, val: Payloads]
Replies    == {"Runing", "Stopped", "Ready", "Configured", "Volts", "Nocmd",
               "Unknowncmd", "Nocfg", "Nochan", "Error"}
CtlPoints  == CmdTags \cup
  {"recv", "nocmd", "unknown", "start.conf", "start.run", "start.reply",
   "stop.join", "config.recv", "temp.recv", "temp.conv", "temp.reply", "down"}
DialPoints == CmdTags \cup {"free", "dead", "yaml", "channel", "raw"}

TypeOK ==
  /\ DAQTypeOK
  /\ ctl \in CtlPoints
  /\ rep \in Peers \cup {NoPeer}
  /\ settings \in Settings
  /\ inbox \in [Peers -> Messages]
  /\ outbox \in [Peers -> Replies \cup {"none"}]
  /\ dial \in [Peers -> DialPoints]

\* What Ctrl_Thread's constructor leaves in the settings: it does not set
\* num_sum_, which then holds whatever was in memory.
BootSettings(junk) ==
  [mask |-> Chips, reads |-> BootReads, ntrig |-> BootTriggers, nsum |-> junk]

Init ==
  /\ DAQInit
  /\ ctl = "recv"
  /\ rep = NoPeer
  /\ \E junk \in Junk : settings = BootSettings(junk)
  /\ inbox = [p \in Peers |-> NoMsg]
  /\ outbox = [p \in Peers |-> "none"]
  /\ dial = [p \in Peers |-> "free"]

Arrived(p) == inbox[p].tag # "none"

\* control_socket_.send: the reply goes to the peer of the last request, if
\* it still exists, and the socket turns to receiving.
Reply(m) ==
  /\ rep' = NoPeer
  /\ outbox' = [p \in Peers |->
                  IF p = rep /\ dial[p] # "dead" THEN m ELSE outbox[p]]
  /\ UNCHANGED <<settings, inbox, dial>>

\* A handler that waits for a second message receives and answers it.
ReplyTo(p, m) ==
  /\ rep' = NoPeer
  /\ inbox' = [inbox EXCEPT ![p] = NoMsg]
  /\ outbox' = [outbox EXCEPT ![p] = IF dial[p] = "dead" THEN @ ELSE m]
  /\ UNCHANGED dial

\* An exception leaves main: the process aborts and every connection breaks.
\* Of the messages under way some are lost, those still at their sender wait
\* there for the next process.
Terminate ==
  /\ ctl' = "down"
  /\ rep' = NoPeer
  /\ \E junk \in Junk : settings' = BootSettings(junk)
  /\ \E cut \in SUBSET Peers :
       /\ inbox' = [p \in Peers |-> IF p \in cut THEN NoMsg ELSE inbox[p]]
       /\ outbox' = [p \in Peers |-> IF p \in cut THEN "none" ELSE outbox[p]]
  /\ DAQReset
  /\ UNCHANGED dial

\* systemd starts the server again (Restart=on-failure, RestartSec=5).
Restart ==
  /\ ctl = "down"
  /\ ctl' = "recv"
  /\ UNCHANGED <<daqVars, rep, settings, peerVars>>

-----------------------------------------------------------------------------
(* recieveCommand and the handlers of cmdMap_.                             *)

\* The handler recieveCommand chooses for a message.
Handler(m) ==
  CASE m.tag = "empty" -> "nocmd"
    [] m.tag \in CmdTags -> m.tag
    [] OTHER -> "unknown"

RecvCommand(p) ==
  /\ ctl = "recv"
  /\ Arrived(p)
  /\ rep' = p
  /\ ctl' = Handler(inbox[p])
  /\ inbox' = [inbox EXCEPT ![p] = NoMsg]
  /\ UNCHANGED <<daqVars, settings, outbox, dial>>

CmdNone ==
  /\ ctl = "nocmd"
  /\ Reply("Nocmd")
  /\ ctl' = "recv"
  /\ UNCHANGED daqVars

CmdUnknown ==
  /\ ctl = "unknown"
  /\ Reply("Unknowncmd")
  /\ ctl' = "recv"
  /\ UNCHANGED daqVars

\* cmd_start waits here, and serves nobody, while a run goes on.
CmdStartJoin ==
  /\ ctl = "start"
  /\ join_daq_thread
  /\ ctl' = "start.conf"
  /\ UNCHANGED <<daqRest, rep, settings, peerVars>>

CmdStartConfigure ==
  /\ ctl = "start.conf"
  /\ configure(settings)
  /\ ctl' = "start.run"
  /\ UNCHANGED <<rep, settings, peerVars>>

CmdStartLaunch ==
  /\ ctl = "start.run"
  /\ start_daq_thread
  /\ ctl' = "start.reply"
  /\ UNCHANGED <<rep, settings, peerVars>>

CmdStartReply ==
  /\ ctl = "start.reply"
  /\ Reply("Runing")
  /\ ctl' = "recv"
  /\ UNCHANGED daqVars

CmdStop ==
  /\ ctl = "stop"
  /\ stop_daq_thread
  /\ ctl' = "stop.join"
  /\ UNCHANGED <<rep, settings, peerVars>>

\* Mutant: the reply does not wait for the end of the run.
CmdStopJoin_NoJoin ==
  /\ ctl = "stop.join"
  /\ Reply("Stopped")
  /\ ctl' = "recv"
  /\ UNCHANGED daqVars

CmdStopJoin ==
  /\ ctl = "stop.join"
  /\ join_daq_thread
  /\ Reply("Stopped")
  /\ ctl' = "recv"
  /\ UNCHANGED daqRest

\* cmd_config replies before it has the configuration, then waits for the
\* next request of whichever peer.
CmdConfig ==
  /\ ctl = "config"
  /\ Reply("Ready")
  /\ ctl' = "config.recv"
  /\ UNCHANGED daqVars

\* Mutant: the key "num_sum" is never found.
parse_config_NoSum(c) ==
  [mask  |-> IF "mask"  \in DOMAIN c THEN c.mask  ELSE settings.mask,
   reads |-> IF "reads" \in DOMAIN c THEN c.reads ELSE settings.reads,
   ntrig |-> IF "ntrig" \in DOMAIN c THEN c.ntrig ELSE settings.ntrig,
   nsum  |-> settings.nsum]

\* parse_config: the keys the payload has; the others keep their values.
parse_config(c) ==
  [mask  |-> IF "mask"  \in DOMAIN c THEN c.mask  ELSE settings.mask,
   reads |-> IF "reads" \in DOMAIN c THEN c.reads ELSE settings.reads,
   ntrig |-> IF "ntrig" \in DOMAIN c THEN c.ntrig ELSE settings.ntrig,
   nsum  |-> IF "nsum"  \in DOMAIN c THEN c.nsum  ELSE settings.nsum]

ConfigApply(p) ==
  /\ ctl = "config.recv"
  /\ Arrived(p) /\ inbox[p].tag = "yaml"
  /\ settings' = parse_config(inbox[p].val)
  /\ ReplyTo(p, "Configured")
  /\ ctl' = "recv"
  /\ UNCHANGED daqVars

\* Mutant: an early return without a reply.
ConfigEmpty_Silent(p) ==
  /\ ctl = "config.recv"
  /\ Arrived(p) /\ inbox[p].tag = "empty"
  /\ rep' = p
  /\ inbox' = [inbox EXCEPT ![p] = NoMsg]
  /\ ctl' = "recv"
  /\ UNCHANGED <<daqVars, settings, outbox, dial>>

ConfigEmpty(p) ==
  /\ ctl = "config.recv"
  /\ Arrived(p) /\ inbox[p].tag = "empty"
  /\ ReplyTo(p, "Nocfg")
  /\ ctl' = "recv"
  /\ UNCHANGED <<daqVars, settings>>

\* Any other text is a YAML scalar, and subscripting it throws.
ConfigThrow(p) ==
  /\ ctl = "config.recv"
  /\ Arrived(p) /\ inbox[p].tag \notin {"yaml", "empty"}
  /\ Terminate
  /\ inbox'[p] = NoMsg

CmdTemp ==
  /\ ctl = "temp"
  /\ Reply("Ready")
  /\ ctl' = "temp.recv"
  /\ UNCHANGED daqVars

ChannelEmpty(p) ==
  /\ ctl = "temp.recv"
  /\ Arrived(p) /\ inbox[p].tag = "empty"
  /\ ReplyTo(p, "Nochan")
  /\ ctl' = "recv"
  /\ UNCHANGED <<daqVars, settings>>

\* Mutant: the channel is acknowledged before it is converted.
ChannelValid_RepliesTwice(p) ==
  /\ ctl = "temp.recv"
  /\ Arrived(p) /\ inbox[p].tag \in Channels
  /\ ReplyTo(p, "Ready")
  /\ ctl' = "temp.conv"
  /\ UNCHANGED <<daqVars, settings>>

ChannelValid(p) ==
  /\ ctl = "temp.recv"
  /\ Arrived(p) /\ inbox[p].tag \in Channels
  /\ rep' = p
  /\ inbox' = [inbox EXCEPT ![p] = NoMsg]
  /\ ctl' = "temp.conv"
  /\ UNCHANGED <<daqVars, settings, outbox, dial>>

\* An invalid channel is answered, and then converted all the same.
ChannelInvalid(p) ==
  /\ ctl = "temp.recv"
  /\ Arrived(p) /\ inbox[p].tag \notin Channels \cup {"empty"}
  /\ ReplyTo(p, "Error")
  /\ ctl' = "temp.conv"
  /\ UNCHANGED <<daqVars, settings>>

\* Both conversions: write, then read until the sensor is ready.
TempConvert ==
  /\ ctl = "temp.conv"
  /\ ctl' = "temp.reply"
  /\ UNCHANGED <<daqVars, rep, settings, peerVars>>

TempReply ==
  /\ ctl = "temp.reply"
  /\ rep # NoPeer
  /\ Reply("Volts")
  /\ ctl' = "recv"
  /\ UNCHANGED daqVars

\* A REP socket that owes no reply refuses to send: zmq::error_t.
TempThrow ==
  /\ ctl = "temp.reply"
  /\ rep = NoPeer
  /\ Terminate

\* The writes to the bias DACs are in the I2C devices, not in this state.
CmdBias ==
  /\ ctl = "bias"
  /\ Reply("Ready")
  /\ ctl' = "recv"
  /\ UNCHANGED daqVars

\* What the control thread does by itself, once it has a command.
HandlerStep ==
  \/ CmdNone \/ CmdUnknown
  \/ CmdStartJoin \/ CmdStartConfigure \/ CmdStartLaunch \/ CmdStartReply
  \/ CmdStop \/ CmdStopJoin
  \/ CmdConfig \/ CmdTemp \/ TempConvert \/ TempReply \/ TempThrow
  \/ CmdBias

\* What it does with the message of a peer.
RecvStep(p) ==
  \/ RecvCommand(p)
  \/ ConfigApply(p) \/ ConfigEmpty(p) \/ ConfigThrow(p)
  \/ ChannelEmpty(p) \/ ChannelValid(p) \/ ChannelInvalid(p)

-----------------------------------------------------------------------------
(* The peers (client/include/DAQCtrl.h): every member function sends a     *)
(* command and blocks in recv; sendConfig and readTemp then send a second  *)
(* message whatever the reply was.                                         *)

PeerSend(p, m, d) ==
  /\ inbox' = [inbox EXCEPT ![p] = m]
  /\ dial' = [dial EXCEPT ![p] = d]
  /\ outbox' = [outbox EXCEPT ![p] = "none"]
  /\ UNCHANGED <<daqVars, ctlVars>>

PeerCall(p, c) ==
  /\ dial[p] = "free"
  /\ PeerSend(p, Message(c), c)

PeerRaw(p, t) ==
  /\ dial[p] = "free"
  /\ PeerSend(p, Message(t), "raw")

PeerSendConfig(p, c) ==
  /\ dial[p] = "config"
  /\ outbox[p] # "none"
  /\ PeerSend(p, [tag |-> "yaml", val |-> c], "yaml")

PeerSendChannel(p, ch) ==
  /\ dial[p] = "temp"
  /\ outbox[p] # "none"
  /\ PeerSend(p, Message(ch), "channel")

PeerDone(p) ==
  /\ dial[p] \notin {"free", "dead", "config", "temp"}
  /\ outbox[p] # "none"
  /\ outbox' = [outbox EXCEPT ![p] = "none"]
  /\ dial' = [dial EXCEPT ![p] = "free"]
  /\ UNCHANGED <<daqVars, ctlVars, inbox>>

\* The program dies, in recv on an unexpected signal for one.  What it has
\* sent stays in the server's pipe.
PeerDie(p) ==
  /\ p \in MortalPeers
  /\ dial[p] # "dead"
  /\ dial' = [dial EXCEPT ![p] = "dead"]
  /\ outbox' = [outbox EXCEPT ![p] = "none"]
  /\ UNCHANGED <<daqVars, ctlVars, inbox>>

PeerStep(p) ==
  \/ \E c \in CmdTags : PeerCall(p, c)
  \/ \E t \in RawMessages : PeerRaw(p, t)
  \/ \E c \in Payloads : PeerSendConfig(p, c)
  \/ \E ch \in Channels : PeerSendChannel(p, ch)
  \/ PeerDone(p)
  \/ PeerDie(p)

-----------------------------------------------------------------------------
AcquisitionStep == ThreadStep /\ UNCHANGED <<ctlVars, peerVars>>

DataPeerStep == ctl # "down" /\ PullStep /\ UNCHANGED <<ctlVars, peerVars>>

Next ==
  \/ AcquisitionStep
  \/ DataPeerStep
  \/ HandlerStep
  \/ Restart
  \/ \E p \in Peers : RecvStep(p) \/ PeerStep(p)

Spec == Init /\ [][Next]_vars

\* Both threads are scheduled, the board and the sensor answer, systemd
\* restarts the process, and a REP socket fair-queues its peers.  Nothing is
\* assumed of the clients, of the data peer in particular.
Fairness ==
  /\ WF_vars(AcquisitionStep)
  /\ WF_vars(HandlerStep)
  /\ WF_vars(Restart)
  /\ \A p \in Peers : SF_vars(RecvStep(p))

FairSpec == Spec /\ Fairness

-----------------------------------------------------------------------------
(* Properties.                                                             *)

\* The strict request-reply alternation of the REP socket: the control thread
\* never returns to recv owing a reply (server.cpp:216,236,273,283,309,389).
RepliesBeforeRecv ==
  ctl \in {"recv", "config.recv", "temp.recv"} => rep = NoPeer

\* "Send reply back to client" (server.cpp:377): when cmd_readTemp sends its
\* result a request is waiting for it.
TempReplyIsOwed == ctl = "temp.reply" => rep # NoPeer

\* "Wait for config dataw from client" (server.cpp:293): what cmd_config takes
\* for the configuration is one, and not some client's next command.
ConfigFromItsClient ==
  [][\A p \in Peers :
       ctl = "config.recv" /\ Arrived(p) /\ ~Arrived(p)' => inbox[p].tag = "yaml"]_vars

\* The server answers every request of a client that waits for the answer
\* (README.md:9: the client remotely controls the server).
RequestsAnswered ==
  \A p \in Peers : Arrived(p) ~> (outbox[p] # "none" \/ dial[p] = "dead")

-----------------------------------------------------------------------------
(* The inductive invariant the safety properties follow from.              *)

\* cmd_start's three calls run with no thread alive ...
JoinedForStart == ctl \in {"start.conf", "start.run"} => thr = "none"

\* ... so what configure has set is what the thread runs with.
DriverAgrees ==
  (thr \in Running \/ ctl = "start.run") =>
    /\ ltc.nEvents = daq.reads
    /\ ltc.nSG = daq.nchan + 1

\* No reply is owed while the control thread receives, or by a new process.
NothingOwed ==
  ctl \in {"recv", "config.recv", "temp.recv", "down"} => rep = NoPeer

\* The parts together are inductive: the properties of the acquisition thread
\* (server.cpp:98-118) rest on what cmd_start does before it (265-268).
IInv == TypeOK /\ DAQInv /\ JoinedForStart /\ DriverAgrees /\ NothingOwed

-----------------------------------------------------------------------------
(* The server implements RunControl.                                       *)

\* Events the run still owes, from the loop variable and the settings.
EventsLeft ==
  IF thr \in {"none", "done", "post"} THEN 0
  ELSE IF daq.ntrig < 0 THEN -1 ELSE daq.ntrig - iTrig

RunPhase ==
  CASE thr \in {"none", "done"} -> "idle"
    [] thr = "post" -> "ending"
    [] OTHER -> "running"

Run == INSTANCE RunControl WITH
         phase    <- RunPhase,
         left     <- EventsLeft,
         inflight <- thr \in {"acquire", "read", "send"},
         req      <- stop

\* Every step of the server is a step of RunControl or leaves it alone.
ImplementsRunControl == Run!Safety

\* ... and a run under way keeps moving, whatever clients do.
ImplementsRunControlLive == Run!Spec
=============================================================================
