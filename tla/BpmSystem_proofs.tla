-------------------------- MODULE BpmSystem_proofs ---------------------------
(***************************************************************************)
(* Theorems about the whole system, for any number of programs, with any   *)
(* configurations, that follow each other on one server: the server is     *)
(* killed and programs are sent signals at any point.  What relates the    *)
(* programs to the server holds as long as no signal has aborted one of    *)
(* them (aborted), and much of it as long as no server was killed between  *)
(* what a program told it and the program's run (forgot); what each of the *)
(* components promises by itself holds in the system without either.       *)
(***************************************************************************)
EXTENDS BpmSystem, Server_proofs

-----------------------------------------------------------------------------
(* The parts of the inductive invariant: what the program, the server and  *)
(* the acquisition thread are to each other when no program aborts.        *)

\* The second messages of sendConfig and readTemp.
Seconds == {"yaml"} \cup Channels

\* Where the server waits for request r, and how the peer is called then.
WaitsAt(r) == IF r = "yaml" THEN "config.recv"
              ELSE IF r \in Channels THEN "temp.recv" ELSE "recv"
DialOf(r)  == IF r \in Channels THEN "channel" ELSE r

\* Where it goes when r is answered.
GoesTo(r) == IF r = "config" THEN "config.recv"
             ELSE IF r = "temp" THEN "temp.recv" ELSE "recv"

\* A server that was killed has forgotten what it waited for.
Restarted == crashes > 0 /\ ctl \in {"recv", "down"}

Listening(where) == rep = NoPeer /\ (ctl = where \/ Restarted)

\* The control thread is at c to answer r.
Serves(c, r) ==
  \/ r \in CmdTags /\ c = r
  \/ r = "start" /\ c \in {"start.conf", "start.run", "start.reply"}
  \/ r = "stop" /\ c = "stop.join"
  \/ r \in Channels /\ c \in {"temp.conv", "temp.reply"}
  \/ r \in Seconds /\ c = "unknown" /\ crashes > 0

NoneElse ==
  \A p \in Peers \ {me} :
    inbox[p] = NoMsg /\ outbox[p] = "none" /\ dial[p] \in {"free", "dead"}

\* A request is on its way, with the server, answered, or was lost.
Sent     == /\ inbox[me] = [tag |-> Request, val |-> IF Request = "yaml" THEN conf ELSE NoVal]
            /\ outbox[me] = "none" /\ Listening(WaitsAt(Request))
Served   == inbox[me] = NoMsg /\ outbox[me] = "none" /\ rep = me /\ Serves(ctl, Request)
Answered == inbox[me] = NoMsg /\ outbox[me] # "none" /\ Listening(GoesTo(Request))
Lost     == inbox[me] = NoMsg /\ outbox[me] = "none" /\ rep = NoPeer /\ Restarted

Dialogue ==
  /\ NoneElse
  /\ at = "recv" => dial[me] = DialOf(Request) /\ (Sent \/ Served \/ Answered \/ Lost)
  /\ at = "send" =>
       /\ inbox[me] = NoMsg /\ Listening(WaitsAt(Request))
       /\ IF Request \in Seconds THEN dial[me] \in {"config", "temp"}
          ELSE dial[me] = "free" /\ outbox[me] = "none"
  /\ at \notin {"send", "recv"} =>
       /\ inbox[me] = NoMsg /\ outbox[me] = "none" /\ Listening("recv")
       /\ dial[me] = "free" \/ (at = "exit" /\ dial[me] = "dead")
  /\ dial[me] = "dead" => ~pulling

\* The program: what it has written is the beginning of what it has received.
InLoop == {"loop", "data", "test", "write"}

Written ==
  /\ at \in {"send", "recv", "exit"} \cup InLoop /\ step \in 1 .. 9
  /\ gstop \in BOOLEAN /\ files \in Nat
  /\ taken \in Seq(Event) /\ log \in Seq([evt: Event, file: Nat, end: Nat])
  /\ i = Len(log) /\ nEvts = conf.ntrig
  /\ at \in InLoop => step = 8
  /\ step = 9 => at \notin InLoop
  /\ at \in {"send", "recv"} /\ step < 9 => taken = <<>> /\ log = <<>>
  /\ at = "exit" => step = 9 \/ (step = 8 /\ nEvts >= 0 /\ i >= nEvts)
  /\ Len(log) <= Len(taken) /\ \A k \in 1 .. Len(log) : log[k].evt = taken[k]
  /\ at \in {"loop", "data"} => Len(taken) = Len(log)
  /\ at = "write" \/ (at = "test" /\ ~gstop) =>
       Len(taken) = Len(log) + 1 /\ held = taken[Len(taken)]

\* The object between events: no message is allocated.
BetweenEvents ==
  /\ thr \notin {"acquire", "read", "send"} => msg = 0
  /\ daq.ntrig >= 0 => iTrig >= 0

\* The answer to "stop" is given when the thread has been joined.
StopAnswered ==
  /\ at = "recv" /\ Request = "stop" /\ outbox[me] # "none" => thr = "none"
  /\ outbox[me] = "Stopped" => at = "recv" /\ Request = "stop"

\* The server's settings agree with a configuration in every key that it has.
Keeps(m, c) ==
  /\ m.reads = c.reads /\ m.ntrig = c.ntrig
  /\ "nsum" \in DOMAIN c => m.nsum = c.nsum
  /\ "mask" \in DOMAIN c => m.mask = c.mask

\* The server has the configuration, or was killed since it was to have it; the
\* run that the program started has begun; the thread has the configuration,
\* until the server is killed, which leaves no thread.
Told  == \/ step > 2
         \/ ctl # "config.recv" /\ (step = 2 \/ (step = 1 /\ at = "recv" /\ Answered))
Begun == \/ step = 9
         \/ step = 8 /\ at \notin {"send", "recv"}
         \/ step = 8 /\ at = "recv" /\ (outbox[me] # "none" \/ ctl = "start.reply")
Own   == Begun \/ (step = 8 /\ at = "recv" /\ ctl = "start.run")

AtStart == step = 8 /\ at = "recv"

Settled ==
  ~forgot =>
    /\ Told /\ at \in {"send", "recv"} /\ step < 9 => Keeps(settings, conf)
    /\ Own => \/ Follows(daq, conf) /\ DriverFollows(ltc, conf)
              \/ crashes > 0 /\ thr = "none" /\ ~AtStart

\* What the program has taken or has still to take.
Events == taken \o pipe

Ordered(s) ==
  /\ \A j, k \in 1 .. Len(s) : j < k => s[j].idx < s[k].idx /\ s[j].cfg = s[k].cfg
  /\ \A k \in 1 .. Len(s) : s[k].idx >= k - 1

\* The events are those of a run with the settings d, before its n-th.
Under(s, n, d) == \A k \in 1 .. Len(s) : s[k].idx < n /\ s[k].cfg = d

InRun == {"loop", "clear", "acquire", "read", "send"}

\* Before a program's run, and after it, the thread has nothing to send; in it,
\* all events are of this run.
OfOneRun ==
  ~forgot =>
    /\ ~Begun => pipe = <<>> /\ EventsLeft = 0
    /\ at = "exit" => EventsLeft = 0
    /\ dial[me] = "dead" => pipe = <<>>
    /\ Begun /\ conf.ntrig >= 0 =>
         /\ Ordered(Events)
         /\ thr = "enter" => Events = <<>>
         /\ thr \in InRun => Under(Events, iTrig, daq)

\* The first so many events of a run.
First(s) == \A k \in 1 .. Len(s) : s[k].idx = k - 1

\* Events of a run with c's settings.
TakenWith(s, c) == \A k \in 1 .. Len(s) : Follows(s[k].cfg, c)

\* Where a program is past its connection, it has made it.
PastConnect == (step = 8 /\ at # "send") \/ step = 9

\* With a connection in time and room for a run, no event is lost.
Connected ==
  EarlyJoin /\ ~forgot /\ dial[me] # "dead" =>
    /\ AtStart => pulling
    /\ PastConnect => pulling \/ thr = "none"

Complete ==
  EarlyJoin /\ ~forgot /\ conf.ntrig \in 0 .. HWM /\ Begun =>
    /\ First(Events)
    /\ at # "exit" /\ thr \in InRun => Len(Events) = iTrig

\* Lost or not, all events were taken with the program's settings.
OwnEvents == ~forgot /\ Begun => TakenWith(Events, conf)

SysInv ==
  /\ TypeOK /\ DAQInv /\ BetweenEvents
  /\ me \in Peers /\ conf \in Payloads /\ crashes \in Nat
  /\ Written /\ Dialogue /\ StopAnswered /\ Settled
  /\ OfOneRun /\ Connected /\ Complete /\ OwnEvents

-----------------------------------------------------------------------------
(* The script of a program.                                                *)

\* The script, request by request.
LEMMA ScriptIs ==
  /\ Program!Script[1] = "config" /\ Program!Script[2] = "yaml"
  /\ Program!Script[3] = "bias"   /\ Program!Script[4] = "temp"
  /\ Program!Script[5] = "1"      /\ Program!Script[6] = "temp"
  /\ Program!Script[7] = "2"      /\ Program!Script[8] = "start"
  /\ Program!Script[9] = "stop"   /\ Len(Program!Script) = 9
BY DEF Program!Script

\* Which requests are second messages, and which are commands.
LEMMA Requests ==
  ASSUME NEW k \in 1 .. 9
  PROVE  /\ Program!Script[k] = "config" <=> k = 1
         /\ Program!Script[k] = "yaml" <=> k = 2
         /\ Program!Script[k] = "temp" <=> k \in {4, 6}
         /\ Program!Script[k] \in Channels <=> k \in {5, 7}
         /\ Program!Script[k] \in Seconds <=> k \in {2, 5, 7}
         /\ Program!Script[k] \in CmdTags <=> k \in {1, 3, 4, 6, 8, 9}
         /\ Program!Script[k] = "start" <=> k = 8
         /\ Program!Script[k] = "stop" <=> k = 9
BY ScriptIs DEF Channels, Seconds, CmdTags

LEMMA StepIs == Written => step \in 1 .. 9
BY DEF Written

\* Only the process itself ends as it does at "exit": nothing aborts.
LEMMA OverIs == Written => (Over <=> at = "exit")
BY DEF Written, InLoop, Over, Program!Ended

-----------------------------------------------------------------------------
(* The server's object in the system.                                      *)

\* Every step is a step of the object's owner, or leaves the object alone.
LEMMA SysDAQStep ==
  ASSUME TypeOK, [SysNext]_sysVars
  PROVE  DAQStep
<1>1. CASE ServerStep
  <2>1. [Next]_vars
    BY <1>1 DEF ServerStep, Next
  <2>. QED
    BY <2>1, NextIsDAQStep DEF TypeOK
<1>2. CASE Attach \/ Kill \/ RecvEvent
  BY <1>2 DEF Attach, Kill, Terminate, RecvEvent, DAQStep, PullStep
<1>3. CASE SendRequest \/ RecvReply \/ LocalStep \/ Interrupted \/ Launch
           \/ UNCHANGED sysVars
  <2>1. UNCHANGED daqVars
    BY <1>3 DEF SendRequest, RecvReply, LocalStep, Interrupted, Launch, vars,
                sysVars, PeerSendConfig, PeerSendChannel, PeerCall, PeerSend, PeerDone
  <2>. QED
    BY <2>1 DEF DAQStep
<1>4. CASE Depart
  <2>1. CASE pulling \/ pipe # <<>>
    BY <1>4, <2>1 DEF Depart, DAQStep, PullStep, PullDetach
  <2>2. CASE ~pulling /\ pipe = <<>>
    <3>1. UNCHANGED daqVars
      BY <1>4, <2>2 DEF Depart, daqVars, TypeOK, DAQTypeOK
    <3>. QED
      BY <3>1 DEF DAQStep
  <2>. QED
    BY <2>1, <2>2
<1>. QED
  BY <1>1, <1>2, <1>3, <1>4 DEF SysNext, ProgramStep

\* Between events no message is allocated.
LEMMA BetweenStep ==
  ASSUME DAQTypeOK, DAQInv, BetweenEvents, DAQStep
  PROVE  BetweenEvents'
<1>. USE DEF BetweenEvents, daqRest, daqVars
<1>0. iTrig \in Int /\ daq.ntrig \in Int
  BY IntMaxAssumption DEF DAQTypeOK, Members, Int32
<1>1. CASE Send
  <2>1. daq.ntrig >= 0 => iTrig' = iTrig + 1
    BY <1>1, NextIntBelow DEF Send, DAQTypeOK, Members, DAQInv, LoopInBounds
  <2>. QED
    BY <1>0, <1>1, <2>1 DEF Send, PipeHasRoom
<1>2. CASE ThreadStep /\ ~Send
  BY <1>2 DEF ThreadStep, Enter, LoopEnd, SeeStop, ClearStop, LoopBody,
              Acquire, Read, Post
<1>3. CASE PullStep
  BY <1>3 DEF PullStep, PullAttach, PullDetach, PullRecv
<1>4. CASE (join_daq_thread /\ UNCHANGED daqRest) \/ Reconfigure
           \/ start_daq_thread
  BY <1>4 DEF join_daq_thread, JoinReturns, Reconfigure, configure,
              start_daq_thread, DAQInv, LoopInBounds
<1>. QED
  BY <1>1, <1>2, <1>3, <1>4 DEF DAQStep, stop_daq_thread, DAQReset

\* What a program does to its connection is what a peer of the server does.
LEMMA CallIsPeerStep ==
  ASSUME me \in Peers, conf \in Payloads, step \in 1 .. 9, SendRequest
  PROVE  PeerStep(me)
<1>1. CASE Request = "yaml"
  <2>1. PeerSendConfig(me, conf)
    BY <1>1 DEF SendRequest
  <2>. QED
    BY <2>1 DEF PeerStep
<1>2. CASE Request # "yaml" /\ Request \in Channels
  <2>1. PeerSendChannel(me, Request)
    BY <1>2 DEF SendRequest
  <2>. QED
    BY <1>2, <2>1 DEF PeerStep
<1>3. CASE Request # "yaml" /\ Request \notin Channels
  <2>1. PeerCall(me, Request)
    BY <1>3 DEF SendRequest
  <2>2. Request \in CmdTags
    BY <1>3, Requests DEF Request
  <2>. QED
    BY <2>1, <2>2 DEF PeerStep
<1>. QED
  BY <1>1, <1>2, <1>3

\* The types hold through every step of the system.
LEMMA SysTypeStep ==
  ASSUME TypeOK, me \in Peers, conf \in Payloads,
         step \in 1 .. 9, [SysNext]_sysVars
  PROVE  TypeOK'
<1>0. DAQTypeOK /\ CtlType /\ PeerType
  BY DEF TypeOK, CtlType, PeerType
<1>1. DAQTypeOK'
  BY <1>0, SysDAQStep, DAQStepType
<1>2. CtlType' /\ PeerType'
  <2>1. CASE ServerStep
    <3>1. [Next]_vars
      BY <2>1 DEF ServerStep, Next
    <3>. QED
      BY <3>1, TypeStep DEF TypeOK, CtlType, PeerType
  <2>2. CASE Kill
    BY <1>0, <2>2, TerminateType DEF Kill
  <2>3. CASE SendRequest \/ RecvReply
    <3>1. UNCHANGED vars \/ PeerStep(me)
      BY <2>3, CallIsPeerStep DEF RecvReply, PeerStep
    <3>2. CASE UNCHANGED vars
      BY <1>0, <3>2 DEF vars, ctlVars, peerVars, CtlType, PeerType
    <3>3. CASE PeerStep(me)
      BY <1>0, <3>3, PeerStepTypes DEF ctlVars, CtlType
    <3>. QED
      BY <3>1, <3>2, <3>3
  <2>4. CASE Depart
    BY <1>0, <2>4 DEF Depart, ctlVars, CtlType, PeerType, DialPoints
  <2>5. CASE Attach \/ RecvEvent \/ LocalStep \/ Interrupted \/ Launch
             \/ UNCHANGED sysVars
    <3>1. UNCHANGED <<ctlVars, peerVars>>
      BY <2>5 DEF Attach, RecvEvent, LocalStep, Interrupted, Launch, sysVars, vars
    <3>. QED
      BY <1>0, <3>1 DEF ctlVars, peerVars, CtlType, PeerType
  <2>. QED
    BY <2>1, <2>2, <2>3, <2>4, <2>5 DEF SysNext, ProgramStep
<1>. QED
  BY <1>1, <1>2 DEF TypeOK, CtlType, PeerType

-----------------------------------------------------------------------------
(* The program.                                                            *)

\* What the steps of others leave alone.
LEMMA ProgramStays ==
  ASSUME Written, UNCHANGED <<programVars, conf>>
  PROVE  Written'
BY DEF Written, programVars

\* Appending leaves what was there, and adds the element at the end.
LEMMA SequenceEnds ==
  ASSUME NEW S, NEW s \in Seq(S), NEW e \in S
  PROVE  /\ Append(s, e) \in Seq(S)
         /\ Len(Append(s, e)) = Len(s) + 1
         /\ Append(s, e)[Len(s) + 1] = e
         /\ \A k \in 1 .. Len(s) : Append(s, e)[k] = s[k]
         /\ Len(s) \in Nat
BY AppendProperties, LenProperties

\* A new program has received and written nothing.
LEMMA WrittenAtLaunch == Launch => Written'
<1>. SUFFICES ASSUME Launch PROVE Written'
  OBVIOUS
<1>1. nEvts' = conf'.ntrig
  BY DEF Launch
<1>2. /\ at' = "send" /\ step' = 1 /\ gstop' = FALSE /\ i' = 0
      /\ files' = 0 /\ log' = <<>> /\ taken' = <<>>
  BY DEF Launch
<1>3. /\ log' \in Seq([evt: Event, file: Nat, end: Nat]) /\ taken' \in Seq(Event)
      /\ Len(log') = 0 /\ Len(taken') = 0
  BY <1>2
<1>4. Len(log') <= Len(taken') /\ \A k \in 1 .. Len(log') : log'[k].evt = taken'[k]
  BY <1>3
<1>5. 1 \in 1 .. 9 /\ 0 \in Nat /\ FALSE \in BOOLEAN
  OBVIOUS
<1>. QED
  BY <1>1, <1>2, <1>3, <1>4, <1>5, Zenon DEF Written, InLoop

\* What the program records is what it has received, whatever it does next.
LEMMA WrittenStep ==
  ASSUME TypeOK, ~aborted', Written, conf \in Payloads, [SysNext]_sysVars
  PROVE  Written'
<1>0. Len(log) \in Nat /\ Len(taken) \in Nat
  BY LenProperties DEF Written
<1>1. CASE ServerStep \/ Attach \/ Kill \/ Depart \/ UNCHANGED sysVars
  <2>1. UNCHANGED <<programVars, conf>>
    BY <1>1 DEF ServerStep, Attach, Kill, Depart, sysVars, whoVars, programVars
  <2>. QED
    BY <2>1, ProgramStays
<1>2. CASE SendRequest
  <2>1. Program!Send /\ conf' = conf
    BY <1>2 DEF SendRequest, whoVars
  <2>. QED
    BY <1>0, <2>1 DEF Written, Program!Send, Program!Reopen, Program!runVars, InLoop
<1>3. CASE RecvReply
  <2>1. Program!GotReply /\ conf' = conf
    BY <1>3 DEF RecvReply, whoVars
  <2>2. at = "recv" /\ UNCHANGED <<gstop, nEvts, i, held, files, log, taken, conf>>
    BY <2>1 DEF Program!GotReply, Program!runVars
  <2>3. \/ step = 8 /\ at' = "loop" /\ step' = step
        \/ step = 9 /\ at' = "exit" /\ step' = step
        \/ step < 8 /\ at' = "send" /\ step' = step + 1
    <3>1. /\ Program!Script[step] = "start" <=> step = 8
          /\ Program!Script[step] = "stop" <=> step = 9
      BY StepIs, Requests
    <3>. QED
      BY <2>1, <3>1 DEF Program!GotReply, Program!Leave, Written
  <2>. QED
    BY <1>0, <2>2, <2>3 DEF Written, InLoop
<1>4. CASE RecvEvent
  <2>1. /\ at = "data" /\ at' = "test" /\ held' = Head(pipe)
        /\ taken' = Append(taken, Head(pipe))
        /\ UNCHANGED <<step, gstop, nEvts, i, files, log, conf>>
    BY <1>4 DEF RecvEvent, Program!GotEvent, Program!fileVars, whoVars
  <2>2. Head(pipe) \in Event
    BY <1>4, HeadTailProperties DEF RecvEvent, TypeOK, DAQTypeOK
  <2>3. /\ taken' \in Seq(Event) /\ Len(taken') = Len(taken) + 1
        /\ taken'[Len(taken) + 1] = held'
        /\ \A k \in 1 .. Len(taken) : taken'[k] = taken[k]
    BY <2>1, <2>2, SequenceEnds DEF Written
  <2>4. Len(log) = Len(taken)
    BY <2>1 DEF Written
  <2>. QED
    BY <1>0, <2>1, <2>3, <2>4 DEF Written, InLoop
<1>5. CASE LocalStep
  <2>0. conf' = conf
    BY <1>5 DEF LocalStep, whoVars
  <2>1. CASE Program!Loop \/ Program!SeeStop \/ Program!GoOn
    <3>1. UNCHANGED <<gstop, nEvts, i, files, log, taken, conf>>
      BY <2>0, <2>1 DEF Program!Loop, Program!SeeStop, Program!GoOn,
                        Program!runVars, Program!fileVars
    <3>2. \/ at = "loop" /\ at' = "data" /\ UNCHANGED <<step, held>>
          \/ /\ at = "loop" /\ at' = "exit" /\ UNCHANGED <<step, held>>
             /\ ~(i < nEvts \/ nEvts < 0)
          \/ at = "test" /\ at' = "send" /\ step' = 9
          \/ at = "test" /\ ~gstop /\ at' = "write" /\ UNCHANGED <<step, held>>
      BY <2>1, ScriptIs DEF Program!Loop, Program!SeeStop, Program!GoOn,
           Program!MoreEvents, Program!Leave, Program!runVars
    <3>3. conf.ntrig \in Int
      BY PayloadsAssumption, SystemAssumption, IntMaxAssumption DEF Int32
    <3>. QED
      BY <1>0, <3>1, <3>2, <3>3 DEF Written, InLoop
  <2>2. CASE Program!Write(0)
    <3>1. /\ at = "write" /\ at' = "loop" /\ i' = i + 1
          /\ log' = Append(log, [evt |-> held, file |-> files, end |-> Program!Filled + 0])
          /\ UNCHANGED <<step, gstop, nEvts, taken, conf>>
          /\ files' \in {files, files + 1}
      BY <2>0, <2>2 DEF Program!Write, Program!Rotate, Program!Reopen, Program!Buffered
    <3>2. Len(taken) = Len(log) + 1 /\ held = taken[Len(taken)]
      BY <3>1 DEF Written
    <3>3. [evt |-> held, file |-> files, end |-> Program!Filled + 0]
             \in [evt: Event, file: Nat, end: Nat]
      <4>1. held \in Event /\ files \in Nat
        BY <1>0, <3>2 DEF Written
      <4>2. Program!Filled \in Nat
        <5>1. log \in Seq([evt: Event, file: Nat, end: Nat])
          BY DEF Written
        <5>2. log # <<>> => log[Len(log)] \in [evt: Event, file: Nat, end: Nat]
          <6>1. ASSUME log # <<>> PROVE Len(log) \in 1 .. Len(log)
            <7>1. Len(log) \in Nat \ {0}
              BY <5>1, <6>1, EmptySeq
            <7>. QED
              BY <7>1
          <6>. QED
            BY <5>1, <6>1, ElementOfSeq
        <5>. QED
          BY <5>2, Zenon DEF Program!Filled
      <4>. QED
        BY <4>1, <4>2
    <3>4. /\ log' \in Seq([evt: Event, file: Nat, end: Nat]) /\ Len(log') = Len(log) + 1
          /\ log'[Len(log) + 1].evt = held
          /\ \A k \in 1 .. Len(log) : log'[k] = log[k]
      BY <3>1, <3>3, SequenceEnds DEF Written
    <3>5. \A k \in 1 .. Len(log') : log'[k].evt = taken'[k]
      BY <1>0, <3>1, <3>2, <3>4 DEF Written
    <3>6. files' \in Nat
      BY <3>1 DEF Written
    <3>. QED
      BY <1>0, <3>1, <3>2, <3>4, <3>5, <3>6 DEF Written, InLoop
  <2>. QED
    BY <1>5, <2>1, <2>2 DEF LocalStep
<1>6. CASE Interrupted
  <2>1. conf' = conf
    BY <1>6 DEF Interrupted, whoVars
  <2>2. Program!QuietSignal \/ (Program!Signal /\ Program!DataError)
    BY <1>6 DEF Interrupted
  <2>. QED
    BY <1>0, <2>1, <2>2
       DEF Written, Program!QuietSignal, Program!Signal, Program!DataError,
           Program!runVars, Program!fileVars, InLoop
<1>7. CASE Launch
  BY <1>7, WrittenAtLaunch
<1>. QED
  BY <1>1, <1>2, <1>3, <1>4, <1>5, <1>6, <1>7 DEF SysNext, ProgramStep

-----------------------------------------------------------------------------
(* The dialogue of program and server.                                     *)

\* The server receives from the present program only, when it has sent its
\* request, and as the handler that waits for that request.
LEMMA RecvCases ==
  ASSUME Written, Dialogue, NEW p \in Peers, RecvStep(p)
  PROVE  /\ p = me /\ at = "recv" /\ Sent
         /\ \/ RecvCommand(me)
            \/ Request = "yaml" /\ ctl = "config.recv" /\ ConfigApply(me)
            \/ Request \in Channels /\ ChannelValid(me)
<1>1. Arrived(p) /\ ctl \in {"recv", "config.recv", "temp.recv"}
  BY DEF RecvStep, RecvCommand, ConfigApply, ConfigEmpty, ConfigThrow,
         ChannelEmpty, ChannelValid, ChannelInvalid
<1>2. NoMsg.tag = "none"
  BY DEF NoMsg, Message
<1>3. p = me
  BY <1>1, <1>2 DEF Dialogue, NoneElse, Arrived
<1>4. at = "recv" /\ Sent
  BY <1>1, <1>2, <1>3 DEF Dialogue, Served, Answered, Lost, Arrived, Written
<1>5. inbox[me].tag = Request
  BY <1>4 DEF Sent
<1>6. /\ Request \in CmdTags \cup Seconds
      /\ Request \in CmdTags => Request \notin Channels \cup {"yaml", "empty"}
      /\ Request \in Channels => Request # "yaml" /\ Request # "empty"
      /\ Request = "yaml" => Request # "empty"
  <2>1. step \in 1 .. 9 /\ Request = Program!Script[step]
    BY DEF Written, Request
  <2>2. Request \in CmdTags \cup Seconds
    BY <2>1, Requests
  <2>. QED
    BY <2>2 DEF CmdTags, Channels, Seconds
<1>7. CASE RecvCommand(p)
  BY <1>3, <1>4, <1>7
<1>8. CASE ctl = "config.recv" /\ ~RecvCommand(p)
  <2>1. Request = "yaml"
    BY <1>4, <1>8 DEF Sent, Listening, Restarted, WaitsAt
  <2>. QED
    BY <1>3, <1>4, <1>5, <1>6, <1>8, <2>1
       DEF RecvStep, ConfigEmpty, ConfigThrow, ChannelEmpty, ChannelValid,
           ChannelInvalid
<1>9. CASE ctl = "temp.recv" /\ ~RecvCommand(p)
  <2>1. Request \in Channels
    BY <1>4, <1>9 DEF Sent, Listening, Restarted, WaitsAt
  <2>. QED
    BY <1>3, <1>4, <1>5, <1>6, <1>9, <2>1
       DEF RecvStep, ConfigApply, ConfigEmpty, ConfigThrow, ChannelEmpty,
           ChannelInvalid
<1>10. CASE ctl = "recv" /\ ~RecvCommand(p)
  BY <1>10 DEF RecvStep, ConfigApply, ConfigEmpty, ConfigThrow, ChannelEmpty,
               ChannelValid, ChannelInvalid
<1>. QED
  BY <1>1, <1>7, <1>8, <1>9, <1>10

\* The points of the control thread between recv and the reply.
Handling ==
  CmdTags \cup {"nocmd", "unknown", "start.conf", "start.run", "start.reply",
                "stop.join", "temp.conv", "temp.reply"}

\* A handler runs for the request of the present program only.
LEMMA HandlerCases ==
  ASSUME Written, Dialogue, me \in Peers, HandlerStep
  PROVE  at = "recv" /\ Served /\ ~CmdNone /\ ~TempThrow
<1>1. ctl \in Handling
  BY DEF HandlerStep, CmdNone, CmdUnknown, CmdStartJoin, CmdStartConfigure,
         CmdStartLaunch, CmdStartReply, CmdStop, CmdStopJoin, CmdConfig,
         CmdTemp, TempConvert, TempReply, TempThrow, CmdBias, Handling, CmdTags
<1>2. ctl \notin {"recv", "config.recv", "temp.recv", "down"}
  BY <1>1 DEF Handling, CmdTags
<1>3. \A r : ~Listening(WaitsAt(r)) /\ ~Listening(GoesTo(r))
  BY <1>2 DEF Listening, Restarted, WaitsAt, GoesTo
<1>4. ~Listening("recv") /\ ~Restarted
  BY <1>2 DEF Listening, Restarted
<1>5. at = "recv" /\ Served
  BY <1>3, <1>4 DEF Dialogue, Sent, Answered, Lost
<1>6. ctl # "nocmd" /\ rep # NoPeer
  BY <1>5, PeersAssumption DEF Served, Serves, CmdTags
<1>. QED
  BY <1>5, <1>6 DEF CmdNone, TempThrow

\* A program that has sent a request is there to be answered.
LEMMA DialIs ==
  ASSUME Written
  PROVE  DialOf(Request) \notin {"free", "dead"}
BY StepIs, Requests DEF Request, DialOf, CmdTags, Seconds

\* The connections of the programs that are gone or to come.
LEMMA OthersStay ==
  ASSUME NoneElse, me' = me,
         \A p \in Peers \ {me} : /\ inbox'[p] = inbox[p] /\ outbox'[p] = outbox[p]
                                 /\ dial'[p] = dial[p]
  PROVE  NoneElse'
BY DEF NoneElse

\* Out of a program that waits, the dialogue is only where the request is.
LEMMA InRecv ==
  ASSUME NoneElse', (at = "recv")', (dial[me] = DialOf(Request))',
         (dial[me] # "dead")', (Sent \/ Served \/ Answered \/ Lost)'
  PROVE  Dialogue'
BY DEF Dialogue

\* A handler keeps the request with the server, or answers it.
LEMMA HandlerDialogue ==
  ASSUME TypeOK, Written, Dialogue, me \in Peers, HandlerStep,
         UNCHANGED <<programVars, whoVars>>
  PROVE  Dialogue' /\ (Served' \/ Answered')
<1>1. at = "recv" /\ Served /\ dial[me] = DialOf(Request) /\ NoneElse
  BY HandlerCases DEF Dialogue
<1>2. dial[me] # "dead" /\ rep = me
  BY <1>1, DialIs DEF Served
<1>3. /\ Request \in CmdTags \cup Seconds
      /\ Request = "config" <=> step = 1
      /\ Request = "temp" <=> step \in {4, 6}
      /\ Request \in Channels <=> step \in {5, 7}
      /\ Request \in CmdTags <=> step \in {1, 3, 4, 6, 8, 9}
      /\ Request = "start" <=> step = 8
      /\ Request = "stop" <=> step = 9
      /\ Request \in Seconds <=> step \in {2, 5, 7}
  BY StepIs, Requests DEF Request, Seconds
<1>4. UNCHANGED <<at, step, me, crashes, conf>>
  BY DEF programVars, whoVars
<1>5. UNCHANGED <<inbox, dial>>
  BY HandlerCases DEF HandlerStep, CmdNone, CmdUnknown, CmdStartJoin, CmdStartConfigure,
         CmdStartLaunch, CmdStartReply, CmdStop, CmdStopJoin, CmdConfig,
         CmdTemp, TempConvert, TempReply, CmdBias, Reply, peerVars
<1>6. Request' = Request
  BY <1>4 DEF Request
<1>7. CASE \/ CmdStartJoin \/ CmdStartConfigure \/ CmdStartLaunch
           \/ CmdStop \/ TempConvert
  <2>1. UNCHANGED <<rep, outbox>>
    BY <1>7 DEF CmdStartJoin, CmdStartConfigure, CmdStartLaunch, CmdStop,
                TempConvert, peerVars
  <2>2. Serves(ctl', Request)
    BY <1>1, <1>3, <1>7 DEF CmdStartJoin, CmdStartConfigure, CmdStartLaunch,
         CmdStop, TempConvert, Served, Serves, CmdTags, Channels
  <2>3. Served'
    BY <1>1, <1>4, <1>5, <1>6, <2>1, <2>2 DEF Served, Serves
  <2>4. NoneElse'
    BY <1>1, <1>4, <1>5, <2>1, OthersStay
  <2>. QED
    BY <1>1, <1>2, <1>4, <1>5, <1>6, <2>3, <2>4, InRecv DEF DialOf
<1>8. CASE \/ CmdUnknown \/ CmdStartReply \/ CmdStopJoin \/ CmdConfig
           \/ CmdTemp \/ TempReply \/ CmdBias
  <2>1. PICK m \in Replies : Reply(m)
    BY <1>8 DEF CmdUnknown, CmdStartReply, CmdStopJoin, CmdConfig, CmdTemp,
                TempReply, CmdBias, Replies
  <2>2. rep' = NoPeer /\ \A p \in Peers \ {me} : outbox'[p] = outbox[p]
    BY <1>2, <2>1 DEF Reply
  <2>3. outbox'[me] # "none"
    BY <1>2, <2>1 DEF Reply, Replies
  <2>4. ctl' = GoesTo(Request) \/ (ctl' = "recv" /\ crashes > 0)
    BY <1>1, <1>3, <1>8 DEF CmdUnknown, CmdStartReply, CmdStopJoin, CmdConfig,
         CmdTemp, TempReply, CmdBias, Served, Serves, GoesTo, CmdTags, Channels
  <2>5. Answered'
    BY <1>1, <1>4, <1>5, <1>6, <2>2, <2>3, <2>4
       DEF Served, Answered, Listening, Restarted, GoesTo
  <2>6. NoneElse'
    BY <1>1, <1>4, <1>5, <2>2, OthersStay
  <2>. QED
    BY <1>1, <1>2, <1>4, <1>5, <1>6, <2>5, <2>6, InRecv DEF DialOf
<1>. QED
  BY <1>7, <1>8, HandlerCases DEF HandlerStep

\* A receive takes the request from its way to the handler, or answers it.
LEMMA RecvDialogue ==
  ASSUME TypeOK, Written, Dialogue, me \in Peers, NEW p \in Peers, RecvStep(p),
         UNCHANGED <<programVars, whoVars>>
  PROVE  Dialogue' /\ (Served' \/ Answered')
<1>1. at = "recv" /\ Sent /\ dial[me] = DialOf(Request) /\ NoneElse
  BY RecvCases DEF Dialogue
<1>2. dial[me] # "dead"
  BY <1>1, DialIs
<1>3. /\ Request \in CmdTags \cup Seconds
      /\ Request \in CmdTags <=> Request \notin Seconds
      /\ Request # "empty"
  BY StepIs, Requests DEF Request, Seconds, CmdTags, Channels
<1>4. UNCHANGED <<at, step, me, crashes, conf>>
  BY DEF programVars, whoVars
<1>5. Request' = Request
  BY <1>4 DEF Request
<1>6. CASE RecvCommand(me)
  <2>1. /\ rep' = me /\ UNCHANGED <<outbox, dial>> /\ ctl = "recv"
        /\ ctl' = Handler(inbox[me]) /\ inbox' = [inbox EXCEPT ![me] = NoMsg]
    BY <1>6 DEF RecvCommand
  <2>2. inbox[me].tag = Request
    BY <1>1 DEF Sent
  <2>3. Request \in Seconds => crashes > 0
    BY <1>1, <1>3, <2>1 DEF Sent, Listening, Restarted, WaitsAt, Seconds
  <2>4. Serves(ctl', Request)
    BY <1>3, <2>1, <2>2, <2>3 DEF Handler, Serves
  <2>5. inbox'[me] = NoMsg /\ \A q \in Peers \ {me} : inbox'[q] = inbox[q]
    BY <2>1 DEF TypeOK
  <2>6. Served'
    BY <1>1, <1>4, <1>5, <2>1, <2>4, <2>5 DEF Sent, Served, Serves
  <2>7. NoneElse'
    BY <1>1, <1>4, <2>1, <2>5, OthersStay
  <2>. QED
    BY <1>1, <1>2, <1>4, <1>5, <2>1, <2>6, <2>7, InRecv DEF DialOf
<1>7. CASE ConfigApply(me) /\ Request = "yaml"
  <2>1. /\ rep' = NoPeer /\ dial' = dial /\ ctl' = "recv"
        /\ inbox' = [inbox EXCEPT ![me] = NoMsg]
        /\ outbox' = [outbox EXCEPT ![me] = "Configured"]
    BY <1>2, <1>7 DEF ConfigApply, ReplyTo
  <2>2. /\ inbox'[me] = NoMsg /\ outbox'[me] = "Configured"
        /\ \A q \in Peers \ {me} : inbox'[q] = inbox[q] /\ outbox'[q] = outbox[q]
    BY <2>1 DEF TypeOK
  <2>3. Answered'
    BY <1>4, <1>5, <1>7, <2>1, <2>2 DEF Answered, Listening, GoesTo
  <2>4. NoneElse'
    BY <1>1, <1>4, <2>1, <2>2, OthersStay
  <2>. QED
    BY <1>1, <1>2, <1>4, <1>5, <2>1, <2>3, <2>4, InRecv DEF DialOf
<1>8. CASE ChannelValid(me) /\ Request \in Channels
  <2>1. /\ rep' = me /\ UNCHANGED <<outbox, dial>> /\ ctl' = "temp.conv"
        /\ inbox' = [inbox EXCEPT ![me] = NoMsg]
    BY <1>8 DEF ChannelValid
  <2>2. inbox'[me] = NoMsg /\ \A q \in Peers \ {me} : inbox'[q] = inbox[q]
    BY <2>1 DEF TypeOK
  <2>3. Served'
    BY <1>1, <1>4, <1>5, <1>8, <2>1, <2>2 DEF Sent, Served, Serves
  <2>4. NoneElse'
    BY <1>1, <1>4, <2>1, <2>2, OthersStay
  <2>. QED
    BY <1>1, <1>2, <1>4, <1>5, <2>1, <2>3, <2>4, InRecv DEF DialOf
<1>. QED
  BY <1>6, <1>7, <1>8, RecvCases

\* The program waits for no reply, or goes where it sends its stop.
LEMMA OutOfRecv ==
  ASSUME NoneElse', (at \notin {"send", "recv"} \/ (at = "send" /\ Request = "stop"))',
         (inbox[me] = NoMsg)', (outbox[me] = "none")', (Listening("recv"))',
         (dial[me] = "free" \/ (at = "exit" /\ dial[me] = "dead"))',
         (dial[me] = "dead" => ~pulling)'
  PROVE  Dialogue'
<1>1. (at = "send")' => Request' = "stop" /\ dial[me]' = "free"
  OBVIOUS
<1>2. (at = "send")' => WaitsAt(Request)' = "recv" /\ Request' \notin Seconds
  BY <1>1 DEF WaitsAt, Seconds, Channels
<1>. QED
  BY <1>1, <1>2 DEF Dialogue, Listening, Restarted

\* Nobody else makes the server stop listening.
LEMMA ListeningStays ==
  ASSUME UNCHANGED <<ctl, rep, crashes>>, NEW where, Listening(where)
  PROVE  Listening(where)'
BY DEF Listening, Restarted

\* A program moves by itself in startRun's loop only, and from there to the end
\* or to its stop.
LEMMA LocalMoves ==
  ASSUME ~aborted', RecvEvent \/ LocalStep \/ Interrupted
  PROVE  /\ UNCHANGED <<ctl, rep, settings, inbox, outbox, dial, me, conf, crashes>>
         /\ UNCHANGED <<pulling, thr, stop, iTrig, daq, ltc, msg>>
         /\ \/ UNCHANGED <<at, step>>
            \/ at \in InLoop /\ at' \in InLoop \cup {"exit"} /\ step' = step
            \/ at \in InLoop /\ at' = "send" /\ step' = 9
<1>1. UNCHANGED <<ctlVars, peerVars, whoVars, pulling, thr, stop, iTrig, daq, ltc, msg>>
  <2>1. CASE RecvEvent \/ LocalStep
    BY <2>1 DEF RecvEvent, PullRecv, LocalStep, vars, daqVars
  <2>2. CASE Interrupted
    BY <2>2 DEF Interrupted, vars, daqVars, whoVars
  <2>. QED
    BY <2>1, <2>2
<1>2. \/ UNCHANGED <<at, step>>
      \/ at \in InLoop /\ at' \in InLoop \cup {"exit"} /\ step' = step
      \/ at \in InLoop /\ at' = "send" /\ step' = 9
  BY ScriptIs DEF RecvEvent, LocalStep, Interrupted, InLoop, Program!GotEvent,
         Program!Loop, Program!SeeStop, Program!GoOn, Program!Write, Program!Leave,
         Program!QuietSignal, Program!DataError
<1>. QED
  BY <1>1, <1>2 DEF ctlVars, peerVars, whoVars

\* The steps of the run and of the program that leave the connection alone.
LEMMA ElsewhereDialogue ==
  ASSUME ~aborted', TypeOK, Written, Dialogue, me \in Peers,
         \/ AcquisitionStep /\ UNCHANGED <<programVars, whoVars>>
         \/ RecvEvent \/ LocalStep \/ Interrupted \/ UNCHANGED sysVars
  PROVE  Dialogue'
<1>1. UNCHANGED <<ctl, rep, crashes, inbox, outbox, dial, me, conf, pulling>>
  BY LocalMoves
     DEF sysVars, AcquisitionStep, vars, daqVars, ThreadStep, Enter, LoopEnd, SeeStop,
         ClearStop, LoopBody, Acquire, Read, Send, Post, daqRest,
         ctlVars, peerVars, whoVars
<1>2. CASE UNCHANGED <<at, step>>
  <2>1. Request' = Request
    BY <1>2 DEF Request
  <2>2. NoneElse'
    BY <1>1, OthersStay DEF Dialogue
  <2>3. at = "recv" => (Sent \/ Served \/ Answered \/ Lost)'
    <3>1. SUFFICES ASSUME at = "recv" PROVE (Sent \/ Served \/ Answered \/ Lost)'
      OBVIOUS
    <3>2. Sent \/ Served \/ Answered \/ Lost
      BY <3>1 DEF Dialogue
    <3>. QED
      BY <1>1, <2>1, <3>2 DEF Sent, Served, Serves, Answered, Lost, Listening, Restarted
  <2>. QED
    BY <1>1, <1>2, <2>1, <2>2, <2>3 DEF Dialogue, Listening, Restarted
<1>3. CASE ~UNCHANGED <<at, step>>
  <2>1. at \in InLoop
    BY <1>3, LocalMoves DEF programVars, sysVars
  <2>2. at' \in InLoop \cup {"exit"} \/ (at' = "send" /\ step' = 9)
    BY <1>3, LocalMoves DEF programVars, sysVars
  <2>3. at' \notin {"send", "recv"} \/ (at' = "send" /\ Request' = "stop")
    BY <2>2, ScriptIs DEF InLoop, Request
  <2>4. /\ NoneElse /\ inbox[me] = NoMsg /\ outbox[me] = "none" /\ Listening("recv")
        /\ dial[me] = "free"
    BY <2>1 DEF Dialogue, InLoop
  <2>5. NoneElse'
    BY <1>1, <2>4, OthersStay
  <2>6. Listening("recv")'
    BY <1>1, <2>4, ListeningStays
  <2>. QED
    BY <1>1, <2>3, <2>4, <2>5, <2>6, OutOfRecv
<1>. QED
  BY <1>2, <1>3

\* A restart leaves the server at its receive, as after a death.
LEMMA RestartDialogue ==
  ASSUME TypeOK, Written, Dialogue, Restart, UNCHANGED <<programVars, whoVars>>
  PROVE  Dialogue'
<1>1. /\ ctl = "down" /\ ctl' = "recv" /\ UNCHANGED <<rep, inbox, outbox, dial, pulling>>
      /\ UNCHANGED <<at, step, me, conf, crashes>>
  BY DEF Restart, peerVars, daqVars, programVars, whoVars
<1>2. \A r : WaitsAt(r) # "down" /\ GoesTo(r) # "down"
  BY DEF WaitsAt, GoesTo
<1>3. ~Served
  BY <1>1 DEF Served, Serves, CmdTags
<1>. USE DEF Listening, Restarted
<1>5. Request' = Request
  BY <1>1 DEF Request
<1>6. CASE at = "recv"
  <2>1. /\ NoneElse /\ dial[me] = DialOf(Request) /\ (Sent \/ Answered \/ Lost)
        /\ dial[me] = "dead" => ~pulling
    BY <1>3, <1>6 DEF Dialogue
  <2>2. (Sent \/ Answered \/ Lost)'
    BY <1>1, <1>2, <1>5, <2>1 DEF Sent, Answered, Lost
  <2>3. NoneElse'
    BY <1>1, <2>1, OthersStay
  <2>. QED
    BY <1>1, <1>5, <1>6, <2>1, <2>2, <2>3, DialIs, InRecv DEF DialOf
<1>7. CASE at # "recv"
  <2>1. NoneElse'
    BY <1>1, OthersStay DEF Dialogue
  <2>. QED
    BY <1>1, <1>2, <1>5, <1>7, <2>1 DEF Dialogue
<1>. QED
  BY <1>6, <1>7

\* A connection comes about, or the server dies: what was sent stays or is lost.
LEMMA AttachDialogue == Written /\ Dialogue /\ Attach => Dialogue'
<1>. SUFFICES ASSUME Written, Dialogue, Attach PROVE Dialogue'
  OBVIOUS
<1>1. /\ UNCHANGED <<ctl, rep, inbox, outbox, dial, at, step, me, conf, crashes>>
      /\ at # "exit"
  BY OverIs DEF Attach, ctlVars, peerVars, programVars, whoVars
<1>2. dial[me] # "dead"
  BY <1>1, DialIs DEF Dialogue, Written, InLoop
<1>3. Request' = Request
  BY <1>1 DEF Request
<1>4. NoneElse'
  BY <1>1, OthersStay DEF Dialogue
<1>5. at = "recv" => dial[me] = DialOf(Request) /\ (Sent \/ Served \/ Answered \/ Lost)'
  <2>1. SUFFICES ASSUME at = "recv"
                 PROVE  dial[me] = DialOf(Request) /\ (Sent \/ Served \/ Answered \/ Lost)'
    OBVIOUS
  <2>2. dial[me] = DialOf(Request) /\ (Sent \/ Served \/ Answered \/ Lost)
    BY <2>1 DEF Dialogue
  <2>. QED
    BY <1>1, <1>3, <2>2 DEF Sent, Served, Serves, Answered, Lost, Listening, Restarted
<1>. QED
  BY <1>1, <1>2, <1>3, <1>4, <1>5 DEF Dialogue, Listening, Restarted

\* When the server dies, the request on its way is kept by the peer's socket and
\* that with the server is lost.
LEMMA KillDialogue ==
  ASSUME TypeOK, Written, Dialogue, me \in Peers, crashes \in Nat, Kill
  PROVE  Dialogue'
<1>1. /\ ctl' = "down" /\ rep' = NoPeer /\ dial' = dial /\ crashes' > 0 /\ ~pulling'
      /\ UNCHANGED <<at, step, me, conf>>
  BY DEF Kill, Terminate, DAQReset, programVars
<1>2. \A p \in Peers : /\ inbox'[p] = inbox[p] \/ inbox'[p] = NoMsg
                       /\ outbox'[p] = outbox[p] \/ outbox'[p] = "none"
                       /\ inbox'[p] # inbox[p] => outbox'[p] = "none"
                       /\ outbox'[p] # outbox[p] => inbox'[p] = NoMsg
  BY DEF Kill, Terminate, TypeOK
<1>3. Request' = Request
  BY <1>1 DEF Request
<1>4. NoneElse'
  BY <1>1, <1>2 DEF Dialogue, NoneElse
<1>. USE DEF Listening, Restarted
<1>5. CASE at = "recv"
  <2>1. dial[me] = DialOf(Request) /\ (Sent \/ Served \/ Answered \/ Lost)
    BY <1>5 DEF Dialogue
  <2>2. (Sent \/ Answered \/ Lost)'
    BY <1>1, <1>2, <1>3, <2>1 DEF Sent, Served, Answered, Lost
  <2>. QED
    BY <1>1, <1>3, <1>4, <1>5, <2>1, <2>2, DialIs, InRecv DEF DialOf
<1>6. CASE at # "recv"
  BY <1>1, <1>2, <1>3, <1>4, <1>6 DEF Dialogue
<1>. QED
  BY <1>5, <1>6

\* The program sends its next request.
LEMMA SendDialogue ==
  ASSUME TypeOK, Written, Dialogue, me \in Peers, SendRequest
  PROVE  Dialogue'
<1>1. /\ at = "send" /\ at' = "recv" /\ UNCHANGED <<ctl, rep, step, me, conf, crashes>>
  BY DEF SendRequest, Program!Send, PeerSendConfig, PeerSendChannel, PeerCall,
         PeerSend, ctlVars, whoVars
<1>2. Request' = Request
  BY <1>1 DEF Request
<1>3. /\ Request = "yaml" => Request \notin Channels
      /\ Request \in CmdTags \/ Request = "yaml" \/ Request \in Channels
  <2>1. step \in 1 .. 9
    BY DEF Written
  <2>. QED
    BY <2>1, Requests DEF Request
<1>4. LET m == [tag |-> Request, val |-> IF Request = "yaml" THEN conf ELSE NoVal]
      IN  PeerSend(me, m, DialOf(Request))
  BY <1>3 DEF SendRequest, PeerSendConfig, PeerSendChannel, PeerCall, Message, DialOf
<1>5. /\ inbox'[me] = [tag |-> Request, val |-> IF Request = "yaml" THEN conf ELSE NoVal]
      /\ dial'[me] = DialOf(Request) /\ outbox'[me] = "none"
      /\ \A p \in Peers \ {me} : inbox'[p] = inbox[p] /\ outbox'[p] = outbox[p]
                                 /\ dial'[p] = dial[p]
  BY <1>4 DEF PeerSend, TypeOK
<1>6. Listening(WaitsAt(Request)) /\ NoneElse
  BY <1>1 DEF Dialogue
<1>7. Sent'
  BY <1>1, <1>2, <1>5, <1>6 DEF Sent, Listening, Restarted
<1>8. NoneElse'
  BY <1>1, <1>5, <1>6, OthersStay
<1>. QED
  BY <1>1, <1>2, <1>5, <1>7, <1>8, DialIs, InRecv DEF DialOf

\* The program has its answer.
LEMMA ReplyDialogue ==
  ASSUME TypeOK, Written, Dialogue, me \in Peers, RecvReply
  PROVE  Dialogue'
<1>1. /\ at = "recv" /\ outbox[me] # "none"
      /\ UNCHANGED <<ctl, rep, inbox, me, conf, crashes>>
  BY DEF RecvReply, Program!GotReply, PeerDone, ctlVars, whoVars, vars, peerVars
<1>2. /\ NoneElse /\ Answered /\ dial[me] = DialOf(Request)
      /\ inbox[me] = NoMsg /\ Listening(GoesTo(Request))
  BY <1>1 DEF Dialogue, Sent, Served, Answered, Lost
<1>3. CASE Request \in {"config", "temp"}
  <2>1. step \in {1, 4, 6} /\ (Request = "config" => step = 1)
        /\ (Request = "temp" => step \in {4, 6})
    BY <1>3, StepIs, Requests DEF Request
  <2>2. at' = "send" /\ step' = step + 1 /\ UNCHANGED <<outbox, dial>>
    BY <1>3 DEF RecvReply, Program!GotReply, Request, vars, peerVars
  <2>3. /\ Request' \in Seconds /\ WaitsAt(Request)' = GoesTo(Request)
    BY <1>3, <2>1, <2>2, ScriptIs DEF Request, Seconds, Channels, WaitsAt, GoesTo
  <2>4. NoneElse'
    BY <1>1, <1>2, <2>2, OthersStay
  <2>. QED
    BY <1>1, <1>2, <1>3, <2>2, <2>3, <2>4 DEF Dialogue, Listening, Restarted, DialOf, Channels
<1>4. CASE Request \notin {"config", "temp"}
  <2>1. /\ dial' = [dial EXCEPT ![me] = "free"]
        /\ outbox' = [outbox EXCEPT ![me] = "none"]
    BY <1>4 DEF RecvReply, PeerDone
  <2>2. /\ dial'[me] = "free" /\ outbox'[me] = "none"
        /\ \A p \in Peers \ {me} : outbox'[p] = outbox[p] /\ dial'[p] = dial[p]
    BY <2>1 DEF TypeOK
  <2>3. NoneElse'
    BY <1>1, <1>2, <2>2, OthersStay
  <2>4. /\ step \in {2, 3, 5, 7, 8, 9}
        /\ Request = "start" <=> step = 8
        /\ Request = "stop" <=> step = 9
    BY <1>4, StepIs, Requests DEF Request
  <2>5. Listening("recv")
    BY <1>2, <1>4 DEF GoesTo
  <2>6. \/ at' \in {"loop", "exit"} /\ step' = step
        \/ step \in {2, 3, 5, 7} /\ at' = "send" /\ step' = step + 1
    BY <2>4 DEF RecvReply, Program!GotReply, Program!Leave, Request
  <2>7. CASE at' \in {"loop", "exit"}
    BY <1>1, <1>2, <2>2, <2>3, <2>5, <2>7 DEF Dialogue, Listening, Restarted
  <2>8. CASE step \in {2, 3, 5, 7} /\ at' = "send" /\ step' = step + 1
    <3>1. Request' \in {"bias", "temp", "start"}
      BY <2>8, ScriptIs DEF Request
    <3>2. Request' \notin Seconds /\ WaitsAt(Request)' = "recv"
      BY <3>1 DEF Seconds, Channels, WaitsAt
    <3>. QED
      BY <1>1, <1>2, <2>2, <2>3, <2>5, <2>8, <3>2 DEF Dialogue, Listening, Restarted
  <2>. QED
    BY <2>6, <2>7, <2>8
<1>. QED
  BY <1>3, <1>4

\* A program is gone; another one begins.
LEMMA DepartDialogue ==
  ASSUME TypeOK, Written, Dialogue, me \in Peers, Depart
  PROVE  Dialogue'
<1>1. /\ at = "exit" /\ ~pulling' /\ UNCHANGED <<at, step, ctl, rep, inbox, me, crashes>>
      /\ dial' = [dial EXCEPT ![me] = "dead"]
      /\ outbox' = [outbox EXCEPT ![me] = "none"]
  BY OverIs DEF Depart, ctlVars, programVars, whoVars
<1>2. /\ dial'[me] = "dead" /\ outbox'[me] = "none"
      /\ \A p \in Peers \ {me} : outbox'[p] = outbox[p] /\ dial'[p] = dial[p]
  BY <1>1 DEF TypeOK
<1>3. NoneElse /\ inbox[me] = NoMsg /\ Listening("recv")
  BY <1>1 DEF Dialogue
<1>4. NoneElse'
  BY <1>1, <1>2, <1>3, OthersStay
<1>. QED
  BY <1>1, <1>2, <1>3, <1>4 DEF Dialogue, Listening, Restarted

\* The next program begins where the last one was answered or has gone.
LEMMA LaunchDialogue ==
  ASSUME TypeOK, Written, Dialogue, me \in Peers, Launch
  PROVE  Dialogue'
<1>1. /\ at = "exit" /\ dial[me] = "dead" /\ at' = "send" /\ step' = 1
      /\ me' \in Peers /\ dial[me'] = "free"
  BY OverIs DEF Launch
<1>2. UNCHANGED <<ctl, rep, inbox, outbox, dial, pulling, crashes>>
  BY DEF Launch, vars, daqVars, ctlVars, peerVars
<1>3. NoneElse /\ inbox[me] = NoMsg /\ outbox[me] = "none" /\ Listening("recv")
  BY <1>1 DEF Dialogue
<1>4. inbox[me'] = NoMsg /\ outbox[me'] = "none"
  BY <1>1, <1>3 DEF NoneElse
<1>5. NoneElse'
  BY <1>1, <1>2, <1>3 DEF NoneElse
<1>6. Request' = "config"
  BY <1>1, ScriptIs DEF Request
<1>7. Request' \notin Seconds /\ WaitsAt(Request)' = "recv"
  BY <1>6 DEF Seconds, Channels, WaitsAt
<1>. QED
  BY <1>1, <1>2, <1>3, <1>4, <1>5, <1>7 DEF Dialogue, Listening, Restarted

\* Program and server are each where the other expects it to be.
LEMMA DialogueStep ==
  ASSUME ~aborted', TypeOK, Written, Dialogue, me \in Peers, crashes \in Nat,
         [SysNext]_sysVars
  PROVE  Dialogue'
<1>1. CASE ServerStep
  BY <1>1, ElsewhereDialogue, HandlerDialogue, RecvDialogue, RestartDialogue
     DEF ServerStep
<1>. QED
  BY <1>1, ElsewhereDialogue, AttachDialogue, KillDialogue, SendDialogue,
     ReplyDialogue, DepartDialogue, LaunchDialogue DEF SysNext, ProgramStep

-----------------------------------------------------------------------------
(* What the server's answers say.                                          *)

\* "Stopped" is the answer to "stop", and the thread has been joined by then.
LEMMA StopAnsweredStep ==
  ASSUME ~aborted', TypeOK, Written, Dialogue, StopAnswered, me \in Peers,
         [SysNext]_sysVars
  PROVE  StopAnswered'
<1>. USE DEF StopAnswered
<1>0. Request = "stop" <=> step = 9
  BY StepIs, Requests DEF Request
<1>1. CASE AcquisitionStep /\ UNCHANGED <<programVars, whoVars>>
  <2>1. thr # "none" /\ UNCHANGED <<outbox, at, step, me>>
    BY <1>1 DEF AcquisitionStep, peerVars, programVars, whoVars, ThreadStep, Enter,
         LoopEnd, SeeStop, ClearStop, LoopBody, Acquire, Read, Send, Post
  <2>. QED
    BY <2>1 DEF Request
<1>2. CASE Restart /\ UNCHANGED <<programVars, whoVars>>
  BY <1>2 DEF Restart, peerVars, daqVars, programVars, whoVars, Request
<1>3. CASE HandlerStep /\ UNCHANGED <<programVars, whoVars>>
  <2>1. at = "recv" /\ Served /\ UNCHANGED <<at, step, me>>
    BY <1>3, HandlerCases DEF programVars, whoVars
  <2>2. outbox[me] = "none" /\ rep = me /\ Serves(ctl, Request)
    BY <2>1 DEF Served
  <2>3. CASE CmdStopJoin
    <3>1. Request = "stop" /\ thr' = "none"
      BY <2>2, <2>3 DEF CmdStopJoin, join_daq_thread, Serves, CmdTags, Channels
    <3>. QED
      BY <2>1, <3>1 DEF Request
  <2>4. CASE ~CmdStopJoin
    <3>1. outbox'[me] # "Stopped"
      <4>1. ~CmdNone /\ ~TempThrow
        BY <1>3, HandlerCases
      <4>2. \/ outbox' = outbox
            \/ \E m \in {"Unknowncmd", "Runing", "Ready", "Volts"} : Reply(m)
        BY <1>3, <2>4, <4>1 DEF HandlerStep, CmdUnknown, CmdStartJoin,
         CmdStartConfigure, CmdStartLaunch, CmdStartReply, CmdStop, CmdConfig,
         CmdTemp, TempConvert, TempReply, CmdBias, peerVars
      <4>. QED
        BY <2>2, <4>2 DEF Reply
    <3>2. CASE Request = "stop"
      <4>1. ctl \in {"stop", "stop.join"}
        BY <2>2, <3>2 DEF Serves, CmdTags, Channels, Seconds
      <4>2. CmdStop
        BY <1>3, <2>4, <4>1 DEF HandlerStep, CmdNone, CmdUnknown, CmdStartJoin,
         CmdStartConfigure, CmdStartLaunch, CmdStartReply, CmdConfig,
         CmdTemp, TempConvert, TempReply, CmdBias, TempThrow
      <4>. QED
        BY <2>1, <2>2, <4>2 DEF CmdStop, peerVars
    <3>3. CASE Request # "stop"
      BY <2>1, <3>1, <3>3 DEF Request
    <3>. QED
      BY <3>2, <3>3
  <2>. QED
    BY <2>3, <2>4
<1>4. CASE \E p \in Peers : RecvStep(p) /\ UNCHANGED <<programVars, whoVars>>
  <2>1. PICK p \in Peers : RecvStep(p) /\ UNCHANGED <<programVars, whoVars>>
    BY <1>4
  <2>2. at = "recv" /\ outbox[me] = "none" /\ UNCHANGED <<at, step, me>>
    BY <2>1, RecvCases DEF Sent, programVars, whoVars
  <2>3. outbox'[me] = "none" \/ (outbox'[me] = "Configured" /\ Request = "yaml")
    BY <2>1, <2>2, RecvCases
       DEF RecvCommand, ConfigApply, ChannelValid, ReplyTo, TypeOK
  <2>. QED
    BY <2>2, <2>3 DEF Request
<1>5. CASE Attach
  BY <1>5 DEF Attach, PullAttach, peerVars, programVars, whoVars, Request
<1>6. CASE Kill
  <2>1. thr' = "none" /\ UNCHANGED <<at, step, me>>
    BY <1>6 DEF Kill, Terminate, DAQReset, programVars
  <2>2. outbox'[me] \in {outbox[me], "none"}
    BY <1>6 DEF Kill, Terminate
  <2>. QED
    BY <2>1, <2>2 DEF Request
<1>7. CASE SendRequest
  <2>1. outbox'[me] = "none" /\ me' = me
    BY <1>7 DEF SendRequest, PeerSendConfig, PeerSendChannel, PeerCall, PeerSend,
         whoVars, TypeOK
  <2>. QED
    BY <2>1
<1>8. CASE RecvReply
  <2>1. at' # "recv" /\ me' = me
    BY <1>8 DEF RecvReply, Program!GotReply, Program!Leave, whoVars
  <2>2. CASE Request \in {"config", "temp"}
    BY <1>8, <2>1, <2>2 DEF RecvReply, vars, peerVars
  <2>3. CASE Request \notin {"config", "temp"}
    <3>1. outbox'[me] = "none"
      BY <1>8, <2>3 DEF RecvReply, PeerDone, TypeOK
    <3>. QED
      BY <2>1, <3>1
  <2>. QED
    BY <2>2, <2>3
<1>9. CASE RecvEvent \/ LocalStep \/ Interrupted
  <2>1. UNCHANGED <<outbox, me, thr>>
    BY <1>9, LocalMoves
  <2>2. UNCHANGED <<at, step>> \/ (at \in InLoop /\ at' # "recv")
    BY <1>9, LocalMoves DEF InLoop
  <2>3. at \in InLoop => outbox[me] = "none"
    BY DEF Dialogue, InLoop
  <2>. QED
    BY <2>1, <2>2, <2>3 DEF Request
<1>10. CASE Depart
  <2>1. outbox'[me] = "none" /\ me' = me
    BY <1>10 DEF Depart, whoVars, TypeOK
  <2>. QED
    BY <2>1
<1>11. CASE Launch
  <2>1. me' \in Peers \ {me} /\ outbox' = outbox /\ at' = "send"
    BY <1>11 DEF Launch, vars, peerVars
  <2>2. outbox[me'] = "none"
    BY <2>1 DEF Dialogue, NoneElse
  <2>. QED
    BY <2>1, <2>2
<1>12. CASE UNCHANGED sysVars
  BY <1>12 DEF sysVars, vars, daqVars, peerVars, programVars, whoVars, Request
<1>. QED
  BY <1>1, <1>2, <1>3, <1>4, <1>5, <1>6, <1>7, <1>8, <1>9, <1>10, <1>11, <1>12
     DEF SysNext, ProgramStep, ServerStep

-----------------------------------------------------------------------------
(* The configuration that a run has.                                       *)

\* Steps of the server that are neither a handler's nor a receive.
LEMMA QuietMoves ==
  ASSUME \/ AcquisitionStep /\ UNCHANGED <<programVars, whoVars>>
         \/ Restart /\ UNCHANGED <<programVars, whoVars>>
         \/ Attach \/ UNCHANGED sysVars
  PROVE  /\ UNCHANGED <<at, step, taken, log, me, conf, crashes>>
         /\ UNCHANGED <<rep, settings, inbox, outbox, dial, daq, ltc>>
         /\ ctl' = ctl \/ (ctl = "down" /\ ctl' = "recv")
BY DEF AcquisitionStep, Restart, Attach, PullAttach, sysVars, vars, daqVars, ctlVars,
       peerVars, programVars, whoVars, ThreadStep, Enter, LoopEnd, SeeStop, ClearStop,
       LoopBody, Acquire, Read, Send, Post, daqRest

\* A run begins by cmd_start's third call, and is the program's to its end.
LEMMA BegunStep ==
  ASSUME ~aborted', TypeOK, Written, Dialogue, me \in Peers, [SysNext]_sysVars
  PROVE  /\ Begun' => Begun \/ (CmdStartLaunch /\ Request = "start")
         /\ Begun /\ ~Launch /\ ~(Kill /\ AtStart) => Begun'
<1>. USE DEF Begun
<1>0. /\ Request = "start" <=> step = 8
      /\ Request = "stop" <=> step = 9
      /\ step \in 1 .. 9
      /\ Request \in {"config", "temp"} => step \in {1, 4, 6}
      /\ Request = "yaml" <=> step = 2
  BY StepIs, Requests DEF Request
<1>1. CASE \/ AcquisitionStep /\ UNCHANGED <<programVars, whoVars>>
           \/ Restart /\ UNCHANGED <<programVars, whoVars>>
           \/ Attach \/ UNCHANGED sysVars
  BY <1>1, QuietMoves
<1>3. CASE HandlerStep /\ UNCHANGED <<programVars, whoVars>>
  <2>1. at = "recv" /\ Served /\ UNCHANGED <<at, step, me>>
    BY <1>3, HandlerCases DEF programVars, whoVars
  <2>2. outbox[me] = "none" /\ rep = me /\ Serves(ctl, Request)
    BY <2>1 DEF Served
  <2>3. CASE step = 8
    <3>1. ctl \in {"start", "start.conf", "start.run", "start.reply"}
      BY <1>0, <2>2, <2>3 DEF Serves, CmdTags, Channels, Seconds
    <3>2. CmdStartJoin \/ CmdStartConfigure \/ CmdStartLaunch \/ CmdStartReply
      BY <1>3, <3>1 DEF HandlerStep, CmdNone, CmdUnknown, CmdStop, CmdStopJoin, CmdConfig,
         CmdTemp, TempConvert, TempReply, CmdBias, TempThrow
    <3>3. CASE CmdStartReply
      <4>1. outbox'[me] # "none"
        BY <1>3, <2>1, <2>2, <3>3, HandlerDialogue
           DEF CmdStartReply, Served, Answered, Serves, CmdTags, Seconds, Channels
      <4>. QED
        BY <2>1, <2>3, <3>3, <4>1 DEF CmdStartReply
    <3>4. CASE CmdStartJoin \/ CmdStartConfigure \/ CmdStartLaunch
      BY <1>0, <2>1, <2>2, <2>3, <3>4
         DEF CmdStartJoin, CmdStartConfigure, CmdStartLaunch, peerVars
    <3>. QED
      BY <3>2, <3>3, <3>4
  <2>. QED
    BY <2>1, <2>3
<1>4. CASE \E p \in Peers : RecvStep(p) /\ UNCHANGED <<programVars, whoVars>>
  <2>1. PICK p \in Peers : RecvStep(p) /\ UNCHANGED <<programVars, whoVars>>
    BY <1>4
  <2>2. at = "recv" /\ Sent /\ UNCHANGED <<at, step, me>>
    BY <2>1, RecvCases DEF programVars, whoVars
  <2>3. outbox[me] = "none" /\ ctl # "start.reply"
    BY <2>2 DEF Sent, Listening, Restarted, WaitsAt
  <2>4. step = 8 => outbox'[me] = "none" /\ ctl' # "start.reply"
    BY <1>0, <2>1, <2>2, <2>3, RecvCases
       DEF RecvCommand, ChannelValid, Handler, Channels, CmdTags
  <2>. QED
    BY <2>2, <2>3, <2>4
<1>6. CASE Kill
  <2>1. ctl' = "down" /\ UNCHANGED <<at, step, me>>
    BY <1>6 DEF Kill, Terminate, programVars
  <2>2. outbox'[me] \in {outbox[me], "none"}
    BY <1>6 DEF Kill, Terminate
  <2>. QED
    BY <1>6, <2>1, <2>2 DEF AtStart
<1>7. CASE SendRequest
  <2>1. /\ outbox'[me] = "none" /\ me' = me /\ ctl' = ctl
        /\ at = "send" /\ at' = "recv" /\ step' = step
    BY <1>7 DEF SendRequest, Program!Send, PeerSendConfig, PeerSendChannel, PeerCall,
         PeerSend, whoVars, ctlVars, TypeOK
  <2>2. ctl # "start.reply"
    BY <2>1 DEF Dialogue, Listening, Restarted, WaitsAt
  <2>. QED
    BY <2>1, <2>2
<1>8. CASE RecvReply
  <2>1. /\ at = "recv" /\ outbox[me] # "none"
        /\ \/ step = 8 /\ at' = "loop" /\ step' = step
           \/ step = 9 /\ step' = step
           \/ step < 8 /\ at' = "send" /\ step' = step + 1
    BY <1>0, <1>8 DEF RecvReply, Program!GotReply, Request
  <2>. QED
    BY <1>0, <2>1
<1>9. CASE RecvEvent \/ LocalStep \/ Interrupted
  <2>1. at \in InLoop => step = 8
    BY DEF Written
  <2>. QED
    BY <1>9, <2>1, LocalMoves DEF InLoop
<1>10. CASE Depart
  <2>1. at = "exit" /\ UNCHANGED <<at, step>>
    BY <1>10, OverIs DEF Depart, programVars
  <2>. QED
    BY <2>1
<1>11. CASE Launch
  BY <1>11 DEF Launch
<1>. QED
  BY <1>1, <1>3, <1>4, <1>6, <1>7, <1>8, <1>9, <1>10, <1>11
     DEF SysNext, ProgramStep, ServerStep

\* The server has a configuration of the program by applying it, or loses all.
LEMMA ToldStep ==
  ASSUME ~aborted', TypeOK, Written, Dialogue, me \in Peers, [SysNext]_sysVars
  PROVE  Told' => \/ Told /\ ~Launch
                  \/ Kill
                  \/ settings' = parse_config(conf) /\ UNCHANGED whoVars
<1>. USE DEF Told
<1>0. /\ Request = "config" <=> step = 1
      /\ Request = "yaml" <=> step = 2
      /\ step \in 1 .. 9
  BY StepIs, Requests DEF Request
<1>1. CASE \/ AcquisitionStep /\ UNCHANGED <<programVars, whoVars>>
           \/ Restart /\ UNCHANGED <<programVars, whoVars>>
           \/ Attach \/ UNCHANGED sysVars
  <2>1. /\ UNCHANGED <<at, step, rep, inbox, outbox, me, crashes>>
        /\ ctl' = ctl \/ (ctl = "down" /\ ctl' = "recv")
    BY <1>1, QuietMoves
  <2>2. step = 1 /\ Answered' => Answered
    BY <1>0, <2>1 DEF Answered, Request, Listening, Restarted, GoesTo
  <2>3. ~Launch
    BY <2>1 DEF Launch, Over, Program!Ended
  <2>. QED
    BY <2>1, <2>2, <2>3
<1>3. CASE HandlerStep /\ UNCHANGED <<programVars, whoVars>>
  <2>1. at = "recv" /\ Served /\ UNCHANGED <<at, step, me>>
    BY <1>3, HandlerCases DEF programVars, whoVars
  <2>2. Serves(ctl, Request) /\ ~Launch
    BY <2>1 DEF Served, Launch, Over, Program!Ended
  <2>3. CASE step = 1
    <3>1. ctl = "config"
      BY <1>0, <2>2, <2>3 DEF Serves, Channels, Seconds
    <3>2. ctl' = "config.recv"
      BY <1>3, <3>1 DEF HandlerStep, CmdNone, CmdUnknown, CmdStartJoin,
         CmdStartConfigure, CmdStartLaunch, CmdStartReply, CmdStop, CmdStopJoin, CmdConfig,
         CmdTemp, TempConvert, TempReply, CmdBias, TempThrow
    <3>. QED
      BY <2>1, <2>3, <3>2
  <2>4. CASE step = 2
    BY <1>0, <2>2, <2>4 DEF Serves, CmdTags, Channels
  <2>. QED
    BY <1>0, <2>1, <2>2, <2>3, <2>4
<1>4. CASE \E p \in Peers : RecvStep(p) /\ UNCHANGED <<programVars, whoVars>>
  <2>1. PICK p \in Peers : RecvStep(p) /\ UNCHANGED <<programVars, whoVars>>
    BY <1>4
  <2>2. at = "recv" /\ Sent /\ UNCHANGED <<at, step, me>> /\ ~Launch
    BY <2>1, RecvCases DEF programVars, whoVars, Launch, Over, Program!Ended
  <2>3. outbox[me] = "none"
    BY <2>2 DEF Sent
  <2>4. CASE RecvCommand(me)
    <3>1. outbox'[me] = "none" /\ ctl = "recv"
      BY <2>3, <2>4 DEF RecvCommand
    <3>. QED
      BY <2>2, <3>1 DEF Answered
  <2>5. CASE Request \in Channels
    BY <1>0, <2>2, <2>5 DEF Channels
  <2>6. CASE Request = "yaml" /\ ConfigApply(me)
    BY <2>1, <2>2, <2>6 DEF Sent, ConfigApply
  <2>. QED
    BY <2>1, <2>4, <2>5, <2>6, RecvCases
<1>6. CASE Kill
  BY <1>6
<1>7. CASE SendRequest
  <2>1. /\ outbox'[me] = "none" /\ me' = me /\ ctl' = ctl /\ step' = step /\ at' = "recv"
    BY <1>7 DEF SendRequest, Program!Send, PeerSendConfig, PeerSendChannel, PeerCall,
         PeerSend, whoVars, ctlVars, TypeOK
  <2>. QED
    BY <2>1 DEF Answered, Launch
<1>8. CASE RecvReply
  <2>1. /\ at = "recv" /\ outbox[me] # "none" /\ ctl' = ctl
        /\ \/ step \in {8, 9} /\ step' = step
           \/ step < 8 /\ at' = "send" /\ step' = step + 1
    BY <1>0, <1>8, Requests
       DEF RecvReply, Program!GotReply, Request, PeerDone, vars, ctlVars
  <2>2. Answered
    BY <2>1 DEF Dialogue, Sent, Served, Answered, Lost
  <2>3. step = 2 => ctl # "config.recv"
    BY <1>0, <2>2 DEF Answered, Listening, Restarted, GoesTo, Channels
  <2>4. ~Launch
    BY <2>1 DEF Launch, Over, Program!Ended
  <2>. QED
    BY <1>0, <2>1, <2>2, <2>3, <2>4
<1>9. CASE RecvEvent \/ LocalStep \/ Interrupted
  <2>1. at \in InLoop => step = 8
    BY DEF Written
  <2>2. UNCHANGED <<ctl, rep, inbox, outbox, me, crashes>>
    BY <1>9, LocalMoves
  <2>3. CASE UNCHANGED <<at, step>>
    <3>1. Answered' = Answered
      BY <2>2, <2>3 DEF Answered, Request, Listening, Restarted
    <3>2. ~Launch
      BY <2>2, <1>9 DEF Launch, RecvEvent, LocalStep, Interrupted, Over, Program!Ended,
         Program!GotEvent, Program!Loop, Program!SeeStop, Program!GoOn, Program!Write,
         Program!QuietSignal, Program!DataError
    <3>. QED
      BY <2>2, <2>3, <3>1, <3>2
  <2>4. CASE at \in InLoop
    <3>1. ~Launch
      BY <2>4 DEF Launch, Over, Program!Ended, InLoop
    <3>. QED
      BY <2>1, <2>4, <3>1
  <2>. QED
    BY <1>9, <2>3, <2>4, LocalMoves
<1>10. CASE Depart
  <2>1. at = "exit" /\ UNCHANGED <<at, step, ctl>>
    BY <1>10, OverIs DEF Depart, programVars, ctlVars
  <2>2. step \in {8, 9}
    BY <2>1 DEF Written
  <2>3. ~Launch
    BY <2>1 DEF Launch
  <2>. QED
    BY <2>1, <2>2, <2>3
<1>11. CASE Launch
  <2>1. step' = 1 /\ at' = "send"
    BY <1>11 DEF Launch
  <2>. QED
    BY <2>1
<1>. QED
  BY <1>1, <1>3, <1>4, <1>6, <1>7, <1>8, <1>9, <1>10, <1>11
     DEF SysNext, ProgramStep, ServerStep

\* Only the program's configuration and a new process set the settings.
LEMMA SettingsStep ==
  ASSUME Written, Dialogue, me \in Peers, [SysNext]_sysVars
  PROVE  \/ settings' = settings
         \/ Kill
         \/ settings' = parse_config(conf) /\ UNCHANGED whoVars
<1>1. CASE \/ AcquisitionStep /\ UNCHANGED <<programVars, whoVars>>
           \/ Restart /\ UNCHANGED <<programVars, whoVars>>
           \/ Attach \/ UNCHANGED sysVars
  BY <1>1, QuietMoves
<1>2. CASE HandlerStep /\ UNCHANGED <<programVars, whoVars>>
  <2>1. ~TempThrow
    BY <1>2, HandlerCases
  <2>. QED
    BY <1>2, <2>1 DEF HandlerStep, CmdNone, CmdUnknown, CmdStartJoin,
         CmdStartConfigure, CmdStartLaunch, CmdStartReply, CmdStop, CmdStopJoin, CmdConfig,
         CmdTemp, TempConvert, TempReply, CmdBias, Reply
<1>3. CASE \E p \in Peers : RecvStep(p) /\ UNCHANGED <<programVars, whoVars>>
  <2>1. PICK p \in Peers : RecvStep(p) /\ UNCHANGED <<programVars, whoVars>>
    BY <1>3
  <2>2. Request = "yaml" => Sent /\ inbox[me].val = conf
    BY <2>1, RecvCases DEF Sent
  <2>. QED
    BY <2>1, <2>2, RecvCases DEF RecvCommand, ConfigApply, ChannelValid
<1>4. CASE SendRequest \/ RecvReply \/ Depart \/ Launch
  BY <1>4 DEF SendRequest, PeerSendConfig, PeerSendChannel, PeerCall, PeerSend,
       RecvReply, PeerDone, Depart, Launch, vars, ctlVars
<1>5. CASE RecvEvent \/ LocalStep \/ Interrupted
  BY <1>5 DEF RecvEvent, LocalStep, Interrupted, vars, ctlVars
<1>. QED
  BY <1>1, <1>2, <1>3, <1>4, <1>5 DEF SysNext, ProgramStep, ServerStep

\* Only configure and a new process set the members of thread and driver, and
\* only configure is followed by the start of a thread.
LEMMA MembersStep ==
  ASSUME Written, Dialogue, me \in Peers, [SysNext]_sysVars
  PROVE  /\ UNCHANGED <<daq, ltc>> \/ Kill \/ CmdStartConfigure
         /\ ctl' = "start.run" => ctl = "start.run" \/ CmdStartConfigure
<1>1. CASE \/ AcquisitionStep /\ UNCHANGED <<programVars, whoVars>>
           \/ Restart /\ UNCHANGED <<programVars, whoVars>>
           \/ Attach \/ UNCHANGED sysVars
  BY <1>1, QuietMoves
<1>2. CASE HandlerStep
  <2>1. ~TempThrow
    BY <1>2, HandlerCases
  <2>. QED
    BY <1>2, <2>1 DEF HandlerStep, CmdNone, CmdUnknown, CmdStartJoin,
         CmdStartLaunch, CmdStartReply, CmdStop, CmdStopJoin, CmdConfig,
         CmdTemp, TempConvert, TempReply, CmdBias, daqRest, daqVars,
         start_daq_thread, stop_daq_thread, join_daq_thread
<1>3. CASE \E p \in Peers : RecvStep(p)
  <2>1. \E p \in Peers : RecvCommand(p) \/ ConfigApply(p) \/ ChannelValid(p)
    BY <1>3, RecvCases
  <2>. QED
    BY <2>1 DEF RecvCommand, ConfigApply, ChannelValid, daqVars, Handler, CmdTags
<1>4. CASE Kill
  BY <1>4 DEF Kill, Terminate
<1>5. CASE SendRequest \/ RecvReply \/ Depart \/ Launch
  BY <1>5 DEF SendRequest, PeerSendConfig, PeerSendChannel, PeerCall, PeerSend,
       RecvReply, PeerDone, Depart, Launch, vars, ctlVars, daqVars
<1>6. CASE RecvEvent \/ LocalStep \/ Interrupted
  BY <1>6 DEF RecvEvent, PullRecv, LocalStep, Interrupted, vars, ctlVars, daqVars
<1>. QED
  BY <1>1, <1>2, <1>3, <1>4, <1>5, <1>6 DEF SysNext, ProgramStep, ServerStep

\* cmd_start configures the thread when its program has configured the server.
LEMMA StartCases ==
  ASSUME Written, Dialogue, me \in Peers
  PROVE  /\ ctl = "start.run" => at = "recv" /\ step = 8
         /\ CmdStartConfigure => at = "recv" /\ step = 8
<1>1. /\ Request = "start" <=> step = 8
  BY StepIs, Requests DEF Request
<1>2. ASSUME ctl \in {"start.conf", "start.run"}
      PROVE  at = "recv" /\ step = 8
  <2>1. \A r : WaitsAt(r) # ctl /\ GoesTo(r) # ctl
    BY <1>2 DEF WaitsAt, GoesTo
  <2>2. at = "recv" /\ Served
    BY <1>2, <2>1 DEF Dialogue, Sent, Answered, Lost, Listening, Restarted
  <2>3. Request = "start"
    BY <1>2, <2>2 DEF Served, Serves, CmdTags
  <2>. QED
    BY <1>1, <2>2, <2>3
<1>. QED
  BY <1>2 DEF CmdStartConfigure

\* A configuration that is applied is kept, every key that it has.
LEMMA ConfIs ==
  ASSUME conf \in Payloads
  PROVE  Keeps(parse_config(conf), conf) /\ conf.ntrig \in Int32
<1>1. conf.ntrig \in Int32 /\ {"ntrig", "reads"} \subseteq DOMAIN conf
  BY SystemAssumption, PayloadsAssumption
<1>. QED
  BY <1>1 DEF parse_config, Keeps

\* configure gives thread and driver what the settings keep.
LEMMA ConfigureFollows ==
  ASSUME NEW c, Keeps(settings, c), configure(settings)
  PROVE  Follows(daq, c)' /\ DriverFollows(ltc, c)'
<1>1. Follows(daq', c) /\ DriverFollows(ltc', c)
  BY DEF Keeps, configure, Follows, DriverFollows
<1>. QED
  BY <1>1 DEF Follows, DriverFollows

\* While a program asks, it goes from request to request.
LEMMA TalkStep ==
  ASSUME ~aborted', Written, Dialogue, me \in Peers, [SysNext]_sysVars, ~Launch,
         at' \in {"send", "recv"}, step' < 9
  PROVE  /\ at \in {"send", "recv"} /\ step < 9
         /\ at' = "recv" => step' = step
<1>1. CASE ServerStep \/ Attach \/ Kill \/ Depart \/ UNCHANGED sysVars
  BY <1>1 DEF ServerStep, Attach, Kill, Depart, sysVars, programVars
<1>2. CASE SendRequest
  BY <1>2 DEF SendRequest, Program!Send
<1>3. CASE RecvReply
  <2>1. at = "recv" /\ (step' = step \/ (at' = "send" /\ step' = step + 1))
    BY <1>3 DEF RecvReply, Program!GotReply
  <2>. QED
    BY <2>1 DEF Written
<1>4. CASE RecvEvent \/ LocalStep \/ Interrupted
  BY <1>4, LocalMoves DEF InLoop
<1>. QED
  BY <1>1, <1>2, <1>3, <1>4 DEF SysNext, ProgramStep

\* Without a kill or a launch, program and server are who they were; a kill is
\* forgotten of nothing when no program is asking.
LEMMA SameProgram ==
  ASSUME ~aborted', ~forgot', [SysNext]_sysVars
  PROVE  /\ ~forgot
         /\ ~Launch => UNCHANGED <<me, conf>>
         /\ ~Kill => crashes' = crashes
         /\ Kill => /\ UNCHANGED <<at, step>>
                    /\ at = "send" => step \in {1, 9}
                    /\ at = "recv" => step = 9
                    /\ thr' = "none"
<1>1. CASE Kill
  <2>1. ~forgot /\ ~Asking
    BY <1>1 DEF Kill
  <2>. QED
    BY <1>1, <2>1 DEF Kill, Asking, Terminate, DAQReset, programVars
<1>2. CASE ~Kill
  BY <1>2 DEF SysNext, ServerStep, Attach, ProgramStep, SendRequest, RecvReply,
       RecvEvent, LocalStep, Interrupted, Depart, Launch, whoVars, sysVars
<1>. QED
  BY <1>1, <1>2

\* What a step does to the run: the thread moves, or is joined, killed or begun.
LEMMA RunMoves ==
  ASSUME ~aborted', Written, Dialogue, me \in Peers, [SysNext]_sysVars
  PROVE  \/ UNCHANGED <<thr, iTrig, daq>>
         \/ AcquisitionStep /\ UNCHANGED <<programVars, whoVars>>
         \/ thr' = "none" /\ ~Launch
         \/ CmdStartLaunch /\ UNCHANGED <<programVars, whoVars>>
<1>1. CASE ServerStep
  <2>1. CASE HandlerStep
    <3>1. ~TempThrow
      BY <2>1, HandlerCases
    <3>2. ~Launch
      <4>1. at = "recv" /\ UNCHANGED at
        BY <1>1, <2>1, HandlerCases DEF ServerStep, programVars
      <4>. QED
        BY <4>1 DEF Launch
    <3>. QED
      BY <1>1, <2>1, <3>1, <3>2
       DEF ServerStep, HandlerStep, CmdNone, CmdUnknown, CmdStartJoin, CmdStartConfigure,
         CmdStartLaunch, CmdStartReply, CmdStop, CmdStopJoin, CmdConfig,
         CmdTemp, TempConvert, TempReply, CmdBias, daqRest, daqVars,
         stop_daq_thread, join_daq_thread, configure
  <2>2. CASE \E p \in Peers : RecvStep(p)
    <3>1. \E p \in Peers : RecvCommand(p) \/ ConfigApply(p) \/ ChannelValid(p)
      BY <2>2, RecvCases
    <3>. QED
      BY <3>1 DEF RecvCommand, ConfigApply, ChannelValid, daqVars
  <2>3. CASE AcquisitionStep \/ Restart
    BY <1>1, <2>3 DEF ServerStep, Restart, daqVars
  <2>. QED
    BY <1>1, <2>1, <2>2, <2>3 DEF ServerStep
<1>2. CASE Kill
  <2>1. thr' = "none"
    BY <1>2 DEF Kill, Terminate, DAQReset
  <2>2. Launch => UNCHANGED <<thr, iTrig, daq>>
    BY DEF Launch, vars, daqVars
  <2>. QED
    BY <2>1, <2>2
<1>3. CASE Attach \/ SendRequest \/ RecvReply \/ Depart \/ Launch \/ UNCHANGED sysVars
  BY <1>3 DEF Attach, PullAttach, SendRequest, PeerSendConfig, PeerSendChannel, PeerCall,
       PeerSend, RecvReply, PeerDone, Depart, Launch, sysVars, vars, daqVars
<1>4. CASE RecvEvent \/ LocalStep \/ Interrupted
  BY <1>4, LocalMoves
<1>. QED
  BY <1>1, <1>2, <1>3, <1>4 DEF SysNext, ProgramStep

\* What the server was told by the present program is what the run has.
LEMMA SettledStep ==
  ASSUME ~aborted', TypeOK, Written, Dialogue, Settled, me \in Peers,
         conf \in Payloads, crashes \in Nat, [SysNext]_sysVars
  PROVE  Settled'
<1>. SUFFICES ASSUME ~forgot'
              PROVE  /\ (Told /\ at \in {"send", "recv"} /\ step < 9)' => Keeps(settings', conf')
                     /\ Own' => \/ Follows(daq', conf') /\ DriverFollows(ltc', conf')
                                \/ crashes' > 0 /\ thr' = "none" /\ ~AtStart'
  BY DEF Settled, Keeps, Follows, DriverFollows
<1>0. /\ ~forgot
      /\ ~Launch => UNCHANGED <<me, conf>>
      /\ ~Kill => crashes' = crashes
      /\ Kill => /\ UNCHANGED <<at, step>>
                 /\ at = "send" => step \in {1, 9}
                 /\ at = "recv" => step = 9
                 /\ thr' = "none"
  BY SameProgram
<1>1. Launch => ~Told' /\ ~Own'
  BY DEF Launch, Told, Own, Begun
<1>2. ASSUME (Told /\ at \in {"send", "recv"} /\ step < 9)'
      PROVE  Keeps(settings', conf')
  <2>1. ~Launch /\ ~Kill
    BY <1>0, <1>1, <1>2 DEF Told
  <2>2. at \in {"send", "recv"} /\ step < 9 /\ conf' = conf
    BY <1>0, <1>2, <2>1, TalkStep
  <2>3. CASE settings' = parse_config(conf)
    BY <2>2, <2>3, ConfIs
  <2>4. CASE Told /\ settings' = settings
    BY <1>0, <2>2, <2>4 DEF Settled
  <2>. QED
    BY <1>2, <2>1, <2>3, <2>4, ToldStep, SettingsStep
<1>3. ASSUME Own'
      PROVE  \/ Follows(daq', conf') /\ DriverFollows(ltc', conf')
             \/ crashes' > 0 /\ thr' = "none" /\ ~AtStart'
  <2>0. ~Launch /\ conf' = conf
    BY <1>0, <1>1, <1>3
  <2>1. CASE Kill
    <3>1. crashes' > 0
      BY <2>1 DEF Kill
    <3>. QED
      BY <1>0, <2>1, <3>1 DEF AtStart
  <2>2. CASE CmdStartConfigure
    <3>1. Told /\ at \in {"send", "recv"} /\ step < 9
      BY <2>2, StartCases DEF Told
    <3>2. Keeps(settings, conf)
      BY <1>0, <3>1 DEF Settled
    <3>3. configure(settings)
      BY <2>2 DEF CmdStartConfigure
    <3>. QED
      BY <2>0, <3>2, <3>3, ConfigureFollows DEF Follows, DriverFollows
  <2>3. CASE ~Kill /\ ~CmdStartConfigure
    <3>1. Own
      <4>1. CASE Begun'
        <5>1. Begun \/ CmdStartLaunch
          BY <4>1, BegunStep
        <5>. QED
          BY <5>1, StartCases DEF Own, CmdStartLaunch
      <4>2. CASE ctl' = "start.run"
        BY <2>3, <4>2, MembersStep, StartCases DEF Own
      <4>. QED
        BY <1>3, <4>1, <4>2 DEF Own
    <3>2. UNCHANGED <<daq, ltc>> /\ crashes' = crashes
      BY <1>0, <2>3, MembersStep
    <3>3. CASE Follows(daq, conf) /\ DriverFollows(ltc, conf)
      BY <2>0, <3>2, <3>3
    <3>4. CASE crashes > 0 /\ thr = "none" /\ ~AtStart
      <4>1. ~CmdStartLaunch
        BY <3>4, StartCases DEF CmdStartLaunch, AtStart
      <4>2. thr' = "none"
        BY <3>4, <4>1, RunMoves
           DEF AcquisitionStep, ThreadStep, Enter, LoopEnd, SeeStop, ClearStop, LoopBody,
               Acquire, Read, Send, Post
      <4>3. ~(at = "send" /\ step = 8)
        BY <3>1 DEF Own, Begun
      <4>4. ~AtStart'
        BY <2>0, <3>4, <4>3, TalkStep DEF AtStart
      <4>. QED
        BY <3>2, <3>4, <4>2, <4>4
    <3>. QED
      BY <1>0, <3>1, <3>3, <3>4 DEF Settled
  <2>. QED
    BY <2>1, <2>2, <2>3
<1>. QED
  BY <1>2, <1>3

-----------------------------------------------------------------------------
(* The events of a run, received and still on their way.                   *)

\* An event that is received moves from the connection to what was taken.
LEMMA MoveEvent ==
  ASSUME NEW s \in Seq(Event), NEW t \in Seq(Event), t # <<>>
  PROVE  Append(s, Head(t)) \o Tail(t) = s \o t
<1>1. /\ Head(t) \in Event /\ Tail(t) \in Seq(Event) /\ Len(Tail(t)) = Len(t) - 1
      /\ \A k \in 1 .. Len(Tail(t)) : Tail(t)[k] = t[k + 1]
  BY HeadTailProperties
<1>2. Head(t) = t[1] /\ Len(s) \in Nat /\ Len(t) \in Nat
  BY LenProperties
<1>3. /\ Append(s, Head(t)) \in Seq(Event) /\ Len(Append(s, Head(t))) = Len(s) + 1
      /\ Append(s, Head(t))[Len(s) + 1] = Head(t)
      /\ \A k \in 1 .. Len(s) : Append(s, Head(t))[k] = s[k]
  BY <1>1, SequenceEnds
<1>. DEFINE a == Append(s, Head(t))
           l == a \o Tail(t)
           r == s \o t
<1>4. /\ l \in Seq(Event) /\ Len(l) = Len(s) + Len(t)
      /\ \A k \in 1 .. Len(s) + Len(t) :
           l[k] = IF k <= Len(s) + 1 THEN a[k] ELSE Tail(t)[k - (Len(s) + 1)]
  BY <1>1, <1>2, <1>3, ConcatProperties
<1>5. /\ r \in Seq(Event) /\ Len(r) = Len(s) + Len(t)
      /\ \A k \in 1 .. Len(s) + Len(t) :
           r[k] = IF k <= Len(s) THEN s[k] ELSE t[k - Len(s)]
  BY ConcatProperties
<1>6. ASSUME NEW k \in 1 .. Len(l) PROVE l[k] = r[k]
  <2>0. /\ a[Len(s) + 1] = t[1]
        /\ \A j \in 1 .. Len(s) : a[j] = s[j]
    BY <1>2, <1>3
  <2>. HIDE DEF a, l, r
  <2>1. CASE k <= Len(s)
    <3>1. k \in 1 .. Len(s) /\ k \in 1 .. Len(s) + Len(t) /\ k <= Len(s) + 1
      BY <1>2, <1>4, <2>1
    <3>2. l[k] = a[k]
      BY <1>4, <3>1
    <3>3. r[k] = s[k]
      BY <1>5, <2>1, <3>1
    <3>. QED
      BY <2>0, <3>1, <3>2, <3>3
  <2>2. CASE k = Len(s) + 1
    <3>1. k \in 1 .. Len(s) + Len(t) /\ k <= Len(s) + 1 /\ ~(k <= Len(s)) /\ k - Len(s) = 1
      BY <1>2, <1>4, <2>2
    <3>2. l[k] = a[k]
      BY <1>4, <3>1
    <3>3. r[k] = t[1]
      BY <1>5, <3>1
    <3>. QED
      BY <2>0, <2>2, <3>2, <3>3
  <2>3. CASE k > Len(s) + 1
    <3>1. k - (Len(s) + 1) \in 1 .. Len(Tail(t)) /\ (k - (Len(s) + 1)) + 1 = k - Len(s)
      BY <1>1, <1>2, <1>4, <2>3
    <3>2. Tail(t)[k - (Len(s) + 1)] = t[k - Len(s)]
      BY <1>1, <3>1
    <3>. QED
      BY <1>2, <1>4, <1>5, <2>3, <3>2
  <2>. QED
    BY <1>2, <1>4, <2>1, <2>2, <2>3
<1>. HIDE DEF a, l, r
<1>7. l = r
  BY <1>4, <1>5, <1>6, SeqEqual
<1>. QED
  BY <1>7 DEF a, l, r

\* An event that is sent comes after all of them.
LEMMA SendEvent ==
  ASSUME NEW s \in Seq(Event), NEW t \in Seq(Event), NEW e \in Event
  PROVE  s \o Append(t, e) = Append(s \o t, e)
<1>1. <<e>> \in Seq(Event) /\ s \o t \in Seq(Event)
  BY ConcatProperties
<1>2. Append(t, e) = t \o <<e>> /\ Append(s \o t, e) = (s \o t) \o <<e>>
  BY <1>1, AppendIsConcat
<1>. QED
  BY <1>1, <1>2, ConcatAssociative

\* Event numbers are integers.
LEMMA EventIs ==
  ASSUME NEW s \in Seq(Event)
  PROVE  /\ Len(s) \in Nat
         /\ \A k \in 1 .. Len(s) : s[k] \in Event /\ s[k].idx \in Int
<1>1. Len(s) \in Nat
  BY LenProperties
<1>2. \A k \in 1 .. Len(s) : s[k] \in Event
  BY ElementOfSeq
<1>3. \A e \in Event : e.idx \in Int
  BY IntMaxAssumption DEF Event, Int32
<1>. QED
  BY <1>1, <1>2, <1>3

\* The n-th event keeps order when those before it are of the run so far.
LEMMA OrderedAppend ==
  ASSUME NEW s \in Seq(Event), NEW n \in Int32, NEW d \in Members, n >= 0,
         Ordered(s), Under(s, n, d)
  PROVE  LET t == Append(s, [idx |-> n, cfg |-> d])
         IN  Ordered(t) /\ Under(t, n + 1, d)
<1>. DEFINE e == [idx |-> n, cfg |-> d]
           t == Append(s, e)
<1>0. e \in Event /\ e.idx = n /\ e.cfg = d /\ n \in Int
  BY IntMaxAssumption DEF Event, Int32
<1>. HIDE DEF e
<1>1. /\ t \in Seq(Event) /\ Len(t) = Len(s) + 1 /\ t[Len(s) + 1] = e
      /\ \A k \in 1 .. Len(s) : t[k] = s[k]
  BY <1>0, SequenceEnds
<1>. HIDE DEF t
<1>2. /\ Len(s) \in Nat
      /\ \A k \in 1 .. Len(s) : s[k] \in Event /\ s[k].idx \in Int
  BY EventIs
<1>3. Len(s) <= n
  <2>1. CASE Len(s) = 0
    BY <1>0, <2>1
  <2>2. CASE Len(s) # 0
    <3>1. Len(s) \in 1 .. Len(s)
      BY <1>2, <2>2
    <3>2. s[Len(s)].idx >= Len(s) - 1 /\ s[Len(s)].idx < n
      BY <3>1 DEF Ordered, Under
    <3>3. s[Len(s)].idx \in Int
      BY <1>2, <3>1
    <3>. QED
      BY <1>0, <1>2, <3>2, <3>3
  <2>. QED
    BY <2>1, <2>2
<1>4. \A k \in 1 .. Len(t) : t[k].idx >= k - 1
  BY <1>0, <1>1, <1>2, <1>3 DEF Ordered
<1>5. \A j, k \in 1 .. Len(t) : j < k => t[j].idx < t[k].idx /\ t[j].cfg = t[k].cfg
  <2>. SUFFICES ASSUME NEW j \in 1 .. Len(t), NEW k \in 1 .. Len(t), j < k
                PROVE  t[j].idx < t[k].idx /\ t[j].cfg = t[k].cfg
    OBVIOUS
  <2>1. j \in 1 .. Len(s) /\ t[j] = s[j]
    <3>1. j \in Int /\ k \in Int /\ 1 <= j /\ k <= Len(s) + 1
      BY <1>1, <1>2
    <3>. QED
      BY <1>1, <1>2, <3>1
  <2>2. CASE k \in 1 .. Len(s)
    BY <1>1, <2>1, <2>2 DEF Ordered
  <2>3. CASE k = Len(s) + 1
    BY <1>0, <1>1, <2>1, <2>3 DEF Under
  <2>. QED
    BY <1>1, <1>2, <2>2, <2>3
<1>6. Under(t, n + 1, d)
  <2>. SUFFICES ASSUME NEW k \in 1 .. Len(t)
                PROVE  t[k].idx < n + 1 /\ t[k].cfg = d
    BY DEF Under
  <2>1. CASE k \in 1 .. Len(s)
    <3>1. t[k] = s[k] /\ s[k].idx < n /\ s[k].cfg = d /\ s[k].idx \in Int
      BY <1>1, <1>2, <2>1 DEF Under
    <3>. QED
      BY <1>0, <3>1
  <2>2. CASE k = Len(s) + 1
    BY <1>0, <1>1, <2>2
  <2>. QED
    BY <1>1, <1>2, <2>1, <2>2
<1>. QED
  BY <1>4, <1>5, <1>6 DEF Ordered, t, e

\* s is the beginning of t.
Begins(s, t) ==
  s \in Seq(Event) /\ Len(s) <= Len(t) /\ \A k \in 1 .. Len(s) : s[k] = t[k]

\* What holds of events of a run holds of the first of them.
LEMMA BeginsKeeps ==
  ASSUME NEW s, NEW t \in Seq(Event), Begins(s, t)
  PROVE  /\ Ordered(t) => Ordered(s)
         /\ \A n, d : Under(t, n, d) => Under(s, n, d)
         /\ t = <<>> => s = <<>>
         /\ First(t) => First(s)
         /\ \A c : TakenWith(t, c) => TakenWith(s, c)
<1>1. /\ s \in Seq(Event) /\ Len(s) \in Nat /\ Len(t) \in Nat
      /\ Len(s) <= Len(t) /\ \A k \in 1 .. Len(s) : s[k] = t[k]
  BY LenProperties DEF Begins
<1>2. 1 .. Len(s) \subseteq 1 .. Len(t)
  BY <1>1
<1>3. \A n, d : Under(t, n, d) => Under(s, n, d)
  BY <1>1, <1>2 DEF Under
<1>4. Ordered(t) => Ordered(s)
  <2>. SUFFICES ASSUME Ordered(t) PROVE Ordered(s)
    OBVIOUS
  <2>1. \A k \in 1 .. Len(s) : s[k].idx >= k - 1
    BY <1>1, <1>2 DEF Ordered
  <2>2. ASSUME NEW j \in 1 .. Len(s), NEW k \in 1 .. Len(s), j < k
        PROVE  s[j].idx < s[k].idx /\ s[j].cfg = s[k].cfg
    <3>1. j \in 1 .. Len(t) /\ k \in 1 .. Len(t) /\ s[j] = t[j] /\ s[k] = t[k]
      BY <1>1, <1>2
    <3>2. t[j].idx < t[k].idx /\ t[j].cfg = t[k].cfg
      BY <2>2, <3>1 DEF Ordered
    <3>. QED
      BY <3>1, <3>2
  <2>. QED
    BY <2>1, <2>2 DEF Ordered
<1>5. First(t) => First(s)
  BY <1>1, <1>2 DEF First
<1>6. \A c : TakenWith(t, c) => TakenWith(s, c)
  BY <1>1, <1>2 DEF TakenWith
<1>7. t = <<>> => s = <<>>
  <2>. SUFFICES ASSUME t = <<>> PROVE s = <<>>
    OBVIOUS
  <2>1. Len(t) = 0
    OBVIOUS
  <2>2. Len(s) = 0
    BY <1>1, <2>1
  <2>. QED
    BY <1>1, <2>2, EmptySeq
<1>. QED
  BY <1>3, <1>4, <1>5, <1>6, <1>7

\* What was taken, and the first of what is to come, is a beginning of both.
LEMMA BeginsBoth ==
  ASSUME NEW s \in Seq(Event), NEW t \in Seq(Event), NEW u, Begins(u, t)
  PROVE  Begins(s \o u, s \o t)
<1>1. /\ u \in Seq(Event) /\ Len(u) \in Nat /\ Len(t) \in Nat /\ Len(s) \in Nat
      /\ Len(u) <= Len(t) /\ \A k \in 1 .. Len(u) : u[k] = t[k]
  BY LenProperties DEF Begins
<1>2. /\ s \o u \in Seq(Event) /\ Len(s \o u) = Len(s) + Len(u)
      /\ \A k \in 1 .. Len(s) + Len(u) :
           (s \o u)[k] = IF k <= Len(s) THEN s[k] ELSE u[k - Len(s)]
  BY <1>1, ConcatProperties
<1>3. /\ Len(s \o t) = Len(s) + Len(t)
      /\ \A k \in 1 .. Len(s) + Len(t) :
           (s \o t)[k] = IF k <= Len(s) THEN s[k] ELSE t[k - Len(s)]
  BY ConcatProperties
<1>4. ASSUME NEW k \in 1 .. Len(s) + Len(u) PROVE (s \o u)[k] = (s \o t)[k]
  <2>1. k \in 1 .. Len(s) + Len(t)
    BY <1>1
  <2>2. CASE k <= Len(s)
    BY <1>2, <1>3, <2>1, <2>2
  <2>3. CASE k > Len(s)
    <3>1. k - Len(s) \in 1 .. Len(u)
      BY <1>1, <2>3
    <3>2. u[k - Len(s)] = t[k - Len(s)]
      BY <1>1, <3>1
    <3>3. ~(k <= Len(s))
      BY <1>1, <2>3
    <3>. QED
      BY <1>2, <1>3, <2>1, <3>2, <3>3
  <2>. QED
    BY <1>1, <2>2, <2>3
<1>. QED
  BY <1>1, <1>2, <1>3, <1>4 DEF Begins

\* What was taken is the beginning of it.
LEMMA TakenPart ==
  ASSUME NEW s \in Seq(Event), NEW t \in Seq(Event)
  PROVE  /\ Ordered(s \o t) => Ordered(s)
         /\ \A n, d : Under(s \o t, n, d) => Under(s, n, d)
         /\ s \o t = <<>> => s = <<>>
         /\ s \o <<>> = s /\ <<>> \o t = t
<1>1. /\ \A k \in 1 .. Len(s) : k \in 1 .. Len(s \o t) /\ (s \o t)[k] = s[k]
  BY ConcatProperties, LenProperties
<1>2. (s \o t = <<>> => s = <<>>) /\ s \o <<>> = s /\ <<>> \o t = t
  BY ConcatEqualIffEmpty, ConcatEmptySeq
<1>3. \A n, d : Under(s \o t, n, d) => Under(s, n, d)
  BY <1>1 DEF Under
<1>4. Ordered(s \o t) => Ordered(s)
  BY <1>1 DEF Ordered
<1>. QED
  BY <1>2, <1>3, <1>4

\* What a step does to what was taken.
LEMMA TakenStep ==
  ASSUME ~aborted', [SysNext]_sysVars
  PROVE  taken' = taken \/ RecvEvent \/ Launch
<1>1. CASE ServerStep \/ Attach \/ Kill \/ Depart \/ UNCHANGED sysVars
  BY <1>1 DEF ServerStep, Attach, Kill, Depart, sysVars, programVars
<1>2. CASE SendRequest \/ RecvReply \/ LocalStep \/ Interrupted
  BY <1>2 DEF SendRequest, RecvReply, LocalStep, Interrupted, Program!Send,
       Program!GotReply, Program!Loop, Program!SeeStop, Program!GoOn, Program!Write,
       Program!QuietSignal, Program!DataError, Program!runVars
<1>. QED
  BY <1>1, <1>2 DEF SysNext, ProgramStep

\* What a step does to the events on their way.
LEMMA PipeStep ==
  ASSUME ~aborted', TypeOK, Written, Dialogue, me \in Peers, [SysNext]_sysVars
  PROVE  \/ pipe' = pipe
         \/ /\ Send /\ PipeHasRoom /\ pipe' = Append(pipe, [idx |-> iTrig, cfg |-> daq])
            /\ AcquisitionStep /\ UNCHANGED <<programVars, whoVars>>
         \/ RecvEvent
         \/ (Kill \/ (Depart /\ at = "exit")) /\ Begins(pipe', pipe)
<1>0. pipe \in Seq(Event) /\ Len(pipe) \in Nat
  BY LenProperties DEF TypeOK, DAQTypeOK
<1>1. CASE ServerStep
  <2>1. CASE HandlerStep
    <3>1. ~TempThrow
      BY <2>1, HandlerCases
    <3>. QED
      BY <2>1, <3>1
       DEF HandlerStep, CmdNone, CmdUnknown, CmdStartJoin, CmdStartConfigure,
         CmdStartLaunch, CmdStartReply, CmdStop, CmdStopJoin, CmdConfig,
         CmdTemp, TempConvert, TempReply, CmdBias, daqRest, daqVars,
         stop_daq_thread, start_daq_thread, configure
  <2>2. CASE \E p \in Peers : RecvStep(p)
    <3>1. \E p \in Peers : RecvCommand(p) \/ ConfigApply(p) \/ ChannelValid(p)
      BY <2>2, RecvCases
    <3>. QED
      BY <3>1 DEF RecvCommand, ConfigApply, ChannelValid, daqVars
  <2>3. CASE Restart
    BY <2>3 DEF Restart, daqVars
  <2>4. CASE AcquisitionStep
    BY <1>1, <2>4 DEF ServerStep, AcquisitionStep, ThreadStep, Enter, LoopEnd, SeeStop,
         ClearStop, LoopBody, Acquire, Read, Send, Post, daqRest
  <2>. QED
    BY <1>1, <2>1, <2>2, <2>3, <2>4 DEF ServerStep
<1>2. CASE Kill
  <2>1. PICK n \in 0 .. Len(pipe) : pipe' = SubSeq(pipe, 1, n)
    BY <1>2 DEF Kill, Terminate, DAQReset
  <2>2. Begins(SubSeq(pipe, 1, n), pipe)
    BY <1>0, Beginning DEF Begins
  <2>. QED
    BY <1>2, <2>1, <2>2
<1>3. CASE Depart
  <2>1. at = "exit" /\ pipe' = <<>>
    BY <1>3, OverIs DEF Depart
  <2>2. <<>> \in Seq(Event) /\ Len(<<>>) = 0
    OBVIOUS
  <2>3. Begins(<<>>, pipe)
    BY <1>0, <2>2 DEF Begins
  <2>. QED
    BY <1>3, <2>1, <2>3
<1>4. CASE Attach \/ SendRequest \/ RecvReply \/ Launch \/ UNCHANGED sysVars
  BY <1>4 DEF Attach, PullAttach, SendRequest, PeerSendConfig, PeerSendChannel, PeerCall,
       PeerSend, RecvReply, PeerDone, Launch, sysVars, vars, daqVars
<1>5. CASE LocalStep \/ Interrupted
  BY <1>5 DEF LocalStep, Interrupted, vars, daqVars
<1>. QED
  BY <1>1, <1>2, <1>3, <1>4, <1>5 DEF SysNext, ProgramStep

\* Together: what was received and what is still to come.
LEMMA EventsStep ==
  ASSUME ~aborted', TypeOK, Written, Dialogue, me \in Peers, [SysNext]_sysVars, ~Launch
  PROVE  \/ Events' = Events
         \/ /\ Send /\ PipeHasRoom /\ Events' = Append(Events, [idx |-> iTrig, cfg |-> daq])
            /\ AcquisitionStep /\ UNCHANGED <<programVars, whoVars>>
         \/ (Kill \/ (Depart /\ at = "exit")) /\ Begins(Events', Events)
<1>0. pipe \in Seq(Event) /\ taken \in Seq(Event)
  BY DEF TypeOK, DAQTypeOK, Written
<1>1. CASE RecvEvent
  <2>1. pipe # <<>> /\ pipe' = Tail(pipe) /\ taken' = Append(taken, Head(pipe))
    BY <1>1 DEF RecvEvent, PullRecv, Program!GotEvent
  <2>. QED
    BY <1>0, <2>1, MoveEvent DEF Events
<1>2. CASE ~RecvEvent
  <2>0. taken' = taken
    BY <1>2, TakenStep
  <2>1. CASE pipe' = pipe
    BY <2>0, <2>1 DEF Events
  <2>2. CASE /\ Send /\ PipeHasRoom /\ pipe' = Append(pipe, [idx |-> iTrig, cfg |-> daq])
             /\ AcquisitionStep /\ UNCHANGED <<programVars, whoVars>>
    <3>1. [idx |-> iTrig, cfg |-> daq] \in Event
      BY DEF TypeOK, DAQTypeOK, Event
    <3>. QED
      BY <1>0, <2>0, <2>2, <3>1, SendEvent DEF Events
  <2>3. CASE (Kill \/ (Depart /\ at = "exit")) /\ Begins(pipe', pipe)
    <3>1. Begins(taken \o pipe', taken \o pipe)
      BY <1>0, <2>3, BeginsBoth
    <3>. QED
      BY <2>0, <2>3, <3>1 DEF Events
  <2>. QED
    BY <1>2, <2>1, <2>2, <2>3, PipeStep
<1>. QED
  BY <1>1, <1>2

\* A thread that owes no event sends none, and comes to owe none.
LEMMA LeftStays ==
  ASSUME DAQTypeOK, DAQInv, ThreadStep, EventsLeft = 0
  PROVE  EventsLeft' = 0 /\ ~Send
<1>0. iTrig \in Int /\ daq.ntrig \in Int
  BY IntMaxAssumption DEF DAQTypeOK, Members, Int32
<1>1. CASE thr = "post"
  BY <1>1 DEF ThreadStep, Enter, LoopEnd, SeeStop, ClearStop, LoopBody, Acquire, Read,
              Send, Post, EventsLeft
<1>2. CASE thr # "post"
  <2>1. /\ thr \in {"enter", "loop", "clear", "acquire", "read", "send"}
        /\ daq.ntrig >= 0 /\ iTrig = daq.ntrig
    BY <1>0, <1>2 DEF ThreadStep, Enter, LoopEnd, SeeStop, ClearStop, LoopBody, Acquire,
                 Read, Send, Post, EventsLeft
  <2>2. thr \in {"enter", "loop"} /\ (thr = "enter" => iTrig = 0)
    BY <1>0, <2>1 DEF DAQInv, LoopInBounds
  <2>3. Enter \/ LoopEnd
    BY <1>0, <2>1, <2>2 DEF ThreadStep, ClearStop, SeeStop, LoopBody, Acquire,
                 Read, Send, Post, MoreTriggers
  <2>. QED
    BY <1>0, <2>1, <2>2, <2>3 DEF Enter, LoopEnd, Send, EventsLeft, daqRest
<1>. QED
  BY <1>1, <1>2

\* Nor does it come to owe any without a start.
LEMMA LeftStep ==
  ASSUME ~aborted', TypeOK, DAQInv, Written, Dialogue, me \in Peers,
         [SysNext]_sysVars, ~CmdStartLaunch, EventsLeft = 0
  PROVE  EventsLeft' = 0 /\ ~(Send /\ AcquisitionStep)
<1>1. CASE AcquisitionStep
  BY <1>1, LeftStays DEF AcquisitionStep, TypeOK
<1>2. CASE UNCHANGED <<thr, iTrig, daq>> \/ thr' = "none"
  <2>1. ~AcquisitionStep \/ AcquisitionStep
    OBVIOUS
  <2>. QED
    BY <1>1, <1>2, <2>1 DEF EventsLeft
<1>. QED
  BY <1>1, <1>2, RunMoves

\* The start begins the program's run.
LEMMA LaunchBegins ==
  ASSUME Written, Dialogue, me \in Peers, CmdStartLaunch, UNCHANGED <<programVars, whoVars>>
  PROVE  Begun' /\ ~Begun /\ thr' = "enter" /\ UNCHANGED <<pipe, taken, at>> /\ at = "recv"
         /\ taken = <<>> /\ at' # "exit"
<1>1. at = "recv" /\ step = 8 /\ ctl = "start.run"
  BY StartCases DEF CmdStartLaunch
<1>2. outbox[me] = "none"
  BY <1>1, HandlerCases DEF HandlerStep, Served
<1>3. taken = <<>>
  BY <1>1 DEF Written
<1>. QED
  BY <1>1, <1>2, <1>3 DEF CmdStartLaunch, start_daq_thread, daqRest, Begun, programVars, whoVars

\* A program is through with its run when the server is.
LEMMA ExitStep ==
  ASSUME ~aborted', TypeOK, DAQInv, BetweenEvents, Written, Dialogue, StopAnswered,
         Settled, OfOneRun, ~forgot, me \in Peers, conf \in Payloads,
         [SysNext]_sysVars, at' = "exit", at # "exit"
  PROVE  EventsLeft = 0 /\ UNCHANGED <<thr, iTrig, daq>>
<1>1. RecvReply \/ LocalStep
  <2>1. CASE ServerStep \/ Attach \/ Kill \/ Depart \/ UNCHANGED sysVars
    BY <2>1 DEF ServerStep, Attach, Kill, Depart, sysVars, programVars
  <2>2. CASE SendRequest \/ RecvEvent \/ Interrupted \/ Launch
    BY <2>2 DEF SendRequest, RecvEvent, Interrupted, Launch, Program!Send,
         Program!GotEvent, Program!QuietSignal, Program!DataError
  <2>. QED
    BY <2>1, <2>2 DEF SysNext, ProgramStep
<1>2. CASE RecvReply
  <2>1. at = "recv" /\ outbox[me] # "none" /\ Request = "stop"
    BY <1>2 DEF RecvReply, Program!GotReply, Request
  <2>2. thr = "none"
    BY <2>1 DEF StopAnswered
  <2>. QED
    BY <1>2, <2>2 DEF EventsLeft, RecvReply, PeerDone, vars, daqVars
<1>3. CASE LocalStep
  <2>1. at = "loop" /\ ~(i < nEvts \/ nEvts < 0) /\ UNCHANGED <<thr, iTrig, daq>>
    BY <1>3 DEF LocalStep, Program!Loop, Program!SeeStop, Program!GoOn, Program!Write,
         Program!MoreEvents, vars, daqVars
  <2>2. /\ step = 8 /\ Begun /\ nEvts = conf.ntrig /\ i = Len(log) /\ Len(log) = Len(taken)
        /\ taken \in Seq(Event)
    BY <2>1 DEF Written, InLoop, Begun
  <2>3. conf.ntrig \in Int /\ Len(taken) \in Nat /\ iTrig \in Int /\ daq.ntrig \in Int
    BY <2>2, ConfIs, LenProperties, IntMaxAssumption
       DEF Int32, TypeOK, DAQTypeOK, Members
  <2>4. conf.ntrig >= 0 /\ Len(taken) >= conf.ntrig
    BY <2>1, <2>2, <2>3
  <2>5. thr # "none" => daq.ntrig = conf.ntrig /\ daq.ntrig >= 0 /\ iTrig >= 0
    <3>1. thr # "none" => daq.ntrig = conf.ntrig
      BY <2>2 DEF Settled, Own, Follows
    <3>. QED
      BY <2>4, <3>1 DEF BetweenEvents
  <2>6. /\ Ordered(Events)
        /\ thr = "enter" => Events = <<>>
        /\ thr \in InRun => Under(Events, iTrig, daq)
    BY <2>2, <2>4 DEF OfOneRun, Under
  <2>7. pipe \in Seq(Event)
    BY DEF TypeOK, DAQTypeOK
  <2>8. /\ Ordered(taken)
        /\ thr = "enter" => taken = <<>>
        /\ thr \in InRun => Under(taken, iTrig, daq)
    BY <2>2, <2>6, <2>7, TakenPart DEF Events
  <2>9. CASE thr \in InRun
    <3>1. iTrig >= Len(taken)
      <4>1. CASE Len(taken) # 0
        <5>1. Len(taken) \in 1 .. Len(taken)
          BY <2>3, <4>1
        <5>2. taken[Len(taken)].idx >= Len(taken) - 1 /\ taken[Len(taken)].idx < iTrig
          BY <2>8, <2>9, <5>1 DEF Ordered, Under
        <5>3. taken[Len(taken)].idx \in Int
          BY <2>2, <5>1, EventIs
        <5>. QED
          BY <2>3, <5>2, <5>3
      <4>. QED
        BY <2>3, <2>5, <2>9, <4>1 DEF InRun
    <3>2. thr = "loop" /\ iTrig <= daq.ntrig
      BY <2>3, <2>4, <2>5, <2>9, <3>1 DEF DAQInv, LoopInBounds, InRun
    <3>3. iTrig = daq.ntrig
      BY <2>3, <2>4, <2>5, <2>9, <3>1, <3>2
    <3>. QED
      BY <2>1, <2>3, <2>4, <2>5, <2>9, <3>2, <3>3 DEF EventsLeft
  <2>10. CASE thr = "enter"
    <3>1. Len(taken) = 0 /\ iTrig = 0
      BY <2>8, <2>10 DEF DAQInv, LoopInBounds
    <3>2. daq.ntrig = 0
      BY <2>3, <2>4, <2>5, <2>10, <3>1
    <3>. QED
      BY <2>1, <2>10, <3>1, <3>2 DEF EventsLeft
  <2>11. CASE thr \in {"none", "done", "post"}
    BY <2>1, <2>11 DEF EventsLeft
  <2>. QED
    BY <2>9, <2>10, <2>11 DEF TypeOK, DAQTypeOK, ThreadPoints, Running, InRun
<1>. QED
  BY <1>1, <1>2, <1>3

\* The run's events while it goes on.
RunEvents == /\ Ordered(Events)
             /\ thr = "enter" => Events = <<>>
             /\ thr \in InRun => Under(Events, iTrig, daq)

\* While a run goes on, its events stay in order and below the thread's count.
LEMMA RunEventsStep ==
  ASSUME ~aborted', TypeOK, DAQInv, Written, Dialogue, me \in Peers,
         [SysNext]_sysVars, ~Launch, ~CmdStartLaunch,
         RunEvents, thr \in InRun => daq.ntrig >= 0 /\ iTrig >= 0
  PROVE  RunEvents'
<1>0. /\ pipe \in Seq(Event) /\ taken \in Seq(Event) /\ iTrig \in Int /\ daq.ntrig \in Int
      /\ iTrig \in Int32 /\ daq \in Members /\ daq.ntrig \in Int32 /\ DAQTypeOK
  BY IntMaxAssumption DEF TypeOK, DAQTypeOK, Written, Members, Int32
<1>1. Events \in Seq(Event)
  BY <1>0, ConcatProperties DEF Events
<1>. USE DEF RunEvents
<1>2. CASE (Kill \/ (Depart /\ at = "exit")) /\ Begins(Events', Events)
  <2>1. /\ Ordered(Events')
        /\ thr = "enter" => Events' = <<>>
        /\ thr \in InRun => Under(Events', iTrig, daq)
    BY <1>1, <1>2, BeginsKeeps
  <2>2. thr' = "none" \/ UNCHANGED <<thr, iTrig, daq>>
    BY <1>2 DEF Kill, Terminate, DAQReset, Depart
  <2>. QED
    BY <1>2, <2>1, <2>2 DEF InRun
<1>3. CASE Send /\ PipeHasRoom /\ Events' = Append(Events, [idx |-> iTrig, cfg |-> daq])
  <2>1. thr \in InRun /\ iTrig < daq.ntrig /\ iTrig >= 0
    BY <1>3 DEF Send, InRun, DAQInv, LoopInBounds
  <2>2. iTrig' = iTrig + 1 /\ daq' = daq /\ thr' = "loop"
    BY <1>0, <1>3, <2>1, NextIntBelow DEF Send
  <2>3. Ordered(Events') /\ Under(Events', iTrig + 1, daq)
    BY <1>0, <1>1, <1>3, <2>1, OrderedAppend
  <2>. QED
    BY <2>2, <2>3
<1>4. CASE Events' = Events
  <2>1. CASE UNCHANGED <<thr, iTrig, daq>> \/ thr' = "none"
    BY <1>4, <2>1 DEF InRun
  <2>2. CASE Enter
    BY <1>4, <2>2 DEF Enter, Under
  <2>3. CASE Send
    <3>1. thr \in InRun /\ iTrig < daq.ntrig
      BY <2>3 DEF Send, InRun, DAQInv, LoopInBounds
    <3>2. iTrig' = iTrig + 1 /\ daq' = daq /\ thr' = "loop"
      BY <1>0, <2>3, <3>1, NextIntBelow DEF Send
    <3>3. Under(Events, iTrig + 1, daq)
      <4>1. \A k \in 1 .. Len(Events) : Events[k].idx \in Int
        BY <1>1, EventIs
      <4>. QED
        BY <1>0, <3>1, <4>1 DEF Under
    <3>. QED
      BY <1>4, <3>2, <3>3
  <2>4. CASE ThreadStep /\ ~Enter /\ ~Send
    <3>1. /\ thr \in InRun \/ thr' \notin InRun
          /\ thr' # "enter"
          /\ thr' \in InRun => UNCHANGED <<iTrig, daq>>
      BY <2>4 DEF ThreadStep, LoopEnd, SeeStop, ClearStop, LoopBody, Acquire, Read, Post,
                  daqRest, InRun
    <3>. QED
      BY <1>4, <3>1
  <2>. QED
    BY <2>1, <2>2, <2>3, <2>4, RunMoves DEF AcquisitionStep
<1>. QED
  BY <1>2, <1>3, <1>4, EventsStep

\* The connections of a program that is gone were broken by its end.
LEMMA DeadStep ==
  ASSUME ~aborted', TypeOK, Written, Dialogue, me \in Peers, [SysNext]_sysVars,
         ~Launch, ~Depart, dial'[me'] = "dead"
  PROVE  me' = me /\ dial[me] = "dead" /\ at = "exit"
<1>1. me' = me
  BY DEF SysNext, ServerStep, Attach, Kill, ProgramStep, SendRequest, RecvReply,
         RecvEvent, LocalStep, Interrupted, Depart, whoVars, sysVars
<1>2. dial[me] = "dead"
  <2>1. CASE ServerStep
    <3>1. CASE HandlerStep
      BY <3>1, <1>1, HandlerCases
         DEF HandlerStep, CmdUnknown, CmdStartJoin, CmdStartConfigure,
             CmdStartLaunch, CmdStartReply, CmdStop, CmdStopJoin, CmdConfig,
             CmdTemp, TempConvert, TempReply, CmdBias, Reply, peerVars
    <3>2. CASE \E p \in Peers : RecvStep(p)
      <4>1. \E p \in Peers : RecvCommand(p) \/ ConfigApply(p) \/ ChannelValid(p)
        BY <3>2, RecvCases
      <4>2. dial' = dial
        BY <4>1 DEF RecvCommand, ConfigApply, ChannelValid, ReplyTo
      <4>. QED
        BY <1>1, <4>2
    <3>3. CASE AcquisitionStep \/ Restart
      BY <1>1, <2>1, <3>3, QuietMoves DEF ServerStep
    <3>. QED
      BY <2>1, <3>1, <3>2, <3>3 DEF ServerStep
  <2>2. CASE Kill
    BY <1>1, <2>2 DEF Kill, Terminate
  <2>3. CASE Attach \/ UNCHANGED sysVars
    BY <1>1, <2>3, QuietMoves
  <2>4. CASE SendRequest
    <3>1. Dialogue'
      BY <2>4, SendDialogue
    <3>2. at' = "recv" /\ dial'[me'] = DialOf(Request)'
      BY <2>4, <3>1 DEF Dialogue, SendRequest, Program!Send, DialOf
    <3>3. Request' = Request
      BY <2>4 DEF SendRequest, Program!Send, Request
    <3>. QED
      BY <3>2, <3>3, DialIs DEF DialOf
  <2>5. CASE RecvReply
    <3>1. \/ dial' = dial
          \/ dial' = [dial EXCEPT ![me] = "free"]
      BY <2>5 DEF RecvReply, PeerDone, vars, peerVars
    <3>. QED
      BY <1>1, <3>1 DEF TypeOK
  <2>6. CASE RecvEvent \/ LocalStep \/ Interrupted
    BY <1>1, <2>6, LocalMoves
  <2>. QED
    BY <2>1, <2>2, <2>3, <2>4, <2>5, <2>6 DEF SysNext, ProgramStep
<1>3. at = "exit"
  BY <1>2, DialIs DEF Dialogue, Written, InLoop
<1>. QED
  BY <1>1, <1>2, <1>3

\* No event of one run is left for another.
LEMMA OfOneRunStep ==
  ASSUME ~aborted', TypeOK, DAQInv, BetweenEvents, Written, Dialogue, StopAnswered,
         Settled, OfOneRun, me \in Peers, conf \in Payloads, crashes \in Nat,
         [SysNext]_sysVars
  PROVE  OfOneRun'
<1>. SUFFICES ASSUME ~forgot' PROVE /\ (~Begun => pipe = <<>> /\ EventsLeft = 0)'
                                    /\ (at = "exit" => EventsLeft = 0)'
                                    /\ dial'[me'] = "dead" => pipe' = <<>>
                                    /\ (Begun /\ conf.ntrig >= 0 => RunEvents)'
  BY DEF OfOneRun, RunEvents
<1>1. /\ ~forgot
      /\ ~Launch => UNCHANGED <<me, conf>>
      /\ Kill => ~AtStart /\ UNCHANGED at /\ thr' = "none"
  BY SameProgram DEF AtStart
<1>2. /\ ~Begun => pipe = <<>> /\ EventsLeft = 0
      /\ at = "exit" => EventsLeft = 0
      /\ dial[me] = "dead" => pipe = <<>>
      /\ Begun /\ conf.ntrig >= 0 => RunEvents
  BY <1>1 DEF OfOneRun, RunEvents
<1>. HIDE DEF RunEvents
<1>0. pipe \in Seq(Event)
  BY DEF TypeOK, DAQTypeOK
<1>6. ASSUME pipe = <<>>, EventsLeft = 0, ~CmdStartLaunch
      PROVE  pipe' = <<>>
  <2>1. ~(Send /\ AcquisitionStep)
    BY <1>6, LeftStep
  <2>2. ~RecvEvent
    BY <1>6 DEF RecvEvent
  <2>. QED
    BY <1>0, <1>6, <2>1, <2>2, PipeStep, BeginsKeeps
<1>3. CASE Launch
  <2>1. at = "exit" /\ dial[me] = "dead" /\ ~Begun' /\ at' = "send" /\ dial'[me'] # "dead"
        /\ UNCHANGED <<thr, iTrig, daq, pipe>>
    BY <1>3, OverIs DEF Launch, Begun, vars, daqVars, peerVars
  <2>. QED
    BY <1>2, <2>1 DEF EventsLeft
<1>4. CASE CmdStartLaunch /\ ~Launch
  <2>1. UNCHANGED <<programVars, whoVars>>
    BY <1>4, RunMoves DEF CmdStartLaunch, start_daq_thread, JoinReturns
  <2>2. /\ Begun' /\ ~Begun /\ thr' = "enter" /\ UNCHANGED <<pipe, taken, at>>
        /\ taken = <<>> /\ at' # "exit"
    BY <1>4, <2>1, LaunchBegins
  <2>3. pipe' = <<>> /\ taken' = <<>>
    BY <1>2, <2>2
  <2>4. Events' = <<>>
    <3>1. <<>> \in Seq(Event)
      OBVIOUS
    <3>. QED
      BY <2>3, <3>1, TakenPart DEF Events
  <2>. QED
    BY <2>2, <2>3, <2>4 DEF RunEvents, Ordered, InRun
<1>5. CASE ~CmdStartLaunch /\ ~Launch
  <2>1. (~Begun => pipe = <<>> /\ EventsLeft = 0)'
    <3>. SUFFICES ASSUME ~Begun' PROVE pipe' = <<>> /\ EventsLeft' = 0
      OBVIOUS
    <3>1. pipe = <<>> /\ EventsLeft = 0
      BY <1>1, <1>2, <1>5, BegunStep
    <3>. QED
      BY <1>5, <1>6, <3>1, LeftStep
  <2>2. (at = "exit" => EventsLeft = 0)'
    <3>. SUFFICES ASSUME at' = "exit" PROVE EventsLeft' = 0
      OBVIOUS
    <3>1. CASE at = "exit"
      BY <1>2, <1>5, <3>1, LeftStep
    <3>2. CASE at # "exit"
      BY <1>1, <3>2, ExitStep DEF EventsLeft
    <3>. QED
      BY <3>1, <3>2
  <2>3. (Begun /\ conf.ntrig >= 0 => RunEvents)'
    <3>. SUFFICES ASSUME Begun', conf'.ntrig >= 0 PROVE RunEvents'
      OBVIOUS
    <3>1. Begun /\ conf' = conf
      BY <1>1, <1>5, BegunStep
    <3>2. conf.ntrig \in Int /\ daq.ntrig \in Int
      BY ConfIs, IntMaxAssumption DEF TypeOK, DAQTypeOK, Members, Int32
    <3>3. thr # "none" => daq.ntrig = conf.ntrig
      BY <1>1, <3>1 DEF Settled, Own, Follows
    <3>4. thr \in InRun => daq.ntrig >= 0 /\ iTrig >= 0
      BY <3>1, <3>2, <3>3 DEF BetweenEvents, InRun
    <3>. QED
      BY <1>2, <1>5, <3>1, <3>4, RunEventsStep
  <2>4. dial'[me'] = "dead" => pipe' = <<>>
    <3>1. CASE Depart
      BY <3>1 DEF Depart
    <3>2. CASE ~Depart
      BY <1>2, <1>5, <1>6, <3>2, DeadStep
    <3>. QED
      BY <3>1, <3>2
  <2>. QED
    BY <2>1, <2>2, <2>3, <2>4
<1>. QED
  BY <1>3, <1>4, <1>5

-----------------------------------------------------------------------------
(* With a connection in time, no event is lost.                            *)

\* The data connection comes about, and lasts as long as its two ends.
LEMMA PullingStays ==
  ASSUME ~aborted', Written, Dialogue, me \in Peers, [SysNext]_sysVars
  PROVE  pulling' = pulling \/ (Attach /\ pulling') \/ Kill \/ Depart
<1>1. CASE ServerStep
  <2>1. CASE HandlerStep
    <3>1. ~TempThrow
      BY <2>1, HandlerCases
    <3>. QED
      BY <2>1, <3>1
       DEF HandlerStep, CmdNone, CmdUnknown, CmdStartJoin, CmdStartConfigure,
         CmdStartLaunch, CmdStartReply, CmdStop, CmdStopJoin, CmdConfig,
         CmdTemp, TempConvert, TempReply, CmdBias, daqRest, daqVars,
         stop_daq_thread, start_daq_thread, configure
  <2>2. CASE \E p \in Peers : RecvStep(p)
    <3>1. \E p \in Peers : RecvCommand(p) \/ ConfigApply(p) \/ ChannelValid(p)
      BY <2>2, RecvCases
    <3>. QED
      BY <3>1 DEF RecvCommand, ConfigApply, ChannelValid, daqVars
  <2>3. CASE AcquisitionStep \/ Restart
    BY <2>3 DEF Restart, daqVars, AcquisitionStep, ThreadStep, Enter, LoopEnd, SeeStop,
         ClearStop, LoopBody, Acquire, Read, Send, Post, daqRest
  <2>. QED
    BY <1>1, <2>1, <2>2, <2>3 DEF ServerStep
<1>2. CASE Attach
  BY <1>2 DEF Attach, PullAttach
<1>3. CASE SendRequest \/ RecvReply \/ Launch \/ UNCHANGED sysVars
  BY <1>3 DEF SendRequest, PeerSendConfig, PeerSendChannel, PeerCall,
       PeerSend, RecvReply, PeerDone, Launch, sysVars, vars, daqVars
<1>4. CASE RecvEvent \/ LocalStep \/ Interrupted
  BY <1>4, LocalMoves
<1>. QED
  BY <1>1, <1>2, <1>3, <1>4 DEF SysNext, ProgramStep

\* A program sends "start" when its data connection is there, and is past that
\* point only by that step.
LEMMA PastStep ==
  ASSUME ~aborted', TypeOK, Written, Dialogue, me \in Peers, [SysNext]_sysVars,
         EarlyJoin, PastConnect'
  PROVE  PastConnect \/ pulling
<1>0. Request = "start" <=> step = 8
  BY StepIs, Requests DEF Request
<1>1. CASE ServerStep \/ Attach \/ Kill \/ Depart \/ UNCHANGED sysVars
  BY <1>1 DEF ServerStep, Attach, Kill, Depart, PastConnect, sysVars, programVars
<1>2. CASE SendRequest
  BY <1>0, <1>2 DEF SendRequest, PastConnect, Program!Send
<1>3. CASE RecvReply
  <2>1. /\ at = "recv"
        /\ step' = step \/ (step < 8 /\ at' = "send" /\ step' = step + 1)
    <3>1. /\ Request = "start" <=> step = 8
          /\ Request = "stop" <=> step = 9
          /\ step \in 1 .. 9
      BY StepIs, Requests DEF Request
    <3>2. step \notin {8, 9} => step < 8
      BY <3>1
    <3>. QED
      BY <1>3, <3>1, <3>2 DEF RecvReply, Program!GotReply, Request
  <2>2. step \in 1 .. 9
    BY DEF Written
  <2>. QED
    BY <2>1, <2>2 DEF PastConnect
<1>4. CASE RecvEvent \/ LocalStep \/ Interrupted
  <2>1. at \in InLoop => step = 8 /\ at # "send"
    BY DEF Written, InLoop
  <2>. QED
    BY <1>4, <2>1, LocalMoves DEF PastConnect
<1>5. CASE Launch
  BY <1>5 DEF Launch, PastConnect
<1>. QED
  BY <1>1, <1>2, <1>3, <1>4, <1>5 DEF SysNext, ProgramStep

\* A program that has returned keeps its connections until its process is gone.
LEMMA ExitStays ==
  ASSUME ~aborted', TypeOK, Written, Dialogue, me \in Peers, [SysNext]_sysVars,
         ~Launch, ~Depart, at = "exit"
  PROVE  me' = me /\ dial'[me] = dial[me] /\ at' = "exit"
<1>1. me' = me
  BY DEF SysNext, ServerStep, Attach, Kill, ProgramStep, SendRequest, RecvReply,
         RecvEvent, LocalStep, Interrupted, Depart, whoVars, sysVars
<1>2. at \notin {"send", "recv"} \cup InLoop
  BY DEF InLoop
<1>3. ~SendRequest /\ ~RecvReply
  BY <1>2 DEF SendRequest, RecvReply, Program!Send, Program!GotReply
<1>4. CASE ServerStep
  <2>1. ~HandlerStep /\ ~(\E p \in Peers : RecvStep(p))
    BY HandlerCases, RecvCases
  <2>. QED
    BY <1>1, <1>4, <2>1, QuietMoves DEF ServerStep
<1>5. CASE Attach \/ UNCHANGED sysVars
  BY <1>1, <1>5, QuietMoves
<1>6. CASE RecvEvent \/ LocalStep \/ Interrupted
  BY <1>1, <1>2, <1>6, LocalMoves
<1>7. CASE Kill
  BY <1>1, <1>7 DEF Kill, Terminate, programVars
<1>. QED
  BY <1>3, <1>4, <1>5, <1>6, <1>7 DEF SysNext, ProgramStep

\* A program past its connection keeps it until one of the two ends dies, and
\* if that is the server, there is no run.
LEMMA ConnectedStep ==
  ASSUME ~aborted', TypeOK, Written, Dialogue, Connected, me \in Peers,
         crashes \in Nat, [SysNext]_sysVars
  PROVE  Connected'
<1>. SUFFICES ASSUME EarlyJoin, ~forgot', dial'[me'] # "dead", PastConnect'
              PROVE  pulling' \/ (thr' = "none" /\ ~AtStart')
  BY DEF Connected, PastConnect, AtStart
<1>1. ~forgot /\ (Kill => ~AtStart /\ UNCHANGED <<at, step>> /\ thr' = "none")
  BY SameProgram DEF AtStart
<1>2. ~Launch
  BY DEF Launch, PastConnect
<1>3. ~Depart
  BY DEF Depart, TypeOK, whoVars
<1>4. CASE Kill
  BY <1>1, <1>4 DEF AtStart
<1>5. CASE ~Kill
  <2>1. pulling => pulling'
    BY <1>3, <1>5, PullingStays
  <2>2. PastConnect \/ pulling
    BY PastStep
  <2>3. ASSUME ~pulling
        PROVE  thr = "none" /\ ~AtStart /\ PastConnect
    <3>1. dial[me] # "dead"
      <4>1. CASE at = "exit"
        <5>1. me' = me /\ dial'[me] = dial[me]
          BY <1>2, <1>3, <4>1, ExitStays
        <5>. QED
          BY <5>1
      <4>2. CASE at # "exit"
        BY <4>2, DialIs DEF Dialogue, Written, InLoop
      <4>. QED
        BY <4>1, <4>2
    <3>. QED
      BY <1>1, <2>2, <2>3, <3>1 DEF Connected
  <2>4. ASSUME ~pulling
        PROVE  thr' = "none"
    <3>1. ~CmdStartLaunch
      BY <2>3, <2>4, StartCases DEF CmdStartLaunch, AtStart
    <3>. QED
      BY <2>3, <2>4, <3>1, RunMoves
         DEF AcquisitionStep, ThreadStep, Enter, LoopEnd, SeeStop, ClearStop, LoopBody,
             Acquire, Read, Send, Post
  <2>5. ASSUME ~pulling, AtStart'
        PROVE  FALSE
    <3>1. at \in {"send", "recv"} /\ step' = step
      BY <1>2, <2>5, TalkStep DEF AtStart
    <3>. QED
      BY <2>3, <2>5, <3>1 DEF AtStart, PastConnect
  <2>. QED
    BY <2>1, <2>4, <2>5
<1>. QED
  BY <1>4, <1>5

\* The next event extends the run's first ones.
LEMMA FirstAppend ==
  ASSUME NEW s \in Seq(Event), NEW n \in Int32, NEW d \in Members, First(s),
         n = Len(s)
  PROVE  LET t == Append(s, [idx |-> n, cfg |-> d])
         IN  First(t) /\ Len(t) = n + 1
<1>. DEFINE e == [idx |-> n, cfg |-> d]
<1>1. e \in Event /\ e.idx = n
  BY DEF Event
<1>. HIDE DEF e
<1>2. /\ Len(Append(s, e)) = Len(s) + 1
      /\ Append(s, e)[Len(s) + 1] = e
      /\ \A k \in 1 .. Len(s) : Append(s, e)[k] = s[k]
      /\ Len(s) \in Nat
  BY <1>1, SequenceEnds
<1>3. First(Append(s, e))
  <2>. SUFFICES ASSUME NEW k \in 1 .. Len(Append(s, e))
                PROVE  Append(s, e)[k].idx = k - 1
    BY DEF First
  <2>1. CASE k \in 1 .. Len(s)
    BY <1>2, <2>1 DEF First
  <2>2. CASE k = Len(s) + 1
    BY <1>1, <1>2, <2>2
  <2>. QED
    BY <1>2, <2>1, <2>2
<1>. QED
  BY <1>2, <1>3 DEF e

\* One more event of the run.
LEMMA TakenAppend ==
  ASSUME NEW s \in Seq(Event), NEW n \in Int32, NEW d \in Members, NEW c,
         TakenWith(s, c), Follows(d, c)
  PROVE  TakenWith(Append(s, [idx |-> n, cfg |-> d]), c)
<1>. DEFINE e == [idx |-> n, cfg |-> d]
<1>1. e \in Event /\ e.cfg = d
  BY DEF Event
<1>. HIDE DEF e
<1>2. /\ Len(Append(s, e)) = Len(s) + 1
      /\ Append(s, e)[Len(s) + 1] = e
      /\ \A k \in 1 .. Len(s) : Append(s, e)[k] = s[k]
      /\ Len(s) \in Nat
  BY <1>1, SequenceEnds
<1>3. TakenWith(Append(s, e), c)
  <2>. SUFFICES ASSUME NEW k \in 1 .. Len(Append(s, e))
                PROVE  Follows(Append(s, e)[k].cfg, c)
    BY DEF TakenWith
  <2>1. CASE k \in 1 .. Len(s)
    BY <1>2, <2>1 DEF TakenWith
  <2>2. CASE k = Len(s) + 1
    BY <1>1, <1>2, <2>2
  <2>. QED
    BY <1>2, <2>1, <2>2
<1>. QED
  BY <1>3 DEF e

\* What has been received of a run's first events is a run's first events.
LEMMA FirstTaken ==
  ASSUME NEW s \in Seq(Event), NEW t \in Seq(Event)
  PROVE  /\ First(s \o t) => First(s)
         /\ \A c : TakenWith(s \o t, c) => TakenWith(s, c)
<1>1. /\ Len(s \o t) = Len(s) + Len(t) /\ Len(s) \in Nat /\ Len(t) \in Nat
      /\ \A k \in 1 .. Len(s) : (s \o t)[k] = s[k]
  BY ConcatProperties, LenProperties
<1>2. 1 .. Len(s) \subseteq 1 .. Len(s \o t)
  BY <1>1
<1>3. First(s \o t) => First(s)
  BY <1>1, <1>2, Zenon DEF First
<1>4. ASSUME NEW c, TakenWith(s \o t, c)
      PROVE  TakenWith(s, c)
  BY <1>1, <1>2, <1>4, Zenon DEF TakenWith
<1>. QED
  BY <1>3, <1>4

\* With the connection there and room for the whole run, each event that the
\* thread sends is one more of the run.
LEMMA SendIsNext ==
  ASSUME ~aborted', TypeOK, DAQInv, BetweenEvents, Written, Dialogue, Settled,
         OfOneRun, Connected, Complete, me \in Peers, conf \in Payloads,
         [SysNext]_sysVars, EarlyJoin, ~forgot, conf.ntrig \in 0 .. HWM, Begun,
         Send, AcquisitionStep, UNCHANGED <<programVars, whoVars>>, ~CmdStartLaunch
  PROVE  /\ at # "exit" /\ Events' = Append(Events, [idx |-> iTrig, cfg |-> daq])
         /\ iTrig = Len(Events) /\ iTrig' = iTrig + 1
<1>0. /\ pipe \in Seq(Event) /\ taken \in Seq(Event)
      /\ iTrig \in Int32 /\ daq \in Members /\ iTrig \in Int /\ daq.ntrig \in Int32
  BY IntMaxAssumption DEF TypeOK, DAQTypeOK, Written, Members, Int32
<1>1. at # "exit"
  <2>1. EventsLeft # 0
    BY LeftStep
  <2>. QED
    BY <2>1 DEF OfOneRun
<1>2. daq.ntrig = conf.ntrig
  BY DEF Settled, Own, Follows, Send
<1>3. thr \in InRun /\ iTrig < daq.ntrig
  <2>1. daq.ntrig >= 0
    BY <1>2
  <2>. QED
    BY <2>1 DEF Send, InRun, DAQInv, LoopInBounds
<1>4. iTrig = Len(Events)
  BY <1>1, <1>3 DEF Complete
<1>5. pulling
  <2>1. dial[me] # "dead"
    BY <1>1, DialIs DEF Dialogue, Written, InLoop
  <2>2. PastConnect /\ thr # "none"
    BY DEF Begun, PastConnect, Send
  <2>. QED
    BY <2>1, <2>2 DEF Connected
<1>6. Len(Events) = Len(taken) + Len(pipe) /\ Len(taken) \in Nat /\ Len(pipe) \in Nat
  BY <1>0, ConcatProperties, LenProperties DEF Events
<1>7. PipeHasRoom
  <2>1. conf.ntrig \in Int /\ conf.ntrig <= HWM
    BY ConfIs, IntMaxAssumption DEF Int32
  <2>2. HWM \in Int
    BY HWMAssumption
  <2>. QED
    BY <1>0, <1>2, <1>3, <1>4, <1>5, <1>6, <2>1, <2>2 DEF PipeHasRoom
<1>8. Events' = Append(Events, [idx |-> iTrig, cfg |-> daq])
  <2>1. [idx |-> iTrig, cfg |-> daq] \in Event
    BY <1>0 DEF Event
  <2>2. pipe' = Append(pipe, [idx |-> iTrig, cfg |-> daq]) /\ taken' = taken
    BY <1>7 DEF Send, programVars
  <2>. QED
    BY <1>0, <2>1, <2>2, SendEvent DEF Events
<1>9. iTrig' = iTrig + 1
  BY <1>0, <1>2, <1>3, NextIntBelow DEF Send
<1>. QED
  BY <1>1, <1>4, <1>8, <1>9

\* No event of a run is lost while the server lives.
LEMMA CompleteStep ==
  ASSUME ~aborted', TypeOK, DAQInv, BetweenEvents, Written, Dialogue, Settled,
         OfOneRun, Connected, Complete, me \in Peers, conf \in Payloads,
         crashes \in Nat, [SysNext]_sysVars
  PROVE  Complete'
<1>. SUFFICES ASSUME EarlyJoin, ~forgot', conf'.ntrig \in 0 .. HWM, Begun'
              PROVE  /\ First(Events')
                     /\ at' # "exit" /\ thr' \in InRun => Len(Events') = iTrig'
  BY DEF Complete
<1>2. ~Launch
  BY DEF Launch, Begun
<1>3. ~forgot /\ conf' = conf /\ (Kill => thr' = "none")
  BY <1>2, SameProgram
<1>4. pipe \in Seq(Event) /\ taken \in Seq(Event) /\ Events \in Seq(Event)
  BY ConcatProperties DEF TypeOK, DAQTypeOK, Written, Events
<1>5. CASE CmdStartLaunch
  <2>1. UNCHANGED <<programVars, whoVars>>
    BY <1>2, <1>5, RunMoves DEF CmdStartLaunch, start_daq_thread, JoinReturns
  <2>2. /\ ~Begun /\ thr' = "enter" /\ UNCHANGED <<pipe, taken, at>> /\ taken = <<>>
    BY <1>5, <2>1, LaunchBegins
  <2>3. pipe = <<>>
    BY <1>3, <2>2 DEF OfOneRun
  <2>4. Events' = <<>>
    <3>1. pipe' = <<>> /\ taken' = <<>>
      BY <2>2, <2>3
    <3>2. <<>> \in Seq(Event)
      OBVIOUS
    <3>. QED
      BY <3>1, <3>2, TakenPart DEF Events
  <2>. QED
    BY <2>2, <2>4 DEF First, InRun
<1>6. CASE ~CmdStartLaunch
  <2>1. Begun
    BY <1>6, BegunStep
  <2>2. /\ First(Events)
        /\ at # "exit" /\ thr \in InRun => Len(Events) = iTrig
    BY <1>3, <2>1 DEF Complete
  <2>3. CASE Send /\ AcquisitionStep /\ UNCHANGED <<programVars, whoVars>>
    <3>1. /\ Events' = Append(Events, [idx |-> iTrig, cfg |-> daq])
          /\ iTrig = Len(Events) /\ iTrig' = iTrig + 1
      BY <1>3, <1>6, <2>1, <2>3, SendIsNext
    <3>2. iTrig \in Int32 /\ daq \in Members
      BY DEF TypeOK, DAQTypeOK
    <3>3. First(Events') /\ Len(Events') = iTrig + 1
      BY <1>4, <2>2, <3>1, <3>2, FirstAppend
    <3>. QED
      BY <1>3, <3>1, <3>3
  <2>4. CASE (Kill \/ (Depart /\ at = "exit")) /\ Begins(Events', Events)
    <3>1. First(Events')
      BY <1>4, <2>2, <2>4, BeginsKeeps
    <3>2. thr' = "none" \/ at' = "exit"
      BY <1>3, <2>4 DEF Depart, programVars
    <3>. QED
      BY <3>1, <3>2 DEF InRun
  <2>5. CASE Events' = Events /\ ~(Send /\ AcquisitionStep /\ UNCHANGED <<programVars, whoVars>>)
    <3>1. at = "exit" => at' = "exit"
      <4>1. CASE ServerStep \/ Attach \/ Kill \/ Depart \/ UNCHANGED sysVars
        BY <4>1 DEF ServerStep, Attach, Kill, Depart, sysVars, programVars
      <4>2. CASE SendRequest \/ RecvReply
        BY <4>2 DEF SendRequest, RecvReply, Program!Send, Program!GotReply
      <4>3. CASE RecvEvent \/ LocalStep \/ Interrupted
        BY <4>3, LocalMoves DEF InLoop
      <4>. QED
        BY <1>2, <4>1, <4>2, <4>3 DEF SysNext, ProgramStep
    <3>2. at' # "exit" /\ thr' \in InRun => Len(Events) = iTrig'
      <4>1. CASE UNCHANGED <<thr, iTrig, daq>>
        BY <2>2, <3>1, <4>1
      <4>2. CASE thr' = "none"
        BY <4>2 DEF InRun
      <4>3. CASE AcquisitionStep /\ UNCHANGED <<programVars, whoVars>>
        <5>1. CASE Enter
          <6>1. Events = <<>>
            BY <1>3, <2>1, <5>1 DEF OfOneRun, Enter
          <6>. QED
            BY <5>1, <6>1 DEF Enter
        <5>2. CASE ~Enter
          <6>1. /\ thr \in InRun \/ thr' \notin InRun
                /\ thr' \in InRun => UNCHANGED iTrig
            BY <2>5, <4>3, <5>2 DEF AcquisitionStep, ThreadStep, LoopEnd, SeeStop,
                 ClearStop, LoopBody, Acquire, Read, Post, daqRest, InRun
          <6>. QED
            BY <2>2, <3>1, <6>1
        <5>. QED
          BY <5>1, <5>2
      <4>. QED
        BY <1>6, <4>1, <4>2, <4>3, RunMoves
    <3>. QED
      BY <1>3, <2>2, <2>5, <3>2
  <2>. QED
    BY <1>2, <2>3, <2>4, <2>5, EventsStep
<1>. QED
  BY <1>5, <1>6

\* Nobody's settings but the program's get into its run's events, whatever becomes of the events.
LEMMA OwnEventsStep ==
  ASSUME ~aborted', TypeOK, BetweenEvents, Written, Dialogue, Settled, OfOneRun,
         OwnEvents, me \in Peers, conf \in Payloads, crashes \in Nat, [SysNext]_sysVars
  PROVE  OwnEvents'
<1>. SUFFICES ASSUME ~forgot', Begun' PROVE TakenWith(Events', conf')
  BY DEF OwnEvents
<1>2. ~Launch
  BY DEF Launch, Begun
<1>3. ~forgot /\ conf' = conf /\ (Kill => thr' = "none")
  BY <1>2, SameProgram
<1>4. pipe \in Seq(Event) /\ taken \in Seq(Event) /\ Events \in Seq(Event)
  BY ConcatProperties DEF TypeOK, DAQTypeOK, Written, Events
<1>5. CASE CmdStartLaunch
  <2>1. UNCHANGED <<programVars, whoVars>>
    BY <1>2, <1>5, RunMoves DEF CmdStartLaunch, start_daq_thread, JoinReturns
  <2>2. /\ ~Begun /\ UNCHANGED <<pipe, taken>> /\ taken = <<>>
    BY <1>5, <2>1, LaunchBegins
  <2>3. pipe' = <<>> /\ taken' = <<>>
    BY <1>3, <2>2 DEF OfOneRun
  <2>4. <<>> \in Seq(Event)
    OBVIOUS
  <2>5. Events' = <<>>
    BY <2>3, <2>4, TakenPart DEF Events
  <2>. QED
    BY <2>5 DEF TakenWith
<1>6. CASE ~CmdStartLaunch
  <2>1. Begun
    BY <1>6, BegunStep
  <2>2. TakenWith(Events, conf)
    BY <1>3, <2>1 DEF OwnEvents
  <2>3. CASE Send /\ Events' = Append(Events, [idx |-> iTrig, cfg |-> daq])
    <3>1. iTrig \in Int32 /\ daq \in Members
      BY DEF TypeOK, DAQTypeOK
    <3>2. Follows(daq, conf)
      BY <1>3, <2>1, <2>3 DEF Settled, Own, Send
    <3>3. TakenWith(Append(Events, [idx |-> iTrig, cfg |-> daq]), conf)
      BY <1>4, <2>2, <3>1, <3>2, TakenAppend
    <3>. QED
      BY <1>3, <2>3, <3>3
  <2>4. CASE Events' = Events
    BY <1>3, <2>2, <2>4
  <2>5. CASE Begins(Events', Events)
    <3>1. TakenWith(Events', conf)
      BY <1>4, <2>2, <2>5, BeginsKeeps
    <3>. QED
      BY <1>3, <2>5, <3>1
  <2>. QED
    BY <1>2, <2>3, <2>4, <2>5, EventsStep
<1>. QED
  BY <1>5, <1>6

-----------------------------------------------------------------------------
(* The invariant of the system, and what follows from it.                  *)

\* The first program and a fresh server agree.
LEMMA SysInitInv == SysInit => SysInv
<1>. SUFFICES ASSUME SysInit PROVE SysInv
  OBVIOUS
<1>1. Init /\ me \in Peers /\ conf \in Payloads /\ crashes = 0 /\ ~aborted /\ ~forgot
  BY DEF SysInit
<1>2. /\ at = "send" /\ step = 1 /\ gstop = FALSE /\ nEvts = conf.ntrig /\ i = 0
      /\ files = 0 /\ log = <<>> /\ taken = <<>>
  BY DEF SysInit, Program!ClientInit
<1>3. TypeOK /\ DAQInv
  BY <1>1, InitType, DAQInitInv DEF Init
<1>4. thr = "none" /\ msg = 0 /\ pipe = <<>> /\ iTrig = 0 /\ pulling = FALSE
  BY <1>1 DEF Init, DAQInit
<1>5. Request = "config"
  BY <1>2, ScriptIs DEF Request
<1>6. /\ ctl = "recv" /\ rep = NoPeer
      /\ \A p \in Peers : inbox[p] = NoMsg /\ outbox[p] = "none" /\ dial[p] = "free"
  BY <1>1 DEF Init
<1>7. BetweenEvents
  BY <1>4 DEF BetweenEvents
<1>8. Written
  <2>1. log \in Seq([evt: Event, file: Nat, end: Nat]) /\ taken \in Seq(Event) /\ Len(log) = 0
    BY <1>2
  <2>2. at = "send" /\ at \notin InLoop /\ at \notin {"exit", "write", "test", "loop", "data"}
    BY <1>2 DEF InLoop
  <2>3. gstop \in BOOLEAN
    BY <1>2
  <2>4. i = Len(log) /\ nEvts = conf.ntrig /\ files \in Nat /\ step \in 1 .. 9 /\ step # 9
    BY <1>2, <2>1
  <2>5. Len(taken) = 0 /\ 1 .. Len(log) = {}
    BY <1>2
  <2>. QED
    BY <1>2, <2>1, <2>2, <2>3, <2>4, <2>5 DEF Written
<1>9. Dialogue
  BY <1>1, <1>2, <1>4, <1>5, <1>6
     DEF Dialogue, NoneElse, Listening, WaitsAt, Seconds, Channels
<1>10. StopAnswered
  BY <1>1, <1>2, <1>6 DEF StopAnswered
<1>11. ~Begun /\ ~Own /\ ~Told
  BY <1>2 DEF Begun, Own, Told
<1>12. Settled /\ OfOneRun /\ Connected /\ Complete /\ OwnEvents
  BY <1>2, <1>4, <1>6, <1>11 DEF AtStart, PastConnect, Settled, OfOneRun, Connected, Complete, OwnEvents, EventsLeft
<1>. QED
  BY <1>1, <1>3, <1>7, <1>8, <1>9, <1>10, <1>12 DEF SysInv

\* Who the program is, and with what configuration, changes at a launch only.
LEMMA WhoStep ==
  ASSUME me \in Peers, conf \in Payloads, crashes \in Nat, [SysNext]_sysVars
  PROVE  me' \in Peers /\ conf' \in Payloads /\ crashes' \in Nat
<1>1. CASE Launch
  BY <1>1 DEF Launch
<1>2. CASE ~Launch
  BY <1>2 DEF SysNext, ServerStep, Attach, Kill, ProgramStep, SendRequest, RecvReply,
       RecvEvent, LocalStep, Interrupted, Depart, whoVars, sysVars
<1>. QED
  BY <1>1, <1>2

\* Every step of the system keeps every part of the invariant.
LEMMA SysInvStep ==
  ASSUME ~aborted', SysInv, [SysNext]_sysVars
  PROVE  SysInv'
<1>1. /\ TypeOK /\ DAQInv /\ BetweenEvents
      /\ me \in Peers /\ conf \in Payloads /\ crashes \in Nat
      /\ Written /\ Dialogue /\ StopAnswered /\ Settled
      /\ OfOneRun /\ Connected /\ Complete /\ OwnEvents
  BY DEF SysInv
<1>2. step \in 1 .. 9 /\ DAQTypeOK
  BY <1>1 DEF Written, TypeOK
<1>3. DAQStep
  BY <1>1, SysDAQStep
<1>4. TypeOK'
  BY <1>1, <1>2, SysTypeStep
<1>5. DAQInv'
  BY <1>1, <1>2, <1>3, DAQInvStep
<1>6. BetweenEvents'
  BY <1>1, <1>2, <1>3, BetweenStep
<1>7. me' \in Peers /\ conf' \in Payloads /\ crashes' \in Nat
  BY <1>1, WhoStep
<1>8. Written'
  BY <1>1, WrittenStep
<1>9. Dialogue'
  BY <1>1, DialogueStep
<1>10. StopAnswered'
  BY <1>1, StopAnsweredStep
<1>11. Settled'
  BY <1>1, SettledStep
<1>12. OfOneRun'
  BY <1>1, OfOneRunStep
<1>13. Connected'
  BY <1>1, ConnectedStep
<1>14. Complete'
  BY <1>1, CompleteStep
<1>15. OwnEvents'
  BY <1>1, OwnEventsStep
<1>. QED
  BY <1>4, <1>5, <1>6, <1>7, <1>8, <1>9, <1>10, <1>11, <1>12, <1>13, <1>14, <1>15 DEF SysInv

\* Whatever signals programs are sent and however often the server is killed, as
\* long as no program is aborted in a recv, the program, the command server and
\* the acquisition thread are in step: a request is on one place of its way
\* (server.cpp:211-240, DAQCtrl.h:174-201), the thread runs with the settings of
\* the program whose run it is (server.cpp:262-283), and what has been recorded
\* or is on its way is of that run (server.cpp:98-119, DAQCtrl.h:118-171).
THEOREM SystemInductive == SysSpec => [](~aborted => SysInv)
<1>1. SysInit => (~aborted => SysInv)
  BY SysInitInv
<1>2. (~aborted => SysInv) /\ [SysNext]_sysVars => (~aborted => SysInv)'
  <2>. SUFFICES ASSUME ~aborted => SysInv, [SysNext]_sysVars, ~aborted'
                PROVE  SysInv'
    OBVIOUS
  <2>1. ~aborted
    BY DEF SysNext, ServerStep, Attach, Kill, ProgramStep, SendRequest, RecvReply,
           RecvEvent, LocalStep, Interrupted, Depart, Launch, whoVars, sysVars
  <2>. QED
    BY <2>1, SysInvStep
<1>. QED
  BY <1>1, <1>2, PTL DEF SysSpec

\* A run has begun where a program has written something.
LEMMA LogOfRun ==
  ASSUME SysInv, log # <<>>
  PROVE  Begun
<1>1. Len(log) # 0
  BY EmptySeq, LenProperties DEF SysInv, Written
<1>. QED
  BY DEF SysInv, Written, Begun, InLoop

\* Once "Stopped" is on its way to a program, the thread is gone and no event
\* of the run can be read or sent (server.cpp:275-283).
THEOREM StoppedIsQuiet == SysSpec => []StoppedMeansQuiet
<1>1. (~aborted => SysInv) => StoppedMeansQuiet
  <2>. SUFFICES ASSUME ~aborted => SysInv, ~aborted, NEW p \in Peers, outbox[p] = "Stopped"
                PROVE  thr = "none" /\ msg = 0
    BY DEF StoppedMeansQuiet
  <2>1. p = me
    BY DEF SysInv, Dialogue, NoneElse
  <2>2. thr = "none"
    BY <2>1 DEF SysInv, StopAnswered
  <2>. QED
    BY <2>2 DEF SysInv, BetweenEvents
<1>2. SysSpec => [](~aborted => SysInv)
  BY SystemInductive
<1>. QED
  BY <1>1, <1>2, PTL

\* The programs of this repository, one at a time, do not make the server throw
\* as long as none of them is aborted: whatever it lost when it was killed, it
\* dies of nothing else before (server.cpp:211-240, 285-381).
THEOREM ServerSurvives == SysSpec => []ServerOutlivesPrograms
<1>1. (~aborted => SysInv) => ServerOutlivesPrograms
  <2>. SUFFICES ASSUME SysInv, crashes = 0 PROVE ctl # "down"
    BY DEF ServerOutlivesPrograms
  <2>1. Dialogue /\ at \in {"send", "recv"} \cup {"exit"} \cup InLoop
    BY DEF SysInv, Written
  <2>2. \A r : WaitsAt(r) # "down" /\ GoesTo(r) # "down"
    BY DEF WaitsAt, GoesTo
  <2>3. ~Serves("down", Request)
    BY DEF Serves, CmdTags
  <2>4. \A where : Listening(where) => ctl = where
    BY DEF Listening, Restarted
  <2>5. ~Lost
    BY DEF Lost, Restarted
  <2>. QED
    BY <2>1, <2>2, <2>3, <2>4, <2>5 DEF Dialogue, Sent, Served, Answered, InLoop
<1>. QED
  BY <1>1, SystemInductive, PTL

\* A program has written some of the events it was sent.
LEMMA LogIsTaken ==
  ASSUME SysInv, NEW k \in 1 .. Len(log)
  PROVE  Begun /\ k \in 1 .. Len(taken) /\ log[k].evt = taken[k]
<1>1. /\ log \in Seq([evt: Event, file: Nat, end: Nat]) /\ taken \in Seq(Event)
      /\ Len(log) <= Len(taken) /\ \A j \in 1 .. Len(log) : log[j].evt = taken[j]
  BY DEF SysInv, Written
<1>2. Len(log) \in Nat /\ Len(taken) \in Nat
  BY <1>1, LenProperties
<1>3. log # <<>>
  BY <1>2
<1>. QED
  BY <1>1, <1>2, <1>3, LogOfRun

\* From the answer to its "start" on, thread and driver have every setting that
\* the program configured, as long as the server lives, and every event that it
\* records was taken with them, in a finite run or an endless one, with events
\* lost or not, whatever the programs before it left, unless one of them was
\* aborted or a killed server forgot what it was told (server.cpp:188-209,
\* 262-273, 334-349).
THEOREM OwnSettings == SysSpec => []RunsOwnSettings
<1>1. (~aborted => SysInv) => RunsOwnSettings
  <2>. SUFFICES ASSUME SysInv, ~forgot
                PROVE  /\ crashes = 0 /\ at \in InLoop => Follows(daq, conf) /\ DriverFollows(ltc, conf)
                       /\ \A k \in 1 .. Len(log) : Follows(log[k].evt.cfg, conf)
    BY DEF RunsOwnSettings, InLoop
  <2>1. ASSUME crashes = 0, at \in InLoop
        PROVE  Follows(daq, conf) /\ DriverFollows(ltc, conf)
    <3>1. Settled /\ step = 8
      BY <2>1 DEF SysInv, Written
    <3>2. Own
      BY <2>1, <3>1 DEF Own, Begun, InLoop
    <3>. QED
      BY <2>1, <3>1, <3>2 DEF Settled
  <2>2. ASSUME NEW k \in 1 .. Len(log)
        PROVE  Follows(log[k].evt.cfg, conf)
    <3>1. Begun /\ k \in 1 .. Len(taken) /\ log[k].evt = taken[k]
      BY LogIsTaken
    <3>2. taken \in Seq(Event) /\ pipe \in Seq(Event)
      BY DEF SysInv, Written, TypeOK, DAQTypeOK
    <3>3. TakenWith(taken, conf)
      BY <3>1, <3>2, FirstTaken DEF SysInv, OwnEvents, Events
    <3>. QED
      BY <3>1, <3>3 DEF TakenWith
  <2>. QED
    BY <2>1, <2>2
<1>. QED
  BY <1>1, SystemInductive, PTL

\* A program that has returned from main leaves no event to come, unless one was
\* aborted or a killed server forgot what it was told
\* (DAQCtrl.h:136-156, server.cpp:275-283).
THEOREM NoneLeftBehind == SysSpec => []NoRunLeftBehind
<1>1. (~aborted => SysInv) => NoRunLeftBehind
  BY DEF SysInv, OfOneRun, NoRunLeftBehind
<1>. QED
  BY <1>1, SystemInductive, PTL

\* What is recorded is of one run when what was received is.
LEMMA OneRunIsRecorded ==
  ASSUME SysInv, ~forgot, conf.ntrig >= 0
  PROVE  \A k \in 2 .. Len(log) : /\ log[k - 1].evt.idx < log[k].evt.idx
                                  /\ log[k - 1].evt.cfg = log[k].evt.cfg
<1>. SUFFICES ASSUME NEW k \in 2 .. Len(log)
              PROVE  /\ log[k - 1].evt.idx < log[k].evt.idx
                     /\ log[k - 1].evt.cfg = log[k].evt.cfg
  OBVIOUS
<1>0. /\ taken \in Seq(Event) /\ pipe \in Seq(Event)
      /\ log \in Seq([evt: Event, file: Nat, end: Nat])
      /\ Len(log) <= Len(taken) /\ \A j \in 1 .. Len(log) : log[j].evt = taken[j]
  BY DEF SysInv, Written, TypeOK, DAQTypeOK
<1>1. Len(log) \in Nat /\ Len(taken) \in Nat
  BY <1>0, LenProperties
<1>2. log # <<>>
  BY <1>1
<1>3. Begun
  BY <1>2, LogOfRun
<1>4. Ordered(Events)
  BY <1>3 DEF SysInv, OfOneRun
<1>5. Ordered(taken)
  BY <1>0, <1>4, TakenPart DEF Events
<1>6. k - 1 \in 1 .. Len(taken) /\ k \in 1 .. Len(taken) /\ k - 1 < k
      /\ k - 1 \in 1 .. Len(log) /\ k \in 1 .. Len(log)
  BY <1>0, <1>1
<1>7. taken[k - 1].idx < taken[k].idx /\ taken[k - 1].cfg = taken[k].cfg
  <2>1. \A j, n \in 1 .. Len(taken) :
          j < n => taken[j].idx < taken[n].idx /\ taken[j].cfg = taken[n].cfg
    BY <1>5 DEF Ordered
  <2>. QED
    BY <1>6, <2>1
<1>8. log[k - 1].evt = taken[k - 1] /\ log[k].evt = taken[k]
  BY <1>0, <1>6
<1>. QED
  BY <1>7, <1>8

\* Events lost or not, a program with a finite run records events of one run only,
\* each once and in order: no event of an earlier run is left for it, however the
\* runs before it ended, and a server that is killed starts none by itself, unless
\* it forgot what the program told it (DAQCtrl.h:118-171, server.cpp:98-119).
THEOREM OneRunRecorded == SysSpec => []RecordsOneRun
<1>1. (~aborted => SysInv) => RecordsOneRun
  BY OneRunIsRecorded DEF RecordsOneRun
<1>. QED
  BY <1>1, SystemInductive, PTL

-----------------------------------------------------------------------------
(* The program in the system, also one that is interrupted while it waits  *)
(* for a reply: what DAQClient_proofs shows of a program is used here with *)
(* the server for its environment.                                         *)

Client == INSTANCE DAQClient_proofs WITH
  queue <- pipe, replied <- outbox[me] # "none",
  RunLengths <- {c.ntrig : c \in Payloads}, MaxFileSize <- IntMax,
  Sizes <- {0}, MaxArrivals <- 0, MaxSpurious <- 0, DiskFails <- FALSE

\* What DAQClient assumes of its constants is so here.
LEMMA ClientAssumptions ==
  /\ {c.ntrig : c \in Payloads} \subseteq Int
  /\ IntMax \in Nat /\ IntMax \in Nat /\ {0} \subseteq Nat
  /\ 0 \in Nat /\ 0 \in Nat /\ FALSE \in BOOLEAN
  /\ Nothing \notin Event /\ 1 .. 0 \subseteq Event
<1>1. \A c \in Payloads : c.ntrig \in Int
  BY PayloadsAssumption, SystemAssumption, IntMaxAssumption DEF Int32
<1>. QED
  BY <1>1, IntMaxAssumption, SystemAssumption

LEMMA ClientBegins ==
  \A c \in Payloads : Program!ClientInit(c.ntrig) => Client!ProgramInv
BY ClientAssumptions, Client!ProgramBegins DEF Program!ClientInit, Client!ClientInit

LEMMA ClientGoesOn == Client!ProgramInv /\ [Client!ProgramMoves]_programVars => Client!ProgramInv'
BY ClientAssumptions, Client!ProgramGoesOn DEF programVars, Client!clientVars

\* The steps of the program are the same in both instances.
LEMMA SameMoves ==
  /\ Program!Send => Client!ProgramMoves
  /\ Program!GotReply => Client!ProgramMoves
  /\ Program!Loop => Client!ProgramMoves
  /\ Program!SeeStop => Client!ProgramMoves
  /\ Program!GoOn => Client!ProgramMoves
  /\ Program!QuietSignal => Client!ProgramMoves
  /\ \A e \in Event : Program!GotEvent(e) => Client!ProgramMoves
  /\ Program!Write(0) => Client!ProgramMoves
  /\ Program!Signal /\ (Program!Abort \/ Program!DataError) => Client!ProgramMoves
<1>1. Program!Send => Client!Send
  BY DEF Program!Send, Client!Send, Program!Reopen, Client!Reopen, Program!Script,
         Client!Script, Program!runVars, Client!runVars, Program!diskVars,
         Client!diskVars
<1>2. Program!GotReply => Client!GotReply
  BY DEF Program!GotReply, Client!GotReply, Program!Leave, Client!Leave, Program!Flush,
         Client!Flush, Program!diskVars, Client!diskVars,
         Program!Script, Client!Script, Program!runVars, Client!runVars
<1>3. Program!Loop => Client!Loop
  BY DEF Program!Loop, Client!Loop, Program!Leave, Client!Leave, Program!Flush,
         Client!Flush, Program!diskVars, Client!diskVars,
         Program!MoreEvents, Client!MoreEvents, Program!runVars, Client!runVars
<1>4. Program!SeeStop => Client!SeeStop
  BY DEF Program!SeeStop, Client!SeeStop, Program!Script, Client!Script,
         Program!fileVars, Client!fileVars, Program!diskVars, Client!diskVars
<1>5. Program!GoOn => Client!GoOn
  BY DEF Program!GoOn, Client!GoOn, Program!runVars, Client!runVars,
         Program!fileVars, Client!fileVars, Program!diskVars, Client!diskVars
<1>6. Program!QuietSignal => Client!QuietSignal
  BY DEF Program!QuietSignal, Client!QuietSignal, Program!Signal, Client!Signal,
         Program!Ended, Client!Ended, Program!runVars, Client!runVars,
         Program!fileVars, Client!fileVars, Program!diskVars, Client!diskVars
<1>7. ASSUME NEW e \in Event, Program!GotEvent(e) PROVE Client!GotEvent(e)
  BY <1>7 DEF Program!GotEvent, Client!GotEvent, Program!fileVars, Client!fileVars, Program!diskVars, Client!diskVars
<1>8. Program!Write(0) => Client!Write(0)
  BY DEF Program!Write, Client!Write, Program!Filled, Client!Filled,
         Program!Rotate, Client!Rotate, Program!Reopen, Client!Reopen,
         Program!Buffered, Client!Buffered, Program!Wrap, Client!Wrap, Program!Flush,
         Client!Flush
<1>9. Program!Signal /\ (Program!Abort \/ Program!DataError)
        => Client!Signal /\ (Client!Abort \/ Client!DataError)
  BY DEF Program!Signal, Client!Signal, Program!Abort, Client!Abort,
         Program!DataError, Client!DataError, Program!runVars, Client!runVars,
         Program!fileVars, Client!fileVars, Program!diskVars, Client!diskVars
<1>. QED
  BY <1>1, <1>2, <1>3, <1>4, <1>5, <1>6, <1>7, <1>8, <1>9 DEF Client!ProgramMoves

\* So is every step of the system for the present program.
LEMMA SystemMoves ==
  ASSUME TypeOK, [SysNext]_sysVars
  PROVE  [Client!ProgramMoves]_programVars \/ Launch
<1>1. CASE ServerStep \/ Attach \/ Kill \/ Depart \/ UNCHANGED sysVars
  <2>1. UNCHANGED programVars
    BY <1>1 DEF ServerStep, Attach, Kill, Depart, sysVars
  <2>. QED
    BY <2>1
<1>2. CASE SendRequest \/ RecvReply \/ LocalStep
  BY <1>2, SameMoves DEF SendRequest, RecvReply, LocalStep
<1>3. CASE RecvEvent
  <2>1. Head(pipe) \in Event
    BY <1>3, HeadTailProperties DEF RecvEvent, TypeOK, DAQTypeOK
  <2>. QED
    BY <1>3, <2>1, SameMoves DEF RecvEvent
<1>4. CASE Interrupted
  BY <1>4, SameMoves DEF Interrupted
<1>. QED
  BY <1>1, <1>2, <1>3, <1>4 DEF SysNext, ProgramStep

-----------------------------------------------------------------------------
(* What holds of the system whatever programs are interrupted (any         *)
(* AbortAt) and whenever the server is killed.                             *)

AnyInv ==
  /\ IInv /\ BetweenEvents
  /\ me \in Peers /\ conf \in Payloads /\ crashes \in Nat
  /\ Client!ProgramInv

\* A new program has everything before it.
LEMMA LaunchProgram ==
  ASSUME conf' \in Payloads, Launch
  PROVE  Client!ProgramInv'
<1>1. (\A c \in Payloads : Program!ClientInit(c.ntrig) => Client!ProgramInv)'
  BY ClientBegins, PTL
<1>2. (Program!ClientInit(conf.ntrig))'
  BY DEF Launch, Program!ClientInit
<1>. QED
  BY <1>1, <1>2

\* What relates the control thread to the acquisition thread in the server
\* does not depend on who its peers are.
LEMMA SysServerStep ==
  ASSUME IInv, me \in Peers, conf \in Payloads, step \in 1 .. 9, [SysNext]_sysVars
  PROVE  JoinedForStart' /\ DriverAgrees' /\ NothingOwed'
<1>1. CASE ServerStep \/ SendRequest \/ RecvReply
  <2>1. [Next]_vars
    BY <1>1, CallIsPeerStep DEF ServerStep, RecvReply, PeerStep, Next
  <2>. QED
    BY <2>1, JoinedStep, DriverStep, OwedStep DEF IInv
<1>2. CASE Kill
  BY <1>2 DEF Kill, Terminate, DAQReset, JoinedForStart, DriverAgrees, NothingOwed,
              Running
<1>3. CASE ~(ServerStep \/ SendRequest \/ RecvReply \/ Kill)
  <2>1. UNCHANGED <<ctlVars, thr, daq, ltc>>
    BY <1>3 DEF SysNext, ProgramStep, Attach, PullAttach, RecvEvent, PullRecv,
                LocalStep, Interrupted, Depart, Launch, vars, daqVars, sysVars
  <2>. QED
    BY <2>1 DEF IInv, JoinedForStart, DriverAgrees, NothingOwed, ctlVars
<1>. QED
  BY <1>1, <1>2, <1>3

LEMMA StepOfProgram == Client!ProgramInv => step \in 1 .. 9
BY DEF Client!ProgramInv, Client!LoopInv, Client!ProgramTypeOK, Client!Script

LEMMA AnyInvStep == AnyInv /\ [SysNext]_sysVars => AnyInv' /\ DAQStep
<1>. SUFFICES ASSUME AnyInv, [SysNext]_sysVars PROVE AnyInv' /\ DAQStep
  OBVIOUS
<1>1. /\ IInv /\ BetweenEvents /\ TypeOK /\ DAQInv /\ DAQTypeOK
      /\ me \in Peers /\ conf \in Payloads /\ crashes \in Nat /\ Client!ProgramInv
  BY DEF AnyInv, IInv, TypeOK
<1>2. step \in 1 .. 9
  BY <1>1, StepOfProgram
<1>3. DAQStep
  BY <1>1, SysDAQStep
<1>4. BetweenEvents' /\ DAQInv'
  BY <1>1, <1>3, BetweenStep, DAQInvStep
<1>5. TypeOK'
  BY <1>1, <1>2, SysTypeStep
<1>6. JoinedForStart' /\ DriverAgrees' /\ NothingOwed'
  BY <1>1, <1>2, SysServerStep
<1>7. me' \in Peers /\ conf' \in Payloads /\ crashes' \in Nat
  BY <1>1, WhoStep
<1>8. Client!ProgramInv'
  <2>1. [Client!ProgramMoves]_programVars \/ Launch
    BY <1>1, SystemMoves
  <2>. QED
    BY <1>1, <1>7, <2>1, LaunchProgram, ClientGoesOn
<1>. QED
  BY <1>3, <1>4, <1>5, <1>6, <1>7, <1>8 DEF AnyInv, IInv

\* The invariant of server and programs that needs no supposition about signals:
\* the two components' own invariants hold in their composition
\* (server.cpp:81-173, 211-391; DAQCtrl.h:118-185).
THEOREM AnyInductive == SysSpec => []AnyInv
<1>1. SysInit => AnyInv
  <2>. SUFFICES ASSUME SysInit PROVE AnyInv
    OBVIOUS
  <2>1. Init /\ me \in Peers /\ conf \in Payloads /\ crashes = 0
        /\ Program!ClientInit(conf.ntrig)
    BY DEF SysInit
  <2>2. BetweenEvents
    BY <2>1 DEF Init, DAQInit, BetweenEvents
  <2>. QED
    BY <2>1, <2>2, InitIInv, ClientBegins DEF AnyInv
<1>. QED
  BY <1>1, AnyInvStep, PTL DEF SysSpec

\* The server keeps its promises to programs that come, abort and go, and to
\* whatever an aborted one has left in its socket: the driver's copies fit,
\* no second event after a stop, no receive while a reply is owed, and no
\* change of settings in a run (server.cpp:98-163, 211-391, LTC2333.cpp:137).
THEOREM ServerInSystem ==
  SysSpec => /\ []CopyFitsMessage
             /\ []StopWithinOneEvent
             /\ []RepliesBeforeRecv
             /\ ConfigFixedInRun
<1>1. AnyInv => CopyFitsMessage /\ StopWithinOneEvent /\ RepliesBeforeRecv
  <2>. SUFFICES ASSUME AnyInv
                PROVE  CopyFitsMessage /\ StopWithinOneEvent /\ RepliesBeforeRecv
    OBVIOUS
  <2>1. thr = "read" => SameNumbers
    BY DEF AnyInv, IInv, DriverAgrees, SameNumbers, Running
  <2>2. CopyFitsMessage
    BY <2>1, CopyFitsRoom DEF AnyInv, IInv, TypeOK, DAQInv
  <2>3. StopWithinOneEvent
    BY DEF AnyInv, IInv, DAQInv, LateOnlyBeforeTest, StopWithinOneEvent
  <2>4. RepliesBeforeRecv
    BY DEF AnyInv, IInv, NothingOwed, RepliesBeforeRecv
  <2>. QED
    BY <2>2, <2>3, <2>4
<1>2. AnyInv /\ [SysNext]_sysVars =>
        [(thr \in Running /\ thr' \in Running) => (daq' = daq /\ ltc' = ltc)]_daqVars
  BY AnyInvStep, ConfigStays DEF AnyInv, IInv, TypeOK
<1>. QED
  BY <1>1, <1>2, AnyInductive, PTL DEF SysSpec, ConfigFixedInRun

\* Programs and server together implement the abstract run, whenever programs
\* are interrupted and the server is killed: a stop that a program which is
\* gone has left ends one run at most, and every other run delivers its number
\* of events (server.cpp:81-173, 262-283).
THEOREM SystemRefinesRun == SysSpec => ImplementsRunControl
<1>1. SysInit => Run!Init
  BY RefinesInit DEF SysInit
<1>2. AnyInv /\ [SysNext]_sysVars => [Run!Next]_(Run!rcVars)
  BY AnyInvStep, RefinesThread, RefinesMethods DEF AnyInv
<1>. QED
  BY <1>1, <1>2, AnyInductive, PTL DEF SysSpec, ImplementsRunControl, Run!Safety

\* A program keeps its promises with this server for its environment, aborted
\* ones before it or not: its files hold in order what it received, its counter
\* counts events and errors, and one that returns from main - not one that is
\* aborted - has stopped what it did not complete (DAQCtrl.h:118-185,
\* client.cpp:72-74).
THEOREM ProgramInSystem ==
  SysSpec => [](/\ Program!RecordsWhatItReceives
                /\ Program!CountsEvents
                /\ Program!StopsWhatItLeaves)
<1>1. AnyInv => /\ Client!RecordsWhatItReceives /\ Client!CountsEvents
                /\ Client!StopsWhatItLeaves
  BY DEF AnyInv, Client!ProgramInv, Client!LoopInv
<1>2. Client!RecordsWhatItReceives => Program!RecordsWhatItReceives
  BY DEF Client!RecordsWhatItReceives, Program!RecordsWhatItReceives,
         Client!Held, Program!Held
<1>3. Client!CountsEvents => Program!CountsEvents
  BY DEF Client!CountsEvents, Program!CountsEvents
<1>4. Client!StopsWhatItLeaves => Program!StopsWhatItLeaves
  BY DEF Client!StopsWhatItLeaves, Program!StopsWhatItLeaves,
         Client!Script, Program!Script
<1>. QED
  BY <1>1, <1>2, <1>3, <1>4, AnyInductive, PTL

-----------------------------------------------------------------------------
(* The two components together: the whole run.                             *)

\* The events a program has written are the first of its run.
LEMMA LogIsOwn ==
  ASSUME SysInv, EarlyJoin, ~forgot, conf.ntrig \in 0 .. HWM, NEW k \in 1 .. Len(log)
  PROVE  log[k].evt.idx = k - 1
<1>1. Begun /\ k \in 1 .. Len(taken) /\ log[k].evt = taken[k]
  BY LogIsTaken
<1>2. taken \in Seq(Event) /\ pipe \in Seq(Event)
  BY DEF SysInv, Written, TypeOK, DAQTypeOK
<1>3. First(taken)
  BY <1>1, <1>2, FirstTaken DEF SysInv, Complete, Events
<1>. QED
  BY <1>1, <1>3 DEF First

\* A program that was not told to stop has counted all its triggers, each an
\* event in its files.
LEMMA LogIsWhole ==
  ASSUME SysInv, AnyInv, at = "exit", ~gstop
  PROVE  Len(log) = conf.ntrig
<1>1. Client!ProgramInv
  BY DEF AnyInv
<1>2. i = Len(log) /\ nEvts = conf.ntrig /\ (step = 9 \/ (nEvts >= 0 /\ i >= nEvts))
  BY DEF SysInv, Written
<1>3. step # 9
  BY <1>1 DEF Client!ProgramInv, Client!LoopInv, Client!Phases, Client!Script
<1>4. nEvts >= 0 => i <= nEvts
  BY <1>1 DEF Client!ProgramInv, Client!LoopInv, Client!CountsEvents
<1>5. conf.ntrig \in Int
  BY ConfIs DEF SysInv, Int32
<1>. QED
  BY <1>2, <1>3, <1>4, <1>5

\* With the data connection there before the run starts and room in the pipe for
\* the run, a program records its own run from the first event and without a gap,
\* and all of it if no signal stops it, unless a program was aborted before or a
\* killed server forgot what it was told (server.cpp:98-119, DAQCtrl.h:136-170,
\* README.md:9).
THEOREM OwnRunRecorded == SysSpec => []RecordsOwnRun
<1>1. (~aborted => SysInv) /\ AnyInv => RecordsOwnRun
  BY LogIsOwn, LogIsWhole DEF RecordsOwnRun
<1>. QED
  BY <1>1, SystemInductive, AnyInductive, PTL

=============================================================================
