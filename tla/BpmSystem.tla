------------------------------ MODULE BpmSystem ------------------------------
(***************************************************************************)
(* The whole system: client programs (DAQClient) that run one after the    *)
(* other against one server (Server), over both of its sockets.  Each      *)
(* program is a peer of its own: it connects, talks, and is gone when it   *)
(* returns or aborts, its connections with it; the server, its run and its *)
(* settings stay.                                                          *)
(***************************************************************************)
EXTENDS Server

CONSTANTS
  Nothing,     \* no event
  EarlyJoin,   \* the data socket is connected before the run starts
  Signals,     \* whether programs are sent signals
  AbortAt,     \* bound: the requests whose reply a signal prevents a program
               \* from waiting for
  MaxCrashes   \* bound: how often the server's process is killed

ASSUME SystemAssumption ==
  /\ EarlyJoin \in BOOLEAN /\ Signals \in BOOLEAN /\ MaxCrashes \in Nat
  /\ \A c \in Payloads : {"ntrig", "reads"} \subseteq DOMAIN c
  /\ Nothing \notin Event

VARIABLES
  me,        \* the peer that the present program is
  conf,      \* its configuration
  crashes,   \* how often the server was killed
  aborted,   \* history: a signal has aborted a program that waited for a reply
  forgot,    \* history: the server was killed when a program had sent it
             \* requests and its "start" had not been answered yet
  at, step, gstop, nEvts, i, held, open, files, file_size, log, flushed,
  lost, taken, skipped, dropped    \* the program, as in DAQClient

programVars == <<at, step, gstop, nEvts, i, held, open, files, file_size, log,
                 flushed, lost, taken, skipped, dropped>>
whoVars  == <<me, conf, crashes, aborted, forgot>>
sysVars  == <<vars, programVars, whoVars>>

\* What DAQClient leaves to its environment is here the server's.  A file is
\* never full.
Program == INSTANCE DAQClient WITH
  queue <- pipe, replied <- outbox[me] # "none",
  RunLengths <- {c.ntrig : c \in Payloads}, MaxFileSize <- IntMax,
  Sizes <- {0}, MaxArrivals <- 0, MaxSpurious <- 0, DiskFails <- FALSE

SysInit ==
  /\ Init
  /\ me \in Peers
  /\ conf \in Payloads
  /\ crashes = 0 /\ aborted = FALSE /\ forgot = FALSE
  /\ Program!ClientInit(conf.ntrig)

Request == Program!Script[step]
Over    == at \in Program!Ended

-----------------------------------------------------------------------------
(* The server, and the data connection of the present program.             *)

ServerStep ==
  /\ AcquisitionStep \/ HandlerStep \/ Restart \/ \E p \in Peers : RecvStep(p)
  /\ UNCHANGED <<programVars, whoVars>>

\* connect() returns at once; the connection is there some time later, and
\* again after a restart of the server.
Attach ==
  /\ ~Over
  /\ ctl # "down"
  /\ PullAttach
  /\ UNCHANGED <<ctlVars, peerVars, programVars, whoVars>>

\* The program has begun to configure the server and has no run yet.
Asking == at \in {"send", "recv"} /\ step # 9 /\ ~(at = "send" /\ step = 1)

\* The server's process is killed; systemd starts another.
Kill ==
  /\ crashes < MaxCrashes
  /\ ctl # "down"
  /\ Terminate
  /\ crashes' = crashes + 1
  /\ forgot' = (forgot \/ Asking)
  /\ UNCHANGED <<programVars, me, conf, aborted>>

-----------------------------------------------------------------------------
(* The present program.                                                    *)

SendRequest ==
  /\ Request = "start" /\ EarlyJoin => pulling
  /\ Program!Send
  /\ IF Request = "yaml" THEN PeerSendConfig(me, conf)
     ELSE IF Request \in Channels THEN PeerSendChannel(me, Request)
     ELSE PeerCall(me, Request)
  /\ UNCHANGED whoVars

\* The reply to "config" or "temp" stays in dial, as the second message
\* follows whatever it says.
RecvReply ==
  /\ outbox[me] # "none"
  /\ Program!GotReply
  /\ IF Request \in {"config", "temp"} THEN UNCHANGED vars ELSE PeerDone(me)
  /\ UNCHANGED whoVars

RecvEvent ==
  /\ pipe # <<>>
  /\ Program!GotEvent(Head(pipe))
  /\ PullRecv
  /\ UNCHANGED <<ctlVars, peerVars, whoVars>>

LocalStep ==
  /\ \/ Program!Loop \/ Program!SeeStop \/ Program!GoOn
     \/ Program!Write(0)
  /\ UNCHANGED <<vars, whoVars>>

\* A signal comes, between two system calls or in a recv that waits.
Interrupted ==
  /\ Signals
  /\ \/ Program!QuietSignal /\ UNCHANGED aborted
     \/ /\ pipe = <<>> /\ Program!Signal /\ Program!DataError
        /\ UNCHANGED aborted
     \/ /\ Request \in AbortAt /\ outbox[me] = "none"
        /\ Program!Signal /\ Program!Abort
        /\ aborted' = TRUE
  /\ UNCHANGED <<vars, me, conf, crashes, forgot>>

\* Mutant: the data connection of a program outlives it.
Depart_KeepsPipe ==
  /\ Over
  /\ dial[me] # "dead"
  /\ dial' = [dial EXCEPT ![me] = "dead"]
  /\ outbox' = [outbox EXCEPT ![me] = "none"]
  /\ UNCHANGED <<daqVars, ctlVars, inbox, programVars, whoVars>>

\* The process is gone: its connections break, and what they hold is lost,
\* but for a request that the server has.
Depart ==
  /\ Over
  /\ dial[me] # "dead"
  /\ dial' = [dial EXCEPT ![me] = "dead"]
  /\ outbox' = [outbox EXCEPT ![me] = "none"]
  /\ pulling' = FALSE
  /\ pipe' = <<>>
  /\ UNCHANGED <<thr, stop, iTrig, daq, ltc, msg, asked, late, ctlVars, inbox,
                 programVars, whoVars>>

\* The next program starts.
Launch ==
  /\ Over
  /\ dial[me] = "dead"
  /\ \E p \in Peers : dial[p] = "free" /\ me' = p
  /\ \E c \in Payloads : conf' = c /\ nEvts' = c.ntrig
  /\ at' = "send" /\ step' = 1 /\ gstop' = FALSE /\ i' = 0
  /\ held' = Nothing /\ open' = FALSE /\ files' = 0 /\ file_size' = 0
  /\ log' = <<>> /\ flushed' = 0 /\ lost' = FALSE /\ taken' = <<>> /\ skipped' = 0 /\ dropped' = 0
  /\ UNCHANGED <<vars, crashes, aborted, forgot>>

ProgramStep == SendRequest \/ RecvReply \/ RecvEvent \/ LocalStep

SysNext ==
  \/ ServerStep \/ Attach \/ Kill
  \/ ProgramStep \/ Interrupted \/ Depart \/ Launch

SysSpec == SysInit /\ [][SysNext]_sysVars

\* As for Server; the program is scheduled, its connection comes about.
SysFair ==
  /\ SysSpec
  /\ WF_sysVars(ProgramStep) /\ WF_sysVars(Attach)
  /\ WF_sysVars(AcquisitionStep /\ UNCHANGED <<programVars, whoVars>>)
  /\ WF_sysVars(HandlerStep /\ UNCHANGED <<programVars, whoVars>>)
  /\ WF_sysVars(Restart /\ UNCHANGED <<programVars, whoVars>>)
  /\ \A p \in Peers :
       SF_sysVars(RecvStep(p) /\ UNCHANGED <<programVars, whoVars>>)

-----------------------------------------------------------------------------
(* Properties.                                                             *)

\* "directly recieves the data to record to a file" (README.md:9): the events
\* a program records are those of the run that it started, from the first and
\* without a gap, and one that returns from main without a signal has recorded
\* the whole run (DAQCtrl.h:136-170, server.cpp:98-119).  The code does not make
\* sure of what this takes: that the data connection is there before the run
\* (EarlyJoin; MCBpmSystem_lost has it otherwise), that no more events than the
\* socket holds are under way (HWM), that no program was aborted before, and that
\* no server was killed between what it was told and the run.
RecordsOwnRun ==
  EarlyJoin /\ conf.ntrig \in 0 .. HWM /\ ~aborted /\ ~forgot =>
    /\ \A k \in 1 .. Len(log) : log[k].evt.idx = k - 1
    /\ at = "exit" /\ ~gstop => Len(log) = conf.ntrig

\* Whatever is lost on the way, a program with a finite run records events of one
\* run only, each once and in order: it starts no other run, and no event of an
\* earlier one is left for it (DAQCtrl.h:118-171, server.cpp:98-119), unless a
\* program was aborted, or a restarted server was started with the constructor's
\* settings.
RecordsOneRun ==
  conf.ntrig >= 0 /\ ~aborted /\ ~forgot =>
    \A k \in 2 .. Len(log) :
      /\ log[k - 1].evt.idx < log[k].evt.idx
      /\ log[k - 1].evt.cfg = log[k].evt.cfg

\* A program that has returned from main leaves no event to come: it counted
\* every trigger of its run, or was told that the run is stopped
\* (DAQCtrl.h:136-156, server.cpp:275-283).
NoRunLeftBehind == at = "exit" /\ ~aborted /\ ~forgot => EventsLeft = 0

\* The settings of thread and driver agree with a configuration in every key
\* that it has.
Follows(m, c) ==
  /\ m.reads = c.reads /\ m.ntrig = c.ntrig
  /\ "nsum" \in DOMAIN c => m.nsum = c.nsum
  /\ "mask" \in DOMAIN c => m.nchan = Cardinality(c.mask)
DriverFollows(d, c) ==
  /\ d.nEvents = c.reads
  /\ "mask" \in DOMAIN c => d.nSG = Cardinality(c.mask) + 1

\* What a program configured, "send configuration file to daq board"
\* (DAQCtrl.h:97), is what thread and driver have from the answer to its "start"
\* on, while the server lives, and what every event it records was taken with,
\* also when others are lost (server.cpp:265-273, 334-349), unless a program was
\* aborted, or a restarted server was started with the constructor's settings.
RunsOwnSettings ==
  ~aborted /\ ~forgot =>
    /\ crashes = 0 /\ at \in {"loop", "data", "test", "write"} =>
         Follows(daq, conf) /\ DriverFollows(ltc, conf)
    /\ \A k \in 1 .. Len(log) : Follows(log[k].evt.cfg, conf)

\* The programs of this repository, one at a time, do not make the server throw
\* as long as none of them is aborted: it dies when it is killed
\* (server.cpp:211-240, 285-381).
ServerOutlivesPrograms == crashes = 0 /\ ~aborted => ctl # "down"

\* Once the reply "Stopped" is on its way to a program the run is over: no event
\* of it can still be read or sent (server.cpp:277-283).
StoppedMeansQuiet ==
  ~aborted => \A p \in Peers : outbox[p] = "Stopped" => thr = "none" /\ msg = 0

\* "The client remotely controls the server, including ... starting and
\* stopping the DAQ" (README.md:9): while the server lives and no program was
\* aborted, a program that has decided to stop its run ends, and so does one with
\* a finite run of which nothing is lost, unless an earlier program's stop came
\* too late and is still in stop_ (server.cpp:56-60, DAQCtrl.h:136-156).
EveryProgramEnds ==
  (/\ crashes = 0 /\ ~aborted
   /\ Request = "stop" \/ (at = "send" /\ nEvts >= 0 /\ ~stop))
    ~> (Over \/ crashes > 0)

\* "Terminate program" (client.cpp:18), "starting and stopping the DAQ"
\* (README.md:9): when a program has ended, by a signal too, and nobody killed
\* the server, no run goes on without it (DAQCtrl.h:133).
NoRunWithoutProgram == crashes = 0 /\ Over => EventsLeft = 0

\* "Start daq taking based on current settings" (DAQCtrl.h:126): the events that
\* a program records were taken with the settings it sent, whatever happened to
\* the server meanwhile (server.cpp:188).
RecordsOwnSettings == \A k \in 1 .. Len(log) : Follows(log[k].evt.cfg, conf)
=============================================================================
