------------------------------ MODULE DAQClient ------------------------------
(***************************************************************************)
(* One run of the client program: main of client/src/client.cpp, the       *)
(* member functions of DAQCtrl (client/include/DAQCtrl.h) it calls, and    *)
(* its signal handler.  The program sends nine requests at most, one reply *)
(* each, and between the eighth and the ninth receives the run's events    *)
(* and writes them to files.                                               *)
(*                                                                         *)
(* The first part holds the steps of the program alone, so that a module   *)
(* with a server can use them (BpmSystem); the second closes them with an  *)
(* environment that answers requests and delivers events.                  *)
(***************************************************************************)
EXTENDS Integers, Sequences

CONSTANTS
  Event,         \* what the data socket may deliver
  RunLengths,    \* the values of num_triggers (nEvts_) in configurations
  MaxFileSize,   \* maxFileSize_, in bytes
  IntMax,        \* the greatest value of the C++ type int
  Sizes,         \* the sizes that an event's message may have
  MaxArrivals,   \* bound: events that ever reach the data socket
  MaxSpurious,   \* bound: errors of recv that are not the program's signals
  DiskFails,     \* whether fopen and the writing of a file may fail
  Nothing        \* no message

ASSUME RunLengthsAssumption == RunLengths \subseteq Int
ASSUME SizeAssumption ==
  MaxFileSize \in Nat /\ IntMax \in Nat /\ Sizes \subseteq Nat
ASSUME BoundsAssumption ==
  MaxArrivals \in Nat /\ MaxSpurious \in Nat /\ DiskFails \in BOOLEAN
ASSUME EventAssumption == Nothing \notin Event /\ 1 .. MaxArrivals \subseteq Event

VARIABLES
  at,         \* where the program is
  step,       \* the request of Script it sends or waits for the answer to
  gstop,      \* g_stop
  nEvts,      \* nEvts_
  i,          \* the loop variable of startRun
  held,       \* the event recv has put into request, or Nothing
  open,       \* out_file_ is not null
  files,      \* file_num: the files opened so far
  file_size,  \* bytes counted for the file being written
  log,        \* what fwrite was given: the event, the file's number, and the
              \* bytes of events in the file by then
  flushed,    \* how many entries of log stdio has handed to the disk
  lost,       \* history: the disk has refused some of them
  taken,      \* history: the events recv has returned
  skipped,    \* history: loop iterations spent on an error of recv
  dropped     \* history: events received and not written

clientVars == <<at, step, gstop, nEvts, i, held, open, files, file_size, log,
                flushed, lost, taken, skipped, dropped>>

\* main: sendConfig, setBias, readTemp(1), readTemp(2), startRun, and the stop
\* that startRun may call.
Script == <<"config", "yaml", "bias", "temp", "1", "temp", "2", "start", "stop">>
Ended  == {"exit", "dead"}
Points == {"send", "recv", "loop", "data", "test", "write"} \cup Ended

ClientInit(n) ==
  /\ at = "send"
  /\ step = 1
  /\ gstop = FALSE
  /\ nEvts = n
  /\ i = 0
  /\ held = Nothing
  /\ open = FALSE
  /\ files = 0
  /\ file_size = 0
  /\ log = <<>>
  /\ flushed = 0
  /\ lost = FALSE
  /\ taken = <<>>
  /\ skipped = 0
  /\ dropped = 0

runVars  == <<nEvts, i, held, taken, skipped, dropped>>
diskVars == <<flushed, lost>>
fileVars == <<open, files, file_size, log, diskVars>>

\* An int that overflows goes on from the other end.
Wrap(x) == IF x > IntMax THEN x - 2 * (IntMax + 1) ELSE x

\* Mutant: file_num is not counted up, and the file opened again.
Reopen_SameNumber == files' = 1 /\ open' = TRUE

\* out_file_.reset(fopen(...)): the old file, if any, is closed and flushed.
Reopen ==
  /\ files' = files + 1
  /\ open' = TRUE \/ (DiskFails /\ open' = FALSE)

\* A request is sent; startRun opens its first file before it sends "start".
Send ==
  /\ at = "send"
  /\ at' = "recv"
  /\ IF Script[step] = "start"
     THEN Reopen ELSE UNCHANGED <<open, files>>
  /\ UNCHANGED <<step, gstop, runVars, file_size, log, diskVars>>

\* stdio hands entries of log, up to the n-th, to the disk, which may be full:
\* nobody looks at the results of fwrite, fputc and fclose.
Flush(n) ==
  /\ flushed' = n
  /\ \/ UNCHANGED lost
     \/ DiskFails /\ n > flushed /\ lost' = TRUE

\* main returns: the destructor of DAQCtrl closes the file.
Leave == at' = "exit" /\ Flush(Len(log))

\* The reply has come: on to the next request, into startRun's loop, or out.
GotReply ==
  /\ at = "recv"
  /\ \/ Script[step] = "start" /\ at' = "loop" /\ UNCHANGED <<step, diskVars>>
     \/ Script[step] = "stop" /\ Leave /\ UNCHANGED step
     \/ /\ Script[step] \notin {"start", "stop"}
        /\ at' = "send"
        /\ step' = step + 1
        /\ UNCHANGED diskVars
  /\ UNCHANGED <<gstop, runVars, open, files, file_size, log>>

\* An error of recv on the control socket is caught nowhere: the program
\* aborts, and what stdio has buffered is lost.
Abort ==
  /\ at = "recv"
  /\ at' = "dead"
  /\ UNCHANGED <<step, runVars, fileVars>>

\* signal_callback_handler.
Signal == gstop' = TRUE

\* A signal that interrupts no system call is seen at the next test only.
QuietSignal ==
  /\ at \notin Ended
  /\ ~gstop
  /\ Signal
  /\ UNCHANGED <<at, step, runVars, fileVars>>

\* Mutant: <= for <.
MoreEvents_OneTooMany == i <= nEvts \/ nEvts < 0

MoreEvents == i < nEvts \/ nEvts < 0

Loop ==
  /\ at = "loop"
  /\ IF MoreEvents THEN at' = "data" /\ UNCHANGED diskVars ELSE Leave
  /\ UNCHANGED <<step, gstop, runVars, open, files, file_size, log>>

\* daq_socket_.recv returns an event.
GotEvent(e) ==
  /\ at = "data"
  /\ at' = "test"
  /\ held' = e
  /\ taken' = Append(taken, e)
  /\ UNCHANGED <<step, gstop, nEvts, i, skipped, dropped, fileVars>>

\* Mutant: the message received before is taken for a new one.
DataError_Falls ==
  /\ at = "data"
  /\ taken # <<>>
  /\ at' = "test"
  /\ held' = taken[Len(taken)]
  /\ UNCHANGED <<step, nEvts, i, taken, skipped, dropped, fileVars>>

\* It throws: with g_stop set the test follows, else continue, and ++i.
DataError ==
  /\ at = "data"
  /\ IF gstop' THEN at' = "test" /\ UNCHANGED <<i, skipped>>
               ELSE at' = "loop" /\ i' = i + 1 /\ skipped' = skipped + 1
  /\ UNCHANGED <<step, nEvts, held, taken, dropped, fileVars>>

\* Mutant: the loop is left without a stop.
SeeStop_Leaves ==
  /\ at = "test" /\ gstop
  /\ Leave
  /\ held' = Nothing
  /\ dropped' = IF held = Nothing THEN dropped ELSE dropped + 1
  /\ UNCHANGED <<step, gstop, nEvts, i, taken, skipped, open, files, file_size, log>>

\* Mutant: what was received is kept.
SeeStop_Keeps ==
  /\ at = "test" /\ gstop
  /\ at' = "send"
  /\ step' = Len(Script)
  /\ UNCHANGED <<gstop, runVars, fileVars>>

\* g_stop is set: whatever was received is dropped, and stopRun is called.
SeeStop ==
  /\ at = "test" /\ gstop
  /\ at' = "send"
  /\ step' = Len(Script)
  /\ held' = Nothing
  /\ dropped' = IF held = Nothing THEN dropped ELSE dropped + 1
  /\ UNCHANGED <<gstop, nEvts, i, taken, skipped, fileVars>>

\* Mutant: an event that was received is written first.
GoOn_Deaf ==
  /\ at = "test" /\ held # Nothing
  /\ at' = "write"
  /\ UNCHANGED <<step, gstop, runVars, fileVars>>

GoOn ==
  /\ at = "test" /\ ~gstop
  /\ at' = "write"
  /\ UNCHANGED <<step, gstop, runVars, fileVars>>

\* fwrite to a null FILE: the program crashes.
WriteNull ==
  /\ at = "write" /\ ~open
  /\ at' = "dead"
  /\ UNCHANGED <<step, gstop, runVars, fileVars>>

\* The file is full: it is closed and the next one is opened, its number the next.
Rotate ==
  /\ Reopen
  /\ file_size' = 0
  /\ Flush(Len(log'))

\* stdio keeps some of what it was given last in its buffer.
Buffered(total) ==
  /\ \E n \in flushed .. Len(log') : Flush(n)
  /\ file_size' = total
  /\ UNCHANGED <<open, files>>

\* The bytes of events that the file being written was given.
Filled == IF log # <<>> /\ log[Len(log)].file = files THEN log[Len(log)].end ELSE 0

\* fwrite of size bytes, the test of the file's size (which counts no newlines),
\* and ++i.
Write(size) ==
  /\ at = "write" /\ open
  /\ at' = "loop"
  /\ i' = i + 1
  /\ held' = Nothing
  /\ log' = Append(log, [evt |-> held, file |-> files, end |-> Filled + size])
  /\ LET total == Wrap(file_size + size)
     IN  IF total > MaxFileSize THEN Rotate ELSE Buffered(total)
  /\ UNCHANGED <<step, gstop, nEvts, taken, skipped, dropped>>

-----------------------------------------------------------------------------
(* The program by itself: a server that answers every request in time and  *)
(* delivers some events, numbered in the order they were sent.             *)

VARIABLES
  replied,   \* the reply to the request has arrived
  queue      \* the events daq_socket_ holds

vars == <<clientVars, replied, queue>>

Init ==
  /\ \E n \in RunLengths : ClientInit(n)
  /\ replied = FALSE
  /\ queue = <<>>

Answer ==
  /\ at = "recv" /\ ~replied
  /\ replied' = TRUE
  /\ UNCHANGED <<clientVars, queue>>

Arrivals == Len(taken) + Len(queue)

Deliver ==
  /\ at \notin Ended
  /\ Arrivals < MaxArrivals
  /\ queue' = Append(queue, Arrivals + 1)
  /\ UNCHANGED <<clientVars, replied>>

RecvReply == replied /\ GotReply /\ replied' = FALSE /\ UNCHANGED queue

RecvEvent ==
  /\ queue # <<>>
  /\ GotEvent(Head(queue))
  /\ queue' = Tail(queue)
  /\ UNCHANGED replied

\* A blocked recv is interrupted by the program's own signal, or fails for
\* another reason.
Interrupted == Signal \/ (skipped < MaxSpurious /\ UNCHANGED gstop)

ControlInterrupted == ~replied /\ Interrupted /\ Abort /\ UNCHANGED <<replied, queue>>

DataInterrupted == queue = <<>> /\ Interrupted /\ DataError /\ UNCHANGED <<replied, queue>>

ProgramStep ==
  \/ (Send \/ Loop \/ SeeStop \/ GoOn \/ WriteNull \/ \E size \in Sizes : Write(size))
       /\ UNCHANGED <<replied, queue>>
  \/ RecvReply
  \/ RecvEvent

Next ==
  \/ ProgramStep
  \/ ControlInterrupted \/ DataInterrupted
  \/ QuietSignal /\ UNCHANGED <<replied, queue>>
  \/ Answer \/ Deliver

Spec == Init /\ [][Next]_vars

\* The program is scheduled and the server answers; no event need arrive.
FairSpec == Spec /\ WF_vars(ProgramStep) /\ WF_vars(Answer)

\* ... or all the events it waits for do.
ServedSpec == FairSpec /\ WF_vars(Deliver)

-----------------------------------------------------------------------------
(* Properties.                                                             *)

ProgramTypeOK ==
  /\ at \in Points
  /\ step \in 1 .. Len(Script)
  /\ gstop \in BOOLEAN /\ open \in BOOLEAN /\ lost \in BOOLEAN
  /\ nEvts \in RunLengths
  /\ i \in Nat /\ files \in Nat /\ file_size \in Int
  /\ flushed \in Nat /\ skipped \in Nat /\ dropped \in Nat
  /\ held \in Event \cup {Nothing}
  /\ log \in Seq([evt: Event, file: Nat, end: Nat])
  /\ taken \in Seq(Event)

TypeOK == ProgramTypeOK /\ replied \in BOOLEAN /\ queue \in Seq(Event)

Held == IF held = Nothing THEN 0 ELSE 1

\* "directly recieves the data to record to a file" (README.md:9): what has
\* been written is, in order and without a gap or a repetition, what recv has
\* returned; only the last event of a stopped run may be missing
\* (DAQCtrl.h:138-160).
RecordsWhatItReceives ==
  /\ Len(log) + Held + dropped = Len(taken)
  /\ \A k \in 1 .. Len(log) : log[k].evt = taken[k]
  /\ dropped <= 1
  /\ dropped = 1 => gstop

\* The loop variable counts the events written and the errors skipped, and
\* nothing else; no event is received or written past the number of triggers
\* (DAQCtrl.h:136-170).
CountsEvents ==
  /\ i = Len(log) + skipped
  /\ nEvts >= 0 => i <= nEvts /\ (at \in {"data", "test", "write"} => i < nEvts)

\* A program that leaves main has been through its triggers or has told the
\* server to stop, so that it leaves no run to go on without it (DAQCtrl.h:136-156,
\* client.cpp:72-74); one that aborts does not return from main.
StopsWhatItLeaves ==
  at = "exit" /\ (nEvts < 0 \/ i < nEvts) => Script[step] = "stop"

\* "directly recieves the data to record to a file" (README.md:9): when the
\* program returns from main, 0 for success, the disk has every event it wrote
\* (client.cpp:74, DAQCtrl.h:19, 160-161).
ExitMeansRecorded == at = "exit" => flushed = Len(log) /\ ~lost

\* The count of a file's bytes never overflows an int.
CountFits == \A s \in Sizes : MaxFileSize + s <= IntMax

\* Files are written in turn, and one is left for the next after the first event
\* that takes it past maxFileSize_, and after no other (DAQCtrl.h:120-124,
\* 159-168): the count that the code tests is what that file was given.
RotatesWhenFull ==
  CountFits =>
    /\ log # <<>> => log[1].file = 1
    /\ \A k \in 1 .. Len(log) :
         (IF k < Len(log) THEN log[k + 1].file ELSE files) =
           IF log[k].end > MaxFileSize THEN log[k].file + 1 ELSE log[k].file

\* "Terminate program" (client.cpp:18): a signal ends it, even an endless run,
\* as soon as one more event is there: one that comes between the test of g_stop
\* and recv is not seen before (DAQCtrl.h:141-156).
SignalEndsAtNextEvent == (gstop /\ queue # <<>>) ~> at \in Ended

\* Whatever interrupts it, a program gets through its triggers, or ends before,
\* once that many events have arrived (DAQCtrl.h:136-150).
EndsWhenServed == nEvts \in 0 .. MaxArrivals ~> at \in Ended

-----------------------------------------------------------------------------
(* The parts of the inductive invariant.                                   *)

\* request holds an event, the last one received, between recv and the end of
\* the iteration only.
HeldInLoop ==
  /\ at = "write" => held # Nothing
  /\ held # Nothing => at \in {"test", "write", "dead"} /\ held = taken[Len(taken)]
  /\ at = "test" /\ held = Nothing => gstop

\* Nothing happens to the run before "start" is answered, or once a stop
\* has been decided.
Phases ==
  /\ at \in {"loop", "data", "test", "write"} => step = Len(Script) - 1 /\ dropped = 0
  /\ step < Len(Script) => dropped = 0
  /\ step = Len(Script) => gstop /\ at \in {"send", "recv"} \cup Ended
  /\ step < Len(Script) - 1 => at \in {"send", "recv", "dead"} /\ log = <<>>
  /\ at \in {"send", "recv"} /\ step < Len(Script) => log = <<>> /\ taken = <<>> /\ skipped = 0
  /\ at = "exit" => step >= Len(Script) - 1
  /\ at = "exit" /\ step = Len(Script) - 1 => ~MoreEvents

FlushedInLog == flushed <= Len(log)

\* The program has not asked for its run yet, nor opened a file for it.
BeforeRun == step < Len(Script) - 1 \/ (step = Len(Script) - 1 /\ at = "send")

\* file_size is what the present file holds, which between two events is never
\* too much; the first file is opened with the run.
CountsBytes ==
  /\ CountFits => file_size = Filled /\ Filled <= MaxFileSize
  /\ files = 0 <=> BeforeRun
  /\ log = <<>> => files \in {0, 1}

LoopInv ==
  /\ ProgramTypeOK
  /\ RecordsWhatItReceives
  /\ CountsEvents
  /\ StopsWhatItLeaves
  /\ HeldInLoop /\ Phases /\ FlushedInLog

FileInv == CountsBytes /\ RotatesWhenFull

\* The program's part, which does not depend on who answers and delivers.
ProgramInv == LoopInv /\ FileInv

ClientInv == TypeOK /\ ProgramInv
=============================================================================
