-------------------------- MODULE DAQClient_proofs ---------------------------
(***************************************************************************)
(* Theorems about DAQClient for any number of triggers, sizes of events    *)
(* and files, and any interruptions.                                       *)
(***************************************************************************)
EXTENDS DAQClient, SequenceTheorems, TLAPS

\* What the program does by itself.
ProgramMoves ==
  \/ Send \/ GotReply \/ Loop \/ SeeStop \/ GoOn \/ WriteNull \/ QuietSignal
  \/ \E e \in Event : GotEvent(e)
  \/ \E size \in Sizes : Write(size)
  \/ (Signal \/ UNCHANGED gstop) /\ (Abort \/ DataError)

-----------------------------------------------------------------------------
(* The script, so that the steps need not expand it.                       *)

LEMMA ScriptFacts ==
  /\ Len(Script) = 9
  /\ \A k \in 1 .. 9 : /\ Script[k] = "start" <=> k = 8
                       /\ Script[k] = "stop" <=> k = 9
BY DEF Script

\* A sequence with an element has a last one.
LEMMA LastElement ==
  ASSUME NEW S, NEW s \in Seq(S), s # <<>>
  PROVE  Len(s) \in 1 .. Len(s) /\ s[Len(s)] \in S
<1>1. Len(s) \in Nat /\ Len(s) # 0
  BY EmptySeq, LenProperties
<1>2. Len(s) \in 1 .. Len(s)
  BY <1>1
<1> QED
  BY <1>2, ElementOfSeq

-----------------------------------------------------------------------------
(* The invariant.                                                          *)

\* Steps that touch little are checked against the whole invariant at once.
USE ScriptFacts
USE DEF LoopInv, ProgramTypeOK, RecordsWhatItReceives, CountsEvents,
    StopsWhatItLeaves, HeldInLoop, Phases, FlushedInLog, Held, Points, Ended,
    MoreEvents, runVars, fileVars, diskVars, clientVars

LEMMA SeeStopInv == LoopInv /\ SeeStop => LoopInv'
BY DEF SeeStop

LEMMA GoOnInv == LoopInv /\ GoOn => LoopInv'
BY DEF GoOn

LEMMA WriteNullInv == LoopInv /\ WriteNull => LoopInv'
BY DEF WriteNull

LEMMA AbortInv == LoopInv /\ (Signal \/ UNCHANGED gstop) /\ Abort => LoopInv'
BY DEF Signal, Abort

LEMMA QuietInv == LoopInv /\ QuietSignal => LoopInv'
BY DEF QuietSignal, Signal

HIDE ScriptFacts
HIDE DEF LoopInv, ProgramTypeOK, RecordsWhatItReceives, CountsEvents,
    StopsWhatItLeaves, HeldInLoop, Phases, FlushedInLog, Held, Points, Ended,
    MoreEvents, runVars, fileVars, diskVars, clientVars

LEMMA LoopKeeps == LoopInv /\ Loop => LoopInv'
<1> SUFFICES ASSUME LoopInv, Loop
             PROVE  LoopInv'
  OBVIOUS
<1>1. /\ at = "loop"
      /\ UNCHANGED <<step, gstop, nEvts, i, held, taken, skipped, dropped, open,
                     files, file_size, log>>
  BY DEF Loop, runVars
<1>2. /\ \/ MoreEvents /\ at' = "data" /\ flushed' = flushed
         \/ ~MoreEvents /\ at' = "exit" /\ flushed' = Len(log)
      /\ lost' \in {lost, TRUE}
  BY DEF Loop, Leave, Flush, diskVars
<1>3. /\ nEvts \in Int /\ i \in Nat /\ Len(log) \in Nat /\ flushed \in Nat
      /\ lost \in BOOLEAN
      /\ step = Len(Script) - 1
  BY <1>1, RunLengthsAssumption DEF LoopInv, ProgramTypeOK, Phases
<1>4. MoreEvents' = MoreEvents
  BY <1>1 DEF MoreEvents
<1>5. ProgramTypeOK'
  <2>1. at' \in Points /\ flushed' \in Nat
    BY <1>2, <1>3 DEF Points, Ended
  <2>2. lost' \in BOOLEAN
    BY <1>2, <1>3
  <2> QED
    BY <1>1, <2>1, <2>2 DEF LoopInv, ProgramTypeOK
<1>6. RecordsWhatItReceives' /\ FlushedInLog' /\ HeldInLoop'
  BY <1>1, <1>2, <1>3 DEF LoopInv, RecordsWhatItReceives, Held, FlushedInLog, HeldInLoop
<1>7. CountsEvents'
  BY <1>1, <1>2, <1>3 DEF LoopInv, CountsEvents, MoreEvents
<1>8. StopsWhatItLeaves'
  BY <1>1, <1>2, <1>3 DEF StopsWhatItLeaves, MoreEvents
<1>9. Phases'
  BY <1>1, <1>2, <1>3, <1>4, ScriptFacts DEF LoopInv, Phases, Ended
<1> QED
  BY <1>5, <1>6, <1>7, <1>8, <1>9 DEF LoopInv

LEMMA EventInv ==
  ASSUME LoopInv, NEW e \in Event, GotEvent(e)
  PROVE  LoopInv'
<1>1. /\ at = "data" /\ at' = "test" /\ held' = e /\ taken' = Append(taken, e)
      /\ UNCHANGED <<step, gstop, nEvts, i, skipped, dropped, open, files,
                     file_size, log, flushed, lost>>
  BY DEF GotEvent, fileVars, diskVars
<1>2. /\ taken \in Seq(Event) /\ held = Nothing
      /\ log \in Seq([evt: Event, file: Nat, end: Nat]) /\ dropped = 0
  BY <1>1 DEF LoopInv, ProgramTypeOK, HeldInLoop, Phases
<1>3. /\ taken' \in Seq(Event) /\ Len(taken') = Len(taken) + 1
      /\ \A k \in 1 .. Len(taken) : taken'[k] = taken[k]
      /\ taken'[Len(taken')] = e
  BY <1>1, <1>2
<1>4. /\ Len(log) \in Nat /\ Len(log) = Len(taken) /\ Held' = 1
      /\ \A k \in 1 .. Len(log) : log[k].evt = taken[k]
  BY <1>1, <1>2, <1>3, EventAssumption DEF LoopInv, RecordsWhatItReceives, Held
<1>5. RecordsWhatItReceives'
  BY <1>1, <1>2, <1>3, <1>4 DEF RecordsWhatItReceives
<1>6. ProgramTypeOK' /\ FlushedInLog' /\ CountsEvents'
  BY <1>1, <1>3 DEF LoopInv, ProgramTypeOK, FlushedInLog, CountsEvents, Points
<1>7. StopsWhatItLeaves' /\ HeldInLoop' /\ Phases'
  BY <1>1, <1>3, EventAssumption, ScriptFacts
  DEF LoopInv, StopsWhatItLeaves, HeldInLoop, Phases, Ended
<1> QED
  BY <1>5, <1>6, <1>7 DEF LoopInv

LEMMA InitInv ==
  ASSUME NEW n \in RunLengths, ClientInit(n)
  PROVE  LoopInv
<1> USE DEF ClientInit
<1>1. Len(log) = 0 /\ Len(taken) = 0 /\ Held = 0
  BY DEF Held
<1>2. ProgramTypeOK
  <2>1. /\ log \in Seq([evt: Event, file: Nat, end: Nat])
        /\ taken \in Seq(Event)
    OBVIOUS
  <2>2. at \in Points /\ held \in Event \cup {Nothing}
    BY DEF Points
  <2>3. step \in 1 .. Len(Script) /\ i \in Nat /\ files \in Nat /\ file_size \in Int
        /\ flushed \in Nat /\ skipped \in Nat /\ dropped \in Nat
    BY ScriptFacts
  <2> QED
    BY <2>1, <2>2, <2>3 DEF ProgramTypeOK
<1>3. RecordsWhatItReceives /\ CountsEvents /\ FlushedInLog
  BY <1>1 DEF RecordsWhatItReceives, CountsEvents, FlushedInLog
<1>4. StopsWhatItLeaves /\ HeldInLoop
  BY DEF StopsWhatItLeaves, HeldInLoop
<1>5. Phases
  BY ScriptFacts DEF Phases, Ended
<1> QED
  BY <1>2, <1>3, <1>4, <1>5 DEF LoopInv

LEMMA SendInv == LoopInv /\ Send => LoopInv'
<1> SUFFICES ASSUME LoopInv, Send
             PROVE  LoopInv'
  OBVIOUS
<1>1. open \in BOOLEAN /\ files \in Nat
  BY DEF LoopInv, ProgramTypeOK
<1>2. open' \in BOOLEAN /\ files' \in Nat
  <2>1. CASE UNCHANGED <<open, files>>
    BY <1>1, <2>1
  <2>2. CASE Reopen
    <3>1. open' \in BOOLEAN
      BY <2>2, Zenon DEF Reopen
    <3>2. files' = files + 1
      BY <2>2 DEF Reopen
    <3> QED
      BY <1>1, <3>1, <3>2
  <2> QED
    BY <2>1, <2>2 DEF Send
<1>3. /\ at = "send" /\ at' = "recv"
      /\ UNCHANGED <<step, gstop, nEvts, i, held, taken, skipped, dropped,
                     file_size, log, flushed, lost>>
  BY DEF Send, runVars, diskVars
<1> QED
  BY <1>2, <1>3, ScriptFacts
  DEF LoopInv, ProgramTypeOK, RecordsWhatItReceives, CountsEvents,
      StopsWhatItLeaves, HeldInLoop, Phases, FlushedInLog, Held, Points, Ended

LEMMA ReplyInv == LoopInv /\ GotReply => LoopInv'
<1> SUFFICES ASSUME LoopInv, GotReply
             PROVE  LoopInv'
  OBVIOUS
<1>1. /\ at = "recv"
      /\ UNCHANGED <<gstop, nEvts, i, held, taken, skipped, dropped, open,
                     files, file_size, log>>
  BY DEF GotReply, runVars
<1>2. step \in 1 .. 9 /\ flushed \in Nat /\ Len(log) \in Nat /\ lost \in BOOLEAN
  BY ScriptFacts DEF LoopInv, ProgramTypeOK
<1>3. \/ step = 8 /\ at' = "loop" /\ UNCHANGED <<step, flushed>>
      \/ step = 9 /\ at' = "exit" /\ flushed' = Len(log) /\ UNCHANGED step
      \/ step < 8 /\ at' = "send" /\ step' = step + 1 /\ UNCHANGED flushed
  <2>1. (Script[step] = "start" <=> step = 8) /\ (Script[step] = "stop" <=> step = 9)
    BY <1>2, ScriptFacts
  <2> QED
    BY <1>2, <2>1 DEF GotReply, Leave, Flush, diskVars
<1>4. step' \in 1 .. 9 /\ at' \in Points /\ flushed' \in Nat /\ lost' \in BOOLEAN
  <2>1. step' \in 1 .. 9 /\ flushed' \in Nat
    BY <1>2, <1>3
  <2>2. at' \in Points
    BY <1>3 DEF Points, Ended
  <2>3. lost' \in {lost, TRUE}
    BY DEF GotReply, Leave, Flush, diskVars
  <2> QED
    BY <1>2, <2>1, <2>2, <2>3
<1>5. ProgramTypeOK'
  BY <1>1, <1>4, ScriptFacts DEF LoopInv, ProgramTypeOK
<1>6. RecordsWhatItReceives' /\ CountsEvents'
  BY <1>1, <1>3 DEF LoopInv, RecordsWhatItReceives, CountsEvents, Held
<1>7. StopsWhatItLeaves' /\ FlushedInLog'
  BY <1>1, <1>2, <1>3, ScriptFacts DEF LoopInv, StopsWhatItLeaves, FlushedInLog
<1>8. HeldInLoop' /\ Phases'
  BY <1>1, <1>2, <1>3, ScriptFacts DEF LoopInv, HeldInLoop, Phases, Ended
<1> QED
  BY <1>5, <1>6, <1>7, <1>8 DEF LoopInv

LEMMA DataInv ==
  ASSUME LoopInv, Signal \/ UNCHANGED gstop, DataError
  PROVE  LoopInv'
<1>1. /\ at = "data"
      /\ UNCHANGED <<step, nEvts, held, taken, dropped, open, files, file_size,
                     log, flushed, lost>>
  BY DEF DataError, fileVars, diskVars
<1>2. gstop \in BOOLEAN /\ i \in Nat /\ skipped \in Nat
  BY DEF LoopInv, ProgramTypeOK
<1>3. gstop' \in BOOLEAN /\ (gstop => gstop')
  BY <1>2 DEF Signal
<1>4. \/ gstop' /\ at' = "test" /\ UNCHANGED <<i, skipped>>
      \/ ~gstop' /\ at' = "loop" /\ i' = i + 1 /\ skipped' = skipped + 1
  BY DEF DataError
<1>5. i' \in Nat /\ skipped' \in Nat /\ at' \in Points
  BY <1>2, <1>4 DEF Points
<1>6. ProgramTypeOK' /\ FlushedInLog'
  BY <1>1, <1>3, <1>5 DEF LoopInv, ProgramTypeOK, FlushedInLog
<1>7. RecordsWhatItReceives'
  BY <1>1, <1>3 DEF LoopInv, RecordsWhatItReceives, Held
<1>8. CountsEvents'
  <2>1. nEvts \in Int /\ Len(log) \in Nat
    BY RunLengthsAssumption DEF LoopInv, ProgramTypeOK
  <2> QED
    BY <1>1, <1>2, <1>4, <2>1 DEF LoopInv, CountsEvents
<1>9. StopsWhatItLeaves' /\ HeldInLoop' /\ Phases'
  BY <1>1, <1>3, <1>4, ScriptFacts
  DEF LoopInv, StopsWhatItLeaves, HeldInLoop, Phases, Ended
<1> QED
  BY <1>6, <1>7, <1>8, <1>9 DEF LoopInv

LEMMA WriteInv ==
  ASSUME LoopInv, NEW size \in Sizes, Write(size)
  PROVE  LoopInv'
<1> DEFINE entry == [evt |-> held, file |-> files, end |-> Filled + size]
<1>1. /\ at = "write" /\ at' = "loop" /\ i' = i + 1 /\ held' = Nothing
      /\ log' = Append(log, entry)
      /\ UNCHANGED <<step, gstop, nEvts, taken, skipped, dropped>>
  BY DEF Write
<1>2. /\ held \in Event /\ i \in Nat /\ files \in Nat /\ flushed \in Nat
      /\ file_size \in Int /\ open \in BOOLEAN /\ lost \in BOOLEAN /\ dropped = 0
      /\ log \in Seq([evt: Event, file: Nat, end: Nat]) /\ held = taken[Len(taken)]
      /\ taken \in Seq(Event) /\ skipped \in Nat
  BY <1>1 DEF LoopInv, ProgramTypeOK, HeldInLoop, Phases
<1>3. entry \in [evt: Event, file: Nat, end: Nat] /\ entry.evt = held
  <2>1. size \in Nat
    BY SizeAssumption
  <2>2. Filled \in Nat
    <3>1. log # <<>> => log[Len(log)] \in [evt: Event, file: Nat, end: Nat]
      <4>1. log \in Seq([evt: Event, file: Nat, end: Nat])
        BY <1>2
      <4> QED
        BY <4>1, LastElement
    <3> QED
      BY <3>1, Zenon DEF Filled
  <2> QED
    BY <1>2, <2>1, <2>2
<1> HIDE DEF entry
<1>4. /\ log' \in Seq([evt: Event, file: Nat, end: Nat]) /\ Len(log') = Len(log) + 1
      /\ Len(log) \in Nat
      /\ \A k \in 1 .. Len(log) : log'[k] = log[k]
      /\ log'[Len(log) + 1] = entry
  BY <1>1, <1>2, <1>3
<1>5. Wrap(file_size + size) \in Int
  <2>1. size \in Nat
    BY SizeAssumption
  <2> QED
    BY <1>2, <2>1, SizeAssumption DEF Wrap
<1>6. /\ flushed' \in Nat /\ flushed' <= Len(log')
      /\ file_size' \in Int /\ open' \in BOOLEAN /\ files' \in Nat
      /\ lost' \in BOOLEAN
  <2>1. CASE Rotate
    <3>1. open' \in BOOLEAN
      BY <2>1, Zenon DEF Rotate, Reopen
    <3>2. files' = files + 1 /\ file_size' = 0 /\ flushed' = Len(log')
      BY <2>1 DEF Rotate, Reopen, Flush
    <3>3. lost' \in BOOLEAN
      <4>1. lost' \in {lost, TRUE}
        BY <2>1 DEF Rotate, Flush
      <4> QED
        BY <1>2, <4>1
    <3> QED
      BY <1>2, <1>4, <3>1, <3>2, <3>3
  <2>2. CASE Buffered(Wrap(file_size + size))
    <3>1. PICK k \in flushed .. Len(log') : Flush(k)
      BY <2>2 DEF Buffered
    <3>2. flushed' = k /\ lost' \in {lost, TRUE}
      BY <3>1 DEF Flush
    <3>3. lost' \in BOOLEAN
      BY <1>2, <3>2
    <3>4. flushed' \in Nat /\ flushed' <= Len(log')
      BY <1>2, <1>4, <3>2
    <3> QED
      BY <1>2, <1>5, <2>2, <3>3, <3>4 DEF Buffered
  <2> QED
    BY <2>1, <2>2 DEF Write
<1>7. ProgramTypeOK' /\ FlushedInLog'
  BY <1>1, <1>2, <1>4, <1>6 DEF LoopInv, ProgramTypeOK, FlushedInLog, Points
<1>8. Len(log) + 1 = Len(taken) /\ (\A k \in 1 .. Len(log) : log[k].evt = taken[k])
  <2>1. Held = 1
    BY <1>2, EventAssumption DEF Held
  <2>2. /\ Len(log) + Held + dropped = Len(taken)
        /\ \A k \in 1 .. Len(log) : log[k].evt = taken[k]
    BY DEF LoopInv, RecordsWhatItReceives
  <2> QED
    BY <1>2, <1>4, <2>1, <2>2
<1>9. RecordsWhatItReceives'
  <2>1. Held' = 0 /\ taken' = taken /\ dropped' = 0
    BY <1>1, <1>2 DEF Held
  <2>2. Len(log') + Held' + dropped' = Len(taken')
    BY <1>4, <1>8, <2>1
  <2>3. ASSUME NEW k \in 1 .. Len(log')
        PROVE  log'[k].evt = taken'[k]
    <3>1. CASE k \in 1 .. Len(log)
      BY <1>4, <1>8, <2>1, <3>1
    <3>2. CASE k = Len(log) + 1
      BY <1>2, <1>3, <1>4, <1>8, <2>1, <3>2
    <3> QED
      BY <1>4, <3>1, <3>2
  <2> QED
    BY <2>1, <2>2, <2>3 DEF RecordsWhatItReceives
<1>10. CountsEvents'
  <2>1. nEvts \in Int
    BY RunLengthsAssumption DEF LoopInv, ProgramTypeOK
  <2>2. i = Len(log) + skipped /\ (nEvts >= 0 => i < nEvts)
    BY <1>1 DEF LoopInv, CountsEvents
  <2>3. /\ i' = i + 1 /\ skipped' = skipped /\ nEvts' = nEvts /\ at' = "loop"
    BY <1>1
  <2>4. i' = Len(log') + skipped'
    BY <1>2, <1>4, <2>2, <2>3
  <2>5. nEvts' >= 0 => i' <= nEvts'
    BY <1>2, <2>1, <2>2, <2>3
  <2> QED
    BY <2>3, <2>4, <2>5 DEF CountsEvents
<1>11. StopsWhatItLeaves' /\ HeldInLoop'
  BY <1>1 DEF StopsWhatItLeaves, HeldInLoop
<1>12. Phases'
  BY <1>1, <1>2, ScriptFacts DEF LoopInv, Phases, Ended
<1> QED
  BY <1>7, <1>9, <1>10, <1>11, <1>12 DEF LoopInv

-----------------------------------------------------------------------------
(* The files.                                                              *)

\* What the steps that write nothing leave as it was.
LEMMA FilesStay ==
  ASSUME FileInv, UNCHANGED <<files, file_size, log>>, BeforeRun' <=> BeforeRun
  PROVE  FileInv'
<1>1. Filled' = Filled
  BY DEF Filled
<1>2. RotatesWhenFull'
  BY DEF FileInv, RotatesWhenFull, CountFits
<1>3. CountsBytes'
  BY <1>1 DEF FileInv, CountsBytes, CountFits
<1> QED
  BY <1>2, <1>3 DEF FileInv

\* The first file is opened with the run.
LEMMA SendFiles == LoopInv /\ FileInv /\ Send => FileInv'
<1> SUFFICES ASSUME LoopInv, FileInv, Send
             PROVE  FileInv'
  OBVIOUS
<1>1. at = "send" /\ at' = "recv" /\ UNCHANGED <<step, file_size, log>>
  BY DEF Send
<1>2. step \in 1 .. 9
  BY ScriptFacts DEF LoopInv, ProgramTypeOK
<1>3. CASE step = 8
  <2>1. log = <<>> /\ files = 0
    BY <1>1, <1>3, ScriptFacts DEF LoopInv, Phases, FileInv, CountsBytes, BeforeRun
  <2>2. files' = 1
    BY <1>3, <2>1, ScriptFacts DEF Send, Reopen
  <2>3. Filled' = 0 /\ Filled = 0 /\ ~BeforeRun'
    BY <1>1, <1>3, <2>1, ScriptFacts DEF Filled, BeforeRun
  <2>4. CountsBytes'
    BY <1>1, <2>1, <2>2, <2>3 DEF FileInv, CountsBytes, CountFits
  <2>5. RotatesWhenFull'
    <3>1. log' = <<>> /\ Len(log') = 0
      BY <1>1, <2>1
    <3> QED
      BY <3>1 DEF RotatesWhenFull, CountFits
  <2> QED
    BY <2>4, <2>5 DEF FileInv
<1>4. CASE step # 8
  <2>1. Script[step] # "start"
    BY <1>2, <1>4, ScriptFacts
  <2>2. UNCHANGED files
    BY <2>1 DEF Send
  <2>3. BeforeRun' <=> BeforeRun
    BY <1>1, <1>2, <1>4, ScriptFacts DEF BeforeRun
  <2> QED
    BY <1>1, <2>2, <2>3, FilesStay
<1> QED
  BY <1>3, <1>4

\* An event that is written fills its file, or leaves it to the next event.
LEMMA WriteFiles ==
  ASSUME LoopInv, FileInv, NEW size \in Sizes, Write(size)
  PROVE  FileInv'
<1> DEFINE Entries == [evt: Event, file: Nat, end: Nat]
           n == Len(log)
           entry == [evt |-> held, file |-> files, end |-> Filled + size]
<1>1. /\ log \in Seq(Entries) /\ files \in Nat /\ held \in Event
      /\ at = "write" /\ at' = "loop" /\ step' = step /\ step = 8
  BY ScriptFacts DEF LoopInv, ProgramTypeOK, HeldInLoop, Phases, Write
<1>2. size \in Nat
  BY SizeAssumption
<1>3. Filled \in Nat
  <2>1. log # <<>> => log[n] \in Entries
    BY <1>1, LastElement
  <2> QED
    BY <2>1, Zenon DEF Filled
<1>4. entry \in Entries /\ entry.file = files /\ entry.end = Filled + size
  BY <1>1, <1>2, <1>3
<1>5. n \in Nat /\ (log # <<>> => n >= 1) /\ (log = <<>> => n = 0)
  BY <1>1, EmptySeq
<1>6. log' = Append(log, entry)
  BY DEF Write
<1> HIDE DEF entry, Entries
<1>7. /\ Len(log') = n + 1 /\ log'[n + 1] = entry /\ log' # <<>>
      /\ \A k \in 1 .. n : log'[k] = log[k]
  <2>1. /\ Len(log') = n + 1 /\ log'[n + 1] = entry
        /\ \A k \in 1 .. n : log'[k] = log[k]
    BY <1>1, <1>4, <1>6, AppendProperties
  <2>2. Len(<<>>) = 0
    OBVIOUS
  <2> QED
    BY <1>5, <2>1, <2>2
<1> HIDE DEF n
<1>8. files >= 1 /\ ~BeforeRun'
  BY <1>1, ScriptFacts DEF FileInv, CountsBytes, BeforeRun
<1>9. files' \in {files, files + 1}
  BY <1>1 DEF Write, Rotate, Reopen, Buffered
<1>10. CASE ~CountFits
  <2>1. CountsBytes'
    BY <1>1, <1>7, <1>8, <1>9, <1>10 DEF CountsBytes, CountFits
  <2> QED
    BY <1>10, <2>1 DEF FileInv, RotatesWhenFull, CountFits
<1>11. CASE CountFits
  <2>1. file_size = Filled /\ Filled <= MaxFileSize
    BY <1>11 DEF FileInv, CountsBytes
  <2>2. Wrap(file_size + size) = Filled + size
    <3>1. MaxFileSize + size <= IntMax
      BY <1>2, <1>11 DEF CountFits
    <3> QED
      BY <1>2, <1>3, <2>1, <3>1, SizeAssumption DEF Wrap
  <2>3. files' = IF Filled + size > MaxFileSize THEN files + 1 ELSE files
    BY <2>2 DEF Write, Rotate, Reopen, Buffered
  <2>4. file_size' = IF Filled + size > MaxFileSize THEN 0 ELSE Filled + size
    BY <2>2 DEF Write, Rotate, Buffered
  <2>5. Filled' = IF files' = files THEN Filled + size ELSE 0
    BY <1>4, <1>7 DEF Filled
  <2>6. file_size' = Filled' /\ Filled' <= MaxFileSize
    BY <1>1, <1>2, <1>3, <2>3, <2>4, <2>5, SizeAssumption
  <2>7. CountsBytes'
    BY <1>1, <1>7, <1>8, <1>9, <2>6 DEF CountsBytes
  <2>8. log'[1].file = 1
    <3>1. CASE log = <<>>
      BY <1>4, <1>5, <1>7, <1>8, <3>1 DEF FileInv, CountsBytes
    <3>2. CASE log # <<>>
      BY <1>5, <1>7, <1>11, <3>2 DEF FileInv, RotatesWhenFull
    <3> QED
      BY <3>1, <3>2
  <2>9. ASSUME NEW k \in 1 .. n + 1
        PROVE  (IF k < n + 1 THEN log'[k + 1].file ELSE files') =
                 IF log'[k].end > MaxFileSize THEN log'[k].file + 1 ELSE log'[k].file
    <3>1. CASE k = n + 1
      BY <1>4, <1>5, <1>7, <2>3, <3>1
    <3>2. CASE k \in 1 .. n
      <4>1. (IF k < n THEN log[k + 1].file ELSE files) =
              IF log[k].end > MaxFileSize THEN log[k].file + 1 ELSE log[k].file
        BY <1>11, <3>2 DEF FileInv, RotatesWhenFull, n
      <4>2. CASE k < n
        <5>1. k + 1 \in 1 .. n
          BY <1>5, <3>2, <4>2
        <5> QED
          BY <1>5, <1>7, <3>2, <4>1, <4>2, <5>1
      <4>3. CASE k = n
        BY <1>4, <1>5, <1>7, <3>2, <4>1, <4>3
      <4> QED
        BY <1>5, <3>2, <4>2, <4>3
    <3> QED
      BY <1>5, <3>1, <3>2
  <2>10. RotatesWhenFull'
    BY <1>7, <2>8, <2>9 DEF RotatesWhenFull
  <2> QED
    BY <2>7, <2>10 DEF FileInv
<1> QED
  BY <1>10, <1>11

LEMMA FilesStep == LoopInv /\ FileInv /\ [ProgramMoves]_clientVars => FileInv'
<1> SUFFICES ASSUME LoopInv, FileInv, [ProgramMoves]_clientVars
             PROVE  FileInv'
  OBVIOUS
<1>1. CASE Send \/ \E size \in Sizes : Write(size)
  BY <1>1, SendFiles, WriteFiles
<1>2. CASE ~(Send \/ \E size \in Sizes : Write(size))
  <2>1. UNCHANGED <<files, file_size, log>>
    BY <1>2 DEF ProgramMoves, Loop, SeeStop, GoOn, WriteNull, GotReply, GotEvent,
         Abort, DataError, QuietSignal, fileVars, clientVars
  <2>2. BeforeRun' <=> BeforeRun
    <3>1. step \in 1 .. 9
      BY ScriptFacts DEF LoopInv, ProgramTypeOK
    <3>2. CASE GotReply
      <4>1. (Script[step] = "start" <=> step = 8) /\ (Script[step] = "stop" <=> step = 9)
        BY <3>1, ScriptFacts
      <4> QED
        BY <3>1, <3>2, <4>1, ScriptFacts DEF GotReply, Leave, BeforeRun
    <3>3. CASE SeeStop
      BY <3>1, <3>3, ScriptFacts DEF SeeStop, BeforeRun, LoopInv, Phases
    <3>4. CASE ~(GotReply \/ SeeStop)
      <4>1. step' = step /\ (at' = at \/ (at # "send" /\ at' # "send"))
        BY <1>2, <3>4 DEF ProgramMoves, Loop, Leave, GoOn, WriteNull, GotEvent,
             Abort, DataError, QuietSignal, clientVars
      <4> QED
        BY <4>1 DEF BeforeRun
    <3> QED
      BY <3>2, <3>3, <3>4
  <2> QED
    BY <2>1, <2>2, FilesStay
<1> QED
  BY <1>1, <1>2

-----------------------------------------------------------------------------
(* The program, wherever its replies and events come from.                 *)

LEMMA ProgramBegins ==
  ASSUME NEW n \in RunLengths, ClientInit(n)
  PROVE  ProgramInv
<1>1. log = <<>> /\ Len(log) = 0 /\ files = 0 /\ file_size = 0 /\ step = 1
  BY DEF ClientInit
<1>2. FileInv
  BY <1>1, SizeAssumption, ScriptFacts
  DEF FileInv, CountsBytes, RotatesWhenFull, Filled, BeforeRun
<1> QED
  BY <1>2, InitInv DEF ProgramInv

LEMMA ProgramGoesOn == ProgramInv /\ [ProgramMoves]_clientVars => ProgramInv'
<1> SUFFICES ASSUME ProgramInv, [ProgramMoves]_clientVars
             PROVE  ProgramInv'
  OBVIOUS
<1>1. LoopInv /\ FileInv
  BY DEF ProgramInv
<1>2. LoopInv'
  <2>1. CASE ProgramMoves
    BY <1>1, <2>1, SendInv, ReplyInv, LoopKeeps, EventInv, SeeStopInv, GoOnInv,
       WriteNullInv, WriteInv, AbortInv, DataInv, QuietInv DEF ProgramMoves
  <2>2. CASE UNCHANGED clientVars
    BY <1>1, <2>2
    DEF clientVars, LoopInv, ProgramTypeOK, RecordsWhatItReceives, CountsEvents,
        StopsWhatItLeaves, HeldInLoop, Phases, FlushedInLog, Held, MoreEvents
  <2> QED
    BY <2>1, <2>2
<1>3. FileInv'
  BY <1>1, FilesStep
<1> QED
  BY <1>2, <1>3 DEF ProgramInv

-----------------------------------------------------------------------------
(* The theorems.                                                           *)

\* The invariant, of every number of triggers and every interruption: what the
\* loop of startRun (DAQCtrl.h:136-170) knows of its message, file and count.
THEOREM ClientInductive == Spec => []ClientInv
<1>1. Init => ClientInv
  <2>1. ASSUME Init PROVE ProgramInv /\ TypeOK
    <3>1. ProgramInv
      BY <2>1, ProgramBegins DEF Init
    <3>2. queue \in Seq(Event) /\ replied = FALSE
      BY <2>1 DEF Init
    <3>3. replied \in BOOLEAN
      BY <3>2, Zenon
    <3> QED
      BY <3>1, <3>2, <3>3 DEF TypeOK, ProgramInv, LoopInv
  <2> QED
    BY <2>1 DEF ClientInv
<1>2. ClientInv /\ [Next]_vars => ClientInv'
  <2> SUFFICES ASSUME ClientInv, [Next]_vars
               PROVE  ClientInv'
    OBVIOUS
  <2>1. [ProgramMoves]_clientVars
    <3>1. queue # <<>> => Head(queue) \in Event
      BY DEF ClientInv, TypeOK
    <3> QED
      BY <3>1 DEF Next, ProgramStep, RecvReply, RecvEvent, ControlInterrupted,
           DataInterrupted, Interrupted, Answer, Deliver, ProgramMoves, vars
  <2>2. ProgramInv'
    BY <2>1, ProgramGoesOn DEF ClientInv
  <2>3. replied' \in BOOLEAN
    BY DEF ClientInv, TypeOK, Next, ProgramStep, RecvReply, RecvEvent,
           ControlInterrupted, DataInterrupted, Answer, Deliver, vars
  <2>4. queue' \in Seq(Event)
    <3>1. CASE Deliver
      <4>1. Len(taken) \in Nat /\ Len(queue) \in Nat
        BY DEF ClientInv, TypeOK, ProgramTypeOK
      <4>2. Arrivals + 1 \in Event
        BY <3>1, <4>1, EventAssumption, BoundsAssumption DEF Deliver, Arrivals
      <4> QED
        BY <3>1, <4>2 DEF Deliver, ClientInv, TypeOK
    <3>2. CASE RecvEvent
      BY <3>2 DEF RecvEvent, ClientInv, TypeOK
    <3>3. CASE ~(Deliver \/ RecvEvent)
      BY <3>3 DEF ClientInv, TypeOK, Next, ProgramStep, RecvReply,
             ControlInterrupted, DataInterrupted, Answer, vars
    <3> QED
      BY <3>1, <3>2, <3>3
  <2> QED
    BY <2>2, <2>3, <2>4 DEF ClientInv, TypeOK, ProgramInv, LoopInv
<1> QED
  BY <1>1, <1>2, PTL DEF Spec

\* Files hold exactly what was received, but for the event a stop drops.
THEOREM RecordsReceived == Spec => []RecordsWhatItReceives
<1>1. ClientInv => RecordsWhatItReceives
  BY DEF ClientInv, ProgramInv, LoopInv
<1> QED
  BY <1>1, ClientInductive, PTL

\* Triggers are counted by events written and errors skipped.
THEOREM CountsRight == Spec => []CountsEvents
<1>1. ClientInv => CountsEvents
  BY DEF ClientInv, ProgramInv, LoopInv
<1> QED
  BY <1>1, ClientInductive, PTL

\* A program that returns from main has stopped a run it did not complete.
THEOREM RunStopped == Spec => []StopsWhatItLeaves
<1>1. ClientInv => StopsWhatItLeaves
  BY DEF ClientInv, ProgramInv, LoopInv
<1> QED
  BY <1>1, ClientInductive, PTL

\* The count by which the program goes on to the next file is the size of the
\* file it writes, and files are numbered in turn (DAQCtrl.h:120-124, 159-168).
THEOREM FilesRotate == Spec => []RotatesWhenFull
<1>1. ClientInv => RotatesWhenFull
  BY DEF ClientInv, ProgramInv, FileInv
<1> QED
  BY <1>1, ClientInductive, PTL
=============================================================================
