--------------------------- MODULE UnixWriteProofs ---------------------------
(***************************************************************************)
(* What WriteToDisk guarantees on Linux for any number of readers, of      *)
(* selection rounds and of attempts, and then on macOS: its further steps  *)
(* keep the inductive invariant WriteInv of LinuxWrite, and are no steps   *)
(* for the caller of DiskWriter.                                           *)
(***************************************************************************)
EXTENDS DarwinWrite, TLAPS

JobProofs == INSTANCE BackgroundJobProofs WITH
    Error <- {SudoError}, NoError <- "nil", Pending <- "pending"

\* Every step of the writer is a step of its job's channels, or leaves them alone.
LEMMA JobStep == TypeOK /\ [Next]_vars => [Job!Next]_(Job!vars)
<1> SUFFICES ASSUME TypeOK, [Next]_vars PROVE [Job!Next]_(Job!vars)
  OBVIOUS
<1> USE DEF job, Job!vars
<1>1. CASE Caller
  <2>1. CASE Spawn
    BY <2>1 DEF Spawn, Job!Next, Job!Waiter
  <2>2. CASE Receive
    BY <2>2 DEF Receive, Job!Next, Job!Waiter
  <2>3. CASE ~Spawn /\ ~Receive
    BY <1>1, <2>3 DEF Caller, AfterListing, AskContinue, Confirm, ListRemovableDisk, Choose, NotRecognised,
                      CheckLock, WaitReturns, Unmount, Eject
  <2> QED
    BY <2>1, <2>2, <2>3
<1>2. CASE Worker
  <2> USE DEF Job!Next, Job!Worker
  <2>1. CASE TryWrite
    BY <2>1 DEF TryWrite
  <2>2. ASSUME NEW yes \in BOOLEAN, AskRetry(yes) PROVE [Job!Next]_(Job!vars)
    BY <2>2 DEF AskRetry
  <2>3. CASE SudoFails \/ RunDD \/ EndDD
    BY <2>3 DEF SudoFails, RunDD, StartDD, WrongPassword, EndDD
  <2>4. CASE Prompt \/ Typed \/ StopSpinner
    BY <2>4 DEF Prompt, Typed, StopSpinner
  <2>5. CASE Report
    <3>1. CASE werr # "nil" /\ first = "nil"
      <4>1. werr = SudoError
        BY <3>1 DEF TypeOK, WorkerOK
      <4> QED
        BY <2>5, <3>1, <4>1 DEF Report
    <3>2. CASE ~(werr # "nil" /\ first = "nil")
      BY <2>5, <3>2 DEF Report
    <3> QED
      BY <3>1, <3>2
  <2> QED
    BY <1>2, <2>1, <2>2, <2>3, <2>4, <2>5 DEF Worker, Attempts
<1>3. CASE User \/ Terminated \/ UNCHANGED vars
  BY <1>3 DEF User, Plug, Terminated, vars
<1> QED
  BY <1>1, <1>2, <1>3 DEF Next

JobInv == Job!TypeOK /\ Job!NothingMissed /\ Job!ResultIsFirstError

\* What is proved of BackgroundJob holds of the job of a writer.
LEMMA JobPreserved == WriteInv /\ [Next]_vars => JobInv'
<1> SUFFICES ASSUME WriteInv, [Next]_vars PROVE JobInv'
  OBVIOUS
<1>1. [Job!Next]_(Job!vars)
  BY JobStep DEF WriteInv
<1>2. JobProofs!IInv
  BY DEF WriteInv, TypeOK, JobProofs!IInv, JobProofs!TypeOK, Job!TypeOK, JobProofs!NothingMissed,
         Job!NothingMissed, JobProofs!ResultIsFirstError, Job!ResultIsFirstError
<1>3. JobProofs!ErrorAssumption
  BY SudoErrorAssumption DEF JobProofs!ErrorAssumption
<1>4. [JobProofs!Next]_(JobProofs!vars)
  BY <1>1 DEF
    Job!Next, Job!Worker, Job!Waiter, Job!vars, Job!CallActive, Job!CallError, Job!CallClose,
    Job!StartWait, Job!ReceiveProgress, Job!ReceiveError, Job!ReceiveClosed,
    JobProofs!Next, JobProofs!Worker, JobProofs!Waiter, JobProofs!vars, JobProofs!CallActive,
    JobProofs!CallError, JobProofs!CallClose, JobProofs!StartWait, JobProofs!ReceiveProgress,
    JobProofs!ReceiveError, JobProofs!ReceiveClosed
<1>5. JobProofs!IInv'
  BY <1>2, <1>3, <1>4, JobProofs!NextPreserves
<1> QED
  BY <1>5 DEF JobInv, JobProofs!IInv, JobProofs!TypeOK, Job!TypeOK, JobProofs!NothingMissed,
              Job!NothingMissed, JobProofs!ResultIsFirstError, Job!ResultIsFirstError

-----------------------------------------------------------------------------
\* Nothing is selected, written or reported at the start.
LEMMA InitWriteInv == Init => WriteInv
<1> SUFFICES ASSUME Init PROVE WriteInv
  OBVIOUS
<1> USE DiskAssumption, SudoErrorAssumption, TriesAssumption DEF Init, Job!Init
<1>1. TypeOK
  <2>0. plugs \in 0 .. MaxPlugs
    OBVIOUS
  <2>1. CardsOK
    BY <2>0 DEF CardsOK
  <2>2. attempt \in 0 .. DiskSelectionTries - 1
    OBVIOUS
  <2>3. CallerOK
    BY <2>2 DEF CallerOK
  <2>4. tries \in 0 .. WriteAttempts
    OBVIOUS
  <2>5. WorkerOK
    BY <2>4 DEF WorkerOK
  <2>6. Job!TypeOK
    BY DEF Job!TypeOK
  <2> QED
    BY <2>1, <2>3, <2>5, <2>6 DEF TypeOK
<1>2. Job!NothingMissed /\ Job!ResultIsFirstError
  BY DEF Job!NothingMissed, Job!ResultIsFirstError
<1>3. NoWorkerYet /\ Selection /\ WorkerOnAgreedDisk
  BY DEF NoWorkerYet, Untouched, Selection, Selecting, WorkerOnAgreedDisk
<1>4. DDRunsOnce /\ ReportedAtEnd /\ ReplyMatches
  BY DEF DDRunsOnce, ReportedAtEnd, ReplyMatches
<1>5. OneCard
  BY DEF OneCard, AtMostOneReader
<1> QED
  BY <1>1, <1>2, <1>3, <1>4, <1>5 DEF WriteInv

\* The steps of the caller: selection, go statement, wait, unmount, eject.
LEMMA CallerPreserves == WriteInv /\ Caller => WriteInv'
<1> SUFFICES ASSUME WriteInv, Caller PROVE WriteInv'
  OBVIOUS
<1>1. JobInv'
  BY JobPreserved DEF Next
<1> USE <1>1, DiskAssumption, SudoErrorAssumption, TriesAssumption
  DEF JobInv, WriteInv, TypeOK, Go, Step, NextRound, env, store, work, caller, job
<1>2. ASSUME NEW yes \in BOOLEAN, AskContinue(yes) PROVE WriteInv'
  <2> USE <1>2 DEF AskContinue
  <2>1. CardsOK' /\ CallerOK' /\ WorkerOK'
    <3>1. CardsOK' /\ WorkerOK'
      BY DEF CardsOK, WorkerOK
    <3>2. attempt' \in 0 .. DiskSelectionTries - 1
      <4>1. attempt \in 0 .. DiskSelectionTries - 1
        BY DEF CallerOK
      <4>2. attempt + 1 < DiskSelectionTries
        BY DEF Selection
      <4>3. attempt' = attempt \/ attempt' = attempt + 1
        OBVIOUS
      <4> QED
        BY <4>1, <4>2, <4>3, TriesAssumption
    <3>3. CallerOK'
      BY <3>2 DEF CallerOK
    <3> QED
      BY <3>1, <3>3
  <2>2. NoWorkerYet' /\ Selection' /\ WorkerOnAgreedDisk'
    BY DEF NoWorkerYet, Untouched, Selection, Selecting, Listed, WorkerOnAgreedDisk, CallerOK
  <2>3. DDRunsOnce' /\ ReportedAtEnd' /\ ReplyMatches'
    BY DEF DDRunsOnce, Written, ReportedAtEnd, ReplyMatches, NoWorkerYet, Untouched, Selection, Selecting, Listed, WorkerOnAgreedDisk, WorkerOK, CallerOK
  <2>4. OneCard'
    BY DEF OneCard, Untouched, AtMostOneReader, NoWorkerYet, Selection, Selecting, WorkerOnAgreedDisk
  <2> QED
    BY <2>1, <2>2, <2>3, <2>4
<1>3. ASSUME NEW yes \in BOOLEAN, Confirm(yes) PROVE WriteInv'
  <2> USE <1>3 DEF Confirm
  <2>1. CardsOK' /\ CallerOK' /\ WorkerOK'
    <3>1. CardsOK'
      BY DEF CardsOK
    <3>2. CallerOK'
      BY DEF CallerOK
    <3>3. WorkerOK'
      BY DEF WorkerOK
    <3> QED
      BY <3>1, <3>2, <3>3
  <2>2. NoWorkerYet' /\ Selection' /\ WorkerOnAgreedDisk'
    BY DEF NoWorkerYet, Untouched, Selection, Selecting, Listed, WorkerOnAgreedDisk, CallerOK
  <2>3. DDRunsOnce' /\ ReportedAtEnd' /\ ReplyMatches'
    BY DEF DDRunsOnce, Written, ReportedAtEnd, ReplyMatches, NoWorkerYet, Untouched, Selection, Selecting, Listed, WorkerOnAgreedDisk, WorkerOK, CallerOK
  <2>4. OneCard'
    BY DEF OneCard, Untouched, AtMostOneReader, NoWorkerYet, Selection, Selecting, WorkerOnAgreedDisk
  <2> QED
    BY <2>1, <2>2, <2>3, <2>4
<1>4. CASE ListRemovableDisk
  <2> USE <1>4 DEF ListRemovableDisk
  <2>1. CardsOK' /\ CallerOK' /\ WorkerOK'
    <3>1. CardsOK'
      BY DEF CardsOK
    <3>2. CallerOK'
      BY DEF CallerOK, CardsOK, Inserted
    <3>3. WorkerOK'
      BY DEF WorkerOK
    <3> QED
      BY <3>1, <3>2, <3>3
  <2>2. NoWorkerYet' /\ Selection' /\ WorkerOnAgreedDisk'
    BY DEF NoWorkerYet, Untouched, Selection, Selecting, Listed, WorkerOnAgreedDisk, CallerOK
  <2>3. DDRunsOnce' /\ ReportedAtEnd' /\ ReplyMatches'
    BY DEF DDRunsOnce, Written, ReportedAtEnd, ReplyMatches, NoWorkerYet, Untouched, Selection, Selecting, Listed, WorkerOnAgreedDisk, WorkerOK, CallerOK
  <2>4. OneCard'
    BY DEF OneCard, Untouched, AtMostOneReader, NoWorkerYet, Selection, Selecting, WorkerOnAgreedDisk
  <2> QED
    BY <2>1, <2>2, <2>3, <2>4
<1>5. ASSUME NEW d \in Disk, Choose(d) PROVE WriteInv'
  <2> USE <1>5 DEF Choose
  <2>1. CardsOK' /\ CallerOK' /\ WorkerOK'
    <3>1. CardsOK'
      BY DEF CardsOK
    <3>2. CallerOK'
      BY DEF CallerOK
    <3>3. WorkerOK'
      BY DEF WorkerOK
    <3> QED
      BY <3>1, <3>2, <3>3
  <2>2. NoWorkerYet' /\ Selection' /\ WorkerOnAgreedDisk'
    BY DEF NoWorkerYet, Untouched, Selection, Selecting, Listed, WorkerOnAgreedDisk, CallerOK
  <2>3. DDRunsOnce' /\ ReportedAtEnd' /\ ReplyMatches'
    BY DEF DDRunsOnce, Written, ReportedAtEnd, ReplyMatches, NoWorkerYet, Untouched, Selection, Selecting, Listed, WorkerOnAgreedDisk, WorkerOK, CallerOK
  <2>4. OneCard'
    BY DEF OneCard, Untouched, AtMostOneReader, NoWorkerYet, Selection, Selecting, WorkerOnAgreedDisk
  <2> QED
    BY <2>1, <2>2, <2>3, <2>4
<1>6. CASE NotRecognised
  <2> USE <1>6 DEF NotRecognised
  <2>1. CardsOK' /\ CallerOK' /\ WorkerOK'
    <3>1. CardsOK'
      BY DEF CardsOK
    <3>2. CallerOK'
      BY DEF CallerOK
    <3>3. WorkerOK'
      BY DEF WorkerOK
    <3> QED
      BY <3>1, <3>2, <3>3
  <2>2. NoWorkerYet' /\ Selection' /\ WorkerOnAgreedDisk'
    BY DEF NoWorkerYet, Untouched, Selection, Selecting, Listed, WorkerOnAgreedDisk, CallerOK
  <2>3. DDRunsOnce' /\ ReportedAtEnd' /\ ReplyMatches'
    BY DEF DDRunsOnce, Written, ReportedAtEnd, ReplyMatches, NoWorkerYet, Untouched, Selection, Selecting, Listed, WorkerOnAgreedDisk, WorkerOK, CallerOK
  <2>4. OneCard'
    BY DEF OneCard, Untouched, AtMostOneReader, NoWorkerYet, Selection, Selecting, WorkerOnAgreedDisk
  <2> QED
    BY <2>1, <2>2, <2>3, <2>4
<1>7. CASE CheckLock
  <2> USE <1>7 DEF CheckLock
  <2>1. CardsOK' /\ CallerOK' /\ WorkerOK'
    <3>1. CardsOK'
      BY DEF CardsOK
    <3>2. CallerOK'
      BY DEF CallerOK, CardsOK
    <3>3. WorkerOK'
      BY DEF WorkerOK
    <3> QED
      BY <3>1, <3>2, <3>3
  <2>2. NoWorkerYet' /\ Selection' /\ WorkerOnAgreedDisk'
    BY DEF NoWorkerYet, Untouched, Selection, Selecting, Listed, WorkerOnAgreedDisk, CallerOK
  <2>3. DDRunsOnce' /\ ReportedAtEnd' /\ ReplyMatches'
    BY DEF DDRunsOnce, Written, ReportedAtEnd, ReplyMatches, NoWorkerYet, Untouched, Selection, Selecting, Listed, WorkerOnAgreedDisk, WorkerOK, CallerOK
  <2>4. OneCard'
    BY DEF OneCard, Untouched, AtMostOneReader, NoWorkerYet, Selection, Selecting, WorkerOnAgreedDisk
  <2> QED
    BY <2>1, <2>2, <2>3, <2>4
<1>8. CASE Spawn
  <2> USE <1>8 DEF Spawn, Job!StartWait
  <2>1. CardsOK' /\ CallerOK' /\ WorkerOK'
    <3>1. CardsOK'
      BY DEF CardsOK
    <3>2. CallerOK'
      BY DEF CallerOK, CardsOK
    <3>3. WorkerOK'
      BY DEF WorkerOK
    <3> QED
      BY <3>1, <3>2, <3>3
  <2>2. NoWorkerYet' /\ Selection' /\ WorkerOnAgreedDisk'
    BY DEF NoWorkerYet, Untouched, Selection, Selecting, Listed, WorkerOnAgreedDisk, CallerOK
  <2>3. DDRunsOnce' /\ ReportedAtEnd' /\ ReplyMatches'
    <3>1. DDRunsOnce'
      BY DEF DDRunsOnce, Written, NoWorkerYet, Untouched, WorkerOK, Selection, Selecting
    <3>2. ReportedAtEnd'
      BY DEF ReportedAtEnd, NoWorkerYet, WorkerOK, Selection, Selecting
    <3>3. ReplyMatches'
      BY DEF ReplyMatches, NoWorkerYet, Selection, Selecting, WorkerOnAgreedDisk
    <3> QED
      BY <3>1, <3>2, <3>3
  <2>4. OneCard'
    BY DEF OneCard, Untouched, AtMostOneReader, NoWorkerYet, Selection, Selecting, WorkerOnAgreedDisk
  <2> QED
    BY <2>1, <2>2, <2>3, <2>4
<1>9. CASE Receive
  <2> USE <1>9 DEF Receive, Job!ReceiveProgress, Job!ReceiveError, Job!ReceiveClosed
  <2>1. CardsOK' /\ CallerOK' /\ WorkerOK'
    <3>1. CardsOK'
      BY DEF CardsOK
    <3>2. CallerOK'
      BY DEF CallerOK
    <3>3. WorkerOK'
      BY DEF WorkerOK
    <3> QED
      BY <3>1, <3>2, <3>3
  <2>2. NoWorkerYet' /\ Selection' /\ WorkerOnAgreedDisk'
    BY DEF NoWorkerYet, Untouched, Selection, Selecting, Listed, WorkerOnAgreedDisk, CallerOK, Job!TypeOK
  <2>3. DDRunsOnce' /\ ReportedAtEnd' /\ ReplyMatches'
    BY DEF DDRunsOnce, Written, ReportedAtEnd, ReplyMatches, NoWorkerYet, Untouched, Selection, Selecting, Listed, WorkerOnAgreedDisk, WorkerOK, CallerOK, Job!TypeOK, Job!ResultIsFirstError
  <2>4. OneCard'
    BY DEF OneCard, Untouched, AtMostOneReader, NoWorkerYet, Selection, Selecting, WorkerOnAgreedDisk
  <2> QED
    BY <2>1, <2>2, <2>3, <2>4
<1>10. CASE WaitReturns
  <2> USE <1>10 DEF WaitReturns
  <2>1. CardsOK' /\ CallerOK' /\ WorkerOK'
    <3>1. CardsOK'
      BY DEF CardsOK, Job!TypeOK, Job!ResultIsFirstError
    <3>2. CallerOK'
      BY DEF CallerOK, Job!TypeOK, Job!ResultIsFirstError
    <3>3. WorkerOK'
      BY DEF WorkerOK, Job!TypeOK, Job!ResultIsFirstError
    <3> QED
      BY <3>1, <3>2, <3>3
  <2>2. NoWorkerYet' /\ Selection' /\ WorkerOnAgreedDisk'
    BY DEF NoWorkerYet, Untouched, Selection, Selecting, Listed, WorkerOnAgreedDisk, CallerOK
  <2>3. DDRunsOnce' /\ ReportedAtEnd' /\ ReplyMatches'
    BY DEF DDRunsOnce, Written, ReportedAtEnd, ReplyMatches, NoWorkerYet, Untouched, Selection, Selecting, Listed, WorkerOnAgreedDisk, WorkerOK, CallerOK, Job!TypeOK, Job!ResultIsFirstError
  <2>4. OneCard'
    BY DEF OneCard, Untouched, AtMostOneReader, NoWorkerYet, Selection, Selecting, WorkerOnAgreedDisk
  <2> QED
    BY <2>1, <2>2, <2>3, <2>4
<1>11. CASE Unmount
  <2> USE <1>11 DEF Unmount
  <2>1. CardsOK' /\ CallerOK' /\ WorkerOK'
    <3>1. CardsOK'
      BY DEF CardsOK
    <3>2. CallerOK'
      BY DEF CallerOK
    <3>3. WorkerOK'
      BY DEF WorkerOK
    <3> QED
      BY <3>1, <3>2, <3>3
  <2>2. NoWorkerYet' /\ Selection' /\ WorkerOnAgreedDisk'
    BY DEF NoWorkerYet, Untouched, Selection, Selecting, Listed, WorkerOnAgreedDisk, CallerOK
  <2>3. DDRunsOnce' /\ ReportedAtEnd' /\ ReplyMatches'
    BY DEF DDRunsOnce, Written, ReportedAtEnd, ReplyMatches, NoWorkerYet, Untouched, Selection, Selecting, Listed, WorkerOnAgreedDisk, WorkerOK, CallerOK
  <2>4. OneCard'
    BY DEF OneCard, Untouched, AtMostOneReader, NoWorkerYet, Selection, Selecting, WorkerOnAgreedDisk
  <2> QED
    BY <2>1, <2>2, <2>3, <2>4
<1>12. CASE Eject
  <2> USE <1>12 DEF Eject
  <2>1. CardsOK' /\ CallerOK' /\ WorkerOK'
    <3>1. CardsOK'
      BY DEF CardsOK
    <3>2. CallerOK'
      BY DEF CallerOK
    <3>3. WorkerOK'
      BY DEF WorkerOK
    <3> QED
      BY <3>1, <3>2, <3>3
  <2>2. NoWorkerYet' /\ Selection' /\ WorkerOnAgreedDisk'
    BY DEF NoWorkerYet, Untouched, Selection, Selecting, Listed, WorkerOnAgreedDisk, CallerOK
  <2>3. DDRunsOnce' /\ ReportedAtEnd' /\ ReplyMatches'
    BY DEF DDRunsOnce, Written, ReportedAtEnd, ReplyMatches, NoWorkerYet, Untouched, Selection, Selecting, Listed, WorkerOnAgreedDisk, WorkerOK, CallerOK
  <2>4. OneCard'
    BY DEF OneCard, Untouched, AtMostOneReader, NoWorkerYet, Selection, Selecting, WorkerOnAgreedDisk
  <2> QED
    BY <2>1, <2>2, <2>3, <2>4
<1> QED
  BY <1>2, <1>3, <1>4, <1>5, <1>6, <1>7, <1>8, <1>9, <1>10, <1>11, <1>12 DEF Caller, AfterListing

\* The steps of the worker.
LEMMA WorkerPreserves == WriteInv /\ Worker => WriteInv'
<1> SUFFICES ASSUME WriteInv, Worker PROVE WriteInv'
  OBVIOUS
<1>1. JobInv'
  BY JobPreserved DEF Next
<1> USE <1>1, DiskAssumption, SudoErrorAssumption, TriesAssumption
  DEF JobInv, WriteInv, TypeOK, Go, Step, NextRound, env, store, work, caller, job
<1>2. CASE TryWrite
  <2> USE <1>2 DEF TryWrite, Job!CallActive
  <2>1. CardsOK' /\ CallerOK' /\ WorkerOK'
    <3>1. CardsOK'
      BY DEF CardsOK
    <3>2. CallerOK'
      BY DEF CallerOK
    <3>3. WorkerOK'
      BY DEF WorkerOK
    <3> QED
      BY <3>1, <3>2, <3>3
  <2>2. NoWorkerYet' /\ Selection' /\ WorkerOnAgreedDisk'
    BY DEF NoWorkerYet, Untouched, Selection, Selecting, Listed, WorkerOnAgreedDisk, CallerOK
  <2>3. DDRunsOnce' /\ ReportedAtEnd' /\ ReplyMatches'
    <3>1. DDRunsOnce'
      BY DEF DDRunsOnce, Written, NoWorkerYet, Untouched, WorkerOK
    <3>2. ReportedAtEnd'
      BY DEF ReportedAtEnd, NoWorkerYet, WorkerOK, Selection, Selecting
    <3>3. ReplyMatches'
      BY DEF ReplyMatches, NoWorkerYet, Selection, Selecting, WorkerOnAgreedDisk
    <3> QED
      BY <3>1, <3>2, <3>3
  <2>4. OneCard'
    BY DEF OneCard, Untouched, AtMostOneReader, NoWorkerYet, Selection, Selecting, WorkerOnAgreedDisk
  <2> QED
    BY <2>1, <2>2, <2>3, <2>4
<1>3. ASSUME NEW yes \in BOOLEAN, AskRetry(yes) PROVE WriteInv'
  <2> USE <1>3 DEF AskRetry, Job!CallActive
  <2>1. CardsOK' /\ CallerOK' /\ WorkerOK'
    <3>1. CardsOK'
      BY DEF CardsOK
    <3>2. CallerOK'
      BY DEF CallerOK
    <3>3. WorkerOK'
      BY DEF WorkerOK
    <3> QED
      BY <3>1, <3>2, <3>3
  <2>2. NoWorkerYet' /\ Selection' /\ WorkerOnAgreedDisk'
    BY DEF NoWorkerYet, Untouched, Selection, Selecting, Listed, WorkerOnAgreedDisk, CallerOK
  <2>3. DDRunsOnce' /\ ReportedAtEnd' /\ ReplyMatches'
    BY DEF DDRunsOnce, Written, ReportedAtEnd, ReplyMatches, NoWorkerYet, Untouched, Selection, Selecting, Listed, WorkerOnAgreedDisk, WorkerOK, CallerOK
  <2>4. OneCard'
    BY DEF OneCard, Untouched, AtMostOneReader, NoWorkerYet, Selection, Selecting, WorkerOnAgreedDisk
  <2> QED
    BY <2>1, <2>2, <2>3, <2>4
<1>4. CASE SudoFails
  <2> USE <1>4 DEF SudoFails
  <2>1. CardsOK' /\ CallerOK' /\ WorkerOK'
    <3>1. CardsOK'
      BY DEF CardsOK, WorkerOnAgreedDisk, Listed, CallerOK
    <3>2. CallerOK'
      BY DEF CallerOK
    <3>3. WorkerOK'
      BY DEF WorkerOK, DDRunsOnce
    <3> QED
      BY <3>1, <3>2, <3>3
  <2>2. NoWorkerYet' /\ Selection' /\ WorkerOnAgreedDisk'
    BY DEF NoWorkerYet, Untouched, Selection, Selecting, Listed, WorkerOnAgreedDisk, CallerOK
  <2>3. DDRunsOnce' /\ ReportedAtEnd' /\ ReplyMatches'
    <3>1. DDRunsOnce'
      BY DEF DDRunsOnce, Written, NoWorkerYet, Untouched, WorkerOK
    <3>2. ReportedAtEnd'
      BY DEF ReportedAtEnd, NoWorkerYet, WorkerOK, Selection, Selecting
    <3>3. ReplyMatches'
      BY DEF ReplyMatches, NoWorkerYet, Selection, Selecting, WorkerOnAgreedDisk
    <3> QED
      BY <3>1, <3>2, <3>3
  <2>4. OneCard'
    BY DEF OneCard, Untouched, AtMostOneReader, NoWorkerYet, Selection, Selecting, WorkerOnAgreedDisk
  <2> QED
    BY <2>1, <2>2, <2>3, <2>4
<1>5. CASE Prompt
  <2> USE <1>5 DEF Prompt, Job!CallActive
  <2>1. CardsOK' /\ CallerOK' /\ WorkerOK'
    <3>1. CardsOK'
      BY DEF CardsOK
    <3>2. CallerOK'
      BY DEF CallerOK
    <3>3. WorkerOK'
      BY DEF WorkerOK
    <3> QED
      BY <3>1, <3>2, <3>3
  <2>2. NoWorkerYet' /\ Selection' /\ WorkerOnAgreedDisk'
    BY DEF NoWorkerYet, Untouched, Selection, Selecting, Listed, WorkerOnAgreedDisk, CallerOK
  <2>3. DDRunsOnce' /\ ReportedAtEnd' /\ ReplyMatches'
    BY DEF DDRunsOnce, Written, ReportedAtEnd, ReplyMatches, NoWorkerYet, Untouched, Selection, Selecting, Listed, WorkerOnAgreedDisk, WorkerOK, CallerOK
  <2>4. OneCard'
    BY DEF OneCard, Untouched, AtMostOneReader, NoWorkerYet, Selection, Selecting, WorkerOnAgreedDisk
  <2> QED
    BY <2>1, <2>2, <2>3, <2>4
<1>6. CASE Typed
  <2> USE <1>6 DEF Typed, Job!CallActive
  <2>1. CardsOK' /\ CallerOK' /\ WorkerOK'
    <3>1. CardsOK'
      BY DEF CardsOK
    <3>2. CallerOK'
      BY DEF CallerOK
    <3>3. WorkerOK'
      BY DEF WorkerOK
    <3> QED
      BY <3>1, <3>2, <3>3
  <2>2. NoWorkerYet' /\ Selection' /\ WorkerOnAgreedDisk'
    BY DEF NoWorkerYet, Untouched, Selection, Selecting, Listed, WorkerOnAgreedDisk, CallerOK
  <2>3. DDRunsOnce' /\ ReportedAtEnd' /\ ReplyMatches'
    BY DEF DDRunsOnce, Written, ReportedAtEnd, ReplyMatches, NoWorkerYet, Untouched, Selection, Selecting, Listed, WorkerOnAgreedDisk, WorkerOK, CallerOK
  <2>4. OneCard'
    BY DEF OneCard, Untouched, AtMostOneReader, NoWorkerYet, Selection, Selecting, WorkerOnAgreedDisk
  <2> QED
    BY <2>1, <2>2, <2>3, <2>4
<1>7. CASE StartDD
  <2> USE <1>7 DEF StartDD
  <2>1. CardsOK' /\ CallerOK' /\ WorkerOK'
    <3>1. CardsOK'
      <4>1. mount \in Disk /\ slot[mount] \in Card \cup {NoCard}
        BY DEF CardsOK, WorkerOnAgreedDisk, Listed, CallerOK
      <4> QED
        BY <4>1 DEF CardsOK
    <3>2. CallerOK'
      BY DEF CallerOK
    <3>3. WorkerOK'
      BY DEF WorkerOK, DDRunsOnce
    <3> QED
      BY <3>1, <3>2, <3>3
  <2>2. NoWorkerYet' /\ Selection' /\ WorkerOnAgreedDisk'
    BY DEF NoWorkerYet, Untouched, Selection, Selecting, Listed, WorkerOnAgreedDisk, CallerOK
  <2>3. DDRunsOnce' /\ ReportedAtEnd' /\ ReplyMatches'
    <3>1. DDRunsOnce'
      BY DEF DDRunsOnce, Written, NoWorkerYet, Untouched, WorkerOK
    <3>2. ReportedAtEnd'
      BY DEF ReportedAtEnd, NoWorkerYet, WorkerOK, Selection, Selecting
    <3>3. ReplyMatches'
      BY DEF ReplyMatches, NoWorkerYet, Selection, Selecting, WorkerOnAgreedDisk
    <3> QED
      BY <3>1, <3>2, <3>3
  <2>4. OneCard'
    <3>1. CASE UNCHANGED store
      BY <3>1 DEF OneCard, Untouched, AtMostOneReader
    <3>2. CASE ~UNCHANGED store
      <4>1. /\ slot[mount] \in Card /\ fd' = slot[mount] /\ began' = slot[mount]
            /\ content' = [content EXCEPT ![slot[mount]] = "torn"]
        BY <3>2
      <4>2. \A c \in Card : content[c] = "old"
        BY DEF DDRunsOnce, Untouched
      <4>3. \A c \in Card : content'[c] # "old" => c = began'
        BY <4>1, <4>2 DEF CardsOK
      <4>4. ~Untouched'
        BY <4>1 DEF Untouched, CardsOK
      <4> QED
        BY <4>1, <4>3, <4>4 DEF OneCard, AtMostOneReader
    <3> QED
      BY <3>1, <3>2
  <2> QED
    BY <2>1, <2>2, <2>3, <2>4
<1>11. CASE WrongPassword
  <2> USE <1>11 DEF WrongPassword
  <2>1. CardsOK' /\ CallerOK' /\ WorkerOK'
    <3>1. CardsOK'
      BY DEF CardsOK
    <3>2. CallerOK'
      BY DEF CallerOK
    <3>3. WorkerOK'
      BY DEF WorkerOK
    <3> QED
      BY <3>1, <3>2, <3>3
  <2>2. NoWorkerYet' /\ Selection' /\ WorkerOnAgreedDisk'
    BY DEF NoWorkerYet, Untouched, Selection, Selecting, Listed, WorkerOnAgreedDisk, CallerOK
  <2>3. DDRunsOnce' /\ ReportedAtEnd' /\ ReplyMatches'
    <3>1. DDRunsOnce'
      BY DEF DDRunsOnce, Written, NoWorkerYet, Untouched, WorkerOK
    <3>2. ReportedAtEnd'
      BY DEF ReportedAtEnd, NoWorkerYet, WorkerOK, Selection, Selecting
    <3>3. ReplyMatches'
      BY DEF ReplyMatches, NoWorkerYet, Selection, Selecting, WorkerOnAgreedDisk
    <3> QED
      BY <3>1, <3>2, <3>3
  <2>4. OneCard'
    BY DEF OneCard, Untouched, AtMostOneReader, NoWorkerYet, Selection, Selecting, WorkerOnAgreedDisk
  <2> QED
    BY <2>1, <2>2, <2>3, <2>4
<1>8. CASE EndDD
  <2> USE <1>8 DEF EndDD
  <2>1. CardsOK' /\ CallerOK' /\ WorkerOK'
    <3>1. CardsOK'
      BY DEF CardsOK, WorkerOnAgreedDisk, Listed, CallerOK
    <3>2. CallerOK'
      BY DEF CallerOK
    <3>3. WorkerOK'
      <4>1. tries' \in 0 .. WriteAttempts
        OBVIOUS
      <4>2. unseen' \subseteq {"password", "dd"}
        BY DEF WorkerOK
      <4> QED
        BY <4>1, <4>2 DEF WorkerOK
    <3> QED
      BY <3>1, <3>2, <3>3
  <2>2. NoWorkerYet' /\ Selection' /\ WorkerOnAgreedDisk'
    BY DEF NoWorkerYet, Untouched, Selection, Selecting, Listed, WorkerOnAgreedDisk, CallerOK
  <2>3. DDRunsOnce' /\ ReportedAtEnd' /\ ReplyMatches'
    <3>1. DDRunsOnce'
      <4>1. Written' \/ unseen' # {}
        BY DEF OneCard, CardsOK, Written
      <4>2. wpc' = "spin" /\ werr' = "nil" /\ tries' = WriteAttempts
        OBVIOUS
      <4> QED
        BY <4>1, <4>2 DEF DDRunsOnce
    <3>2. ReportedAtEnd'
      BY DEF ReportedAtEnd, NoWorkerYet, WorkerOK, Selection, Selecting
    <3>3. ReplyMatches'
      BY DEF ReplyMatches, NoWorkerYet, Selection, Selecting, WorkerOnAgreedDisk
    <3> QED
      BY <3>1, <3>2, <3>3
  <2>4. OneCard'
    <3>1. fd # NoCard => fd = began /\ fd \in Card
      BY DEF OneCard, CardsOK
    <3>2. \A c \in Card : content'[c] # "old" => c = began
      BY <3>1 DEF OneCard, CardsOK
    <3>3. Untouched' => Untouched
      BY <3>1 DEF Untouched, CardsOK
    <3> QED
      BY <3>2, <3>3 DEF OneCard, AtMostOneReader
  <2> QED
    BY <2>1, <2>2, <2>3, <2>4
<1>9. CASE StopSpinner
  <2> USE <1>9 DEF StopSpinner, Job!CallActive
  <2>1. CardsOK' /\ CallerOK' /\ WorkerOK'
    <3>1. CardsOK'
      BY DEF CardsOK
    <3>2. CallerOK'
      BY DEF CallerOK
    <3>3. WorkerOK'
      BY DEF WorkerOK
    <3> QED
      BY <3>1, <3>2, <3>3
  <2>2. NoWorkerYet' /\ Selection' /\ WorkerOnAgreedDisk'
    BY DEF NoWorkerYet, Untouched, Selection, Selecting, Listed, WorkerOnAgreedDisk, CallerOK
  <2>3. DDRunsOnce' /\ ReportedAtEnd' /\ ReplyMatches'
    BY DEF DDRunsOnce, Written, ReportedAtEnd, ReplyMatches, NoWorkerYet, Untouched, Selection, Selecting, Listed, WorkerOnAgreedDisk, WorkerOK, CallerOK
  <2>4. OneCard'
    BY DEF OneCard, Untouched, AtMostOneReader, NoWorkerYet, Selection, Selecting, WorkerOnAgreedDisk
  <2> QED
    BY <2>1, <2>2, <2>3, <2>4
<1>10. CASE Report
  <2> USE <1>10 DEF Report, Job!CallError, Job!CallClose
  <2>1. CardsOK' /\ CallerOK' /\ WorkerOK'
    <3>1. CardsOK'
      BY DEF CardsOK
    <3>2. CallerOK'
      BY DEF CallerOK
    <3>3. WorkerOK'
      BY DEF WorkerOK
    <3> QED
      BY <3>1, <3>2, <3>3
  <2>2. NoWorkerYet' /\ Selection' /\ WorkerOnAgreedDisk'
    BY DEF NoWorkerYet, Untouched, Selection, Selecting, Listed, WorkerOnAgreedDisk, CallerOK
  <2>3. DDRunsOnce' /\ ReportedAtEnd' /\ ReplyMatches'
    BY DEF DDRunsOnce, Written, ReportedAtEnd, ReplyMatches, NoWorkerYet, Untouched, Selection, Selecting, Listed, WorkerOnAgreedDisk, WorkerOK, CallerOK, Job!TypeOK, Job!ResultIsFirstError
  <2>4. OneCard'
    BY DEF OneCard, Untouched, AtMostOneReader, NoWorkerYet, Selection, Selecting, WorkerOnAgreedDisk
  <2> QED
    BY <2>1, <2>2, <2>3, <2>4
<1> QED
  BY <1>2, <1>3, <1>4, <1>5, <1>6, <1>7, <1>8, <1>9, <1>10, <1>11 DEF Worker, RunDD, Attempts

\* The user's changes of cards disturb OneCard only: a card that is taken out is no longer
\* open, and the reader chosen has been changed.
LEMMA UserPreserves == WriteInv /\ (User \/ Terminated \/ UNCHANGED vars) => WriteInv'
<1> SUFFICES ASSUME WriteInv, User \/ Terminated \/ UNCHANGED vars PROVE WriteInv'
  OBVIOUS
<1> USE DiskAssumption
<1>1. UNCHANGED <<requested, content, began, caller, work, job>>
  BY DEF User, Plug, Terminated, vars, env, store
<1>2. JobInv'
  BY JobPreserved DEF Next
<1>3. CardsOK'
  <2>1. ASSUME NEW d \in Disk, Plug(d) PROVE CardsOK'
    <3>1. slot' \in [Disk -> Card \cup {NoCard}] /\ locked' \subseteq Card
      BY <2>1 DEF Plug, WriteInv, TypeOK, CardsOK
    <3>2. plugs' \in 0 .. MaxPlugs
      BY <2>1, TriesAssumption DEF Plug, WriteInv, TypeOK, CardsOK
    <3>3. fd' \in Card \cup {NoCard}
      BY <2>1 DEF Plug, WriteInv, TypeOK, CardsOK
    <3>4. swapped' \in BOOLEAN
      BY <2>1 DEF Plug, WriteInv, TypeOK, CardsOK
    <3> QED
      BY <1>1, <3>1, <3>2, <3>3, <3>4 DEF WriteInv, TypeOK, CardsOK
  <2>2. CASE Terminated \/ UNCHANGED vars
    BY <2>2 DEF Terminated, vars, env, store, WriteInv, TypeOK, CardsOK
  <2> QED
    BY <2>1, <2>2 DEF User
<1>4. CallerOK' /\ WorkerOK'
  <2>1. CallerOK'
    BY <1>1 DEF WriteInv, TypeOK, CallerOK, caller
  <2>2. WorkerOK'
    BY <1>1 DEF WriteInv, TypeOK, WorkerOK, work
  <2> QED
    BY <2>1, <2>2
<1>5. NoWorkerYet' /\ Selection' /\ WorkerOnAgreedDisk'
  BY <1>1 DEF WriteInv, NoWorkerYet, Untouched, Selection, Selecting, Listed, WorkerOnAgreedDisk,
              caller, work, job
<1>6. DDRunsOnce' /\ ReportedAtEnd' /\ ReplyMatches'
  BY <1>1 DEF WriteInv, DDRunsOnce, Untouched, Written, ReportedAtEnd, ReplyMatches, caller, work, job
<1>7. OneCard'
  <2>1. ASSUME NEW d \in Disk, Plug(d) PROVE OneCard'
    <3> USE <2>1 DEF Plug, WriteInv, TypeOK, CardsOK, caller, work
    <3>1. \A c \in Card : AtMostOneReader(c)'
      BY DEF OneCard, AtMostOneReader
    <3>2. fd' # NoCard => wpc' = "dd" /\ fd' = began' /\ slot'[mount'] = fd'
      <4> SUFFICES ASSUME fd' # NoCard PROVE wpc' = "dd" /\ fd' = began' /\ slot'[mount'] = fd'
        OBVIOUS
      <4>1. fd' = fd /\ fd # NoCard /\ (slot[d] = fd => FALSE)
        OBVIOUS
      <4>2. wpc = "dd" /\ fd = began /\ slot[mount] = fd
        BY <4>1 DEF OneCard
      <4>3. mount \in Disk /\ mount # d
        BY <4>1, <4>2 DEF WorkerOnAgreedDisk, Listed, CallerOK
      <4> QED
        BY <1>1, <4>1, <4>2, <4>3
    <3>3. mount \in Disk => swapped' \/ slot'[mount'] = slot[mount]
      BY <1>1
    <3>4. pc' \in {"confirm", "spawn"} \/ wpc' # "none" => swapped' \/ slot'[mount'] = checked'
      <4>1. pc \in {"confirm", "spawn"} \/ wpc # "none" => mount \in Disk
        BY DEF Selection, WorkerOnAgreedDisk, Listed, CallerOK
      <4>2. swapped => swapped'
        OBVIOUS
      <4> QED
        BY <1>1, <3>3, <4>1, <4>2 DEF OneCard
    <3> QED
      BY <1>1, <3>1, <3>2, <3>4 DEF OneCard, Untouched
  <2>2. CASE Terminated \/ UNCHANGED vars
    BY <2>2 DEF Terminated, vars, env, store, caller, work, WriteInv, OneCard, Untouched, AtMostOneReader
  <2> QED
    BY <2>1, <2>2 DEF User
<1> QED
  BY <1>2, <1>3, <1>4, <1>5, <1>6, <1>7 DEF WriteInv, TypeOK, JobInv

\* WriteInv is inductive.
LEMMA WriteInvInductive == WriteInv /\ [Next]_vars => WriteInv'
  BY CallerPreserves, WorkerPreserves, UserPreserves DEF Next

-----------------------------------------------------------------------------
\* Every variable of a writer keeps its type.
THEOREM WriteType == Spec => []TypeOK
<1>1. WriteInv => TypeOK
  BY DEF WriteInv
<1> QED
  BY InitWriteInv, WriteInvInductive, <1>1, PTL DEF Spec

\* Whatever the user answers and unplugs, the reader ejected is the one agreed to, its worker
\* has ended, and the whole image was written unless dd or sudo failed unseen.
THEOREM EjectOnlyWritten == Spec => []EjectAfterWrite
<1>1. WriteInv => EjectAfterWrite
  <2> SUFFICES ASSUME WriteInv, ejected # NoDisk PROVE EjectAfterWrite
    BY DEF EjectAfterWrite
  <2>1. wpc # "none" /\ ejected = agreed /\ result = "nil" /\ waiter = "returned"
    BY DEF WriteInv, ReplyMatches, WorkerOnAgreedDisk
  <2>2. worker = "closed" /\ first = "nil"
    BY <2>1 DEF WriteInv, Job!ResultIsFirstError
  <2>3. wpc = "ended" /\ werr # SudoError
    BY <2>2, SudoErrorAssumption DEF WriteInv, ReportedAtEnd
  <2>4. Written \/ unseen # {}
    BY <2>3 DEF WriteInv, DDRunsOnce
  <2> QED
    BY <2>1, <2>3, <2>4 DEF EjectAfterWrite
<1> QED
  BY InitWriteInv, WriteInvInductive, <1>1, PTL DEF Spec

\* A step that changes a card changes the one in the reader agreed to, under a running
\* worker; it is the first, and the one that was checked unless the user has changed it.
LEMMA ChangesAgreedDisk ==
  ASSUME WriteInv, [Next]_vars, NEW c \in Card, content'[c] # content[c]
  PROVE  /\ slot[mount] = c /\ mount = agreed /\ mount \in mounts
         /\ requested # NoDisk => mount = requested
         /\ worker = "running"
         /\ c = checked \/ swapped
         /\ \A other \in Card \ {c} : content[other] = "old"
<1>1. content' # content
  OBVIOUS
<1>2. StartDD \/ EndDD
  BY <1>1 DEF Next, Caller, AfterListing, Worker, RunDD, Attempts, User, Terminated, vars, store, Plug,
    AskContinue, Confirm, ListRemovableDisk, Choose, NotRecognised, CheckLock, Spawn, Receive,
    WaitReturns, Unmount, Eject, TryWrite, AskRetry, SudoFails, WrongPassword, Prompt, Typed,
    StopSpinner, Report
<1>3. worker = "running" /\ wpc \in {"start", "typing", "dd"}
  BY <1>2 DEF StartDD, EndDD, Step
<1>4. slot[mount] = c /\ \A other \in Card \ {c} : content[other] = "old"
  <2>1. CASE StartDD
    <3>1. slot[mount] = c
      BY <1>1, <2>1 DEF StartDD, store, WriteInv, TypeOK, CardsOK
    <3>2. Untouched
      BY <2>1 DEF StartDD, Step, WriteInv, DDRunsOnce
    <3> QED
      BY <3>1, <3>2 DEF Untouched
  <2>2. CASE EndDD
    <3>1. fd # NoCard /\ fd = c
      BY <1>1, <2>2 DEF EndDD, WriteInv, TypeOK, CardsOK
    <3> QED
      BY <3>1 DEF WriteInv, OneCard
  <2> QED
    BY <1>2, <2>1, <2>2
<1>5. swapped \/ slot[mount] = checked
  BY <1>3 DEF WriteInv, OneCard
<1> QED
  BY <1>3, <1>4, <1>5 DEF WriteInv, WorkerOnAgreedDisk, Listed

\* The only card that ever changes is in the reader listed and agreed to, under a running
\* worker, and it is the card that was checked unless the user has changed it since.
THEOREM OnlyAgreedDiskChanges == Spec => OnlyAgreedDisk
<1>1. WriteInv /\ [Next]_vars =>
        [\A c \in Card : content'[c] # content[c] =>
          /\ slot[mount] = c /\ mount = agreed /\ mount \in mounts
          /\ requested # NoDisk => mount = requested
          /\ worker = "running"
          /\ c = checked \/ swapped
          /\ \A other \in Card \ {c} : content[other] = "old"]_vars
  BY ChangesAgreedDisk
<1> QED
  BY InitWriteInv, WriteInvInductive, <1>1, PTL DEF Spec, OnlyAgreedDisk

-----------------------------------------------------------------------------
\* dd overwrites a card only while the caller waits: a caller that has been told
\* of an error has a worker that will not start dd again.
LEMMA CallerWaitsForDD ==
  ASSUME WriteInv, wpc \in {"start", "typing", "dd"}, worker = "running"
  PROVE  pc = "wait" /\ mount \in Disk /\ agreed = mount
<1>1. Listed(mount) /\ agreed = mount /\ (pc = "wait" \/ waiter = "returned")
  BY DEF WriteInv, WorkerOnAgreedDisk
<1>2. mount \in Disk
  BY <1>1 DEF Listed, WriteInv, TypeOK, CallerOK
<1>3. waiter # "returned"
  <2>1. first = "nil"
    BY DEF WriteInv, ReportedAtEnd
  <2> QED
    BY <2>1 DEF WriteInv, Job!ResultIsFirstError
<1> QED
  BY <1>1, <1>2, <1>3

\* An error the caller gets from the job was reported by a worker that never ran dd.
LEMMA ErrorLeavesCards ==
  ASSUME WriteInv, waiter = "returned", result # "nil"
  PROVE  Untouched
<1>1. first # "nil"
  BY DEF WriteInv, Job!ResultIsFirstError
<1>2. werr = SudoError /\ wpc # "dd"
  BY <1>1 DEF WriteInv, ReportedAtEnd
<1> QED
  BY <1>2 DEF WriteInv, DDRunsOnce

\* Every step of the writer is a step of DiskWriter, or a stutter.
LEMMA WriterStep == WriteInv /\ [Next]_vars => [Writer!Next]_(Writer!wvars)
<1> SUFFICES ASSUME WriteInv, [Next]_vars PROVE [Writer!Next]_(Writer!wvars)
  OBVIOUS
<1> USE DEF Writer!wvars, Go, store
<1>1. ASSUME NEW yes \in BOOLEAN, AskContinue(yes) PROVE Writer!Refuse \/ UNCHANGED Writer!wvars
  <2>1. Untouched
    BY <1>1 DEF AskContinue, WriteInv, Selection, Selecting, NoWorkerYet
  <2> QED
    BY <1>1, <2>1 DEF AskContinue, Writer!Refuse, Writer!Untouched, Untouched
<1>2. ASSUME NEW yes \in BOOLEAN, Confirm(yes) PROVE [Writer!Next]_(Writer!wvars)
  <2>1. mount \in Disk /\ agreed = NoDisk
    BY <1>2 DEF Confirm, WriteInv, Selection, Selecting, Listed, TypeOK, CallerOK
  <2>2. CASE yes
    <3>1. Writer!Agree(mount)
      BY <1>2, <2>1, <2>2 DEF Confirm, Writer!Agree
    <3> QED
      BY <2>1, <3>1 DEF Writer!Next
  <2>3. CASE ~yes
    BY <1>2, <2>3 DEF Confirm, Writer!Next, Writer!Reply
  <2> QED
    BY <2>2, <2>3
<1>3. ASSUME ListRemovableDisk \/ NotRecognised \/ CheckLock
      PROVE  Writer!Refuse \/ UNCHANGED Writer!wvars
  <2>1. Untouched
    BY <1>3 DEF ListRemovableDisk, NotRecognised, CheckLock, WriteInv, Selection, Selecting, NoWorkerYet
  <2> QED
    BY <1>3, <2>1 DEF ListRemovableDisk, NotRecognised, CheckLock, NextRound, Writer!Refuse,
                      Writer!Untouched, Untouched
<1>4. CASE Spawn
  <2>1. CASE requested = NoDisk
    BY <1>4, <2>1 DEF Spawn
  <2>2. CASE requested # NoDisk
    <3>1. Writer!Agree(requested)
      BY <1>4, <2>2 DEF Spawn, WriteInv, Selection, Writer!Agree
    <3> QED
      BY <3>1, <2>2, DiskAssumption DEF WriteInv, TypeOK, CardsOK, Writer!Next
  <2> QED
    BY <2>1, <2>2
<1>5. CASE WaitReturns
  <2>1. CASE result = "nil"
    BY <1>5, <2>1 DEF WaitReturns, Writer!Next, Writer!Reply
  <2>2. CASE result # "nil"
    <3>1. Untouched
      BY <1>5, <2>2, ErrorLeavesCards DEF WaitReturns
    <3> QED
      BY <1>5, <2>2, <3>1 DEF WaitReturns, Writer!Next, Writer!Refuse, Writer!Untouched, Untouched
  <2> QED
    BY <2>1, <2>2
<1>6. CASE StartDD \/ EndDD
  <2>1. pc = "wait" /\ mount \in Disk /\ agreed = mount
    BY <1>6, CallerWaitsForDD DEF StartDD, EndDD, Step
  <2>2. mount # NoDisk /\ pc' = pc /\ agreed' = agreed
    BY <1>6, <2>1, DiskAssumption DEF StartDD, EndDD, caller
  <2>3. CASE content' = content /\ began' = began
    BY <2>2, <2>3
  <2>4. CASE StartDD /\ ~(content' = content /\ began' = began)
    <3>1. /\ slot[mount] \in Card /\ began' = slot[mount]
          /\ content' = [content EXCEPT ![slot[mount]] = "torn"]
      BY <2>4 DEF StartDD
    <3>2. began = NoCard
      BY <2>4 DEF StartDD, Step, WriteInv, DDRunsOnce, OneCard
    <3>3. Writer!Overwrite(slot[mount])
      BY <2>1, <2>2, <3>1, <3>2 DEF Writer!Overwrite
    <3> QED
      BY <3>1, <3>3 DEF Writer!Next
  <2>5. CASE EndDD /\ ~(content' = content /\ began' = began)
    <3>1. fd # NoCard /\ content' = [content EXCEPT ![fd] = "image"] /\ began' = began
      BY <2>5 DEF EndDD
    <3>2. fd \in Card /\ fd = began
      BY <3>1 DEF WriteInv, OneCard, TypeOK, CardsOK
    <3>3. Writer!Overwrite(fd)
      BY <2>1, <2>2, <3>1, <3>2 DEF Writer!Overwrite
    <3> QED
      BY <3>2, <3>3 DEF Writer!Next
  <2> QED
    BY <1>6, <2>3, <2>4, <2>5
<1>7. ASSUME NEW d \in Disk, Choose(d) PROVE UNCHANGED Writer!wvars
  BY <1>7 DEF Choose
<1>8. CASE Receive \/ Unmount \/ Eject
  BY <1>8 DEF Receive, Unmount, Eject, caller
<1>9. CASE TryWrite \/ (\E yes \in BOOLEAN : AskRetry(yes)) \/ SudoFails \/ WrongPassword \/ Prompt \/ Typed
           \/ StopSpinner \/ Report
  BY <1>9 DEF TryWrite, AskRetry, SudoFails, WrongPassword, Prompt, Typed, StopSpinner, Report, caller
<1>10. CASE User \/ Terminated \/ UNCHANGED vars
  BY <1>10 DEF User, Plug, Terminated, vars, caller
<1> QED
  BY <1>1, <1>2, <1>3, <1>4, <1>5, <1>6, <1>7, <1>8, <1>9, <1>10
  DEF Next, Caller, AfterListing, Worker, RunDD, Attempts, Writer!Next

\* WriteToDisk with its job implements DiskWriter: at most one card is overwritten, and an
\* error reply means that none was.
THEOREM LinuxImplementsWriter == Spec => ImplementsWriter
<1>1. Init => Writer!Init
  BY DEF Init, Writer!Init
<1> QED
  BY InitWriteInv, WriteInvInductive, <1>1, WriterStep, PTL DEF Spec, ImplementsWriter, Writer!Spec

-----------------------------------------------------------------------------
LEMMA JobUntouched == WriteInv /\ UNCHANGED job => JobInv'
  BY DEF WriteInv, JobInv, TypeOK, job, Job!TypeOK, Job!NothingMissed, Job!ResultIsFirstError

\* The steps that macOS adds touch no card and no channel; stated as the part of
\* the invariant each of them relies on.
LEMMA DarwinListsPreserves == WriteInv /\ DarwinLists => WriteInv'
<1> SUFFICES ASSUME WriteInv, DarwinLists PROVE WriteInv'
  OBVIOUS
<1> USE DEF DarwinLists, WriteInv, env, store, work, job
<1>1. CardsOK' /\ CallerOK' /\ WorkerOK'
  <2>1. CardsOK'
    BY DEF TypeOK, CardsOK
  <2>2. CallerOK'
    BY TriesAssumption DEF TypeOK, CallerOK, CardsOK, Inserted
  <2>3. WorkerOK'
    BY DEF TypeOK, WorkerOK
  <2> QED
    BY <2>1, <2>2, <2>3
<1> JobInv'
  BY JobUntouched
<1>2. NoWorkerYet' /\ Selection' /\ WorkerOnAgreedDisk'
  BY DEF NoWorkerYet, Untouched, Selection, Selecting, Listed, WorkerOnAgreedDisk
<1>3. DDRunsOnce' /\ ReportedAtEnd' /\ ReplyMatches'
  BY DEF DDRunsOnce, Untouched, Written, ReportedAtEnd, ReplyMatches, Selection, Selecting
<1>4. OneCard'
  BY DEF OneCard, Untouched, AtMostOneReader, Selection, Selecting
<1> QED
  BY <1>1, <1>2, <1>3, <1>4 DEF JobInv, TypeOK

\* NextRound is one of the two ways a round ends.
LEMMA DarwinAsksPreserves ==
  ASSUME WriteInv, asking => pc = "list", NEW yes \in BOOLEAN, DarwinAsks(yes)
  PROVE  WriteInv'
<1> USE DEF DarwinAsks, NextRound, WriteInv, env, store, work, job
<1>1. CardsOK' /\ CallerOK' /\ WorkerOK'
  <2>1. CardsOK'
    BY DEF TypeOK, CardsOK
  <2>2. CallerOK'
    BY TriesAssumption DEF TypeOK, CallerOK, CardsOK, Inserted
  <2>3. WorkerOK'
    BY DEF TypeOK, WorkerOK
  <2> QED
    BY <2>1, <2>2, <2>3
<1> JobInv'
  BY JobUntouched
<1>2. NoWorkerYet' /\ Selection' /\ WorkerOnAgreedDisk'
  BY DEF NoWorkerYet, Untouched, Selection, Selecting, Listed, WorkerOnAgreedDisk
<1>3. DDRunsOnce' /\ ReportedAtEnd' /\ ReplyMatches'
  BY DEF DDRunsOnce, Untouched, Written, ReportedAtEnd, ReplyMatches, Selection, Selecting
<1>4. OneCard'
  BY DEF OneCard, Untouched, AtMostOneReader, Selection, Selecting
<1> QED
  BY <1>1, <1>2, <1>3, <1>4 DEF JobInv, TypeOK

LEMMA NothingToSelectPreserves == WriteInv /\ NothingToSelect => WriteInv'
<1> SUFFICES ASSUME WriteInv, NothingToSelect PROVE WriteInv'
  OBVIOUS
<1> USE DEF NothingToSelect, Go, WriteInv, env, store, work, job
<1>1. CardsOK' /\ CallerOK' /\ WorkerOK'
  <2>1. CardsOK'
    BY DEF TypeOK, CardsOK
  <2>2. CallerOK'
    BY TriesAssumption DEF TypeOK, CallerOK, CardsOK, Inserted
  <2>3. WorkerOK'
    BY DEF TypeOK, WorkerOK
  <2> QED
    BY <2>1, <2>2, <2>3
<1> JobInv'
  BY JobUntouched
<1>2. NoWorkerYet' /\ Selection' /\ WorkerOnAgreedDisk'
  BY DEF NoWorkerYet, Untouched, Selection, Selecting, Listed, WorkerOnAgreedDisk
<1>3. DDRunsOnce' /\ ReportedAtEnd' /\ ReplyMatches'
  BY DEF DDRunsOnce, Untouched, Written, ReportedAtEnd, ReplyMatches, Selection, Selecting
<1>4. OneCard'
  BY DEF OneCard, Untouched, AtMostOneReader, Selection, Selecting
<1> QED
  BY <1>1, <1>2, <1>3, <1>4 DEF JobInv, TypeOK

\* The unmount ends as an attempt that has not begun: no dd has run.
LEMMA UnmountDiskPreserves == WriteInv /\ UnmountDisk => WriteInv'
<1> SUFFICES ASSUME WriteInv, UnmountDisk PROVE WriteInv'
  OBVIOUS
<1> USE TriesAssumption, SudoErrorAssumption DEF UnmountDisk, Step, WriteInv, env, store, caller, job
<1>1. CardsOK' /\ CallerOK' /\ WorkerOK'
  <2>1. CardsOK'
    BY DEF TypeOK, CardsOK
  <2>2. CallerOK'
    BY TriesAssumption DEF TypeOK, CallerOK, CardsOK, Inserted
  <2>3. WorkerOK'
    BY DEF TypeOK, WorkerOK
  <2> QED
    BY <2>1, <2>2, <2>3
<1> JobInv'
  BY JobUntouched
<1>2. NoWorkerYet' /\ Selection' /\ WorkerOnAgreedDisk'
  BY DEF NoWorkerYet, Untouched, Selection, Selecting, Listed, WorkerOnAgreedDisk
<1>3. DDRunsOnce' /\ ReportedAtEnd' /\ ReplyMatches'
  BY DEF DDRunsOnce, Untouched, Written, ReportedAtEnd, ReplyMatches, Selection, Selecting
<1>4. OneCard'
  BY DEF OneCard, Untouched, AtMostOneReader, Selection, Selecting
<1> QED
  BY <1>1, <1>2, <1>3, <1>4 DEF JobInv, TypeOK

-----------------------------------------------------------------------------
\* Only macOS has an inner question, and it is asked while the disks are listed.
Questions == asking => pc = "list" /\ os = "darwin" /\ round + 1 < DiskSelectionTries

HostParts ==
    /\ os \in {"linux", "darwin"}
    /\ round \in 0 .. DiskSelectionTries - 1 /\ asking \in BOOLEAN
    /\ stage \in {"unmount", "dd"}
    /\ Questions

HostInv == WriteInv /\ HostParts

\* A step of HostNext is a step of LinuxWrite, one that does not list on macOS, or
\* one of the four of macOS.
CommonStep == [Next]_vars /\ UNCHANGED dvars /\ (os = "darwin" /\ pc = "list" => pc' = "list")

DarwinStep == \/ DarwinLists \/ NothingToSelect \/ UnmountDisk
              \/ \E yes \in BOOLEAN : DarwinAsks(yes)

LEMMA HostSteps == [HostNext]_hostVars => CommonStep \/ (os = "darwin" /\ DarwinStep)
<1> SUFFICES ASSUME [HostNext]_hostVars PROVE CommonStep \/ (os = "darwin" /\ DarwinStep)
  OBVIOUS
<1>1. CASE os = "darwin" /\ AfterListing /\ UNCHANGED dvars
  <2>1. pc = "list" => pc' = "list"
    BY <1>1 DEF AfterListing, AskContinue, Confirm, Choose, NotRecognised, CheckLock, Spawn, Receive,
                WaitReturns, Unmount, Eject, Go
  <2> QED
    BY <1>1, <2>1 DEF CommonStep, Next, Caller
<1>2. CASE (RunDD \/ Attempts \/ User \/ Terminated \/ UNCHANGED vars) /\ UNCHANGED dvars
  <2>1. pc' = pc
    BY <1>2 DEF RunDD, StartDD, WrongPassword, Attempts, User, Plug, Terminated, vars, TryWrite, AskRetry, SudoFails, Prompt,
                Typed, EndDD, StopSpinner, Report, caller
  <2> QED
    BY <1>2, <2>1 DEF CommonStep, Next, Worker
<1>3. CASE os # "darwin" /\ Caller /\ UNCHANGED dvars
  BY <1>3 DEF CommonStep, Next
<1>4. CASE os = "darwin" /\ DarwinStep
  BY <1>4
<1> QED
  BY <1>1, <1>2, <1>3, <1>4
  DEF HostNext, HostCaller, HostWorker, DarwinCaller, DarwinWorker, DarwinStep, Worker, hostVars

LEMMA InitHostInv == HostInit => HostInv
<1> SUFFICES ASSUME HostInit PROVE HostInv
  OBVIOUS
<1>1. WriteInv
  BY InitWriteInv DEF HostInit
<1>2. round \in 0 .. DiskSelectionTries - 1
  BY TriesAssumption DEF HostInit
<1> QED
  BY <1>1, <1>2 DEF HostInit, HostInv, HostParts, Questions

LEMMA HostInvInductive == HostInv /\ [HostNext]_hostVars => HostInv'
<1> SUFFICES ASSUME HostInv, [HostNext]_hostVars PROVE HostInv'
  OBVIOUS
<1>1. CASE CommonStep
  <2>1. WriteInv'
    BY <1>1, WriteInvInductive DEF HostInv, CommonStep
  <2> QED
    BY <1>1, <2>1 DEF HostInv, HostParts, Questions, CommonStep, dvars, listing
<1>2. CASE os = "darwin" /\ DarwinLists
  <2>1. WriteInv'
    BY <1>2, DarwinListsPreserves DEF HostInv
  <2>2. round' \in 0 .. DiskSelectionTries - 1
    BY <1>2, TriesAssumption DEF HostInv, HostParts, DarwinLists
  <2>3. asking' \in BOOLEAN /\ UNCHANGED <<os, stage>>
    BY <1>2 DEF HostInv, HostParts, DarwinLists
  <2>4. Questions'
    BY <1>2 DEF HostInv, HostParts, Questions, DarwinLists
  <2> QED
    BY <2>1, <2>2, <2>3, <2>4 DEF HostInv, HostParts
<1>3. ASSUME NEW yes \in BOOLEAN, DarwinAsks(yes) PROVE HostInv'
  <2>1. WriteInv'
    BY <1>3, DarwinAsksPreserves DEF HostInv, HostParts, Questions, DarwinAsks
  <2>2. round' \in 0 .. DiskSelectionTries - 1
    <3>1. round + 1 < DiskSelectionTries
      BY <1>3 DEF HostInv, HostParts, Questions, DarwinAsks
    <3>2. round' = round + 1 \/ round' = 0
      BY <1>3 DEF DarwinAsks
    <3> QED
      BY <3>1, <3>2, TriesAssumption DEF HostInv, HostParts
  <2>3. asking' = FALSE /\ UNCHANGED <<os, stage>>
    BY <1>3 DEF DarwinAsks
  <2> QED
    BY <2>1, <2>2, <2>3 DEF HostInv, HostParts, Questions
<1>4. CASE NothingToSelect
  <2>1. WriteInv'
    BY <1>4, NothingToSelectPreserves DEF HostInv
  <2> QED
    BY <1>4, <2>1 DEF HostInv, HostParts, Questions, NothingToSelect, dvars, listing, Go
<1>5. CASE UnmountDisk
  <2>1. WriteInv'
    BY <1>5, UnmountDiskPreserves DEF HostInv
  <2> QED
    BY <1>5, <2>1 DEF HostInv, HostParts, Questions, UnmountDisk, listing, caller
<1> QED
  BY <1>1, <1>2, <1>3, <1>4, <1>5, HostSteps DEF DarwinStep

-----------------------------------------------------------------------------
\* Every variable keeps its type, on Linux and on macOS.
THEOREM HostType == HostSpec => []HostTypeOK
<1>1. HostInv => HostTypeOK
  BY DEF HostInv, HostParts, HostTypeOK, WriteInv
<1> QED
  BY InitHostInv, HostInvInductive, <1>1, PTL DEF HostSpec

\* On both, the only card that ever changes is in the reader listed and agreed to, and it is
\* the card that was checked unless the user has changed it since.
THEOREM HostChangesAgreedDisk == HostSpec => OnlyAgreedDisk
<1>1. HostInv /\ [HostNext]_hostVars =>
        [\A c \in Card : content'[c] # content[c] =>
          /\ slot[mount] = c /\ mount = agreed /\ mount \in mounts
          /\ requested # NoDisk => mount = requested
          /\ worker = "running"
          /\ c = checked \/ swapped
          /\ \A other \in Card \ {c} : content[other] = "old"]_vars
  <2> SUFFICES ASSUME HostInv, [HostNext]_hostVars, NEW c \in Card, content'[c] # content[c]
               PROVE  /\ slot[mount] = c /\ mount = agreed /\ mount \in mounts
                      /\ requested # NoDisk => mount = requested
                      /\ worker = "running"
                      /\ c = checked \/ swapped
                      /\ \A other \in Card \ {c} : content[other] = "old"
    OBVIOUS
  <2>1. [Next]_vars
    BY HostSteps DEF CommonStep, DarwinStep, DarwinLists, DarwinAsks, NothingToSelect, UnmountDisk, store
  <2> QED
    BY <2>1, ChangesAgreedDisk DEF HostInv
<1> QED
  BY InitHostInv, HostInvInductive, <1>1, PTL DEF HostSpec, OnlyAgreedDisk

\* On both, WriteToDisk with its job implements DiskWriter.
THEOREM HostImplementsWriter == HostSpec => ImplementsWriter
<1>1. HostInit => Writer!Init
  BY DEF HostInit, Init, Writer!Init
<1>2. HostInv /\ [HostNext]_hostVars => [Writer!Next]_(Writer!wvars)
  <2> SUFFICES ASSUME HostInv, [HostNext]_hostVars PROVE [Writer!Next]_(Writer!wvars)
    OBVIOUS
  <2>1. CASE CommonStep
    BY <2>1, WriterStep DEF HostInv, CommonStep
  <2>2. ASSUME NEW yes \in BOOLEAN, DarwinAsks(yes) PROVE [Writer!Next]_(Writer!wvars)
    <3>1. Untouched /\ pc = "list"
      BY <2>2 DEF DarwinAsks, HostInv, HostParts, Questions, WriteInv, Selection, Selecting, NoWorkerYet
    <3> QED
      BY <2>2, <3>1 DEF DarwinAsks, NextRound, store, Writer!wvars, Writer!Next, Writer!Refuse,
                        Writer!Untouched, Untouched
  <2>3. CASE NothingToSelect
    <3>1. Untouched
      BY <2>3 DEF NothingToSelect, Go, HostInv, WriteInv, Selection, Selecting, NoWorkerYet
    <3> QED
      BY <2>3, <3>1 DEF NothingToSelect, Go, store, Writer!Next, Writer!Refuse, Writer!Untouched, Untouched
  <2>4. CASE DarwinLists
    BY <2>4 DEF DarwinLists, store, Writer!wvars
  <2>5. CASE UnmountDisk
    BY <2>5 DEF UnmountDisk, caller, store, Writer!wvars
  <2> QED
    BY <2>1, <2>2, <2>3, <2>4, <2>5, HostSteps DEF DarwinStep
<1> QED
  BY InitHostInv, HostInvInductive, <1>1, <1>2, PTL DEF HostSpec, ImplementsWriter, Writer!Spec
=============================================================================
