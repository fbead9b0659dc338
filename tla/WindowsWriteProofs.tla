------------------------- MODULE WindowsWriteProofs -------------------------
(***************************************************************************)
(* What WriteToDisk guarantees on Windows for any number of cards, rounds  *)
(* and attempts.  WinInv adds to the properties of WindowsWrite who runs   *)
(* while the other waits, which card the struct's mount is at each step,   *)
(* and what a worker that has ended well has left on it.                   *)
(***************************************************************************)
EXTENDS WindowsWrite, TLAPS

JobProofs == INSTANCE BackgroundJobProofs WITH
    Error <- {DdError, NotFlashed}, NoError <- "nil", Pending <- "pending"

JobInv == Job!TypeOK /\ Job!NothingMissed /\ Job!ResultIsFirstError

\* Who calls CleanDisk waits for it, and a worker exists only while the caller waits
\* or after it has been answered.
Turns ==
    /\ cpc = "idle" <=> cleaner = "none"
    /\ cleaner = "caller" => pc = "clean" /\ wpc = "none"
    /\ cleaner = "worker" <=> wpc = "cleaning"
    /\ wpc # "none" => pc \in {"wait", "done", "failed"}
    /\ pc = "clean" => cleaner = "caller"
    /\ wpc \in {"active", "unzip"} => cmd = "copy"
    /\ pc = "clean" => cmd # "write"
    /\ pc = "copy" => cmd = "copy"
    /\ pc \in {"list", "again", "choose"} => cmd # "clean"
    /\ pc \in {"binary", "confirm", "spawn"} => cmd = "write"
    /\ wpc \notin {"none", "active", "unzip", "close", "ended"} => cmd = "write"

\* Before a card is selected there is none, and then it is one of the last list.
Listed ==
    /\ pc \in {"list", "again", "choose"} => mount = NoDisk
    /\ cpc # "pick" => mount \in mounts \cup {NoDisk}
    /\ cpc = "again" => last
    /\ cpc \in {"sure", "diskpart"} \/ (cpc = "over" /\ ~last) => mount = picked /\ mount # NoDisk

\* The card is the one agreed to, or picked in CleanDisk since.
Agreed ==
    /\ wpc \notin {"none", "close", "report", "ended"} /\ cmd = "write" => mount \in {agreed, picked}
    /\ cpc = "diskpart" => mount = agreed
    /\ picked = NoDisk /\ mount # NoDisk /\ requested # NoDisk => mount = requested
    /\ pc = "spawn" => mount = agreed \/ requested # NoDisk

\* A round or an attempt begins only if one is left.
InBounds ==
    /\ pc = "again" => attempt + 1 < DiskSelectionTries
    /\ cpc = "again" => ctry + 1 < DiskSelectionTries
    /\ wpc \in {"ask", "start", "dd"} => tries < WriteAttempts

\* The worker reports last of all: who has its answer left it in a report, or ended.
ReportIsLast ==
    /\ worker = "sendErr" => wpc \in {"report", "close"}
    /\ waiter = "returned" => wpc \in {"report", "close", "ended"}
    /\ worker = "closed" => wpc = "ended"
    /\ waiter = "away" => wpc = "none"
    /\ pc = "wait" \/ waiter = "away" \/ pc \in {"done", "failed"}
    /\ pc \in {"list", "again", "choose", "binary", "confirm", "spawn", "clean", "copy"} => waiter = "away"

\* A write that ended well left the image, unless it had no card to touch.
Whole == (mount # NoDisk /\ content[mount] = "image") \/ \A d \in Disk : content[d] = "old"
EndsWhole ==
    cmd = "write" =>
        /\ wpc = "none" \/ mount = NoDisk => \A d \in Disk : content[d] = "old"
        /\ wpc = "spin" /\ out = "ok" => Whole
        /\ wpc \in {"close", "ended"} /\ first = "nil" => Whole
        /\ first # "nil" => wpc \in {"report", "close", "ended"}

WinInv ==
    /\ TypeOK
    /\ JobInv
    /\ InBounds /\ Turns
    /\ Listed /\ Agreed
    /\ ReportIsLast /\ QuietWhenAnswered
    /\ EndsWhole

-----------------------------------------------------------------------------
\* Every step of the writer is a step of its job's channels, or leaves them alone.
LEMMA JobStep ==
  ASSUME TypeOK, [Next]_vars
  PROVE  [Job!Next]_(Job!vars)
<1> USE DEF Job!Next, Job!Worker, Job!Waiter, Job!vars, job, env, card, caller, struct,
        work, clean
<1>1. ASSUME NEW yes \in BOOLEAN, AskContinue(yes) PROVE [Job!Next]_(Job!vars)
  BY <1>1 DEF AskContinue, Go
<1>2. ASSUME NEW yes \in BOOLEAN, Confirm(yes) PROVE [Job!Next]_(Job!vars)
  BY <1>2 DEF Confirm, Go
<1>3. CASE ListRemovableDisk
  BY <1>3 DEF ListRemovableDisk
<1>4. ASSUME NEW d \in Disk, Choose(d) PROVE [Job!Next]_(Job!vars)
  BY <1>4 DEF Choose, Go
<1>5. CASE NotRecognised
  BY <1>5 DEF NotRecognised, Go
<1>6. CASE GetDDBinary
  BY <1>6 DEF GetDDBinary, Go
<1>7. CASE Spawn
  BY <1>7 DEF Spawn, Go
<1>8. CASE Receive
  BY <1>8 DEF Receive
<1>9. CASE WaitReturns
  BY <1>9 DEF WaitReturns, Go
<1>10. CASE TryWrite
  BY <1>10 DEF TryWrite, Step
<1>11. ASSUME NEW yes \in BOOLEAN, AskRetry(yes) PROVE [Job!Next]_(Job!vars)
  BY <1>11 DEF AskRetry, Step
<1>12. CASE StartDD
  BY <1>12 DEF StartDD, Step
<1>13. CASE EndDD
  BY <1>13 DEF EndDD, Step
<1>14. CASE DdEnded
  BY <1>14 DEF DdEnded, Step
<1>15. ASSUME NEW yes \in BOOLEAN, OfferClean(yes) PROVE [Job!Next]_(Job!vars)
  BY <1>15 DEF OfferClean, Step
<1>16. CASE Reconnect
  BY <1>16 DEF Reconnect, Step
<1>17. CASE Report
  <2>1. werr \in {"nil", DdError}
    BY DEF TypeOK, WorkerOK
  <2> QED
    BY <1>17, <2>1 DEF Report, Step
<1>18. CASE Unzip
  BY <1>18 DEF Unzip, Step
<1>19. CASE Close
  BY <1>19 DEF Close, Step
<1>20. CASE CleanLists
  BY <1>20 DEF CleanLists, CStep
<1>21. ASSUME NEW yes \in BOOLEAN, CleanAsks(yes) PROVE [Job!Next]_(Job!vars)
  BY <1>21 DEF CleanAsks, CStep
<1>22. ASSUME NEW d \in Disk, CleanPicks(d) PROVE [Job!Next]_(Job!vars)
  BY <1>22 DEF CleanPicks, CStep
<1>23. CASE CleanRounds
  BY <1>23 DEF CleanRounds, CleanReturns
<1>24. ASSUME NEW yes \in BOOLEAN, CleanConfirm(yes) PROVE [Job!Next]_(Job!vars)
  BY <1>24 DEF CleanConfirm, CStep, CleanReturns
<1>25. CASE DiskPart
  BY <1>25 DEF DiskPart, CleanReturns
<1>26. ASSUME NEW d \in Disk, Plug(d) PROVE [Job!Next]_(Job!vars)
  BY <1>26 DEF Plug
<1>27. CASE UNCHANGED vars
  BY <1>27 DEF vars
<1> QED
  BY <1>1, <1>2, <1>3, <1>4, <1>5, <1>6, <1>7, <1>8, <1>9, <1>10, <1>11, <1>12, <1>13,
     <1>14, <1>15, <1>16, <1>17, <1>18, <1>19, <1>20, <1>21, <1>22, <1>23, <1>24, <1>25,
     <1>26, <1>27
     DEF Next, Caller, Worker, CleanDisk, User, Terminated

\* The job keeps what BackgroundJobProofs shows of it.
LEMMA JobInvStep == JobInv /\ [Job!Next]_(Job!vars) => JobInv'
<1> SUFFICES ASSUME JobInv, [Job!Next]_(Job!vars) PROVE JobInv'
  OBVIOUS
<1>1. JobProofs!IInv
  BY DEF JobInv, JobProofs!IInv, JobProofs!TypeOK, Job!TypeOK, JobProofs!NothingMissed,
         Job!NothingMissed, JobProofs!ResultIsFirstError, Job!ResultIsFirstError
<1>2. JobProofs!ErrorAssumption
  BY ErrorAssumption DEF JobProofs!ErrorAssumption
<1>3. [JobProofs!Next]_(JobProofs!vars)
  BY DEF
    Job!Next, Job!Worker, Job!Waiter, Job!vars, Job!CallActive, Job!CallError, Job!CallClose,
    Job!StartWait, Job!ReceiveProgress, Job!ReceiveError, Job!ReceiveClosed,
    JobProofs!Next, JobProofs!Worker, JobProofs!Waiter, JobProofs!vars, JobProofs!CallActive,
    JobProofs!CallError, JobProofs!CallClose, JobProofs!StartWait, JobProofs!ReceiveProgress,
    JobProofs!ReceiveError, JobProofs!ReceiveClosed
<1>4. JobProofs!IInv'
  BY <1>1, <1>2, <1>3, JobProofs!NextPreserves
<1> QED
  BY <1>4 DEF JobInv, JobProofs!IInv, JobProofs!TypeOK, Job!TypeOK, JobProofs!NothingMissed,
              Job!NothingMissed, JobProofs!ResultIsFirstError, Job!ResultIsFirstError

\* The caller, the worker and CleanDisk take turns.
LEMMA TurnsStep ==
  ASSUME TypeOK, Turns, [Next]_vars
  PROVE  Turns'
<1> USE DEF Turns, env, card, caller, struct, work, clean
<1>1. ASSUME NEW yes \in BOOLEAN, AskContinue(yes) PROVE Turns'
  BY <1>1 DEF AskContinue, Go
<1>2. ASSUME NEW yes \in BOOLEAN, Confirm(yes) PROVE Turns'
  BY <1>2 DEF Confirm, Go
<1>3. CASE ListRemovableDisk
  BY <1>3 DEF ListRemovableDisk, TypeOK, CardsOK, CallerOK, WorkerOK
<1>4. ASSUME NEW d \in Disk, Choose(d) PROVE Turns'
  BY <1>4 DEF Choose, Go, TypeOK, CardsOK, CallerOK, WorkerOK
<1>5. CASE NotRecognised
  BY <1>5 DEF NotRecognised, Go, TypeOK, CardsOK, CallerOK, WorkerOK
<1>6. CASE GetDDBinary
  BY <1>6 DEF GetDDBinary, Go
<1>7. CASE Spawn
  BY <1>7 DEF Spawn, Go
<1>8. CASE Receive
  BY <1>8 DEF Receive
<1>9. CASE WaitReturns
  BY <1>9 DEF WaitReturns, Go
<1>10. CASE TryWrite
  BY <1>10 DEF TryWrite, Step
<1>11. ASSUME NEW yes \in BOOLEAN, AskRetry(yes) PROVE Turns'
  BY <1>11 DEF AskRetry, Step
<1>12. CASE StartDD
  BY <1>12 DEF StartDD, Step
<1>13. CASE EndDD
  BY <1>13 DEF EndDD, Step
<1>14. CASE DdEnded
  BY <1>14 DEF DdEnded, Step
<1>15. ASSUME NEW yes \in BOOLEAN, OfferClean(yes) PROVE Turns'
  BY <1>15 DEF OfferClean, Step
<1>16. CASE Reconnect
  BY <1>16 DEF Reconnect, Step
<1>17. CASE Report
  BY <1>17 DEF Report, Step
<1>18. CASE Unzip
  BY <1>18 DEF Unzip, Step
<1>19. CASE Close
  BY <1>19 DEF Close, Step
<1>20. CASE CleanLists
  BY <1>20 DEF CleanLists, CStep
<1>21. ASSUME NEW yes \in BOOLEAN, CleanAsks(yes) PROVE Turns'
  BY <1>21 DEF CleanAsks, CStep
<1>22. ASSUME NEW d \in Disk, CleanPicks(d) PROVE Turns'
  BY <1>22 DEF CleanPicks, CStep
<1>23. CASE CleanRounds
  BY <1>23 DEF CleanRounds, CleanReturns
<1>24. ASSUME NEW yes \in BOOLEAN, CleanConfirm(yes) PROVE Turns'
  BY <1>24 DEF CleanConfirm, CStep, CleanReturns
<1>25. CASE DiskPart
  BY <1>25 DEF DiskPart, CleanReturns
<1>26. ASSUME NEW d \in Disk, Plug(d) PROVE Turns'
  BY <1>26 DEF Plug
<1>27. CASE UNCHANGED vars
  BY <1>27 DEF vars
<1> QED
  BY <1>1, <1>2, <1>3, <1>4, <1>5, <1>6, <1>7, <1>8, <1>9, <1>10, <1>11, <1>12, <1>13,
     <1>14, <1>15, <1>16, <1>17, <1>18, <1>19, <1>20, <1>21, <1>22, <1>23, <1>24, <1>25,
     <1>26, <1>27
     DEF Next, Caller, Worker, CleanDisk, User, Terminated

\* A card is selected from the last list.
LEMMA ListedStep ==
  ASSUME TypeOK, Turns, Listed, [Next]_vars
  PROVE  Listed'
<1> USE DiskAssumption DEF Turns, Listed, env, card, caller, struct, work, clean
<1>1. ASSUME NEW yes \in BOOLEAN, AskContinue(yes) PROVE Listed'
  BY <1>1 DEF AskContinue, Go
<1>2. ASSUME NEW yes \in BOOLEAN, Confirm(yes) PROVE Listed'
  BY <1>2 DEF Confirm, Go
<1>3. CASE ListRemovableDisk
  BY <1>3 DEF ListRemovableDisk
<1>4. ASSUME NEW d \in Disk, Choose(d) PROVE Listed'
  BY <1>4 DEF Choose, Go
<1>5. CASE NotRecognised
  BY <1>5 DEF NotRecognised, Go
<1>6. CASE GetDDBinary
  BY <1>6 DEF GetDDBinary, Go
<1>7. CASE Spawn
  BY <1>7 DEF Spawn, Go
<1>8. CASE Receive
  BY <1>8 DEF Receive
<1>9. CASE WaitReturns
  BY <1>9 DEF WaitReturns, Go
<1>10. CASE TryWrite
  BY <1>10 DEF TryWrite, Step
<1>11. ASSUME NEW yes \in BOOLEAN, AskRetry(yes) PROVE Listed'
  BY <1>11 DEF AskRetry, Step
<1>12. CASE StartDD
  BY <1>12 DEF StartDD, Step
<1>13. CASE EndDD
  BY <1>13 DEF EndDD, Step
<1>14. CASE DdEnded
  BY <1>14 DEF DdEnded, Step
<1>15. ASSUME NEW yes \in BOOLEAN, OfferClean(yes) PROVE Listed'
  BY <1>15 DEF OfferClean, Step, TypeOK, CardsOK, CallerOK, WorkerOK
<1>16. CASE Reconnect
  BY <1>16 DEF Reconnect, Step
<1>17. CASE Report
  BY <1>17 DEF Report, Step
<1>18. CASE Unzip
  BY <1>18 DEF Unzip, Step
<1>19. CASE Close
  BY <1>19 DEF Close, Step
<1>20. CASE CleanLists
  BY <1>20 DEF CleanLists, CStep
<1>21. ASSUME NEW yes \in BOOLEAN, CleanAsks(yes) PROVE Listed'
  BY <1>21 DEF CleanAsks, CStep
<1>22. ASSUME NEW d \in Disk, CleanPicks(d) PROVE Listed'
  BY <1>22 DEF CleanPicks, CStep, TypeOK, CardsOK, CallerOK, WorkerOK
<1>23. CASE CleanRounds
  BY <1>23 DEF CleanRounds, CleanReturns
<1>24. ASSUME NEW yes \in BOOLEAN, CleanConfirm(yes) PROVE Listed'
  BY <1>24 DEF CleanConfirm, CStep, CleanReturns
<1>25. CASE DiskPart
  BY <1>25 DEF DiskPart, CleanReturns
<1>26. ASSUME NEW d \in Disk, Plug(d) PROVE Listed'
  BY <1>26 DEF Plug
<1>27. CASE UNCHANGED vars
  BY <1>27 DEF vars
<1> QED
  BY <1>1, <1>2, <1>3, <1>4, <1>5, <1>6, <1>7, <1>8, <1>9, <1>10, <1>11, <1>12, <1>13,
     <1>14, <1>15, <1>16, <1>17, <1>18, <1>19, <1>20, <1>21, <1>22, <1>23, <1>24, <1>25,
     <1>26, <1>27
     DEF Next, Caller, Worker, CleanDisk, User, Terminated

\* Whatever becomes the card to write to is agreed to, or picked.
LEMMA AgreedStep ==
  ASSUME TypeOK, Turns, Listed, Agreed, [Next]_vars
  PROVE  Agreed'
<1> USE DiskAssumption DEF Turns, Listed, Agreed, env, card, caller, struct, work, clean
<1>1. ASSUME NEW yes \in BOOLEAN, AskContinue(yes) PROVE Agreed'
  BY <1>1 DEF AskContinue, Go
<1>2. ASSUME NEW yes \in BOOLEAN, Confirm(yes) PROVE Agreed'
  BY <1>2 DEF Confirm, Go
<1>3. CASE ListRemovableDisk
  BY <1>3 DEF ListRemovableDisk
<1>4. ASSUME NEW d \in Disk, Choose(d) PROVE Agreed'
  BY <1>4 DEF Choose, Go
<1>5. CASE NotRecognised
  BY <1>5 DEF NotRecognised, Go
<1>6. CASE GetDDBinary
  BY <1>6 DEF GetDDBinary, Go
<1>7. CASE Spawn
  BY <1>7 DEF Spawn, Go
<1>8. CASE Receive
  BY <1>8 DEF Receive
<1>9. CASE WaitReturns
  BY <1>9 DEF WaitReturns, Go
<1>10. CASE TryWrite
  BY <1>10 DEF TryWrite, Step
<1>11. ASSUME NEW yes \in BOOLEAN, AskRetry(yes) PROVE Agreed'
  BY <1>11 DEF AskRetry, Step
<1>12. CASE StartDD
  BY <1>12 DEF StartDD, Step
<1>13. CASE EndDD
  BY <1>13 DEF EndDD, Step
<1>14. CASE DdEnded
  BY <1>14 DEF DdEnded, Step
<1>15. ASSUME NEW yes \in BOOLEAN, OfferClean(yes) PROVE Agreed'
  BY <1>15 DEF OfferClean, Step
<1>16. CASE Reconnect
  BY <1>16 DEF Reconnect, Step
<1>17. CASE Report
  BY <1>17 DEF Report, Step
<1>18. CASE Unzip
  BY <1>18 DEF Unzip, Step
<1>19. CASE Close
  BY <1>19 DEF Close, Step
<1>20. CASE CleanLists
  BY <1>20 DEF CleanLists, CStep
<1>21. ASSUME NEW yes \in BOOLEAN, CleanAsks(yes) PROVE Agreed'
  BY <1>21 DEF CleanAsks, CStep
<1>22. ASSUME NEW d \in Disk, CleanPicks(d) PROVE Agreed'
  BY <1>22 DEF CleanPicks, CStep, TypeOK, CardsOK, CallerOK, WorkerOK
<1>23. CASE CleanRounds
  BY <1>23 DEF CleanRounds, CleanReturns
<1>24. ASSUME NEW yes \in BOOLEAN, CleanConfirm(yes) PROVE Agreed'
  BY <1>24 DEF CleanConfirm, CStep, CleanReturns
<1>25. CASE DiskPart
  BY <1>25 DEF DiskPart, CleanReturns
<1>26. ASSUME NEW d \in Disk, Plug(d) PROVE Agreed'
  BY <1>26 DEF Plug
<1>27. CASE UNCHANGED vars
  BY <1>27 DEF vars
<1> QED
  BY <1>1, <1>2, <1>3, <1>4, <1>5, <1>6, <1>7, <1>8, <1>9, <1>10, <1>11, <1>12, <1>13,
     <1>14, <1>15, <1>16, <1>17, <1>18, <1>19, <1>20, <1>21, <1>22, <1>23, <1>24, <1>25,
     <1>26, <1>27
     DEF Next, Caller, Worker, CleanDisk, User, Terminated

\* The caller is answered by a report or by the close, after which the worker does nothing else.
LEMMA ReportStep ==
  ASSUME TypeOK, JobInv, Turns, ReportIsLast, QuietWhenAnswered, [Next]_vars
  PROVE  (ReportIsLast /\ QuietWhenAnswered)'
<1> USE DEF Turns, ReportIsLast, QuietWhenAnswered, Job!CallActive, Job!CallError,
        Job!CallClose, Job!StartWait, Job!ReceiveProgress, Job!ReceiveError,
        Job!ReceiveClosed, job, env, card, caller, struct, work, clean
<1>1. ASSUME NEW yes \in BOOLEAN, AskContinue(yes) PROVE (ReportIsLast /\ QuietWhenAnswered)'
  BY <1>1 DEF AskContinue, Go, TypeOK, CardsOK, CallerOK, WorkerOK
<1>2. ASSUME NEW yes \in BOOLEAN, Confirm(yes) PROVE (ReportIsLast /\ QuietWhenAnswered)'
  BY <1>2 DEF Confirm, Go, TypeOK, CardsOK, CallerOK, WorkerOK
<1>3. CASE ListRemovableDisk
  BY <1>3 DEF ListRemovableDisk, TypeOK, CardsOK, CallerOK, WorkerOK
<1>4. ASSUME NEW d \in Disk, Choose(d) PROVE (ReportIsLast /\ QuietWhenAnswered)'
  BY <1>4 DEF Choose, Go
<1>5. CASE NotRecognised
  BY <1>5 DEF NotRecognised, Go, TypeOK, CardsOK, CallerOK, WorkerOK
<1>6. CASE GetDDBinary
  BY <1>6 DEF GetDDBinary, Go, TypeOK, CardsOK, CallerOK, WorkerOK
<1>7. CASE Spawn
  BY <1>7 DEF Spawn, Go
<1>8. CASE Receive
  BY <1>8 DEF Receive
<1>9. CASE WaitReturns
  BY <1>9 DEF WaitReturns, Go, TypeOK, CardsOK, CallerOK, WorkerOK
<1>10. CASE TryWrite
  BY <1>10 DEF TryWrite, Step
<1>11. ASSUME NEW yes \in BOOLEAN, AskRetry(yes) PROVE (ReportIsLast /\ QuietWhenAnswered)'
  BY <1>11 DEF AskRetry, Step
<1>12. CASE StartDD
  BY <1>12 DEF StartDD, Step
<1>13. CASE EndDD
  BY <1>13 DEF EndDD, Step
<1>14. CASE DdEnded
  BY <1>14 DEF DdEnded, Step
<1>15. ASSUME NEW yes \in BOOLEAN, OfferClean(yes) PROVE (ReportIsLast /\ QuietWhenAnswered)'
  BY <1>15 DEF OfferClean, Step
<1>16. CASE Reconnect
  BY <1>16 DEF Reconnect, Step
<1>17. CASE Report
  BY <1>17 DEF Report, Step
<1>18. CASE Unzip
  BY <1>18 DEF Unzip, Step
<1>19. CASE Close
  BY <1>19 DEF Close, Step
<1>20. CASE CleanLists
  BY <1>20 DEF CleanLists, CStep
<1>21. ASSUME NEW yes \in BOOLEAN, CleanAsks(yes) PROVE (ReportIsLast /\ QuietWhenAnswered)'
  BY <1>21 DEF CleanAsks, CStep
<1>22. ASSUME NEW d \in Disk, CleanPicks(d) PROVE (ReportIsLast /\ QuietWhenAnswered)'
  BY <1>22 DEF CleanPicks, CStep
<1>23. CASE CleanRounds
  BY <1>23 DEF CleanRounds, CleanReturns
<1>24. ASSUME NEW yes \in BOOLEAN, CleanConfirm(yes) PROVE (ReportIsLast /\ QuietWhenAnswered)'
  BY <1>24 DEF CleanConfirm, CStep, CleanReturns
<1>25. CASE DiskPart
  BY <1>25 DEF DiskPart, CleanReturns
<1>26. ASSUME NEW d \in Disk, Plug(d) PROVE (ReportIsLast /\ QuietWhenAnswered)'
  BY <1>26 DEF Plug
<1>27. CASE UNCHANGED vars
  BY <1>27 DEF vars
<1> QED
  BY <1>1, <1>2, <1>3, <1>4, <1>5, <1>6, <1>7, <1>8, <1>9, <1>10, <1>11, <1>12, <1>13,
     <1>14, <1>15, <1>16, <1>17, <1>18, <1>19, <1>20, <1>21, <1>22, <1>23, <1>24, <1>25,
     <1>26, <1>27
     DEF Next, Caller, Worker, CleanDisk, User, Terminated

\* dd that ended well is the last to touch the card.
LEMMA WholeStep ==
  ASSUME TypeOK, JobInv, Turns, Listed, ReportIsLast, EndsWhole, [Next]_vars
  PROVE  EndsWhole'
<1> USE DiskAssumption DEF Turns, Listed, EndsWhole, Whole, Job!CallActive, Job!CallError,
        Job!CallClose, Job!StartWait, Job!ReceiveProgress, Job!ReceiveError,
        Job!ReceiveClosed, job, env, card, caller, struct, work, clean
<1>1. ASSUME NEW yes \in BOOLEAN, AskContinue(yes) PROVE EndsWhole'
  BY <1>1 DEF AskContinue, Go
<1>2. ASSUME NEW yes \in BOOLEAN, Confirm(yes) PROVE EndsWhole'
  BY <1>2 DEF Confirm, Go
<1>3. CASE ListRemovableDisk
  BY <1>3 DEF ListRemovableDisk
<1>4. ASSUME NEW d \in Disk, Choose(d) PROVE EndsWhole'
  BY <1>4 DEF Choose, Go
<1>5. CASE NotRecognised
  BY <1>5 DEF NotRecognised, Go
<1>6. CASE GetDDBinary
  BY <1>6 DEF GetDDBinary, Go
<1>7. CASE Spawn
  BY <1>7 DEF Spawn, Go
<1>8. CASE Receive
  BY <1>8 DEF Receive
<1>9. CASE WaitReturns
  BY <1>9 DEF WaitReturns, Go
<1>10. CASE TryWrite
  BY <1>10 DEF TryWrite, Step
<1>11. ASSUME NEW yes \in BOOLEAN, AskRetry(yes) PROVE EndsWhole'
  BY <1>11 DEF AskRetry, Step
<1>12. CASE StartDD
  BY <1>12 DEF StartDD, Step, TypeOK, CardsOK, CallerOK, WorkerOK
<1>13. CASE EndDD
  BY <1>13 DEF EndDD, Step, TypeOK, CardsOK, CallerOK, WorkerOK
<1>14. CASE DdEnded
  BY <1>14 DEF DdEnded, Step
<1>15. ASSUME NEW yes \in BOOLEAN, OfferClean(yes) PROVE EndsWhole'
  BY <1>15 DEF OfferClean, Step
<1>16. CASE Reconnect
  BY <1>16 DEF Reconnect, Step
<1>17. CASE Report
  BY <1>17, ErrorAssumption DEF Report, Step, TypeOK, CardsOK, CallerOK, WorkerOK
<1>18. CASE Unzip
  BY <1>18 DEF Unzip, Step
<1>19. CASE Close
  BY <1>19 DEF Close, Step
<1>20. CASE CleanLists
  BY <1>20 DEF CleanLists, CStep
<1>21. ASSUME NEW yes \in BOOLEAN, CleanAsks(yes) PROVE EndsWhole'
  BY <1>21 DEF CleanAsks, CStep
<1>22. ASSUME NEW d \in Disk, CleanPicks(d) PROVE EndsWhole'
  BY <1>22 DEF CleanPicks, CStep, TypeOK, CardsOK, CallerOK, WorkerOK
<1>23. CASE CleanRounds
  BY <1>23 DEF CleanRounds, CleanReturns
<1>24. ASSUME NEW yes \in BOOLEAN, CleanConfirm(yes) PROVE EndsWhole'
  BY <1>24 DEF CleanConfirm, CStep, CleanReturns
<1>25. CASE DiskPart
  BY <1>25 DEF DiskPart, CleanReturns
<1>26. ASSUME NEW d \in Disk, Plug(d) PROVE EndsWhole'
  BY <1>26 DEF Plug
<1>27. CASE UNCHANGED vars
  BY <1>27 DEF vars
<1> QED
  BY <1>1, <1>2, <1>3, <1>4, <1>5, <1>6, <1>7, <1>8, <1>9, <1>10, <1>11, <1>12, <1>13,
     <1>14, <1>15, <1>16, <1>17, <1>18, <1>19, <1>20, <1>21, <1>22, <1>23, <1>24, <1>25,
     <1>26, <1>27
     DEF Next, Caller, Worker, CleanDisk, User, Terminated

LEMMA Counted ==
    /\ 0 \in 0 .. DiskSelectionTries - 1 /\ 0 < WriteAttempts
    /\ \A n \in 0 .. DiskSelectionTries - 1 :
          n + 1 < DiskSelectionTries => n + 1 \in 0 .. DiskSelectionTries - 1
  BY TriesAssumption

\* Rounds and attempts are counted.
LEMMA BoundsStep ==
  ASSUME TypeOK, Turns, InBounds, [Next]_vars
  PROVE  InBounds'
<1> USE TriesAssumption DEF Turns, InBounds, TypeOK, CallerOK, WorkerOK, env, card, caller,
        struct, work, clean
<1>1. ASSUME NEW yes \in BOOLEAN, AskContinue(yes) PROVE InBounds'
  BY <1>1 DEF AskContinue, Go
<1>2. ASSUME NEW yes \in BOOLEAN, Confirm(yes) PROVE InBounds'
  BY <1>2 DEF Confirm, Go
<1>3. CASE ListRemovableDisk
  BY <1>3 DEF ListRemovableDisk
<1>4. ASSUME NEW d \in Disk, Choose(d) PROVE InBounds'
  BY <1>4 DEF Choose, Go
<1>5. CASE NotRecognised
  BY <1>5 DEF NotRecognised, Go
<1>6. CASE GetDDBinary
  BY <1>6 DEF GetDDBinary, Go
<1>7. CASE Spawn
  BY <1>7 DEF Spawn, Go
<1>8. CASE Receive
  BY <1>8 DEF Receive
<1>9. CASE WaitReturns
  BY <1>9 DEF WaitReturns, Go
<1>10. CASE TryWrite
  <2>1. wpc' \in {"ask", "start"} => tries' < WriteAttempts
    <3>1. UNCHANGED tries /\ (wpc' = "start" => tries = 0) /\ (wpc' = "ask" => tries < WriteAttempts)
      BY <1>10 DEF TryWrite, Step
    <3> HIDE DEF TypeOK, CallerOK, WorkerOK, InBounds
    <3> QED
      BY <3>1, Counted
  <2>2. wpc' # "dd" /\ UNCHANGED <<caller, clean>>
    BY <1>10 DEF TryWrite, Step
  <2> QED
    BY <2>1, <2>2
<1>11. ASSUME NEW yes \in BOOLEAN, AskRetry(yes) PROVE InBounds'
  BY <1>11 DEF AskRetry, Step
<1>12. CASE StartDD
  BY <1>12 DEF StartDD, Step
<1>13. CASE EndDD
  BY <1>13 DEF EndDD, Step
<1>14. CASE DdEnded
  BY <1>14 DEF DdEnded, Step
<1>15. ASSUME NEW yes \in BOOLEAN, OfferClean(yes) PROVE InBounds'
  BY <1>15 DEF OfferClean, Step
<1>16. CASE Reconnect
  BY <1>16 DEF Reconnect, Step
<1>17. CASE Report
  BY <1>17 DEF Report, Step
<1>18. CASE Unzip
  BY <1>18 DEF Unzip, Step
<1>19. CASE Close
  BY <1>19 DEF Close, Step
<1>20. CASE CleanLists
  BY <1>20 DEF CleanLists, CStep
<1>21. ASSUME NEW yes \in BOOLEAN, CleanAsks(yes) PROVE InBounds'
  BY <1>21 DEF CleanAsks, CStep
<1>22. ASSUME NEW d \in Disk, CleanPicks(d) PROVE InBounds'
  BY <1>22 DEF CleanPicks, CStep
<1>23. CASE CleanRounds
  BY <1>23 DEF CleanRounds, CleanReturns
<1>24. ASSUME NEW yes \in BOOLEAN, CleanConfirm(yes) PROVE InBounds'
  BY <1>24 DEF CleanConfirm, CStep, CleanReturns
<1>25. CASE DiskPart
  BY <1>25 DEF DiskPart, CleanReturns
<1>26. ASSUME NEW d \in Disk, Plug(d) PROVE InBounds'
  BY <1>26 DEF Plug
<1>27. CASE UNCHANGED vars
  BY <1>27 DEF vars
<1> QED
  BY <1>1, <1>2, <1>3, <1>4, <1>5, <1>6, <1>7, <1>8, <1>9, <1>10, <1>11, <1>12, <1>13,
     <1>14, <1>15, <1>16, <1>17, <1>18, <1>19, <1>20, <1>21, <1>22, <1>23, <1>24, <1>25,
     <1>26, <1>27
     DEF Next, Caller, Worker, CleanDisk, User, Terminated

\* Every variable keeps its type.
LEMMA CardsStep ==
  ASSUME TypeOK, [Next]_vars
  PROVE  CardsOK'
<1> USE DiskAssumption, TriesAssumption DEF TypeOK, CardsOK, env, card, caller, struct,
        work, clean
<1>1. ASSUME NEW yes \in BOOLEAN, AskContinue(yes) PROVE CardsOK'
  BY <1>1 DEF AskContinue, Go
<1>2. ASSUME NEW yes \in BOOLEAN, Confirm(yes) PROVE CardsOK'
  BY <1>2 DEF Confirm, Go
<1>3. CASE ListRemovableDisk
  BY <1>3 DEF ListRemovableDisk
<1>4. ASSUME NEW d \in Disk, Choose(d) PROVE CardsOK'
  BY <1>4 DEF Choose, Go
<1>5. CASE NotRecognised
  BY <1>5 DEF NotRecognised, Go
<1>6. CASE GetDDBinary
  BY <1>6 DEF GetDDBinary, Go
<1>7. CASE Spawn
  BY <1>7 DEF Spawn, Go
<1>8. CASE Receive
  BY <1>8 DEF Receive
<1>9. CASE WaitReturns
  BY <1>9 DEF WaitReturns, Go
<1>10. CASE TryWrite
  BY <1>10 DEF TryWrite, Step
<1>11. ASSUME NEW yes \in BOOLEAN, AskRetry(yes) PROVE CardsOK'
  BY <1>11 DEF AskRetry, Step
<1>12. CASE StartDD
  BY <1>12 DEF StartDD, Step
<1>13. CASE EndDD
  BY <1>13 DEF EndDD, Step
<1>14. CASE DdEnded
  BY <1>14 DEF DdEnded, Step
<1>15. ASSUME NEW yes \in BOOLEAN, OfferClean(yes) PROVE CardsOK'
  BY <1>15 DEF OfferClean, Step
<1>16. CASE Reconnect
  BY <1>16 DEF Reconnect, Step
<1>17. CASE Report
  BY <1>17 DEF Report, Step
<1>18. CASE Unzip
  BY <1>18 DEF Unzip, Step
<1>19. CASE Close
  BY <1>19 DEF Close, Step
<1>20. CASE CleanLists
  BY <1>20 DEF CleanLists, CStep
<1>21. ASSUME NEW yes \in BOOLEAN, CleanAsks(yes) PROVE CardsOK'
  BY <1>21 DEF CleanAsks, CStep
<1>22. ASSUME NEW d \in Disk, CleanPicks(d) PROVE CardsOK'
  BY <1>22 DEF CleanPicks, CStep
<1>23. CASE CleanRounds
  BY <1>23 DEF CleanRounds, CleanReturns
<1>24. ASSUME NEW yes \in BOOLEAN, CleanConfirm(yes) PROVE CardsOK'
  BY <1>24 DEF CleanConfirm, CStep, CleanReturns
<1>25. CASE DiskPart
  BY <1>25 DEF DiskPart, CleanReturns
<1>26. ASSUME NEW d \in Disk, Plug(d) PROVE CardsOK'
  BY <1>26 DEF Plug
<1>27. CASE UNCHANGED vars
  BY <1>27 DEF vars
<1> QED
  BY <1>1, <1>2, <1>3, <1>4, <1>5, <1>6, <1>7, <1>8, <1>9, <1>10, <1>11, <1>12, <1>13,
     <1>14, <1>15, <1>16, <1>17, <1>18, <1>19, <1>20, <1>21, <1>22, <1>23, <1>24, <1>25,
     <1>26, <1>27
     DEF Next, Caller, Worker, CleanDisk, User, Terminated

\* The rounds of the caller and of CleanDisk are bounded.
LEMMA CallerStep ==
  ASSUME TypeOK, JobInv, InBounds, [Next]_vars
  PROVE  CallerOK'
<1> USE TriesAssumption DEF TypeOK, CallerOK, InBounds, env, card, caller, struct, work, clean
<1>1. ASSUME NEW yes \in BOOLEAN, AskContinue(yes) PROVE CallerOK'
  <2>1. attempt' \in 0 .. DiskSelectionTries - 1
    <3>1. pc = "again" /\ attempt' \in {attempt, attempt + 1}
      BY <1>1 DEF AskContinue, Go
    <3>2. attempt \in 0 .. DiskSelectionTries - 1 /\ attempt + 1 < DiskSelectionTries
      BY <3>1
    <3> HIDE DEF TypeOK, CallerOK, InBounds
    <3> QED
      BY <3>1, <3>2, Counted
  <2>2. pc' \in {"list", "failed"}
    BY <1>1 DEF AskContinue, Go
  <2> QED
    BY <1>1, <2>1, <2>2 DEF AskContinue
<1>2. ASSUME NEW yes \in BOOLEAN, Confirm(yes) PROVE CallerOK'
  BY <1>2 DEF Confirm, Go
<1>3. CASE ListRemovableDisk
  BY <1>3 DEF ListRemovableDisk
<1>4. ASSUME NEW d \in Disk, Choose(d) PROVE CallerOK'
  BY <1>4 DEF Choose, Go
<1>5. CASE NotRecognised
  BY <1>5 DEF NotRecognised, Go
<1>6. CASE GetDDBinary
  BY <1>6 DEF GetDDBinary, Go
<1>7. CASE Spawn
  BY <1>7 DEF Spawn, Go
<1>8. CASE Receive
  BY <1>8 DEF Receive
<1>9. CASE WaitReturns
  <2>1. result \in {"nil", DdError, NotFlashed}
    BY <1>9 DEF WaitReturns, JobInv, Job!TypeOK, Job!ResultIsFirstError
  <2>2. err' = result /\ pc' \in {"done", "failed"}
    BY <1>9 DEF WaitReturns, Go
  <2> QED
    BY <1>9, <2>1, <2>2 DEF WaitReturns
<1>10. CASE TryWrite
  BY <1>10 DEF TryWrite, Step
<1>11. ASSUME NEW yes \in BOOLEAN, AskRetry(yes) PROVE CallerOK'
  BY <1>11 DEF AskRetry, Step
<1>12. CASE StartDD
  BY <1>12 DEF StartDD, Step
<1>13. CASE EndDD
  BY <1>13 DEF EndDD, Step
<1>14. CASE DdEnded
  BY <1>14 DEF DdEnded, Step
<1>15. ASSUME NEW yes \in BOOLEAN, OfferClean(yes) PROVE CallerOK'
  BY <1>15 DEF OfferClean, Step
<1>16. CASE Reconnect
  BY <1>16 DEF Reconnect, Step
<1>17. CASE Report
  BY <1>17 DEF Report, Step
<1>18. CASE Unzip
  BY <1>18 DEF Unzip, Step
<1>19. CASE Close
  BY <1>19 DEF Close, Step
<1>20. CASE CleanLists
  BY <1>20 DEF CleanLists, CStep
<1>21. ASSUME NEW yes \in BOOLEAN, CleanAsks(yes) PROVE CallerOK'
  <2>1. ctry' \in 0 .. DiskSelectionTries - 1
    <3>1. cpc = "again" /\ ctry' \in {ctry, ctry + 1}
      BY <1>21 DEF CleanAsks, CStep
    <3>2. ctry \in 0 .. DiskSelectionTries - 1 /\ ctry + 1 < DiskSelectionTries
      BY <3>1
    <3> HIDE DEF TypeOK, CallerOK, InBounds
    <3> QED
      BY <3>1, <3>2, Counted
  <2>2. cpc' \in {"list", "over"}
    BY <1>21 DEF CleanAsks, CStep
  <2> QED
    BY <1>21, <2>1, <2>2 DEF CleanAsks
<1>22. ASSUME NEW d \in Disk, CleanPicks(d) PROVE CallerOK'
  BY <1>22 DEF CleanPicks, CStep
<1>23. CASE CleanRounds
  <2>1. pc' \in {pc, "failed"} /\ err' \in {err, "clean"} /\ attempt' = attempt
    BY <1>23 DEF CleanRounds, CleanReturns
  <2>2. cpc' \in {"idle", "sure"} /\ cleaner' \in {cleaner, "none"}
    BY <1>23 DEF CleanRounds, CleanReturns
  <2>3. ctry' = 0 /\ last' = FALSE
    BY <1>23 DEF CleanRounds
  <2> QED
    BY <2>1, <2>2, <2>3, Counted
<1>24. ASSUME NEW yes \in BOOLEAN, CleanConfirm(yes) PROVE CallerOK'
  BY <1>24 DEF CleanConfirm, CStep, CleanReturns
<1>25. CASE DiskPart
  BY <1>25 DEF DiskPart, CleanReturns
<1>26. ASSUME NEW d \in Disk, Plug(d) PROVE CallerOK'
  BY <1>26 DEF Plug
<1>27. CASE UNCHANGED vars
  BY <1>27 DEF vars
<1> QED
  BY <1>1, <1>2, <1>3, <1>4, <1>5, <1>6, <1>7, <1>8, <1>9, <1>10, <1>11, <1>12, <1>13,
     <1>14, <1>15, <1>16, <1>17, <1>18, <1>19, <1>20, <1>21, <1>22, <1>23, <1>24, <1>25,
     <1>26, <1>27
     DEF Next, Caller, Worker, CleanDisk, User, Terminated

\* The attempts of the worker are bounded.
LEMMA WorkerStep ==
  ASSUME TypeOK, InBounds, [Next]_vars
  PROVE  WorkerOK'
<1> USE TriesAssumption DEF TypeOK, WorkerOK, InBounds, env, card, caller, struct, work, clean
<1>1. ASSUME NEW yes \in BOOLEAN, AskContinue(yes) PROVE WorkerOK'
  BY <1>1 DEF AskContinue, Go
<1>2. ASSUME NEW yes \in BOOLEAN, Confirm(yes) PROVE WorkerOK'
  BY <1>2 DEF Confirm, Go
<1>3. CASE ListRemovableDisk
  BY <1>3 DEF ListRemovableDisk
<1>4. ASSUME NEW d \in Disk, Choose(d) PROVE WorkerOK'
  BY <1>4 DEF Choose, Go
<1>5. CASE NotRecognised
  BY <1>5 DEF NotRecognised, Go
<1>6. CASE GetDDBinary
  BY <1>6 DEF GetDDBinary, Go
<1>7. CASE Spawn
  BY <1>7 DEF Spawn, Go
<1>8. CASE Receive
  BY <1>8 DEF Receive
<1>9. CASE WaitReturns
  BY <1>9 DEF WaitReturns, Go
<1>10. CASE TryWrite
  BY <1>10 DEF TryWrite, Step
<1>11. ASSUME NEW yes \in BOOLEAN, AskRetry(yes) PROVE WorkerOK'
  BY <1>11 DEF AskRetry, Step
<1>12. CASE StartDD
  BY <1>12 DEF StartDD, Step
<1>13. CASE EndDD
  BY <1>13 DEF EndDD, Step
<1>14. CASE DdEnded
  BY <1>14 DEF DdEnded, Step
<1>15. ASSUME NEW yes \in BOOLEAN, OfferClean(yes) PROVE WorkerOK'
  BY <1>15 DEF OfferClean, Step
<1>16. CASE Reconnect
  BY <1>16 DEF Reconnect, Step
<1>17. CASE Report
  BY <1>17 DEF Report, Step
<1>18. CASE Unzip
  BY <1>18 DEF Unzip, Step
<1>19. CASE Close
  BY <1>19 DEF Close, Step
<1>20. CASE CleanLists
  BY <1>20 DEF CleanLists, CStep
<1>21. ASSUME NEW yes \in BOOLEAN, CleanAsks(yes) PROVE WorkerOK'
  BY <1>21 DEF CleanAsks, CStep
<1>22. ASSUME NEW d \in Disk, CleanPicks(d) PROVE WorkerOK'
  BY <1>22 DEF CleanPicks, CStep
<1>23. CASE CleanRounds
  BY <1>23 DEF CleanRounds, CleanReturns
<1>24. ASSUME NEW yes \in BOOLEAN, CleanConfirm(yes) PROVE WorkerOK'
  BY <1>24 DEF CleanConfirm, CStep, CleanReturns
<1>25. CASE DiskPart
  BY <1>25 DEF DiskPart, CleanReturns
<1>26. ASSUME NEW d \in Disk, Plug(d) PROVE WorkerOK'
  BY <1>26 DEF Plug
<1>27. CASE UNCHANGED vars
  BY <1>27 DEF vars
<1> QED
  BY <1>1, <1>2, <1>3, <1>4, <1>5, <1>6, <1>7, <1>8, <1>9, <1>10, <1>11, <1>12, <1>13,
     <1>14, <1>15, <1>16, <1>17, <1>18, <1>19, <1>20, <1>21, <1>22, <1>23, <1>24, <1>25,
     <1>26, <1>27
     DEF Next, Caller, Worker, CleanDisk, User, Terminated

-----------------------------------------------------------------------------
LEMMA InitWinInv == Init => WinInv
<1> SUFFICES ASSUME Init PROVE WinInv
  OBVIOUS
<1> USE DEF Init
<1>1. CardsOK
  BY TriesAssumption DEF CardsOK
<1>2. CallerOK
  BY Counted DEF CallerOK
<1>3. WorkerOK
  BY TriesAssumption DEF WorkerOK
<1>4. JobInv
  BY DEF JobInv, Job!Init, Job!TypeOK, Job!NothingMissed, Job!ResultIsFirstError
<1>5. Turns /\ Listed /\ Agreed /\ InBounds
  BY DEF Turns, Listed, Agreed, InBounds
<1>6. ReportIsLast /\ QuietWhenAnswered
  BY DEF ReportIsLast, QuietWhenAnswered, Job!Init
<1>7. EndsWhole
  BY DEF EndsWhole, Whole, Job!Init
<1> QED
  BY <1>1, <1>2, <1>3, <1>4, <1>5, <1>6, <1>7 DEF WinInv, TypeOK, JobInv

LEMMA WinInvStep == WinInv /\ [Next]_vars => WinInv'
<1> SUFFICES ASSUME WinInv, [Next]_vars PROVE WinInv'
  OBVIOUS
<1> USE DEF WinInv
<1>1. JobInv'
  BY JobStep, JobInvStep
<1>2. TypeOK'
  BY <1>1, CardsStep, CallerStep, WorkerStep DEF TypeOK, JobInv
<1>3. InBounds' /\ Turns' /\ Listed' /\ Agreed'
  BY BoundsStep, TurnsStep, ListedStep, AgreedStep
<1>4. (ReportIsLast /\ QuietWhenAnswered)' /\ EndsWhole'
  BY ReportStep, WholeStep
<1> QED
  BY <1>1, <1>2, <1>3, <1>4

\* WinInv holds in every state, for any number of cards, rounds and attempts.
THEOREM WindowsInvariant == Spec => []WinInv
  BY InitWinInv, WinInvStep, PTL DEF Spec

\* Every variable of the Windows writer keeps its type (windows.WriteToDisk, CleanDisk).
THEOREM WindowsType == Spec => []TypeOK
<1>1. WinInv => TypeOK
  BY DEF WinInv
<1> QED
  BY WindowsInvariant, <1>1, PTL

\* When WriteToDisk's caller has its answer nobody writes, cleans or asks any more: the
\* worker reports after all it does (w_windows.go:253-257).
THEOREM WindowsIsQuiet == Spec => []QuietWhenAnswered
<1>1. WinInv => QuietWhenAnswered
  BY DEF WinInv
<1> QED
  BY WindowsInvariant, <1>1, PTL

-----------------------------------------------------------------------------
\* Only four steps change a card: the rest of a step's effects is no matter here.
LEMMA WhoWrites ==
  ASSUME [Next]_vars, content' # content
  PROVE  StartDD \/ EndDD \/ DiskPart \/ (Unzip /\ wpc = "unzip")
<1>1. CASE Caller
  BY <1>1 DEF Caller, AskContinue, Confirm, ListRemovableDisk, Choose, NotRecognised,
              GetDDBinary, Spawn, Receive, WaitReturns, card
<1>2. CASE Worker
  BY <1>2 DEF Worker, TryWrite, DdEnded, Reconnect, Report, Unzip, Step, Close, AskRetry,
              OfferClean, card
<1>3. CASE CleanDisk
  BY <1>3 DEF CleanDisk, CleanLists, CleanRounds, CleanAsks, CleanConfirm, CleanPicks, card
<1>4. CASE User \/ Terminated \/ UNCHANGED vars
  BY <1>4 DEF User, Plug, Terminated, vars, card
<1> QED
  BY <1>1, <1>2, <1>3, <1>4 DEF Next

\* A card is overwritten or cleaned only while it is the one selected last, and agreed to
\* or picked in CleanDisk; a Colibri's files go to the card that is N:.
THEOREM WindowsChangesChosen == Spec => OnlyChosenDisk
<1>1. ASSUME WinInv, [Next]_vars, NEW d \in Disk, content'[d] # content[d]
      PROVE  IF wpc = "unzip" THEN d = drive
             ELSE /\ d = mount /\ d \in mounts /\ d \in {agreed, picked}
                  /\ picked = NoDisk /\ requested # NoDisk => d = requested
  <2> USE <1>1, DiskAssumption DEF WinInv, TypeOK, CardsOK
  <2>1. CASE StartDD \/ EndDD
    <3>1. d = mount /\ wpc \in {"start", "dd"}
      BY <2>1 DEF StartDD, EndDD, Step
    <3>2. cpc # "pick" /\ cmd = "write"
      BY <3>1 DEF Turns, CallerOK
    <3> QED
      BY <3>1, <3>2 DEF Listed, Agreed
  <2>2. CASE DiskPart
    <3>1. cpc = "diskpart"
      BY <2>2 DEF DiskPart
    <3>2. content' = content \/ content' = [content EXCEPT ![mount] = "clean"]
      BY <2>2 DEF DiskPart, card
    <3>3. d = mount
      BY <3>2
    <3>4. wpc # "unzip"
      BY <3>1 DEF Turns, CallerOK
    <3> QED
      BY <3>1, <3>3, <3>4 DEF Listed, Agreed
  <2>3. CASE Unzip /\ wpc = "unzip"
    BY <2>3 DEF Unzip, Step
  <2> QED
    BY <2>1, <2>2, <2>3, WhoWrites
<1>2. WinInv /\ [Next]_vars =>
        [\A d \in Disk : content'[d] # content[d] =>
           IF wpc = "unzip" THEN d = drive
           ELSE /\ d = mount /\ d \in mounts /\ d \in {agreed, picked}
                /\ picked = NoDisk /\ requested # NoDisk => d = requested]_vars
  BY <1>1
<1> QED
  BY WindowsInvariant, <1>2, PTL DEF Spec, OnlyChosenDisk

-----------------------------------------------------------------------------
\* What the abstract writer's variables are in a write, and in a copy or a clean.
LEMMA Mapped ==
  ASSUME cmd' = cmd
  PROVE  /\ cmd # "write" /\ mount' = mount => UNCHANGED Checked!cvars
         /\ UNCHANGED <<content, mount, pc>> => UNCHANGED Checked!cvars
         /\ UNCHANGED <<content, mount>> /\ {pc, pc'} \cap {"done", "failed"} = {}
              => UNCHANGED Checked!cvars
BY DEF Checked!cvars

\* The steps of the caller: a selection, an answer, or nothing to the abstract writer.
LEMMA CallerIsChecked ==
  ASSUME WinInv, Caller
  PROVE  [Checked!Next]_(Checked!cvars)
<1> USE DEF Checked!Next, Checked!Select, Checked!Fail, Checked!Succeed, Checked!cvars
<1>0. cmd' = cmd
  BY DEF Caller, AskContinue, Confirm, ListRemovableDisk, Choose, NotRecognised, GetDDBinary,
         Spawn, Receive, WaitReturns, env
<1>1. CASE \E yes \in BOOLEAN : AskContinue(yes)
  BY <1>0, <1>1 DEF AskContinue, Go, card, struct
<1>2. ASSUME NEW yes \in BOOLEAN, Confirm(yes) PROVE [Checked!Next]_(Checked!cvars)
  <2>1. pc = "confirm" /\ UNCHANGED <<content, mount>> /\ pc' \in {"spawn", "done"}
    BY <1>2 DEF Confirm, Go, card
  <2>2. cmd = "write" /\ \A d \in Disk : content[d] = "old"
    BY <2>1 DEF WinInv, Turns, EndsWhole
  <2> QED
    BY <1>0, <2>1, <2>2
<1>3. CASE ListRemovableDisk
  BY <1>0, <1>3 DEF ListRemovableDisk, card
<1>4. ASSUME NEW d \in Disk, Choose(d) PROVE [Checked!Next]_(Checked!cvars)
  <2>1. pc = "choose" /\ pc' \in {"binary", "clean"} /\ mount' = d /\ content' = content
    BY <1>4 DEF Choose, Go, card
  <2>2. Checked!Select(d)
    BY <1>0, <2>1
  <2> QED
    BY <2>2
<1>5. CASE NotRecognised
  BY <1>0, <1>5 DEF NotRecognised, Go, card, struct
<1>6. CASE GetDDBinary
  BY <1>0, <1>6 DEF GetDDBinary, Go, card, struct
<1>7. CASE Spawn
  BY <1>0, <1>7 DEF Spawn, Go, card
<1>8. CASE Receive
  BY <1>0, <1>8 DEF Receive, card, caller, struct
<1>9. CASE WaitReturns
  <2>1. /\ pc = "wait" /\ pc' = IF result = "nil" THEN "done" ELSE "failed"
        /\ UNCHANGED <<content, mount>> /\ waiter = "returned"
    BY <1>9 DEF WaitReturns, Go, card, struct
  <2>2. cmd = "write" /\ result = "nil" => Whole
    BY <2>1 DEF WinInv, JobInv, Job!ResultIsFirstError, ReportIsLast, EndsWhole
  <2> QED
    BY <1>0, <2>1, <2>2 DEF Whole
<1> QED
  BY <1>1, <1>2, <1>3, <1>4, <1>5, <1>6, <1>7, <1>8, <1>9 DEF Caller

\* The steps of the worker: dd's two are progress on the selected card.
LEMMA WorkerIsChecked ==
  ASSUME WinInv, Worker
  PROVE  [Checked!Next]_(Checked!cvars)
<1>0. UNCHANGED <<cmd, mount, pc>>
  BY DEF Worker, TryWrite, StartDD, EndDD, DdEnded, Reconnect, Report, Unzip, Close, AskRetry,
         OfferClean, env, caller, struct
<1>1. CASE content' = content \/ cmd # "write"
  BY <1>0, <1>1, Mapped
<1>2. CASE content' # content /\ cmd = "write"
  <2>1. StartDD \/ EndDD
    <3>1. wpc \notin {"active", "unzip"}
      BY <1>2 DEF WinInv, Turns
    <3> QED
      BY <1>2, <3>1 DEF Worker, TryWrite, DdEnded, Reconnect, Report, Unzip, Step, Close,
                        AskRetry, OfferClean, card
  <2>2. mount \in inserted /\ wpc \in {"start", "dd"}
    BY <1>2, <2>1 DEF StartDD, EndDD, Step
  <2>3. \E c \in {"torn", "image", "clean"} : content' = [content EXCEPT ![mount] = c]
    BY <1>2, <2>1 DEF StartDD, EndDD
  <2>4. pc \notin {"done", "failed"}
    BY <2>2 DEF WinInv, QuietWhenAnswered
  <2>5. mount # NoDisk
    BY <2>2, DiskAssumption DEF WinInv, TypeOK, CardsOK
  <2> QED
    BY <1>0, <1>2, <2>3, <2>4, <2>5 DEF Checked!Next, Checked!Overwrite
<1> QED
  BY <1>1, <1>2

\* CleanDisk selects a card and wipes it; it is called in a write by the worker only.
LEMMA CleanIsChecked ==
  ASSUME WinInv, CleanDisk
  PROVE  [Checked!Next]_(Checked!cvars)
<1>0. /\ cmd' = cmd /\ cpc # "idle"
      /\ cmd = "write" => cleaner = "worker" /\ pc \notin {"done", "failed"}
  <2>1. cmd' = cmd /\ cpc # "idle"
    BY DEF CleanDisk, CleanLists, CleanRounds, CleanAsks, CleanConfirm, CleanPicks, DiskPart,
           CStep, env
  <2> QED
    BY <2>1 DEF WinInv, Turns, TypeOK, CallerOK, QuietWhenAnswered
<1>1. ASSUME NEW ok \in BOOLEAN, CleanReturns(ok), cmd = "write" PROVE pc' = pc
  BY <1>0, <1>1 DEF CleanReturns
<1>2. CASE CleanLists
  BY <1>0, <1>2, Mapped DEF CleanLists, caller, card
<1>3. CASE \E yes \in BOOLEAN : CleanAsks(yes)
  BY <1>0, <1>3, Mapped DEF CleanAsks, caller, card, struct
<1>4. ASSUME NEW d \in Disk, CleanPicks(d) PROVE [Checked!Next]_(Checked!cvars)
  <2>1. mount' = d /\ UNCHANGED <<content, pc>>
    BY <1>4 DEF CleanPicks, caller, card
  <2>2. Checked!Select(d)
    BY <1>0, <2>1 DEF Checked!Select
  <2> QED
    BY <2>2 DEF Checked!Next
<1>5. CASE CleanRounds
  BY <1>0, <1>1, <1>5, Mapped DEF CleanRounds, caller, card, struct
<1>6. CASE \E yes \in BOOLEAN : CleanConfirm(yes)
  BY <1>0, <1>1, <1>6, Mapped DEF CleanConfirm, caller, card
<1>7. CASE DiskPart
  <2>1. /\ mount' = mount /\ cpc = "diskpart" /\ (cmd = "write" => pc' = pc)
        /\ content' = content \/ content' = [content EXCEPT ![mount] = "clean"]
    BY <1>1, <1>7 DEF DiskPart, card, struct
  <2>2. mount # NoDisk
    BY <2>1 DEF WinInv, Listed
  <2>3. CASE content' = content \/ cmd # "write"
    BY <1>0, <2>1, <2>3, Mapped
  <2>4. CASE content' = [content EXCEPT ![mount] = "clean"] /\ cmd = "write"
    BY <1>0, <2>1, <2>2, <2>4 DEF Checked!Next, Checked!Overwrite
  <2> QED
    BY <2>1, <2>3, <2>4
<1> QED
  BY <1>2, <1>3, <1>4, <1>5, <1>6, <1>7 DEF CleanDisk

\* WriteToDisk on Windows is a CheckedWriter for any cards, rounds and attempts: a nil
\* answer means the whole image on the card selected last, or no card touched.
THEOREM WindowsImplementsChecked == Spec => ImplementsChecked
<1>1. Init => Checked!Init
  BY DEF Init, Checked!Init
<1>2. WinInv /\ [Next]_vars => [Checked!Next]_(Checked!cvars)
  <2> SUFFICES ASSUME WinInv, [Next]_vars PROVE [Checked!Next]_(Checked!cvars)
    OBVIOUS
  <2>1. CASE User \/ Terminated \/ UNCHANGED vars
    BY <2>1, Mapped DEF User, Plug, Terminated, vars, env, card, caller, struct
  <2> QED
    BY <2>1, CallerIsChecked, WorkerIsChecked, CleanIsChecked DEF Next
<1> QED
  BY WindowsInvariant, <1>1, <1>2, PTL DEF Spec, ImplementsChecked, Checked!Spec
=============================================================================
