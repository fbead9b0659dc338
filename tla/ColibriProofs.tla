---------------------------- MODULE ColibriProofs ----------------------------
(***************************************************************************)
(* What the Colibri flasher guarantees for any number of cards, however    *)
(* often one is pulled out.  CleanInv adds to the properties of Colibri    *)
(* how far CleanDisk's goroutine is while its caller waits, and what it    *)
(* has done by then to the card unless something failed.                   *)
(***************************************************************************)
EXTENDS Colibri, TLAPS

JobProofs == INSTANCE BackgroundJobProofs WITH
    Error <- {SudoError, MountError}, NoError <- "nil", Pending <- "pending"

JobInv == Job!TypeOK /\ Job!NothingMissed /\ Job!ResultIsFirstError

Before == {"prepare", "configure", "scp", "choose"}
Line == {"port", "ask", "knock", "login", "recovery", "setupdate", "update", "resetting", "stop"}

\* CleanDisk's goroutine lives from the choice of a card on, which write --flash leaves
\* out; a system runs its own commands only.
Goroutine ==
    /\ waiter = "away" <=> wpc = "none"
    /\ worker = "closed" <=> wpc = "ended"
    /\ wpc # "none" => dev \in Disk /\ pc \notin Before /\ cmd # "flashOnly"
    /\ cmd = "flashOnly" => pc \in Line \cup {"failed", "done", "panic"}
    /\ os = "linux" => wpc # "partition"
    /\ os = "darwin" => wpc \notin {"wipe", "fdisk", "mkfs", "mount"}

\* The caller goes on to the copy with a goroutine that has ended without an error, and
\* to the serial line with a copy that has ended.
CallerWaits ==
    /\ pc = "clean" => wpc # "none"
    /\ pc \in {"copy", "unmount"} => wpc = "ended" /\ first = "nil"
    /\ pc \in Before \cup {"clean"} => upc = "none"
    /\ upc = "unzip" => pc = "copy"
    /\ pc \in {"copy", "unmount"} => upc # "none"
    /\ pc \in Line /\ cmd # "flashOnly" => upc = "ended"
    /\ upc # "none" => wpc = "ended"

\* The card is at its place once it should be mounted, but for a macOS that failed unseen.
Mounted ==
    pc \in {"clean", "copy"} /\ wpc \in {"spin", "return", "ended"} /\ first = "nil" =>
        kernel = dev \/ (os = "darwin" /\ faults \cap {"command", "taken"} # {})

\* What a run without failures has achieved.
Unharmed ==
    faults = {} =>
        /\ pc \in {"scp", "choose", "clean", "copy"} => files = "whole"
        /\ pc \in {"clean", "copy"} /\ wpc \in {"mount", "spin", "return", "ended"} /\ first = "nil" =>
               card[dev].fs = "fat"
        /\ upc = "ended" => card[dev] = [fs |-> "fat", files |-> "image"]
        /\ pc \in Line /\ cmd # "flashOnly" => kernel # dev

CleanInv == TypeOK /\ JobInv /\ Goroutine /\ CallerWaits /\ Mounted /\ Unharmed

-----------------------------------------------------------------------------
\* The serial line is talked to at the end, and nothing else changes.
Talk == Update \/ Cable \/ Reset \/ Board \/ BoardStops \/ Terminated \/ UNCHANGED vars

LEMMA TalkStep ==
  ASSUME Talk
  PROVE  /\ UNCHANGED <<host, store, cmd, files, dev, clean, upc, job, faults>>
         /\ pc' = pc \/ (pc \in Line /\ pc' \in Line \cup {"failed", "done", "panic"})
<1> USE DEF alone, host, store, clean, job
<1>1. CASE Update
  BY <1>1 DEF Update, OpenPort, AskReset, Knock, RebootBoard, BootInRecovery, SendCommand,
              Resetting, Done, Go, Line
<1>2. CASE Cable \/ Reset \/ Board \/ BoardStops \/ Terminated \/ UNCHANGED vars
  BY <1>2 DEF Cable, Reset, Board, BoardBoots, BoardStops, BoardUpdates, Terminated, vars, caller
<1> QED
  BY <1>1, <1>2 DEF Talk

\* What the board, the line and its history are while they change, and that they change in
\* no other step.
LEMMA TalkTypes == Talk /\ TalkOK => TalkOK'
<1> SUFFICES ASSUME Talk, TalkOK PROVE TalkOK'
  OBVIOUS
<1> USE DEF TalkOK, talk, Says, alone
<1>1. CASE OpenPort \/ BootInRecovery \/ Resetting \/ Done \/ Terminated \/ UNCHANGED vars
  BY <1>1 DEF OpenPort, BootInRecovery, Resetting, Done, Terminated, vars
<1>2. ASSUME NEW yes \in BOOLEAN, AskReset(yes) PROVE TalkOK'
  BY <1>2 DEF AskReset
<1>3. CASE Knock
  BY <1>3 DEF Knock
<1>4. CASE RebootBoard
  BY <1>4 DEF RebootBoard
<1>5. CASE SendCommand
  BY <1>5 DEF SendCommand
<1>6. CASE Cable
  BY <1>6 DEF Cable
<1>7. CASE Reset \/ BoardBoots
  BY <1>7 DEF Reset, BoardBoots
<1>8. CASE BoardStops
  BY <1>8 DEF BoardStops
<1>9. CASE BoardUpdates
  BY <1>9 DEF BoardUpdates
<1> QED
  BY <1>1, <1>2, <1>3, <1>4, <1>5, <1>6, <1>7, <1>8, <1>9 DEF Talk, Update, Board

LEMMA TalkLeft == [Next]_vars => Talk \/ UNCHANGED talk
  BY DEF Next, Files, Prepare, ConfigureImage, ScpFrom, NoCard, Choose, Cleaner, CleanStarts, Prompt,
         SudoFails, Exec, PartitionDisk, Mount, Stop, Return, Card, Receive, CleanReturns, Unzip,
         CopyReturns, Unmount, Pull, Talk

\* Every step of the flasher is a step of the job's channels, or leaves them alone.
LEMMA JobStep ==
  ASSUME TypeOK, [Next]_vars
  PROVE  [Job!Next]_(Job!vars)
<1> USE DEF Job!Next, Job!Worker, Job!Waiter, Job!vars, job, host, store, caller, clean
<1>1. ASSUME NEW d \in Disk, Pull(d) PROVE [Job!Next]_(Job!vars)
  BY <1>1 DEF Pull
<1>2. CASE Prepare
  BY <1>2 DEF Prepare, Go
<1>3. CASE ConfigureImage
  BY <1>3 DEF ConfigureImage, Go
<1>4. CASE ScpFrom
  BY <1>4 DEF ScpFrom, Go
<1>5. CASE NoCard
  BY <1>5 DEF NoCard, Go
<1>6. ASSUME NEW d \in Disk, Choose(d) PROVE [Job!Next]_(Job!vars)
  BY <1>6 DEF Choose, Go
<1>7. CASE Receive
  BY <1>7 DEF Receive
<1>8. CASE CleanReturns
  BY <1>8 DEF CleanReturns, Go
<1>9. CASE Unzip
  BY <1>9 DEF Unzip
<1>10. CASE CopyReturns
  BY <1>10 DEF CopyReturns, Go
<1>11. CASE Unmount
  BY <1>11 DEF Unmount, Go
<1>12. CASE CleanStarts
  BY <1>12 DEF CleanStarts, Step
<1>13. CASE Prompt
  BY <1>13 DEF Prompt
<1>14. ASSUME NEW s \in Stage, SudoFails(s) PROVE [Job!Next]_(Job!vars)
  BY <1>14 DEF SudoFails, Step, After, Stage
<1>15. ASSUME NEW s \in Stage, Exec(s) PROVE [Job!Next]_(Job!vars)
  BY <1>15 DEF Exec, Step, After, Formatted, Stage
<1>16. CASE PartitionDisk
  BY <1>16 DEF PartitionDisk, Step, After, Formatted
<1>17. CASE Mount
  BY <1>17 DEF Mount, Step
<1>18. CASE Stop
  BY <1>18 DEF Stop, Step
<1>19. CASE Return
  BY <1>19 DEF Return, Step
<1>20. CASE Talk
  BY <1>20, TalkStep
<1> QED
  BY <1>1, <1>2, <1>3, <1>4, <1>5, <1>6, <1>7, <1>8, <1>9, <1>10, <1>11, <1>12, <1>13,
     <1>14, <1>15, <1>16, <1>17, <1>18, <1>19, <1>20
     DEF Next, Files, Cleaner, Card, Talk

\* The job keeps what BackgroundJobProofs shows of it.
LEMMA JobInvStep == JobInv /\ [Job!Next]_(Job!vars) => JobInv'
<1> SUFFICES ASSUME JobInv, [Job!Next]_(Job!vars) PROVE JobInv'
  OBVIOUS
<1>1. JobProofs!IInv
  BY DEF JobInv, JobProofs!IInv, JobProofs!TypeOK, Job!TypeOK, JobProofs!NothingMissed,
         Job!NothingMissed, JobProofs!ResultIsFirstError, Job!ResultIsFirstError
<1>2. JobProofs!ErrorAssumption
  BY ErrorAssumption DEF JobProofs!ErrorAssumption
<1>3. [JobProofs!Next]_(JobProofs!vars)
  BY DEF
    Job!Next, Job!Worker, Job!Waiter, Job!vars, Job!CallActive, Job!CallError, Job!CallClose,
    Job!StartWait, Job!ReceiveProgress, Job!ReceiveError, Job!ReceiveClosed,
    JobProofs!Next, JobProofs!Worker, JobProofs!Waiter, JobProofs!vars, JobProofs!CallActive,
    JobProofs!CallError, JobProofs!CallClose, JobProofs!StartWait, JobProofs!ReceiveProgress,
    JobProofs!ReceiveError, JobProofs!ReceiveClosed
<1>4. JobProofs!IInv'
  BY <1>1, <1>2, <1>3, JobProofs!NextPreserves
<1> QED
  BY <1>4 DEF JobInv, JobProofs!IInv, JobProofs!TypeOK, Job!TypeOK, JobProofs!NothingMissed,
              Job!NothingMissed, JobProofs!ResultIsFirstError, Job!ResultIsFirstError

\* Every variable keeps its type.
LEMMA HostStep ==
  ASSUME TypeOK, [Next]_vars
  PROVE  HostOK'
<1> USE DiskAssumption DEF TypeOK, HostOK, ProgramOK, host, store, caller, clean
<1>1. ASSUME NEW d \in Disk, Pull(d) PROVE HostOK'
  BY <1>1 DEF Pull
<1>2. CASE Prepare
  BY <1>2 DEF Prepare, Go
<1>3. CASE ConfigureImage
  BY <1>3 DEF ConfigureImage, Go
<1>4. CASE ScpFrom
  BY <1>4 DEF ScpFrom, Go
<1>5. CASE NoCard
  BY <1>5 DEF NoCard, Go
<1>6. ASSUME NEW d \in Disk, Choose(d) PROVE HostOK'
  BY <1>6 DEF Choose, Go
<1>7. CASE Receive
  BY <1>7 DEF Receive
<1>8. CASE CleanReturns
  BY <1>8 DEF CleanReturns, Go
<1>9. CASE Unzip
  BY <1>9 DEF Unzip
<1>10. CASE CopyReturns
  BY <1>10 DEF CopyReturns, Go
<1>11. CASE Unmount
  BY <1>11 DEF Unmount, Go
<1>12. CASE CleanStarts
  BY <1>12 DEF CleanStarts, Step
<1>13. CASE Prompt
  BY <1>13 DEF Prompt
<1>14. ASSUME NEW s \in Stage, SudoFails(s) PROVE HostOK'
  BY <1>14 DEF SudoFails, Step, After, Stage
<1>15. ASSUME NEW s \in Stage, Exec(s) PROVE HostOK'
  <2>1. card' = card \/ \E c \in [fs : {"none", "fat"}, files : {"none"}] : card' = [card EXCEPT ![dev] = c]
    BY <1>15 DEF Exec, Formatted
  <2>2. UNCHANGED <<host, kernel>> /\ faults' \in {faults, faults \cup {"command"}}
    BY <1>15 DEF Exec
  <2>3. card' \in [Disk -> [fs : {"old", "none", "fat"}, files : {"none", "part", "image"}]]
    BY <2>1
  <2> QED
    BY <2>2, <2>3
<1>16. CASE PartitionDisk
  <2>1. card' = card \/ \E c \in [fs : {"none", "fat"}, files : {"none"}] : card' = [card EXCEPT ![dev] = c]
    BY <1>16 DEF PartitionDisk, Formatted
  <2>2. /\ UNCHANGED host /\ kernel' \in {kernel, dev, NoDisk}
        /\ faults' \in {faults, faults \cup {"command"}, faults \cup {"taken"}}
    BY <1>16 DEF PartitionDisk
  <2>3. card' \in [Disk -> [fs : {"old", "none", "fat"}, files : {"none", "part", "image"}]]
    BY <2>1
  <2>4. dev \in Disk \cup {NoDisk}
    OBVIOUS
  <2> QED
    BY <2>2, <2>3, <2>4
<1>17. CASE Mount
  BY <1>17 DEF Mount, Step
<1>18. CASE Stop
  BY <1>18 DEF Stop, Step
<1>19. CASE Return
  BY <1>19 DEF Return, Step
<1>20. CASE Talk
  BY <1>20, TalkStep
<1> QED
  BY <1>1, <1>2, <1>3, <1>4, <1>5, <1>6, <1>7, <1>8, <1>9, <1>10, <1>11, <1>12, <1>13,
     <1>14, <1>15, <1>16, <1>17, <1>18, <1>19, <1>20
     DEF Next, Files, Cleaner, Card, Talk


LEMMA ProgramStep ==
  ASSUME TypeOK, [Next]_vars
  PROVE  ProgramOK'
<1> USE DiskAssumption DEF TypeOK, HostOK, ProgramOK, Line, Stage, host, store, caller, clean
<1>1. ASSUME NEW d \in Disk, Pull(d) PROVE ProgramOK'
  BY <1>1 DEF Pull
<1>2. CASE Prepare
  BY <1>2 DEF Prepare, Go
<1>3. CASE ConfigureImage
  BY <1>3 DEF ConfigureImage, Go
<1>4. CASE ScpFrom
  BY <1>4 DEF ScpFrom, Go
<1>5. CASE NoCard
  BY <1>5 DEF NoCard, Go
<1>6. ASSUME NEW d \in Disk, Choose(d) PROVE ProgramOK'
  BY <1>6 DEF Choose, Go
<1>7. CASE Receive
  BY <1>7 DEF Receive
<1>8. CASE CleanReturns
  BY <1>8 DEF CleanReturns, Go
<1>9. CASE Unzip
  BY <1>9 DEF Unzip
<1>10. CASE CopyReturns
  BY <1>10 DEF CopyReturns, Go
<1>11. CASE Unmount
  BY <1>11 DEF Unmount, Go
<1>12. CASE CleanStarts
  BY <1>12 DEF CleanStarts, Step
<1>13. CASE Prompt
  BY <1>13 DEF Prompt
<1>14. ASSUME NEW s \in Stage, SudoFails(s) PROVE ProgramOK'
  BY <1>14 DEF SudoFails, Step, After, Stage
<1>15. ASSUME NEW s \in Stage, Exec(s) PROVE ProgramOK'
  BY <1>15 DEF Exec, Step, After, Formatted, Stage
<1>16. CASE PartitionDisk
  BY <1>16 DEF PartitionDisk, Step, After, Formatted
<1>17. CASE Mount
  BY <1>17 DEF Mount, Step
<1>18. CASE Stop
  BY <1>18 DEF Stop, Step
<1>19. CASE Return
  BY <1>19 DEF Return, Step
<1>20. CASE Talk
  BY <1>20, TalkStep
<1> QED
  BY <1>1, <1>2, <1>3, <1>4, <1>5, <1>6, <1>7, <1>8, <1>9, <1>10, <1>11, <1>12, <1>13,
     <1>14, <1>15, <1>16, <1>17, <1>18, <1>19, <1>20
     DEF Next, Files, Cleaner, Card, Talk

\* The goroutine starts with the choice of a card, and ends with its close.
LEMMA GoroutineStep ==
  ASSUME TypeOK, JobInv, Goroutine, [Next]_vars
  PROVE  Goroutine'
<1> USE DEF Goroutine, Before, Line, Job!CallActive, Job!CallError, Job!CallClose,
        Job!StartWait, Job!ReceiveProgress, Job!ReceiveError, Job!ReceiveClosed, job, host,
        store, caller, clean
<1>1. ASSUME NEW d \in Disk, Pull(d) PROVE Goroutine'
  BY <1>1 DEF Pull
<1>2. CASE Prepare
  BY <1>2 DEF Prepare, Go
<1>3. CASE ConfigureImage
  BY <1>3 DEF ConfigureImage, Go
<1>4. CASE ScpFrom
  BY <1>4 DEF ScpFrom, Go
<1>5. CASE NoCard
  BY <1>5 DEF NoCard, Go
<1>6. ASSUME NEW d \in Disk, Choose(d) PROVE Goroutine'
  BY <1>6 DEF Choose, Go, TypeOK, HostOK, ProgramOK
<1>7. CASE Receive
  BY <1>7 DEF Receive
<1>8. CASE CleanReturns
  BY <1>8 DEF CleanReturns, Go, TypeOK, HostOK, ProgramOK
<1>9. CASE Unzip
  BY <1>9 DEF Unzip
<1>10. CASE CopyReturns
  BY <1>10 DEF CopyReturns, Go
<1>11. CASE Unmount
  BY <1>11 DEF Unmount, Go
<1>12. CASE CleanStarts
  BY <1>12 DEF CleanStarts, Step
<1>13. CASE Prompt
  BY <1>13 DEF Prompt
<1>14. ASSUME NEW s \in Stage, SudoFails(s) PROVE Goroutine'
  BY <1>14 DEF SudoFails, Step, After, Stage
<1>15. ASSUME NEW s \in Stage, Exec(s) PROVE Goroutine'
  BY <1>15 DEF Exec, Step, After, Formatted, Stage
<1>16. CASE PartitionDisk
  BY <1>16 DEF PartitionDisk, Step, After, Formatted
<1>17. CASE Mount
  BY <1>17 DEF Mount, Step
<1>18. CASE Stop
  BY <1>18 DEF Stop, Step
<1>19. CASE Return
  BY <1>19 DEF Return, Step
<1>20. CASE Talk
  BY <1>20, TalkStep
<1> QED
  BY <1>1, <1>2, <1>3, <1>4, <1>5, <1>6, <1>7, <1>8, <1>9, <1>10, <1>11, <1>12, <1>13,
     <1>14, <1>15, <1>16, <1>17, <1>18, <1>19, <1>20
     DEF Next, Files, Cleaner, Card, Talk

\* The caller goes on when the one it waits for has ended.
LEMMA CallerStep ==
  ASSUME TypeOK, JobInv, Goroutine, CallerWaits, [Next]_vars
  PROVE  CallerWaits'
<1> USE DEF Goroutine, CallerWaits, Before, Line, Job!CallActive, Job!CallError,
        Job!CallClose, Job!StartWait, Job!ReceiveProgress, Job!ReceiveError,
        Job!ReceiveClosed, job, host, store, caller, clean
<1>1. ASSUME NEW d \in Disk, Pull(d) PROVE CallerWaits'
  BY <1>1 DEF Pull
<1>2. CASE Prepare
  BY <1>2 DEF Prepare, Go
<1>3. CASE ConfigureImage
  BY <1>3 DEF ConfigureImage, Go
<1>4. CASE ScpFrom
  BY <1>4 DEF ScpFrom, Go
<1>5. CASE NoCard
  BY <1>5 DEF NoCard, Go
<1>6. ASSUME NEW d \in Disk, Choose(d) PROVE CallerWaits'
  BY <1>6 DEF Choose, Go
<1>7. CASE Receive
  BY <1>7 DEF Receive
<1>8. CASE CleanReturns
  <2>1. result = "nil" => first = "nil" /\ worker = "closed"
    BY <1>8 DEF CleanReturns, JobInv, Job!ResultIsFirstError
  <2> QED
    BY <1>8, <2>1 DEF CleanReturns, Go
<1>9. CASE Unzip
  BY <1>9 DEF Unzip
<1>10. CASE CopyReturns
  BY <1>10 DEF CopyReturns, Go
<1>11. CASE Unmount
  BY <1>11 DEF Unmount, Go, TypeOK, HostOK, ProgramOK
<1>12. CASE CleanStarts
  BY <1>12 DEF CleanStarts, Step
<1>13. CASE Prompt
  BY <1>13 DEF Prompt
<1>14. ASSUME NEW s \in Stage, SudoFails(s) PROVE CallerWaits'
  BY <1>14 DEF SudoFails, Step, After, Stage
<1>15. ASSUME NEW s \in Stage, Exec(s) PROVE CallerWaits'
  BY <1>15 DEF Exec, Step, After, Formatted, Stage
<1>16. CASE PartitionDisk
  BY <1>16 DEF PartitionDisk, Step, After, Formatted
<1>17. CASE Mount
  BY <1>17 DEF Mount, Step
<1>18. CASE Stop
  BY <1>18 DEF Stop, Step
<1>19. CASE Return
  BY <1>19 DEF Return, Step
<1>20. CASE Talk
  BY <1>20, TalkStep
<1> QED
  BY <1>1, <1>2, <1>3, <1>4, <1>5, <1>6, <1>7, <1>8, <1>9, <1>10, <1>11, <1>12, <1>13,
     <1>14, <1>15, <1>16, <1>17, <1>18, <1>19, <1>20
     DEF Next, Files, Cleaner, Card, Talk

\* Linux ends without an error only by a mount; macOS does not look.
LEMMA MountedStep ==
  ASSUME TypeOK, JobInv, Goroutine, CallerWaits, Mounted, [Next]_vars
  PROVE  Mounted'
<1> USE ErrorAssumption DEF Goroutine, CallerWaits, Mounted, Before, Line, Job!CallActive,
        Job!CallError, Job!CallClose, Job!StartWait, Job!ReceiveProgress, Job!ReceiveError,
        Job!ReceiveClosed, job, host, store, caller, clean
<1>1. ASSUME NEW d \in Disk, Pull(d) PROVE Mounted'
  BY <1>1 DEF Pull
<1>2. CASE Prepare
  BY <1>2 DEF Prepare, Go
<1>3. CASE ConfigureImage
  BY <1>3 DEF ConfigureImage, Go
<1>4. CASE ScpFrom
  BY <1>4 DEF ScpFrom, Go
<1>5. CASE NoCard
  BY <1>5 DEF NoCard, Go
<1>6. ASSUME NEW d \in Disk, Choose(d) PROVE Mounted'
  BY <1>6 DEF Choose, Go
<1>7. CASE Receive
  BY <1>7 DEF Receive
<1>8. CASE CleanReturns
  BY <1>8 DEF CleanReturns, Go
<1>9. CASE Unzip
  BY <1>9 DEF Unzip
<1>10. CASE CopyReturns
  BY <1>10 DEF CopyReturns, Go
<1>11. CASE Unmount
  BY <1>11 DEF Unmount, Go
<1>12. CASE CleanStarts
  BY <1>12 DEF CleanStarts, Step
<1>13. CASE Prompt
  BY <1>13 DEF Prompt
<1>14. ASSUME NEW s \in Stage, SudoFails(s) PROVE Mounted'
  BY <1>14 DEF SudoFails, Step, After, Stage
<1>15. ASSUME NEW s \in Stage, Exec(s) PROVE Mounted'
  BY <1>15 DEF Exec, Step, After, Formatted, Stage
<1>16. CASE PartitionDisk
  <2>1. wpc' = "spin" /\ wpc = "partition" /\ UNCHANGED <<os, pc, dev, first>>
    BY <1>16 DEF PartitionDisk, Step, After
  <2>2. kernel' = dev \/ "command" \in faults' \/ "taken" \in faults'
    BY <1>16 DEF PartitionDisk
  <2>3. os = "darwin"
    BY <2>1 DEF TypeOK, HostOK
  <2> QED
    BY <2>1, <2>2, <2>3
<1>17. CASE Mount
  BY <1>17 DEF Mount, Step
<1>18. CASE Stop
  BY <1>18 DEF Stop, Step
<1>19. CASE Return
  BY <1>19 DEF Return, Step
<1>20. CASE Talk
  BY <1>20, TalkStep
<1> QED
  BY <1>1, <1>2, <1>3, <1>4, <1>5, <1>6, <1>7, <1>8, <1>9, <1>10, <1>11, <1>12, <1>13,
     <1>14, <1>15, <1>16, <1>17, <1>18, <1>19, <1>20
     DEF Next, Files, Cleaner, Card, Talk

\* A run in which nothing failed makes a whole card.
LEMMA UnharmedStep ==
  ASSUME TypeOK, JobInv, Goroutine, CallerWaits, Mounted, Unharmed, [Next]_vars
  PROVE  Unharmed'
<1> USE DiskAssumption, ErrorAssumption DEF Goroutine, CallerWaits, Mounted, Unharmed,
        Before, Line, Job!CallActive, Job!CallError, Job!CallClose, Job!StartWait,
        Job!ReceiveProgress, Job!ReceiveError, Job!ReceiveClosed, job, host, store, caller,
        clean
<1>1. ASSUME NEW d \in Disk, Pull(d) PROVE Unharmed'
  BY <1>1 DEF Pull
<1>2. CASE Prepare
  BY <1>2 DEF Prepare, Go
<1>3. CASE ConfigureImage
  BY <1>3 DEF ConfigureImage, Go
<1>4. CASE ScpFrom
  BY <1>4 DEF ScpFrom, Go
<1>5. CASE NoCard
  BY <1>5 DEF NoCard, Go
<1>6. ASSUME NEW d \in Disk, Choose(d) PROVE Unharmed'
  BY <1>6 DEF Choose, Go, TypeOK, HostOK, ProgramOK
<1>7. CASE Receive
  BY <1>7 DEF Receive
<1>8. CASE CleanReturns
  BY <1>8 DEF CleanReturns, Go
<1>9. CASE Unzip
  BY <1>9 DEF Unzip, TypeOK, HostOK, ProgramOK
<1>10. CASE CopyReturns
  BY <1>10 DEF CopyReturns, Go
<1>11. CASE Unmount
  BY <1>11 DEF Unmount, Go, TypeOK, HostOK, ProgramOK
<1>12. CASE CleanStarts
  BY <1>12 DEF CleanStarts, Step
<1>13. CASE Prompt
  BY <1>13 DEF Prompt
<1>14. ASSUME NEW s \in Stage, SudoFails(s) PROVE Unharmed'
  BY <1>14 DEF SudoFails, Step, After, Stage
<1>15. ASSUME NEW s \in Stage, Exec(s) PROVE Unharmed'
  BY <1>15 DEF Exec, Step, After, Formatted, Stage, TypeOK, HostOK, ProgramOK
<1>16. CASE PartitionDisk
  BY <1>16 DEF PartitionDisk, Step, After, Formatted, TypeOK, HostOK, ProgramOK
<1>17. CASE Mount
  BY <1>17 DEF Mount, Step
<1>18. CASE Stop
  BY <1>18 DEF Stop, Step
<1>19. CASE Return
  BY <1>19 DEF Return, Step
<1>20. CASE Talk
  BY <1>20, TalkStep
<1> QED
  BY <1>1, <1>2, <1>3, <1>4, <1>5, <1>6, <1>7, <1>8, <1>9, <1>10, <1>11, <1>12, <1>13,
     <1>14, <1>15, <1>16, <1>17, <1>18, <1>19, <1>20
     DEF Next, Files, Cleaner, Card, Talk

-----------------------------------------------------------------------------
LEMMA InitCleanInv == Init => CleanInv
<1> SUFFICES ASSUME Init PROVE CleanInv
  OBVIOUS
<1> USE DEF Init, Job!Init
<1>1. HostOK /\ ProgramOK
  BY DiskAssumption DEF HostOK, ProgramOK
<1>0. TalkOK
  BY DEF TalkOK
<1>2. JobInv
  BY DEF JobInv, Job!TypeOK, Job!NothingMissed, Job!ResultIsFirstError
<1>3. Goroutine /\ CallerWaits /\ Mounted
  BY DEF Goroutine, CallerWaits, Mounted, Before, Line
<1>4. Unharmed
  BY DEF Unharmed, Line
<1> QED
  BY <1>0, <1>1, <1>2, <1>3, <1>4 DEF CleanInv, TypeOK, JobInv

LEMMA CleanInvStep == CleanInv /\ [Next]_vars => CleanInv'
<1> SUFFICES ASSUME CleanInv, [Next]_vars PROVE CleanInv'
  OBVIOUS
<1> USE DEF CleanInv
<1>1. JobInv'
  BY JobStep, JobInvStep
<1>2. TypeOK'
  <2>1. TalkOK'
    BY TalkTypes, TalkLeft DEF TypeOK, TalkOK, talk
  <2> QED
    BY <1>1, <2>1, HostStep, ProgramStep DEF TypeOK, JobInv
<1>3. Goroutine' /\ CallerWaits'
  BY GoroutineStep, CallerStep
<1>4. Mounted' /\ Unharmed'
  BY MountedStep, UnharmedStep
<1> QED
  BY <1>1, <1>2, <1>3, <1>4

\* CleanInv holds in every state, for any number of cards and pulls.
THEOREM ColibriInvariant == Spec => []CleanInv
  BY InitCleanInv, CleanInvStep, PTL DEF Spec

\* Every variable of the Colibri flasher keeps its type.
THEOREM ColibriType == Spec => []TypeOK
<1>1. CleanInv => TypeOK
  BY DEF CleanInv
<1> QED
  BY ColibriInvariant, <1>1, PTL

\* No file is copied before CleanDisk's goroutine has ended without an error, and then to
\* the card chosen, but for a macOS whose diskutil failed unseen (w_linux.go 163-173).
THEOREM CopyWaitsForClean == Spec => []CopyAfterClean
<1>1. CleanInv => CopyAfterClean
  BY DEF CleanInv, CopyAfterClean, CallerWaits, Mounted
<1> QED
  BY ColibriInvariant, <1>1, PTL

\* "SD card prepared" is said of a whole card that is no longer mounted, unless something
\* failed that nobody saw (colibri.go 161-178).
THEOREM PreparedIsWhole == Spec => []PreparedCardIsWhole
<1>1. CleanInv => PreparedCardIsWhole
  BY DEF CleanInv, PreparedCardIsWhole, CallerWaits, Unharmed, Line
<1> QED
  BY ColibriInvariant, <1>1, PTL
=============================================================================
