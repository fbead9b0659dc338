-------------------------------- MODULE Colibri --------------------------------
(***************************************************************************)
(* The Colibri flasher on Linux and macOS: prepare the update files in the *)
(* virtual machine, format an SD card and unzip them onto it (CopyToDisk   *)
(* with CleanDisk), and then talk to the board over a serial line until it *)
(* has updated itself from that card.                                      *)
(*                                                                         *)
(* The goroutine of CleanDisk goes on after it has reported an error, and  *)
(* its channels are modelled in full.  The other jobs are reduced to their *)
(* outcome.                                                                *)
(*                                                                         *)
(* A command run by sudo fails without an error, unless sudo cannot be     *)
(* started; the failures nobody sees are collected in faults.  What is     *)
(* written to the serial line arrives while the line is up; an error of it *)
(* ends the flasher in bootInRecovery alone and is only logged elsewhere.  *)
(***************************************************************************)
EXTENDS Naturals

CONSTANTS
    Disk,         \* device names of removable disks
    NoDisk,       \* no disk
    SudoError,    \* the error of a sudo process that cannot start
    MountError,   \* "Can't mount"
    MaxPulls      \* bound: how often the user pulls a card out

ASSUME DiskAssumption == NoDisk \notin Disk /\ MaxPulls \in Nat
ASSUME ErrorAssumption == {SudoError, MountError} \cap {"nil", "pending"} = {}

VARIABLES
    \* the host and its user
    os,         \* "linux" or "darwin"
    inserted,   \* the cards present
    card,       \* of each card: its file system, and the files on it
    kernel,     \* the card mounted at /media/KERNEL or /Volumes/KERNEL
    pulls,
    \* the caller
    cmd,        \* the command: flash, write, or write --flash
    pc,
    files,      \* the update files in the temporary directory
    dev,        \* mount: the card chosen
    \* the goroutines
    wpc, prompts,   \* of CleanDisk; the sends of its password prompt
    upc,            \* of CopyToDisk
    worker, sending, waiter, spinEn, result, first,   \* CleanDisk's job
    faults,     \* history: what failed unseen
    \* the serial line and the board
    line,       \* "up" or "down"
    heard,      \* the last text of the board that is looked for, if it came in one piece
    asked,      \* the user has a reset button and is asked to press it
    board,      \* at its login prompt ("linux"), "silent" (off, or logged in), "booting",
                \* "recovery", "setup" (after "run setupdate"), "updating" or "updated"
    inBoard,    \* the card in the board: "whole" or "other"
    lost        \* history: what got lost on the line or in the board

host == <<os, inserted, pulls>>
store == <<card, kernel>>
caller == <<cmd, pc, files, dev>>
clean == <<wpc, prompts>>
job == <<worker, sending, waiter, spinEn, result, first>>
talk == <<line, heard, asked, board, inBoard, lost>>
vars == <<host, store, caller, clean, upc, job, talk, faults>>

Job == INSTANCE BackgroundJob WITH
    Error <- {SudoError, MountError}, NoError <- "nil", Pending <- "pending"

Stage == {"wipe", "fdisk", "mkfs", "partition"}

HostOK ==
    /\ os \in {"linux", "darwin"}
    /\ inserted \subseteq Disk /\ pulls \in 0 .. MaxPulls
    /\ card \in [Disk -> [fs : {"old", "none", "fat"}, files : {"none", "part", "image"}]]
    /\ kernel \in Disk \cup {NoDisk}
    /\ faults \subseteq {"prepare", "files", "command", "pulled", "copy", "umount", "taken"}

ProgramOK ==
    /\ cmd \in {"flash", "write", "flashOnly"} /\ files \in {"none", "bogus", "whole"}
    /\ pc \in {"prepare", "configure", "scp", "choose", "clean", "copy", "unmount", "port", "ask",
               "knock", "login", "recovery", "setupdate", "update", "resetting", "stop", "done",
               "failed", "panic"}
    /\ dev \in Disk \cup {NoDisk}
    /\ wpc \in Stage \cup {"none", "active", "mount", "mountFailed", "spin", "return", "ended"}
    /\ prompts \in 0 .. 2
    /\ upc \in {"none", "unzip", "ended"}

TalkOK ==
    /\ line \in {"up", "down"} /\ heard \in {"nothing", "login:", "iMX6 #", "resetting"}
    /\ asked \in BOOLEAN /\ inBoard \in {"whole", "other"}
    /\ board \in {"linux", "silent", "booting", "recovery", "setup", "updating", "updated"}
    /\ lost \subseteq {"line", "text", "reboot", "boot"}

TypeOK == HostOK /\ ProgramOK /\ TalkOK /\ Job!TypeOK

\* The files of an earlier run may be left for the write command.
Init ==
    /\ os \in {"linux", "darwin"}
    /\ inserted \in SUBSET Disk /\ pulls = 0
    /\ card = [d \in Disk |-> [fs |-> "old", files |-> "none"]]
    /\ kernel \in inserted \cup {NoDisk}
    /\ \/ cmd = "flash" /\ pc = "prepare" /\ files = "none"
       \/ cmd = "write" /\ pc = "choose" /\ files \in {"none", "whole"}
       \/ cmd = "flashOnly" /\ pc = "port" /\ files = "none"
    /\ dev = NoDisk
    /\ wpc = "none" /\ prompts = 0 /\ upc = "none"
    /\ Job!Init
    /\ line = "up" /\ heard = "nothing" /\ asked = FALSE /\ lost = {}
    /\ board \in {"linux", "silent"} /\ inBoard = "other"
    /\ faults = IF cmd = "write" /\ files = "none" THEN {"files"} ELSE {}

-----------------------------------------------------------------------------
\* The user and the card reader.

\* A card that is pulled out while it is mounted loses what was not written back.
Pull(d) ==
    /\ pulls < MaxPulls /\ pulls' = pulls + 1
    /\ d \in inserted /\ inserted' = inserted \ {d}
    /\ pc \in {"choose", "clean", "copy", "unmount"}
    /\ card' = IF kernel = d /\ card[d].files = "image" THEN [card EXCEPT ![d].files = "part"] ELSE card
    /\ faults' = faults \cup {"pulled"}
    /\ UNCHANGED <<os, kernel, caller, clean, upc, job, talk>>

-----------------------------------------------------------------------------
\* Prepare and Configure: the files.

Go(from, to) == pc = from /\ pc' = to

\* The error of Prepare is dropped: what there is of the virtual machine is used.
Prepare ==
    /\ \/ Go("prepare", "configure") /\ faults' \in {faults, faults \cup {"prepare"}}
       \/ Go("prepare", "panic") /\ UNCHANGED faults
    /\ UNCHANGED <<host, store, cmd, files, dev, clean, upc, job, talk>>

\* update.sh and zip; a script that fails is no error of SSH.Run.
ConfigureImage ==
    /\ \/ Go("configure", "failed") /\ UNCHANGED <<files, faults>>
       \/ /\ Go("configure", "scp")
          /\ \/ files' = "whole" /\ UNCHANGED faults
             \/ files' = "bogus" /\ faults' = faults \cup {"files"}
    /\ UNCHANGED <<host, store, cmd, dev, clean, upc, job, talk>>

ScpFrom ==
    /\ Go("scp", "choose") \/ Go("scp", "failed")
    /\ UNCHANGED <<host, store, cmd, files, dev, clean, upc, job, talk, faults>>

-----------------------------------------------------------------------------
\* CopyToDisk: choose a card, CleanDisk, then unzip.

\* ListRemovableDisk finds none, or --disk names another.
NoCard ==
    /\ Go("choose", "failed")
    /\ UNCHANGED <<host, store, cmd, files, dev, clean, upc, job, talk, faults>>

\* The dialog, or --disk; nobody is asked whether he is sure.
Choose(d) ==
    /\ Go("choose", "clean")
    /\ d \in inserted /\ dev' = d
    /\ wpc' = "active"
    /\ Job!StartWait
    /\ UNCHANGED <<host, store, cmd, files, prompts, upc, talk, faults>>

Receive ==
    /\ Job!ReceiveProgress \/ Job!ReceiveError \/ Job!ReceiveClosed
    /\ UNCHANGED <<host, store, caller, clean, upc, talk, faults>>

\* Faulty variant: the error of CleanDisk is not looked at.
CleanIgnoresError ==
    /\ Go("clean", "copy") /\ waiter = "returned"
    /\ upc' = "unzip"
    /\ UNCHANGED <<host, store, cmd, files, dev, clean, job, talk, faults>>

CleanReturns ==
    /\ waiter = "returned"
    /\ \/ result # "nil" /\ Go("clean", "failed") /\ UNCHANGED upc
       \/ result = "nil" /\ Go("clean", "copy") /\ upc' = "unzip"
    /\ UNCHANGED <<host, store, cmd, files, dev, clean, job, talk, faults>>

\* The goroutine of CopyToDisk; the result of unzip is dropped.
Unzip ==
    /\ upc = "unzip" /\ upc' = "ended"
    /\ \/ /\ kernel \in inserted /\ files = "whole"
          /\ card' = [card EXCEPT ![kernel].files = "image"] /\ UNCHANGED faults
       \/ /\ card' \in {card} \cup (IF kernel \in inserted
                                    THEN {[card EXCEPT ![kernel].files = "part"]} ELSE {})
          /\ faults' = faults \cup {"copy"}
    /\ UNCHANGED <<host, kernel, caller, clean, job, talk>>

CopyReturns ==
    /\ Go("copy", "unmount") /\ upc = "ended"
    /\ UNCHANGED <<host, store, cmd, files, dev, clean, upc, job, talk, faults>>

\* Faulty variant: the card is still mounted when it is called prepared.
NoUnmount ==
    /\ Go("unmount", "port")
    /\ UNCHANGED <<host, store, cmd, files, dev, clean, upc, job, talk, faults>>

\* The result of Unmount is dropped; "SD card prepared".
Unmount ==
    /\ Go("unmount", "port")
    /\ \/ kernel' = (IF kernel = dev THEN NoDisk ELSE kernel) /\ UNCHANGED faults
       \/ UNCHANGED kernel /\ faults' = faults \cup {"umount"}
    /\ UNCHANGED <<host, card, cmd, files, dev, clean, upc, job, talk>>

-----------------------------------------------------------------------------
\* The goroutine of CleanDisk.

Step(from, to) == worker = "running" /\ wpc = from /\ wpc' = to

After == [wipe |-> "fdisk", fdisk |-> "mkfs", mkfs |-> "mount", partition |-> "spin"]

\* Active, and on Linux the umount of all its partitions, which may fail.
CleanStarts ==
    /\ Step("active", IF os = "linux" THEN "wipe" ELSE "partition") /\ Job!CallActive(TRUE)
    /\ kernel' \in {kernel, IF os = "linux" /\ kernel = dev THEN NoDisk ELSE kernel}
    /\ UNCHANGED <<host, card, caller, prompts, upc, talk, faults>>

\* sudo asks for the password: the spinner is stopped and started.
Prompt ==
    /\ worker = "running" /\ wpc \in Stage /\ UNCHANGED wpc
    /\ prompts < 2 /\ prompts' = prompts + 1
    /\ Job!CallActive(prompts = 1)
    /\ UNCHANGED <<host, store, caller, upc, talk, faults>>

\* The error is reported, and the next command is run all the same.
SudoFails(stage) ==
    /\ prompts # 1 /\ prompts' = 0
    /\ Step(stage, After[stage]) /\ Job!CallError(SudoError)
    /\ UNCHANGED <<host, store, caller, upc, talk, faults>>

\* wipefs, fdisk and mkdosfs do their work, or fail unseen.
Formatted(stage) == [fs |-> IF stage = "mkfs" THEN "fat" ELSE "none", files |-> "none"]

Exec(stage) ==
    /\ stage # "partition"
    /\ prompts # 1 /\ prompts' = 0
    /\ Step(stage, After[stage])
    /\ \/ dev \in inserted /\ card' = [card EXCEPT ![dev] = Formatted(stage)] /\ UNCHANGED faults
       \/ UNCHANGED card /\ faults' = faults \cup {"command"}
    /\ UNCHANGED <<host, kernel, caller, upc, job, talk>>

\* diskutil partitionDisk, the one command of macOS, unmounts the card, formats it and
\* mounts it by its name: at another path, if another card has the name KERNEL.
PartitionDisk ==
    /\ prompts # 1 /\ prompts' = 0
    /\ Step("partition", After["partition"])
    /\ LET unmounted == IF kernel = dev THEN NoDisk ELSE kernel
           taken == unmounted \in inserted
       IN \/ /\ dev \in inserted
             /\ card' = [card EXCEPT ![dev] = Formatted("mkfs")]
             /\ kernel' = IF taken THEN kernel ELSE dev
             /\ faults' = IF taken THEN faults \cup {"taken"} ELSE faults
          \/ /\ card' \in {card} \cup (IF dev \in inserted
                                     THEN {[card EXCEPT ![dev] = Formatted("fdisk")]} ELSE {})
             /\ kernel' \in {kernel, unmounted}
             /\ faults' = faults \cup {"command"}
    /\ UNCHANGED <<host, caller, upc, job, talk>>

\* Faulty variant: a mount that fails is tried again, and no error reported.
MountRetried ==
    /\ worker = "running" /\ wpc = "mount"
    /\ IF dev \in inserted /\ card[dev].fs # "none"
       THEN wpc' = "spin" /\ kernel' = dev
       ELSE UNCHANGED <<wpc, kernel>>
    /\ UNCHANGED <<host, card, caller, prompts, upc, job, talk, faults>>

Mount ==
    /\ \/ /\ Step("mount", "spin")
          /\ dev \in inserted /\ card[dev].fs # "none" /\ kernel # dev
          /\ kernel' = dev
          /\ UNCHANGED job
       \/ /\ Step("mount", "return") /\ Job!CallError(MountError)
          /\ UNCHANGED kernel
    /\ UNCHANGED <<host, card, caller, prompts, upc, talk, faults>>

Stop ==
    /\ Step("spin", "return") /\ Job!CallActive(FALSE)
    /\ UNCHANGED <<host, store, caller, prompts, upc, talk, faults>>

\* The deferred Close.
Return ==
    /\ Step("return", "ended") /\ Job!CallClose
    /\ UNCHANGED <<host, store, caller, prompts, upc, talk, faults>>

-----------------------------------------------------------------------------
\* The serial line: runUpdate.

alone == <<host, store, cmd, files, dev, clean, upc, job, faults>>

\* getPort and serial.Open.
OpenPort ==
    /\ Go("port", "ask") \/ Go("port", "failed")
    /\ UNCHANGED <<alone, talk>>

\* "Please insert prepared SD card", of an earlier run with write --flash, and "Do you have
\* a reset button?"  A card that is still mounted may lack what was not written back.
Updatable == {d \in Disk : card[d] = [fs |-> "fat", files |-> "image"]}

AskReset(yes) ==
    /\ Go("ask", IF yes THEN "recovery" ELSE "knock")
    /\ asked' = yes
    /\ inBoard' \in {"whole", "other"}
    /\ cmd # "flashOnly" /\ dev \notin Updatable => inBoard' = "other"
    /\ cmd # "flashOnly" /\ dev \in Updatable /\ kernel # dev => inBoard' = "whole"
    /\ UNCHANGED <<alone, line, heard, board, lost>>

\* The board prints a text.  It is seen by the reader if one Read returns all of it.
Says(text) ==
    \/ line = "up" /\ heard' = text /\ UNCHANGED lost
    \/ UNCHANGED heard /\ lost' = lost \cup {"text"}

\* rebootBoard: an empty line, which makes the board repeat its prompt.
Knock ==
    /\ Go("knock", "login")
    /\ IF line = "up" /\ board = "linux" THEN Says("login:") ELSE UNCHANGED <<heard, lost>>
    /\ UNCHANGED <<alone, line, asked, board, inBoard>>

\* Wait for the login prompt, log in, reboot.  Whether the board does so is not looked at.
RebootBoard ==
    /\ Go("login", "recovery") /\ heard = "login:"
    /\ \/ line = "up" /\ board = "linux" /\ board' = "booting" /\ UNCHANGED lost
       \/ board' \in {board, "silent"} /\ lost' = lost \cup {"reboot"}
    /\ UNCHANGED <<alone, line, heard, asked, inBoard>>

\* bootInRecovery: spaces until the prompt of the boot loader is read, or a space cannot be
\* written; the error of a Read is dropped.
BootInRecovery ==
    /\ \/ Go("recovery", "setupdate") /\ heard = "iMX6 #"
       \/ Go("recovery", "failed") /\ line = "down"
    /\ UNCHANGED <<alone, talk>>

\* "run setupdate", "run update": an error of the line is only logged.
SendCommand ==
    /\ \/ /\ Go("setupdate", "update")
          /\ board' = IF line = "up" /\ board = "recovery" THEN "setup" ELSE board
       \/ /\ Go("update", "resetting")
          /\ board' = IF line = "up" /\ board = "setup" THEN "updating" ELSE board
    /\ UNCHANGED <<alone, line, heard, asked, inBoard, lost>>

\* Read, whatever its error, until "resetting" is read.
Resetting ==
    /\ Go("resetting", "stop") /\ heard = "resetting"
    /\ UNCHANGED <<alone, talk>>

\* flasher.Done: conf.Stop, of a conf that only Prepare sets.
Done ==
    /\ Go("stop", IF cmd = "flash" THEN "done" ELSE "panic")
    /\ UNCHANGED <<alone, talk>>

\* The line breaks, and is mended.
Cable ==
    /\ pc \in {"ask", "knock", "login", "recovery", "setupdate", "update", "resetting"}
    /\ \/ line = "up" /\ line' = "down" /\ lost' = lost \cup {"line"}
       \/ line = "down" /\ line' = "up" /\ UNCHANGED lost
    /\ UNCHANGED <<alone, pc, heard, asked, board, inBoard>>

\* The user resets the board, or powers it up.
Reset ==
    /\ pc = "recovery" /\ board \in {"linux", "silent"} /\ board' = "booting"
    /\ UNCHANGED <<alone, pc, line, heard, asked, inBoard, lost>>

\* It boots in spite of the spaces.
BoardBoots ==
    /\ board = "booting" /\ board' = "linux"
    /\ lost' = lost \cup {"boot"}
    /\ UNCHANGED <<alone, pc, line, heard, asked, inBoard>>

\* A space stops the boot loader, which prints its prompt once.
BoardStops ==
    /\ board = "booting" /\ pc = "recovery" /\ line = "up" /\ board' = "recovery"
    /\ Says("iMX6 #")
    /\ UNCHANGED <<alone, pc, line, asked, inBoard>>

\* The board updates from a whole card; without one it is back at its boot loader's prompt.
BoardUpdates ==
    /\ board = "updating"
    /\ \/ inBoard = "whole" /\ board' = "updated" /\ Says("resetting")
       \/ inBoard = "other" /\ board' = "recovery" /\ UNCHANGED <<heard, lost>>
    /\ UNCHANGED <<alone, pc, line, asked, inBoard>>

-----------------------------------------------------------------------------
Cleaner == \/ CleanStarts \/ Prompt \/ (\E s \in Stage : SudoFails(s) \/ Exec(s)) \/ PartitionDisk
           \/ Mount \/ Stop \/ Return

Card == Receive \/ CleanReturns \/ Unzip \/ CopyReturns \/ Unmount

Update == \/ OpenPort \/ (\E yes \in BOOLEAN : AskReset(yes)) \/ Knock \/ RebootBoard
          \/ BootInRecovery \/ SendCommand \/ Resetting \/ Done

Files == Prepare \/ ConfigureImage \/ ScpFrom \/ NoCard \/ \E d \in Disk : Choose(d)

Board == BoardBoots \/ BoardUpdates

\* The program ends, and CleanDisk's goroutine with it, wherever it is parked.
Ended == pc \in {"done", "failed", "panic"}

Terminated == Ended /\ UNCHANGED vars

Next == \/ \E d \in Disk : Pull(d)
        \/ Files \/ Cleaner \/ Card \/ Update \/ Cable \/ Reset \/ Board \/ BoardStops
        \/ Terminated

\* Commands return, and the board boots and updates.  A user who is asked to reset it does
\* so until its boot loader has been stopped.  Nobody mends the line.
Spec == /\ Init /\ [][Next]_vars
        /\ WF_vars(Files) /\ WF_vars(Cleaner) /\ WF_vars(Card) /\ WF_vars(Update)
        /\ WF_vars(Board) /\ WF_vars(asked /\ Reset) /\ SF_vars(BoardStops)

-----------------------------------------------------------------------------
\* What the user may rely on.

\* "SD card prepared": unless something failed unseen, the card chosen has a new
\* file system with all files on it, and can be taken out.
PreparedCardIsWhole ==
    cmd # "flashOnly" /\ pc \in {"port", "ask", "knock", "login", "recovery"} /\ faults = {} =>
        card[dev] = [fs |-> "fat", files |-> "image"] /\ kernel # dev

\* Nothing is unzipped before CleanDisk's goroutine has ended, and then onto the
\* card chosen: an error it reports between two commands keeps the copy from
\* starting.  On macOS nobody looks where the card is mounted, if it is: the copy can
\* go to another card of that name.
CopyAfterClean ==
    upc = "unzip" =>
        /\ wpc = "ended"
        /\ kernel = dev \/ (os = "darwin" /\ faults \cap {"command", "taken"} # {})

\* A command ends: CleanDisk returns, whatever errors its goroutine reports, and however
\* often.  The three waits of runUpdate have no bound, so each can be the last: for the login
\* prompt of a board that prints none, for a boot loader that was not stopped or whose prompt
\* was missed, and for "resetting" when a command or the text got lost, or the card is not
\* whole.  Without such a cause they end too.
Missed == lost \cap {"line", "text"} # {}

FlasherEnds ==
    \/ <>Ended
    \/ <>[](pc = "login" /\ (board = "silent" \/ Missed))
    \/ <>[](pc = "recovery" /\ (Missed \/ (~asked /\ lost # {})))
    \/ <>[](pc = "resetting" /\ (Missed \/ (inBoard = "other" /\ (cmd = "flashOnly" \/ faults # {}))))
=============================================================================
