---------------------------- MODULE WindowsWrite ----------------------------
(***************************************************************************)
(* workstation.WriteToDisk, CopyToDisk and CleanDisk on Windows, with the  *)
(* callers that wait for their jobs and the clean command.                 *)
(*                                                                         *)
(* Unlike on Linux the exit status of dd and its output are looked at, and *)
(* a dd that failed may be tried again.  When access to the card is denied *)
(* the worker offers to clean it, and CleanDisk lists the cards anew and   *)
(* lets the user select one: the card of the next attempt.  Both the       *)
(* worker and a caller can be in CleanDisk, never at once; cleaner says    *)
(* which.  Unmount and Eject do nothing here.                              *)
(***************************************************************************)
EXTENDS Naturals

CONSTANTS
    Disk,                \* the removable disks of the host
    NoDisk,              \* the empty MountInfo, an empty --disk flag
    DiskSelectionTries,  \* diskSelectionTries
    WriteAttempts,       \* writeAttempts
    DdError,             \* dd ended with an error status, or could not be run
    NotFlashed,          \* "Image wasn't flashed"
    MaxPlugs             \* bound: how often the user plugs or unplugs a card

ASSUME DiskAssumption == NoDisk \notin Disk
ASSUME ErrorAssumption == {DdError, NotFlashed} \cap {"nil", "pending"} = {} /\ DdError # NotFlashed
ASSUME TriesAssumption == /\ DiskSelectionTries \in Nat \ {0}
                          /\ WriteAttempts \in Nat \ {0}
                          /\ MaxPlugs \in Nat

VARIABLES
    \* the machine and its user
    inserted, plugs,
    content,    \* what is on each card: "old", "torn", "image" or "clean"
    drive,      \* the card whose volume is N:
    requested,  \* the --disk flag
    cmd,        \* "write", "copy" (a Colibri), or "clean"
    \* the caller, and the workstation struct
    pc, attempt, err, mounts, mount,
    agreed,     \* history: the card the user last agreed to lose
    picked,     \* history: the card last selected in CleanDisk
    \* the worker of the dd job, or of the unzip job
    wpc, tries, werr, out,
    \* CleanDisk
    cleaner, cpc, ctry, last,
    \* the job's channels
    worker, sending, waiter, spinEn, result, first

env == <<inserted, plugs, requested, cmd>>
card == <<content, drive>>
caller == <<pc, attempt, err>>
struct == <<mounts, mount, agreed, picked>>
work == <<wpc, tries, werr, out>>
clean == <<cleaner, cpc, ctry, last>>
job == <<worker, sending, waiter, spinEn, result, first>>
vars == <<env, card, caller, struct, work, clean, job>>

Job == INSTANCE BackgroundJob WITH
    Error <- {DdError, NotFlashed}, NoError <- "nil", Pending <- "pending"

CardsOK ==
    /\ inserted \subseteq Disk /\ plugs \in 0 .. MaxPlugs
    /\ content \in [Disk -> {"old", "torn", "image", "clean"}]
    /\ {drive, requested, mount, agreed, picked} \subseteq Disk \cup {NoDisk}
    /\ mounts \subseteq Disk
    /\ cmd \in {"write", "copy", "clean"}

CallerOK ==
    /\ pc \in {"list", "again", "choose", "binary", "confirm", "spawn", "clean", "copy",
               "wait", "done", "failed"}
    /\ attempt \in 0 .. DiskSelectionTries - 1
    /\ err \in {"nil", "no disk", "binary", "not recognised", "clean", DdError, NotFlashed}
    /\ cleaner \in {"none", "caller", "worker"}
    /\ cpc \in {"idle", "list", "again", "pick", "over", "sure", "diskpart"}
    /\ ctry \in 0 .. DiskSelectionTries - 1
    /\ last \in BOOLEAN

WorkerOK ==
    /\ wpc \in {"none", "try", "ask", "start", "dd", "spin", "offer", "cleaning", "reconnect",
                "report", "close", "active", "unzip", "ended"}
    /\ tries \in 0 .. WriteAttempts
    /\ werr \in {"nil", DdError}
    /\ out \in {"none", "ok", "failed", "denied", "other"}

TypeOK == CardsOK /\ CallerOK /\ WorkerOK /\ Job!TypeOK

\* CopyToDisk has no rounds, and the clean command begins in CleanDisk.
Init ==
    /\ inserted \in SUBSET Disk /\ plugs = 0
    /\ content = [d \in Disk |-> "old"]
    /\ drive \in inserted \cup {NoDisk}
    /\ \/ /\ cmd \in {"write", "copy"} /\ pc = "list"
          /\ requested \in Disk \cup {NoDisk}
          /\ cleaner = "none" /\ cpc = "idle"
       \/ /\ cmd = "clean" /\ pc = "clean"
          /\ requested = NoDisk
          /\ cleaner = "caller" /\ cpc = "list"
    /\ attempt = 0 /\ err = "nil"
    /\ mounts = {} /\ mount = NoDisk /\ agreed = NoDisk /\ picked = NoDisk
    /\ wpc = "none" /\ tries = 0 /\ werr = "nil" /\ out = "none"
    /\ ctry = 0 /\ last = FALSE
    /\ Job!Init

-----------------------------------------------------------------------------
\* The user and the card reader; a volume goes with its card.

Plug(d) ==
    /\ pc \notin {"done", "failed"}
    /\ plugs < MaxPlugs /\ plugs' = plugs + 1
    /\ IF d \in inserted
       THEN inserted' = inserted \ {d} /\ drive' = IF drive = d THEN NoDisk ELSE drive
       ELSE inserted' = inserted \cup {d} /\ UNCHANGED drive
    /\ UNCHANGED <<requested, cmd, content, caller, struct, work, clean, job>>

-----------------------------------------------------------------------------
\* The caller: WriteToDisk and CopyToDisk up to their jobs.

Go(from, to) == pc = from /\ pc' = to

\* "Continue?", at the head of every round but the first.
AskContinue(yes) ==
    /\ Go("again", IF yes THEN "list" ELSE "failed")
    /\ attempt' = IF yes THEN attempt + 1 ELSE attempt
    /\ UNCHANGED <<env, card, err, struct, work, clean, job>>

\* A new list replaces the old one only if it is not empty.
ListRemovableDisk ==
    /\ pc = "list"
    /\ \/ /\ inserted = {} /\ err' = "no disk" /\ UNCHANGED mounts
          /\ pc' = IF cmd = "write" /\ attempt + 1 < DiskSelectionTries THEN "again" ELSE "failed"
       \/ /\ inserted # {} /\ err' = "nil" /\ mounts' = inserted
          /\ pc' = "choose"
    /\ UNCHANGED <<env, card, attempt, mount, agreed, picked, work, clean, job>>

\* Faulty variant: a --disk that is not listed gets the first card of the list.
ChooseAny(d) ==
    /\ d \in mounts
    /\ mount' = d
    /\ Go("choose", IF cmd = "write" THEN "binary" ELSE "clean")
    /\ IF cmd = "copy"
       THEN agreed' = d /\ cleaner' = "caller" /\ cpc' = "list"
       ELSE UNCHANGED <<agreed, cleaner, cpc>>
    /\ UNCHANGED <<env, card, attempt, err, mounts, picked, work, ctry, last, job>>

\* The selection dialog, or the --disk flag; CopyToDisk goes on to CleanDisk
\* without a question.
Choose(d) ==
    /\ d \in mounts /\ requested \in {NoDisk, d}
    /\ mount' = d
    /\ Go("choose", IF cmd = "write" THEN "binary" ELSE "clean")
    /\ IF cmd = "copy"
       THEN agreed' = d /\ cleaner' = "caller" /\ cpc' = "list"
       ELSE UNCHANGED <<agreed, cleaner, cpc>>
    /\ UNCHANGED <<env, card, attempt, err, mounts, picked, work, ctry, last, job>>

\* WriteToDisk tests the mount for nil, which it never is, and goes on with the
\* empty one.
NotRecognised ==
    /\ requested \notin mounts \cup {NoDisk}
    /\ IF cmd = "write" THEN Go("choose", "binary") /\ UNCHANGED err
                        ELSE Go("choose", "failed") /\ err' = "not recognised"
    /\ UNCHANGED <<env, card, attempt, struct, work, clean, job>>

\* The dd binary is there, is downloaded, or cannot be.
GetDDBinary ==
    /\ \/ Go("binary", IF requested = NoDisk THEN "confirm" ELSE "spawn") /\ UNCHANGED err
       \/ Go("binary", "failed") /\ err' = "binary"
    /\ UNCHANGED <<env, card, attempt, struct, work, clean, job>>

\* "Are you sure?"; no is answered by (nil, nil).
Confirm(yes) ==
    /\ Go("confirm", IF yes THEN "spawn" ELSE "done")
    /\ agreed' = IF yes THEN mount ELSE agreed
    /\ UNCHANGED <<env, card, attempt, err, mounts, mount, picked, work, clean, job>>

\* The go statement, and the caller's WaitJobAndSpin.
Spawn ==
    /\ \/ Go("spawn", "wait") /\ wpc' = "try"
       \/ Go("copy", "wait") /\ wpc' = "active"
    /\ agreed' = IF cmd = "write" /\ requested # NoDisk THEN mount ELSE agreed
    /\ Job!StartWait
    /\ UNCHANGED <<env, card, attempt, err, mounts, mount, picked, tries, werr, out, clean>>

Receive ==
    /\ pc = "wait"
    /\ Job!ReceiveProgress \/ Job!ReceiveError \/ Job!ReceiveClosed
    /\ UNCHANGED <<env, card, caller, struct, work, clean>>

WaitReturns ==
    /\ Go("wait", IF result = "nil" THEN "done" ELSE "failed")
    /\ waiter = "returned"
    /\ err' = result
    /\ UNCHANGED <<env, card, attempt, struct, work, clean, job>>

-----------------------------------------------------------------------------
\* CleanDisk, called by the worker or by the caller.

CStep(from, to) == cpc = from /\ cpc' = to

\* Return to whoever called, with an error or without.
CleanReturns(ok) ==
    /\ cpc' = "idle" /\ cleaner' = "none"
    /\ \/ /\ cleaner = "worker" /\ UNCHANGED <<pc, err>>
          /\ wpc' = IF ok THEN "reconnect" ELSE "try"
       \/ /\ cleaner = "caller" /\ UNCHANGED wpc
          /\ pc' = IF ~ok THEN "failed" ELSE IF cmd = "copy" THEN "copy" ELSE "done"
          /\ err' = IF ok THEN err ELSE "clean"
    /\ UNCHANGED <<attempt, tries, werr, out>>

CleanLists ==
    /\ IF inserted = {}
       THEN /\ CStep("list", IF ctry + 1 < DiskSelectionTries THEN "again" ELSE "over")
            /\ last' = TRUE /\ UNCHANGED mounts
       ELSE CStep("list", "pick") /\ mounts' = inserted /\ UNCHANGED last
    /\ UNCHANGED <<env, card, caller, mount, agreed, picked, work, cleaner, ctry, job>>

CleanAsks(yes) ==
    /\ CStep("again", IF yes THEN "list" ELSE "over")
    /\ ctry' = IF yes THEN ctry + 1 ELSE ctry
    /\ UNCHANGED <<env, card, caller, struct, work, cleaner, last, job>>

\* "Select disk to clean": whatever disk CleanDisk was called with.
CleanPicks(d) ==
    /\ CStep("pick", "over")
    /\ d \in mounts
    /\ mount' = d /\ picked' = d
    /\ UNCHANGED <<env, card, caller, mounts, agreed, work, cleaner, ctry, last, job>>

\* After the rounds: an error of any of them is returned, even if a later one
\* succeeded.
CleanRounds ==
    /\ cpc = "over"
    /\ IF last THEN CleanReturns(FALSE) ELSE cpc' = "sure" /\ UNCHANGED <<cleaner, caller, work>>
    /\ ctry' = 0 /\ last' = FALSE
    /\ UNCHANGED <<env, card, struct, job>>

\* "Are you sure you want to clean this disk?"; no is no error.
CleanConfirm(yes) ==
    /\ cpc = "sure"
    /\ agreed' = IF yes THEN mount ELSE agreed
    /\ IF yes THEN cpc' = "diskpart" /\ UNCHANGED <<cleaner, caller, work>> ELSE CleanReturns(TRUE)
    /\ UNCHANGED <<env, card, mounts, mount, picked, ctry, last, job>>

\* The script of cleanTemplate wipes the card; the letter N is assigned if no
\* other card has it, and removed.  diskpart may fail half-way; a script that
\* cannot be written is not run, which is no error.
DiskPart ==
    /\ cpc = "diskpart"
    /\ \/ /\ mount \in inserted /\ drive \in {NoDisk, mount}
          /\ content' = [content EXCEPT ![mount] = "clean"] /\ drive' = NoDisk
          /\ CleanReturns(TRUE)
       \/ /\ mount \in inserted /\ content' = [content EXCEPT ![mount] = "clean"]
          /\ drive' = IF drive = mount THEN NoDisk ELSE drive
          /\ CleanReturns(FALSE)
       \/ UNCHANGED card /\ \E ok \in BOOLEAN : CleanReturns(ok)
    /\ UNCHANGED <<env, struct, ctry, last, job>>

-----------------------------------------------------------------------------
\* The worker of WriteToDisk: dd, at most WriteAttempts times.

Step(from, to) == wpc = from /\ wpc' = to /\ worker = "running"

TryWrite ==
    /\ \/ tries = 0 /\ Step("try", "start") /\ Job!CallActive(TRUE)
       \/ 0 < tries /\ tries < WriteAttempts /\ Step("try", "ask") /\ UNCHANGED job
       \/ tries = WriteAttempts /\ Step("try", "report") /\ UNCHANGED job
    /\ UNCHANGED <<env, card, caller, struct, tries, werr, out, clean>>

\* "Retry flashing?"
AskRetry(yes) ==
    /\ IF yes THEN Step("ask", "start") /\ Job!CallActive(TRUE)
              ELSE Step("ask", "report") /\ UNCHANGED job
    /\ UNCHANGED <<env, card, caller, struct, tries, werr, out, clean>>

\* dd begins to overwrite the card, if it is there and may be written.
StartDD ==
    /\ Step("start", "dd")
    /\ content' \in {content} \cup
           (IF mount \in inserted THEN {[content EXCEPT ![mount] = "torn"]} ELSE {})
    /\ UNCHANGED <<env, drive, caller, struct, tries, werr, out, clean, job>>

\* Faulty variant: an attempt that ended in a cleaned card does not count.
EndDDUncounted ==
    /\ Step("dd", "spin")
    /\ \/ out' \in {"failed", "denied", "other"} /\ UNCHANGED content
       \/ /\ mount \in inserted /\ content[mount] = "torn"
          /\ out' = "ok" /\ content' = [content EXCEPT ![mount] = "image"]
    /\ werr' = IF out' = "failed" THEN DdError ELSE "nil"
    /\ tries' = IF out' = "denied" THEN tries ELSE tries + 1
    /\ UNCHANGED <<env, drive, caller, struct, clean, job>>

\* dd ends: with an error status, with an error in its output, or well.
EndDD ==
    /\ Step("dd", "spin")
    /\ \/ out' \in {"failed", "denied", "other"} /\ UNCHANGED content
       \/ /\ mount \in inserted /\ content[mount] = "torn"
          /\ out' = "ok" /\ content' = [content EXCEPT ![mount] = "image"]
       \/ mount = NoDisk /\ out' = "ok" /\ UNCHANGED content
    /\ werr' = IF out' = "failed" THEN DdError ELSE "nil"
    /\ tries' = tries + 1
    /\ UNCHANGED <<env, drive, caller, struct, clean, job>>

\* Faulty variant: the output of dd is not looked at.
DdEndedUnchecked ==
    /\ Step("spin", CASE out \in {"ok", "other"} -> "close" [] out = "denied" -> "offer" [] OTHER -> "try")
    /\ Job!CallActive(FALSE)
    /\ out' = "none"
    /\ UNCHANGED <<env, card, caller, struct, tries, werr, clean>>

\* Faulty variant: an error status is reported at once, before the retries.
DdEndedReports ==
    /\ Step("spin", CASE out = "ok" -> "close" [] out = "denied" -> "offer" [] OTHER -> "try")
    /\ IF out = "failed" THEN Job!CallError(DdError) ELSE Job!CallActive(FALSE)
    /\ out' = "none"
    /\ UNCHANGED <<env, card, caller, struct, tries, werr, clean>>

\* Active(false), and what the outcome leads to.
DdEnded ==
    /\ Step("spin", CASE out = "ok" -> "close" [] out = "denied" -> "offer" [] OTHER -> "try")
    /\ Job!CallActive(FALSE)
    /\ out' = "none"
    /\ UNCHANGED <<env, card, caller, struct, tries, werr, clean>>

\* "Or we can try to clean it's partitions right now".
OfferClean(yes) ==
    /\ IF yes THEN Step("offer", "cleaning") /\ cleaner' = "worker" /\ cpc' = "list"
              ELSE Step("offer", "try") /\ UNCHANGED <<cleaner, cpc>>
    /\ UNCHANGED <<env, card, caller, struct, tries, werr, out, ctry, last, job>>

\* "please reconnect the device", asked until the answer is yes.
Reconnect ==
    /\ Step("reconnect", "try")
    /\ UNCHANGED <<env, card, caller, struct, tries, werr, out, clean, job>>

\* job.Error of dd's error, then job.Error once more in any case, then Close.
Report ==
    /\ IF werr # "nil" /\ first = "nil"
       THEN Step("report", "report") /\ Job!CallError(werr)
       ELSE Step("report", "close") /\ Job!CallError(NotFlashed)
    /\ UNCHANGED <<env, card, caller, struct, tries, werr, out, clean>>

\* The worker of CopyToDisk: unzip to N:, whose result is dropped.
Unzip ==
    /\ \/ Step("active", "unzip") /\ Job!CallActive(TRUE) /\ UNCHANGED content
       \/ /\ Step("unzip", "close") /\ UNCHANGED job
          /\ content' \in {content} \cup
                (IF drive = NoDisk THEN {}
                 ELSE {[content EXCEPT ![drive] = c] : c \in {"torn", "image"}})
    /\ UNCHANGED <<env, drive, caller, struct, tries, werr, out, clean>>

Close ==
    /\ Step("close", "ended")
    /\ Job!CallClose
    /\ UNCHANGED <<env, card, caller, struct, tries, werr, out, clean>>

-----------------------------------------------------------------------------
CleanDisk == \/ CleanLists \/ CleanRounds \/ DiskPart
             \/ \E yes \in BOOLEAN : CleanAsks(yes) \/ CleanConfirm(yes)
             \/ \E d \in Disk : CleanPicks(d)

Caller == \/ \E yes \in BOOLEAN : AskContinue(yes) \/ Confirm(yes)
          \/ ListRemovableDisk \/ (\E d \in Disk : Choose(d)) \/ NotRecognised
          \/ GetDDBinary \/ Spawn \/ Receive \/ WaitReturns

Worker == \/ TryWrite \/ StartDD \/ EndDD \/ DdEnded \/ Reconnect \/ Report \/ Unzip \/ Close
          \/ \E yes \in BOOLEAN : AskRetry(yes) \/ OfferClean(yes)

User == \E d \in Disk : Plug(d)

\* The caller has returned; a worker may be left parked in its second report.
Terminated == pc \in {"done", "failed"} /\ UNCHANGED vars

Next == Caller \/ Worker \/ CleanDisk \/ User \/ Terminated

\* Both goroutines are scheduled, dialogs are answered and commands end.
Spec == Init /\ [][Next]_vars /\ WF_vars(Caller) /\ WF_vars(Worker) /\ WF_vars(CleanDisk)

-----------------------------------------------------------------------------
\* What a caller may rely on.

\* A card is overwritten or cleaned only while it is the one selected last, which
\* the user agreed to lose or picked in CleanDisk; an unzipped image goes to
\* the card whose volume is N:.
OnlyChosenDisk ==
    [][\A d \in Disk : content'[d] # content[d] =>
          IF wpc = "unzip" THEN d = drive
          ELSE /\ d = mount /\ d \in mounts /\ d \in {agreed, picked}
               /\ picked = NoDisk /\ requested # NoDisk => d = requested]_vars

\* WriteToDisk with its job is a CheckedWriter: success is announced only for a
\* card that holds the whole image, and the answer ends all writing.
Checked == INSTANCE CheckedWriter WITH
    content <- IF cmd = "write" THEN content ELSE [d \in Disk |-> "old"],
    target <- mount,
    reply <- IF cmd # "write" \/ pc \notin {"done", "failed"} THEN "pending"
             ELSE IF pc = "done" THEN "nil" ELSE "error"

ImplementsChecked == Checked!Spec

\* When the caller has its answer nobody writes, cleans or asks any more: at most
\* a worker stands in a report that nobody receives.
QuietWhenAnswered ==
    pc \in {"done", "failed"} =>
        /\ cpc = "idle"
        /\ wpc \in {"none", "report", "close", "ended"}

\* The caller is answered, and a worker is left behind for ever only after dd
\* ended with an error status, which it reports twice.
WriteEnds ==
    /\ <>(pc \in {"done", "failed"})
    /\ <>[](wpc \in {"none", "ended"} \/ first = DdError)
=============================================================================
