----------------------------- MODULE LinuxWrite -----------------------------
(***************************************************************************)
(* workstation.WriteToDisk on Linux, with the part of sdFlasher.Write that *)
(* drives it: choose a card, check it, ask, write it with dd in a          *)
(* background job, unmount it and eject it.                                *)
(*                                                                         *)
(* Two goroutines run: the caller (pc) and the worker of the job (wpc).    *)
(* They meet only through the channels of BackgroundJob; a third actor,    *)
(* the user, answers dialogs and changes the cards in the readers at any   *)
(* time.  The program knows a card by the device name of its reader only,  *)
(* and dd opens that name last of all.                                     *)
(*                                                                         *)
(* sudo.Exec reports a command that could not be started, and nothing      *)
(* else: it drops the exit status that cmd.Wait returns.  A dd that fails  *)
(* half-way, or never runs because the password was wrong, therefore looks *)
(* like one that succeeded.  The tries sudo itself gives the user are one  *)
(* prompt here.                                                            *)
(***************************************************************************)
EXTENDS Naturals, FiniteSets

CONSTANTS
    Disk,                \* device names of removable disks: card readers
    NoDisk,              \* no disk: the zero MountInfo, an empty --disk flag
    Card, NoCard,        \* the cards, and what an empty reader holds
    DiskSelectionTries,  \* diskSelectionTries
    WriteAttempts,       \* writeAttempts
    SudoError,           \* the error of a sudo process that cannot start
    MaxPlugs             \* bound: how often the user takes a card out or puts one in

ASSUME DiskAssumption == NoDisk \notin Disk /\ NoCard \notin Card
ASSUME SudoErrorAssumption == SudoError \notin {"nil", "pending"}
ASSUME TriesAssumption == /\ DiskSelectionTries \in Nat \ {0}
                          /\ WriteAttempts \in Nat \ {0}
                          /\ MaxPlugs \in Nat

VARIABLES
    \* the machine and its user
    slot,       \* of each reader: the card in it
    locked,     \* cards whose write switch is off
    plugs,      \* how often a card was put in or taken out
    requested,  \* the --disk flag
    swapped,    \* history: the card in the reader chosen was changed after its check
    \* the cards
    content,    \* what is on each card: "old", "torn" or "image"
    fd,         \* the card that dd has open
    began,      \* history: the card that dd has begun to overwrite
    \* the caller: sdFlasher.Write, WriteToDisk and the workstation struct
    pc, attempt, err, mounts, dev, mount, writable, ejected,
    agreed,     \* history: the reader the user agreed to overwrite
    checked,    \* history: the card that was found unlocked
    \* the worker goroutine of the dd job
    wpc, tries, werr,
    unseen,     \* history: the failures behind a nil error of sudo.Exec
    \* the job's channels
    worker, sending, waiter, spinEn, result, first

env == <<slot, locked, plugs, requested, swapped>>
store == <<content, fd, began>>
caller == <<pc, attempt, err, mounts, dev, mount, writable, ejected, agreed, checked>>
work == <<wpc, tries, werr, unseen>>
job == <<worker, sending, waiter, spinEn, result, first>>
vars == <<env, store, caller, work, job>>

Job == INSTANCE BackgroundJob WITH Error <- {SudoError}, NoError <- "nil", Pending <- "pending"

CardsOK ==
    /\ slot \in [Disk -> Card \cup {NoCard}] /\ locked \subseteq Card
    /\ content \in [Card -> {"old", "torn", "image"}]
    /\ {fd, began} \subseteq Card \cup {NoCard} /\ swapped \in BOOLEAN
    /\ plugs \in 0 .. MaxPlugs
    /\ requested \in Disk \cup {NoDisk}

CallerOK ==
    /\ pc \in {"list", "choose", "check", "again", "confirm", "spawn", "wait",
               "unmount", "eject", "done", "failed"}
    /\ attempt \in 0 .. DiskSelectionTries - 1
    /\ err \in {"nil", "no disk", "locked", "not recognised", "stat", SudoError}
    /\ mounts \subseteq Disk
    /\ {dev, mount, ejected, agreed} \subseteq Disk \cup {NoDisk}
    /\ checked \in Card \cup {NoCard}
    /\ writable \in BOOLEAN

WorkerOK ==
    /\ wpc \in {"none", "try", "ask", "start", "prompt", "typing", "dd", "spin", "report", "ended"}
    /\ tries \in 0 .. WriteAttempts
    /\ werr \in {"nil", SudoError}
    /\ unseen \subseteq {"password", "dd"}

TypeOK == CardsOK /\ CallerOK /\ WorkerOK /\ Job!TypeOK

\* A card is in one reader, or in none.
AtMostOneReader(c) == \A d, e \in Disk : slot[d] = c /\ slot[e] = c => d = e

Inserted == {d \in Disk : slot[d] # NoCard}

Init ==
    /\ slot \in [Disk -> Card \cup {NoCard}] /\ \A c \in Card : AtMostOneReader(c)
    /\ locked \in SUBSET Card /\ plugs = 0 /\ swapped = FALSE
    /\ requested \in Disk \cup {NoDisk}
    /\ content = [c \in Card |-> "old"] /\ fd = NoCard /\ began = NoCard
    /\ pc = "list" /\ attempt = 0 /\ err = "nil" /\ mounts = {}
    /\ dev = NoDisk /\ mount = NoDisk /\ writable = TRUE
    /\ ejected = NoDisk /\ agreed = NoDisk /\ checked = NoCard
    /\ wpc = "none" /\ tries = 0 /\ werr = "nil" /\ unseen = {}
    /\ Job!Init

-----------------------------------------------------------------------------
\* The user and the card reader.

\* Both goroutines have come to their end.
Finished == pc \in {"done", "failed"} /\ (wpc = "none" \/ worker = "closed")

\* A card is taken out, which cuts off the dd that has it open, or put in, its switch set
\* at will.
Plug(d) ==
    /\ ~Finished
    /\ plugs < MaxPlugs /\ plugs' = plugs + 1
    /\ \/ /\ slot[d] # NoCard
          /\ slot' = [slot EXCEPT ![d] = NoCard] /\ UNCHANGED locked
          /\ fd' = IF slot[d] = fd THEN NoCard ELSE fd
       \/ /\ slot[d] = NoCard
          /\ \E c \in Card :
                 /\ \A e \in Disk : slot[e] # c
                 /\ slot' = [slot EXCEPT ![d] = c]
                 /\ locked' \in {locked \ {c}, locked \cup {c}}
          /\ UNCHANGED fd
    /\ swapped' = (swapped \/ d = mount)
    /\ UNCHANGED <<requested, content, began, caller, work, job>>

-----------------------------------------------------------------------------
\* The caller: the selection loop of WriteToDisk.

Go(from, to) == pc = from /\ pc' = to

\* The end of a selection round that found no usable card: ask whether to
\* continue, unless it was the last one.
NextRound == pc' = IF attempt + 1 < DiskSelectionTries THEN "again" ELSE "failed"

\* "Continue?", at the head of every round but the first.
AskContinue(yes) ==
    /\ Go("again", IF yes THEN "list" ELSE "failed")
    /\ attempt' = IF yes THEN attempt + 1 ELSE attempt
    /\ UNCHANGED <<env, store, err, mounts, dev, mount, writable, ejected, agreed, checked, work, job>>

ListRemovableDisk ==
    /\ pc = "list"
    /\ IF Inserted = {}
       THEN NextRound /\ err' = "no disk" /\ UNCHANGED mounts
       ELSE pc' = "choose" /\ err' = "nil" /\ mounts' = Inserted
    /\ UNCHANGED <<env, store, attempt, dev, mount, writable, ejected, agreed, checked, work, job>>

\* Faulty variant: a --disk that is not listed leaves the loop without an error,
\* with the first disk of the list.
ChooseAny(d) ==
    /\ Go("choose", "check")
    /\ dev' = d
    /\ d \in mounts
    /\ UNCHANGED <<env, store, attempt, err, mounts, mount, writable, ejected, agreed, checked, work, job>>

\* The selection dialog, or the --disk flag.
Choose(d) ==
    /\ Go("choose", "check")
    /\ dev' = d
    /\ d \in mounts
    /\ requested # NoDisk => d = requested
    /\ UNCHANGED <<env, store, attempt, err, mounts, mount, writable, ejected, agreed, checked, work, job>>

NotRecognised ==
    /\ Go("choose", "failed")
    /\ requested # NoDisk /\ requested \notin mounts
    /\ err' = "not recognised"
    /\ UNCHANGED <<env, store, attempt, mounts, dev, mount, writable, ejected, agreed, checked, work, job>>

\* FileModeMask(dev.diskNameRaw, 0200): the disk may be gone or locked.
CheckLock ==
    /\ pc = "check"
    /\ \/ /\ slot[dev] = NoCard
          /\ pc' = "failed" /\ err' = "stat" /\ UNCHANGED <<mount, checked>>
       \/ /\ slot[dev] \in locked
          /\ NextRound /\ err' = "locked" /\ UNCHANGED <<mount, checked>>
       \/ /\ slot[dev] \in Card \ locked
          /\ pc' = IF requested = NoDisk THEN "confirm" ELSE "spawn"
          /\ mount' = dev /\ checked' = slot[dev]
          /\ UNCHANGED err
    /\ UNCHANGED <<env, store, attempt, mounts, dev, writable, ejected, agreed, work, job>>

\* Faulty variant: a refusal returns without clearing writable.
ConfirmKeepsWritable(yes) ==
    /\ Go("confirm", IF yes THEN "spawn" ELSE "unmount")
    /\ UNCHANGED writable
    /\ agreed' = IF yes THEN mount ELSE agreed
    /\ UNCHANGED <<env, store, attempt, err, mounts, dev, mount, ejected, checked, work, job>>

\* "Are you sure?"; no makes WriteToDisk return (nil, nil), which its caller
\* does not take for a refusal.
Confirm(yes) ==
    /\ Go("confirm", IF yes THEN "spawn" ELSE "unmount")
    /\ writable' = (yes /\ writable)
    /\ agreed' = IF yes THEN mount ELSE agreed
    /\ UNCHANGED <<env, store, attempt, err, mounts, dev, mount, ejected, checked, work, job>>

\* The go statement, writable = true, and the caller's WaitJobAndSpin.
Spawn ==
    /\ Go("spawn", "wait")
    /\ writable' = TRUE
    /\ agreed' = IF requested = NoDisk THEN agreed ELSE requested
    /\ wpc' = "try"
    /\ Job!StartWait
    /\ UNCHANGED <<env, store, attempt, err, mounts, dev, mount, ejected, checked, tries, werr, unseen>>

Receive ==
    /\ pc = "wait"
    /\ Job!ReceiveProgress \/ Job!ReceiveError \/ Job!ReceiveClosed
    /\ UNCHANGED <<env, store, caller, work>>

WaitReturns ==
    /\ Go("wait", IF result = "nil" THEN "unmount" ELSE "failed")
    /\ waiter = "returned"
    /\ err' = result
    /\ UNCHANGED <<env, store, attempt, mounts, dev, mount, writable, ejected, agreed, checked, work, job>>

\* Unmount and Eject act on the mount of the struct when it is writable; their
\* errors are logged only.
Unmount ==
    /\ Go("unmount", "eject")
    /\ UNCHANGED <<env, store, attempt, err, mounts, dev, mount, writable, ejected, agreed, checked, work, job>>

Eject ==
    /\ Go("eject", "done")
    /\ ejected' = IF writable THEN mount ELSE ejected
    /\ UNCHANGED <<env, store, attempt, err, mounts, dev, mount, writable, agreed, checked, work, job>>

-----------------------------------------------------------------------------
\* The worker: dd, at most WriteAttempts times.

Step(from, to) == wpc = from /\ wpc' = to /\ worker = "running"

\* The head of the retry loop; Active(true) when it goes on.
TryWrite ==
    /\ \/ tries < WriteAttempts /\ tries = 0 /\ Step("try", "start") /\ Job!CallActive(TRUE)
       \/ tries < WriteAttempts /\ tries > 0 /\ Step("try", "ask") /\ UNCHANGED job
       \/ tries = WriteAttempts /\ Step("try", "report") /\ UNCHANGED job
    /\ UNCHANGED <<env, store, caller, tries, werr, unseen>>

\* "Continue?" asked by the worker, while the caller's spinner turns.
AskRetry(yes) ==
    /\ IF yes THEN Step("ask", "start") /\ Job!CallActive(TRUE)
              ELSE Step("ask", "report") /\ UNCHANGED job
    /\ UNCHANGED <<env, store, caller, tries, werr, unseen>>

\* Faulty variant: only the first attempt counts.
SudoFailsUncounted ==
    /\ Step("start", "spin")
    /\ werr' = SudoError
    /\ tries' = 1
    /\ UNCHANGED <<env, store, caller, unseen, job>>

\* sudo.Exec cannot start its process.
SudoFails ==
    /\ Step("start", "spin")
    /\ werr' = SudoError
    /\ tries' = tries + 1
    /\ UNCHANGED <<env, store, caller, unseen, job>>

\* sudo asks for the password: the spinner stops, and turns again afterwards.
Prompt ==
    /\ Step("start", "prompt")
    /\ Job!CallActive(FALSE)
    /\ UNCHANGED <<env, store, caller, tries, werr, unseen>>

Typed ==
    /\ Step("prompt", "typing")
    /\ Job!CallActive(TRUE)
    /\ UNCHANGED <<env, store, caller, tries, werr, unseen>>

\* dd opens the device name, whatever card is in the reader by now, and begins to
\* overwrite that card; or it ends without that: of a name without a device it makes a file.
StartDD ==
    /\ \E from \in {"start", "typing"} : Step(from, "dd")
    /\ \/ /\ slot[mount] \in Card \ locked
          /\ fd' = slot[mount] /\ began' = slot[mount]
          /\ content' = [content EXCEPT ![slot[mount]] = "torn"]
          /\ UNCHANGED unseen
       \/ UNCHANGED store /\ unseen' = unseen \cup {"dd"}
    /\ UNCHANGED <<env, caller, tries, werr, job>>

\* sudo refuses the password, and dd does not run.
WrongPassword ==
    /\ Step("typing", "spin")
    /\ werr' = "nil" /\ tries' = WriteAttempts
    /\ unseen' = unseen \cup {"password"}
    /\ UNCHANGED <<env, store, caller, job>>

\* Faulty variant: sudo.Exec returns the exit status, and the loop tries again.
EndDDChecked ==
    /\ Step("dd", "spin")
    /\ \/ /\ fd # NoCard /\ content' = [content EXCEPT ![fd] = "image"]
          /\ werr' = "nil" /\ tries' = WriteAttempts
       \/ UNCHANGED content /\ werr' = SudoError /\ tries' = tries + 1
    /\ fd' = NoCard
    /\ UNCHANGED <<env, began, caller, unseen, job>>

\* dd ends, with the whole image written or not; err is nil either way, and
\* break leaves the loop.
EndDD ==
    /\ Step("dd", "spin")
    /\ \/ fd # NoCard /\ content' = [content EXCEPT ![fd] = "image"] /\ UNCHANGED unseen
       \/ UNCHANGED content /\ unseen' = unseen \cup {"dd"}
    /\ fd' = NoCard
    /\ werr' = "nil" /\ tries' = WriteAttempts
    /\ UNCHANGED <<env, began, caller, job>>

\* Active(false) after each attempt.
StopSpinner ==
    /\ Step("spin", "try")
    /\ Job!CallActive(FALSE)
    /\ UNCHANGED <<env, store, caller, tries, werr, unseen>>

\* job.Error if there is one, then the deferred Close.
Report ==
    /\ wpc = "report"
    /\ IF werr # "nil" /\ first = "nil"
       THEN Step("report", "report") /\ Job!CallError(werr)
       ELSE Step("report", "ended") /\ Job!CallClose
    /\ UNCHANGED <<env, store, caller, tries, werr, unseen>>

-----------------------------------------------------------------------------
\* The steps that do not depend on how disks are listed, or on the command that
\* sudo runs.
AfterListing == \/ \E yes \in BOOLEAN : AskContinue(yes) \/ Confirm(yes)
                \/ (\E d \in Disk : Choose(d)) \/ NotRecognised
                \/ CheckLock \/ Spawn \/ Receive \/ WaitReturns \/ Unmount \/ Eject

Attempts == \/ TryWrite \/ (\E yes \in BOOLEAN : AskRetry(yes))
            \/ SudoFails \/ Prompt \/ Typed \/ EndDD \/ StopSpinner \/ Report

Caller == ListRemovableDisk \/ AfterListing

RunDD == StartDD \/ WrongPassword

Worker == RunDD \/ Attempts

User == \E d \in Disk : Plug(d)

\* The program has returned: the one state in which nothing need happen.
Terminated == Finished /\ UNCHANGED vars

Next == Caller \/ Worker \/ User \/ Terminated

\* Both goroutines are scheduled, dialogs are answered and commands end.
Spec == Init /\ [][Next]_vars /\ WF_vars(Caller) /\ WF_vars(Worker)

-----------------------------------------------------------------------------
\* What a caller may rely on.

\* A card changes only under the running worker of a job, in the reader that was listed and
\* agreed to: named by --disk, or confirmed.  No other card has been changed.  It is the card
\* that was found unlocked, but for one case: between the check and dd the user has changed
\* the card in that reader, and nobody asks about the new one.
OnlyAgreedDisk ==
    [][\A c \in Card : content'[c] # content[c] =>
          /\ slot[mount] = c /\ mount = agreed /\ mount \in mounts
          /\ requested # NoDisk => mount = requested
          /\ worker = "running"
          /\ c = checked \/ swapped
          /\ \A other \in Card \ {c} : content[other] = "old"]_vars

\* WriteToDisk and the job it returns behave as DiskWriter says: one card at
\* most is overwritten, and an error reaches the caller only if no card was
\* touched and no worker is left that could touch one.
Writer == INSTANCE DiskWriter WITH
    target <- agreed, card <- began,
    reply <- IF pc = "failed" THEN "error"
             ELSE IF pc \in {"unmount", "eject", "done"} THEN "nil" ELSE "pending"

ImplementsWriter == Writer!Spec

\* What the user is told is done: the reader ejected is the one agreed to, its worker has
\* ended, and dd has written the whole image, unless it failed, or the password was wrong,
\* and nobody looked.  After a refusal nothing is ejected.
Written == began # NoCard /\ content[began] = "image"

EjectAfterWrite ==
    ejected # NoDisk => ejected = agreed /\ wpc = "ended" /\ (Written \/ unseen # {})

\* The caller gets an answer and both goroutines come to their end: no order of
\* prompts, retries and errors parks the worker in a send for ever.
WriteEnds == <>(Finished)

-----------------------------------------------------------------------------
\* The inductive invariant of the proofs (module UnixWriteProofs).

Untouched == \A c \in Card : content[c] = "old"

Selecting == pc \in {"list", "choose", "check", "again", "confirm", "spawn"}

\* Before the go statement there is no worker, no card was touched and nobody
\* waits.
NoWorkerYet ==
    wpc = "none" => /\ Untouched /\ tries = 0 /\ werr = "nil"
                    /\ pc # "wait"
                    /\ worker = "running" /\ waiter = "away" /\ first = "nil"

\* The disk under consideration is listed, and is the one asked for.
Listed(d) == d \in mounts /\ (requested # NoDisk => d = requested)
Selection ==
    /\ pc = "again" => attempt + 1 < DiskSelectionTries
    /\ pc = "check" => Listed(dev)
    /\ pc = "confirm" => requested = NoDisk
    /\ pc \in {"confirm", "spawn"} => Listed(mount)
    /\ Selecting => wpc = "none" /\ ejected = NoDisk
    /\ Selecting /\ pc # "spawn" => agreed = NoDisk
    /\ pc = "spawn" => agreed = IF requested = NoDisk THEN mount ELSE NoDisk

\* From the go statement on, the struct names the disk agreed to.
WorkerOnAgreedDisk ==
    wpc # "none" => /\ Listed(mount) /\ agreed = mount
                    /\ ~Selecting /\ waiter # "away"
                    /\ pc = "wait" \/ waiter = "returned"

\* One card is touched, the one that dd has opened; it is in the reader as long as dd has
\* it open, and the card that was checked is there until the user changes it.
OneCard ==
    /\ \A c \in Card : content[c] # "old" => c = began
    /\ fd # NoCard => wpc = "dd" /\ fd = began /\ slot[mount] = fd
    /\ \A c \in Card : AtMostOneReader(c)
    /\ pc \in {"confirm", "spawn"} \/ wpc # "none" => swapped \/ slot[mount] = checked
    /\ Untouched => began = NoCard

\* Until dd runs the cards are as they were; a worker that still has an error to
\* report has not run it.
DDRunsOnce ==
    /\ wpc \in {"start", "prompt", "typing", "ask"} => Untouched
    /\ wpc \in {"try", "spin"} /\ tries < WriteAttempts => Untouched
    /\ wpc \in {"start", "prompt", "typing", "ask", "dd"} => tries < WriteAttempts
    /\ wpc # "dd" /\ werr = SudoError => Untouched
    /\ wpc = "ask" => werr = SudoError
    /\ wpc = "spin" => tries > 0
    /\ wpc \in {"try", "spin"} /\ 0 < tries /\ tries < WriteAttempts => werr = SudoError
    /\ wpc \in {"spin", "report", "ended"} => werr = SudoError \/ Written \/ unseen # {}
    /\ wpc = "try" /\ tries > 0 => werr = SudoError \/ Written \/ unseen # {}

\* The error reported is the worker's last, and it is reported before the end.
ReportedAtEnd ==
    /\ first # "nil" => werr = SudoError /\ wpc \in {"report", "ended"}
    /\ wpc = "ended" /\ werr = SudoError => first = SudoError
    /\ wpc = "ended" <=> worker = "closed"

\* What the caller has been told.
ReplyMatches ==
    /\ pc = "failed" /\ wpc # "none" => result = SudoError
    /\ pc \in {"unmount", "eject", "done"} =>
           \/ wpc # "none" /\ result = "nil"
           \/ wpc = "none" /\ ~writable
    /\ ejected # NoDisk => pc = "done" /\ wpc # "none" /\ ejected = mount

WriteInv == /\ TypeOK /\ Job!NothingMissed /\ Job!ResultIsFirstError
            /\ NoWorkerYet /\ Selection /\ WorkerOnAgreedDisk
            /\ OneCard /\ DDRunsOnce /\ ReportedAtEnd /\ ReplyMatches
=============================================================================
