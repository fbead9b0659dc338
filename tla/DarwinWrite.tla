----------------------------- MODULE DarwinWrite -----------------------------
(***************************************************************************)
(* workstation.WriteToDisk on macOS, beside that on Linux: os says which   *)
(* of the two the program was built for.  It differs in two places.        *)
(*                                                                         *)
(* ListRemovableDisk has rounds of its own, inside those of WriteToDisk;   *)
(* after the last it returns an empty list and no error, and the list of   *)
(* the struct keeps what an earlier round found.                           *)
(*                                                                         *)
(* The worker first unmounts the disk by diskutil, which needs sudo and    *)
(* has the same prompt and as many attempts as dd; stage says which of the *)
(* two commands the worker is about.  All other steps are LinuxWrite's.    *)
(***************************************************************************)
EXTENDS LinuxWrite

VARIABLES
    os,       \* "linux" or "darwin"
    round,    \* the round of ListRemovableDisk
    asking,   \* does ListRemovableDisk ask whether to continue?
    stage     \* the worker's command: "unmount" or "dd"

listing == <<round, asking>>
dvars == <<os, listing, stage>>
hostVars == <<vars, dvars>>

HostTypeOK ==
    /\ TypeOK
    /\ os \in {"linux", "darwin"}
    /\ round \in 0 .. DiskSelectionTries - 1 /\ asking \in BOOLEAN
    /\ stage \in {"unmount", "dd"}

HostInit ==
    /\ Init
    /\ os \in {"linux", "darwin"}
    /\ round = 0 /\ asking = FALSE
    /\ stage = IF os = "darwin" THEN "unmount" ELSE "dd"

-----------------------------------------------------------------------------
\* ListRemovableDisk of macOS; refusing to continue is its only error.

\* One round: an empty list is asked about, unless it is the last one's.
DarwinLists ==
    /\ pc = "list" /\ ~asking
    /\ IF Inserted = {} /\ round + 1 < DiskSelectionTries
       THEN asking' = TRUE /\ UNCHANGED <<pc, err, mounts, round>>
       ELSE /\ pc' = "choose" /\ err' = "nil" /\ round' = 0
            /\ mounts' = IF Inserted = {} THEN mounts ELSE Inserted
            /\ UNCHANGED asking
    /\ UNCHANGED <<env, store, attempt, dev, mount, writable, ejected, agreed, checked, work, job, os, stage>>

DarwinAsks(yes) ==
    /\ asking /\ asking' = FALSE
    /\ IF yes THEN round' = round + 1 /\ UNCHANGED <<pc, err>>
              ELSE round' = 0 /\ err' = "no disk" /\ NextRound
    /\ UNCHANGED <<env, store, attempt, mounts, dev, mount, writable, ejected, agreed, checked, work, job,
                   os, stage>>

\* A dialog with nothing to select ends the program.
NothingToSelect ==
    /\ Go("choose", "failed")
    /\ mounts = {} /\ requested = NoDisk
    /\ UNCHANGED <<env, store, attempt, err, mounts, dev, mount, writable, ejected, agreed, checked, work,
                   job, dvars>>

-----------------------------------------------------------------------------
\* The worker's first command.

\* diskutil unmountDisk has run, whatever it did, and dd is next.
UnmountDisk ==
    /\ stage = "unmount" /\ stage' = "dd"
    /\ \E from \in {"start", "typing"} : Step(from, "try")
    /\ werr' = "nil" /\ tries' = 0
    /\ UNCHANGED <<env, store, caller, unseen, job, os, listing>>

-----------------------------------------------------------------------------
DarwinCaller ==
    \/ DarwinLists \/ (\E yes \in BOOLEAN : DarwinAsks(yes)) \/ NothingToSelect
    \/ AfterListing /\ UNCHANGED dvars

DarwinWorker ==
    \/ UnmountDisk
    \/ stage = "dd" /\ RunDD /\ UNCHANGED dvars
    \/ Attempts /\ UNCHANGED dvars

HostCaller == IF os = "darwin" THEN DarwinCaller ELSE Caller /\ UNCHANGED dvars
HostWorker == IF os = "darwin" THEN DarwinWorker ELSE Worker /\ UNCHANGED dvars

HostNext == HostCaller \/ HostWorker \/ ((User \/ Terminated) /\ UNCHANGED dvars)

\* As in LinuxWrite: both goroutines run, dialogs are answered, commands end.
HostSpec == HostInit /\ [][HostNext]_hostVars /\ WF_hostVars(HostCaller) /\ WF_hostVars(HostWorker)
=============================================================================
