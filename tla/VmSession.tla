------------------------------ MODULE VmSession ------------------------------
(***************************************************************************)
(* The virtual machine over the runs of the program: CheckMachine          *)
(* downloads, unpacks and registers it, GetVbox looks whether it runs,     *)
(* startVM (VmStart) waits until it answers, and Stop powers it off.  The  *)
(* archive, the machine's files, its registration and the running machine  *)
(* outlive a run; all else is lost with the process.                       *)
(***************************************************************************)
EXTENDS VmStart

CONSTANTS
    MaxKills,     \* bound: how often the user interrupts the program
    MaxFaults,    \* bound: how often the disk, the network or VBoxManage fails
    MaxPublished  \* bound: how often a new version is published

ASSUME SessionAssumption == {MaxKills, MaxFaults, MaxPublished} \subseteq Nat

VARIABLES
    ppc,         \* Prepare, and the rest of the flasher's run
    quiet,       \* the flag -q
    found,       \* did GetVbox find the machine running?
    zip,         \* the archive of the published version: "none", "part" or "whole"
    files,       \* the machine's files: "none", "some" without the .vbox file,
                 \* "part" with it but not all the disk, or "whole"
    registered,  \* is the machine registered?
    online,      \* does the server answer?
    abandoned,   \* history: a run ended while the machine was booting
    kills, faults, published

disk == <<zip, files, registered>>
bounds == <<kills, faults, published>>
run == <<quiet, found>>
session == <<ppc, run, disk, online, abandoned, bounds>>
allVars == <<vars, session>>

SessionTypeOK ==
    /\ TypeOK
    /\ ppc \in {"idle", "check", "download", "unzip", "register", "stop", "getvbox", "starting", "ready"}
    /\ {quiet, found, registered, online, abandoned} \subseteq BOOLEAN
    /\ zip \in {"none", "part", "whole"} /\ files \in {"none", "some", "part", "whole"}
    /\ kills \in 0 .. MaxKills /\ faults \in 0 .. MaxFaults /\ published \in 0 .. MaxPublished

SessionInit ==
    /\ Init
    /\ ppc = "idle" /\ quiet = FALSE /\ found = FALSE
    /\ zip = "none" /\ files = "none" /\ registered = FALSE
    /\ online \in BOOLEAN /\ abandoned = FALSE
    /\ kills = 0 /\ faults = 0 /\ published = 0

Fault == faults < MaxFaults /\ faults' = faults + 1

-----------------------------------------------------------------------------
\* A run begins with a new process and ends with it.

StartRun ==
    /\ ppc = "idle" /\ ppc' = "check"
    /\ quiet' \in BOOLEAN
    /\ UNCHANGED <<vars, found, disk, online, abandoned, bounds>>

\* os.Exit, a panic, an interrupt or the end of main: the goroutines are gone, and
\* the machine stays as it is (machine is what the last step made of it).
Exit(machine) ==
    /\ ppc' = "idle" /\ quiet' = FALSE /\ found' = FALSE
    /\ vm' = machine
    /\ abandoned' = (machine # "off" /\ (abandoned \/ machine = "booting"))
    /\ pc' = "start" /\ gpc' = "none" /\ tick' = FALSE /\ waited' = 0 /\ answered' = FALSE
    /\ worker' = "running" /\ sending' = FALSE /\ waiter' = "away"
    /\ spinEn' = FALSE /\ result' = "pending" /\ first' = "nil"
    /\ UNCHANGED <<halts, suspends, online, published>>

Goto(next) ==
    /\ ppc' = next
    /\ UNCHANGED <<quiet, online, abandoned, kills, published>>

-----------------------------------------------------------------------------
\* CheckMachine

\* Without an answer of the server the repository is nil, and GetURL panics.
CheckMachineOffline ==
    /\ ppc = "check" /\ files \in {"none", "some"} /\ ~online
    /\ Exit(vm)
    /\ UNCHANGED <<disk, kills, faults>>

\* Faulty variant: the machine's directory is looked for, not its .vbox file.
CheckMachineDir ==
    /\ ppc = "check" /\ (files = "none" => online)
    /\ Goto(CASE files # "none" -> "register"
              [] files = "none" /\ zip = "none" -> "download"
              [] OTHER -> "unzip")
    /\ UNCHANGED <<vars, found, disk, faults>>

\* Only a file's existence is looked at, whatever it holds.
CheckMachine ==
    /\ ppc = "check" /\ (files \in {"none", "some"} => online)
    /\ Goto(CASE files \in {"part", "whole"} -> "register"
              [] files \in {"none", "some"} /\ zip = "none" -> "download"
              [] OTHER -> "unzip")
    /\ UNCHANGED <<vars, found, disk, faults>>

\* DownloadAsync: the length could not be read, in three attempts.
DownloadRefused ==
    /\ ppc = "download" /\ zip = "none"
    /\ Fault /\ Exit(vm)
    /\ UNCHANGED <<disk, kills>>

DownloadBegins ==
    /\ ppc = "download" /\ zip = "none" /\ zip' = "part"
    /\ Goto("download")
    /\ UNCHANGED <<vars, found, files, registered, faults>>

\* wg.Wait returns whether or not the file is whole (ImageDownload).
DownloadEnds ==
    /\ ppc = "download" /\ zip = "part"
    /\ \/ zip' = "whole" /\ UNCHANGED faults
       \/ Fault /\ UNCHANGED zip
    /\ Goto("unzip")
    /\ UNCHANGED <<vars, found, files, registered>>

\* A part of an archive lacks the directory at its end.
OpenFails ==
    /\ ppc = "unzip" /\ zip = "part"
    /\ Exit(vm)
    /\ UNCHANGED <<disk, kills, faults>>

\* help.Unzip: the entries in the archive's order, whichever that is; files that an
\* earlier run left are written again from their start.
Unzip ==
    /\ ppc = "unzip" /\ zip = "whole"
    /\ files' \in CASE files = "none" -> {"some", "part"}
                    [] files = "some" -> {"part", "whole"}
                    [] OTHER -> {"whole"}
    /\ Goto(IF files' = "whole" THEN "register" ELSE "unzip")
    /\ UNCHANGED <<vars, found, zip, registered, faults>>

UnzipFails ==
    /\ ppc = "unzip" /\ zip = "whole"
    /\ Fault /\ Exit(vm)
    /\ UNCHANGED <<disk, kills>>

\* registervm, unless the machine is known; it need not accept one without its disk.
Register ==
    /\ ppc = "register" /\ files # "some"
    /\ registered' = TRUE
    /\ Goto("stop")
    /\ UNCHANGED <<vars, found, zip, files, faults>>

RegisterFails ==
    /\ ppc = "register" /\ ~registered
    /\ \/ files # "whole" /\ UNCHANGED faults
       \/ Fault
    /\ Exit(vm)
    /\ UNCHANGED <<disk, kills>>

-----------------------------------------------------------------------------
\* GetVbox, startVM, and the run's end.

\* StopMachines asks for each machine that runs, unless the run is quiet; its user may
\* keep the machine.
StopMachines ==
    /\ ppc = "stop"
    /\ vm' \in IF quiet THEN {vm} ELSE {vm, "off"}
    /\ Goto("getvbox")
    /\ UNCHANGED <<halts, suspends, pc, gpc, tick, waited, answered, job, found, disk, faults>>

PoweroffFails ==
    /\ ppc = "stop" /\ vm # "off" /\ ~quiet
    /\ Fault /\ Exit(vm)
    /\ UNCHANGED <<disk, kills>>

\* A machine that runs is used as it is; startVM is left out.
GetVbox ==
    /\ ppc = "getvbox"
    /\ found' = (vm # "off")
    /\ Goto(IF vm # "off" THEN "ready" ELSE "starting")
    /\ UNCHANGED <<vars, disk, faults>>

\* A machine without its disk does not start.
StartVM ==
    /\ ppc = "starting"
    /\ Caller
    /\ pc = "start" /\ pc' = "wait" => files = "whole"
    /\ UNCHANGED session

Started ==
    /\ ppc = "starting" /\ pc = "ok"
    /\ Goto("ready")
    /\ UNCHANGED <<vars, found, disk, faults>>

StartFailed ==
    /\ ppc = "starting" /\ pc = "failed"
    /\ Exit(vm)
    /\ UNCHANGED <<disk, kills, faults>>

\* An error of the flasher's later steps leaves the machine running.
WorkFails ==
    /\ ppc = "ready"
    /\ Exit(vm)
    /\ UNCHANGED <<disk, kills, faults>>

\* Done: Stop asks unless the run is quiet; an error of Poweroff is only logged.
Stop ==
    /\ ppc = "ready"
    /\ \/ Exit("off") /\ UNCHANGED faults
       \/ ~quiet /\ Exit(vm) /\ UNCHANGED faults
       \/ Fault /\ Exit(vm)
    /\ UNCHANGED <<disk, kills>>

Kill ==
    /\ ppc # "idle" /\ kills < MaxKills /\ kills' = kills + 1
    /\ Exit(vm)
    /\ UNCHANGED <<disk, faults>>

-----------------------------------------------------------------------------
\* What goes on beside a run.

\* A version has a directory of its own.
Publish ==
    /\ ppc = "idle" /\ published < MaxPublished /\ published' = published + 1
    /\ zip' = "none"
    /\ UNCHANGED <<vars, ppc, run, files, registered, online, abandoned, kills, faults>>

Outage == online' = ~online /\ UNCHANGED <<vars, ppc, run, disk, abandoned, bounds>>

Environment ==
    \/ (Boot \/ Period \/ Suspend) /\ UNCHANGED session
    \/ Halt /\ abandoned' = FALSE /\ UNCHANGED <<ppc, run, disk, online, bounds>>
    \/ Publish \/ Outage

Install ==
    \/ CheckMachineOffline \/ CheckMachine
    \/ DownloadRefused \/ DownloadBegins \/ DownloadEnds
    \/ OpenFails \/ Unzip \/ UnzipFails \/ Register \/ RegisterFails

Work ==
    \/ StopMachines \/ PoweroffFails \/ GetVbox
    \/ StartVM \/ Started \/ StartFailed \/ WorkFails \/ Stop

Poller == Worker /\ UNCHANGED session

SessionNext == StartRun \/ Install \/ Work \/ Poller \/ Kill \/ Environment

\* The process takes its steps and time passes; the user need not start it again.
SessionSpec ==
    /\ SessionInit /\ [][SessionNext]_allVars
    /\ WF_allVars(Install) /\ WF_allVars(Work) /\ WF_allVars(Poller)
    /\ WF_allVars(Period /\ UNCHANGED session)

-----------------------------------------------------------------------------
\* The later steps of a run have a machine that answered this run, or one that ran
\* before it.  Such a machine may still be booting, but only if an earlier run was
\* left while it booted: GetVbox takes "running" for "ready" (vbox.go:354).
ReadyMachine ==
    ppc = "ready" => (answered \/ found) /\ (vm = "booting" => abandoned)

\* A run that starts a machine that comes to answer, and is left alone, does not wait
\* for ever, whatever earlier runs left.
AnswerEndsStart == <>[](vm = "up") => []<>(ppc # "starting")

\* A user who tries again and again has the machine installed at last, if the server
\* answers from some time on, whatever was interrupted before; all that stands in
\* the way for ever is a cut archive or a cut disk, whose existence is
\* taken for success (machine.go:35, 47).
InstallRecovers ==
    <>[]online /\ []<>(ppc = "check") =>
        <>[](files = "whole" \/ files = "part" \/ zip = "part")
=============================================================================
