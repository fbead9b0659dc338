------------------------------ MODULE SdFlasher ------------------------------
(***************************************************************************)
(* Flashing an SD card: sdFlasher and its variants raspberryPi and         *)
(* beagleBone.  A run of iotit prepares an image inside the virtual        *)
(* machine, mounts it there, writes the user's configuration into it,      *)
(* copies the image file out and writes it to the card.                    *)
(*                                                                         *)
(* The machine outlives the program: a run that fails, is interrupted, or  *)
(* whose user keeps the machine leaves its mounts behind, and the next run *)
(* starts from them.  Several runs are therefore modelled, one after the   *)
(* other, and between them the user of VirtualBox may suspend the machine. *)
(* Within a run the main goroutine (pc) and the goroutine that mounts the  *)
(* image (mpc) are separate: for a beagleBone they overlap.                *)
(*                                                                         *)
(* Data is what the properties tell apart.  Image file r is the one that   *)
(* run r brings into the machine; a plain .img that an earlier run brought *)
(* is found there and used again.  <<r, "root">> and <<r, "boot">> stand   *)
(* for the configuration run r writes into the two kinds of partition.     *)
(***************************************************************************)
EXTENDS VmDisk, FiniteSets

CONSTANTS
    MaxRuns,     \* bound: runs of the program
    Devices,     \* flashers under test, of {"sd", "raspi", "beagle"}
    Kinds        \* partition tables of images, sequences of "boot", "root", "data"

ASSUME RunAssumption == /\ MaxRuns \in Nat \ {0}
                        /\ Image = 1 .. MaxRuns
                        /\ NoImage \notin Image
                        /\ \A kd \in Kinds : /\ kd \in Seq({"boot", "root", "data"})
                                              /\ Len(kd) <= MaxParts

VARIABLES
    \* the virtual machine
    state,       \* "running", "suspended" (paused or saved) or "poweroff"
    vm,          \* its loop devices and mounts
    dirty,       \* configuration in its page cache, not yet in the image file
    saved,       \* configuration in the image file
    \* the host
    card,        \* what the run has written to its card: {} stands for nothing, or an unconfigured image
    copy,        \* configuration in the image file as copied out of the machine
    \* the run
    run, device, quiet,
    kind,        \* the partition tables of the image files
    img,         \* d.img: the image file each run works on
    reused,      \* history: the runs that worked in a machine they found running or suspended
    bootLeft,    \* history: did the umount of the boot partition fail without being noticed?
    pc,
    chosen,      \* did Setup store anything for Write to apply?
    mounted, configured,   \* fields of the flasher
    answer,      \* history: what the run ended with
    \* the mounting goroutine
    mpc, k, outcome

machine == <<state, vm, dirty, saved>>
host == <<card, copy>>
choice == <<run, device, quiet, kind, img, reused, bootLeft>>
flow == <<pc, chosen, answer>>
mounter == <<mpc, k, outcome>>
fields == <<mounted, configured>>
vars == <<machine, host, choice, flow, mounter, fields>>

Item == Image \X {"root", "boot"}

MachineOK ==
    /\ state \in {"running", "suspended", "poweroff"} /\ vm \in Vm
    /\ dirty \in [Image -> SUBSET Item] /\ saved \in [Image -> SUBSET Item]

HostOK == card \subseteq Item /\ copy \subseteq Item

RunOK ==
    /\ run \in 0 .. MaxRuns
    /\ device \in Devices /\ quiet \in BOOLEAN /\ kind \in [Image -> Kinds]
    /\ img \in [Image -> Image] /\ reused \subseteq Image /\ bootLeft \in BOOLEAN
    /\ pc \in {"ended", "prepare", "mount", "raspi", "ask", "wait", "setup", "link", "apply",
               "umountImg", "umountBoot", "proceed", "copy", "disk", "stop", "done"}
    /\ chosen \in BOOLEAN /\ mounted \in BOOLEAN /\ configured \in BOOLEAN
    /\ answer \in {"none", "complete", "not proceeded", "error", "killed"}

MounterOK ==
    /\ mpc \in {"idle", "detach", "attach", "mkdir", "mount", "list", "clear", "probe", "look", "boot"}
    /\ k \in 1 .. MaxParts + 1
    /\ outcome \in {"pending", "ok", "raspi", "error"}

TypeOK == MachineOK /\ HostOK /\ RunOK /\ MounterOK

Init ==
    /\ state = "poweroff" /\ vm = Booted
    /\ dirty = [i \in Image |-> {}] /\ saved = [i \in Image |-> {}]
    /\ card = {} /\ copy = {}
    /\ run = 0 /\ device \in Devices /\ quiet = FALSE /\ kind \in [Image -> Kinds]
    /\ img = [r \in Image |-> r] /\ reused = {} /\ bootLeft = FALSE
    /\ pc = "ended" /\ chosen = FALSE /\ mounted = FALSE /\ configured = FALSE
    /\ answer = "none"
    /\ mpc = "idle" /\ k = 1 /\ outcome = "pending"
-----------------------------------------------------------------------------
\* The machine's own steps and the user's interruptions.

\* The kernel writes cached data of a mounted image back to its file.
Writeback(i) ==
    /\ state = "running"
    /\ dirty[i] # {}
    /\ saved' = [saved EXCEPT ![i] = @ \cup dirty[i]]
    /\ dirty' = [dirty EXCEPT ![i] = {}]
    /\ UNCHANGED <<state, vm, host, choice, flow, mounter, fields>>

\* Ctrl-C, or a closed terminal: the process is gone, the machine stays.
Kill ==
    /\ pc # "ended"
    /\ pc' = "ended" /\ answer' = "killed" /\ chosen' = FALSE
    /\ mounted' = FALSE /\ configured' = FALSE
    /\ mpc' = "idle" /\ k' = 1 /\ outcome' = "pending"
    /\ UNCHANGED <<machine, host, choice>>

\* The writes below a mount point are in the image file when it is unmounted, unless
\* the same partition stays mounted elsewhere.
Flushed(p) ==
    LET i == ImageAt(vm, p)
        part == IF p = "isaax-boot" THEN "boot" ELSE "root"
        items == {x \in dirty[i] : x[2] = part}
    IN  IF i = NoImage \/ MountedTwice(vm, p) THEN UNCHANGED <<dirty, saved>>
        ELSE /\ saved' = [saved EXCEPT ![i] = @ \cup items]
             /\ dirty' = [dirty EXCEPT ![i] = @ \ items]

Unmounted(p) == vm' = Umount(vm, p) /\ Flushed(p)
Detached(p) == vm' = DetachAll(Umount(vm, p)) /\ Flushed(p)

Go(from, to) == pc = from /\ pc' = to
Fail(from) == Go(from, "ended") /\ answer' = "error" /\ UNCHANGED chosen
Goto(from, to) == Go(from, to) /\ UNCHANGED <<chosen, answer>>

-----------------------------------------------------------------------------
\* Prepare: the machine, then the image.

\* The start of the program: which board, which image file, quiet or not, and a card of
\* its own.  The file is a new one, or a plain .img of an earlier run, which uploadImage
\* finds in the machine and extractImage takes as it is.
StartRun(d, q, i) ==
    /\ Go("ended", "prepare")
    /\ run < MaxRuns /\ run' = run + 1
    /\ i = run + 1 \/ \E r \in 1 .. run : i = img[r]
    /\ img' = [img EXCEPT ![run + 1] = i]
    /\ kind[i] = (CASE d = "raspi" -> <<"boot", "root">>
                    [] d = "beagle" -> <<"root">>
                    [] OTHER -> kind[i])
    /\ device' = d /\ quiet' = q
    /\ chosen' = FALSE /\ answer' = "none" /\ mounted' = FALSE /\ configured' = FALSE
    /\ outcome' = "pending" /\ bootLeft' = FALSE /\ card' = {}
    /\ UNCHANGED <<machine, copy, kind, reused, mpc, k>>

\* Stopping the machine loses what its page cache holds, and all its mounts.
Poweroff ==
    /\ state' = "poweroff"
    /\ vm' = Booted
    /\ dirty' = [i \in Image |-> {}]
    /\ UNCHANGED saved

\* Between two runs the user of VirtualBox, or the host going to sleep, may suspend
\* the machine, resume it or switch it off.
Switched ==
    /\ pc = "ended" /\ run < MaxRuns
    /\ \/ state = "running" /\ state' = "suspended" /\ UNCHANGED <<vm, dirty, saved>>
       \/ state = "suspended" /\ state' = "running" /\ UNCHANGED <<vm, dirty, saved>>
       \/ state # "poweroff" /\ Poweroff
    /\ UNCHANGED <<host, choice, flow, mounter, fields>>

\* The image is there, or Prepare has failed.
Prepared ==
    /\ pc = "prepare" /\ pc' \in {"mount", "ended"}
    /\ answer' = IF pc' = "ended" THEN "error" ELSE answer

\* A running machine is kept in quiet mode, or when the user does not let
\* StopMachines stop it.
PrepareKeeps ==
    /\ state = "running"
    /\ Prepared
    /\ reused' = reused \cup {run}
    /\ UNCHANGED <<machine, host, run, device, quiet, kind, img, bootLeft, chosen, mounter, fields>>

\* StopMachines passes over a suspended machine, and Start resumes it.
PrepareResumes ==
    /\ state = "suspended"
    /\ Prepared
    /\ state' \in {"suspended", "running"}
    /\ pc' = "mount" => state' = "running"
    /\ reused' = reused \cup {run}
    /\ UNCHANGED <<vm, dirty, saved, host, run, device, quiet, kind, img, bootLeft, chosen, mounter, fields>>

\* Faulty variant: the machine is stopped by saving its state, so that it starts with its mounts.
PrepareStartsSaved ==
    /\ state # "suspended" /\ (state = "running" => ~quiet)
    /\ Prepared
    /\ state' \in {"poweroff", "running"}
    /\ pc' = "mount" => state' = "running"
    /\ UNCHANGED <<vm, dirty, saved, host, choice, chosen, mounter, fields>>

\* A machine that is powered off, by StopMachines or before, is started from scratch.
PrepareStarts ==
    /\ state # "suspended" /\ (state = "running" => ~quiet)
    /\ Prepared
    /\ state' \in {"poweroff", "running"}
    /\ pc' = "mount" => state' = "running"
    /\ vm' = Booted
    /\ dirty' = [i \in Image |-> {}]
    /\ UNCHANGED <<saved, host, choice, chosen, mounter, fields>>

-----------------------------------------------------------------------------
\* MountImg: the mounting goroutine, or the main one when it calls it itself.

\* The flow of raspberryPi.Configure, entered directly or from sdFlasher.MountImg.
Raspi == device = "raspi" \/ configured

\* Start mounting; a beagleBone goes on with its questions meanwhile.
StartMount ==
    /\ \/ pc = "mount" /\ pc' = IF device = "beagle" THEN "ask" ELSE "wait"
       \/ pc = "raspi" /\ pc' = "wait"
    /\ mpc' = "detach" /\ k' = 1 /\ outcome' = "pending"
    /\ UNCHANGED <<machine, host, choice, chosen, answer, fields>>

MGoto(from, to) == mpc = from /\ mpc' = to /\ UNCHANGED outcome
MEnd(from, res) == mpc = from /\ mpc' = "idle" /\ outcome' = res

\* losetup -D, whose failure is ignored; d.img may be empty after Prepare.
LosetupD ==
    /\ \/ MEnd("detach", "error") /\ UNCHANGED vm
       \/ MGoto("detach", "attach") /\ vm' \in {vm, DetachAll(vm)}
    /\ UNCHANGED <<state, dirty, saved, host, choice, flow, k, fields>>

LosetupF ==
    /\ \/ MEnd("attach", "error") /\ UNCHANGED vm
       \/ MGoto("attach", "mkdir") /\ HasFree(vm) /\ vm' = Attach(vm, img[run])
    /\ UNCHANGED <<state, dirty, saved, host, choice, flow, k, fields>>

\* mkdir -p; then a flasher that knows its partition mounts it, others search.
MkMountDir ==
    /\ \/ MEnd("mkdir", "error") /\ UNCHANGED mounted
       \/ /\ MGoto("mkdir", IF Raspi \/ device = "beagle" THEN "mount" ELSE "list")
          /\ mounted' = FALSE
    /\ UNCHANGED <<machine, host, choice, flow, k, configured>>

\* sdFlasher.mount: success and failure, with the attempts to repair a damaged
\* file system between them.  "is already mounted" is success.
MountSucceeds(no, p) ==
    LET part == [loop |-> 0, no |-> no]
        i == vm.loop[0]
    IN  \/ AlreadyMounted(vm, part, p) /\ UNCHANGED vm
        \/ /\ ~AlreadyMounted(vm, part, p)
           /\ i # NoImage /\ no \in DOMAIN kind[i]
           /\ vm' = Mount(vm, part, p)

\* Faulty variant: the goroutine ends without closing its job.
MountRootNoClose ==
    /\ \/ MEnd("mount", "error") /\ UNCHANGED <<vm, mounted>>
       \/ /\ MountSucceeds(IF Raspi THEN 2 ELSE 1, "isaax-sd")
          /\ mounted' = TRUE
          /\ IF Raspi THEN MGoto("mount", "boot") ELSE MEnd("mount", "pending")
    /\ UNCHANGED <<state, dirty, saved, host, choice, flow, k, configured>>

MountRoot ==
    /\ \/ MEnd("mount", "error") /\ UNCHANGED <<vm, mounted>>
       \/ /\ MountSucceeds(IF Raspi THEN 2 ELSE 1, "isaax-sd")
          /\ mounted' = TRUE
          /\ IF Raspi THEN MGoto("mount", "boot") ELSE MEnd("mount", "ok")
    /\ UNCHANGED <<state, dirty, saved, host, choice, flow, k, configured>>

BootPart == [loop |-> 0, no |-> 1]

\* raspberryPi.MountBoot: its exec looks at the connection only, so that a mount
\* that fails is not noticed.
MountBoot ==
    /\ \/ MEnd("boot", "error") /\ UNCHANGED vm
       \/ MEnd("boot", "ok") /\ (UNCHANGED vm \/ MountSucceeds(1, "isaax-boot"))
    /\ UNCHANGED <<state, dirty, saved, host, choice, flow, k, fields>>

\* ls /dev/loop0p*
ListParts ==
    /\ \/ MEnd("list", "error")
       \/ MGoto("list", "clear") /\ vm.loop[0] # NoImage
    /\ UNCHANGED <<machine, host, choice, flow, k, fields>>

\* umount of the mount point before the search, result ignored.
ClearPoint ==
    /\ MGoto("clear", "probe")
    /\ Unmounted("isaax-sd") \/ UNCHANGED <<vm, dirty, saved>>
    /\ UNCHANGED <<state, host, choice, flow, k, fields>>

\* The partitions of loop0, whatever image that device is attached to.
Listed == IF vm.loop[0] = NoImage THEN {} ELSE DOMAIN kind[vm.loop[0]]

\* Mount the k-th partition of loop0, or go on with the next one.
Probe ==
    /\ k \in Listed
    /\ \/ MGoto("probe", "look") /\ MountSucceeds(k, "isaax-sd") /\ UNCHANGED k
       \/ MGoto("probe", "probe") /\ k' = k + 1 /\ UNCHANGED vm
    /\ UNCHANGED <<state, dirty, saved, host, choice, flow, fields>>

\* No partition is left: MountImg returns nil, with mounted unset.
ProbeNone ==
    /\ k \notin Listed
    /\ MEnd("probe", "ok")
    /\ UNCHANGED <<machine, host, choice, flow, k, fields>>

\* What ls of the mount point shows: the partition on top.
Top == LET part == Last(vm.at["isaax-sd"]) IN kind[vm.loop[part.loop]][part.no]

\* ls fails: the next partition is mounted over this one.
LookFails ==
    /\ MGoto("look", "probe") /\ k' = k + 1
    /\ UNCHANGED <<machine, host, choice, flow, fields>>

LookRaspi ==
    /\ MEnd("look", "raspi") /\ Top = "boot"
    /\ Unmounted("isaax-sd") \/ UNCHANGED <<vm, dirty, saved>>
    /\ UNCHANGED <<state, host, choice, flow, k, fields>>

LookRoot ==
    /\ MEnd("look", "ok") /\ Top = "root"
    /\ mounted' = TRUE
    /\ UNCHANGED <<machine, host, choice, flow, k, configured>>

LookOther ==
    /\ MGoto("look", "probe") /\ Top = "data" /\ k' = k + 1
    /\ Unmounted("isaax-sd") \/ UNCHANGED <<vm, dirty, saved>>
    /\ UNCHANGED <<state, host, choice, flow, fields>>

MountImg == \/ LosetupD \/ LosetupF \/ MkMountDir \/ MountRoot \/ MountBoot \/ ListParts
            \/ ClearPoint \/ Probe \/ ProbeNone \/ LookFails \/ LookRaspi \/ LookRoot \/ LookOther

-----------------------------------------------------------------------------
\* Configure: the main goroutine.

\* WaitJobAndSpin, or the return of MountImg.
MountFails == outcome = "error" /\ Fail("wait")

\* sdFlasher.MountImg found a Raspberry Pi image and hands over to
\* raspberryPi.Configure, which mounts it again.
MountFindsRaspi ==
    /\ outcome = "raspi" /\ Goto("wait", "raspi")
    /\ configured' = TRUE

\* "Do you want to proceed to image writing anyway?"
MountFindsNothing ==
    /\ outcome = "ok" /\ ~mounted
    /\ Goto("wait", "proceed") \/ Fail("wait")

MountDone ==
    /\ outcome = "ok" /\ mounted
    /\ Goto("wait", IF device = "beagle" THEN "link" ELSE "ask")

AwaitMount ==
    /\ mpc = "idle"
    /\ \/ MountFindsRaspi
       \/ (MountFails \/ MountFindsNothing \/ MountDone) /\ UNCHANGED configured
    /\ UNCHANGED <<machine, host, choice, mounter, mounted>>

\* A write below a mount point reaches the image mounted there, or is lost in
\* the machine's own directory.
WriteAt(p, item) ==
    LET i == ImageAt(vm, p)
    IN  dirty' = IF i = NoImage THEN dirty ELSE [dirty EXCEPT ![i] = @ \cup {item}]

\* What umount and the losetup -D after it leave when either may have failed.
LeftMounted == vm' \in {vm, DetachAll(vm)} /\ UNCHANGED <<dirty, saved>>
UnmountAndDetach(p) == Unmounted(p) \/ Detached(p) \/ LeftMounted

\* Faulty variant: a beagleBone that asks no question does not wait for its mount.
AfterAskNoWait(yes) == IF yes THEN "setup"
                       ELSE IF Raspi \/ device = "beagle" THEN "apply" ELSE "umountImg"

\* What follows the questions, or their absence.
AfterAsk(yes) == IF yes THEN "setup"
                 ELSE IF device = "beagle" THEN "wait"
                 ELSE IF Raspi THEN "apply" ELSE "umountImg"

\* "Would you like to configure your board?"; in quiet mode a Raspberry Pi gets
\* its SSH server enabled instead.
AskConfigure(yes) ==
    /\ quiet => ~yes
    /\ Goto("ask", AfterAsk(yes))
    /\ IF quiet /\ Raspi THEN WriteAt("isaax-boot", <<run, "boot">>) ELSE UNCHANGED dirty
    /\ UNCHANGED <<state, vm, saved, host, choice, mounter, fields>>

\* Configurator.Setup: the answers go to the storage, except that SSH server and
\* camera of a Raspberry Pi are set up at once; a failing question ends it.
Setup ==
    /\ \/ Goto("setup", IF device = "beagle" THEN "wait" ELSE "apply")
       \/ Go("setup", IF device = "beagle" THEN "wait" ELSE "apply") /\ chosen' = TRUE /\ UNCHANGED answer
    /\ (Raspi /\ WriteAt("isaax-boot", <<run, "boot">>)) \/ UNCHANGED dirty
    /\ UNCHANGED <<state, vm, saved, host, choice, mounter, fields>>

\* The program ends with its mounting goroutine, wherever that one is.
SetupFails ==
    /\ Fail("setup")
    /\ (Raspi /\ WriteAt("isaax-boot", <<run, "boot">>)) \/ UNCHANGED dirty
    /\ mpc' = "idle"
    /\ UNCHANGED <<state, vm, saved, host, choice, k, outcome, fields>>

\* The udev rule of the beagleBone.
LinkRules ==
    /\ Goto("link", "apply") \/ Fail("link")
    /\ UNCHANGED <<machine, host, choice, mounter, fields>>

\* Configurator.Write applies what Setup stored; it may fail before or after it
\* has written something.
Stored == IF chosen THEN WriteAt("isaax-sd", <<run, "root">>) ELSE UNCHANGED dirty

Apply ==
    /\ \/ Goto("apply", "umountImg") /\ Stored
       \/ Fail("apply") /\ (Stored \/ UNCHANGED dirty)
    /\ UNCHANGED <<state, vm, saved, host, choice, mounter, fields>>

\* sdFlasher.UnmountImg returns at once if the image is mounted; the failure of a command
\* is an error.
UnmountImg ==
    /\ IF mounted
       THEN Goto("umountImg", IF Raspi THEN "umountBoot" ELSE "proceed") /\ UNCHANGED <<vm, dirty, saved>>
       ELSE \/ Goto("umountImg", "proceed") /\ Detached("isaax-sd")
            \/ Fail("umountImg") /\ UnmountAndDetach("isaax-sd")
    /\ UNCHANGED <<state, host, choice, mounter, fields>>

\* Faulty variant: the boot partition is left mounted, like the root partition.
UnmountBootSkipped ==
    /\ Goto("umountBoot", "proceed")
    /\ UNCHANGED <<machine, host, choice, mounter, fields>>

\* raspberryPi.UnmountBoot: its exec looks at the connection only, so that the image is
\* copied also when umount or losetup has failed.
UnmountBoot ==
    /\ \/ /\ Goto("umountBoot", "proceed") /\ UNCHANGED bootLeft
          /\ Unmounted("isaax-boot") \/ Detached("isaax-boot")
       \/ /\ Goto("umountBoot", "proceed") /\ bootLeft' = TRUE
          /\ IsMounted(vm, "isaax-boot") /\ LeftMounted
       \/ Fail("umountBoot") /\ UnmountAndDetach("isaax-boot") /\ UNCHANGED bootLeft
    /\ UNCHANGED <<state, host, run, device, quiet, kind, img, reused, mounter, fields>>

-----------------------------------------------------------------------------
\* Write: out of the machine and onto the card.

\* "Proceed to image flashing?"; no ends the run with a nil error, and the
\* machine keeps running.
Proceed ==
    /\ \/ Goto("proceed", "copy")
       \/ ~quiet /\ Go("proceed", "ended") /\ answer' = "not proceeded" /\ UNCHANGED chosen
    /\ UNCHANGED <<machine, host, choice, mounter, fields>>

\* Faulty variant: a failed copy goes unnoticed, and an earlier one is written.
ScpFromUnchecked ==
    /\ Goto("copy", "disk")
    /\ copy' \in {copy, saved[img[run]]}
    /\ UNCHANGED <<machine, card, choice, mounter, fields>>

\* The copy job: scp of the image file, as it is now.
ScpFrom ==
    /\ \/ Goto("copy", "disk") /\ copy' = saved[img[run]]
       \/ Fail("copy") /\ UNCHANGED copy
    /\ UNCHANGED <<machine, card, choice, mounter, fields>>

\* WriteToDisk and its job (module LinuxWrite): an error leaves the card alone;
\* without one the card has the image, or not: the user may have refused, or dd
\* failed unseen.
WriteToDisk ==
    /\ \/ Fail("disk") /\ UNCHANGED card
       \/ Goto("disk", "stop") /\ UNCHANGED card
       \/ Goto("disk", "stop") /\ card' = copy
    /\ UNCHANGED <<machine, copy, choice, mounter, fields>>

\* Config.Stop: power off in quiet mode and if the user agrees; its error is logged.
Stop ==
    /\ Goto("stop", "done")
    /\ Poweroff \/ UNCHANGED machine
    /\ UNCHANGED <<host, choice, mounter, fields>>

\* "Flashing Complete!"
Done ==
    /\ Go("done", "ended")
    /\ answer' = "complete"
    /\ UNCHANGED <<machine, host, choice, chosen, mounter, fields>>

-----------------------------------------------------------------------------
Main == \/ \E d \in Devices, q \in BOOLEAN, i \in Image : StartRun(d, q, i)
        \/ PrepareKeeps \/ PrepareResumes \/ PrepareStarts \/ StartMount \/ AwaitMount
        \/ \E yes \in BOOLEAN : AskConfigure(yes)
        \/ Setup \/ SetupFails \/ LinkRules \/ Apply \/ UnmountImg \/ UnmountBoot
        \/ Proceed \/ ScpFrom \/ WriteToDisk \/ Stop \/ Done

Environment == Kill \/ Switched \/ \E i \in Image : Writeback(i)

\* The last run has ended.
Terminated == pc = "ended" /\ run = MaxRuns /\ UNCHANGED vars

Next == Main \/ MountImg \/ Environment \/ Terminated

\* Commands return and dialogs are answered; nothing obliges the kernel to write
\* its cache back, nor the user to interrupt the program.
Spec == Init /\ [][Next]_vars /\ WF_vars(Main) /\ WF_vars(MountImg)

-----------------------------------------------------------------------------
\* What a user may rely on.

\* Configuration that run r may find in its image file: its own, that of an earlier run
\* since the file was brought, if it worked on this file or went astray in a machine
\* it had found running or suspended.
Expected(item, r) ==
    /\ img[r] <= item[1] /\ item[1] <= r
    /\ img[item[1]] = img[r] \/ item[1] \in reused

\* A card written from a new image file carries the configuration of the run that wrote
\* it and of no other, whatever earlier runs left mounted in the machine.  Only a plain
\* .img of an earlier run, used again as it is, brings that run's configuration along.
NoForeignConfig == \A item \in card : Expected(item, run)

\* Configuration reaches an image file that its run does not work on only if this run
\* found the machine running and kept it, or found it suspended and resumed it.
StrayConfigNeedsKeptMachine ==
    \A i \in Image : \A item \in dirty[i] \cup saved[i] :
        img[item[1]] # i => item[1] \in reused

\* When the configuration is written something is mounted to receive it: a
\* mount that failed, or is still under way, is never written to.
AppliedWhileMounted == pc = "apply" => mounted /\ ImageAt(vm, "isaax-sd") # NoImage

\* The boot partition is complete when the image file is copied out: whatever the run
\* wrote to it is in the file, unless its umount failed without being noticed, or the
\* search for the Linux partition, of this run or an earlier one, left it mounted a
\* second time.
BootCopiedWhole ==
    pc \in {"proceed", "copy"} /\ ~bootLeft /\ ~AlreadyMounted(vm, BootPart, "isaax-sd") =>
        <<run, "boot">> \notin dirty[img[run]]

\* Every run ends, with the mounting goroutine's outcome received or dropped.
RunEnds == pc # "ended" ~> pc = "ended"

=============================================================================
