------------------------------- MODULE VmDisk -------------------------------
(***************************************************************************)
(* The Linux kernel of the iotit-box virtual machine, as far as the        *)
(* flashers use it over SSH: loop devices and the mounts on them.  It is   *)
(* outside the repository; what its commands do is what the flashers       *)
(* expect of losetup, mount and umount, and of a kernel that lets losetup  *)
(* -D "detach" a loop device in use by marking it for later (LO_FLAGS_     *)
(* AUTOCLEAR), without any complaint.                                      *)
(*                                                                         *)
(* A value of type Vm is                                                   *)
(*    loop   what image each loop device is attached to                    *)
(*    lazy   the loop devices that detach when their last mount goes       *)
(*    at     for each mount point the stack of partitions mounted on it    *)
(* A partition is a record of its loop device and its number.              *)
(***************************************************************************)
EXTENDS Naturals, Sequences, SequencesExt

CONSTANTS Loop,      \* loop devices, 0 .. n
          Image,     \* image files
          NoImage,
          MaxParts   \* partitions of an image

\* The image is looked for on /dev/loop0.
ASSUME DiskAssumption == 0 \in Loop /\ Loop \subseteq Nat /\ MaxParts \in Nat

Point == {"isaax-sd", "isaax-boot"}   \* config.MountDir and bootMount
Part == [loop : Loop, no : 1 .. MaxParts]

Vm == [loop : [Loop -> Image \cup {NoImage}],
       lazy : SUBSET Loop,
       at : [Point -> Seq(Part)]]

\* A machine that has just been started.
Booted == [loop |-> [l \in Loop |-> NoImage],
           lazy |-> {},
           at |-> [p \in Point |-> <<>>]]

Busy(vm, l) == \E p \in Point : \E i \in DOMAIN vm.at[p] : vm.at[p][i].loop = l

IsMounted(vm, p) == vm.at[p] # <<>>

\* The image a path under mount point p leads to.
ImageAt(vm, p) == IF IsMounted(vm, p) THEN vm.loop[Last(vm.at[p]).loop] ELSE NoImage

\* losetup -D
DetachAll(vm) ==
    LET used == {l \in Loop : Busy(vm, l)}
    IN  [vm EXCEPT !.loop = [l \in Loop |-> IF l \in used THEN @[l] ELSE NoImage],
                   !.lazy = used]

\* losetup -f -P: the first free loop device
HasFree(vm) == \E l \in Loop : vm.loop[l] = NoImage
Attach(vm, img) ==
    LET l == CHOOSE l \in Loop : /\ vm.loop[l] = NoImage
                                 /\ \A k \in Loop : vm.loop[k] = NoImage => l <= k
    IN  [vm EXCEPT !.loop[l] = img]

\* mount -o rw /dev/loop<l>p<n> <p>
Mount(vm, part, p) == [vm EXCEPT !.at[p] = Append(@, part)]

\* The error "is already mounted", which mount() of the flasher takes for success.
AlreadyMounted(vm, part, p) == \E i \in DOMAIN vm.at[p] : vm.at[p][i] = part

\* Is the partition on top of p mounted elsewhere as well?  Then umount <p> leaves its file
\* system, and what that has cached, in use.
MountedTwice(vm, p) ==
    IsMounted(vm, p) /\ \E q \in Point \ {p} : AlreadyMounted(vm, Last(vm.at[p]), q)

\* umount <p>: the top of the stack goes, and with it a lazy loop device.
Umount(vm, p) ==
    IF ~IsMounted(vm, p) THEN vm
    ELSE LET popped == [vm EXCEPT !.at[p] = Front(@)]
             freed == {l \in vm.lazy : ~Busy(popped, l)}
         IN  [popped EXCEPT !.loop = [l \in Loop |-> IF l \in freed THEN NoImage ELSE @[l]],
                            !.lazy = @ \ freed]
=============================================================================
