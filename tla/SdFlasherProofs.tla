--------------------------- MODULE SdFlasherProofs ---------------------------
(***************************************************************************)
(* What the SD flashers guarantee for any number of runs, loop devices and *)
(* partitions, with any tables of them.  SdInv follows a run's             *)
(* configuration from the mount point it is written below to the card.     *)
(***************************************************************************)
EXTENDS SdFlasher, SequenceTheorems, TLAPS

States == {"running", "suspended", "poweroff"}

\* From the end of Prepare to the copy of the image no step unmounts what was mounted.
InMachine == {"mount", "raspi", "ask", "wait", "setup", "link", "apply", "umountImg", "umountBoot",
              "proceed", "copy", "disk"}

\* The mounting goroutine lives while the main one waits for it, or asks its
\* questions for a beagleBone; it searches only if the flasher does not know the partition.
Mounting ==
    /\ pc # "ended" => run \in Image
    /\ mpc # "idle" => pc = "wait" \/ (device = "beagle" /\ pc \in {"ask", "setup"})
    /\ mpc # "idle" => outcome = "pending"
    /\ mpc \in {"list", "clear", "probe", "look"} => ~Raspi /\ device # "beagle" /\ ~mounted
    /\ mpc = "look" => k \in 1 .. MaxParts
    /\ outcome = "raspi" => device # "beagle" /\ ~mounted
    /\ configured => device # "beagle"
    /\ pc = "raspi" => configured

\* The field mounted is true only if something is mounted, and is looked at before anything
\* is written.
Mounted ==
    /\ pc \in {"prepare", "mount", "raspi"} => ~mounted
    /\ pc \in InMachine /\ mounted => IsMounted(vm, "isaax-sd")
    /\ mpc = "look" => IsMounted(vm, "isaax-sd")
    /\ pc \in {"ask", "setup"} => mounted \/ device = "beagle"
    /\ pc \in {"link", "apply"} => mounted
    /\ pc = "umountImg" /\ Raspi => mounted

\* No loop device loses its image while a partition of it is mounted.
AllAttached(v) == \A p \in Point : \A i \in DOMAIN v.at[p] : v.loop[v.at[p][i].loop] # NoImage
Attached == AllAttached(vm)

\* Only the first partition of the first loop device is ever mounted on the boot mount point.
BootPoint(v) == v.at["isaax-boot"] \in {<<>>, <<BootPart>>}

\* No image file is attached before it is brought, and only the run's own in a machine
\* that was started for this run.
ImagesOfRuns ==
    /\ \A r \in Image : img[r] <= r
    /\ \A l \in Loop : vm.loop[l] # NoImage =>
           /\ vm.loop[l] <= run
           /\ pc \notin {"ended", "prepare"} /\ run \notin reused => vm.loop[l] = img[run]

\* Configuration is in the image file its run works on, or went astray in a machine that
\* was not started for its run.
ConfigOfRuns ==
    /\ \A i \in Image : \A item \in dirty[i] \cup saved[i] :
           /\ i <= item[1] /\ item[1] <= run
           /\ img[item[1]] # i => item[1] \in reused
    /\ pc = "disk" => \A item \in copy : Expected(item, run)
    /\ NoForeignConfig

\* Between its configuration and its unmount the boot partition of the image stays mounted;
\* after it the configuration is in the file, unless the partition is mounted elsewhere.
BootMounted ==
    pc # "ended" /\ ~bootLeft /\ <<run, "boot">> \in dirty[img[run]] =>
        \/ /\ pc \in {"apply", "umountImg", "umountBoot"} /\ Raspi
           /\ ImageAt(vm, "isaax-boot") = img[run]
        \/ /\ pc \in {"proceed", "copy", "disk", "stop", "done"}
           /\ AlreadyMounted(vm, BootPart, "isaax-sd")

SdInv == /\ TypeOK /\ Mounting /\ Mounted /\ Attached /\ BootPoint(vm)
         /\ ImagesOfRuns /\ ConfigOfRuns /\ BootMounted
-----------------------------------------------------------------------------
\* The operators of VmDisk.

\* The top of a mount point, and what is left of it when that goes.
LEMMA StackProperties ==
  ASSUME NEW s \in Seq(Part), s # <<>>
  PROVE  /\ Len(s) \in DOMAIN s /\ Last(s) = s[Len(s)] /\ Last(s) \in Part
         /\ Front(s) \in Seq(Part)
         /\ DOMAIN Front(s) \subseteq DOMAIN s
         /\ \A i \in DOMAIN Front(s) : Front(s)[i] = s[i]
<1>1. Len(s) \in Nat \ {0} /\ DOMAIN s = 1 .. Len(s)
  BY EmptySeq, LenProperties
<1>2. \A i \in 1 .. Len(s) : s[i] \in Part
  BY ElementOfSeq
<1>3. /\ SubSeq(s, 1, Len(s) - 1) \in Seq(Part)
      /\ Len(SubSeq(s, 1, Len(s) - 1)) = Len(s) - 1
      /\ \A i \in 1 .. Len(s) - 1 : SubSeq(s, 1, Len(s) - 1)[i] = s[i]
  <2>1. \A i \in 1 .. Len(s) - 1 : s[i] \in Part
    BY <1>1, <1>2
  <2>2. Len(s) - 1 \in Int
    BY <1>1
  <2> HIDE DEF Part
  <2>3. /\ SubSeq(s, 1, Len(s) - 1) \in Seq(Part)
        /\ Len(SubSeq(s, 1, Len(s) - 1)) = IF 1 <= Len(s) - 1 THEN (Len(s) - 1) - 1 + 1 ELSE 0
        /\ \A i \in 1 .. (Len(s) - 1) - 1 + 1 : SubSeq(s, 1, Len(s) - 1)[i] = s[1 + i - 1]
    BY <2>1, <2>2, SubSeqProperties
  <2> QED
    BY <2>3, <1>1
<1>4. DOMAIN Front(s) = 1 .. Len(s) - 1
  BY <1>1, <1>3, LenProperties DEF Front
<1> QED
  BY <1>1, <1>2, <1>3, <1>4 DEF Front, Last

\* What is mounted is a partition of a loop device.
LEMMA LoopOfMount ==
  ASSUME NEW v \in Vm, NEW q \in Point, NEW i \in DOMAIN v.at[q]
  PROVE  v.at[q][i] \in Part /\ v.at[q][i].loop \in Loop
<1>1. v.at[q] \in Seq(Part)
  BY DEF Vm
<1>2. i \in 1 .. Len(v.at[q])
  BY <1>1, LenProperties
<1>3. v.at[q][i] \in Part
  <2> HIDE DEF Part
  <2> QED
    BY <1>1, <1>2, ElementOfSeq
<1> QED
  BY <1>3 DEF Part

\* Only detaches and unmounts lie between the machines v and w.
Shrunk(v, w) ==
    /\ \A q \in Point : DOMAIN w.at[q] \subseteq DOMAIN v.at[q]
    /\ \A q \in Point : \A i \in DOMAIN w.at[q] : w.at[q][i] = v.at[q][i]
    /\ \A l \in Loop : w.loop[l] \in {v.loop[l], NoImage}

\* The machine without the top of a mount point.
Popped(v, p) == [v EXCEPT !.at[p] = Front(@)]

\* What the machine without the top of a mount point keeps.
LEMMA PoppedProperties ==
  ASSUME NEW v \in Vm, NEW p \in Point, IsMounted(v, p)
  PROVE  LET popped == Popped(v, p) IN
         /\ popped \in Vm /\ popped.loop = v.loop /\ popped.lazy = v.lazy
         /\ \A q \in Point : DOMAIN popped.at[q] \subseteq DOMAIN v.at[q]
         /\ \A q \in Point : \A i \in DOMAIN popped.at[q] : popped.at[q][i] = v.at[q][i]
         /\ \A q \in Point \ {p} : popped.at[q] = v.at[q]
<1> DEFINE popped == Popped(v, p)
<1>1. v.at \in [Point -> Seq(Part)] /\ v.at[p] \in Seq(Part) /\ v.at[p] # <<>>
  BY DEF Vm, IsMounted
<1>2. /\ Front(v.at[p]) \in Seq(Part)
      /\ DOMAIN Front(v.at[p]) \subseteq DOMAIN v.at[p]
      /\ \A i \in DOMAIN Front(v.at[p]) : Front(v.at[p])[i] = v.at[p][i]
  BY <1>1, StackProperties
<1>3. /\ popped.loop = v.loop /\ popped.lazy = v.lazy
      /\ popped.at = [v.at EXCEPT ![p] = Front(v.at[p])]
      /\ popped = [loop |-> popped.loop, lazy |-> popped.lazy, at |-> popped.at]
  <2>1. v = [loop |-> v.loop, lazy |-> v.lazy, at |-> v.at]
    BY DEF Vm
  <2> QED
    BY <2>1 DEF Popped
<1> HIDE DEF Part, Point, popped
<1>4. popped.at \in [Point -> Seq(Part)]
  BY <1>1, <1>2, <1>3
<1>5. popped \in Vm
  BY <1>3, <1>4 DEF Vm
<1> QED
  BY <1>1, <1>2, <1>3, <1>4, <1>5 DEF popped

\* umount takes the top of one mount point away, and the loop devices that waited for it.
LEMMA UmountProperties ==
  ASSUME NEW v \in Vm, AllAttached(v), NEW p \in Point
  PROVE  /\ Umount(v, p) \in Vm /\ AllAttached(Umount(v, p)) /\ Shrunk(v, Umount(v, p))
         /\ \A q \in Point \ {p} : Umount(v, p).at[q] = v.at[q]
<1>1. CASE ~IsMounted(v, p)
  BY <1>1 DEF Umount, Shrunk
<1>2. CASE IsMounted(v, p)
  <2> DEFINE popped == Popped(v, p)
             freed == {l \in v.lazy : ~Busy(popped, l)}
             w == Umount(v, p)
  <2>1. /\ popped \in Vm /\ popped.loop = v.loop /\ popped.lazy = v.lazy
        /\ \A q \in Point : DOMAIN popped.at[q] \subseteq DOMAIN v.at[q]
        /\ \A q \in Point : \A i \in DOMAIN popped.at[q] : popped.at[q][i] = v.at[q][i]
        /\ \A q \in Point \ {p} : popped.at[q] = v.at[q]
    BY <1>2, PoppedProperties
  <2>2. w = [popped EXCEPT !.loop = [l \in Loop |-> IF l \in freed THEN NoImage ELSE @[l]],
                           !.lazy = @ \ freed]
    BY <1>2 DEF Umount, Popped
  <2> HIDE DEF popped, w
  <2>3. /\ w.loop = [l \in Loop |-> IF l \in freed THEN NoImage ELSE v.loop[l]]
        /\ w.lazy = v.lazy \ freed
        /\ w.at = popped.at
        /\ w = [loop |-> w.loop, lazy |-> w.lazy, at |-> w.at]
    BY <2>1, <2>2 DEF Vm
  <2>4. w \in Vm
    BY <2>1, <2>3 DEF Vm
  <2>5. AllAttached(w)
    <3> SUFFICES ASSUME NEW q \in Point, NEW i \in DOMAIN w.at[q]
                 PROVE  w.loop[w.at[q][i].loop] # NoImage
      BY DEF AllAttached
    <3>1. w.at[q][i] = v.at[q][i] /\ i \in DOMAIN v.at[q]
      BY <2>1, <2>3
    <3>2. v.loop[v.at[q][i].loop] # NoImage
      BY <3>1 DEF AllAttached
    <3>3. v.at[q][i].loop \in Loop
      BY <3>1, LoopOfMount
    <3>4. Busy(popped, v.at[q][i].loop)
      BY <2>1, <2>3, <3>1 DEF Busy
    <3> QED
      BY <2>3, <3>1, <3>2, <3>3, <3>4
  <2>6. Shrunk(v, w)
    BY <2>1, <2>3 DEF Shrunk, Vm
  <2> QED
    BY <2>1, <2>3, <2>4, <2>5, <2>6 DEF w
<1> QED
  BY <1>1, <1>2

\* losetup -D leaves what is mounted attached, and all mounts alone.
LEMMA DetachProperties ==
  ASSUME NEW v \in Vm, AllAttached(v)
  PROVE  /\ DetachAll(v) \in Vm /\ AllAttached(DetachAll(v)) /\ Shrunk(v, DetachAll(v))
         /\ DetachAll(v).at = v.at
<1> DEFINE used == {l \in Loop : Busy(v, l)}
           w == DetachAll(v)
<1>0. v = [loop |-> v.loop, lazy |-> v.lazy, at |-> v.at]
  BY DEF Vm
<1>1. /\ w.loop = [l \in Loop |-> IF l \in used THEN v.loop[l] ELSE NoImage]
      /\ w.lazy = used /\ w.at = v.at
      /\ w = [loop |-> w.loop, lazy |-> w.lazy, at |-> w.at]
  <2> HIDE DEF used
  <2>1. w = [v EXCEPT !.loop = [l \in Loop |-> IF l \in used THEN @[l] ELSE NoImage], !.lazy = used]
    BY DEF DetachAll, used
  <2> HIDE DEF w
  <2> QED
    BY <1>0, <2>1
<1> HIDE DEF w
<1>2. w \in Vm
  BY <1>1 DEF Vm
<1>3. AllAttached(w)
  <2> SUFFICES ASSUME NEW q \in Point, NEW i \in DOMAIN v.at[q]
               PROVE  w.loop[v.at[q][i].loop] # NoImage
    BY <1>1 DEF AllAttached
  <2>1. v.at[q][i].loop \in Loop
    BY LoopOfMount
  <2>2. Busy(v, v.at[q][i].loop)
    BY DEF Busy
  <2> QED
    BY <1>1, <2>1, <2>2 DEF AllAttached
<1>4. Shrunk(v, w)
  BY <1>1 DEF Shrunk, Vm
<1> QED
  BY <1>1, <1>2, <1>3, <1>4 DEF w

\* losetup -f attaches the image to one loop device, if there is a first one free.
LEMMA AttachProperties ==
  ASSUME NEW v \in Vm, AllAttached(v), NEW i \in Image
  PROVE  /\ Attach(v, i) \in Vm /\ AllAttached(Attach(v, i)) /\ Attach(v, i).at = v.at
         /\ \A l \in Loop : Attach(v, i).loop[l] \in {v.loop[l], i}
<1> DEFINE w == Attach(v, i)
<1>1. PICK d : w = [v EXCEPT !.loop[d] = i]
  BY DEF Attach
<1>2. /\ w.loop = [v.loop EXCEPT ![d] = i] /\ w.lazy = v.lazy /\ w.at = v.at
      /\ w = [loop |-> w.loop, lazy |-> w.lazy, at |-> w.at]
  BY <1>1 DEF Vm
<1> HIDE DEF w
<1>3. \A l \in Loop : w.loop[l] \in {v.loop[l], i}
  BY <1>2 DEF Vm
<1>4. w \in Vm
  BY <1>2 DEF Vm
<1>5. AllAttached(w)
  <2> SUFFICES ASSUME NEW q \in Point, NEW n \in DOMAIN v.at[q]
               PROVE  w.loop[v.at[q][n].loop] # NoImage
    BY <1>2 DEF AllAttached
  <2>1. v.at[q][n].loop \in Loop
    BY LoopOfMount
  <2> QED
    BY <1>3, <2>1, RunAssumption DEF AllAttached
<1> QED
  BY <1>2, <1>3, <1>4, <1>5 DEF w

\* mount puts a partition on one mount point.
LEMMA MountProperties ==
  ASSUME NEW v \in Vm, AllAttached(v), NEW part \in Part, NEW p \in Point,
         v.loop[part.loop] # NoImage
  PROVE  /\ Mount(v, part, p) \in Vm /\ AllAttached(Mount(v, part, p))
         /\ Mount(v, part, p).loop = v.loop /\ IsMounted(Mount(v, part, p), p)
         /\ \A q \in Point \ {p} : Mount(v, part, p).at[q] = v.at[q]
<1> DEFINE w == Mount(v, part, p)
<1>1. v.at \in [Point -> Seq(Part)] /\ v.at[p] \in Seq(Part)
  BY DEF Vm
<1>0. v = [loop |-> v.loop, lazy |-> v.lazy, at |-> v.at]
  BY DEF Vm
<1>2. /\ w.loop = v.loop /\ w.lazy = v.lazy /\ w.at = [v.at EXCEPT ![p] = Append(v.at[p], part)]
      /\ w = [loop |-> w.loop, lazy |-> w.lazy, at |-> w.at]
  BY <1>0 DEF Mount
<1>3. /\ Append(v.at[p], part) \in Seq(Part) /\ Append(v.at[p], part) # <<>>
      /\ DOMAIN Append(v.at[p], part) = 1 .. Len(v.at[p]) + 1
      /\ \A i \in 1 .. Len(v.at[p]) : Append(v.at[p], part)[i] = v.at[p][i]
      /\ Append(v.at[p], part)[Len(v.at[p]) + 1] = part
  <2> HIDE DEF Part
  <2> QED
    BY <1>1, AppendProperties, LenProperties
<1>4. DOMAIN v.at[p] = 1 .. Len(v.at[p]) /\ Len(v.at[p]) \in Nat
  BY <1>1, LenProperties
<1> HIDE DEF w, Part, Point
<1>5. w.at[p] = Append(v.at[p], part) /\ \A q \in Point \ {p} : w.at[q] = v.at[q]
  BY <1>1, <1>2
<1>6. w \in Vm
  BY <1>1, <1>2, <1>3 DEF Vm
<1>7. AllAttached(w)
  <2> SUFFICES ASSUME NEW q \in Point, NEW i \in DOMAIN w.at[q]
               PROVE  v.loop[w.at[q][i].loop] # NoImage
    BY <1>2 DEF AllAttached
  <2>1. CASE q # p
    BY <1>5, <2>1 DEF AllAttached
  <2>2. CASE q = p
    <3>1. i \in 1 .. Len(v.at[p]) + 1 /\ w.at[q][i] = Append(v.at[p], part)[i]
      BY <1>3, <1>5, <2>2
    <3>2. CASE i = Len(v.at[p]) + 1
      BY <1>3, <3>1, <3>2
    <3>3. CASE i # Len(v.at[p]) + 1
      <4>1. i \in DOMAIN v.at[p]
        BY <1>4, <3>1, <3>3
      <4> QED
        BY <1>3, <1>4, <3>1, <4>1 DEF AllAttached
    <3> QED
      BY <3>2, <3>3
  <2> QED
    BY <2>1, <2>2
<1> QED
  BY <1>2, <1>3, <1>5, <1>6, <1>7 DEF w, IsMounted

\* The image below a mount point is one of those attached.
LEMMA ImageAtProperties ==
  ASSUME NEW v \in Vm, NEW p \in Point
  PROVE  /\ ImageAt(v, p) = NoImage \/ \E l \in Loop : ImageAt(v, p) = v.loop[l]
         /\ AllAttached(v) /\ IsMounted(v, p) => ImageAt(v, p) # NoImage
<1>1. CASE IsMounted(v, p)
  <2>1. v.at[p] \in Seq(Part) /\ v.at[p] # <<>>
    BY <1>1 DEF Vm, IsMounted
  <2>2. Len(v.at[p]) \in DOMAIN v.at[p] /\ Last(v.at[p]) = v.at[p][Len(v.at[p])] /\ Last(v.at[p]) \in Part
    BY <2>1, StackProperties
  <2> QED
    BY <1>1, <2>2 DEF ImageAt, AllAttached, Part
<1>2. CASE ~IsMounted(v, p)
  BY <1>2 DEF ImageAt
<1> QED
  BY <1>1, <1>2

\* Nothing is mounted in a machine that has just been started.
LEMMA BootedProperties == Booted \in Vm /\ AllAttached(Booted)
<1>1. \A q \in Point : Booted.at[q] = <<>>
  BY DEF Booted
<1>2. Booted \in Vm
  BY EmptySeq DEF Booted, Vm
<1> QED
  BY <1>1, <1>2 DEF AllAttached

\* A mount point whose stack no step touched still leads to the same image.
LEMMA SameImage ==
  ASSUME NEW v \in Vm, NEW w \in Vm, NEW p \in Point, AllAttached(w), Shrunk(v, w), w.at[p] = v.at[p]
  PROVE  ImageAt(w, p) = ImageAt(v, p)
<1>1. CASE IsMounted(v, p)
  <2>1. v.at[p] \in Seq(Part) /\ v.at[p] # <<>>
    BY <1>1 DEF Vm, IsMounted
  <2>2. Len(v.at[p]) \in DOMAIN v.at[p] /\ Last(v.at[p]) = v.at[p][Len(v.at[p])] /\ Last(v.at[p]) \in Part
    BY <2>1, StackProperties
  <2>3. w.loop[Last(v.at[p]).loop] # NoImage
    BY <2>2 DEF AllAttached
  <2>4. Last(v.at[p]).loop \in Loop
    BY <2>2 DEF Part
  <2> QED
    BY <1>1, <2>3, <2>4 DEF ImageAt, IsMounted, Shrunk
<1>2. CASE ~IsMounted(v, p)
  BY <1>2 DEF ImageAt, IsMounted
<1> QED
  BY <1>1, <1>2

\* The boot mount point holds one partition at most, whatever is attached or unmounted.
LEMMA BootPointKept ==
  ASSUME NEW v \in Vm, AllAttached(v), BootPoint(v), NEW p \in Point
  PROVE  BootPoint(Umount(v, p)) /\ BootPoint(DetachAll(v)) /\ BootPoint(DetachAll(Umount(v, p)))
<1>1. Umount(v, p) \in Vm /\ AllAttached(Umount(v, p))
  BY UmountProperties
<1>2. BootPoint(Umount(v, p))
  <2>1. CASE ~IsMounted(v, p)
    BY <2>1 DEF Umount
  <2>2. CASE p # "isaax-boot"
    BY <2>2, UmountProperties DEF BootPoint, Point
  <2>3. CASE p = "isaax-boot" /\ IsMounted(v, p)
    <3>1. v.at[p] = <<BootPart>>
      BY <2>3 DEF BootPoint, IsMounted
    <3>2. Front(v.at[p]) = <<>>
      BY <3>1 DEF Front
    <3>3. Umount(v, p).at[p] = <<>>
      BY <2>3, <3>2 DEF Umount, Vm
    <3> QED
      BY <2>3, <3>3 DEF BootPoint
  <2> QED
    BY <2>1, <2>2, <2>3
<1>3. DetachAll(v).at = v.at /\ DetachAll(Umount(v, p)).at = Umount(v, p).at
  BY <1>1, DetachProperties
<1> QED
  BY <1>2, <1>3 DEF BootPoint

-----------------------------------------------------------------------------
\* What the steps do to the machine.

\* Configuration in an image of the machine, in its cache or in the file.
Config(i) == dirty[i] \cup saved[i]

\* The write-back of an unmount moves configuration from the cache into the file.
LEMMA FlushedProperties ==
  ASSUME MachineOK, NEW p \in Point, Flushed(p)
  PROVE  /\ dirty' \in [Image -> SUBSET Item] /\ saved' \in [Image -> SUBSET Item]
         /\ \A i \in Image : Config(i)' = Config(i) /\ dirty'[i] \subseteq dirty[i]
<1> DEFINE j == ImageAt(vm, p)
           part == IF p = "isaax-boot" THEN "boot" ELSE "root"
           items == {x \in dirty[j] : x[2] = part}
<1>1. j \in Image \cup {NoImage}
  BY ImageAtProperties DEF MachineOK, Vm
<1>2. CASE j = NoImage \/ MountedTwice(vm, p)
  BY <1>2 DEF Flushed, MachineOK, Config
<1>3. CASE ~(j = NoImage \/ MountedTwice(vm, p))
  <2>1. /\ saved' = [saved EXCEPT ![j] = saved[j] \cup items]
        /\ dirty' = [dirty EXCEPT ![j] = dirty[j] \ items]
    BY <1>3 DEF Flushed
  <2>2. items \subseteq dirty[j] /\ j \in Image
    BY <1>1, <1>3
  <2> HIDE DEF items, j
  <2> QED
    BY <2>1, <2>2 DEF MachineOK, Config
<1> QED
  BY <1>2, <1>3

\* A write below a mount point reaches only the image mounted there.
LEMMA WriteAtProperties ==
  ASSUME MachineOK, NEW p \in Point, NEW item \in Item, WriteAt(p, item)
  PROVE  /\ dirty' \in [Image -> SUBSET Item]
         /\ \A i \in Image : dirty'[i] \subseteq dirty[i] \cup (IF i = ImageAt(vm, p) THEN {item} ELSE {})
<1>1. ImageAt(vm, p) \in Image \cup {NoImage}
  BY ImageAtProperties DEF MachineOK, Vm
<1>2. dirty' = IF ImageAt(vm, p) = NoImage THEN dirty
               ELSE [dirty EXCEPT ![ImageAt(vm, p)] = dirty[ImageAt(vm, p)] \cup {item}]
  BY DEF WriteAt
<1> QED
  BY <1>1, <1>2 DEF MachineOK

\* An unmount, and the losetup -D behind it.
LEMMA UnmountedProperties ==
  ASSUME MachineOK, Attached, NEW p \in Point, Unmounted(p) \/ Detached(p)
  PROVE  /\ vm' \in Vm /\ AllAttached(vm') /\ \A q \in Point \ {p} : vm'.at[q] = vm.at[q]
         /\ Shrunk(vm, vm')
         /\ BootPoint(vm) => BootPoint(vm')
<1>1. /\ Umount(vm, p) \in Vm /\ AllAttached(Umount(vm, p)) /\ Shrunk(vm, Umount(vm, p))
      /\ \A q \in Point \ {p} : Umount(vm, p).at[q] = vm.at[q]
  BY UmountProperties DEF MachineOK, Attached
<1>b. /\ BootPoint(vm) => BootPoint(Umount(vm, p))
      /\ BootPoint(vm) => BootPoint(DetachAll(Umount(vm, p)))
  BY BootPointKept DEF MachineOK, Attached
<1>2. CASE Unmounted(p)
  BY <1>1, <1>b, <1>2 DEF Unmounted
<1>3. CASE Detached(p)
  <2>1. vm' = DetachAll(Umount(vm, p))
    BY <1>3 DEF Detached
  <2> DEFINE u == Umount(vm, p)
  <2>2. vm' \in Vm /\ AllAttached(vm') /\ Shrunk(u, vm') /\ vm'.at = u.at
    BY <1>1, <2>1, DetachProperties
  <2> QED
    BY <1>1, <1>b, <2>1, <2>2 DEF Shrunk
<1> QED
  BY <1>2, <1>3

\* A mount that succeeds puts something on its mount point.
LEMMA MountSucceedsProperties ==
  ASSUME MachineOK, RunOK, Attached, NEW p \in Point, NEW no \in Nat \ {0}, MountSucceeds(no, p)
  PROVE  /\ vm' \in Vm /\ AllAttached(vm') /\ vm'.loop = vm.loop /\ IsMounted(vm', p)
         /\ \A q \in Point \ {p} : vm'.at[q] = vm.at[q]
<1> DEFINE part == [loop |-> 0, no |-> no]
<1>1. CASE AlreadyMounted(vm, part, p) /\ UNCHANGED vm
  <2>1. vm.at[p] # <<>>
    <3>1. PICK i \in DOMAIN vm.at[p] : vm.at[p][i] = part
      BY <1>1 DEF AlreadyMounted
    <3> QED
      BY <3>1, EmptySeq
  <2> QED
    BY <1>1, <2>1 DEF MachineOK, Attached, IsMounted
<1>2. CASE /\ vm.loop[0] # NoImage /\ no \in DOMAIN kind[vm.loop[0]] /\ vm' = Mount(vm, part, p)
  <2>1. vm.loop[0] \in Image
    BY <1>2, DiskAssumption DEF MachineOK, Vm
  <2>2. kind[vm.loop[0]] \in Kinds
    BY <2>1 DEF RunOK
  <2>3. no \in 1 .. MaxParts
    <3> DEFINE kd == kind[vm.loop[0]]
    <3>1. kd \in Seq({"boot", "root", "data"}) /\ Len(kd) <= MaxParts /\ MaxParts \in Nat
      BY <2>2, RunAssumption, DiskAssumption
    <3>2. Len(kd) \in Nat /\ DOMAIN kd = 1 .. Len(kd)
      BY <3>1, LenProperties
    <3>3. no \in DOMAIN kd
      BY <1>2
    <3> HIDE DEF kd
    <3> QED
      BY <3>1, <3>2, <3>3
  <2>4. part \in Part /\ vm.loop[part.loop] # NoImage
    BY <1>2, <2>3, DiskAssumption DEF Part
  <2> HIDE DEF part
  <2> QED
    BY <1>2, <2>4, MountProperties DEF MachineOK, Attached
<1> QED
  BY <1>1, <1>2 DEF MountSucceeds

\* A mount keeps it so: a second one of the boot partition is refused as "already mounted".
LEMMA BootPointMounted ==
  ASSUME MachineOK, RunOK, Attached, BootPoint(vm), NEW p \in Point, NEW no \in Nat \ {0},
         p = "isaax-boot" => no = 1, MountSucceeds(no, p)
  PROVE  BootPoint(vm')
<1>1. CASE p # "isaax-boot"
  BY <1>1, MountSucceedsProperties DEF BootPoint, Point
<1>2. CASE p = "isaax-boot"
  <2>1. CASE UNCHANGED vm
    BY <2>1
  <2>2. CASE ~AlreadyMounted(vm, BootPart, p) /\ vm' = Mount(vm, BootPart, p)
    <3>1. vm.at[p] = <<>>
      <4>1. vm.at[p] = <<BootPart>> => 1 \in DOMAIN vm.at[p] /\ vm.at[p][1] = BootPart
        OBVIOUS
      <4> QED
        BY <1>2, <2>2, <4>1 DEF BootPoint, AlreadyMounted
    <3>2. vm'.at[p] = Append(vm.at[p], BootPart)
      BY <2>2 DEF Mount, MachineOK, Vm
    <3>3. vm'.at[p] = <<BootPart>>
      BY <3>1, <3>2
    <3> QED
      BY <1>2, <3>3 DEF BootPoint
  <2> QED
    BY <1>2, <2>1, <2>2 DEF MountSucceeds, BootPart
<1> QED
  BY <1>1, <1>2

\* The partitions of the first loop device have the numbers of a partition table.
LEMMA ListedProperties ==
  ASSUME MachineOK, RunOK
  PROVE  Listed \subseteq 1 .. MaxParts
<1>1. CASE vm.loop[0] = NoImage
  BY <1>1 DEF Listed
<1>2. CASE vm.loop[0] # NoImage
  <2> DEFINE kd == kind[vm.loop[0]]
  <2>1. kd \in Kinds
    BY <1>2, DiskAssumption DEF MachineOK, RunOK, Vm
  <2>2. kd \in Seq({"boot", "root", "data"}) /\ Len(kd) <= MaxParts /\ MaxParts \in Nat
    BY <2>1, RunAssumption, DiskAssumption
  <2>3. Len(kd) \in Nat /\ DOMAIN kd = 1 .. Len(kd)
    BY <2>2, LenProperties
  <2>4. Listed = DOMAIN kd
    BY <1>2 DEF Listed
  <2> HIDE DEF kd
  <2> QED
    BY <2>2, <2>3, <2>4
<1> QED
  BY <1>1, <1>2

-----------------------------------------------------------------------------
\* What a step does to the mounts, and to the configuration in the images.

\* Only losetup of the mounting goroutine attaches an image, that of this run; the boot mount
\* point holds one partition at most.
VmStep ==
    /\ vm' \in Vm /\ AllAttached(vm') /\ BootPoint(vm')
    /\ \A l \in Loop : \/ vm'.loop[l] \in {vm.loop[l], NoImage}
                       \/ mpc = "attach" /\ vm'.loop[l] = img[run]

\* Only the main goroutine adds configuration, its own, to an image mounted in the machine.
ConfigStep ==
    /\ dirty' \in [Image -> SUBSET Item] /\ saved' \in [Image -> SUBSET Item]
    /\ \A i \in Image : \A item \in Config(i)' :
           \/ item \in Config(i)
           \/ /\ pc \in {"ask", "setup", "apply"} /\ item[1] = run
              /\ \E p \in Point : ImageAt(vm, p) = i

\* The types of the host, the run and the mounting goroutine.
LEMMA OtherTypes ==
  ASSUME TypeOK, Mounting, Next
  PROVE  HostOK' /\ RunOK' /\ MounterOK'
<1>a. ASSUME UNCHANGED <<host, choice, mounter, fields>>,
             pc' \in {"ended", "apply", "umountImg", "umountBoot", "proceed", "copy", "done"},
             chosen' = chosen,
             answer' \in {answer, "error", "complete", "not proceeded"}
      PROVE  HostOK' /\ RunOK' /\ MounterOK'
  <2>1. HostOK' /\ MounterOK'
    BY <1>a DEF TypeOK, HostOK, MounterOK, host, mounter
  <2>2. RunOK'
    BY <1>a DEF TypeOK, RunOK, choice, fields
  <2> QED
    BY <2>1, <2>2
<1>b. ASSUME UNCHANGED <<host, choice, flow, fields, k>>,
             mpc' \in {"idle", "detach", "attach", "mkdir", "mount", "list", "clear", "probe", "look", "boot"},
             outcome' \in {"pending", "ok", "raspi", "error"}
      PROVE  HostOK' /\ RunOK' /\ MounterOK'
  <2>1. HostOK' /\ MounterOK'
    BY <1>b DEF TypeOK, HostOK, MounterOK, host
  <2>2. RunOK'
    BY <1>b DEF TypeOK, RunOK, choice, flow, fields
  <2> QED
    BY <2>1, <2>2
<1>1. ASSUME NEW d \in Devices, NEW q \in BOOLEAN, NEW i \in Image, StartRun(d, q, i) PROVE  HostOK' /\ RunOK' /\ MounterOK'
  <2>1. run < MaxRuns /\ run' = run + 1
    BY <1>1 DEF StartRun
  <2>2. run \in 0 .. MaxRuns
    BY DEF TypeOK, RunOK
  <2>3. run' \in 0 .. MaxRuns
    BY <2>1, <2>2, RunAssumption
  <2> QED
    BY <1>1, <2>3
       DEF StartRun, Go, TypeOK, HostOK, RunOK, MounterOK, Mounting, host, machine
<1>2. CASE PrepareKeeps
  BY <1>2
     DEF PrepareKeeps, Prepared, TypeOK, HostOK, RunOK, MounterOK, MachineOK, Mounting, fields, host,
         machine, mounter
<1>3. CASE PrepareStarts
  BY <1>3
     DEF PrepareStarts, Prepared, TypeOK, HostOK, RunOK, MounterOK, MachineOK, Mounting, choice, fields,
         host, mounter
<1>4. CASE StartMount
  <2>1. k' \in 1 .. MaxParts + 1
    BY <1>4, DiskAssumption DEF StartMount
  <2> QED
    BY <1>4, <2>1
       DEF StartMount, TypeOK, HostOK, RunOK, MounterOK, Mounting, choice, fields, host, machine
<1>5. CASE AwaitMount
  BY <1>5
     DEF AwaitMount, MountFindsRaspi, MountFails, MountFindsNothing, MountDone, Goto, Fail, Go,
         TypeOK, HostOK, RunOK, MounterOK, MachineOK, Mounting, choice, host, machine, mounter
<1>6. ASSUME NEW yes \in BOOLEAN, AskConfigure(yes) PROVE  HostOK' /\ RunOK' /\ MounterOK'
  <2>1. UNCHANGED <<host, choice, mounter, fields>>
    BY <1>6 DEF AskConfigure
  <2>2. /\ pc' \in {"setup", "umountImg", "proceed", "wait", "apply", "link"}
        /\ chosen' = chosen /\ answer' = answer
    BY <1>6 DEF AskConfigure, AfterAsk, Goto, Go
  <2>3. HostOK' /\ MounterOK'
    BY <2>1 DEF TypeOK, HostOK, MounterOK, host, mounter
  <2>4. RunOK'
    BY <2>1, <2>2 DEF TypeOK, RunOK, choice, fields
  <2> QED
    BY <2>3, <2>4
<1>7. CASE Setup
  <2>1. UNCHANGED <<host, choice, mounter, fields>>
    BY <1>7 DEF Setup
  <2>2. pc' \in {"wait", "apply"} /\ chosen' \in {chosen, TRUE} /\ answer' = answer
    BY <1>7 DEF Setup, Goto, Go
  <2>3. HostOK' /\ MounterOK'
    BY <2>1 DEF TypeOK, HostOK, MounterOK, host, mounter
  <2>4. RunOK'
    BY <2>1, <2>2 DEF TypeOK, RunOK, choice, fields
  <2> QED
    BY <2>3, <2>4
<1>8. CASE SetupFails
  <2>1. UNCHANGED <<host, choice, k, outcome, fields>>
    BY <1>8 DEF SetupFails
  <2>2. pc' = "ended" /\ chosen' = chosen /\ answer' = "error" /\ mpc' = "idle"
    BY <1>8 DEF SetupFails, Fail, Go
  <2>3. HostOK' /\ MounterOK'
    BY <2>1, <2>2 DEF TypeOK, HostOK, MounterOK, host
  <2>4. RunOK'
    BY <2>1, <2>2 DEF TypeOK, RunOK, choice, fields
  <2> QED
    BY <2>3, <2>4
<1>9. CASE LinkRules
  BY <1>9, <1>a DEF LinkRules, Goto, Fail, Go
<1>10. CASE Apply
  <2>1. UNCHANGED <<host, choice, mounter, fields>>
    BY <1>10 DEF Apply
  <2>2. pc' \in {"ended", "umountImg"} /\ chosen' = chosen /\ answer' \in {answer, "error"}
    BY <1>10 DEF Apply, Goto, Fail, Go
  <2> QED
    BY <1>a, <2>1, <2>2
<1>11. CASE UnmountImg
  BY <1>11, <1>a DEF UnmountImg, Goto, Fail, Go
<1>12. CASE UnmountBoot
  BY <1>12
     DEF UnmountBoot, Goto, Go, Fail, UnmountAndDetach, TypeOK, HostOK, RunOK, MounterOK,
         MachineOK, Mounting, choice, fields, host, mounter
<1>13. CASE Proceed
  BY <1>13, <1>a DEF Proceed, Goto, Fail, Go
<1>14. CASE ScpFrom
  BY <1>14
     DEF ScpFrom, Goto, Fail, Go, TypeOK, HostOK, RunOK, MounterOK, MachineOK, Mounting, choice,
         fields, machine, mounter
<1>15. CASE WriteToDisk
  BY <1>15
     DEF WriteToDisk, Goto, Fail, Go, TypeOK, HostOK, RunOK, MounterOK, MachineOK, Mounting,
         choice, fields, machine, mounter
<1>16. CASE Stop
  BY <1>16, <1>a DEF Stop, Goto, Fail, Go
<1>17. CASE Done
  BY <1>17, <1>a DEF Done, Goto, Fail, Go
<1>18. CASE LosetupD
  BY <1>18, <1>b DEF LosetupD, MEnd, MGoto, TypeOK, MounterOK
<1>19. CASE LosetupF
  BY <1>19, <1>b DEF LosetupF, MEnd, MGoto, TypeOK, MounterOK
<1>20. CASE MkMountDir
  BY <1>20
     DEF MkMountDir, MEnd, MGoto, TypeOK, HostOK, RunOK, MounterOK, MachineOK, Mounting, choice,
         flow, host, machine
<1>21. CASE MountRoot
  <2>1. UNCHANGED <<state, dirty, saved, host, choice, flow, k, configured>>
    BY <1>21 DEF MountRoot
  <2>2. mounted' \in BOOLEAN /\ mpc' \in {"idle", "boot"} /\ outcome' \in {"pending", "ok", "raspi", "error"}
    BY <1>21 DEF MountRoot, MEnd, MGoto, TypeOK, RunOK, MounterOK
  <2>3. HostOK' /\ MounterOK'
    BY <2>1, <2>2 DEF TypeOK, HostOK, MounterOK, host
  <2>4. RunOK'
    BY <2>1, <2>2 DEF TypeOK, RunOK, choice, flow
  <2> QED
    BY <2>3, <2>4
<1>22. CASE MountBoot
  BY <1>22, <1>b DEF MountBoot, MEnd, MGoto, TypeOK, MounterOK
<1>23. CASE ListParts
  BY <1>23, <1>b DEF ListParts, MEnd, MGoto, TypeOK, MounterOK
<1>24. CASE ClearPoint
  BY <1>24, <1>b DEF ClearPoint, MEnd, MGoto, TypeOK, MounterOK
<1>25. CASE Probe
  <2>0. Listed \subseteq 1 .. MaxParts
    BY ListedProperties DEF TypeOK
  <2>1. k' \in 1 .. MaxParts + 1
    BY <1>25, <2>0, RunAssumption, DiskAssumption
       DEF Probe, MGoto, TypeOK, MounterOK
  <2> QED
    BY <1>25, <2>1
       DEF Probe, MGoto, TypeOK, HostOK, RunOK, MounterOK, Mounting, choice, fields, flow, host
<1>26. CASE ProbeNone
  BY <1>26, <1>b DEF ProbeNone, MEnd, MGoto, TypeOK, MounterOK
<1>27. CASE LookFails
  <2>1. k' \in 1 .. MaxParts + 1
    BY <1>27, RunAssumption, DiskAssumption
       DEF LookFails, MGoto, TypeOK, MounterOK, Mounting
  <2> QED
    BY <1>27, <2>1
       DEF LookFails, MGoto, TypeOK, HostOK, RunOK, MounterOK, Mounting, choice, fields, flow,
           host, machine
<1>28. CASE LookRaspi
  BY <1>28, <1>b DEF LookRaspi, MEnd, MGoto, TypeOK, MounterOK
<1>29. CASE LookRoot
  BY <1>29
     DEF LookRoot, MEnd, TypeOK, HostOK, RunOK, MounterOK, MachineOK, Mounting, choice, flow,
         host, machine
<1>30. CASE LookOther
  <2>1. k' \in 1 .. MaxParts + 1
    BY <1>30, RunAssumption, DiskAssumption
       DEF LookOther, MGoto, TypeOK, MounterOK, Mounting
  <2> QED
    BY <1>30, <2>1
       DEF LookOther, MGoto, TypeOK, HostOK, RunOK, MounterOK, Mounting, choice, fields, flow,
           host
<1>31. CASE Kill
  <2>1. k' \in 1 .. MaxParts + 1
    BY <1>31, DiskAssumption DEF Kill
  <2> QED
    BY <1>31, <2>1
       DEF Kill, TypeOK, HostOK, RunOK, MounterOK, choice, host
<1>32. ASSUME NEW i \in Image, Writeback(i) PROVE  HostOK' /\ RunOK' /\ MounterOK'
  <2>1. UNCHANGED <<state, vm, host, choice, flow, mounter, fields>>
    BY <1>32 DEF Writeback
  <2>2. HostOK'
    BY <2>1 DEF TypeOK, HostOK, host
  <2>3. RunOK'
    BY <2>1 DEF TypeOK, RunOK, choice, flow, fields
  <2>4. MounterOK'
    BY <2>1 DEF TypeOK, MounterOK, mounter
  <2> QED
    BY <2>2, <2>3, <2>4
<1>33. CASE Terminated
  BY <1>33
     DEF Terminated, TypeOK, HostOK, RunOK, MounterOK, MachineOK, Mounting, choice, fields, flow,
         host, machine, mounter, vars
<1>34. CASE PrepareResumes
  BY <1>34
     DEF PrepareResumes, Prepared, TypeOK, HostOK, RunOK, MounterOK, MachineOK, Mounting, fields,
         host, mounter
<1>35. CASE Switched
  <2>1. UNCHANGED <<host, choice, flow, mounter, fields>>
    BY <1>35 DEF Switched
  <2>2. HostOK' /\ MounterOK'
    BY <2>1 DEF TypeOK, HostOK, MounterOK, host, mounter
  <2>3. RunOK'
    BY <2>1 DEF TypeOK, RunOK, choice, flow, fields
  <2> QED
    BY <2>2, <2>3
<1> QED
  BY <1>1, <1>2, <1>3, <1>4, <1>5, <1>6, <1>7, <1>8, <1>9, <1>10, <1>11, <1>12,
     <1>13, <1>14, <1>15, <1>16, <1>17, <1>18, <1>19, <1>20, <1>21, <1>22, <1>23, <1>24,
     <1>25, <1>26, <1>27, <1>28, <1>29, <1>30, <1>31, <1>32, <1>33, <1>34, <1>35
     DEF Next, Main, MountImg, Environment

\* What a step does to the loop devices.
LEMMA VmSteps ==
  ASSUME MachineOK, RunOK, MounterOK, Mounting, Attached, BootPoint(vm), ImagesOfRuns, Next
  PROVE  VmStep
<1>1. ASSUME NEW d \in Devices, NEW q \in BOOLEAN, NEW i \in Image, StartRun(d, q, i) PROVE  VmStep
  <2>1. vm' = vm
    BY <1>1
       DEF StartRun, Go, machine
  <2> QED
    BY <2>1 DEF VmStep, Attached, MachineOK
<1>2. CASE PrepareKeeps
  <2>1. vm' = vm
    BY <1>2
       DEF PrepareKeeps, Prepared, machine
  <2> QED
    BY <2>1 DEF VmStep, Attached, MachineOK
<1>3. CASE PrepareStarts
  <2>1. vm' = vm \/ vm' = Booted
    BY <1>3
       DEF PrepareStarts, Prepared
  <2>2. BootPoint(Booted) /\ \A l \in Loop : Booted.loop[l] = NoImage
    BY DEF Booted, BootPoint, Point
  <2> QED
    BY <2>1, <2>2, BootedProperties DEF VmStep, Attached, MachineOK
<1>4. CASE StartMount
  <2>1. vm' = vm
    BY <1>4
       DEF StartMount, machine
  <2> QED
    BY <2>1 DEF VmStep, Attached, MachineOK
<1>5. CASE AwaitMount
  <2>1. vm' = vm
    BY <1>5
       DEF AwaitMount, MountFindsRaspi, MountFails, MountFindsNothing, MountDone, Goto, Fail, Go,
           machine
  <2> QED
    BY <2>1 DEF VmStep, Attached, MachineOK
<1>6. ASSUME NEW yes \in BOOLEAN, AskConfigure(yes) PROVE  VmStep
  <2>1. vm' = vm
    BY <1>6
       DEF AskConfigure, Goto, Go, AfterAsk
  <2> QED
    BY <2>1 DEF VmStep, Attached, MachineOK
<1>7. CASE Setup
  <2>1. vm' = vm
    BY <1>7
       DEF Setup, Goto, Go
  <2> QED
    BY <2>1 DEF VmStep, Attached, MachineOK
<1>8. CASE SetupFails
  <2>1. vm' = vm
    BY <1>8
       DEF SetupFails, Fail, Go
  <2> QED
    BY <2>1 DEF VmStep, Attached, MachineOK
<1>9. CASE LinkRules
  <2>1. vm' = vm
    BY <1>9
       DEF LinkRules, Goto, Fail, Go, machine
  <2> QED
    BY <2>1 DEF VmStep, Attached, MachineOK
<1>10. CASE Apply
  <2>1. vm' = vm
    BY <1>10
       DEF Apply, Goto, Fail, Go, Stored
  <2> QED
    BY <2>1 DEF VmStep, Attached, MachineOK
<1>11. CASE UnmountImg
  <2>1. vm' = vm \/ vm' = DetachAll(vm) \/ Unmounted("isaax-sd") \/ Detached("isaax-sd")
    BY <1>11 DEF UnmountImg, UnmountAndDetach, LeftMounted
  <2>2. CASE vm' = vm
    BY <2>2 DEF VmStep, Attached, MachineOK
  <2>3. CASE Unmounted("isaax-sd") \/ Detached("isaax-sd")
    BY <2>3, UnmountedProperties DEF VmStep, Shrunk, Point
  <2>4. CASE vm' = DetachAll(vm)
    BY <2>4, DetachProperties DEF VmStep, Attached, MachineOK, Shrunk, BootPoint
  <2> QED
    BY <2>1, <2>2, <2>3, <2>4
<1>12. CASE UnmountBoot
  <2>1. vm' = vm \/ vm' = DetachAll(vm) \/ Unmounted("isaax-boot") \/ Detached("isaax-boot")
    BY <1>12 DEF UnmountBoot, UnmountAndDetach, LeftMounted
  <2>2. CASE vm' = vm
    BY <2>2 DEF VmStep, Attached, MachineOK
  <2>3. CASE Unmounted("isaax-boot") \/ Detached("isaax-boot")
    BY <2>3, UnmountedProperties DEF VmStep, Shrunk, Point
  <2>4. CASE vm' = DetachAll(vm)
    BY <2>4, DetachProperties DEF VmStep, Attached, MachineOK, Shrunk, BootPoint
  <2> QED
    BY <2>1, <2>2, <2>3, <2>4
<1>13. CASE Proceed
  <2>1. vm' = vm
    BY <1>13
       DEF Proceed, Goto, Go, machine
  <2> QED
    BY <2>1 DEF VmStep, Attached, MachineOK
<1>14. CASE ScpFrom
  <2>1. vm' = vm
    BY <1>14
       DEF ScpFrom, Goto, Fail, Go, machine
  <2> QED
    BY <2>1 DEF VmStep, Attached, MachineOK
<1>15. CASE WriteToDisk
  <2>1. vm' = vm
    BY <1>15
       DEF WriteToDisk, Goto, Fail, Go, machine
  <2> QED
    BY <2>1 DEF VmStep, Attached, MachineOK
<1>16. CASE Stop
  <2>1. vm' = vm \/ vm' = Booted
    BY <1>16
       DEF Stop, Poweroff, machine
  <2>2. BootPoint(Booted) /\ \A l \in Loop : Booted.loop[l] = NoImage
    BY DEF Booted, BootPoint, Point
  <2> QED
    BY <2>1, <2>2, BootedProperties DEF VmStep, Attached, MachineOK
<1>17. CASE Done
  <2>1. vm' = vm
    BY <1>17
       DEF Done, Go, machine
  <2> QED
    BY <2>1 DEF VmStep, Attached, MachineOK
<1>18. CASE LosetupD
  <2>1. vm' = vm \/ vm' = DetachAll(vm)
    BY <1>18 DEF LosetupD
  <2> QED
    BY <2>1, DetachProperties DEF VmStep, Attached, MachineOK, Shrunk, BootPoint
<1>19. CASE LosetupF
  <2>1. vm' = vm \/ (vm' = Attach(vm, img[run]) /\ mpc = "attach")
    BY <1>19 DEF LosetupF, MGoto
  <2>2. CASE vm' = vm
    BY <2>2 DEF VmStep, Attached, MachineOK
  <2>3. CASE vm' = Attach(vm, img[run]) /\ mpc = "attach"
    <3>1. img[run] \in Image
      BY <2>3 DEF Mounting, RunOK
    <3> QED
      BY <2>3, <3>1, AttachProperties DEF VmStep, Attached, MachineOK, BootPoint
  <2> QED
    BY <2>1, <2>2, <2>3
<1>20. CASE MkMountDir
  <2>1. vm' = vm
    BY <1>20
       DEF MkMountDir, MEnd, MGoto, machine
  <2> QED
    BY <2>1 DEF VmStep, Attached, MachineOK
<1>21. CASE MountRoot
  <2>1. vm' = vm \/ MountSucceeds(IF Raspi THEN 2 ELSE 1, "isaax-sd")
    BY <1>21 DEF MountRoot
  <2>2. CASE vm' = vm
    BY <2>2 DEF VmStep, Attached, MachineOK
  <2>3. CASE MountSucceeds(IF Raspi THEN 2 ELSE 1, "isaax-sd")
    BY <2>3, MountSucceedsProperties, BootPointMounted DEF VmStep, Point
  <2> QED
    BY <2>1, <2>2, <2>3
<1>22. CASE MountBoot
  <2>1. vm' = vm \/ MountSucceeds(1, "isaax-boot")
    BY <1>22 DEF MountBoot
  <2>2. CASE vm' = vm
    BY <2>2 DEF VmStep, Attached, MachineOK
  <2>3. CASE MountSucceeds(1, "isaax-boot")
    BY <2>3, MountSucceedsProperties, BootPointMounted DEF VmStep, Point
  <2> QED
    BY <2>1, <2>2, <2>3
<1>23. CASE ListParts
  <2>1. vm' = vm
    BY <1>23
       DEF ListParts, MEnd, MGoto, machine
  <2> QED
    BY <2>1 DEF VmStep, Attached, MachineOK
<1>24. CASE ClearPoint
  <2>1. vm' = vm \/ Unmounted("isaax-sd") \/ Detached("isaax-sd")
    BY <1>24 DEF ClearPoint
  <2>2. CASE vm' = vm
    BY <2>2 DEF VmStep, Attached, MachineOK
  <2>3. CASE Unmounted("isaax-sd") \/ Detached("isaax-sd")
    BY <2>3, UnmountedProperties DEF VmStep, Shrunk, Point
  <2> QED
    BY <2>1, <2>2, <2>3
<1>25. CASE Probe
  <2>1. vm' = vm \/ MountSucceeds(k, "isaax-sd")
    BY <1>25 DEF Probe
  <2>2. CASE vm' = vm
    BY <2>2 DEF VmStep, Attached, MachineOK
  <2>3. CASE MountSucceeds(k, "isaax-sd")
    <3>1. k \in Nat \ {0}
      BY DEF MounterOK
    <3> QED
      BY <2>3, <3>1, MountSucceedsProperties, BootPointMounted DEF VmStep, Point
  <2> QED
    BY <2>1, <2>2, <2>3
<1>26. CASE ProbeNone
  <2>1. vm' = vm
    BY <1>26
       DEF ProbeNone, MEnd, machine
  <2> QED
    BY <2>1 DEF VmStep, Attached, MachineOK
<1>27. CASE LookFails
  <2>1. vm' = vm
    BY <1>27
       DEF LookFails, MGoto, machine
  <2> QED
    BY <2>1 DEF VmStep, Attached, MachineOK
<1>28. CASE LookRaspi
  <2>1. vm' = vm \/ Unmounted("isaax-sd") \/ Detached("isaax-sd")
    BY <1>28 DEF LookRaspi
  <2>2. CASE vm' = vm
    BY <2>2 DEF VmStep, Attached, MachineOK
  <2>3. CASE Unmounted("isaax-sd") \/ Detached("isaax-sd")
    BY <2>3, UnmountedProperties DEF VmStep, Shrunk, Point
  <2> QED
    BY <2>1, <2>2, <2>3
<1>29. CASE LookRoot
  <2>1. vm' = vm
    BY <1>29
       DEF LookRoot, MEnd, machine
  <2> QED
    BY <2>1 DEF VmStep, Attached, MachineOK
<1>30. CASE LookOther
  <2>1. vm' = vm \/ Unmounted("isaax-sd") \/ Detached("isaax-sd")
    BY <1>30 DEF LookOther
  <2>2. CASE vm' = vm
    BY <2>2 DEF VmStep, Attached, MachineOK
  <2>3. CASE Unmounted("isaax-sd") \/ Detached("isaax-sd")
    BY <2>3, UnmountedProperties DEF VmStep, Shrunk, Point
  <2> QED
    BY <2>1, <2>2, <2>3
<1>31. CASE Kill
  <2>1. vm' = vm
    BY <1>31
       DEF Kill, machine
  <2> QED
    BY <2>1 DEF VmStep, Attached, MachineOK
<1>32. ASSUME NEW i \in Image, Writeback(i) PROVE  VmStep
  <2>1. vm' = vm
    BY <1>32
       DEF Writeback
  <2> QED
    BY <2>1 DEF VmStep, Attached, MachineOK
<1>33. CASE Terminated
  <2>1. vm' = vm
    BY <1>33
       DEF Terminated, machine, vars
  <2> QED
    BY <2>1 DEF VmStep, Attached, MachineOK
<1>34. CASE PrepareResumes
  <2>1. vm' = vm
    BY <1>34 DEF PrepareResumes
  <2> QED
    BY <2>1 DEF VmStep, Attached, MachineOK
<1>35. CASE Switched
  <2>1. vm' = vm \/ vm' = Booted
    BY <1>35 DEF Switched, Poweroff
  <2>2. BootPoint(Booted) /\ \A l \in Loop : Booted.loop[l] = NoImage
    BY DEF Booted, BootPoint, Point
  <2> QED
    BY <2>1, <2>2, BootedProperties DEF VmStep, Attached, MachineOK
<1> QED
  BY <1>1, <1>2, <1>3, <1>4, <1>5, <1>6, <1>7, <1>8, <1>9, <1>10, <1>11, <1>12,
     <1>13, <1>14, <1>15, <1>16, <1>17, <1>18, <1>19, <1>20, <1>21, <1>22, <1>23, <1>24,
     <1>25, <1>26, <1>27, <1>28, <1>29, <1>30, <1>31, <1>32, <1>33, <1>34, <1>35
     DEF Next, Main, MountImg, Environment

\* What a step does to the configuration in the images.
LEMMA ConfigSteps ==
  ASSUME MachineOK, Mounting, Next
  PROVE  ConfigStep
<1>1. ASSUME NEW d \in Devices, NEW q \in BOOLEAN, NEW i \in Image, StartRun(d, q, i) PROVE  ConfigStep
  <2>1. dirty' = dirty /\ saved' = saved
    BY <1>1
       DEF StartRun, Go, machine
  <2> QED
    BY <2>1 DEF ConfigStep, Config, MachineOK
<1>2. CASE PrepareKeeps
  <2>1. dirty' = dirty /\ saved' = saved
    BY <1>2
       DEF PrepareKeeps, Prepared, machine
  <2> QED
    BY <2>1 DEF ConfigStep, Config, MachineOK
<1>3. CASE PrepareStarts
  <2>1. saved' = saved /\ (dirty' = dirty \/ dirty' = [i \in Image |-> {}])
    BY <1>3
       DEF PrepareStarts, Prepared
  <2> QED
    BY <2>1 DEF ConfigStep, Config, MachineOK
<1>4. CASE StartMount
  <2>1. dirty' = dirty /\ saved' = saved
    BY <1>4
       DEF StartMount, machine
  <2> QED
    BY <2>1 DEF ConfigStep, Config, MachineOK
<1>5. CASE AwaitMount
  <2>1. dirty' = dirty /\ saved' = saved
    BY <1>5
       DEF AwaitMount, MountFindsRaspi, MountFails, MountFindsNothing, MountDone, Goto, Fail, Go,
           machine
  <2> QED
    BY <2>1 DEF ConfigStep, Config, MachineOK
<1>6. ASSUME NEW yes \in BOOLEAN, AskConfigure(yes) PROVE  ConfigStep
  <2>1. /\ pc = "ask" /\ saved' = saved
        /\ dirty' = dirty \/ WriteAt("isaax-boot", <<run, "boot">>)
    BY <1>6 DEF AskConfigure, Goto, Go
  <2>2. CASE dirty' = dirty
    BY <2>1, <2>2 DEF ConfigStep, Config, MachineOK
  <2>3. CASE WriteAt("isaax-boot", <<run, "boot">>)
    <3>1. <<run, "boot">> \in Item /\ "isaax-boot" \in Point
      BY <2>1 DEF Mounting, Item, Point
    <3> QED
      BY <2>1, <2>3, <3>1, WriteAtProperties DEF ConfigStep, Config, MachineOK
  <2> QED
    BY <2>1, <2>2, <2>3
<1>7. CASE Setup
  <2>1. /\ pc = "setup" /\ saved' = saved
        /\ dirty' = dirty \/ WriteAt("isaax-boot", <<run, "boot">>)
    BY <1>7 DEF Setup, Goto, Go
  <2>2. CASE dirty' = dirty
    BY <2>1, <2>2 DEF ConfigStep, Config, MachineOK
  <2>3. CASE WriteAt("isaax-boot", <<run, "boot">>)
    <3>1. <<run, "boot">> \in Item /\ "isaax-boot" \in Point
      BY <2>1 DEF Mounting, Item, Point
    <3> QED
      BY <2>1, <2>3, <3>1, WriteAtProperties DEF ConfigStep, Config, MachineOK
  <2> QED
    BY <2>1, <2>2, <2>3
<1>8. CASE SetupFails
  <2>1. /\ pc = "setup" /\ saved' = saved
        /\ dirty' = dirty \/ WriteAt("isaax-boot", <<run, "boot">>)
    BY <1>8 DEF SetupFails, Fail, Go
  <2>2. CASE dirty' = dirty
    BY <2>1, <2>2 DEF ConfigStep, Config, MachineOK
  <2>3. CASE WriteAt("isaax-boot", <<run, "boot">>)
    <3>1. <<run, "boot">> \in Item /\ "isaax-boot" \in Point
      BY <2>1 DEF Mounting, Item, Point
    <3> QED
      BY <2>1, <2>3, <3>1, WriteAtProperties DEF ConfigStep, Config, MachineOK
  <2> QED
    BY <2>1, <2>2, <2>3
<1>9. CASE LinkRules
  <2>1. dirty' = dirty /\ saved' = saved
    BY <1>9
       DEF LinkRules, Goto, Fail, Go, machine
  <2> QED
    BY <2>1 DEF ConfigStep, Config, MachineOK
<1>10. CASE Apply
  <2>1. /\ pc = "apply" /\ saved' = saved
        /\ dirty' = dirty \/ WriteAt("isaax-sd", <<run, "root">>)
    BY <1>10 DEF Apply, Goto, Fail, Go, Stored
  <2>2. CASE dirty' = dirty
    BY <2>1, <2>2 DEF ConfigStep, Config, MachineOK
  <2>3. CASE WriteAt("isaax-sd", <<run, "root">>)
    <3>1. <<run, "root">> \in Item /\ "isaax-sd" \in Point
      BY <2>1 DEF Mounting, Item, Point
    <3> QED
      BY <2>1, <2>3, <3>1, WriteAtProperties DEF ConfigStep, Config, MachineOK
  <2> QED
    BY <2>1, <2>2, <2>3
<1>11. CASE UnmountImg
  <2>1. (dirty' = dirty /\ saved' = saved) \/ Flushed("isaax-sd")
    BY <1>11 DEF UnmountImg, UnmountAndDetach, LeftMounted, Unmounted, Detached
  <2> QED
    BY <2>1, FlushedProperties DEF ConfigStep, Config, MachineOK, Point
<1>12. CASE UnmountBoot
  <2>1. (dirty' = dirty /\ saved' = saved) \/ Flushed("isaax-boot")
    BY <1>12 DEF UnmountBoot, UnmountAndDetach, LeftMounted, Unmounted, Detached
  <2> QED
    BY <2>1, FlushedProperties DEF ConfigStep, Config, MachineOK, Point
<1>13. CASE Proceed
  <2>1. dirty' = dirty /\ saved' = saved
    BY <1>13
       DEF Proceed, Goto, Go, machine
  <2> QED
    BY <2>1 DEF ConfigStep, Config, MachineOK
<1>14. CASE ScpFrom
  <2>1. dirty' = dirty /\ saved' = saved
    BY <1>14
       DEF ScpFrom, Goto, Fail, Go, machine
  <2> QED
    BY <2>1 DEF ConfigStep, Config, MachineOK
<1>15. CASE WriteToDisk
  <2>1. dirty' = dirty /\ saved' = saved
    BY <1>15
       DEF WriteToDisk, Goto, Fail, Go, machine
  <2> QED
    BY <2>1 DEF ConfigStep, Config, MachineOK
<1>16. CASE Stop
  <2>1. saved' = saved /\ (dirty' = dirty \/ dirty' = [i \in Image |-> {}])
    BY <1>16
       DEF Stop, Poweroff, machine
  <2> QED
    BY <2>1 DEF ConfigStep, Config, MachineOK
<1>17. CASE Done
  <2>1. dirty' = dirty /\ saved' = saved
    BY <1>17
       DEF Done, Go, machine
  <2> QED
    BY <2>1 DEF ConfigStep, Config, MachineOK
<1>18. CASE LosetupD
  <2>1. dirty' = dirty /\ saved' = saved
    BY <1>18
       DEF LosetupD, MEnd, MGoto
  <2> QED
    BY <2>1 DEF ConfigStep, Config, MachineOK
<1>19. CASE LosetupF
  <2>1. dirty' = dirty /\ saved' = saved
    BY <1>19
       DEF LosetupF, MEnd, MGoto
  <2> QED
    BY <2>1 DEF ConfigStep, Config, MachineOK
<1>20. CASE MkMountDir
  <2>1. dirty' = dirty /\ saved' = saved
    BY <1>20
       DEF MkMountDir, MEnd, MGoto, machine
  <2> QED
    BY <2>1 DEF ConfigStep, Config, MachineOK
<1>21. CASE MountRoot
  <2>1. dirty' = dirty /\ saved' = saved
    BY <1>21
       DEF MountRoot, MEnd, MGoto
  <2> QED
    BY <2>1 DEF ConfigStep, Config, MachineOK
<1>22. CASE MountBoot
  <2>1. dirty' = dirty /\ saved' = saved
    BY <1>22
       DEF MountBoot, MEnd, MGoto
  <2> QED
    BY <2>1 DEF ConfigStep, Config, MachineOK
<1>23. CASE ListParts
  <2>1. dirty' = dirty /\ saved' = saved
    BY <1>23
       DEF ListParts, MEnd, MGoto, machine
  <2> QED
    BY <2>1 DEF ConfigStep, Config, MachineOK
<1>24. CASE ClearPoint
  <2>1. (dirty' = dirty /\ saved' = saved) \/ Flushed("isaax-sd")
    BY <1>24 DEF ClearPoint, Unmounted
  <2> QED
    BY <2>1, FlushedProperties DEF ConfigStep, Config, MachineOK, Point
<1>25. CASE Probe
  <2>1. dirty' = dirty /\ saved' = saved
    BY <1>25
       DEF Probe, MGoto
  <2> QED
    BY <2>1 DEF ConfigStep, Config, MachineOK
<1>26. CASE ProbeNone
  <2>1. dirty' = dirty /\ saved' = saved
    BY <1>26
       DEF ProbeNone, MEnd, machine
  <2> QED
    BY <2>1 DEF ConfigStep, Config, MachineOK
<1>27. CASE LookFails
  <2>1. dirty' = dirty /\ saved' = saved
    BY <1>27
       DEF LookFails, MGoto, machine
  <2> QED
    BY <2>1 DEF ConfigStep, Config, MachineOK
<1>28. CASE LookRaspi
  <2>1. (dirty' = dirty /\ saved' = saved) \/ Flushed("isaax-sd")
    BY <1>28 DEF LookRaspi, Unmounted
  <2> QED
    BY <2>1, FlushedProperties DEF ConfigStep, Config, MachineOK, Point
<1>29. CASE LookRoot
  <2>1. dirty' = dirty /\ saved' = saved
    BY <1>29
       DEF LookRoot, MEnd, machine
  <2> QED
    BY <2>1 DEF ConfigStep, Config, MachineOK
<1>30. CASE LookOther
  <2>1. (dirty' = dirty /\ saved' = saved) \/ Flushed("isaax-sd")
    BY <1>30 DEF LookOther, Unmounted
  <2> QED
    BY <2>1, FlushedProperties DEF ConfigStep, Config, MachineOK, Point
<1>31. CASE Kill
  <2>1. dirty' = dirty /\ saved' = saved
    BY <1>31
       DEF Kill, machine
  <2> QED
    BY <2>1 DEF ConfigStep, Config, MachineOK
<1>32. ASSUME NEW i \in Image, Writeback(i) PROVE  ConfigStep
  <2>1. saved' = [saved EXCEPT ![i] = saved[i] \cup dirty[i]] /\ dirty' = [dirty EXCEPT ![i] = {}]
    BY <1>32 DEF Writeback
  <2> QED
    BY <2>1 DEF ConfigStep, Config, MachineOK
<1>33. CASE Terminated
  <2>1. dirty' = dirty /\ saved' = saved
    BY <1>33
       DEF Terminated, machine, vars
  <2> QED
    BY <2>1 DEF ConfigStep, Config, MachineOK
<1>34. CASE PrepareResumes
  <2>1. dirty' = dirty /\ saved' = saved
    BY <1>34 DEF PrepareResumes
  <2> QED
    BY <2>1 DEF ConfigStep, Config, MachineOK
<1>35. CASE Switched
  <2>1. saved' = saved /\ (dirty' = dirty \/ dirty' = [i \in Image |-> {}])
    BY <1>35 DEF Switched, Poweroff
  <2> QED
    BY <2>1 DEF ConfigStep, Config, MachineOK
<1> QED
  BY <1>1, <1>2, <1>3, <1>4, <1>5, <1>6, <1>7, <1>8, <1>9, <1>10, <1>11, <1>12,
     <1>13, <1>14, <1>15, <1>16, <1>17, <1>18, <1>19, <1>20, <1>21, <1>22, <1>23, <1>24,
     <1>25, <1>26, <1>27, <1>28, <1>29, <1>30, <1>31, <1>32, <1>33, <1>34, <1>35
     DEF Next, Main, MountImg, Environment

\* The mounting goroutine and the main one keep their agreement.
LEMMA MountingSteps ==
  ASSUME MachineOK, RunOK, MounterOK, Mounting, Mounted, Next
  PROVE  Mounting'
<1>1. ASSUME NEW d \in Devices, NEW q \in BOOLEAN, NEW i \in Image, StartRun(d, q, i) PROVE  Mounting'
  <2>1. run < MaxRuns /\ run' = run + 1 /\ UNCHANGED <<mpc, k>>
    BY <1>1 DEF StartRun
  <2>2. pc = "ended" /\ configured' = FALSE /\ outcome' = "pending" /\ pc' = "prepare"
    BY <1>1 DEF StartRun, Go
  <2>3. run \in 0 .. MaxRuns
    BY DEF RunOK
  <2>4. run' \in Image
    BY <2>1, <2>3, RunAssumption
  <2>5. mpc = "idle"
    BY <2>2 DEF Mounting
  <2> QED
    BY <2>1, <2>2, <2>4, <2>5 DEF Mounting
<1>2. CASE PrepareKeeps
  BY <1>2
     DEF PrepareKeeps, Prepared, Mounting, Mounted, Raspi, RunOK, fields, host, machine, mounter
<1>3. CASE PrepareStarts
  BY <1>3
     DEF PrepareStarts, Prepared, Mounting, Mounted, Raspi, RunOK, choice, fields, host, mounter
<1>4. CASE StartMount
  BY <1>4
     DEF StartMount, Mounting, Mounted, Raspi, RunOK, choice, fields, host, machine
<1>5. CASE AwaitMount
  <2>1. /\ mpc = "idle" /\ pc = "wait"
        /\ UNCHANGED <<run, device, mpc, k, outcome, mounted>>
    BY <1>5 DEF AwaitMount, MountFindsRaspi, MountFails, MountFindsNothing, MountDone, Goto, Fail, Go,
             choice, mounter
  <2>2. CASE MountFindsRaspi
    <3>1. outcome = "raspi" /\ configured' /\ pc' = "raspi"
      BY <2>2 DEF MountFindsRaspi, Goto, Go
    <3> QED
      BY <2>1, <3>1 DEF Mounting
  <2>3. CASE (MountFails \/ MountFindsNothing \/ MountDone) /\ UNCHANGED configured
    <3>1. pc' # "raspi" /\ configured' = configured
      BY <2>3 DEF MountFails, MountFindsNothing, MountDone, Goto, Fail, Go
    <3> QED
      BY <2>1, <3>1 DEF Mounting
  <2> QED
    BY <1>5, <2>2, <2>3 DEF AwaitMount
<1>6. ASSUME NEW yes \in BOOLEAN, AskConfigure(yes) PROVE  Mounting'
  BY <1>6
     DEF AskConfigure, Goto, Go, AfterAsk, Mounting, Mounted, Raspi, RunOK, choice, fields, host,
         mounter
<1>7. CASE Setup
  BY <1>7
     DEF Setup, Goto, Go, Mounting, Mounted, Raspi, RunOK, choice, fields, host, mounter
<1>8. CASE SetupFails
  BY <1>8
     DEF SetupFails, Fail, Go, Mounting, Mounted, Raspi, RunOK, choice, fields, host
<1>9. CASE LinkRules
  BY <1>9
     DEF LinkRules, Goto, Fail, Go, Mounting, Mounted, Raspi, RunOK, choice, fields, host,
         machine, mounter
<1>10. CASE Apply
  BY <1>10
     DEF Apply, Goto, Fail, Go, Stored, Mounting, Mounted, Raspi, RunOK, choice, fields, host,
         mounter
<1>11. CASE UnmountImg
  BY <1>11
     DEF UnmountImg, Goto, Go, UnmountAndDetach, Fail, Mounting, Mounted, Raspi, RunOK, choice,
         fields, host, mounter
<1>12. CASE UnmountBoot
  BY <1>12
     DEF UnmountBoot, Goto, Go, Fail, UnmountAndDetach, Mounting, Mounted, Raspi, RunOK, choice,
         fields, host, mounter
<1>13. CASE Proceed
  BY <1>13
     DEF Proceed, Goto, Go, Mounting, Mounted, Raspi, RunOK, choice, fields, host, machine,
         mounter
<1>14. CASE ScpFrom
  BY <1>14
     DEF ScpFrom, Goto, Fail, Go, Mounting, Mounted, Raspi, RunOK, choice, fields, machine,
         mounter
<1>15. CASE WriteToDisk
  BY <1>15
     DEF WriteToDisk, Goto, Fail, Go, Mounting, Mounted, Raspi, RunOK, choice, fields, machine,
         mounter
<1>16. CASE Stop
  BY <1>16
     DEF Stop, Goto, Go, Poweroff, Mounting, Mounted, Raspi, RunOK, choice, fields, host,
         machine, mounter
<1>17. CASE Done
  BY <1>17
     DEF Done, Go, Mounting, Mounted, Raspi, RunOK, choice, fields, host, machine, mounter
<1>18. CASE LosetupD
  BY <1>18
     DEF LosetupD, MEnd, MGoto, Mounting, Mounted, Raspi, RunOK, choice, fields, flow, host
<1>19. CASE LosetupF
  BY <1>19
     DEF LosetupF, MEnd, MGoto, Mounting, Mounted, Raspi, RunOK, choice, fields, flow, host
<1>20. CASE MkMountDir
  BY <1>20
     DEF MkMountDir, MEnd, MGoto, Mounting, Mounted, Raspi, RunOK, choice, flow, host, machine
<1>21. CASE MountRoot
  <2>1. /\ mpc = "mount" /\ mpc' \in {"idle", "boot"}
        /\ UNCHANGED <<pc, run, device, k, configured>>
    BY <1>21 DEF MountRoot, MEnd, MGoto, choice, flow
  <2>2. outcome = "pending"
    BY <2>1 DEF Mounting
  <2>3. outcome' # "raspi" /\ (mpc' # "idle" => outcome' = "pending")
    BY <1>21, <2>2 DEF MountRoot, MEnd, MGoto
  <2> QED
    BY <2>1, <2>2, <2>3 DEF Mounting
<1>22. CASE MountBoot
  BY <1>22
     DEF MountBoot, MEnd, MGoto, Mounting, Mounted, Raspi, RunOK, choice, fields, flow, host
<1>23. CASE ListParts
  BY <1>23
     DEF ListParts, MEnd, MGoto, Mounting, Mounted, Raspi, RunOK, choice, fields, flow, host,
         machine
<1>24. CASE ClearPoint
  BY <1>24
     DEF ClearPoint, MGoto, Mounting, Mounted, Raspi, RunOK, choice, fields, flow, host
<1>25. CASE Probe
  <2>1. /\ mpc = "probe" /\ mpc' \in {"look", "probe"} /\ (mpc' = "look" => UNCHANGED k)
        /\ UNCHANGED <<pc, run, device, outcome, configured, mounted>> /\ k \in Listed
    BY <1>25 DEF Probe, MGoto, choice, flow, fields
  <2>2. k \in 1 .. MaxParts
    BY <2>1, ListedProperties
  <2> QED
    BY <2>1, <2>2 DEF Mounting, Raspi
<1>26. CASE ProbeNone
  BY <1>26
     DEF ProbeNone, MEnd, Mounting, Mounted, Raspi, RunOK, choice, fields, flow, host, machine
<1>27. CASE LookFails
  BY <1>27
     DEF LookFails, MGoto, Mounting, Mounted, Raspi, RunOK, choice, fields, flow, host, machine
<1>28. CASE LookRaspi
  BY <1>28
     DEF LookRaspi, MEnd, Mounting, Mounted, Raspi, RunOK, choice, fields, flow, host
<1>29. CASE LookRoot
  BY <1>29
     DEF LookRoot, MEnd, Mounting, Mounted, Raspi, RunOK, choice, flow, host, machine
<1>30. CASE LookOther
  BY <1>30
     DEF LookOther, MGoto, Mounting, Mounted, Raspi, RunOK, choice, fields, flow, host
<1>31. CASE Kill
  BY <1>31
     DEF Kill, Mounting, Mounted, Raspi, RunOK, choice, fields, host, machine
<1>32. ASSUME NEW i \in Image, Writeback(i) PROVE  Mounting'
  BY <1>32
     DEF Writeback, Mounting, Mounted, Raspi, RunOK, choice, fields, flow, host, mounter
<1>33. CASE Terminated
  BY <1>33
     DEF Terminated, Mounting, Mounted, Raspi, RunOK, choice, fields, flow, host, machine,
         mounter, vars
<1>34. CASE PrepareResumes
  BY <1>34
     DEF PrepareResumes, Prepared, Mounting, Mounted, Raspi, RunOK, fields, host, mounter
<1>35. CASE Switched
  BY <1>35
     DEF Switched, Mounting, Mounted, Raspi, RunOK, choice, flow, fields, host, mounter
<1> QED
  BY <1>1, <1>2, <1>3, <1>4, <1>5, <1>6, <1>7, <1>8, <1>9, <1>10, <1>11, <1>12,
     <1>13, <1>14, <1>15, <1>16, <1>17, <1>18, <1>19, <1>20, <1>21, <1>22, <1>23, <1>24,
     <1>25, <1>26, <1>27, <1>28, <1>29, <1>30, <1>31, <1>32, <1>33, <1>34, <1>35
     DEF Next, Main, MountImg, Environment

\* What is mounted, and what the flasher believes to be mounted.
LEMMA MountedSteps ==
  ASSUME MachineOK, RunOK, MounterOK, Mounting, Mounted, Attached, Next
  PROVE  Mounted'
<1>1. ASSUME NEW d \in Devices, NEW q \in BOOLEAN, NEW i \in Image, StartRun(d, q, i) PROVE  Mounted'
  BY <1>1
     DEF StartRun, Go, Mounting, Mounted, Raspi, InMachine, RunOK, host, machine
<1>2. CASE PrepareKeeps
  BY <1>2
     DEF PrepareKeeps, Prepared, Mounting, Mounted, Raspi, InMachine, RunOK, fields, host, machine, mounter
<1>3. CASE PrepareStarts
  BY <1>3
     DEF PrepareStarts, Prepared, Mounting, Mounted, Raspi, InMachine, RunOK, choice, fields, host, mounter
<1>4. CASE StartMount
  BY <1>4
     DEF StartMount, Mounting, Mounted, Raspi, InMachine, RunOK, choice, fields, host, machine
<1>5. CASE AwaitMount
  BY <1>5
     DEF AwaitMount, MountFindsRaspi, MountFails, MountFindsNothing, MountDone, Goto, Fail, Go,
         Mounting, Mounted, Raspi, InMachine, RunOK, choice, host, machine, mounter
<1>6. ASSUME NEW yes \in BOOLEAN, AskConfigure(yes) PROVE  Mounted'
  BY <1>6
     DEF AskConfigure, Goto, Go, AfterAsk, Mounting, Mounted, Raspi, InMachine, RunOK, choice,
         fields, host, mounter
<1>7. CASE Setup
  BY <1>7
     DEF Setup, Goto, Go, Mounting, Mounted, Raspi, InMachine, RunOK, choice, fields, host,
         mounter
<1>8. CASE SetupFails
  BY <1>8
     DEF SetupFails, Fail, Go, Mounting, Mounted, Raspi, InMachine, RunOK, choice, fields, host
<1>9. CASE LinkRules
  BY <1>9
     DEF LinkRules, Goto, Fail, Go, Mounting, Mounted, Raspi, InMachine, RunOK, choice, fields,
         host, machine, mounter
<1>10. CASE Apply
  BY <1>10
     DEF Apply, Goto, Fail, Go, Stored, Mounting, Mounted, Raspi, InMachine, RunOK, choice,
         fields, host, mounter
<1>11. CASE UnmountImg
  BY <1>11
     DEF UnmountImg, Goto, Go, UnmountAndDetach, Fail, Mounting, Mounted, Raspi, InMachine,
         RunOK, choice, fields, host, mounter
<1>12. CASE UnmountBoot
  <2>1. UNCHANGED <<mounted, device, configured, mpc>> /\ pc = "umountBoot" /\ pc' \in {"proceed", "ended"}
    BY <1>12 DEF UnmountBoot, UnmountAndDetach, Goto, Fail, Go, choice, mounter, fields
  <2>2. vm'.at["isaax-sd"] = vm.at["isaax-sd"]
    <3>1. vm' = vm \/ vm' = DetachAll(vm) \/ Unmounted("isaax-boot") \/ Detached("isaax-boot")
      BY <1>12 DEF UnmountBoot, UnmountAndDetach, LeftMounted
    <3> QED
      BY <3>1, UnmountedProperties, DetachProperties DEF Point, MachineOK, Attached
  <2> QED
    BY <2>1, <2>2 DEF Mounted, Mounting, InMachine, IsMounted, Raspi
<1>13. CASE Proceed
  BY <1>13
     DEF Proceed, Goto, Go, Mounting, Mounted, Raspi, InMachine, RunOK, choice, fields, host,
         machine, mounter
<1>14. CASE ScpFrom
  BY <1>14
     DEF ScpFrom, Goto, Fail, Go, Mounting, Mounted, Raspi, InMachine, RunOK, choice, fields,
         machine, mounter
<1>15. CASE WriteToDisk
  BY <1>15
     DEF WriteToDisk, Goto, Fail, Go, Mounting, Mounted, Raspi, InMachine, RunOK, choice, fields,
         machine, mounter
<1>16. CASE Stop
  BY <1>16
     DEF Stop, Goto, Go, Poweroff, Mounting, Mounted, Raspi, InMachine, RunOK, choice, fields,
         host, machine, mounter
<1>17. CASE Done
  BY <1>17
     DEF Done, Go, Mounting, Mounted, Raspi, InMachine, RunOK, choice, fields, host, machine,
         mounter
<1>18. CASE LosetupD
  <2>1. UNCHANGED <<mounted, device, configured, pc>> /\ mpc' # "look"
    BY <1>18 DEF LosetupD, MEnd, MGoto, choice, flow, fields
  <2>2. vm'.at["isaax-sd"] = vm.at["isaax-sd"]
    <3>1. vm' = vm \/ vm' = DetachAll(vm)
      BY <1>18 DEF LosetupD
    <3> QED
      BY <3>1, DetachProperties DEF Attached, MachineOK
  <2> QED
    BY <2>1, <2>2 DEF Mounted, Mounting, InMachine, IsMounted, Raspi
<1>19. CASE LosetupF
  <2>1. UNCHANGED <<mounted, device, configured, pc>> /\ mpc' # "look"
    BY <1>19 DEF LosetupF, MEnd, MGoto, choice, flow, fields
  <2>2. vm'.at["isaax-sd"] = vm.at["isaax-sd"]
    <3>1. vm' = vm \/ (vm' = Attach(vm, img[run]) /\ mpc = "attach")
      BY <1>19 DEF LosetupF, MGoto
    <3>2. mpc = "attach" => img[run] \in Image
      BY DEF Mounting, RunOK
    <3> QED
      BY <3>1, <3>2, AttachProperties DEF Attached, MachineOK
  <2> QED
    BY <2>1, <2>2 DEF Mounted, Mounting, InMachine, IsMounted, Raspi
<1>20. CASE MkMountDir
  <2>1. UNCHANGED <<vm, device, configured, pc>> /\ mpc = "mkdir" /\ mpc' # "look"
    BY <1>20 DEF MkMountDir, MEnd, MGoto, machine, choice, flow
  <2>2. mounted' = mounted \/ mounted' = FALSE
    BY <1>20 DEF MkMountDir
  <2>3. pc = "wait" \/ (device = "beagle" /\ pc \in {"ask", "setup"})
    BY <2>1 DEF Mounting
  <2> QED
    BY <2>1, <2>2, <2>3 DEF Mounted
<1>21. CASE MountRoot
  <2>1. UNCHANGED <<device, configured, pc>> /\ mpc = "mount" /\ mpc' # "look"
    BY <1>21 DEF MountRoot, MEnd, MGoto, choice, flow
  <2>2. \/ vm' = vm /\ mounted' = mounted
        \/ MountSucceeds(IF Raspi THEN 2 ELSE 1, "isaax-sd") /\ mounted' = TRUE
    BY <1>21 DEF MountRoot
  <2>3. pc = "wait" \/ (device = "beagle" /\ pc \in {"ask", "setup"})
    BY <2>1 DEF Mounting
  <2>4. (vm' = vm /\ mounted' = mounted) \/ (IsMounted(vm', "isaax-sd") /\ mounted' = TRUE)
    BY <2>2, MountSucceedsProperties DEF Point
  <2> QED
    BY <2>1, <2>3, <2>4 DEF Mounted
<1>22. CASE MountBoot
  <2>1. UNCHANGED <<mounted, device, configured, pc>> /\ mpc' # "look"
    BY <1>22 DEF MountBoot, MEnd, choice, flow, fields
  <2>2. vm'.at["isaax-sd"] = vm.at["isaax-sd"]
    <3>1. vm' = vm \/ MountSucceeds(1, "isaax-boot")
      BY <1>22 DEF MountBoot
    <3> QED
      BY <3>1, MountSucceedsProperties DEF Point
  <2> QED
    BY <2>1, <2>2 DEF Mounted, Mounting, InMachine, IsMounted, Raspi
<1>23. CASE ListParts
  BY <1>23
     DEF ListParts, MEnd, MGoto, Mounting, Mounted, Raspi, InMachine, RunOK, choice, fields,
         flow, host, machine
<1>24. CASE ClearPoint
  BY <1>24
     DEF ClearPoint, MGoto, Mounting, Mounted, Raspi, InMachine, RunOK, choice, fields, flow, host
<1>25. CASE Probe
  <2>1. UNCHANGED <<device, configured, pc, mounted>> /\ mpc = "probe"
    BY <1>25 DEF Probe, MGoto, choice, flow, fields
  <2>2. \/ vm' = vm /\ mpc' # "look"
        \/ MountSucceeds(k, "isaax-sd")
    BY <1>25 DEF Probe, MGoto
  <2>3. k \in Nat \ {0}
    BY DEF MounterOK
  <2>4. (vm' = vm /\ mpc' # "look") \/ IsMounted(vm', "isaax-sd")
    BY <2>2, <2>3, MountSucceedsProperties DEF Point
  <2>5. ~mounted /\ pc = "wait"
    BY <2>1 DEF Mounting
  <2> QED
    BY <2>1, <2>4, <2>5 DEF Mounted
<1>26. CASE ProbeNone
  BY <1>26
     DEF ProbeNone, MEnd, Mounting, Mounted, Raspi, InMachine, RunOK, choice, fields, flow, host,
         machine
<1>27. CASE LookFails
  BY <1>27
     DEF LookFails, MGoto, Mounting, Mounted, Raspi, InMachine, RunOK, choice, fields, flow,
         host, machine
<1>28. CASE LookRaspi
  BY <1>28
     DEF LookRaspi, MEnd, Mounting, Mounted, Raspi, InMachine, RunOK, choice, fields, flow, host
<1>29. CASE LookRoot
  <2>1. UNCHANGED <<vm, device, configured, pc>> /\ mpc = "look" /\ mpc' = "idle" /\ mounted' = TRUE
    BY <1>29 DEF LookRoot, MEnd, machine, choice, flow
  <2>2. pc = "wait"
    BY <2>1 DEF Mounting
  <2> QED
    BY <2>1, <2>2 DEF Mounted
<1>30. CASE LookOther
  BY <1>30
     DEF LookOther, MGoto, Mounting, Mounted, Raspi, InMachine, RunOK, choice, fields, flow, host
<1>31. CASE Kill
  BY <1>31
     DEF Kill, Mounting, Mounted, Raspi, InMachine, RunOK, choice, fields, host, machine
<1>32. ASSUME NEW i \in Image, Writeback(i) PROVE  Mounted'
  BY <1>32
     DEF Writeback, Mounting, Mounted, Raspi, InMachine, RunOK, choice, fields, flow, host,
         mounter
<1>33. CASE Terminated
  BY <1>33
     DEF Terminated, Mounting, Mounted, Raspi, InMachine, RunOK, choice, fields, flow, host,
         machine, mounter, vars
<1>34. CASE PrepareResumes
  BY <1>34
     DEF PrepareResumes, Prepared, Mounting, Mounted, Raspi, InMachine, RunOK, fields, host, mounter
<1>35. CASE Switched
  BY <1>35
     DEF Switched, Mounting, Mounted, Raspi, InMachine, RunOK, choice, flow, fields, host, mounter
<1> QED
  BY <1>1, <1>2, <1>3, <1>4, <1>5, <1>6, <1>7, <1>8, <1>9, <1>10, <1>11, <1>12,
     <1>13, <1>14, <1>15, <1>16, <1>17, <1>18, <1>19, <1>20, <1>21, <1>22, <1>23, <1>24,
     <1>25, <1>26, <1>27, <1>28, <1>29, <1>30, <1>31, <1>32, <1>33, <1>34, <1>35
     DEF Next, Main, MountImg, Environment

\* The number of a run, for the arithmetic.
LEMMA RunIsNat == RunOK => run \in Nat
<1> SUFFICES ASSUME RunOK PROVE run \in Nat
  OBVIOUS
<1>1. run \in 0 .. MaxRuns
  BY DEF RunOK
<1> QED
  BY <1>1

\* The run and its past go on, or a run begins, or its machine is prepared.
RunStep ==
    /\ run' \in Nat /\ run <= run' /\ reused \subseteq reused'
    /\ \A r \in Image : img'[r] = img[r] \/ (r = run + 1 /\ img'[r] <= r)
    /\ \/ /\ UNCHANGED <<run, img, reused>>
          /\ pc \in {"ended", "prepare"} => pc' \in {"ended", "prepare"}
       \/ pc' \in {"ended", "prepare"}
       \/ UNCHANGED <<run, img>> /\ (run \in reused' \/ vm' = Booted)

\* The numbers of the runs, and which of them kept a machine.
LEMMA RunSteps ==
  ASSUME RunOK, ImagesOfRuns, Next
  PROVE  RunStep
<1>0. run \in Nat /\ run <= run
  BY RunIsNat
<1>1. ASSUME NEW d \in Devices, NEW q \in BOOLEAN, NEW i \in Image, StartRun(d, q, i) PROVE  RunStep
  <2>1. /\ run' = run + 1 /\ UNCHANGED reused /\ run < MaxRuns
        /\ i = run + 1 \/ \E r \in 1 .. run : i = img[r]
        /\ img' = [img EXCEPT ![run + 1] = i]
    BY <1>1 DEF StartRun
  <2>2. pc' = "prepare"
    BY <1>1 DEF StartRun, Go
  <2>3. run \in Nat
    BY RunIsNat
  <2>4. i <= run + 1
    <3>1. ASSUME NEW r \in 1 .. run PROVE img[r] <= r /\ img[r] \in Nat
      <4>1. r \in Image
        BY <2>1, <2>3, RunAssumption
      <4>2. img[r] \in Image
        BY <4>1 DEF RunOK
      <4> QED
        BY <4>1, <4>2, RunAssumption DEF ImagesOfRuns
    <3> QED
      BY <2>1, <2>3, <3>1
  <2>5. \A r \in Image : img'[r] = img[r] \/ (r = run + 1 /\ img'[r] <= r)
    BY <2>1, <2>4 DEF RunOK
  <2> QED
    BY <2>1, <2>2, <2>3, <2>5 DEF RunStep
<1>2. CASE PrepareKeeps
  <2>1. run' = run /\ img' = img /\ reused' = reused \cup {run}
    BY <1>2
       DEF PrepareKeeps, Prepared
  <2> QED
    BY <2>1, <1>0 DEF RunStep
<1>3. CASE PrepareStarts
  <2>1. UNCHANGED <<run, img, reused>> /\ vm' = Booted
    BY <1>3
       DEF PrepareStarts, Prepared, choice
  <2> QED
    BY <2>1, <1>0 DEF RunStep
<1>4. CASE StartMount
  <2>1. UNCHANGED <<run, img, reused>> /\ (pc \in {"ended", "prepare"} => pc' \in {"ended", "prepare"})
    BY <1>4
       DEF StartMount, choice
  <2> QED
    BY <2>1, <1>0 DEF RunStep
<1>5. CASE AwaitMount
  <2>1. UNCHANGED <<run, img, reused>> /\ (pc \in {"ended", "prepare"} => pc' \in {"ended", "prepare"})
    BY <1>5
       DEF AwaitMount, MountFindsRaspi, MountFails, MountFindsNothing, MountDone, Goto, Fail, Go,
           choice
  <2> QED
    BY <2>1, <1>0 DEF RunStep
<1>6. ASSUME NEW yes \in BOOLEAN, AskConfigure(yes) PROVE  RunStep
  <2>1. UNCHANGED <<run, img, reused>> /\ (pc \in {"ended", "prepare"} => pc' \in {"ended", "prepare"})
    BY <1>6
       DEF AskConfigure, Goto, Go, AfterAsk, choice
  <2> QED
    BY <2>1, <1>0 DEF RunStep
<1>7. CASE Setup
  <2>1. UNCHANGED <<run, img, reused>> /\ (pc \in {"ended", "prepare"} => pc' \in {"ended", "prepare"})
    BY <1>7
       DEF Setup, Goto, Go, choice
  <2> QED
    BY <2>1, <1>0 DEF RunStep
<1>8. CASE SetupFails
  <2>1. UNCHANGED <<run, img, reused>> /\ (pc \in {"ended", "prepare"} => pc' \in {"ended", "prepare"})
    BY <1>8
       DEF SetupFails, Fail, Go, choice
  <2> QED
    BY <2>1, <1>0 DEF RunStep
<1>9. CASE LinkRules
  <2>1. UNCHANGED <<run, img, reused>> /\ (pc \in {"ended", "prepare"} => pc' \in {"ended", "prepare"})
    BY <1>9
       DEF LinkRules, Goto, Fail, Go, choice
  <2> QED
    BY <2>1, <1>0 DEF RunStep
<1>10. CASE Apply
  <2>1. UNCHANGED <<run, img, reused>> /\ (pc \in {"ended", "prepare"} => pc' \in {"ended", "prepare"})
    BY <1>10
       DEF Apply, Goto, Fail, Go, Stored, choice
  <2> QED
    BY <2>1, <1>0 DEF RunStep
<1>11. CASE UnmountImg
  <2>1. UNCHANGED <<run, img, reused>> /\ (pc \in {"ended", "prepare"} => pc' \in {"ended", "prepare"})
    BY <1>11
       DEF UnmountImg, Goto, Go, UnmountAndDetach, Fail, choice
  <2> QED
    BY <2>1, <1>0 DEF RunStep
<1>12. CASE UnmountBoot
  <2>1. UNCHANGED <<run, img, reused>> /\ (pc \in {"ended", "prepare"} => pc' \in {"ended", "prepare"})
    BY <1>12
       DEF UnmountBoot, Goto, Go, Fail, UnmountAndDetach, choice
  <2> QED
    BY <2>1, <1>0 DEF RunStep
<1>13. CASE Proceed
  <2>1. UNCHANGED <<run, img, reused>> /\ (pc \in {"ended", "prepare"} => pc' \in {"ended", "prepare"})
    BY <1>13
       DEF Proceed, Goto, Go, choice
  <2> QED
    BY <2>1, <1>0 DEF RunStep
<1>14. CASE ScpFrom
  <2>1. UNCHANGED <<run, img, reused>> /\ (pc \in {"ended", "prepare"} => pc' \in {"ended", "prepare"})
    BY <1>14
       DEF ScpFrom, Goto, Fail, Go, choice
  <2> QED
    BY <2>1, <1>0 DEF RunStep
<1>15. CASE WriteToDisk
  <2>1. UNCHANGED <<run, img, reused>> /\ (pc \in {"ended", "prepare"} => pc' \in {"ended", "prepare"})
    BY <1>15
       DEF WriteToDisk, Goto, Fail, Go, choice
  <2> QED
    BY <2>1, <1>0 DEF RunStep
<1>16. CASE Stop
  <2>1. UNCHANGED <<run, img, reused>> /\ (pc \in {"ended", "prepare"} => pc' \in {"ended", "prepare"})
    BY <1>16
       DEF Stop, Goto, Go, Poweroff, choice
  <2> QED
    BY <2>1, <1>0 DEF RunStep
<1>17. CASE Done
  <2>1. UNCHANGED <<run, img, reused>> /\ (pc \in {"ended", "prepare"} => pc' \in {"ended", "prepare"})
    BY <1>17
       DEF Done, Go, choice
  <2> QED
    BY <2>1, <1>0 DEF RunStep
<1>18. CASE LosetupD
  <2>1. UNCHANGED <<run, img, reused>> /\ (pc \in {"ended", "prepare"} => pc' \in {"ended", "prepare"})
    BY <1>18
       DEF LosetupD, MEnd, MGoto, choice, flow
  <2> QED
    BY <2>1, <1>0 DEF RunStep
<1>19. CASE LosetupF
  <2>1. UNCHANGED <<run, img, reused>> /\ (pc \in {"ended", "prepare"} => pc' \in {"ended", "prepare"})
    BY <1>19
       DEF LosetupF, MEnd, MGoto, choice, flow
  <2> QED
    BY <2>1, <1>0 DEF RunStep
<1>20. CASE MkMountDir
  <2>1. UNCHANGED <<run, img, reused>> /\ (pc \in {"ended", "prepare"} => pc' \in {"ended", "prepare"})
    BY <1>20
       DEF MkMountDir, MEnd, MGoto, choice, flow
  <2> QED
    BY <2>1, <1>0 DEF RunStep
<1>21. CASE MountRoot
  <2>1. UNCHANGED <<run, img, reused>> /\ (pc \in {"ended", "prepare"} => pc' \in {"ended", "prepare"})
    BY <1>21
       DEF MountRoot, MEnd, MGoto, choice, flow
  <2> QED
    BY <2>1, <1>0 DEF RunStep
<1>22. CASE MountBoot
  <2>1. UNCHANGED <<run, img, reused>> /\ (pc \in {"ended", "prepare"} => pc' \in {"ended", "prepare"})
    BY <1>22
       DEF MountBoot, MEnd, MGoto, choice, flow
  <2> QED
    BY <2>1, <1>0 DEF RunStep
<1>23. CASE ListParts
  <2>1. UNCHANGED <<run, img, reused>> /\ (pc \in {"ended", "prepare"} => pc' \in {"ended", "prepare"})
    BY <1>23
       DEF ListParts, MEnd, MGoto, choice, flow
  <2> QED
    BY <2>1, <1>0 DEF RunStep
<1>24. CASE ClearPoint
  <2>1. UNCHANGED <<run, img, reused>> /\ (pc \in {"ended", "prepare"} => pc' \in {"ended", "prepare"})
    BY <1>24
       DEF ClearPoint, MGoto, choice, flow
  <2> QED
    BY <2>1, <1>0 DEF RunStep
<1>25. CASE Probe
  <2>1. UNCHANGED <<run, img, reused>> /\ (pc \in {"ended", "prepare"} => pc' \in {"ended", "prepare"})
    BY <1>25
       DEF Probe, MGoto, choice, flow
  <2> QED
    BY <2>1, <1>0 DEF RunStep
<1>26. CASE ProbeNone
  <2>1. UNCHANGED <<run, img, reused>> /\ (pc \in {"ended", "prepare"} => pc' \in {"ended", "prepare"})
    BY <1>26
       DEF ProbeNone, MEnd, choice, flow
  <2> QED
    BY <2>1, <1>0 DEF RunStep
<1>27. CASE LookFails
  <2>1. UNCHANGED <<run, img, reused>> /\ (pc \in {"ended", "prepare"} => pc' \in {"ended", "prepare"})
    BY <1>27
       DEF LookFails, MGoto, choice, flow
  <2> QED
    BY <2>1, <1>0 DEF RunStep
<1>28. CASE LookRaspi
  <2>1. UNCHANGED <<run, img, reused>> /\ (pc \in {"ended", "prepare"} => pc' \in {"ended", "prepare"})
    BY <1>28
       DEF LookRaspi, MEnd, choice, flow
  <2> QED
    BY <2>1, <1>0 DEF RunStep
<1>29. CASE LookRoot
  <2>1. UNCHANGED <<run, img, reused>> /\ (pc \in {"ended", "prepare"} => pc' \in {"ended", "prepare"})
    BY <1>29
       DEF LookRoot, MEnd, choice, flow
  <2> QED
    BY <2>1, <1>0 DEF RunStep
<1>30. CASE LookOther
  <2>1. UNCHANGED <<run, img, reused>> /\ (pc \in {"ended", "prepare"} => pc' \in {"ended", "prepare"})
    BY <1>30
       DEF LookOther, MGoto, choice, flow
  <2> QED
    BY <2>1, <1>0 DEF RunStep
<1>31. CASE Kill
  <2>1. UNCHANGED <<run, img, reused>> /\ (pc \in {"ended", "prepare"} => pc' \in {"ended", "prepare"})
    BY <1>31
       DEF Kill, choice
  <2> QED
    BY <2>1, <1>0 DEF RunStep
<1>32. ASSUME NEW i \in Image, Writeback(i) PROVE  RunStep
  <2>1. UNCHANGED <<run, img, reused>> /\ (pc \in {"ended", "prepare"} => pc' \in {"ended", "prepare"})
    BY <1>32
       DEF Writeback, choice, flow
  <2> QED
    BY <2>1, <1>0 DEF RunStep
<1>33. CASE Terminated
  <2>1. UNCHANGED <<run, img, reused>> /\ (pc \in {"ended", "prepare"} => pc' \in {"ended", "prepare"})
    BY <1>33
       DEF Terminated, choice, flow, vars
  <2> QED
    BY <2>1, <1>0 DEF RunStep
<1>34. CASE PrepareResumes
  <2>1. run' = run /\ img' = img /\ reused' = reused \cup {run}
    BY <1>34 DEF PrepareResumes
  <2> QED
    BY <2>1, <1>0 DEF RunStep
<1>35. CASE Switched
  <2>1. UNCHANGED <<run, img, reused, pc>>
    BY <1>35 DEF Switched, choice, flow
  <2> QED
    BY <2>1, <1>0 DEF RunStep
<1> QED
  BY <1>1, <1>2, <1>3, <1>4, <1>5, <1>6, <1>7, <1>8, <1>9, <1>10, <1>11, <1>12,
     <1>13, <1>14, <1>15, <1>16, <1>17, <1>18, <1>19, <1>20, <1>21, <1>22, <1>23, <1>24,
     <1>25, <1>26, <1>27, <1>28, <1>29, <1>30, <1>31, <1>32, <1>33, <1>34, <1>35
     DEF Next, Main, MountImg, Environment

\* A loop device has the image of this run or, in a machine that was kept, of an earlier one.
LEMMA ImagesSteps ==
  ASSUME MachineOK, RunOK, ImagesOfRuns, Mounting, VmStep, RunStep
  PROVE  ImagesOfRuns'
<1>1. run \in Nat /\ run' \in Nat /\ run <= run'
  BY RunIsNat DEF RunStep
<1>2. \A r \in Image : img'[r] <= r
  BY DEF ImagesOfRuns, RunStep
<1>3. ASSUME NEW l \in Loop, vm'.loop[l] # NoImage
      PROVE  /\ vm'.loop[l] <= run'
             /\ pc' \notin {"ended", "prepare"} /\ run' \notin reused' => vm'.loop[l] = img'[run']
  <2>1. CASE vm'.loop[l] = vm.loop[l]
    <3>1. vm.loop[l] \in Nat /\ vm.loop[l] <= run
      BY <1>3, <2>1, RunAssumption DEF MachineOK, Vm, ImagesOfRuns
    <3>2. vm.loop[l] <= run'
      BY <1>1, <3>1
    <3>3. ASSUME pc' \notin {"ended", "prepare"}, run' \notin reused' PROVE vm.loop[l] = img'[run']
      <4>1. vm' # Booted
        BY <1>3 DEF Booted
      <4>2. run' = run /\ img' = img /\ reused' = reused /\ pc \notin {"ended", "prepare"}
        BY <3>3, <4>1 DEF RunStep
      <4> QED
        BY <1>3, <2>1, <3>3, <4>2 DEF ImagesOfRuns
    <3> QED
      BY <2>1, <3>2, <3>3
  <2>2. CASE mpc = "attach" /\ vm'.loop[l] = img[run]
    <3>1. pc \notin {"ended", "prepare"} /\ run \in Image
      BY <2>2 DEF Mounting
    <3>2. img[run] <= run /\ img[run] \in Nat
      <4>1. img[run] \in Image
        BY <3>1 DEF RunOK
      <4> QED
        BY <3>1, <4>1, RunAssumption DEF ImagesOfRuns
    <3>3. ASSUME pc' \notin {"ended", "prepare"} PROVE run = run' /\ img' = img
      BY <3>3 DEF RunStep
    <3> QED
      BY <1>1, <2>2, <3>2, <3>3
  <2> QED
    BY <1>3, <2>1, <2>2 DEF VmStep
<1> QED
  BY <1>2, <1>3 DEF ImagesOfRuns

\* The card gets what was copied out of the machine by its run.
CardStep ==
    /\ card' = {} \/ (UNCHANGED <<run, img>> /\ (card' = card \/ (pc = "disk" /\ card' = copy)))
    /\ pc' = "disk" => /\ UNCHANGED <<run, img>>
                       /\ \/ pc = "disk" /\ copy' = copy
                          \/ pc = "copy" /\ copy' = saved[img[run]]

\* How the copy of the image and the card change.
LEMMA CardSteps ==
  ASSUME Next
  PROVE  CardStep
<1>1. ASSUME NEW d \in Devices, NEW q \in BOOLEAN, NEW i \in Image, StartRun(d, q, i) PROVE  CardStep
  BY <1>1
     DEF StartRun, Go, CardStep, choice, host, flow, vars, machine
<1>2. CASE PrepareKeeps
  BY <1>2
     DEF PrepareKeeps, Prepared, CardStep, choice, host, flow, vars, fields, machine, mounter
<1>3. CASE PrepareStarts
  BY <1>3
     DEF PrepareStarts, Prepared, CardStep, choice, host, flow, vars, fields, mounter
<1>4. CASE StartMount
  BY <1>4
     DEF StartMount, CardStep, choice, host, flow, vars, fields, machine
<1>5. CASE AwaitMount
  BY <1>5
     DEF AwaitMount, MountFindsRaspi, MountFails, MountFindsNothing, MountDone, Goto, Fail, Go,
         CardStep, choice, host, flow, vars, machine, mounter
<1>6. ASSUME NEW yes \in BOOLEAN, AskConfigure(yes) PROVE  CardStep
  BY <1>6
     DEF AskConfigure, Goto, Go, AfterAsk, CardStep, choice, host, flow, vars, fields, mounter
<1>7. CASE Setup
  BY <1>7
     DEF Setup, Goto, Go, CardStep, choice, host, flow, vars, fields, mounter
<1>8. CASE SetupFails
  BY <1>8
     DEF SetupFails, Fail, Go, CardStep, choice, host, flow, vars, fields
<1>9. CASE LinkRules
  BY <1>9
     DEF LinkRules, Goto, Fail, Go, CardStep, choice, host, flow, vars, fields, machine, mounter
<1>10. CASE Apply
  BY <1>10
     DEF Apply, Goto, Fail, Go, Stored, CardStep, choice, host, flow, vars, fields, mounter
<1>11. CASE UnmountImg
  BY <1>11
     DEF UnmountImg, Goto, Go, UnmountAndDetach, Fail, CardStep, choice, host, flow, vars,
         fields, mounter
<1>12. CASE UnmountBoot
  BY <1>12
     DEF UnmountBoot, Goto, Go, Fail, UnmountAndDetach, CardStep, choice, host, flow, vars,
         fields, mounter
<1>13. CASE Proceed
  BY <1>13
     DEF Proceed, Goto, Go, CardStep, choice, host, flow, vars, fields, machine, mounter
<1>14. CASE ScpFrom
  BY <1>14
     DEF ScpFrom, Goto, Fail, Go, CardStep, choice, host, flow, vars, fields, machine, mounter
<1>15. CASE WriteToDisk
  BY <1>15
     DEF WriteToDisk, Goto, Fail, Go, CardStep, choice, host, flow, vars, fields, machine, mounter
<1>16. CASE Stop
  BY <1>16
     DEF Stop, Goto, Go, Poweroff, CardStep, choice, host, flow, vars, fields, machine, mounter
<1>17. CASE Done
  BY <1>17
     DEF Done, Go, CardStep, choice, host, flow, vars, fields, machine, mounter
<1>18. CASE LosetupD
  BY <1>18
     DEF LosetupD, MEnd, MGoto, CardStep, choice, host, flow, vars, fields
<1>19. CASE LosetupF
  BY <1>19
     DEF LosetupF, MEnd, MGoto, CardStep, choice, host, flow, vars, fields
<1>20. CASE MkMountDir
  BY <1>20
     DEF MkMountDir, MEnd, MGoto, CardStep, choice, host, flow, vars, machine
<1>21. CASE MountRoot
  BY <1>21
     DEF MountRoot, MEnd, MGoto, CardStep, choice, host, flow, vars
<1>22. CASE MountBoot
  BY <1>22
     DEF MountBoot, MEnd, MGoto, CardStep, choice, host, flow, vars, fields
<1>23. CASE ListParts
  BY <1>23
     DEF ListParts, MEnd, MGoto, CardStep, choice, host, flow, vars, fields, machine
<1>24. CASE ClearPoint
  BY <1>24
     DEF ClearPoint, MGoto, CardStep, choice, host, flow, vars, fields
<1>25. CASE Probe
  BY <1>25
     DEF Probe, MGoto, CardStep, choice, host, flow, vars, fields
<1>26. CASE ProbeNone
  BY <1>26
     DEF ProbeNone, MEnd, CardStep, choice, host, flow, vars, fields, machine
<1>27. CASE LookFails
  BY <1>27
     DEF LookFails, MGoto, CardStep, choice, host, flow, vars, fields, machine
<1>28. CASE LookRaspi
  BY <1>28
     DEF LookRaspi, MEnd, CardStep, choice, host, flow, vars, fields
<1>29. CASE LookRoot
  BY <1>29
     DEF LookRoot, MEnd, CardStep, choice, host, flow, vars, machine
<1>30. CASE LookOther
  BY <1>30
     DEF LookOther, MGoto, CardStep, choice, host, flow, vars, fields
<1>31. CASE Kill
  BY <1>31
     DEF Kill, CardStep, choice, host, flow, vars, fields, machine
<1>32. ASSUME NEW i \in Image, Writeback(i) PROVE  CardStep
  BY <1>32
     DEF Writeback, CardStep, choice, host, flow, vars, fields, mounter
<1>33. CASE Terminated
  BY <1>33
     DEF Terminated, CardStep, choice, host, flow, vars, fields, machine, mounter
<1>34. CASE PrepareResumes
  BY <1>34
     DEF PrepareResumes, Prepared, CardStep, choice, host, flow, vars, fields, mounter
<1>35. CASE Switched
  BY <1>35
     DEF Switched, CardStep, choice, host, flow, vars, fields, mounter
<1> QED
  BY <1>1, <1>2, <1>3, <1>4, <1>5, <1>6, <1>7, <1>8, <1>9, <1>10, <1>11, <1>12,
     <1>13, <1>14, <1>15, <1>16, <1>17, <1>18, <1>19, <1>20, <1>21, <1>22, <1>23, <1>24,
     <1>25, <1>26, <1>27, <1>28, <1>29, <1>30, <1>31, <1>32, <1>33, <1>34, <1>35
     DEF Next, Main, MountImg, Environment

\* What the image of a run holds is expected of it.
LEMMA ImageExpected ==
  ASSUME MachineOK, RunOK, ConfigOfRuns, run \in Image, NEW item \in saved[img[run]]
  PROVE  Expected(item, run)
  BY DEF RunOK, ConfigOfRuns, Expected

\* Configuration stays with its run, on the way from the mount point to the card.
LEMMA ConfigOfRunsSteps ==
  ASSUME MachineOK, RunOK, HostOK, Mounting, ImagesOfRuns, ConfigOfRuns, ConfigStep, RunStep, CardStep
  PROVE  ConfigOfRuns'
<1>1. run \in Nat /\ run' \in Nat /\ run <= run' /\ reused \subseteq reused'
  BY RunIsNat DEF RunStep
<1>2. \A r \in Image : r <= run => img'[r] = img[r]
  BY <1>1, RunAssumption DEF RunStep
<1>3. ASSUME NEW i \in Image, NEW item \in dirty'[i] \cup saved'[i]
      PROVE  /\ i <= item[1] /\ item[1] <= run'
             /\ img'[item[1]] # i => item[1] \in reused'
  <2>1. item \in Config(i)' /\ i \in Nat /\ item[1] \in Nat /\ item[1] \in Image
    BY <1>3, RunAssumption DEF Config, ConfigStep, Item
  <2>2. CASE item \in Config(i)
    <3>1. i <= item[1] /\ item[1] <= run /\ (img[item[1]] # i => item[1] \in reused)
      BY <2>2 DEF Config, ConfigOfRuns
    <3> QED
      BY <1>1, <1>2, <2>1, <3>1
  <2>3. CASE item \notin Config(i)
    <3>1. pc \in {"ask", "setup", "apply"} /\ item[1] = run
      BY <2>1, <2>3 DEF ConfigStep
    <3>2. PICK p \in Point : ImageAt(vm, p) = i
      BY <2>1, <2>3 DEF ConfigStep
    <3>3. PICK l \in Loop : vm.loop[l] = i
      BY <3>2, ImageAtProperties, RunAssumption DEF MachineOK
    <3>4. i <= run /\ (run \notin reused => i = img[run])
      BY <3>1, <3>3, RunAssumption DEF ImagesOfRuns
    <3> QED
      BY <1>1, <1>2, <2>1, <3>1, <3>4
  <2> QED
    BY <2>2, <2>3
<1>4. ASSUME UNCHANGED <<run, img>>, NEW item, Expected(item, run) PROVE Expected(item, run)'
  BY <1>1, <1>4 DEF Expected
<1>5. ASSUME pc' = "disk", NEW item \in copy' PROVE Expected(item, run)'
  <2>1. UNCHANGED <<run, img>>
    BY <1>5 DEF CardStep
  <2>2. CASE copy' = copy /\ pc = "disk"
    BY <1>4, <1>5, <2>1, <2>2 DEF ConfigOfRuns
  <2>3. CASE pc = "copy" /\ copy' = saved[img[run]]
    <3>1. run \in Image /\ item \in saved[img[run]]
      BY <1>5, <2>3 DEF Mounting
    <3> QED
      BY <1>4, <2>1, <3>1, ImageExpected
  <2> QED
    BY <1>5, <2>2, <2>3 DEF CardStep
<1>6. NoForeignConfig'
  <2> SUFFICES ASSUME NEW item \in card' PROVE Expected(item, run)'
    BY DEF NoForeignConfig
  <2>1. UNCHANGED <<run, img>> /\ (item \in card \/ (pc = "disk" /\ item \in copy))
    BY DEF CardStep
  <2>2. Expected(item, run)
    BY <2>1 DEF ConfigOfRuns, NoForeignConfig
  <2> QED
    BY <1>4, <2>1, <2>2
<1> QED
  BY <1>3, <1>5, <1>6 DEF ConfigOfRuns

\* The states of the machine.
LEMMA StateSteps ==
  ASSUME MachineOK, Next
  PROVE  state' \in States
<1> USE DEF States
<1>1. ASSUME NEW d \in Devices, NEW q \in BOOLEAN, NEW i \in Image, StartRun(d, q, i) PROVE  state' \in States
  BY <1>1
     DEF StartRun, Go, MachineOK, host, machine
<1>2. CASE PrepareKeeps
  BY <1>2
     DEF PrepareKeeps, Prepared, MachineOK, fields, host, machine, mounter
<1>3. CASE PrepareStarts
  BY <1>3 DEF PrepareStarts, Prepared
<1>4. CASE StartMount
  BY <1>4
     DEF StartMount, MachineOK, choice, fields, host, machine
<1>5. CASE AwaitMount
  BY <1>5
     DEF AwaitMount, MountFindsRaspi, MountFails, MountFindsNothing, MountDone, Goto, Fail, Go,
         MachineOK, choice, host, machine, mounter
<1>6. ASSUME NEW yes \in BOOLEAN, AskConfigure(yes) PROVE  state' \in States
  BY <1>6
     DEF AskConfigure, Goto, Go, AfterAsk, MachineOK, choice, fields, host, mounter
<1>7. CASE Setup
  BY <1>7
     DEF Setup, Goto, Go, MachineOK, choice, fields, host, mounter
<1>8. CASE SetupFails
  BY <1>8
     DEF SetupFails, Fail, Go, MachineOK, choice, fields, host
<1>9. CASE LinkRules
  BY <1>9
     DEF LinkRules, Goto, Fail, Go, MachineOK, choice, fields, host, machine, mounter
<1>10. CASE Apply
  BY <1>10
     DEF Apply, Goto, Fail, Go, Stored, MachineOK, choice, fields, host, mounter
<1>11. CASE UnmountImg
  BY <1>11
     DEF UnmountImg, Goto, Go, UnmountAndDetach, Fail, MachineOK, choice, fields, host, mounter
<1>12. CASE UnmountBoot
  BY <1>12
     DEF UnmountBoot, Goto, Go, Fail, UnmountAndDetach, MachineOK, choice, fields, host, mounter
<1>13. CASE Proceed
  BY <1>13
     DEF Proceed, Goto, Go, MachineOK, choice, fields, host, machine, mounter
<1>14. CASE ScpFrom
  BY <1>14
     DEF ScpFrom, Goto, Fail, Go, MachineOK, choice, fields, machine, mounter
<1>15. CASE WriteToDisk
  BY <1>15
     DEF WriteToDisk, Goto, Fail, Go, MachineOK, choice, fields, machine, mounter
<1>16. CASE Stop
  BY <1>16
     DEF Stop, Goto, Go, Poweroff, MachineOK, choice, fields, host, machine, mounter
<1>17. CASE Done
  BY <1>17
     DEF Done, Go, MachineOK, choice, fields, host, machine, mounter
<1>18. CASE LosetupD
  BY <1>18
     DEF LosetupD, MEnd, MGoto, MachineOK, choice, fields, flow, host
<1>19. CASE LosetupF
  BY <1>19
     DEF LosetupF, MEnd, MGoto, MachineOK, choice, fields, flow, host
<1>20. CASE MkMountDir
  BY <1>20
     DEF MkMountDir, MEnd, MGoto, MachineOK, choice, flow, host, machine
<1>21. CASE MountRoot
  BY <1>21
     DEF MountRoot, MEnd, MGoto, MachineOK, choice, flow, host
<1>22. CASE MountBoot
  BY <1>22
     DEF MountBoot, MEnd, MGoto, MachineOK, choice, fields, flow, host
<1>23. CASE ListParts
  BY <1>23
     DEF ListParts, MEnd, MGoto, MachineOK, choice, fields, flow, host, machine
<1>24. CASE ClearPoint
  BY <1>24
     DEF ClearPoint, MGoto, MachineOK, choice, fields, flow, host
<1>25. CASE Probe
  BY <1>25
     DEF Probe, MGoto, MachineOK, choice, fields, flow, host
<1>26. CASE ProbeNone
  BY <1>26
     DEF ProbeNone, MEnd, MachineOK, choice, fields, flow, host, machine
<1>27. CASE LookFails
  BY <1>27
     DEF LookFails, MGoto, MachineOK, choice, fields, flow, host, machine
<1>28. CASE LookRaspi
  BY <1>28
     DEF LookRaspi, MEnd, MachineOK, choice, fields, flow, host
<1>29. CASE LookRoot
  BY <1>29
     DEF LookRoot, MEnd, MachineOK, choice, flow, host, machine
<1>30. CASE LookOther
  BY <1>30
     DEF LookOther, MGoto, MachineOK, choice, fields, flow, host
<1>31. CASE Kill
  BY <1>31
     DEF Kill, MachineOK, choice, fields, host, machine
<1>32. ASSUME NEW i \in Image, Writeback(i) PROVE  state' \in States
  BY <1>32
     DEF Writeback, MachineOK, choice, fields, flow, host, mounter
<1>33. CASE Terminated
  BY <1>33
     DEF Terminated, MachineOK, choice, fields, flow, host, machine, mounter, vars
<1>34. CASE PrepareResumes
  BY <1>34 DEF PrepareResumes
<1>35. CASE Switched
  BY <1>35 DEF Switched, Poweroff, MachineOK
<1> QED
  BY <1>1, <1>2, <1>3, <1>4, <1>5, <1>6, <1>7, <1>8, <1>9, <1>10, <1>11, <1>12,
     <1>13, <1>14, <1>15, <1>16, <1>17, <1>18, <1>19, <1>20, <1>21, <1>22, <1>23, <1>24,
     <1>25, <1>26, <1>27, <1>28, <1>29, <1>30, <1>31, <1>32, <1>33, <1>34, <1>35
     DEF Next, Main, MountImg, Environment
\* The boot partition stays mounted until what was written to it is in the file.
LEMMA BootMountedSteps ==
  ASSUME MachineOK, RunOK, Mounting, Mounted, Attached, BootPoint(vm), ConfigOfRuns, BootMounted, Next
  PROVE  BootMounted'
<1>1. ASSUME NEW d \in Devices, NEW q \in BOOLEAN, NEW i \in Image, StartRun(d, q, i) PROVE  BootMounted'
  <2>1. run < MaxRuns /\ run' = run + 1 /\ UNCHANGED dirty /\ img' = [img EXCEPT ![run + 1] = i]
    BY <1>1 DEF StartRun, machine
  <2>2. run' \in Image
    BY <2>1, RunIsNat, RunAssumption
  <2>3. <<run', "boot">> \notin dirty[i]
    <3>1. <<run', "boot">>[1] = run'
      OBVIOUS
    <3>2. \A item \in dirty[i] : item[1] <= run
      BY DEF ConfigOfRuns
    <3>3. ~(run' <= run)
      BY <2>1, RunIsNat
    <3> QED
      BY <3>1, <3>2, <3>3
  <2>4. img'[run'] = i
    BY <2>1, <2>2 DEF RunOK
  <2> QED
    BY <2>1, <2>3, <2>4 DEF BootMounted
<1>2. CASE PrepareKeeps
  BY <1>2
     DEF PrepareKeeps, Prepared, BootMounted, Raspi, machine, choice, flow, fields, vars, host, mounter
<1>3. CASE PrepareStarts
  <2>1. /\ run' = run /\ img' = img /\ bootLeft' = bootLeft /\ pc = "prepare"
        /\ dirty' = dirty \/ dirty' = [i \in Image |-> {}]
    BY <1>3 DEF PrepareStarts, Prepared, choice
  <2>2. run \in Image /\ img[run] \in Image
    BY <2>1 DEF Mounting, RunOK
  <2> QED
    BY <2>1, <2>2 DEF BootMounted
<1>4. CASE StartMount
  BY <1>4
     DEF StartMount, BootMounted, Raspi, machine, choice, flow, fields, vars, host
<1>5. CASE AwaitMount
  BY <1>5
     DEF AwaitMount, MountFindsRaspi, MountFails, MountFindsNothing, MountDone, Goto, Fail, Go,
         BootMounted, Raspi, machine, choice, flow, fields, vars, host, mounter
<1>6. ASSUME NEW yes \in BOOLEAN, AskConfigure(yes) PROVE  BootMounted'
  <2>1. /\ run' = run /\ img' = img /\ bootLeft' = bootLeft /\ vm' = vm /\ configured' = configured /\ device' = device
        /\ pc \in {"ask", "setup"}
        /\ \/ dirty' = dirty
           \/ WriteAt("isaax-boot", <<run, "boot">>) /\ Raspi /\ pc' = "apply"
    BY <1>6 DEF AskConfigure, AfterAsk, Goto, Go, choice, fields, Raspi, Mounting
  <2>2. run \in Image /\ img[run] \in Image
    BY <2>1 DEF Mounting, RunOK
  <2>3. CASE dirty' = dirty
    BY <2>1, <2>3 DEF BootMounted
  <2>4. CASE WriteAt("isaax-boot", <<run, "boot">>) /\ Raspi /\ pc' = "apply"
    <3>1. <<run, "boot">> \in Item /\ "isaax-boot" \in Point
      BY <2>2 DEF Item, Point
    <3>2. dirty'[img[run]] \subseteq dirty[img[run]] \cup
              (IF img[run] = ImageAt(vm, "isaax-boot") THEN {<<run, "boot">>} ELSE {})
      BY <2>2, <2>4, <3>1, WriteAtProperties
    <3>3. <<run, "boot">> \notin dirty[img[run]] \/ bootLeft
      BY <2>1 DEF BootMounted
    <3> QED
      BY <2>1, <2>4, <3>2, <3>3 DEF BootMounted, Raspi
  <2> QED
    BY <2>1, <2>3, <2>4
<1>7. CASE Setup
  <2>1. /\ run' = run /\ img' = img /\ bootLeft' = bootLeft /\ vm' = vm /\ configured' = configured /\ device' = device
        /\ pc \in {"ask", "setup"}
        /\ \/ dirty' = dirty
           \/ WriteAt("isaax-boot", <<run, "boot">>) /\ Raspi /\ pc' = "apply"
    BY <1>7 DEF Setup, Goto, Go, choice, fields, Raspi, Mounting
  <2>2. run \in Image /\ img[run] \in Image
    BY <2>1 DEF Mounting, RunOK
  <2>3. CASE dirty' = dirty
    BY <2>1, <2>3 DEF BootMounted
  <2>4. CASE WriteAt("isaax-boot", <<run, "boot">>) /\ Raspi /\ pc' = "apply"
    <3>1. <<run, "boot">> \in Item /\ "isaax-boot" \in Point
      BY <2>2 DEF Item, Point
    <3>2. dirty'[img[run]] \subseteq dirty[img[run]] \cup
              (IF img[run] = ImageAt(vm, "isaax-boot") THEN {<<run, "boot">>} ELSE {})
      BY <2>2, <2>4, <3>1, WriteAtProperties
    <3>3. <<run, "boot">> \notin dirty[img[run]] \/ bootLeft
      BY <2>1 DEF BootMounted
    <3> QED
      BY <2>1, <2>4, <3>2, <3>3 DEF BootMounted, Raspi
  <2> QED
    BY <2>1, <2>3, <2>4
<1>8. CASE SetupFails
  <2>1. pc' = "ended"
    BY <1>8 DEF SetupFails, Fail, Go
  <2> QED
    BY <2>1 DEF BootMounted
<1>9. CASE LinkRules
  BY <1>9
     DEF LinkRules, Goto, Fail, Go, BootMounted, Raspi, machine, choice, flow, fields, vars,
         host, mounter
<1>10. CASE Apply
  <2>1. /\ run' = run /\ img' = img /\ bootLeft' = bootLeft /\ vm' = vm /\ configured' = configured /\ device' = device
        /\ pc = "apply" /\ pc' \in {"umountImg", "ended"}
        /\ dirty' = dirty \/ WriteAt("isaax-sd", <<run, "root">>)
    BY <1>10 DEF Apply, Stored, Goto, Fail, Go, choice, fields
  <2>2. run \in Image /\ img[run] \in Image
    BY <2>1 DEF Mounting, RunOK
  <2>3. <<run, "boot">> \in dirty'[img[run]] => <<run, "boot">> \in dirty[img[run]]
    <3>1. <<run, "root">> \in Item /\ "isaax-sd" \in Point
      BY <2>2 DEF Item, Point
    <3>2. CASE WriteAt("isaax-sd", <<run, "root">>)
      <4>1. dirty'[img[run]] \subseteq dirty[img[run]] \cup
                (IF img[run] = ImageAt(vm, "isaax-sd") THEN {<<run, "root">>} ELSE {})
        BY <2>2, <3>1, <3>2, WriteAtProperties
      <4> QED
        BY <4>1
    <3> QED
      BY <2>1, <3>2
  <2> QED
    BY <2>1, <2>3 DEF BootMounted, Raspi
<1>11. CASE UnmountImg
  <2>1. /\ run' = run /\ img' = img /\ bootLeft' = bootLeft
        /\ configured' = configured /\ device' = device /\ pc = "umountImg"
        /\ \/ dirty' = dirty /\ vm' = vm /\ mounted /\ pc' = IF Raspi THEN "umountBoot" ELSE "proceed"
           \/ ~mounted /\ (UNCHANGED <<dirty, saved>> \/ Flushed("isaax-sd"))
    BY <1>11 DEF UnmountImg, UnmountAndDetach, LeftMounted, Unmounted, Detached, Goto, Fail, Go, choice, fields
  <2>2. run \in Image /\ img[run] \in Image
    BY <2>1 DEF Mounting, RunOK
  <2>3. CASE mounted
    BY <2>1, <2>3 DEF BootMounted, Raspi
  <2>4. CASE ~mounted
    <3>1. dirty'[img[run]] \subseteq dirty[img[run]]
      BY <2>1, <2>2, <2>4, FlushedProperties DEF Point
    <3>2. ~Raspi
      BY <2>1, <2>4 DEF Mounted
    <3> QED
      BY <2>1, <3>1, <3>2 DEF BootMounted
  <2> QED
    BY <2>3, <2>4
<1>12. CASE UnmountBoot
  <2>1. /\ run' = run /\ img' = img /\ pc = "umountBoot"
        /\ \/ pc' = "ended"
           \/ bootLeft'
           \/ /\ pc' = "proceed" /\ Flushed("isaax-boot")
              /\ Unmounted("isaax-boot") \/ Detached("isaax-boot")
    BY <1>12 DEF UnmountBoot, Goto, Fail, Go, Unmounted, Detached
  <2>2. run \in Image /\ img[run] \in Image /\ img[run] # NoImage
    BY <2>1, RunAssumption DEF Mounting, RunOK
  <2>3. CASE pc' = "ended" \/ bootLeft'
    BY <2>3 DEF BootMounted
  <2>4. CASE ~bootLeft' /\ pc' = "proceed" /\ Flushed("isaax-boot") /\ (Unmounted("isaax-boot") \/ Detached("isaax-boot"))
    <3>0. bootLeft' = bootLeft
      BY <1>12, <2>1, <2>4 DEF UnmountBoot
    <3>1. dirty'[img[run]] \subseteq dirty[img[run]]
      BY <2>2, <2>4, FlushedProperties DEF Point
    <3>2. CASE <<run, "boot">> \notin dirty[img[run]]
      BY <2>1, <3>1, <3>2 DEF BootMounted
    <3>3. CASE <<run, "boot">> \in dirty[img[run]]
      <4>1. ImageAt(vm, "isaax-boot") = img[run]
        BY <2>1, <2>4, <3>0, <3>3 DEF BootMounted
      <4>2. CASE MountedTwice(vm, "isaax-boot")
        <5>1. vm.at["isaax-boot"] = <<BootPart>>
          BY <4>2 DEF MountedTwice, IsMounted, BootPoint
        <5>2. AlreadyMounted(vm, BootPart, "isaax-sd")
          BY <4>2, <5>1 DEF MountedTwice, Point, Last
        <5>3. vm'.at["isaax-sd"] = vm.at["isaax-sd"]
          BY <2>4, UnmountedProperties DEF Point
        <5> QED
          BY <2>1, <2>4, <5>2, <5>3 DEF BootMounted, AlreadyMounted
      <4>3. CASE ~MountedTwice(vm, "isaax-boot")
        <5>1. dirty' = [dirty EXCEPT ![img[run]] =
                            dirty[img[run]] \ {x \in dirty[img[run]] : x[2] = "boot"}]
          BY <2>2, <2>4, <4>1, <4>3 DEF Flushed
        <5>2. dirty'[img[run]] = dirty[img[run]] \ {x \in dirty[img[run]] : x[2] = "boot"}
          BY <2>2, <5>1 DEF MachineOK
        <5>3. <<run, "boot">>[2] = "boot"
          OBVIOUS
        <5> QED
          BY <2>1, <5>2, <5>3 DEF BootMounted
      <4> QED
        BY <4>2, <4>3
    <3> QED
      BY <3>2, <3>3
  <2> QED
    BY <2>1, <2>3, <2>4
<1>13. CASE Proceed
  BY <1>13
     DEF Proceed, Goto, Go, BootMounted, Raspi, machine, choice, flow, fields, vars, host, mounter
<1>14. CASE ScpFrom
  BY <1>14
     DEF ScpFrom, Goto, Fail, Go, BootMounted, Raspi, machine, choice, flow, fields, vars, mounter
<1>15. CASE WriteToDisk
  BY <1>15
     DEF WriteToDisk, Goto, Fail, Go, BootMounted, Raspi, machine, choice, flow, fields, vars,
         mounter
<1>16. CASE Stop
  <2>1. /\ run' = run /\ img' = img /\ bootLeft' = bootLeft /\ pc = "stop" /\ pc' = "done"
        /\ vm' = vm \/ dirty' = [i \in Image |-> {}]
        /\ dirty' = dirty \/ dirty' = [i \in Image |-> {}]
    BY <1>16 DEF Stop, Poweroff, machine, choice, Goto, Go
  <2>2. run \in Image /\ img[run] \in Image
    BY <2>1 DEF Mounting, RunOK
  <2> QED
    BY <2>1, <2>2 DEF BootMounted
<1>17. CASE Done
  BY <1>17
     DEF Done, Go, BootMounted, Raspi, machine, choice, flow, fields, vars, host, mounter
<1>18. CASE LosetupD
  <2>1. UNCHANGED <<run, img, bootLeft, pc, dirty>> /\ mpc # "idle"
    BY <1>18
       DEF LosetupD, MEnd, MGoto, choice, flow
  <2>2. pc \in {"wait", "ask", "setup"}
    BY <2>1 DEF Mounting
  <2> QED
    BY <2>1, <2>2 DEF BootMounted
<1>19. CASE LosetupF
  <2>1. UNCHANGED <<run, img, bootLeft, pc, dirty>> /\ mpc # "idle"
    BY <1>19
       DEF LosetupF, MEnd, MGoto, choice, flow
  <2>2. pc \in {"wait", "ask", "setup"}
    BY <2>1 DEF Mounting
  <2> QED
    BY <2>1, <2>2 DEF BootMounted
<1>20. CASE MkMountDir
  <2>1. UNCHANGED <<run, img, bootLeft, pc, dirty>> /\ mpc # "idle"
    BY <1>20
       DEF MkMountDir, MEnd, MGoto, choice, flow, machine
  <2>2. pc \in {"wait", "ask", "setup"}
    BY <2>1 DEF Mounting
  <2> QED
    BY <2>1, <2>2 DEF BootMounted
<1>21. CASE MountRoot
  <2>1. UNCHANGED <<run, img, bootLeft, pc, dirty>> /\ mpc # "idle"
    BY <1>21
       DEF MountRoot, MEnd, MGoto, choice, flow
  <2>2. pc \in {"wait", "ask", "setup"}
    BY <2>1 DEF Mounting
  <2> QED
    BY <2>1, <2>2 DEF BootMounted
<1>22. CASE MountBoot
  <2>1. UNCHANGED <<run, img, bootLeft, pc, dirty>> /\ mpc # "idle"
    BY <1>22
       DEF MountBoot, MEnd, MGoto, choice, flow
  <2>2. pc \in {"wait", "ask", "setup"}
    BY <2>1 DEF Mounting
  <2> QED
    BY <2>1, <2>2 DEF BootMounted
<1>23. CASE ListParts
  <2>1. UNCHANGED <<run, img, bootLeft, pc, dirty>> /\ mpc # "idle"
    BY <1>23
       DEF ListParts, MEnd, MGoto, choice, flow, machine
  <2>2. pc \in {"wait", "ask", "setup"}
    BY <2>1 DEF Mounting
  <2> QED
    BY <2>1, <2>2 DEF BootMounted
<1>24. CASE ClearPoint
  <2>1. UNCHANGED <<run, img, bootLeft, pc>> /\ (dirty' = dirty \/ Flushed("isaax-sd")) /\ mpc # "idle"
    BY <1>24
       DEF ClearPoint, MGoto, choice, flow, Unmounted
  <2>2. pc # "ended" /\ img[run] \in Image /\ pc \in {"wait", "ask", "setup"}
    BY <2>1 DEF Mounting, RunOK
  <2>3. dirty'[img[run]] \subseteq dirty[img[run]]
    BY <2>1, <2>2, FlushedProperties DEF Point
  <2> QED
    BY <2>1, <2>2, <2>3 DEF BootMounted
<1>25. CASE Probe
  <2>1. UNCHANGED <<run, img, bootLeft, pc, dirty>> /\ mpc # "idle"
    BY <1>25
       DEF Probe, MGoto, choice, flow
  <2>2. pc \in {"wait", "ask", "setup"}
    BY <2>1 DEF Mounting
  <2> QED
    BY <2>1, <2>2 DEF BootMounted
<1>26. CASE ProbeNone
  <2>1. UNCHANGED <<run, img, bootLeft, pc, dirty>> /\ mpc # "idle"
    BY <1>26
       DEF ProbeNone, MEnd, choice, flow, machine
  <2>2. pc \in {"wait", "ask", "setup"}
    BY <2>1 DEF Mounting
  <2> QED
    BY <2>1, <2>2 DEF BootMounted
<1>27. CASE LookFails
  <2>1. UNCHANGED <<run, img, bootLeft, pc, dirty>> /\ mpc # "idle"
    BY <1>27
       DEF LookFails, MGoto, choice, flow, machine
  <2>2. pc \in {"wait", "ask", "setup"}
    BY <2>1 DEF Mounting
  <2> QED
    BY <2>1, <2>2 DEF BootMounted
<1>28. CASE LookRaspi
  <2>1. UNCHANGED <<run, img, bootLeft, pc>> /\ (dirty' = dirty \/ Flushed("isaax-sd")) /\ mpc # "idle"
    BY <1>28
       DEF LookRaspi, MEnd, choice, flow, Unmounted
  <2>2. pc # "ended" /\ img[run] \in Image /\ pc \in {"wait", "ask", "setup"}
    BY <2>1 DEF Mounting, RunOK
  <2>3. dirty'[img[run]] \subseteq dirty[img[run]]
    BY <2>1, <2>2, FlushedProperties DEF Point
  <2> QED
    BY <2>1, <2>2, <2>3 DEF BootMounted
<1>29. CASE LookRoot
  <2>1. UNCHANGED <<run, img, bootLeft, pc, dirty>> /\ mpc # "idle"
    BY <1>29
       DEF LookRoot, MEnd, choice, flow, machine
  <2>2. pc \in {"wait", "ask", "setup"}
    BY <2>1 DEF Mounting
  <2> QED
    BY <2>1, <2>2 DEF BootMounted
<1>30. CASE LookOther
  <2>1. UNCHANGED <<run, img, bootLeft, pc>> /\ (dirty' = dirty \/ Flushed("isaax-sd")) /\ mpc # "idle"
    BY <1>30
       DEF LookOther, MGoto, choice, flow, Unmounted
  <2>2. pc # "ended" /\ img[run] \in Image /\ pc \in {"wait", "ask", "setup"}
    BY <2>1 DEF Mounting, RunOK
  <2>3. dirty'[img[run]] \subseteq dirty[img[run]]
    BY <2>1, <2>2, FlushedProperties DEF Point
  <2> QED
    BY <2>1, <2>2, <2>3 DEF BootMounted
<1>31. CASE Kill
  <2>1. pc' = "ended"
    BY <1>31 DEF Kill
  <2> QED
    BY <2>1 DEF BootMounted
<1>32. ASSUME NEW i \in Image, Writeback(i) PROVE  BootMounted'
  <2>1. /\ dirty' = [dirty EXCEPT ![i] = {}]
        /\ UNCHANGED <<run, img, bootLeft, pc, vm, configured, device>>
    BY <1>32 DEF Writeback, choice, flow, fields
  <2>2. pc # "ended" => dirty'[img[run]] \subseteq dirty[img[run]]
    BY <2>1 DEF MachineOK, Mounting
  <2> QED
    BY <2>1, <2>2 DEF BootMounted, Raspi
<1>33. CASE Terminated
  BY <1>33
     DEF Terminated, BootMounted, Raspi, machine, choice, flow, fields, vars, host, mounter
<1>34. CASE PrepareResumes
  BY <1>34
     DEF PrepareResumes, Prepared, BootMounted, Raspi, flow, fields, host, mounter
<1>35. CASE Switched
  <2>1. pc' = "ended"
    BY <1>35 DEF Switched, flow
  <2> QED
    BY <2>1 DEF BootMounted
<1> QED
  BY <1>1, <1>2, <1>3, <1>4, <1>5, <1>6, <1>7, <1>8, <1>9, <1>10, <1>11, <1>12,
     <1>13, <1>14, <1>15, <1>16, <1>17, <1>18, <1>19, <1>20, <1>21, <1>22, <1>23, <1>24,
     <1>25, <1>26, <1>27, <1>28, <1>29, <1>30, <1>31, <1>32, <1>33, <1>34, <1>35
     DEF Next, Main, MountImg, Environment

-----------------------------------------------------------------------------
\* The invariant.

\* The program has never run.
LEMMA SdInit == Init => SdInv
<1> SUFFICES ASSUME Init PROVE SdInv
  OBVIOUS
<1>1. MachineOK
  BY BootedProperties DEF Init, MachineOK
<1>2. HostOK
  BY DEF Init, HostOK
<1>3. RunOK
  <2>1. run \in 0 .. MaxRuns
    BY RunAssumption DEF Init
  <2> QED
    BY <2>1 DEF Init, RunOK
<1>4. MounterOK
  <2>1. k \in 1 .. MaxParts + 1
    BY DiskAssumption DEF Init
  <2> QED
    BY <2>1 DEF Init, MounterOK
<1>5. Mounting /\ Mounted
  BY DEF Init, Mounting, Mounted, InMachine
<1>6. Attached /\ BootPoint(vm)
  <2>1. vm = Booted /\ Booted.at["isaax-boot"] = <<>>
    BY DEF Init, Booted, Point
  <2> QED
    BY <2>1, BootedProperties DEF Attached, BootPoint
<1>7. ImagesOfRuns
  <2>1. \A r \in Image : img[r] <= r
    BY RunAssumption DEF Init
  <2>2. \A l \in Loop : vm.loop[l] = NoImage
    BY DEF Init, Booted
  <2> QED
    BY <2>1, <2>2 DEF ImagesOfRuns
<1>8. ConfigOfRuns
  BY DEF Init, ConfigOfRuns, NoForeignConfig
<1>9. BootMounted
  BY DEF Init, BootMounted
<1> QED
  BY <1>1, <1>2, <1>3, <1>4, <1>5, <1>6, <1>7, <1>8, <1>9 DEF SdInv, TypeOK

\* Every step keeps the invariant.
LEMMA SdNext == SdInv /\ [Next]_vars => SdInv'
<1>1. ASSUME SdInv, Next PROVE SdInv'
  <2>1. /\ TypeOK /\ MachineOK /\ HostOK /\ RunOK /\ MounterOK
        /\ Mounting /\ Mounted /\ Attached /\ BootPoint(vm)
        /\ ImagesOfRuns /\ ConfigOfRuns /\ BootMounted
    BY <1>1 DEF SdInv, TypeOK
  <2>2. VmStep /\ ConfigStep /\ RunStep /\ CardStep
    BY <1>1, <2>1, VmSteps, ConfigSteps, RunSteps, CardSteps
  <2>3. MachineOK' /\ Attached' /\ BootPoint(vm)'
    <3>1. state' \in States
      BY <1>1, <2>1, StateSteps
    <3> QED
      BY <2>2, <3>1 DEF VmStep, ConfigStep, MachineOK, Attached, States
  <2>4. HostOK' /\ RunOK' /\ MounterOK'
    BY <1>1, <2>1, OtherTypes
  <2>5. Mounting' /\ Mounted'
    BY <1>1, <2>1, MountingSteps, MountedSteps
  <2>6. ImagesOfRuns'
    BY <2>1, <2>2, ImagesSteps
  <2>7. ConfigOfRuns'
    BY <2>1, <2>2, ConfigOfRunsSteps
  <2>8. BootMounted'
    BY <1>1, <2>1, BootMountedSteps
  <2> QED
    BY <2>3, <2>4, <2>5, <2>6, <2>7, <2>8 DEF SdInv, TypeOK
<1>2. ASSUME SdInv, UNCHANGED vars PROVE SdInv'
  <2> USE DEF vars, machine, host, choice, flow, mounter, fields
  <2>1. TypeOK'
    <3>1. MachineOK' /\ HostOK'
      BY <1>2 DEF SdInv, TypeOK, MachineOK, HostOK
    <3>2. RunOK'
      BY <1>2 DEF SdInv, TypeOK, RunOK
    <3>3. MounterOK'
      BY <1>2 DEF SdInv, TypeOK, MounterOK
    <3> QED
      BY <3>1, <3>2, <3>3 DEF TypeOK
  <2>2. Mounting' /\ Mounted'
    BY <1>2 DEF SdInv, Mounting, Mounted, Raspi
  <2>3. Attached' /\ BootPoint(vm)' /\ ImagesOfRuns' /\ ConfigOfRuns'
    BY <1>2 DEF SdInv, Attached, ImagesOfRuns, ConfigOfRuns, NoForeignConfig, Expected
  <2>4. BootMounted'
    BY <1>2 DEF SdInv, BootMounted, Raspi
  <2> QED
    BY <2>1, <2>2, <2>3, <2>4 DEF SdInv
<1> QED
  BY <1>1, <1>2

\* The invariant holds in every reachable state.
THEOREM SdInvariant == Spec => []SdInv
  BY SdInit, SdNext, PTL DEF Spec

\* The types of all variables.
THEOREM SdType == Spec => []TypeOK
<1>1. SdInv => TypeOK
  BY DEF SdInv
<1> QED
  BY <1>1, SdInvariant, PTL

\* A card written from a new image file carries the configuration of the run that wrote it and
\* of no other, however many runs went before and whatever they left in the machine; one
\* written from an earlier run's plain .img carries that run's too.
THEOREM CardHasItsOwnConfig == Spec => []NoForeignConfig
<1>1. SdInv => NoForeignConfig
  BY DEF SdInv, ConfigOfRuns
<1> QED
  BY <1>1, SdInvariant, PTL

\* Configuration goes astray, into an image file its run does not work on, only in a machine
\* that Prepare found running and kept, or found suspended and resumed.
THEOREM StrayConfig == Spec => []StrayConfigNeedsKeptMachine
<1>1. SdInv => StrayConfigNeedsKeptMachine
  BY DEF SdInv, ConfigOfRuns, StrayConfigNeedsKeptMachine
<1> QED
  BY <1>1, SdInvariant, PTL

\* The configuration is never written below an empty mount point, a beagleBone's mount that
\* overlaps its questions included.
THEOREM ConfigIsMounted == Spec => []AppliedWhileMounted
<1>1. SdInv => AppliedWhileMounted
  <2> SUFFICES ASSUME SdInv, pc = "apply"
               PROVE  mounted /\ ImageAt(vm, "isaax-sd") # NoImage
    BY DEF AppliedWhileMounted
  <2>1. mounted /\ IsMounted(vm, "isaax-sd")
    BY DEF SdInv, Mounted, InMachine
  <2> QED
    BY <2>1, ImageAtProperties DEF SdInv, TypeOK, MachineOK, Attached, Point
<1> QED
  BY <1>1, SdInvariant, PTL

\* What was written to the boot partition is in the image file before that is copied out, unless
\* its umount failed unseen or the search had left the partition mounted a second time.
THEOREM BootIsWhole == Spec => []BootCopiedWhole
<1>1. SdInv => BootCopiedWhole
  BY DEF SdInv, BootMounted, BootCopiedWhole
<1> QED
  BY <1>1, SdInvariant, PTL
=============================================================================
