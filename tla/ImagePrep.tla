------------------------------ MODULE ImagePrep ------------------------------
(***************************************************************************)
(* flasher.prepareImage: download the image, check its hash, copy it into  *)
(* the virtual machine and extract it there.  The file on the host and the *)
(* files in /tmp of the machine outlive the program; several runs on the   *)
(* same image follow each other, each of which may be interrupted.         *)
(*                                                                         *)
(* A command run over SSH gives an error only if the connection fails; its *)
(* exit status is not read, so that one that fails without a message on    *)
(* stderr is taken for one that succeeds.  A command that outlives its     *)
(* timer is told on stderr.  One whose result is ignored may not have run. *)
(*                                                                         *)
(* Contents: "none" for no file, "cut" for a part of one, "bad" for wrong  *)
(* bytes, "whole", and "used" for an image a run has configured; for an    *)
(* extracted image "cut" also stands for wrong bytes.                      *)
(***************************************************************************)
EXTENDS Naturals

CONSTANTS
    MaxRuns,      \* bound: runs of the program
    MaxRetries,   \* CRC retries of a run (retries < 2)
    Formats,      \* of {"img", "zip", "7z", "tar"}; xz behaves like tar
    Hashes        \* is the SHA256 of the image known? a subset of BOOLEAN

ASSUME PrepAssumption ==
    MaxRuns \in Nat \ {0} /\ MaxRetries \in Nat \ {0} /\ Hashes \subseteq BOOLEAN

VARIABLES
    format, hash, local,   \* the image: its format, is its hash known, is it a local file?
    host,                  \* the file downloaded, or given
    arch, img,             \* in the machine: the copy of that file, and what was extracted
    run, pc, retries,
    dimg,                  \* is d.img set?
    handed,                \* what the flasher works on after Prepare
    found,                 \* history: was a file in the machine taken for the image in this run?
    badLength,             \* history: did the extraction end with "bad length"?
    faults                 \* history: what went wrong unseen in this run

choice == <<format, hash, local>>
files == <<host, arch, img>>
history == <<found, badLength, faults>>
vars == <<choice, files, run, pc, retries, dimg, handed, history>>

FilesOK ==
    /\ format \in Formats /\ hash \in Hashes /\ local \in BOOLEAN
    /\ host \in {"none", "cut", "bad", "whole"}
    /\ arch \in {"none", "cut", "bad", "whole", "used"}
    /\ img \in {"none", "cut", "whole", "used"}

RunOK ==
    /\ pc \in {"ended", "download", "verify", "upload", "extract", "zip", "rm", "unpack", "crc",
               "unzip", "ls", "use"}
    /\ dimg \in BOOLEAN /\ found \in BOOLEAN /\ badLength \in BOOLEAN
    /\ handed \in {"nothing", "none", "cut", "bad", "whole", "used"}
    /\ run \in 0 .. MaxRuns /\ retries \in 0 .. MaxRetries

TypeOK == FilesOK /\ RunOK /\ faults \subseteq {"rm", "status", "scp"}

Init ==
    /\ format \in Formats /\ hash \in Hashes /\ local \in BOOLEAN
    /\ local => ~hash
    /\ host \in IF local THEN {"bad", "whole"} ELSE {"none", "cut", "bad", "whole"}
    /\ arch = "none" /\ img = "none"
    /\ run = 0 /\ pc = "ended" /\ retries = 0
    /\ dimg = FALSE /\ handed = "nothing"
    /\ found = FALSE /\ badLength = FALSE /\ faults = {}

Goto(from, to) == pc = from /\ pc' = to

File == INSTANCE ImageFile WITH
    content <- host, fetch <- IF pc = "download" THEN "asking" ELSE "ended"

\* What DownloadImage may make of the file on the host; a local one is not downloaded.
Fetched == IF local THEN {host} ELSE File!Got(host)

\* A new process: the package variable retries and the flasher are fresh.
StartRun ==
    /\ Goto("ended", "download")
    /\ run < MaxRuns /\ run' = run + 1
    /\ retries' = 0 /\ dimg' = FALSE /\ handed' = "nothing"
    /\ found' = FALSE /\ badLength' = FALSE /\ faults' = {}
    /\ UNCHANGED <<choice, files>>

\* The program is interrupted: a download, a copy or an extraction under way is left behind.
Kill ==
    /\ pc # "ended" /\ pc' = "ended"
    /\ host' \in {host} \cup (IF pc = "download" THEN Fetched ELSE {})
    /\ arch' \in {arch} \cup (IF pc = "upload" THEN {"cut"} ELSE {})
    /\ img' \in {img} \cup (IF pc = "unpack" /\ img = "none" THEN {"cut"} ELSE {})
    /\ UNCHANGED <<choice, run, retries, dimg, handed, history>>

\* The machine loses its /tmp between two runs.
Poweroff ==
    /\ pc = "ended" /\ UNCHANGED pc
    /\ arch # "none" \/ img # "none"
    /\ arch' = "none" /\ img' = "none"
    /\ UNCHANGED <<choice, host, run, retries, dimg, handed, history>>

\* Any step that talks to the server or the machine may fail; Prepare returns it.
Fail(from) == Goto(from, "ended")

-----------------------------------------------------------------------------
\* DownloadImage (module ImageDownload, which implements ImageFile): with or without an
\* error the file is left as far as it came, and a part of one is resumed.
DownloadImage ==
    /\ \/ Fail("download") /\ host' \in {host} \cup Fetched
       \/ Goto("download", "verify") /\ host' \in Fetched
    /\ UNCHANGED <<choice, arch, img, run, retries, dimg, handed, history>>

\* Faulty variant: the hash is computed but not compared.
VerifyNothing ==
    /\ Goto("verify", "upload")
    /\ UNCHANGED <<choice, files, run, retries, dimg, handed, history>>

VerifyHash ==
    /\ IF hash /\ host # "whole" THEN Fail("verify") ELSE Goto("verify", "upload")
    /\ UNCHANGED <<choice, files, run, retries, dimg, handed, history>>

\* uploadImage: a file of that name in the machine is taken for the image, unless
\* the question fails.  When scp fails the copy goes to the home directory, which
\* is taken for success.
UploadImage ==
    /\ \/ Goto("upload", "extract") /\ arch # "none" /\ found' = TRUE /\ UNCHANGED <<arch, faults>>
       \/ Goto("upload", "extract") /\ arch' = host /\ UNCHANGED <<found, faults>>
       \/ /\ Goto("upload", "extract") /\ arch' \in {arch, "cut"}
          /\ faults' = faults \cup {"scp"} /\ UNCHANGED found
       \/ Fail("upload") /\ arch' \in {arch, "cut"} /\ UNCHANGED <<found, faults>>
    /\ UNCHANGED <<choice, host, img, run, retries, dimg, handed, badLength>>

-----------------------------------------------------------------------------
\* extractImage; it is not called when d.img is set already.
ExtractImage ==
    /\ \/ (dimg \/ format = "img") /\ Goto("extract", "use")
       \/ ~dimg /\ format = "zip" /\ Goto("extract", "zip")
       \/ ~dimg /\ format \in {"7z", "tar"} /\ Goto("extract", "rm")
    /\ dimg' = (dimg \/ format = "img")
    /\ UNCHANGED <<choice, files, run, retries, handed, history>>

\* Faulty variant: an extracted image of the right size is used again.
ReuseExtracted ==
    /\ IF ~local /\ img \in {"whole", "used"}
       THEN Goto("zip", "use") /\ dimg' = TRUE
       ELSE Goto("zip", "rm") /\ dimg' = FALSE
    /\ UNCHANGED <<choice, files, run, retries, handed, history>>

\* A zip archive of one file: if that is in the machine d.img is set, but the
\* archive is extracted all the same.  A local archive is looked for elsewhere.
LookIntoZip ==
    /\ Goto("zip", "rm")
    /\ dimg' \in {FALSE, ~local /\ host \in {"bad", "whole"} /\ img # "none"}
    /\ UNCHANGED <<choice, files, run, retries, handed, history>>

\* Faulty variant: images of earlier runs are left alone.
KeepImages ==
    /\ Goto("rm", "unpack")
    /\ UNCHANGED <<choice, files, run, retries, dimg, handed, history>>

\* rm -rf /tmp/*.img, its result ignored.
RemoveImages ==
    /\ Goto("rm", "unpack")
    /\ \/ img' = "none" /\ UNCHANGED faults
       \/ UNCHANGED img /\ faults' = faults \cup {"rm"}
    /\ UNCHANGED <<choice, host, arch, run, retries, dimg, handed, found, badLength>>

\* 7z -aos does not overwrite.
Unpacked(c) == IF format = "7z" /\ img # "none" THEN img ELSE c

\* The extraction ends without a message on stderr: done, of wrong bytes too, or with
\* an exit status that nobody reads.  Its output names the image, or does not: then
\* /tmp is listed.
UnpackDone ==
    /\ \/ Goto("unpack", "use") /\ dimg' = TRUE
       \/ Goto("unpack", "ls") /\ UNCHANGED dimg
    /\ \/ arch = "whole" /\ img' = Unpacked("whole") /\ UNCHANGED faults
       \/ arch = "bad" /\ img' = Unpacked("cut") /\ UNCHANGED faults
       \/ arch # "none" /\ img' = Unpacked("cut") /\ faults' = faults \cup {"status"}
    /\ UNCHANGED <<choice, host, arch, run, retries, handed, found, badLength>>

\* It ends with a message: unzip tells damaged data and a wrong length, which it
\* also reports of sizes it cannot count, from other errors and from the message that
\* the time is up, which end the run.
UnpackFails ==
    /\ img' \in {img} \cup (IF arch # "none" THEN {Unpacked("cut")} ELSE {})
    /\ \/ Fail("unpack") /\ UNCHANGED badLength
       \/ /\ format = "zip" /\ arch \in {"bad", "cut"}
          /\ Goto("unpack", "crc") /\ UNCHANGED badLength
       \/ /\ format = "zip" /\ arch # "none"
          /\ Goto("unpack", "unzip") /\ badLength' = TRUE
    /\ UNCHANGED <<choice, host, arch, run, retries, dimg, handed, found, faults>>

\* Faulty variant: the retries are noted, not counted.
RetryNoted ==
    /\ ~local /\ retries < MaxRetries
    /\ Goto("crc", "download")
    /\ host' = "none" /\ arch' \in {arch, "none"}
    /\ retries' = 1
    /\ UNCHANGED <<choice, img, run, dimg, handed, history>>

\* Damaged data: both copies are removed, the one in the machine without a look
\* at the result, and prepareImage starts again.
RetryCRC ==
    /\ ~local /\ retries < MaxRetries
    /\ Goto("crc", "download")
    /\ host' = "none" /\ arch' \in {arch, "none"}
    /\ retries' = retries + 1
    /\ UNCHANGED <<choice, img, run, dimg, handed, history>>

\* The last retry, or a local file: on to the listing of /tmp.
GiveUpCRC ==
    /\ local \/ retries >= MaxRetries
    /\ Goto("crc", "ls")
    /\ UNCHANGED <<choice, files, run, retries, dimg, handed, history>>

\* A wrong length: unzip on the host into its temporary directory.  The image is
\* then looked for in the current directory: with no name found there is nothing
\* to upload, and a file of that name in the machine is taken for it.
UnzipOnHost ==
    /\ \/ Fail("unzip") /\ UNCHANGED img
       \/ Goto("unzip", "ls") /\ img' \in {img} \cup (IF img = "none" THEN {"whole"} ELSE {})
    /\ UNCHANGED <<choice, host, arch, run, retries, dimg, handed, history>>

\* ls -1 /tmp: the first image found is the one.
ListTmp ==
    /\ Goto("ls", "use")
    /\ dimg' \in {dimg, dimg \/ img # "none"}
    /\ UNCHANGED <<choice, files, run, retries, handed, history>>

\* The flasher goes on with d.img: it configures that file in the machine.
Use ==
    /\ Goto("use", "ended")
    /\ handed' = IF ~dimg THEN "none" ELSE IF format = "img" THEN arch ELSE img
    /\ IF format = "img"
       THEN arch' = (IF arch = "whole" THEN "used" ELSE arch) /\ UNCHANGED img
       ELSE img' = (IF img = "whole" /\ dimg THEN "used" ELSE img) /\ UNCHANGED arch
    /\ UNCHANGED <<choice, host, run, retries, dimg, history>>

-----------------------------------------------------------------------------
Prepare == \/ DownloadImage \/ VerifyHash \/ UploadImage \/ ExtractImage \/ LookIntoZip
           \/ RemoveImages \/ UnpackDone \/ UnpackFails \/ RetryCRC \/ GiveUpCRC
           \/ UnzipOnHost \/ ListTmp \/ Use

Terminated == pc = "ended" /\ run = MaxRuns /\ UNCHANGED vars

Next == StartRun \/ Kill \/ Poweroff \/ Prepare \/ Terminated

\* Every command returns, or is abandoned when its timer runs out.
Spec == Init /\ [][Next]_vars /\ WF_vars(Prepare)

-----------------------------------------------------------------------------
\* What a flasher, and its user, may rely on.

\* The run took the file that is in the machine for the plain image it works on, or for
\* the copy that scp did not make.
TakenAsItWas == format = "img" /\ (found \/ "scp" \in faults)

\* No run configures the image an earlier run has configured, unless the removal of an
\* extracted one failed unseen, or the image is a plain one that this run has not uploaded.
UsedImageNeedsFault == handed = "used" => "rm" \in faults \/ TakenAsItWas

\* With a known hash, a run works on a damaged image only after a command that failed
\* unseen or one of the two repairs: what interrupted runs left on the host and in the
\* machine is not enough, unless it is a plain image that this run has not uploaded.
CutImageNeedsFault ==
    handed = "cut" /\ hash => faults # {} \/ retries > 0 \/ badLength \/ TakenAsItWas

\* With a known hash, wrong bytes never reach the machine, whatever was on the
\* host before, and however often the image is downloaded again.
OnlyVerifiedIsUploaded == hash => arch # "bad" /\ handed # "bad"

\* Prepare comes to an end, however often a download turns out to be damaged.
PrepareEnds == pc # "ended" ~> pc = "ended"
=============================================================================
