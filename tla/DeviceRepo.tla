------------------------------ MODULE DeviceRepo ------------------------------
(***************************************************************************)
(* repo: the list of devices and images, mapping.json.  It is downloaded   *)
(* when there is none, when it is a day old, and by "iotit update"; every  *)
(* run reads it once.  The file outlives the runs, which may be offline,   *)
(* may be answered with an error page, and may be killed.                  *)
(*                                                                         *)
(* help.DownloadFile takes a file of the server's length for the server's  *)
(* file, and removes any other before it asks for the new one.  It does    *)
(* not look at the status of a response: the page of an error is written   *)
(* to mapping.json like a mapping.                                         *)
(***************************************************************************)
EXTENDS Integers

CONSTANTS
    MaxVersion,   \* bound: versions the server publishes
    Lengths,      \* how many lengths they have
    MaxKills      \* bound: runs that are killed

ASSUME VersionAssumption ==
    MaxVersion \in Nat \ {0} /\ Lengths \in Nat \ {0} /\ MaxKills \in Nat

Version == 1 .. MaxVersion
Length(v) == (v % Lengths) + 1

\* The whole file of a version is that version; these are the other states of it.
None == 0       \* no file
Empty == -1     \* created, and nothing written
Cut == -2       \* a part of some version
Page == -3      \* the page of an HTTP error: not JSON, and not empty

PageLength == Lengths + 1   \* of no version's length
Untold == -1    \* the length of a response that does not tell it

VARIABLES
    server,    \* the version published
    net,       \* is the server reached ("up"), does it answer with errors, or not at all?
    writable,  \* can the file be removed, created and written?
    mapping,   \* mapping.json
    fresh,     \* is it less than 24 hours old?
    rpc, cmd,  \* the process, and its command
    asked,     \* the length the server told
    body,      \* what it is sending
    dm,        \* the list in memory: a version, or None if it has no devices
    said,      \* what the command came to
    recent,    \* history: was the file left alone because it was fresh?
    newest,    \* history: the version published when the run began
    failed,    \* history: did a request of this run fail, or a call on the file?
    paged,     \* history: was a request of this run answered with an error page?
    kills

world == <<server, net, writable>>
wire == <<asked, body>>
past == <<recent, newest, failed, paged, kills>>
repoVars == <<world, mapping, fresh, rpc, cmd, wire, dm, said, past>>

MappingOK ==
    /\ server \in Version /\ newest \in Version
    /\ mapping \in Version \cup {None, Empty, Cut, Page}
    /\ dm \in {None} \cup Version
    /\ asked \in {Untold} \cup 0 .. PageLength
    /\ body \in Version \cup {None, Page}

RunnerOK ==
    /\ net \in {"up", "errors", "down"} /\ writable \in BOOLEAN /\ fresh \in BOOLEAN
    /\ rpc \in {"idle", "check", "length", "delete", "create", "get", "copy", "chtimes",
               "read", "done"}
    /\ cmd \in {"flash", "update"}
    /\ said \in {"nothing", "updated", "error", "found"}
    /\ recent \in BOOLEAN /\ failed \in BOOLEAN /\ paged \in BOOLEAN

RepoTypeOK == MappingOK /\ RunnerOK /\ kills \in 0 .. MaxKills

\* A first installation, or one with some version.
RepoInit ==
    /\ server = 1 /\ net = "up" /\ writable = TRUE
    /\ mapping \in {None, 1} /\ fresh = FALSE
    /\ rpc = "idle" /\ cmd = "flash" /\ asked = 0 /\ body = None
    /\ dm = None /\ said = "nothing" /\ recent = FALSE
    /\ newest = 1 /\ failed = FALSE /\ paged = FALSE /\ kills = 0

-----------------------------------------------------------------------------
\* The world.

Publish ==
    /\ server < MaxVersion /\ server' = server + 1
    /\ UNCHANGED <<net, writable, mapping, fresh, rpc, cmd, wire, dm, said, past>>

Network ==
    /\ net' \in {"up", "errors", "down"} \ {net}
    /\ UNCHANGED <<server, writable, mapping, fresh, rpc, cmd, wire, dm, said, past>>

Permissions ==
    /\ writable' = ~writable
    /\ UNCHANGED <<server, net, mapping, fresh, rpc, cmd, wire, dm, said, past>>

Day ==
    /\ fresh /\ fresh' = FALSE
    /\ rpc = "idle"
    /\ UNCHANGED <<world, mapping, rpc, cmd, wire, dm, said, past>>

RepoKill ==
    /\ rpc \notin {"idle", "done"} /\ rpc' = "idle"
    /\ kills < MaxKills /\ kills' = kills + 1
    /\ mapping' \in IF rpc = "copy" THEN {Empty, Cut} ELSE {mapping}
    /\ UNCHANGED <<world, fresh, cmd, wire, dm, said, recent, newest, failed, paged>>

-----------------------------------------------------------------------------
\* A run.

Step(from, to) == rpc = from /\ rpc' = to

Start(c) ==
    /\ Step("idle", IF c = "flash" THEN "check" ELSE "length")
    /\ cmd' = c
    /\ dm' = None /\ said' = "nothing" /\ recent' = FALSE /\ newest' = server
    /\ failed' = FALSE /\ paged' = FALSE
    /\ UNCHANGED <<world, mapping, fresh, wire, kills>>

\* Faulty variant: the file is looked for, its date is not.
CheckExistsOnly ==
    /\ Step("check", IF mapping = None THEN "length" ELSE "read")
    /\ recent' = fresh
    /\ UNCHANGED <<world, mapping, fresh, cmd, wire, dm, said, newest, failed, paged, kills>>

\* Faulty variant: an empty file counts as up to date, whatever its date.
CheckEmptyIsFresh ==
    /\ Step("check", IF mapping = None \/ (~fresh /\ mapping # Empty) THEN "length" ELSE "read")
    /\ recent' = (mapping # None /\ fresh)
    /\ UNCHANGED <<world, mapping, fresh, cmd, wire, dm, said, newest, failed, paged, kills>>

\* CheckDevicesRepository
CheckDevicesRepository ==
    /\ Step("check", IF mapping = None \/ ~fresh THEN "length" ELSE "read")
    /\ recent' = (mapping # None /\ fresh)
    /\ UNCHANGED <<world, mapping, fresh, cmd, wire, dm, said, newest, failed, paged, kills>>

\* The download has failed: flash goes on with what there is.
Abandon(from) ==
    /\ Step(from, IF cmd = "flash" THEN "read" ELSE "done")
    /\ said' = IF cmd = "flash" THEN said ELSE "error"
    /\ failed' = TRUE

\* DownloadFile asks for the server's length if there is a file; it is 0 without
\* an answer, -1 if the answer does not tell it, and an error page has one too.
AskLength ==
    /\ IF mapping = None
       THEN Step("length", "create") /\ asked' = 0 /\ UNCHANGED <<failed, paged>>
       ELSE /\ Step("length", "delete")
            /\ asked' \in CASE net = "up" -> {Length(server), Untold}
                             [] net = "errors" -> {PageLength, Untold}
                             [] net = "down" -> {0}
            /\ failed' = (failed \/ net = "down") /\ paged' = (paged \/ net = "errors")
    /\ UNCHANGED <<world, mapping, fresh, cmd, body, dm, said, recent, newest, kills>>

\* Is the local file of the length the server told?  A part of a file is not.
SameLength == \/ mapping \in Version /\ Length(mapping) = asked
              \/ mapping = Empty /\ asked = 0
              \/ mapping = Page /\ asked = PageLength

DeleteFile == mapping' = None /\ fresh' = FALSE

\* Faulty variant: any file that is not empty is kept.
KeepNonEmpty ==
    /\ \/ mapping # Empty /\ Step("delete", "chtimes") /\ UNCHANGED <<mapping, fresh>>
       \/ mapping = Empty /\ Step("delete", "create") /\ DeleteFile
    /\ UNCHANGED <<world, cmd, wire, dm, said, past>>

\* Such a file is kept, another is removed; the error of DeleteFile is dropped.
KeepOrDelete ==
    /\ \/ SameLength /\ Step("delete", "chtimes") /\ UNCHANGED <<mapping, fresh>>
       \/ ~SameLength /\ Step("delete", "create") /\ DeleteFile
       \/ ~SameLength /\ ~writable /\ Step("delete", "create") /\ UNCHANGED <<mapping, fresh>>
    /\ UNCHANGED <<world, cmd, wire, dm, said, past>>

\* os.Create truncates a file that was not removed.
CreateMapping ==
    /\ \/ Step("create", "get") /\ mapping' = Empty /\ fresh' = TRUE /\ UNCHANGED <<said, failed>>
       \/ ~writable /\ Abandon("create") /\ UNCHANGED <<mapping, fresh>>
    /\ UNCHANGED <<world, cmd, wire, dm, recent, newest, paged, kills>>

\* A response with an error status is no error of http.Get.
GetMapping ==
    /\ \/ net = "up" /\ Step("get", "copy") /\ body' = server /\ UNCHANGED <<said, failed, paged>>
       \/ /\ net = "errors" /\ Step("get", "copy") /\ body' = Page /\ paged' = TRUE
          /\ UNCHANGED <<said, failed>>
       \/ net = "down" /\ Abandon("get") /\ UNCHANGED <<body, paged>>
    /\ UNCHANGED <<world, mapping, fresh, cmd, asked, dm, recent, newest, kills>>

\* The response, or a part of it.
Copy ==
    /\ \/ net # "down" /\ Step("copy", "chtimes") /\ mapping' = body /\ UNCHANGED <<said, failed>>
       \/ (net = "down" \/ ~writable) /\ Abandon("copy") /\ mapping' \in {Empty, Cut}
    /\ UNCHANGED <<world, fresh, cmd, wire, dm, recent, newest, paged, kills>>

\* os.Chtimes
Touch ==
    /\ \/ /\ Step("chtimes", IF cmd = "flash" THEN "read" ELSE "done") /\ fresh' = TRUE
          /\ said' = IF cmd = "flash" THEN said ELSE "updated"
          /\ UNCHANGED failed
       \/ ~writable /\ Abandon("chtimes") /\ UNCHANGED fresh
    /\ UNCHANGED <<world, mapping, cmd, wire, dm, recent, newest, paged, kills>>

\* GetDeviceRepo: dm is set before the file is read, and stays empty if it
\* cannot be read or parsed.
GetDeviceRepo ==
    /\ Step("read", "done")
    /\ IF mapping \in Version THEN dm' = mapping /\ said' = "found"
                           ELSE dm' = None /\ said' = "error"
    /\ UNCHANGED <<world, mapping, fresh, cmd, wire, past>>

Exit ==
    /\ Step("done", "idle")
    /\ UNCHANGED <<world, mapping, fresh, cmd, wire, dm, said, past>>

-----------------------------------------------------------------------------
Run == \/ CheckDevicesRepository \/ AskLength \/ KeepOrDelete \/ CreateMapping \/ GetMapping \/ Copy
       \/ Touch \/ GetDeviceRepo \/ Exit

RepoNext == \/ Publish \/ Network \/ Permissions \/ Day \/ RepoKill
            \/ (\E c \in {"flash", "update"} : Start(c)) \/ Run

\* A run comes to its end, the user flashes again and again, and time passes.
RepoSpec == /\ RepoInit /\ [][RepoNext]_repoVars
            /\ WF_repoVars(Run) /\ WF_repoVars(Start("flash")) /\ SF_repoVars(Day)

-----------------------------------------------------------------------------
\* What the flashers may rely on.

\* A version as good as the newest one when the run began: that or a later one, or one
\* that has the length of such a version.
Passes(v) == v >= newest \/ \E w \in newest .. server : Length(v) = Length(w)

\* The devices a run offers are those of a whole mapping, and of one that passes for
\* the newest, unless the file was fresh, or a request or a call on the file failed.
FoundIsNewest ==
    said = "found" => dm \in Version /\ (Passes(dm) \/ recent \/ failed)

\* An update that reports success leaves a whole mapping that passes for the newest, unless
\* its length request failed, or the server answered this very run with the error page that
\* is in the file: nothing an earlier run left, an interrupted download or its error page,
\* is taken for the newest mapping.
UpdatedIsNewest ==
    said = "updated" /\ rpc = "done" =>
        \/ mapping \in Version /\ Passes(mapping)
        \/ mapping = Page /\ paged
        \/ failed

\* A mapping that is damaged, missing, old or an error page does not stay so when the server
\* answers and the file can be written for good, unless it has the length of the one published.
MappingRecovers ==
    <>[](net = "up" /\ writable) => []<>(mapping \in Version /\ Length(mapping) = Length(server))
=============================================================================
