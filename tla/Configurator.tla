----------------------------- MODULE Configurator -----------------------------
(***************************************************************************)
(* device/config: the questions asked about a board (Setup, in the sorted  *)
(* order of their names) and the files written from the answers into the   *)
(* mounted image (Write, in the random order of a Go map).  The defaults   *)
(* serve the generic and the BeagleBone flasher; the Raspberry Pi replaces *)
(* one of them and adds two that take effect while they are asked.         *)
(*                                                                         *)
(* Every file is written by a command over SSH.  The command may fail on   *)
(* the machine, with a message on stderr and no error, or run out of time, *)
(* with neither; only a broken connection is an error.                     *)
(***************************************************************************)
EXTENDS Naturals, FiniteSets, Sequences, SequencesExt

CONSTANTS
    Boards,      \* of {"sd", "pi"}
    Retries,     \* addresses AskInterfaceParams asks for before it asks whether to go on
    MaxSilent    \* bound: files whose command fails unseen

ASSUME SilentAssumption == MaxSilent \in Nat /\ Retries \in Nat \ {0}

VARIABLES
    board,
    stage,     \* "choice", "setup", "address", "write", "ok" or "failed"
    left,      \* Setup: the questions left
    chosen,    \* storage: the questions answered
    iface,     \* storage: the interface of the static address, or "none"
    address,   \* that address: "none", the "default", or what its ping has told
    tries,     \* AskInterfaceParams: the addresses that may still be asked for
    refused,   \* history: did the user refuse to try other addresses?
    applied,   \* Write: the callbacks called that had something to do
    doing,     \* Write: the callback at work
    rest,      \* Write: the files it still has to write
    image,     \* what is in each file of the image
    silent     \* history: the files whose command failed without an error

static == <<address, tries, refused>>
answers == <<chosen, iface, static>>
writing == <<applied, doing, rest>>
configVars == <<board, stage, left, answers, writing, image, silent>>

\* The names of the callbacks, as sort.Strings leaves them.
Questions(b) ==
    IF b = "pi"
    THEN <<"Camera", "DNS", "Hostname", "Interface", "Keymap", "Locale", "SSH", "Wifi">>
    ELSE <<"DNS", "Hostname", "Interface", "Keymap", "Locale", "Wifi">>

Keys == ToSet(Questions(board))

BootFile == {"ssh", "config.txt"}
RootFile == {"locale.conf", "environment", "vconsole.conf", "wpa_supplicant.conf", "eth0", "wlan0",
             "dhcpcd.conf", "dhclient.conf", "hosts", "hostname"}

AskingOK ==
    /\ board \in Boards
    /\ stage \in {"choice", "setup", "address", "write", "ok", "failed"}
    /\ left \in Seq(Keys) /\ IsInjective(left)
    /\ chosen \subseteq Keys /\ iface \in {"none", "eth0", "wlan0"}
    /\ stage # "address" => ("Interface" \in chosen <=> iface # "none")
    /\ address \in {"none", "default", "free", "taken"} /\ refused \in BOOLEAN
    /\ tries \in 0 .. Retries

WritingOK ==
    /\ applied \subseteq chosen /\ doing \in Keys \cup {"nothing"}
    /\ ToSet(rest) \subseteq RootFile
    /\ image \in [RootFile \cup BootFile -> {"stock", "set", "dhcp"}]
    /\ silent \subseteq RootFile \cup BootFile

ConfigTypeOK == AskingOK /\ WritingOK

ConfigInit ==
    /\ board \in Boards
    /\ stage = "choice" /\ left = Questions(board)
    /\ chosen = {} /\ iface = "none"
    /\ address = "none" /\ tries = Retries /\ refused = FALSE
    /\ applied = {} /\ doing = "nothing" /\ rest = <<>>
    /\ image = [f \in RootFile \cup BootFile |-> "stock"]
    /\ silent = {}

\* The outcomes of a command that writes f; the last two are no error to Run.
Written(f, v) == image' = [image EXCEPT ![f] = v] /\ UNCHANGED silent
Broken(f, v) == image' \in {image, [image EXCEPT ![f] = v]} /\ UNCHANGED silent
Unwritten(f) ==
    /\ silent' = silent \cup {f} /\ Cardinality(silent') <= MaxSilent
    /\ UNCHANGED image

-----------------------------------------------------------------------------
\* Configure of the board: ask at all, ask nothing, or quietly.

\* A quiet Raspberry Pi has SSH enabled, and its error is only printed.
Quiet ==
    /\ stage = "choice" /\ stage' = "write"
    /\ IF board = "pi" THEN Written("ssh", "set") \/ Unwritten("ssh")
                       ELSE UNCHANGED <<image, silent>>
    /\ UNCHANGED <<board, left, answers, writing>>

Configure(yes) ==
    /\ stage = "choice" /\ stage' = IF yes THEN "setup" ELSE "write"
    /\ UNCHANGED <<board, left, answers, writing, image, silent>>

-----------------------------------------------------------------------------
\* Setup: a question after the other.

Asked(k) == stage = "setup" /\ left # <<>> /\ Head(left) = k

\* The questions whose answers are stored only.
Ask(k, yes) ==
    /\ Asked(k) /\ k \in {"DNS", "Keymap", "Locale", "Wifi"}
    /\ left' = Tail(left)
    /\ chosen' = IF yes THEN chosen \cup {k} ELSE chosen
    /\ UNCHANGED <<board, stage, iface, static, writing, image, silent>>

\* No static address, the default one, which is not tried, or another.
SetInterface(i) ==
    /\ Asked("Interface")
    /\ left' = Tail(left)
    /\ iface' = i
    /\ \/ i = "none" /\ UNCHANGED <<stage, chosen, address>>
       \/ /\ i # "none" /\ address' = "default"
          /\ chosen' = chosen \cup {"Interface"} /\ UNCHANGED stage
       \/ i # "none" /\ stage' = "address" /\ UNCHANGED <<chosen, address>>
    /\ UNCHANGED <<board, tries, refused, writing, image, silent>>

\* AskInterfaceParams: an address, until one does not answer.
AskAddress ==
    /\ stage = "address" /\ address # "free"
    /\ tries > 0 /\ tries' = tries - 1
    /\ address' \in {"free", "taken"}
    /\ UNCHANGED <<board, stage, left, chosen, iface, refused, writing, image, silent>>

\* SetInterface stores the answer; its locals are gone.
Store == stage' = "setup" /\ chosen' = chosen \cup {"Interface"} /\ tries' = Retries

UseAddress ==
    /\ stage = "address" /\ tries > 0 /\ address = "free"
    /\ Store
    /\ UNCHANGED <<board, left, iface, address, refused, writing, image, silent>>

\* "Do you want to try again?", after the last address, whatever its ping told.
TryAgain(yes) ==
    /\ stage = "address" /\ tries = 0
    /\ IF yes THEN tries' = Retries /\ address' = "none" /\ UNCHANGED <<stage, chosen, refused>>
              ELSE Store /\ refused' = TRUE /\ UNCHANGED address
    /\ UNCHANGED <<board, left, iface, writing, image, silent>>

\* Faulty variant: the new name is written at once.
SetHostnameNow(yes) ==
    /\ Asked("Hostname")
    /\ left' = Tail(left)
    /\ chosen' = IF yes THEN chosen \cup {"Hostname"} ELSE chosen
    /\ IF yes THEN Written("hostname", "set") ELSE UNCHANGED <<image, silent>>
    /\ UNCHANGED <<board, stage, iface, static, writing>>

\* SetHostname reads the old name first: an error ends Setup, a message on stderr
\* leaves the question out.
SetHostname(yes) ==
    /\ Asked("Hostname")
    /\ \/ stage' = "failed" /\ UNCHANGED <<left, chosen>>
       \/ /\ left' = Tail(left) /\ UNCHANGED stage
          /\ chosen' = IF yes THEN chosen \cup {"Hostname"} ELSE chosen
    /\ UNCHANGED <<board, iface, static, writing, image, silent>>

\* enablePiSSH and enablePiCamera act at once, on the boot partition.
Enable(k, f, yes) ==
    /\ Asked(k)
    /\ \/ yes /\ stage' = "failed" /\ Broken(f, "set") /\ UNCHANGED <<left, chosen>>
       \/ /\ left' = Tail(left) /\ UNCHANGED stage
          /\ IF yes THEN (Written(f, "set") \/ Unwritten(f)) /\ chosen' = chosen \cup {k}
                    ELSE UNCHANGED <<image, silent, chosen>>
    /\ UNCHANGED <<board, iface, static, writing>>

SetupEnds ==
    /\ stage = "setup" /\ left = <<>> /\ stage' = "write"
    /\ UNCHANGED <<board, left, answers, writing, image, silent>>

-----------------------------------------------------------------------------
\* Write: the callbacks in any order, and the commands of each in its own.

\* Faulty variant: wlan0 is configured for DHCP with or without a static address.
FilesAlways(k) ==
    CASE k = "Locale" -> <<"locale.conf", "environment">>
      [] k = "Keymap" -> <<"vconsole.conf">>
      [] k = "Wifi" -> <<"wpa_supplicant.conf", "wlan0">>
      [] k = "Interface" -> IF board = "pi" THEN <<"dhcpcd.conf">> ELSE <<iface>>
      [] k = "DNS" -> <<"dhclient.conf">>
      [] k = "Hostname" -> <<"hosts", "hostname">>
      [] OTHER -> <<>>

\* Files the Apply function of k writes, if k was answered.
Files(k) ==
    CASE k = "Locale" -> <<"locale.conf", "environment">>
      [] k = "Keymap" -> <<"vconsole.conf">>
      [] k = "Wifi" -> IF iface = "none" THEN <<"wpa_supplicant.conf", "wlan0">>
                                         ELSE <<"wpa_supplicant.conf">>
      [] k = "Interface" -> IF board = "pi" THEN <<"dhcpcd.conf">> ELSE <<iface>>
      [] k = "DNS" -> <<"dhclient.conf">>
      [] k = "Hostname" -> <<"hosts", "hostname">>
      [] OTHER -> <<>>

Content(k, f) == IF k = "Wifi" /\ f = "wlan0" THEN "dhcp" ELSE "set"

\* Which Apply functions return when there is a message on stderr?
StopsOnMessage(k) == k = "Hostname" \/ (k = "Interface" /\ board # "pi")

\* The callback of an answer; the others return at once.
Callback(k) ==
    /\ stage = "write" /\ rest = <<>> /\ k \in chosen \ applied
    /\ applied' = applied \cup {k} /\ doing' = k
    /\ rest' = Files(k)
    /\ UNCHANGED <<board, stage, left, answers, image, silent>>

CommandWritten ==
    /\ stage = "write" /\ rest # <<>> /\ rest' = Tail(rest)
    /\ Written(Head(rest), Content(doing, Head(rest)))
    /\ UNCHANGED <<board, stage, left, answers, applied, doing>>

\* Faulty variant: every callback returns when one of its commands fails.
CommandFailsAll ==
    /\ stage = "write" /\ rest # <<>> /\ rest' = <<>>
    /\ Unwritten(Head(rest))
    /\ UNCHANGED <<board, stage, left, answers, applied, doing>>

\* The callback goes on, or returns the nil error that came with the message.
CommandFails ==
    /\ stage = "write" /\ rest # <<>>
    /\ rest' \in {Tail(rest)} \cup (IF StopsOnMessage(doing) THEN {<<>>} ELSE {})
    /\ Unwritten(Head(rest))
    /\ UNCHANGED <<board, stage, left, answers, applied, doing>>

\* A broken connection ends Write, after the callbacks so far; for wlan0 it is
\* only logged.
ConnectionFails ==
    /\ stage = "write" /\ rest # <<>>
    /\ LET f == Head(rest) IN
          IF doing = "Wifi" /\ f = "wlan0"
          THEN Unwritten(f) /\ rest' = Tail(rest) /\ UNCHANGED stage
          ELSE Broken(f, Content(doing, f)) /\ stage' = "failed" /\ UNCHANGED rest
    /\ UNCHANGED <<board, left, answers, applied, doing>>

WriteEnds ==
    /\ stage = "write" /\ rest = <<>> /\ stage' = "ok"
    /\ chosen \subseteq applied
    /\ UNCHANGED <<board, left, answers, writing, image, silent>>

-----------------------------------------------------------------------------
Setup == \/ \E yes \in BOOLEAN : \/ \E k \in Keys : Ask(k, yes)
                                 \/ SetHostname(yes)
                                 \/ Enable("SSH", "ssh", yes) \/ Enable("Camera", "config.txt", yes)
         \/ \E i \in {"none", "eth0", "wlan0"} : SetInterface(i)
         \/ AskAddress \/ UseAddress \/ (\E yes \in BOOLEAN : TryAgain(yes))
         \/ SetupEnds

Apply == \/ \E k \in Keys : Callback(k)
         \/ CommandWritten \/ CommandFails \/ ConnectionFails \/ WriteEnds

ConfigTerminated == stage \in {"ok", "failed"} /\ UNCHANGED configVars

ConfigNext == Quiet \/ (\E yes \in BOOLEAN : Configure(yes)) \/ Setup \/ Apply \/ ConfigTerminated

ConfigSpec == ConfigInit /\ [][ConfigNext]_configVars

-----------------------------------------------------------------------------
\* What the flashers may rely on.

\* Write has no error: every answer is in its files, in whatever order the
\* callbacks ran, but for the files whose command failed unseen, and the hostname
\* that is left out when the hosts file could not be written.
AnswersAreApplied ==
    stage = "ok" => \A k \in chosen : \A f \in ToSet(Files(k)) :
        \/ image[f] = Content(k, f)
        \/ f \in silent
        \/ f = "hostname" /\ "hosts" \in silent

\* No file is written but for an answer, and no callback undoes another's file: a
\* static address of wlan0 is never replaced by DHCP.  An address that answers is written
\* only for a user who refused to try others.
OnlyAnswersAreWritten ==
    /\ \A f \in RootFile : image[f] # "stock" =>
           \E k \in chosen : f \in ToSet(Files(k)) /\ image[f] = Content(k, f)
    /\ "Interface" \in chosen => image["wlan0"] # "dhcp" /\ (address = "taken" => refused)

\* The questions write nothing to the root partition: the BeagleBone asks them
\* while it is being mounted.
SetupLeavesRoot == [][stage = "setup" => \A f \in RootFile : image'[f] = image[f]]_configVars
=============================================================================
