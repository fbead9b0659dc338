-------------------------------- MODULE Boards --------------------------------
(***************************************************************************)
(* The commands flash, configure and write, and the flashers of boards     *)
(* that are flashed over USB or a serial line: the Intel Edison (on posix  *)
(* and on Windows) and the serial flasher of the ESP modules.  Of the      *)
(* flashers that write cards (SdFlasher) only the order of their calls is  *)
(* here: "sd" calls Prepare in Configure, as the BeagleBone does, and      *)
(* "raspi" in Flash.                                                       *)
(*                                                                         *)
(* A command calls methods of the flasher one after the other, and the     *)
(* board comes and goes, boots, and has or has not the firmware of this    *)
(* run.  A nil pointer that is dereferenced ends the program in "panic".   *)
(* A tool fails without its board, and may fail with it, any number of     *)
(* times.                                                                  *)
(***************************************************************************)
EXTENDS Naturals, Sequences

VARIABLES
    kind, cmd, quiet,  \* the flasher, the command, and the flag -q
    pc,
    conf,       \* does d.conf point to a machine's configuration?
    port,       \* d.Port or d.IP: "none", "given" or "auto" by --port, or "found"
    settings,   \* of each question: "none", "asked" if it was answered with yes,
                \* then "part" and "whole" on the board
    plugged,    \* is the board connected?
    firmware,   \* of the board or card: "old", "part", or "new" for this run's
    booted,     \* does the board answer over the network or the serial line?
    running,    \* does the virtual machine run?
    known,      \* does known_hosts hold a key for the board's address?
    history     \* what else happened: see below

command == <<kind, cmd, quiet>>
board == <<plugged, firmware, booted, running>>
vars == <<command, pc, conf, port, settings, board, known, history>>

\* The keys of Edison's Configurator, in the order of their names.
Key == <<"Interface", "SSH", "Wifi", "xIotit">>
Question == {Key[i] : i \in DOMAIN Key}
Ended == {"done", "nil", "error", "exit", "panic"}

TypeOK ==
    /\ kind \in {"sd", "raspi", "edison", "edisonWin", "serial"}
    /\ cmd \in {"flash", "configure", "write"} /\ quiet \in BOOLEAN
    /\ pc \in Ended \cup {"prepare", "unplug", "configure", "address", "copyid", "wifi",
                          "write", "reconnect", "stop", "restart", "finish"} \cup Question
    /\ {conf, plugged, booted, running, known} \subseteq BOOLEAN
    /\ port \in {"none", "given", "auto", "found"}
    /\ settings \in [Question -> {"none", "asked", "part", "whole"}]
    /\ firmware \in {"old", "part", "new"}
    /\ history \subseteq {"offline", "notZip", "refused", "unwritten", "unseen", "noInterface",
                          "keyKept", "badKey"}

\* getFlasher, and the command's first call; only flash has the flag -q.
Init ==
    /\ kind \in {"sd", "raspi", "edison", "edisonWin", "serial"}
    /\ cmd \in {"flash", "configure", "write"}
    /\ quiet \in BOOLEAN /\ (quiet => cmd = "flash")
    /\ pc = CASE cmd = "flash" \/ (kind = "sd" /\ cmd = "configure") -> "prepare"
              [] cmd = "write" -> "write"
              [] OTHER -> "configure"
    /\ conf = FALSE
    /\ port \in {"none", "given"} \cup IF kind = "serial" THEN {"auto"} ELSE {}
    /\ settings = [q \in Question |-> "none"]
    /\ plugged \in BOOLEAN /\ firmware = "old" /\ booted \in BOOLEAN
    /\ running \in BOOLEAN /\ known \in BOOLEAN
    /\ history = {}

-----------------------------------------------------------------------------
\* The board and its user.

Pull ==
    /\ pc \notin Ended
    /\ plugged /\ plugged' = FALSE /\ booted' = FALSE
    /\ UNCHANGED <<command, pc, conf, port, settings, firmware, running, known, history>>

Plug ==
    /\ pc \notin Ended
    /\ ~plugged /\ plugged' = TRUE
    /\ UNCHANGED <<command, pc, conf, port, settings, firmware, booted, running, known, history>>

BoardBoots ==
    /\ pc \notin Ended
    /\ plugged /\ firmware # "part" /\ ~booted /\ booted' = TRUE
    /\ UNCHANGED <<command, pc, conf, port, settings, plugged, firmware, running, known, history>>

-----------------------------------------------------------------------------
Go(from, to) == pc = from /\ pc' = to

\* What follows a method of the flasher: the next one under flash, else the end.
Then(next) == IF cmd = "flash" THEN next ELSE "nil"

\* CheckMachine, with no machine installed and no answer to what its version is.
Offline == ~running /\ Go("prepare", "panic") /\ history' = history \cup {"offline"}

\* Faulty variant: d.conf is shadowed by a variable of the function.
PrepareShadows ==
    /\ kind \in {"sd", "raspi", "edison"}
    /\ \/ /\ Go("prepare", IF kind = "edison" THEN "unplug" ELSE "configure")
          /\ running' = TRUE /\ UNCHANGED history
       \/ Go("prepare", "error") /\ running' \in {running, TRUE} /\ UNCHANGED history
       \/ Offline /\ UNCHANGED running
    /\ UNCHANGED <<command, conf, port, settings, plugged, firmware, booted, known>>

\* The virtual machine with the image in it; an error may leave d.conf set or nil, and
\* NewConfig crashes before it sets it.
Prepare ==
    /\ kind \in {"sd", "raspi", "edison"}
    /\ \/ /\ Go("prepare", IF kind = "edison" THEN "unplug" ELSE "configure")
          /\ conf' = TRUE /\ running' = TRUE /\ UNCHANGED history
       \/ /\ Go("prepare", "error") /\ conf' \in BOOLEAN /\ running' \in {running, TRUE}
          /\ UNCHANGED history
       \/ Offline /\ UNCHANGED <<conf, running>>
    /\ UNCHANGED <<command, port, settings, plugged, firmware, booted, known>>

\* On Windows the archive is unpacked on the host, without the machine; an image that
\* is no zip is left as it is.
PrepareWindows ==
    /\ kind = "edisonWin"
    /\ \/ Go("prepare", "write") /\ history' \in {history, history \cup {"notZip"}}
       \/ Go("prepare", "error") /\ UNCHANGED history
    /\ UNCHANGED <<command, conf, port, settings, board, known>>

\* serialFlasher.Prepare: a port that was given is taken as it is.
PrepareSerial ==
    /\ kind = "serial"
    /\ \/ port # "none" /\ Go("prepare", "write") /\ UNCHANGED port
       \/ port = "none" /\ plugged /\ Go("prepare", "write") /\ port' = "found"
       \/ port = "none" /\ ~plugged /\ Go("prepare", "error") /\ UNCHANGED port
    /\ UNCHANGED <<command, conf, settings, board, known, history>>

-----------------------------------------------------------------------------
\* Cards.

ConfigureImage ==
    /\ kind \in {"sd", "raspi"}
    /\ \/ ~conf /\ Go("configure", "panic")
       \/ conf /\ (Go("configure", Then("write")) \/ Go("configure", "error"))
    /\ UNCHANGED <<command, conf, port, settings, board, known, history>>

\* sdFlasher.Write: the question, the copy out of the machine, and the card.  "Flashing
\* Complete!" also follows WriteToDisk's own question answered with no, which returns no
\* job and no error, and a dd that fails unseen.
WriteCard ==
    /\ kind \in {"sd", "raspi"}
    /\ \/ ~quiet /\ Go("write", "nil") /\ history' = history \cup {"refused"}
          /\ UNCHANGED <<firmware, running>>
       \/ ~conf /\ Go("write", "panic") /\ UNCHANGED <<firmware, running, history>>
       \/ /\ conf /\ Go("write", "error") /\ firmware' \in {"old", "part"}
          /\ UNCHANGED <<running, history>>
       \/ /\ conf /\ Go("write", "done") /\ running' \in {running, FALSE}
          /\ \/ firmware' = "new" /\ UNCHANGED history
             \/ UNCHANGED firmware /\ history' = history \cup {"refused"}
             \/ firmware' \in {"old", "part"} /\ history' = history \cup {"unwritten"}
    /\ UNCHANGED <<command, conf, port, settings, plugged, booted, known>>

-----------------------------------------------------------------------------
\* The Edison.

\* Prepare asks until it is answered with yes.
Unplugged ==
    /\ Go("unplug", "write")
    /\ UNCHANGED <<command, conf, port, settings, board, known, history>>

\* Prepare has unpacked an archive, which only flash calls.
Unpacked == cmd = "flash" /\ "notZip" \notin history

\* "Empty extraction path"
NothingUnpacked ==
    /\ kind = "edisonWin" /\ ~Unpacked /\ Go("write", "error")
    /\ UNCHANGED <<command, conf, port, settings, board, known, history>>

\* flashall.sh in the machine, by ssh, or flashall.bat of what Prepare unpacked.
FlashesBoard == kind = "edison" \/ (kind = "edisonWin" /\ Unpacked)
Flashed(to) ==
    /\ Go("write", to)
    /\ plugged /\ (kind = "edison" => running)
    /\ firmware' = "new" /\ booted' = FALSE
NotFlashed(to) ==
    /\ Go("write", to)
    /\ \/ firmware' = "part" /\ booted' = FALSE /\ (kind = "edison" => running)
       \/ UNCHANGED <<firmware, booted>>

\* Faulty variant: whatever flashall.sh returns, the board was found.
FlashAllFound ==
    /\ FlashesBoard
    /\ Flashed(IF kind = "edison" THEN "stop" ELSE "restart") \/ NotFlashed("stop")
    /\ UNCHANGED <<command, conf, port, settings, plugged, running, known, history>>

\* Faulty variant: the loop is not left after a success.
FlashAllAgain ==
    /\ FlashesBoard
    /\ Flashed("write") \/ NotFlashed(IF kind = "edison" THEN "reconnect" ELSE "exit")
    /\ UNCHANGED <<command, conf, port, settings, plugged, running, known, history>>

\* On Windows the program leaves with status 2.
FlashAll ==
    /\ FlashesBoard
    /\ \/ Flashed(IF kind = "edison" THEN "stop" ELSE "restart")
       \/ NotFlashed(IF kind = "edison" THEN "reconnect" ELSE "exit")
    /\ UNCHANGED <<command, conf, port, settings, plugged, running, known, history>>

\* "Type yes once connected."
Reconnect ==
    /\ Go("reconnect", "write") \/ Go("reconnect", "exit")
    /\ UNCHANGED <<command, conf, port, settings, board, known, history>>

\* Config.Stop, in Write and again in Done, asks unless the run is quiet; its
\* error is only logged.
Stop(from, to) ==
    /\ IF conf THEN Go(from, to) ELSE Go(from, "panic")
    /\ running' \in IF conf THEN {FALSE, running} ELSE {running}
    /\ UNCHANGED <<command, conf, port, settings, plugged, firmware, booted, known, history>>

\* 120 seconds, whether or not the board has booted by then.
Restarted ==
    /\ Go("restart", Then("configure"))
    /\ UNCHANGED <<command, conf, port, settings, board, known, history>>

\* Configure: an address that was given is not asked for.
ConfigureEdison ==
    /\ kind \in {"edison", "edisonWin"}
    /\ Go("configure", IF ~conf THEN "panic" ELSE IF port = "none" THEN "address" ELSE "copyid")
    /\ UNCHANGED <<command, conf, port, settings, board, known, history>>

\* Faulty variant: the host's key is only forgotten for an address typed in.
GetIPAddressKeepsKey ==
    /\ \/ Go("address", "copyid") /\ port' = "found" /\ known' \in {known, FALSE} /\ UNCHANGED history
       \/ Go("address", "panic") /\ history' = history \cup {"noInterface"} /\ UNCHANGED <<port, known>>
    /\ UNCHANGED <<command, conf, settings, board>>

\* getIPAddress: an interface of the list, or the address itself, and the host's old
\* key is forgotten; DeleteHost misses it in a file of hashed names, and an error is
\* only logged.  Without any interface the nil error is asked for its text.
GetIPAddress ==
    /\ \/ Go("address", "copyid") /\ port' = "found"
          /\ \/ known' = FALSE /\ UNCHANGED history
             \/ known /\ UNCHANGED known /\ history' = history \cup {"keyKept"}
       \/ Go("address", "panic") /\ history' = history \cup {"noInterface"} /\ UNCHANGED <<port, known>>
    /\ UNCHANGED <<command, conf, settings, board>>

\* ssh refuses a host whose key has changed; the new firmware has a new one.
KeyChanged == known /\ firmware = "new"
Answers == plugged /\ booted /\ ~KeyChanged

\* ssh-copy-id, the result of which is dropped, and the first question.
CopyId ==
    /\ Go("copyid", Key[1])
    /\ UNCHANGED <<command, conf, port, settings, board, known, history>>

After(q) ==
    IF q = "xIotit" THEN Then("finish")
    ELSE Key[1 + CHOOSE i \in DOMAIN Key : Key[i] = q]

\* A callback of Setup asks, and acts at once: the last one does not ask, and the
\* first one has a command that is run in any case.
Ask(q) ==
    /\ pc = q /\ settings[q] = "none"
    /\ \/ settings' = [settings EXCEPT ![q] = "asked"] /\ UNCHANGED pc
       \/ q \in {"SSH", "Wifi"} /\ pc' = After(q) /\ UNCHANGED settings
    /\ UNCHANGED <<command, conf, port, board, known, history>>

\* Its commands on the board, some of them or all.
Act(q) ==
    /\ pc = q /\ settings[q] \in {"asked", "part"} /\ Answers
    /\ \/ settings[q] = "asked" /\ settings' = [settings EXCEPT ![q] = "part"] /\ UNCHANGED pc
       \/ settings' = [settings EXCEPT ![q] = "whole"] /\ pc' = After(q)
    /\ UNCHANGED <<command, conf, port, board, known, history>>

\* Faulty variant: Setup goes on with the next callback.
ActFailsOn(q) ==
    /\ pc = q /\ settings[q] \in {"asked", "part"} /\ pc' = After(q)
    /\ history' = history \cup IF KeyChanged THEN {"badKey"} ELSE {}
    /\ UNCHANGED <<command, conf, port, settings, plugged, firmware, booted, running, known>>

\* A command's error, which it has if the board does not answer, ends Setup, and Configure
\* with it.
ActFails(q) ==
    /\ pc = q /\ settings[q] \in {"asked", "part"} /\ pc' = "error"
    /\ history' = history \cup IF KeyChanged THEN {"badKey"} ELSE {}
    /\ UNCHANGED <<command, conf, port, settings, plugged, firmware, booted, running, known>>

-----------------------------------------------------------------------------
\* ESP modules.

\* "auto" is no name of a port, although the flag's help offers it.
Opens == port \in {"given", "found"} /\ plugged

WriteSerial ==
    /\ kind = "serial"
    /\ \/ /\ ~quiet /\ Go("write", Then("configure"))
          /\ history' = history \cup {"refused"} /\ UNCHANGED <<firmware, booted>>
       \/ /\ Opens /\ Go("write", Then("configure"))
          /\ firmware' = "new" /\ booted' \in BOOLEAN /\ UNCHANGED history
       \/ /\ Go("write", "error")
          /\ firmware' \in IF Opens THEN {"old", "part"} ELSE {"old"}
          /\ booted' \in {booted, FALSE} /\ UNCHANGED history
    /\ UNCHANGED <<command, conf, port, settings, plugged, running, known>>

\* The error of this second Prepare is dropped.
ConfigureSerial ==
    /\ kind = "serial" /\ pc = "configure"
    /\ port' = IF port = "none" /\ plugged THEN "found" ELSE port
    /\ pc' = IF quiet THEN Then("finish")
             ELSE IF port' \in {"given", "found"} /\ plugged THEN "wifi" ELSE "error"
    /\ UNCHANGED <<command, conf, settings, board, known, history>>

\* setWifi and saveWifi: nobody looks at what the module answers.
SaveWifi ==
    /\ \/ plugged /\ Go("wifi", Then("finish"))
          /\ settings' = [settings EXCEPT !["Wifi"] = IF booted THEN "whole" ELSE "part"]
          /\ history' = history \cup IF booted THEN {} ELSE {"unseen"}
       \/ ~plugged /\ Go("wifi", "error")
          /\ settings' \in {settings, [settings EXCEPT !["Wifi"] = "part"]} /\ UNCHANGED history
    /\ UNCHANGED <<command, conf, port, board, known>>

SerialDone ==
    /\ kind = "serial" /\ Go("finish", "done")
    /\ UNCHANGED <<command, conf, port, settings, board, known, history>>

-----------------------------------------------------------------------------
Cards == Prepare \/ ConfigureImage \/ WriteCard
Edison ==
    \/ PrepareWindows \/ Unplugged \/ NothingUnpacked \/ FlashAll
    \/ Reconnect \/ Stop("stop", "restart") \/ Restarted
    \/ ConfigureEdison \/ GetIPAddress \/ CopyId
    \/ \E q \in Question : Ask(q) \/ Act(q) \/ ActFails(q)
    \/ kind \in {"edison", "edisonWin"} /\ Stop("finish", "done")
Serial == PrepareSerial \/ WriteSerial \/ ConfigureSerial \/ SaveWifi \/ SerialDone

Program == Cards \/ Edison \/ Serial
Next == Program \/ Pull \/ Plug \/ BoardBoots

\* The program runs, tools return, and its user answers, with yes at last where the
\* program asks until he does.
Spec == Init /\ [][Next]_vars /\ WF_vars(Program)

-----------------------------------------------------------------------------
\* The program crashes only where it has no machine, or where the host has no interface to
\* list.  flash crashes for want of a machine only before it has touched a board or card:
\* offline without an installed one; but on the Windows Edison, which never has one, in
\* Configure.  A crash after the board was flashed is the Edison's alone.
PanicsNeedNoMachine ==
    pc = "panic" =>
        \/ "noInterface" \in history
        \/ ~conf /\ "offline" \in history /\ firmware = "old" /\ ~running
        \/ ~conf /\ /\ cmd = "flash" => kind = "edisonWin"
                    /\ firmware # "old" => kind \in {"edison", "edisonWin"}

\* flash configures no board but one that it has flashed to the end, unless its user
\* refused the flashing.
ConfiguredIsFlashed ==
    cmd = "flash" /\ (\E q \in Question : settings[q] \in {"part", "whole"}) =>
        firmware = "new" \/ "refused" \in history

\* "Flashing Complete!" is printed only if the firmware of this run is on the board or card,
\* or the user refused it, or a dd onto a card failed unseen; and only if every setting that
\* was asked for is on the board, or a module failed without telling.
DoneIsConfigured ==
    pc = "done" =>
        /\ \/ firmware = "new"
           \/ "refused" \in history
           \/ kind \in {"sd", "raspi"} /\ "unwritten" \in history
        /\ \A q \in Question : settings[q] \in {"none", "whole"} \/ "unseen" \in history

\* A board that was flashed before is refused for its old key only if its address was
\* given by --port, so that getIPAddress, which forgets the key, is left out, or if
\* the key was not found under its name.
StaleKeyNeedsPort == "badKey" \in history => port = "given" \/ "keyKept" \in history

\* A command comes to its end, however often boards are pulled and tools fail.  There is one
\* that may not: as long as flashall.sh fails, for whatever reason, the Edison's user is told
\* to connect the board again, with no bound.  One success, or one no, is enough.
CommandEnds ==
    \/ <>(pc \in Ended)
    \/ kind = "edison" /\ []<>(pc = "reconnect") /\ [](firmware # "new")
=============================================================================
