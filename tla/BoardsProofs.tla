---------------------------- MODULE BoardsProofs ----------------------------
(***************************************************************************)
(* What the commands flash, configure and write guarantee on every board,  *)
(* however often their tools fail.  BoardInv adds to the properties of     *)
(* Boards where each flasher can be, and what has happened by then to its  *)
(* machine, its firmware, its settings and its port.                       *)
(***************************************************************************)
EXTENDS Boards, TLAPS

Card == {"sd", "raspi"}
EdisonKind == {"edison", "edisonWin"}

\* The steps each kind of flasher takes.
PcOfKind ==
    /\ kind \in Card => pc \in Ended \cup {"prepare", "configure", "write"}
    /\ kind = "serial" => pc \in {"done", "nil", "error", "prepare", "configure", "write", "wifi", "finish"}
    /\ pc = "finish" => cmd = "flash"

\* After Prepare there is a machine, for all but the Windows Edison; before it there is
\* none, and nothing has been written.
MachineUnderFlash ==
    /\ cmd = "flash" /\ kind \in Card \cup {"edison"} /\ pc \notin {"prepare", "error", "panic"}
           => conf
    /\ pc = "prepare" => ~conf /\ firmware = "old"

\* A card is written in the last step.
CardUntouched == kind \in Card /\ firmware # "old" => pc \in Ended \ {"panic"}

\* Nothing is set before Configure, and nothing is set on cards.
SettingsUntouched ==
    kind \in Card \/ pc \in {"prepare", "unplug", "write", "reconnect", "stop", "restart",
                             "configure", "address", "copyid", "wifi"} =>
        \A q \in Question : settings[q] = "none"

\* Under flash, Configure comes after the flashing.
FlashedBefore ==
    cmd = "flash" /\ kind \notin Card
    /\ pc \in {"restart", "configure", "address", "copyid", "wifi", "stop", "finish"} \cup Question =>
        firmware = "new" \/ "refused" \in history

\* The callbacks before the current one are through, those after it have not begun.
Place == [Interface |-> 1, SSH |-> 2, Wifi |-> 3, xIotit |-> 4]
SetupInOrder ==
    /\ pc \in Question =>
        \A q \in Question : /\ Place[q] < Place[pc] => settings[q] \in {"none", "whole"}
                            /\ Place[q] > Place[pc] => settings[q] = "none"
    /\ pc = "finish" =>
        \A q \in Question : settings[q] \in {"none", "whole"} \/ "unseen" \in history

\* An address that was not given is asked for, and its key forgotten.
PortAsked ==
    /\ kind # "serial" /\ pc \in {"prepare", "unplug", "write", "reconnect", "stop", "restart",
                                  "configure"} =>
        port \in {"none", "given"}
    /\ pc = "address" => port = "none"
    /\ pc \in {"copyid"} \cup Question => port = "given" \/ ~known \/ "keyKept" \in history
    /\ "badKey" \in history => pc = "error"

BoardInv ==
    /\ TypeOK
    /\ PcOfKind
    /\ MachineUnderFlash /\ PanicsNeedNoMachine /\ CardUntouched
    /\ SettingsUntouched /\ FlashedBefore /\ ConfiguredIsFlashed
    /\ SetupInOrder /\ DoneIsConfigured
    /\ PortAsked /\ StaleKeyNeedsPort

-----------------------------------------------------------------------------
LEMMA Questions == Question = {"Interface", "SSH", "Wifi", "xIotit"}
<1>1. DOMAIN Key = {1, 2, 3, 4}
  BY DEF Key
<1> QED
  BY <1>1 DEF Question, Key

\* The callbacks follow each other in the order of their names.
LEMMA AfterNext ==
    /\ After("Interface") = "SSH" /\ After("SSH") = "Wifi" /\ After("Wifi") = "xIotit"
    /\ After("xIotit") = Then("finish")
<1>1. DOMAIN Key = {1, 2, 3, 4}
  BY DEF Key
<1>2. Key[1] = "Interface" /\ Key[2] = "SSH" /\ Key[3] = "Wifi" /\ Key[4] = "xIotit"
  BY DEF Key
<1>3. (CHOOSE i \in DOMAIN Key : Key[i] = "Interface") = 1
  BY <1>1, <1>2
<1>4. (CHOOSE i \in DOMAIN Key : Key[i] = "SSH") = 2
  BY <1>1, <1>2
<1>5. (CHOOSE i \in DOMAIN Key : Key[i] = "Wifi") = 3
  BY <1>1, <1>2
<1>6. After("Interface") = Key[1 + 1] /\ After("SSH") = Key[1 + 2] /\ After("Wifi") = Key[1 + 3]
  <2>1. After("Interface") = Key[1 + 1]
    BY <1>3, Zenon DEF After
  <2>2. After("SSH") = Key[1 + 2]
    BY <1>4, Zenon DEF After
  <2>3. After("Wifi") = Key[1 + 3]
    BY <1>5, Zenon DEF After
  <2> QED
    BY <2>1, <2>2, <2>3
<1>7. 1 + 1 = 2 /\ 1 + 2 = 3 /\ 1 + 3 = 4
  OBVIOUS
<1>8. After("xIotit") = Then("finish")
  BY Zenon DEF After
<1> QED
  BY <1>2, <1>6, <1>7, <1>8, Zenon

-----------------------------------------------------------------------------
LEMMA TypeStep == TypeOK /\ [Next]_vars => TypeOK'
<1> SUFFICES ASSUME TypeOK, [Next]_vars PROVE TypeOK'
  OBVIOUS
<1> USE Questions DEF TypeOK, Ended, command, board, Go, Then
<1>1. CASE Prepare
  BY <1>1 DEF Prepare, Offline
<1>2. CASE PrepareWindows
  BY <1>2 DEF PrepareWindows
<1>3. CASE PrepareSerial
  BY <1>3 DEF PrepareSerial
<1>4. CASE ConfigureImage
  BY <1>4 DEF ConfigureImage
<1>5. CASE WriteCard
  BY <1>5 DEF WriteCard
<1>6. CASE Unplugged
  BY <1>6 DEF Unplugged
<1>7. CASE NothingUnpacked
  BY <1>7 DEF NothingUnpacked, Unpacked
<1>8. CASE FlashAll
  <2>1. pc' \in {"stop", "restart", "reconnect", "exit"}
    BY <1>8 DEF FlashAll, FlashesBoard, Unpacked, Flashed, NotFlashed
  <2>2. firmware' \in {"old", "part", "new"} /\ booted' \in BOOLEAN
    BY <1>8 DEF FlashAll, FlashesBoard, Unpacked, Flashed, NotFlashed
  <2> QED
    BY <1>8, <2>1, <2>2 DEF FlashAll, FlashesBoard, Unpacked, Flashed, NotFlashed
<1>9. CASE Reconnect
  BY <1>9 DEF Reconnect
<1>10. CASE Restarted
  BY <1>10 DEF Restarted
<1>11. CASE ConfigureEdison
  BY <1>11 DEF ConfigureEdison
<1>12. CASE GetIPAddress
  BY <1>12 DEF GetIPAddress
<1>13. CASE CopyId
  BY <1>13 DEF CopyId, Key
<1>14. CASE WriteSerial
  <2>1. pc' \in {"configure", "nil", "error"}
    BY <1>14 DEF WriteSerial
  <2>2. firmware' \in {"old", "part", "new"} /\ booted' \in BOOLEAN
    BY <1>14 DEF WriteSerial
  <2> QED
    BY <1>14, <2>1, <2>2 DEF WriteSerial
<1>15. CASE ConfigureSerial
  BY <1>15 DEF ConfigureSerial
<1>16. CASE SaveWifi
  <2>1. pc' \in {"finish", "nil", "error"}
    BY <1>16 DEF SaveWifi
  <2>2. settings' \in [Question -> {"none", "asked", "part", "whole"}]
    BY <1>16 DEF SaveWifi
  <2>3. history' \subseteq {"offline", "notZip", "refused", "unwritten", "unseen",
                          "noInterface", "keyKept", "badKey"}
    BY <1>16 DEF SaveWifi
  <2>4. UNCHANGED <<command, conf, port, board, known>>
    BY <1>16 DEF SaveWifi
  <2> QED
    BY <2>1, <2>2, <2>3, <2>4
<1>17. CASE SerialDone
  BY <1>17 DEF SerialDone
<1>18. CASE Pull
  <2>1. plugged' \in BOOLEAN /\ booted' \in BOOLEAN
    BY <1>18 DEF Pull
  <2>2. UNCHANGED <<command, pc, conf, port, settings, firmware, running, known, history>>
    BY <1>18 DEF Pull
  <2> QED
    BY <2>1, <2>2
<1>19. CASE Plug
  BY <1>19 DEF Plug
<1>20. CASE BoardBoots
  BY <1>20 DEF BoardBoots
<1>21. CASE Stop("stop", "restart") \/ Stop("finish", "done")
  BY <1>21 DEF Stop
<1>22. ASSUME NEW q \in Question, Ask(q) PROVE TypeOK'
  BY <1>22, AfterNext DEF Ask
<1>23. ASSUME NEW q \in Question, Act(q) PROVE TypeOK'
  BY <1>23, AfterNext DEF Act
<1>24. ASSUME NEW q \in Question, ActFails(q) PROVE TypeOK'
  BY <1>24 DEF ActFails
<1>25. CASE UNCHANGED vars
  BY <1>25 DEF vars
<1> QED
    BY <1>1, <1>2, <1>3, <1>4, <1>5, <1>6, <1>7, <1>8, <1>9, <1>10, <1>11, <1>12, <1>13,
     <1>14, <1>15, <1>16, <1>17, <1>18, <1>19, <1>20, <1>21, <1>22, <1>23, <1>24, <1>25
     DEF Next, Program, Cards, Edison, Serial

-----------------------------------------------------------------------------

\* Each flasher takes its own steps.
LEMMA PcStep ==
    TypeOK /\ PcOfKind /\ [Next]_vars
    => PcOfKind'
<1> SUFFICES ASSUME TypeOK /\ PcOfKind, [Next]_vars PROVE PcOfKind'
  OBVIOUS
<1> USE Questions DEF TypeOK, PcOfKind, Card, EdisonKind, Ended, command, board, Go, Then
<1>1. CASE Prepare
  BY <1>1 DEF Prepare, Offline
<1>2. CASE PrepareWindows
  BY <1>2 DEF PrepareWindows
<1>3. CASE PrepareSerial
  BY <1>3 DEF PrepareSerial
<1>4. CASE ConfigureImage
  BY <1>4 DEF ConfigureImage
<1>5. CASE WriteCard
  BY <1>5 DEF WriteCard
<1>6. CASE Unplugged
  BY <1>6 DEF Unplugged
<1>7. CASE NothingUnpacked
  BY <1>7 DEF NothingUnpacked, Unpacked
<1>8. CASE FlashAll
  BY <1>8 DEF FlashAll, FlashesBoard, Unpacked, Flashed, NotFlashed
<1>9. CASE Reconnect
  BY <1>9 DEF Reconnect
<1>10. CASE Restarted
  BY <1>10 DEF Restarted
<1>11. CASE ConfigureEdison
  BY <1>11 DEF ConfigureEdison
<1>12. CASE GetIPAddress
  BY <1>12 DEF GetIPAddress
<1>13. CASE CopyId
  BY <1>13 DEF CopyId, Key
<1>14. CASE WriteSerial
  BY <1>14 DEF WriteSerial, Opens
<1>15. CASE ConfigureSerial
  BY <1>15 DEF ConfigureSerial
<1>16. CASE SaveWifi
  BY <1>16 DEF SaveWifi
<1>17. CASE SerialDone
  BY <1>17 DEF SerialDone
<1>18. CASE Pull
  BY <1>18 DEF Pull
<1>19. CASE Plug
  BY <1>19 DEF Plug
<1>20. CASE BoardBoots
  BY <1>20 DEF BoardBoots
<1>21. CASE Stop("stop", "restart")
  BY <1>21 DEF Stop
<1>22. CASE kind \in EdisonKind /\ Stop("finish", "done")
  BY <1>22 DEF Stop
<1>23. ASSUME NEW q \in Question, Ask(q) PROVE PcOfKind'
  BY <1>23, AfterNext DEF Ask
<1>24. ASSUME NEW q \in Question, Act(q) PROVE PcOfKind'
  BY <1>24, AfterNext DEF Act, Answers
<1>25. ASSUME NEW q \in Question, ActFails(q) PROVE PcOfKind'
  BY <1>25 DEF ActFails, KeyChanged
<1>26. CASE UNCHANGED vars
  BY <1>26 DEF vars
<1> QED
    BY <1>1, <1>2, <1>3, <1>4, <1>5, <1>6, <1>7, <1>8, <1>9, <1>10, <1>11, <1>12, <1>13,
     <1>14, <1>15, <1>16, <1>17, <1>18, <1>19, <1>20, <1>21, <1>22, <1>23, <1>24, <1>25,
     <1>26
     DEF Next, Program, Cards, Edison, Serial

\* Prepare sets the machine up before anything that needs it.
LEMMA MachineStep ==
    TypeOK /\ PcOfKind /\ MachineUnderFlash /\ CardUntouched /\ PanicsNeedNoMachine /\ [Next]_vars
    => (MachineUnderFlash /\ CardUntouched /\ PanicsNeedNoMachine)'
<1> SUFFICES ASSUME TypeOK, PcOfKind, MachineUnderFlash, CardUntouched, PanicsNeedNoMachine, [Next]_vars
    PROVE  (MachineUnderFlash /\ CardUntouched /\ PanicsNeedNoMachine)'
  OBVIOUS
<1> USE Questions DEF TypeOK, PcOfKind, MachineUnderFlash, CardUntouched,
        PanicsNeedNoMachine, Card, EdisonKind, Ended, command, board, Go, Then
<1>1. CASE Prepare
  <2>1. ~conf /\ firmware' = "old" /\ UNCHANGED <<kind, cmd>>
    BY <1>1 DEF Prepare, Offline
  <2>2. CASE Offline
    <3>1. pc' = "panic" /\ "offline" \in history' /\ ~running
      BY <2>2 DEF Offline
    <3>2. ~conf' /\ ~running'
      BY <1>1, <2>1, <3>1 DEF Prepare
    <3> QED
      BY <2>1, <3>1, <3>2
  <2>3. CASE ~Offline
    BY <1>1, <2>1, <2>3 DEF Prepare
  <2> QED
    BY <2>2, <2>3
<1>2. CASE PrepareWindows
  BY <1>2 DEF PrepareWindows
<1>3. CASE PrepareSerial
  BY <1>3 DEF PrepareSerial
<1>4. CASE ConfigureImage
  BY <1>4 DEF ConfigureImage
<1>5. CASE WriteCard
  BY <1>5 DEF WriteCard
<1>6. CASE Unplugged
  BY <1>6 DEF Unplugged
<1>7. CASE NothingUnpacked
  BY <1>7 DEF NothingUnpacked, Unpacked
<1>8. CASE FlashAll
  BY <1>8 DEF FlashAll, FlashesBoard, Unpacked, Flashed, NotFlashed
<1>9. CASE Reconnect
  BY <1>9 DEF Reconnect
<1>10. CASE Restarted
  BY <1>10 DEF Restarted
<1>11. CASE ConfigureEdison
  BY <1>11 DEF ConfigureEdison
<1>12. CASE GetIPAddress
  BY <1>12 DEF GetIPAddress
<1>13. CASE CopyId
  BY <1>13 DEF CopyId, Key
<1>14. CASE WriteSerial
  BY <1>14 DEF WriteSerial, Opens
<1>15. CASE ConfigureSerial
  BY <1>15 DEF ConfigureSerial
<1>16. CASE SaveWifi
  BY <1>16 DEF SaveWifi
<1>17. CASE SerialDone
  BY <1>17 DEF SerialDone
<1>18. CASE Pull
  BY <1>18 DEF Pull
<1>19. CASE Plug
  BY <1>19 DEF Plug
<1>20. CASE BoardBoots
  BY <1>20 DEF BoardBoots
<1>21. CASE Stop("stop", "restart")
  BY <1>21 DEF Stop
<1>22. CASE kind \in EdisonKind /\ Stop("finish", "done")
  BY <1>22 DEF Stop
<1>23. ASSUME NEW q \in Question, Ask(q)
      PROVE  (MachineUnderFlash /\ CardUntouched /\ PanicsNeedNoMachine)'
  BY <1>23, AfterNext DEF Ask
<1>24. ASSUME NEW q \in Question, Act(q)
      PROVE  (MachineUnderFlash /\ CardUntouched /\ PanicsNeedNoMachine)'
  BY <1>24, AfterNext DEF Act, Answers
<1>25. ASSUME NEW q \in Question, ActFails(q)
      PROVE  (MachineUnderFlash /\ CardUntouched /\ PanicsNeedNoMachine)'
  BY <1>25 DEF ActFails, KeyChanged
<1>26. CASE UNCHANGED vars
  BY <1>26 DEF vars
<1> QED
    BY <1>1, <1>2, <1>3, <1>4, <1>5, <1>6, <1>7, <1>8, <1>9, <1>10, <1>11, <1>12, <1>13,
     <1>14, <1>15, <1>16, <1>17, <1>18, <1>19, <1>20, <1>21, <1>22, <1>23, <1>24, <1>25,
     <1>26
     DEF Next, Program, Cards, Edison, Serial

\* The firmware changes before the first setting does.
LEMMA FlashStep ==
    TypeOK /\ PcOfKind /\ SettingsUntouched /\ FlashedBefore /\ ConfiguredIsFlashed /\ [Next]_vars
    => (SettingsUntouched /\ FlashedBefore /\ ConfiguredIsFlashed)'
<1> SUFFICES ASSUME TypeOK, PcOfKind, SettingsUntouched, FlashedBefore, ConfiguredIsFlashed, [Next]_vars
    PROVE  (SettingsUntouched /\ FlashedBefore /\ ConfiguredIsFlashed)'
  OBVIOUS
<1> USE Questions DEF TypeOK, PcOfKind, SettingsUntouched, FlashedBefore,
        ConfiguredIsFlashed, Card, EdisonKind, Ended, command, board, Go, Then
<1>1. CASE Prepare
  BY <1>1 DEF Prepare, Offline
<1>2. CASE PrepareWindows
  BY <1>2 DEF PrepareWindows
<1>3. CASE PrepareSerial
  BY <1>3 DEF PrepareSerial
<1>4. CASE ConfigureImage
  BY <1>4 DEF ConfigureImage
<1>5. CASE WriteCard
  BY <1>5 DEF WriteCard
<1>6. CASE Unplugged
  BY <1>6 DEF Unplugged
<1>7. CASE NothingUnpacked
  BY <1>7 DEF NothingUnpacked, Unpacked
<1>8. CASE FlashAll
  BY <1>8 DEF FlashAll, FlashesBoard, Unpacked, Flashed, NotFlashed
<1>9. CASE Reconnect
  BY <1>9 DEF Reconnect
<1>10. CASE Restarted
  BY <1>10 DEF Restarted
<1>11. CASE ConfigureEdison
  BY <1>11 DEF ConfigureEdison
<1>12. CASE GetIPAddress
  BY <1>12 DEF GetIPAddress
<1>13. CASE CopyId
  BY <1>13 DEF CopyId, Key
<1>14. CASE WriteSerial
  BY <1>14 DEF WriteSerial, Opens
<1>15. CASE ConfigureSerial
  BY <1>15 DEF ConfigureSerial
<1>16. CASE SaveWifi
  BY <1>16 DEF SaveWifi
<1>17. CASE SerialDone
  BY <1>17 DEF SerialDone
<1>18. CASE Pull
  BY <1>18 DEF Pull
<1>19. CASE Plug
  BY <1>19 DEF Plug
<1>20. CASE BoardBoots
  BY <1>20 DEF BoardBoots
<1>21. CASE Stop("stop", "restart")
  BY <1>21 DEF Stop
<1>22. CASE kind \in EdisonKind /\ Stop("finish", "done")
  BY <1>22 DEF Stop
<1>23. ASSUME NEW q \in Question, Ask(q)
      PROVE  (SettingsUntouched /\ FlashedBefore /\ ConfiguredIsFlashed)'
  BY <1>23, AfterNext DEF Ask
<1>24. ASSUME NEW q \in Question, Act(q)
      PROVE  (SettingsUntouched /\ FlashedBefore /\ ConfiguredIsFlashed)'
  BY <1>24, AfterNext DEF Act, Answers
<1>25. ASSUME NEW q \in Question, ActFails(q)
      PROVE  (SettingsUntouched /\ FlashedBefore /\ ConfiguredIsFlashed)'
  BY <1>25 DEF ActFails, KeyChanged
<1>26. CASE UNCHANGED vars
  BY <1>26 DEF vars
<1> QED
    BY <1>1, <1>2, <1>3, <1>4, <1>5, <1>6, <1>7, <1>8, <1>9, <1>10, <1>11, <1>12, <1>13,
     <1>14, <1>15, <1>16, <1>17, <1>18, <1>19, <1>20, <1>21, <1>22, <1>23, <1>24, <1>25,
     <1>26
     DEF Next, Program, Cards, Edison, Serial

\* Setup calls the callbacks in their order and ends with the first error.
LEMMA SetupStep ==
    TypeOK /\ PcOfKind /\ SettingsUntouched /\ FlashedBefore /\ SetupInOrder /\ DoneIsConfigured /\ [Next]_vars
    => (SetupInOrder /\ DoneIsConfigured)'
<1> SUFFICES ASSUME TypeOK, PcOfKind, SettingsUntouched, FlashedBefore, SetupInOrder, DoneIsConfigured, [Next]_vars
    PROVE  (SetupInOrder /\ DoneIsConfigured)'
  OBVIOUS
<1> USE Questions DEF TypeOK, PcOfKind, SettingsUntouched, FlashedBefore, SetupInOrder,
        DoneIsConfigured, Place, Card, EdisonKind, Ended, command, board, Go, Then
<1>1. CASE Prepare
  BY <1>1 DEF Prepare, Offline
<1>2. CASE PrepareWindows
  BY <1>2 DEF PrepareWindows
<1>3. CASE PrepareSerial
  BY <1>3 DEF PrepareSerial
<1>4. CASE ConfigureImage
  BY <1>4 DEF ConfigureImage
<1>5. CASE WriteCard
  BY <1>5 DEF WriteCard
<1>6. CASE Unplugged
  BY <1>6 DEF Unplugged
<1>7. CASE NothingUnpacked
  BY <1>7 DEF NothingUnpacked, Unpacked
<1>8. CASE FlashAll
  BY <1>8 DEF FlashAll, FlashesBoard, Unpacked, Flashed, NotFlashed
<1>9. CASE Reconnect
  BY <1>9 DEF Reconnect
<1>10. CASE Restarted
  BY <1>10 DEF Restarted
<1>11. CASE ConfigureEdison
  BY <1>11 DEF ConfigureEdison
<1>12. CASE GetIPAddress
  BY <1>12 DEF GetIPAddress
<1>13. CASE CopyId
  BY <1>13 DEF CopyId, Key
<1>14. CASE WriteSerial
  BY <1>14 DEF WriteSerial, Opens
<1>15. CASE ConfigureSerial
  BY <1>15 DEF ConfigureSerial
<1>16. CASE SaveWifi
  BY <1>16 DEF SaveWifi
<1>17. CASE SerialDone
  BY <1>17 DEF SerialDone
<1>18. CASE Pull
  BY <1>18 DEF Pull
<1>19. CASE Plug
  BY <1>19 DEF Plug
<1>20. CASE BoardBoots
  BY <1>20 DEF BoardBoots
<1>21. CASE Stop("stop", "restart")
  BY <1>21 DEF Stop
<1>22. CASE kind \in EdisonKind /\ Stop("finish", "done")
  BY <1>22 DEF Stop
<1>23. ASSUME NEW q \in Question, Ask(q) PROVE (SetupInOrder /\ DoneIsConfigured)'
  BY <1>23, AfterNext DEF Ask
<1>24. ASSUME NEW q \in Question, Act(q) PROVE (SetupInOrder /\ DoneIsConfigured)'
  BY <1>24, AfterNext DEF Act, Answers
<1>25. ASSUME NEW q \in Question, ActFails(q) PROVE (SetupInOrder /\ DoneIsConfigured)'
  BY <1>25 DEF ActFails, KeyChanged
<1>26. CASE UNCHANGED vars
  BY <1>26 DEF vars
<1> QED
    BY <1>1, <1>2, <1>3, <1>4, <1>5, <1>6, <1>7, <1>8, <1>9, <1>10, <1>11, <1>12, <1>13,
     <1>14, <1>15, <1>16, <1>17, <1>18, <1>19, <1>20, <1>21, <1>22, <1>23, <1>24, <1>25,
     <1>26
     DEF Next, Program, Cards, Edison, Serial

\* A host key is stale only if getIPAddress was left out or missed it.
LEMMA PortStep ==
    TypeOK /\ PcOfKind /\ PortAsked /\ StaleKeyNeedsPort /\ [Next]_vars
    => (PortAsked /\ StaleKeyNeedsPort)'
<1> SUFFICES ASSUME TypeOK, PcOfKind, PortAsked, StaleKeyNeedsPort, [Next]_vars
    PROVE  (PortAsked /\ StaleKeyNeedsPort)'
  OBVIOUS
<1> USE Questions DEF TypeOK, PcOfKind, PortAsked, StaleKeyNeedsPort, Card, EdisonKind,
        Ended, command, board, Go, Then
<1>1. CASE Prepare
  BY <1>1 DEF Prepare, Offline
<1>2. CASE PrepareWindows
  BY <1>2 DEF PrepareWindows
<1>3. CASE PrepareSerial
  BY <1>3 DEF PrepareSerial
<1>4. CASE ConfigureImage
  BY <1>4 DEF ConfigureImage
<1>5. CASE WriteCard
  BY <1>5 DEF WriteCard
<1>6. CASE Unplugged
  BY <1>6 DEF Unplugged
<1>7. CASE NothingUnpacked
  BY <1>7 DEF NothingUnpacked, Unpacked
<1>8. CASE FlashAll
  BY <1>8 DEF FlashAll, FlashesBoard, Unpacked, Flashed, NotFlashed
<1>9. CASE Reconnect
  BY <1>9 DEF Reconnect
<1>10. CASE Restarted
  BY <1>10 DEF Restarted
<1>11. CASE ConfigureEdison
  BY <1>11 DEF ConfigureEdison
<1>12. CASE GetIPAddress
  BY <1>12 DEF GetIPAddress
<1>13. CASE CopyId
  BY <1>13 DEF CopyId, Key
<1>14. CASE WriteSerial
  BY <1>14 DEF WriteSerial, Opens
<1>15. CASE ConfigureSerial
  BY <1>15 DEF ConfigureSerial
<1>16. CASE SaveWifi
  BY <1>16 DEF SaveWifi
<1>17. CASE SerialDone
  BY <1>17 DEF SerialDone
<1>18. CASE Pull
  BY <1>18 DEF Pull
<1>19. CASE Plug
  BY <1>19 DEF Plug
<1>20. CASE BoardBoots
  BY <1>20 DEF BoardBoots
<1>21. CASE Stop("stop", "restart")
  BY <1>21 DEF Stop
<1>22. CASE kind \in EdisonKind /\ Stop("finish", "done")
  BY <1>22 DEF Stop
<1>23. ASSUME NEW q \in Question, Ask(q) PROVE (PortAsked /\ StaleKeyNeedsPort)'
  BY <1>23, AfterNext DEF Ask
<1>24. ASSUME NEW q \in Question, Act(q) PROVE (PortAsked /\ StaleKeyNeedsPort)'
  BY <1>24, AfterNext DEF Act, Answers
<1>25. ASSUME NEW q \in Question, ActFails(q) PROVE (PortAsked /\ StaleKeyNeedsPort)'
  BY <1>25 DEF ActFails, KeyChanged
<1>26. CASE UNCHANGED vars
  BY <1>26 DEF vars
<1> QED
    BY <1>1, <1>2, <1>3, <1>4, <1>5, <1>6, <1>7, <1>8, <1>9, <1>10, <1>11, <1>12, <1>13,
     <1>14, <1>15, <1>16, <1>17, <1>18, <1>19, <1>20, <1>21, <1>22, <1>23, <1>24, <1>25,
     <1>26
     DEF Next, Program, Cards, Edison, Serial

-----------------------------------------------------------------------------
LEMMA InitInv == Init => BoardInv
<1> SUFFICES ASSUME Init PROVE BoardInv
  OBVIOUS
<1> USE Questions DEF Init, Card, EdisonKind, Ended
<1>1. TypeOK
  <2>1. pc \in {"prepare", "write", "configure"}
    OBVIOUS
  <2>2. port \in {"none", "given", "auto"} /\ settings \in [Question -> {"none"}]
    OBVIOUS
  <2>3. {conf, plugged, booted, running, known} \subseteq BOOLEAN /\ quiet \in BOOLEAN
    OBVIOUS
  <2>4. /\ kind \in {"sd", "raspi", "edison", "edisonWin", "serial"}
        /\ cmd \in {"flash", "configure", "write"} /\ firmware = "old" /\ history = {}
    OBVIOUS
  <2> HIDE DEF Init
  <2> QED
    BY <2>1, <2>2, <2>3, <2>4 DEF TypeOK
<1>2. PcOfKind /\ MachineUnderFlash /\ PanicsNeedNoMachine /\ CardUntouched
  BY DEF PcOfKind, MachineUnderFlash, PanicsNeedNoMachine, CardUntouched
<1>3. SettingsUntouched /\ FlashedBefore /\ ConfiguredIsFlashed
  BY DEF SettingsUntouched, FlashedBefore, ConfiguredIsFlashed
<1>4. SetupInOrder /\ DoneIsConfigured /\ PortAsked /\ StaleKeyNeedsPort
  BY DEF SetupInOrder, DoneIsConfigured, PortAsked, StaleKeyNeedsPort
<1> QED
  BY <1>1, <1>2, <1>3, <1>4 DEF BoardInv

\* BoardInv holds in every state: no command of any flasher leaves it, however often
\* tools fail and boards are pulled.
THEOREM BoardsInvariant == Spec => []BoardInv
<1>1. BoardInv /\ [Next]_vars => BoardInv'
  BY TypeStep, PcStep, MachineStep, FlashStep, SetupStep, PortStep DEF BoardInv
<1> QED
  BY InitInv, <1>1, PTL DEF Spec

\* Every variable keeps its type: what a method leaves is what the next one expects.
THEOREM BoardsType == Spec => []TypeOK
<1>1. BoardInv => TypeOK
  BY DEF BoardInv
<1> QED
  BY BoardsInvariant, <1>1, PTL

\* The program crashes only where it has no machine or no interface to list: under flash
\* offline, with nothing written, or on the Windows Edison, and after flashing only for the
\* Edison (CheckMachine, getFlasher, edison.Configure, getIPAddress).
THEOREM CrashNeedsNoMachine == Spec => []PanicsNeedNoMachine
<1>1. BoardInv => PanicsNeedNoMachine
  BY DEF BoardInv
<1> QED
  BY BoardsInvariant, <1>1, PTL

\* The command flash configures no board that it has not flashed, unless its user
\* refused the flashing (edison.Flash, serialFlasher.Flash).
THEOREM FlashBeforeConfigure == Spec => []ConfiguredIsFlashed
<1>1. BoardInv => ConfiguredIsFlashed
  BY DEF BoardInv
<1> QED
  BY BoardsInvariant, <1>1, PTL

\* Done calls complete only a board or card with this run's firmware, unless its user refused
\* it or dd failed unseen, and with every setting that was asked for, unless a module failed
\* without telling (sdFlasher.Write, edison.Configure, Configurator.Setup, setWifi).
THEOREM CompleteIsConfigured == Spec => []DoneIsConfigured
<1>1. BoardInv => DoneIsConfigured
  BY DEF BoardInv
<1> QED
  BY BoardsInvariant, <1>1, PTL

\* A board is refused for its old host key only if getIPAddress was left out by --port,
\* or did not find the key.
THEOREM StaleKeyIsGiven == Spec => []StaleKeyNeedsPort
<1>1. BoardInv => StaleKeyNeedsPort
  BY DEF BoardInv
<1> QED
  BY BoardsInvariant, <1>1, PTL
=============================================================================
