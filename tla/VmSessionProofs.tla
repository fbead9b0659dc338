--------------------------- MODULE VmSessionProofs ---------------------------
(***************************************************************************)
(* The machine that a flasher's steps work with, over any number of runs:  *)
(* it has answered this run or ran before it, and no goroutine of startVM  *)
(* is left to poll it.  The first is a fact about the machine and about    *)
(* what earlier runs left; the second about the poller, the clock and the  *)
(* job, whose invariant BackgroundJobProofs has.                           *)
(***************************************************************************)
EXTENDS VmSession, TLAPS

JobProofs == INSTANCE BackgroundJobProofs WITH
    Error <- {TimeoutError}, NoError <- "nil", Pending <- "pending"

JobInv == Job!TypeOK /\ Job!NothingMissed /\ Job!ResultIsFirstError

\* The poller ends only with an answer, and startVM succeeds only when it has ended.
Polling ==
    /\ worker = "closed" <=> gpc = "ended"
    /\ pc = "start" => gpc = "none" /\ ~answered
    /\ gpc \in {"return", "ended"} => answered
    /\ answered => vm # "booting"
    /\ pc = "ok" => waiter = "returned" /\ result = "nil"

\* A host that never slept: the tick is taken in the period it came, before a timeout, and
\* there is no error to leave the poller behind.
Awake ==
    suspends = 0 =>
        /\ waited \in {0, 1} /\ first = "nil"
        /\ gpc = "none" => waited = 0
        /\ gpc = "select" /\ waited = 1 => tick
        /\ pc = "failed" => gpc = "none"

StartInv == TypeOK /\ JobInv /\ Polling /\ Awake

\* Only the run that started it may meet a machine that boots, or a run after one that
\* was left.
Machine ==
    /\ vm = "booting" /\ ppc # "starting" => abandoned
    /\ ppc = "ready" => answered \/ found

SessionInv == SessionTypeOK /\ StartInv /\ Machine

-----------------------------------------------------------------------------
\* startVM and its poller.

\* The types of startVM's own variables.
OwnTypeOK ==
    /\ vm \in {"off", "booting", "up"} /\ halts \in 0 .. MaxHalts
    /\ pc \in {"start", "wait", "ok", "failed"}
    /\ gpc \in {"none", "select", "ssh", "return", "ended"}
    /\ tick \in BOOLEAN /\ waited \in 0 .. Timeout
    /\ suspends \in 0 .. MaxSuspends /\ answered \in BOOLEAN

\* What the job does in a step of startVM: nothing, or a step of its own.
JobStep ==
    UNCHANGED job \/ Job!StartWait \/ Job!ReceiveError \/ Job!ReceiveClosed
    \/ Job!CallError(TimeoutError) \/ Job!CallClose

\* The job keeps what BackgroundJobProofs shows of it.
LEMMA JobKeeps ==
  ASSUME JobInv, JobStep
  PROVE  JobInv'
<1>1. JobProofs!IInv
  BY DEF JobInv, JobProofs!IInv, JobProofs!TypeOK, Job!TypeOK, JobProofs!NothingMissed,
         Job!NothingMissed, JobProofs!ResultIsFirstError, Job!ResultIsFirstError
<1>2. JobProofs!ErrorAssumption
  BY TimeoutErrorAssumption DEF JobProofs!ErrorAssumption
<1>3. [JobProofs!Next]_(JobProofs!vars)
  BY DEF JobStep, job, Job!StartWait, Job!ReceiveError, Job!ReceiveClosed, Job!CallError,
    Job!CallClose, JobProofs!Next, JobProofs!Worker, JobProofs!Waiter, JobProofs!vars,
    JobProofs!CallError, JobProofs!CallClose, JobProofs!StartWait, JobProofs!ReceiveError,
    JobProofs!ReceiveClosed
<1>4. JobProofs!IInv'
  BY <1>1, <1>2, <1>3, JobProofs!NextPreserves
<1> QED
  BY <1>4 DEF JobInv, JobProofs!IInv, JobProofs!TypeOK, Job!TypeOK, JobProofs!NothingMissed,
              Job!NothingMissed, JobProofs!ResultIsFirstError, Job!ResultIsFirstError

\* Every step of the machine, its user, the clock, startVM and the poller keeps StartInv.
LEMMA StartSteps ==
  ASSUME StartInv,
         Boot \/ Halt \/ Period \/ Suspend \/ Caller \/ Worker
  PROVE  StartInv'
<1>1. OwnTypeOK /\ JobInv /\ Polling /\ Awake
  BY DEF StartInv, TypeOK, OwnTypeOK
<1>2. /\ Timeout \in Nat /\ Timeout > 1 /\ MaxSuspends \in Nat /\ MaxHalts \in Nat
  BY TimeAssumption
<1>3. JobInv' /\ OwnTypeOK' => TypeOK'
  BY DEF JobInv, TypeOK, OwnTypeOK
<1>4. CASE Boot \/ Halt
  <2>1. /\ UNCHANGED <<suspends, pc, gpc, tick, waited, answered, job>>
        /\ vm' \in {"up", "off"} /\ halts' \in {halts, halts + 1} /\ halts' \in 0 .. MaxHalts
    BY <1>1, <1>2, <1>4 DEF Boot, Halt, OwnTypeOK
  <2>2. OwnTypeOK'
    BY <1>1, <2>1 DEF OwnTypeOK
  <2>3. JobInv'
    BY <1>1, <2>1, JobKeeps DEF JobStep
  <2>4. Polling' /\ Awake'
    BY <1>1, <2>1 DEF Polling, Awake, job
  <2> QED
    BY <1>3, <2>2, <2>3, <2>4 DEF StartInv
<1>5. CASE Period \/ Suspend
  <2>1. /\ UNCHANGED <<vm, halts, pc, gpc, answered, job>> /\ Parked /\ tick' = TRUE
        /\ \/ suspends' = suspends /\ waited' = IF gpc = "select" THEN waited + 1 ELSE waited
           \/ suspends' = suspends + 1 /\ suspends < MaxSuspends /\ waited' = Timeout
    BY <1>5 DEF Period, Suspend, env
  <2>2. OwnTypeOK'
    BY <1>1, <1>2, <2>1 DEF OwnTypeOK, Parked
  <2>3. JobInv'
    BY <1>1, <2>1, JobKeeps DEF JobStep
  <2>4. Polling'
    BY <1>1, <2>1 DEF Polling, job
  <2>5. Awake'
    BY <1>1, <1>2, <2>1 DEF Awake, Parked, OwnTypeOK, job
  <2> QED
    BY <1>3, <2>2, <2>3, <2>4, <2>5 DEF StartInv
<1>6. CASE StartFails \/ Start
  <2>1. /\ pc = "start" /\ UNCHANGED <<halts, suspends, tick, waited, answered>>
        /\ \/ pc' = "failed" /\ UNCHANGED <<vm, gpc, job>>
           \/ pc' = "wait" /\ vm' = "booting" /\ gpc' = "select" /\ Job!StartWait
    BY <1>6 DEF StartFails, Start, env
  <2>2. OwnTypeOK'
    BY <1>1, <2>1 DEF OwnTypeOK
  <2>3. JobInv'
    BY <1>1, <2>1, JobKeeps DEF JobStep
  <2>4. Polling' /\ Awake'
    BY <1>1, <2>1 DEF Polling, Awake, Job!StartWait, job
  <2> QED
    BY <1>3, <2>2, <2>3, <2>4 DEF StartInv
<1>7. CASE Receive
  <2>1. /\ UNCHANGED <<vm, halts, suspends, pc, gpc, tick, waited, answered>>
        /\ Job!ReceiveError \/ Job!ReceiveClosed
    BY <1>7 DEF Receive, env
  <2>2. OwnTypeOK'
    BY <1>1, <2>1 DEF OwnTypeOK
  <2>3. JobInv'
    BY <1>1, <2>1, JobKeeps DEF JobStep
  <2>4. /\ waiter = "waiting" /\ first' = first
        /\ worker' = "closed" <=> worker = "closed"
    BY <2>1 DEF Job!ReceiveError, Job!ReceiveClosed
  <2>5. Polling' /\ Awake'
    BY <1>1, <2>1, <2>4 DEF Polling, Awake
  <2> QED
    BY <1>3, <2>2, <2>3, <2>5 DEF StartInv
<1>8. CASE WaitReturns
  <2>1. /\ pc = "wait" /\ waiter = "returned" /\ pc' = IF result = "nil" THEN "ok" ELSE "failed"
        /\ UNCHANGED <<vm, halts, suspends, gpc, tick, waited, answered, job>>
    BY <1>8 DEF WaitReturns, env
  <2>2. OwnTypeOK'
    BY <1>1, <2>1 DEF OwnTypeOK
  <2>3. JobInv'
    BY <1>1, <2>1, JobKeeps DEF JobStep
  <2>4. Polling'
    BY <1>1, <2>1 DEF Polling, job
  <2>5. Awake'
    BY <1>1, <2>1 DEF Awake, JobInv, Job!ResultIsFirstError, job
  <2> QED
    BY <1>3, <2>2, <2>3, <2>4, <2>5 DEF StartInv
<1>9. CASE Poll \/ Polled
  <2>0. answered \in BOOLEAN
    BY <1>1 DEF OwnTypeOK
  <2>1. /\ worker = "running" /\ UNCHANGED <<vm, halts, suspends, pc, job>>
        /\ \/ gpc = "select" /\ gpc' = "ssh" /\ tick' = FALSE /\ UNCHANGED <<waited, answered>>
           \/ /\ gpc = "ssh" /\ waited' = 0 /\ UNCHANGED tick
              /\ \/ vm = "up" /\ gpc' = "return" /\ answered' = TRUE
                 \/ vm # "up" /\ gpc' = "select" /\ answered' = answered
    BY <1>9, <2>0 DEF Poll, Polled, Step, env
  <2>2. OwnTypeOK'
    <3>1. waited' \in 0 .. Timeout
      BY <1>1, <1>2, <2>1 DEF OwnTypeOK
    <3> QED
      BY <1>1, <2>1, <3>1 DEF OwnTypeOK
  <2>3. JobInv'
    BY <1>1, <2>1, JobKeeps DEF JobStep
  <2>4. Polling'
    BY <1>1, <2>1 DEF Polling, OwnTypeOK, job
  <2>5. Awake'
    BY <1>1, <2>1 DEF Awake, job
  <2> QED
    BY <1>3, <2>2, <2>3, <2>4, <2>5 DEF StartInv
<1>10. CASE TimesOut
  <2>1. /\ UNCHANGED <<vm, halts, suspends, pc, gpc, tick, answered>> /\ gpc = "select"
        /\ waited >= Timeout /\ waited' = 0 /\ Job!CallError(TimeoutError)
    BY <1>10 DEF TimesOut, Step, env
  <2>2. OwnTypeOK'
    BY <1>1, <1>2, <2>1 DEF OwnTypeOK
  <2>3. JobInv'
    BY <1>1, <2>1, JobKeeps DEF JobStep
  <2>4. Polling'
    BY <1>1, <2>1 DEF Polling, Job!CallError
  <2>5. Awake'
    \* only a host that slept comes here
    BY <1>1, <1>2, <2>1 DEF Awake
  <2> QED
    BY <1>3, <2>2, <2>3, <2>4, <2>5 DEF StartInv
<1>11. CASE Return
  <2>1. /\ UNCHANGED <<vm, halts, suspends, pc, tick, waited, answered>>
        /\ gpc = "return" /\ gpc' = "ended" /\ Job!CallClose
    BY <1>11 DEF Return, Step, env
  <2>2. OwnTypeOK'
    BY <1>1, <2>1 DEF OwnTypeOK
  <2>3. JobInv'
    BY <1>1, <2>1, JobKeeps DEF JobStep
  <2>4. Polling' /\ Awake'
    BY <1>1, <2>1 DEF Polling, Awake, Job!CallClose
  <2> QED
    BY <1>3, <2>2, <2>3, <2>4 DEF StartInv
<1> QED
  BY <1>4, <1>5, <1>6, <1>7, <1>8, <1>9, <1>10, <1>11 DEF Caller, Worker

-----------------------------------------------------------------------------
\* The runs.

\* The end of a run forgets startVM, and leaves a machine that boots to the next.
LEMMA ExitKeeps ==
  ASSUME SessionInv, NEW machine \in {vm, "off"}, Exit(machine),
         kills' \in 0 .. MaxKills, faults' \in 0 .. MaxFaults, UNCHANGED disk
  PROVE  SessionInv'
<1>1. SessionTypeOK /\ TypeOK
  BY DEF SessionInv, SessionTypeOK
<1>2. /\ ppc' = "idle" /\ quiet' = FALSE /\ found' = FALSE /\ vm' = machine
      /\ abandoned' = (machine # "off" /\ (abandoned \/ machine = "booting"))
      /\ pc' = "start" /\ gpc' = "none" /\ tick' = FALSE /\ waited' = 0 /\ answered' = FALSE
      /\ worker' = "running" /\ sending' = FALSE /\ waiter' = "away"
      /\ spinEn' = FALSE /\ result' = "pending" /\ first' = "nil"
      /\ UNCHANGED <<halts, suspends, online, published, zip, files, registered>>
  BY DEF Exit, disk
<1>3. machine \in {"off", "booting", "up"} /\ 0 \in 0 .. Timeout
  BY <1>1, TimeAssumption DEF TypeOK
<1>4. JobInv'
  BY <1>2, TimeoutErrorAssumption
     DEF JobInv, Job!TypeOK, Job!NothingMissed, Job!ResultIsFirstError
<1>5. TypeOK'
  BY <1>1, <1>2, <1>3, <1>4 DEF TypeOK, JobInv
<1>6. SessionTypeOK'
  BY <1>1, <1>2, <1>5 DEF SessionTypeOK
<1>7. Polling' /\ Awake' /\ Machine'
  BY <1>2 DEF Polling, Awake, Machine
<1> QED
  BY <1>4, <1>5, <1>6, <1>7 DEF SessionInv, StartInv

\* A step of the run that leaves the machine, startVM and the history alone.
RunStep ==
    /\ UNCHANGED <<vars, abandoned, kills, published>>
    /\ ppc' \in {"check", "download", "unzip", "register", "stop", "getvbox", "starting", "ready"}
    /\ quiet' \in BOOLEAN /\ found' \in BOOLEAN /\ registered' \in BOOLEAN /\ online' = online
    /\ zip' \in {"none", "part", "whole"} /\ files' \in {"none", "some", "part", "whole"}
    /\ faults' \in 0 .. MaxFaults
    /\ ppc = "starting" => vm # "booting"
    /\ ppc' = "ready" => answered \/ found'

\* StartInv does not look at the run.
LEMMA RunKeeps ==
  ASSUME SessionInv, RunStep
  PROVE  SessionInv'
<1>1. UNCHANGED vars
  BY DEF RunStep
<1>2. UNCHANGED <<vm, halts, suspends, pc, gpc, tick, waited, answered, job>>
  BY <1>1 DEF vars, env
<1>3. JobInv'
  BY <1>2, JobKeeps DEF JobStep, SessionInv, StartInv
<1>4. TypeOK'
  BY <1>2, <1>3 DEF SessionInv, StartInv, TypeOK, JobInv
<1>5. Polling' /\ Awake'
  BY <1>2 DEF SessionInv, StartInv, Polling, Awake, job
<1>6. SessionTypeOK'
  BY <1>4 DEF SessionInv, SessionTypeOK, RunStep
<1>7. Machine'
  BY <1>2 DEF SessionInv, Machine, RunStep
<1> QED
  BY <1>3, <1>4, <1>5, <1>6, <1>7 DEF SessionInv, StartInv

\* Of the next states the run may be in, each step of CheckMachine has one.
LEMMA InstallSteps ==
  ASSUME SessionInv, Install
  PROVE  SessionInv'
<1>1. /\ SessionTypeOK /\ faults \in 0 .. MaxFaults /\ kills \in 0 .. MaxKills
      /\ {quiet, found, registered} \subseteq BOOLEAN
      /\ zip \in {"none", "part", "whole"} /\ files \in {"none", "some", "part", "whole"}
      /\ MaxFaults \in Nat
  BY SessionAssumption DEF SessionInv, SessionTypeOK
<1>2. Fault => faults' \in 0 .. MaxFaults
  BY <1>1 DEF Fault
<1>3. CASE CheckMachineOffline \/ DownloadRefused \/ OpenFails \/ UnzipFails \/ RegisterFails
  <2>1. Exit(vm) /\ UNCHANGED <<disk, kills>> /\ faults' \in 0 .. MaxFaults
    BY <1>1, <1>2, <1>3
       DEF CheckMachineOffline, DownloadRefused, OpenFails, UnzipFails, RegisterFails
  <2> QED
    BY <1>1, <2>1, ExitKeeps
<1>4. CASE CheckMachine
  <2>1. RunStep
    BY <1>1, <1>4 DEF CheckMachine, Goto, RunStep, disk
  <2> QED
    BY <2>1, RunKeeps
<1>5. CASE DownloadBegins \/ DownloadEnds
  <2>1. RunStep
    BY <1>1, <1>2, <1>5 DEF DownloadBegins, DownloadEnds, Goto, RunStep
  <2> QED
    BY <2>1, RunKeeps
<1>6. CASE Unzip
  <2>1. RunStep
    BY <1>1, <1>6 DEF Unzip, Goto, RunStep
  <2> QED
    BY <2>1, RunKeeps
<1>7. CASE Register
  <2>1. RunStep
    BY <1>1, <1>7 DEF Register, Goto, RunStep
  <2> QED
    BY <2>1, RunKeeps
<1> QED
  BY <1>3, <1>4, <1>5, <1>6, <1>7 DEF Install

\* What Prepare does with the machine, and the end of a run.
LEMMA WorkSteps ==
  ASSUME SessionInv, Work
  PROVE  SessionInv'
<1>1. /\ SessionTypeOK /\ faults \in 0 .. MaxFaults /\ kills \in 0 .. MaxKills
      /\ {quiet, found, registered} \subseteq BOOLEAN
      /\ zip \in {"none", "part", "whole"} /\ files \in {"none", "some", "part", "whole"}
      /\ MaxFaults \in Nat
  BY SessionAssumption DEF SessionInv, SessionTypeOK
<1>2. Fault => faults' \in 0 .. MaxFaults
  BY <1>1 DEF Fault
<1>3. CASE PoweroffFails \/ StartFailed \/ WorkFails
  <2>1. Exit(vm) /\ UNCHANGED <<disk, kills>> /\ faults' \in 0 .. MaxFaults
    BY <1>1, <1>2, <1>3 DEF PoweroffFails, StartFailed, WorkFails
  <2> QED
    BY <1>1, <2>1, ExitKeeps
<1>4. CASE Stop
  <2>1. (Exit(vm) \/ Exit("off")) /\ UNCHANGED <<disk, kills>> /\ faults' \in 0 .. MaxFaults
    BY <1>1, <1>2, <1>4 DEF Stop
  <2> QED
    BY <1>1, <2>1, ExitKeeps
<1>5. CASE StopMachines
  <2>1. /\ ppc' = "getvbox" /\ ppc = "stop" /\ vm' \in {vm, "off"}
        /\ UNCHANGED <<halts, suspends, pc, gpc, tick, waited, answered, job, quiet, found, disk,
                       online, abandoned, kills, faults, published>>
    BY <1>5 DEF StopMachines, Goto
  <2>2. JobInv'
    BY <2>1, JobKeeps DEF JobStep, SessionInv, StartInv
  <2>3. TypeOK'
    BY <2>1, <2>2 DEF SessionInv, StartInv, TypeOK, JobInv
  <2>4. Polling' /\ Awake'
    BY <2>1 DEF SessionInv, StartInv, Polling, Awake, job
  <2>5. SessionTypeOK'
    BY <1>1, <2>1, <2>3 DEF SessionTypeOK, disk
  <2>6. Machine'
    BY <2>1 DEF SessionInv, Machine
  <2> QED
    BY <2>2, <2>3, <2>4, <2>5, <2>6 DEF SessionInv, StartInv
<1>6. CASE GetVbox
  <2>1. RunStep
    BY <1>1, <1>6 DEF GetVbox, Goto, RunStep, disk
  <2> QED
    BY <2>1, RunKeeps
<1>7. CASE Started
  <2>1. gpc = "ended" /\ answered /\ vm # "booting"
    BY <1>7 DEF Started, SessionInv, StartInv, JobInv, Job!ResultIsFirstError, Polling
  <2>2. RunStep
    BY <1>1, <1>7, <2>1 DEF Started, Goto, RunStep, disk
  <2> QED
    BY <2>2, RunKeeps
<1>8. CASE StartVM
  <2>1. ppc = "starting" /\ Caller /\ UNCHANGED session
    BY <1>8 DEF StartVM
  <2>2. StartInv'
    BY <2>1, StartSteps DEF SessionInv
  <2>3. SessionTypeOK'
    BY <1>1, <2>1, <2>2 DEF SessionTypeOK, StartInv, session, run, disk, bounds
  <2>4. Machine'
    BY <2>1 DEF Machine, session
  <2> QED
    BY <2>2, <2>3, <2>4 DEF SessionInv
<1> QED
  BY <1>3, <1>4, <1>5, <1>6, <1>7, <1>8 DEF Work

\* The poller and what goes on beside a run.
LEMMA BesideSteps ==
  ASSUME SessionInv, Poller \/ Environment
  PROVE  SessionInv'
<1>1. CASE Poller \/ ((Boot \/ Period \/ Suspend) /\ UNCHANGED session)
  <2>1. /\ Boot \/ Period \/ Suspend \/ Worker
        /\ UNCHANGED session
    BY <1>1 DEF Poller
  <2>2. StartInv'
    BY <2>1, StartSteps DEF SessionInv
  <2>3. SessionTypeOK'
    BY <2>1, <2>2 DEF SessionInv, SessionTypeOK, StartInv, session, run, disk, bounds
  <2>4. (vm' = vm \/ vm' = "up") /\ (answered' = answered \/ answered')
    <3>1. CASE Polled
      <4>1. vm' = vm /\ answered' = (answered \/ vm = "up")
        BY <3>1 DEF Polled, env
      <4>2. answered \in BOOLEAN
        BY DEF SessionInv, StartInv, TypeOK
      <4> QED
        BY <4>1, <4>2
    <3>2. CASE Boot \/ Period \/ Suspend \/ Poll \/ TimesOut \/ Return
      BY <3>2 DEF Boot, Period, Suspend, Poll, TimesOut, Return, env
    <3> QED
      BY <2>1, <3>1, <3>2 DEF Worker
  <2>5. Machine'
    BY <2>1, <2>4 DEF SessionInv, Machine, session, run
  <2> QED
    BY <2>2, <2>3, <2>5 DEF SessionInv
<1>2. CASE Halt /\ abandoned' = FALSE /\ UNCHANGED <<ppc, run, disk, online, bounds>>
  <2>1. StartInv'
    BY <1>2, StartSteps DEF SessionInv
  <2>2. SessionTypeOK'
    BY <1>2, <2>1 DEF SessionInv, SessionTypeOK, StartInv, run, disk, bounds
  <2>3. Machine'
    BY <1>2 DEF SessionInv, Machine, Halt, run
  <2> QED
    BY <2>1, <2>2, <2>3 DEF SessionInv
<1>3. CASE Publish \/ Outage
  <2>1. /\ UNCHANGED <<vars, ppc, quiet, found, files, registered, abandoned, kills, faults>>
        /\ zip' \in {zip, "none"} /\ online' \in {online, ~online}
        /\ published' = published \/ (published' = published + 1 /\ published < MaxPublished)
    BY <1>3 DEF Publish, Outage, run, disk, bounds
  <2>2. UNCHANGED <<vm, halts, suspends, pc, gpc, tick, waited, answered, job>>
    BY <2>1 DEF vars, env
  <2>3. JobInv'
    BY <2>2, JobKeeps DEF JobStep, SessionInv, StartInv
  <2>4. TypeOK'
    BY <2>2, <2>3 DEF SessionInv, StartInv, TypeOK, JobInv
  <2>5. Polling' /\ Awake'
    BY <2>2 DEF SessionInv, StartInv, Polling, Awake, job
  <2>6. published' \in 0 .. MaxPublished
    BY <2>1, SessionAssumption DEF SessionInv, SessionTypeOK
  <2>7. SessionTypeOK'
    BY <2>1, <2>4, <2>6 DEF SessionInv, SessionTypeOK
  <2>8. Machine'
    BY <2>1, <2>2 DEF SessionInv, Machine
  <2> QED
    BY <2>3, <2>4, <2>5, <2>7, <2>8 DEF SessionInv, StartInv
<1> QED
  BY <1>1, <1>2, <1>3 DEF Environment

\* The first run has nothing from an earlier one.
LEMMA SessionStarts == SessionInit => SessionInv
<1> SUFFICES ASSUME SessionInit PROVE SessionInv
  OBVIOUS
<1>1. Init /\ Job!Init
  BY DEF SessionInit, Init
<1>2. JobInv
  BY <1>1, TimeoutErrorAssumption
     DEF JobInv, Job!Init, Job!TypeOK, Job!NothingMissed, Job!ResultIsFirstError
<1>3. 0 \in 0 .. Timeout /\ 0 \in 0 .. MaxSuspends /\ 0 \in 0 .. MaxHalts
  BY TimeAssumption
<1>4. TypeOK
  BY <1>1, <1>2, <1>3 DEF Init, TypeOK, JobInv
<1>5. 0 \in 0 .. MaxKills /\ 0 \in 0 .. MaxFaults /\ 0 \in 0 .. MaxPublished
  BY SessionAssumption
<1>6. SessionTypeOK
  BY <1>4, <1>5 DEF SessionInit, SessionTypeOK
<1>7. Polling /\ Awake /\ Machine
  BY <1>1 DEF SessionInit, Init, Job!Init, Polling, Awake, Machine
<1> QED
  BY <1>2, <1>4, <1>6, <1>7 DEF SessionInv, StartInv

\* Every step of the session keeps the invariant.
LEMMA SessionSteps == SessionInv /\ [SessionNext]_allVars => SessionInv'
<1> SUFFICES ASSUME SessionInv, [SessionNext]_allVars PROVE SessionInv'
  OBVIOUS
<1>1. CASE StartRun
  <2>1. /\ ppc = "idle" /\ ppc' = "check" /\ quiet' \in BOOLEAN
        /\ UNCHANGED <<vars, found, disk, online, abandoned, bounds>>
    BY <1>1 DEF StartRun
  <2>2. RunStep
    BY <2>1 DEF RunStep, SessionInv, SessionTypeOK, disk, bounds
  <2> QED
    BY <2>2, RunKeeps
<1>2. CASE Kill
  <2>1. Exit(vm) /\ UNCHANGED disk /\ kills' \in 0 .. MaxKills /\ faults' \in 0 .. MaxFaults
    BY <1>2, SessionAssumption DEF Kill, SessionInv, SessionTypeOK
  <2> QED
    BY <2>1, ExitKeeps
<1>3. CASE Install \/ Work \/ Poller \/ Environment
  BY <1>3, InstallSteps, WorkSteps, BesideSteps
<1>4. CASE UNCHANGED allVars
  <2>1. /\ UNCHANGED <<vm, halts, suspends, pc, gpc, tick, waited, answered, job>>
        /\ UNCHANGED <<ppc, quiet, found, zip, files, registered, online, abandoned, kills, faults,
                       published>>
    BY <1>4 DEF allVars, vars, env, session, run, disk, bounds
  <2>2. JobInv'
    BY <2>1, JobKeeps DEF JobStep, SessionInv, StartInv
  <2>3. TypeOK'
    BY <2>1, <2>2 DEF SessionInv, StartInv, TypeOK, JobInv
  <2>4. Polling' /\ Awake' /\ Machine'
    BY <2>1 DEF SessionInv, StartInv, Polling, Awake, Machine, job
  <2>5. SessionTypeOK'
    BY <2>1, <2>3 DEF SessionInv, SessionTypeOK
  <2> QED
    BY <2>2, <2>3, <2>4, <2>5 DEF SessionInv, StartInv
<1> QED
  BY <1>1, <1>2, <1>3, <1>4 DEF SessionNext

-----------------------------------------------------------------------------
\* What a run may rely on.

\* The invariant of the session.
THEOREM SessionInvariant == SessionSpec => []SessionInv
  BY SessionStarts, SessionSteps, PTL DEF SessionSpec

\* The types of its variables.
THEOREM SessionType == SessionSpec => []SessionTypeOK
<1>1. SessionInv => SessionTypeOK
  BY DEF SessionInv
<1> QED
  BY <1>1, SessionInvariant, PTL

\* The steps after Prepare have a machine that answered this run or ran before it, and one
\* that still boots was left to them by an earlier run.
THEOREM MachineIsReady == SessionSpec => []ReadyMachine
<1>1. SessionInv => ReadyMachine
  BY DEF SessionInv, Machine, ReadyMachine
<1> QED
  BY <1>1, SessionInvariant, PTL

\* A host that is never suspended has no poller left behind by a startVM that returned.
THEOREM PollerIsGone == SessionSpec => []PollerEnds
<1>1. SessionInv => PollerEnds
  BY DEF SessionInv, StartInv, JobInv, Job!ResultIsFirstError, Polling, Awake, PollerEnds
<1> QED
  BY <1>1, SessionInvariant, PTL
=============================================================================
