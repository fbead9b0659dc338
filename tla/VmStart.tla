------------------------------- MODULE VmStart -------------------------------
(***************************************************************************)
(* flasher.startVM: start the virtual machine and wait in a background job *)
(* until it answers over SSH.  The job's goroutine selects over a ticker   *)
(* and a timeout; the timeout is created anew by every select, while the   *)
(* ticker goes on.                                                         *)
(*                                                                         *)
(* Time passes in periods of the ticker (15 seconds).  A goroutine parked  *)
(* in a select takes what becomes ready first before the next period ends; *)
(* only a host that is suspended lets both become ready at once.           *)
(***************************************************************************)
EXTENDS Naturals

CONSTANTS
    Timeout,       \* 180 seconds in periods of the ticker
    TimeoutError,  \* "Cannot connect to vbox via ssh"
    MaxSuspends,   \* bound: how often the host is suspended
    MaxHalts       \* bound: how often the user halts the machine

\* A tick comes before the timeout.
ASSUME TimeAssumption ==
    /\ Timeout \in Nat /\ Timeout > 1
    /\ MaxSuspends \in Nat /\ MaxHalts \in Nat

ASSUME TimeoutErrorAssumption == TimeoutError \notin {"nil", "pending"}

VARIABLES
    vm,         \* the machine: "off", "booting", or "up" when it answers
    halts,      \* how often the user halted it
    pc,         \* startVM
    gpc,        \* the goroutine
    tick,       \* is a tick in the ticker's channel?
    waited,     \* periods since the timeout was created
    suspends,   \* how often the host was suspended
    answered,   \* history: has "whoami" been answered?
    worker, sending, waiter, spinEn, result, first   \* the job's channels

env == <<vm, halts, suspends>>
job == <<worker, sending, waiter, spinEn, result, first>>
vars == <<env, pc, gpc, tick, waited, answered, job>>

Job == INSTANCE BackgroundJob WITH Error <- {TimeoutError}, NoError <- "nil", Pending <- "pending"

TypeOK ==
    /\ vm \in {"off", "booting", "up"} /\ halts \in 0 .. MaxHalts
    /\ pc \in {"start", "wait", "ok", "failed"}
    /\ gpc \in {"none", "select", "ssh", "return", "ended"}
    /\ tick \in BOOLEAN /\ waited \in 0 .. Timeout
    /\ suspends \in 0 .. MaxSuspends /\ answered \in BOOLEAN
    /\ Job!TypeOK

Init ==
    /\ vm = "off" /\ halts = 0
    /\ pc = "start" /\ gpc = "none"
    /\ tick = FALSE /\ waited = 0 /\ suspends = 0
    /\ answered = FALSE
    /\ Job!Init

-----------------------------------------------------------------------------
\* The machine, its user, and the clock.

Boot ==
    /\ vm = "booting" /\ vm' = "up"
    /\ UNCHANGED <<halts, suspends, pc, gpc, tick, waited, answered, job>>

Halt ==
    /\ vm # "off" /\ vm' = "off"
    /\ halts < MaxHalts /\ halts' = halts + 1
    /\ UNCHANGED <<suspends, pc, gpc, tick, waited, answered, job>>

\* Is the goroutine parked in its select, or in a command?
Parked == worker = "running" /\ (gpc = "ssh" \/ (gpc = "select" /\ ~tick /\ waited < Timeout))

\* A tick nobody takes is dropped.
Period ==
    /\ Parked
    /\ tick' = TRUE
    /\ waited' = IF gpc = "select" THEN waited + 1 ELSE waited
    /\ UNCHANGED <<env, pc, gpc, answered, job>>

\* The host sleeps for longer than the timeout.
Suspend ==
    /\ Parked /\ gpc = "select"
    /\ suspends < MaxSuspends /\ suspends' = suspends + 1
    /\ tick' = TRUE /\ waited' = Timeout
    /\ UNCHANGED <<vm, halts, pc, gpc, answered, job>>

-----------------------------------------------------------------------------
\* startVM

StartFails ==
    /\ pc = "start" /\ pc' = "failed"
    /\ UNCHANGED <<env, gpc, tick, waited, answered, job>>

Start ==
    /\ pc = "start" /\ pc' = "wait"
    /\ vm' = "booting"
    /\ gpc' = "select"
    /\ Job!StartWait
    /\ UNCHANGED <<halts, suspends, tick, waited, answered>>

\* This job reports no progress.
Receive ==
    /\ Job!ReceiveError \/ Job!ReceiveClosed
    /\ UNCHANGED <<env, pc, gpc, tick, waited, answered>>

WaitReturns ==
    /\ pc = "wait" /\ waiter = "returned"
    /\ pc' = IF result = "nil" THEN "ok" ELSE "failed"
    /\ UNCHANGED <<env, gpc, tick, waited, answered, job>>

-----------------------------------------------------------------------------
\* The goroutine.

Step(from, to) == worker = "running" /\ gpc = from /\ gpc' = to

\* Faulty variant: a tick is taken for an answer.
PollIgnoresResult ==
    /\ Step("select", "return")
    /\ tick /\ tick' = FALSE
    /\ UNCHANGED <<env, pc, waited, answered, job>>

\* <-ticker.C, and the call of "whoami".
Poll ==
    /\ Step("select", "ssh")
    /\ tick /\ tick' = FALSE
    /\ UNCHANGED <<env, pc, waited, answered, job>>

\* Faulty variant: an answer that took longer than a period is discarded.
PollDiscardsLate ==
    /\ Step("ssh", IF vm = "up" /\ ~tick THEN "return" ELSE "select")
    /\ answered' = (answered \/ vm = "up")
    /\ waited' = 0
    /\ UNCHANGED <<env, pc, tick, job>>

\* Faulty variant: one timeout for all selects, which one would take for the
\* repair; nobody receives the second error it reports.
PollKeepsTimeout ==
    /\ Step("ssh", IF vm = "up" THEN "return" ELSE "select")
    /\ answered' = (answered \/ vm = "up")
    /\ UNCHANGED <<env, pc, tick, waited, job>>

\* "whoami" is answered or fails; the next select creates a new timeout.
Polled ==
    /\ Step("ssh", IF vm = "up" THEN "return" ELSE "select")
    /\ answered' = (answered \/ vm = "up")
    /\ waited' = 0
    /\ UNCHANGED <<env, pc, tick, job>>

\* <-time.After: an error is reported, and the loop goes on.
TimesOut ==
    /\ Step("select", "select")
    /\ waited >= Timeout /\ waited' = 0
    /\ Job!CallError(TimeoutError)
    /\ UNCHANGED <<env, pc, tick, answered>>

\* The deferred Close.
Return ==
    /\ Step("return", "ended")
    /\ Job!CallClose
    /\ UNCHANGED <<env, pc, tick, waited, answered>>

-----------------------------------------------------------------------------
Caller == StartFails \/ Start \/ Receive \/ WaitReturns
Worker == Poll \/ Polled \/ TimesOut \/ Return

\* The program goes on without this function; a poller may be left behind.
Terminated == pc \in {"ok", "failed"} /\ UNCHANGED vars

Next == Boot \/ Halt \/ Period \/ Suspend \/ Caller \/ Worker \/ Terminated

\* Both goroutines run, commands return and time passes; a machine need not boot.
Spec == Init /\ [][Next]_vars /\ WF_vars(Caller) /\ WF_vars(Worker) /\ WF_vars(Period)

-----------------------------------------------------------------------------
\* What Prepare may rely on.

\* When startVM has returned its goroutine has too, unless the host slept: none
\* is left parked in a send that nobody receives, and none polls the machine that
\* the run works with.
PollerEnds == pc \in {"ok", "failed"} /\ suspends = 0 => gpc \in {"none", "ended"}

\* flasher.go:127-128 reports "Cannot connect to vbox via ssh" after 180 seconds:
\* startVM comes to an end, with a machine that answers or one that does not.
StartGivesUp == <>(pc \in {"ok", "failed"})
=============================================================================
