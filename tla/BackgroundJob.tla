--------------------------- MODULE BackgroundJob ---------------------------
(***************************************************************************)
(* help.BackgroundJob: how a worker goroutine tells its caller about a     *)
(* long operation.  Two unbuffered channels, Progress and Err; the caller  *)
(* sits in WaitJobAndSpin.  A send on an unbuffered channel blocks the     *)
(* worker until the caller receives it, so a send is two steps here: the   *)
(* call, that parks the worker, and the rendezvous, that releases it.      *)
(*                                                                         *)
(* The worker is any goroutine of the program: it calls Active, Error and  *)
(* Close in the order it likes.  The modules of the concrete jobs (the     *)
(* disk writers, the copy out of the VM, the VM start) implement this one. *)
(***************************************************************************)
CONSTANTS
    Error,      \* the errors a worker can report
    NoError,    \* the nil error
    Pending     \* no outcome yet (see JobOutcome)

ASSUME ErrorAssumption == NoError \notin Error /\ Pending \notin Error \cup {NoError}

VARIABLES
    worker,     \* "running", parked in a send, or "closed"
    sending,    \* the value of the send the worker is parked in
    waiter,     \* the caller: not yet in WaitJobAndSpin, in its loop, out of it
    spinEn,     \* does the spinner turn?
    result,     \* what WaitJobAndSpin returned
    first       \* history: the first error given to BackgroundJob.Error

vars == <<worker, sending, waiter, spinEn, result, first>>

TypeOK ==
    /\ worker \in {"running", "sendProgress", "sendErr", "closed"}
    /\ sending \in BOOLEAN \cup Error
    /\ worker = "sendProgress" => sending \in BOOLEAN
    /\ worker = "sendErr" => sending \in Error
    /\ waiter \in {"away", "waiting", "returned"}
    /\ spinEn \in BOOLEAN
    /\ result \in Error \cup {NoError, Pending}
    /\ first \in Error \cup {NoError}

\* NewBackgroundJob, and the go statement that starts the worker.
Init ==
    /\ worker = "running"
    /\ sending = FALSE
    /\ waiter = "away"
    /\ spinEn = FALSE
    /\ result = Pending
    /\ first = NoError

-----------------------------------------------------------------------------
\* The worker's calls.

\* BackgroundJob.Active, and the sends of the password prompt of sudo.
CallActive(b) ==
    /\ worker = "running"
    /\ worker' = "sendProgress"
    /\ sending' = b
    /\ UNCHANGED <<waiter, spinEn, result, first>>

\* Faulty variant: Err is a buffered channel, so that Error does not wait.
BufferedError(e) ==
    /\ worker = "running"
    /\ first' = IF first = NoError THEN e ELSE first
    /\ UNCHANGED <<worker, sending, waiter, spinEn, result>>

\* BackgroundJob.Error.
CallError(e) ==
    /\ worker = "running"
    /\ worker' = "sendErr"
    /\ sending' = e
    /\ first' = IF first = NoError THEN e ELSE first
    /\ UNCHANGED <<waiter, spinEn, result>>

\* The deferred Close: the last thing the goroutine does.
CallClose ==
    /\ worker = "running"
    /\ worker' = "closed"
    /\ UNCHANGED <<sending, waiter, spinEn, result, first>>

-----------------------------------------------------------------------------
\* The caller's loop, WaitJobAndSpin; its ticker only redraws the spinner.

StartWait ==
    /\ waiter = "away"
    /\ waiter' = "waiting"
    /\ spinEn' = TRUE
    /\ UNCHANGED <<worker, sending, result, first>>

ReceiveProgress ==
    /\ waiter = "waiting"
    /\ worker = "sendProgress"
    /\ worker' = "running"
    /\ spinEn' = sending
    /\ UNCHANGED <<sending, waiter, result, first>>

ReceiveError ==
    /\ waiter = "waiting"
    /\ worker = "sendErr"
    /\ worker' = "running"
    /\ waiter' = "returned"
    /\ result' = sending
    /\ UNCHANGED <<sending, spinEn, first>>

\* Faulty variant: the caller leaves when the spinner stops, as if it was over.
LeaveWhenInactive ==
    /\ waiter = "waiting"
    /\ worker \in {"sendProgress", "closed"}
    /\ waiter' = "returned"
    /\ spinEn' = FALSE
    /\ result' = NoError
    /\ UNCHANGED <<worker, sending, first>>

\* A receive from the closed Progress yields (false, !ok).
ReceiveClosed ==
    /\ waiter = "waiting"
    /\ worker = "closed"
    /\ waiter' = "returned"
    /\ spinEn' = FALSE
    /\ result' = NoError
    /\ UNCHANGED <<worker, sending, first>>

Worker == CallClose \/ (\E b \in BOOLEAN : CallActive(b)) \/ (\E e \in Error : CallError(e))
Waiter == StartWait \/ ReceiveProgress \/ ReceiveError \/ ReceiveClosed

Next == Worker \/ Waiter

Spec == Init /\ [][Next]_vars

-----------------------------------------------------------------------------
\* What a caller may rely on.

\* WaitJobAndSpin returns the first error the worker reported, and nil only if
\* the worker has ended without reporting any: no error is lost to a race
\* between the Err channel and the close of Progress.
ResultIsFirstError ==
    waiter = "returned" => /\ result = first
                           /\ result = NoError => worker = "closed"

\* A caller that still waits has not missed an error: whatever was reported is
\* in the send the worker is parked in.
NothingMissed ==
    waiter # "returned" =>
        IF worker = "sendErr" THEN sending = first ELSE first = NoError

-----------------------------------------------------------------------------
\* The protocol implements the abstract job: the caller learns its outcome
\* once, and a success only after the goroutine's end.
Outcome == INSTANCE JobOutcome WITH
    outcome <- IF waiter = "returned" THEN result ELSE Pending,
    live <- worker # "closed"

ImplementsOutcome == Outcome!Spec
=============================================================================
