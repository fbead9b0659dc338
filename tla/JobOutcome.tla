----------------------------- MODULE JobOutcome -----------------------------
(***************************************************************************)
(* What a background job promises to the goroutine that waits for it: one  *)
(* outcome, decided once, and never undone.  A success is announced only   *)
(* when the work is over; a failure may be announced while the work still  *)
(* goes on, which is what the code really offers (help.BackgroundJob has   *)
(* no way to stop its goroutine).                                          *)
(***************************************************************************)
CONSTANTS
    Error,      \* the errors a job can report
    NoError,    \* the nil error: success
    Pending     \* the job has no outcome yet

VARIABLES
    outcome,    \* what the waiter has been told
    live        \* does the job's goroutine still work?

ovars == <<outcome, live>>

Init == outcome = Pending /\ live = TRUE

\* The waiter is told an error the goroutine reported.
Fail(e) == /\ outcome = Pending
           /\ live
           /\ outcome' = e
           /\ UNCHANGED live

\* The goroutine returns; what it did before is final.
Finish == /\ live
          /\ live' = FALSE
          /\ UNCHANGED outcome

\* The waiter is told that the job succeeded.
Succeed == /\ outcome = Pending
           /\ ~live
           /\ outcome' = NoError
           /\ UNCHANGED live

Next == Finish \/ Succeed \/ \E e \in Error : Fail(e)

Spec == Init /\ [][Next]_ovars
=============================================================================
