---------------------------- MODULE CheckedWriter ----------------------------
(***************************************************************************)
(* What a caller of the Windows WriteToDisk may rely on, whose dd reports  *)
(* how it ended.  The answer ends the writing: no card changes after it.   *)
(* A nil answer means that the card selected last holds the whole image,   *)
(* or that no card was touched; an error means nothing about the cards,    *)
(* unlike that of DiskWriter.                                              *)
(***************************************************************************)
CONSTANTS Disk, NoDisk

VARIABLES
    content,   \* what is on each card: "old", "torn", "image" or "clean"
    target,    \* the card selected last
    reply      \* what the caller got: "pending", "nil" or "error"

cvars == <<content, target, reply>>

Init ==
    /\ content = [d \in Disk |-> "old"]
    /\ target = NoDisk
    /\ reply = "pending"

\* The user may select again while cards are written and cleaned.
Select(d) ==
    /\ reply = "pending"
    /\ target' = d
    /\ UNCHANGED <<content, reply>>

\* Progress on the selected card, and no other.
Overwrite ==
    /\ reply = "pending" /\ target # NoDisk
    /\ \E c \in {"torn", "image", "clean"} : content' = [content EXCEPT ![target] = c]
    /\ UNCHANGED <<target, reply>>

Fail ==
    /\ reply = "pending" /\ reply' = "error"
    /\ UNCHANGED <<content, target>>

Succeed ==
    /\ reply = "pending" /\ reply' = "nil"
    /\ \/ \A d \in Disk : content[d] = "old"
       \/ target # NoDisk /\ content[target] = "image"
    /\ UNCHANGED <<content, target>>

Next == (\E d \in Disk : Select(d)) \/ Overwrite \/ Fail \/ Succeed

Spec == Init /\ [][Next]_cvars
=============================================================================
