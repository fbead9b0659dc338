----------------------------- MODULE DiskWriter -----------------------------
(***************************************************************************)
(* What a caller of WorkStation.WriteToDisk, having waited for its job,    *)
(* may rely on.  At most one card is overwritten, after its user has       *)
(* agreed to a reader, though nothing says that the card was in it then;   *)
(* an error means that no card was touched and none will be; a nil answer  *)
(* means little: the card may hold the image, a part of it, or what it     *)
(* held before.                                                            *)
(***************************************************************************)
CONSTANTS Disk, NoDisk, Card, NoCard

VARIABLES
    content,   \* what is on each card: "old", "torn" or "image"
    target,    \* the reader the user agreed to
    card,      \* the card that is overwritten
    reply      \* what the caller got: "pending", "nil" or "error"

wvars == <<content, target, card, reply>>

Untouched == \A c \in Card : content[c] = "old"

Init ==
    /\ content = [c \in Card |-> "old"]
    /\ target = NoDisk /\ card = NoCard
    /\ reply = "pending"

\* The user names the reader, or confirms the one selected; once.
Agree(d) ==
    /\ reply = "pending" /\ target = NoDisk
    /\ target' = d
    /\ UNCHANGED <<content, card, reply>>

\* The writer begins with a card, and makes progress on it.
Overwrite(c) ==
    /\ reply = "pending" /\ target # NoDisk
    /\ card \in {NoCard, c} /\ card' = c
    /\ \E data \in {"torn", "image"} : content' = [content EXCEPT ![c] = data]
    /\ UNCHANGED <<target, reply>>

Refuse ==
    /\ reply = "pending" /\ Untouched
    /\ reply' = "error"
    /\ UNCHANGED <<content, target, card>>

Reply ==
    /\ reply = "pending"
    /\ reply' = "nil"
    /\ UNCHANGED <<content, target, card>>

Next == (\E d \in Disk : Agree(d)) \/ (\E c \in Card : Overwrite(c)) \/ Refuse \/ Reply

Spec == Init /\ [][Next]_wvars
=============================================================================
