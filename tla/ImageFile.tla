------------------------------ MODULE ImageFile ------------------------------
(***************************************************************************)
(* What DownloadImage promises about the file it downloads to, and what    *)
(* prepareImage relies on: the file only ever grows, and nobody writes to  *)
(* it once DownloadImage has returned, or has ended the run.  That it has  *)
(* returned does not mean that the file is whole.                          *)
(***************************************************************************)
VARIABLES
    content,  \* "none" for no file, "cut", "whole", or "bad" for as many bytes but wrong ones
    fetch     \* DownloadImage: "asking", "returned" or "failed"

\* What a download may make of a file, in one step or many.  A file of the right length is
\* taken for what it should be.
Got(c) == IF c \in {"bad", "whole"} THEN {c} ELSE {"cut", "bad", "whole"}

Init == content \in {"none", "cut", "bad", "whole"} /\ fetch = "asking"

Receive ==
    /\ fetch = "asking" /\ UNCHANGED fetch
    /\ content' \in Got(content)

Return ==
    /\ fetch = "asking" /\ fetch' = "returned"
    /\ content # "none" /\ UNCHANGED content

\* An error of the request, os.Exit or a panic, whatever has been downloaded.
Fail == fetch = "asking" /\ fetch' = "failed" /\ UNCHANGED content

Spec == Init /\ [][Receive \/ Return \/ Fail]_<<content, fetch>>
=============================================================================
