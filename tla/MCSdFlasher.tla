----------------------------- MODULE MCSdFlasher -----------------------------
(* Model-checking instances of SdFlasher: two runs, so that the second finds *)
(* what the first left in the machine; three loop devices are enough for the *)
(* two images and the second attachment of a Raspberry Pi image.             *)
EXTENDS SdFlasher

MCLoop == 0 .. 2
MCImage == 1 .. MaxRuns
Raspbian == <<"boot", "root">>
Debian == <<"root">>
DataFirst == <<"data", "root">>

Kind == {Raspbian, DataFirst, Debian}
=============================================================================
