---------------------------- MODULE ImageDownload ----------------------------
(***************************************************************************)
(* flasher.DownloadImage over HTTP: help.DownloadFromUrlWithAttemptsAsync. *)
(*                                                                         *)
(* Three goroutines run: the main one (pc), that asks the server and then  *)
(* waits; the downloader (dpc), that reads the response into the file; and *)
(* the collector (cpc), that counts bytes, judges errors, and whose end    *)
(* the main one waits for.  They share two buffered channels and the       *)
(* variable destinationFileNameFull, which the main goroutine sets and the *)
(* collector reads without synchronisation.                                *)
(*                                                                         *)
(* A file is its length in chunks; bytes are right when they arrive.       *)
(***************************************************************************)
EXTENDS Naturals

CONSTANTS Size,   \* chunks of the remote file
          Cap     \* capacity of readBytesChannel (10000 in the code)

ASSUME SizeAssumption == Size \in Nat \ {0} /\ Cap \in Nat \ {0}

VARIABLES
    exists, len,    \* the file in the repository directory, and its length
    mpc, named,      \* main goroutine; is destinationFileNameFull set?
    dpc,            \* downloader
    resuming,       \* does it resume an earlier download?
    chunk, rerr,    \* what its last Read returned
    cpc, seen,      \* collector; the file length it compares
    bytes, bytesOpen, bytesNil,   \* readBytesChannel; the collector's ch = nil
    errs, errsOpen, errsNil,      \* errorChan, of capacity one
    mishaps          \* history: what went wrong besides a broken connection

file == <<exists, len>>
main == <<mpc, named>>
down == <<dpc, resuming, chunk, rerr>>
coll == <<cpc, seen, bytesNil, errsNil>>
chans == <<bytes, bytesOpen, errs, errsOpen>>
downloadVars == <<file, main, down, coll, chans, mishaps>>

FileOK == exists \in BOOLEAN /\ len \in 0 .. Size

MainOK ==
    /\ mpc \in {"get", "check", "name", "wait", "ok", "failed", "exit"} /\ named \in BOOLEAN

DownloaderOK ==
    /\ dpc \in {"none", "length", "request", "read", "count", "report", "write", "failed",
                "close", "closeBytes", "ended"}
    /\ resuming \in BOOLEAN /\ chunk \in {0, 1} /\ rerr \in {"nil", "EOF", "broken"}

CollectorOK ==
    /\ cpc \in {"select", "stat", "compare", "ended"} /\ seen \in 0 .. Size
    /\ bytesNil \in BOOLEAN /\ errsNil \in BOOLEAN

ChannelsOK == bytes \in 0 .. Cap /\ errs \in {0, 1} /\ bytesOpen \in BOOLEAN /\ errsOpen \in BOOLEAN

DownloadTypeOK ==
    /\ FileOK /\ MainOK /\ DownloaderOK /\ CollectorOK /\ ChannelsOK
    /\ mishaps \subseteq {"length", "range", "disk", "panic"}

DownloadInit ==
    /\ exists \in BOOLEAN /\ len \in 0 .. Size
    /\ ~exists => len = 0
    /\ mpc = "get" /\ named = FALSE
    /\ dpc = "none" /\ resuming = FALSE /\ chunk = 0 /\ rerr = "nil"
    /\ cpc = "select" /\ seen = 0
    /\ bytes = 0 /\ bytesOpen = TRUE /\ bytesNil = FALSE
    /\ errs = 0 /\ errsOpen = TRUE /\ errsNil = FALSE
    /\ mishaps = {}

Running == mpc # "exit"

\* GetHTTPFileLength: the length, or 0 when the server does not answer; callers
\* ignore its error.
HTTPLength(l) ==
    \/ l = Size /\ UNCHANGED mishaps
    \/ l = 0 /\ mishaps' = mishaps \cup {"length"}

-----------------------------------------------------------------------------
\* The main goroutine.

CloseBoth == bytesOpen' = FALSE /\ errsOpen' = FALSE

\* client.Get
Get ==
    /\ mpc = "get"
    /\ \/ mpc' = "check" /\ UNCHANGED chans
       \/ mpc' = "failed" /\ CloseBoth /\ UNCHANGED <<bytes, errs>>
    /\ UNCHANGED <<file, named, down, coll, mishaps>>

\* A file of that name exists: resume its download if the server has more.
CheckExisting ==
    /\ mpc = "check" /\ exists
    /\ mpc' = "name"
    /\ \E l \in {Size, 0} :
          /\ HTTPLength(l)
          /\ IF l > len
             THEN dpc' = "length" /\ resuming' = TRUE /\ UNCHANGED chans
             ELSE /\ bytes' = 1 /\ CloseBoth
                  /\ UNCHANGED <<dpc, resuming, errs>>
    /\ UNCHANGED <<file, named, chunk, rerr, coll>>

\* Faulty variant: the channels are closed by the caller, as for a file that exists.
CreateCloses ==
    /\ mpc = "check" /\ ~exists
    /\ exists' = TRUE /\ mpc' = "name" /\ dpc' = "read" /\ CloseBoth
    /\ UNCHANGED <<len, named, resuming, chunk, rerr, coll, bytes, errs, mishaps>>

\* There is none: create it and read the response into it.
Create ==
    /\ mpc = "check" /\ ~exists
    /\ \/ /\ exists' = TRUE /\ mpc' = "name" /\ dpc' = "read"
          /\ UNCHANGED chans
       \/ /\ mpc' = "failed" /\ CloseBoth
          /\ UNCHANGED <<exists, dpc, bytes, errs>>
    /\ UNCHANGED <<len, named, resuming, chunk, rerr, coll, mishaps>>

\* destinationFileNameFull = ...
SetName ==
    /\ mpc = "name" /\ mpc' = "wait"
    /\ named' = TRUE
    /\ UNCHANGED <<file, down, coll, chans, mishaps>>

\* wg.Wait returns.
WaitReturns ==
    /\ mpc = "wait" /\ mpc' = "ok"
    /\ cpc = "ended"
    /\ UNCHANGED <<file, named, down, coll, chans, mishaps>>

-----------------------------------------------------------------------------
\* The downloader: the goroutine of DownloadFromUrlAsync, or resumeDownloadAsync.

\* GetFinalUrl and GetHTTPFileLength of the resumption; on an error it returns.
ResumeLength ==
    /\ dpc = "length"
    /\ \E l \in {Size, 0} : HTTPLength(l) /\ dpc' = IF l > 0 THEN "request" ELSE "close"
    /\ UNCHANGED <<file, main, resuming, chunk, rerr, coll, chans>>

\* The range request, after the length so far was counted.  A server that does
\* not know ranges ends the resumption without an error; one that does not
\* answer makes the program panic, resp.Body is deferred before err is checked.
ResumeRequest ==
    /\ dpc = "request"
    /\ bytes < Cap /\ bytes' = bytes + 1
    /\ \/ dpc' = "read" /\ UNCHANGED <<mpc, mishaps>>
       \/ dpc' = "close" /\ mishaps' = mishaps \cup {"range"} /\ UNCHANGED mpc
       \/ dpc' = "close" /\ mishaps' = mishaps \cup {"panic"} /\ mpc' = "exit"
    /\ UNCHANGED <<file, named, resuming, chunk, rerr, coll, bytesOpen, errs, errsOpen>>

\* Read of the response: bytes and no error, the end with or without bytes, or a
\* broken connection with or without bytes.
Read ==
    /\ dpc = "read" /\ dpc' = "count"
    /\ chunk' \in {0, 1} /\ len + chunk' <= Size
    /\ rerr' \in {"nil", "EOF", "broken"}
    /\ rerr' = "nil" => chunk' = 1
    /\ rerr' = "EOF" => len + chunk' = Size
    /\ UNCHANGED <<file, main, resuming, coll, chans, mishaps>>

\* Faulty variant: no error is sent to the collector.
CountOnly ==
    /\ dpc = "count"
    /\ bytes < Cap /\ bytes' = bytes + 1
    /\ dpc' = "write"
    /\ UNCHANGED <<file, main, resuming, chunk, rerr, coll, bytesOpen, errs, errsOpen, mishaps>>

\* The callback of HttpProxyReader, before io.Copy writes what was read.  Only
\* the resumption takes the end of the response for an error to report.
Count ==
    /\ dpc = "count"
    /\ bytes < Cap /\ bytes' = bytes + 1
    /\ dpc' = IF rerr = "broken" \/ (rerr = "EOF" /\ resuming) THEN "report" ELSE "write"
    /\ UNCHANGED <<file, main, resuming, chunk, rerr, coll, bytesOpen, errs, errsOpen, mishaps>>

Report ==
    /\ dpc = "report" /\ dpc' = "write"
    /\ errs = 0 /\ errs' = 1
    /\ UNCHANGED <<file, main, resuming, chunk, rerr, coll, bytes, bytesOpen, errsOpen, mishaps>>

\* io.Copy writes and goes on, unless Read or Write failed; a resumption only
\* logs that.
AfterCopy(err) ==
    IF err THEN (IF resuming THEN "close" ELSE "failed")
    ELSE IF rerr = "EOF" THEN "close" ELSE "read"

Write ==
    /\ dpc = "write"
    /\ \/ len' = len + chunk /\ dpc' = AfterCopy(rerr = "broken") /\ UNCHANGED mishaps
       \/ chunk = 1 /\ UNCHANGED len /\ dpc' = AfterCopy(TRUE) /\ mishaps' = mishaps \cup {"disk"}
    /\ UNCHANGED <<exists, main, resuming, chunk, rerr, coll, chans>>

\* The error of io.Copy, the same a second time when Read has failed.
ReportCopy ==
    /\ dpc = "failed" /\ dpc' = "close"
    /\ errs = 0 /\ errs' = 1
    /\ UNCHANGED <<file, main, resuming, chunk, rerr, coll, bytes, bytesOpen, errsOpen, mishaps>>

CloseErrs ==
    /\ dpc = "close" /\ dpc' = "closeBytes"
    /\ errsOpen' = FALSE
    /\ UNCHANGED <<file, main, resuming, chunk, rerr, coll, bytes, bytesOpen, errs, mishaps>>

CloseBytes ==
    /\ dpc = "closeBytes" /\ dpc' = "ended"
    /\ bytesOpen' = FALSE
    /\ UNCHANGED <<file, main, resuming, chunk, rerr, coll, bytes, errs, errsOpen, mishaps>>

-----------------------------------------------------------------------------
\* The collector.

\* The end of an iteration: both channels are closed and drained, or go on.
Again(bnil, enil) == IF bnil /\ enil THEN "ended" ELSE "select"

ReceiveBytes ==
    /\ cpc = "select" /\ ~bytesNil
    /\ \/ bytes > 0 /\ bytes' = bytes - 1 /\ UNCHANGED bytesNil
       \/ bytes = 0 /\ ~bytesOpen /\ bytesNil' = TRUE /\ UNCHANGED bytes
    /\ cpc' = Again(bytesNil', errsNil)
    /\ UNCHANGED <<file, main, down, seen, errsNil, bytesOpen, errs, errsOpen, mishaps>>

\* Faulty variant: a closed channel stays in the select, and is never given up.
ReceiveErrorStays ==
    /\ cpc = "select" /\ ~errsNil
    /\ \/ errs = 1 /\ errs' = 0 /\ cpc' = "stat"
       \/ errs = 0 /\ ~errsOpen /\ cpc' = "select" /\ UNCHANGED errs
    /\ UNCHANGED <<file, main, down, seen, bytesNil, errsNil, bytes, bytesOpen, errsOpen, mishaps>>

ReceiveError ==
    /\ cpc = "select" /\ ~errsNil
    /\ \/ errs = 1 /\ errs' = 0 /\ cpc' = "stat" /\ UNCHANGED errsNil
       \/ errs = 0 /\ ~errsOpen /\ errsNil' = TRUE /\ cpc' = Again(bytesNil, TRUE) /\ UNCHANGED errs
    /\ UNCHANGED <<file, main, down, seen, bytesNil, bytes, bytesOpen, errsOpen, mishaps>>

\* GetFileLength(*filename), which is 0 for a name not yet set.
StatFile ==
    /\ cpc = "stat" /\ cpc' = "compare"
    /\ seen' = IF named THEN len ELSE 0
    /\ UNCHANGED <<file, main, down, bytesNil, errsNil, chans, mishaps>>

\* os.Exit unless the file is as long as the server says.
CompareLength ==
    /\ cpc = "compare" /\ cpc' = Again(bytesNil, errsNil)
    /\ \E l \in {Size, 0} : HTTPLength(l) /\ mpc' = IF seen = l THEN mpc ELSE "exit"
    /\ UNCHANGED <<file, named, down, seen, bytesNil, errsNil, chans>>

-----------------------------------------------------------------------------
Main == Get \/ CheckExisting \/ Create \/ SetName \/ WaitReturns
Downloader == \/ ResumeLength \/ ResumeRequest \/ Read \/ Count \/ Report \/ Write
              \/ ReportCopy \/ CloseErrs \/ CloseBytes
Collector == ReceiveBytes \/ ReceiveError \/ StatFile \/ CompareLength

\* An error ends the program, an exit and a panic do at once.
DownloadTerminated ==
    /\ mpc = "exit" \/ (mpc \in {"ok", "failed"} /\ cpc = "ended")
    /\ UNCHANGED downloadVars

DownloadNext == (Running /\ (Main \/ Downloader \/ Collector)) \/ DownloadTerminated

\* The three goroutines are scheduled, and every read returns in the end.
DownloadSpec ==
    /\ DownloadInit /\ [][DownloadNext]_downloadVars
    /\ WF_downloadVars(Running /\ Main)
    /\ WF_downloadVars(Running /\ Downloader)
    /\ WF_downloadVars(Running /\ Collector)

-----------------------------------------------------------------------------
\* What DownloadImage and its user may rely on.

\* When DownloadImage returns a file nobody writes to it any more: the goroutine
\* that does has closed its channels after its last write.
QuietWhenReturned == mpc = "ok" => dpc \in {"none", "ended"}

\* A connection that breaks is never taken for the end of the file, unless
\* something else fails too: the server does not tell the length or knows no
\* ranges, or the disk is full.
ShortFileNeedsFault == mpc = "ok" /\ len < Size => mishaps # {}

\* The file on its way: it never shrinks, and is left alone when DownloadImage has returned
\* or ended the program, whichever of the three goroutines is where then.
FileContent == CASE ~exists -> "none" [] exists /\ len = Size -> "whole" [] OTHER -> "cut"

Fetching == CASE mpc = "ok" -> "returned" [] mpc \in {"failed", "exit"} -> "failed"
              [] OTHER -> "asking"

Fetch == INSTANCE ImageFile WITH content <- FileContent, fetch <- Fetching

ImplementsFile == Fetch!Spec

\* The program comes to an end of the download: no order of sends, closes and
\* receives leaves the collector and the waiting main goroutine behind.
DownloadEnds == <>(mpc \in {"ok", "failed", "exit"})
=============================================================================
