----------------------------- MODULE ImageProofs -----------------------------
(***************************************************************************)
(* What happens to an image before it is written: which version of the     *)
(* mapping finds it (DeviceRepo), its download (ImageDownload), its        *)
(* unpacking in the machine (ImagePrep) and the answers written into it    *)
(* (Configurator).  Each part has an invariant of its own, and holds for   *)
(* every value of its constants: any number of runs and retries, any file, *)
(* any capacity of a channel, any number of versions and of tries.         *)
(***************************************************************************)
EXTENDS ImagePrep, ImageDownload, DeviceRepo, Configurator, SequenceTheorems, TLAPS

-----------------------------------------------------------------------------
\* The preparation: PrepInv says what the image rests on at each line of a run before it
\* is handed over.

Early == {"download", "verify", "upload", "extract"}

\* A local file has no hash, and nothing is handed over before the end of a run.
Given ==
    /\ local => ~hash
    /\ pc # "ended" => handed = "nothing"

\* With a known hash, what is uploaded has been compared.
Verified == OnlyVerifiedIsUploaded /\ (hash /\ pc = "upload" => host = "whole")

Unpacking == {"unpack", "crc", "unzip", "ls", "use"}

\* From the removal of the old images on none of them is there to be used, also
\* not in a retry, which keeps d.img.
Removed ==
    format # "img" =>
        /\ pc = "unpack" => img = "none" \/ "rm" \in faults
        /\ pc \in Unpacking \/ (dimg /\ pc \in Early) => img # "used" \/ "rm" \in faults

Excuse == faults # {} \/ retries > 0 \/ badLength

\* A damaged image stays only where the run has noted a reason for it.
Extracted ==
    format # "img" /\ hash =>
        /\ pc \in {"ls", "use"} => img # "cut" \/ Excuse
        /\ pc = "unzip" => badLength
        /\ dimg /\ pc \in Early => retries > 0

\* A plain image that is not the one uploaded in this run was taken as it was.
Plain ==
    format = "img" =>
        /\ pc \notin {"rm", "zip", "unpack", "crc", "unzip", "ls"}
        /\ pc \in {"extract", "use"} /\ (arch = "used" \/ (hash /\ arch # "whole")) => TakenAsItWas

PrepInv ==
    /\ TypeOK /\ Given /\ Verified /\ Removed /\ Extracted /\ Plain
    /\ UsedImageNeedsFault /\ CutImageNeedsFault

-----------------------------------------------------------------------------
LEMMA PrepInit ==
  ASSUME Init
  PROVE  PrepInv
<1>1. run \in 0 .. MaxRuns /\ retries \in 0 .. MaxRetries
  BY PrepAssumption DEF Init
<1>2. TypeOK
  BY <1>1 DEF Init, TypeOK, FilesOK, RunOK
<1> QED
  BY <1>2 DEF Init, PrepInv, Given, Verified, Removed, Extracted, Plain, Excuse, OnlyVerifiedIsUploaded,
    UsedImageNeedsFault, CutImageNeedsFault, TakenAsItWas, Early, Unpacking

-----------------------------------------------------------------------------
LEMMA PrepStep ==
  ASSUME PrepInv, [Next]_vars
  PROVE  PrepInv'
<1> USE PrepAssumption DEF choice, files, history, Goto, Fail
<1>1. FilesOK'
  <2> USE DEF PrepInv, TypeOK, FilesOK
  <2>1. CASE StartRun
    BY <2>1 DEF StartRun
  <2>2. CASE Kill
    BY <2>2 DEF Kill, Fetched, File!Got
  <2>3. CASE Poweroff
    BY <2>3 DEF Poweroff
  <2>4. CASE DownloadImage
    BY <2>4 DEF DownloadImage, Fetched, File!Got
  <2>5. CASE VerifyHash
    BY <2>5 DEF VerifyHash
  <2>6. CASE UploadImage
    BY <2>6 DEF UploadImage
  <2>7. CASE ExtractImage
    BY <2>7 DEF ExtractImage
  <2>8. CASE LookIntoZip
    BY <2>8 DEF LookIntoZip
  <2>9. CASE RemoveImages
    BY <2>9 DEF RemoveImages
  <2>10. CASE UnpackDone
    BY <2>10 DEF UnpackDone, Unpacked
  <2>11. CASE UnpackFails
    BY <2>11 DEF UnpackFails, Unpacked
  <2>12. CASE RetryCRC
    BY <2>12 DEF RetryCRC
  <2>13. CASE GiveUpCRC
    BY <2>13 DEF GiveUpCRC
  <2>14. CASE UnzipOnHost
    BY <2>14 DEF UnzipOnHost
  <2>15. CASE ListTmp
    BY <2>15 DEF ListTmp
  <2>16. CASE Use
    BY <2>16 DEF Use
  <2>17. CASE Terminated \/ UNCHANGED vars
    BY <2>17 DEF Terminated, vars
  <2> QED
    BY <2>1, <2>2, <2>3, <2>4, <2>5, <2>6, <2>7, <2>8, <2>9,
       <2>10, <2>11, <2>12, <2>13, <2>14, <2>15, <2>16, <2>17 DEF Next, Prepare
<1>2. RunOK'
  <2> USE DEF PrepInv, TypeOK, RunOK
  <2>1. CASE StartRun
    <3>1. run' \in 0 .. MaxRuns /\ retries' \in 0 .. MaxRetries
      BY <2>1 DEF StartRun
    <3> QED
      BY <2>1, <3>1 DEF StartRun
  <2>2. CASE Kill
    BY <2>2 DEF Kill, Fetched, File!Got
  <2>3. CASE Poweroff
    BY <2>3 DEF Poweroff
  <2>4. CASE DownloadImage
    BY <2>4 DEF DownloadImage, Fetched, File!Got
  <2>5. CASE VerifyHash
    BY <2>5 DEF VerifyHash
  <2>6. CASE UploadImage
    BY <2>6 DEF UploadImage
  <2>7. CASE ExtractImage
    BY <2>7 DEF ExtractImage
  <2>8. CASE LookIntoZip
    BY <2>8 DEF LookIntoZip
  <2>9. CASE RemoveImages
    BY <2>9 DEF RemoveImages
  <2>10. CASE UnpackDone
    BY <2>10 DEF UnpackDone, Unpacked
  <2>11. CASE UnpackFails
    BY <2>11 DEF UnpackFails, Unpacked
  <2>12. CASE RetryCRC
    BY <2>12 DEF RetryCRC
  <2>13. CASE GiveUpCRC
    BY <2>13 DEF GiveUpCRC
  <2>14. CASE UnzipOnHost
    BY <2>14 DEF UnzipOnHost
  <2>15. CASE ListTmp
    BY <2>15 DEF ListTmp
  <2>16. CASE Use
    BY <2>16 DEF Use, FilesOK
  <2>17. CASE Terminated \/ UNCHANGED vars
    BY <2>17 DEF Terminated, vars
  <2> QED
    BY <2>1, <2>2, <2>3, <2>4, <2>5, <2>6, <2>7, <2>8, <2>9,
       <2>10, <2>11, <2>12, <2>13, <2>14, <2>15, <2>16, <2>17 DEF Next, Prepare
<1>3. faults' \subseteq {"rm", "status", "scp"}
  <2> USE DEF PrepInv, TypeOK
  <2>1. CASE StartRun
    BY <2>1 DEF StartRun
  <2>2. CASE Kill
    BY <2>2 DEF Kill, Fetched, File!Got
  <2>3. CASE Poweroff
    BY <2>3 DEF Poweroff
  <2>4. CASE DownloadImage
    BY <2>4 DEF DownloadImage, Fetched, File!Got
  <2>5. CASE VerifyHash
    BY <2>5 DEF VerifyHash
  <2>6. CASE UploadImage
    BY <2>6 DEF UploadImage
  <2>7. CASE ExtractImage
    BY <2>7 DEF ExtractImage
  <2>8. CASE LookIntoZip
    BY <2>8 DEF LookIntoZip
  <2>9. CASE RemoveImages
    BY <2>9 DEF RemoveImages
  <2>10. CASE UnpackDone
    BY <2>10 DEF UnpackDone, Unpacked
  <2>11. CASE UnpackFails
    BY <2>11 DEF UnpackFails, Unpacked
  <2>12. CASE RetryCRC
    BY <2>12 DEF RetryCRC
  <2>13. CASE GiveUpCRC
    BY <2>13 DEF GiveUpCRC
  <2>14. CASE UnzipOnHost
    BY <2>14 DEF UnzipOnHost
  <2>15. CASE ListTmp
    BY <2>15 DEF ListTmp
  <2>16. CASE Use
    BY <2>16 DEF Use
  <2>17. CASE Terminated \/ UNCHANGED vars
    BY <2>17 DEF Terminated, vars
  <2> QED
    BY <2>1, <2>2, <2>3, <2>4, <2>5, <2>6, <2>7, <2>8, <2>9,
       <2>10, <2>11, <2>12, <2>13, <2>14, <2>15, <2>16, <2>17 DEF Next, Prepare
<1>4. (Given /\ Verified)'
  <2> USE DEF PrepInv, TypeOK, FilesOK, RunOK, Given, Verified, OnlyVerifiedIsUploaded
  <2>1. CASE StartRun
    BY <2>1 DEF StartRun
  <2>2. CASE Kill
    BY <2>2 DEF Kill, Fetched, File!Got
  <2>3. CASE Poweroff
    BY <2>3 DEF Poweroff
  <2>4. CASE DownloadImage
    BY <2>4 DEF DownloadImage, Fetched, File!Got
  <2>5. CASE VerifyHash
    BY <2>5 DEF VerifyHash
  <2>6. CASE UploadImage
    BY <2>6 DEF UploadImage
  <2>7. CASE ExtractImage
    BY <2>7 DEF ExtractImage
  <2>8. CASE LookIntoZip
    BY <2>8 DEF LookIntoZip
  <2>9. CASE RemoveImages
    BY <2>9 DEF RemoveImages
  <2>10. CASE UnpackDone
    BY <2>10 DEF UnpackDone, Unpacked
  <2>11. CASE UnpackFails
    BY <2>11 DEF UnpackFails, Unpacked
  <2>12. CASE RetryCRC
    BY <2>12 DEF RetryCRC
  <2>13. CASE GiveUpCRC
    BY <2>13 DEF GiveUpCRC
  <2>14. CASE UnzipOnHost
    BY <2>14 DEF UnzipOnHost
  <2>15. CASE ListTmp
    BY <2>15 DEF ListTmp
  <2>16. CASE Use
    BY <2>16 DEF Use
  <2>17. CASE Terminated \/ UNCHANGED vars
    BY <2>17 DEF Terminated, vars
  <2> QED
    BY <2>1, <2>2, <2>3, <2>4, <2>5, <2>6, <2>7, <2>8, <2>9,
       <2>10, <2>11, <2>12, <2>13, <2>14, <2>15, <2>16, <2>17 DEF Next, Prepare
<1>5. (Removed /\ UsedImageNeedsFault)'
  <2> USE DEF PrepInv, TypeOK, FilesOK, RunOK, Given, Removed, Plain, TakenAsItWas,
              UsedImageNeedsFault, Early, Unpacking
  <2>1. CASE StartRun
    BY <2>1 DEF StartRun
  <2>2. CASE Kill
    BY <2>2 DEF Kill, Fetched, File!Got
  <2>3. CASE Poweroff
    BY <2>3 DEF Poweroff
  <2>4. CASE DownloadImage
    BY <2>4 DEF DownloadImage, Fetched, File!Got
  <2>5. CASE VerifyHash
    BY <2>5 DEF VerifyHash
  <2>6. CASE UploadImage
    BY <2>6 DEF UploadImage
  <2>7. CASE ExtractImage
    BY <2>7 DEF ExtractImage
  <2>8. CASE LookIntoZip
    BY <2>8 DEF LookIntoZip
  <2>9. CASE RemoveImages
    BY <2>9 DEF RemoveImages
  <2>10. CASE UnpackDone
    BY <2>10 DEF UnpackDone, Unpacked
  <2>11. CASE UnpackFails
    BY <2>11 DEF UnpackFails, Unpacked
  <2>12. CASE RetryCRC
    BY <2>12 DEF RetryCRC
  <2>13. CASE GiveUpCRC
    BY <2>13 DEF GiveUpCRC
  <2>14. CASE UnzipOnHost
    BY <2>14 DEF UnzipOnHost
  <2>15. CASE ListTmp
    BY <2>15 DEF ListTmp
  <2>16. CASE Use
    BY <2>16 DEF Use
  <2>17. CASE Terminated \/ UNCHANGED vars
    BY <2>17 DEF Terminated, vars
  <2> QED
    BY <2>1, <2>2, <2>3, <2>4, <2>5, <2>6, <2>7, <2>8, <2>9,
       <2>10, <2>11, <2>12, <2>13, <2>14, <2>15, <2>16, <2>17 DEF Next, Prepare
<1>6. (Extracted /\ CutImageNeedsFault)'
  <2> USE DEF PrepInv, TypeOK, FilesOK, RunOK, Given, Verified, OnlyVerifiedIsUploaded, Removed,
              Extracted, Plain, TakenAsItWas, Excuse, CutImageNeedsFault, Early, Unpacking
  <2>1. CASE StartRun
    BY <2>1 DEF StartRun
  <2>2. CASE Kill
    BY <2>2 DEF Kill, Fetched, File!Got
  <2>3. CASE Poweroff
    BY <2>3 DEF Poweroff
  <2>4. CASE DownloadImage
    BY <2>4 DEF DownloadImage, Fetched, File!Got
  <2>5. CASE VerifyHash
    BY <2>5 DEF VerifyHash
  <2>6. CASE UploadImage
    BY <2>6 DEF UploadImage
  <2>7. CASE ExtractImage
    BY <2>7 DEF ExtractImage
  <2>8. CASE LookIntoZip
    BY <2>8 DEF LookIntoZip
  <2>9. CASE RemoveImages
    BY <2>9 DEF RemoveImages
  <2>10. CASE UnpackDone
    BY <2>10 DEF UnpackDone, Unpacked
  <2>11. CASE UnpackFails
    BY <2>11 DEF UnpackFails, Unpacked
  <2>12. CASE RetryCRC
    BY <2>12 DEF RetryCRC
  <2>13. CASE GiveUpCRC
    BY <2>13 DEF GiveUpCRC
  <2>14. CASE UnzipOnHost
    BY <2>14 DEF UnzipOnHost
  <2>15. CASE ListTmp
    BY <2>15 DEF ListTmp
  <2>16. CASE Use
    BY <2>16 DEF Use
  <2>17. CASE Terminated \/ UNCHANGED vars
    BY <2>17 DEF Terminated, vars
  <2> QED
    BY <2>1, <2>2, <2>3, <2>4, <2>5, <2>6, <2>7, <2>8, <2>9,
       <2>10, <2>11, <2>12, <2>13, <2>14, <2>15, <2>16, <2>17 DEF Next, Prepare
<1>7. Plain'
  <2> USE DEF PrepInv, TypeOK, FilesOK, RunOK, Given, Verified, OnlyVerifiedIsUploaded, Plain,
              TakenAsItWas
  <2>1. CASE StartRun
    BY <2>1 DEF StartRun
  <2>2. CASE Kill
    BY <2>2 DEF Kill, Fetched, File!Got
  <2>3. CASE Poweroff
    BY <2>3 DEF Poweroff
  <2>4. CASE DownloadImage
    BY <2>4 DEF DownloadImage, Fetched, File!Got
  <2>5. CASE VerifyHash
    BY <2>5 DEF VerifyHash
  <2>6. CASE UploadImage
    BY <2>6 DEF UploadImage
  <2>7. CASE ExtractImage
    BY <2>7 DEF ExtractImage
  <2>8. CASE LookIntoZip
    BY <2>8 DEF LookIntoZip
  <2>9. CASE RemoveImages
    BY <2>9 DEF RemoveImages
  <2>10. CASE UnpackDone
    BY <2>10 DEF UnpackDone, Unpacked
  <2>11. CASE UnpackFails
    BY <2>11 DEF UnpackFails, Unpacked
  <2>12. CASE RetryCRC
    BY <2>12 DEF RetryCRC
  <2>13. CASE GiveUpCRC
    BY <2>13 DEF GiveUpCRC
  <2>14. CASE UnzipOnHost
    BY <2>14 DEF UnzipOnHost
  <2>15. CASE ListTmp
    BY <2>15 DEF ListTmp
  <2>16. CASE Use
    BY <2>16 DEF Use
  <2>17. CASE Terminated \/ UNCHANGED vars
    BY <2>17 DEF Terminated, vars
  <2> QED
    BY <2>1, <2>2, <2>3, <2>4, <2>5, <2>6, <2>7, <2>8, <2>9,
       <2>10, <2>11, <2>12, <2>13, <2>14, <2>15, <2>16, <2>17 DEF Next, Prepare
<1> QED
  BY <1>1, <1>2, <1>3, <1>4, <1>5, <1>6, <1>7 DEF PrepInv, TypeOK

\* PrepInv holds in every state.
THEOREM PrepInvariant == Spec => []PrepInv
<1>1. Init => PrepInv
  BY PrepInit
<1>2. PrepInv /\ [Next]_vars => PrepInv'
  BY PrepStep
<1> QED
  BY <1>1, <1>2, PTL DEF Spec

\* Every variable keeps its type, whatever a run finds on the host and in the machine.
THEOREM PrepType == Spec => []TypeOK
<1>1. PrepInv => TypeOK
  BY DEF PrepInv
<1> QED
  BY <1>1, PrepInvariant, PTL

\* prepareImage: with a known hash, wrong bytes never reach the machine, for any number
\* of runs that were killed and of downloads that were damaged.
THEOREM VerifiedIsUploaded == Spec => []OnlyVerifiedIsUploaded
<1>1. PrepInv => OnlyVerifiedIsUploaded
  BY DEF PrepInv, Verified
<1> QED
  BY <1>1, PrepInvariant, PTL

\* prepareImage: an image that an earlier run has configured is configured again only if the
\* removal of the old images failed unseen, or if it is a plain one, which nothing removes,
\* and this run took the file in the machine for it.
THEOREM UsedIsRemoved == Spec => []UsedImageNeedsFault
<1>1. PrepInv => UsedImageNeedsFault
  BY DEF PrepInv
<1> QED
  BY <1>1, PrepInvariant, PTL

\* prepareImage: with a known hash, a damaged image is handed over only after a command that
\* failed unseen, a retry, or a length that unzip could not read, or if it is a plain one
\* and this run took the file in the machine for it.
THEOREM CutIsExcused == Spec => []CutImageNeedsFault
<1>1. PrepInv => CutImageNeedsFault
  BY DEF PrepInv
<1> QED
  BY <1>1, PrepInvariant, PTL

-----------------------------------------------------------------------------
\* The download: DownloadInv follows an error from the response, which the downloader has
\* seen, over errorChan to the collector, which ends the program.

\* The channels are closed by the one goroutine that uses them, after its last send, and the
\* collector gives up no channel before that.
Closing ==
    /\ mpc \in {"get", "check"} => dpc = "none" /\ bytesOpen /\ errsOpen
    /\ mpc = "failed" => dpc = "none"
    /\ ~bytesOpen => dpc \in {"none", "ended"}
    /\ ~errsOpen => dpc \in {"none", "closeBytes", "ended"}
    /\ bytesNil => ~bytesOpen
    /\ errsNil => errs = 0 /\ ~errsOpen
    /\ cpc = "ended" => bytesNil /\ errsNil
    /\ mpc = "ok" => cpc = "ended"

\* What has been read fits into the file; the collector never sees more than there is.
Reading ==
    /\ dpc \in {"count", "report", "write"} =>
           /\ len + chunk <= Size
           /\ rerr = "EOF" => len + chunk = Size
    /\ cpc = "compare" => seen <= len

\* A broken connection is on its way to the collector, unless the file is whole.
Told == errs = 1 \/ cpc \in {"stat", "compare"} \/ len = Size

Reported ==
    mishaps = {} /\ mpc # "exit" =>
        /\ dpc = "none" /\ mpc \in {"name", "wait", "ok"} => len = Size
        /\ dpc = "write" /\ rerr = "broken" => Told
        /\ dpc \in {"failed", "close", "closeBytes", "ended"} => Told

DownloadInv == DownloadTypeOK /\ Closing /\ Reading /\ Reported

-----------------------------------------------------------------------------
LEMMA DownloadStarts ==
  ASSUME DownloadInit
  PROVE  DownloadInv
<1>1. len \in 0 .. Size /\ seen \in 0 .. Size /\ bytes \in 0 .. Cap
  BY SizeAssumption DEF DownloadInit
<1>2. DownloadTypeOK
  BY <1>1 DEF DownloadInit, DownloadTypeOK, FileOK, MainOK, DownloaderOK, CollectorOK, ChannelsOK
<1> QED
  BY <1>2 DEF DownloadInit, DownloadInv, Closing, Reading, Reported

-----------------------------------------------------------------------------
\* A file that exists is resumed unless it is as long as the server says.
LEMMA ExistingIsWhole ==
  ASSUME DownloadInv, CheckExisting
  PROVE  /\ dpc' \in {"none", "length"} /\ mpc' = "name"
         /\ mishaps' = {} /\ dpc' = "none" => len' = Size
<1>1. dpc = "none" /\ mpc' = "name"
  BY DEF CheckExisting, DownloadInv, Closing
<1> QED
  BY <1>1, SizeAssumption DEF CheckExisting, HTTPLength, DownloadInv, DownloadTypeOK, FileOK, file

LEMMA DownloadStep ==
  ASSUME DownloadInv, [DownloadNext]_downloadVars
  PROVE  DownloadInv'
<1> USE SizeAssumption DEF file, main, down, coll, chans
<1>1. FileOK'
  <2> USE DEF DownloadInv, DownloadTypeOK, FileOK
  <2>1. CASE Running /\ Get
    BY <2>1 DEF Running, Get, CloseBoth
  <2>2. CASE Running /\ CheckExisting
    BY <2>2 DEF Running, CheckExisting, CloseBoth, HTTPLength
  <2>3. CASE Running /\ Create
    BY <2>3 DEF Running, Create, CloseBoth
  <2>4. CASE Running /\ SetName
    BY <2>4 DEF Running, SetName
  <2>5. CASE Running /\ WaitReturns
    BY <2>5 DEF Running, WaitReturns
  <2>6. CASE Running /\ ResumeLength
    BY <2>6 DEF Running, ResumeLength, HTTPLength
  <2>7. CASE Running /\ ResumeRequest
    BY <2>7 DEF Running, ResumeRequest
  <2>8. CASE Running /\ Read
    BY <2>8 DEF Running, Read
  <2>9. CASE Running /\ Count
    BY <2>9 DEF Running, Count
  <2>10. CASE Running /\ Report
    BY <2>10 DEF Running, Report
  <2>11. CASE Running /\ Write
    BY <2>11 DEF Running, Write, AfterCopy, DownloaderOK, Reading
  <2>12. CASE Running /\ ReportCopy
    BY <2>12 DEF Running, ReportCopy
  <2>13. CASE Running /\ CloseErrs
    BY <2>13 DEF Running, CloseErrs
  <2>14. CASE Running /\ CloseBytes
    BY <2>14 DEF Running, CloseBytes
  <2>15. CASE Running /\ ReceiveBytes
    BY <2>15 DEF Running, ReceiveBytes, Again
  <2>16. CASE Running /\ ReceiveError
    BY <2>16 DEF Running, ReceiveError, Again
  <2>17. CASE Running /\ StatFile
    BY <2>17 DEF Running, StatFile
  <2>18. CASE Running /\ CompareLength
    BY <2>18 DEF Running, CompareLength, Again, HTTPLength
  <2>19. CASE DownloadTerminated \/ UNCHANGED downloadVars
    BY <2>19 DEF DownloadTerminated, downloadVars
  <2> QED
    BY <2>1, <2>2, <2>3, <2>4, <2>5, <2>6, <2>7, <2>8, <2>9, <2>10,
       <2>11, <2>12, <2>13, <2>14, <2>15, <2>16, <2>17, <2>18, <2>19
    DEF DownloadNext, Main, Downloader, Collector
<1>2. (MainOK /\ DownloaderOK)'
  <2> USE DEF DownloadInv, DownloadTypeOK, MainOK, DownloaderOK
  <2>1. CASE Running /\ Get
    BY <2>1 DEF Running, Get, CloseBoth
  <2>2. CASE Running /\ CheckExisting
    BY <2>2 DEF Running, CheckExisting, CloseBoth, HTTPLength
  <2>3. CASE Running /\ Create
    BY <2>3 DEF Running, Create, CloseBoth
  <2>4. CASE Running /\ SetName
    BY <2>4 DEF Running, SetName
  <2>5. CASE Running /\ WaitReturns
    BY <2>5 DEF Running, WaitReturns
  <2>6. CASE Running /\ ResumeLength
    BY <2>6 DEF Running, ResumeLength, HTTPLength
  <2>7. CASE Running /\ ResumeRequest
    BY <2>7 DEF Running, ResumeRequest
  <2>8. CASE Running /\ Read
    BY <2>8 DEF Running, Read
  <2>9. CASE Running /\ Count
    BY <2>9 DEF Running, Count
  <2>10. CASE Running /\ Report
    BY <2>10 DEF Running, Report
  <2>11. CASE Running /\ Write
    BY <2>11 DEF Running, Write, AfterCopy
  <2>12. CASE Running /\ ReportCopy
    BY <2>12 DEF Running, ReportCopy
  <2>13. CASE Running /\ CloseErrs
    BY <2>13 DEF Running, CloseErrs
  <2>14. CASE Running /\ CloseBytes
    BY <2>14 DEF Running, CloseBytes
  <2>15. CASE Running /\ ReceiveBytes
    BY <2>15 DEF Running, ReceiveBytes, Again
  <2>16. CASE Running /\ ReceiveError
    BY <2>16 DEF Running, ReceiveError, Again
  <2>17. CASE Running /\ StatFile
    BY <2>17 DEF Running, StatFile
  <2>18. CASE Running /\ CompareLength
    BY <2>18 DEF Running, CompareLength, Again, HTTPLength
  <2>19. CASE DownloadTerminated \/ UNCHANGED downloadVars
    BY <2>19 DEF DownloadTerminated, downloadVars
  <2> QED
    BY <2>1, <2>2, <2>3, <2>4, <2>5, <2>6, <2>7, <2>8, <2>9, <2>10,
       <2>11, <2>12, <2>13, <2>14, <2>15, <2>16, <2>17, <2>18, <2>19
    DEF DownloadNext, Main, Downloader, Collector
<1>3. CollectorOK'
  <2> USE DEF DownloadInv, DownloadTypeOK, CollectorOK
  <2>1. CASE Running /\ Get
    BY <2>1 DEF Running, Get, CloseBoth
  <2>2. CASE Running /\ CheckExisting
    BY <2>2 DEF Running, CheckExisting, CloseBoth, HTTPLength
  <2>3. CASE Running /\ Create
    BY <2>3 DEF Running, Create, CloseBoth
  <2>4. CASE Running /\ SetName
    BY <2>4 DEF Running, SetName
  <2>5. CASE Running /\ WaitReturns
    BY <2>5 DEF Running, WaitReturns
  <2>6. CASE Running /\ ResumeLength
    BY <2>6 DEF Running, ResumeLength, HTTPLength
  <2>7. CASE Running /\ ResumeRequest
    BY <2>7 DEF Running, ResumeRequest
  <2>8. CASE Running /\ Read
    BY <2>8 DEF Running, Read
  <2>9. CASE Running /\ Count
    BY <2>9 DEF Running, Count
  <2>10. CASE Running /\ Report
    BY <2>10 DEF Running, Report
  <2>11. CASE Running /\ Write
    BY <2>11 DEF Running, Write, AfterCopy
  <2>12. CASE Running /\ ReportCopy
    BY <2>12 DEF Running, ReportCopy
  <2>13. CASE Running /\ CloseErrs
    BY <2>13 DEF Running, CloseErrs
  <2>14. CASE Running /\ CloseBytes
    BY <2>14 DEF Running, CloseBytes
  <2>15. CASE Running /\ ReceiveBytes
    BY <2>15 DEF Running, ReceiveBytes, Again
  <2>16. CASE Running /\ ReceiveError
    BY <2>16 DEF Running, ReceiveError, Again
  <2>17. CASE Running /\ StatFile
    BY <2>17 DEF Running, StatFile, FileOK
  <2>18. CASE Running /\ CompareLength
    BY <2>18 DEF Running, CompareLength, Again, HTTPLength
  <2>19. CASE DownloadTerminated \/ UNCHANGED downloadVars
    BY <2>19 DEF DownloadTerminated, downloadVars
  <2> QED
    BY <2>1, <2>2, <2>3, <2>4, <2>5, <2>6, <2>7, <2>8, <2>9, <2>10,
       <2>11, <2>12, <2>13, <2>14, <2>15, <2>16, <2>17, <2>18, <2>19
    DEF DownloadNext, Main, Downloader, Collector
<1>4. ChannelsOK'
  <2> USE DEF DownloadInv, DownloadTypeOK, ChannelsOK
  <2>1. CASE Running /\ Get
    BY <2>1 DEF Running, Get, CloseBoth
  <2>2. CASE Running /\ CheckExisting
    <3>1. bytes' \in 0 .. Cap
      BY <2>2 DEF CheckExisting
    <3> QED
      BY <2>2, <3>1 DEF CheckExisting, CloseBoth
  <2>3. CASE Running /\ Create
    BY <2>3 DEF Running, Create, CloseBoth
  <2>4. CASE Running /\ SetName
    BY <2>4 DEF Running, SetName
  <2>5. CASE Running /\ WaitReturns
    BY <2>5 DEF Running, WaitReturns
  <2>6. CASE Running /\ ResumeLength
    BY <2>6 DEF Running, ResumeLength, HTTPLength
  <2>7. CASE Running /\ ResumeRequest
    BY <2>7 DEF Running, ResumeRequest
  <2>8. CASE Running /\ Read
    BY <2>8 DEF Running, Read
  <2>9. CASE Running /\ Count
    BY <2>9 DEF Running, Count
  <2>10. CASE Running /\ Report
    BY <2>10 DEF Running, Report
  <2>11. CASE Running /\ Write
    BY <2>11 DEF Running, Write, AfterCopy
  <2>12. CASE Running /\ ReportCopy
    BY <2>12 DEF Running, ReportCopy
  <2>13. CASE Running /\ CloseErrs
    BY <2>13 DEF Running, CloseErrs
  <2>14. CASE Running /\ CloseBytes
    BY <2>14 DEF Running, CloseBytes
  <2>15. CASE Running /\ ReceiveBytes
    BY <2>15 DEF Running, ReceiveBytes, Again
  <2>16. CASE Running /\ ReceiveError
    BY <2>16 DEF Running, ReceiveError, Again
  <2>17. CASE Running /\ StatFile
    BY <2>17 DEF Running, StatFile
  <2>18. CASE Running /\ CompareLength
    BY <2>18 DEF Running, CompareLength, Again, HTTPLength
  <2>19. CASE DownloadTerminated \/ UNCHANGED downloadVars
    BY <2>19 DEF DownloadTerminated, downloadVars
  <2> QED
    BY <2>1, <2>2, <2>3, <2>4, <2>5, <2>6, <2>7, <2>8, <2>9, <2>10,
       <2>11, <2>12, <2>13, <2>14, <2>15, <2>16, <2>17, <2>18, <2>19
    DEF DownloadNext, Main, Downloader, Collector
<1>5. mishaps' \subseteq {"length", "range", "disk", "panic"}
  <2> USE DEF DownloadInv, DownloadTypeOK
  <2>1. CASE Running /\ Get
    BY <2>1 DEF Running, Get, CloseBoth
  <2>2. CASE Running /\ CheckExisting
    BY <2>2 DEF Running, CheckExisting, CloseBoth, HTTPLength
  <2>3. CASE Running /\ Create
    BY <2>3 DEF Running, Create, CloseBoth
  <2>4. CASE Running /\ SetName
    BY <2>4 DEF Running, SetName
  <2>5. CASE Running /\ WaitReturns
    BY <2>5 DEF Running, WaitReturns
  <2>6. CASE Running /\ ResumeLength
    BY <2>6 DEF Running, ResumeLength, HTTPLength
  <2>7. CASE Running /\ ResumeRequest
    BY <2>7 DEF Running, ResumeRequest
  <2>8. CASE Running /\ Read
    BY <2>8 DEF Running, Read
  <2>9. CASE Running /\ Count
    BY <2>9 DEF Running, Count
  <2>10. CASE Running /\ Report
    BY <2>10 DEF Running, Report
  <2>11. CASE Running /\ Write
    BY <2>11 DEF Running, Write, AfterCopy
  <2>12. CASE Running /\ ReportCopy
    BY <2>12 DEF Running, ReportCopy
  <2>13. CASE Running /\ CloseErrs
    BY <2>13 DEF Running, CloseErrs
  <2>14. CASE Running /\ CloseBytes
    BY <2>14 DEF Running, CloseBytes
  <2>15. CASE Running /\ ReceiveBytes
    BY <2>15 DEF Running, ReceiveBytes, Again
  <2>16. CASE Running /\ ReceiveError
    BY <2>16 DEF Running, ReceiveError, Again
  <2>17. CASE Running /\ StatFile
    BY <2>17 DEF Running, StatFile
  <2>18. CASE Running /\ CompareLength
    BY <2>18 DEF Running, CompareLength, Again, HTTPLength
  <2>19. CASE DownloadTerminated \/ UNCHANGED downloadVars
    BY <2>19 DEF DownloadTerminated, downloadVars
  <2> QED
    BY <2>1, <2>2, <2>3, <2>4, <2>5, <2>6, <2>7, <2>8, <2>9, <2>10,
       <2>11, <2>12, <2>13, <2>14, <2>15, <2>16, <2>17, <2>18, <2>19
    DEF DownloadNext, Main, Downloader, Collector
<1>6. Closing'
  <2> USE DEF DownloadInv, DownloadTypeOK, ChannelsOK, CollectorOK, Closing
  <2>1. CASE Running /\ Get
    <3>1. CASE mpc' = "check"
      BY <2>1, <3>1 DEF Get
    <3>2. CASE mpc' = "failed"
      BY <2>1, <3>2 DEF Get, CloseBoth
    <3> QED
      BY <2>1, <3>1, <3>2 DEF Get
  <2>2. CASE Running /\ CheckExisting
    BY <2>2 DEF Running, CheckExisting, CloseBoth, HTTPLength
  <2>3. CASE Running /\ Create
    <3>1. CASE mpc' = "name"
      BY <2>3, <3>1 DEF Create
    <3>2. CASE mpc' = "failed"
      BY <2>3, <3>2 DEF Create, CloseBoth
    <3> QED
      BY <2>3, <3>1, <3>2 DEF Create
  <2>4. CASE Running /\ SetName
    BY <2>4 DEF Running, SetName
  <2>5. CASE Running /\ WaitReturns
    BY <2>5 DEF Running, WaitReturns, MainOK
  <2>6. CASE Running /\ ResumeLength
    BY <2>6 DEF Running, ResumeLength, HTTPLength
  <2>7. CASE Running /\ ResumeRequest
    BY <2>7 DEF Running, ResumeRequest
  <2>8. CASE Running /\ Read
    BY <2>8 DEF Running, Read
  <2>9. CASE Running /\ Count
    BY <2>9 DEF Running, Count
  <2>10. CASE Running /\ Report
    BY <2>10 DEF Running, Report
  <2>11. CASE Running /\ Write
    BY <2>11 DEF Running, Write, AfterCopy
  <2>12. CASE Running /\ ReportCopy
    BY <2>12 DEF Running, ReportCopy
  <2>13. CASE Running /\ CloseErrs
    BY <2>13 DEF Running, CloseErrs
  <2>14. CASE Running /\ CloseBytes
    BY <2>14 DEF Running, CloseBytes
  <2>15. CASE Running /\ ReceiveBytes
    BY <2>15 DEF Running, ReceiveBytes, Again
  <2>16. CASE Running /\ ReceiveError
    BY <2>16 DEF Running, ReceiveError, Again
  <2>17. CASE Running /\ StatFile
    BY <2>17 DEF Running, StatFile
  <2>18. CASE Running /\ CompareLength
    BY <2>18 DEF Running, CompareLength, Again, HTTPLength
  <2>19. CASE DownloadTerminated \/ UNCHANGED downloadVars
    BY <2>19 DEF DownloadTerminated, downloadVars
  <2> QED
    BY <2>1, <2>2, <2>3, <2>4, <2>5, <2>6, <2>7, <2>8, <2>9, <2>10,
       <2>11, <2>12, <2>13, <2>14, <2>15, <2>16, <2>17, <2>18, <2>19
    DEF DownloadNext, Main, Downloader, Collector
<1>7. Reading'
  <2> USE DEF DownloadInv, DownloadTypeOK, FileOK, DownloaderOK, CollectorOK, Reading
  <2>1. CASE Running /\ Get
    BY <2>1 DEF Running, Get, CloseBoth
  <2>2. CASE Running /\ CheckExisting
    BY <2>2 DEF Running, CheckExisting, CloseBoth, HTTPLength
  <2>3. CASE Running /\ Create
    BY <2>3 DEF Running, Create, CloseBoth
  <2>4. CASE Running /\ SetName
    BY <2>4 DEF Running, SetName
  <2>5. CASE Running /\ WaitReturns
    BY <2>5 DEF Running, WaitReturns
  <2>6. CASE Running /\ ResumeLength
    BY <2>6 DEF Running, ResumeLength, HTTPLength
  <2>7. CASE Running /\ ResumeRequest
    BY <2>7 DEF Running, ResumeRequest
  <2>8. CASE Running /\ Read
    BY <2>8 DEF Running, Read
  <2>9. CASE Running /\ Count
    BY <2>9 DEF Running, Count
  <2>10. CASE Running /\ Report
    BY <2>10 DEF Running, Report
  <2>11. CASE Running /\ Write
    BY <2>11 DEF Running, Write, AfterCopy
  <2>12. CASE Running /\ ReportCopy
    BY <2>12 DEF Running, ReportCopy
  <2>13. CASE Running /\ CloseErrs
    BY <2>13 DEF Running, CloseErrs
  <2>14. CASE Running /\ CloseBytes
    BY <2>14 DEF Running, CloseBytes
  <2>15. CASE Running /\ ReceiveBytes
    BY <2>15 DEF Running, ReceiveBytes, Again
  <2>16. CASE Running /\ ReceiveError
    BY <2>16 DEF Running, ReceiveError, Again
  <2>17. CASE Running /\ StatFile
    BY <2>17 DEF Running, StatFile
  <2>18. CASE Running /\ CompareLength
    BY <2>18 DEF Running, CompareLength, Again, HTTPLength
  <2>19. CASE DownloadTerminated \/ UNCHANGED downloadVars
    BY <2>19 DEF DownloadTerminated, downloadVars
  <2> QED
    BY <2>1, <2>2, <2>3, <2>4, <2>5, <2>6, <2>7, <2>8, <2>9, <2>10,
       <2>11, <2>12, <2>13, <2>14, <2>15, <2>16, <2>17, <2>18, <2>19
    DEF DownloadNext, Main, Downloader, Collector
<1>8. Reported'
  <2> USE DEF DownloadInv, DownloadTypeOK, FileOK, MainOK, DownloaderOK, CollectorOK, ChannelsOK,
              Closing, Reading, Reported, Told
  <2>1. CASE Running /\ Get
    BY <2>1 DEF Running, Get, CloseBoth
  <2>2. CASE Running /\ CheckExisting
    BY <2>2, ExistingIsWhole DEF Running
  <2>3. CASE Running /\ Create
    BY <2>3 DEF Running, Create, CloseBoth
  <2>4. CASE Running /\ SetName
    BY <2>4 DEF Running, SetName
  <2>5. CASE Running /\ WaitReturns
    BY <2>5 DEF Running, WaitReturns
  <2>6. CASE Running /\ ResumeLength
    BY <2>6 DEF Running, ResumeLength, HTTPLength
  <2>7. CASE Running /\ ResumeRequest
    BY <2>7 DEF Running, ResumeRequest
  <2>8. CASE Running /\ Read
    BY <2>8 DEF Running, Read
  <2>9. CASE Running /\ Count
    BY <2>9 DEF Running, Count
  <2>10. CASE Running /\ Report
    BY <2>10 DEF Running, Report
  <2>11. CASE Running /\ Write
    BY <2>11 DEF Running, Write, AfterCopy
  <2>12. CASE Running /\ ReportCopy
    BY <2>12 DEF Running, ReportCopy
  <2>13. CASE Running /\ CloseErrs
    BY <2>13 DEF Running, CloseErrs
  <2>14. CASE Running /\ CloseBytes
    BY <2>14 DEF Running, CloseBytes
  <2>15. CASE Running /\ ReceiveBytes
    BY <2>15 DEF Running, ReceiveBytes, Again
  <2>16. CASE Running /\ ReceiveError
    BY <2>16 DEF Running, ReceiveError, Again
  <2>17. CASE Running /\ StatFile
    BY <2>17 DEF Running, StatFile
  <2>18. CASE Running /\ CompareLength
    BY <2>18 DEF Running, CompareLength, Again, HTTPLength
  <2>19. CASE DownloadTerminated \/ UNCHANGED downloadVars
    BY <2>19 DEF DownloadTerminated, downloadVars
  <2> QED
    BY <2>1, <2>2, <2>3, <2>4, <2>5, <2>6, <2>7, <2>8, <2>9, <2>10,
       <2>11, <2>12, <2>13, <2>14, <2>15, <2>16, <2>17, <2>18, <2>19
    DEF DownloadNext, Main, Downloader, Collector
<1> QED
  BY <1>1, <1>2, <1>3, <1>4, <1>5, <1>6, <1>7, <1>8 DEF DownloadInv, DownloadTypeOK

\* DownloadInv holds in every state.
THEOREM DownloadInvariant == DownloadSpec => []DownloadInv
<1>1. DownloadInit => DownloadInv
  BY DownloadStarts
<1>2. DownloadInv /\ [DownloadNext]_downloadVars => DownloadInv'
  BY DownloadStep
<1> QED
  BY <1>1, <1>2, PTL DEF DownloadSpec

\* Every variable keeps its type: no channel holds more than its capacity, no file grows
\* beyond what the server has.
THEOREM DownloadType == DownloadSpec => []DownloadTypeOK
<1>1. DownloadInv => DownloadTypeOK
  BY DEF DownloadInv
<1> QED
  BY <1>1, DownloadInvariant, PTL

\* DownloadFromUrlWithAttemptsAsync: when it returns a file, the goroutine that writes to it
\* has ended, whatever the order of sends, closes and receives was.
THEOREM DownloadIsQuiet == DownloadSpec => []QuietWhenReturned
<1>1. DownloadInv => QuietWhenReturned
  BY DEF DownloadInv, Closing, QuietWhenReturned
<1> QED
  BY <1>1, DownloadInvariant, PTL

\* The callback of HttpProxyReader and the collector: a connection that breaks, in whichever
\* chunk, never yields a short file, unless something else fails too.
THEOREM ShortIsExcused == DownloadSpec => []ShortFileNeedsFault
<1>1. DownloadInv => ShortFileNeedsFault
  BY DEF DownloadInv, Closing, Reported, Told, ShortFileNeedsFault, DownloadTypeOK, FileOK
<1> QED
  BY <1>1, DownloadInvariant, PTL

-----------------------------------------------------------------------------
\* The download implements ImageFile.

\* Nobody reads or writes a file that was not found or created.
Existing == len > 0 \/ dpc # "none" \/ mpc \in {"name", "wait", "ok"} => exists

\* The file is found or created before anything else, and never removed.
LEMMA ExistingStep ==
  ASSUME DownloadInv, Existing, [DownloadNext]_downloadVars
  PROVE  Existing'
<1> USE DEF file, main, down, coll, chans, Existing
<1>1. CASE Running /\ Main
  <2>1. mpc = "get" => dpc = "none"
    BY DEF DownloadInv, Closing
  <2> QED
    BY <1>1, <2>1 DEF Main, Get, CheckExisting, Create, SetName, WaitReturns, CloseBoth
<1>2. CASE Running /\ Downloader
  <2>1. UNCHANGED exists /\ dpc # "none"
    BY <1>2 DEF Downloader, ResumeLength, ResumeRequest, Read, Count, Report, Write, ReportCopy,
                CloseErrs, CloseBytes
  <2> QED
    BY <2>1
<1>3. CASE Running /\ Collector
  <2>1. UNCHANGED <<exists, len, dpc>> /\ mpc' \in {mpc, "exit"}
    BY <1>3 DEF Collector, ReceiveBytes, ReceiveError, StatFile, CompareLength
  <2> QED
    BY <2>1
<1>4. CASE DownloadTerminated \/ UNCHANGED downloadVars
  BY <1>4 DEF DownloadTerminated, downloadVars
<1> QED
  BY <1>1, <1>2, <1>3, <1>4 DEF DownloadNext

\* While a goroutine is at work, DownloadImage has not returned: the collector holds it up
\* until the downloader has closed both channels.
LEMMA BusyIsAsking ==
  ASSUME DownloadInv, Running
  PROVE  /\ dpc \notin {"none", "ended"} => Fetching = "asking"
         /\ cpc # "ended" => Fetching \in {"asking", "failed"}
BY DEF DownloadInv, DownloadTypeOK, MainOK, Closing, Running, Fetching

\* Every step of the three goroutines is a step of ImageFile, or none.
LEMMA FetchStep ==
  ASSUME DownloadInv, Existing, [DownloadNext]_downloadVars
  PROVE  [Fetch!Receive \/ Fetch!Return \/ Fetch!Fail]_<<FileContent, Fetching>>
<1> USE SizeAssumption DEF file, main, down, coll, chans, FileContent, Fetching
<1>1. CASE Running /\ (Get \/ CheckExisting \/ SetName)
  BY <1>1 DEF Get, CheckExisting, SetName, Fetch!Fail
<1>2. CASE Running /\ Create
  <2>1. ~exists /\ len = 0 /\ UNCHANGED len /\ mpc = "check"
    BY <1>2 DEF Create, Existing, DownloadInv, DownloadTypeOK, FileOK
  <2>2. CASE exists' /\ mpc' = "name"
    BY <2>1, <2>2 DEF Fetch!Receive, Fetch!Got
  <2>3. CASE mpc' = "failed" /\ UNCHANGED exists
    BY <2>1, <2>3 DEF Fetch!Fail
  <2> QED
    BY <1>2, <2>2, <2>3 DEF Create
<1>3. CASE Running /\ WaitReturns
  BY <1>3 DEF WaitReturns, Existing, Fetch!Return
<1>4. CASE Running /\ ResumeRequest
  <2>1. Fetching = "asking" /\ UNCHANGED FileContent /\ mpc' \in {mpc, "exit"}
    BY <1>4, BusyIsAsking DEF ResumeRequest
  <2> QED
    BY <2>1 DEF Fetch!Fail
<1>5. CASE Running /\ Write
  <2>1. Fetching = "asking" /\ UNCHANGED <<Fetching, exists>> /\ exists
    BY <1>5, BusyIsAsking DEF Write, Existing
  <2>2. len' \in {len, len + chunk} /\ len + chunk <= Size
    BY <1>5 DEF Write, DownloadInv, Reading
  <2>3. FileContent' \in Fetch!Got(FileContent)
    BY <2>1, <2>2 DEF DownloadInv, DownloadTypeOK, FileOK, DownloaderOK, Fetch!Got
  <2> QED
    BY <2>1, <2>3 DEF Fetch!Receive
<1>6. CASE Running /\ Downloader /\ ~ResumeRequest /\ ~Write
  BY <1>6 DEF Downloader, ResumeLength, Read, Count, Report, ReportCopy, CloseErrs, CloseBytes
<1>7. CASE Running /\ CompareLength
  <2>1. Fetching \in {"asking", "failed"} /\ UNCHANGED FileContent /\ mpc' \in {mpc, "exit"}
    BY <1>7, BusyIsAsking DEF CompareLength
  <2> QED
    BY <2>1 DEF Fetch!Fail
<1>8. CASE Running /\ (ReceiveBytes \/ ReceiveError \/ StatFile)
  BY <1>8 DEF ReceiveBytes, ReceiveError, StatFile, Again
<1>9. CASE DownloadTerminated \/ UNCHANGED downloadVars
  BY <1>9 DEF DownloadTerminated, downloadVars
<1> QED
  BY <1>1, <1>2, <1>3, <1>4, <1>5, <1>6, <1>7, <1>8, <1>9
  DEF DownloadNext, Main, Downloader, Collector

\* DownloadFromUrlWithAttemptsAsync implements ImageFile, whatever the order of sends, closes
\* and receives: prepareImage may take the file for one that only grew, and that nobody
\* writes to any more.
THEOREM DownloadImplements == DownloadSpec => ImplementsFile
<1>1. DownloadInit => Fetch!Init /\ Existing
  BY SizeAssumption DEF DownloadInit, Fetch!Init, FileContent, Fetching, Existing
<1>2. DownloadInv /\ Existing /\ [DownloadNext]_downloadVars => Existing'
  BY ExistingStep
<1>3. DownloadInv /\ Existing /\ [DownloadNext]_downloadVars
        => [Fetch!Receive \/ Fetch!Return \/ Fetch!Fail]_<<FileContent, Fetching>>
  BY FetchStep
<1> QED
  BY <1>1, <1>2, <1>3, DownloadInvariant, PTL DEF DownloadSpec, ImplementsFile, Fetch!Spec

-----------------------------------------------------------------------------
\* The mapping: RepoInv compares what a run was told with what the server has had since
\* it began.

\* A version passes for the newest one for good.
WholeMapping == mapping \in Version /\ Passes(mapping)

\* The page of an error that this run was answered with.
OwnPage == mapping = Page /\ paged

\* The length that the server told, and what it sends, is that of some version since the run
\* began, or of the page of an error; a file taken for it is whole or that page, but for an
\* empty one where no length was told.
Answers ==
    /\ newest <= server
    /\ rpc \notin {"idle", "done"} => said = "nothing"
    /\ rpc = "delete" => \/ asked = 0 /\ failed
                         \/ asked = Untold
                         \/ asked = PageLength /\ paged
                         \/ \E v \in newest .. server : asked = Length(v)
    /\ rpc = "copy" => body \in newest .. server \/ (body = Page /\ paged)
    /\ rpc = "chtimes" => WholeMapping \/ OwnPage \/ failed
    /\ rpc = "read" => WholeMapping \/ OwnPage \/ failed \/ recent

RepoInv == RepoTypeOK /\ Answers /\ FoundIsNewest /\ UpdatedIsNewest

\* The length of a version is one of the lengths.
LEMMA LengthType ==
  ASSUME NEW v \in Version
  PROVE  Length(v) \in 1 .. Lengths
<1>1. v \in Int /\ Lengths \in Nat \ {0}
  BY VersionAssumption DEF Version
<1>2. v % Lengths \in 0 .. Lengths - 1
  BY <1>1
<1> QED
  BY <1>1, <1>2 DEF Length

\* Versions are numbers.
LEMMA ServerIsInt == RepoTypeOK => server \in Int /\ newest \in Int /\ server >= 1
  BY VersionAssumption DEF RepoTypeOK, MappingOK, Version

\* The types of what is published, on the disk and in memory.
LEMMA MappingTypes ==
  ASSUME RepoTypeOK, RepoNext
  PROVE  MappingOK'
<1>1. CASE Publish
  <2>1. server' \in Version
    BY <1>1, VersionAssumption DEF Publish, RepoTypeOK, MappingOK, Version
  <2> QED
    BY <1>1, <2>1 DEF Publish, past, wire, RepoTypeOK, MappingOK
<1>2. CASE Network
  BY <1>2
     DEF Network, past, wire, RepoTypeOK, MappingOK
<1>3. CASE Day
  BY <1>3
     DEF Day, world, wire, past, RepoTypeOK, MappingOK
<1>4. CASE RepoKill
  BY <1>4
     DEF RepoKill, world, wire, RepoTypeOK, MappingOK
<1>5. ASSUME NEW c \in {"flash", "update"}, Start(c) PROVE  MappingOK'
  BY <1>5
     DEF Start, world, wire, Step, RepoTypeOK, MappingOK
<1>6. CASE CheckDevicesRepository
  BY <1>6
     DEF CheckDevicesRepository, world, wire, Step, RepoTypeOK, MappingOK
<1>7. CASE AskLength
  <2>1. server \in Version
    BY DEF RepoTypeOK, MappingOK
  <2>2. Length(server) \in 1 .. Lengths
    BY <2>1, LengthType
  <2>3. net \in {"up", "errors", "down"}
    BY DEF RepoTypeOK, RunnerOK
  <2>4. asked' \in {0, Length(server), PageLength, Untold}
    BY <1>7, <2>3 DEF AskLength
  <2>5. asked' \in {Untold} \cup 0 .. PageLength
    BY <2>2, <2>4, VersionAssumption DEF PageLength
  <2> QED
    BY <1>7, <2>5 DEF AskLength, world, wire, RepoTypeOK, MappingOK
<1>8. CASE KeepOrDelete
  BY <1>8
     DEF KeepOrDelete, DeleteFile, world, wire, past, Step, RepoTypeOK, MappingOK
<1>9. CASE CreateMapping
  BY <1>9
     DEF CreateMapping, world, wire, past, Step, Abandon, RepoTypeOK, MappingOK
<1>10. CASE GetMapping
  BY <1>10
     DEF GetMapping, world, wire, Step, Abandon, RepoTypeOK, MappingOK
<1>11. CASE Copy
  BY <1>11
     DEF Copy, world, wire, Step, Abandon, RepoTypeOK, MappingOK
<1>12. CASE Touch
  BY <1>12
     DEF Touch, world, wire, past, Step, Abandon, RepoTypeOK, MappingOK
<1>13. CASE GetDeviceRepo
  BY <1>13
     DEF GetDeviceRepo, world, wire, past, Step, RepoTypeOK, MappingOK
<1>14. CASE Exit
  BY <1>14
     DEF Exit, world, wire, past, Step, RepoTypeOK, MappingOK
<1>15. CASE Permissions
  BY <1>15
     DEF Permissions, past, wire, RepoTypeOK, MappingOK
<1> QED
  BY <1>1, <1>2, <1>3, <1>4, <1>5, <1>6, <1>7, <1>8, <1>9, <1>10, <1>11, <1>12, <1>13, <1>14, <1>15
     DEF RepoNext, Run

\* The types of the rest.
LEMMA RunnerTypes ==
  ASSUME RepoTypeOK, RepoNext
  PROVE  RunnerOK' /\ kills' \in 0 .. MaxKills
<1>1. CASE Publish
  BY <1>1
     DEF Publish, past, wire, RepoTypeOK, RunnerOK
<1>2. CASE Network
  BY <1>2
     DEF Network, past, wire, RepoTypeOK, RunnerOK
<1>3. CASE Day
  BY <1>3
     DEF Day, world, wire, past, RepoTypeOK, RunnerOK
<1>4. CASE RepoKill
  <2>1. kills' \in 0 .. MaxKills
    BY <1>4, VersionAssumption DEF RepoKill, RepoTypeOK
  <2> QED
    BY <1>4, <2>1 DEF RepoKill, world, wire, RepoTypeOK, RunnerOK
<1>5. ASSUME NEW c \in {"flash", "update"}, Start(c) PROVE  RunnerOK' /\ kills' \in 0 .. MaxKills
  BY <1>5
     DEF Start, world, wire, Step, RepoTypeOK, RunnerOK
<1>6. CASE CheckDevicesRepository
  <2>1. recent' \in BOOLEAN
    BY <1>6 DEF CheckDevicesRepository
  <2> QED
    BY <1>6, <2>1 DEF CheckDevicesRepository, world, wire, Step, RepoTypeOK, RunnerOK
<1>7. CASE AskLength
  <2>1. failed' \in BOOLEAN /\ paged' \in BOOLEAN
    BY <1>7 DEF AskLength, RepoTypeOK, RunnerOK
  <2> QED
    BY <1>7, <2>1 DEF AskLength, world, wire, Step, RepoTypeOK, RunnerOK
<1>8. CASE KeepOrDelete
  BY <1>8
     DEF KeepOrDelete, DeleteFile, world, wire, past, Step, RepoTypeOK, RunnerOK
<1>9. CASE CreateMapping
  BY <1>9
     DEF CreateMapping, world, wire, past, Step, Abandon, RepoTypeOK, RunnerOK
<1>10. CASE GetMapping
  BY <1>10
     DEF GetMapping, world, wire, Step, Abandon, RepoTypeOK, RunnerOK
<1>11. CASE Copy
  BY <1>11
     DEF Copy, world, wire, Step, Abandon, RepoTypeOK, RunnerOK
<1>12. CASE Touch
  BY <1>12
     DEF Touch, world, wire, past, Step, Abandon, RepoTypeOK, RunnerOK
<1>13. CASE GetDeviceRepo
  BY <1>13
     DEF GetDeviceRepo, world, wire, past, Step, RepoTypeOK, RunnerOK
<1>14. CASE Exit
  BY <1>14
     DEF Exit, world, wire, past, Step, RepoTypeOK, RunnerOK
<1>15. CASE Permissions
  <2>1. writable' \in BOOLEAN
    BY <1>15 DEF Permissions
  <2> QED
    BY <1>15, <2>1 DEF Permissions, past, wire, RepoTypeOK, RunnerOK
<1> QED
  BY <1>1, <1>2, <1>3, <1>4, <1>5, <1>6, <1>7, <1>8, <1>9, <1>10, <1>11, <1>12, <1>13, <1>14, <1>15
     DEF RepoNext, Run

\* What the server told, and the file that was kept or copied for it.
LEMMA AnswersSteps ==
  ASSUME RepoTypeOK, Answers, RepoNext
  PROVE  Answers'
<1>1. CASE Publish
  <2>1. server' = server + 1 /\ UNCHANGED <<newest, mapping, rpc, asked, body, said, failed, paged, recent>>
    BY <1>1 DEF Publish, past, wire
  <2>2. /\ newest <= server' /\ server \in Int /\ newest \in Int
        /\ newest .. server \subseteq newest .. server'
    BY <2>1, ServerIsInt DEF Answers
  <2>3. (WholeMapping => WholeMapping') /\ OwnPage' = OwnPage
    BY <2>1, <2>2 DEF WholeMapping, Passes, OwnPage
  <2> QED
    BY <2>1, <2>2, <2>3 DEF Answers
<1>2. CASE Network
  <2>1. UNCHANGED <<server, newest, mapping, rpc, asked, body, said, failed, paged, recent>>
    BY <1>2 DEF Network, past, wire
  <2>2. WholeMapping' = WholeMapping /\ OwnPage' = OwnPage
    BY <2>1 DEF WholeMapping, Passes, OwnPage
  <2> QED
    BY <2>1, <2>2 DEF Answers
<1>3. CASE Day
  <2>1. UNCHANGED <<server, newest, mapping, rpc, asked, body, said, failed, paged, recent>>
    BY <1>3 DEF Day, world, wire, past
  <2>2. WholeMapping' = WholeMapping /\ OwnPage' = OwnPage
    BY <2>1 DEF WholeMapping, Passes, OwnPage
  <2> QED
    BY <2>1, <2>2 DEF Answers
<1>4. CASE RepoKill
  BY <1>4
     DEF RepoKill, world, wire, Answers, WholeMapping, OwnPage, RepoTypeOK, MappingOK
<1>5. ASSUME NEW c \in {"flash", "update"}, Start(c) PROVE  Answers'
  <2>1. server' = server /\ newest' = server /\ said' = "nothing" /\ rpc' \in {"check", "length"}
    BY <1>5 DEF Start, Step, world, wire
  <2>2. server \in Int
    BY ServerIsInt
  <2> QED
    BY <2>1, <2>2 DEF Answers
<1>6. CASE CheckDevicesRepository
  BY <1>6
     DEF CheckDevicesRepository, world, wire, Step, Answers, WholeMapping, OwnPage, RepoTypeOK, MappingOK
<1>7. CASE AskLength
  <2>1. /\ rpc = "length" /\ rpc' \in {"create", "delete"}
        /\ UNCHANGED <<server, newest, mapping, said, recent>>
    BY <1>7 DEF AskLength, Step, world
  <2>2. ASSUME rpc' = "delete"
        PROVE  \/ asked' = 0 /\ failed'
               \/ asked' = Untold
               \/ asked' = PageLength /\ paged'
               \/ asked' = Length(server)
    <3>1. CASE net = "up"
      BY <1>7, <2>2, <3>1 DEF AskLength, Step
    <3>2. CASE net = "errors"
      BY <1>7, <2>2, <3>2 DEF AskLength, Step
    <3>3. CASE net = "down"
      BY <1>7, <2>2, <3>3 DEF AskLength, Step
    <3> QED
      BY <3>1, <3>2, <3>3 DEF RepoTypeOK, RunnerOK
  <2>3. server \in newest .. server
    BY ServerIsInt DEF Answers
  <2> QED
    BY <2>1, <2>2, <2>3 DEF Answers
<1>8. CASE KeepOrDelete
  <2>1. /\ rpc = "delete" /\ UNCHANGED <<server, newest, said, failed, paged, recent>>
        /\ \/ rpc' = "chtimes" /\ SameLength /\ mapping' = mapping
           \/ rpc' = "create"
    BY <1>8 DEF KeepOrDelete, DeleteFile, Step, world, past
  <2>2. ASSUME SameLength, ~failed PROVE WholeMapping \/ OwnPage
    <3>1. \/ asked = Untold
          \/ asked = PageLength /\ paged
          \/ \E v \in newest .. server : asked = Length(v)
      BY <2>1, <2>2 DEF Answers
    <3>2. ASSUME NEW v \in newest .. server PROVE Length(v) \in 1 .. Lengths
      <4>1. v \in Version
        BY ServerIsInt, VersionAssumption DEF RepoTypeOK, MappingOK, Version
      <4> QED
        BY <4>1, LengthType
    <3>3. Lengths \in Nat \ {0}
      BY VersionAssumption
    <3>4. asked # 0
      BY <3>1, <3>2, <3>3 DEF Untold, PageLength
    <3>5. CASE mapping = Page /\ asked = PageLength
      BY <3>1, <3>2, <3>3, <3>5 DEF OwnPage, PageLength, Untold
    <3>6. CASE mapping \in Version /\ Length(mapping) = asked
      <4>1. Length(mapping) \in 1 .. Lengths
        BY <3>6, LengthType
      <4>2. \E v \in newest .. server : asked = Length(v)
        BY <3>1, <3>3, <3>6, <4>1 DEF Untold, PageLength
      <4> QED
        BY <3>6, <4>2 DEF WholeMapping, Passes
    <3> QED
      BY <2>2, <3>4, <3>5, <3>6 DEF SameLength
  <2>3. (WholeMapping' = WholeMapping /\ OwnPage' = OwnPage) \/ rpc' = "create"
    BY <2>1 DEF WholeMapping, OwnPage, Passes
  <2> QED
    BY <2>1, <2>2, <2>3 DEF Answers
<1>9. CASE CreateMapping
  <2>1. /\ UNCHANGED <<server, newest>>
        /\ (rpc = "create" /\ rpc' = "get" /\ said' = said) \/ Abandon("create")
    BY <1>9 DEF CreateMapping, Step, world
  <2>2. CASE Abandon("create")
    BY <2>1, <2>2 DEF Abandon, Step, Answers
  <2> QED
    BY <2>1, <2>2 DEF Answers
<1>10. CASE GetMapping
  <2>1. /\ UNCHANGED <<server, newest, recent, mapping>>
        /\ \/ /\ rpc = "get" /\ rpc' = "copy" /\ said' = said
              /\ body' = server \/ (body' = Page /\ paged')
           \/ Abandon("get")
    BY <1>10 DEF GetMapping, Step, world
  <2>2. server \in newest .. server
    BY ServerIsInt DEF Answers
  <2>3. CASE Abandon("get")
    BY <2>1, <2>3 DEF Abandon, Step, Answers
  <2> QED
    BY <2>1, <2>2, <2>3 DEF Answers
<1>11. CASE Copy
  <2>1. rpc = "copy" /\ UNCHANGED <<server, newest, recent, paged>>
    BY <1>11 DEF Copy, Step, Abandon, world
  <2>2. CASE rpc' = "chtimes" /\ mapping' = body /\ UNCHANGED said
    <3>1. CASE body \in newest .. server
      <4>1. body \in Version /\ body >= newest
        BY <3>1, ServerIsInt, VersionAssumption DEF RepoTypeOK, MappingOK, Version
      <4>2. WholeMapping'
        BY <2>1, <2>2, <4>1 DEF WholeMapping, Passes
      <4> QED
        BY <2>1, <2>2, <4>2 DEF Answers
    <3>2. CASE body = Page /\ paged
      <4>1. OwnPage'
        BY <2>1, <2>2, <3>2 DEF OwnPage
      <4> QED
        BY <2>1, <2>2, <4>1 DEF Answers
    <3> QED
      BY <2>1, <3>1, <3>2 DEF Answers
  <2>3. CASE Abandon("copy")
    BY <2>1, <2>3 DEF Abandon, Step, Answers
  <2> QED
    BY <1>11, <2>2, <2>3 DEF Copy, Step
<1>12. CASE Touch
  <2>1. CASE Abandon("chtimes")
    BY <1>12, <2>1 DEF Touch, Abandon, Step, Answers, world
  <2>2. CASE ~Abandon("chtimes")
    <3>1. /\ rpc = "chtimes" /\ UNCHANGED <<server, newest, mapping, failed, paged, recent>>
          /\ rpc' = "done" \/ (rpc' = "read" /\ said' = said)
      BY <1>12, <2>2 DEF Touch, Step, world
    <3>2. WholeMapping' = WholeMapping /\ OwnPage' = OwnPage
      BY <3>1 DEF WholeMapping, Passes, OwnPage
    <3> QED
      BY <3>1, <3>2 DEF Answers
  <2> QED
    BY <2>1, <2>2
<1>13. CASE GetDeviceRepo
  BY <1>13
     DEF GetDeviceRepo, world, wire, past, Step, Answers, WholeMapping, OwnPage, RepoTypeOK, MappingOK
<1>14. CASE Exit
  BY <1>14
     DEF Exit, world, wire, past, Step, Answers, WholeMapping, OwnPage, RepoTypeOK, MappingOK
<1>15. CASE Permissions
  <2>1. UNCHANGED <<server, newest, mapping, rpc, asked, body, said, failed, paged, recent>>
    BY <1>15 DEF Permissions, past, wire
  <2>2. WholeMapping' = WholeMapping /\ OwnPage' = OwnPage
    BY <2>1 DEF WholeMapping, Passes, OwnPage
  <2> QED
    BY <2>1, <2>2 DEF Answers
<1> QED
  BY <1>1, <1>2, <1>3, <1>4, <1>5, <1>6, <1>7, <1>8, <1>9, <1>10, <1>11, <1>12, <1>13, <1>14, <1>15
     DEF RepoNext, Run

\* What a run offers, and what an update leaves.
LEMMA RepoPropertySteps ==
  ASSUME RepoTypeOK, Answers, FoundIsNewest, UpdatedIsNewest, RepoNext
  PROVE  FoundIsNewest' /\ UpdatedIsNewest'
<1>1. CASE Publish
  <2>1. /\ UNCHANGED <<dm, newest, recent, failed, paged, said, rpc, mapping>>
        /\ server' \in {server, server + 1}
    BY <1>1 DEF Publish, past, wire
  <2>2. newest .. server \subseteq newest .. server'
    BY <2>1, ServerIsInt
  <2>3. \A v : Passes(v) => Passes(v)'
    BY <2>1, <2>2 DEF Passes
  <2> QED
    BY <2>1, <2>3 DEF FoundIsNewest, UpdatedIsNewest
<1>2. CASE Network
  <2>1. /\ UNCHANGED <<dm, newest, recent, failed, paged, said, rpc, mapping>>
        /\ server' \in {server, server + 1}
    BY <1>2 DEF Network, past, wire, world
  <2>2. newest .. server \subseteq newest .. server'
    BY <2>1, ServerIsInt
  <2>3. \A v : Passes(v) => Passes(v)'
    BY <2>1, <2>2 DEF Passes
  <2> QED
    BY <2>1, <2>3 DEF FoundIsNewest, UpdatedIsNewest
<1>3. CASE Day
  <2>1. /\ UNCHANGED <<dm, newest, recent, failed, paged, said, rpc, mapping>>
        /\ server' \in {server, server + 1}
    BY <1>3 DEF Day, world, wire, past
  <2>2. newest .. server \subseteq newest .. server'
    BY <2>1, ServerIsInt
  <2>3. \A v : Passes(v) => Passes(v)'
    BY <2>1, <2>2 DEF Passes
  <2> QED
    BY <2>1, <2>3 DEF FoundIsNewest, UpdatedIsNewest
<1>4. CASE RepoKill
  <2>1. said' = "nothing"
    BY <1>4 DEF RepoKill, world, wire, Answers
  <2> QED
    BY <2>1 DEF FoundIsNewest, UpdatedIsNewest
<1>5. ASSUME NEW c \in {"flash", "update"}, Start(c) PROVE  FoundIsNewest' /\ UpdatedIsNewest'
  <2>1. said' = "nothing"
    BY <1>5 DEF Start
  <2> QED
    BY <2>1 DEF FoundIsNewest, UpdatedIsNewest
<1>6. CASE CheckDevicesRepository
  <2>1. said' = "nothing"
    BY <1>6 DEF CheckDevicesRepository, world, wire, Step, Answers
  <2> QED
    BY <2>1 DEF FoundIsNewest, UpdatedIsNewest
<1>7. CASE AskLength
  <2>1. said' = "nothing"
    BY <1>7 DEF AskLength, world, wire, Step, Answers
  <2> QED
    BY <2>1 DEF FoundIsNewest, UpdatedIsNewest
<1>8. CASE KeepOrDelete
  <2>1. said' = "nothing"
    BY <1>8 DEF KeepOrDelete, DeleteFile, world, wire, past, Step, Answers
  <2> QED
    BY <2>1 DEF FoundIsNewest, UpdatedIsNewest
<1>9. CASE CreateMapping
  <2>1. said' \in {"nothing", "error"}
    BY <1>9 DEF CreateMapping, world, wire, Step, Abandon, Answers
  <2> QED
    BY <2>1 DEF FoundIsNewest, UpdatedIsNewest
<1>10. CASE GetMapping
  <2>1. said' # "found" /\ (said' = "updated" => rpc' # "done")
    BY <1>10 DEF GetMapping, world, wire, Step, Abandon, Answers
  <2> QED
    BY <2>1 DEF FoundIsNewest, UpdatedIsNewest
<1>11. CASE Copy
  <2>1. said' # "found" /\ (said' = "updated" => rpc' # "done")
    BY <1>11 DEF Copy, world, wire, Step, Abandon, Answers
  <2> QED
    BY <2>1 DEF FoundIsNewest, UpdatedIsNewest
<1>12. CASE Touch
  <2>1. CASE Abandon("chtimes")
    <3>1. said' \in {"nothing", "error"}
      BY <2>1 DEF Abandon, Step, Answers
    <3> QED
      BY <3>1 DEF FoundIsNewest, UpdatedIsNewest
  <2>2. CASE ~Abandon("chtimes")
    <3>1. /\ said' # "found" /\ rpc = "chtimes"
          /\ UNCHANGED <<server, newest, mapping, failed, paged>>
      BY <1>12, <2>2 DEF Touch, Step, Answers, world
    <3>2. WholeMapping' = WholeMapping /\ OwnPage' = OwnPage
      BY <3>1 DEF WholeMapping, OwnPage, Passes
    <3>3. WholeMapping' \/ OwnPage' \/ failed'
      BY <3>1, <3>2 DEF Answers
    <3> QED
      BY <3>1, <3>3 DEF WholeMapping, OwnPage, FoundIsNewest, UpdatedIsNewest
  <2> QED
    BY <2>1, <2>2
<1>13. CASE GetDeviceRepo
  <2>1. /\ rpc = "read" /\ said' # "updated"
        /\ said' = "found" => dm' = mapping /\ mapping \in Version
        /\ UNCHANGED <<server, newest, failed, recent>>
    BY <1>13 DEF GetDeviceRepo, Step, world, past, wire
  <2>2. \A v : Passes(v)' = Passes(v)
    BY <2>1 DEF Passes
  <2>3. Page \notin Version
    BY VersionAssumption DEF Page, Version
  <2> QED
    BY <2>1, <2>2, <2>3 DEF Answers, WholeMapping, OwnPage, FoundIsNewest, UpdatedIsNewest
<1>14. CASE Exit
  <2>1. UNCHANGED <<dm, newest, recent, failed, said, server>> /\ rpc' = "idle"
    BY <1>14 DEF Exit, Step, world, past, wire
  <2>2. \A v : Passes(v)' = Passes(v)
    BY <2>1 DEF Passes
  <2> QED
    BY <2>1, <2>2 DEF FoundIsNewest, UpdatedIsNewest
<1>15. CASE Permissions
  <2>1. UNCHANGED <<dm, newest, recent, failed, paged, said, rpc, mapping, server>>
    BY <1>15 DEF Permissions, past, wire
  <2>2. \A v : Passes(v)' = Passes(v)
    BY <2>1 DEF Passes
  <2> QED
    BY <2>1, <2>2 DEF FoundIsNewest, UpdatedIsNewest
<1> QED
  BY <1>1, <1>2, <1>3, <1>4, <1>5, <1>6, <1>7, <1>8, <1>9, <1>10, <1>11, <1>12, <1>13, <1>14, <1>15
     DEF RepoNext, Run

\* The first installation.
LEMMA RepoStarts == RepoInit => RepoInv
<1> SUFFICES ASSUME RepoInit PROVE RepoInv
  OBVIOUS
<1>1. MappingOK
  <2>1. 1 \in Version /\ 0 \in 0 .. PageLength
    BY VersionAssumption DEF Version, PageLength
  <2> QED
    BY <2>1 DEF RepoInit, MappingOK
<1>2. RunnerOK /\ kills \in 0 .. MaxKills
  <2>1. 0 \in 0 .. MaxKills
    BY VersionAssumption
  <2> QED
    BY <2>1 DEF RepoInit, RunnerOK
<1> QED
  BY <1>1, <1>2 DEF RepoInit, RepoInv, RepoTypeOK, Answers, FoundIsNewest, UpdatedIsNewest

\* Every step keeps the invariant.
LEMMA RepoSteps == RepoInv /\ [RepoNext]_repoVars => RepoInv'
<1>1. ASSUME RepoInv, RepoNext PROVE RepoInv'
  BY <1>1, MappingTypes, RunnerTypes, AnswersSteps, RepoPropertySteps DEF RepoInv, RepoTypeOK
<1>2. ASSUME RepoInv, UNCHANGED repoVars PROVE RepoInv'
  BY <1>2 DEF RepoInv, RepoTypeOK, MappingOK, RunnerOK, Answers, WholeMapping, OwnPage, Passes,
     FoundIsNewest, UpdatedIsNewest, repoVars, world, wire, past
<1> QED
  BY <1>1, <1>2

\* The invariant of the device repository.
THEOREM RepoInvariant == RepoSpec => []RepoInv
  BY RepoStarts, RepoSteps, PTL DEF RepoSpec

\* The types of its variables.
THEOREM RepoType == RepoSpec => []RepoTypeOK
<1>1. RepoInv => RepoTypeOK
  BY DEF RepoInv
<1> QED
  BY <1>1, RepoInvariant, PTL

\* Whatever earlier runs left on the disk, the devices offered are those of a whole mapping
\* that passes for the newest, unless it was not looked for or a request failed.
THEOREM OffersTheNewest == RepoSpec => []FoundIsNewest
<1>1. RepoInv => FoundIsNewest
  BY DEF RepoInv
<1> QED
  BY <1>1, RepoInvariant, PTL

\* An update that reports success has such a mapping on the disk, unless its length request
\* failed, or it has the error page that this very run was answered with.
THEOREM UpdatesToTheNewest == RepoSpec => []UpdatedIsNewest
<1>1. RepoInv => UpdatedIsNewest
  BY DEF RepoInv
<1> QED
  BY <1>1, RepoInvariant, PTL

-----------------------------------------------------------------------------
\* The configuration: ConfigInv says which answers are in their files, and which files a
\* callback has left.

\* Each question is asked once, and while they are asked nothing is written to the root partition.
Asking ==
    /\ "Interface" \in ToSet(left) => iface = "none" /\ "Interface" \notin chosen
    /\ stage = "address" => "Interface" \notin ToSet(left) \cup chosen /\ iface # "none"
    /\ "Interface" \in chosen /\ address = "taken" => refused
    /\ stage \in {"choice", "setup", "address"} =>
           applied = {} /\ rest = <<>> /\ \A f \in RootFile : image[f] = "stock"

\* An answer is in its file, or excused.
Settled(k, f) ==
    image[f] = Content(k, f) \/ f \in silent \/ (f = "hostname" /\ "hosts" \in silent)

\* A callback has all its files to write, or the second one.
Remaining == rest = Files(doing) \/ \E f, g \in RootFile : Files(doing) = <<f, g>> /\ rest = <<g>>

\* What the callbacks called so far have written or left out, and the rest of the last one.
Writing ==
    /\ rest # <<>> => doing \in applied /\ Remaining
    /\ \A k \in applied : \A f \in ToSet(Files(k)) :
           Settled(k, f) \/ (doing = k /\ f \in ToSet(rest))

\* Write ends when all that was answered has been written.
Finished == stage = "ok" => chosen = applied /\ rest = <<>>

\* Whatever is in a file of the root partition is an answer.
Answered(f) ==
    image[f] # "stock" => \E k \in chosen : f \in ToSet(Files(k)) /\ image[f] = Content(k, f)

ConfigInv == ConfigTypeOK /\ Asking /\ Writing /\ Finished /\ \A f \in RootFile : Answered(f)

-----------------------------------------------------------------------------
\* The files of the callbacks.

\* What Head, Tail and ToSet make of a callback's files.
LEMMA FilePairs ==
  ASSUME NEW f, NEW g
  PROVE  /\ Head(<<f, g>>) = f /\ Tail(<<f, g>>) = <<g>> /\ Head(<<g>>) = g /\ Tail(<<g>>) = <<>>
         /\ ToSet(<<f, g>>) = {f, g} /\ ToSet(<<g>>) = {g} /\ ToSet(<<>>) = {}
         /\ <<f, g>> # <<>> /\ <<g>> # <<>>
<1>1. Tail(<<f, g>>) = <<g>> /\ Tail(<<g>>) = <<>>
  OBVIOUS
<1>2. ToSet(<<f, g>>) = {f, g}
  BY DEF ToSet
<1>3. ToSet(<<g>>) = {g} /\ ToSet(<<>>) = {}
  BY DEF ToSet
<1> QED
  BY <1>1, <1>2, <1>3

\* A callback has no file, one, or two, and one that stops on a message has no other second
\* file than the hostname.
LEMMA FilesForms ==
  ASSUME NEW k, iface \in {"none", "eth0", "wlan0"}, k = "Interface" => iface # "none"
  PROVE  \/ Files(k) = <<>>
         \/ \E f \in RootFile : Files(k) = <<f>>
         \/ \E f, g \in RootFile : /\ Files(k) = <<f, g>>
                                   /\ StopsOnMessage(k) => f = "hosts" /\ g = "hostname"
<1>1. CASE k = "Locale"
  BY <1>1 DEF Files, RootFile, StopsOnMessage
<1>2. CASE k = "Keymap"
  BY <1>2 DEF Files, RootFile
<1>3. CASE k = "Wifi"
  BY <1>3 DEF Files, RootFile, StopsOnMessage
<1>4. CASE k = "Interface"
  BY <1>4 DEF Files, RootFile
<1>5. CASE k = "DNS"
  BY <1>5 DEF Files, RootFile
<1>6. CASE k = "Hostname"
  BY <1>6 DEF Files, RootFile
<1>7. CASE k \notin {"Locale", "Keymap", "Wifi", "Interface", "DNS", "Hostname"}
  BY <1>7 DEF Files
<1> QED
  BY <1>1, <1>2, <1>3, <1>4, <1>5, <1>6, <1>7

\* The files by name.
LEMMA FileSets ==
  /\ ToSet(Files("Locale")) = {"locale.conf", "environment"}
  /\ ToSet(Files("Keymap")) = {"vconsole.conf"}
  /\ ToSet(Files("Wifi")) = {"wpa_supplicant.conf"} \cup IF iface = "none" THEN {"wlan0"} ELSE {}
  /\ ToSet(Files("Interface")) = {IF board = "pi" THEN "dhcpcd.conf" ELSE iface}
  /\ ToSet(Files("DNS")) = {"dhclient.conf"}
  /\ ToSet(Files("Hostname")) = {"hosts", "hostname"}
  /\ \A k : k \notin {"Locale", "Keymap", "Wifi", "Interface", "DNS", "Hostname"}
             => ToSet(Files(k)) = {}
<1>1. ToSet(Files("Locale")) = {"locale.conf", "environment"}
  <2>1. Files("Locale") = <<"locale.conf", "environment">>
    BY DEF Files
  <2>2. ToSet(<<"locale.conf", "environment">>) = {"locale.conf", "environment"}
    BY FilePairs
  <2> QED
    BY <2>1, <2>2
<1>2. ToSet(Files("Keymap")) = {"vconsole.conf"}
  <2>1. Files("Keymap") = <<"vconsole.conf">>
    BY DEF Files
  <2> QED
    BY <2>1, FilePairs
<1>3. ToSet(Files("Wifi")) = {"wpa_supplicant.conf"} \cup IF iface = "none" THEN {"wlan0"} ELSE {}
  <2>1. CASE iface = "none"
    <3>1. Files("Wifi") = <<"wpa_supplicant.conf", "wlan0">>
      BY <2>1 DEF Files
    <3>2. ToSet(<<"wpa_supplicant.conf", "wlan0">>) = {"wpa_supplicant.conf", "wlan0"}
      BY FilePairs
    <3> QED
      BY <2>1, <3>1, <3>2
  <2>2. CASE iface # "none"
    <3>1. Files("Wifi") = <<"wpa_supplicant.conf">>
      BY <2>2 DEF Files
    <3>2. ToSet(Files("Wifi")) = {"wpa_supplicant.conf"}
      BY <3>1, FilePairs
    <3> QED
      BY <2>2, <3>2
  <2> QED
    BY <2>1, <2>2
<1>4. ToSet(Files("Interface")) = {IF board = "pi" THEN "dhcpcd.conf" ELSE iface}
  BY FilePairs DEF Files
<1>5. ToSet(Files("DNS")) = {"dhclient.conf"} /\ ToSet(Files("Hostname")) = {"hosts", "hostname"}
  BY FilePairs DEF Files
<1>6. ASSUME NEW k, k \notin {"Locale", "Keymap", "Wifi", "Interface", "DNS", "Hostname"}
      PROVE  ToSet(Files(k)) = {}
  <2>1. Files(k) = <<>>
    BY <1>6 DEF Files
  <2> QED
    BY <2>1, FilePairs
<1> QED
  BY <1>1, <1>2, <1>3, <1>4, <1>5, <1>6

\* No file has two callbacks.
LEMMA FilesDisjoint ==
  ASSUME NEW j, NEW k, NEW f, f \in ToSet(Files(j)), f \in ToSet(Files(k)),
         iface \in {"none", "eth0", "wlan0"}
  PROVE  j = k
  BY FileSets

\* A key that is answered in Write has a file of the root partition.
LEMMA FilesInRoot ==
  ASSUME AskingOK, stage # "address", NEW k \in chosen
  PROVE  /\ k = "Interface" => iface # "none"
         /\ ToSet(Files(k)) \subseteq RootFile
<1>1. k = "Interface" => iface # "none"
  BY DEF AskingOK
<1>2. iface \in {"none", "eth0", "wlan0"}
  BY DEF AskingOK
<1>3. ToSet(Files(k)) \subseteq RootFile
  BY <1>1, <1>2, FileSets DEF RootFile
<1> QED
  BY <1>1, <1>3

\* The file a callback writes next, and those behind it.
LEMMA RestProperties ==
  ASSUME AskingOK, stage # "address", rest # <<>>, doing \in chosen, Remaining
  PROVE  /\ Head(rest) \in ToSet(Files(doing)) /\ Head(rest) \in RootFile
         /\ ToSet(rest) = {Head(rest)} \cup ToSet(Tail(rest))
         /\ ToSet(Tail(rest)) \subseteq RootFile
         /\ \/ Tail(rest) = <<>>
            \/ \E f, g \in RootFile : Files(doing) = <<f, g>> /\ Tail(rest) = <<g>>
         /\ StopsOnMessage(doing) =>
                \A f \in ToSet(Tail(rest)) : Head(rest) = "hosts" /\ f = "hostname"
<1>1. iface \in {"none", "eth0", "wlan0"} /\ (doing = "Interface" => iface # "none")
  BY FilesInRoot DEF AskingOK
<1>2. CASE rest = Files(doing)
  <2>1. CASE \E f \in RootFile : Files(doing) = <<f>>
    <3>1. PICK f \in RootFile : Files(doing) = <<f>>
      BY <2>1
    <3>2. Head(rest) = f /\ Tail(rest) = <<>> /\ ToSet(rest) = {f} /\ ToSet(Tail(rest)) = {}
      BY <1>2, <3>1, FilePairs
    <3> QED
      BY <1>2, <3>2
  <2>2. CASE \E f, g \in RootFile : /\ Files(doing) = <<f, g>>
                                    /\ StopsOnMessage(doing) => f = "hosts" /\ g = "hostname"
    BY <1>2, <2>2, FilePairs
  <2> QED
    BY <1>1, <1>2, <2>1, <2>2, FilesForms
<1>3. CASE \E f, g \in RootFile : Files(doing) = <<f, g>> /\ rest = <<g>>
  BY <1>3, FilePairs
<1> QED
  BY <1>2, <1>3 DEF Remaining

-----------------------------------------------------------------------------
\* The questions.

\* The question asked is one of the board's, and not asked again.
LEMMA AskedProperties ==
  ASSUME AskingOK, NEW k, Asked(k)
  PROVE  /\ k \in Keys /\ k \in ToSet(left) /\ k \notin ToSet(Tail(left))
         /\ Tail(left) \in Seq(Keys) /\ IsInjective(Tail(left))
         /\ ToSet(Tail(left)) \subseteq ToSet(left)
<1>1. left \in Seq(Keys) /\ left # <<>> /\ k = Head(left)
  BY DEF AskingOK, Asked
<1>2. /\ Head(left) \in Keys /\ Tail(left) \in Seq(Keys) /\ Len(Tail(left)) = Len(left) - 1
      /\ \A i \in 1 .. Len(Tail(left)) : Tail(left)[i] = left[i + 1]
  BY <1>1, HeadTailProperties
<1>3. /\ DOMAIN left = 1 .. Len(left) /\ Len(left) \in Nat \ {0}
      /\ DOMAIN Tail(left) = 1 .. Len(left) - 1
  BY <1>1, <1>2, LenProperties, EmptySeq
<1>4. Head(left) = left[1] /\ 1 \in DOMAIN left
  BY <1>1, <1>3
<1>5. \A i \in DOMAIN Tail(left) : i + 1 \in DOMAIN left /\ i + 1 # 1 /\ Tail(left)[i] = left[i + 1]
  BY <1>2, <1>3
<1>6. \A a, b \in DOMAIN left : left[a] = left[b] => a = b
  BY DEF AskingOK, IsInjective
<1>7. IsInjective(Tail(left))
  <2> SUFFICES ASSUME NEW a \in DOMAIN Tail(left), NEW b \in DOMAIN Tail(left),
                      Tail(left)[a] = Tail(left)[b]
               PROVE  a = b
    BY DEF IsInjective
  <2>1. a + 1 = b + 1
    BY <1>5, <1>6
  <2> QED
    BY <2>1, <1>3
<1> QED
  BY <1>1, <1>2, <1>4, <1>5, <1>6, <1>7 DEF ToSet

\* A question, or the choice whether to ask, leaves the root partition and Write alone.
SetupStep ==
    /\ stage \in {"choice", "setup", "address"} /\ stage' # "ok" /\ UNCHANGED <<board, writing>>
    /\ \A f \in RootFile : image'[f] = image[f]
    /\ image' \in [RootFile \cup BootFile -> {"stock", "set", "dhcp"}]
    /\ silent' \subseteq RootFile \cup BootFile

\* What the questions do to the files.
LEMMA SetupSteps ==
  ASSUME ConfigTypeOK,
         Quiet \/ (\E yes \in BOOLEAN : Configure(yes)) \/ Setup
  PROVE  SetupStep
<1>1. ASSUME Quiet PROVE  SetupStep
  <2>1. stage = "choice" /\ stage' # "ok" /\ UNCHANGED <<board, writing>>
    BY <1>1 DEF Quiet
  <2>2. /\ UNCHANGED image \/ image' = [image EXCEPT !["ssh"] = "set"]
        /\ silent' \subseteq silent \cup {"ssh"}
    BY <1>1 DEF Quiet, Written, Unwritten
  <2>3. /\ image \in [RootFile \cup BootFile -> {"stock", "set", "dhcp"}]
        /\ silent \subseteq RootFile \cup BootFile
    BY DEF ConfigTypeOK, WritingOK
  <2>4. "ssh" \in BootFile /\ "ssh" \notin RootFile
    BY DEF BootFile, RootFile
  <2> QED
    BY <2>1, <2>2, <2>3, <2>4 DEF SetupStep
<1>2. ASSUME NEW yes \in BOOLEAN, Configure(yes) PROVE  SetupStep
  <2>1. stage = "choice" /\ stage' # "ok" /\ UNCHANGED <<board, writing, image, silent>>
    BY <1>2 DEF Configure
  <2> QED
    BY <2>1 DEF SetupStep, ConfigTypeOK, WritingOK
<1>3. ASSUME NEW k \in Keys, NEW yes \in BOOLEAN, Ask(k, yes) PROVE  SetupStep
  <2>1. stage = "setup" /\ stage' # "ok" /\ UNCHANGED <<board, writing, image, silent>>
    BY <1>3 DEF Ask, Asked
  <2> QED
    BY <2>1 DEF SetupStep, ConfigTypeOK, WritingOK
<1>4. ASSUME NEW i \in {"none", "eth0", "wlan0"}, SetInterface(i) PROVE  SetupStep
  <2>1. stage = "setup" /\ stage' # "ok" /\ UNCHANGED <<board, writing, image, silent>>
    BY <1>4 DEF SetInterface, Asked
  <2> QED
    BY <2>1 DEF SetupStep, ConfigTypeOK, WritingOK
<1>5. ASSUME AskAddress PROVE  SetupStep
  <2>1. stage = "address" /\ stage' # "ok" /\ UNCHANGED <<board, writing, image, silent>>
    BY <1>5 DEF AskAddress
  <2> QED
    BY <2>1 DEF SetupStep, ConfigTypeOK, WritingOK
<1>6. ASSUME UseAddress PROVE  SetupStep
  <2>1. stage = "address" /\ stage' # "ok" /\ UNCHANGED <<board, writing, image, silent>>
    BY <1>6 DEF UseAddress, Store
  <2> QED
    BY <2>1 DEF SetupStep, ConfigTypeOK, WritingOK
<1>7. ASSUME NEW yes \in BOOLEAN, TryAgain(yes) PROVE  SetupStep
  <2>1. stage = "address" /\ stage' # "ok" /\ UNCHANGED <<board, writing, image, silent>>
    BY <1>7 DEF TryAgain, Store
  <2> QED
    BY <2>1 DEF SetupStep, ConfigTypeOK, WritingOK
<1>8. ASSUME NEW yes \in BOOLEAN, SetHostname(yes) PROVE  SetupStep
  <2>1. stage = "setup" /\ stage' # "ok" /\ UNCHANGED <<board, writing, image, silent>>
    BY <1>8 DEF SetHostname, Asked
  <2> QED
    BY <2>1 DEF SetupStep, ConfigTypeOK, WritingOK
<1>9. ASSUME NEW k \in {"SSH", "Camera"}, NEW f \in BootFile, NEW yes \in BOOLEAN, Enable(k, f, yes)
      PROVE  SetupStep
  <2>1. stage = "setup" /\ stage' # "ok" /\ UNCHANGED <<board, writing>>
    BY <1>9 DEF Enable, Asked
  <2>2. /\ UNCHANGED image \/ image' = [image EXCEPT ![f] = "set"]
        /\ silent' \subseteq silent \cup {f}
    BY <1>9 DEF Enable, Written, Broken, Unwritten
  <2>3. /\ image \in [RootFile \cup BootFile -> {"stock", "set", "dhcp"}]
        /\ silent \subseteq RootFile \cup BootFile
    BY DEF ConfigTypeOK, WritingOK
  <2>4. f \in BootFile /\ f \notin RootFile
    BY DEF BootFile, RootFile
  <2> QED
    BY <2>1, <2>2, <2>3, <2>4 DEF SetupStep
<1>10. ASSUME SetupEnds PROVE  SetupStep
  <2>1. stage = "setup" /\ stage' # "ok" /\ UNCHANGED <<board, writing, image, silent>>
    BY <1>10 DEF SetupEnds
  <2> QED
    BY <2>1 DEF SetupStep, ConfigTypeOK, WritingOK
<1>11. "ssh" \in BootFile /\ "config.txt" \in BootFile
  BY DEF BootFile
<1> QED
  BY <1>1, <1>2, <1>3, <1>4, <1>5, <1>6, <1>7, <1>8, <1>9, <1>10, <1>11 DEF Setup

\* Both boards can be given a static address.
LEMMA InterfaceIsKey == "Interface" \in Keys
<1>1. CASE board = "pi"
  <2>1. Questions(board)[4] = "Interface" /\ 4 \in DOMAIN Questions(board)
    BY <1>1 DEF Questions
  <2> QED
    BY <2>1 DEF Keys, ToSet
<1>2. CASE board # "pi"
  <2>1. Questions(board)[3] = "Interface" /\ 3 \in DOMAIN Questions(board)
    BY <1>2 DEF Questions
  <2> QED
    BY <2>1 DEF Keys, ToSet
<1> QED
  BY <1>1, <1>2

\* The types of the questions and their answers.
LEMMA AskingTypes ==
  ASSUME AskingOK, Asking,
         Quiet \/ (\E yes \in BOOLEAN : Configure(yes)) \/ Setup
  PROVE  AskingOK'
<1>1. ASSUME Quiet PROVE  AskingOK'
  BY <1>1 DEF Quiet, AskingOK, Keys, answers, static
<1>2. ASSUME NEW yes \in BOOLEAN, Configure(yes) PROVE  AskingOK'
  BY <1>2 DEF Configure, AskingOK, Keys, answers, static
<1>3. ASSUME NEW k \in Keys, NEW yes \in BOOLEAN, Ask(k, yes) PROVE  AskingOK'
  <2>1. /\ k \in Keys /\ Tail(left) \in Seq(Keys) /\ IsInjective(Tail(left))
        /\ Asked(k)
    BY <1>3, AskedProperties DEF Ask
  <2>2. /\ UNCHANGED <<board, iface, address, tries, refused>> /\ stage = "setup"
        /\ stage' \in {"setup", "failed"}
    BY <1>3 DEF Ask, Asked, static
  <2>3. (left' = left \/ left' = Tail(left)) /\ chosen' \in {chosen, chosen \cup {k}}
    BY <1>3 DEF Ask
  <2>4. k # "Interface" /\ Keys' = Keys
    BY <1>3, <2>2 DEF Ask, Keys
  <2> QED
    BY <2>1, <2>2, <2>3, <2>4 DEF AskingOK
<1>4. ASSUME NEW i \in {"none", "eth0", "wlan0"}, SetInterface(i) PROVE  AskingOK'
  <2>1. "Interface" \in Keys /\ Tail(left) \in Seq(Keys) /\ IsInjective(Tail(left))
    BY <1>4, AskedProperties DEF SetInterface
  <2>2. /\ UNCHANGED <<board, tries, refused>> /\ Keys' = Keys /\ left' = Tail(left)
        /\ iface' = i /\ stage = "setup"
    BY <1>4 DEF SetInterface, Asked, Keys
  <2>3. \/ i = "none" /\ UNCHANGED <<stage, chosen, address>>
        \/ /\ i # "none" /\ address' = "default"
           /\ chosen' = chosen \cup {"Interface"} /\ stage' = stage
        \/ i # "none" /\ stage' = "address" /\ UNCHANGED <<chosen, address>>
    BY <1>4 DEF SetInterface
  <2>4. "Interface" \notin chosen
    BY <1>4, AskedProperties DEF SetInterface, Asking
  <2> QED
    BY <2>1, <2>2, <2>3, <2>4 DEF AskingOK
<1>5. ASSUME AskAddress PROVE  AskingOK'
  <2>1. tries' \in 0 .. Retries
    BY <1>5, SilentAssumption DEF AskAddress, AskingOK
  <2>2. /\ address' \in {"free", "taken"} /\ Keys' = Keys
        /\ UNCHANGED <<board, stage, left, chosen, iface, refused>>
    BY <1>5 DEF AskAddress, Keys
  <2> QED
    BY <2>1, <2>2 DEF AskingOK
<1>6. ASSUME UseAddress PROVE  AskingOK'
  <2>1. Retries \in 0 .. Retries
    BY SilentAssumption
  <2>2. /\ stage = "address" /\ stage' = "setup"
        /\ chosen' = chosen \cup {"Interface"} /\ tries' = Retries
        /\ Keys' = Keys /\ UNCHANGED <<board, left, iface, address, refused>>
    BY <1>6 DEF UseAddress, Store, Keys
  <2> QED
    BY <2>1, <2>2, InterfaceIsKey DEF AskingOK, Asking
<1>7. ASSUME NEW yes \in BOOLEAN, TryAgain(yes) PROVE  AskingOK'
  <2>1. Retries \in 0 .. Retries
    BY SilentAssumption
  <2>2. /\ stage = "address" /\ tries' = Retries /\ Keys' = Keys /\ UNCHANGED <<board, left, iface>>
        /\ \/ address' = "none" /\ UNCHANGED <<stage, chosen, refused>>
           \/ /\ stage' = "setup" /\ chosen' = chosen \cup {"Interface"}
              /\ refused' = TRUE /\ address' = address
    BY <1>7 DEF TryAgain, Store, Keys
  <2> QED
    BY <2>1, <2>2, InterfaceIsKey DEF AskingOK, Asking
<1>8. ASSUME NEW yes \in BOOLEAN, SetHostname(yes) PROVE  AskingOK'
  <2>1. /\ "Hostname" \in Keys /\ Tail(left) \in Seq(Keys) /\ IsInjective(Tail(left))
        /\ Asked("Hostname")
    BY <1>8, AskedProperties DEF SetHostname
  <2>2. /\ UNCHANGED <<board, iface, address, tries, refused>> /\ stage = "setup"
        /\ stage' \in {"setup", "failed"}
    BY <1>8 DEF SetHostname, Asked, static
  <2>3. (left' = left \/ left' = Tail(left)) /\ chosen' \in {chosen, chosen \cup {"Hostname"}}
    BY <1>8 DEF SetHostname
  <2>4. Keys' = Keys
    BY <1>8, <2>2 DEF SetHostname, Keys
  <2> QED
    BY <2>1, <2>2, <2>3, <2>4 DEF AskingOK
<1>9. ASSUME NEW k \in {"SSH", "Camera"}, NEW f \in BootFile, NEW yes \in BOOLEAN, Enable(k, f, yes)
      PROVE  AskingOK'
  <2>1. /\ k \in Keys /\ Tail(left) \in Seq(Keys) /\ IsInjective(Tail(left))
        /\ Asked(k)
    BY <1>9, AskedProperties DEF Enable
  <2>2. /\ UNCHANGED <<board, iface, address, tries, refused>> /\ stage = "setup"
        /\ stage' \in {"setup", "failed"}
    BY <1>9 DEF Enable, Asked, static
  <2>3. (left' = left \/ left' = Tail(left)) /\ chosen' \in {chosen, chosen \cup {k}}
    BY <1>9 DEF Enable
  <2>4. k # "Interface" /\ Keys' = Keys
    BY <1>9, <2>2 DEF Enable, Keys
  <2> QED
    BY <2>1, <2>2, <2>3, <2>4 DEF AskingOK
<1>10. ASSUME SetupEnds PROVE  AskingOK'
  BY <1>10 DEF SetupEnds, AskingOK, Keys, answers, static
<1>11. "ssh" \in BootFile /\ "config.txt" \in BootFile
  BY DEF BootFile
<1> QED
  BY <1>1, <1>2, <1>3, <1>4, <1>5, <1>6, <1>7, <1>8, <1>9, <1>10, <1>11 DEF Setup

\* Each question is asked once.
LEMMA AskingSteps ==
  ASSUME AskingOK, Asking, SetupStep,
         Quiet \/ (\E yes \in BOOLEAN : Configure(yes)) \/ Setup
  PROVE  Asking'
<1>12. applied' = {} /\ rest' = <<>> /\ \A f \in RootFile : image'[f] = "stock"
  BY DEF SetupStep, Asking, writing
<1>1. ASSUME Quiet PROVE  Asking'
  <2>1. stage' = "write" /\ UNCHANGED <<left, chosen, iface, address, refused>>
    BY <1>1 DEF Quiet, answers, static
  <2> QED
    BY <2>1, <1>12 DEF Asking, AskingOK
<1>2. ASSUME NEW yes \in BOOLEAN, Configure(yes) PROVE  Asking'
  <2>1. stage' \in {"setup", "write"} /\ UNCHANGED <<left, chosen, iface, address, refused>>
    BY <1>2 DEF Configure, answers, static
  <2> QED
    BY <2>1, <1>12 DEF Asking, AskingOK
<1>3. ASSUME NEW k \in Keys, NEW yes \in BOOLEAN, Ask(k, yes) PROVE  Asking'
  <2>1. /\ left' = left \/ left' = Tail(left)
        /\ stage' \in {"setup", "failed"} /\ UNCHANGED <<iface, address, refused>>
        /\ chosen' \in {chosen, chosen \cup {k}} /\ k # "Interface"
    BY <1>3 DEF Ask, Asked, static
  <2>2. ToSet(Tail(left)) \subseteq ToSet(left)
    BY <1>3, AskedProperties DEF Ask
  <2> QED
    BY <2>1, <1>12, <2>2 DEF Asking, AskingOK
<1>4. ASSUME NEW i \in {"none", "eth0", "wlan0"}, SetInterface(i) PROVE  Asking'
  <2>1. /\ left' = Tail(left) /\ iface' = i /\ UNCHANGED refused
        /\ \/ i = "none" /\ UNCHANGED <<stage, chosen, address>>
           \/ i # "none" /\ address' = "default" /\ stage' = stage
           \/ i # "none" /\ stage' = "address" /\ UNCHANGED <<chosen, address>>
    BY <1>4 DEF SetInterface
  <2>2. stage = "setup" /\ "Interface" \in ToSet(left) /\ "Interface" \notin ToSet(Tail(left))
    BY <1>4, AskedProperties DEF SetInterface, Asked
  <2> QED
    BY <2>1, <2>2, <1>12 DEF Asking, AskingOK
<1>5. ASSUME AskAddress PROVE  Asking'
  <2>1. stage = "address" /\ UNCHANGED <<stage, left, chosen, iface, refused>>
    BY <1>5 DEF AskAddress
  <2> QED
    BY <2>1, <1>12 DEF Asking, AskingOK
<1>6. ASSUME UseAddress PROVE  Asking'
  <2>1. /\ stage = "address" /\ stage' = "setup" /\ address = "free"
        /\ UNCHANGED <<left, iface, address, refused>>
    BY <1>6 DEF UseAddress, Store
  <2> QED
    BY <2>1, <1>12 DEF Asking, AskingOK
<1>7. ASSUME NEW yes \in BOOLEAN, TryAgain(yes) PROVE  Asking'
  <2>1. /\ stage = "address" /\ UNCHANGED <<left, iface>>
        /\ \/ UNCHANGED <<stage, chosen, refused>>
           \/ stage' = "setup" /\ refused' = TRUE
    BY <1>7 DEF TryAgain, Store
  <2> QED
    BY <2>1, <1>12 DEF Asking, AskingOK
<1>8. ASSUME NEW yes \in BOOLEAN, SetHostname(yes) PROVE  Asking'
  <2>1. /\ left' = left \/ left' = Tail(left)
        /\ stage' \in {"setup", "failed"} /\ UNCHANGED <<iface, address, refused>>
        /\ chosen' \in {chosen, chosen \cup {"Hostname"}} /\ "Hostname" # "Interface"
    BY <1>8 DEF SetHostname, Asked, static
  <2>2. ToSet(Tail(left)) \subseteq ToSet(left)
    BY <1>8, AskedProperties DEF SetHostname
  <2> QED
    BY <2>1, <1>12, <2>2 DEF Asking, AskingOK
<1>9. ASSUME NEW k \in {"SSH", "Camera"}, NEW f \in BootFile, NEW yes \in BOOLEAN, Enable(k, f, yes)
      PROVE  Asking'
  <2>1. /\ left' = left \/ left' = Tail(left)
        /\ stage' \in {"setup", "failed"} /\ UNCHANGED <<iface, address, refused>>
        /\ chosen' \in {chosen, chosen \cup {k}} /\ k # "Interface"
    BY <1>9 DEF Enable, Asked, static
  <2>2. ToSet(Tail(left)) \subseteq ToSet(left)
    BY <1>9, AskedProperties DEF Enable
  <2> QED
    BY <2>1, <1>12, <2>2 DEF Asking, AskingOK
<1>10. ASSUME SetupEnds PROVE  Asking'
  <2>1. stage' = "write" /\ UNCHANGED <<left, chosen, iface, address, refused>>
    BY <1>10 DEF SetupEnds, answers, static
  <2> QED
    BY <2>1, <1>12 DEF Asking, AskingOK
<1>11. "ssh" \in BootFile /\ "config.txt" \in BootFile
  BY DEF BootFile
<1> QED
  BY <1>1, <1>2, <1>3, <1>4, <1>5, <1>6, <1>7, <1>8, <1>9, <1>10, <1>11 DEF Setup

-----------------------------------------------------------------------------
\* The callbacks.

\* Write leaves the answers alone, and with them the files of each callback.
WriteStep ==
    /\ stage = "write" /\ stage' \in {"write", "ok", "failed"}
    /\ UNCHANGED <<board, left, chosen, iface, address, refused, tries>>

\* A command that writes the next file of the callback, or does not.
FileStep ==
    /\ rest # <<>> /\ stage' # "ok" /\ UNCHANGED <<applied, doing>>
    /\ image' = image \/ image' = [image EXCEPT ![Head(rest)] = Content(doing, Head(rest))]
    /\ silent' = silent \/ silent' = silent \cup {Head(rest)}
    /\ \/ rest' = rest
       \/ /\ rest' = Tail(rest) \/ (rest' = <<>> /\ StopsOnMessage(doing))
          /\ \/ /\ image' = [image EXCEPT ![Head(rest)] = Content(doing, Head(rest))]
                /\ rest' = Tail(rest)
             \/ silent' = silent \cup {Head(rest)}

\* The four outcomes of a command are such steps.
LEMMA CommandSteps ==
  ASSUME CommandWritten \/ CommandFails \/ ConnectionFails
  PROVE  WriteStep /\ FileStep
<1>1. WriteStep /\ rest # <<>> /\ stage' # "ok" /\ UNCHANGED <<applied, doing>>
  BY DEF WriteStep, CommandWritten, CommandFails, ConnectionFails, answers, static
<1>2. CASE CommandWritten
  BY <1>1, <1>2 DEF FileStep, CommandWritten, Written
<1>3. CASE CommandFails
  BY <1>1, <1>3 DEF FileStep, CommandFails, Unwritten
<1>4. CASE ConnectionFails
  <2>1. CASE doing = "Wifi" /\ Head(rest) = "wlan0"
    BY <1>1, <1>4, <2>1 DEF FileStep, ConnectionFails, Unwritten
  <2>2. CASE ~(doing = "Wifi" /\ Head(rest) = "wlan0")
    BY <1>1, <1>4, <2>2 DEF FileStep, ConnectionFails, Broken
  <2> QED
    BY <2>1, <2>2
<1> QED
  BY <1>1, <1>2, <1>3, <1>4

\* The answers and their types do not change in Write.
LEMMA WriteKeepsAnswers ==
  ASSUME AskingOK, Asking, WriteStep
  PROVE  /\ AskingOK' /\ Asking'
         /\ \A k : Files(k)' = Files(k)
<1>1. Keys' = Keys
  BY DEF WriteStep, Keys
<1> QED
  BY <1>1 DEF WriteStep, AskingOK, Asking, Files

\* What a command leaves in its file, and in the others.
LEMMA FileSteps ==
  ASSUME AskingOK, WritingOK, Writing, \A f \in RootFile : Answered(f), WriteStep, FileStep,
         \A k : Files(k)' = Files(k)
  PROVE  WritingOK' /\ Writing' /\ \A f \in RootFile : Answered(f)'
<1> DEFINE h == Head(rest)
<1>1. /\ rest # <<>> /\ doing \in applied /\ doing \in chosen /\ stage # "address" /\ Remaining
      /\ iface \in {"none", "eth0", "wlan0"}
  BY DEF Writing, WritingOK, AskingOK, FileStep, WriteStep
<1>2. /\ h \in ToSet(Files(doing)) /\ h \in RootFile
      /\ ToSet(rest) = {h} \cup ToSet(Tail(rest))
      /\ ToSet(Tail(rest)) \subseteq RootFile
      /\ Tail(rest) = <<>> \/ \E f, g \in RootFile : Files(doing) = <<f, g>> /\ Tail(rest) = <<g>>
      /\ StopsOnMessage(doing) => \A f \in ToSet(Tail(rest)) : h = "hosts" /\ f = "hostname"
  BY <1>1, RestProperties
<1>3. /\ UNCHANGED <<applied, doing, chosen>>
      /\ image' = image \/ image' = [image EXCEPT ![h] = Content(doing, h)]
      /\ silent' = silent \/ silent' = silent \cup {h}
      /\ \/ rest' = rest
         \/ /\ rest' = Tail(rest) \/ (rest' = <<>> /\ StopsOnMessage(doing))
            /\ \/ image' = [image EXCEPT ![h] = Content(doing, h)] /\ rest' = Tail(rest)
               \/ silent' = silent \cup {h}
  BY DEF FileStep, WriteStep
<1> HIDE DEF h
<1>4. /\ image \in [RootFile \cup BootFile -> {"stock", "set", "dhcp"}]
      /\ Content(doing, h) \in {"set", "dhcp"}
  BY DEF WritingOK, Content
<1>5. /\ image' \in [RootFile \cup BootFile -> {"stock", "set", "dhcp"}]
      /\ \A f \in RootFile \ {h} : image'[f] = image[f]
      /\ image'[h] = image[h] \/ image'[h] = Content(doing, h)
      /\ image' = [image EXCEPT ![h] = Content(doing, h)] => image'[h] = Content(doing, h)
  BY <1>2, <1>3, <1>4
<1>6. Keys' = Keys
  BY DEF WriteStep, Keys
<1>7. WritingOK'
  <2>1. ToSet(rest') \subseteq RootFile
    BY <1>2, <1>3, FilePairs DEF WritingOK
  <2>2. silent' \subseteq RootFile \cup BootFile
    BY <1>2, <1>3 DEF WritingOK
  <2> QED
    BY <1>3, <1>5, <1>6, <2>1, <2>2 DEF WritingOK
<1>8. rest' # <<>> => doing' \in applied' /\ Remaining'
  BY <1>1, <1>2, <1>3 DEF Remaining
<1>9. ASSUME NEW k \in applied', NEW f \in ToSet(Files(k)')
      PROVE  Settled(k, f)' \/ (doing' = k /\ f \in ToSet(rest'))
  <2>1. k \in applied /\ f \in ToSet(Files(k)) /\ Content(k, f)' = Content(k, f)
    BY <1>3, <1>9 DEF Content
  <2>2. Settled(k, f) \/ (doing = k /\ f \in ToSet(rest))
    BY <2>1 DEF Writing
  <2>3. f \in RootFile
    BY <1>1, <2>1, FilesInRoot DEF WritingOK
  <2>4. CASE f # h /\ Settled(k, f)
    BY <1>3, <1>5, <2>1, <2>3, <2>4 DEF Settled
  <2>5. CASE f = h
    <3>1. k = doing
      BY <1>1, <1>2, <2>1, <2>5, FilesDisjoint
    <3>2. CASE rest' = rest
      BY <1>2, <1>3, <2>5, <3>1, <3>2
    <3>3. CASE image' = [image EXCEPT ![h] = Content(doing, h)] \/ silent' = silent \cup {h}
      BY <1>5, <2>1, <2>5, <3>1, <3>3 DEF Settled
    <3> QED
      BY <1>3, <3>2, <3>3
  <2>6. CASE f # h /\ doing = k /\ f \in ToSet(rest)
    <3>1. f \in ToSet(Tail(rest))
      BY <1>2, <2>6
    <3>2. CASE rest' = rest \/ rest' = Tail(rest)
      BY <1>3, <2>6, <3>1, <3>2
    <3>3. CASE StopsOnMessage(doing) /\ silent' = silent \cup {h}
      BY <1>2, <3>1, <3>3 DEF Settled
    <3> QED
      BY <1>3, <3>2, <3>3
  <2> QED
    BY <2>2, <2>4, <2>5, <2>6
<1>10. ASSUME NEW f \in RootFile PROVE Answered(f)'
  <2>1. CASE f # h \/ image'[h] = image[h]
    <3>1. image'[f] = image[f] /\ Answered(f)
      BY <1>5, <1>10, <2>1
    <3>2. \A k : Content(k, f)' = Content(k, f)
      BY DEF Content
    <3> QED
      BY <1>3, <3>1, <3>2 DEF Answered
  <2>2. CASE f = h /\ image'[h] = Content(doing, h)
    <3>1. PICK d \in chosen' : d = doing
      BY <1>1, <1>3
    <3> QED
      BY <1>2, <2>2, <3>1 DEF Answered, Content
  <2> QED
    BY <1>5, <2>1, <2>2
<1> QED
  BY <1>7, <1>8, <1>9, <1>10 DEF Writing

\* The start of a callback, and the end of Write.
LEMMA CallbackSteps ==
  ASSUME AskingOK, WritingOK, Writing, \A f \in RootFile : Answered(f),
         (\E k \in Keys : Callback(k)) \/ WriteEnds
  PROVE  /\ WriteStep /\ Finished'
         /\ (\A k : Files(k)' = Files(k))
                => WritingOK' /\ Writing' /\ \A f \in RootFile : Answered(f)'
<1>1. ASSUME NEW c \in Keys, Callback(c)
      PROVE  /\ WriteStep /\ Finished'
             /\ (\A k : Files(k)' = Files(k))
                    => WritingOK' /\ Writing' /\ \A f \in RootFile : Answered(f)'
  <2>1. /\ WriteStep /\ stage' = "write" /\ rest = <<>> /\ c \in chosen
        /\ UNCHANGED <<image, silent>>
        /\ applied' = applied \cup {c} /\ doing' = c /\ rest' = Files(c) /\ Keys' = Keys
    BY <1>1 DEF Callback, WriteStep, answers, static, Keys
  <2>2. SUFFICES ASSUME \A k : Files(k)' = Files(k)
                 PROVE  WritingOK' /\ Writing' /\ \A f \in RootFile : Answered(f)'
    BY <2>1 DEF Finished
  <2>3. ToSet(Files(c)) \subseteq RootFile
    BY <2>1, FilesInRoot DEF WriteStep
  <2>4. WritingOK'
    BY <2>1, <2>3 DEF WritingOK, WriteStep
  <2>5. \A k, f : Settled(k, f)' = Settled(k, f)
    BY <2>1 DEF Settled, Content
  <2>6. ToSet(rest) = {}
    BY <2>1, FilePairs
  <2>7. Writing'
    BY <2>1, <2>2, <2>5, <2>6 DEF Writing, Remaining
  <2>8. \A f \in RootFile : Answered(f)'
    BY <2>1, <2>2 DEF Answered, Content, WriteStep
  <2> QED
    BY <2>4, <2>7, <2>8
<1>2. CASE WriteEnds
  <2>1. /\ WriteStep /\ UNCHANGED <<image, silent, applied, doing, rest>> /\ Keys' = Keys
        /\ rest = <<>> /\ chosen \subseteq applied
    BY <1>2 DEF WriteEnds, WriteStep, writing, answers, static, Keys
  <2>2. SUFFICES ASSUME \A k : Files(k)' = Files(k)
                 PROVE  WritingOK' /\ Writing' /\ \A f \in RootFile : Answered(f)'
    BY <2>1 DEF Finished, WriteStep, WritingOK
  <2>3. \A k, f : Settled(k, f)' = Settled(k, f)
    BY <2>1 DEF Settled, Content
  <2>4. WritingOK'
    BY <2>1 DEF WritingOK, WriteStep
  <2>5. Writing'
    BY <2>1, <2>2, <2>3 DEF Writing, Remaining
  <2>6. \A f \in RootFile : Answered(f)'
    BY <2>1, <2>2 DEF Answered, Content, WriteStep
  <2> QED
    BY <2>4, <2>5, <2>6
<1> QED
  BY <1>1, <1>2

\* The questions leave nothing to do for Write, yet.
LEMMA SetupLeavesWriting ==
  ASSUME WritingOK, Asking, SetupStep, chosen' \subseteq Keys'
  PROVE  WritingOK' /\ Writing' /\ \A f \in RootFile : Answered(f)'
<1>1. applied' = {} /\ rest' = <<>> /\ doing' = doing /\ Keys' = Keys
  BY DEF SetupStep, Asking, writing, Keys
<1>2. \A f \in RootFile : image'[f] = "stock"
  BY DEF SetupStep, Asking
<1>3. ToSet(rest') = {}
  BY <1>1, FilePairs
<1> QED
  BY <1>1, <1>2, <1>3 DEF SetupStep, WritingOK, Writing, Answered

-----------------------------------------------------------------------------
\* The invariant.

\* Membership in a larger set of keys.
LEMMA LeftInKeys ==
  ASSUME left = Questions(board), NEW S, left \in Seq(S)
  PROVE  left \in Seq(Keys)
<1>1. DOMAIN left = 1 .. Len(left) /\ Len(left) \in Nat
  BY LenProperties
<1>2. \A i \in 1 .. Len(left) : left[i] \in Keys
  BY <1>1 DEF Keys, ToSet
<1>3. \A n \in Nat : \A s :
          s = [i \in 1 .. n |-> s[i]] /\ (\A i \in 1 .. n : s[i] \in Keys) => s \in Seq(Keys)
  BY SeqDef
<1>4. left = [i \in 1 .. Len(left) |-> left[i]]
  BY <1>1
<1> QED
  BY <1>1, <1>2, <1>3, <1>4

\* Before the first question.
LEMMA ConfigStarts == ConfigInit => ConfigInv
<1> SUFFICES ASSUME ConfigInit PROVE ConfigInv
  OBVIOUS
<1>1. left \in Seq(Keys) /\ IsInjective(left)
  <2>1. CASE board = "pi"
    <3>1. left = <<"Camera", "DNS", "Hostname", "Interface", "Keymap", "Locale", "SSH", "Wifi">>
      BY <2>1 DEF ConfigInit, Questions
    <3>2. left \in Seq({"Camera", "DNS", "Hostname", "Interface", "Keymap", "Locale", "SSH", "Wifi"})
      BY <3>1
    <3>3. IsInjective(left)
      BY <3>1 DEF IsInjective
    <3> QED
      BY <3>2, <3>3, LeftInKeys DEF ConfigInit
  <2>2. CASE board # "pi"
    <3>1. left = <<"DNS", "Hostname", "Interface", "Keymap", "Locale", "Wifi">>
      BY <2>2 DEF ConfigInit, Questions
    <3>2. left \in Seq({"DNS", "Hostname", "Interface", "Keymap", "Locale", "Wifi"})
      BY <3>1
    <3>3. IsInjective(left)
      BY <3>1 DEF IsInjective
    <3> QED
      BY <3>2, <3>3, LeftInKeys DEF ConfigInit
  <2> QED
    BY <2>1, <2>2
<1>2. Retries \in 0 .. Retries
  BY SilentAssumption
<1>3. AskingOK
  BY <1>1, <1>2 DEF ConfigInit, AskingOK
<1>4. ToSet(rest) = {} /\ image \in [RootFile \cup BootFile -> {"stock", "set", "dhcp"}]
  BY FilePairs DEF ConfigInit
<1>5. WritingOK
  BY <1>4 DEF ConfigInit, WritingOK
<1>6. Asking /\ Writing /\ Finished /\ \A f \in RootFile : Answered(f)
  BY DEF ConfigInit, Asking, Writing, Finished, Answered
<1> QED
  BY <1>3, <1>5, <1>6 DEF ConfigInv, ConfigTypeOK

\* Every step keeps the invariant.
LEMMA ConfigSteps == ConfigInv /\ [ConfigNext]_configVars => ConfigInv'
<1> SUFFICES ASSUME ConfigInv, [ConfigNext]_configVars PROVE ConfigInv'
  OBVIOUS
<1>1. /\ ConfigTypeOK /\ AskingOK /\ WritingOK /\ Asking /\ Writing /\ Finished
      /\ \A f \in RootFile : Answered(f)
  BY DEF ConfigInv, ConfigTypeOK
<1>2. CASE Quiet \/ (\E yes \in BOOLEAN : Configure(yes)) \/ Setup
  <2>1. SetupStep /\ AskingOK' /\ Asking'
    BY <1>1, <1>2, SetupSteps, AskingTypes, AskingSteps
  <2>2. chosen' \subseteq Keys'
    BY <2>1 DEF AskingOK
  <2> QED
    BY <1>1, <2>1, <2>2, SetupLeavesWriting DEF ConfigInv, ConfigTypeOK, Finished, SetupStep
<1>3. CASE CommandWritten \/ CommandFails \/ ConnectionFails
  <2>1. WriteStep /\ FileStep
    BY <1>3, CommandSteps
  <2>2. AskingOK' /\ Asking' /\ \A k : Files(k)' = Files(k)
    BY <1>1, <2>1, WriteKeepsAnswers
  <2> QED
    BY <1>1, <2>1, <2>2, FileSteps DEF ConfigInv, ConfigTypeOK, Finished, FileStep
<1>4. CASE (\E k \in Keys : Callback(k)) \/ WriteEnds
  <2>1. WriteStep /\ Finished'
    BY <1>1, <1>4, CallbackSteps
  <2>2. AskingOK' /\ Asking' /\ \A k : Files(k)' = Files(k)
    BY <1>1, <2>1, WriteKeepsAnswers
  <2> QED
    BY <1>1, <1>4, <2>1, <2>2, CallbackSteps DEF ConfigInv, ConfigTypeOK
<1>5. CASE UNCHANGED configVars
  <2>1. UNCHANGED <<board, stage, left, chosen, iface, address, tries, refused, applied, doing,
                    rest, image, silent>>
    BY <1>5 DEF configVars, answers, static, writing
  <2>2. Keys' = Keys /\ \A k : Files(k)' = Files(k)
    BY <2>1 DEF Keys, Files
  <2>3. AskingOK' /\ WritingOK' /\ Asking'
    BY <1>1, <2>1, <2>2 DEF AskingOK, WritingOK, Asking
  <2>4. \A k, f : Settled(k, f)' = Settled(k, f) /\ Content(k, f)' = Content(k, f)
    BY <2>1 DEF Settled, Content
  <2>5. Writing' /\ Finished' /\ \A f \in RootFile : Answered(f)'
    BY <1>1, <2>1, <2>2, <2>4 DEF ConfigInv, Writing, Remaining, Finished, Answered
  <2> QED
    BY <2>3, <2>5 DEF ConfigInv, ConfigTypeOK
<1> QED
  BY <1>2, <1>3, <1>4, <1>5 DEF ConfigNext, Apply, ConfigTerminated

\* The invariant of the configuration.
THEOREM ConfigInvariant == ConfigSpec => []ConfigInv
  BY ConfigStarts, ConfigSteps, PTL DEF ConfigSpec

\* The types of its variables.
THEOREM ConfigType == ConfigSpec => []ConfigTypeOK
<1>1. ConfigInv => ConfigTypeOK
  BY DEF ConfigInv
<1> QED
  BY <1>1, ConfigInvariant, PTL

\* When Write has no error every answer is in its files, or one of the excuses is true, in
\* whatever order the callbacks ran.
THEOREM AnswersApplied == ConfigSpec => []AnswersAreApplied
<1>1. ConfigInv => AnswersAreApplied
  <2> SUFFICES ASSUME ConfigInv, stage = "ok", NEW k \in chosen, NEW f \in ToSet(Files(k))
               PROVE  Settled(k, f)
    BY DEF AnswersAreApplied, Settled
  <2>1. k \in applied /\ rest = <<>>
    BY DEF ConfigInv, Finished
  <2> QED
    BY <2>1, FilePairs DEF ConfigInv, Writing
<1> QED
  BY <1>1, ConfigInvariant, PTL

\* Nothing but an answer is written, and no callback undoes what another has written.
THEOREM OnlyAnswers == ConfigSpec => []OnlyAnswersAreWritten
<1>1. ConfigInv => OnlyAnswersAreWritten
  <2> SUFFICES ASSUME ConfigInv PROVE OnlyAnswersAreWritten
    OBVIOUS
  <2>1. "wlan0" \in RootFile
    BY DEF RootFile
  <2>2. ASSUME "Interface" \in chosen PROVE image["wlan0"] # "dhcp"
    <3>1. stage # "address" /\ iface # "none"
      BY <2>2 DEF ConfigInv, ConfigTypeOK, AskingOK, Asking
    <3>2. SUFFICES ASSUME image["wlan0"] = "dhcp" PROVE FALSE
      OBVIOUS
    <3>3. PICK k \in chosen : "wlan0" \in ToSet(Files(k)) /\ Content(k, "wlan0") = "dhcp"
      BY <2>1, <3>2 DEF ConfigInv, Answered
    <3>4. k = "Wifi"
      BY <3>3 DEF Content
    <3> QED
      BY <3>1, <3>3, <3>4, FileSets
  <2> QED
    BY <2>2 DEF OnlyAnswersAreWritten, ConfigInv, Asking, Answered
<1> QED
  BY <1>1, ConfigInvariant, PTL

\* No question writes to the root partition.
THEOREM QuestionsLeaveRoot == ConfigSpec => SetupLeavesRoot
<1>1. ConfigInv /\ [ConfigNext]_configVars
         => [stage = "setup" => \A f \in RootFile : image'[f] = image[f]]_configVars
  <2> SUFFICES ASSUME ConfigInv, ConfigNext, stage = "setup"
               PROVE  \A f \in RootFile : image'[f] = image[f]
    BY DEF configVars
  <2>1. CASE Quiet \/ (\E yes \in BOOLEAN : Configure(yes)) \/ Setup
    BY <2>1, SetupSteps DEF ConfigInv, SetupStep
  <2>2. CASE Apply \/ ConfigTerminated
    BY <2>2 DEF Apply, Callback, CommandWritten, CommandFails, ConnectionFails, WriteEnds,
                ConfigTerminated
  <2> QED
    BY <2>1, <2>2 DEF ConfigNext
<1> QED
  BY <1>1, ConfigInvariant, PTL DEF ConfigSpec, SetupLeavesRoot
=============================================================================
