# A verification project for iotit

iotit prepares SD cards and boards: it downloads an image, unpacks, mounts and
configures it in a small VirtualBox machine, and writes it to a card, or flashes
a board over USB or a serial line. This directory holds TLA+ models of its core
logic, the TLC configurations that check them, and proofs for TLAPS. All paths
below are relative to the repository's `src/`. `PROJECT.json` maps every
definition to the lines it models.

What can go wrong in this program is seldom a matter of one function. Its work is
done by goroutines that report over unbuffered channels to a caller who may have
left; its commands fail without an error, because `sudo.Exec` and `SSH.Run` drop
exit statuses; its runs leave files, mounts and a virtual machine to the next run;
and cards, networks and boards come and go while it looks the other way. The models
keep that control and abstract the data: an image is "whole", "cut" or "used", a
configuration the set of answers written.

## 1. Inventory

| component | source | state | operations | with whom | module |
|---|---|---|---|---|---|
| background job | `vendor/.../tools/lib/help/help.go` 1111-1169 | two unbuffered channels, the spinner | `Active`, `Error`, `Close`, `WaitJobAndSpin` | every long operation | `JobOutcome`, `BackgroundJob`, `BackgroundJobProofs` |
| Linux disk writer | `workstation/w_linux.go`, `vendor/.../lib/sudo` | list of mounts, chosen mount, `writable` | `ListRemovableDisk`, `WriteToDisk`, `Unmount`, `Eject`, `CopyToDisk`, `CleanDisk` | the flashers' `Write`, by a job | `DiskWriter`, `LinuxWrite`, `UnixWriteProofs`; the last two operations in `Colibri` |
| macOS disk writer | `workstation/w_darwin.go` | as on Linux | as on Linux | as on Linux | `DarwinWrite`, `UnixWriteProofs`; `CopyToDisk`, `CleanDisk` in `Colibri` |
| Windows disk writer | `workstation/w_windows.go` | as on Linux | as on Linux, and the command `clean` | as on Linux | `CheckedWriter`, `WindowsWrite`, `WindowsWriteProofs` |
| generic SD flasher | `device/sd_flasher.go`, `device/flasher.go` | loop devices, mount points and files of the machine; `d.img`, `d.folder` | `MountImg`, `Configure`, `UnmountImg`, `Write`, `Flash`, `Done` | ssh into the machine; the writer | `VmDisk`, `SdFlasher`, `MCSdFlasher`, `SdFlasherProofs` |
| Raspberry Pi, BeagleBone | `device/rasppi.go`, `device/beagle.go` | as above | their `Configure` | override the generic flasher | `SdFlasher`, `Configurator`, `SdFlasherProofs` |
| image preparation | `device/flasher.go` 49-285 | the image on the host and in the machine, retries | `DownloadImage`, `prepareImage`, `uploadImage`, `extractImage` | download, machine | `ImagePrep`, `ImageFile`, `ImageProofs` |
| download | `help.go` 374-533, 618-680 | the file, two channels, attempts | `DownloadFromUrlWithAttemptsAsync` | three goroutines | `ImageDownload`, `ImageFile`, `ImageProofs` |
| start of the machine | `device/flasher.go` 110-139 | ticker, timeout, job | `startVM` | the machine | `VmStart`, `VmSessionProofs` |
| virtual machine management | `vbox/` | archive, files, registration and state of the machine | `CheckMachine`, `StopMachines`, `GetVbox`, `Stop` | `Prepare`, `startVM`, later runs | `VmSession`, `VmSessionProofs` |
| board configuration | `device/config` | a map of callbacks, a map of answers | `Setup`, `Write`, default callbacks | ssh into the image | `Configurator`, `ImageProofs` |
| device repository | `repo/mapping.go`, `help.go` 682-709 | `mapping.json`, its date, the list in memory | `GetAllRepos`, `DownloadDevicesRepository`, the `update` command | server, later runs | `DeviceRepo`, `ImageProofs` |
| Colibri flasher | `device/colibri.go` | card, serial line, board | `Flash`, `Write`, `runUpdate` | writer, board | `Colibri`, `ColibriProofs` |
| Edison, serial flashers | `device/edison*.go`, `device/serial_flasher.go` | the machine's configuration, the board's address or port | `Prepare`, `Write`, `Configure`, `Done` | external tools, ssh to the board | `Boards`, `BoardsProofs` |
| selection, command line, dialogs | `device/device.go`, `iotit.go` | none | choose a flasher, call it | the user | the order of the calls in `Boards`; else inputs of the models |

How they interact: `device.New` chooses a flasher. `Flash` runs `Prepare`
(download, `GetVbox`, `startVM`, upload, extract), `Configure` (mount, ask,
apply, unmount) and `Write` (copy out of the machine, `WriteToDisk`, `Unmount`,
`Eject`, `Done`). The goroutines of one run share the flasher's struct; runs share
the temporary directory, `mapping.json` and, if the user keeps it, the machine.

The commands `configure` and `write` call only the method of that name.

What makes each part correct, and what is hard about it:

- *job*: the caller gets the worker's outcome whatever the order of sends, close
  and receives; hard: workers that report twice, or after their caller has left.
- *writer*: only the card in the reader its user agreed to is overwritten, an error means no card
  was touched, and a card is ejected after dd has written it, or failed unseen; hard: the card in a reader
  may be another one at the check, the confirmation and dd, and the caller runs on beside the worker.
- *Windows writer*: success is announced only for a whole image; hard: a worker that cleans the
  card in the middle of a write and asks its user to select one again.
- *SD flasher*: answers go into the image of this run and nowhere else; hard: loop
  devices that an earlier run left in a machine that is kept or resumed, plain images that are used again,
  a mounting goroutine beside the questions, files that are probed on partitions that are not mounted.
- *preparation, download*: what is mounted is the image the user asked for,
  whole, verified and, if it comes from an archive, never configured before; hard: interrupted runs, retries.
- *startVM*: it ends, with a machine that answers, and leaves no goroutine.
- *the machine's management*: whatever an earlier run left half-done, a later one ends up with a
  machine that works; hard: only the existence of files is looked at, and "running" is taken for "ready".
- *configuration*: the image holds the answers given, in any order of the map.
- *repository*: a run offers the newest mapping, and a damaged one does not stay.
- *Colibri*: nothing is copied to a card that is still being formatted, a board
  is told to update only by its boot loader's prompt, and the update ends; hard: three waits without a
  bound, on a line whose errors are dropped.
- *Edison, serial*: no board is configured or called complete that was not flashed; hard: the
  commands call methods in an order for which the machine is not set up, and boards come and go.

`PROJECT.json` lists the hazards, each at its line, with the properties that cover it.

## 2. The modules

- **JobOutcome** is the abstract job: it ends once, and success is announced only
  after the goroutine has ended. **BackgroundJob** is `help.BackgroundJob`: a send is
  two steps (the worker parks in `sendErr` or `sendProgress`; the caller receives),
  `Close` is final, and `WaitJobAndSpin` leaves on the first error or on the close.
  Its actions are the calls of *any* worker, disciplined or not. `LinuxWrite`,
  `VmStart` and `Colibri` instantiate it and use its actions inside theirs, so their
  workers are parked exactly where the code parks them. The other modules take a
  job that only ever reports once and returns as one outcome.
- **DiskWriter** is what a caller of `WriteToDisk` may rely on. **LinuxWrite** is the
  caller's rounds of `WriteToDisk` (list, choose, lock, confirm, spawn) and the
  worker's attempts (prompt, dd, report), with a user who takes cards out of the readers and puts others in.
  A reader is a `/dev` name and a card is what is in it (`slot`): the program only knows the former, and
  dd opens it last of all. `unseen` collects the failures behind a nil error of `sudo.Exec`: a dd that failed, and a
  password that was refused, after which dd never ran (the three tries of sudo itself are one prompt).
  **DarwinWrite** extends it: a variable `os` tells which build runs, and what macOS does
  otherwise, rounds within `ListRemovableDisk` and `diskutil` before dd, is added beside it.
- **CheckedWriter** is the stronger promise of the Windows writer, which looks at what dd says:
  a nil reply after the write means that the card holds the image. **WindowsWrite** has the caller, the
  worker, and `CleanDisk`, which either of them may be in (`cleaner` says which).
- **VmDisk** is the machine's loop devices and mount points as operators on a record
  (`losetup -f` takes the lowest free device; a busy mount point is kept by `mount`'s
  "is already mounted"). **SdFlasher** composes it with the three flashers and the
  goroutine of `MountImg`, over several runs. The machine is running, suspended (paused or saved) or powered off:
  `StopMachines` passes over a suspended one, and `Start` resumes it with all its mounts (`PrepareResumes`). `img` says which
  image file a run works on, a new one or the plain `.img` an earlier run left in the machine. The user of VirtualBox acts
  between runs only (`Switched`), and a suspended machine keeps its `/tmp`; that a file is found in a machine that was booted
  in between is more than the code can do. **MCSdFlasher** gives its images.
- **ImageDownload** has one action for each channel operation of the main goroutine,
  the downloader and the collector. **ImageFile** is what `DownloadImage` promises of the file: it only grows, and
  nobody writes to it after the return, which does not mean that it is whole. `ImageDownload` implements it, and
  **ImagePrep** takes the download by it (`Fetched`): the files on the host and in the machine
  over runs that may be killed at each step, a download under way included.
- **VmStart** counts time in periods of the ticker (15 s). **VmSession** extends it by the runs
  around it: what `CheckMachine`, `StopMachines` and `GetVbox` find on the disk and running, and what
  a run leaves when it fails, is killed, or ends (`Exit` resets exactly what a process owns).
- **Configurator** asks in the sorted order of the names and applies in any order, as
  `range` over a map does. A command that fails prints to stderr and is no error.
- **DeviceRepo** is `mapping.json` over days, runs and kills. Lengths are what the
  code compares, so versions of the same length are in the model. `DownloadFile` never looks at the HTTP status: the
  page of an error is one more content of the file (`Page`). The file may be write-protected (`Permissions`).
- **Colibri** is `CopyToDisk` and `CleanDisk` of Linux and macOS under the Colibri flasher, with the serial line, which breaks and
  is mended (`Cable`), and the board at its other end, which may be off, logged in, booting, or at one of its prompts. A
  text of the board is seen if one `Read` returns all of it (`Says`). `lost` collects what nobody notices.
- **Boards** has the commands `flash`, `configure` and `write` with the Edison (posix and Windows), the serial
  flasher, and the order of calls of the two kinds of SD flashers; a nil pointer
  that is dereferenced leads to `pc = "panic"`. Tools fail with or without their board, any number of times.

Definitions that are called *faulty variants* are not part of any next-state
relation. Each stands before the definition it is a variant of and shows
what a plausible mistake there would break.

## 3. What the runs check

| run | about | result |
|---|---|---|
| `job` | a worker with five errors and any sequence of calls: the result is the first error, success comes only from an ended worker, `JobOutcome` is implemented | holds |
| `write` | Linux and macOS: one card at most is overwritten, by its worker, in the reader agreed to; it is the card that was checked unless its user changed it in between (`OnlyAgreedDisk`); it is ejected afterwards, written, or not if dd failed or the password was refused unseen (`EjectAfterWrite`); an error reply means no card was touched (`ImplementsWriter`); both goroutines end | holds |
| `windows_write` | a card is changed only while it is the one last selected, and agreed to or picked in `CleanDisk`, which cleans a card that was picked without a further agreement; success is announced only for a whole image (`ImplementsChecked`); nobody writes or asks after the answer; a worker is left behind only after a dd that failed | holds |
| `sd_flash` | a card written from a new image has its own run's configuration alone, from a plain `.img` used again also that of the runs before (`NoForeignConfig`); no answer of a run reaches an image it does not work on unless the machine was kept running, or resumed (`StrayConfigNeedsKeptMachine`); answers are applied only while the image is mounted; the boot partition is copied whole unless its umount failed unseen or it is mounted twice (`BootCopiedWhole`); each run ends | holds |
| `download` | the file only grows, and rests when `DownloadImage` returns (`ImplementsFile`); it is short only after a fault nobody reports, and the download ends | holds |
| `prepare` | an extracted image that a run hands to `Configure` was configured before only if its removal failed unseen, and is cut, where the hash is known, only after a fault nobody reports, a retry or a wrong length; a plain `.img` is exempt if the run found it in the machine, where it is taken as it is (`TakenAsItWas`); only verified files are uploaded; retries end | holds |
| `vm` | over runs that fail, are killed or abandon a booting machine: what a run works in has answered it or was left running (`ReadyMachine`), the poller ends with `startVM`, a machine that comes to answer ends it, and a user who tries again gets the machine installed, unless an interruption left a cut archive or disk (`InstallRecovers`) | holds |
| `vm_start_gives_up` | `startVM` gives up after 180 seconds | **violated**: the finding |
| `configure` | the image holds exactly the answers, unless a command failed unseen or the connection broke; an address in use is written only if its user refused to try others; the questions write nothing to the root partition | holds |
| `device_repo` | a run offers the newest mapping unless it was told otherwise, and never an error page or a part of one; an update that reports success leaves the newest mapping, or the error page its own run was answered with (`UpdatedIsNewest`); a damaged mapping does not stay once the server answers for good | holds |
| `colibri` | Linux and macOS: a prepared card is whole unless something failed unseen; no copy starts beside or after a failed `CleanDisk`; a command ends, or stays in one of its three waits for the board, each for a cause nobody saw (`FlasherEnds`) | holds |
| `boards` | five flashers, three commands: a crash needs a missing machine or interface (`PanicsNeedNoMachine`: under `flash` the Windows Edison, or a host that is offline without an installed machine); only a flashed board is configured; "complete" is said only of new firmware, or after a refusal or a dd that failed unseen, and with every setting applied (`DoneIsConfigured`); a stale host key needs `--port` or a key that was not found under its name; a command ends, unless `flashall.sh` never succeeds and its user tries again for ever (`CommandEnds`) | holds |

The invariants of the types (`TypeOK`, or `HostTypeOK`, `DownloadTypeOK` and so on where modules are proved about
together) are not among the properties of the runs: a run is asked what could
really be wrong. All of them are proved.

Many of these properties excuse a history variable: `faults`, `silent`, `failed`,
`reused`. These record failures *the program itself does not see*, such as an exit status
that is dropped, or a card that was changed in its reader. The excuse is the content of the property: it says which unseen
failures are enough to break the promise, and that nothing else does. Every
excuse is an event in the code (a branch that logs and goes on, or a dropped result).

### The finding

`flasher.go:127`: `time.After` is created anew by each iteration, and the ticker wakes
the select every 15 seconds: the timeout of 180 seconds fires only if the host sleeps through it, and
`startVM` waits for a machine that does not answer for ever.

Other divergences met while modelling, with no run of their own:

- `w_linux.go:178` promises retries of the write. The loop retries only on an error
  of `sudo.Exec`, which drops the status of the command (`sudo.go:85-89`): a
  dd that fails is reported as a success, and so is a wrong password, after which no dd has run: the card is ejected as it
  was (`EjectAfterWrite`). (Proved beside it: an *error* reply means no card was touched.)
- `w_linux.go` 213-247: the card is checked and confirmed by the name of its reader, and dd opens that name after the
  password. A card that is put in between is overwritten without a question (`OnlyAgreedDisk`).
- `flasher.go` 187 and 199-202: a plain `.img` that lies in the machine is neither uploaded nor removed: the next run configures the
  image that the one before has configured (`NoForeignConfig`, `UsedImageNeedsFault`).
- `machine.go` 97-106 of go-virtualbox, called by `flasher.go:112`: a machine that was suspended is resumed with the mounts and loop devices it had
  (`StrayConfigNeedsKeptMachine`).
- `rasppi.go` 254-262: `exec` returns the connection's errors only. An umount of the boot partition that fails is followed by the copy of
  an image that is still mounted (`BootCopiedWhole`).
- `help.go` 697-708: the page of an HTTP error is stored as `mapping.json`, and `update` reports "Mapping file updated successfully"
  (`UpdatedIsNewest`).
- `sd_flasher.go:113` has its guard inverted: `UnmountImg` detaches the loop device
  only when the unmount has failed. `SdFlasher` shows what follows: in a machine that
  is kept, the next run's image gets another device than the one that is mounted
  (`StrayConfigNeedsKeptMachine`).
- `sd_flasher.go` 160-179: a refusal in `WriteToDisk` is `(nil, nil)`, and "Flashing
  Complete!" is printed. `DiskWriter` says so: a nil reply promises nothing.
- `help.go` 648-655: the collector compares the length of a file whose last bytes may
  not be written yet, and ends the program for a whole file that is "resumed".
- `flasher.go` 229: after a CRC error the retry finds `d.img` set and does not
  extract again. `flasher.go` 236-241: the repair of a "bad length" looks in
  another directory than it unzips to.
- `iotit.go:149`: the second `update` without network reports success over an empty
  mapping, since both lengths are 0. `mapping.go` 182 and 202 promise a default
  collection that does not exist.
- `w_linux.go:292` says "CleanDisk does nothing on linux"; it wipes and formats. It
  does so without a confirmation.
- `vbox/vbox.go:354` returns a machine that runs as one that is ready, and `startVM` is left out:
  after a run that was left while it booted, the next one works in a machine that does not answer
  yet (`ReadyMachine`). `vbox/machine.go` 36-39: offline, without an installed machine, the error of `NewRepositoryVM` is not looked
  at, and its nil repository is asked for its URL: a panic (`PanicsNeedNoMachine`). Lines 35 and 47 take a file's existence for its being whole: a cut
  archive, or a machine with a cut disk, is never repaired (`InstallRecovers`).
- `w_windows.go` 309-317: `CleanDisk` ignores the disk it is called with and lets the user select another,
  to which the next attempt of dd then writes (`OnlyChosenDisk` says as much). An error
  of one of its rounds is returned even if a later round succeeded (line 319). If its user
  refuses, it returns nil and "Disk formatted" is printed though nothing was. A dd that fails at last is reported twice
  (lines 253-257), and the goroutine stays parked in the second report (`WriteEnds`).
- `w_darwin.go:71` unzips to `/Volumes/KERNEL` without looking which card is mounted there: with another card of that name,
  or after a `diskutil` that failed unseen, the files go elsewhere (`CopyAfterClean`).
- `iotit.go` 108-140: `configure` and `write` call flashers whose `Configure` or `Write` dereferences
  `d.conf`, which only `Prepare` sets: they end in a panic for the Raspberry Pi and the Edison
  (`PanicsNeedNoMachine`). The Edison on Windows panics in `Configure` even under `flash`, after the
  flashing that `edison.go:39` puts before it. The `write` command of an Edison, without a
  machine, says "Can't find Intel Edison board" as often as its user answers yes; so does any other failure of `flashall.sh`
  (`edison_posix.go` 28-46), for which `CommandEnds` names it.
- `edison.go` 103-105: an empty list of interfaces comes with a nil error, whose text is printed: a panic
  instead of the fallback that the lines below provide.
- `edison.go` 66-76 with `--port`: the old host key is not forgotten, and the commands of a freshly
  flashed board are refused. Without it `DeleteHost` looks for the name in clear: a key in a file of hashed names is
  kept, and an error is only logged (`StaleKeyNeedsPort`).
- `iotit.go` 77, 103 and 126 offer `--port auto`; `serial_flasher.go:24-36` takes a port that is given literally.
- `configurator.go:408`: after the fifth address `AskInterfaceParams` offers to try again even if that address was found
  free. On Linux and macOS a ping that cannot be sent counts as an answer: without a network every address is "in use".
- `colibri.go` 224-243, 250-261 and 295-303: the waits for the login prompt, for the boot loader and for "resetting" have no bound. A card that
  misses the update, because an unzip or a format failed unseen, leaves the program waiting for ever, after "SD card prepared"; so does a command that
  did not reach the board, since the line's errors are only logged (lines 209-212 and 281-291), and a prompt that one `Read` did not
  return whole (`FlasherEnds`).
- `repo/mapping.go`: a sub-device chosen in the dialog, under a device without images of its own,
  keeps an empty directory. `iotit.go:335`: `tailLog` never counts the first byte of the file.
  `uninstall` prints "Done" when `rm` has failed, by the dropped status of `sudo.Exec`.
- `iotit.go` 108-140: the `write` command of a Colibri ends in a panic in `Done`, which
  stops a machine only `Prepare` sets up.

## 4. Bounds

Every bound is a named constant in a cfg.

- `job`: five errors; a worker reports at most once while its caller waits and is parked
  in its second report, so one would show all orders; five tell the errors apart.
- `write`: two readers (one chosen, one not) and two cards, which may begin in either or none; two changes (the card that was checked is
  taken out, and the other one put in its place), and the code's own three tries and attempts.
- `windows_write`: the same two readers and moves, three rounds, and three of the five attempts of
  dd: a first, one in the middle and a last one.
- `sd_flash`: two runs (the second finds what the first left), three loop devices (two
  images, one attached twice), images of at most two partitions: a Raspberry Pi's, one whose Linux partition comes second, and one that has it
  alone. None of the searches need find it, as a mount may fail.
- `download`: three chunks, so that there is a first, a middle and a last; the channel of
  bytes holds two instead of 10000, so that it fills up. The error channel keeps its capacity of one.
- `prepare`: two runs and the code's two retries, all four archive formats.
- `vm`: 180 s are 12 periods; three kills and two failures (so that an archive can be cut and then
  the unpacking be interrupted), one new version, one suspension, one halt.
- `configure`: the questions of both boards, the code's five addresses, one command that fails unseen: what
  `AnswersAreApplied` excuses is about one file each.
- `device_repo`: three versions, of which the first and the last have the same length and the one between
  has another, so that a stale mapping can pass for the newest one or be told from it; two kills. An error page has a length of its own. The network, the server's errors and the permissions change without a bound.
- `colibri`: two cards, one pulled out; the password is asked once for each command. The line breaks, and boards boot, without a bound.
- `boards`: no bound: tools fail as often as they like, and boards are pulled and plugged.

Pulls, plugs, kills, halts, suspensions and unseen failures are events of the
environment: a bound on them cuts long histories short, never the program's steps.

## 5. Fairness

Weak fairness of a goroutine means that a command it has started returns, a
dialog is answered, and a goroutine that can run does. Fairness is asked of each
goroutine as a whole, so it never chooses an outcome for it: that the user gives up,
or a command fails, is always open. Beyond that:

- `VmStart`, `VmSession`: the ticker's periods pass (`WF(Period)`). The property about an answering
  machine assumes in its own text that the machine keeps answering; the one about the installation, that
  the server answers from some time on and that the user tries again and again. No fairness makes him.
- `WindowsWrite`: `CleanDisk` is fair beside its callers, because it runs in whichever called it.
- `Boards`: only the program is fair, and its user, who says yes at last where the program asks until he does. The board need not boot or
  stay connected, and no tool need ever succeed: `CommandEnds` names the one loop that then has no end.
- `DeviceRepo`: days pass even if the user runs the program at noon every day
  (`SF(Day)`), and the user runs it again (`WF(Start("flash"))`); the server need not
  answer, nor the file become writable, and the property assumes in its own text what it needs.
- `Colibri`: the board boots and updates by itself; a user who has a reset button and was asked to press it does so
  (`WF(asked /\ Reset)`), no other; the boot loader catches a space in one of infinitely many boots (`SF(BoardStops)`). These are the board's and its
  user's, not the program's: without them its waits have no end. The line need not be mended, and a wait ends by its text, or that of the boot loader by a `Write`
  on a broken line, and never by itself.
- The channels' sends and receives are steps of the goroutines; a parked worker whose
  caller has left stays parked, which no fairness changes.

Deadlock is checked in all runs but `job`, where the two goroutines really
stop, and `boards`, where a command that has ended does. Elsewhere `Terminated` lets an ended program stutter, so that any other stop
is an error of the model or of the code.

## 6. What is proved

TLC checks the small instances above; TLAPS proves the following for every value of the constants. All invariants
and action properties of the runs are proved, and the four refinements (`JobOutcome`, `DiskWriter` by two writers, `CheckedWriter`, `ImageFile`). Each inductive invariant was checked by TLC, on the instance of
the run, before it was proved. The bounds of the cfgs are constants, so the proofs hold without them: for any number of
runs, kills, failures, cards and versions.

`BackgroundJobProofs`, from `ErrorAssumption` (nil and "pending" are no errors):

- `JobInvariant`: `TypeOK` and `NothingMissed`. `JobResult`: `ResultIsFirstError`. The three are
  together inductive (`IInv`): that the result is the first error needs that no error
  is dropped while the caller waits, which in turn is about where the worker is parked.
- `JobRefinement`: `Spec => Outcome!Spec`, each step a step of `JobOutcome` or a stutter. Success
  maps to an ended worker since only `Close` can yield it.

`UnixWriteProofs`, from `DiskAssumption`, `SudoErrorAssumption`, `TriesAssumption` (at
least one try and one attempt):

- `WriteType`: `TypeOK`. `EjectOnlyWritten`: `EjectAfterWrite`, what is ejected holds the image unless a failure went unseen.
  `OnlyAgreedDiskChanges`: `OnlyAgreedDisk`, a step that changes a card changes the one in the reader agreed to,
  and no second one, and it is the card checked unless the user changed it. `LinuxImplementsWriter`: `LinuxWrite` implements `DiskWriter`.
- The invariant is `WriteInv`. The properties are not
  inductive: that dd writes to the reader agreed to needs that the selection does not
  change once the worker lives (`Selection`, `WorkerOnAgreedDisk`), that the caller waits while
  dd runs (`ReplyMatches`, `ReportedAtEnd`), and the job's own invariant. `DDRunsOnce` says which attempts have not touched a card, and that
  one without an error has written it or failed unseen; `OneCard` that dd, however cards are changed, overwrites one card only, the one it has
  opened, which is the one checked unless `swapped`.
  `JobStep` shows that each step is one of `BackgroundJob` or leaves it alone, so
  that the lemmas about the job are used and not proved again.
- For macOS, `HostType`: the type of every variable. `HostChangesAgreedDisk`, `HostImplementsWriter`: the two
  properties above, for both systems. The invariant is `WriteInv` with what ties the stage and the rounds of macOS to
  the steps of Linux; a step is one of `LinuxWrite`, to which the lemmas about Linux apply, or one of macOS's own.

`WindowsWriteProofs`, from `DiskAssumption`, `ErrorAssumption` (dd's error and "not flashed" differ from each other
and from nil and "pending") and `TriesAssumption`:

- `WindowsType`. `WindowsIsQuiet`: `QuietWhenAnswered`. `WindowsChangesChosen`: `OnlyChosenDisk`. `WindowsImplementsChecked`:
  `WindowsWrite` implements `CheckedWriter`.
- The invariant is `WinInv`. That the card is the chosen one needs to know who runs while
  the other waits (`Turns`: the worker in `CleanDisk` is at no other step, and a caller in it has no worker), and
  what the shared struct's mount is at each step (`Listed`, `Agreed`). That success means a whole image needs that a worker
  closes without an error only after a good dd (`EndsWhole`), which the caller learns by the job's invariant and `ReportIsLast`.

`BoardsProofs`, from no assumption: the module has no constants:

- `BoardsType`, and the four invariants of the run: `CrashNeedsNoMachine`, `FlashBeforeConfigure`, `CompleteIsConfigured`,
  `StaleKeyIsGiven`. None is inductive: `BoardInv` adds the steps each flasher takes (`PcOfKind`), when there is a
  machine (`MachineUnderFlash`), that a card is written in the last step (`CardUntouched`), that nothing is set before `Configure` (`SettingsUntouched`, `FlashedBefore`), which callbacks
  are through (`SetupInOrder`), and when the port is known and the key forgotten (`PortAsked`).

`ColibriProofs`, from `DiskAssumption` and `ErrorAssumption`:

- `ColibriType`. `CopyWaitsForClean`: `CopyAfterClean`. `PreparedIsWhole`: `PreparedCardIsWhole`.
- The invariant is `CleanInv`. That no copy starts beside or after a failed `CleanDisk` needs that
  its caller goes on only past a goroutine that has ended (`Goroutine`, `CallerWaits`), whose error, if any, is the result by the job's
  invariant. `Mounted` and `Unharmed` say what the card holds by then. The serial line and the board leave all that alone, which the proof says once (`TalkStep`). As on Linux, `JobStep` brings in the lemmas about the job.

`SdFlasherProofs`, from `DiskAssumption` (the loop devices are numbers, from 0 on) and `RunAssumption` (the images are those of the
runs, and a partition table has at most `MaxParts` entries):

- `SdType`, and the four invariants of the run: `CardHasItsOwnConfig`, `StrayConfig`, `ConfigIsMounted`, `BootIsWhole`.
- The first half of the module is lemmas about the operators of `VmDisk`: what the machine's stacks of mounts are after each of
  them. `Shrunk` is what detaches and unmounts have in common, and `PoppedProperties`, `LoopOfMount` and `StackProperties` are used throughout.
- `SdInv` follows an answer from the mount point it is written below to the card. Which image lies below a mount point is decided by what
  earlier runs left, so `Attached` says that no device loses its image while it is mounted, and `ImagesOfRuns` that no
  image is attached before its run, or stays in a machine that was started afresh. Hence `ConfigOfRuns`: what is in an image comes from a
  run that worked on it, or from a later one that kept or resumed the machine; what the copy has of it is expected of its run (`Expected`).
  `Mounting` and `Mounted` are about the goroutine that mounts beside the questions, whose field `mounted` is looked at before
  anything is written; `BootMounted` says that the boot partition with answers in the cache is the one that is unmounted next, or is mounted a second time, and
  `BootPoint` that nothing but a first partition of `loop0` is ever mounted at its mount point.

`VmSessionProofs`, from `TimeAssumption` (the timeout is longer than a tick: 180 and 15 seconds), `TimeoutErrorAssumption` (the error is neither nil nor
"pending") and `SessionAssumption`:

- `SessionType`. `MachineIsReady`: `ReadyMachine`. `PollerIsGone`: `PollerEnds`, over all runs.
- `SessionInv` is `Polling` (the poller ends only with an answer, and a machine that has answered in this run does not boot again in it), `Awake`
  (on a host that never slept the tick is taken before the timeout, so no error makes `startVM` return before its poller), the job's invariant, and
  `Machine`: a machine that boots belongs to the run that started it, or to one that was left. The
  assumption on the timeout came out of the proof: with one tick per timeout both are ready at once, and `PollerEnds` is false.

`ImageProofs` has the four parts of an image's way to the card. They share the module and not their variables, which is why
three of the four prefix what all modules have (`DownloadSpec`, `RepoSpec`, `ConfigSpec`).

The preparation, from `PrepAssumption` (at least one run and one retry; without a retry a damaged archive would be
given up at once, and its image handed over without a reason noted):

- `PrepType`, and the three invariants of the run: `VerifiedIsUploaded`, `UsedIsRemoved`, `CutIsExcused`.
- They speak of what a run hands over, plain images included, which `Plain` follows from the upload on; `PrepInv` says what that rests on at the lines before: what is uploaded has been verified
  (`Verified`), no old image is there once they were removed, also in a retry, which keeps `d.img` (`Removed`), and a
  damaged image stays only with a reason noted (`Extracted`).

The download, from `SizeAssumption` (a file that is not empty, and a channel that has room for an entry):

- `DownloadType`. `ShortIsExcused`: `ShortFileNeedsFault`. `DownloadIsQuiet`: the downloader has ended when
  `DownloadImage` returns (`QuietWhenReturned`; the run checks what follows from it, `ImplementsFile`).
- `DownloadImplements`: `ImplementsFile`, each step a step of `ImageFile` or a stutter. `Existing`: nobody reads into a file that was not
  found or created. `BusyIsAsking`: while a goroutine is at work, `DownloadImage` has not returned.
- In `DownloadInv`, `Closing` says who closes a channel when, so that the collector's end, which the caller waits for, means that
  the downloader has ended. `Reported` follows a broken connection: it is in `errorChan`, or at the collector, or
  the file is whole all the same (`Told`); the collector sees no more than there is (`Reading`), so it ends the program.

The repository, from `VersionAssumption`:

- `RepoType`. `OffersTheNewest`: `FoundIsNewest`. `UpdatesToTheNewest`: `UpdatedIsNewest`.
- `RepoInv` adds `Answers`: the length that a run compares was that of a version the server has had since the run began (or was not told, or the request failed, or it is an error page's), and
  a file kept for it is whole, or the error page of this very run. Two versions of one length are not told apart, by the code or by the proof (`Passes`).

The configuration, from `SilentAssumption` (an address may be asked for at least once):

- `ConfigType`, the two invariants of the run, `AnswersApplied` and `OnlyAnswers`, and its action property, `QuestionsLeaveRoot`.
- `ConfigInv` has no order of the callbacks: `Writing` says of each that was called that its files are written, or excused, or still to be written by the one
  at work, which `FilesDisjoint` (no file has two callbacks, given the interface) keeps from undoing another.
  `Asking` says that no question comes twice and nothing is in the root partition yet, and `Answered` that whatever is in a file
  is an answer.

Only model-checked: all liveness (`WriteEnds`, `RunEnds`, `DownloadEnds`, `PrepareEnds`, `AnswerEndsStart`, `MappingRecovers`, `FlasherEnds`, `InstallRecovers`, `CommandEnds`): the prover has no
rules for ENABLED and fairness. Out of its reach as well are induction over data, since the
library's induction theorems take operators as parameters, and RECURSIVE operators; no
module here declares one.

## 7. Not modelled

- `Update`, `CheckUpdate`, `deregister` and most of the dialogs and presets of `vbox/` are never
  called, or cut off by the constant `VBoxTypeDefault`; `DownloadNewVersion` and `IsVersionUpToDate` in
  `repo/repository.go` have no caller either.
- Keyboard layouts, locales and Wi-Fi passwords are data.
- The inheritance of images by sub-devices in `repo/mapping.go`, and `tailLog` in `iotit.go`, are pure functions
  of data the models do not have.
- The search for a Colibri's or an ESP module's serial port is an outcome: found or not.
- `install`, `uninstall`, `list` and `log` are a call or two, without a state of their own.
- Formatting, logging, progress bars and the text of dialogs.
- Data races on a field: `LinuxWrite` and `ImageDownload` name the fields that are shared. The
  name of the file in `ImageDownload` is set by a goroutine while another reads it, and either value may be read.

## 8. Plan

Done, in this order: the job and its proofs; the Linux writer, its abstract
specification and its proofs; the SD flashers on the machine's disks; download and
preparation; `startVM`; the configurator; the repository; Colibri; the machine over the runs; the writers of macOS
and of Windows, with proofs; the proofs of Colibri, preparation and download; the Edison and the serial flasher with the commands that call
them, with proofs; the proofs of the SD flashers, the machine over the runs, the repository and the configurator; the download as an implementation of `ImageFile`.

Next, the proofs: what the models promise each other. `ImagePrep` takes the download by `ImageFile`; `SdFlasher` takes the
writer and the configurator by their results, and an abstract specification of each, implemented by the detailed one, would state
that once. And the lemmas about `VmDisk`, as theorems that are read without the flashers.

Next, the model: the pure algorithms against reference definitions (the inheritance of images, `tailLog`).
