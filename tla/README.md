# dip_logtail: a verification development

dip_logtail is a log collector. A configuration file has one section per
*model*; each model gets a thread that follows one log file (`path`), sends
every new line to a scribe server, and, when the log is rotated, first sends
what is left of the rotated file (`backup_path`). A checkpoint file per model
lets a restarted process (`-r`) go on where the old one stopped. The promise is
in `src/README`: no log is lost when the log is rolled (line 13); an abnormal
restart may repeat lines but should not lose them (lines 30-31).

The modules here model that program in TLA+, check it with TLC on small
instances and prove the main results with TLAPS for every instance.

## 1. Inventory of the system

| Component | Source | State it keeps | Operations |
|---|---|---|---|
| Model thread | `ModelRead.cpp` 38-54, 158-193, 339-458 | `logreadfile`, `position`, `n_stat`, `o_stat`, `isreload` | `openLogFile`, `stillGood`, `readLogFile`, `logtail_File` |
| Backup drain | `ModelRead.cpp` 260-332 | the buffer `lastmsg` | `read_backupfile`, with sends and a reconnect loop of its own |
| Sender | `scribe_send.cpp` | `messages`, socket, transport, protocol, client | `open`, `isOpen`, `send`, `close` |
| Checkpoint | `ModelRead.cpp` 475-519 | `checkpoint/<model>.checkpoint`, `now`, `pass_time` | `write_checkpoint`, `setModeltime` |
| Restart | `conf.cpp` 38-60, `ModelRead.cpp` 139-156 | the three fields of the checkpoint | `getcheckpoint`, `reload` |
| Configuration | `conf.cpp`, `ModelRead.cpp` 520-692 | `models`, `modelconfig` | `parseConfig`, `parseModel` (both) |
| Process | `thread.cpp` | the models and their threads | `main -f`, `main -r`, start, join |
| Scribe RPC | `scribe.cpp` (thrift) | one connection | `send_Log`, `recv_Log`, `process_Log` |
| Waits and alarms | `ModelRead.cpp` 199-234, 306-319, 339-363, 434-449 | `t_m`, `sleep_m` | three loops of failed opens, sleeps and alarms (an HTTP post through libcurl) |
| FIFO reading | `ModelRead.cpp` 26-36, 73-123 | | dead code: not called |
| Host identity | `dip_logtail_util.cpp` | | read once at the start |

How they interact. `main` parses the configuration, builds one `ModelRead` per
section, with `-r` also reads its checkpoint, and starts one thread each. The
threads share nothing but the process (one crash ends all) and libcurl's global
state. A thread interacts with the application through the file system only:
it opens and stats `path` by name, opens `backup_path` by name, and is told of
nothing. It interacts with scribe by one synchronous call per batch,
`Log(messages)`, answered OK, TRY_LATER or not at all.

What is hard, per component, and what makes it correct:

- *Model thread.* The application writes and rotates at any moment between two
  system calls. Correct: no line owed is passed over (`NoLoss`), or only the end of
  a file that was given up within a line (`LosesOnlyUnended`); none is read twice
  (`NeverReread`), order is kept (`QueueInOrder`), lines are cut only where the
  application cut them (`CutOnlyByWrites`), and the thread always gets back to its
  log (`KeepsPolling`).
- *Backup drain.* It starts at `position`, which belongs to the old file, and may
  wait for scribe for hours in the middle. Correct: it takes exactly the rest,
  ends although no send succeeds, and only then resets `position`.
- *Sender.* A failed send may have been stored. Correct: a message leaves the queue
  only when it was stored (`NeverDropped`), and all are stored in the end
  (`Delivered`).
- *Checkpoint and restart.* The process may be killed at any step, in the middle of
  a send too, and the log goes on without it. Correct: the checkpoint never covers
  what was not even read (`CheckpointCovered`); a restart in the file of the checkpoint
  passes over nothing of it but what was in the queue (`RestartLosesOnlyQueued`), reads again only what was sent before
  the kill (`RereadsOnlyAfterCrash`), and from where it starts the file it follows
  loses nothing (`NoLossInCurrent`). That it passes over nothing at all, as
  `src/README:24` and 30-31 have it, is not so (`RestartLosesNothing`, below).
- *Waits and alarms.* Sleeps double up to five minutes, alarms are slow, servers come
  and go, checkpoints are written in certain seconds only. Correct: the thread is
  back within a bound (`BackWithin`) and soon after a short outage (`BackSoon`), alarms
  are no flood (`AlarmsApart`), and the checkpoint of a thread that polls every second
  is fresh (`Fresh`). That checkpoints come at an interval is not so (`Regular`, below).
- *Scribe RPC.* Requests bear no number, timeouts race with answers, connections
  linger after their close. Correct: an answer is never taken for the answer to
  another call (`AckedStored`), the first copies arrive in the order of the log
  (`StoredInOrder`), and a good network suffices in the end (`AllAcknowledged`).
- *Configuration.* Early returns in the middle of a file, a map that is reused.
  Correct: a section has exactly its keys (`ParsedRight`) and, once read, is not
  changed (`SectionKept`).
- *Process.* Results that nobody looks at, threads that fail or end early, one
  crash for all. Correct: the crashes have known causes (`CrashCauses`), and `main`
  waits for all threads (`ExitsLast`). That `-r` serves to change the
  configuration is not so (`ReloadAfterEdit`, below).

All the hazards found in the code are listed, at their lines, in `PROJECT.json`.

## 2. Plan

| Order | Module | What it is | State |
|---|---|---|---|
| 1 | `LogFile` | files as offsets and line ends; messages and queues | done |
| 2 | `Tailer` | one model thread, the application, scribe's answers | done |
| 3 | `Delivery` | abstract: in order, gapless, at-least-once shipping; `Tailer` implements it | done |
| 4 | `TailerInv`, `LogFileProofs`, `TailerProofs`, `TailerNoLoss` | inductive invariant and proofs | done |
| 5 | `Shipment`, `ScribeRpc`, `ScribeRpcInv`, `ScribeRpcProofs` | abstract: what a sender may rely on; thrift client and server over breaking connections; its invariant; proofs, the refinement included | done |
| 6 | `Conf` | the parser of the configuration, and what a file means | done |
| 7 | `Logtail` | `main`, its threads, two starts; composes `Conf` with a short form of the model thread | done |
| 8 | `Recovery`, `RecoveryInv` | kill at any step, torn checkpoint, restart with `-r`, rotation meanwhile; composes `Tailer` with a process that dies; its invariant | done |
| 9 | `Pace` | the three loops of waits and alarms, and the seconds in which a checkpoint is written | done |
| 10 | `LogtailProofs`, `PaceProofs` | `SectionKept`, `CrashCauses`, `ExitsLast`, `ParsedRight` for every file; the bounds of `Pace` for every sleep and call | done |
| 11 | `DeliveryProofs` | `Tailer` implements `Delivery`; `QueueInOrder`, `CutOnlyByWrites`, `NeverReread`, `CheckpointCovered` from `CalmInv` | done |
| 12 | `RecoveryProofs` | the safety of `Recovery`, for any number of kills | done |

Each module has its constants as parameters with named assumptions, one action per
operation and, but for `Meaning`, no definition that the provers cannot use.

Abstract specifications: `Delivery` for the thread and its files, `Shipment` for the
thread and its server.

## 3. The modules and the code

`LogFile`. A file is a row of units (bytes); its content is only where its
newlines are (`Breaks`, a parameter: lines of any lengths). Files are numbered in
the order of writing. `LineEnds` is one `getline`: up to the first newline, or to
the end of what can be read.

`Tailer`. The variables bear the names of the code where it has them (`position`,
`nStat`, `oStat`, `messages`, `checkpoint`); `handle` is the file open in
`logreadfile`, `linked` is `isOpen()`, `backlog` is `lastmsg` as a piece of the
rotated file, and `pc` the statement about to be executed. There is one action
between two places where the application can act:

| Actions | Code |
|---|---|
| `FirstStat`, `FirstOpen`, `FirstOpenFails` | `start`, `reload`, `openLogFile` |
| `Open`, `Stat`, `Restart` | `stillGood` |
| `BackupEmpty`, `BackupRead`, `BackupLine`, `BackupStray`, `BackupDone`, `BackupSend*`, `BackupReconnect` | `read_backupfile` |
| `ReadLine`, `ReadEnd`, `WriteCheckpoint` | `readLogFile`, `write_checkpoint` |
| `Idle`, `SendOk`, `SendFails`, `Reconnect` | `logtail_File` |
| `Sent`, `NotSent` | `scribe_send::send` and the close and open after a failure |
| `Write`, `Rename`, `Create`, `Reopen`, `CopyTruncate` | the application and its rotation (external) |

`stat` results hold the size and the file; the code sees only the inode of that
file (`Ino`), the file itself is history that the properties use. Likewise
`checkpoint.file`: on disk there is only the path, the same for every file. An
inode is not used again for another file. A truncation by copying counts as a
new file with the old inode, to which the open handles move. `start`,
`accepted` and `cuts` are history: where the thread began to read, what scribe stored,
and the places within lines where a write of the application ended.

*Surroundings.* What may happen around the thread is a parameter, `Troubles`: a
rotation while the thread starts, the new file appearing between open and stat,
a second rotation before the first was noticed, late writes to the old file,
writes that stop within a line, a file given up within a line, a truncated file
growing back, a truncation that the size cannot show, a backup that never
arrives, and a newline in the heap behind `read_backupfile`'s buffer. `Calm`
surroundings allow only the partial and torn writes and the over-read, which is
the code's own; there nothing may be lost but the torn end of a file
(`LosesOnlyUnended`), and nothing at all if files are finished before they are given
up (`Finishing`, `NoLoss`). The other troubles are either checked in runs of their own (`start`,
`stat`) or make the code lose lines by its design, and then only the properties
that must hold regardless are checked (`rough`).

*Undefined behaviour.* `std::string(buffer)` at line 287 reads past the buffer:
whether a newline is found there is a free choice (`tail`); that the read faults is
not modelled. The same conversion stops at a NUL byte: the log is taken to be text
without any, for the rest of a rotated file behind one is lost. If the first `stat` fails `n_stat` is uninitialised; the model takes
an inode that is no file's. `all_num` and `all_time` are uninitialised too, but
only logged.

*Left out.* The content of lines, `log_prefix` and the category; sleeps and alarms (a
step may be delayed arbitrarily in any case; see `Pace`); logging; the buffer of
`ifstream`, which matters only for a file truncated while it is being read, where
it makes the thread see old content a little longer.
The build recorded in the repository uses gcc 4.1, whose `tellg` after a last line
without newline returns the offset; under a C++11 library it returns -1 and the
loop would behave differently (`RestartAtEof` shows the kind of damage).

`Recovery` extends `Tailer`. `Crash` empties what the process has in memory and leaves
the files and the checkpoint; a thread that is down is one that has still to do its
first `stat`, so that every rotation and write in the meantime is one of trouble
`start`. A send that the kill interrupts may have been stored. `ThreadStep` is the
`Thread` of `Tailer`, with `Reload` for the position once there was a kill: the position
of the checkpoint, cut at the end of the file; the end, if the checkpoint is empty.
The code compares the name in the checkpoint with `path`, which the model need not: it
is the same for every file. `crashes`, `queuedBefore` and `sentBefore` are history. Where
no checkpoint file exists, the process may crash at the start (`Logtail`).

`Pace` is the same thread with time in it and the data left out. `left` is how many
seconds are left of the sleep or the call the thread is in; `Tick` lets one pass, and
every other action of the thread waits until none is left. `Call` is anything that may
take up to `Slow` seconds: a send, a failed open, an alarm, the reading of the log.
Of a poll only this is kept: whether there is something to send, and how many batches
a backup fills. `nap` is `sleep_m` in `stillGood` and `t_m` in the two others; `draining`
tells those apart, which share their actions and differ in where `t_m` is set (289,
424) and in the limit (`>` at 315, `>=` at 444).

| Actions | Code |
|---|---|
| `Open`, `PathAlarm`, `Reopen` | the loop of `stillGood`: sleep, alarm, open |
| `SendOk`, `SendFails`, `CloseOpen` | `send` and what follows, in both callers |
| `LinkAlarm`, `LinkOpen`, `LinkTest` | the loops of 306-319 and 434-449: alarm, open, sleep, test |
| `NothingToDrain`, `Drain`, `Drained` | `read_backupfile` or not |
| `ReadLog`, `WriteCheckpoint`, `Idle` | `readLogFile`, `write_checkpoint`, `sleep(1)` |
| `Change`, `Tick` | scribe and the log file coming and going; the clock (external) |

The ages are history. A second is the unit of the code's own clock (`time`).

`Delivery`. The application produces units; the collector takes them up in order,
without a gap; the server stores all that was taken. `Tailer` implements it with
log, taken and stored as the owed units, those of them stored or queued, and those
stored.

`TailerInv`, `RecoveryInv`. The inductive invariants of `Tailer` (`CalmInv`) and of
`Recovery` (`RecoveryInv`), in named parts.

`Shipment`. Messages are numbered in the order of pushing. The server has a growing
first part of them; the queue is cleared only when all of it is stored.

`ScribeRpc` refines the sends of `Tailer`: there a send stores the queue or not at once;
here request, service and reply are steps of their own.

| Actions | Code |
|---|---|
| `Push` | a line pushed by `readLogFile` or `read_backupfile` |
| `SendOpens`, `SendCannotOpen`, `Connect` | `scribe_send::send` and `open` |
| `SendLog`, `SendLogFails` | `scribeClient::send_Log` |
| `RecvLog`, `TimesOut`, `Disconnected` | `recv_Log`, and `send` with its two catch clauses |
| `CloseOpen`, `Reopen` | the callers after a failure, in `logtail_File` and `read_backupfile` |
| `Serve`, `Answer` | `scribeProcessor::process`, `process_Log` |
| `Break`, `ServerRestarts` | the network and the server (external) |

Per connection there are the requests the server has not read, the batch it is at,
and the replies the client has not read. A connection outlives its close: what was
written may still reach the server, in any order relative to the connections after
it, but the answer reaches nobody. `Conn` is how many can linger at a time; one
that nothing lingers on is used again. A write that fails leaves an incomplete
frame, of which a framed transport gives the server nothing. The queue is the set
of the numbers in it, for the code never reorders it. A late request may be stored
after the thread went on; in `Tailer` a batch whose send failed is stored at the
failure or not. What a late request stores was queued when it was sent, and by
`NeverDropped` is still queued or was stored since: stored and queued units together
stay the same, which is all that `NeverReread`, `NoLoss` and `CheckpointCovered` ask about;
the other properties ask only that enough is stored. What the server does with a batch
(`iface_->Log`) is not in the repository: it takes it whole or not, and says OK only
if it did.

`Conf`. A line is a header, a key with its value, a `[` without `]`, or one that the
loop skips; blanks and comments are cut off before. `Meaning` says without a loop what
a file should give. Keys are those of `Key`; a section that parses is taken to have
the others. A value is what `StringToInt` would make of it: a number, or `NaN` for a
text that does not begin with one.

`Logtail`. The phases of `main` and, per section, the state of its thread: the pairs
`Load`/`LoadCrashes`, `Join`/`JoinCrashes` and `Checkpoint`/`CheckpointCrashes` are the
undefined behaviour of the code, which may crash or not: dereferencing `end()` of the
map of checkpoint fields, and joining by a pid that was never set. A required key that
is missing leaves all that `parseModel` would have set after it as the memory held it
(`Garbage` for `checkpoint_time`, any numbers: the variable is a signed `long long`), and a
text that is no number leaves the local of `StringToInt` so. Threads open their log, write checkpoints and may
crash; the rest of their work is `Tailer`. The order of the sections in the map is
left open. `-f` and `-r` differ in `LoadCrashes` only, since where reading begins is
not in this module.

## 4. What is model-checked

| Run | Instance | Shows |
|---|---|---|
| `calm` | 3 files of 2 units, batches of 1; stray bytes | `CalmInv`, `NoLoss`, `QueueInOrder`, and that `Tailer` implements `Delivery` |
| `partial` | 2 files of 3 units, batches of 2; partial and torn writes, rotation at the start, stray bytes | `LosesOnlyUnended`, `CutOnlyByWrites`, `NeverReread`, `CheckpointCovered` |
| `live` | 2 files of 2 units, batches of 1, with fairness | `Delivered` |
| `rough` | 3 files of 1 unit, batches of 1, every trouble that whole lines allow | `TypeOK`, `NeverDropped`, `KeepsPolling` |
| `stat_race` | trouble `stat` only | `NoLoss` is violated |
| `recovery` | 2 files of 2 units, batches of 1, one kill; rotation at the start, late, partial and torn writes, missing backup, stray bytes | `RTypeOK`, `RecoveryInv`, `NoLossInCurrent`, `RestartLosesOnlyQueued`, `RereadsOnlyAfterCrash` |
| `restart` | 1 file of 2 units, one kill | `RestartLosesNothing` is violated |
| `rpc` | 3 connections, 2 messages, with fairness | `RpcInv`, `AckedStored`, `StoredInOrder`, that `ScribeRpc` implements `Shipment`, `AllAcknowledged` |
| `process` | every file of up to 4 lines over 2 names, 2 keys, 4 odd lines; files with a `checkpoint_time`; 2 starts | `TypeOK`, `ParsedRight`, `SectionKept`, `CrashCauses`, `ExitsLast` |
| `reload` | well-formed files with one or two sections, 2 starts | `ReloadAfterEdit` is violated |
| `pace` | sleeps of 2, 4, 8 (for 5, 10, ... 320), calls of up to 2, `checkpoint_time` 3, backups of up to 2 batches | `TypeOK`, `BackWithin`, `BackSoon`, `AlarmsApart`, `Fresh` |
| `clock` | the same | `Regular` is violated |

Bounds. `NumFiles` and `MaxUnits` bound the application's writes, nothing else; the
queue needs no bound because each unit is queued once. Three files give two
rotations in a row, by either method and mixed, the second one before or after
the backup of the first was sent; two units per file with a batch limit of one
make a batch end in the middle of a file, so that the backup has something left
to send, and a backup of two lines meets its own limit in the middle. Three
units and lines of different lengths give a partial line before and after a
whole one. `MaxUnits` is a line end in every file, so that a file can be finished.

The second rotation before the first was noticed (`burst`) needs three files; `rough`
has them, with one line each. Partial and torn writes need two units; `partial` and
`recovery` have them.

`Recovery` adds `MaxCrashes`. One kill may come at every step of the thread, in the
middle of a rotation, a drained backup or a send, with old, new or empty checkpoints.
`NoLossInCurrent` holds only where the thread's idea of its file (`o_stat`) is right:
without `stat`, `regrow`, `unseen`, which let it take a new file for the old one, and
`burst`, where a stat that fails in the middle of the second rotation does the same.

`ScribeRpc` has one bound of its own, `MaxPushed`: calls and failures are not
counted. Three connections are the current one and two that linger, so that two
old copies and a new one can arrive in any order, one message or two in each; that
it is so for any number is proved. In `Pace` time has no bound: ages are counted as
far as the properties can tell them apart (`MaxAge` is above what `BackWithin` allows),
and with 2 and 7 for 5 and 300 the sleeps are doubled twice before they stay, as in the
code never exactly at the limit.
In `process` four lines hold a header, a repeated or
broken one and keys on either side; two starts are what `-r` needs. There the
process may end for good, so deadlock is not checked.

Fairness. `Running` assumes that the thread goes on (every wait in the code is a
timed sleep, and a reconnect loop is left once the server can be reached: weak
fairness of `Thread` makes `Reconnect` happen, which amounts to the server being
reachable in the end) and that a rotation, once `path` was moved, puts a new
file there (weak fairness of `Create`). `LiveSpec` adds that a thread that sends
again and again succeeds again and again (strong fairness of the two
successful sends): without it a server that always answers TRY_LATER is a
behaviour of the code, and nothing is ever delivered. Nothing is assumed about
how often the application writes or rotates. `LiveSpec` of `ScribeRpc` assumes that
the thread goes on, as above, and the server answers what it has read; and that
from some time on there is no more trouble: connections open and do not break,
the server says OK, and does so before the timeout. The code has no answer to a
server that is always slow: it sends the same batch for ever. What may have
happened before that time is not restricted. Deadlock is checked in the calm
runs; in `partial` and `rough` the thread may end because `path` is missing at
the start, and then everything may stop.

Findings.

- `stat_race`: the new file appears between line 344 (open) and line 370 (stat by
  name). The old file is sent again from its beginning, and `position`, then an
  offset in the old file, is used in the new one, whose beginning is lost.
  `src/README:13` promises that a rotation loses nothing. An `fstat` of the open
  stream would close the gap.
- `restart`: the position is saved (line 411) before the lines are sent (429), so a kill
  in between loses them at the next `-r`. `src/README:24` says it is the position up to
  which the log was sent, so that none is lost.
- `clock`: a checkpoint is written only in a second that is a multiple of
  `checkpoint_time` since the start (line 495); polls slower than a second pass over
  them. `src/README:24` calls it the interval of the checkpoints. What is true is `Fresh`.
- `reload`: with `-r`, a section that has no checkpoint file yet makes `main`
  dereference the end of a map (`thread.cpp:175`), and the process ends for all
  sections. `src/README:30` recommends `-r` after a change of the configuration, and a
  new section never has a checkpoint.

## 5. What is proved

For all numbers and sizes of files, all placings of line ends and every batch
limit (`FileAssumption`, `TailerAssumption`); for any number of messages and
connections (`ScribeRpc`); for all sets of sections, keys and values and files of any
length (`ConfAssumption`, `LogtailAssumption`); for every first sleep, limit, duration of
calls and `checkpoint_time` (`PaceAssumption`); for any number of kills and restarts
(`Recovery`). The assumptions are on constants only; those on names say that the marks
for *no value*, *no name* and *no number* are none of the things they stand in for.

| Theorem | Says | Assumes |
|---|---|---|
| `TypeCorrect` of `TailerProofs` | `Spec => []TypeOK` | nothing on the surroundings |
| `NothingDropped` | `Spec => NeverDropped` | the same |
| `CalmInvariant` | `Spec => []CalmInv` | `Calm` |
| `OnlyUnendedLost` | `Spec => []LosesOnlyUnended` | `Calm` |
| `NothingLost` | `Spec => []NoLoss` | `Calm`, `Finishing` |
| `NothingReread` | `Spec => NeverReread` | `Calm` |
| `CheckpointBehind` | `Spec => CheckpointCovered` | `Calm` |
| `QueueOrdered` | `Spec => []QueueInOrder` | `Calm` |
| `ImplementsDelivery` | `Spec => Delivers` | `Calm`, `Finishing` |
| `LinesCutByWrites` | `Spec => []CutOnlyByWrites` | `Calm` |
| `RTypeCorrect` | `RSpec => []RTypeOK` | nothing on the surroundings |
| `RecoveryInvariant` | `RSpec => []RecoveryInv` | `Traceable` |
| `CurrentComplete` | `RSpec => []NoLossInCurrent` | `Traceable` |
| `RestartLosses` | `RSpec => RestartLosesOnlyQueued` | `Traceable` |
| `RereadsExplained` | `RSpec => RereadsOnlyAfterCrash` | `Traceable` |
| `RpcInvariant` | `Spec => []RpcInv` | nothing on network or server |
| `Acked` | `Spec => []AckedStored` | the same |
| `InOrder` | `Spec => []StoredInOrder` | the same |
| `ImplementsShipment` | `Spec => Ships` | the same |
| `TypeCorrect` of `LogtailProofs` | `Spec => []TypeOK` | nothing on the files |
| `CrashesExplained` | `Spec => []CrashCauses` | the same |
| `MainIsLast` | `Spec => []ExitsLast` | the same |
| `SectionsStay` | `Spec => SectionKept` | the same |
| `ConfigurationRead` | `Spec => []ParsedRight` | the same |
| `TypeCorrect` of `PaceProofs` | `Spec => []TypeOK` | nothing on scribe or the log file |
| `CheckpointFresh` | `Spec => []Fresh` | the same |
| `AlarmsAreApart` | `Spec => AlarmsApart` | the same |
| `WaitsAreBounded` | `Spec => []BackWithin` | the same |
| `WaitsAreInProportion` | `Spec => []BackSoon` | the same, and that no backup is being drained |

`Calm` allows partial and torn writes and the over-read of the buffer, and no other
trouble; `Finishing` excludes the torn writes, behind which the code loses the end of a
file by its design (292); `Traceable` also allows a rotation while the thread starts, late
writes, and a backup that never arrives (section 3, *Surroundings*).

`TypeOK` alone is not inductive: a step reads `size[handle]`, numbers a new file
`newest + 1` and takes a message from `backlog.file`; `Shape` says that these
exist where they are used.

`LosesOnlyUnended` says that a unit is stored, queued, *ahead* of the thread, that is, not
before `position` in the file of `o_stat` (or the rest of the backlog), or behind the
last newline of a file that the thread has left. Two steps endanger it. `Restart` jumps to
the new file: no line may be left of the old one, so the backlog must be the rest of
exactly that file (`BacklogInv`, `BehindInv`), and the loop over lines must stop only
when it holds no newline any more (`NoLineLeft`, from the well-foundedness of the
numbers). If files are finished (`FilesInv`), nothing stands behind their last newline,
which is `NoLoss`. `ReadLine` moves `position`
within `handle`: that must be the file of `o_stat`, unless it was truncated, and
then it has nothing beyond `position` (`HandleInv`, `NoticeInv`). `NoticeInv` also
says why a rotation is never overlooked: the inode differs, or the size is below
the remembered one. `BehindInv` bounds the thread to one rotation behind.
`CalmInv` is their conjunction; TLC checks it in `calm`, `TailerNoLoss` proves
that every action keeps it, one lemma per group of actions.

`AckedStored` and `StoredInOrder` follow from `RpcInv`. Clearing the queue is right if an
OK on the current connection says that the queue is stored. Nothing in a reply says
so; what does is that the connection carries nothing but the current call
(`CallInv`): when a call begins it is empty, because every failure is followed by
close and open, and then the call is in exactly one place (`Asked`, `Served`,
`Answered`). `StoredInOrder` needs that whatever arrives fits: each batch on any
connection is a piece of the log whose predecessors the server has (`WireInv`,
`Fits`), which holds when it is sent because the queue is the rest of the log behind
what is stored (`QueueInv`), and stays because `stored` only grows. With that each
step of `ScribeRpc` is a step of `Shipment` or leaves its variables alone.

In `Logtail` the cause of a crash is seen in the state after it, so `ProcessInv` carries
what every earlier phase left behind: the section being read has no entry in the map
yet, so that saving it changes none (`HeaderInv`), models and threads exist only
from their phase on (`PhaseInv`), a `checkpoint_time` that may be 0 or less belongs to a section
with a key missing (`DivisorInv`), and `main` has passed only threads that have ended or
were never created (`JoinInv`).

In `Pace` the hard part is `BackSoon`. The sleep that the thread is in when scribe or the
log file comes back is bounded by the time it has waited already, since sleeps only
double: `SoonInv` relates `nap`, `left` and `waited` at every statement of the loops. It
needs that a loop begins with `nap = First` (`NapInv`), which is so because `stillGood` and
each poll set it, and is not so in `read_backupfile`. `BackInv` gives the absolute bound,
from the limit of the doubling; it also covers waits so long that `MaxAge` no longer tells
them apart. `AlarmInv` says that behind every alarm lies a whole sleep, wherever the
outage ends. `FreshInv` says that calls a second apart miss no second of the cycle.

`NeverReread`, `CheckpointCovered`, `QueueInOrder`, `CutOnlyByWrites` and the refinement rest on
`CalmInv` and on a view of the thread in which many actions are alike: a step lets the
log grow (`Grows`), queues the next piece of the file or of the backlog (`Reads`), sends the
queue (`Sends`), goes over to the new file (`Advances`), begins to read (`Begins`), or leaves
all units where they are (`Rests`). `DeliveryProofs` shows once that each action is one of
these (`Kinds`). The units taken are then exactly the owed ones behind the thread (`TakenInv`), which gives
`NeverReread`, and with `NoLoss` each step of `Delivery`. A checkpoint is the place of
the thread at the time it is written. For the order of the queue `OrderInv` says that its
messages are in order and all behind the thread. For `CutOnlyByWrites` `SeamsInv` says that the
thread stands at a seam (a line start, the end of a write, or where it began), and that
every file ends at one: what `Reads` queues goes from seam to seam with no newline
within, the rest that stray bytes complete included.

`Recovery` has no calm: a rotation can pass while the process is down, or between the first
`stat` and the open of the restarted thread, so that `CalmInv` does not hold and
`RecoveryInv` takes its place. A thread is either *outside* its log (down, or at its
first `stat` or open), with nothing queued and `position` 0, or *inside*. Inside, it is
`Aligned` if `o_stat` is of the file it started in or a later one, and then on track as in
`CalmInv`; otherwise a rotation overtook its start, and it is `Astray`: it has read nothing,
and will notice, because the inode differs, or the file was truncated to less than it
remembers and shows nothing beyond `position` (`Noticeable`). Then it drains the backup,
perhaps from a position that belongs to another file, and reads the file it started in
from its beginning, of which it had read nothing. `TakenBehind` is the part that makes rereading impossible between kills: what
was taken since the last one lies before the place where the thread reads next.
`CheckpointInv` says that what the checkpoint on disk covers is stored, queued, or was
queued at a kill; at a restart nothing is queued, which is `RestartLosesOnlyQueued`.
`WriteCheckpoint` keeps it because the file followed has lost nothing (`NoLossInCurrent`), and
the application because whatever it writes lies behind the position that was saved.

`ParsedRight` compares a loop with what the file means as a whole, without an induction over
data: `ParseInv` is about the lines looked at so far. For some `i`, the place in the file,
and `h`, the header of the section being read, `values` is what lines `h + 1` to `i` say
(`ReadsSection`), and `models` has exactly the sections that end by line `h` (`HasSections`). A
line adds one to `i`; a header makes `h` the place itself, for `Saved` has exactly the
sections that end there (`SavedMeans`); and when the loop ends, no section that counts
ends later (`StopsAt`). That a name has only one section that counts (`OnePiece`) makes the
choice in `Meaning` no choice.

Only model-checked: `Delivered`, `AllAcknowledged` and `KeepsPolling` (liveness is out of
the prover's reach). `NeverReread`, `CheckpointCovered`, `LosesOnlyUnended` and
`CutOnlyByWrites` are proved for `Calm` surroundings; the run `partial` checks them with a
rotation while the thread starts as well, which is proved in the form of `Recovery`
(`RereadsExplained`, `CurrentComplete`).
The four properties of section 4 that are violated have no theorem.

## 6. What is not modelled

- FIFO reading (`openFIFOFile`, `readFIFO`) is dead code, and so is
  `dip_logtail_alarm_interface`. Host identity (`dip_logtail_util`), `write_pid` and the
  command line are plain I/O done once.
- Of the configuration, the optional keys without an effect on control.
- The text of alarms and the post itself; that `curl_global_init` is called from all
  threads at once (220) is a hazard inside libcurl.
- The encoding by thrift, which is generated code: a batch is the set of its messages.
- Rotations while the process is down lose what was not read; the code says so in a
  TODO (`ModelRead.cpp:180`). `Recovery` has them, but claims nothing of the old file.
- Memory: `new char[length]` (281) for a large backup may throw, and would end the process;
  like every other end of memory or of descriptors it is not among the `CrashCauses`.
- Several models at once: threads share no state that the modelled code reads, unless
  two sections name the same path or the same backup.
