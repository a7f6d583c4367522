------------------------------- MODULE Tailer -------------------------------
(***************************************************************************)
(* One model of dip_logtail: the thread of ModelRead::start (it follows    *)
(* `path', drains `backup_path' after a rotation, sends to scribe), with   *)
(* the application that writes and rotates the log and the scribe server   *)
(* that answers.  One action per step between two places where the         *)
(* application can act.                                                    *)
(***************************************************************************)
EXTENDS LogFile

CONSTANTS
  MaxSend,   \* max_send_msg
  Troubles   \* what the surroundings may do, a subset of TroubleKinds

(* "start"    a rotation while the thread is inside openLogFile
   "stat"     the new file appears between stillGood's open and its stat
   "burst"    a second rotation before the first one was noticed
   "late"     the application keeps the old file open after path is new
   "partial"  a write ends in the middle of a line
   "torn"     a file is given up in the middle of a line
   "regrow"   a truncated file grows back past what the thread remembers
   "unseen"   a file is truncated that the thread last saw empty
   "nobackup" the rotated file does not arrive at backup_path
   "overrun"  read_backupfile finds a newline behind its buffer            *)
TroubleKinds == {"start", "stat", "burst", "late", "partial", "torn",
                 "regrow", "unseen", "nobackup", "overrun"}

ASSUME TailerAssumption ==
  /\ MaxSend \in Nat \ {0}
  /\ Troubles \subseteq TroubleKinds

VARIABLES
  (* the files *)
  size,       \* number of units in each file
  inode,      \* inode[f]: the first file that had the inode of f
  newest,     \* the last file created so far
  path,       \* the file named path, or NoFile
  backup,     \* the file named backup_path, or NoFile
  writer,     \* the file the application writes to
  cuts,       \* (history) the places within lines where a write ended
  (* the thread *)
  pc,         \* the statement it is about to execute
  handle,     \* the file open in logreadfile, or NoFile
  nStat,      \* n_stat
  oStat,      \* o_stat
  position,   \* position
  backlog,    \* lastmsg of read_backupfile, as a piece of a file
  messages,   \* scribe_inter.messages
  linked,     \* scribe_inter.isOpen()
  checkpoint, \* the file checkpoint/<modelname>.checkpoint
  (* history *)
  start,      \* where the thread started to read
  accepted    \* the units scribe has stored

files   == <<size, inode, newest, path, backup, writer, cuts>>
reading == <<handle, nStat, oStat, position, backlog>>
history == <<start, accepted>>
vars    == <<files, pc, reading, messages, linked, checkpoint, history>>
-----------------------------------------------------------------------------
May(trouble) == trouble \in Troubles

StatOf(f) == [file |-> f, size |-> size[f]]

Ino(f) == IF f = NoFile THEN NoFile ELSE inode[f]

NoStat    == [file |-> NoFile, size |-> 0]
NoPlace   == [file |-> NoFile, pos |-> 0]
NoBacklog == [file |-> NoFile, lo |-> 0, hi |-> 0, tail |-> FALSE]

Lower(a, b) == IF a < b THEN a ELSE b

(* A checkpoint on disk: absent or empty, or a position; file is history,  *)
(* the code writes the name path, which every file of the model has.       *)
Place == [file : File \cup {NoFile}, pos : Offset]

InBackup == {"backupLine", "backupSend", "backupWait"}

PC == {"firstStat", "firstOpen", "dead", "open", "stat", "backup", "read",
       "checkpoint", "send", "wait"} \cup InBackup

(* Where the log may end, and an earlier checkpoint point, at the start.   *)
FirstOffsets == {o \in Offset : LineStart(1, o) \/ May("partial")}

(* A place is a cut if it is within a line. *)
Cut(f, o) == IF LineStart(f, o) THEN {} ELSE {<<f, o>>}

Init ==
  /\ \E s \in FirstOffsets : /\ size = [f \in File |-> IF f = 1 THEN s ELSE 0]
                            /\ cuts = Cut(1, s)
  /\ inode = [f \in File |-> f]
  /\ newest = 1
  /\ path = 1
  /\ backup = NoFile
  /\ writer = 1
  /\ pc = "firstStat"
  /\ handle = NoFile
  /\ nStat = NoStat
  /\ oStat = NoStat
  /\ position = 0
  /\ backlog = NoBacklog
  /\ messages = <<>>
  /\ linked = FALSE
  /\ checkpoint \in {NoPlace} \cup [file : {1}, pos : FirstOffsets]
  /\ start = NoPlace
  /\ accepted = {}
-----------------------------------------------------------------------------
(* The application and its log rotation.                                   *)

AtLineEnd(f) == LineStart(f, size[f])

(* The thread has noticed every rotation there was.                        *)
Absorbed == oStat.file = path

Starting == pc \in {"firstStat", "firstOpen"}

MayRotate ==
  /\ newest < NumFiles
  /\ path # NoFile
  /\ writer = path
  /\ Absorbed \/ May("burst") \/ Starting
  /\ Starting => May("start")

(* path was truncated and stillGood has not looked since.                  *)
TruncatedUnseen ==
  /\ path # NoFile
  /\ nStat.file # path
  /\ Ino(nStat.file) = inode[path]

(* The application writes a line, or a part of one.                        *)
Write ==
  /\ \E e \in size[writer] + 1 .. MaxUnits :
       /\ e \in LineEnds(writer, size[writer], e)
       /\ e \in Breaks[writer] \/ May("partial")
       /\ writer = path /\ TruncatedUnseen /\ ~May("regrow")
            => e < nStat.size /\ e <= position
       /\ size' = [size EXCEPT ![writer] = e]
       /\ cuts' = cuts \cup Cut(writer, e)
  /\ UNCHANGED <<inode, newest, path, backup, writer, pc, reading, messages,
                 linked, checkpoint, history>>

(* mv path backup_path: the application still writes to the old file.      *)
Rename ==
  /\ MayRotate
  /\ backup' \in {path} \cup (IF May("nobackup") THEN {NoFile} ELSE {})
  /\ path' = NoFile
  /\ UNCHANGED <<size, inode, newest, writer, cuts, pc, reading, messages, linked,
                 checkpoint, history>>

(* A new file appears at path; the application goes over to it, at once or *)
(* (trouble "late") some time later.                                       *)
Create ==
  /\ path = NoFile
  /\ pc = "stat" => May("stat")
  /\ AtLineEnd(writer) \/ May("torn")
  /\ newest' = newest + 1
  /\ path' = newest + 1
  /\ writer' \in {newest + 1} \cup (IF May("late") THEN {writer} ELSE {})
  /\ UNCHANGED <<size, inode, backup, cuts, pc, reading, messages, linked,
                 checkpoint, history>>

Reopen ==
  /\ path # NoFile
  /\ writer # path
  /\ AtLineEnd(writer) \/ May("torn")
  /\ writer' = path
  /\ UNCHANGED <<size, inode, newest, path, backup, cuts, pc, reading, messages,
                 linked, checkpoint, history>>

(* cp path backup_path; : > path.  What is in the file from now on counts  *)
(* as a new file, with the inode of the old one and in the same handles.   *)
CopyTruncate ==
  /\ MayRotate
  /\ AtLineEnd(writer) \/ May("torn")
  /\ oStat.size = 0 => May("unseen")
  /\ newest' = newest + 1
  /\ inode' = [inode EXCEPT ![newest + 1] = inode[path]]
  /\ path' = newest + 1
  /\ writer' = newest + 1
  /\ backup' = path
  /\ handle' = IF handle = path THEN newest + 1 ELSE handle
  /\ UNCHANGED <<size, cuts, pc, nStat, oStat, position, backlog, messages, linked,
                 checkpoint, history>>

World == Write \/ Rename \/ Create \/ Reopen \/ CopyTruncate
-----------------------------------------------------------------------------
(* Starting: openLogFile, called by start.                                 *)

(* stat(logfilename, &n_stat); o_stat = n_stat, before the file is opened. *)
(* If path is absent the two keep whatever the memory held.                *)
FirstStat ==
  /\ pc = "firstStat"
  /\ LET n == IF path = NoFile THEN NoStat ELSE StatOf(path) IN
       /\ nStat' = n
       /\ oStat' = n
  /\ pc' = "firstOpen"
  /\ UNCHANGED <<files, handle, position, backlog, messages, linked,
                 checkpoint, history>>

(* Without -r the thread starts at the end of the file; with -r, and a     *)
(* checkpoint whose path is this one, at the position it holds, or at the  *)
(* end if that is beyond.  Then one attempt to connect, whose result is    *)
(* not looked at.                                                          *)
FirstOpen ==
  /\ pc = "firstOpen"
  /\ path # NoFile
  /\ \/ position' = size[path]
     \/ /\ checkpoint.file # NoFile
        /\ position' = Lower(checkpoint.pos, size[path])
  /\ start' = [file |-> path, pos |-> position']
  /\ linked' \in BOOLEAN
  /\ pc' = "open"
  /\ UNCHANGED <<files, handle, nStat, oStat, backlog, messages, checkpoint,
                 accepted>>

(* The file cannot be opened: openLogFile returns false, the thread ends.  *)
FirstOpenFails ==
  /\ pc = "firstOpen"
  /\ path = NoFile
  /\ pc' = "dead"
  /\ UNCHANGED <<files, reading, messages, linked, checkpoint, history>>
-----------------------------------------------------------------------------
(* stillGood: open path again (waiting, with an alarm, while it is absent) *)
(* and find out whether it is still the same file.                         *)

Open ==
  /\ pc = "open"
  /\ path # NoFile
  /\ handle' = path
  /\ pc' = "stat"
  /\ UNCHANGED <<files, nStat, oStat, position, backlog, messages, linked,
                 checkpoint, history>>

(* Bug: only the size is compared. *)
RotatedBySize(n) == n.size < oStat.size

Rotated(n) == Ino(n.file) # Ino(oStat.file) \/ n.size < oStat.size

(* A stat that fails leaves n_stat as it was.                              *)
Stat ==
  /\ pc = "stat"
  /\ LET n == IF path = NoFile THEN nStat ELSE StatOf(path) IN
       /\ nStat' = n
       /\ oStat' = IF Rotated(n) THEN oStat ELSE n
       /\ pc' = IF Rotated(n) THEN "backup" ELSE "read"
  /\ UNCHANGED <<files, handle, position, backlog, messages, linked,
                 checkpoint, history>>

(* After read_backupfile: position = logreadfile.tellg() with the stream   *)
(* at the beginning, o_stat = n_stat.                                      *)
RestartAt(p, remembered) ==
  /\ position' = p
  /\ oStat' = remembered
  /\ backlog' = NoBacklog
  /\ pc' = "read"

RestartAtOldPosition == RestartAt(position, nStat)  \* bug: no reset
RestartAtEof         == RestartAt(-1, nStat)        \* bug: tellg at the end
RestartUnnoticed     == RestartAt(0, oStat)         \* bug: o_stat is kept

Restart == RestartAt(0, nStat)
-----------------------------------------------------------------------------
(* read_backupfile.                                                        *)

(* backup_path cannot be opened (an alarm goes out), or holds nothing      *)
(* beyond position.                                                        *)
BackupEmpty ==
  /\ pc = "backup"
  /\ backup # NoFile => size[backup] <= position
  /\ Restart
  /\ UNCHANGED <<files, handle, nStat, messages, linked, checkpoint, history>>

(* Everything from offset lo on goes into a buffer that std::string(buffer) *)
(* takes for a C string: what the heap holds behind it, a newline perhaps, *)
(* is taken along (tail).                                                  *)
BackupReadFrom(lo) ==
  /\ pc = "backup"
  /\ backup # NoFile
  /\ position < size[backup]
  /\ \E t \in BOOLEAN :
       /\ t => May("overrun")
       /\ backlog' = [file |-> backup, lo |-> lo, hi |-> size[backup],
                      tail |-> t]
  /\ pc' = "backupLine"
  /\ UNCHANGED <<files, handle, nStat, oStat, position, messages, linked,
                 checkpoint, history>>

BackupReadAll == BackupReadFrom(0)  \* bug: the whole backup is sent

BackupRead == BackupReadFrom(position)

PushBacklog(e) ==
  /\ messages' = Append(messages, [file |-> backlog.file, lo |-> backlog.lo,
                                   hi |-> e])
  /\ pc' = IF Len(messages') > MaxSend THEN "backupSend" ELSE "backupLine"
  /\ UNCHANGED <<files, handle, nStat, oStat, position, linked, checkpoint,
                 history>>

BackupLines == LineEnds(backlog.file, backlog.lo, backlog.hi)
                 \cap Breaks[backlog.file]

(* Bug: substr keeps the newline it should skip. *)
BackupLineKeepsNewline ==
  /\ pc = "backupLine"
  /\ \E e \in BackupLines :
       /\ PushBacklog(e)
       /\ backlog' = [backlog EXCEPT !.lo = e - 1]

BackupLine ==
  /\ pc = "backupLine"
  /\ \E e \in BackupLines :
       /\ PushBacklog(e)
       /\ backlog' = [backlog EXCEPT !.lo = e]

(* The rest of the last line, with the stray bytes up to the newline.      *)
BackupStray ==
  /\ pc = "backupLine"
  /\ BackupLines = {}
  /\ backlog.tail
  /\ PushBacklog(backlog.hi)
  /\ backlog' = [backlog EXCEPT !.lo = backlog.hi, !.tail = FALSE]

(* No newline left: what remains of lastmsg is dropped.                    *)
BackupDone ==
  /\ pc = "backupLine"
  /\ BackupLines = {}
  /\ ~backlog.tail
  /\ Restart
  /\ UNCHANGED <<files, handle, nStat, messages, linked, checkpoint, history>>
-----------------------------------------------------------------------------
(* scribe_send::send and what its callers do with the result.              *)

(* CONN_OK: connected (now or before) and the server answered OK.          *)
Sent ==
  /\ accepted' = accepted \cup Batch(messages)
  /\ messages' = <<>>
  /\ linked' = TRUE

(* Bug: the queue is cleared whatever the result. *)
NotSentCleared ==
  /\ accepted' \in {accepted, accepted \cup Batch(messages)}
  /\ linked' \in BOOLEAN
  /\ messages' = <<>>

(* CONN_TRANSIENT: the server answered TRY_LATER.  CONN_FATAL: no          *)
(* connection, or an exception, and then the server may have stored the    *)
(* messages all the same.  Either way the caller keeps them, closes the    *)
(* connection and tries to open it again.                                  *)
NotSent ==
  /\ accepted' \in {accepted, accepted \cup Batch(messages)}
  /\ linked' \in BOOLEAN
  /\ UNCHANGED messages

BackupSendOk ==
  /\ pc = "backupSend"
  /\ Sent
  /\ pc' = "backupLine"
  /\ UNCHANGED <<files, reading, checkpoint, start>>

BackupSendFails ==
  /\ pc = "backupSend"
  /\ NotSent
  /\ pc' = IF linked' THEN "backupLine" ELSE "backupWait"
  /\ UNCHANGED <<files, reading, checkpoint, start>>

(* Bug: after the reconnect the same batch is tried until it goes through. *)
BackupReconnectRetries ==
  /\ pc = "backupWait"
  /\ linked' = TRUE
  /\ pc' = "backupSend"
  /\ UNCHANGED <<files, reading, messages, checkpoint, history>>

(* The loop of opens, alarms and sleeps, left when an open succeeds.       *)
BackupReconnect ==
  /\ pc = "backupWait"
  /\ linked' = TRUE
  /\ pc' = "backupLine"
  /\ UNCHANGED <<files, reading, messages, checkpoint, history>>
-----------------------------------------------------------------------------
(* readLogFile.                                                            *)

(* One getline: a line, or what there is of the last one, after which the  *)
(* stream is at its end and the next getline fails.                        *)
ReadLine ==
  /\ pc = "read"
  /\ \E e \in LineEnds(handle, position, size[handle]) :
       /\ messages' = Append(messages, [file |-> handle, lo |-> position,
                                        hi |-> e])
       /\ position' = e
       /\ pc' = IF Len(messages') >= MaxSend \/ e \notin Breaks[handle]
                THEN "checkpoint" ELSE "read"
  /\ UNCHANGED <<files, handle, nStat, oStat, backlog, linked, checkpoint,
                 history>>

ReadEnd ==
  /\ pc = "read"
  /\ size[handle] <= position
  /\ pc' = "checkpoint"
  /\ UNCHANGED <<files, reading, messages, linked, checkpoint, history>>

(* write_checkpoint, when pass_time is a multiple of checkpoint_time, and  *)
(* the close of the log file.  If the file cannot be opened it keeps what  *)
(* it held; if the write fails it is left empty.                           *)
SaveCheckpoint(p) ==
  /\ pc = "checkpoint"
  /\ checkpoint' \in {checkpoint, NoPlace, [file |-> oStat.file, pos |-> p]}
  /\ handle' = NoFile
  /\ pc' = "send"
  /\ UNCHANGED <<files, nStat, oStat, position, backlog, messages, linked,
                 history>>

WriteCheckpointSize == SaveCheckpoint(oStat.size)  \* bug: the file's size

WriteCheckpoint == SaveCheckpoint(position)
-----------------------------------------------------------------------------
(* logtail_File.                                                           *)

Idle ==
  /\ pc = "send"
  /\ messages = <<>>
  /\ pc' = "open"
  /\ UNCHANGED <<files, reading, messages, linked, checkpoint, history>>

SendOk ==
  /\ pc = "send"
  /\ messages # <<>>
  /\ Sent
  /\ pc' = "open"
  /\ UNCHANGED <<files, reading, checkpoint, start>>

SendFails ==
  /\ pc = "send"
  /\ messages # <<>>
  /\ NotSent
  /\ pc' = IF linked' THEN "open" ELSE "wait"
  /\ UNCHANGED <<files, reading, checkpoint, start>>

(* Bug: the queue is given up when the connection is back. *)
ReconnectCleared ==
  /\ pc = "wait"
  /\ linked' = TRUE
  /\ messages' = <<>>
  /\ pc' = "open"
  /\ UNCHANGED <<files, reading, checkpoint, history>>

Reconnect ==
  /\ pc = "wait"
  /\ linked' = TRUE
  /\ pc' = "open"
  /\ UNCHANGED <<files, reading, messages, checkpoint, history>>

Thread == \/ FirstStat \/ FirstOpen \/ FirstOpenFails \/ Open \/ Stat
          \/ BackupEmpty \/ BackupRead \/ BackupLine \/ BackupStray
          \/ BackupDone \/ BackupSendOk \/ BackupSendFails
          \/ BackupReconnect \/ ReadLine \/ ReadEnd \/ WriteCheckpoint
          \/ Idle \/ SendOk \/ SendFails \/ Reconnect

Next == World \/ Thread

Spec == Init /\ [][Next]_vars
-----------------------------------------------------------------------------
(* What the thread owes, and where it stands.  A unit is <<file, offset>>. *)

Precedes(u, v) ==
  \/ u[1] < v[1]
  \/ u[1] = v[1] /\ u[2] < v[2]

(* Every unit written at or after the place where the thread started.      *)
Owed ==
  {u \in File \X Offset : /\ start.file # NoFile
                          /\ u[2] < size[u[1]]
                          /\ ~Precedes(u, <<start.file, start.pos>>)}

Pending == Batch(messages)

Taken  == (accepted \cup Pending) \cap Owed
Stored == accepted \cap Owed

(* The offset in the file of o_stat up to which the thread has read.       *)
ReadUpTo == IF pc \in InBackup THEN backlog.lo ELSE position

(* The thread has still to read the unit.                                  *)
Ahead(u) == ~Precedes(u, <<oStat.file, ReadUpTo>>)

TypeOK ==
  /\ size \in [File -> Offset]
  /\ inode \in [File -> File]
  /\ newest \in File
  /\ path \in File \cup {NoFile}
  /\ backup \in File \cup {NoFile}
  /\ writer \in File
  /\ cuts \subseteq File \X Offset
  /\ pc \in PC
  /\ handle \in File \cup {NoFile}
  /\ nStat \in [file : File \cup {NoFile}, size : Offset]
  /\ oStat \in [file : File \cup {NoFile}, size : Offset]
  /\ position \in Offset
  /\ backlog \in [file : File \cup {NoFile}, lo : Offset, hi : Offset,
                  tail : BOOLEAN]
  /\ messages \in Seq(Message)
  /\ linked \in BOOLEAN
  /\ checkpoint \in Place
  /\ start \in Place
  /\ accepted \subseteq File \X Offset

(* No line that was written after the thread started is passed over: each  *)
(* unit is stored by scribe, waits in the queue, or is still ahead of the  *)
(* thread, through batches, rotations, drained backups and failed sends    *)
(* (README: no log is lost when the log is rolled).                        *)
NoLoss == \A u \in Owed : u \in accepted \/ u \in Pending \/ Ahead(u)

(* The queue holds the lines in the order in which they were written, the  *)
(* end of the rolled file before the beginning of the new one.             *)
QueueInOrder ==
  \A i, j \in DOMAIN messages :
    i < j => WrittenBefore(messages[i], messages[j])

(* What the file held behind its last newline when the thread left it.     *)
Unended(u) ==
  /\ u[1] < oStat.file
  /\ \A b \in Breaks[u[1]] : b <= u[2] \/ size[u[1]] < b

(* Where files are given up in the middle of a line, read_backupfile drops *)
(* the rest behind the last newline; nothing but that is ever passed over. *)
LosesOnlyUnended ==
  \A u \in Owed : u \in accepted \/ u \in Pending \/ Ahead(u) \/ Unended(u)

(* A line begins or ends here, or a write ended, or the thread started.    *)
Seam(f, o) ==
  \/ LineStart(f, o)
  \/ <<f, o>> \in cuts
  \/ start = [file |-> f, pos |-> o]

(* A message never spans a newline, and it is cut only where the log was:  *)
(* a line that was written at once is one message, wherever batches, polls *)
(* and rotations fall, and one that was read while it was being written    *)
(* falls into the parts that were written.  Stray bytes behind a buffer    *)
(* bring no other part of the log.  (What the thread does not owe may be   *)
(* drained from an odd place, if a rotation overtook its start.)           *)
CutOnlyByWrites ==
  \A i \in DOMAIN messages :
    LET m == messages[i] IN
      ~Precedes(<<m.file, m.lo>>, <<start.file, start.pos>>) =>
        /\ Seam(m.file, m.lo)
        /\ Seam(m.file, m.hi)
        /\ \A b \in Breaks[m.file] : b <= m.lo \/ m.hi <= b

(* A message leaves the queue only when scribe has stored it.              *)
NeverDropped == [][Pending \subseteq accepted' \cup Batch(messages')]_vars

(* A unit that was queued once is never read from a file again: what       *)
(* scribe gets twice, it gets because a reply was lost.                    *)
NeverReread ==
  [][\A i \in DOMAIN messages' \ DOMAIN messages :
       Units(messages'[i]) \cap (accepted \cup Pending) = {}]_vars

(* The checkpoint never runs ahead of the reading: what it counts as done  *)
(* is stored or in the queue (or was the torn end of a rotated file).      *)
CheckpointCovered ==
  [][checkpoint' \notin {checkpoint, NoPlace} =>
       \A u \in Owed :
         Precedes(u, <<checkpoint'.file, checkpoint'.pos>>)
           => u \in accepted \cup Pending \/ Unended(u)]_vars

(* The thread is a collector that takes the log up in order, without gaps, *)
(* and ships all it took.                                                  *)
D == INSTANCE Delivery WITH log <- Owed, taken <- Taken, stored <- Stored

Delivers == D!DSpec
-----------------------------------------------------------------------------
(* Scheduling.  The thread runs forever: its calls end by a timeout, and a *)
(* loop of failed opens ends because the server, or the file, can be       *)
(* opened again in the end.  A rotation, once begun, is finished by        *)
(* whoever began it.                                                       *)
Running == Spec /\ WF_vars(Thread) /\ WF_vars(Create)

(* Moreover the scribe server is not out of service for ever: a thread     *)
(* that keeps sending succeeds at last.                                    *)
LiveSpec == Running /\ SF_vars(SendOk) /\ SF_vars(BackupSendOk)

(* Every line that is owed is stored in the end, though sends fail, the    *)
(* log is rotated under way and batches are cut short.                     *)
Delivered == \A u \in File \X Offset : u \in Owed ~> u \in accepted

(* Draining a backup ends and the thread comes back to its log, whatever   *)
(* rotations do and even if scribe never accepts anything; unless it died  *)
(* at the start.                                                           *)
KeepsPolling == []<>(pc \in {"open", "dead"})
=============================================================================
