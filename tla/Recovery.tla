------------------------------ MODULE Recovery ------------------------------
(***************************************************************************)
(* The process is killed and started again with -r: what a model thread    *)
(* (Tailer) has in memory is gone, the checkpoint file stays, and the log  *)
(* may be written to and rotated in the meantime.  A process that is down  *)
(* is one that has still to execute its first stat.                        *)
(***************************************************************************)
EXTENDS Tailer

CONSTANT MaxCrashes  \* how often the process is killed (bound)

ASSUME RecoveryAssumption == MaxCrashes \in Nat

VARIABLES
  crashes,      \* how often it was killed so far
  (* history *)
  queuedBefore, \* the units that were in the queue when it was killed
  sentBefore    \* the units that scribe had at the last kill

recovery == <<crashes, queuedBefore, sentBefore>>
rvars    == <<vars, recovery>>

(* A checkpoint from an earlier time is one of this file. *)
RInit ==
  /\ Init
  /\ checkpoint.pos <= size[1]
  /\ crashes = 0
  /\ queuedBefore = {}
  /\ sentBefore = {}

(* At any moment, in the middle of a send too, which scribe may then have  *)
(* stored or not.  A kill between the truncation of the checkpoint file    *)
(* and the write to it is a kill after a WriteCheckpoint that left it      *)
(* empty.                                                                  *)
Crash ==
  /\ crashes < MaxCrashes
  /\ crashes' = crashes + 1
  /\ accepted' \in {accepted} \cup (IF pc \in {"send", "backupSend"}
                                    THEN {accepted \cup Pending} ELSE {})
  /\ queuedBefore' = queuedBefore \cup Pending
  /\ sentBefore' = accepted'
  /\ pc' = "firstStat"
  /\ handle' = NoFile
  /\ nStat' = NoStat
  /\ oStat' = NoStat
  /\ position' = 0
  /\ backlog' = NoBacklog
  /\ messages' = <<>>
  /\ linked' = FALSE
  /\ UNCHANGED <<files, checkpoint, start>>

(* Bug: the position of the checkpoint is used before the file is looked   *)
(* at, and the seek to its end comes afterwards.                           *)
ReloadAtEnd == position' = size[path]

(* ModelRead::reload compares the name in the checkpoint with path, which  *)
(* is the same for every file that ever had it; openLogFile cuts the       *)
(* position at the end of the file.  An empty checkpoint file has no name, *)
(* and the thread starts at the end (no checkpoint file: see Logtail).     *)
Reload ==
  position' = IF checkpoint.file = NoFile THEN size[path]
              ELSE Lower(checkpoint.pos, size[path])

(* The thread as ever, except that it is started with -r. *)
ThreadStep ==
  /\ Thread
  /\ crashes > 0 /\ pc = "firstOpen" /\ path # NoFile => Reload
  /\ UNCHANGED recovery

WorldStep == World /\ UNCHANGED recovery

RNext == WorldStep \/ ThreadStep \/ Crash

RSpec == RInit /\ [][RNext]_rvars
-----------------------------------------------------------------------------
RTypeOK ==
  /\ TypeOK
  /\ crashes \in 0..MaxCrashes
  /\ queuedBefore \subseteq File \X Offset
  /\ sentBefore \subseteq File \X Offset

(* The thread takes up the log again in the file that the checkpoint is of. *)
Resumes ==
  /\ crashes > 0
  /\ pc = "firstOpen"
  /\ path # NoFile
  /\ checkpoint.file = path

(* A restart in the same file passes over nothing of it but what scribe    *)
(* has or what was in the queue when the process was killed: the           *)
(* checkpoint, old or new, is never further than the reading was.          *)
RestartLosesOnlyQueued ==
  [][Resumes =>
       \A u \in Owed : u[1] = path /\ Precedes(u, <<path, position'>>)
         => u \in accepted \cup queuedBefore]_rvars

(* What is read a second time was sent before the last kill: a process     *)
(* that is not killed reads nothing twice, and one that was does not read  *)
(* twice what it has sent since.                                           *)
RereadsOnlyAfterCrash ==
  [][\A i \in DOMAIN messages' \ DOMAIN messages :
       Units(messages'[i]) \cap (accepted \cup Pending) \subseteq sentBefore]_rvars

(* Whatever became of the files before it, through rotations that were     *)
(* overlooked, late or torn writes, backups that are missing and restarts, *)
(* the file that the thread follows loses nothing.                         *)
NoLossInCurrent ==
  \A u \in Owed : u[1] >= oStat.file =>
    u \in accepted \/ u \in Pending \/ Ahead(u)

(* README:30, 31: -r takes up the log by the checkpoint, so that no log is *)
(* lost; there may be repetitions.                                         *)
RestartLosesNothing ==
  [][Resumes =>
       \A u \in Owed : u[1] = path /\ Precedes(u, <<path, position'>>)
         => u \in accepted]_rvars
=============================================================================
