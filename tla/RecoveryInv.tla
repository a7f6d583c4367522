----------------------------- MODULE RecoveryInv -----------------------------
(***************************************************************************)
(* Why a restart loses only what was queued, and why the file the thread   *)
(* follows loses nothing: an inductive invariant of Recovery.  TLC checks  *)
(* it on a small instance, RecoveryProofs proves it.                       *)
(***************************************************************************)
EXTENDS Recovery, TailerInv

(* Surroundings in which the thread can tell a file from the one before:   *)
(* files may be lost and cut short, but o_stat is of the file it says.     *)
Traceable ==
  Troubles \subseteq {"start", "late", "partial", "torn", "nobackup", "overrun"}

Draining == pc \in {"backup"} \cup InBackup

(* The files: the one at path is the newest, and what is at backup_path is *)
(* the one before it.  The application may still write to that one.        *)
RFilesInv ==
  /\ path \in {NoFile, newest}
  /\ writer \in {newest, newest - 1}
  /\ path = NoFile => writer = newest
  /\ backup \in {NoFile, IF path = NoFile THEN newest ELSE newest - 1}
  /\ \A f \in File : f > newest => size[f] = 0 /\ inode[f] = f
  /\ \A f \in File : inode[f] <= f

(* What the thread remembers is a file there was, as it was.               *)
MemoryInv ==
  /\ oStat.file <= newest
  /\ oStat.file # NoFile => oStat.size <= size[oStat.file]

(* A rotation will be noticed: by the inode, or by the size of a truncated *)
(* file, which shows nothing beyond position.                              *)
Noticeable ==
  /\ nStat = oStat
  /\ oStat.file \notin {NoFile, newest} /\ path = newest
       /\ inode[newest] = inode[oStat.file]
       => size[newest] < oStat.size /\ size[newest] <= position

(* Nothing was taken since the last kill.                                  *)
Untouched == messages = <<>> /\ accepted \subseteq sentBefore

(* The process is down, or has not opened the log yet, or never will.      *)
Outside ==
  /\ pc \in {"firstStat", "firstOpen", "dead"}
  /\ Untouched
  /\ position = 0
  /\ Noticeable

(* The file of o_stat is one the thread started in or came to later.  It   *)
(* is not if there was a rotation between the first stat and the open.     *)
Aligned == start.file <= oStat.file

Astray ==
  /\ start.file = newest
  /\ pc \in {"open", "stat"} \cup {"backup"} \cup InBackup
  /\ pc \in InBackup \/ Untouched

OnTrack ==
  /\ oStat.file \in {newest, newest - 1}
  /\ position <= size[oStat.file]
  /\ pc \in InBackup => backlog.file = oStat.file

Inside ==
  /\ pc \notin {"firstStat", "firstOpen", "dead"}
  /\ start.file \in 1..newest
  /\ oStat.file # newest => path = newest
  /\ IF Draining
     THEN oStat.file # newest /\ nStat.file = newest /\ nStat.size <= size[newest]
     ELSE Noticeable
  /\ HandleInv
  /\ pc \in InBackup => /\ backlog.file < newest
                        /\ backlog.lo <= backlog.hi
                        /\ backlog.hi <= size[backlog.file]
  /\ IF Aligned THEN OnTrack ELSE Astray

(* Where the thread reads next. *)
Standing == IF pc \in InBackup THEN <<backlog.file, backlog.lo>>
                               ELSE <<oStat.file, position>>

(* What was taken since the last kill lies behind the thread.              *)
TakenBehind ==
  \A u \in (accepted \cup Pending) \ sentBefore : Precedes(u, Standing)

(* What the checkpoint on disk covers is stored, or it is, or was at a     *)
(* kill, in the queue.                                                     *)
CheckpointInv ==
  /\ checkpoint.file <= newest
  /\ checkpoint.file # NoFile => checkpoint.pos <= size[checkpoint.file]
  /\ \A u \in Owed : u[1] = checkpoint.file /\ u[2] < checkpoint.pos
       => u \in accepted \cup Pending \cup queuedBefore

RecoveryInv ==
  /\ RTypeOK
  /\ Shape
  /\ RFilesInv
  /\ MemoryInv
  /\ Outside \/ Inside
  /\ NoLossInCurrent
  /\ TakenBehind
  /\ CheckpointInv
=============================================================================
