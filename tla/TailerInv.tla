------------------------------ MODULE TailerInv ------------------------------
(***************************************************************************)
(* Why no line is lost: an inductive invariant of Tailer.  TLC checks it   *)
(* on small instances, TailerProofs proves it.                             *)
(***************************************************************************)
EXTENDS Tailer

(* Surroundings in which nothing but the torn end of a file may be lost:    *)
(* writes may stop in the middle of a line, and a file be given up there;   *)
(* the heap behind the backup's buffer may hold anything.  Rotations are    *)
(* what README describes.                                                   *)
Calm == Troubles \subseteq {"partial", "torn", "overrun"}

(* Files are finished, and then nothing may be lost. *)
Finishing == "torn" \notin Troubles

Holding == {"stat", "backup", "read", "checkpoint"} \cup InBackup

(* What the types of the variables rest on, whatever the surroundings do.   *)
Shape ==
  /\ path = NoFile => newest < NumFiles
  /\ pc \in Holding => handle # NoFile
  /\ pc \in InBackup => backlog.file # NoFile

(* The files, when rotations are calm: every file before the newest is     *)
(* complete (if they are finished), every file after it is untouched.      *)
FilesInv ==
  /\ writer = newest
  /\ path \in {NoFile, newest}
  /\ Finishing => \A f \in File : f < newest => AtLineEnd(f)
  /\ \A f \in File : f > newest => size[f] = 0 /\ inode[f] = f
  /\ \A f \in File : inode[f] <= f

(* The thread is at most one rotation behind, and then the file it has not *)
(* finished is the one at backup_path.                                     *)
BehindInv ==
  /\ oStat.file # NoFile
  /\ oStat.file \in {newest, newest - 1}
  /\ oStat.file = newest - 1 => path = newest /\ backup = oStat.file
  /\ path = NoFile => backup = newest

(* It stands inside the file it remembers.                                 *)
PositionInv ==
  /\ oStat.size <= size[oStat.file]
  /\ position <= size[oStat.file]

(* What it remembers is enough to notice a rotation: the inode, or for a   *)
(* truncated file the size.                                                *)
NoticeInv ==
  IF pc \in {"backup"} \cup InBackup
  THEN /\ oStat.file = newest - 1
       /\ nStat.file = newest
       /\ nStat.size <= size[newest]
  ELSE /\ nStat = oStat
       /\ oStat.file = newest - 1 /\ inode[newest] = inode[oStat.file] =>
            size[newest] < oStat.size /\ size[newest] <= position

(* The open file is the one at path, or the one the thread remembers; a    *)
(* truncated file shows nothing beyond position.                           *)
HandleInv ==
  /\ pc \in {"stat", "backup"} \cup InBackup => handle = newest
  /\ pc = "read" =>
       \/ handle = oStat.file
       \/ /\ handle = newest
          /\ oStat.file = newest - 1
          /\ inode[newest] = inode[oStat.file]

(* The buffer is the rest of the file at backup_path.                      *)
BacklogInv ==
  pc \in InBackup => /\ backlog.file = oStat.file
                     /\ backlog.hi = size[oStat.file]
                     /\ backlog.lo <= backlog.hi

Before ==
  /\ pc \in {"firstStat", "firstOpen"}
  /\ newest = 1
  /\ path = 1
  /\ start = NoPlace
  /\ pc = "firstOpen" => /\ oStat.file = 1
                         /\ oStat.size <= size[1]
                         /\ nStat = oStat

Going ==
  /\ ~Starting
  /\ pc # "dead"
  /\ start.file # NoFile
  /\ BehindInv
  /\ PositionInv
  /\ NoticeInv
  /\ HandleInv
  /\ BacklogInv

CalmInv ==
  /\ TypeOK
  /\ Shape
  /\ FilesInv
  /\ Before \/ Going
  /\ LosesOnlyUnended
=============================================================================
