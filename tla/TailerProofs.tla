---------------------------- MODULE TailerProofs ----------------------------
(***************************************************************************)
(* Proofs about Tailer for every number and size of files, every placing   *)
(* of the line ends and every max_send_msg.                                *)
(***************************************************************************)
EXTENDS TailerInv, LogFileProofs, TLAPS

USE DEF File, Offset, NoFile, RestartAt, BackupReadFrom, SaveCheckpoint

-----------------------------------------------------------------------------
(* Type correctness.                                                       *)

(* The invariant that type correctness needs: a file that is about to be   *)
(* created has a number, and the files in use are there.                   *)
TypeInv == TypeOK /\ Shape

LEMMA CutType ==
  ASSUME NEW f \in File, NEW o \in Offset
  PROVE  Cut(f, o) \subseteq File \X Offset
  BY DEF Cut

LEMMA TypeInit == Init => TypeInv
<1> SUFFICES ASSUME Init PROVE TypeInv
    OBVIOUS
<1>1. size \in [File -> Offset] /\ inode \in [File -> File]
  <2>1. PICK s \in FirstOffsets : size = [f \in File |-> IF f = 1 THEN s ELSE 0]
        BY DEF Init
  <2>2. s \in Offset /\ 0 \in Offset
        BY Bounds DEF FirstOffsets
  <2> QED
      BY <2>1, <2>2 DEF Init
<1>2. checkpoint \in Place /\ start \in Place
  <2>1. FirstOffsets \subseteq Offset /\ 0 \in Offset
        BY Bounds DEF FirstOffsets
  <2>2. NoPlace \in Place
        BY <2>1 DEF NoPlace, Place
  <2>3. [file : {1}, pos : FirstOffsets] \subseteq Place
        BY <2>1, NumFilesPositive DEF Place
  <2> QED
      BY <2>2, <2>3 DEF Init
<1>3. /\ nStat \in [file : File \cup {NoFile}, size : Offset]
      /\ oStat \in [file : File \cup {NoFile}, size : Offset]
      /\ position \in Offset
      /\ backlog \in [file : File \cup {NoFile}, lo : Offset, hi : Offset,
                      tail : BOOLEAN]
    BY Bounds DEF Init, NoStat, NoBacklog
<1>4. messages \in Seq(Message)
    BY DEF Init
<1>5. Shape
    BY DEF Init, Shape, Holding, InBackup
<1>6. cuts \subseteq File \X Offset
  <2>1. FirstOffsets \subseteq Offset
        BY DEF FirstOffsets
  <2> QED
      BY <2>1, NumFilesPositive, CutType DEF Init
<1> QED
    BY <1>1, <1>2, <1>3, <1>4, <1>5, <1>6, NumFilesPositive
       DEF Init, TypeInv, TypeOK, PC, InBackup

LEMMA LaterOffset ==
  ASSUME NEW a \in Offset, NEW e \in a + 1 .. MaxUnits
  PROVE  e \in Offset
  BY Bounds

LEMMA TypeWorld == TypeInv /\ World => TypeInv'
<1> SUFFICES ASSUME TypeInv, World PROVE TypeInv'
    OBVIOUS
<1> USE DEF TypeInv, TypeOK, Shape, files, reading, history
<1>1. CASE Write
  <2>1. PICK e \in size[writer] + 1 .. MaxUnits :
           /\ size' = [size EXCEPT ![writer] = e]
           /\ cuts' = cuts \cup Cut(writer, e)
        BY <1>1 DEF Write
  <2>2. size[writer] \in Offset
        OBVIOUS
  <2> HIDE DEF TypeInv, TypeOK, Shape, files, reading, history
  <2>3. e \in Offset
        BY <2>2, LaterOffset
  <2> USE DEF TypeInv, TypeOK, Shape, files, reading, history
  <2>4. size' \in [File -> Offset]
        BY <2>1, <2>3
  <2>5. cuts' \subseteq File \X Offset
        BY <2>1, <2>3, CutType
  <2> QED
      BY <1>1, <2>4, <2>5 DEF Write
<1>2. CASE Rename
    BY <1>2, Bounds DEF Rename, MayRotate
<1>3. CASE Create
  <2>1. newest + 1 \in File
        BY <1>3, NumFilesPositive DEF Create
  <2>2. newest' \in File /\ path' \in File /\ writer' \in File
        BY <1>3, <2>1 DEF Create
  <2>3. TypeOK'
        BY <1>3, <2>2 DEF Create
  <2>4. path' # NoFile
        BY <2>2
  <2>5. Shape'
        BY <1>3, <2>4 DEF Create
  <2> QED
      BY <2>3, <2>5
<1>4. CASE Reopen
    BY <1>4, Bounds DEF Reopen
<1>5. CASE CopyTruncate
  <2>1. newest + 1 \in File
        BY <1>5, NumFilesPositive DEF CopyTruncate, MayRotate
  <2>2. newest' \in File /\ path' \in File /\ writer' \in File
        /\ backup' \in File \cup {NoFile} /\ handle' \in File \cup {NoFile}
        BY <1>5, <2>1 DEF CopyTruncate
  <2>3. inode' \in [File -> File]
        BY <1>5, <2>1 DEF CopyTruncate, MayRotate
  <2>4. handle # NoFile => handle' # NoFile
        BY <1>5, <2>1 DEF CopyTruncate
  <2>5. path' # NoFile
        BY <2>2
  <2>6. TypeOK'
        BY <1>5, <2>2, <2>3 DEF CopyTruncate
  <2>7. Shape'
        BY <1>5, <2>4, <2>5 DEF CopyTruncate
  <2> QED
      BY <2>6, <2>7
<1> QED
    BY <1>1, <1>2, <1>3, <1>4, <1>5 DEF World

LEMMA StatType ==
  ASSUME TypeOK, NEW f \in File
  PROVE  StatOf(f) \in [file : File \cup {NoFile}, size : Offset]
  BY DEF TypeOK, StatOf

Backlog == [file : File \cup {NoFile}, lo : Offset, hi : Offset,
            tail : BOOLEAN]

LEMMA BacklogAdvance ==
  ASSUME NEW b \in Backlog, NEW e \in Offset
  PROVE  /\ [b EXCEPT !.lo = e] \in Backlog
         /\ [b EXCEPT !.lo = e].file = b.file
  BY DEF Backlog

LEMMA BacklogEnd ==
  ASSUME NEW b \in Backlog, NEW e \in Offset
  PROVE  /\ [b EXCEPT !.lo = e, !.tail = FALSE] \in Backlog
         /\ [b EXCEPT !.lo = e, !.tail = FALSE].file = b.file
  BY DEF Backlog

LEMMA TypeRestart ==
  ASSUME TypeInv, Restart,
         UNCHANGED <<files, handle, nStat, messages, linked, checkpoint,
                     history>>,
         handle # NoFile
  PROVE  TypeInv'
<1>1. NoBacklog \in [file : File \cup {NoFile}, lo : Offset, hi : Offset,
                     tail : BOOLEAN]
      BY Bounds DEF NoBacklog
<1>2. 0 \in Offset
      BY Bounds
<1>3. "read" \in PC /\ "read" \notin InBackup
      BY DEF PC, InBackup
<1> QED
    BY <1>1, <1>2, <1>3
       DEF TypeInv, TypeOK, Shape, Restart, files, history

LEMMA TypeThread == TypeInv /\ Thread => TypeInv'
<1> SUFFICES ASSUME TypeInv, Thread PROVE TypeInv'
    OBVIOUS
<1> USE DEF TypeInv, TypeOK, Shape, files, reading, history
<1>0. /\ PC = {"firstStat", "firstOpen", "dead", "open", "stat", "backup",
               "read", "checkpoint", "send", "wait", "backupLine",
               "backupSend", "backupWait"}
      /\ InBackup = {"backupLine", "backupSend", "backupWait"}
      /\ Holding = {"stat", "backup", "read", "checkpoint", "backupLine",
                    "backupSend", "backupWait"}
    BY DEF PC, InBackup, Holding
<1>1. CASE FirstStat
  <2>1. NoStat \in [file : File \cup {NoFile}, size : Offset]
        BY Bounds DEF NoStat
  <2>2. /\ nStat' \in [file : File \cup {NoFile}, size : Offset]
        /\ oStat' \in [file : File \cup {NoFile}, size : Offset]
        BY <1>1, <2>1, StatType DEF FirstStat
  <2> QED
      BY <1>0, <1>1, <2>2 DEF FirstStat
<1>2. CASE FirstOpen
  <2>1. position' \in Offset
    <3>1. size[path] \in Offset /\ checkpoint.pos \in Offset
          BY <1>2 DEF FirstOpen, Place
    <3> QED
        BY <1>2, <3>1 DEF FirstOpen, Lower
  <2>2. start' \in Place
        BY <1>2, <2>1 DEF FirstOpen, Place
  <2> QED
      BY <1>0, <1>2, <2>1, <2>2 DEF FirstOpen
<1>3. CASE FirstOpenFails
      BY <1>0, <1>3 DEF FirstOpenFails
<1>4. CASE Open
      BY <1>0, <1>4 DEF Open
<1>5. CASE Stat
  <2>1. path # NoFile =>
          StatOf(path) \in [file : File \cup {NoFile}, size : Offset]
        BY StatType
  <2>2. /\ nStat' \in [file : File \cup {NoFile}, size : Offset]
        /\ oStat' \in [file : File \cup {NoFile}, size : Offset]
        /\ pc' \in {"backup", "read"}
    <3>1. CASE path = NoFile
          BY <1>5, <3>1 DEF Stat
    <3>2. CASE path # NoFile
          BY <1>5, <2>1, <3>2 DEF Stat
    <3> QED
        BY <3>1, <3>2
  <2> QED
      BY <1>0, <1>5, <2>2 DEF Stat
<1>6. CASE BackupEmpty
      BY <1>0, <1>6, TypeRestart DEF BackupEmpty
<1>7. CASE BackupRead
  <2>1. backlog' \in [file : File, lo : Offset, hi : Offset, tail : BOOLEAN]
        BY <1>7 DEF BackupRead
  <2> QED
      BY <1>0, <1>7, <2>1 DEF BackupRead
<1>8. CASE BackupLine
  <2>1. PICK e \in BackupLines :
           PushBacklog(e) /\ backlog' = [backlog EXCEPT !.lo = e]
        BY <1>8 DEF BackupLine
  <2>2. backlog.file \in File
        BY <1>0, <1>8 DEF BackupLine
  <2>3. e \in Offset
        BY <2>1, <2>2, LineEndsType DEF BackupLines
  <2>4. messages' \in Seq(Message)
    <3>1. [file |-> backlog.file, lo |-> backlog.lo, hi |-> e] \in Message
          BY <2>2, <2>3, MessageType
    <3> QED
        BY <2>1, <3>1 DEF PushBacklog
  <2>5. /\ backlog' \in [file : File \cup {NoFile}, lo : Offset, hi : Offset,
                         tail : BOOLEAN]
        /\ backlog'.file # NoFile
        BY <2>1, <2>2, <2>3, BacklogAdvance DEF Backlog
  <2> QED
      BY <1>0, <1>8, <2>1, <2>4, <2>5 DEF BackupLine, PushBacklog
<1>9. CASE BackupStray
  <2>2. backlog.file \in File
        BY <1>0, <1>9 DEF BackupStray
  <2>4. messages' \in Seq(Message)
    <3>1. [file |-> backlog.file, lo |-> backlog.lo, hi |-> backlog.hi]
            \in Message
          BY <2>2, MessageType
    <3> QED
        BY <1>9, <3>1 DEF BackupStray, PushBacklog
  <2>5. /\ backlog' \in [file : File \cup {NoFile}, lo : Offset, hi : Offset,
                         tail : BOOLEAN]
        /\ backlog'.file # NoFile
    <3>1. backlog \in Backlog /\ backlog.hi \in Offset
          BY DEF Backlog
    <3>2. backlog' = [backlog EXCEPT !.lo = backlog.hi, !.tail = FALSE]
          BY <1>9 DEF BackupStray
    <3> HIDE DEF TypeInv, TypeOK, Shape
    <3>3. backlog' \in Backlog /\ backlog'.file = backlog.file
          BY <3>1, <3>2, BacklogEnd
    <3> QED
        BY <2>2, <3>3 DEF Backlog
  <2> QED
      BY <1>0, <1>9, <2>4, <2>5 DEF BackupStray, PushBacklog
<1>10. CASE BackupDone
      BY <1>0, <1>10, TypeRestart DEF BackupDone
<1>11. Batch(messages) \subseteq File \X Offset
      BY BatchType
<1>12. CASE BackupSendOk
      BY <1>0, <1>11, <1>12 DEF BackupSendOk, Sent
<1>13. CASE BackupSendFails
      BY <1>0, <1>11, <1>13 DEF BackupSendFails, NotSent
<1>14. CASE BackupReconnect
      BY <1>0, <1>14 DEF BackupReconnect
<1>15. CASE ReadLine
  <2>1. PICK e \in LineEnds(handle, position, size[handle]) :
          /\ messages' = Append(messages, [file |-> handle, lo |-> position,
                                           hi |-> e])
          /\ position' = e
        BY <1>15 DEF ReadLine
  <2>2. handle \in File /\ size[handle] \in Offset
        BY <1>0, <1>15 DEF ReadLine
  <2>3. e \in Offset
        BY <2>1, <2>2, LineEndsType
  <2>4. messages' \in Seq(Message)
        BY <2>1, <2>2, <2>3, MessageType
  <2>5. pc' \in {"checkpoint", "read"}
        BY <1>15 DEF ReadLine
  <2> QED
      BY <1>0, <1>15, <2>1, <2>2, <2>3, <2>4, <2>5 DEF ReadLine
<1>16. CASE ReadEnd
      BY <1>0, <1>16 DEF ReadEnd
<1>17. CASE WriteCheckpoint
  <2>1. NoPlace \in Place
        BY Bounds DEF NoPlace, Place
  <2>2. checkpoint' \in Place
        BY <1>17, <2>1 DEF WriteCheckpoint, Place
  <2> QED
      BY <1>0, <1>17, <2>2 DEF WriteCheckpoint
<1>18. CASE Idle
      BY <1>0, <1>18 DEF Idle
<1>19. CASE SendOk
      BY <1>0, <1>11, <1>19 DEF SendOk, Sent
<1>20. CASE SendFails
      BY <1>0, <1>11, <1>20 DEF SendFails, NotSent
<1>21. CASE Reconnect
      BY <1>0, <1>21 DEF Reconnect
<1> QED
    BY <1>1, <1>2, <1>3, <1>4, <1>5, <1>6, <1>7, <1>8, <1>9, <1>10, <1>12,
       <1>13, <1>14, <1>15, <1>16, <1>17, <1>18, <1>19, <1>20, <1>21
       DEF Thread

LEMMA TypeStep == TypeInv /\ [Next]_vars => TypeInv'
<1> SUFFICES ASSUME TypeInv, [Next]_vars PROVE TypeInv'
    OBVIOUS
<1>1. CASE Next
      BY <1>1, TypeWorld, TypeThread DEF Next
<1>2. CASE UNCHANGED vars
      BY <1>2 DEF vars, files, reading, history, TypeInv, TypeOK, Shape
<1> QED
    BY <1>1, <1>2

(* Whatever the surroundings do, the variables keep their types: in        *)
(* particular position, which the code takes from tellg and never checks,  *)
(* stays an offset, and readLogFile reads only from an open file.          *)
THEOREM TypeCorrect == Spec => []TypeOK
<1>1. Init => TypeInv
      BY TypeInit
<1>2. TypeInv /\ [Next]_vars => TypeInv'
      BY TypeStep
<1>3. TypeInv => TypeOK
      BY DEF TypeInv
<1> QED
    BY <1>1, <1>2, <1>3, PTL DEF Spec
-----------------------------------------------------------------------------
(* The queue.                                                              *)

(* A message leaves the queue only when scribe has stored it, whatever the *)
(* surroundings do and however the sends end.                              *)
THEOREM NothingDropped == Spec => NeverDropped
<1> DEFINE A == Pending \subseteq accepted' \cup Batch(messages')
<1>1. TypeInv /\ [Next]_vars => [A]_vars
  <2> SUFFICES ASSUME TypeInv, Next PROVE A
      OBVIOUS
  <2>1. messages \in Seq(Message)
        BY DEF TypeInv, TypeOK
  <2>2. ASSUME UNCHANGED messages PROVE A
        BY <2>2 DEF Pending
  <2>3. ASSUME NEW m \in Message, messages' = Append(messages, m) PROVE A
        BY <2>1, <2>3, BatchAppend DEF Pending
  <2>4. ASSUME Sent PROVE A
        BY <2>4 DEF Sent, Pending
  <2>5. CASE World
        BY <2>2, <2>5 DEF World, Write, Rename, Create, Reopen, CopyTruncate
  <2>6. CASE BackupLine \/ BackupStray
    <3>1. backlog.file \in File
          BY <2>6 DEF BackupLine, BackupStray, TypeInv, TypeOK, Shape, InBackup
    <3>2. backlog.lo \in Offset /\ backlog.hi \in Offset
          BY DEF TypeInv, TypeOK
    <3>3. PICK e \in BackupLines \cup {backlog.hi} : PushBacklog(e)
          BY <2>6 DEF BackupLine, BackupStray
    <3>4. e \in Offset
          BY <3>1, <3>2, LineEndsType DEF BackupLines
    <3>5. [file |-> backlog.file, lo |-> backlog.lo, hi |-> e] \in Message
          BY <3>1, <3>2, <3>4, MessageType
    <3> QED
        BY <2>3, <3>3, <3>5 DEF PushBacklog
  <2>7. CASE ReadLine
    <3>1. PICK e \in LineEnds(handle, position, size[handle]) :
            messages' = Append(messages, [file |-> handle, lo |-> position,
                                          hi |-> e])
          BY <2>7 DEF ReadLine
    <3>2. handle \in File /\ position \in Offset /\ size[handle] \in Offset
          BY <2>7 DEF ReadLine, TypeInv, TypeOK, Shape, Holding
    <3>3. [file |-> handle, lo |-> position, hi |-> e] \in Message
          BY <3>1, <3>2, LineEndsType, MessageType
    <3> QED
        BY <2>3, <3>1, <3>3
  <2>8. CASE BackupSendOk \/ SendOk
        BY <2>4, <2>8 DEF BackupSendOk, SendOk
  <2>9. CASE Thread /\ ~(BackupLine \/ BackupStray \/ ReadLine \/ BackupSendOk
                          \/ SendOk)
        BY <2>2, <2>9
           DEF Thread, FirstStat, FirstOpen, FirstOpenFails, Open, Stat,
               BackupEmpty, BackupRead, BackupDone, BackupSendFails,
               BackupReconnect, ReadEnd, WriteCheckpoint, Idle, SendFails,
               Reconnect, NotSent
  <2> QED
      BY <2>5, <2>6, <2>7, <2>8, <2>9 DEF Next
<1>2. Init => TypeInv
      BY TypeInit
<1>3. TypeInv /\ [Next]_vars => TypeInv'
      BY TypeStep
<1> QED
    BY <1>1, <1>2, <1>3, PTL DEF Spec, NeverDropped
=============================================================================
