----------------------------- MODULE PaceProofs -----------------------------
(***************************************************************************)
(* Proofs about Pace for every first sleep, limit, duration of calls and   *)
(* checkpoint_time.                                                        *)
(***************************************************************************)
EXTENDS Pace, TLAPS

USE DEF Go, GoAtOnce, Call, Alarm, NoWait, Aging, LinkOpenThenSleep,
        CheckpointWith, Thing, WaitingFor, PC, Age

-----------------------------------------------------------------------------
LEMMA WholeCycle == ASSUME NEW c \in Nat \ {0} PROVE c % c = 0
  OBVIOUS

LEMMA WithinCycle == ASSUME NEW c \in Nat \ {0}, NEW q \in 0 .. c - 1 PROVE q % c = q
  OBVIOUS

(* A second later in the cycle of checkpoint_time. *)
LEMMA NextSecond ==
  ASSUME NEW p \in 0 .. checkpoint_time - 1
  PROVE  (p + 1) % checkpoint_time = IF p + 1 = checkpoint_time THEN 0 ELSE p + 1
<1>1. CASE p + 1 = checkpoint_time
    BY <1>1, WholeCycle, PaceAssumption
<1>2. CASE p + 1 # checkpoint_time
  <2>1. p + 1 \in 0 .. checkpoint_time - 1
        BY <1>2, PaceAssumption
  <2>2. (p + 1) % checkpoint_time = p + 1
        BY <2>1, WithinCycle, PaceAssumption
  <2> QED
      BY <1>2, <2>2
<1> QED
    BY <1>1, <1>2

LEMMA OlderBound ==
  ASSUME NEW limit \in Nat, NEW age \in 0..limit
  PROVE  /\ Older(age, limit) \in 0..limit
         /\ \/ Older(age, limit) = age + 1
            \/ Older(age, limit) = limit /\ age = limit
  BY DEF Older
-----------------------------------------------------------------------------
(* Type correctness.                                                       *)

LEMMA DoubledType ==
  ASSUME nap \in First .. 2 * Cap
  PROVE  /\ Doubled \in First .. 2 * Cap
         /\ Doubled \in {nap, 2 * nap}
         /\ nap = Cap => 2 * nap \in First .. 2 * Cap
  BY PaceAssumption DEF Doubled

LEMMA TypeInit == Init => TypeOK
<1> SUFFICES ASSUME Init PROVE TypeOK
    OBVIOUS
<1>1. /\ left \in 0 .. 2 * Cap + Slow
      /\ nap \in First .. 2 * Cap
      /\ sends \in 0..MaxSends
      /\ pass_time \in 0 .. checkpoint_time - 1
      /\ waited \in Age /\ back \in Age
      /\ saved \in 0 .. checkpoint_time + 1
      /\ checked \in 0..2
    BY PaceAssumption DEF Init
<1>2. alarmed \in [Thing -> 0..First]
    BY PaceAssumption DEF Init
<1>3. /\ draining \in BOOLEAN /\ queued \in BOOLEAN /\ linked \in BOOLEAN
      /\ steady \in BOOLEAN /\ good \in [Thing -> BOOLEAN] /\ pc \in PC
    BY DEF Init
<1> QED
    BY <1>1, <1>2, <1>3 DEF TypeOK

LEMMA TickType == TypeOK /\ Tick => TypeOK'
<1> SUFFICES ASSUME TypeOK, Tick PROVE TypeOK'
    OBVIOUS
<1> USE DEF TypeOK
<1>1. left' \in 0 .. 2 * Cap + Slow
    BY PaceAssumption DEF Tick
<1>2. pass_time' \in 0 .. checkpoint_time - 1
  <2>1. pass_time' = IF pass_time + 1 = checkpoint_time THEN 0 ELSE pass_time + 1
        BY NextSecond DEF Tick
  <2> QED
      BY <2>1, PaceAssumption
<1>3. waited' \in Age /\ back' \in Age
  <2>1. Older(waited, MaxAge) \in Age /\ Older(back, MaxAge) \in Age
        BY PaceAssumption, OlderBound
  <2> QED
      BY <2>1 DEF Tick
<1>4. alarmed' \in [Thing -> 0..First]
  <2>1. ASSUME NEW x \in Thing PROVE Older(alarmed[x], First) \in 0..First
    <3>1. alarmed[x] \in 0..First /\ First \in Nat
          BY PaceAssumption
    <3> QED
        BY <3>1, OlderBound
  <2> QED
      BY <2>1 DEF Tick
<1>5. saved' \in 0 .. checkpoint_time + 1 /\ checked' \in 0..2
  <2>1. /\ checkpoint_time + 1 \in Nat /\ 2 \in Nat
        /\ saved \in 0 .. checkpoint_time + 1 /\ checked \in 0..2
        BY PaceAssumption
  <2>2. /\ Older(saved, checkpoint_time + 1) \in 0 .. checkpoint_time + 1
        /\ Older(checked, 2) \in 0..2
        BY <2>1, OlderBound
  <2> QED
      BY <2>2 DEF Tick
<1>6. steady' \in BOOLEAN
    BY DEF Tick
<1> QED
    BY <1>1, <1>2, <1>3, <1>4, <1>5, <1>6 DEF Tick

LEMMA ThreadType == TypeOK /\ Thread => TypeOK'
<1> SUFFICES ASSUME TypeOK, Thread PROVE TypeOK'
    OBVIOUS
<1> USE PaceAssumption DEF TypeOK
<1>0. /\ Doubled \in First .. 2 * Cap
      /\ nap = Cap => 2 * nap \in First .. 2 * Cap
    BY DoubledType
<1>1. CASE Open
    BY <1>1 DEF Open
<1>2. CASE PathAlarm
    BY <1>2 DEF PathAlarm
<1>3. CASE Reopen
    BY <1>0, <1>3 DEF Reopen
<1>4. CASE NothingToDrain
    BY <1>4 DEF NothingToDrain
<1>12. CASE Drain
  <2>1. First \in First .. 2 * Cap /\ 0 \in 0 .. 2 * Cap + Slow
        OBVIOUS
  <2> QED
      BY <1>12, <2>1 DEF Drain
<1>13. CASE Drained
  <2>1. queued' \in BOOLEAN
        BY <1>13 DEF Drained
  <2> QED
      BY <1>13, <2>1 DEF Drained
<1>5. CASE SendOk \/ SendFails
  <2>1. sends' \in 0..MaxSends
        BY <1>5 DEF SendOk, SendFails, Sending
  <2>2. left' \in 0 .. 2 * Cap + Slow
        BY <1>5 DEF SendOk, SendFails
  <2>3. pc' \in PC
        BY <1>5 DEF SendOk, SendFails, Again
  <2>4. queued' \in BOOLEAN /\ linked' \in BOOLEAN
        BY <1>5 DEF SendOk, SendFails
  <2> QED
      BY <1>5, <2>1, <2>2, <2>3, <2>4 DEF SendOk, SendFails
<1>6. CASE CloseOpen
    BY <1>6 DEF CloseOpen, Again
<1>7. CASE LinkAlarm
    BY <1>7 DEF LinkAlarm
<1>8. CASE LinkOpen
  <2>1. left' \in 0 .. 2 * Cap + Slow
        BY <1>8 DEF LinkOpen
  <2>2. nap' \in First .. 2 * Cap
        BY <1>0, <1>8 DEF LinkOpen
  <2> QED
      BY <1>8, <2>1, <2>2 DEF LinkOpen
<1>9. CASE LinkTest
    BY <1>9 DEF LinkTest, Again
<1>10. CASE ReadLog
  <2>1. queued' \in BOOLEAN
        BY <1>10 DEF ReadLog
  <2> QED
      BY <1>10, <2>1 DEF ReadLog
<1>14. CASE Idle
  <2>1. 1 \in 0 .. 2 * Cap + Slow
        OBVIOUS
  <2> QED
      BY <1>14, <2>1 DEF Idle
<1>11. CASE WriteCheckpoint
    BY <1>11 DEF WriteCheckpoint
<1> QED
    BY <1>1, <1>2, <1>3, <1>4, <1>5, <1>6, <1>7, <1>8, <1>9, <1>10, <1>11,
       <1>12, <1>13, <1>14 DEF Thread

LEMMA TypeStep == TypeOK /\ [Next]_vars => TypeOK'
<1> SUFFICES ASSUME TypeOK, [Next]_vars PROVE TypeOK'
    OBVIOUS
<1>1. CASE Tick
    BY <1>1, TickType
<1>2. CASE Thread
    BY <1>2, ThreadType
<1>3. ASSUME NEW x \in Thing, Change(x) PROVE TypeOK'
    BY <1>3, PaceAssumption DEF Change, TypeOK, thread
<1>4. CASE UNCHANGED vars
    BY <1>4 DEF vars, thread, ages, TypeOK
<1> QED
    BY <1>1, <1>2, <1>3, <1>4 DEF Next

(* Every variable keeps its type: no sleep is longer than twice the limit  *)
(* (the doubling in stillGood, logtail_File and read_backupfile).          *)
THEOREM TypeCorrect == Spec => []TypeOK
  BY TypeInit, TypeStep, PTL DEF Spec
-----------------------------------------------------------------------------
(* The seconds of checkpoints.  Between two calls at most a second apart   *)
(* no second of the cycle is missed.                                       *)

FreshInv ==
  steady =>
    /\ checked <= 1
    /\ \/ saved <= pass_time
       \/ pass_time = 0 /\ checked = 1 /\ saved <= checkpoint_time

LEMMA FreshTick == TypeOK /\ FreshInv /\ Tick => FreshInv'
<1> SUFFICES ASSUME TypeOK, FreshInv, Tick, steady' PROVE FreshInv'
    BY DEF FreshInv
<1>1. /\ pass_time \in 0 .. checkpoint_time - 1
      /\ saved \in 0 .. checkpoint_time + 1
      /\ checked \in 0..2
      /\ checkpoint_time \in Nat \ {0}
    BY PaceAssumption DEF TypeOK
<1>2. pass_time' = IF pass_time + 1 = checkpoint_time THEN 0 ELSE pass_time + 1
    BY <1>1, NextSecond DEF Tick
<1>3. /\ steady /\ checked' <= 1
      /\ checked' = IF checked < 2 THEN checked + 1 ELSE checked
      /\ saved' = IF saved < checkpoint_time + 1 THEN saved + 1 ELSE saved
    BY DEF Tick, Older
<1>4. checked = 0 /\ saved <= pass_time
    BY <1>1, <1>3 DEF FreshInv
<1> QED
    BY <1>1, <1>2, <1>3, <1>4 DEF FreshInv

LEMMA FreshStep == TypeOK /\ FreshInv /\ [Next]_vars => FreshInv'
<1> SUFFICES ASSUME TypeOK, FreshInv, [Next]_vars PROVE FreshInv'
    OBVIOUS
<1>1. CASE Tick
    BY <1>1, FreshTick
<1>2. CASE WriteCheckpoint
  <2>1. /\ pass_time \in 0 .. checkpoint_time - 1
        /\ checkpoint_time \in Nat \ {0}
        BY PaceAssumption DEF TypeOK
  <2>2. /\ pass_time' = pass_time /\ checked' = 0
        /\ saved' = IF pass_time = 0 THEN 0 ELSE saved
        BY <1>2 DEF WriteCheckpoint
  <2>3. pass_time # 0 /\ steady' => steady
        BY <1>2, Zenon DEF WriteCheckpoint
  <2>4. CASE pass_time = 0
        BY <2>1, <2>2, <2>4 DEF FreshInv
  <2>5. CASE pass_time # 0
    <3> SUFFICES ASSUME steady' PROVE checked' <= 1 /\ saved' <= pass_time'
        BY DEF FreshInv
    <3>1. steady
          BY <2>3, <2>5
    <3> QED
        BY <2>1, <2>2, <2>5, <3>1 DEF FreshInv
  <2> QED
      BY <2>4, <2>5
<1>3. CASE UNCHANGED <<pass_time, saved, checked, steady>>
    BY <1>3 DEF FreshInv
<1>4. Thread => WriteCheckpoint \/ UNCHANGED <<pass_time, saved, checked, steady>>
    BY DEF Thread, Open, PathAlarm, Reopen, NothingToDrain, Drain, Drained, SendOk,
           SendFails, CloseOpen, LinkAlarm, LinkOpen, LinkTest, ReadLog, Idle
<1>5. ASSUME NEW x \in Thing, Change(x)
      PROVE  UNCHANGED <<pass_time, saved, checked, steady>>
    BY <1>5 DEF Change
<1>6. CASE UNCHANGED vars
    BY <1>3, <1>6 DEF vars, ages
<1> QED
    BY <1>1, <1>2, <1>3, <1>4, <1>5, <1>6 DEF Next

(* The checkpoint of a thread that polls every second is never older than  *)
(* checkpoint_time (write_checkpoint's test of the clock).                 *)
THEOREM CheckpointFresh == Spec => []Fresh
<1>1. Init => FreshInv
    BY PaceAssumption DEF Init, FreshInv
<1>2. TypeOK /\ FreshInv => Fresh
  <2> SUFFICES ASSUME TypeOK, FreshInv, steady PROVE saved <= checkpoint_time
      BY DEF Fresh
  <2>1. /\ pass_time \in 0 .. checkpoint_time - 1
        /\ saved \in 0 .. checkpoint_time + 1
        /\ checkpoint_time \in Nat
        BY PaceAssumption DEF TypeOK
  <2> QED
      BY <2>1 DEF FreshInv
<1> QED
    BY <1>1, <1>2, FreshStep, TypeCorrect, PTL DEF Spec
-----------------------------------------------------------------------------
(* Between two alarms because of the same thing lies a sleep.              *)

AlarmInv ==
  /\ pc = "linkTest" => alarmed["scribe"] + left >= First
  /\ pc \notin {"linkOpen", "linkTest"} => alarmed["scribe"] = First
  /\ pc = "pathAlarm" => alarmed["path"] + left >= First

LEMMA AlarmTypes ==
  ASSUME TypeOK
  PROVE  /\ alarmed["scribe"] \in 0..First /\ alarmed["path"] \in 0..First
         /\ left \in Nat /\ First \in Nat
         /\ nap \in Nat /\ nap >= First
         /\ Doubled \in Nat /\ Doubled >= First
  BY DoubledType, PaceAssumption DEF TypeOK

LEMMA AlarmTick == TypeOK /\ AlarmInv /\ Tick => AlarmInv'
<1> SUFFICES ASSUME TypeOK, AlarmInv, Tick PROVE AlarmInv'
    OBVIOUS
<1>1. /\ alarmed["scribe"]' = Older(alarmed["scribe"], First)
      /\ alarmed["path"]' = Older(alarmed["path"], First)
    BY DEF Tick
<1>2. left > 0 /\ left' = left - 1 /\ pc' = pc
    BY DEF Tick
<1> HIDE DEF Thing
<1> QED
    BY <1>1, <1>2, AlarmTypes DEF AlarmInv, Older

LEMMA AlarmThread == TypeOK /\ AlarmInv /\ Thread => AlarmInv'
<1> SUFFICES ASSUME TypeOK, AlarmInv, Thread PROVE AlarmInv'
    OBVIOUS
<1> USE AlarmTypes DEF AlarmInv
<1>0. left = 0
    BY DEF Thread, Open, PathAlarm, Reopen, NothingToDrain, Drain, Drained, SendOk,
           SendFails, CloseOpen, LinkAlarm, LinkOpen, LinkTest, ReadLog,
           WriteCheckpoint, Idle
<1>1. CASE Open
    BY <1>1 DEF Open
<1>2. CASE PathAlarm
    BY <1>2 DEF PathAlarm, TypeOK
<1>3. CASE Reopen
    BY <1>3 DEF Reopen
<1>4. CASE LinkAlarm
    BY <1>4 DEF LinkAlarm
<1>5. CASE LinkOpen
  <2>1. PICK s \in 0..Slow : left' = s + nap
        BY <1>5 DEF LinkOpen
  <2>2. left' \in Nat /\ left' >= First
    <3> HIDE DEF AlarmInv
    <3> QED
        BY <2>1, PaceAssumption
  <2>3. /\ pc' = "linkTest"
        /\ alarmed["scribe"]' = alarmed["scribe"]
        BY <1>5 DEF LinkOpen
  <2> QED
      BY <2>2, <2>3
<1>6. CASE LinkTest
  <2>1. alarmed["scribe"] = First
        BY <1>0, <1>6 DEF LinkTest
  <2> QED
      BY <1>6, <2>1 DEF LinkTest, Again
<1>7. CASE \/ NothingToDrain \/ Drain \/ Drained \/ SendOk \/ SendFails
           \/ CloseOpen \/ ReadLog \/ WriteCheckpoint \/ Idle
  <2>1. /\ pc \notin {"linkOpen", "linkTest"}
        /\ pc' \notin {"linkOpen", "linkTest", "pathAlarm"}
        /\ alarmed' = alarmed
        BY <1>7 DEF NothingToDrain, Drain, Drained, SendOk, SendFails, Sending, Again,
                    CloseOpen, ReadLog, WriteCheckpoint, Idle
  <2> QED
      BY <2>1
<1> QED
    BY <1>1, <1>2, <1>3, <1>4, <1>5, <1>6, <1>7 DEF Thread

LEMMA AlarmStep == TypeOK /\ AlarmInv /\ [Next]_vars => AlarmInv'
<1> SUFFICES ASSUME TypeOK, AlarmInv, [Next]_vars PROVE AlarmInv'
    OBVIOUS
<1>1. CASE UNCHANGED <<pc, left, alarmed>>
    BY <1>1 DEF AlarmInv
<1>2. ASSUME NEW x \in Thing, Change(x) PROVE UNCHANGED <<pc, left, alarmed>>
    BY <1>2 DEF Change, thread
<1>3. CASE UNCHANGED vars
    BY <1>1, <1>3 DEF vars, thread, ages
<1> QED
    BY <1>1, <1>2, <1>3, AlarmTick, AlarmThread DEF Next

LEMMA AlarmHolds == Spec => []AlarmInv
<1>1. Init => AlarmInv
    BY DEF Init, AlarmInv
<1> QED
    BY <1>1, AlarmStep, TypeCorrect, PTL DEF Spec

(* However often scribe or the file comes and goes, two alarms because of  *)
(* it are at least a first sleep apart (the loops of stillGood,            *)
(* logtail_File and read_backupfile).                                      *)
THEOREM AlarmsAreApart == Spec => AlarmsApart
<1> DEFINE Apart ==
      /\ pc = "linkAlarm" /\ pc' # pc => alarmed["scribe"] >= First
      /\ pc = "pathAlarm" /\ pc' # pc => alarmed["path"] >= First
<1>1. TypeOK /\ AlarmInv /\ [Next]_vars => [Apart]_vars
  <2> SUFFICES ASSUME TypeOK, AlarmInv, Next PROVE Apart
      OBVIOUS
  <2>1. ASSUME pc' # pc PROVE left = 0
        BY <2>1 DEF Next, Tick, Change, thread, Thread, Open, PathAlarm, Reopen,
             NothingToDrain, Drain, Drained, SendOk, SendFails, CloseOpen, LinkAlarm,
             LinkOpen, LinkTest, ReadLog, WriteCheckpoint, Idle
  <2> QED
      BY <2>1, AlarmTypes DEF AlarmInv
<1> QED
    BY <1>1, AlarmHolds, TypeCorrect, PTL DEF Spec, AlarmsApart
-----------------------------------------------------------------------------
(* How long a wait may last once what the thread waits for is good again:  *)
(* the sleep it is in, and after it a call that succeeds, or, when it had  *)
(* not yet tried, another attempt and its sleep.                           *)

OnPath   == pc \in {"pathAlarm", "reopen"}
OnScribe == pc \in {"linkAlarm", "linkOpen", "linkTest"}

LEMMA WaitingIs == Waiting <=> OnPath \/ OnScribe
  BY DEF Waiting, OnPath, OnScribe

LEMMA Times ==
  ASSUME TypeOK
  PROVE  /\ left \in Nat /\ nap \in Nat /\ waited \in Nat /\ back \in Nat
         /\ First \in Nat /\ Cap \in Nat /\ Slow \in Nat /\ MaxAge \in Nat
         /\ First <= nap /\ nap <= 2 * Cap
         /\ waited <= MaxAge /\ back <= MaxAge
         /\ MaxAge >= 6 * Cap + 4 * Slow /\ First <= Cap
  BY PaceAssumption DEF TypeOK

(* What a second changes of a wait. *)
LEMMA TickTimes ==
  ASSUME TypeOK, Tick
  PROVE  /\ left > 0 /\ left' = left - 1
         /\ UNCHANGED <<good, pc, nap, draining, linked>>
         /\ OnPath \/ OnScribe => \/ waited' = waited + 1
                                  \/ waited' = waited /\ waited = MaxAge
         /\ back' = back \/ (back' = back + 1 /\ back < MaxAge)
         /\ OnPath /\ ~good["path"] => back' = back
         /\ OnScribe /\ ~good["scribe"] => back' = back
         /\ back' # back => OnPath \/ OnScribe
<1>1. /\ Older(waited, MaxAge) = waited + 1 \/ (Older(waited, MaxAge) = waited /\ waited = MaxAge)
      /\ Older(back, MaxAge) = back \/ (Older(back, MaxAge) = back + 1 /\ back < MaxAge)
    BY Times DEF Older
<1>2. /\ left > 0 /\ left' = left - 1
      /\ UNCHANGED <<good, pc, nap, draining, linked>>
    BY DEF Tick
<1>3. OnPath \/ OnScribe => waited' = Older(waited, MaxAge)
    BY WaitingIs DEF Tick
<1>4. back' = back \/ back' = Older(back, MaxAge)
    BY DEF Tick
<1>5. /\ OnPath /\ ~good["path"] => back' = back
      /\ OnScribe /\ ~good["scribe"] => back' = back
      /\ back' # back => OnPath \/ OnScribe
    BY DEF Tick, OnPath, OnScribe
<1> QED
    BY <1>1, <1>2, <1>3, <1>4, <1>5

BackInv ==
  /\ back <= waited
  /\ OnPath /\ ~good["path"] => back = 0
  /\ OnScribe /\ ~good["scribe"] => back = 0
  /\ pc = "pathAlarm" => back + left <= 2 * Cap
  /\ pc \in {"reopen", "linkAlarm"} => back + left <= 2 * Cap + Slow
  /\ pc = "linkOpen" => back + left <= 2 * Cap + 2 * Slow
  /\ pc = "linkTest" => back + left <= 4 * Cap + 3 * Slow
  /\ pc = "linkTest" /\ ~linked => back + left <= 2 * Cap + Slow

LEMMA BackTick == TypeOK /\ BackInv /\ Tick => BackInv'
<1> SUFFICES ASSUME TypeOK, BackInv, Tick PROVE BackInv'
    OBVIOUS
<1>1. back' + left' <= back + left
    BY Times, TickTimes
<1>2. back' <= waited'
  <2>1. CASE back' = back
        BY <2>1, Times, TickTimes DEF BackInv, Tick, Older
  <2>2. CASE back' # back
        BY <2>2, Times, TickTimes DEF BackInv
  <2> QED
      BY <2>1, <2>2
<1>3. /\ UNCHANGED <<good, pc, linked>>
      /\ OnPath /\ ~good["path"] => back' = back
      /\ OnScribe /\ ~good["scribe"] => back' = back
    BY TickTimes
<1>4. left' \in Nat /\ back' \in Nat
    BY Times, TickTimes
<1> QED
    BY <1>1, <1>2, <1>3, <1>4, Times DEF BackInv, OnPath, OnScribe

LEMMA BackChange ==
  ASSUME TypeOK, BackInv, NEW x \in Thing, Change(x)
  PROVE  BackInv'
<1>1. UNCHANGED <<pc, left, linked, waited>>
    BY DEF Change, thread
<1>2. back' = 0 \/ back' = back
    BY DEF Change
<1>3. OnPath /\ ~good["path"]' => back' = 0
    BY DEF Change, OnPath, BackInv, TypeOK
<1>4. OnScribe /\ ~good["scribe"]' => back' = 0
    BY DEF Change, OnScribe, BackInv, TypeOK
<1> QED
    BY <1>1, <1>2, <1>3, <1>4, Times DEF BackInv, OnPath, OnScribe

LEMMA BackThread == TypeOK /\ BackInv /\ Thread => BackInv'
<1> SUFFICES ASSUME TypeOK, BackInv, Thread PROVE BackInv'
    OBVIOUS
<1> USE Times DEF BackInv, OnPath, OnScribe
<1>1. CASE Open
    BY <1>1 DEF Open
<1>2. CASE PathAlarm
  <2>1. /\ pc = "pathAlarm" /\ pc' = "reopen" /\ left = 0
        /\ UNCHANGED <<good, back, waited>>
        BY <1>2 DEF PathAlarm
  <2>2. left' \in 0..Slow
        BY <1>2 DEF PathAlarm
  <2> QED
      BY <2>1, <2>2
<1>3. CASE Reopen
  <2>1. CASE good["path"]
        BY <1>3, <2>1 DEF Reopen
  <2>2. CASE ~good["path"]
    <3>1. Doubled \in Nat /\ Doubled <= 2 * Cap
          BY DoubledType, PaceAssumption DEF TypeOK
    <3> QED
        BY <1>3, <2>2, <3>1 DEF Reopen
  <2> QED
      BY <2>1, <2>2
<1>4. CASE CloseOpen
  <2>1. /\ left' \in 0..Slow /\ waited' = 0 /\ back' = 0
        /\ pc' = (IF good["scribe"] THEN Again ELSE "linkAlarm")
        BY <1>4 DEF CloseOpen
  <2>2. pc' \in {"backup", "open", "linkAlarm"}
        BY <2>1 DEF Again
  <2> QED
      BY <2>1, <2>2
<1>5. CASE LinkAlarm
  <2>1. /\ pc = "linkAlarm" /\ pc' = "linkOpen" /\ left = 0
        /\ UNCHANGED <<good, back, waited>>
        BY <1>5 DEF LinkAlarm
  <2>2. left' \in 0..Slow
        BY <1>5 DEF LinkAlarm
  <2> QED
      BY <2>1, <2>2
<1>6. CASE LinkOpen
  <2>1. PICK s \in 0..Slow : left' = s + nap
        BY <1>6 DEF LinkOpen
  <2>2. /\ pc = "linkOpen" /\ pc' = "linkTest" /\ left = 0
        /\ linked' = good["scribe"]
        /\ UNCHANGED <<good, back, waited>>
        BY <1>6 DEF LinkOpen
  <2> QED
      BY <2>1, <2>2
<1>7. CASE LinkTest
  <2>1. CASE linked
        BY <1>7, <2>1 DEF LinkTest, Again
  <2>2. CASE ~linked
        BY <1>7, <2>2 DEF LinkTest
  <2> QED
      BY <2>1, <2>2
<1>8. CASE \/ NothingToDrain \/ Drain \/ Drained \/ SendOk \/ SendFails
           \/ ReadLog \/ WriteCheckpoint \/ Idle
  <2>1. /\ pc' \in {"read", "backup", "open", "closeOpen", "checkpoint", "send"}
        /\ UNCHANGED <<back, waited>>
        BY <1>8 DEF NothingToDrain, Drain, Drained, SendOk, SendFails, Again,
                    ReadLog, WriteCheckpoint, Idle
  <2> QED
      BY <2>1
<1> QED
    BY <1>1, <1>2, <1>3, <1>4, <1>5, <1>6, <1>7, <1>8 DEF Thread

LEMMA BackStep == TypeOK /\ BackInv /\ [Next]_vars => BackInv'
<1> SUFFICES ASSUME TypeOK, BackInv, [Next]_vars PROVE BackInv'
    OBVIOUS
<1>1. CASE UNCHANGED vars
    BY <1>1 DEF vars, thread, ages, BackInv, OnPath, OnScribe
<1> QED
    BY <1>1, BackTick, BackChange, BackThread DEF Next

LEMMA BackHolds == Spec => []BackInv
<1>1. Init => BackInv
    BY DEF Init, BackInv, OnPath, OnScribe
<1> QED
    BY <1>1, BackStep, TypeCorrect, PTL DEF Spec

(* The loops of failed opens (stillGood, logtail_File, read_backupfile)    *)
(* are left in time: once what the thread waits for is good and stays so,  *)
(* after two sleeps and three calls at most.                               *)
THEOREM WaitsAreBounded == Spec => []BackWithin
<1>1. TypeOK /\ BackInv => BackWithin
  <2> SUFFICES ASSUME TypeOK, BackInv, Waiting PROVE back <= 4 * Cap + 3 * Slow
      BY DEF BackWithin
  <2>1. \/ pc = "pathAlarm" \/ pc \in {"reopen", "linkAlarm"}
        \/ pc = "linkOpen" \/ pc = "linkTest"
        BY WaitingIs DEF OnPath, OnScribe
  <2> QED
      BY <2>1, Times DEF BackInv
<1> QED
    BY <1>1, BackHolds, TypeCorrect, PTL DEF Spec
-----------------------------------------------------------------------------
(* How long a wait lasts compared to the outage: the sleeps double, so     *)
(* the one the thread is in is hardly longer than all those before it.     *)
(* That needs t_m to be First when a loop begins, which read_backupfile    *)
(* does not see to.                                                        *)

Outage == First + (waited - back)

NapInv ==
  /\ pc = "backup" => draining
  /\ pc \in {"send", "closeOpen"} => draining \/ nap = First

SoonInv ==
  draining \/ waited = MaxAge \/
    /\ pc = "pathAlarm" => waited + left >= 2 * nap - First /\ back + left <= Outage
    /\ pc = "reopen" => waited >= 2 * nap - First /\ back + left <= Outage + Slow
    /\ pc = "linkAlarm" => waited >= nap - First /\ back + left <= Outage + Slow
    /\ pc = "linkOpen" => waited >= nap - First /\ back + left <= Outage + 2 * Slow
    /\ pc = "linkTest" => back + left <= 3 * (Outage + Slow)
    /\ pc = "linkTest" /\ ~linked =>
         waited + left >= nap - First /\ back + left <= Outage + Slow
    /\ pc \in {"linkAlarm", "linkOpen"} => nap <= 2 * Outage
    /\ pc = "linkTest" /\ ~linked => nap <= 2 * Outage

LEMMA NapStep == NapInv /\ [Next]_vars => NapInv'
<1> SUFFICES ASSUME NapInv, [Next]_vars PROVE NapInv'
    OBVIOUS
<1>1. CASE UNCHANGED <<pc, draining, nap>>
    BY <1>1 DEF NapInv
<1>2. Tick \/ UNCHANGED vars => UNCHANGED <<pc, draining, nap>>
    BY DEF Tick, vars, thread
<1>3. ASSUME NEW x \in Thing, Change(x) PROVE UNCHANGED <<pc, draining, nap>>
    BY <1>3 DEF Change, thread
<1>4. CASE SendFails
    BY <1>4 DEF SendFails, Sending, NapInv
<1>5. CASE WriteCheckpoint
    BY <1>5 DEF WriteCheckpoint, NapInv
<1>6. CASE Drain
    BY <1>6 DEF Drain, NapInv
<1>7. CASE \/ Open \/ PathAlarm \/ Reopen \/ NothingToDrain \/ Drained
           \/ LinkAlarm \/ LinkOpen \/ ReadLog \/ Idle
  <2>1. pc' \notin {"send", "closeOpen", "backup"}
        BY <1>7 DEF Open, PathAlarm, Reopen, NothingToDrain, Drained,
                    LinkAlarm, LinkOpen, ReadLog, Idle
  <2> QED
      BY <2>1 DEF NapInv
<1>8. CASE SendOk \/ CloseOpen \/ LinkTest
  <2>1. pc' \in {Again, "linkAlarm"} /\ draining' = draining
        BY <1>8 DEF SendOk, CloseOpen, LinkTest
  <2> QED
      BY <2>1 DEF NapInv, Again
<1> QED
    BY <1>1, <1>2, <1>3, <1>4, <1>5, <1>6, <1>7, <1>8 DEF Next, Thread

LEMMA SoonTick == TypeOK /\ BackInv /\ SoonInv /\ Tick => SoonInv'
<1> SUFFICES ASSUME TypeOK, BackInv, SoonInv, Tick PROVE SoonInv'
    OBVIOUS
<1>1. UNCHANGED <<pc, nap, draining, linked>>
    BY TickTimes
<1>2. CASE draining
    BY <1>1, <1>2 DEF SoonInv
<1>3. CASE ~(OnPath \/ OnScribe)
    BY <1>1, <1>3 DEF SoonInv, OnPath, OnScribe
<1>4. CASE waited = MaxAge /\ (OnPath \/ OnScribe)
  <2>1. waited' = waited
        BY <1>4, WaitingIs, Times DEF Tick, Older
  <2> QED
      BY <1>4, <2>1 DEF SoonInv
<1>5. CASE waited # MaxAge /\ (OnPath \/ OnScribe) /\ ~draining
  <2>1. /\ waited' = waited + 1 /\ left' = left - 1
        /\ back' = back \/ back' = back + 1
        BY <1>5, TickTimes
  <2>2. CASE OnPath
        BY <1>1, <1>5, <2>1, <2>2, Times DEF SoonInv, OnPath, Outage
  <2>3. CASE pc \in {"linkAlarm", "linkOpen"}
        BY <1>1, <1>5, <2>1, <2>3, Times DEF SoonInv, Outage
  <2>4. CASE pc = "linkTest"
        BY <1>1, <1>5, <2>1, <2>4, Times DEF SoonInv, Outage
  <2> QED
      BY <1>5, <2>2, <2>3, <2>4 DEF OnScribe
<1> QED
    BY <1>2, <1>3, <1>4, <1>5

LEMMA SoonChange ==
  ASSUME TypeOK, BackInv, SoonInv, NEW x \in Thing, Change(x)
  PROVE  SoonInv'
<1>1. UNCHANGED <<pc, left, nap, draining, linked, waited>>
    BY DEF Change, thread
<1>2. back' = 0 \/ back' = back
    BY DEF Change
<1>3. back' \in Nat /\ back' + left' <= back + left /\ Outage' >= Outage
    BY <1>1, <1>2, Times DEF Outage
<1>4. Outage \in Int /\ Outage' \in Int
    BY <1>1, <1>3, Times DEF Outage
<1> QED
    BY <1>1, <1>3, <1>4, Times DEF SoonInv

LEMMA SoonThread == TypeOK /\ BackInv /\ NapInv /\ SoonInv /\ Thread => SoonInv'
<1> SUFFICES ASSUME TypeOK, BackInv, NapInv, SoonInv, Thread, ~draining', waited' # MaxAge
             PROVE  SoonInv'
    BY DEF SoonInv
<1> USE Times DEF SoonInv, Outage
<1>1. CASE Open
  <2>1. pc' = "stat" \/ (/\ pc' = "pathAlarm" /\ left' = First /\ nap' = First
                        /\ waited' = 0 /\ back' = 0)
        BY <1>1 DEF Open
  <2> QED
      BY <2>1
<1>2. CASE PathAlarm
  <2>1. /\ pc = "pathAlarm" /\ pc' = "reopen" /\ left = 0
        /\ UNCHANGED <<nap, draining, back, waited>>
        BY <1>2 DEF PathAlarm
  <2>2. left' \in 0..Slow
        BY <1>2 DEF PathAlarm
  <2> QED
      BY <2>1, <2>2
<1>3. CASE Reopen
  <2>1. CASE good["path"]
        BY <1>3, <2>1 DEF Reopen
  <2>2. CASE ~good["path"]
    <3>1. back = 0
          BY <1>3, <2>2 DEF Reopen, BackInv, OnPath
    <3>2. /\ pc = "reopen" /\ pc' = "pathAlarm" /\ left = 0
          /\ left' = Doubled /\ nap' = Doubled
          /\ UNCHANGED <<draining, back, waited>>
          BY <1>3, <2>2 DEF Reopen
    <3>3. Doubled \in Nat /\ Doubled <= 2 * nap
          BY DoubledType DEF TypeOK
    <3> QED
        BY <3>1, <3>2, <3>3
  <2> QED
      BY <2>1, <2>2
<1>4. CASE CloseOpen
  <2>1. /\ pc = "closeOpen" /\ left' \in 0..Slow /\ waited' = 0 /\ back' = 0
        /\ UNCHANGED <<nap, draining>>
        /\ pc' = (IF good["scribe"] THEN Again ELSE "linkAlarm")
        BY <1>4 DEF CloseOpen
  <2>2. pc' \in {"backup", "open", "linkAlarm"}
        BY <2>1 DEF Again
  <2>3. nap' = First
        BY <2>1 DEF NapInv
  <2> QED
      BY <2>1, <2>2, <2>3
<1>5. CASE LinkAlarm
  <2>1. /\ pc = "linkAlarm" /\ pc' = "linkOpen" /\ left = 0
        /\ UNCHANGED <<nap, draining, back, waited>>
        BY <1>5 DEF LinkAlarm
  <2>2. left' \in 0..Slow
        BY <1>5 DEF LinkAlarm
  <2> QED
      BY <2>1, <2>2
<1>6. CASE LinkOpen
  <2>1. PICK s \in 0..Slow : left' = s + nap
        BY <1>6 DEF LinkOpen
  <2>2. /\ pc = "linkOpen" /\ pc' = "linkTest" /\ left = 0
        /\ linked' = good["scribe"]
        /\ UNCHANGED <<draining, back, waited>>
        BY <1>6 DEF LinkOpen
  <2>3. nap' = Doubled
        BY <1>6, <2>2 DEF LinkOpen
  <2>4. nap' \in Nat /\ nap' <= 2 * nap
        BY <2>3, DoubledType DEF TypeOK
  <2>5. back' + left' <= 3 * (Outage' + Slow)
        BY <2>1, <2>2
  <2>6. ASSUME ~linked' PROVE back = 0
        BY <2>2, <2>6 DEF BackInv, OnScribe
  <2>7. ASSUME ~linked'
        PROVE  /\ waited' + left' >= nap' - First
               /\ back' + left' <= Outage' + Slow
               /\ nap' <= 2 * Outage'
        BY <2>1, <2>2, <2>4, <2>6, <2>7
  <2> HIDE DEF Outage
  <2> QED
      BY <2>2, <2>5, <2>7
<1>7. CASE LinkTest
  <2>1. CASE linked
        BY <1>7, <2>1 DEF LinkTest, Again
  <2>2. CASE ~linked
        BY <1>7, <2>2 DEF LinkTest
  <2> QED
      BY <2>1, <2>2
<1>8. CASE \/ NothingToDrain \/ Drain \/ Drained \/ SendOk \/ SendFails
           \/ ReadLog \/ WriteCheckpoint \/ Idle
  <2>1. pc' \in {"read", "backup", "open", "closeOpen", "checkpoint", "send"}
        BY <1>8 DEF NothingToDrain, Drain, Drained, SendOk, SendFails, Again,
                    ReadLog, WriteCheckpoint, Idle
  <2> QED
      BY <2>1
<1> QED
    BY <1>1, <1>2, <1>3, <1>4, <1>5, <1>6, <1>7, <1>8 DEF Thread

LEMMA SoonStep == TypeOK /\ BackInv /\ NapInv /\ SoonInv /\ [Next]_vars => SoonInv'
<1> SUFFICES ASSUME TypeOK, BackInv, NapInv, SoonInv, [Next]_vars PROVE SoonInv'
    OBVIOUS
<1>1. CASE UNCHANGED vars
    BY <1>1 DEF vars, thread, ages, SoonInv, Outage
<1> QED
    BY <1>1, SoonTick, SoonChange, SoonThread DEF Next

(* After a short outage the thread is back soon, whatever outages there    *)
(* were before (t_m and sleep_m are set anew in stillGood and at each poll *)
(* in logtail_File).  A wait of MaxAge, which stands for all longer ones,  *)
(* is covered by BackWithin: a thread waits that long only if the outage   *)
(* was long.                                                               *)
THEOREM WaitsAreInProportion == Spec => []BackSoon
<1>1. Init => NapInv /\ SoonInv
    BY DEF Init, NapInv, SoonInv
<1>2. TypeOK /\ BackInv /\ SoonInv => BackSoon
  <2> SUFFICES ASSUME TypeOK, BackInv, SoonInv, Waiting, ~draining
               PROVE  back <= 3 * (First + (waited - back) + Slow)
      BY DEF BackSoon
  <2>1. \/ pc = "pathAlarm" \/ pc \in {"reopen", "linkAlarm"}
        \/ pc = "linkOpen" \/ pc = "linkTest"
        BY WaitingIs DEF OnPath, OnScribe
  <2>2. CASE waited = MaxAge
    <3>1. back <= 4 * Cap + 3 * Slow
          BY <2>1, Times DEF BackInv
    <3> QED
        BY <2>2, <3>1, Times
  <2>3. CASE waited # MaxAge
        BY <2>1, <2>3, Times DEF BackInv, SoonInv, Outage
  <2> QED
      BY <2>2, <2>3
<1> QED
    BY <1>1, <1>2, NapStep, SoonStep, BackHolds, TypeCorrect, PTL DEF Spec
=============================================================================
