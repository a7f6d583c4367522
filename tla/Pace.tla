-------------------------------- MODULE Pace --------------------------------
(***************************************************************************)
(* How long a model thread waits, in seconds: the sleeps of its three      *)
(* loops of failed opens, the alarms they raise, and the seconds in which  *)
(* a checkpoint is written.  What the thread reads and sends is Tailer;    *)
(* here a poll has something to send or not.  Ages are counted as far as   *)
(* they matter, so that time itself needs no bound.                        *)
(***************************************************************************)
EXTENDS Integers

CONSTANTS
  First,          \* the first sleep of a loop: 5
  Cap,            \* a sleep of that length is not doubled any more: 300
  Slow,           \* what a call may take until it fails or is answered
  checkpoint_time,
  MaxSends,       \* how many batches a backup fills (bound)
  MaxAge          \* of a wait: longer ones are not told apart (bound)

ASSUME PaceAssumption ==
  /\ First \in Nat \ {0}
  /\ Cap \in Nat
  /\ First <= Cap
  /\ Slow \in Nat
  /\ checkpoint_time \in Nat \ {0}
  /\ MaxSends \in Nat
  /\ MaxAge \in Nat
  /\ MaxAge >= 6 * Cap + 4 * Slow  \* more than BackWithin allows

VARIABLES
  (* the surroundings *)
  good,      \* of "scribe" and of "path": it can be opened
  (* the thread *)
  pc,        \* the statement it is about to execute
  left,      \* in how many seconds
  nap,       \* t_m or sleep_m, the next sleep of the loop it is in
  draining,  \* in read_backupfile
  sends,     \* the batches the backup still fills
  queued,    \* messages is not empty
  linked,    \* scribe_inter.isOpen()
  pass_time, \* modulo checkpoint_time
  (* history: ages in seconds *)
  waited,    \* of the loop of failed opens the thread is in
  back,      \* of the time since what it waits for is good again
  alarmed,   \* of the last alarm because of scribe, and of path
  saved,     \* of the checkpoint
  checked,   \* of the last call of write_checkpoint
  steady     \* no two calls since the checkpoint were over a second apart

thread  == <<pc, left, nap, draining, sends, queued, linked>>
ages    == <<waited, back, alarmed, saved, checked, steady>>
vars    == <<good, thread, pass_time, ages>>
-----------------------------------------------------------------------------
Thing == {"scribe", "path"}

WaitingFor ==
  [scribe |-> {"linkAlarm", "linkOpen", "linkTest"},
   path   |-> {"pathAlarm", "reopen"}]

PC == {"open", "stat", "backup", "read", "checkpoint", "send", "closeOpen"}
        \cup WaitingFor["scribe"] \cup WaitingFor["path"]

Waiting == \E x \in Thing : pc \in WaitingFor[x]

Age == 0..MaxAge

Older(age, limit) == IF age < limit THEN age + 1 ELSE age

Init ==
  /\ good \in [Thing -> BOOLEAN]
  /\ pc = "open"
  /\ left = 0
  /\ nap = First
  /\ draining = FALSE
  /\ sends = 0
  /\ queued = FALSE
  /\ linked \in BOOLEAN
  /\ pass_time = 0
  /\ waited = 0
  /\ back = 0
  /\ alarmed = [x \in Thing |-> First]
  /\ saved = 0
  /\ checked = 0
  /\ steady = TRUE
-----------------------------------------------------------------------------
(* Scribe or the log file goes away or comes back.                         *)
Change(x) ==
  /\ good' = [good EXCEPT ![x] = ~@]
  /\ back' = IF pc \in WaitingFor[x] THEN 0 ELSE back
  /\ UNCHANGED <<thread, pass_time, waited, alarmed, saved, checked, steady>>

(* A second of a sleep or of a call passes.                                *)
Tick ==
  /\ left > 0
  /\ left' = left - 1
  /\ pass_time' = (pass_time + 1) % checkpoint_time
  /\ waited' = IF Waiting THEN Older(waited, MaxAge) ELSE waited
  /\ back' = IF \E x \in Thing : good[x] /\ pc \in WaitingFor[x]
             THEN Older(back, MaxAge) ELSE back
  /\ alarmed' = [x \in Thing |-> Older(alarmed[x], First)]
  /\ saved' = Older(saved, checkpoint_time + 1)
  /\ checked' = Older(checked, 2)
  /\ steady' = (steady /\ checked' <= 1)
  /\ UNCHANGED <<good, pc, nap, draining, sends, queued, linked>>
-----------------------------------------------------------------------------
(* The thread acts when the time of the last sleep or call is over; Go is  *)
(* the next statement, and how long this one takes.                        *)
Go(next, seconds) ==
  /\ left = 0
  /\ left' = seconds
  /\ pc' = next

GoAtOnce(next) == Go(next, 0)

Call(next) == \E s \in 0..Slow : Go(next, s)

NoWait == waited' = 0 /\ back' = 0

Aging == UNCHANGED <<good, pass_time, saved, checked, steady>>

(* dip_logtail_alarm_libcurlinterface: a post that takes its time and has  *)
(* no result.                                                              *)
Alarm(x, next) ==
  /\ Call(next)
  /\ alarmed' = [alarmed EXCEPT ![x] = 0]

(* stillGood: the first attempt, and the loop: sleep, alarm, attempt.      *)
Open ==
  /\ pc = "open"
  /\ IF good["path"]
     THEN GoAtOnce("stat") /\ UNCHANGED nap
     ELSE Go("pathAlarm", First) /\ nap' = First
  /\ NoWait
  /\ UNCHANGED <<draining, sends, queued, linked, alarmed>>
  /\ Aging

PathAlarm ==
  /\ pc = "pathAlarm"
  /\ Alarm("path", "reopen")
  /\ UNCHANGED <<nap, draining, sends, queued, linked, waited, back>>
  /\ Aging

DoubledForEver == 2 * nap  \* bug: no limit

Doubled == IF nap >= Cap THEN nap ELSE 2 * nap

Reopen ==
  /\ pc = "reopen"
  /\ IF good["path"]
     THEN GoAtOnce("stat") /\ NoWait /\ UNCHANGED nap
     ELSE Go("pathAlarm", Doubled) /\ nap' = Doubled /\ UNCHANGED <<waited, back>>
  /\ UNCHANGED <<draining, sends, queued, linked, alarmed>>
  /\ Aging

(* No rotation, or one whose backup is missing (an alarm of its own kind). *)
NothingToDrain ==
  /\ pc = "stat"
  /\ Call("read")
  /\ UNCHANGED <<nap, draining, sends, queued, linked, waited, back, alarmed>>
  /\ Aging

(* read_backupfile sets t_m once, before its loop over the lines.          *)
Drain ==
  /\ pc = "stat"
  /\ GoAtOnce("backup")
  /\ nap' = First
  /\ draining' = TRUE
  /\ sends' \in 0..MaxSends
  /\ UNCHANGED <<queued, linked, waited, back, alarmed>>
  /\ Aging

(* The lines that are left fill no batch.                                  *)
Drained ==
  /\ pc = "backup"
  /\ sends = 0
  /\ GoAtOnce("read")
  /\ draining' = FALSE
  /\ queued' \in {queued, TRUE}
  /\ UNCHANGED <<nap, sends, linked, waited, back, alarmed>>
  /\ Aging
-----------------------------------------------------------------------------
(* send, from either loop.                                                 *)
Again == IF draining THEN "backup" ELSE "open"

Sending ==
  \/ pc = "backup" /\ sends > 0 /\ sends' = sends - 1
  \/ pc = "send" /\ queued /\ UNCHANGED sends

SendOk ==
  /\ Sending
  /\ good["scribe"]
  /\ Call(Again)
  /\ queued' = FALSE
  /\ linked' = TRUE
  /\ UNCHANGED <<nap, draining, waited, back, alarmed>>
  /\ Aging

(* Scribe is away, or says TRY_LATER.                                      *)
SendFails ==
  /\ Sending
  /\ Call("closeOpen")
  /\ queued' = TRUE
  /\ UNCHANGED <<nap, draining, linked, waited, back, alarmed>>
  /\ Aging

(* close, open, and if that succeeds no sleep at all.                      *)
CloseOpen ==
  /\ pc = "closeOpen"
  /\ Call(IF good["scribe"] THEN Again ELSE "linkAlarm")
  /\ linked' = good["scribe"]
  /\ NoWait
  /\ UNCHANGED <<nap, draining, sends, queued, alarmed>>
  /\ Aging

LinkAlarm ==
  /\ pc = "linkAlarm"
  /\ Alarm("scribe", "linkOpen")
  /\ UNCHANGED <<nap, draining, sends, queued, linked, waited, back>>
  /\ Aging

(* open, a sleep, and the doubling of t_m; the limit of                    *)
(* read_backupfile is one second higher.                                   *)
LinkOpenThenSleep(seconds) ==
  /\ pc = "linkOpen"
  /\ linked' = good["scribe"]
  /\ \E s \in 0..Slow : Go("linkTest", s + seconds)
  /\ nap' = IF draining /\ nap = Cap THEN 2 * nap ELSE Doubled
  /\ UNCHANGED <<draining, sends, queued, waited, back, alarmed>>
  /\ Aging

(* Bug: no sleep once the connection is open. *)
LinkOpenNoSleep == LinkOpenThenSleep(IF good["scribe"] THEN 0 ELSE nap)

(* The code sleeps whatever came of the open. *)
LinkOpen == LinkOpenThenSleep(nap)

LinkTest ==
  /\ pc = "linkTest"
  /\ IF linked THEN GoAtOnce(Again) /\ NoWait
     ELSE GoAtOnce("linkAlarm") /\ UNCHANGED <<waited, back>>
  /\ UNCHANGED <<nap, draining, sends, queued, linked, alarmed>>
  /\ Aging
-----------------------------------------------------------------------------
ReadLog ==
  /\ pc = "read"
  /\ Call("checkpoint")
  /\ queued' \in {queued, TRUE}
  /\ UNCHANGED <<nap, draining, sends, linked, waited, back, alarmed>>
  /\ Aging

(* write_checkpoint looks at the clock at each call.  (A write that fails  *)
(* is in Tailer.)  Back in logtail_File, t_m is set anew.                  *)
CheckpointWith(due, t_m) ==
  /\ pc = "checkpoint"
  /\ GoAtOnce("send")
  /\ nap' = t_m
  /\ saved' = IF due THEN 0 ELSE saved
  /\ steady' = (due \/ steady)
  /\ checked' = 0
  /\ UNCHANGED <<good, pass_time, draining, sends, queued, linked, waited, back,
                 alarmed>>

CheckpointIfQueued == CheckpointWith(pass_time = 0 /\ queued, First)  \* bug
CheckpointKeepsNap == CheckpointWith(pass_time = 0, nap)  \* bug: t_m stays

WriteCheckpoint == CheckpointWith(pass_time = 0, First)

Idle ==
  /\ pc = "send"
  /\ ~queued
  /\ Go("open", 1)
  /\ UNCHANGED <<nap, draining, sends, queued, linked, waited, back, alarmed>>
  /\ Aging

Thread == \/ Open \/ PathAlarm \/ Reopen \/ NothingToDrain \/ Drain \/ Drained
          \/ SendOk \/ SendFails \/ CloseOpen \/ LinkAlarm \/ LinkOpen
          \/ LinkTest \/ ReadLog \/ WriteCheckpoint \/ Idle

Next == Thread \/ Tick \/ \E x \in Thing : Change(x)

Spec == Init /\ [][Next]_vars
-----------------------------------------------------------------------------
TypeOK ==
  /\ good \in [Thing -> BOOLEAN]
  /\ pc \in PC
  /\ left \in 0 .. 2 * Cap + Slow
  /\ nap \in First .. 2 * Cap
  /\ draining \in BOOLEAN
  /\ sends \in 0..MaxSends
  /\ queued \in BOOLEAN
  /\ linked \in BOOLEAN
  /\ pass_time \in 0 .. checkpoint_time - 1
  /\ waited \in Age
  /\ back \in Age
  /\ alarmed \in [Thing -> 0..First]
  /\ saved \in 0 .. checkpoint_time + 1
  /\ checked \in 0..2
  /\ steady \in BOOLEAN

(* A loop of failed opens is left in time: when what it waits for is good  *)
(* again, and stays so, the thread goes on after two sleeps at most, the   *)
(* one it is in and the one after the open that succeeds.                  *)
BackWithin ==
  Waiting => back <= 4 * Cap + 3 * Slow

(* After a short outage the thread is back soon: it waits no longer than   *)
(* in proportion to the time the outage had lasted, whatever outages there *)
(* were before.  (Not in read_backupfile, which keeps t_m over its lines.) *)
BackSoon ==
  Waiting /\ ~draining =>
    back <= 3 * (First + (waited - back) + Slow)

(* However often scribe or the file comes and goes, two alarms because of  *)
(* it are at least a first sleep apart: it is no flood.                    *)
AlarmsApart ==
  [][/\ pc = "linkAlarm" /\ pc' # pc => alarmed["scribe"] >= First
     /\ pc = "pathAlarm" /\ pc' # pc => alarmed["path"] >= First]_vars

(* As long as the thread polls every second, its checkpoint is never older *)
(* than checkpoint_time.                                                   *)
Fresh == steady => saved <= checkpoint_time

(* README:24: checkpoint_time is the interval of the checkpoints: one that *)
(* is older is replaced when the thread comes to write_checkpoint.         *)
Regular ==
  [][pc = "checkpoint" /\ pc' = "send" /\ saved >= checkpoint_time
       => saved' = 0]_vars
=============================================================================
