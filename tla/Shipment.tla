------------------------------ MODULE Shipment ------------------------------
(***************************************************************************)
(* What the thread may rely on when it hands messages to scribe_send       *)
(* (ModelRead.cpp 428-453): the server has them in the order in which they *)
(* were pushed, and the queue is cleared only when the server has them.    *)
(* Messages are numbered in the order of pushing.                          *)
(***************************************************************************)
EXTENDS Integers

VARIABLES
  pushed,  \* how many messages were pushed
  queue,   \* those the thread still holds
  stored   \* those the server has, one copy or more

svars == <<pushed, queue, stored>>

SInit == pushed = 0 /\ queue = {} /\ stored = {}

Take ==
  /\ pushed' = pushed + 1
  /\ queue' = queue \cup {pushed + 1}
  /\ UNCHANGED stored

(* Copies come late and repeatedly, but a message never before an earlier  *)
(* one.                                                                    *)
Store ==
  /\ \E n \in 0..pushed : stored' = 1..n /\ stored \subseteq stored'
  /\ UNCHANGED <<pushed, queue>>

Release ==
  /\ queue \subseteq stored
  /\ queue' = {}
  /\ UNCHANGED <<pushed, stored>>

SNext == Take \/ Store \/ Release

SSpec == SInit /\ [][SNext]_svars
=============================================================================
