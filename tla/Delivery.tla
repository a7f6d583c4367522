------------------------------ MODULE Delivery ------------------------------
(***************************************************************************)
(* What dip_logtail promises for one log (README, section 2.2): what the   *)
(* application logs is taken up in the order it was written, nothing left  *)
(* out, and everything taken reaches the scribe server.  A unit is a pair  *)
(* <<file, offset>>.                                                       *)
(***************************************************************************)
EXTENDS Integers

VARIABLES
  log,    \* the units the application has written
  taken,  \* the units the collector has read
  stored  \* the units the server has

dvars == <<log, taken, stored>>

(* <<f, i>> was written before <<g, j>>. *)
Earlier(u, v) ==
  \/ u[1] < v[1]
  \/ u[1] = v[1] /\ u[2] < v[2]

DInit == log = {} /\ taken = {} /\ stored = {}

(* The application appends: nothing new goes before what was taken. *)
Produce ==
  /\ log \subseteq log'
  /\ \A v \in log' \ log, u \in taken : ~Earlier(v, u)
  /\ UNCHANGED <<taken, stored>>

(* The collector reads on, leaving no gap. *)
Take ==
  /\ taken \subseteq taken'
  /\ taken' \subseteq log
  /\ \A u \in taken', v \in log : Earlier(v, u) => v \in taken'
  /\ UNCHANGED <<log, stored>>

(* The server stores all that was taken. *)
Store ==
  /\ stored' = taken
  /\ UNCHANGED <<log, taken>>

DNext == Produce \/ Take \/ Store

DSpec == DInit /\ [][DNext]_dvars
=============================================================================
