---------------------------- MODULE ScribeRpcInv ----------------------------
(***************************************************************************)
(* Why a reply is never taken for the answer to another call: an inductive *)
(* invariant of ScribeRpc.  TLC checks it on small instances,              *)
(* ScribeRpcProofs proves it.                                              *)
(***************************************************************************)
EXTENDS ScribeRpc

(* The server has a first part of the log. *)
StoredInv == \E n \in 0..pushed : stored = 1..n

(* A batch is a piece of the first n messages, and a server that has taken *)
(* `got' has all that is before it.                                        *)
Fits(batch, n, got) ==
  \E lo \in 1 .. n + 1, hi \in 0..n :
    batch = lo..hi /\ 1 .. lo - 1 \subseteq got

(* The queue is the rest of what was pushed. *)
QueueInv ==
  \E lo \in 1 .. pushed + 1 :
    messages = lo..pushed /\ 1 .. lo - 1 \subseteq stored

(* Whatever arrives at the server, however late, fits. *)
WireInv ==
  \A c \in Conn :
    /\ Fits(handling[c], pushed, stored)
    /\ requests[c] # <<>> => \E b \in Batches : requests[c] = <<b>> /\ Fits(b, pushed, stored)
    /\ c # transport => replies[c] = <<>>

(* A call is on its way, or in the hands of the server, or answered, or    *)
(* lost.                                                                   *)
Asked ==
  /\ requests[transport] = <<messages>>
  /\ handling[transport] = {}
  /\ replies[transport] = <<>>

Served ==
  /\ requests[transport] = <<>>
  /\ handling[transport] = messages
  /\ replies[transport] = <<>>

Answered ==
  /\ requests[transport] = <<>>
  /\ handling[transport] = {}
  /\ replies[transport] # <<>> =>
       \E r \in Reply : /\ replies[transport] = <<r>>
                        /\ r.answer = "OK" => messages \subseteq stored

(* All there is on the connection of a call is the call and its answer. *)
CallInv ==
  /\ pc \in {"log", "recv"} => transport # NoConn /\ messages # {}
  /\ pc \in {"read", "log"} /\ transport # NoConn =>
       /\ requests[transport] = <<>>
       /\ handling[transport] = {}
       /\ replies[transport] = <<>>
  /\ pc = "recv" => Asked \/ Served \/ Answered
  /\ pc = "wait" => transport = NoConn

RpcInv == TypeOK /\ StoredInv /\ QueueInv /\ WireInv /\ CallInv
=============================================================================
