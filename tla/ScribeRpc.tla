----------------------------- MODULE ScribeRpc -----------------------------
(***************************************************************************)
(* One thread of dip_logtail and its scribe server: scribe_send and the    *)
(* thrift client and processor of scribe.cpp, over connections that may    *)
(* break, be slow, and outlive their close: a request may reach the server *)
(* after the client has given it up.                                       *)
(*                                                                         *)
(* Requests and replies carry a sequence number, but the client always     *)
(* sends 0 and never looks at the one it gets: what the reply on the       *)
(* current connection answers is not known to it (`batch' in a reply is    *)
(* history).  What keeps an old reply from being taken for a new one is    *)
(* that the callers close and open after every failure.                    *)
(***************************************************************************)
EXTENDS Integers, Sequences

CONSTANTS
  Conn,       \* the connections there can be at a time, lingering ones too
  NoConn,     \* stands for: not connected
  MaxPushed   \* how many messages are pushed (bound)

ASSUME RpcAssumption ==
  /\ NoConn \notin Conn
  /\ MaxPushed \in Nat

VARIABLES
  (* the thread *)
  pc,         \* where it is: see PCs
  pushed,     \* how many messages were pushed so far; they are numbered
  messages,   \* scribe_inter.messages, in the order of the numbers
  transport,  \* the connection of scribe_inter, NoConn if not isOpen()
  (* each connection *)
  requests,   \* calls the server has not read, batches of messages
  handling,   \* the batch the server is at, {} if none
  replies,    \* answers the client has not read
  broken,     \* connections on which nothing arrives any more
  (* the server *)
  stored      \* the messages it has taken

thread == <<pc, pushed, messages, transport>>
wire   == <<requests, handling, replies, broken>>
vars   == <<thread, wire, stored>>
-----------------------------------------------------------------------------
(* "read"    reading the log; the messages are pushed here
   "log"     in send(), connected
   "recv"    in recv_Log
   "failed"  send() returned CONN_FATAL or CONN_TRANSIENT
   "wait"    in the loop of opens, alarms and sleeps                       *)
PCs == {"read", "log", "recv", "failed", "wait"}

Message == 1..MaxPushed

(* What recv_Log can find: the two codes of ResultCode, another code, a    *)
(* reply without one, an exception, a reply of the wrong type or method.   *)
Answers == {"OK", "TRY_LATER", "other", "missing", "exception", "wrong"}

(* Bug: only a failure of the connection counts, TRY_LATER is taken for    *)
(* success.                                                                *)
ResultNotFatal(answer) ==
  IF answer \in {"OK", "TRY_LATER"} THEN "CONN_OK" ELSE "CONN_FATAL"

(* What send() makes of it.  Everything recv_Log throws ends in CONN_FATAL. *)
Result(answer) ==
  IF answer = "OK" THEN "CONN_OK"
  ELSE IF answer = "TRY_LATER" THEN "CONN_TRANSIENT"
  ELSE "CONN_FATAL"

(* A connection to open: a new one, which none of the old calls is on.     *)
Free(c) ==
  /\ c # transport
  /\ requests[c] = <<>>
  /\ handling[c] = {}

Init ==
  /\ pc = "read"
  /\ pushed = 0
  /\ messages = {}
  /\ transport \in Conn \cup {NoConn}
  /\ requests = [c \in Conn |-> <<>>]
  /\ handling = [c \in Conn |-> {}]
  /\ replies = [c \in Conn |-> <<>>]
  /\ broken = {}
  /\ stored = {}
-----------------------------------------------------------------------------
(* The thread: one loop of logtail_File, or of read_backupfile's sends.    *)

Push ==
  /\ pc = "read"
  /\ pushed < MaxPushed
  /\ pushed' = pushed + 1
  /\ messages' = messages \cup {pushed + 1}
  /\ UNCHANGED <<pc, transport, wire, stored>>

(* A fresh socket, transport, protocol and client replace the old ones.    *)
Connect(c) ==
  /\ Free(c)
  /\ transport' = c
  /\ broken' = broken \ {c}

(* send() when not connected: it opens a connection first.                 *)
SendOpens ==
  /\ pc = "read"
  /\ messages # {}
  /\ transport = NoConn
  /\ \E c \in Conn : Connect(c)
  /\ pc' = "log"
  /\ UNCHANGED <<pushed, messages, requests, handling, replies, stored>>

SendCannotOpen ==
  /\ pc = "read"
  /\ messages # {}
  /\ transport = NoConn
  /\ pc' = "failed"
  /\ UNCHANGED <<pushed, messages, transport, wire, stored>>

Sending ==
  /\ pc \in {"read", "log"}
  /\ messages # {}
  /\ transport # NoConn

(* send_Log: the whole frame is handed over.  isOpen() knows nothing of a  *)
(* connection that broke: then the request is lost.                        *)
SendLog ==
  /\ Sending
  /\ pc' = "recv"
  /\ requests' = IF transport \in broken THEN requests
                 ELSE [requests EXCEPT ![transport] = Append(@, messages)]
  /\ UNCHANGED <<pushed, messages, transport, handling, replies, broken,
                 stored>>

(* The write fails or times out; of an incomplete frame the server sees    *)
(* nothing.                                                                *)
SendLogFails ==
  /\ Sending
  /\ pc' = "failed"
  /\ UNCHANGED <<pushed, messages, transport, wire, stored>>

(* recv_Log takes the first reply on the connection, and send() returns:   *)
(* the caller clears the queue if all went well.                           *)
RecvLog ==
  /\ pc = "recv"
  /\ replies[transport] # <<>>
  /\ replies' = [replies EXCEPT ![transport] = Tail(@)]
  /\ IF Result(Head(replies[transport]).answer) = "CONN_OK"
     THEN pc' = "read" /\ messages' = {}
     ELSE pc' = "failed" /\ UNCHANGED messages
  /\ UNCHANGED <<pushed, transport, requests, handling, broken, stored>>

(* Bug: the queue is cleared when no answer came. *)
GiveUpCleared ==
  /\ pc = "recv"
  /\ pc' = "failed"
  /\ messages' = {}
  /\ UNCHANGED <<pushed, transport, wire, stored>>

(* No answer: the caller keeps the messages.                               *)
GiveUp ==
  /\ pc = "recv"
  /\ pc' = "failed"
  /\ UNCHANGED <<pushed, messages, transport, wire, stored>>

(* The receive timeout passes while the answer may still come.             *)
TimesOut == GiveUp /\ transport \notin broken

(* The connection was lost: the read fails.                                *)
Disconnected ==
  /\ GiveUp
  /\ transport \in broken
  /\ replies[transport] = <<>>

(* Nobody reads the answers on the old connection any more.                *)
Close == replies' = [c \in Conn |-> IF c = transport THEN <<>> ELSE replies[c]]

(* Bug: a connection that isOpen() calls open is kept. *)
KeepsOpen ==
  /\ pc = "failed"
  /\ IF transport # NoConn
     THEN pc' = "read" /\ UNCHANGED <<transport, broken>>
     ELSE \/ (\E c \in Conn : Connect(c)) /\ pc' = "read"
          \/ pc' = "wait" /\ UNCHANGED <<transport, broken>>
  /\ UNCHANGED <<pushed, messages, requests, handling, replies, stored>>

(* The caller after a failure: close(), open(); the loop is entered if     *)
(* that failed.                                                            *)
CloseOpen ==
  /\ pc = "failed"
  /\ Close
  /\ \/ /\ \E c \in Conn : Connect(c)
        /\ pc' = "read"
     \/ /\ transport' = NoConn
        /\ pc' = "wait"
        /\ UNCHANGED broken
  /\ UNCHANGED <<pushed, messages, requests, handling, stored>>

(* while(!isOpen()): an open that succeeds at last.                        *)
Reopen ==
  /\ pc = "wait"
  /\ \E c \in Conn : Connect(c)
  /\ pc' = "read"
  /\ UNCHANGED <<pushed, messages, requests, handling, replies, stored>>
-----------------------------------------------------------------------------
(* The server: one scribeProcessor::process per request of a connection,   *)
(* connections side by side.                                               *)

(* readMessageBegin, args.read.                                            *)
Serve(c) ==
  /\ handling[c] = {}
  /\ requests[c] # <<>>
  /\ handling' = [handling EXCEPT ![c] = Head(requests[c])]
  /\ requests' = [requests EXCEPT ![c] = Tail(@)]
  /\ UNCHANGED <<thread, replies, broken, stored>>

(* iface_->Log (external): OK means that the batch was taken; with any     *)
(* other answer it may have been or not.  Then the reply, which nobody     *)
(* gets if the client has closed or the connection is broken.              *)
Answer(c, answer) ==
  /\ handling[c] # {}
  /\ stored' \in {stored \cup handling[c]}
                   \cup (IF answer = "OK" THEN {} ELSE {stored})
  /\ handling' = [handling EXCEPT ![c] = {}]
  /\ replies' =
       IF c = transport /\ c \notin broken
       THEN [replies EXCEPT ![c] =
               Append(@, [batch |-> handling[c], answer |-> answer])]
       ELSE replies
  /\ UNCHANGED <<thread, requests, broken>>

(* A connection breaks: what is on its way is lost.                        *)
Break(c) ==
  /\ c \notin broken
  /\ broken' = broken \cup {c}
  /\ requests' = [requests EXCEPT ![c] = <<>>]
  /\ replies' = [replies EXCEPT ![c] = <<>>]
  /\ UNCHANGED <<thread, handling, stored>>

(* The server stops and starts again; it keeps what it has stored.         *)
ServerRestarts ==
  /\ broken' = Conn
  /\ requests' = [c \in Conn |-> <<>>]
  /\ handling' = [c \in Conn |-> {}]
  /\ replies' = [c \in Conn |-> <<>>]
  /\ UNCHANGED <<thread, stored>>

AnswerOk == \E c \in Conn : Answer(c, "OK")

AnswerNotOk == \E c \in Conn, a \in Answers \ {"OK"} : Answer(c, a)

Next ==
  \/ Push \/ SendOpens \/ SendCannotOpen \/ SendLog \/ SendLogFails
  \/ RecvLog \/ TimesOut \/ Disconnected \/ CloseOpen \/ Reopen
  \/ \E c \in Conn : Serve(c)
  \/ AnswerOk \/ AnswerNotOk
  \/ \E c \in Conn : Break(c)
  \/ ServerRestarts

Spec == Init /\ [][Next]_vars
-----------------------------------------------------------------------------
(* Bookkeeping of the properties. *)

Batches == (SUBSET Message) \ {{}}

Reply == [batch : Batches, answer : Answers]

Acknowledged == 1..pushed \ messages

TypeOK ==
  /\ pc \in PCs
  /\ pushed \in 0..MaxPushed
  /\ messages \subseteq Message
  /\ transport \in Conn \cup {NoConn}
  /\ requests \in [Conn -> Seq(Batches)]
  /\ handling \in [Conn -> SUBSET Message]
  /\ replies \in [Conn -> Seq(Reply)]
  /\ broken \subseteq Conn
  /\ stored \subseteq Message

(* A message leaves the queue only if the server has it: no late answer to *)
(* an earlier, smaller batch clears the queue, although no answer says     *)
(* what it answers (ModelRead.cpp 452, 322).                               *)
AckedStored == Acknowledged \subseteq stored

(* The first copies of the messages reach the server in the order of the   *)
(* log, without a gap, although batches that were given up arrive late and *)
(* side by side with their repetitions.                                    *)
StoredInOrder == \A m \in stored : 1..m \subseteq stored

(* The connection machinery is the abstract shipment.                      *)
S == INSTANCE Shipment WITH queue <- messages

Ships == S!SSpec
-----------------------------------------------------------------------------
(* Liveness.  The thread goes on and the server answers what it has read;  *)
(* from some time on the network and the server are good: connections      *)
(* open, do not break, and the server says OK before the timeout.          *)

Trouble ==
  \/ SendCannotOpen \/ SendLogFails \/ TimesOut \/ AnswerNotOk
  \/ \E c \in Conn : Break(c)
  \/ ServerRestarts

LiveSpec ==
  /\ Spec
  /\ WF_vars(SendOpens \/ SendLog \/ RecvLog \/ Disconnected \/ CloseOpen
             \/ Reopen)
  /\ \A c \in Conn : WF_vars(Serve(c)) /\ WF_vars(Answer(c, "OK"))
  /\ <>[][~Trouble]_vars

(* Every message is acknowledged in the end, whatever went wrong before.   *)
AllAcknowledged ==
  \A m \in Message : m <= pushed ~> m \in stored \ messages
=============================================================================
