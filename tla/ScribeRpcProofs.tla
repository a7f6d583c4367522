-------------------------- MODULE ScribeRpcProofs --------------------------
(***************************************************************************)
(* Proofs about ScribeRpc for every number of connections and messages.    *)
(***************************************************************************)
EXTENDS ScribeRpcInv, TLAPS

-----------------------------------------------------------------------------
(* Batches and what the server has. *)

LEMMA FitsLater ==
  ASSUME NEW n \in Nat, NEW m \in Nat, n <= m,
         NEW got, NEW more, got \subseteq more,
         NEW b, Fits(b, n, got)
  PROVE  Fits(b, m, more)
<1>1. PICK lo \in 1 .. n + 1, hi \in 0..n :
            b = lo..hi /\ 1 .. lo - 1 \subseteq got
      BY DEF Fits
<1>2. lo \in 1 .. m + 1 /\ hi \in 0..m
      OBVIOUS
<1>3. 1 .. lo - 1 \subseteq more
      BY <1>1
<1> QED
    BY <1>1, <1>2, <1>3 DEF Fits

LEMMA NothingFits ==
  ASSUME NEW n \in Nat, NEW got
  PROVE  Fits({}, n, got)
<1>1. {} = 1..0 /\ 1 .. 1 - 1 \subseteq got
      OBVIOUS
<1>2. 1 \in 1 .. n + 1 /\ 0 \in 0..n
      OBVIOUS
<1> QED
    BY <1>1, <1>2 DEF Fits

(* Storing a batch that fits leaves the server with a first part.          *)
LEMMA StoreKeepsPrefix ==
  ASSUME NEW n \in Nat, NEW k \in 0..n, NEW b, Fits(b, n, 1..k)
  PROVE  \E j \in 0..n : 1..k \cup b = 1..j
<1>1. PICK lo \in 1 .. n + 1, hi \in 0..n :
            b = lo..hi /\ 1 .. lo - 1 \subseteq 1..k
      BY DEF Fits
<1>2. lo - 1 <= k
  <2>1. CASE lo = 1
        BY <2>1
  <2>2. CASE lo > 1
        BY <1>1, <2>2
  <2> QED
      BY <2>1, <2>2
<1>3. CASE hi <= k
  <2>1. 1..k \cup lo..hi = 1..k
        BY <1>3
  <2> QED
      BY <1>1, <2>1
<1>4. CASE hi > k
  <2>1. 1..k \cup lo..hi = 1..hi
        BY <1>2, <1>4
  <2> QED
      BY <1>1, <2>1
<1> QED
    BY <1>3, <1>4

LEMMA QueueFits == RpcInv => Fits(messages, pushed, stored)
<1> SUFFICES ASSUME RpcInv PROVE Fits(messages, pushed, stored)
    OBVIOUS
<1>1. pushed \in Nat
      BY RpcAssumption DEF RpcInv, TypeOK
<1>2. pushed \in 0..pushed
      BY <1>1
<1> QED
    BY <1>2 DEF RpcInv, QueueInv, Fits
-----------------------------------------------------------------------------
LEMMA InitInv == Init => RpcInv
<1> SUFFICES ASSUME Init PROVE RpcInv
    OBVIOUS
<1>1. TypeOK
      BY RpcAssumption DEF Init, TypeOK, PCs
<1>2. StoredInv
  <2>1. {} = 1..0 /\ 0 \in 0..0
        OBVIOUS
  <2> QED
      BY <2>1 DEF Init, StoredInv
<1>3. QueueInv
  <2>1. {} = 1..0 /\ 1 \in 1 .. 0 + 1 /\ 1 .. 1 - 1 \subseteq {}
        OBVIOUS
  <2> QED
      BY <2>1 DEF Init, QueueInv
<1>4. WireInv
      BY NothingFits DEF Init, WireInv
<1>5. CallInv
      BY DEF Init, CallInv
<1> QED
    BY <1>1, <1>2, <1>3, <1>4, <1>5 DEF RpcInv

(* Steps that change neither the queue nor what the server has.            *)
Unmoved == UNCHANGED <<pushed, messages, stored>>

LEMMA UnmovedQueue ==
  ASSUME RpcInv, Unmoved
  PROVE  StoredInv' /\ QueueInv'
  BY DEF RpcInv, Unmoved, StoredInv, QueueInv
-----------------------------------------------------------------------------
(* The thread. *)

LEMMA PushInv == RpcInv /\ Push => RpcInv'
<1> SUFFICES ASSUME RpcInv, Push PROVE RpcInv'
    OBVIOUS
<1>1. pushed \in Nat /\ pushed' = pushed + 1 /\ pushed' \in 0..MaxPushed
      BY RpcAssumption DEF RpcInv, TypeOK, Push
<1>2. TypeOK'
  <2>1. messages' \subseteq Message
        BY <1>1 DEF RpcInv, TypeOK, Push, Message
  <2> QED
      BY <1>1, <2>1 DEF RpcInv, TypeOK, Push, wire
<1>3. StoredInv'
  <2>1. PICK n \in 0..pushed : stored = 1..n
        BY DEF RpcInv, StoredInv
  <2>2. n \in 0..pushed'
        BY <1>1
  <2> QED
      BY <2>1, <2>2 DEF StoredInv, Push
<1>4. QueueInv'
  <2>1. PICK lo \in 1 .. pushed + 1 :
              messages = lo..pushed /\ 1 .. lo - 1 \subseteq stored
        BY DEF RpcInv, QueueInv
  <2>2. lo..pushed \cup {pushed + 1} = lo .. pushed + 1
        BY <1>1
  <2>3. lo \in 1 .. pushed' + 1
        BY <1>1
  <2> QED
      BY <1>1, <2>1, <2>2, <2>3 DEF QueueInv, Push
<1>5. WireInv'
  <2>1. \A b : Fits(b, pushed, stored) => Fits(b, pushed', stored')
        BY <1>1, FitsLater DEF Push
  <2> QED
      BY <2>1 DEF RpcInv, WireInv, Push, wire
<1>6. CallInv'
      BY DEF RpcInv, CallInv, Push, wire
<1> QED
    BY <1>2, <1>3, <1>4, <1>5, <1>6 DEF RpcInv

LEMMA ConnectInv ==
  ASSUME RpcInv, Unmoved,
         NEW c \in Conn, Connect(c),
         UNCHANGED <<requests, handling>>,
         Close,
         pc' \in {"read", "log"},
         pc' = "log" => messages # {}
  PROVE  RpcInv'
<1>1. c # NoConn
      BY RpcAssumption
<1>2. TypeOK'
  <2>1. replies' \in [Conn -> Seq(Reply)]
        BY DEF Close, RpcInv, TypeOK
  <2> QED
      BY <2>1 DEF RpcInv, TypeOK, Unmoved, Connect, PCs
<1>3. replies'[c] = <<>> /\ requests[c] = <<>> /\ handling[c] = {}
      BY DEF Close, Connect, Free, RpcInv, WireInv
<1>4. WireInv'
      BY DEF RpcInv, WireInv, Unmoved, Close, Connect
<1>5. CallInv'
      BY <1>1, <1>3 DEF CallInv, Connect, Unmoved
<1> QED
    BY <1>2, <1>4, <1>5, UnmovedQueue DEF RpcInv

(* When not connected there are no replies to be dropped.                  *)
LEMMA NothingToClose ==
  ASSUME RpcInv, transport = NoConn, UNCHANGED replies
  PROVE  Close
<1>1. replies = [c \in Conn |-> replies[c]]
      BY DEF RpcInv, TypeOK
<1>2. \A c \in Conn : c # NoConn
      BY RpcAssumption
<1> QED
    BY <1>1, <1>2 DEF Close

LEMMA OpeningInv ==
  RpcInv /\ (SendOpens \/ CloseOpen \/ Reopen) => RpcInv'
<1> SUFFICES ASSUME RpcInv, SendOpens \/ CloseOpen \/ Reopen PROVE RpcInv'
    OBVIOUS
<1>0. Unmoved /\ UNCHANGED <<requests, handling>>
      BY DEF SendOpens, CloseOpen, Reopen, Unmoved
<1>1. CASE SendOpens
  <2>1. PICK c \in Conn : Connect(c)
        BY <1>1 DEF SendOpens
  <2>2. Close
        BY <1>1, NothingToClose DEF SendOpens
  <2> QED
      BY <1>0, <1>1, <2>1, <2>2, ConnectInv DEF SendOpens
<1>2. CASE Reopen
  <2>1. PICK c \in Conn : Connect(c)
        BY <1>2 DEF Reopen
  <2>2. Close
        BY <1>2, NothingToClose DEF Reopen, RpcInv, CallInv
  <2> QED
      BY <1>0, <1>2, <2>1, <2>2, ConnectInv DEF Reopen
<1>3. CASE CloseOpen /\ transport' # NoConn
  <2>1. PICK c \in Conn : Connect(c)
        BY <1>3 DEF CloseOpen
  <2>2. Close /\ pc' = "read"
        BY <1>3 DEF CloseOpen
  <2> QED
      BY <1>0, <2>1, <2>2, ConnectInv
<1>4. CASE CloseOpen /\ transport' = NoConn
  <2>1. pc' = "wait" /\ UNCHANGED broken /\ Close
        BY <1>4, RpcAssumption DEF CloseOpen, Connect
  <2>2. replies' \in [Conn -> Seq(Reply)]
        BY <2>1 DEF Close, RpcInv, TypeOK
  <2>3. TypeOK'
        BY <1>0, <1>4, <2>1, <2>2 DEF RpcInv, TypeOK, Unmoved, PCs
  <2>4. WireInv'
        BY <1>0, <2>1 DEF RpcInv, WireInv, Unmoved, Close
  <2>5. CallInv'
        BY <1>4, <2>1 DEF CallInv
  <2> QED
      BY <1>0, <2>3, <2>4, <2>5, UnmovedQueue DEF RpcInv
<1> QED
    BY <1>1, <1>2, <1>3, <1>4

(* Failures that only send the thread on to close and open.                *)
LEMMA FailingInv ==
  RpcInv /\ (SendCannotOpen \/ SendLogFails \/ GiveUp) => RpcInv'
<1> SUFFICES ASSUME RpcInv, SendCannotOpen \/ SendLogFails \/ GiveUp
             PROVE  RpcInv'
    OBVIOUS
<1>1. /\ pc' = "failed"
      /\ UNCHANGED <<pushed, messages, transport, stored>>
      /\ UNCHANGED <<requests, handling, replies, broken>>
      BY DEF SendCannotOpen, SendLogFails, GiveUp, wire
<1> QED
    BY <1>1 DEF RpcInv, TypeOK, PCs, StoredInv, QueueInv, WireInv, CallInv

LEMMA SendLogInv == RpcInv /\ SendLog => RpcInv'
<1> SUFFICES ASSUME RpcInv, SendLog PROVE RpcInv'
    OBVIOUS
<1>1. transport \in Conn /\ messages \in Batches
      BY DEF RpcInv, TypeOK, SendLog, Sending, Batches
<1>2. /\ pc \in {"read", "log"}
      /\ requests[transport] = <<>>
      /\ handling[transport] = {}
      /\ replies[transport] = <<>>
      BY DEF RpcInv, CallInv, SendLog, Sending
<1>3. requests' \in [Conn -> Seq(Batches)]
      BY <1>1 DEF RpcInv, TypeOK, SendLog
<1>4. requests'[transport] \in {<<>>, <<messages>>}
      BY <1>1, <1>2 DEF RpcInv, TypeOK, SendLog
<1>5. \A c \in Conn : c # transport => requests'[c] = requests[c]
      BY <1>1 DEF RpcInv, TypeOK, SendLog
<1>6. TypeOK'
      BY <1>3 DEF RpcInv, TypeOK, SendLog, PCs
<1>7. WireInv'
  <2> SUFFICES ASSUME NEW c \in Conn
               PROVE /\ Fits(handling[c], pushed, stored)
                     /\ requests'[c] # <<>> =>
                          \E b \in Batches : /\ requests'[c] = <<b>>
                                             /\ Fits(b, pushed, stored)
                     /\ c # transport => replies[c] = <<>>
      BY DEF WireInv, SendLog
  <2>1. CASE c = transport
        BY <1>1, <1>4, <2>1, QueueFits DEF RpcInv, WireInv
  <2>2. CASE c # transport
        BY <1>5, <2>2 DEF RpcInv, WireInv
  <2> QED
      BY <2>1, <2>2
<1>8. CallInv'
  <2>1. UNCHANGED <<transport, messages, handling, replies>> /\ pc' = "recv"
        BY DEF SendLog
  <2>2. Asked' \/ Answered'
        BY <1>2, <1>4, <2>1 DEF Asked, Answered
  <2>3. transport' # NoConn /\ messages' # {}
        BY <1>1, <2>1, RpcAssumption DEF Batches
  <2> QED
      BY <2>1, <2>2, <2>3 DEF CallInv
<1> QED
    BY <1>6, <1>7, <1>8, UnmovedQueue DEF RpcInv, SendLog, Unmoved

LEMMA RecvLogInv == RpcInv /\ RecvLog => RpcInv'
<1> SUFFICES ASSUME RpcInv, RecvLog PROVE RpcInv'
    OBVIOUS
<1>1. transport \in Conn /\ transport # NoConn
      BY DEF RpcInv, TypeOK, CallInv, RecvLog
<1>2. PICK r \in Reply : /\ requests[transport] = <<>>
                         /\ handling[transport] = {}
                         /\ replies[transport] = <<r>>
                         /\ r.answer = "OK" => messages \subseteq stored
      BY DEF RpcInv, CallInv, RecvLog, Asked, Served, Answered
<1>3. Head(replies[transport]) = r /\ Tail(replies[transport]) = <<>>
      BY <1>2
<1>4. /\ replies' \in [Conn -> Seq(Reply)]
      /\ replies'[transport] = <<>>
      /\ \A c \in Conn : c # transport => replies'[c] = replies[c]
      BY <1>1, <1>3 DEF RpcInv, TypeOK, RecvLog
<1>5. UNCHANGED <<pushed, transport, requests, handling, broken, stored>>
      BY DEF RecvLog
<1>6. StoredInv' /\ WireInv'
      BY <1>4, <1>5 DEF RpcInv, StoredInv, WireInv
<1>7. CASE Result(r.answer) = "CONN_OK"
  <2>1. pc' = "read" /\ messages' = {}
        BY <1>3, <1>7 DEF RecvLog
  <2>2. messages \subseteq stored
        BY <1>2, <1>7 DEF Result
  <2>3. TypeOK'
        BY <1>4, <1>5, <2>1 DEF RpcInv, TypeOK, PCs
  <2>4. QueueInv'
    <3>1. pushed \in Nat
          BY RpcAssumption DEF RpcInv, TypeOK
    <3>2. PICK lo \in 1 .. pushed + 1 :
                messages = lo..pushed /\ 1 .. lo - 1 \subseteq stored
          BY DEF RpcInv, QueueInv
    <3>3. 1..pushed \subseteq stored
          BY <2>2, <3>1, <3>2
    <3>4. {} = pushed + 1 .. pushed /\ pushed + 1 \in 1 .. pushed + 1
          /\ 1 .. (pushed + 1) - 1 \subseteq stored
          BY <3>1, <3>3
    <3>5. messages' = pushed' + 1 .. pushed' /\ pushed' + 1 \in 1 .. pushed' + 1
          /\ 1 .. (pushed' + 1) - 1 \subseteq stored'
          BY <1>5, <2>1, <3>4
    <3> QED
        BY <3>5 DEF QueueInv
  <2>5. CallInv'
        BY <1>2, <1>4, <1>5, <2>1 DEF CallInv
  <2> QED
      BY <1>6, <2>3, <2>4, <2>5 DEF RpcInv
<1>8. CASE Result(r.answer) # "CONN_OK"
  <2>1. pc' = "failed" /\ UNCHANGED messages
        BY <1>3, <1>8 DEF RecvLog
  <2>2. TypeOK'
        BY <1>4, <1>5, <2>1 DEF RpcInv, TypeOK, PCs
  <2>3. QueueInv' /\ CallInv'
        BY <1>5, <2>1 DEF RpcInv, QueueInv, CallInv
  <2> QED
      BY <1>6, <2>2, <2>3 DEF RpcInv
<1> QED
    BY <1>7, <1>8
-----------------------------------------------------------------------------
(* The server and the network. *)

LEMMA ServeInv == ASSUME RpcInv, NEW c \in Conn, Serve(c) PROVE RpcInv'
<1>1. PICK b \in Batches : requests[c] = <<b>> /\ Fits(b, pushed, stored)
      BY DEF RpcInv, WireInv, Serve
<1>2. Head(requests[c]) = b /\ Tail(requests[c]) = <<>>
      BY <1>1
<1>3. /\ handling' = [handling EXCEPT ![c] = b]
      /\ requests' = [requests EXCEPT ![c] = <<>>]
      /\ UNCHANGED <<pc, pushed, messages, transport, replies, broken, stored>>
      BY <1>2 DEF Serve, thread
<1>4. TypeOK'
  <2>1. requests' \in [Conn -> Seq(Batches)]
        BY <1>3 DEF RpcInv, TypeOK
  <2>2. handling' \in [Conn -> SUBSET Message]
        BY <1>3 DEF RpcInv, TypeOK, Batches
  <2> QED
      BY <1>3, <2>1, <2>2 DEF RpcInv, TypeOK
<1>5. /\ handling'[c] = b /\ requests'[c] = <<>>
      /\ \A d \in Conn : d # c => /\ handling'[d] = handling[d]
                                 /\ requests'[d] = requests[d]
      BY <1>3 DEF RpcInv, TypeOK
<1>6. WireInv'
      BY <1>1, <1>3, <1>5 DEF RpcInv, WireInv
<1>7. CallInv'
  <2>1. CASE transport = c
    <3>1. pc \notin {"read", "log", "wait"}
          BY <1>1, <2>1, RpcAssumption DEF RpcInv, CallInv
    <3>2. pc = "recv" => Served'
      <4> HAVE pc = "recv"
      <4>0. <<b>> # <<>>
            OBVIOUS
      <4>1. Asked
            BY <1>1, <2>1, <4>0 DEF RpcInv, CallInv, Asked, Served, Answered
      <4>2. b = messages
            BY <1>1, <1>2, <2>1, <4>1 DEF Asked
      <4> QED
          BY <1>3, <1>5, <2>1, <4>1, <4>2 DEF Asked, Served
    <3> QED
        BY <1>3, <3>1, <3>2 DEF RpcInv, CallInv
  <2>2. CASE transport # c
    <3>1. transport # NoConn => transport \in Conn
          BY DEF RpcInv, TypeOK
    <3> QED
        BY <1>3, <1>5, <2>2, <3>1
           DEF RpcInv, CallInv, Asked, Served, Answered
  <2> QED
      BY <2>1, <2>2
<1> QED
    BY <1>3, <1>4, <1>6, <1>7, UnmovedQueue DEF RpcInv, Unmoved

LEMMA AnswerInv ==
  ASSUME RpcInv, NEW c \in Conn, NEW answer \in Answers, Answer(c, answer)
  PROVE  RpcInv'
<1> DEFINE b == handling[c]
<1>1. /\ pushed \in Nat
      /\ b \in Batches
      /\ Fits(b, pushed, stored)
      /\ UNCHANGED <<pc, pushed, messages, transport, requests, broken>>
      BY RpcAssumption
         DEF RpcInv, TypeOK, WireInv, Batches, Answer, thread
<1>2. /\ handling' = [handling EXCEPT ![c] = {}]
      /\ handling'[c] = {}
      /\ \A d \in Conn : d # c => handling'[d] = handling[d]
      BY DEF RpcInv, TypeOK, Answer
<1>3. /\ stored' \in {stored, stored \cup b}
      /\ answer = "OK" => b \subseteq stored'
      /\ stored \subseteq stored'
      BY DEF Answer
<1>4. /\ replies' \in [Conn -> Seq(Reply)]
      /\ \A d \in Conn : d # c \/ d # transport => replies'[d] = replies[d]
      /\ replies'[c] \in
           {replies[c], Append(replies[c], [batch |-> b, answer |-> answer])}
  <2>1. [batch |-> b, answer |-> answer] \in Reply
        BY <1>1 DEF Reply
  <2> QED
      BY <2>1 DEF RpcInv, TypeOK, Answer
<1>5. TypeOK'
  <2>1. stored' \subseteq Message
        BY <1>1, <1>3 DEF RpcInv, TypeOK, Batches
  <2>2. handling' \in [Conn -> SUBSET Message]
        BY <1>2 DEF RpcInv, TypeOK
  <2> QED
      BY <1>1, <1>4, <2>1, <2>2 DEF RpcInv, TypeOK
<1>6. StoredInv'
  <2>1. PICK n \in 0..pushed : stored = 1..n
        BY DEF RpcInv, StoredInv
  <2>2. \E j \in 0..pushed : stored \cup b = 1..j
        BY <1>1, <2>1, StoreKeepsPrefix
  <2> QED
      BY <1>1, <1>3, <2>1, <2>2 DEF StoredInv
<1>7. QueueInv'
      BY <1>1, <1>3 DEF RpcInv, QueueInv
<1>8. WireInv'
  <2>1. \A x : Fits(x, pushed, stored) => Fits(x, pushed, stored')
        BY <1>1, <1>3, FitsLater
  <2>2. Fits({}, pushed, stored')
        BY <1>1, NothingFits
  <2> QED
      BY <1>1, <1>2, <1>4, <2>1, <2>2 DEF RpcInv, WireInv
<1>9. CallInv'
  <2>1. CASE transport = c
    <3>1. pc \notin {"read", "log", "wait"}
          BY <1>1, <2>1, RpcAssumption DEF RpcInv, CallInv, Batches
    <3>2. pc = "recv" => Answered'
      <4> HAVE pc = "recv"
      <4>1. Served
            BY <1>1, <2>1 DEF RpcInv, CallInv, Asked, Served, Answered, Batches
      <4>2. b = messages /\ replies[c] = <<>> /\ requests'[c] = <<>>
            BY <1>1, <2>1, <4>1 DEF Served
      <4> DEFINE r == [batch |-> b, answer |-> answer]
      <4>3. r \in Reply /\ r.answer = answer
            BY <1>1 DEF Reply
      <4>4. replies'[c] \in {<<>>, <<r>>}
            BY <1>4, <4>2
      <4>5. r.answer = "OK" => messages' \subseteq stored'
            BY <1>1, <1>3, <4>2, <4>3
      <4> HIDE DEF r, b
      <4> QED
          BY <1>1, <1>2, <2>1, <4>2, <4>3, <4>4, <4>5 DEF Answered
    <3> QED
        BY <1>1, <3>1, <3>2 DEF RpcInv, CallInv
  <2>2. CASE transport # c
    <3>1. transport # NoConn => transport \in Conn
          BY DEF RpcInv, TypeOK
    <3>2. transport \in Conn =>
            /\ handling'[transport] = handling[transport]
            /\ replies'[transport] = replies[transport]
          BY <1>2, <1>4, <2>2
    <3> HIDE DEF b
    <3>3. messages \subseteq stored => messages' \subseteq stored'
          BY <1>1, <1>3
    <3> QED
        BY <1>1, <3>1, <3>2, <3>3
           DEF RpcInv, CallInv, Asked, Served, Answered
  <2> QED
      BY <2>1, <2>2
<1> QED
    BY <1>5, <1>6, <1>7, <1>8, <1>9 DEF RpcInv

(* A loss: requests and answers disappear, and perhaps batches in hand.    *)
LEMMA LossInv ==
  ASSUME RpcInv,
         UNCHANGED <<pc, pushed, messages, transport, stored>>,
         broken' \subseteq Conn,
         NEW C \in SUBSET Conn,
         requests' = [c \in Conn |-> IF c \in C THEN <<>> ELSE requests[c]],
         replies' = [c \in Conn |-> IF c \in C THEN <<>> ELSE replies[c]],
         \/ UNCHANGED handling
         \/ C = Conn /\ handling' = [c \in Conn |-> {}]
  PROVE  RpcInv'
<1>1. TypeOK'
      BY DEF RpcInv, TypeOK
<1>2. WireInv'
  <2>1. Fits({}, pushed, stored)
        BY RpcAssumption, NothingFits DEF RpcInv, TypeOK
  <2> QED
      BY <2>1 DEF RpcInv, WireInv
<1>3. CallInv'
  <2>1. transport # NoConn => transport \in Conn
        BY DEF RpcInv, TypeOK
  <2>2. transport \in Conn => handling'[transport] \in {{}, handling[transport]}
        OBVIOUS
  <2>3. transport \in Conn =>
          \/ /\ requests'[transport] = requests[transport]
             /\ replies'[transport] = replies[transport]
             /\ handling'[transport] = handling[transport]
          \/ requests'[transport] = <<>> /\ replies'[transport] = <<>>
        OBVIOUS
  <2> QED
      BY <2>1, <2>2, <2>3 DEF RpcInv, CallInv, Asked, Served, Answered
<1> QED
    BY <1>1, <1>2, <1>3, UnmovedQueue DEF RpcInv, Unmoved

LEMMA BreakInv == ASSUME RpcInv, NEW c \in Conn, Break(c) PROVE RpcInv'
<1>1. /\ UNCHANGED <<pc, pushed, messages, transport, stored, handling>>
      /\ broken' \subseteq Conn
      BY DEF Break, thread, RpcInv, TypeOK
<1>2. /\ requests' = [d \in Conn |-> IF d \in {c} THEN <<>> ELSE requests[d]]
      /\ replies' = [d \in Conn |-> IF d \in {c} THEN <<>> ELSE replies[d]]
      BY DEF Break, RpcInv, TypeOK
<1> QED
    BY <1>1, <1>2, LossInv

LEMMA ServerRestartsInv == RpcInv /\ ServerRestarts => RpcInv'
<1> SUFFICES ASSUME RpcInv, ServerRestarts PROVE RpcInv'
    OBVIOUS
<1>1. /\ UNCHANGED <<pc, pushed, messages, transport, stored>>
      /\ broken' \subseteq Conn
      /\ handling' = [d \in Conn |-> {}]
      BY DEF ServerRestarts, thread
<1>2. /\ requests' = [d \in Conn |-> IF d \in Conn THEN <<>> ELSE requests[d]]
      /\ replies' = [d \in Conn |-> IF d \in Conn THEN <<>> ELSE replies[d]]
      BY DEF ServerRestarts
<1> QED
    BY <1>1, <1>2, LossInv
-----------------------------------------------------------------------------
LEMMA NextInv == RpcInv /\ [Next]_vars => RpcInv'
<1> SUFFICES ASSUME RpcInv, [Next]_vars PROVE RpcInv'
    OBVIOUS
<1>1. CASE Push
      BY <1>1, PushInv
<1>2. CASE SendOpens \/ CloseOpen \/ Reopen
      BY <1>2, OpeningInv
<1>3. CASE SendCannotOpen \/ SendLogFails \/ TimesOut \/ Disconnected
      BY <1>3, FailingInv DEF TimesOut, Disconnected
<1>4. CASE SendLog
      BY <1>4, SendLogInv
<1>5. CASE RecvLog
      BY <1>5, RecvLogInv
<1>6. CASE \E c \in Conn : Serve(c)
      BY <1>6, ServeInv
<1>7. CASE AnswerOk \/ AnswerNotOk
      BY <1>7, AnswerInv DEF AnswerOk, AnswerNotOk, Answers
<1>8. CASE \E c \in Conn : Break(c)
      BY <1>8, BreakInv
<1>9. CASE ServerRestarts
      BY <1>9, ServerRestartsInv
<1>10. CASE UNCHANGED vars
      BY <1>10
         DEF vars, thread, wire, RpcInv, TypeOK, StoredInv, QueueInv, WireInv,
             CallInv, Asked, Served, Answered
<1> QED
    BY <1>1, <1>2, <1>3, <1>4, <1>5, <1>6, <1>7, <1>8, <1>9, <1>10 DEF Next

(* The invariant holds throughout, however connections break and requests  *)
(* linger.                                                                 *)
THEOREM RpcInvariant == Spec => []RpcInv
  BY InitInv, NextInv, PTL DEF Spec

(* send returns CONN_OK, and the queue is cleared, only when the server    *)
(* has every message of it (scribe_send.cpp 53-75, ModelRead.cpp 451-452). *)
THEOREM Acked == Spec => []AckedStored
<1>1. RpcInv => AckedStored
  <2> SUFFICES ASSUME RpcInv PROVE AckedStored
      OBVIOUS
  <2>1. pushed \in Nat
        BY RpcAssumption DEF RpcInv, TypeOK
  <2>2. PICK lo \in 1 .. pushed + 1 :
              messages = lo..pushed /\ 1 .. lo - 1 \subseteq stored
        BY DEF RpcInv, QueueInv
  <2> QED
      BY <2>1, <2>2 DEF AckedStored, Acknowledged
<1> QED
    BY <1>1, RpcInvariant, PTL

(* First copies are stored in the order of the log, without a gap.         *)
THEOREM InOrder == Spec => []StoredInOrder
<1>1. RpcInv => StoredInOrder
      BY DEF RpcInv, StoredInv, StoredInOrder
<1> QED
    BY <1>1, RpcInvariant, PTL

(* The thread, thrift and the server implement the abstract shipment.      *)
THEOREM ImplementsShipment == Spec => Ships
<1>1. Init => S!SInit
      BY DEF Init, S!SInit
<1>2. RpcInv /\ RpcInv' /\ [Next]_vars => [S!SNext]_S!svars
  <2> SUFFICES ASSUME RpcInv, RpcInv', [Next]_vars,
                      ~UNCHANGED <<pushed, messages, stored>>
               PROVE  S!SNext
      BY DEF S!svars
  <2>1. CASE Push
        BY <2>1 DEF Push, S!SNext, S!Take
  <2>2. CASE RecvLog
    <3>1. messages' = {} /\ UNCHANGED <<pushed, stored>>
          BY <2>2 DEF RecvLog
    <3>2. messages \subseteq stored
      <4>1. PICK r \in Reply : /\ replies[transport] = <<r>>
                               /\ r.answer = "OK" => messages \subseteq stored
            BY <2>2 DEF RpcInv, CallInv, RecvLog, Asked, Served, Answered
      <4>2. Result(r.answer) = "CONN_OK"
            BY <2>2, <4>1 DEF RecvLog
      <4> QED
          BY <4>1, <4>2 DEF Result
    <3> QED
        BY <3>1, <3>2 DEF S!SNext, S!Release
  <2>3. CASE AnswerOk \/ AnswerNotOk
    <3>1. UNCHANGED <<pushed, messages>> /\ stored \subseteq stored'
          BY <2>3 DEF AnswerOk, AnswerNotOk, Answer, thread
    <3>2. \E n \in 0..pushed : stored' = 1..n
          BY <3>1 DEF RpcInv, StoredInv
    <3> QED
        BY <3>1, <3>2 DEF S!SNext, S!Store
  <2> QED
      BY <2>1, <2>2, <2>3
         DEF Next, vars, thread, SendOpens, SendCannotOpen, SendLog,
             SendLogFails, TimesOut, Disconnected, GiveUp, CloseOpen, Reopen,
             Serve, Break, ServerRestarts
<1> QED
    BY <1>1, <1>2, RpcInvariant, PTL DEF Spec, Ships, S!SSpec
=============================================================================
