-------------------------- MODULE HttpServerProofs --------------------------
(***************************************************************************)
(* Three theorems about the sequential server for any number of clients,   *)
(* requests, descriptors and pieces: no client holds it longer than its    *)
(* timeout, because what was waited and what is left of the deadline never *)
(* exceed it together; no sequence of natives loses a descriptor, because  *)
(* at every point of a native the open ones are the listener, the          *)
(* connection in flight and the one the native is working on; and an       *)
(* answer goes to the client that asked, because a client is never behind  *)
(* two descriptors or queue places, however their numbers are reused.      *)
(***************************************************************************)
EXTENDS HttpServer, WellFoundedInduction, TLAPS

\* The deadline of the request or response in progress.
DeadlineHolds ==
  /\ timeLeft \in Nat /\ waited \in Nat
  /\ timeLeft + waited <= SrvTimeout

\* Every step waits on the deadline, sets a new one with nothing waited yet,
\* or leaves both alone.
LEMMA DeadlineNext ==
  ASSUME DeadlineHolds, [ServerNext]_httpvars PROVE DeadlineHolds'
<1> USE HttpServerAssumption DEF DeadlineHolds
<1>s. ASSUME UNCHANGED <<timeLeft, waited>> PROVE DeadlineHolds'
  BY <1>s
<1>r. ASSUME timeLeft' = SrvTimeout, waited' = 0 PROVE DeadlineHolds'
  BY <1>r
<1>1. CASE Tick
  BY <1>1 DEF Tick
<1>2. CASE Slow
  BY <1>2 DEF Slow
<1>3. ASSUME NEW b \in BOOLEAN, http_listen(b) \/ http_serve_dir(b) PROVE DeadlineHolds'
  BY <1>3, <1>s DEF http_listen, http_serve_dir
<1>4. CASE http_accept \/ AcceptBeforeListen \/ AcceptFails
  BY <1>4, <1>s DEF http_accept, AcceptBeforeListen, AcceptFails
<1>5. CASE http_respond
  BY <1>5, <1>r DEF http_respond
<1>6. CASE Proceed
  <2>1. CASE Accepted
    BY <2>1, <1>r DEF Accepted
  <2>2. CASE Malformed \/ PeerGone \/ ReadTimeout
    BY <2>2, <1>s DEF Malformed, PeerGone, ReadTimeout, GiveUp
  <2>3. CASE SendTimeout \/ Sent \/ SendFailed
    BY <2>3, <1>s DEF SendTimeout, Sent, SendFailed, EndSend
  <2>4. ASSUME NEW k \in 1 .. HeadLimit, Receive(k) PROVE DeadlineHolds'
    BY <2>4, <1>s, <1>r DEF Receive
  <2>5. ASSUME NEW k \in 1 .. RespSize, Send(k) PROVE DeadlineHolds'
    BY <2>5, <1>s DEF Send
  <2> QED BY <1>6, <2>1, <2>2, <2>3, <2>4, <2>5 DEF Proceed
<1>7. CASE Peers
  <2>1. ASSUME NEW c \in Clients, SendPiece(c) \/ TakePiece(c) \/ HangUp(c)
        PROVE  DeadlineHolds'
    BY <2>1, <1>s DEF SendPiece, TakePiece, HangUp
  <2>2. ASSUME NEW c \in Clients, NEW f \in Fds, NEW r \in RequestKinds, Connect(c, f, r)
        PROVE  DeadlineHolds'
    BY <2>2, <1>s DEF Connect
  <2> QED BY <1>7, <2>1, <2>2 DEF Peers
<1>8. CASE UNCHANGED httpvars
  BY <1>8, <1>s DEF httpvars
<1> QED
  BY <1>1, <1>2, <1>3, <1>4, <1>5, <1>6, <1>7, <1>8 DEF ServerNext

\* However a client trickles its request or takes its response, the waits of
\* one call add up to at most the timeout: "An idle or trickling client cannot
\* hold the sequential server past the timeout" (pyro_runtime.c:2001-2002).
THEOREM WaitsAreBounded == ServerSpec => []WaitIsBounded
<1>1. ServerInit => DeadlineHolds
  BY HttpServerAssumption DEF ServerInit, DeadlineHolds
<1>2. DeadlineHolds /\ [ServerNext]_httpvars => DeadlineHolds'
  BY DeadlineNext
<1>3. DeadlineHolds => WaitIsBounded
  BY HttpServerAssumption DEF DeadlineHolds, WaitIsBounded
<1> QED BY <1>1, <1>2, <1>3, PTL DEF ServerSpec

-----------------------------------------------------------------------------
\* The system hands out a free descriptor whenever there is one.
LEMMA LowestIsFree ==
  ASSUME NEW t, \E f \in Fds : t[f] = "free"
  PROVE  Lowest(t) \in Fds /\ t[Lowest(t)] = "free"
<1> DEFINE S == {f \in Fds : t[f] = "free"}
<1>1. S \subseteq Nat /\ S # {}
  BY HttpServerAssumption DEF Fds
<1>2. \E x \in S : \A y \in S : ~ (<<y, x>> \in OpToRel(<, Nat))
  <2> HIDE DEF S
  <2> QED BY <1>1, NatLessThanWellFounded, WFMin
<1>3. \E x \in S : \A y \in S : x <= y
  <2> HIDE DEF S
  <2>1. PICK x \in S : \A y \in S : ~ (<<y, x>> \in OpToRel(<, Nat))
    BY <1>2
  <2>2. ASSUME NEW y \in S PROVE x <= y
    <3>1. x \in Nat /\ y \in Nat
      BY <1>1
    <3>2. y < x => <<y, x>> \in OpToRel(<, Nat)
      BY <3>1 DEF OpToRel
    <3>3. ~ (<<y, x>> \in OpToRel(<, Nat))
      BY <2>1, Zenon
    <3>4. ~ (y < x)
      BY <3>2, <3>3, Zenon
    <3> QED BY <3>1, <3>4
  <2> QED BY <2>2
<1>4. Min(S) \in S
  <2> HIDE DEF S
  <2> QED BY <1>1, <1>3 DEF Min
<1> QED BY <1>4 DEF Lowest

Sockets == {"free", "listener"} \cup Clients

Phases == {"idle", "accept", "read", "send", "dir", "dirread", "dirsend", "dead"}

OpType ==
  [at : Phases, fd : Fds \cup {0}, listener : Fds \cup {0}, out : Int]

\* http_serve_dir goes back to its accept: its listener stays.
LEMMA OpBackToDir ==
  ASSUME NEW o \in OpType, NEW p, p = [o EXCEPT !.at = "dir", !.fd = 0, !.out = 0]
  PROVE  p \in OpType /\ p.at = "dir" /\ p.listener = o.listener
<1>1. p.at = "dir" /\ p.fd = 0 /\ p.listener = o.listener /\ p.out = 0
  BY DEF OpType
<1>2. p = [at |-> "dir", fd |-> 0, listener |-> o.listener, out |-> 0]
  BY DEF OpType
<1> QED BY <1>1, <1>2 DEF OpType, Phases

\* http_serve_dir turns from the request to its answer: its listener stays.
LEMMA OpToSend ==
  ASSUME NEW o \in OpType, NEW p, p = [o EXCEPT !.at = "dirsend", !.out = RespSize]
  PROVE  p \in OpType /\ p.at = "dirsend" /\ p.listener = o.listener
<1>1. p.at = "dirsend" /\ p.fd = o.fd /\ p.listener = o.listener /\ p.out = RespSize
  BY DEF OpType
<1>2. p = [at |-> "dirsend", fd |-> o.fd, listener |-> o.listener, out |-> RespSize]
  BY DEF OpType
<1> QED BY <1>1, <1>2, HttpServerAssumption DEF OpType, Phases

\* A send changes nothing of the native but what is left to send.
LEMMA OpSends ==
  ASSUME NEW o \in OpType, NEW k \in Int, NEW p, p = [o EXCEPT !.out = @ - k]
  PROVE  p \in OpType /\ p.at = o.at /\ p.fd = o.fd /\ p.listener = o.listener
  BY DEF OpType

\* The variables the argument is about.
ServerTypes ==
  /\ fds \in [Fds -> Sockets]
  /\ queue \in [Fds -> Seq(Clients)]
  /\ srv \in Fds \cup {0} /\ conn \in Fds \cup {0}
  /\ op \in OpType

\* What may be open, by where the native in progress is. Nothing is said of
\* http_serve_dir, whose loop is never left.
OpenWhenIdle ==
  op.at = "idle" => (OpenFds \subseteq {srv, conn}) /\ (conn = 0 \/ fds[conn] \in Clients)
OpenWhenAccepting ==
  op.at = "accept" => OpenFds \subseteq {srv} /\ conn = 0 /\ srv # 0
OpenWhenReading ==
  op.at = "read" =>
    OpenFds \subseteq {srv, op.fd} /\ conn = 0 /\ op.fd # 0 /\ fds[op.fd] \in Clients
OpenWhenSending ==
  op.at = "send" =>
    OpenFds \subseteq {srv, conn} /\ conn # 0 /\ op.fd = conn /\ fds[conn] \in Clients
ListenerOrStale ==
  op.at \in {"idle", "accept", "read", "send"} => srv = 0 \/ fds[srv] \in {"free", "listener"}
HasListener ==
  /\ op.at \in {"accept", "dir", "dirread", "dirsend"} => op.listener # 0
  /\ op.at = "accept" => op.listener = srv

OpenByPhase ==
  /\ OpenWhenIdle /\ OpenWhenAccepting /\ OpenWhenReading /\ OpenWhenSending
  /\ ListenerOrStale /\ HasListener

ServerInv == ServerTypes /\ OpenByPhase

\* Every native, every failure and every step of a client keeps the account.
LEMMA ServerInvNext ==
  ASSUME ServerInv, [ServerNext]_httpvars PROVE ServerInv'
<1> USE DEF ServerInv, Sockets, OpenByPhase, OpenWhenIdle, OpenWhenAccepting,
            OpenWhenReading, OpenWhenSending, ListenerOrStale, HasListener
<1>d. "free" \notin Clients /\ "listener" \notin Clients /\ 0 \notin Fds
  BY HttpServerAssumption DEF Fds
<1>s. ASSUME UNCHANGED <<fds, queue, srv, conn, op>> PROVE ServerInv'
  BY <1>s DEF ServerTypes, OpenFds
<1>c. ASSUME NEW f \in Fds, pyro_closesock(f)
      PROVE  /\ fds' = [fds EXCEPT ![f] = "free"]
             /\ fds' \in [Fds -> Sockets]
             /\ queue' \in [Fds -> Seq(Clients)]
             /\ \A g \in Fds : fds'[g] # "free" => g # f /\ g \in OpenFds
  BY <1>c DEF pyro_closesock, ServerTypes, OpenFds
<1>1. CASE Tick \/ Slow \/ UNCHANGED httpvars
  BY <1>1, <1>s DEF Tick, Slow, httpvars
<1>2. ASSUME NEW ok \in BOOLEAN, http_listen(ok) PROVE ServerInv'
  <2> DEFINE t == IF srv = 0 THEN fds ELSE [fds EXCEPT ![srv] = "free"]
  <2>1. /\ t \in [Fds -> Sockets]
        /\ \A f \in Fds : t[f] # "free" => f = conn
        /\ conn = 0 \/ t[conn] \in Clients
    BY <1>2, <1>d DEF http_listen, ServerTypes, OpenFds
  <2>2. queue' \in [Fds -> Seq(Clients)] /\ conn' = conn /\ op' = op /\ op.at = "idle"
    BY <1>2 DEF http_listen, ServerTypes
  <2>3. CASE fds' = t /\ srv' = srv
    <3>1. srv # 0 => fds'[srv] = "free"
      BY <2>3 DEF ServerTypes
    <3> HIDE DEF t
    <3> QED BY <2>1, <2>2, <2>3, <3>1 DEF ServerTypes, OpenFds
  <2>4. CASE /\ \E f \in Fds : t[f] = "free"
             /\ fds' = [t EXCEPT ![Lowest(t)] = "listener"] /\ srv' = Lowest(t)
    <3>1. Lowest(t) \in Fds /\ t[Lowest(t)] = "free"
      BY <2>4, LowestIsFree
    <3> HIDE DEF t
    <3> QED BY <1>d, <2>1, <2>2, <2>4, <3>1 DEF ServerTypes, OpenFds
  <2> QED BY <1>2, <2>3, <2>4 DEF http_listen
<1>3. ASSUME NEW ok \in BOOLEAN, http_serve_dir(ok) PROVE ServerInv'
  <2>1. CASE /\ OpenFds # Fds /\ fds' = [fds EXCEPT ![Lowest(fds)] = "listener"]
             /\ op' = [Idle EXCEPT !.at = "dir", !.listener = Lowest(fds)]
    <3>1. Lowest(fds) \in Fds
      BY <2>1, LowestIsFree DEF OpenFds
    <3>2. op' = [at |-> "dir", fd |-> 0, listener |-> Lowest(fds), out |-> 0]
      BY <2>1 DEF Idle
    <3>3. op' \in OpType /\ op'.at = "dir" /\ op'.listener # 0
      BY <1>d, <3>1, <3>2 DEF OpType, Phases
    <3> QED BY <1>3, <2>1, <3>1, <3>3 DEF http_serve_dir, ServerTypes
  <2>2. CASE op' = [op EXCEPT !.at = "dead"] /\ UNCHANGED fds
    BY <1>3, <2>2 DEF http_serve_dir, ServerTypes, OpType, Phases
  <2> QED BY <1>3, <2>1, <2>2 DEF http_serve_dir
<1>4. CASE http_accept
  <2>1. op' = [at |-> "accept", fd |-> 0, listener |-> srv, out |-> 0] /\ srv # 0
    BY <1>4 DEF http_accept, Idle
  <2>2. op' \in OpType /\ op'.at = "accept" /\ op'.listener # 0 /\ op'.listener = srv
    BY <2>1 DEF OpType, Phases, ServerTypes
  <2>3. op.at = "idle" /\ srv' = srv /\ conn' = 0
    BY <1>4 DEF http_accept
  <2>4. CASE conn # 0
    <3>1. pyro_closesock(conn) /\ conn \in Fds
      BY <1>4, <2>4 DEF http_accept, ServerTypes
    <3> QED BY <1>c, <1>d, <2>1, <2>2, <2>3, <2>4, <3>1 DEF ServerTypes, OpenFds
  <2>5. CASE conn = 0
    <3>1. UNCHANGED <<fds, queue>>
      BY <1>4, <2>5 DEF http_accept
    <3> QED BY <1>d, <2>1, <2>2, <2>3, <2>5, <3>1 DEF ServerTypes, OpenFds
  <2> QED BY <2>4, <2>5
<1>5. CASE AcceptBeforeListen
  BY <1>5 DEF AcceptBeforeListen, ServerTypes, OpType, Phases
<1>6. CASE AcceptFails
  BY <1>6 DEF AcceptFails, ServerTypes, OpType, Phases, OpenFds, Idle
<1>7. CASE http_respond
  <2>1. op' = [at |-> "send", fd |-> conn, listener |-> 0, out |-> RespSize]
    BY <1>7 DEF http_respond, Idle
  <2>2. op' \in OpType /\ op'.at = "send" /\ op'.fd = conn
    BY <2>1, HttpServerAssumption DEF OpType, Phases, ServerTypes
  <2> QED BY <1>7, <2>2 DEF http_respond, ServerTypes, OpenFds
<1>8. CASE Accepted
  <2>1. op.listener \in Fds /\ queue[op.listener] # <<>>
    BY <1>8 DEF Accepted, ServerTypes, OpType, Phases
  <2>2. /\ Head(queue[op.listener]) \in Clients
        /\ Tail(queue[op.listener]) \in Seq(Clients)
    BY <2>1 DEF ServerTypes
  <2>3. queue' \in [Fds -> Seq(Clients)]
    BY <1>8, <2>1, <2>2 DEF Accepted, ServerTypes
  <2>4. Lowest(fds) \in Fds /\ fds[Lowest(fds)] = "free"
    BY <1>8, LowestIsFree DEF Accepted, OpenFds
  <2>5. /\ fds' = [fds EXCEPT ![Lowest(fds)] = Head(queue[op.listener])]
        /\ op' = [op EXCEPT !.at = IF op.at = "dir" THEN "dirread" ELSE "read",
                            !.fd = Lowest(fds)]
        /\ op.at \in {"accept", "dir"} /\ UNCHANGED <<srv, conn>>
    BY <1>8 DEF Accepted
  <2>6. /\ op' \in OpType /\ op'.fd = Lowest(fds) /\ op'.listener = op.listener
        /\ op'.at = IF op.at = "dir" THEN "dirread" ELSE "read"
    BY <2>4, <2>5 DEF OpType, Phases, ServerTypes
  <2>7. ServerTypes'
    BY <2>2, <2>3, <2>4, <2>5, <2>6 DEF ServerTypes
  <2>8. CASE op.at = "dir"
    BY <2>6, <2>7, <2>8
  <2>9. CASE op.at = "accept"
    <3>1. srv # 0 /\ fds[srv] = "listener" /\ conn = 0
      BY <1>8, <2>9 DEF Accepted
    <3>2. srv \in Fds /\ fds'[srv] = "listener"
      BY <2>4, <2>5, <3>1 DEF ServerTypes
    <3>3. fds'[op'.fd] \in Clients /\ op'.fd # 0
      BY <1>d, <2>2, <2>4, <2>5, <2>6 DEF ServerTypes
    <3>4. OpenFds' \subseteq {srv, op'.fd}
      BY <2>4, <2>5, <2>6, <2>9 DEF ServerTypes, OpenFds
    <3> QED BY <2>5, <2>6, <2>7, <2>9, <3>1, <3>2, <3>3, <3>4
  <2> QED BY <2>5, <2>8, <2>9
<1>x. ASSUME NEW f, pyro_closesock(f)
      PROVE  fds' \in [Fds -> Sockets] /\ queue' \in [Fds -> Seq(Clients)]
  <2>1. fds \in [Fds -> Sockets] /\ "free" \in Sockets
    BY DEF ServerTypes
  <2>2. queue \in [Fds -> Seq(Clients)] /\ <<>> \in Seq(Clients)
    BY DEF ServerTypes
  <2>3. fds' = [fds EXCEPT ![f] = "free"] /\ queue' = [queue EXCEPT ![f] = <<>>]
    BY <1>x DEF pyro_closesock
  <2> QED BY <2>1, <2>2, <2>3
<1>9. ASSUME Reading, GiveUp PROVE ServerInv'
  <2>1. pyro_closesock(op.fd) /\ UNCHANGED <<srv, conn>>
    BY <1>9 DEF GiveUp
  <2>2. CASE op.at = "read"
    <3>1. op.fd \in Fds
      BY <2>2 DEF ServerTypes, OpType, Phases
    <3>2. op' = [at |-> "idle", fd |-> 0, listener |-> 0, out |-> 0]
      BY <1>9, <2>2 DEF GiveUp, Idle
    <3>3. op' \in OpType /\ op'.at = "idle"
      BY <3>2 DEF OpType, Phases
    <3> QED BY <1>c, <1>d, <2>1, <2>2, <3>1, <3>3 DEF ServerTypes, OpenFds
  <2>3. CASE op.at = "dirread"
    <3>1. op' = [op EXCEPT !.at = "dir", !.fd = 0, !.out = 0]
      BY <1>9, <2>3 DEF GiveUp
    <3>2. op \in OpType
      BY DEF ServerTypes
    <3>3. op' \in OpType /\ op'.at = "dir" /\ op'.listener = op.listener
      BY <3>1, <3>2, OpBackToDir
    <3> QED BY <1>x, <2>1, <2>3, <3>3 DEF ServerTypes
  <2> QED BY <1>9, <2>2, <2>3 DEF Reading
<1>10. ASSUME Sending, EndSend PROVE ServerInv'
  <2>1. pyro_closesock(op.fd) /\ srv' = srv
    BY <1>10 DEF EndSend
  <2>2. CASE op.at = "send"
    <3>1. op.fd \in Fds /\ conn' = 0
      BY <1>10, <2>2 DEF EndSend, ServerTypes, OpType, Phases
    <3>2. op' = [at |-> "idle", fd |-> 0, listener |-> 0, out |-> 0]
      BY <1>10, <2>2 DEF EndSend, Idle
    <3>3. op' \in OpType /\ op'.at = "idle"
      BY <3>2 DEF OpType, Phases
    <3> QED BY <1>c, <1>d, <2>1, <2>2, <3>1, <3>3 DEF ServerTypes, OpenFds
  <2>3. CASE op.at = "dirsend"
    <3>1. op' = [op EXCEPT !.at = "dir", !.fd = 0, !.out = 0] /\ conn' = conn
      BY <1>10, <2>3 DEF EndSend
    <3>2. op \in OpType
      BY DEF ServerTypes
    <3>3. op' \in OpType /\ op'.at = "dir" /\ op'.listener = op.listener
      BY <3>1, <3>2, OpBackToDir
    <3> QED BY <1>x, <2>1, <2>3, <3>1, <3>3 DEF ServerTypes
  <2> QED BY <1>10, <2>2, <2>3 DEF Sending
<1>11. ASSUME NEW k \in 1 .. HeadLimit, Receive(k) PROVE ServerInv'
  <2>1. UNCHANGED <<fds, queue, srv>>
    BY <1>11 DEF Receive
  <2>2. CASE /\ op.at = "dirread" /\ conn' = conn
             /\ op' = [op EXCEPT !.at = "dirsend", !.out = RespSize]
    <3>1. op \in OpType
      BY DEF ServerTypes
    <3>2. op' \in OpType /\ op'.at = "dirsend" /\ op'.listener = op.listener
      BY <2>2, <3>1, OpToSend
    <3> QED BY <2>1, <2>2, <3>2 DEF ServerTypes
  <2>3. CASE op' = op /\ conn' = conn
    BY <2>1, <2>3, <1>s
  <2>4. CASE op.at = "read" /\ op' = Idle /\ conn' = op.fd
    <3>1. op' \in OpType /\ op'.at = "idle"
      BY <2>4 DEF Idle, OpType, Phases
    <3> QED BY <2>1, <2>4, <3>1 DEF ServerTypes, OpType, Phases, OpenFds
  <2> QED BY <1>11, <2>2, <2>3, <2>4 DEF Receive, Reading
<1>12. ASSUME NEW k \in 1 .. RespSize, Send(k) PROVE ServerInv'
  <2>1. op' = [op EXCEPT !.out = @ - k] /\ UNCHANGED <<fds, queue, srv, conn>>
    BY <1>12 DEF Send
  <2>2. op' \in OpType /\ op'.at = op.at /\ op'.fd = op.fd /\ op'.listener = op.listener
    <3>1. op \in OpType /\ k \in Int
      BY DEF ServerTypes
    <3> QED BY <2>1, <3>1, OpSends
  <2> QED BY <2>1, <2>2 DEF ServerTypes, OpenFds
<1>13. CASE Peers
  <2>1. ASSUME NEW c \in Clients, SendPiece(c) \/ TakePiece(c) \/ HangUp(c) PROVE ServerInv'
    BY <2>1, <1>s DEF SendPiece, TakePiece, HangUp
  <2>2. ASSUME NEW c \in Clients, NEW f \in Fds, NEW r \in RequestKinds, Connect(c, f, r)
        PROVE  ServerInv'
    <3>1. queue' = [queue EXCEPT ![f] = Append(@, c)] /\ UNCHANGED <<fds, srv, conn, op>>
      BY <2>2 DEF Connect
    <3> QED BY <3>1 DEF ServerTypes, OpenFds
  <2> QED BY <1>13, <2>1, <2>2 DEF Peers
<1>14. CASE Proceed
  BY <1>14, <1>8, <1>9, <1>10, <1>11, <1>12
     DEF Proceed, Malformed, PeerGone, ReadTimeout, SendTimeout, Sent, SendFailed, Reading
<1> QED
  BY <1>1, <1>2, <1>3, <1>4, <1>5, <1>6, <1>7, <1>13, <1>14 DEF ServerNext

\* At the start nothing is open.
LEMMA AccountOpens == ServerInit => ServerInv
<1> SUFFICES ASSUME ServerInit PROVE ServerInv
  OBVIOUS
<1>1. op = [at |-> "idle", fd |-> 0, listener |-> 0, out |-> 0]
  BY DEF ServerInit, Idle
<1> QED
  BY <1>1 DEF ServerInit, ServerInv, ServerTypes, Sockets, OpenByPhase, OpenWhenIdle,
     OpenWhenAccepting, OpenWhenReading, OpenWhenSending, ListenerOrStale,
     HasListener, OpType, Phases, OpenFds

\* Between two natives nothing is open but the listener and the connection in
\* flight, for every sequence of http_listen, http_accept and http_respond,
\* every failure in them and every behaviour of the clients
\* (pyro_runtime.c:2814-2921).
THEOREM NoDescriptorLost == ServerSpec => []DescriptorsAccounted
<1>1. ServerInit => ServerInv
  BY AccountOpens
<1>2. ServerInv /\ [ServerNext]_httpvars => ServerInv'
  BY ServerInvNext
<1>3. ServerInv => DescriptorsAccounted
  BY HttpServerAssumption
     DEF ServerInv, ServerTypes, Sockets, OpenByPhase, OpenWhenIdle, ListenerOrStale,
         DescriptorsAccounted
<1> QED BY <1>1, <1>2, <1>3, PTL DEF ServerSpec

-----------------------------------------------------------------------------
(* Who is answered.                                                        *)

ClientType ==
  [st : {"away", "queued", "open", "left", "done"}, req : RequestKinds \cup {NoRequest},
   sent : Nat, avail : Nat, read : Nat, unread : Nat, took : Nat, dir : BOOLEAN]

Got(c) == client[c].unread + client[c].took

\* A client is in one place of one queue, or behind one descriptor, or in
\* neither, as before it connects.
InOnePlace ==
  /\ \A f, g \in Fds : \A i \in DOMAIN queue[f], j \in DOMAIN queue[g] :
       queue[f][i] = queue[g][j] => f = g /\ i = j
  /\ \A f, g \in Fds : \A i \in DOMAIN queue[f] : fds[g] # queue[f][i]
  /\ \A f, g \in Fds : fds[f] \in Clients /\ fds[f] = fds[g] => f = g
  /\ \A f \in Fds : \A i \in DOMAIN queue[f] : client[queue[f][i]].st # "away"
  /\ \A f \in Fds : fds[f] \in Clients => client[fds[f]].st # "away"

\* Nobody is answered before it has been accepted.
QueuedGotNothing ==
  /\ \A c \in Clients : client[c].st = "away" => Got(c) = 0
  /\ \A f \in Fds : \A i \in DOMAIN queue[f] : Got(queue[f][i]) = 0

\* What the client behind a descriptor has got and asked, by where the native
\* in progress is.
Unanswered(c) == Got(c) = 0
Asked(c) == IF client[c].dir THEN client[c].read > 0 ELSE Complete(client[c])
AnswersInOrder ==
  /\ op.at \in {"read", "dirread"} =>
       /\ op.fd \in Fds /\ fds[op.fd] \in Clients /\ Unanswered(fds[op.fd])
       /\ client[fds[op.fd]].dir <=> op.at = "dirread"
  /\ op.at \in {"send", "dirsend"} =>
       /\ op.fd \in Fds /\ fds[op.fd] \in Clients /\ Asked(fds[op.fd])
       /\ op.out \in Nat /\ Got(fds[op.fd]) + op.out = RespSize
  /\ op.at = "idle" /\ conn # 0 => Unanswered(fds[conn]) /\ Asked(fds[conn])

AnswerInv ==
  /\ ServerInv
  /\ client \in [Clients -> ClientType]
  /\ InOnePlace /\ QueuedGotNothing /\ AnswersInOrder
  /\ AnsweredAfterAsked

\* A step that empties queues and closes or reuses descriptors, and puts no
\* client anywhere.
Shrinks ==
  /\ \A f \in Fds : fds'[f] = fds[f] \/ fds'[f] \notin Clients
  /\ \A f \in Fds : queue'[f] = queue[f] \/ queue'[f] = <<>>
AwaySame == \A c \in Clients : client'[c].st = "away" <=> client[c].st = "away"
SameAnswer(c) ==
  /\ Got(c)' = Got(c) /\ client'[c].read = client[c].read
  /\ client'[c].req = client[c].req /\ client'[c].dir = client[c].dir

\* Whoever waits in a queue is a client.
LEMMA QueueHoldsClients ==
  ASSUME ServerTypes, NEW f \in Fds, NEW i \in DOMAIN queue[f]
  PROVE  queue[f][i] \in Clients
<1>1. queue[f] \in Seq(Clients)
  BY DEF ServerTypes
<1> QED
  BY <1>1

\* Nobody comes to be in two places by leaving one.
LEMMA ShrinkKeepsPlaces ==
  ASSUME ServerTypes, InOnePlace, Shrinks, AwaySame
  PROVE  InOnePlace'
<1>1. \A f \in Fds : \A i \in DOMAIN queue'[f] :
        i \in DOMAIN queue[f] /\ queue'[f][i] = queue[f][i] /\ queue[f][i] \in Clients
  BY QueueHoldsClients DEF Shrinks
<1>2. \A f \in Fds : fds'[f] \in Clients => fds'[f] = fds[f]
  BY DEF Shrinks
<1>3. \A f, g \in Fds : \A i \in DOMAIN queue'[f], j \in DOMAIN queue'[g] :
        queue'[f][i] = queue'[g][j] => f = g /\ i = j
  BY <1>1 DEF InOnePlace
<1>4. \A f, g \in Fds : \A i \in DOMAIN queue'[f] : fds'[g] # queue'[f][i]
  BY <1>1, <1>2 DEF InOnePlace
<1>5. \A f, g \in Fds : fds'[f] \in Clients /\ fds'[f] = fds'[g] => f = g
  BY <1>2 DEF InOnePlace
<1>6. \A f \in Fds : \A i \in DOMAIN queue'[f] : client'[queue'[f][i]].st # "away"
  BY <1>1 DEF InOnePlace, AwaySame
<1>7. \A f \in Fds : fds'[f] \in Clients => client'[fds'[f]].st # "away"
  BY <1>2 DEF InOnePlace, AwaySame
<1> QED
  BY <1>3, <1>4, <1>5, <1>6, <1>7 DEF InOnePlace

\* Only a client behind a descriptor gets anything.
LEMMA ShrinkKeepsQueued ==
  ASSUME ServerTypes, InOnePlace, QueuedGotNothing, Shrinks, AwaySame,
         \A c \in Clients : Got(c)' = Got(c) \/ \E f \in Fds : fds[f] = c
  PROVE  QueuedGotNothing'
<1>1. \A f \in Fds : \A i \in DOMAIN queue'[f] :
        i \in DOMAIN queue[f] /\ queue'[f][i] = queue[f][i] /\ queue[f][i] \in Clients
  BY QueueHoldsClients DEF Shrinks
<1>2. ASSUME NEW c \in Clients, client'[c].st = "away" PROVE Got(c)' = 0
  BY <1>2 DEF AwaySame, InOnePlace, QueuedGotNothing
<1>3. ASSUME NEW f \in Fds, NEW i \in DOMAIN queue'[f]
      PROVE  Got(queue[f][i])' = 0
  <2>1. PICK c \in Clients : c = queue[f][i] /\ c = queue'[f][i] /\ i \in DOMAIN queue[f]
    BY <1>1
  <2>a. Got(c) = 0
    BY <2>1 DEF QueuedGotNothing
  <2>b. ~ \E g \in Fds : fds[g] = c
    <3>1. \A g, h \in Fds : \A j \in DOMAIN queue[g] : fds[h] # queue[g][j]
      BY DEF InOnePlace
    <3>2. \A g \in Fds : fds[g] # queue[f][i]
      BY <2>1, <3>1, ZenonT(30)
    <3> QED
      BY <2>1, <3>2, Zenon
  <2>2. Got(c) = 0 /\ Got(c)' = Got(c)
    BY <2>a, <2>b
  <2> QED
    BY <2>1, <2>2 DEF Got
<1> QED
  BY <1>2, <1>3 DEF QueuedGotNothing

\* What a client was promised depends on its counts only.
LEMMA SameAnswerSame ==
  ASSUME NEW c \in Clients, SameAnswer(c)
  PROVE  (Asked(c)' <=> Asked(c)) /\ (Unanswered(c)' <=> Unanswered(c))
  BY DEF SameAnswer, Asked, Unanswered, Complete

\* The property in terms of what a client got and whether it asked.
LEMMA AnsweredIsAsked ==
  AnsweredAfterAsked <=> \A c \in Clients : Got(c) > 0 => Asked(c) /\ Got(c) <= RespSize
  BY DEF AnsweredAfterAsked, Got, Asked

\* A step that changes no client's counts keeps the property.
LEMMA AnsweredSame ==
  ASSUME AnsweredAfterAsked, \A c \in Clients : SameAnswer(c)
  PROVE  AnsweredAfterAsked'
  BY SameAnswerSame DEF AnsweredAfterAsked, SameAnswer, Got, Complete

\* A step that answers nobody keeps everything but, perhaps, the order.
LEMMA QuietStep ==
  ASSUME AnswerInv, ServerInv', client' \in [Clients -> ClientType], Shrinks, AwaySame,
         \A c \in Clients : SameAnswer(c), AnswersInOrder'
  PROVE  AnswerInv'
<1>1. InOnePlace'
  BY ShrinkKeepsPlaces DEF AnswerInv, ServerInv
<1>2. QueuedGotNothing'
  BY ShrinkKeepsQueued DEF AnswerInv, ServerInv, SameAnswer
<1>3. AnsweredAfterAsked'
  BY AnsweredSame DEF AnswerInv
<1> QED
  BY <1>1, <1>2, <1>3 DEF AnswerInv

\* Closing a descriptor changes what the clients behind it may expect, and
\* none of their counts.
LEMMA ClosingIsQuiet ==
  ASSUME client \in [Clients -> ClientType], NEW f, client' = Closed(f),
         \A c \in Dropped(f) \cap Clients : client[c].st # "away"
  PROVE  /\ client' \in [Clients -> ClientType] /\ AwaySame
         /\ \A c \in Clients : SameAnswer(c)
<1>1. ASSUME NEW c \in Clients
      PROVE  /\ client'[c] \in ClientType /\ SameAnswer(c)
             /\ client'[c].st = "away" <=> client[c].st = "away"
  <2>1. client[c] \in ClientType
    OBVIOUS
  <2>2. CASE c \in Dropped(f)
    <3>1. client'[c] = [client[c] EXCEPT !.st = "done"]
      BY <2>2 DEF Closed
    <3> QED
      BY <2>1, <2>2, <3>1 DEF ClientType, SameAnswer, Got
  <2>3. CASE c \notin Dropped(f)
    <3>1. client'[c] = client[c]
      BY <2>3 DEF Closed
    <3> QED
      BY <2>1, <3>1 DEF SameAnswer, Got
  <2> QED
    BY <2>2, <2>3
<1>2. client' = [c \in Clients |-> client'[c]]
  BY DEF Closed
<1> QED
  BY <1>1, <1>2 DEF AwaySame

\* Those behind a descriptor have connected.
LEMMA DroppedCame ==
  ASSUME InOnePlace, NEW f \in Fds
  PROVE  \A c \in Dropped(f) \cap Clients : client[c].st # "away"
  BY DEF InOnePlace, Dropped

\* pyro_closesock only takes sockets away: it opens none and queues nobody.
LEMMA CloseShrinks ==
  ASSUME ServerTypes, NEW f \in Fds, pyro_closesock(f),
         "free" \notin Clients
  PROVE  Shrinks
  BY DEF ServerTypes, pyro_closesock, Shrinks

\* The natives that only open and close: http_listen, http_serve_dir,
\* http_accept, and the failures of accept.
LEMMA OpeningsAnswerNobody ==
  ASSUME AnswerInv, ServerInv',
         \/ \E ok \in BOOLEAN : http_listen(ok) \/ http_serve_dir(ok)
         \/ http_accept \/ AcceptBeforeListen \/ AcceptFails \/ http_respond
  PROVE  AnswerInv'
<1>d. "free" \notin Clients /\ "listener" \notin Clients /\ 0 \notin Fds
  BY HttpServerAssumption DEF Fds
<1>0. /\ ServerTypes /\ OpenByPhase /\ client \in [Clients -> ClientType]
      /\ InOnePlace /\ AnswersInOrder /\ conn \in Fds \cup {0}
  BY DEF AnswerInv, ServerInv, ServerTypes
<1>c. ASSUME NEW f \in Fds, client' = Closed(f)
      PROVE  /\ client' \in [Clients -> ClientType] /\ AwaySame
             /\ \A c \in Clients : SameAnswer(c)
  BY <1>0, <1>c, ClosingIsQuiet, DroppedCame
<1>u. ASSUME client' = client
      PROVE  /\ client' \in [Clients -> ClientType] /\ AwaySame
             /\ \A c \in Clients : SameAnswer(c)
  BY <1>0, <1>u DEF AwaySame, SameAnswer, Got
<1>1. ASSUME NEW ok \in BOOLEAN, http_listen(ok) PROVE AnswerInv'
  <2> DEFINE t == IF srv = 0 THEN fds ELSE [fds EXCEPT ![srv] = "free"]
  <2>1. op.at = "idle" /\ op' = op /\ conn' = conn
    BY <1>1 DEF http_listen
  <2>a. /\ queue' = IF srv = 0 THEN queue ELSE [queue EXCEPT ![srv] = <<>>]
        /\ client' = IF srv = 0 THEN client ELSE Closed(srv)
    BY <1>1 DEF http_listen
  <2>b. fds' = t \/ fds' = [t EXCEPT ![Lowest(t)] = "listener"]
    BY <1>1 DEF http_listen
  <2>2. /\ client' \in [Clients -> ClientType] /\ AwaySame
        /\ \A c \in Clients : SameAnswer(c)
    <3>1. CASE srv = 0
      BY <1>u, <2>a, <3>1
    <3>2. CASE srv # 0
      BY <1>0, <1>c, <2>a, <3>2 DEF ServerTypes
    <3> QED
      BY <3>1, <3>2
  <2>3. Shrinks
    <3>1. \A f \in Fds : queue'[f] = queue[f] \/ queue'[f] = <<>>
      BY <1>0, <2>a DEF ServerTypes
    <3>2. \A f \in Fds : t[f] = fds[f] \/ t[f] = "free"
      BY <1>0 DEF ServerTypes
    <3>3. DOMAIN t = Fds
      BY <1>0 DEF ServerTypes
    <3> HIDE DEF t
    <3>4. \A f \in Fds : fds'[f] = t[f] \/ fds'[f] = "listener"
      BY <2>b, <3>3
    <3> QED
      BY <1>d, <3>1, <3>2, <3>4 DEF Shrinks
  <2>4. AnswersInOrder'
    <3>1. CASE conn = 0
      BY <2>1, <3>1 DEF AnswersInOrder
    <3>2. CASE conn # 0
      <4>1. PICK c \in Clients : c = fds[conn] /\ c = fds'[conn]
        BY <1>0, <2>1, <2>3, <3>2 DEF ServerInv, OpenByPhase, OpenWhenIdle, Shrinks
      <4>2. Unanswered(c) /\ Asked(c)
        BY <1>0, <2>1, <3>2, <4>1 DEF AnswersInOrder
      <4>3. Unanswered(c)' /\ Asked(c)'
        BY <2>2, <4>2, SameAnswerSame
      <4>4. Unanswered(fds[conn])' /\ Asked(fds[conn])'
        BY <2>1, <4>1, <4>3 DEF Unanswered, Asked, Got
      <4> QED
        BY <2>1, <4>4 DEF AnswersInOrder
    <3> QED
      BY <3>1, <3>2
  <2> QED
    BY <2>2, <2>3, <2>4, QuietStep
<1>2. ASSUME NEW ok \in BOOLEAN, http_serve_dir(ok) PROVE AnswerInv'
  <2>1. /\ op'.at \in {"dir", "dead"} /\ client' = client /\ queue' = queue
        /\ (fds' = fds \/ fds' = [fds EXCEPT ![Lowest(fds)] = "listener"])
    BY <1>0, <1>2 DEF http_serve_dir, Idle, ServerTypes, OpType
  <2>2. Shrinks
    BY <1>0, <1>d, <2>1 DEF Shrinks, ServerTypes
  <2>3. AnswersInOrder'
    BY <2>1 DEF AnswersInOrder
  <2> QED
    BY <1>u, <2>1, <2>2, <2>3, QuietStep
<1>3. CASE http_accept
  <2>1. op'.at = "accept"
    BY <1>3 DEF http_accept, Idle
  <2>2. AnswersInOrder'
    BY <2>1 DEF AnswersInOrder
  <2>3. CASE conn # 0
    <3>1. pyro_closesock(conn) /\ conn \in Fds
      BY <1>0, <1>3, <2>3 DEF http_accept
    <3>2. Shrinks /\ client' = Closed(conn)
      BY <1>0, <1>d, <3>1, CloseShrinks DEF pyro_closesock
    <3> QED
      BY <1>c, <2>2, <3>1, <3>2, QuietStep
  <2>4. CASE conn = 0
    <3>1. UNCHANGED <<fds, queue, client>>
      BY <1>3, <2>4 DEF http_accept
    <3> QED
      BY <1>u, <2>2, <3>1, QuietStep DEF Shrinks
  <2> QED
    BY <2>3, <2>4
<1>4. CASE AcceptBeforeListen
  <2>1. op'.at = "dead" /\ UNCHANGED <<fds, queue, client>>
    BY <1>0, <1>4 DEF AcceptBeforeListen, ServerTypes, OpType
  <2>2. AnswersInOrder'
    BY <2>1 DEF AnswersInOrder
  <2> QED
    BY <1>u, <2>1, <2>2, QuietStep DEF Shrinks
<1>5. CASE AcceptFails
  <2>1. op'.at = "idle" /\ UNCHANGED <<fds, queue, client>> /\ conn' = 0
    BY <1>0, <1>5 DEF AcceptFails, Idle, OpenByPhase, OpenWhenAccepting
  <2>2. AnswersInOrder'
    BY <2>1 DEF AnswersInOrder
  <2> QED
    BY <1>u, <2>1, <2>2, QuietStep DEF Shrinks
<1>6. CASE http_respond
  <2>1. op' = [at |-> "send", fd |-> conn, listener |-> 0, out |-> RespSize]
        /\ op.at = "idle" /\ conn # 0 /\ conn' = conn /\ UNCHANGED <<fds, queue, client>>
    BY <1>6 DEF http_respond, Idle
  <2>2. op'.at = "send" /\ op'.fd = conn /\ op'.out = RespSize
    BY <2>1
  <2>3. PICK c \in Clients : c = fds[conn] /\ conn \in Fds
    BY <1>0, <2>1 DEF OpenByPhase, OpenWhenIdle
  <2>4. Got(c) = 0 /\ Asked(c)
    BY <1>0, <2>1, <2>3 DEF AnswersInOrder, Unanswered
  <2>5. Got(c)' = 0 /\ Asked(c)'
    BY <2>1, <2>4 DEF Got, Asked
  <2>6. fds'[op'.fd] = c /\ op'.fd \in Fds
    BY <2>1, <2>2, <2>3
  <2>7. Asked(fds[op.fd])' /\ Got(fds[op.fd])' + op'.out = RespSize /\ op'.out \in Nat
    BY <2>2, <2>5, <2>6, HttpServerAssumption DEF Asked, Got
  <2>8. AnswersInOrder'
    BY <2>2, <2>6, <2>7 DEF AnswersInOrder
  <2> QED
    BY <1>u, <2>1, <2>8, QuietStep DEF Shrinks
<1> QED
  BY <1>1, <1>2, <1>3, <1>4, <1>5, <1>6

\* The ends of a request or a response that close its connection.
LEMMA ClosesAnswerNobody ==
  ASSUME AnswerInv, ServerInv', (Reading /\ GiveUp) \/ (Sending /\ EndSend)
  PROVE  AnswerInv'
<1>0. /\ ServerTypes /\ OpenByPhase /\ client \in [Clients -> ClientType] /\ InOnePlace
      /\ AnswersInOrder /\ "free" \notin Clients
  BY HttpServerAssumption DEF AnswerInv, ServerInv
<1>1. op.fd \in Fds
  BY <1>0 DEF AnswersInOrder, Reading, Sending
<1>2. pyro_closesock(op.fd)
  BY DEF GiveUp, EndSend
<1>3. Shrinks /\ client' = Closed(op.fd)
  BY <1>0, <1>1, <1>2, CloseShrinks DEF pyro_closesock
<1>4. /\ client' \in [Clients -> ClientType] /\ AwaySame
      /\ \A c \in Clients : SameAnswer(c)
  BY <1>0, <1>1, <1>3, ClosingIsQuiet, DroppedCame
<1>5. op'.at = "dir" \/ (op'.at = "idle" /\ conn' = 0)
  <2>0. op \in OpType
    BY <1>0 DEF ServerTypes
  <2>1. CASE Reading /\ GiveUp
    <3>1. CASE op.at = "read"
      BY <1>0, <2>1, <3>1 DEF GiveUp, Idle, OpenByPhase, OpenWhenReading
    <3>2. CASE op.at = "dirread"
      <4>1. op' = [op EXCEPT !.at = "dir", !.fd = 0, !.out = 0]
        BY <2>1, <3>2 DEF GiveUp
      <4> QED
        BY <2>0, <4>1, OpBackToDir
    <3> QED
      BY <2>1, <3>1, <3>2 DEF Reading
  <2>2. CASE Sending /\ EndSend
    <3>1. CASE op.at = "send"
      BY <2>2, <3>1 DEF EndSend, Idle
    <3>2. CASE op.at = "dirsend"
      <4>1. op' = [op EXCEPT !.at = "dir", !.fd = 0, !.out = 0]
        BY <2>2, <3>2 DEF EndSend
      <4> QED
        BY <2>0, <4>1, OpBackToDir
    <3> QED
      BY <2>2, <3>1, <3>2 DEF Sending
  <2> QED
    BY <2>1, <2>2
<1>6. AnswersInOrder'
  BY <1>5 DEF AnswersInOrder
<1> QED
  BY <1>3, <1>4, <1>6, QuietStep

\* What the counts of a client are.
LEMMA ClientFields ==
  ASSUME NEW p \in ClientType
  PROVE  /\ p.sent \in Nat /\ p.avail \in Nat /\ p.read \in Nat
         /\ p.unread \in Nat /\ p.took \in Nat /\ p.dir \in BOOLEAN
  BY DEF ClientType

\* A piece more from it, a piece more to it.
LEMMA PieceSent ==
  ASSUME NEW p \in ClientType, NEW q, q = [p EXCEPT !.sent = @ + 1, !.avail = @ + 1]
  PROVE  /\ q \in ClientType /\ q.st = p.st /\ q.unread = p.unread /\ q.took = p.took
         /\ q.read = p.read /\ q.req = p.req /\ q.dir = p.dir
<1>1. p.sent + 1 \in Nat /\ p.avail + 1 \in Nat
  BY ClientFields
<1>2. PICK a \in Nat, b \in Nat : a = p.sent + 1 /\ b = p.avail + 1
  BY <1>1
<1>3. q = [p EXCEPT !.sent = a, !.avail = b]
  BY <1>2 DEF ClientType
<1> QED
  BY <1>3 DEF ClientType

\* A client that reads a piece moves it from what lies unread to what it took.
LEMMA PieceTaken ==
  ASSUME NEW p \in ClientType, p.unread > 0,
         NEW q, q = [p EXCEPT !.unread = @ - 1, !.took = @ + 1]
  PROVE  /\ q \in ClientType /\ q.st = p.st /\ q.unread + q.took = p.unread + p.took
         /\ q.read = p.read /\ q.req = p.req /\ q.dir = p.dir
<1>1. p.unread - 1 \in Nat /\ p.took + 1 \in Nat
  BY ClientFields
<1>2. PICK a \in Nat, b \in Nat : a = p.unread - 1 /\ b = p.took + 1
  BY <1>1
<1>3. q = [p EXCEPT !.unread = a, !.took = b]
  BY <1>2 DEF ClientType
<1>4. /\ q \in ClientType /\ q.st = p.st /\ q.unread = a /\ q.took = b
      /\ q.read = p.read /\ q.req = p.req /\ q.dir = p.dir
  BY <1>3 DEF ClientType
<1> QED
  BY <1>2, <1>4, ClientFields

\* A client that sends, takes or hangs up gets and asks no more than before.
LEMMA PeersAnswerNobody ==
  ASSUME AnswerInv, ServerInv', NEW c \in Clients, SendPiece(c) \/ TakePiece(c) \/ HangUp(c)
  PROVE  AnswerInv'
<1>0. client \in [Clients -> ClientType] /\ client[c] \in ClientType /\ AnswersInOrder /\ ServerInv
  BY DEF AnswerInv
<1>1. UNCHANGED <<fds, queue, srv, conn, op>>
  BY DEF SendPiece, TakePiece, HangUp
<1>2. /\ client' \in [Clients -> ClientType] /\ AwaySame
      /\ \A d \in Clients : SameAnswer(d)
  <2>1. CASE SendPiece(c)
    <3>1. PICK p : p = [client[c] EXCEPT !.sent = @ + 1, !.avail = @ + 1]
      OBVIOUS
    <3>2. client' = [client EXCEPT ![c] = p] /\ client[c].st # "away"
      BY <2>1, <3>1 DEF SendPiece
    <3>3. /\ p \in ClientType /\ p.st = client[c].st /\ p.unread = client[c].unread
          /\ p.took = client[c].took /\ p.read = client[c].read
          /\ p.req = client[c].req /\ p.dir = client[c].dir
      BY <1>0, <3>1, PieceSent
    <3> QED
      BY <1>0, <3>2, <3>3 DEF AwaySame, SameAnswer, Got
  <2>2. CASE TakePiece(c)
    <3>1. PICK p : p = [client[c] EXCEPT !.unread = @ - 1, !.took = @ + 1]
      OBVIOUS
    <3>2. client' = [client EXCEPT ![c] = p] /\ client[c].unread > 0
      BY <2>2, <3>1 DEF TakePiece
    <3>3. /\ p \in ClientType /\ p.st = client[c].st
          /\ p.unread + p.took = client[c].unread + client[c].took /\ p.read = client[c].read
          /\ p.req = client[c].req /\ p.dir = client[c].dir
      <4>1. PICK old \in ClientType : old = client[c]
        BY <1>0
      <4>2. old.unread > 0 /\ p = [old EXCEPT !.unread = @ - 1, !.took = @ + 1]
        BY <3>1, <3>2, <4>1
      <4>3. /\ p \in ClientType /\ p.st = old.st /\ p.unread + p.took = old.unread + old.took
            /\ p.read = old.read /\ p.req = old.req /\ p.dir = old.dir
        BY <4>2, PieceTaken, ZenonT(30)
      <4> QED
        BY <4>1, <4>3
    <3> QED
      BY <1>0, <3>2, <3>3 DEF AwaySame, SameAnswer, Got
  <2>3. CASE HangUp(c)
    <3>1. PICK p : p = [client[c] EXCEPT !.st = "left"]
      OBVIOUS
    <3>2. client' = [client EXCEPT ![c] = p] /\ client[c].st # "away"
      BY <2>3, <3>1 DEF HangUp
    <3>3. /\ p \in ClientType /\ p.st = "left" /\ p.unread = client[c].unread
          /\ p.took = client[c].took /\ p.read = client[c].read
          /\ p.req = client[c].req /\ p.dir = client[c].dir
      BY <1>0, <3>1 DEF ClientType
    <3> QED
      BY <1>0, <3>2, <3>3 DEF AwaySame, SameAnswer, Got
  <2> QED
    BY <2>1, <2>2, <2>3
<1>3. Shrinks
  BY <1>1 DEF Shrinks
<1>4. ASSUME NEW f \in Fds, fds[f] \in Clients
      PROVE  /\ Asked(fds[f])' <=> Asked(fds[f])
             /\ Unanswered(fds[f])' <=> Unanswered(fds[f])
             /\ Got(fds[f])' = Got(fds[f])
             /\ client'[fds'[f]].dir = client[fds[f]].dir
  <2>1. PICK d \in Clients : d = fds[f] /\ d = fds'[f]
    BY <1>1, <1>4
  <2>2. (Asked(d)' <=> Asked(d)) /\ (Unanswered(d)' <=> Unanswered(d)) /\ SameAnswer(d)
    BY <1>2, SameAnswerSame
  <2> QED
    BY <2>1, <2>2 DEF Asked, Unanswered, Got, SameAnswer
<1>5. AnswersInOrder'
  <2>1. op.at \in {"read", "dirread"} =>
          /\ op.fd \in Fds /\ fds'[op.fd] \in Clients /\ Unanswered(fds[op.fd])'
          /\ client'[fds'[op.fd]].dir <=> op.at = "dirread"
    BY <1>0, <1>1, <1>4 DEF AnswersInOrder
  <2>2. op.at \in {"send", "dirsend"} =>
          /\ op.fd \in Fds /\ fds'[op.fd] \in Clients /\ Asked(fds[op.fd])'
          /\ op.out \in Nat /\ Got(fds[op.fd])' + op.out = RespSize
    BY <1>0, <1>1, <1>4 DEF AnswersInOrder
  <2>3. op.at = "idle" /\ conn # 0 => Unanswered(fds[conn])' /\ Asked(fds[conn])'
    <3> SUFFICES ASSUME op.at = "idle", conn # 0
                 PROVE  Unanswered(fds[conn])' /\ Asked(fds[conn])'
      OBVIOUS
    <3>1. conn \in Fds /\ fds[conn] \in Clients
      BY <1>0 DEF ServerInv, ServerTypes, OpenByPhase, OpenWhenIdle
    <3>2. Unanswered(fds[conn]) /\ Asked(fds[conn])
      BY <1>0 DEF AnswersInOrder
    <3> QED
      BY <1>1, <1>4, <3>1, <3>2
  <2> QED
    BY <1>1, <2>1, <2>2, <2>3 DEF AnswersInOrder
<1> QED
  BY <1>2, <1>3, <1>5, QuietStep

\* A step on the connection in progress: the client behind op.fd changes, the
\* others do not.
LEMMA OneClientStep ==
  ASSUME AnswerInv, ServerInv', UNCHANGED <<fds, queue>>, op.fd \in Fds,
         NEW c \in Clients, c = fds[op.fd], NEW p \in ClientType,
         client' = [client EXCEPT ![c] = p], p.st = client[c].st,
         Got(c)' > 0 => Asked(c)' /\ Got(c)' <= RespSize,
         AnswersInOrder'
  PROVE  AnswerInv'
<1>0. /\ ServerTypes /\ client \in [Clients -> ClientType] /\ InOnePlace /\ QueuedGotNothing
      /\ AnsweredAfterAsked
  BY DEF AnswerInv, ServerInv
<1>1. client' \in [Clients -> ClientType] /\ client'[c] = p
      /\ \A d \in Clients : d # c => client'[d] = client[d]
  BY <1>0
<1>2. Shrinks /\ AwaySame
  BY <1>1 DEF Shrinks, AwaySame
<1>3. \A d \in Clients : d # c => SameAnswer(d)
  BY <1>1 DEF SameAnswer, Got
<1>4. InOnePlace'
  BY <1>0, <1>2, ShrinkKeepsPlaces
<1>5. QueuedGotNothing'
  BY <1>0, <1>2, <1>3, ShrinkKeepsQueued DEF SameAnswer
<1>6. AnsweredAfterAsked'
  <2>1. ASSUME NEW d \in Clients, Got(d)' > 0 PROVE Asked(d)' /\ Got(d)' <= RespSize
    <3>1. CASE d = c
      BY <2>1, <3>1
    <3>2. CASE d # c
      <4>1. SameAnswer(d) /\ (Asked(d)' <=> Asked(d))
        BY <1>3, <3>2, SameAnswerSame
      <4>2. Got(d) > 0 /\ Got(d)' = Got(d)
        BY <2>1, <4>1 DEF SameAnswer
      <4> QED
        BY <1>0, <4>1, <4>2, AnsweredIsAsked
    <3> QED
      BY <3>1, <3>2
  <2> QED
    BY <2>1 DEF AnsweredAfterAsked, Got, Asked
<1> QED
  BY <1>1, <1>4, <1>5, <1>6 DEF AnswerInv

\* recv: the request grows, and what it turned into is what was asked.
LEMMA ReceiveAsks ==
  ASSUME AnswerInv, ServerInv', NEW k \in 1 .. HeadLimit, Receive(k)
  PROVE  AnswerInv'
<1>0. /\ AnswersInOrder /\ client \in [Clients -> ClientType] /\ op \in OpType /\ OpenByPhase
      /\ k \in Nat /\ k > 0 /\ 0 \notin Fds
  BY HttpServerAssumption DEF AnswerInv, ServerInv, ServerTypes, Fds
<1>1. Reading /\ UNCHANGED <<fds, queue, srv>>
  BY DEF Receive
<1>2. PICK c \in Clients : c = fds[op.fd] /\ op.fd \in Fds /\ Got(c) = 0
                           /\ (client[c].dir <=> op.at = "dirread")
  BY <1>0, <1>1 DEF AnswersInOrder, Reading, Unanswered
<1>3. PICK p : p = [client[c] EXCEPT !.read = @ + k, !.avail = @ - k]
  OBVIOUS
<1>4. client' = [client EXCEPT ![c] = p] /\ k <= client[c].avail
  BY <1>2, <1>3 DEF Receive, Peer
<1>5. /\ p \in ClientType /\ p.st = client[c].st /\ p.unread = client[c].unread
      /\ p.took = client[c].took /\ p.dir = client[c].dir /\ p.read > 0
  <2>1. PICK old \in ClientType : old = client[c]
    BY <1>0
  <2>2. old.read + k \in Nat /\ old.read + k > 0 /\ old.avail - k \in Nat
    BY <1>0, <1>4, <2>1, ClientFields
  <2>3. PICK a \in Nat, b \in Nat : a = old.read + k /\ b = old.avail - k
    BY <2>2
  <2>4. p = [old EXCEPT !.read = a, !.avail = b]
    BY <1>3, <2>1, <2>3 DEF ClientType
  <2>5. /\ p \in ClientType /\ p.st = old.st /\ p.unread = old.unread
        /\ p.took = old.took /\ p.dir = old.dir /\ p.read = a
    BY <2>4 DEF ClientType
  <2> QED
    BY <2>1, <2>2, <2>3, <2>5
<1>6. client'[c] = p /\ Got(c)' = 0 /\ fds'[op.fd] = c
  BY <1>0, <1>1, <1>2, <1>4, <1>5 DEF Got
<1>7. AnswersInOrder'
  <2>1. CASE op.at = "dirread"
    <3>1. op' = [op EXCEPT !.at = "dirsend", !.out = RespSize]
      BY <2>1 DEF Receive
    <3>2. op'.at = "dirsend" /\ op'.fd = op.fd /\ op'.out = RespSize
      BY <1>0, <3>1 DEF OpType
    <3>3. Asked(c)'
      BY <1>2, <1>5, <1>6, <2>1 DEF Asked
    <3>4. fds'[op'.fd] = c /\ Asked(fds[op.fd])' /\ Got(fds[op.fd])' + op'.out = RespSize
      BY <1>6, <3>2, <3>3, HttpServerAssumption DEF Asked, Got
    <3> QED
      BY <1>2, <3>2, <3>4, HttpServerAssumption DEF AnswersInOrder
  <2>2. CASE op.at = "read" /\ Complete(p)
    <3>1. op' = Idle /\ conn' = op.fd
      BY <1>2, <1>3, <2>2 DEF Receive, Peer
    <3>2. op'.at = "idle"
      BY <3>1 DEF Idle
    <3>3. ~p.dir /\ Asked(c)' /\ Unanswered(c)'
      BY <1>2, <1>5, <1>6, <2>2 DEF Asked, Unanswered
    <3>4. Asked(fds[conn])' /\ Unanswered(fds[conn])'
      BY <1>6, <3>1, <3>3 DEF Asked, Unanswered, Got
    <3> QED
      BY <3>2, <3>4 DEF AnswersInOrder
  <2>3. CASE op.at = "read" /\ ~Complete(p)
    <3>1. op' = op
      BY <1>2, <1>3, <2>3 DEF Receive, Peer
    <3>2. Unanswered(fds[op.fd])' /\ (client'[fds'[op.fd]].dir <=> op.at = "dirread")
      BY <1>2, <1>5, <1>6, <3>1 DEF Unanswered, Got
    <3> QED
      BY <1>2, <1>6, <2>3, <3>1, <3>2 DEF AnswersInOrder
  <2> QED
    BY <1>1, <2>1, <2>2, <2>3 DEF Reading
<1>8. Got(c)' > 0 => Asked(c)' /\ Got(c)' <= RespSize
  BY <1>6
<1>9. UNCHANGED <<fds, queue>> /\ op.fd \in Fds /\ c = fds[op.fd] /\ p.st = client[c].st
  BY <1>1, <1>2, <1>5
<1>10. p \in ClientType
  BY <1>5
<1> QED
  BY <1>4, <1>7, <1>8, <1>9, <1>10, OneClientStep

\* send: what the client gets and what is left to send are the response.
LEMMA SendAnswers ==
  ASSUME AnswerInv, ServerInv', NEW k \in 1 .. RespSize, Send(k)
  PROVE  AnswerInv'
<1>0. /\ AnswersInOrder /\ client \in [Clients -> ClientType] /\ op \in OpType
      /\ k \in Nat /\ RespSize \in Nat
  BY HttpServerAssumption DEF AnswerInv, ServerInv, ServerTypes
<1>1. /\ Sending /\ UNCHANGED <<fds, queue, srv, conn>> /\ k <= op.out
      /\ op' = [op EXCEPT !.out = @ - k]
  BY DEF Send
<1>2. PICK c \in Clients : /\ c = fds[op.fd] /\ op.fd \in Fds /\ Asked(c)
                           /\ op.out \in Nat /\ Got(c) + op.out = RespSize
  BY <1>0, <1>1 DEF AnswersInOrder, Sending
<1>3. PICK p : p = [client[c] EXCEPT !.unread = @ + k]
  OBVIOUS
<1>4. client' = [client EXCEPT ![c] = p]
  BY <1>2, <1>3 DEF Send
<1>5. /\ p \in ClientType /\ p.st = client[c].st /\ p.unread = client[c].unread + k
      /\ p.took = client[c].took /\ p.dir = client[c].dir /\ p.read = client[c].read
      /\ p.req = client[c].req /\ Got(c) \in Nat
  <2>1. PICK old \in ClientType : old = client[c]
    BY <1>0
  <2>2. PICK a \in Nat : a = old.unread + k
    BY <1>0, ClientFields
  <2>3. p = [old EXCEPT !.unread = a]
    BY <1>3, <2>1, <2>2 DEF ClientType
  <2>4. /\ p \in ClientType /\ p.st = old.st /\ p.unread = a /\ p.req = old.req
        /\ p.took = old.took /\ p.dir = old.dir /\ p.read = old.read
    BY <2>3 DEF ClientType
  <2>5. Got(c) \in Nat
    BY <2>1, ClientFields DEF Got
  <2> QED
    BY <2>1, <2>2, <2>4, <2>5
<1>6. client'[c] = p /\ fds'[op.fd] = c /\ Asked(c)'
  <2>1. client'[c] = p
    BY <1>0, <1>4
  <2> QED
    BY <1>1, <1>2, <1>5, <2>1 DEF Asked, Complete
<1>7. op'.at = op.at /\ op'.fd = op.fd /\ op'.out = op.out - k /\ op'.out \in Nat
  BY <1>0, <1>1, <1>2 DEF OpType
<1>8. Got(c)' = Got(c) + k
  <2>1. client[c].unread \in Nat /\ client[c].took \in Nat
    BY <1>0, ClientFields
  <2>2. Got(c)' = p.unread + p.took
    BY <1>6 DEF Got
  <2> QED
    BY <1>0, <1>5, <2>1, <2>2 DEF Got
<1>9. Got(c)' + op'.out = RespSize /\ Got(c)' <= RespSize
  BY <1>0, <1>2, <1>5, <1>7, <1>8
<1>10. AnswersInOrder'
  <2>1. fds'[op'.fd] = c /\ Asked(fds[op.fd])' /\ Got(fds[op.fd])' + op'.out = RespSize
    BY <1>6, <1>7, <1>9 DEF Asked, Got
  <2> QED
    BY <1>1, <1>2, <1>7, <2>1 DEF AnswersInOrder, Sending
<1> QED
  BY <1>1, <1>2, <1>4, <1>5, <1>6, <1>9, <1>10, OneClientStep

\* accept: the client at the head of the queue moves behind a descriptor that
\* was free.
LEMMA AcceptedMoves ==
  ASSUME AnswerInv, ServerInv', Accepted
  PROVE  AnswerInv'
<1>0. /\ ServerTypes /\ HasListener /\ client \in [Clients -> ClientType] /\ op \in OpType
      /\ InOnePlace /\ QueuedGotNothing /\ AnsweredAfterAsked
      /\ fds \in [Fds -> Sockets] /\ queue \in [Fds -> Seq(Clients)]
      /\ "free" \notin Clients /\ 0 \notin Fds
  BY HttpServerAssumption, SMTT(30) DEF AnswerInv, ServerInv, ServerTypes, OpenByPhase, Fds
<1>1. PICK l \in Fds : l = op.listener /\ queue[l] # <<>>
  BY <1>0 DEF Accepted, HasListener, OpType
<1>2. PICK n \in Fds : n = Lowest(fds) /\ fds[n] = "free"
  BY LowestIsFree DEF Accepted, OpenFds
<1>3. queue[l] \in Seq(Clients) /\ Len(queue[l]) \in Nat /\ Len(queue[l]) >= 1
      /\ DOMAIN queue[l] = 1 .. Len(queue[l])
  BY <1>0, <1>1
<1>4. PICK c \in Clients : c = Head(queue[l]) /\ c = queue[l][1] /\ 1 \in DOMAIN queue[l]
  BY <1>1, <1>3
<1>5. PICK p : p = [client[c] EXCEPT !.st = IF @ = "queued" THEN "open" ELSE @,
                                     !.dir = (op.at = "dir")]
  BY SMTT(30)
<1>6. /\ fds' = [fds EXCEPT ![n] = c] /\ queue' = [queue EXCEPT ![l] = Tail(@)]
      /\ client' = [client EXCEPT ![c] = p] /\ op.at \in {"accept", "dir"}
      /\ op' = [op EXCEPT !.at = IF op.at = "dir" THEN "dirread" ELSE "read", !.fd = n]
  BY <1>1, <1>2, <1>4, <1>5 DEF Accepted
<1>7. client[c].st # "away" /\ Got(c) = 0
  BY <1>0, <1>1, <1>4 DEF InOnePlace, QueuedGotNothing
<1>8. /\ p \in ClientType /\ p.st # "away" /\ p.unread = client[c].unread
      /\ p.took = client[c].took /\ (p.dir <=> op.at = "dir")
  <2>1. PICK old \in ClientType : old = client[c]
    BY <1>0
  <2>2. PICK st \in {"away", "queued", "open", "left", "done"} :
          st = (IF old.st = "queued" THEN "open" ELSE old.st) /\ st # "away"
    BY <1>7, <2>1 DEF ClientType
  <2>3. PICK d \in BOOLEAN : d = (op.at = "dir")
    BY Zenon
  <2>4. p = [old EXCEPT !.st = st, !.dir = d]
    BY <1>5, <2>1, <2>2, <2>3 DEF ClientType
  <2>5. /\ p \in ClientType /\ p.st = st /\ p.unread = old.unread
        /\ p.took = old.took /\ p.dir = d
    BY <2>4 DEF ClientType
  <2> QED
    BY <2>1, <2>2, <2>3, <2>5
<1>9. /\ client' \in [Clients -> ClientType] /\ client'[c] = p
      /\ \A d \in Clients : d # c => client'[d] = client[d]
  BY <1>0, <1>6, <1>8
<1>10. Got(c)' = 0 /\ \A d \in Clients : Got(d)' = Got(d)
  BY <1>7, <1>8, <1>9 DEF Got
<1>11. \A d \in Clients : client[d].st # "away" => client'[d].st # "away"
  BY <1>8, <1>9
<1>a. \A d \in Clients : client'[d].st = "away" => client[d].st = "away"
  BY <1>8, <1>9
<1>12. /\ fds'[n] = c /\ \A f \in Fds : f # n => fds'[f] = fds[f]
  BY <1>0, <1>6
<1>13. ASSUME NEW f \in Fds, NEW i \in DOMAIN queue'[f]
       PROVE  \E j \in DOMAIN queue[f] : /\ queue'[f][i] = queue[f][j]
                                         /\ j = (IF f = l THEN i + 1 ELSE i)
                                         /\ i \in Int /\ (f = l => j > 1)
  <2>1. CASE f = l
    <3>1. queue'[l] = Tail(queue[l])
      BY <1>0, <1>6
    <3>2. i \in 1 .. Len(queue[l]) - 1 /\ queue'[l][i] = queue[l][i + 1]
      BY <1>1, <1>3, <1>13, <2>1, <3>1
    <3>3. i + 1 \in DOMAIN queue[l] /\ i + 1 > 1 /\ i \in Int
      BY <1>3, <3>2
    <3> QED
      BY <2>1, <3>2, <3>3
  <2>2. CASE f # l
    <3>1. queue'[f] = queue[f] /\ queue[f] \in Seq(Clients)
      BY <1>0, <1>6, <2>2
    <3>2. i \in DOMAIN queue[f] /\ i \in Int
      BY <3>1
    <3> QED
      BY <2>2, <3>1, <3>2
  <2> QED
    BY <2>1, <2>2
<1>14. ASSUME NEW f \in Fds, NEW i \in DOMAIN queue'[f]
       PROVE  /\ queue'[f][i] # c /\ queue'[f][i] \in Clients /\ Got(queue'[f][i]) = 0
              /\ client[queue'[f][i]].st # "away"
              /\ \A g \in Fds : fds[g] # queue'[f][i]
  <2>1. PICK j \in DOMAIN queue[f] : queue'[f][i] = queue[f][j] /\ (f = l => j > 1)
    BY <1>13
  <2>2. queue[f][j] # queue[l][1]
    <3>1. ~(f = l /\ j = 1)
      BY <2>1
    <3>2. queue[f][j] = queue[l][1] => f = l /\ j = 1
      BY <1>0, <1>4, <2>1 DEF InOnePlace
    <3> QED
      BY <3>1, <3>2
  <2>3. queue[f][j] \in Clients
    BY <1>0, QueueHoldsClients
  <2>4. Got(queue[f][j]) = 0
    BY <1>0 DEF QueuedGotNothing
  <2>5. client[queue[f][j]].st # "away" /\ \A g \in Fds : fds[g] # queue[f][j]
    BY <1>0 DEF InOnePlace
  <2> QED
    BY <1>4, <2>1, <2>2, <2>3, <2>4, <2>5
<1>15. InOnePlace'
  <2>1. ASSUME NEW f \in Fds, NEW g \in Fds, NEW i \in DOMAIN queue'[f], NEW j \in DOMAIN queue'[g],
               queue'[f][i] = queue'[g][j]
        PROVE  f = g /\ i = j
    <3>1. PICK x \in DOMAIN queue[f] : queue'[f][i] = queue[f][x] /\ i \in Int
                                       /\ x = (IF f = l THEN i + 1 ELSE i)
      BY <1>13
    <3>2. PICK y \in DOMAIN queue[g] : queue'[g][j] = queue[g][y] /\ j \in Int
                                       /\ y = (IF g = l THEN j + 1 ELSE j)
      BY <1>13
    <3>3. queue[f][x] = queue[g][y]
      BY <2>1, <3>1, <3>2
    <3>4. f = g /\ x = y
      BY <1>0, <3>3 DEF InOnePlace
    <3> QED
      BY <3>1, <3>2, <3>4
  <2>2. \A f, g \in Fds : \A i \in DOMAIN queue'[f] : fds'[g] # queue'[f][i]
    BY <1>12, <1>14
  <2>3. ASSUME NEW f \in Fds, NEW g \in Fds, fds'[f] \in Clients, fds'[f] = fds'[g]
        PROVE  f = g
    <3>1. \A h \in Fds : fds[h] # c
      BY <1>0, <1>1, <1>4 DEF InOnePlace
    <3> QED
      BY <1>0, <1>12, <2>3, <3>1, ZenonT(30) DEF InOnePlace
  <2>4. \A f \in Fds : \A i \in DOMAIN queue'[f] : client'[queue'[f][i]].st # "away"
    BY <1>11, <1>14
  <2>5. \A f \in Fds : fds'[f] \in Clients => client'[fds'[f]].st # "away"
    <3> SUFFICES ASSUME NEW f \in Fds, fds'[f] \in Clients
                 PROVE  client'[fds'[f]].st # "away"
      OBVIOUS
    <3>1. CASE f = n
      BY <1>8, <1>9, <1>12, <3>1
    <3>2. CASE f # n
      BY <1>0, <1>11, <1>12, <3>2 DEF InOnePlace
    <3> QED
      BY <3>1, <3>2
  <2> QED
    BY <2>1, <2>2, <2>3, <2>4, <2>5 DEF InOnePlace
<1>16. QueuedGotNothing'
  <2>1. \A d \in Clients : client'[d].st = "away" => Got(d)' = 0
    BY <1>0, <1>a, <1>10 DEF QueuedGotNothing
  <2>2. ASSUME NEW f \in Fds, NEW i \in DOMAIN queue'[f] PROVE Got(queue[f][i])' = 0
    <3>1. PICK d \in Clients : d = queue'[f][i] /\ Got(d) = 0
      BY <1>14
    <3>2. Got(d)' = 0
      BY <1>10, <3>1
    <3> QED
      BY <3>1, <3>2 DEF Got
  <2> QED
    BY <2>1, <2>2 DEF QueuedGotNothing
<1>17. AnsweredAfterAsked'
  <2>1. ASSUME NEW d \in Clients, Got(d)' > 0 PROVE Asked(d)' /\ Got(d)' <= RespSize
    <3>1. d # c
      BY <1>10, <2>1
    <3>2. client'[d] = client[d] /\ Got(d)' = Got(d) /\ Got(d) > 0
      BY <1>9, <1>10, <2>1, <3>1
    <3>3. Asked(d) /\ Got(d) <= RespSize
      BY <1>0, <3>2, AnsweredIsAsked
    <3> QED
      BY <3>2, <3>3 DEF Asked
  <2> QED
    BY <2>1 DEF AnsweredAfterAsked, Got, Asked
<1>18. AnswersInOrder'
  <2>1. op'.at = (IF op.at = "dir" THEN "dirread" ELSE "read") /\ op'.fd = n
    BY <1>0, <1>6 DEF OpType
  <2>2. fds'[op'.fd] = c /\ Unanswered(fds[op.fd])'
    BY <1>10, <1>12, <2>1 DEF Unanswered, Got
  <2>3. client'[fds'[op'.fd]].dir <=> op'.at = "dirread"
    BY <1>8, <1>9, <2>1, <2>2
  <2> QED
    BY <2>1, <2>2, <2>3 DEF AnswersInOrder
<1> QED
  BY <1>9, <1>15, <1>16, <1>17, <1>18 DEF AnswerInv

\* A client that connects was nowhere and has got nothing.
LEMMA ConnectQueues ==
  ASSUME AnswerInv, ServerInv', NEW c \in Clients, NEW l \in Fds, NEW r \in RequestKinds,
         Connect(c, l, r)
  PROVE  AnswerInv'
<1>0. /\ ServerTypes /\ client \in [Clients -> ClientType] /\ ServerInv
      /\ InOnePlace /\ QueuedGotNothing /\ AnsweredAfterAsked /\ AnswersInOrder
      /\ queue \in [Fds -> Seq(Clients)]
  BY DEF AnswerInv, ServerInv, ServerTypes
<1>1. PICK p : p = [Away EXCEPT !.st = "queued", !.req = r]
  OBVIOUS
<1>2. /\ client' = [client EXCEPT ![c] = p] /\ queue' = [queue EXCEPT ![l] = Append(@, c)]
      /\ UNCHANGED <<fds, srv, conn, op>> /\ client[c].st = "away"
  BY <1>1 DEF Connect
<1>3. p \in ClientType /\ p.st = "queued" /\ p.unread + p.took = 0
  <2>1. Away \in ClientType /\ Away.unread = 0 /\ Away.took = 0
    BY DEF Away, ClientType
  <2>2. p \in ClientType
    BY <1>1, <2>1 DEF ClientType
  <2>3. p.st = "queued" /\ p.unread = Away.unread /\ p.took = Away.took
    BY <1>1, <2>1 DEF ClientType
  <2> QED
    BY <2>1, <2>2, <2>3
<1>4. /\ client' \in [Clients -> ClientType] /\ client'[c] = p
      /\ \A d \in Clients : d # c => client'[d] = client[d]
  BY <1>0, <1>2, <1>3
<1>5. Got(c) = 0 /\ Got(c)' = 0 /\ \A d \in Clients : Got(d)' = Got(d)
  <2>1. Got(c) = 0
    BY <1>0, <1>2 DEF QueuedGotNothing
  <2>2. Got(c)' = 0
    BY <1>3, <1>4 DEF Got
  <2>3. \A d \in Clients : d # c => Got(d)' = Got(d)
    BY <1>4 DEF Got
  <2> QED
    BY <2>1, <2>2, <2>3
<1>6. \A f \in Fds : fds[f] # c
  BY <1>0, <1>2 DEF InOnePlace
<1>7. \A f \in Fds : \A i \in DOMAIN queue[f] : queue[f][i] # c /\ queue[f][i] \in Clients
  BY <1>0, <1>2, QueueHoldsClients DEF InOnePlace
<1>8. ASSUME NEW f \in Fds, NEW i \in DOMAIN queue'[f]
      PROVE  \/ i \in DOMAIN queue[f] /\ queue'[f][i] = queue[f][i]
             \/ f = l /\ i = Len(queue[l]) + 1 /\ queue'[f][i] = c
  <2>1. queue[l] \in Seq(Clients) /\ queue[f] \in Seq(Clients)
    BY <1>0
  <2>2. CASE f = l
    <3>1. queue'[l] = Append(queue[l], c)
      BY <1>0, <1>2
    <3> QED
      BY <1>8, <2>1, <2>2, <3>1
  <2>3. CASE f # l
    <3>1. queue'[f] = queue[f]
      BY <1>0, <1>2, <2>3
    <3> QED
      BY <1>8, <3>1
  <2> QED
    BY <2>2, <2>3
<1>9. InOnePlace'
  <2>1. ASSUME NEW f \in Fds, NEW g \in Fds, NEW i \in DOMAIN queue'[f], NEW j \in DOMAIN queue'[g],
               queue'[f][i] = queue'[g][j]
        PROVE  f = g /\ i = j
    <3>1. CASE queue'[f][i] = c
      <4>1. f = l /\ i = Len(queue[l]) + 1
        BY <1>7, <1>8, <3>1
      <4>2. g = l /\ j = Len(queue[l]) + 1
        BY <1>7, <1>8, <2>1, <3>1
      <4> QED
        BY <4>1, <4>2
    <3>2. CASE queue'[f][i] # c
      <4>1. i \in DOMAIN queue[f] /\ queue'[f][i] = queue[f][i]
        BY <1>8, <3>2
      <4>2. j \in DOMAIN queue[g] /\ queue'[g][j] = queue[g][j]
        BY <1>8, <2>1, <3>2
      <4>3. queue[f][i] = queue[g][j]
        BY <2>1, <4>1, <4>2
      <4> QED
        BY <1>0, <4>1, <4>2, <4>3 DEF InOnePlace
    <3> QED
      BY <3>1, <3>2
  <2>2. ASSUME NEW f \in Fds, NEW g \in Fds, NEW i \in DOMAIN queue'[f]
        PROVE  fds'[g] # queue'[f][i]
    BY <1>0, <1>2, <1>6, <1>8 DEF InOnePlace
  <2>3. \A f, g \in Fds : fds'[f] \in Clients /\ fds'[f] = fds'[g] => f = g
    BY <1>0, <1>2 DEF InOnePlace
  <2>4. ASSUME NEW f \in Fds, NEW i \in DOMAIN queue'[f]
        PROVE  client'[queue'[f][i]].st # "away"
    <3>1. CASE queue'[f][i] = c
      BY <1>3, <1>4, <3>1
    <3>2. CASE queue'[f][i] # c
      <4>1. i \in DOMAIN queue[f] /\ queue'[f][i] = queue[f][i]
        BY <1>8, <3>2
      <4> QED
        BY <1>0, <1>4, <1>7, <3>2, <4>1 DEF InOnePlace
    <3> QED
      BY <3>1, <3>2
  <2>5. \A f \in Fds : fds'[f] \in Clients => client'[fds'[f]].st # "away"
    BY <1>0, <1>2, <1>4, <1>6 DEF InOnePlace
  <2> QED
    BY <2>1, <2>2, <2>3, <2>4, <2>5 DEF InOnePlace
<1>10. QueuedGotNothing'
  <2>1. \A d \in Clients : client'[d].st = "away" => Got(d)' = 0
    BY <1>0, <1>3, <1>4, <1>5 DEF QueuedGotNothing
  <2>2. ASSUME NEW f \in Fds, NEW i \in DOMAIN queue'[f] PROVE Got(queue[f][i])' = 0
    <3>1. PICK d \in Clients : d = queue'[f][i] /\ Got(d) = 0
      BY <1>0, <1>5, <1>7, <1>8 DEF QueuedGotNothing
    <3>2. Got(d)' = 0
      BY <1>5, <3>1
    <3> QED
      BY <3>1, <3>2 DEF Got
  <2> QED
    BY <2>1, <2>2 DEF QueuedGotNothing
<1>11. AnsweredAfterAsked'
  <2>1. ASSUME NEW d \in Clients, Got(d)' > 0 PROVE Asked(d)' /\ Got(d)' <= RespSize
    <3>1. d # c
      BY <1>5, <2>1
    <3>2. client'[d] = client[d] /\ Got(d)' = Got(d) /\ Got(d) > 0
      BY <1>4, <1>5, <2>1, <3>1
    <3>3. Asked(d) /\ Got(d) <= RespSize
      BY <1>0, <3>2, AnsweredIsAsked
    <3> QED
      BY <3>2, <3>3 DEF Asked
  <2> QED
    BY <2>1 DEF AnsweredAfterAsked, Got, Asked
<1>12. AnswersInOrder'
  <2>1. ASSUME NEW f \in Fds, fds[f] \in Clients
        PROVE  client'[fds[f]] = client[fds[f]]
    BY <1>4, <1>6, <2>1
  <2>2. op.at = "idle" /\ conn # 0 => conn \in Fds /\ fds[conn] \in Clients
    BY <1>0 DEF ServerInv, ServerTypes, OpenByPhase, OpenWhenIdle
  <2> QED
    BY <1>0, <1>2, <2>1, <2>2 DEF AnswersInOrder, Unanswered, Asked, Got
<1> QED
  BY <1>4, <1>9, <1>10, <1>11, <1>12 DEF AnswerInv

\* Every step of the server and of its clients.
LEMMA AnswerInvNext ==
  ASSUME AnswerInv, [ServerNext]_httpvars PROVE AnswerInv'
<1>0. ServerInv'
  BY ServerInvNext DEF AnswerInv
<1>1. CASE Tick \/ Slow \/ UNCHANGED httpvars
  <2>1. UNCHANGED <<fds, queue, srv, conn, op, client>>
    BY <1>1 DEF Tick, Slow, httpvars
  <2> QED
    BY <1>0, <2>1 DEF AnswerInv, InOnePlace, QueuedGotNothing, AnswersInOrder, Unanswered, Asked,
       Got, AnsweredAfterAsked
<1>2. CASE \/ \E ok \in BOOLEAN : http_listen(ok) \/ http_serve_dir(ok)
           \/ http_accept \/ AcceptBeforeListen \/ AcceptFails \/ http_respond
  BY <1>0, <1>2, OpeningsAnswerNobody
<1>3. CASE Proceed
  <2>1. CASE Malformed \/ PeerGone \/ ReadTimeout
    <3>1. Reading /\ GiveUp
      BY <2>1 DEF Malformed, PeerGone, ReadTimeout, Reading
    <3> QED
      BY <1>0, <3>1, ClosesAnswerNobody
  <2>2. CASE SendTimeout \/ Sent \/ SendFailed
    <3>1. Sending /\ EndSend
      BY <2>2 DEF SendTimeout, Sent, SendFailed
    <3> QED
      BY <1>0, <3>1, ClosesAnswerNobody
  <2> QED
    BY <1>0, <1>3, <2>1, <2>2, AcceptedMoves, ReceiveAsks, SendAnswers DEF Proceed
<1>4. CASE Peers
  BY <1>0, <1>4, PeersAnswerNobody, ConnectQueues DEF Peers
<1> QED
  BY <1>1, <1>2, <1>3, <1>4 DEF ServerNext

\* A client gets pieces of a response only after its own request was read to
\* its declared end and found well formed (or, from http_serve, after one
\* recv), and never more than one response, whatever descriptors were closed
\* and handed out again in between (pyro_runtime.c:2838-2921).
THEOREM AnswersGoToWhoAsked == ServerSpec => []AnsweredAfterAsked
<1>1. ServerInit => AnswerInv
  <2> SUFFICES ASSUME ServerInit PROVE AnswerInv
    OBVIOUS
  <2>1. /\ fds = [f \in Fds |-> "free"] /\ queue = [f \in Fds |-> <<>>] /\ conn = 0
        /\ op.at = "idle" /\ "free" \notin Clients
        /\ client = [c \in Clients |-> Away]
    BY HttpServerAssumption DEF ServerInit, Idle
  <2>2. Away \in ClientType /\ Away.unread = 0 /\ Away.took = 0
    BY DEF Away, ClientType
  <2>3. client \in [Clients -> ClientType] /\ \A c \in Clients : Got(c) = 0
    BY <2>1, <2>2 DEF Got
  <2>4. InOnePlace
    BY <2>1 DEF InOnePlace
  <2>5. QueuedGotNothing
    BY <2>1, <2>3 DEF QueuedGotNothing
  <2>6. AnswersInOrder
    BY <2>1 DEF AnswersInOrder
  <2>7. AnsweredAfterAsked
    BY <2>3, AnsweredIsAsked
  <2> QED
    BY <2>3, <2>4, <2>5, <2>6, <2>7, AccountOpens DEF AnswerInv
<1>2. AnswerInv /\ [ServerNext]_httpvars => AnswerInv'
  BY AnswerInvNext
<1>3. AnswerInv => AnsweredAfterAsked
  BY DEF AnswerInv
<1> QED BY <1>1, <1>2, <1>3, PTL DEF ServerSpec
=============================================================================
