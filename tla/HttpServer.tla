----------------------------- MODULE HttpServer -----------------------------
(***************************************************************************)
(* The sequential HTTP server of vm/pyro_runtime.c: http_listen,           *)
(* http_accept and http_respond (natives 52 to 54), and http_serve_dir,    *)
(* over non-blocking sockets with a deadline. Requests and responses are   *)
(* counted in pieces; a recv returns any number of the pieces that have    *)
(* arrived. Descriptors are numbers, and the system hands out the lowest   *)
(* free one, so a stale number may come to mean another socket.            *)
(***************************************************************************)
EXTENDS Integers, FiniteSetsExt, Sequences

CONSTANTS
  Clients,
  RequestKinds,   \* [head, body : pieces, kind : "good", "bad" or "huge"]
  NFd,            \* descriptors the process may have open
  Backlog,        \* 16: connections a listener queues
  HeadLimit,      \* 65535: what the header buffer holds
  SrvTimeout,     \* PYRO_HTTP_TIMEOUT_MS
  RespSize,       \* pieces of a response
  SndBuf          \* pieces a peer may leave unread

ASSUME HttpServerAssumption ==
  /\ {NFd, Backlog, HeadLimit, SrvTimeout, RespSize, SndBuf} \subseteq Nat
  /\ {"free", "listener"} \cap Clients = {}

VARIABLES
  fds,      \* descriptor -> "free", "listener" or the client it is connected to
  queue,    \* listener -> clients not yet accepted
  srv,      \* g_http_srv, 0 for PYRO_BADSOCK
  conn,     \* g_http_conn
  op,       \* the native in progress: where it is, its socket, http_serve's listener
  timeLeft, \* until the deadline of the call in progress
  waited,   \* how long this call has been blocked on its peer
  client    \* the other ends

httpvars == <<fds, queue, srv, conn, op, timeLeft, waited, client>>

Fds   == 1 .. NFd
OpenFds == {f \in Fds : fds[f] # "free"}
Lowest(t) == Min({f \in Fds : t[f] = "free"})

NoRequest == [head |-> 0, body |-> 0, kind |-> "none"]
Away == [st |-> "away", req |-> NoRequest, sent |-> 0, avail |-> 0,
         read |-> 0, unread |-> 0, took |-> 0, dir |-> FALSE]
Idle == [at |-> "idle", fd |-> 0, listener |-> 0, out |-> 0]

ServerInit ==
  /\ fds = [f \in Fds |-> "free"]
  /\ queue = [f \in Fds |-> <<>>]
  /\ srv = 0 /\ conn = 0 /\ op = Idle /\ timeLeft = 0 /\ waited = 0
  /\ client = [c \in Clients |-> Away]

\* close(f): whatever f stands for goes, a listener with its whole queue.
Dropped(f) == IF fds[f] = "free" THEN {}
              ELSE IF fds[f] = "listener" THEN {queue[f][i] : i \in DOMAIN queue[f]}
              ELSE {fds[f]}
Closed(f) == [c \in Clients |-> IF c \in Dropped(f) THEN [client[c] EXCEPT !.st = "done"]
                                ELSE client[c]]

pyro_closesock(f) ==
  /\ fds' = [fds EXCEPT ![f] = "free"]
  /\ queue' = [queue EXCEPT ![f] = <<>>]
  /\ client' = Closed(f)

-----------------------------------------------------------------------------
(* http_listen: the previous listener is closed first; g_http_srv keeps    *)
(* its number when a later step fails.                                     *)
http_listen(ok) ==
  LET t == IF srv = 0 THEN fds ELSE [fds EXCEPT ![srv] = "free"]
      q == IF srv = 0 THEN queue ELSE [queue EXCEPT ![srv] = <<>>]
      room == \E f \in Fds : t[f] = "free"
  IN  /\ op.at = "idle"
      /\ client' = IF srv = 0 THEN client ELSE Closed(srv)
      /\ queue' = q
      /\ IF ok /\ room
         THEN /\ fds' = [t EXCEPT ![Lowest(t)] = "listener"]
              /\ srv' = Lowest(t)
         ELSE fds' = t /\ UNCHANGED srv
      /\ UNCHANGED <<conn, op, timeLeft, waited>>

\* Broken variant: the unanswered connection is forgotten, not closed.
AcceptForgetsConn ==
  /\ op.at = "idle" /\ srv # 0
  /\ op' = [Idle EXCEPT !.at = "accept", !.listener = srv]
  /\ conn' = 0
  /\ UNCHANGED <<fds, queue, client, srv, timeLeft, waited>>

\* http_accept: a request that was never answered is closed first.
http_accept ==
  /\ op.at = "idle" /\ srv # 0
  /\ op' = [Idle EXCEPT !.at = "accept", !.listener = srv]
  /\ conn' = 0
  /\ IF conn # 0 THEN pyro_closesock(conn) ELSE UNCHANGED <<fds, queue, client>>
  /\ UNCHANGED <<srv, timeLeft, waited>>

AcceptBeforeListen ==
  /\ op.at = "idle" /\ srv = 0
  /\ op' = [op EXCEPT !.at = "dead"]
  /\ UNCHANGED <<fds, queue, srv, conn, timeLeft, waited, client>>

\* http_serve_dir: its own listener, and no way out of its loop.
http_serve_dir(ok) ==
  /\ op.at = "idle"
  /\ IF ok /\ OpenFds # Fds
     THEN /\ fds' = [fds EXCEPT ![Lowest(fds)] = "listener"]
          /\ op' = [Idle EXCEPT !.at = "dir", !.listener = Lowest(fds)]
     ELSE op' = [op EXCEPT !.at = "dead"] /\ UNCHANGED fds
  /\ UNCHANGED <<queue, srv, conn, timeLeft, waited, client>>

\* accept() gives the connection at the head of the queue, and the deadline
\* for its request starts.
Accepted ==
  LET l == op.listener
      c == Head(queue[l])
  IN  /\ op.at \in {"accept", "dir"}
      /\ fds[l] = "listener" /\ queue[l] # <<>> /\ OpenFds # Fds
      /\ fds' = [fds EXCEPT ![Lowest(fds)] = c]
      /\ queue' = [queue EXCEPT ![l] = Tail(@)]
      /\ client' = [client EXCEPT ![c].st = IF @ = "queued" THEN "open" ELSE @,
                                  ![c].dir = (op.at = "dir")]
      /\ op' = [op EXCEPT !.at = IF op.at = "dir" THEN "dirread" ELSE "read", !.fd = Lowest(fds)]
      /\ timeLeft' = SrvTimeout /\ waited' = 0
      /\ UNCHANGED <<srv, conn>>

\* accept() fails: a stale listener, a connection reset in the queue, no
\* descriptor left. http_serve_dir tries again.
AcceptFails ==
  /\ op.at = "accept"
  /\ op' = Idle
  /\ UNCHANGED <<fds, queue, srv, conn, timeLeft, waited, client>>

-----------------------------------------------------------------------------
(* http_read_request over sock_recv.                                       *)
Peer    == client[fds[op.fd]]
Reading == op.at \in {"read", "dirread"}
Sending == op.at \in {"send", "dirsend"}

\* Broken variant: a request that could not be read keeps its connection.
GiveUpKeepsConn ==
  /\ IF op.at = "read"
     THEN op' = Idle /\ conn' = op.fd /\ UNCHANGED <<fds, queue, client>>
     ELSE /\ op' = [op EXCEPT !.at = "dir", !.fd = 0, !.out = 0]
          /\ pyro_closesock(op.fd) /\ UNCHANGED conn
  /\ UNCHANGED <<srv, timeLeft, waited>>

\* The connection is closed and the program gets an empty request, or
\* http_serve_dir goes on to the next connection.
GiveUp ==
  /\ pyro_closesock(op.fd)
  /\ op' = IF op.at = "read" THEN Idle ELSE [op EXCEPT !.at = "dir", !.fd = 0, !.out = 0]
  /\ UNCHANGED <<srv, conn, timeLeft, waited>>

\* Header pieces go to the buffer; once the header is complete only what is
\* missing of the declared body is asked for.
Wanted(p) == IF p.read < p.req.head THEN HeadLimit - p.read
             ELSE p.req.head + p.req.body - p.read

\* What http_read_request makes of the pieces read so far.
Refused(p)  == \/ p.read < p.req.head /\ p.read = HeadLimit
               \/ p.read >= p.req.head /\ p.req.kind # "good"
Complete(p) == p.read >= p.req.head + p.req.body /\ p.req.kind = "good"

\* Broken variant: every piece renews the deadline.
ReceiveRenews(k) ==
  LET p == [Peer EXCEPT !.read = @ + k, !.avail = @ - k]
  IN  /\ Reading /\ ~Refused(Peer) /\ k <= Peer.avail /\ k <= Wanted(Peer)
      /\ client' = [client EXCEPT ![fds[op.fd]] = p]
      /\ op' = IF op.at = "dirread" THEN [op EXCEPT !.at = "dirsend", !.out = RespSize]
               ELSE IF Complete(p) THEN Idle ELSE op
      /\ conn' = IF op.at = "read" /\ Complete(p) THEN op.fd ELSE conn
      /\ timeLeft' = SrvTimeout
      /\ UNCHANGED <<fds, queue, srv, waited>>

\* recv is tried before the deadline is looked at. http_serve_dir answers
\* whatever its first recv brought, under a new deadline (http_send).
Receive(k) ==
  LET p == [Peer EXCEPT !.read = @ + k, !.avail = @ - k]
  IN  /\ Reading /\ ~Refused(Peer) /\ k <= Peer.avail /\ k <= Wanted(Peer)
      /\ client' = [client EXCEPT ![fds[op.fd]] = p]
      /\ op' = IF op.at = "dirread" THEN [op EXCEPT !.at = "dirsend", !.out = RespSize]
               ELSE IF Complete(p) THEN Idle ELSE op
      /\ conn' = IF op.at = "read" /\ Complete(p) THEN op.fd ELSE conn
      /\ IF op.at = "dirread" THEN timeLeft' = SrvTimeout /\ waited' = 0
         ELSE UNCHANGED <<timeLeft, waited>>
      /\ UNCHANGED <<fds, queue, srv>>

Malformed == op.at = "read" /\ Refused(Peer) /\ GiveUp
PeerGone  == Reading /\ Peer.avail = 0 /\ Peer.st = "left" /\ GiveUp

-----------------------------------------------------------------------------
(* http_respond and http_send over sock_send_all.                          *)
http_respond ==
  /\ op.at = "idle" /\ conn # 0
  /\ op' = [Idle EXCEPT !.at = "send", !.fd = conn, !.out = RespSize]
  /\ timeLeft' = SrvTimeout /\ waited' = 0
  /\ UNCHANGED <<fds, queue, srv, conn, client>>

\* A peer that has hung up may go unnoticed for a while.
Send(k) ==
  /\ Sending /\ k <= op.out /\ Peer.unread + k <= SndBuf
  /\ client' = [client EXCEPT ![fds[op.fd]].unread = @ + k]
  /\ op' = [op EXCEPT !.out = @ - k]
  /\ UNCHANGED <<fds, queue, srv, conn, timeLeft, waited>>

\* Everything sent, or the peer is gone: either way the connection is closed.
EndSend ==
  /\ pyro_closesock(op.fd)
  /\ IF op.at = "send" THEN op' = Idle /\ conn' = 0
     ELSE op' = [op EXCEPT !.at = "dir", !.fd = 0, !.out = 0] /\ UNCHANGED conn
  /\ UNCHANGED <<srv, timeLeft, waited>>

Sent       == Sending /\ op.out = 0 /\ EndSend
SendFailed == Sending /\ op.out > 0 /\ Peer.st = "left" /\ EndSend

-----------------------------------------------------------------------------
(* Time. sock_wait blocks only while nothing can be read or written, and   *)
(* gives up once the deadline has passed.                                  *)
Blocked == \/ Reading /\ ~Refused(Peer) /\ Peer.avail = 0 /\ Peer.st # "left"
           \/ Sending /\ op.out > 0 /\ Peer.unread = SndBuf /\ Peer.st # "left"

Tick ==
  /\ Blocked /\ timeLeft > 0
  /\ timeLeft' = timeLeft - 1 /\ waited' = waited + 1
  /\ UNCHANGED <<fds, queue, srv, conn, op, client>>

\* The process is slow while its peer is ready.
Slow ==
  /\ Reading \/ Sending
  /\ ~Blocked /\ timeLeft > 0
  /\ timeLeft' = timeLeft - 1
  /\ UNCHANGED <<fds, queue, srv, conn, op, waited, client>>

\* Broken variant: a request that has begun to arrive is waited for.
ReadTimeoutAtStartOnly == Reading /\ Peer.read = 0 /\ Blocked /\ timeLeft = 0 /\ GiveUp

ReadTimeout == Reading /\ Blocked /\ timeLeft = 0 /\ GiveUp
SendTimeout == Sending /\ Blocked /\ timeLeft = 0 /\ EndSend

-----------------------------------------------------------------------------
(* The clients.                                                            *)
Connect(c, f, r) ==
  /\ client[c].st = "away" /\ fds[f] = "listener" /\ Len(queue[f]) < Backlog
  /\ client' = [client EXCEPT ![c] = [Away EXCEPT !.st = "queued", !.req = r]]
  /\ queue' = [queue EXCEPT ![f] = Append(@, c)]
  /\ UNCHANGED <<fds, srv, conn, op, timeLeft, waited>>

SendPiece(c) ==
  /\ client[c].st \in {"queued", "open"}
  /\ client[c].sent < client[c].req.head + client[c].req.body
  /\ client' = [client EXCEPT ![c].sent = @ + 1, ![c].avail = @ + 1]
  /\ UNCHANGED <<fds, queue, srv, conn, op, timeLeft, waited>>

TakePiece(c) ==
  /\ client[c].unread > 0 /\ client[c].st # "left"
  /\ client' = [client EXCEPT ![c].unread = @ - 1, ![c].took = @ + 1]
  /\ UNCHANGED <<fds, queue, srv, conn, op, timeLeft, waited>>

HangUp(c) ==
  /\ client[c].st \in {"queued", "open"}
  /\ client' = [client EXCEPT ![c].st = "left"]
  /\ UNCHANGED <<fds, queue, srv, conn, op, timeLeft, waited>>

Peers == \E c \in Clients :
           \/ SendPiece(c) \/ TakePiece(c) \/ HangUp(c)
           \/ \E f \in Fds, r \in RequestKinds : Connect(c, f, r)

\* Steps of the native in progress that are not the program's choice.
Proceed ==
  \/ Accepted \/ Malformed \/ PeerGone \/ ReadTimeout \/ SendTimeout \/ Sent \/ SendFailed
  \/ \E k \in 1 .. HeadLimit : Receive(k)
  \/ \E k \in 1 .. RespSize : Send(k)

ServerNext ==
  \/ \E ok \in BOOLEAN : http_listen(ok) \/ http_serve_dir(ok)
  \/ http_accept \/ AcceptBeforeListen \/ AcceptFails \/ http_respond
  \/ Proceed \/ Tick \/ Slow \/ Peers

ServerSpec == ServerInit /\ [][ServerNext]_httpvars

\* A loop that runs and a clock that advances.
ServerFairness == WF_httpvars(Proceed) /\ WF_httpvars(Tick)

-----------------------------------------------------------------------------
\* Between two natives every open descriptor is the listener or the one
\* connection in flight, whatever sequence of listen, accept and respond the
\* program made, failed ones included; and the connection's number still
\* means a client, although a failed http_listen leaves a closed number in
\* g_http_srv that the next http_listen closes again (pyro_runtime.c:2818).
DescriptorsAccounted ==
  op.at = "idle" =>
    /\ OpenFds \subseteq {srv, conn}
    /\ conn # 0 => fds[conn] \in Clients /\ conn # srv
    /\ srv # 0 => fds[srv] \in {"free", "listener"}

\* An idle or trickling client holds the server for at most the timeout
\* (pyro_runtime.c:2002): the waits of all the reads of one request add up.
WaitIsBounded == waited <= SrvTimeout

\* A response goes only to a client whose request was well formed and read
\* to its declared end, and at most once; http_serve answers after one read.
AnsweredAfterAsked ==
  \A c \in Clients : LET p == client[c] IN
    p.unread + p.took > 0 =>
      /\ IF p.dir THEN p.read > 0 ELSE Complete(p)
      /\ p.unread + p.took <= RespSize

\* The server always gets back to its program or to the next connection: no
\* client, by stopping to send or to read, holds it for ever.
ServerComesBack == (Reading \/ Sending) ~> ~(Reading \/ Sending)
=============================================================================
