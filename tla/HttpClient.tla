----------------------------- MODULE HttpClient -----------------------------
(***************************************************************************)
(* http_get and http_post of vm/pyro_runtime.c: http_client_request over   *)
(* http_dial, http_exchange and http_dechunk, one deadline for all of it.  *)
(* A response is a sequence of items: interim responses, a header that     *)
(* declares how the body is framed, pieces of body and, in a chunked body, *)
(* the last chunk. The peer may send them at any pace, stop, close early   *)
(* or answer something that is not HTTP. Timed are the waits on sockets    *)
(* and for curl: the lookup of a host name has no deadline in the code.    *)
(***************************************************************************)
EXTENDS Integers, Sequences, FiniteSets

CONSTANTS
  Answers,        \* headers a peer may send: [status, loc, framing, n, trailer]
  MaxHops,        \* 10: redirects followed
  ClientTimeout,  \* PYRO_HTTP_CLIENT_TIMEOUT_MS
  Second,         \* 1000: curl is given whole seconds
  CurlGrace       \* how long an ended curl is waited for: 5000 on Windows; 0 elsewhere

ASSUME HttpClientAssumption ==
  /\ MaxHops \in Nat /\ ClientTimeout \in Nat
  /\ Second \in Nat \ {0} /\ CurlGrace \in Nat
  /\ \A h \in Answers : h.n \in Nat

VARIABLES
  call,       \* where http_client_request is; hop, whether it has a body to send
  posted,     \* the program called http_post
  moved,      \* some hop answered 301, 302 or 303
  asked,      \* whether the request sent last was a POST with its body
  budget,     \* time until the deadline; once curl runs, what it is given
  idled,      \* time spent blocked on sockets, over all hops
  curled,     \* time spent blocked on curl
  wire,       \* what the peer has sent and the client not yet received
  peer,       \* the peer: its header, pieces sent, last chunk sent, closed
  resp,       \* what http_exchange holds: header, pieces, last chunk
  answer      \* what the call returned

clientvars == <<call, posted, moved, asked, budget, idled, curled, wire, peer, resp, answer>>

Redirects == {301, 302, 303, 307, 308}
NoHeader  == [status |-> 0, loc |-> FALSE, framing |-> "none", n |-> 0, trailer |-> FALSE]
NoPeer    == [hdr |-> NoHeader, sent |-> 0, last |-> FALSE, closed |-> FALSE, interim |-> FALSE]
NoResp    == [hdr |-> NoHeader, have |-> 0, last |-> FALSE]
NoAnswer  == [ok |-> FALSE, hdr |-> NoHeader, pieces |-> 0]

ClientInit ==
  /\ call = [at |-> "idle", hop |-> 0, body |-> FALSE]
  /\ posted = FALSE /\ moved = FALSE /\ asked = FALSE
  /\ budget = 0 /\ idled = 0 /\ curled = 0
  /\ wire = <<>> /\ peer = NoPeer /\ resp = NoResp /\ answer = NoAnswer

\* http_client_request: GET without a body, POST with one; the method and the
\* body are always set together.
http_client_request(body) ==
  /\ call.at = "idle"
  /\ call' = [at |-> "url", hop |-> 0, body |-> body]
  /\ posted' = body
  /\ budget' = ClientTimeout /\ idled' = 0 /\ curled' = 0
  /\ UNCHANGED <<moved, asked, wire, peer, resp, answer>>

\* The body of r; of a body with a declared length, that many pieces.
ReturnBody(r) ==
  /\ call' = [call EXCEPT !.at = "done"]
  /\ answer' = [ok |-> TRUE, hdr |-> r.hdr,
                pieces |-> IF r.hdr.framing = "length" /\ r.hdr.n < r.have THEN r.hdr.n ELSE r.have]

\* The empty string.
ReturnEmpty == call' = [call EXCEPT !.at = "done"] /\ UNCHANGED answer

\* The -m of curl: what is left of the deadline, rounded up to whole seconds.
CurlSeconds(left) == ((left + Second - 1) \div Second) * Second

\* http_via_curl: an external process that follows redirects itself. The
\* runtime looks at the deadline before it starts it and not again.
http_via_curl ==
  IF budget > 0
  THEN /\ call' = [call EXCEPT !.at = "curl"]
       /\ budget' = CurlSeconds(budget)
       /\ asked' = call.body
       /\ UNCHANGED answer
  ELSE ReturnEmpty /\ UNCHANGED <<budget, asked>>

\* http_parse_url: refused, http or https.
http_parse_url(kind) ==
  /\ call.at = "url"
  /\ CASE kind = "bad"   -> ReturnEmpty /\ UNCHANGED <<budget, asked>>
       [] kind = "http"  -> /\ call' = [call EXCEPT !.at = "dial"]
                            /\ UNCHANGED <<answer, budget, asked>>
       [] kind = "https" -> http_via_curl
  /\ UNCHANGED <<posted, moved, idled, curled, wire, peer, resp>>

\* curl closes its output, which the runtime has been reading without a
\* time-out of its own.
CurlCloses ==
  /\ call.at = "curl"
  /\ call' = [call EXCEPT !.at = "reap"]
  /\ budget' = CurlGrace
  /\ UNCHANGED <<posted, moved, asked, idled, curled, wire, peer, resp, answer>>

\* The process ends, or is terminated (Windows, after CurlGrace): a body or
\* nothing.
CurlExits(ok) ==
  /\ call.at = "reap"
  /\ call' = [call EXCEPT !.at = "done"]
  /\ answer' = [NoAnswer EXCEPT !.ok = ok]
  /\ UNCHANGED <<posted, moved, asked, budget, idled, curled, wire, peer, resp>>

\* The socket is closed and the request has failed.
Fails ==
  /\ ReturnEmpty
  /\ wire' = <<>> /\ peer' = NoPeer /\ resp' = NoResp
  /\ UNCHANGED <<posted, moved, asked, budget, idled, curled>>

\* http_dial connects; the peer may also refuse, or not answer at all.
http_dial ==
  /\ call.at = "dial"
  /\ call' = [call EXCEPT !.at = "send"]
  /\ UNCHANGED <<posted, moved, asked, budget, idled, curled, wire, peer, resp, answer>>
DialRefused == call.at = "dial" /\ Fails

\* The request is sent, head first, then the body if there is one.
SendRequest ==
  /\ call.at = "send"
  /\ asked' = call.body
  /\ call' = [call EXCEPT !.at = "recv"]
  /\ UNCHANGED <<posted, moved, budget, idled, curled, wire, peer, resp, answer>>
SendRefused == call.at = "send" /\ Fails

-----------------------------------------------------------------------------
(* The peer.                                                               *)
PeerSends(item, p) ==
  /\ call.at = "recv" /\ ~peer.closed
  /\ wire' = Append(wire, item) /\ peer' = p
  /\ UNCHANGED <<call, posted, moved, asked, budget, idled, curled, resp, answer>>

Begun == peer.hdr # NoHeader
PeerInterim   == ~Begun /\ ~peer.interim /\ PeerSends("1xx", [peer EXCEPT !.interim = TRUE])
PeerNotHttp   == ~Begun /\ PeerSends("junk", [peer EXCEPT !.closed = TRUE])
PeerHeader(h) == ~Begun /\ PeerSends("header", [peer EXCEPT !.hdr = h])
PeerPiece     == Begun /\ peer.sent < peer.hdr.n /\ PeerSends("piece", [peer EXCEPT !.sent = @ + 1])
PeerLastChunk == /\ Begun /\ peer.hdr.framing = "chunked" /\ peer.sent = peer.hdr.n /\ ~peer.last
                 /\ PeerSends("last", [peer EXCEPT !.last = TRUE])
PeerCloses ==
  /\ call.at = "recv" /\ ~peer.closed
  /\ peer' = [peer EXCEPT !.closed = TRUE]
  /\ UNCHANGED <<call, posted, moved, asked, budget, idled, curled, wire, resp, answer>>

PeerStep == \/ PeerInterim \/ PeerNotHttp \/ PeerPiece \/ PeerLastChunk \/ PeerCloses
         \/ \E h \in Answers : PeerHeader(h)

-----------------------------------------------------------------------------
(* http_exchange: one recv after the other until the body is complete.     *)
Held(r, items) ==
  [hdr  |-> IF \E i \in DOMAIN items : items[i] = "header" THEN peer.hdr ELSE r.hdr,
   have |-> r.have + Cardinality({i \in DOMAIN items : items[i] = "piece"}),
   last |-> r.last \/ \E i \in DOMAIN items : items[i] = "last"]

\* A chunked body is decoded once its end can have arrived: the last chunk
\* without trailers, or the close.
http_dechunk(r, eof) == r.last /\ (eof \/ ~r.hdr.trailer)

\* Broken variant: what has come by the close is taken for the body.
FinishedAtClose(r, eof) ==
  /\ r.hdr # NoHeader
  /\ CASE r.hdr.status \in {204, 304}  -> TRUE
       [] r.hdr.framing = "chunked"    -> http_dechunk(r, eof)
       [] r.hdr.framing = "length"     -> r.have >= r.hdr.n \/ eof
       [] r.hdr.framing = "close"      -> eof

Finished(r, eof) ==
  /\ r.hdr # NoHeader
  /\ CASE r.hdr.status \in {204, 304}  -> TRUE
       [] r.hdr.framing = "chunked"    -> http_dechunk(r, eof)
       [] r.hdr.framing = "length"     -> r.have >= r.hdr.n
       [] r.hdr.framing = "close"      -> eof

\* Broken variant: the redirect is followed as a GET that still has its body.
RedirectKeepsBody(r) ==
  /\ IF call.hop < MaxHops
     THEN call' = [call EXCEPT !.at = "url", !.hop = @ + 1] /\ UNCHANGED answer
     ELSE ReturnEmpty
  /\ moved' = (moved \/ r.hdr.status \notin {307, 308})
  /\ UNCHANGED budget

\* Broken variant: every hop has a deadline of its own.
RedirectRenews(r) ==
  /\ IF call.hop < MaxHops
     THEN /\ call' = [at |-> "url", hop |-> call.hop + 1,
                      body |-> call.body /\ r.hdr.status \in {307, 308}]
          /\ UNCHANGED answer
     ELSE ReturnEmpty
  /\ moved' = (moved \/ r.hdr.status \notin {307, 308})
  /\ budget' = ClientTimeout

\* Broken variant: the hops are not counted.
RedirectUncounted(r) ==
  /\ call' = [at |-> "url", hop |-> call.hop,
              body |-> call.body /\ r.hdr.status \in {307, 308}]
  /\ moved' = (moved \/ r.hdr.status \notin {307, 308})
  /\ UNCHANGED <<answer, budget>>

\* 301, 302 and 303 turn the request into a GET without a body.
Redirect(r) ==
  /\ IF call.hop < MaxHops
     THEN /\ call' = [at |-> "url", hop |-> call.hop + 1,
                      body |-> call.body /\ r.hdr.status \in {307, 308}]
          /\ UNCHANGED answer
     ELSE ReturnEmpty
  /\ moved' = (moved \/ r.hdr.status \notin {307, 308})
  /\ UNCHANGED budget

\* The exchange is over: the socket is closed, the answer returned or
\* followed.
Finish(r) ==
  /\ wire' = <<>> /\ peer' = NoPeer /\ resp' = NoResp
  /\ IF r.hdr.loc /\ r.hdr.status \in Redirects THEN Redirect(r)
     ELSE ReturnBody(r) /\ UNCHANGED <<moved, budget>>
  /\ UNCHANGED <<posted, asked, idled, curled>>

http_exchange(k) ==
  LET items == SubSeq(wire, 1, k)
      r == Held(resp, items)
  IN  /\ call.at = "recv" /\ k <= Len(wire)
      /\ IF \E i \in DOMAIN items : items[i] = "junk" THEN Fails
         ELSE IF Finished(r, FALSE) THEN Finish(r)
         ELSE /\ resp' = r
              /\ wire' = SubSeq(wire, k + 1, Len(wire))
              /\ UNCHANGED <<call, posted, moved, asked, budget, idled, curled, peer, answer>>

\* recv returns 0: the peer has closed and everything it sent has been read.
EndOfStream ==
  /\ call.at = "recv" /\ wire = <<>> /\ peer.closed
  /\ IF Finished(resp, TRUE) THEN Finish(resp) ELSE Fails

-----------------------------------------------------------------------------
(* Time: sock_wait in http_dial, sock_send_all and sock_recv; read and     *)
(* waitpid in http_via_curl.                                               *)
OnSocket == call.at \in {"dial", "send"} \/ (call.at = "recv" /\ wire = <<>> /\ ~peer.closed)
OnCurl   == call.at \in {"curl", "reap"}

ClientTick ==
  /\ budget > 0 /\ budget' = budget - 1
  /\ \/ OnSocket /\ idled' = idled + 1 /\ UNCHANGED curled
     \/ OnCurl /\ curled' = curled + 1 /\ UNCHANGED idled
  /\ UNCHANGED <<call, posted, moved, asked, wire, peer, resp, answer>>

\* Only the waits on sockets have a time-out.
ClientTimesOut == OnSocket /\ budget = 0 /\ Fails

\* curl keeps its -m, and a curl that has closed its output ends.
CurlTimesOut == budget = 0 /\ (CurlCloses \/ CurlExits(FALSE))

\* What depends on the peer or on curl.
Reached ==
  \/ CurlCloses \/ \E ok \in BOOLEAN : CurlExits(ok)
  \/ http_dial \/ DialRefused \/ SendRequest \/ SendRefused

Work ==
  \/ \E k \in {"bad", "http", "https"} : http_parse_url(k)
  \/ \E k \in DOMAIN wire : http_exchange(k)
  \/ EndOfStream \/ ClientTimesOut

ClientNext ==
  \/ \E b \in BOOLEAN : http_client_request(b)
  \/ Reached \/ Work \/ ClientTick \/ PeerStep

\* A loop that runs, a clock that advances and a curl that keeps its -m;
\* nothing is asked of the peer.
ClientFairness == WF_clientvars(Work) /\ WF_clientvars(ClientTick) /\ WF_clientvars(CurlTimesOut)

ClientSpec == ClientInit /\ [][ClientNext]_clientvars

-----------------------------------------------------------------------------
\* "The response body whatever the status, "" on any failure"
\* (pyro_runtime.c:1043-1044): a body that is returned is all of what its header
\* declared, although the peer may close or stall after any piece, and the
\* header and the pieces arrive in any grouping.
WholeBodyOrNothing ==
  /\ answer.ok
  /\ answer.hdr.framing \in {"length", "chunked"}
  /\ answer.hdr.status \notin {204, 304}
  => answer.pieces = answer.hdr.n

\* One timeout for the whole call: the waits on sockets, over all redirects,
\* stay within it. With the wait for curl, which is given what is left of it,
\* they exceed it by less than the second curl's share is rounded up to and
\* by the time an ended curl is waited for: PYRO_RUNTIME.md:215-216 promises
\* the timeout itself, which the code keeps on sockets only.
OneDeadlineForAllHops ==
  /\ idled <= ClientTimeout
  /\ idled + curled <= ClientTimeout + (Second - 1) + CurlGrace

\* "301/302/303 turn a POST into a GET, 307/308 resend it"
\* (pyro_runtime.c:1046), over any chain of redirects: once a hop has moved
\* the request, no later one carries the body, and until then all do.
RedirectsKeepTheContract ==
  call.at = "recv" => asked = (posted /\ ~moved)

\* Every call returns: neither a silent peer nor a circle of redirects holds
\* the program for ever.
ClientReturns == (call.at # "idle") ~> (call.at = "done")
=============================================================================
