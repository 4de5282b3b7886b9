-------------------------- MODULE HttpClientProofs --------------------------
(***************************************************************************)
(* Three contracts of http_client_request for every set of answers, number *)
(* of hops and timeout: the waits on the sockets of all hops together stay *)
(* within one timeout, and curl's share exceeds it by less than a second   *)
(* and the wait for its end; the body of a POST is carried by every        *)
(* request before the first 301, 302 or 303 and by none after it; and a    *)
(* body is returned whole or not at all, however its pieces were grouped   *)
(* on the way.                                                             *)
(***************************************************************************)
EXTENDS HttpClient, FiniteSetTheorems, SequenceTheorems, TLAPS

\* What the deadline has lost is what the call has waited; curl is given that
\* rounded up, and then the time it takes to end.
BudgetSpent ==
  /\ budget \in Nat /\ idled \in Nat /\ curled \in Nat
  /\ idled <= ClientTimeout
  /\ call.at \notin {"curl", "reap", "done"} => curled = 0 /\ idled + budget <= ClientTimeout
  /\ call.at = "curl" => idled + curled + budget <= ClientTimeout + (Second - 1)
  /\ call.at = "reap" => idled + curled + budget <= ClientTimeout + (Second - 1) + CurlGrace
  /\ OneDeadlineForAllHops

\* While a call is in progress it has a body to send exactly when it was a
\* POST and no hop has moved it; what was sent last is what it had.
BodyFollowsMoves ==
  /\ call \in [at : {"idle", "url", "dial", "send", "recv", "curl", "reap", "done"},
               hop : Nat, body : BOOLEAN]
  /\ posted \in BOOLEAN /\ moved \in BOOLEAN /\ asked \in BOOLEAN
  /\ call.at = "idle" => ~moved
  /\ call.at \notin {"idle", "done"} => (call.body <=> posted /\ ~moved)
  /\ call.at = "recv" => (asked <=> call.body)

-----------------------------------------------------------------------------
\* Rounding up to a second adds less than one.
LEMMA RoundedUp ==
  ASSUME NEW left \in Nat
  PROVE  CurlSeconds(left) \in Nat /\ CurlSeconds(left) <= left + (Second - 1)
<1> DEFINE x == left + Second - 1
           q == x \div Second
<1>1. x \in Nat /\ Second \in Nat \ {0}
  BY HttpClientAssumption
<1> HIDE DEF x
<1>2. q \in Nat /\ x = Second * q + (x % Second) /\ x % Second >= 0
  BY <1>1
<1> HIDE DEF q
<1>3. q * Second \in Nat /\ q * Second = Second * q /\ x % Second \in Int
  BY <1>1, <1>2
<1>4. q * Second <= x
  BY <1>1, <1>2, <1>3
<1>5. CurlSeconds(left) = q * Second
  BY DEF CurlSeconds, q, x
<1>6. x = left + (Second - 1)
  BY HttpClientAssumption DEF x
<1> QED BY <1>3, <1>4, <1>5, <1>6

\* The deadline is only ever consumed, by waiting, set with the call, or
\* replaced by what curl is given.
LEMMA BudgetNext ==
  ASSUME BudgetSpent, [ClientNext]_clientvars PROVE BudgetSpent'
<1> USE HttpClientAssumption DEF BudgetSpent, OneDeadlineForAllHops
<1>1. ASSUME NEW b \in BOOLEAN, http_client_request(b) PROVE BudgetSpent'
  BY <1>1 DEF http_client_request
<1>2. CASE ClientTick
  BY <1>2 DEF ClientTick, OnSocket, OnCurl
<1>3. ASSUME UNCHANGED <<budget, idled, curled>>,
             call'.at = call.at \/ call'.at = "done" \/ {call.at, call'.at} \cap {"curl", "reap", "done"} = {}
      PROVE  BudgetSpent'
  <2>1. CASE call'.at = call.at
    BY <1>3, <2>1
  <2>2. CASE call'.at = "done"
    BY <1>3, <2>2
  <2>3. CASE call.at \notin {"curl", "reap", "done"} /\ call'.at \notin {"curl", "reap", "done"}
    BY <1>3, <2>3
  <2> QED BY <1>3, <2>1, <2>2, <2>3
<1>t. \A at : call' = [call EXCEPT !.at = at] => call'.at = at \/ call'.at = call.at
  OBVIOUS
<1>f. ASSUME Fails PROVE BudgetSpent'
  BY <1>f, <1>3 DEF Fails, ReturnEmpty
<1>4. CASE Reached
  <2>1. CASE CurlCloses
    BY <2>1 DEF CurlCloses
  <2>2. ASSUME NEW ok \in BOOLEAN, CurlExits(ok) PROVE BudgetSpent'
    BY <2>2, <1>3 DEF CurlExits
  <2>3. CASE http_dial \/ SendRequest
    BY <2>3, <1>3 DEF http_dial, SendRequest
  <2> QED BY <1>4, <1>f, <2>1, <2>2, <2>3 DEF Reached, DialRefused, SendRefused
<1>5. CASE Work
  <2>1. ASSUME NEW k \in {"bad", "http", "https"}, http_parse_url(k) PROVE BudgetSpent'
    <3>1. CASE k = "https" /\ budget > 0
      <4>1. /\ call.at = "url" /\ UNCHANGED <<idled, curled>>
            /\ call' = [call EXCEPT !.at = "curl"] /\ budget' = CurlSeconds(budget)
        BY <2>1, <3>1 DEF http_parse_url, http_via_curl
      <4>2. budget' \in Nat /\ budget' <= budget + (Second - 1)
        BY <4>1, RoundedUp
      <4>3. CASE call'.at = "curl"
        BY <4>1, <4>2, <4>3
      <4>4. CASE call'.at = call.at
        BY <4>1, <4>2, <4>4
      <4> QED BY <4>1, <4>3, <4>4, <1>t
    <3>2. CASE ~(k = "https" /\ budget > 0)
      <4>1. call.at = "url" /\ UNCHANGED <<idled, curled>>
        BY <2>1 DEF http_parse_url
      <4>2. budget' = budget /\ \E at \in {"dial", "done"} : call' = [call EXCEPT !.at = at]
        BY <2>1, <3>2 DEF http_parse_url, http_via_curl, ReturnEmpty
      <4> QED BY <4>1, <4>2, <1>3, <1>t
    <3> QED BY <3>1, <3>2
  <2>2. ASSUME NEW r, Finish(r), call.at = "recv" PROVE BudgetSpent'
    BY <2>2, <1>3 DEF Finish, Redirect, ReturnBody, ReturnEmpty
  <2>3. ASSUME NEW k \in DOMAIN wire, http_exchange(k) PROVE BudgetSpent'
    <3> DEFINE r == Held(resp, SubSeq(wire, 1, k))
    <3>1. CASE Fails
      BY <3>1, <1>f
    <3>2. CASE Finish(r)
      BY <3>2, <2>2, <2>3 DEF http_exchange
    <3>3. CASE UNCHANGED <<budget, idled, curled, call>>
      BY <3>3, <1>3
    <3> QED BY <2>3, <3>1, <3>2, <3>3 DEF http_exchange
  <2>4. CASE EndOfStream
    <3>1. call.at = "recv" /\ (Finish(resp) \/ Fails)
      BY <2>4 DEF EndOfStream
    <3> QED BY <3>1, <2>2, <1>f
  <2> QED BY <1>5, <1>f, <2>1, <2>3, <2>4 DEF Work, ClientTimesOut
<1>6. CASE PeerStep
  BY <1>6, <1>3 DEF PeerStep, PeerInterim, PeerNotHttp, PeerPiece, PeerLastChunk, PeerCloses,
                    PeerHeader, PeerSends
<1>7. CASE UNCHANGED clientvars
  BY <1>7, <1>3 DEF clientvars
<1> QED BY <1>1, <1>2, <1>4, <1>5, <1>6, <1>7 DEF ClientNext

\* One deadline is set before the first hop and shared by all
\* (pyro_runtime.c:1484): the waits on sockets stay within it, and with those
\* for curl, whose -m is in whole seconds (1360) and whose end is waited for
\* on Windows (1421), the call exceeds it by no more than these two.
THEOREM DeadlineShared == ClientSpec => []OneDeadlineForAllHops
<1>1. ClientInit => BudgetSpent
  BY HttpClientAssumption DEF ClientInit, BudgetSpent, OneDeadlineForAllHops
<1>2. BudgetSpent /\ [ClientNext]_clientvars => BudgetSpent'
  BY BudgetNext
<1>3. BudgetSpent => OneDeadlineForAllHops
  BY DEF BudgetSpent
<1> QED BY <1>1, <1>2, <1>3, PTL DEF ClientSpec

-----------------------------------------------------------------------------
\* A redirect drops the body exactly when it counts as a move.
LEMMA RedirectKeepsBodies ==
  ASSUME BodyFollowsMoves, call.at = "recv", NEW r, Redirect(r),
         UNCHANGED <<posted, asked>>
  PROVE  BodyFollowsMoves'
<1> DEFINE resend == r.hdr.status \in {307, 308}
<1>1. moved' <=> moved \/ ~resend
  BY DEF Redirect
<1>2. moved' \in BOOLEAN
  BY DEF Redirect
<1>3. CASE call.hop < MaxHops
  <2>1. call' = [at |-> "url", hop |-> call.hop + 1, body |-> call.body /\ resend]
    BY <1>3 DEF Redirect
  <2>2. /\ call'.at = "url" /\ (call'.body <=> call.body /\ resend)
        /\ call' \in [at : {"idle", "url", "dial", "send", "recv", "curl", "reap", "done"},
                      hop : Nat, body : BOOLEAN]
    BY <2>1 DEF BodyFollowsMoves
  <2> HIDE DEF resend
  <2> QED BY <1>1, <1>2, <2>2 DEF BodyFollowsMoves
<1>4. CASE ~(call.hop < MaxHops)
  <2>1. call' = [call EXCEPT !.at = "done"]
    BY <1>4 DEF Redirect, ReturnEmpty
  <2> QED BY <1>2, <2>1 DEF BodyFollowsMoves
<1> QED BY <1>3, <1>4

\* Every step keeps the body in line with the redirects taken.
LEMMA BodyNext ==
  ASSUME BodyFollowsMoves, [ClientNext]_clientvars PROVE BodyFollowsMoves'
<1>1. ASSUME NEW b \in BOOLEAN, http_client_request(b) PROVE BodyFollowsMoves'
  BY <1>1 DEF http_client_request, BodyFollowsMoves
<1>2. ASSUME call' = [call EXCEPT !.at = "done"], UNCHANGED <<posted, moved>>,
             asked' \in BOOLEAN
      PROVE  BodyFollowsMoves'
  BY <1>2 DEF BodyFollowsMoves
<1>3. ASSUME UNCHANGED <<call, posted, moved, asked>> PROVE BodyFollowsMoves'
  BY <1>3 DEF BodyFollowsMoves
<1>a. asked \in BOOLEAN /\ call.body \in BOOLEAN
  BY DEF BodyFollowsMoves
<1>f. ASSUME Fails PROVE BodyFollowsMoves'
  BY <1>f, <1>a, <1>2 DEF Fails, ReturnEmpty
<1>4. CASE Reached
  <2>1. ASSUME NEW b \in BOOLEAN, CurlExits(b) PROVE BodyFollowsMoves'
    BY <2>1, <1>a, <1>2 DEF CurlExits
  <2>4. CASE CurlCloses
    BY <2>4 DEF CurlCloses, BodyFollowsMoves
  <2>2. CASE http_dial
    BY <2>2 DEF http_dial, BodyFollowsMoves
  <2>3. CASE SendRequest
    BY <2>3 DEF SendRequest, BodyFollowsMoves
  <2> QED BY <1>4, <1>f, <2>1, <2>2, <2>3, <2>4 DEF Reached, DialRefused, SendRefused
<1>5. CASE Work
  <2>1. ASSUME NEW k \in {"bad", "http", "https"}, http_parse_url(k) PROVE BodyFollowsMoves'
    <3>1. UNCHANGED <<posted, moved>> /\ call.at = "url"
      BY <2>1 DEF http_parse_url
    <3>2. /\ \E at \in {"dial", "curl", "done"} : call' = [call EXCEPT !.at = at]
          /\ asked' \in {asked, call.body}
      BY <2>1 DEF http_parse_url, http_via_curl, ReturnEmpty
    <3> QED BY <3>1, <3>2 DEF BodyFollowsMoves
  <2>2. ASSUME NEW r, call.at = "recv", Finish(r) PROVE BodyFollowsMoves'
    <3>1. CASE Redirect(r)
      BY <3>1, <2>2, RedirectKeepsBodies DEF Finish
    <3>2. CASE ReturnBody(r) /\ UNCHANGED moved
      BY <3>2, <2>2, <1>a, <1>2 DEF Finish, ReturnBody
    <3> QED BY <2>2, <3>1, <3>2 DEF Finish
  <2>3. ASSUME NEW k \in DOMAIN wire, http_exchange(k) PROVE BodyFollowsMoves'
    <3> DEFINE r == Held(resp, SubSeq(wire, 1, k))
    <3>1. call.at = "recv"
      BY <2>3 DEF http_exchange
    <3>2. CASE Fails
      BY <3>2, <1>f
    <3>3. CASE Finish(r)
      BY <3>1, <3>3, <2>2
    <3>4. CASE UNCHANGED <<call, posted, moved, asked>>
      BY <3>4, <1>3
    <3> QED BY <2>3, <3>2, <3>3, <3>4 DEF http_exchange
  <2>4. CASE EndOfStream
    <3>1. call.at = "recv" /\ (Finish(resp) \/ Fails)
      BY <2>4 DEF EndOfStream
    <3> QED BY <3>1, <2>2, <1>f
  <2> QED BY <1>5, <1>f, <2>1, <2>3, <2>4 DEF Work, ClientTimesOut
<1>6. CASE PeerStep
  BY <1>6, <1>3 DEF PeerStep, PeerInterim, PeerNotHttp, PeerPiece, PeerLastChunk, PeerCloses,
                    PeerHeader, PeerSends
<1>7. CASE ClientTick \/ UNCHANGED clientvars
  BY <1>7, <1>3 DEF ClientTick, clientvars
<1> QED BY <1>1, <1>4, <1>5, <1>6, <1>7 DEF ClientNext

\* "301/302/303 turn a POST into a GET, 307/308 resend it"
\* (pyro_runtime.c:1046), over chains of any length.
THEOREM RedirectsAreFollowedAsDocumented == ClientSpec => []RedirectsKeepTheContract
<1>1. ASSUME ClientInit PROVE BodyFollowsMoves
  <2>1. /\ call \in [at : {"idle", "url", "dial", "send", "recv", "curl", "reap", "done"},
                    hop : Nat, body : BOOLEAN]
        /\ call.at = "idle"
    BY <1>1 DEF ClientInit
  <2>2. posted \in BOOLEAN /\ moved \in BOOLEAN /\ asked \in BOOLEAN /\ ~moved
    BY <1>1, Zenon DEF ClientInit
  <2> QED BY <2>1, <2>2 DEF BodyFollowsMoves
<1>2. BodyFollowsMoves /\ [ClientNext]_clientvars => BodyFollowsMoves'
  BY BodyNext
<1>3. BodyFollowsMoves => RedirectsKeepTheContract
  BY DEF BodyFollowsMoves, RedirectsKeepTheContract
<1> QED BY <1>1, <1>2, <1>3, PTL DEF ClientSpec

-----------------------------------------------------------------------------
(* A body is returned whole.                                               *)

Items == {"1xx", "junk", "header", "piece", "last"}

PieceAt(w)  == {i \in DOMAIN w : w[i] = "piece"}
\* The pieces of body among the items.
Pieces(w)   == Cardinality(PieceAt(w))

\* The items are finitely many.
LEMMA PiecesCounted ==
  ASSUME NEW w \in Seq(Items)
  PROVE  IsFiniteSet(PieceAt(w)) /\ Pieces(w) \in Nat
<1>1. IsFiniteSet(1 .. Len(w)) /\ PieceAt(w) \in SUBSET (1 .. Len(w))
  BY FS_Interval DEF PieceAt
<1>2. IsFiniteSet(PieceAt(w))
  BY <1>1, FS_Subset
<1> QED
  BY <1>2, FS_CardinalityType DEF Pieces

\* Nothing is counted where there is nothing.
LEMMA PiecesNone ==
  ASSUME NEW w, \A i \in DOMAIN w : w[i] # "piece"
  PROVE  Pieces(w) = 0
<1>1. PieceAt(w) = {}
  BY DEF PieceAt
<1> QED
  BY <1>1, FS_EmptySet DEF Pieces

\* An item that arrives is counted once if it is a piece.
LEMMA PiecesArrive ==
  ASSUME NEW w \in Seq(Items), NEW x \in Items
  PROVE  Pieces(Append(w, x)) = Pieces(w) + (IF x = "piece" THEN 1 ELSE 0)
<1>0. Append(w, x) \in Seq(Items)
  OBVIOUS
<1>1. PICK v \in Seq(Items) : v = Append(w, x)
  BY <1>0, Zenon
<1>2. /\ Len(v) = Len(w) + 1 /\ v[Len(w) + 1] = x /\ \A i \in 1 .. Len(w) : v[i] = w[i]
      /\ DOMAIN v = 1 .. Len(w) + 1 /\ DOMAIN w = 1 .. Len(w) /\ Len(w) \in Nat
  BY <1>1
<1>a. Len(w) + 1 \notin PieceAt(w)
  BY <1>2 DEF PieceAt
<1>3. IsFiniteSet(PieceAt(w)) /\ Pieces(w) \in Nat /\ Len(w) + 1 \notin PieceAt(w)
  BY <1>a, PiecesCounted
<1>4. CASE x = "piece"
  <2>1. PieceAt(v) = PieceAt(w) \cup {Len(w) + 1}
    BY <1>2, <1>4 DEF PieceAt
  <2>2. Cardinality(PieceAt(w) \cup {Len(w) + 1}) = Cardinality(PieceAt(w)) + 1
    BY <1>3, FS_AddElement
  <2> QED
    BY <1>1, <1>4, <2>1, <2>2 DEF Pieces
<1>5. CASE x # "piece"
  <2>1. PieceAt(v) = PieceAt(w)
    BY <1>2, <1>5 DEF PieceAt
  <2> QED
    BY <1>1, <1>3, <1>5, <2>1 DEF Pieces
<1> QED
  BY <1>4, <1>5

\* A recv cuts the stream anywhere and loses nothing.
LEMMA PiecesCut ==
  ASSUME NEW w \in Seq(Items), NEW k \in 1 .. Len(w)
  PROVE  Pieces(SubSeq(w, 1, k)) + Pieces(SubSeq(w, k + 1, Len(w))) = Pieces(w)
<1>0. SubSeq(w, 1, k) \in Seq(Items) /\ SubSeq(w, k + 1, Len(w)) \in Seq(Items)
  OBVIOUS
<1>1. PICK a \in Seq(Items), b \in Seq(Items) : a = SubSeq(w, 1, k) /\ b = SubSeq(w, k + 1, Len(w))
  BY <1>0, Zenon
<1>2. /\ DOMAIN a = 1 .. k /\ \A i \in 1 .. k : a[i] = w[i]
      /\ DOMAIN b = 1 .. Len(w) - k /\ \A i \in 1 .. Len(w) - k : b[i] = w[k + i]
      /\ DOMAIN w = 1 .. Len(w) /\ Len(w) \in Nat
  BY <1>1
<1> DEFINE above == {i \in k + 1 .. Len(w) : w[i] = "piece"}
<1>3. IsFiniteSet(PieceAt(a)) /\ IsFiniteSet(PieceAt(b))
  BY PiecesCounted
<1>4. IsFiniteSet(above) /\ Cardinality(above) = Cardinality(PieceAt(b))
  <2> DEFINE shift == [i \in PieceAt(b) |-> k + i]
  <2>1. shift \in [PieceAt(b) -> above]
    BY <1>2 DEF PieceAt
  <2>2. \A i, j \in PieceAt(b) : shift[i] = shift[j] => i = j
    BY <1>2 DEF PieceAt
  <2>3. \A j \in above : \E i \in PieceAt(b) : shift[i] = j
    <3> TAKE j \in above
    <3>1. j - k \in PieceAt(b) /\ k + (j - k) = j
      BY <1>2 DEF PieceAt
    <3> QED
      BY <3>1
  <2> HIDE DEF shift, above
  <2>4. shift \in Bijection(PieceAt(b), above)
    BY <2>1, <2>2, <2>3 DEF Bijection, Injection, Surjection, IsInjective
  <2>5. ExistsBijection(PieceAt(b), above)
    BY <2>4 DEF ExistsBijection
  <2> QED
    BY <1>3, <2>5, FS_Bijection
<1>5. PieceAt(w) = PieceAt(a) \cup above /\ PieceAt(a) \cap above = {}
  BY <1>2 DEF PieceAt
<1> HIDE DEF above
<1>6. Cardinality(PieceAt(a) \cup above) = Cardinality(PieceAt(a)) + Cardinality(above)
  <2>1. /\ Cardinality(PieceAt(a)) \in Nat /\ Cardinality(above) \in Nat
        /\ Cardinality(PieceAt(a) \cup above)
             = Cardinality(PieceAt(a)) + Cardinality(above) - Cardinality(PieceAt(a) \cap above)
    BY <1>3, <1>4, FS_Union, FS_CardinalityType
  <2>2. Cardinality(PieceAt(a) \cap above) = 0
    BY <1>5, FS_EmptySet
  <2> QED
    BY <2>1, <2>2
<1> QED
  BY <1>1, <1>4, <1>5, <1>6 DEF Pieces

Headers == Answers \cup {NoHeader}

StreamTypes ==
  /\ wire \in Seq(Items)
  /\ peer \in [hdr : Headers, sent : Nat, last : BOOLEAN, closed : BOOLEAN, interim : BOOLEAN]
  /\ resp \in [hdr : Headers, have : Nat, last : BOOLEAN]

\* What the peer has sent is what was received and what is on its way.
NothingLost ==
  /\ resp.have + Pieces(wire) = peer.sent
  /\ resp.hdr # NoHeader => resp.hdr = peer.hdr

\* The last chunk comes once, after every piece.
LastComesLast ==
  /\ peer.last => peer.hdr # NoHeader /\ peer.sent = peer.hdr.n
  /\ resp.last => peer.last /\ \A j \in DOMAIN wire : wire[j] # "piece"
  /\ \A i \in DOMAIN wire : wire[i] = "last" =>
       peer.last /\ \A j \in DOMAIN wire : i < j => wire[j] # "piece"

NoConnection == wire = <<>> /\ peer = NoPeer /\ resp = NoResp

\* One connection at a time, closed before anything is returned or followed.
StreamInv ==
  /\ StreamTypes /\ NothingLost /\ LastComesLast
  /\ call.at # "recv" => NoConnection
  /\ WholeBodyOrNothing

\* Without a connection there is no stream to account for.
LEMMA Disconnected == NoConnection /\ WholeBodyOrNothing => StreamInv
<1> SUFFICES ASSUME NoConnection, WholeBodyOrNothing PROVE StreamInv
  OBVIOUS
<1>1. /\ wire = <<>> /\ DOMAIN wire = {} /\ wire \in Seq(Items)
      /\ peer.sent = 0 /\ ~peer.last /\ resp.have = 0 /\ ~resp.last /\ resp.hdr = NoHeader
  BY DEF NoConnection, NoPeer, NoResp
<1>2. Pieces(wire) = 0
  BY <1>1, PiecesNone
<1>3. StreamTypes
  BY <1>1 DEF StreamTypes, NoConnection, NoPeer, NoResp, Headers
<1> QED
  BY <1>1, <1>2, <1>3 DEF StreamInv, NothingLost, LastComesLast, NoConnection

\* What http_exchange holds of a response once it has received it up to r:
\* if the last chunk is there, so is every piece.
Accounted(r) ==
  /\ r.hdr # NoHeader => r.hdr = peer.hdr
  /\ r.have \in Nat /\ peer.hdr.n \in Nat
  /\ r.last => r.have = peer.hdr.n

\* What was declared is a number of pieces.
LEMMA DeclaredLength ==
  ASSUME StreamTypes PROVE peer.hdr \in Headers /\ peer.hdr.n \in Nat
  BY HttpClientAssumption DEF StreamTypes, Headers, NoHeader

\* A recv of the first k items.
LEMMA HeldAfterRecv ==
  ASSUME StreamInv, NEW k \in DOMAIN wire, NEW r, r = Held(resp, SubSeq(wire, 1, k))
  PROVE  /\ Accounted(r)
         /\ r \in [hdr : Headers, have : Nat, last : BOOLEAN]
         /\ SubSeq(wire, k + 1, Len(wire)) \in Seq(Items)
         /\ r.have + Pieces(SubSeq(wire, k + 1, Len(wire))) = peer.sent
         /\ r.last => peer.last /\ \A j \in DOMAIN wire : k < j => wire[j] # "piece"
<1>1. /\ wire \in Seq(Items) /\ DOMAIN wire = 1 .. Len(wire) /\ Len(wire) \in Nat
      /\ k \in 1 .. Len(wire)
  BY DEF StreamInv, StreamTypes
<1>2. PICK items : items = SubSeq(wire, 1, k)
  OBVIOUS
<1>3. items \in Seq(Items) /\ DOMAIN items = 1 .. k /\ \A i \in 1 .. k : items[i] = wire[i]
  BY <1>1, <1>2
<1>4. PICK rest : rest = SubSeq(wire, k + 1, Len(wire))
  OBVIOUS
<1>5. /\ rest \in Seq(Items) /\ DOMAIN rest = 1 .. Len(wire) - k
      /\ \A i \in 1 .. Len(wire) - k : rest[i] = wire[k + i]
  BY <1>1, <1>4
<1>6. r = [hdr  |-> IF \E i \in DOMAIN items : items[i] = "header" THEN peer.hdr ELSE resp.hdr,
           have |-> resp.have + Pieces(items),
           last |-> resp.last \/ \E i \in DOMAIN items : items[i] = "last"]
  BY <1>2 DEF Held, Pieces, PieceAt
<1>7. Pieces(items) \in Nat /\ Pieces(rest) \in Nat /\ Pieces(items) + Pieces(rest) = Pieces(wire)
  BY <1>1, <1>2, <1>3, <1>4, <1>5, PiecesCounted, PiecesCut
<1>8. /\ resp.have \in Nat /\ resp.hdr \in Headers /\ resp.last \in BOOLEAN
      /\ peer.hdr \in Headers /\ peer.hdr.n \in Nat /\ peer.sent \in Nat
      /\ resp.have + Pieces(wire) = peer.sent /\ (resp.hdr # NoHeader => resp.hdr = peer.hdr)
  BY DeclaredLength DEF StreamInv, StreamTypes, NothingLost
<1>9. /\ r.have = resp.have + Pieces(items) /\ r.have \in Nat
      /\ r.have + Pieces(rest) = peer.sent
  BY <1>6, <1>7, <1>8
<1>10. r.hdr \in Headers /\ (r.hdr # NoHeader => r.hdr = peer.hdr)
  BY <1>6, <1>8
<1>a. r.last = (resp.last \/ \E i \in DOMAIN items : items[i] = "last")
  BY <1>6
<1>b. (resp.last \/ \E i \in DOMAIN items : items[i] = "last") \in BOOLEAN
  BY Zenon
<1>11. (r.last <=> resp.last \/ \E i \in DOMAIN items : items[i] = "last") /\ r.last \in BOOLEAN
  BY <1>a, <1>b, Zenon
<1>12. ASSUME r.last
       PROVE  /\ peer.last /\ peer.sent = peer.hdr.n
              /\ \A j \in DOMAIN wire : k < j => wire[j] # "piece"
  <2>1. CASE resp.last
    BY <2>1 DEF StreamInv, LastComesLast
  <2>2. CASE \E i \in DOMAIN items : items[i] = "last"
    <3>1. PICK i \in 1 .. k : wire[i] = "last"
      BY <1>3, <2>2
    <3>2. i \in DOMAIN wire /\ \A j \in DOMAIN wire : k < j => i < j
      BY <1>1, <3>1
    <3> QED
      BY <3>1, <3>2 DEF StreamInv, LastComesLast
  <2> QED
    BY <1>11, <1>12, <2>1, <2>2
<1>13. r.last => r.have = peer.hdr.n
  <2> SUFFICES ASSUME r.last PROVE r.have = peer.hdr.n
    OBVIOUS
  <2>1. \A i \in DOMAIN rest : rest[i] # "piece"
    <3> TAKE i \in DOMAIN rest
    <3>1. k + i \in DOMAIN wire /\ k < k + i /\ rest[i] = wire[k + i]
      <4> DEFINE l == Len(wire)
      <4>1. l \in Nat /\ k \in 1 .. l /\ DOMAIN wire = 1 .. l
        BY <1>1
      <4>2. i \in 1 .. l - k /\ rest[i] = wire[k + i]
        BY <1>5
      <4> HIDE DEF l
      <4>3. k + i \in 1 .. l /\ k < k + i
        BY <4>1, <4>2
      <4> QED BY <4>1, <4>2, <4>3
    <3> QED
      BY <1>12, <3>1
  <2>2. Pieces(rest) = 0
    BY <2>1, PiecesNone
  <2> QED
    BY <1>8, <1>9, <1>12, <2>2
<1>14. Accounted(r)
  BY <1>8, <1>9, <1>10, <1>13 DEF Accounted
<1>15. r \in [hdr : Headers, have : Nat, last : BOOLEAN]
  <2>1. r = [hdr |-> r.hdr, have |-> r.have, last |-> r.last]
    BY <1>6
  <2> QED
    BY <1>9, <1>10, <1>11, <2>1
<1> QED
  BY <1>4, <1>5, <1>9, <1>12, <1>14, <1>15

\* What is left on the wire goes on to satisfy the account.
LEMMA StreamGoesOn ==
  ASSUME StreamInv, NEW k \in DOMAIN wire, NEW r, r = Held(resp, SubSeq(wire, 1, k)),
         call.at = "recv", resp' = r, wire' = SubSeq(wire, k + 1, Len(wire)),
         UNCHANGED <<call, peer, answer>>
  PROVE  StreamInv'
<1>1. /\ Accounted(r) /\ r \in [hdr : Headers, have : Nat, last : BOOLEAN]
      /\ wire' \in Seq(Items) /\ r.have + Pieces(wire') = peer.sent
      /\ r.last => peer.last /\ \A j \in DOMAIN wire : k < j => wire[j] # "piece"
  BY HeldAfterRecv
<1>2. /\ wire \in Seq(Items) /\ DOMAIN wire = 1 .. Len(wire) /\ Len(wire) \in Nat
      /\ k \in 1 .. Len(wire) /\ DOMAIN wire' = 1 .. Len(wire) - k
      /\ \A i \in 1 .. Len(wire) - k : wire'[i] = wire[k + i]
  BY SMTT(30) DEF StreamInv, StreamTypes
<1>3. \A i \in DOMAIN wire' : k + i \in DOMAIN wire /\ k < k + i /\ wire'[i] = wire[k + i]
  BY <1>2
<1>4. StreamTypes'
  BY <1>1 DEF StreamInv, StreamTypes
<1>5. NothingLost'
  BY <1>1 DEF NothingLost, Accounted
<1>6. LastComesLast'
  <2>1. peer.last => peer.hdr # NoHeader /\ peer.sent = peer.hdr.n
    BY DEF StreamInv, LastComesLast
  <2>2. r.last => peer.last /\ \A j \in DOMAIN wire' : wire'[j] # "piece"
    BY <1>1, <1>3
  <2>3. \A i \in DOMAIN wire' : wire'[i] = "last" =>
          peer.last /\ \A j \in DOMAIN wire' : i < j => wire'[j] # "piece"
    <3> SUFFICES ASSUME NEW i \in DOMAIN wire', wire'[i] = "last"
                 PROVE  peer.last /\ \A j \in DOMAIN wire' : i < j => wire'[j] # "piece"
      OBVIOUS
    <3>1. k + i \in DOMAIN wire /\ wire[k + i] = "last"
      BY <1>3
    <3>2. peer.last /\ \A j \in DOMAIN wire : k + i < j => wire[j] # "piece"
      BY <3>1 DEF StreamInv, LastComesLast
    <3>3. ASSUME NEW j \in DOMAIN wire', i < j PROVE wire'[j] # "piece"
      <4>1. k + j \in DOMAIN wire /\ k + i < k + j /\ wire'[j] = wire[k + j]
        BY <1>2, <1>3, <3>3
      <4> QED
        BY <3>2, <4>1
    <3> QED
      BY <3>2, <3>3
  <2> QED
    BY <2>1, <2>2, <2>3 DEF LastComesLast
<1> QED
  BY <1>4, <1>5, <1>6 DEF StreamInv, WholeBodyOrNothing

\* What is returned as a finished response is all of it: the declared length
\* has come, or the last chunk has.
LEMMA FinishedIsWhole ==
  ASSUME NEW r, Accounted(r), NEW eof \in BOOLEAN, Finished(r, eof), ReturnBody(r)
  PROVE  WholeBodyOrNothing'
<1>1. /\ answer' = [ok |-> TRUE, hdr |-> r.hdr,
                    pieces |-> IF r.hdr.framing = "length" /\ r.hdr.n < r.have
                               THEN r.hdr.n ELSE r.have]
      /\ r.hdr = peer.hdr /\ r.have \in Nat /\ r.hdr.n \in Nat
      /\ r.last => r.have = r.hdr.n
  BY DEF ReturnBody, Finished, Accounted
<1>2. CASE r.hdr.status \in {204, 304}
  BY <1>1, <1>2 DEF WholeBodyOrNothing
<1>3. CASE r.hdr.status \notin {204, 304} /\ r.hdr.framing = "chunked"
  <2>1. r.last
    BY <1>3 DEF Finished, http_dechunk
  <2> QED
    BY <1>1, <1>3, <2>1 DEF WholeBodyOrNothing
<1>4. CASE r.hdr.status \notin {204, 304} /\ r.hdr.framing = "length"
  <2>1. r.have >= r.hdr.n
    BY <1>4 DEF Finished
  <2> QED
    BY <1>1, <1>4, <2>1 DEF WholeBodyOrNothing
<1>5. CASE r.hdr.framing \notin {"length", "chunked"}
  BY <1>1, <1>5 DEF WholeBodyOrNothing
<1> QED
  BY <1>2, <1>3, <1>4, <1>5

\* The exchange ends: the connection is closed, the answer returned whole.
LEMMA FinishKeeps ==
  ASSUME StreamInv, NEW r, Accounted(r), NEW eof \in BOOLEAN, Finished(r, eof), Finish(r)
  PROVE  StreamInv'
<1>1. NoConnection'
  BY DEF Finish, NoConnection
<1>2. WholeBodyOrNothing'
  <2>1. CASE ReturnBody(r)
    BY <2>1, FinishedIsWhole
  <2>2. CASE Redirect(r)
    <3>1. answer' = answer
      BY <2>2 DEF Redirect, ReturnEmpty
    <3> QED
      BY <3>1 DEF StreamInv, WholeBodyOrNothing
  <2> QED
    BY <2>1, <2>2 DEF Finish
<1>3. NoConnection' /\ WholeBodyOrNothing' => StreamInv'
  BY Disconnected, PTL
<1> QED
  BY <1>1, <1>2, <1>3

\* A request that fails gives the empty string and no connection.
LEMMA FailsKeeps ==
  ASSUME StreamInv, Fails PROVE StreamInv'
<1>1. NoConnection' /\ answer' = answer
  BY DEF Fails, ReturnEmpty, NoConnection
<1>2. WholeBodyOrNothing'
  BY <1>1 DEF StreamInv, WholeBodyOrNothing
<1>3. NoConnection' /\ WholeBodyOrNothing' => StreamInv'
  BY Disconnected, PTL
<1> QED
  BY <1>1, <1>2, <1>3

\* The peer sends one item more.
LEMMA PeerSendsKeeps ==
  ASSUME StreamInv, NEW x \in Items, NEW p, PeerSends(x, p),
         p \in [hdr : Headers, sent : Nat, last : BOOLEAN, closed : BOOLEAN, interim : BOOLEAN],
         p.sent = peer.sent + (IF x = "piece" THEN 1 ELSE 0),
         resp.hdr # NoHeader => p.hdr = peer.hdr,
         peer.last => p.last /\ p.hdr = peer.hdr,
         x = "piece" => ~peer.last,
         x = "last" => p.last,
         p.last => p.hdr # NoHeader /\ p.sent = p.hdr.n
  PROVE  StreamInv'
<1>1. /\ wire' = Append(wire, x) /\ peer' = p /\ call.at = "recv"
      /\ UNCHANGED <<call, resp, answer>> /\ wire \in Seq(Items)
  BY DEF PeerSends, StreamInv, StreamTypes
<1>2. /\ wire' \in Seq(Items) /\ DOMAIN wire' = 1 .. Len(wire) + 1 /\ wire'[Len(wire) + 1] = x
      /\ \A i \in 1 .. Len(wire) : wire'[i] = wire[i]
      /\ DOMAIN wire = 1 .. Len(wire) /\ Len(wire) \in Nat
  BY <1>1
<1>3. Pieces(wire') = Pieces(wire) + (IF x = "piece" THEN 1 ELSE 0)
  BY <1>1, PiecesArrive
<1>4. StreamTypes'
  BY <1>1, <1>2 DEF StreamInv, StreamTypes
<1>5. NothingLost'
  <2>1. /\ resp.have \in Nat /\ Pieces(wire) \in Nat /\ peer.sent \in Nat
        /\ resp.have + Pieces(wire) = peer.sent
    BY <1>1, PiecesCounted DEF StreamInv, StreamTypes, NothingLost
  <2>2. resp.have + Pieces(wire') = p.sent
    BY <1>3, <2>1
  <2>3. resp.hdr # NoHeader => resp.hdr = p.hdr
    BY DEF StreamInv, NothingLost
  <2> QED
    BY <1>1, <2>2, <2>3 DEF NothingLost
<1>6. LastComesLast'
  <2>1. ASSUME NEW i \in DOMAIN wire', wire'[i] = "last"
        PROVE  p.last /\ \A j \in DOMAIN wire' : i < j => wire'[j] # "piece"
    <3>1. CASE i = Len(wire) + 1
      BY <1>2, <2>1, <3>1
    <3>2. CASE i \in DOMAIN wire
      <4>1. wire[i] = "last" /\ peer.last
        BY <1>2, <2>1, <3>2 DEF StreamInv, LastComesLast
      <4>2. \A j \in DOMAIN wire : i < j => wire[j] # "piece"
        BY <3>2, <4>1 DEF StreamInv, LastComesLast
      <4>3. \A j \in DOMAIN wire' : j \in DOMAIN wire \/ j = Len(wire) + 1
        BY <1>2
      <4> QED
        BY <1>2, <4>1, <4>2, <4>3
    <3> QED
      BY <1>2, <3>1, <3>2
  <2>2. resp.last => p.last /\ \A j \in DOMAIN wire' : wire'[j] # "piece"
    <3>1. resp.last => peer.last /\ \A j \in DOMAIN wire : wire[j] # "piece"
      BY DEF StreamInv, LastComesLast
    <3>2. \A j \in DOMAIN wire' : j \in DOMAIN wire \/ j = Len(wire) + 1
      BY <1>2
    <3> QED
      BY <1>2, <3>1, <3>2
  <2> QED
    BY <1>1, <2>1, <2>2 DEF LastComesLast
<1> QED
  BY <1>1, <1>4, <1>5, <1>6 DEF StreamInv, WholeBodyOrNothing

\* Whatever the peer sends, in whatever order it can.
LEMMA PeerKeeps ==
  ASSUME StreamInv, PeerStep PROVE StreamInv'
<1> DEFINE P == [hdr : Headers, sent : Nat, last : BOOLEAN, closed : BOOLEAN, interim : BOOLEAN]
<1>0. /\ peer \in P /\ peer.hdr \in Headers /\ peer.hdr.n \in Nat /\ peer.sent \in Nat
      /\ (peer.last => peer.hdr # NoHeader /\ peer.sent = peer.hdr.n)
      /\ (resp.hdr # NoHeader => resp.hdr = peer.hdr)
  BY DeclaredLength DEF StreamInv, StreamTypes, LastComesLast, NothingLost
<1>1. CASE PeerInterim
  <2>1. PICK p : p = [peer EXCEPT !.interim = TRUE] /\ PeerSends("1xx", p)
    BY <1>1 DEF PeerInterim
  <2>2. p \in P /\ p.sent = peer.sent /\ p.hdr = peer.hdr /\ p.last = peer.last
    BY <1>0, <2>1
  <2> QED
    BY <1>0, <2>1, <2>2, PeerSendsKeeps DEF Items
<1>2. CASE PeerNotHttp
  <2>1. PICK p : p = [peer EXCEPT !.closed = TRUE] /\ PeerSends("junk", p)
    BY <1>2 DEF PeerNotHttp
  <2>2. p \in P /\ p.sent = peer.sent /\ p.hdr = peer.hdr /\ p.last = peer.last
    BY <1>0, <2>1
  <2> QED
    BY <1>0, <2>1, <2>2, PeerSendsKeeps DEF Items
<1>3. ASSUME NEW h \in Answers, PeerHeader(h) PROVE StreamInv'
  <2>1. PICK p : p = [peer EXCEPT !.hdr = h] /\ PeerSends("header", p)
    BY <1>3 DEF PeerHeader
  <2>2. p \in P /\ p.sent = peer.sent /\ p.hdr = h /\ p.last = peer.last
    BY <1>0, <2>1 DEF Headers
  <2>3. peer.hdr = NoHeader /\ ~peer.last /\ resp.hdr = NoHeader
    BY <1>0, <1>3 DEF PeerHeader, Begun
  <2> QED
    BY <1>0, <2>1, <2>2, <2>3, PeerSendsKeeps DEF Items
<1>4. CASE PeerPiece
  <2>1. PICK p : p = [peer EXCEPT !.sent = @ + 1] /\ PeerSends("piece", p)
    BY <1>4 DEF PeerPiece
  <2>2. p \in P /\ p.sent = peer.sent + 1 /\ p.hdr = peer.hdr /\ p.last = peer.last
    BY <1>0, <2>1
  <2>3. ~peer.last
    BY <1>0, <1>4 DEF PeerPiece
  <2> QED
    BY <1>0, <2>1, <2>2, <2>3, PeerSendsKeeps DEF Items
<1>5. CASE PeerLastChunk
  <2>1. PICK p : p = [peer EXCEPT !.last = TRUE] /\ PeerSends("last", p)
    BY <1>5 DEF PeerLastChunk
  <2>2. p \in P /\ p.sent = peer.sent /\ p.hdr = peer.hdr /\ p.last
    BY <1>0, <2>1
  <2>3. peer.hdr # NoHeader /\ peer.sent = peer.hdr.n
    BY <1>5 DEF PeerLastChunk, Begun
  <2> QED
    BY <1>0, <2>1, <2>2, <2>3, PeerSendsKeeps DEF Items
<1>6. CASE PeerCloses
  <2>1. /\ peer' = [peer EXCEPT !.closed = TRUE] /\ call.at = "recv"
        /\ UNCHANGED <<call, wire, resp, answer>>
    BY <1>6 DEF PeerCloses
  <2>2. /\ peer' \in P /\ peer'.sent = peer.sent /\ peer'.hdr = peer.hdr
        /\ peer'.last = peer.last
    BY <1>0, <2>1
  <2> QED
    BY <2>1, <2>2 DEF StreamInv, StreamTypes, NothingLost, LastComesLast, WholeBodyOrNothing
<1> QED
  BY <1>1, <1>2, <1>3, <1>4, <1>5, <1>6 DEF PeerStep

\* Every step keeps the account of the stream.
LEMMA StreamNext ==
  ASSUME StreamInv, [ClientNext]_clientvars PROVE StreamInv'
<1>1. ASSUME UNCHANGED <<wire, peer, resp>>, call'.at = call.at \/ NoConnection, WholeBodyOrNothing'
      PROVE  StreamInv'
  BY <1>1 DEF StreamInv, StreamTypes, NothingLost, LastComesLast, NoConnection
<1>2. WholeBodyOrNothing /\ (call.at # "recv" => NoConnection)
  BY DEF StreamInv
<1>3. answer' = answer => WholeBodyOrNothing'
  BY <1>2 DEF WholeBodyOrNothing
<1>4. ASSUME NEW b \in BOOLEAN, http_client_request(b) PROVE StreamInv'
  BY <1>1, <1>2, <1>3, <1>4 DEF http_client_request
<1>5. CASE Reached
  <2>1. ASSUME NEW ok \in BOOLEAN, CurlExits(ok) PROVE StreamInv'
    <3>1. answer' = [ok |-> ok, hdr |-> NoHeader, pieces |-> 0]
      BY <2>1 DEF CurlExits, NoAnswer
    <3>2. WholeBodyOrNothing'
      BY <3>1 DEF WholeBodyOrNothing, NoHeader
    <3> QED
      BY <1>1, <1>2, <2>1, <3>2 DEF CurlExits
  <2>2. CASE http_dial \/ SendRequest \/ CurlCloses
    BY <1>1, <1>2, <1>3, <2>2 DEF http_dial, SendRequest, CurlCloses
  <2> QED
    BY <1>5, <2>1, <2>2, FailsKeeps DEF Reached, DialRefused, SendRefused
<1>6. CASE Work
  <2>1. ASSUME NEW k \in {"bad", "http", "https"}, http_parse_url(k) PROVE StreamInv'
    <3>1. call.at = "url" /\ UNCHANGED <<wire, peer, resp>>
      BY <2>1 DEF http_parse_url
    <3>2. answer' = answer
      BY <2>1 DEF http_parse_url, http_via_curl, ReturnEmpty
    <3> QED
      BY <1>1, <1>2, <1>3, <3>1, <3>2
  <2>2. ASSUME NEW k \in DOMAIN wire, http_exchange(k) PROVE StreamInv'
    <3>1. PICK r : r = Held(resp, SubSeq(wire, 1, k))
      OBVIOUS
    <3>2. Accounted(r)
      BY <3>1, HeldAfterRecv
    <3>3. CASE Fails
      BY <3>3, FailsKeeps
    <3>4. CASE Finished(r, FALSE) /\ Finish(r)
      BY <3>2, <3>4, FinishKeeps
    <3>5. CASE /\ call.at = "recv" /\ resp' = r /\ wire' = SubSeq(wire, k + 1, Len(wire))
               /\ UNCHANGED <<call, peer, answer>>
      BY <3>1, <3>5, StreamGoesOn
    <3> QED
      BY <2>2, <3>1, <3>3, <3>4, <3>5 DEF http_exchange
  <2>3. CASE EndOfStream
    <3>1. Accounted(resp)
      <4>1. wire = <<>> /\ \A i \in DOMAIN wire : wire[i] # "piece"
        BY <2>3 DEF EndOfStream
      <4>2. Pieces(wire) = 0
        BY <4>1, PiecesNone
      <4> QED
        BY <4>2, DeclaredLength DEF Accounted, StreamInv, StreamTypes, NothingLost, LastComesLast
    <3> QED
      BY <2>3, <3>1, FailsKeeps, FinishKeeps DEF EndOfStream
  <2> QED
    BY <1>6, <2>1, <2>2, <2>3, FailsKeeps DEF Work, ClientTimesOut
<1>7. CASE ClientTick \/ UNCHANGED clientvars
  BY <1>1, <1>3, <1>7 DEF ClientTick, clientvars
<1> QED
  BY <1>4, <1>5, <1>6, <1>7, PeerKeeps DEF ClientNext

\* "The response body whatever the status, "" on any failure"
\* (pyro_runtime.c:1043-1044): for every peer, every grouping of its answer
\* into recvs and every moment it may close or stall, what is returned is all
\* that the header declared, or the empty string.
THEOREM BodiesAreWhole == ClientSpec => []WholeBodyOrNothing
<1>1. ClientInit => StreamInv
  <2>1. ClientInit => NoConnection /\ WholeBodyOrNothing
    BY DEF ClientInit, NoConnection, WholeBodyOrNothing, NoAnswer
  <2> QED
    BY <2>1, Disconnected
<1>2. StreamInv /\ [ClientNext]_clientvars => StreamInv'
  BY StreamNext
<1>3. StreamInv => WholeBodyOrNothing
  BY DEF StreamInv
<1> QED
  BY <1>1, <1>2, <1>3, PTL DEF ClientSpec
=============================================================================
