-------------------------- MODULE HttpServerProofs --------------------------
(***************************************************************************)
(* Proofs about HttpServer, for any number of connections, any requests    *)
(* and responses and any sizes of buffers and chunks.                      *)
(***************************************************************************)
EXTENDS HttpServer, SequenceTheorems, TLAPS

\* The types of a connection.
Request == [buf : Seq(Tokens), total : 0..MaxReq, failed : BOOLEAN]
Response == [len : Nat, pos : Nat, keep : BOOLEAN]
Connection == [st : {"new", "backlog", "open", "closed"}, script : Seq(Tokens),
               inq : Seq(Tokens), fin : BOOLEAN, rst : BOOLEAN, room : BOOLEAN,
               arm : {"in", "out"}, edge : BOOLEAN, req : Request,
               resp : Response, got : Nat, over : {"no", "over", "alive"}]

\* The read position is inside the response, and a response that has ended
\* lacks less than a chunk.
Written(r) == /\ r.resp.pos <= r.resp.len
              /\ r.over # "no" => r.resp.len - r.got < Chunk

\* The response is being written: the read position is what the socket has
\* taken.
Writing(r) == r.resp.pos = r.got /\ r.over = "no"

\* What epoll is armed for and is there is announced.
Announced(r) == /\ r.arm = "in" /\ (r.inq # <<>> \/ r.fin) => r.edge
                /\ r.arm = "out" /\ r.room => r.edge

Good(r) == /\ r \in Connection /\ Written(r)
           /\ r.st = "open" => Announced(r)
           /\ r.st = "open" /\ r.arm = "out" => Writing(r)
           /\ r.st \in {"new", "backlog"} => r.arm = "in"

Inv == /\ up \in BOOLEAN
       /\ conn \in [Conns -> Connection]
       /\ \A c \in Conns : Good(conn[c])
-----------------------------------------------------------------------------
\* Storing a good connection keeps all of them good.
LEMMA SetGood ==
  ASSUME Inv, NEW c \in Conns, NEW r, Good(r), Set(c, r), UNCHANGED up
  PROVE  Inv'
  BY DEF Inv, Set, Good

\* Registering a connection announces what there is.
LEMMA RearmGood ==
  ASSUME NEW r \in Connection, Written(r), NEW arm \in {"in", "out"},
         arm = "out" => Writing(r),
         r.st = "open"
  PROVE  Good(Rearm(r, arm))
<1> DEFINE q == Rearm(r, arm)
<1>1. q \in Connection
  BY DEF Rearm, Connection
<1>2. /\ q.st = r.st /\ q.arm = arm /\ q.resp = r.resp /\ q.got = r.got
      /\ q.over = r.over /\ q.inq = r.inq /\ q.fin = r.fin /\ q.room = r.room
      /\ q.edge = IF arm = "in" THEN r.inq # <<>> \/ r.fin \/ r.rst
                  ELSE r.room \/ r.rst
  BY DEF Rearm, Connection
<1> HIDE DEF q
<1>3. Good(q)
  BY <1>1, <1>2 DEF Good, Written, Writing, Announced
<1> QED BY <1>3 DEF q

\* Closing a connection leaves what is known of its response.
LEMMA CloseGood ==
  ASSUME NEW r \in Connection, Written(r)
  PROVE  Good(Close(r))
<1> DEFINE q == Close(r)
<1>1. FreshRequest \in Request
  BY HttpAssumption, EmptySeq DEF FreshRequest, Request
<1>2. q \in Connection
  BY <1>1, EmptySeq DEF Close, Connection
<1>3. q.st = "closed" /\ q.resp = r.resp /\ q.got = r.got /\ q.over = r.over
  BY DEF Close, Connection
<1> HIDE DEF q
<1>4. Good(q)
  BY <1>2, <1>3 DEF Good, Written
<1> QED BY <1>4 DEF q

\* The steps of a client preserve the invariant.
LEMMA ClientInv ==
  ASSUME Inv, NEW c \in Conns, ClientStep(c)
  PROVE  Inv'
<1> DEFINE r == conn[c]
<1>1. r \in Connection /\ Good(r)
  BY DEF Inv
<1>2. CASE Connect(c)
  <2> DEFINE q == [r EXCEPT !.st = "backlog"]
  <2>1. Good(q)
    BY <1>1, <1>2 DEF Connect, Good, Written, Writing, Connection
  <2> QED BY <1>2, <2>1, SetGood DEF Connect
<1>3. CASE SendToken(c)
  <2> DEFINE q == [r EXCEPT !.inq = Append(@, Head(r.script)),
                            !.script = Tail(@), !.edge = @ \/ r.arm = "in"]
  <2>1. /\ Append(r.inq, Head(r.script)) \in Seq(Tokens)
        /\ Tail(r.script) \in Seq(Tokens)
    BY <1>1, <1>3, HeadTailProperties, AppendProperties DEF SendToken, Connection
  <2>2. /\ q \in Connection /\ q.st = r.st /\ q.arm = r.arm /\ q.resp = r.resp
        /\ q.got = r.got /\ q.over = r.over /\ q.fin = r.fin /\ q.room = r.room
        /\ q.edge = (r.edge \/ r.arm = "in")
    BY <1>1, <2>1 DEF Connection
  <2>3. Set(c, q) /\ UNCHANGED up
    BY <1>3 DEF SendToken
  <2> HIDE DEF q, r
  <2>4. Good(q)
    BY <1>1, <2>2 DEF Good, Written, Writing, Announced
  <2> QED BY <2>3, <2>4, SetGood
<1>4. CASE Fin(c)
  <2> DEFINE q == [r EXCEPT !.fin = TRUE, !.edge = @ \/ r.arm = "in"]
  <2>1. Good(q)
    BY <1>1 DEF Good, Written, Writing, Announced, Connection
  <2> QED BY <1>4, <2>1, SetGood DEF Fin
<1>5. CASE Reset(c)
  <2> DEFINE q == [r EXCEPT !.rst = TRUE, !.inq = <<>>, !.edge = TRUE]
  <2>1. Good(q)
    BY <1>1, EmptySeq DEF Good, Written, Writing, Announced, Connection
  <2> QED BY <1>5, <2>1, SetGood DEF Reset
<1>6. CASE Drain(c)
  <2> DEFINE q == [r EXCEPT !.room = TRUE, !.edge = @ \/ r.arm = "out"]
  <2>1. Good(q)
    BY <1>1 DEF Good, Written, Writing, Announced, Connection
  <2> QED BY <1>6, <2>1, SetGood DEF Drain
<1> QED BY <1>2, <1>3, <1>4, <1>5, <1>6 DEF ClientStep

\* Accepting a connection, or failing to, preserves the invariant.
LEMMA AcceptInv ==
  ASSUME Inv, NEW c \in Conns, Accept(c) \/ AcceptFails(c)
  PROVE  Inv'
<1> DEFINE r == conn[c]
           q == [r EXCEPT !.st = "open"]
<1>1. r \in Connection /\ Good(r) /\ r.st = "backlog"
  BY DEF Inv, Accept, AcceptFails
<1>2. /\ q \in Connection /\ q.st = "open" /\ q.resp = r.resp /\ q.got = r.got
      /\ q.over = r.over /\ q.arm = r.arm
  BY <1>1 DEF Connection
<1>3. Written(r) /\ Written(q)
  BY <1>1, <1>2 DEF Good, Written
<1>4. CASE Accept(c)
  <2>1. Set(c, Rearm(q, "in")) /\ UNCHANGED up
    BY <1>4 DEF Accept
  <2>2. Good(Rearm(q, "in"))
    BY <1>2, <1>3, RearmGood
  <2> QED BY <2>1, <2>2, SetGood
<1>5. CASE AcceptFails(c)
  <2>1. Set(c, Close(r)) /\ UNCHANGED up
    BY <1>5 DEF AcceptFails
  <2> QED BY <1>1, <1>3, <2>1, CloseGood, SetGood
<1> QED BY <1>4, <1>5

\* OnReadable keeps a request within its bound.
LEMMA OnReadableType ==
  ASSUME NEW req \in Request, NEW data \in Seq(Tokens)
  PROVE  /\ OnReadable(req, data).req \in Request
         /\ OnReadable(req, data).status \in
               {"READ_CONTINUE", "READ_OVER", "READ_ERROR", "READ_REACH_MAX_SIZE"}
<1> DEFINE total == req.total + Len(data)
           buf   == IF req.failed THEN req.buf ELSE req.buf \o data
           over  == ~req.failed /\ IsReadOver(buf)
<1>1. buf \in Seq(Tokens) /\ total \in Nat /\ MaxReq \in Nat
  BY ConcatProperties, LenProperties, HttpAssumption DEF Request
<1> HIDE DEF total, buf, over
<1>2. CASE total > MaxReq
  <2>1. OnReadable(req, data) = [req |-> req, status |-> "READ_REACH_MAX_SIZE"]
    BY <1>2 DEF OnReadable, total
  <2> QED BY <2>1 DEF Request
<1>3. CASE ~(total > MaxReq)
  <2>1. total \in 0..MaxReq
    BY <1>1, <1>3
  <2>2. CASE ~over
    <3>1. OnReadable(req, data) =
            [req |-> [req EXCEPT !.buf = buf, !.total = total],
             status |-> "READ_CONTINUE"]
      BY <1>3, <2>2 DEF OnReadable, total, buf, over
    <3>2. [req EXCEPT !.buf = buf, !.total = total] \in Request
      BY <1>1, <2>1 DEF Request
    <3> QED BY <3>1, <3>2
  <2>3. CASE over
    <3>1. OnReadable(req, data) =
            [req |-> [buf |-> buf, total |-> total, failed |-> TRUE],
             status |-> IF RequestLineParses(buf) THEN "READ_OVER"
                        ELSE "READ_ERROR"]
      BY <1>3, <2>3 DEF OnReadable, total, buf, over
    <3> QED BY <1>1, <2>1, <3>1 DEF Request
  <2> QED BY <2>2, <2>3
<1> QED BY <1>2, <1>3

\* A readable event preserves the invariant, whatever recv returns.
LEMMA ReadableInv ==
  ASSUME Inv, NEW c \in Conns, HandleReadable(c)
  PROVE  Inv'
<1> DEFINE r == conn[c]
<1>1. /\ r \in Connection /\ Good(r) /\ r.st = "open" /\ r.arm = "in"
      /\ Written(r) /\ UNCHANGED up
  BY DEF Inv, Good, HandleReadable, Open
<1>2. CASE r.inq = <<>>
  <2>1. Set(c, Close(r))
    BY <1>2 DEF HandleReadable
  <2> QED BY <1>1, <2>1, CloseGood, SetGood
<1>3. CASE r.inq # <<>>
  <2>1. PICK n \in 1..ReadCap :
          /\ n <= Len(r.inq)
          /\ LET res  == OnReadable(r.req, SubSeq(r.inq, 1, n))
                 left == [r EXCEPT !.req = res.req,
                                   !.inq = SubSeq(@, n + 1, Len(@))]
             IN CASE res.status = "READ_CONTINUE" -> Set(c, Rearm(left, "in"))
                  [] res.status = "READ_OVER" ->
                       \E q \in HandleHttpRequest(left) : Set(c, Rearm(q, "out"))
                  [] OTHER -> Set(c, Close(left))
    BY <1>3 DEF HandleReadable
  <2> DEFINE inq == r.inq
             res == OnReadable(r.req, SubSeq(inq, 1, n))
             left == [r EXCEPT !.req = res.req, !.inq = SubSeq(@, n + 1, Len(@))]
  <2>2. inq \in Seq(Tokens) /\ Len(inq) \in Nat /\ n \in Nat /\ r.req \in Request
    BY <1>1, LenProperties, HttpAssumption DEF Connection
  <2>3. SubSeq(inq, 1, n) \in Seq(Tokens) /\ SubSeq(inq, n + 1, Len(inq)) \in Seq(Tokens)
    <3> HIDE DEF inq
    <3>1. \A i \in 1..Len(inq) : inq[i] \in Tokens
      BY <2>2, ElementOfSeq
    <3>2. n <= Len(inq)
      BY <2>1 DEF inq
    <3>3. \A i \in 1..n : inq[i] \in Tokens
      BY <2>2, <3>1, <3>2
    <3>4. \A i \in (n + 1)..Len(inq) : inq[i] \in Tokens
      BY <2>2, <3>1
    <3>5. SubSeq(inq, 1, n) \in Seq(Tokens)
      BY <2>2, <3>3, SubSeqProperties
    <3>6. SubSeq(inq, n + 1, Len(inq)) \in Seq(Tokens)
      BY <2>2, <3>4, SubSeqProperties
    <3> QED BY <3>5, <3>6
  <2>4. res.req \in Request
    BY <2>2, <2>3, OnReadableType
  <2>5. \/ res.status = "READ_CONTINUE" /\ Set(c, Rearm(left, "in"))
        \/ \E q \in HandleHttpRequest(left) : Set(c, Rearm(q, "out"))
        \/ Set(c, Close(left))
    BY <2>1
  <2> HIDE DEF res
  <2>6. /\ left \in Connection /\ left.st = "open" /\ left.resp = r.resp
        /\ left.got = r.got /\ left.over = r.over /\ left.arm = "in"
    BY <1>1, <2>3, <2>4 DEF Connection
  <2> HIDE DEF left, r
  <2>7. Written(left)
    BY <1>1, <2>6 DEF Written
  <2>8. CASE Set(c, Rearm(left, "in"))
    BY <1>1, <2>6, <2>7, <2>8, RearmGood, SetGood
  <2>9. CASE Set(c, Close(left))
    BY <1>1, <2>6, <2>7, <2>9, CloseGood, SetGood
  <2>10. ASSUME NEW q \in HandleHttpRequest(left), Set(c, Rearm(q, "out"))
         PROVE  Inv'
    <3>1. PICK len \in RespLens :
             q = [left EXCEPT !.resp = Exported(len, KeepAlive(left.req)),
                              !.got = 0, !.over = "no"]
      BY DEF HandleHttpRequest
    <3>2. len \in Nat
      BY HttpAssumption
    <3>3. Exported(len, KeepAlive(left.req)) \in Response
      BY <3>2 DEF Exported, KeepAlive, Response
    <3>4. /\ q \in Connection /\ q.st = "open" /\ q.got = 0 /\ q.over = "no"
          /\ q.resp = Exported(len, KeepAlive(left.req))
      BY <2>6, <3>1, <3>3 DEF Connection
    <3>5. Written(q) /\ Writing(q)
      BY <3>2, <3>4 DEF Written, Writing, Exported
    <3> QED BY <1>1, <2>10, <3>4, <3>5, RearmGood, SetGood
  <2> QED BY <2>5, <2>8, <2>9, <2>10
<1> QED BY <1>2, <1>3

\* A writeable event preserves the invariant, however little send takes.
LEMMA WriteableInv ==
  ASSUME Inv, NEW c \in Conns, HandleWriteable(c)
  PROVE  Inv'
<1> DEFINE r == conn[c]
<1>1. /\ r \in Connection /\ r.st = "open" /\ r.arm = "out" /\ Written(r)
      /\ Writing(r) /\ UNCHANGED up
  BY DEF Inv, Good, HandleWriteable, Open
<1>2. CASE r.rst
  <2>1. Set(c, Close(r))
    BY <1>2 DEF HandleWriteable
  <2> QED BY <1>1, <2>1, CloseGood, SetGood
<1>3. CASE ~r.rst
  <2> DEFINE left == r.resp.len - r.resp.pos
             size == ReadChunk(r.resp).size
             status == ReadChunk(r.resp).status
  <2>1. /\ left \in Nat /\ Chunk \in Nat \ {0}
        /\ r.resp \in Response /\ r.resp.pos \in Nat /\ r.resp.len \in Nat
        /\ r.got \in Nat /\ r.resp.pos = r.got /\ r.over = "no"
        /\ r.resp.pos <= r.resp.len
    BY <1>1, HttpAssumption DEF Connection, Response, Written, Writing
  <2>2. /\ size = IF left < Chunk THEN left ELSE Chunk
        /\ status = IF left >= Chunk THEN "WRITE_CONTINUE"
                    ELSE IF r.resp.keep THEN "WRITE_ALIVE" ELSE "WRITE_OVER"
    BY DEF ReadChunk
  <2>3. PICK n \in (IF size = 0 THEN {0} ELSE 1..size), room \in BOOLEAN :
           Set(c, AfterSend([r EXCEPT !.room = room], n))
    BY <1>3 DEF HandleWriteable
  <2>4. n \in Nat /\ n <= left
    <3> HIDE DEF left, size
    <3> QED BY <2>1, <2>2, <2>3
  <2> DEFINE q == [r EXCEPT !.room = room]
             sent == [q EXCEPT !.resp = Advance(q.resp, n), !.got = @ + n]
  <2>5. q \in Connection /\ q.resp = r.resp /\ q.got = r.got
    BY <1>1 DEF Connection
  <2>6. q.st = "open" /\ q.arm = "out" /\ q.over = "no"
    BY <1>1, <2>1 DEF Connection
  <2> HIDE DEF q
  <2>7. /\ Advance(r.resp, n) \in Response
        /\ Advance(r.resp, n).pos = r.resp.pos + n
        /\ Advance(r.resp, n).len = r.resp.len
    BY <2>1, <2>4 DEF Advance, Response
  <2>8. /\ sent \in Connection /\ sent.st = "open" /\ sent.over = "no"
        /\ sent.arm = "out" /\ sent.got = r.got + n
        /\ sent.resp = Advance(r.resp, n)
    <3>1. r.got + n \in Nat
      BY <2>1, <2>4
    <3>2. sent = [q EXCEPT !.resp = Advance(r.resp, n), !.got = r.got + n]
      BY <2>5
    <3> HIDE DEF r, sent
    <3> QED BY <2>5, <2>6, <2>7, <3>1, <3>2 DEF Connection
  <2>9. Written(sent) /\ Writing(sent)
    <3>1. sent.resp.pos <= sent.resp.len
      BY <2>1, <2>4, <2>7, <2>8
    <3> HIDE DEF sent
    <3> QED BY <2>1, <2>7, <2>8, <3>1 DEF Written, Writing
  <2>10. CASE status = "WRITE_CONTINUE"
    <3>1. AfterSend(q, n) = Rearm(sent, "out")
      BY <2>5, <2>10 DEF AfterSend
    <3> HIDE DEF sent
    <3> QED BY <1>1, <2>3, <2>8, <2>9, <3>1, RearmGood, SetGood DEF q
  <2>11. ASSUME NEW s \in {"over", "alive"}, status # "WRITE_CONTINUE",
                NEW p, p = [sent EXCEPT !.over = s] \/
                       p = [sent EXCEPT !.over = s, !.req = FreshRequest]
         PROVE  p \in Connection /\ Written(p) /\ p.st = "open"
    <3>1. FreshRequest \in Request
      BY HttpAssumption, EmptySeq DEF FreshRequest, Request
    <3> HIDE DEF sent
    <3>2. /\ p \in Connection /\ p.st = "open" /\ p.over = s
          /\ p.got = r.got + n /\ p.resp = Advance(r.resp, n)
      BY <2>8, <2>11, <3>1 DEF Connection
    <3>3. left < Chunk
      BY <2>1, <2>2, <2>11
    <3>4. r.resp.len - (r.got + n) < Chunk
      BY <2>1, <2>4, <3>3
    <3>5. Advance(r.resp, n).pos <= Advance(r.resp, n).len
      BY <2>1, <2>4, <2>7
    <3> QED BY <2>7, <3>2, <3>4, <3>5 DEF Written
  <2>12. CASE status = "WRITE_OVER"
    <3> DEFINE p == [sent EXCEPT !.over = "over"]
    <3>1. AfterSend(q, n) = Close(p)
      BY <2>5, <2>12 DEF AfterSend
    <3>2. p \in Connection /\ Written(p)
      BY <2>11, <2>12
    <3> HIDE DEF p
    <3> QED BY <1>1, <2>3, <3>1, <3>2, CloseGood, SetGood DEF q
  <2>13. CASE status = "WRITE_ALIVE"
    <3> DEFINE p == IF n > 0 THEN [sent EXCEPT !.over = "alive", !.req = FreshRequest]
                    ELSE [sent EXCEPT !.over = "alive"]
    <3>1. AfterSend(q, n) = Rearm(p, "in")
      BY <2>5, <2>13 DEF AfterSend
    <3>2. p \in Connection /\ Written(p) /\ p.st = "open"
      BY <2>11, <2>13
    <3> HIDE DEF p
    <3> QED BY <1>1, <2>3, <3>1, <3>2, RearmGood, SetGood DEF q
  <2> QED BY <2>2, <2>10, <2>12, <2>13
<1> QED BY <1>2, <1>3

\* The invariant holds initially.
LEMMA InitInv == Init => Inv
<1> SUFFICES ASSUME Init PROVE Inv
  OBVIOUS
<1>1. FreshRequest \in Request /\ FreshResponse \in Response
  BY HttpAssumption, EmptySeq DEF FreshRequest, Request, FreshResponse, Response
<1>2. ASSUME NEW s \in Scripts PROVE Good(NewConn(s))
  <2> DEFINE r == NewConn(s)
  <2>1. r \in Connection
    BY <1>1, HttpAssumption, EmptySeq DEF NewConn, Connection
  <2>2. Written(r)
    BY DEF NewConn, Written, FreshResponse
  <2> QED BY <2>1, <2>2 DEF NewConn, Good
<1>3. \A c \in Conns : Good(conn[c])
  BY <1>2 DEF Init
<1>4. conn \in [Conns -> Connection]
  BY <1>3 DEF Init, Good
<1> QED BY <1>3, <1>4 DEF Inv, Init

\* Every step of the loop or of a client preserves the invariant.
LEMMA NextInv == Inv /\ [Next]_vars => Inv'
<1> SUFFICES ASSUME Inv, [Next]_vars PROVE Inv'
  OBVIOUS
<1>1. CASE LoopEnds \/ UNCHANGED vars
  BY <1>1 DEF LoopEnds, vars, Inv
<1> QED
  BY <1>1, ClientInv, AcceptInv, ReadableInv, WriteableInv DEF Next, ServerStep

\* The invariant holds in every reachable state.
THEOREM Invariance == Spec => []Inv
  BY InitInv, NextInv, PTL DEF Spec

\* Connections keep their types; what a request has received stays bounded.
THEOREM TypeCorrect == Spec => []TypeOK
<1>1. ASSUME Inv, NEW c \in Conns
      PROVE  /\ conn[c] \in Connection /\ conn[c].resp \in Response
             /\ conn[c].req \in Request /\ conn[c].resp.pos <= conn[c].resp.len
  BY <1>1 DEF Inv, Good, Written, Connection
<1>2. Inv => TypeOK
  BY <1>1 DEF Inv, TypeOK, Connection, Response, Request
<1> QED BY <1>2, Invariance, PTL

\* No unit of a response is sent twice or left out by partial sends.
THEOREM CursorExact == Spec => []CursorTracksSocket
<1>1. Inv => CursorTracksSocket
  BY DEF Inv, Good, Writing, Open, CursorTracksSocket
<1> QED BY <1>1, Invariance, PTL

\* A response that ended lacks less than one chunk.
THEOREM CutBounded == Spec => []OnlyLastChunkCut
<1>1. Inv => OnlyLastChunkCut
  BY DEF Inv, Good, Written, OnlyLastChunkCut
<1> QED BY <1>1, Invariance, PTL

\* Nothing that a connection waits for arrives without an event.
THEOREM EdgesKept == Spec => []NoLostEdge
<1>1. Inv => NoLostEdge
  BY DEF Inv, Good, Announced, Open, NoLostEdge
<1> QED BY <1>1, Invariance, PTL
=============================================================================
