----------------------------- MODULE HttpServer -----------------------------
(***************************************************************************)
(* src/http/http_server: one thread, an epoll loop (EpollSocket) over      *)
(* non-blocking, edge-triggered connections, and the HTTP handlers behind  *)
(* it (HttpEpollEventHandler, HttpRequest, HttpResponse).  One dispatch of *)
(* an epoll event is one step.                                             *)
(*                                                                         *)
(* A request is a sequence of tokens: "get" and "getka" are request lines  *)
(* (the second with Connection: keep-alive), "bad" a request line that     *)
(* does not parse or has another method, "end" the blank line that ends    *)
(* the header, "body" anything that follows it.  A response is a number of *)
(* units, written in chunks of at most Chunk.                              *)
(***************************************************************************)
EXTENDS Naturals, Sequences, SequencesExt

CONSTANTS Conns,     \* client connections
          Scripts,   \* what a client may send: sequences of tokens
          ReadCap,   \* EPOLL_SOCKET_READ_BUFFER_SIZE, in tokens
          Chunk,     \* EPOLL_SOCKET_WRITE_BUFFER_SIZE, in units
          MaxReq,    \* MAX_REQUEST_SIZE, in tokens
          RespLens   \* sizes of the responses the handlers produce

Tokens == {"get", "getka", "bad", "end", "body"}

ASSUME HttpAssumption == /\ Scripts \subseteq Seq(Tokens)
                         /\ {ReadCap, Chunk, MaxReq} \subseteq Nat \ {0}
                         /\ RespLens \subseteq Nat \ {0}

VARIABLES conn,   \* conn[c]: a connection, as below
          up      \* FALSE once the loop has ended

vars == <<conn, up>>

\* HttpContext::Clear, and a new HttpContext.
FreshRequest == [buf |-> <<>>, total |-> 0, failed |-> FALSE]
FreshResponse == [len |-> 0, pos |-> 0, keep |-> FALSE]

\* A connection before its client connects.
\*   st      "new", "backlog", "open", "closed"
\*   script  what the client has still to send; inq: bytes not yet received
\*   fin     the client has closed its end; rst: it has reset the connection
\*   room    the send buffer takes data
\*   arm     what epoll is armed for, "in" or "out"; edge: an event is due
\*   req     req_buff_, total_req_size_, and whether the stream has failed
\*   resp    the exported response, its read position, and is_keepalive; kept
\*           for the properties until the next response is filled
\*   got     units of the current response handed to the socket
\*   over    how the last response ended: "no", "over" or "alive"
NewConn(s) == [st |-> "new", script |-> s, inq |-> <<>>, fin |-> FALSE,
               rst |-> FALSE, room |-> TRUE, arm |-> "in", edge |-> FALSE,
               req |-> FreshRequest, resp |-> FreshResponse, got |-> 0,
               over |-> "no"]

Init == /\ conn \in [Conns -> {NewConn(s) : s \in Scripts}]
        /\ up = TRUE

Set(c, r) == conn' = [conn EXCEPT ![c] = r]
Open(c) == conn[c].st = "open"
-----------------------------------------------------------------------------
(***************************************************************************)
(* The clients and the kernel.                                             *)
(***************************************************************************)
Connect(c) == /\ conn[c].st = "new"
              /\ Set(c, [conn[c] EXCEPT !.st = "backlog"])
              /\ UNCHANGED up

Alive(c) == /\ conn[c].st \in {"backlog", "open"}
            /\ ~conn[c].fin /\ ~conn[c].rst

\* New data, or the end of it, raises an edge if epoll is armed for input.
SendToken(c) == /\ Alive(c)
                /\ conn[c].script # <<>>
                /\ Set(c, [conn[c] EXCEPT !.inq = Append(@, Head(conn[c].script)),
                                          !.script = Tail(@),
                                          !.edge = @ \/ conn[c].arm = "in"])
                /\ UNCHANGED up

Fin(c) == /\ Alive(c)
          /\ Set(c, [conn[c] EXCEPT !.fin = TRUE,
                                    !.edge = @ \/ conn[c].arm = "in"])
          /\ UNCHANGED up

Reset(c) == /\ Alive(c)
            /\ Set(c, [conn[c] EXCEPT !.rst = TRUE, !.inq = <<>>, !.edge = TRUE])
            /\ UNCHANGED up

\* The client reads, and the send buffer has room again.
Drain(c) == /\ Open(c) /\ ~conn[c].room
            /\ Set(c, [conn[c] EXCEPT !.room = TRUE,
                                      !.edge = @ \/ conn[c].arm = "out"])
            /\ UNCHANGED up
-----------------------------------------------------------------------------
(***************************************************************************)
(* EpollSocket.                                                            *)
(***************************************************************************)

\* MUTANT: the connection is not registered again after a partial read.
Rearm_OnlyWhenSwitching(r, arm) ==
  [r EXCEPT !.arm = arm,
            !.edge = IF arm = "in" THEN r.arm = "out" /\ (r.inq # <<>> \/ r.fin \/ r.rst)
                     ELSE r.room \/ r.rst]

\* EPOLL_CTL_MOD: armed for arm, with an event at once if one is possible.
Rearm(r, arm) ==
  [r EXCEPT !.arm = arm,
            !.edge = IF arm = "in" THEN r.inq # <<>> \/ r.fin \/ r.rst
                     ELSE r.room \/ r.rst]

\* close_and_release.
Close(r) == [r EXCEPT !.st = "closed", !.edge = FALSE, !.inq = <<>>,
                      !.req = FreshRequest]

\* handle_accept_event; registering the connection may fail.
Accept(c) == /\ up /\ conn[c].st = "backlog"
             /\ Set(c, Rearm([conn[c] EXCEPT !.st = "open"], "in"))
             /\ UNCHANGED up

AcceptFails(c) == /\ up /\ conn[c].st = "backlog"
                  /\ Set(c, Close(conn[c]))
                  /\ UNCHANGED up

\* is_read_over: what has been received ends with the blank line.
IsReadOver(buf) == Last(buf) = "end"

\* parse_request_line succeeds, and the method is GET or POST.
RequestLineParses(buf) == buf[1] \notin {"bad", "body"}

\* HttpRequest::OnReadable after data has been received: the new state of the
\* request, and the ReadStatus.  A stream that failed takes no data.
OnReadable(req, data) ==
  LET total == req.total + Len(data)
      buf   == IF req.failed THEN req.buf ELSE req.buf \o data
      over  == ~req.failed /\ IsReadOver(buf)
  IN  IF total > MaxReq
        THEN [req |-> req, status |-> "READ_REACH_MAX_SIZE"]
      ELSE IF ~over
        THEN [req |-> [req EXCEPT !.buf = buf, !.total = total],
              status |-> "READ_CONTINUE"]
      ELSE [req |-> [buf |-> buf, total |-> total, failed |-> TRUE],
            status |-> IF RequestLineParses(buf) THEN "READ_OVER"
                       ELSE "READ_ERROR"]

\* The header Connection: keep-alive.
KeepAlive(req) == req.buf[1] = "getka"

\* ExportBuffer2Response: status line, headers and body make len units.
Exported(len, keep) == [len |-> len, pos |-> 0, keep |-> keep]

\* handle_http_request: a handler, or the page for an unknown path, fills the
\* response.
HandleHttpRequest(r) ==
  {[r EXCEPT !.resp = Exported(len, KeepAlive(r.req)), !.got = 0, !.over = "no"] :
     len \in RespLens}

\* handle_readable_event: one recv, and what follows from it.
HandleReadable(c) ==
  /\ up /\ Open(c) /\ conn[c].edge /\ conn[c].arm = "in"
  /\ UNCHANGED up
  /\ IF conn[c].inq = <<>>
       THEN Set(c, Close(conn[c]))          \* recv returns 0 or -1
       ELSE \E n \in 1..ReadCap :
              /\ n <= Len(conn[c].inq)
              /\ LET res  == OnReadable(conn[c].req, SubSeq(conn[c].inq, 1, n))
                     left == [conn[c] EXCEPT !.req = res.req,
                                             !.inq = SubSeq(@, n + 1, Len(@))]
                 IN CASE res.status = "READ_CONTINUE" -> Set(c, Rearm(left, "in"))
                      [] res.status = "READ_OVER" ->
                           \E r \in HandleHttpRequest(left) : Set(c, Rearm(r, "out"))
                      [] OTHER -> Set(c, Close(left))

\* MUTANT: the first chunk is taken for the last one.
ReadChunk_NoContinue(resp) ==
  LET left == resp.len - resp.pos
  IN [size   |-> IF left < Chunk THEN left ELSE Chunk,
      status |-> IF resp.keep THEN "WRITE_ALIVE" ELSE "WRITE_OVER"]

\* HttpResponse::OnWriteable: how much is read, and the WriteStatus.
ReadChunk(resp) ==
  LET left == resp.len - resp.pos
  IN [size   |-> IF left < Chunk THEN left ELSE Chunk,
      status |-> IF left >= Chunk THEN "WRITE_CONTINUE"
                 ELSE IF resp.keep THEN "WRITE_ALIVE" ELSE "WRITE_OVER"]

\* MUTANT: no Rollback after a partial send.
Advance_NoRollback(resp, n) == [resp EXCEPT !.pos = @ + ReadChunk(resp).size]

\* The read position after n units were sent: Rollback takes back the rest.
Advance(resp, n) == [resp EXCEPT !.pos = @ + n]

\* OnWriteable: n units were sent.  The status was computed before the send.
AfterSend(r, n) ==
  LET status == ReadChunk(r.resp).status
      sent   == [r EXCEPT !.resp = Advance(r.resp, n), !.got = @ + n]
  IN CASE status = "WRITE_CONTINUE" -> Rearm(sent, "out")
       [] status = "WRITE_OVER" -> Close([sent EXCEPT !.over = "over"])
       [] status = "WRITE_ALIVE" ->
            Rearm(IF n > 0 THEN [sent EXCEPT !.over = "alive", !.req = FreshRequest]
                  ELSE [sent EXCEPT !.over = "alive"], "in")

\* handle_writeable_event: one send.
HandleWriteable(c) ==
  /\ up /\ Open(c) /\ conn[c].edge /\ conn[c].arm = "out"
  /\ UNCHANGED up
  /\ IF conn[c].rst
       THEN Set(c, Close(conn[c]))          \* send fails: WRITE_ERROR
       ELSE LET size == ReadChunk(conn[c].resp).size
            IN \E n \in (IF size = 0 THEN {0} ELSE 1..size), room \in BOOLEAN :
                 /\ n < size => ~room
                 /\ Set(c, AfterSend([conn[c] EXCEPT !.room = room], n))

\* epoll_wait fails, be it with EINTR: the loop ends.
LoopEnds == /\ up
            /\ up' = FALSE
            /\ UNCHANGED conn
-----------------------------------------------------------------------------
ServerStep(c) == Accept(c) \/ HandleReadable(c) \/ HandleWriteable(c)

ClientStep(c) == Connect(c) \/ SendToken(c) \/ Fin(c) \/ Reset(c) \/ Drain(c)

Next == \/ \E c \in Conns : ServerStep(c) \/ AcceptFails(c) \/ ClientStep(c)
        \/ LoopEnds

\* The loop serves every connection that has an event, and clients read what
\* they are sent.  Clients need not send or close.
Fairness == \A c \in Conns : WF_vars(ServerStep(c)) /\ WF_vars(Drain(c))

Spec == Init /\ [][Next]_vars /\ Fairness
-----------------------------------------------------------------------------
\* The type invariant of the connections.
TypeOK ==
  /\ up \in BOOLEAN
  /\ \A c \in Conns :
       /\ conn[c].st \in {"new", "backlog", "open", "closed"}
       /\ conn[c].arm \in {"in", "out"}
       /\ conn[c].over \in {"no", "over", "alive"}
       /\ conn[c].req.total \in 0..MaxReq
       /\ conn[c].resp.pos \in 0..conn[c].resp.len
       /\ {conn[c].fin, conn[c].rst, conn[c].room, conn[c].edge} \subseteq BOOLEAN

\* Partial sends neither repeat nor skip a unit: between two sends the read
\* position is exactly what the socket has taken.
CursorTracksSocket ==
  \A c \in Conns : Open(c) /\ conn[c].arm = "out" =>
                     conn[c].resp.pos = conn[c].got

\* "WRITE_OVER = 0, // write done, we will close the connection": not always, but
\* a response that is ended early lacks less than one chunk, the part of the last
\* chunk a partial send left over.
OnlyLastChunkCut ==
  \A c \in Conns : conn[c].over # "no" /\ conn[c].got # conn[c].resp.len
      => conn[c].resp.len - conn[c].got < Chunk

\* No edge is lost: a connection armed for something that is there has an
\* event due, although events are edge-triggered and a handler reads once.
NoLostEdge ==
  \A c \in Conns : Open(c) =>
     /\ conn[c].arm = "in" /\ (conn[c].inq # <<>> \/ conn[c].fin) => conn[c].edge
     /\ conn[c].arm = "out" /\ conn[c].room => conn[c].edge

\* The client has sent all it will send, a whole request is at hand, and the
\* parser can take it.
RequestAtHand(c) == /\ Open(c) /\ conn[c].arm = "in"
                    /\ conn[c].script = <<>> /\ conn[c].inq # <<>>
                    /\ Last(conn[c].inq) = "end" /\ ~conn[c].req.failed

\* Every request at hand is answered to the end of its response, or the
\* connection is closed, as long as the loop runs.
Answered ==
  \A c \in Conns :
     /\ RequestAtHand(c) ~> (conn[c].arm = "out" \/ ~Open(c) \/ ~up)
     /\ conn[c].arm = "out" ~> (conn[c].arm = "in" \/ ~Open(c) \/ ~up)
=============================================================================
