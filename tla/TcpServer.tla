------------------------------ MODULE TcpServer ------------------------------
(***************************************************************************)
(* tcp::TcpServer (src/tcp/tcp_server): a relay.  One thread waits on      *)
(* epoll, accepts clients, and forwards what it reads from one client to   *)
(* all others.  Client sockets are edge-triggered and non-blocking; one    *)
(* event leads to one read of at most ReadCap units and nothing arms the   *)
(* socket again.                                                           *)
(*                                                                         *)
(* Clients are modelled by their sockets: client c sends units 1, 2, ...   *)
(* in writes of one or more units.  TcpChat puts the server together with  *)
(* the clients of TcpClient.                                               *)
(***************************************************************************)
EXTENDS Naturals, Sequences, FiniteSets

CONSTANTS Clients,
          ReadCap,    \* kReadBufferSize, in units
          Units,      \* bound: Units[c], the units client c sends in all
          MaxWrite    \* units in one write of a client

ASSUME TcpAssumption == /\ Units \in [Clients -> Nat]
                        /\ {ReadCap, MaxWrite} \subseteq Nat \ {0}

VARIABLES st,      \* st[c]: "new", "backlog", "open", "closed"
          sent,    \* units client c has sent
          inq,     \* units of c that the server has not read
          fin,     \* clients that have closed their end
          edge,    \* clients with an epoll event due
          full,    \* clients whose last read filled the buffer
          out,     \* out[c]: what was written to c, as <<sender, unit>>
          stop,    \* is_stop_
          proc     \* "run", "joined" (thread ended), "exit" (process ended)

vars == <<st, sent, inq, fin, edge, full, out, stop, proc>>

Init == /\ st = [c \in Clients |-> "new"]
        /\ sent = [c \in Clients |-> 0]
        /\ inq = [c \in Clients |-> <<>>]
        /\ fin = {} /\ edge = {} /\ full = {}
        /\ out = [c \in Clients |-> <<>>]
        /\ stop = FALSE
        /\ proc = "run"

\* sock_fd_to_client_addr_ without the sender.
Others(c) == {d \in Clients \ {c} : st[d] = "open"}

Span(c, from, to) == [i \in 1..(to - from + 1) |-> <<c, from + i - 1>>]
-----------------------------------------------------------------------------
(***************************************************************************)
(* The clients and the kernel, for as long as there is a server.           *)
(***************************************************************************)
Connect(c) == /\ proc = "run" /\ st[c] = "new"
              /\ st' = [st EXCEPT ![c] = "backlog"]
              /\ UNCHANGED <<sent, inq, fin, edge, full, out, stop, proc>>

Connected(c) == proc = "run" /\ st[c] \in {"backlog", "open"} /\ c \notin fin

\* What arrives raises an edge on a registered socket.
Raise(C) == edge' = edge \cup {c \in C : st[c] = "open"}

ClientSend(c) == /\ Connected(c)
                 /\ \E k \in 1..MaxWrite :
                      /\ sent[c] + k <= Units[c]
                      /\ sent' = [sent EXCEPT ![c] = @ + k]
                      /\ inq' = [inq EXCEPT ![c] =
                                   @ \o Span(c, sent[c] + 1, sent[c] + k)]
                 /\ Raise({c})
                 /\ UNCHANGED <<st, fin, full, out, stop, proc>>

\* The clients C close their sockets.
ClientClose(C) == LET connected == {c \in C : Connected(c)}
                  IN /\ fin' = fin \cup connected
                     /\ Raise(connected)
                     /\ UNCHANGED <<st, sent, inq, full, out, stop, proc>>
-----------------------------------------------------------------------------
(***************************************************************************)
(* The server's thread.                                                    *)
(***************************************************************************)

\* accept_event_handler: the socket enters the table and epoll, which reports
\* at once what has already arrived.
Accept(c) == /\ proc = "run" /\ st[c] = "backlog"
             /\ st' = [st EXCEPT ![c] = "open"]
             /\ edge' = IF inq[c] # <<>> \/ c \in fin THEN edge \cup {c} ELSE edge
             /\ UNCHANGED <<sent, inq, fin, full, out, stop, proc>>

\* MUTANT: the read leaves out the last place of the buffer.
ReadSize_OneLess(c) == IF Len(inq[c]) < ReadCap THEN Len(inq[c]) ELSE ReadCap - 1

ReadSize(c) == IF Len(inq[c]) < ReadCap THEN Len(inq[c]) ELSE ReadCap

\* read returns 0: the client is taken out of the table, its socket closed.
Disconnected(c) == /\ proc = "run" /\ c \in edge
                   /\ inq[c] = <<>> /\ c \in fin
                   /\ st' = [st EXCEPT ![c] = "closed"]
                   /\ edge' = edge \ {c}
                   /\ UNCHANGED <<sent, inq, fin, full, out, stop, proc>>

\* What is left of the socket's input after the read.
Consume(c) == /\ inq' = [inq EXCEPT ![c] = SubSeq(@, ReadSize(c) + 1, Len(@))]
              /\ full' = IF ReadSize(c) = ReadCap THEN full \cup {c}
                         ELSE full \ {c}
              /\ edge' = edge \ {c}

\* MUTANT: a client whose write came up short gets the whole buffer again.
Written_Twice(c, got) ==
  out' = [d \in Clients |->
            IF d \in Others(c) /\ got[d] < ReadSize(c)
              THEN out[d] \o SubSeq(inq[c], 1, got[d]) \o SubSeq(inq[c], 1, ReadSize(c))
            ELSE IF d \in Others(c) THEN out[d] \o SubSeq(inq[c], 1, got[d])
            ELSE out[d]]

\* Client d takes the first got[d] units; a short write goes unnoticed.
Written(c, got) ==
  out' = [d \in Clients |-> IF d \in Others(c)
                              THEN out[d] \o SubSeq(inq[c], 1, got[d])
                              ELSE out[d]]

\* The message is written to every other client.
ForwardTo(c, got) == /\ proc = "run" /\ c \in edge
                     /\ inq[c] # <<>>
                     /\ \A d \in Others(c) : got[d] > 0
                     /\ Consume(c)
                     /\ Written(c, got)
                     /\ UNCHANGED <<st, sent, fin, stop, proc>>

\* A write fails (the peer is gone, or its buffer is full): exit(EXIT_FAILURE)
\* after some of the others have got the message.
ForwardFailsTo(c, got) == /\ proc = "run" /\ c \in edge
                          /\ inq[c] # <<>>
                          /\ \E d \in Others(c) : got[d] = 0
                          /\ Consume(c)
                          /\ Written(c, got)
                          /\ proc' = "exit"
                          /\ UNCHANGED <<st, sent, fin, stop>>

\* accept, read, fcntl, epoll_ctl or epoll_wait fails: exit(EXIT_FAILURE).
CallFails == /\ proc = "run"
             /\ proc' = "exit"
             /\ UNCHANGED <<st, sent, inq, fin, edge, full, out, stop>>
-----------------------------------------------------------------------------
\* Stop: set the flag; join returns when the thread has ended.
Stop == /\ proc = "run" /\ ~stop
        /\ stop' = TRUE
        /\ UNCHANGED <<st, sent, inq, fin, edge, full, out, proc>>

\* MUTANT: epoll_wait without a timeout: the flag is seen after an event only.
LoopEnds_OnEvent == /\ proc = "run" /\ stop
                    /\ edge # {}
                    /\ proc' = "joined"
                    /\ UNCHANGED <<st, sent, inq, fin, edge, full, out, stop>>

\* epoll_wait returns after an event or one second; the flag ends the loop.
LoopEnds == /\ proc = "run" /\ stop
            /\ proc' = "joined"
            /\ UNCHANGED <<st, sent, inq, fin, edge, full, out, stop>>
-----------------------------------------------------------------------------
\* No receiver gets a sender's units twice or out of order, whatever other
\* senders are interleaved and however short the writes are.
RelayInOrder ==
  \A d \in Clients : \A i, j \in 1..Len(out[d]) :
     i < j /\ out[d][i][1] = out[d][j][1] => out[d][i][2] < out[d][j][2]

\* A client's data lies unread without an event due only behind a read that
\* filled the buffer: writes that fit the buffer and are read one by one are
\* never held up by the edge-triggered registration.
StallNeedsFullRead ==
  \A c \in Clients :
     st[c] = "open" /\ inq[c] # <<>> /\ c \notin edge => c \in full

\* Stop returns: the thread looks at is_stop_ at least once a second.
StopReturns == stop ~> proc # "run"
=============================================================================
