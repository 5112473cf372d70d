------------------------------- MODULE TcpChat -------------------------------
(***************************************************************************)
(* The TCP server and its clients together.  The environment of TcpServer  *)
(* is made of TcpClients here: a client's connection ends only when its    *)
(* process does, since Disconnect does not close it, and a socket takes no *)
(* more than SockCap units that its client has not read.                   *)
(***************************************************************************)
EXTENDS TcpServer

CONSTANTS Process, BufCap, Newlines, Nul, Garbage,   \* see TcpClient
          SockCap    \* units a client's socket holds

\* No unit that a client sends is a zero byte.
ASSUME ChatAssumption == /\ {BufCap, SockCap} \subseteq Nat \ {0}
                         /\ Nul \notin Clients \X Nat

VARIABLES rpc, taken, n, buffer, isStop, printed, mixed, over

hup == proc = "exit"

Peer == INSTANCE TcpClient

server == vars
clients == <<rpc, taken, n, buffer, isStop, printed, mixed, over>>
all == <<vars, clients>>

ChatInit == Init /\ Peer!Init
-----------------------------------------------------------------------------
(***************************************************************************)
(* Steps that both ends take part in.                                      *)
(***************************************************************************)
ChatConnect(c) == Connect(c) /\ Peer!Connect(c)

\* The process of client c ends and the kernel closes its sockets.
Ends(c) == Peer!Exit(c) /\ ClientClose(Peer!Siblings(c))

\* connect is refused once the server is gone.
ConnectFails(c) == hup /\ rpc[c] = "none" /\ Ends(c)

\* TcpClient::Send; also after Disconnect.
Send(c) == /\ Peer!Alive(c) /\ rpc[c] # "none"
           /\ ClientSend(c)
           /\ UNCHANGED clients

\* select, read or write fails, or the program ends.
ClientEnds(c) == rpc[c] # "none" /\ Ends(c)

\* read returns 0, or -1 after a reset.
PeerClosed(c) == Peer!PeerClosed(c) /\ ClientClose(Peer!Siblings(c))

\* Room in the socket of d; data for a closed socket is thrown away.
Room(d) == IF d \in fin THEN ReadCap ELSE SockCap - (Len(out[d]) - taken[d])

\* A write takes what there is room for.
Taken(c) == [d \in Others(c) |-> IF Room(d) < ReadSize(c) THEN Room(d) ELSE ReadSize(c)]

Relay(c) == ForwardTo(c, Taken(c)) /\ UNCHANGED clients

\* The write to d fails: its socket is full, or was closed and has answered
\* with a reset.  The table has no order: any of the others come before d.
RelayFails(c) == /\ \E d \in Others(c), before \in SUBSET Others(c) :
                      /\ Room(d) = 0 \/ d \in fin
                      /\ d \notin before
                      /\ ForwardFailsTo(c, [e \in Others(c) |->
                                              IF e \in before THEN Taken(c)[e] ELSE 0])
                 /\ UNCHANGED clients
-----------------------------------------------------------------------------
ServerSide(c) == (Accept(c) \/ Disconnected(c)) /\ UNCHANGED clients

ClientSide(c) == (Peer!Receive(c) /\ UNCHANGED server) \/ PeerClosed(c)

ChatNext ==
  \/ \E c \in Clients : \/ ChatConnect(c) \/ ConnectFails(c)
                        \/ Send(c) \/ ClientEnds(c)
                        \/ ServerSide(c) \/ Relay(c) \/ RelayFails(c)
                        \/ ClientSide(c)
                        \/ Peer!Disconnect(c) /\ UNCHANGED server
  \/ (CallFails \/ Stop \/ LoopEnds) /\ UNCHANGED clients

\* Both loops run: select and epoll_wait return within a second.
ChatSpec == /\ ChatInit /\ [][ChatNext]_all
            /\ \A c \in Clients : /\ WF_all(ServerSide(c) \/ Relay(c) \/ RelayFails(c))
                                  /\ WF_all(ClientSide(c))
            /\ WF_all(LoopEnds /\ UNCHANGED clients)
-----------------------------------------------------------------------------
\* What client c has read and is through with.
Done(c) == SubSeq(out[c], 1, IF rpc[c] \in {"end", "split"} THEN taken[c] - n[c]
                             ELSE taken[c])

\* A client prints exactly what it has read, whole and in order, however the
\* stream is cut into reads, unless another client of its process has used
\* the static buffer meanwhile, or a read has filled the buffer.
PrintsWhatItReads ==
  \A c \in Clients \ (mixed \cup over) : printed[c] = Peer!Lines(Done(c))

\* Every join returns.  Stop of the server does; a client's receive thread ends
\* when Disconnect is called, whatever the server does or does not send, and
\* ends with its process when the server's process has ended.
JoinsReturn ==
  /\ StopReturns
  /\ \A c \in Clients : c \in isStop \/ (hup /\ rpc[c] # "none")
                            ~> rpc[c] \in {"joined", "exited"}
=============================================================================
