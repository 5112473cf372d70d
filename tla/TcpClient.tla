------------------------------ MODULE TcpClient ------------------------------
(***************************************************************************)
(* tcp::TcpClient (src/tcp/tcp_client): a thread per client that waits at  *)
(* most a second for data, reads it into a buffer, cuts it at newlines and *)
(* prints the pieces; Disconnect, which stops the thread.  The buffer is a *)
(* static variable, one for all clients of a process, and every failure    *)
(* ends the process.                                                       *)
(*                                                                         *)
(* The socket is given by out, all that the server has written to it, and  *)
(* hup, which tells that the server is gone.                               *)
(***************************************************************************)
EXTENDS Naturals, Sequences

CONSTANTS Clients,
          Process,    \* Process[c]: the process of client c
          BufCap,     \* kMaxBufferSize, in units
          Newlines,   \* the units that are a newline ...
          Nul,        \* ... and the zero byte
          Garbage     \* whatever lies behind the buffer

VARIABLES out,      \* out[c]: everything written to c's socket
          hup,      \* the server's process has ended
          rpc,      \* recv_thread_: "none", "loop", "read", "end" (of the
                    \* buffer), "split", "returned", "joined"; "exited"
                    \* with its process
          taken,    \* taken[c]: how much of out[c] c has read
          n,        \* nbytes of c, 0 outside its scope
          buffer,   \* buffer[p]: the static buffer of process p
          isStop,   \* clients whose is_stop_ is set
          printed,  \* printed[c]: the units c has printed
          mixed,    \* history: clients whose buffer another one has used
          over      \* history: clients that wrote the zero behind the buffer

Processes == {Process[c] : c \in Clients}
Empty == [i \in 1..BufCap |-> Nul]

Init == /\ rpc = [c \in Clients |-> "none"]
        /\ taken = [c \in Clients |-> 0]
        /\ n = [c \in Clients |-> 0]
        /\ buffer = [p \in Processes |-> Empty]
        /\ isStop = {}
        /\ printed = [c \in Clients |-> <<>>]
        /\ mixed = {} /\ over = {}

Alive(c) == rpc[c] # "exited"
At(c, l) == rpc[c] = l
Goto(c, l) == rpc' = [rpc EXCEPT ![c] = l]

Unread(c) == Len(out[c]) - taken[c]
-----------------------------------------------------------------------------
\* Connect succeeded: the thread is started.
Connect(c) == /\ At(c, "none")
              /\ Goto(c, "loop")
              /\ UNCHANGED <<taken, n, buffer, isStop, printed,
                             mixed, over>>

Siblings(c) == {d \in Clients : Process[d] = Process[c]}

\* exit(EXIT_FAILURE): the process of c ends, with all its clients, and what
\* they knew is gone.
Exit(c) == LET Keep(f, init) == [d \in Clients |-> IF d \in Siblings(c) THEN init
                                                   ELSE f[d]]
           IN /\ Alive(c)
              /\ rpc' = Keep(rpc, "exited")
              /\ taken' = Keep(taken, 0) /\ n' = Keep(n, 0)
              /\ printed' = Keep(printed, <<>>)
              /\ buffer' = [buffer EXCEPT ![Process[c]] = Empty]
              /\ isStop' = isStop \ Siblings(c)
              /\ mixed' = mixed \ Siblings(c) /\ over' = over \ Siblings(c)

\* Clients of the same process that have data of their own in the buffer.
Sharing(c) == {d \in Siblings(c) \ {c} : rpc[d] \in {"read", "end", "split"}}

\* Client c changes the buffer.
Fill(c, b) == /\ buffer' = [buffer EXCEPT ![Process[c]] = b]
              /\ mixed' = mixed \cup Sharing(c)

\* MUTANT: select waits without a timeout.
Return_OnData(c) == /\ At(c, "loop") /\ c \in isStop
                    /\ Unread(c) > 0 \/ hup
                    /\ Goto(c, "returned")
                    /\ UNCHANGED <<taken, n, buffer, isStop, printed, mixed, over>>

\* while (!is_stop_)
Return(c) == /\ At(c, "loop") /\ c \in isStop
             /\ Goto(c, "returned")
             /\ UNCHANGED <<taken, n, buffer, isStop, printed, mixed, over>>

\* select reports data or the end of the connection; the buffer is cleared.
\* After a second without either the loop begins again.
Clear(c) == /\ At(c, "loop") /\ c \notin isStop
            /\ Unread(c) > 0 \/ hup
            /\ Fill(c, Empty)
            /\ Goto(c, "read")
            /\ UNCHANGED <<taken, n, isStop, printed, over>>

ReadSize(c) == IF Unread(c) < BufCap THEN Unread(c) ELSE BufCap

\* read returns data.
Read(c) == /\ At(c, "read") /\ Unread(c) > 0
           /\ n' = [n EXCEPT ![c] = ReadSize(c)]
           /\ taken' = [taken EXCEPT ![c] = @ + ReadSize(c)]
           /\ Fill(c, [i \in 1..BufCap |->
                         IF i <= ReadSize(c) THEN out[c][taken[c] + i]
                         ELSE buffer[Process[c]][i]])
           /\ Goto(c, "end")
           /\ UNCHANGED <<isStop, printed, over>>

\* MUTANT: an empty read is taken for no data yet.
PeerClosed_Retry(c) == /\ At(c, "read") /\ hup
                       /\ Goto(c, "loop")
                       /\ UNCHANGED <<taken, n, buffer, isStop, printed,
                                      mixed, over>>

\* read returns 0, or -1 after a reset.
PeerClosed(c) == At(c, "read") /\ hup /\ Exit(c)

\* MUTANT: the zero overwrites the last unit.
Terminate_Early(c) == /\ At(c, "end")
                      /\ Fill(c, [buffer[Process[c]] EXCEPT ![n[c]] = Nul])
                      /\ Goto(c, "split")
                      /\ UNCHANGED <<taken, n, isStop, printed, over>>

\* buffer[nbytes] = '\0', behind the buffer if the read has filled it.
Terminate(c) == /\ At(c, "end")
                /\ \/ /\ n[c] < BufCap
                      /\ Fill(c, [buffer[Process[c]] EXCEPT ![n[c] + 1] = Nul])
                      /\ UNCHANGED over
                   \/ /\ n[c] = BufCap
                      /\ over' = over \cup {c}
                      /\ UNCHANGED <<buffer, mixed>>
                /\ Goto(c, "split")
                /\ UNCHANGED <<taken, n, isStop, printed>>

\* The C string in the buffer: up to the first zero, or to one behind the end.
Strings(b) == IF \E i \in 1..BufCap : b[i] = Nul
                THEN LET z == CHOOSE i \in 1..BufCap :
                                 b[i] = Nul /\ \A j \in 1..(i - 1) : b[j] # Nul
                     IN {SubSeq(b, 1, z - 1)}
                ELSE {b, Append(b, Garbage)}

\* Split: the pieces between newlines, in a row.
Lines(s) == LET pieces[i \in 0..Len(s)] ==
                  IF i = 0 THEN <<>>
                  ELSE IF s[i] \in Newlines THEN pieces[i - 1]
                  ELSE pieces[i - 1] \o <<s[i]>>
            IN pieces[Len(s)]

Output(c) == /\ At(c, "split")
             /\ \E s \in Strings(buffer[Process[c]]) :
                  printed' = [printed EXCEPT ![c] = @ \o Lines(s)]
             /\ n' = [n EXCEPT ![c] = 0]
             /\ Goto(c, "loop")
             /\ UNCHANGED <<taken, buffer, isStop, mixed, over>>
-----------------------------------------------------------------------------
\* Disconnect: set the flag ...
Disconnect(c) == /\ Alive(c) /\ rpc[c] # "none" /\ c \notin isStop
                 /\ isStop' = isStop \cup {c}
                 /\ UNCHANGED <<rpc, taken, n, buffer, printed, mixed, over>>

\* ... and join.  The socket stays open.
Joined(c) == /\ At(c, "returned")
             /\ Goto(c, "joined")
             /\ UNCHANGED <<taken, n, buffer, isStop, printed, mixed, over>>
-----------------------------------------------------------------------------
Receive(c) == Return(c) \/ Clear(c) \/ Read(c) \/ Terminate(c) \/ Output(c) \/ Joined(c)
=============================================================================
