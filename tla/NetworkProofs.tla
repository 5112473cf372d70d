---------------------------- MODULE NetworkProofs ----------------------------
(***************************************************************************)
(* Proofs about the network components.                                    *)
(*                                                                         *)
(* The relay server, in the composition with its clients, for any number   *)
(* of clients in any processes, any amount of data and any sizes of        *)
(* writes, reads and sockets; and the redis client, for any number of      *)
(* calls, keys, values, connections and commands in a pipeline.            *)
(***************************************************************************)
EXTENDS TcpChat, RedisProxy, Integers, SequenceTheorems,
        WellFoundedInduction, TLAPS

Unit == Clients \X Nat

Types == /\ st \in [Clients -> {"new", "backlog", "open", "closed"}]
         /\ sent \in [Clients -> Nat]
         /\ inq \in [Clients -> Seq(Unit)]
         /\ edge \subseteq Clients /\ full \subseteq Clients
         /\ out \in [Clients -> Seq(Unit)]
         /\ taken \in [Clients -> Int]

\* The last unit of c that the server has read.
LastRead(c) == sent[c] - Len(inq[c])

\* The input of a socket is what its client has sent last, in order.
InputInOrder ==
  \A c \in Clients : \A i \in 1..Len(inq[c]) :
     inq[c][i] = <<c, LastRead(c) + i>>

\* Nothing is written to a client that the server has not read.
OutputRead ==
  \A d \in Clients : \A i \in 1..Len(out[d]) :
     out[d][i][2] <= LastRead(out[d][i][1])

Inv == /\ Types /\ InputInOrder /\ OutputRead
       /\ RelayInOrder /\ StallNeedsFullRead
-----------------------------------------------------------------------------
\* What writing the first g units of an input to a socket appends to it.
LEMMA WrittenSeq ==
  ASSUME NEW o \in Seq(Unit), NEW q \in Seq(Unit), NEW g \in Int, g <= Len(q)
  PROVE  LET r == o \o SubSeq(q, 1, g)
         IN /\ r \in Seq(Unit) /\ Len(r) \in Nat /\ Len(o) <= Len(r)
            /\ \A i \in 1..Len(o) : r[i] = o[i]
            /\ \A i \in (Len(o) + 1)..Len(r) :
                  /\ i - Len(o) \in 1..Len(q) /\ i - Len(o) <= g
                  /\ r[i] = q[i - Len(o)]
<1>1. Len(q) \in Nat /\ Len(o) \in Nat
  BY LenProperties
<1>2. \A i \in 1..g : i \in 1..Len(q)
  BY <1>1
<1>3. \A i \in 1..g : q[i] \in Unit
  BY <1>2, ElementOfSeq
<1> DEFINE p == SubSeq(q, 1, g)
<1>4. /\ p \in Seq(Unit) /\ Len(p) = IF 1 <= g THEN g ELSE 0
      /\ \A i \in 1..g : p[i] = q[i]
  <2>1. /\ p \in Seq(Unit)
        /\ Len(p) = IF 1 <= g THEN g - 1 + 1 ELSE 0
        /\ \A i \in 1..(g - 1 + 1) : p[i] = q[1 + i - 1]
    BY <1>3, SubSeqProperties
  <2> HIDE DEF p
  <2> QED BY <2>1
<1> HIDE DEF p
<1>5. /\ o \o p \in Seq(Unit)
      /\ Len(o \o p) = Len(o) + Len(p)
      /\ \A i \in 1..Len(o) + Len(p) :
            (o \o p)[i] = IF i <= Len(o) THEN o[i] ELSE p[i - Len(o)]
  BY <1>4, ConcatProperties
<1> DEFINE r == o \o p
<1> HIDE DEF r
<1>6. /\ r \in Seq(Unit) /\ Len(r) \in Nat /\ Len(o) <= Len(r)
      /\ \A i \in 1..Len(o) : r[i] = o[i]
  BY <1>1, <1>4, <1>5 DEF r
<1>7. ASSUME NEW i \in (Len(o) + 1)..Len(r)
      PROVE  /\ i - Len(o) \in 1..Len(q) /\ i - Len(o) <= g
             /\ r[i] = q[i - Len(o)]
  <2>1. i - Len(o) \in 1..g /\ i \in 1..(Len(o) + Len(p)) /\ ~(i <= Len(o))
    BY <1>1, <1>4, <1>5 DEF r
  <2>2. i - Len(o) <= g
    BY <1>1, <2>1
  <2> QED BY <1>2, <1>4, <1>5, <2>1, <2>2 DEF r
<1> QED BY <1>6, <1>7 DEF r, p

\* What is left of an input after k units have been read.
LEMMA RestSeq ==
  ASSUME NEW q \in Seq(Unit), NEW k \in Nat, k <= Len(q)
  PROVE  LET r == SubSeq(q, k + 1, Len(q))
         IN /\ r \in Seq(Unit) /\ Len(r) = Len(q) - k
            /\ \A i \in 1..Len(r) : k + i \in 1..Len(q) /\ r[i] = q[k + i]
<1>1. Len(q) \in Nat
  BY LenProperties
<1>2. \A i \in (k + 1)..Len(q) : q[i] \in Unit
  BY <1>1, ElementOfSeq
<1> DEFINE r == SubSeq(q, k + 1, Len(q))
<1>3. /\ r \in Seq(Unit)
      /\ Len(r) = IF k + 1 <= Len(q) THEN Len(q) - (k + 1) + 1 ELSE 0
      /\ \A i \in 1..(Len(q) - (k + 1) + 1) : r[i] = q[(k + 1) + i - 1]
  BY <1>1, <1>2, SubSeqProperties
<1> HIDE DEF r
<1>4. Len(r) = Len(q) - k
  <2> DEFINE l == Len(q)
  <2>1. l \in Nat /\ k <= l /\ Len(r) = IF k + 1 <= l THEN l - (k + 1) + 1 ELSE 0
    BY <1>1, <1>3
  <2> HIDE DEF l
  <2>2. Len(r) = l - k
    BY <2>1
  <2> QED BY <2>2 DEF l
<1>5. \A i \in 1..Len(r) : /\ i \in 1..(Len(q) - (k + 1) + 1)
                           /\ k + i \in 1..Len(q) /\ (k + 1) + i - 1 = k + i
  BY <1>1, <1>4
<1> QED BY <1>3, <1>4, <1>5 DEF r

\* What a write of a client appends to its input.
LEMMA SentSeq ==
  ASSUME NEW c \in Clients, NEW q \in Seq(Unit), NEW s \in Nat, NEW k \in Nat
  PROVE  LET r == q \o Span(c, s + 1, s + k)
         IN /\ r \in Seq(Unit) /\ Len(r) = Len(q) + k
            /\ \A i \in 1..Len(q) : r[i] = q[i]
            /\ \A i \in (Len(q) + 1)..Len(r) : r[i] = <<c, s + (i - Len(q))>>
<1>1. Len(q) \in Nat
  BY LenProperties
<1> DEFINE p == Span(c, s + 1, s + k)
<1>2. p = [i \in 1..k |-> <<c, s + i>>]
  BY DEF Span
<1>3. p \in [1..k -> Unit]
  BY <1>2 DEF Unit
<1> HIDE DEF p
<1>4. p \in Seq(Unit)
  BY <1>3, SeqDef
<1>5. Len(p) = k
  BY <1>3, <1>4, LenProperties
<1>6. /\ q \o p \in Seq(Unit)
      /\ Len(q \o p) = Len(q) + Len(p)
      /\ \A i \in 1..Len(q) + Len(p) :
            (q \o p)[i] = IF i <= Len(q) THEN q[i] ELSE p[i - Len(q)]
  BY <1>4, ConcatProperties
<1>7. \A i \in 1..Len(q) : (q \o p)[i] = q[i]
  BY <1>1, <1>5, <1>6
<1>8. ASSUME NEW i \in (Len(q) + 1)..(Len(q) + k)
      PROVE  (q \o p)[i] = <<c, s + (i - Len(q))>>
  <2>1. i - Len(q) \in 1..k /\ i \in 1..(Len(q) + Len(p)) /\ ~(i <= Len(q))
    BY <1>1, <1>5
  <2> QED BY <1>2, <1>6, <2>1 DEF p
<1> QED BY <1>5, <1>6, <1>7, <1>8 DEF p
-----------------------------------------------------------------------------
\* The invariant holds initially.
LEMMA InitInv == ChatInit => Inv
<1> SUFFICES ASSUME ChatInit PROVE Inv
  OBVIOUS
<1> USE DEF ChatInit, Init, Peer!Init
<1>1. <<>> \in Seq(Unit) /\ Len(<<>>) = 0
  BY EmptySeq
<1>2. Types
  BY <1>1 DEF Types
<1>3. \A c \in Clients : 1..Len(inq[c]) = {} /\ 1..Len(out[c]) = {}
  BY <1>1
<1> QED BY <1>2, <1>3 DEF Inv, InputInOrder, OutputRead, RelayInOrder,
                          StallNeedsFullRead

\* A step that moves no unit leaves the order of the units alone.
LEMMA NothingMoved ==
  ASSUME Inv, UNCHANGED <<sent, inq, out>>
  PROVE  InputInOrder' /\ OutputRead' /\ RelayInOrder'
  BY DEF Inv, InputInOrder, OutputRead, RelayInOrder, LastRead

\* A client's write preserves the invariant.
LEMMA SendInv ==
  ASSUME Inv, NEW c \in Clients, ClientSend(c), UNCHANGED taken
  PROVE  Inv'
<1> USE DEF Inv, Types
<1>1. PICK k \in 1..MaxWrite :
         /\ sent' = [sent EXCEPT ![c] = @ + k]
         /\ inq' = [inq EXCEPT ![c] = @ \o Span(c, sent[c] + 1, sent[c] + k)]
  BY DEF ClientSend
<1>2. k \in Nat \ {0}
  BY TcpAssumption
<1> DEFINE q == inq[c]
           s == sent[c]
           r == q \o Span(c, s + 1, s + k)
<1>3. q \in Seq(Unit) /\ Len(q) \in Nat /\ s \in Nat
  BY LenProperties
<1> HIDE DEF q, s
<1>4. /\ r \in Seq(Unit) /\ Len(r) = Len(q) + k
      /\ \A i \in 1..Len(q) : r[i] = q[i]
      /\ \A i \in (Len(q) + 1)..Len(r) : r[i] = <<c, s + (i - Len(q))>>
  <2>1. k \in Nat
    BY <1>2
  <2> QED BY <2>1, <1>3, SentSeq
<1> HIDE DEF r
<1>5. /\ inq' = [inq EXCEPT ![c] = r] /\ inq'[c] = r
      /\ sent' = [sent EXCEPT ![c] = s + k] /\ sent'[c] = s + k
  BY <1>1 DEF r, q, s
<1>6. UNCHANGED <<st, full, out>> /\ edge' = edge \cup {d \in {c} : st[d] = "open"}
  BY DEF ClientSend, Raise
<1>7. Types'
  <2>1. s + k \in Nat
    BY <1>2, <1>3
  <2> QED BY <1>4, <1>5, <1>6, <2>1
<1>8. \A d \in Clients : LastRead(d)' = LastRead(d)
  <2>1. (s + k) - Len(r) = s - Len(q)
    BY <1>2, <1>3, <1>4
  <2>2. \A d \in Clients \ {c} : sent'[d] = sent[d] /\ inq'[d] = inq[d]
    BY <1>5
  <2> QED BY <1>5, <2>1, <2>2 DEF LastRead, q, s
<1>9. InputInOrder'
  <2>1. ASSUME NEW i \in 1..Len(r) PROVE r[i] = <<c, LastRead(c) + i>>
    <3>1. CASE i \in 1..Len(q)
      BY <1>4, <3>1 DEF InputInOrder, q
    <3>2. CASE i \in (Len(q) + 1)..Len(r)
      <4>1. s + (i - Len(q)) = s - Len(q) + i
        BY <1>3, <3>2
      <4> QED BY <1>4, <3>2, <4>1 DEF LastRead, q, s
    <3> QED BY <1>2, <1>3, <1>4, <3>1, <3>2
  <2> QED BY <1>5, <1>8, <2>1 DEF InputInOrder
<1>10. OutputRead'
  <2>1. ASSUME NEW d \in Clients, NEW i \in 1..Len(out[d])
        PROVE  out[d][i][1] \in Clients
    BY ElementOfSeq DEF Unit
  <2> QED BY <1>6, <1>8, <2>1 DEF OutputRead
<1>11. RelayInOrder'
  BY <1>6 DEF RelayInOrder
<1>12. StallNeedsFullRead'
  BY <1>5, <1>6 DEF StallNeedsFullRead
<1> QED BY <1>7, <1>9, <1>10, <1>11, <1>12

\* A read of the server and its writes, whole, short or cut off by a failure,
\* preserve the invariant.
LEMMA ForwardInv ==
  ASSUME Inv, NEW c \in Clients, NEW got,
         \A d \in Others(c) : got[d] \in Int /\ got[d] <= ReadSize(c),
         Consume(c), Written(c, got), UNCHANGED <<st, sent, taken>>
  PROVE  Inv'
<1> USE DEF Inv, Types
<1> DEFINE q == inq[c]
           k == ReadSize(c)
           rest == SubSeq(q, k + 1, Len(q))
<1>1. q \in Seq(Unit) /\ Len(q) \in Nat /\ sent[c] \in Nat
  BY LenProperties
<1>2. k \in Nat /\ k <= Len(q) /\ (k # ReadCap => k = Len(q))
  BY <1>1, TcpAssumption DEF ReadSize
<1> HIDE DEF k
<1>3. /\ rest \in Seq(Unit) /\ Len(rest) = Len(q) - k
      /\ \A i \in 1..Len(rest) : k + i \in 1..Len(q) /\ rest[i] = q[k + i]
  BY <1>1, <1>2, RestSeq
<1> HIDE DEF rest
<1>4. /\ inq' = [inq EXCEPT ![c] = rest] /\ inq'[c] = rest
      /\ full' = IF k = ReadCap THEN full \cup {c} ELSE full \ {c}
      /\ edge' = edge \ {c}
  BY DEF Consume, rest, k
<1>5. ASSUME NEW d \in Clients
      PROVE  /\ out'[d] \in Seq(Unit) /\ Len(out'[d]) \in Nat
             /\ Len(out[d]) \in Nat /\ Len(out[d]) <= Len(out'[d])
             /\ \A i \in 1..Len(out[d]) : out'[d][i] = out[d][i]
             /\ \A i \in (Len(out[d]) + 1)..Len(out'[d]) :
                   /\ i - Len(out[d]) \in 1..Len(q) /\ i - Len(out[d]) <= k
                   /\ out'[d][i] = q[i - Len(out[d])]
  <2>1. out[d] \in Seq(Unit) /\ Len(out[d]) \in Nat
    BY LenProperties
  <2>2. CASE d \in Others(c)
    <3>1. got[d] \in Int /\ got[d] <= k /\ got[d] <= Len(q)
      BY <1>1, <1>2, <2>2 DEF k
    <3>2. out'[d] = out[d] \o SubSeq(q, 1, got[d])
      BY <2>2 DEF Written
    <3>3. /\ out'[d] \in Seq(Unit) /\ Len(out'[d]) \in Nat
          /\ Len(out[d]) <= Len(out'[d])
          /\ \A i \in 1..Len(out[d]) : out'[d][i] = out[d][i]
          /\ \A i \in (Len(out[d]) + 1)..Len(out'[d]) :
                /\ i - Len(out[d]) \in 1..Len(q) /\ i - Len(out[d]) <= got[d]
                /\ out'[d][i] = q[i - Len(out[d])]
      <4> DEFINE o == out[d]
                 g == got[d]
      <4> HIDE DEF o, g, q
      <4>1. o \in Seq(Unit) /\ q \in Seq(Unit) /\ g \in Int /\ g <= Len(q)
        BY <1>1, <2>1, <3>1 DEF o, g
      <4>2. LET r == o \o SubSeq(q, 1, g)
            IN /\ r \in Seq(Unit) /\ Len(r) \in Nat /\ Len(o) <= Len(r)
               /\ \A i \in 1..Len(o) : r[i] = o[i]
               /\ \A i \in (Len(o) + 1)..Len(r) :
                     /\ i - Len(o) \in 1..Len(q) /\ i - Len(o) <= g
                     /\ r[i] = q[i - Len(o)]
        BY <4>1, WrittenSeq
      <4> QED BY <3>2, <4>2 DEF o, g
    <3> HIDE DEF q
    <3>4. \A i \in (Len(out[d]) + 1)..Len(out'[d]) : i - Len(out[d]) <= k
      BY <1>2, <2>1, <3>1, <3>3, SMTT(20)
    <3> QED BY <2>1, <3>3, <3>4
  <2>3. CASE d \notin Others(c)
    <3>1. out'[d] = out[d]
      BY <2>3 DEF Written
    <3> QED BY <2>1, <3>1
  <2> QED BY <2>2, <2>3
<1>6. Types'
  <2>1. out' \in [Clients -> Seq(Unit)]
    BY <1>5 DEF Written
  <2> QED BY <1>3, <1>4, <2>1
<1>7. /\ LastRead(c)' = LastRead(c) + k
      /\ \A d \in Clients : LastRead(d) \in Int
      /\ \A d \in Clients \ {c} : LastRead(d)' = LastRead(d)
  <2>1. \A d \in Clients : LastRead(d) \in Int
    BY LenProperties DEF LastRead
  <2>2. \A d \in Clients \ {c} : LastRead(d)' = LastRead(d)
    BY <1>4 DEF LastRead
  <2>3. LastRead(c) = sent[c] - Len(q) /\ LastRead(c)' = sent[c] - Len(rest)
    BY <1>4 DEF LastRead
  <2> HIDE DEF q
  <2>4. sent[c] - Len(rest) = sent[c] - Len(q) + k
    BY <1>1, <1>2, <1>3
  <2> QED BY <2>1, <2>2, <2>3, <2>4
<1>8. InputInOrder'
  <2>1. ASSUME NEW i \in 1..Len(rest) PROVE rest[i] = <<c, LastRead(c)' + i>>
    <3>1. rest[i] = <<c, LastRead(c) + (k + i)>>
      BY <1>3 DEF InputInOrder
    <3>2. LastRead(c) + (k + i) = LastRead(c)' + i
      BY <1>2, <1>7
    <3> QED BY <3>1, <3>2
  <2> QED BY <1>4, <1>7, <2>1 DEF InputInOrder
<1>9. ASSUME NEW d \in Clients, NEW i \in 1..Len(out'[d])
      PROVE  \/ /\ i \in 1..Len(out[d]) /\ out'[d][i] = out[d][i]
                /\ out[d][i][1] \in Clients /\ out[d][i][2] \in Nat
                /\ out[d][i][2] <= LastRead(out[d][i][1])
             \/ /\ i \in (Len(out[d]) + 1)..Len(out'[d])
                /\ out'[d][i] = <<c, LastRead(c) + (i - Len(out[d]))>>
                /\ i - Len(out[d]) <= k /\ i - Len(out[d]) \in Nat \ {0}
  <2>1. CASE i \in 1..Len(out[d])
    <3>1. out[d][i] \in Unit
      BY <2>1, ElementOfSeq
    <3> QED BY <1>5, <2>1, <3>1 DEF OutputRead, Unit
  <2>2. CASE i \in (Len(out[d]) + 1)..Len(out'[d])
    <3>1. /\ i - Len(out[d]) \in 1..Len(q) /\ i - Len(out[d]) <= k
          /\ out'[d][i] = q[i - Len(out[d])]
      BY <1>5, <2>2
    <3> QED BY <1>1, <2>2, <3>1 DEF InputInOrder
  <2> QED BY <1>5, <2>1, <2>2
<1> HIDE DEF q
<1>10. OutputRead'
  <2>1. ASSUME NEW d \in Clients, NEW i \in 1..Len(out'[d])
        PROVE  \E e \in Clients : e = out'[d][i][1] /\ out'[d][i][2] <= LastRead(e)'
    <3>1. CASE /\ out'[d][i] = out[d][i]
               /\ out[d][i][1] \in Clients /\ out[d][i][2] \in Nat
               /\ out[d][i][2] <= LastRead(out[d][i][1])
      <4>1. PICK e \in Clients : e = out[d][i][1]
        BY <3>1
      <4>2. CASE e = c
        <5>1. out[d][i][2] <= LastRead(c) + k
          BY <1>2, <1>7, <3>1, <4>1, <4>2, SMTT(20)
        <5> QED BY <1>7, <3>1, <4>1, <4>2, <5>1
      <4>3. CASE e # c
        BY <1>7, <3>1, <4>1, <4>3
      <4> QED BY <4>2, <4>3
    <3>2. CASE /\ out'[d][i] = <<c, LastRead(c) + (i - Len(out[d]))>>
               /\ i - Len(out[d]) <= k /\ i - Len(out[d]) \in Nat \ {0}
      <4>1. LastRead(c) + (i - Len(out[d])) <= LastRead(c)'
        BY <1>2, <1>7, <3>2
      <4> QED BY <3>2, <4>1
    <3> QED BY <1>9, <3>1, <3>2
  <2>2. ASSUME NEW d \in Clients, NEW i \in 1..Len(out'[d])
        PROVE  out'[d][i][2] <= (sent'[out'[d][i][1]] - Len(inq'[out'[d][i][1]]))
    BY <2>1 DEF LastRead
  <2> QED BY <2>2 DEF OutputRead, LastRead
<1>11. RelayInOrder'
  <2>1. ASSUME NEW d \in Clients, NEW i \in 1..Len(out'[d]),
               NEW j \in 1..Len(out'[d]), i < j,
               out'[d][i][1] = out'[d][j][1]
        PROVE  out'[d][i][2] < out'[d][j][2]
    <3>1. Len(out[d]) \in Nat /\ Len(out'[d]) \in Nat
      BY <1>5
    <3>2. CASE i \in 1..Len(out[d]) /\ j \in 1..Len(out[d])
      <4>1. out'[d][i] = out[d][i] /\ out'[d][j] = out[d][j]
        BY <1>5, <3>2
      <4> QED BY <2>1, <3>2, <4>1 DEF RelayInOrder
    <3>3. CASE j \notin 1..Len(out[d])
      <4>1. /\ out'[d][j] = <<c, LastRead(c) + (j - Len(out[d]))>>
            /\ j - Len(out[d]) \in Nat \ {0}
        BY <1>9, <3>3
      <4>2. CASE i \in 1..Len(out[d])
        <5>1. /\ out'[d][i] = out[d][i] /\ out[d][i][2] \in Nat
              /\ out[d][i][2] <= LastRead(out[d][i][1])
          BY <1>9, <3>1, <4>2
        <5>2. out[d][i][2] <= LastRead(c)
          BY <2>1, <4>1, <5>1
        <5> QED BY <1>7, <4>1, <5>1, <5>2, SMTT(20)
      <4>3. CASE i \notin 1..Len(out[d])
        <5>1. out'[d][i] = <<c, LastRead(c) + (i - Len(out[d]))>>
          BY <1>9, <4>3
        <5>2. LastRead(c) + (i - Len(out[d])) < LastRead(c) + (j - Len(out[d]))
          BY <1>7, <2>1, <3>1
        <5> QED BY <4>1, <5>1, <5>2
      <4> QED BY <4>2, <4>3
    <3> QED BY <2>1, <3>1, <3>2, <3>3
  <2> QED BY <2>1 DEF RelayInOrder
<1>12. StallNeedsFullRead'
  <2>1. k # ReadCap => rest = <<>>
    BY <1>1, <1>2, <1>3, EmptySeq
  <2> QED BY <1>4, <2>1 DEF StallNeedsFullRead
<1> QED BY <1>6, <1>8, <1>10, <1>11, <1>12

\* What a client's thread or exit does to the count of what it has read.
LEMMA TakenType ==
  ASSUME Inv, NEW c \in Clients, Peer!Receive(c) \/ Peer!Exit(c)
  PROVE  taken' \in [Clients -> Int]
<1> USE DEF Inv, Types
<1>1. Len(out[c]) \in Nat
  BY LenProperties
<1>2. CASE Peer!Read(c)
  <2>1. Peer!ReadSize(c) \in Int
    BY <1>1, ChatAssumption DEF Peer!ReadSize, Peer!Unread
  <2> QED BY <1>2, <2>1 DEF Peer!Read
<1>3. CASE Peer!Exit(c)
  BY <1>3 DEF Peer!Exit
<1> QED
  BY <1>2, <1>3 DEF Peer!Receive, Peer!Return, Peer!Clear, Peer!Terminate,
                    Peer!Output, Peer!Joined

\* Steps that only open, close or announce sockets preserve the invariant.
LEMMA SocketInv ==
  ASSUME Inv, NEW c \in Clients, NEW C \in SUBSET Clients,
         \/ Connect(c) \/ Accept(c) \/ Disconnected(c) \/ ClientClose(C)
         \/ UNCHANGED vars,
         taken' \in [Clients -> Int]
  PROVE  Inv'
<1> USE DEF Connect, Accept, Disconnected, ClientClose, Raise, vars
<1>1. UNCHANGED <<sent, inq, out, full>>
  OBVIOUS
<1>2. Types'
  BY <1>1 DEF Inv, Types
<1>3. StallNeedsFullRead'
  BY <1>1 DEF Inv, Types, StallNeedsFullRead
<1> QED BY <1>1, <1>2, <1>3, NothingMoved DEF Inv

\* A socket takes no more of a message than the server has read.
LEMMA TakenBound ==
  ASSUME Inv, NEW c \in Clients
  PROVE  \A d \in Others(c) :
            Taken(c)[d] \in Int /\ Taken(c)[d] <= ReadSize(c) /\ 0 <= ReadSize(c)
<1>1. taken \in [Clients -> Int]
  BY DEF Inv, Types
<1>2. ReadSize(c) \in Nat
  BY TcpAssumption, LenProperties DEF Inv, Types, ReadSize
<1>3. ASSUME NEW d \in Others(c) PROVE Room(d) \in Int
  <2>1. d \in Clients /\ Len(out[d]) \in Nat
    BY LenProperties DEF Inv, Types, Others
  <2> QED BY <1>1, <2>1, TcpAssumption, ChatAssumption DEF Room
<1> QED BY <1>2, <1>3 DEF Taken

\* Every step of the server, of a client, or of both preserves the invariant.
LEMMA NextInv == Inv /\ [ChatNext]_all => Inv'
<1> SUFFICES ASSUME Inv, [ChatNext]_all PROVE Inv'
  OBVIOUS
<1>1. taken \in [Clients -> Int] /\ \A c \in Clients : Peer!Siblings(c) \in SUBSET Clients
  BY DEF Inv, Types, Peer!Siblings
<1>2. ASSUME NEW c \in Clients, ChatConnect(c) PROVE Inv'
  BY <1>1, <1>2, SocketInv DEF ChatConnect, Peer!Connect
<1>3. ASSUME NEW c \in Clients, Ends(c) PROVE Inv'
  BY <1>1, <1>3, SocketInv, TakenType DEF Ends
<1>4. ASSUME NEW c \in Clients, Send(c) PROVE Inv'
  BY <1>4, SendInv DEF Send, clients
<1>5. ASSUME NEW c \in Clients, ServerSide(c) PROVE Inv'
  BY <1>1, <1>5, SocketInv DEF ServerSide, clients
<1>6. ASSUME NEW c \in Clients PROVE \A d \in Others(c) :
         Taken(c)[d] \in Int /\ Taken(c)[d] <= ReadSize(c) /\ 0 <= ReadSize(c)
  BY TakenBound
<1>7. ASSUME NEW c \in Clients, Relay(c) PROVE Inv'
  BY <1>6, <1>7, ForwardInv DEF Relay, ForwardTo, clients
<1>8. ASSUME NEW c \in Clients, RelayFails(c) PROVE Inv'
  <2>1. PICK before \in SUBSET Others(c) :
           ForwardFailsTo(c, [e \in Others(c) |->
                                IF e \in before THEN Taken(c)[e] ELSE 0])
    BY <1>8 DEF RelayFails
  <2> DEFINE got == [e \in Others(c) |-> IF e \in before THEN Taken(c)[e] ELSE 0]
  <2>2. \A d \in Others(c) : got[d] \in Int /\ got[d] <= ReadSize(c)
    BY <1>6
  <2>3. Consume(c) /\ Written(c, got) /\ UNCHANGED <<st, sent, taken>>
    BY <1>8, <2>1 DEF RelayFails, ForwardFailsTo, clients
  <2> HIDE DEF got
  <2> QED BY <2>2, <2>3, ForwardInv
<1>9. ASSUME NEW c \in Clients, ClientSide(c) PROVE Inv'
  <2>1. CASE Peer!Receive(c) /\ UNCHANGED server
    BY <1>1, <2>1, SocketInv, TakenType DEF server
  <2>2. CASE PeerClosed(c)
    BY <1>1, <2>2, SocketInv, TakenType DEF PeerClosed, Peer!PeerClosed
  <2> QED BY <1>9, <2>1, <2>2 DEF ClientSide
<1>10. ASSUME NEW c \in Clients, Peer!Disconnect(c) /\ UNCHANGED server PROVE Inv'
  BY <1>1, <1>10, SocketInv DEF Peer!Disconnect, server
<1>11. CASE (CallFails \/ Stop \/ LoopEnds) /\ UNCHANGED clients
  <2>1. UNCHANGED <<st, sent, inq, edge, full, out, taken>>
    BY <1>11 DEF CallFails, Stop, LoopEnds, clients
  <2> QED BY <2>1, NothingMoved DEF Inv, Types, StallNeedsFullRead
<1>12. CASE UNCHANGED all
  <2>1. UNCHANGED <<st, sent, inq, edge, full, out, taken>>
    BY <1>12 DEF all, vars, clients
  <2> QED BY <2>1, NothingMoved DEF Inv, Types, StallNeedsFullRead
<1> QED
  BY <1>2, <1>3, <1>4, <1>5, <1>7, <1>8, <1>9, <1>10, <1>11, <1>12
     DEF ChatNext, ConnectFails, ClientEnds

\* The invariant holds in every reachable state.
THEOREM Invariance == ChatSpec => []Inv
  BY InitInv, NextInv, PTL DEF ChatSpec

\* Receivers get what each sender sent in its order and never twice, with any
\* number of senders, short writes and failing receivers.
THEOREM InOrder == ChatSpec => []RelayInOrder
<1>1. Inv => RelayInOrder
  BY DEF Inv
<1> QED BY <1>1, Invariance, PTL

\* Data is held up by the edge-triggered registration only behind a read that
\* filled the buffer.
THEOREM StallsBehindFullReads == ChatSpec => []StallNeedsFullRead
<1>1. Inv => StallNeedsFullRead
  BY DEF Inv
<1> QED BY <1>1, Invariance, PTL
-----------------------------------------------------------------------------
(***************************************************************************)
(* What a client prints.  Lines is recursive over its argument; what is    *)
(* needed of it is proved by induction.                                    *)
(***************************************************************************)
\* Every non-empty set of naturals has a least element: the induction used
\* below is the search for a least counterexample.
LEMMA LeastElement ==
  ASSUME NEW T, T \subseteq Nat, T # {}
  PROVE  \E m \in T : \A k \in T : m <= k
<1> DEFINE R == {ss \in Nat \X Nat : ss[1] < ss[2]}
<1>1. IsWellFoundedOn(R, Nat)
  BY NatLessThanWellFounded DEF OpToRel
<1>2. \E m \in T : \A k \in T : ~(<<k, m>> \in R)
  BY <1>1, WFMin
<1>3. PICK m \in T : \A k \in T : ~(<<k, m>> \in R)
  BY <1>2
<1>4. ASSUME NEW k \in T PROVE m <= k
  <2>1. k \in Nat /\ m \in Nat
    OBVIOUS
  <2>2. ~(k < m)
    <3>1. <<k, m>> \in Nat \X Nat /\ <<k, m>>[1] = k /\ <<k, m>>[2] = m
      BY <2>1
    <3> QED BY <1>3, <3>1
  <2> QED BY <2>1, <2>2
<1> QED BY <1>4

\* Induction over the naturals, for a set.
LEMMA Induction ==
  ASSUME NEW P, 0 \in P, \A k \in Nat : k \in P => k + 1 \in P
  PROVE  Nat \subseteq P
<1> SUFFICES ASSUME Nat \ P # {} PROVE FALSE
  OBVIOUS
<1>1. PICK m \in Nat \ P : \A k \in Nat \ P : m <= k
  BY LeastElement
<1>2. m # 0 /\ m - 1 \in Nat /\ (m - 1) + 1 = m /\ ~(m <= m - 1)
  BY <1>1
<1> QED BY <1>1, <1>2

\* The recursion of Lines, followed by f up to position m.
Cuts(f, s, m) == f = [i \in 0..m |->
                       IF i = 0 THEN <<>>
                       ELSE IF s[i] \in Newlines THEN f[i - 1]
                       ELSE f[i - 1] \o <<s[i]>>]

\* The recursion has a solution ...
LEMMA CutsExist == \A s : \A m \in Nat : \E f : Cuts(f, s, m)
<1> SUFFICES ASSUME NEW s PROVE \A m \in Nat : \E f : Cuts(f, s, m)
  OBVIOUS
<1> DEFINE P == {m \in Nat : \E f : Cuts(f, s, m)}
<1>1. 0 \in P
  <2> DEFINE f == [i \in 0..0 |-> <<>>]
  <2>1. \A i \in 0..0 : i = 0
    OBVIOUS
  <2>2. Cuts(f, s, 0)
    BY <2>1 DEF Cuts
  <2> QED BY <2>2
<1>2. ASSUME NEW k \in Nat, k \in P PROVE k + 1 \in P
  <2>1. PICK f : Cuts(f, s, k)
    BY <1>2
  <2> DEFINE last == IF s[k + 1] \in Newlines THEN f[k] ELSE f[k] \o <<s[k + 1]>>
             g == [i \in 0..(k + 1) |-> IF i = k + 1 THEN last ELSE f[i]]
  <2> HIDE DEF last
  <2>2. \A i \in 0..k : g[i] = f[i]
    BY <1>2
  <2>3. ASSUME NEW i \in 0..(k + 1)
        PROVE  g[i] = IF i = 0 THEN <<>>
                      ELSE IF s[i] \in Newlines THEN g[i - 1]
                      ELSE g[i - 1] \o <<s[i]>>
    <3>1. CASE i = k + 1
      <4>1. g[i] = last /\ i # 0 /\ i - 1 = k /\ g[k] = f[k]
        BY <1>2, <2>2, <3>1
      <4> QED BY <3>1, <4>1 DEF last
    <3>2. CASE i \in 0..k
      <4>1. g[i] = f[i] /\ (i # 0 => i - 1 \in 0..k)
        BY <1>2, <2>2, <3>2
      <4>2. i # 0 => g[i - 1] = f[i - 1]
        BY <2>2, <4>1
      <4>3. f[i] = IF i = 0 THEN <<>>
                   ELSE IF s[i] \in Newlines THEN f[i - 1]
                   ELSE f[i - 1] \o <<s[i]>>
        BY <2>1, <3>2 DEF Cuts
      <4> QED BY <4>1, <4>2, <4>3
    <3> QED BY <1>2, <3>1, <3>2
  <2>4. Cuts(g, s, k + 1)
    BY <2>3 DEF Cuts
  <2> QED BY <2>4, <1>2
<1> HIDE DEF P
<1>3. Nat \subseteq P
  BY <1>1, <1>2, Induction
<1> QED BY <1>3 DEF P

\* ... and Lines is what it comes to at the end of the sequence.
LEMMA LinesCuts ==
  ASSUME NEW S, NEW s \in Seq(S)
  PROVE  \E f : Cuts(f, s, Len(s)) /\ Peer!Lines(s) = f[Len(s)]
<1>1. Len(s) \in Nat
  BY LenProperties
<1>2. \E f : Cuts(f, s, Len(s))
  BY <1>1, CutsExist
<1> DEFINE f == CHOOSE f : Cuts(f, s, Len(s))
<1>3. Cuts(f, s, Len(s))
  BY <1>2
<1>4. Peer!Lines(s) = f[Len(s)]
  BY DEF Peer!Lines, Cuts
<1> QED BY <1>3, <1>4

\* What the recursion gives at each position.
LEMMA CutsSteps ==
  ASSUME NEW f, NEW s, NEW m \in Nat, Cuts(f, s, m)
  PROVE  /\ f[0] = <<>>
         /\ \A i \in 1..m : f[i] = IF s[i] \in Newlines THEN f[i - 1]
                                   ELSE f[i - 1] \o <<s[i]>>
<1>1. f[0] = <<>>
  <2>1. 0 \in 0..m
    OBVIOUS
  <2> QED BY <2>1 DEF Cuts
<1>2. ASSUME NEW i \in 1..m
      PROVE f[i] = IF s[i] \in Newlines THEN f[i - 1] ELSE f[i - 1] \o <<s[i]>>
  <2>1. i \in 0..m /\ i # 0
    OBVIOUS
  <2> QED BY <2>1 DEF Cuts
<1> QED BY <1>1, <1>2

\* Split makes units of units.
LEMMA CutsType ==
  ASSUME NEW S, NEW s \in Seq(S), NEW f, Cuts(f, s, Len(s))
  PROVE  \A i \in 0..Len(s) : f[i] \in Seq(S)
<1>1. Len(s) \in Nat
  BY LenProperties
<1> DEFINE P == {i \in Nat : i <= Len(s) => f[i] \in Seq(S)}
<1>2. 0 \in P
  BY <1>1, CutsSteps, EmptySeq
<1>3. ASSUME NEW k \in Nat, k \in P PROVE k + 1 \in P
  <2>1. SUFFICES ASSUME k + 1 <= Len(s) PROVE f[k + 1] \in Seq(S)
    OBVIOUS
  <2>2. k + 1 \in 1..Len(s) /\ (k + 1) - 1 = k /\ k <= Len(s)
    BY <1>1, <2>1
  <2>3. f[k + 1] = IF s[k + 1] \in Newlines THEN f[k] ELSE f[k] \o <<s[k + 1]>>
    BY <1>1, <2>2, CutsSteps
  <2>4. f[k] \in Seq(S) /\ s[k + 1] \in S
    BY <1>3, <2>2, ElementOfSeq
  <2>5. f[k] \o <<s[k + 1]>> \in Seq(S)
    <3>1. <<s[k + 1]>> \in Seq(S)
      BY <2>4
    <3> QED BY <2>4, <3>1, ConcatProperties
  <2> QED BY <2>3, <2>4, <2>5
<1> HIDE DEF P
<1>4. Nat \subseteq P
  BY <1>2, <1>3, Induction
<1> QED BY <1>1, <1>4 DEF P

\* What is printed of a sequence of units is one.
LEMMA LinesType ==
  ASSUME NEW S, NEW s \in Seq(S)
  PROVE  Peer!Lines(s) \in Seq(S)
<1>1. PICK f : Cuts(f, s, Len(s)) /\ Peer!Lines(s) = f[Len(s)]
  BY LinesCuts
<1>2. Len(s) \in 0..Len(s)
  BY LenProperties
<1> QED BY <1>1, <1>2, CutsType

\* Nothing is printed of nothing.
LEMMA LinesEmpty == Peer!Lines(<<>>) = <<>>
<1>1. <<>> \in Seq(Nat) /\ Len(<<>>) = 0
  BY EmptySeq
<1>2. PICK f : Cuts(f, <<>>, 0) /\ Peer!Lines(<<>>) = f[0]
  BY <1>1, LinesCuts
<1> QED BY <1>2, CutsSteps

\* However a stream is cut into two, the pieces in a row are the same.
LEMMA LinesConcat ==
  ASSUME NEW S, NEW s \in Seq(S), NEW t \in Seq(S)
  PROVE  Peer!Lines(s \o t) = Peer!Lines(s) \o Peer!Lines(t)
<1> DEFINE w == s \o t
           a == Len(s)
           b == Len(t)
<1>1. /\ a \in Nat /\ b \in Nat /\ w \in Seq(S) /\ Len(w) = a + b
      /\ \A i \in 1..(a + b) : w[i] = IF i <= a THEN s[i] ELSE t[i - a]
  BY LenProperties, ConcatProperties
<1> HIDE DEF w
<1>2. PICK f : Cuts(f, s, a) /\ Peer!Lines(s) = f[a]
  BY LinesCuts
<1>3. PICK g : Cuts(g, t, b) /\ Peer!Lines(t) = g[b]
  BY LinesCuts
<1>4. PICK h : Cuts(h, w, a + b) /\ Peer!Lines(w) = h[a + b]
  BY <1>1, LinesCuts
<1>5. /\ \A i \in 0..a : f[i] \in Seq(S)
      /\ \A i \in 0..b : g[i] \in Seq(S)
  BY <1>2, <1>3, CutsType
<1> HIDE DEF a, b
<1>6. h[a] = f[a]
  <2> DEFINE P == {i \in Nat : i <= a => h[i] = f[i]}
  <2>1. 0 \in P
    BY <1>1, <1>2, <1>4, CutsSteps
  <2>2. ASSUME NEW k \in Nat, k \in P PROVE k + 1 \in P
    <3>1. SUFFICES ASSUME k + 1 <= a PROVE h[k + 1] = f[k + 1]
      OBVIOUS
    <3>2. /\ k + 1 \in 1..a /\ k + 1 \in 1..(a + b) /\ (k + 1) - 1 = k
          /\ a + b \in Nat /\ k <= a
      BY <1>1, <3>1
    <3>3. w[k + 1] = s[k + 1] /\ h[k] = f[k]
      BY <1>1, <2>2, <3>1, <3>2
    <3>4. h[k + 1] = IF w[k + 1] \in Newlines THEN h[k] ELSE h[k] \o <<w[k + 1]>>
      BY <1>4, <3>2, CutsSteps
    <3>5. f[k + 1] = IF s[k + 1] \in Newlines THEN f[k] ELSE f[k] \o <<s[k + 1]>>
      BY <1>1, <1>2, <3>2, CutsSteps
    <3> QED BY <3>3, <3>4, <3>5
  <2> HIDE DEF P
  <2>3. Nat \subseteq P
    BY <2>1, <2>2, Induction
  <2> QED BY <1>1, <2>3 DEF P
<1> DEFINE l == f[a]
<1>7. l \in Seq(S)
  BY <1>1, <1>5
<1> HIDE DEF l
<1>8. h[a + b] = l \o g[b]
  <2> DEFINE P == {i \in Nat : i <= b => h[a + i] = l \o g[i]}
  <2>1. 0 \in P
    <3>1. g[0] = <<>> /\ a + 0 = a
      BY <1>1, <1>3, CutsSteps
    <3>2. l \o <<>> = l
      BY <1>7, ConcatEmptySeq
    <3> QED BY <1>6, <3>1, <3>2 DEF l
  <2>2. ASSUME NEW k \in Nat, k \in P PROVE k + 1 \in P
    <3>1. SUFFICES ASSUME k + 1 <= b PROVE h[a + (k + 1)] = l \o g[k + 1]
      OBVIOUS
    <3> DEFINE j == a + (k + 1)
    <3>2. /\ k + 1 \in 1..b /\ j \in 1..(a + b) /\ (k + 1) - 1 = k
          /\ j - 1 = a + k /\ j - a = k + 1 /\ ~(j <= a)
          /\ a + b \in Nat /\ k <= b /\ k \in 0..b
      BY <1>1, <3>1
    <3> HIDE DEF j
    <3> DEFINE u == t[k + 1]
               x == g[k]
               y == l \o x
    <3>3. w[j] = u /\ h[j - 1] = y
      BY <1>1, <2>2, <3>2
    <3>4. h[j] = IF u \in Newlines THEN y ELSE y \o <<u>>
      <4> HIDE DEF u, y
      <4>1. h[j] = IF w[j] \in Newlines THEN h[j - 1] ELSE h[j - 1] \o <<w[j]>>
        BY <1>4, <3>2, CutsSteps
      <4> QED BY <3>3, <4>1
    <3>5. g[k + 1] = IF u \in Newlines THEN x ELSE x \o <<u>>
      BY <1>1, <1>3, <3>2, CutsSteps
    <3>6. y \o <<u>> = l \o (x \o <<u>>)
      <4>1. u \in S
        BY <3>2, ElementOfSeq DEF b
      <4>2. <<u>> \in Seq(S)
        BY <4>1
      <4>3. x \in Seq(S)
        BY <1>5, <3>2
      <4> HIDE DEF u, x
      <4> QED BY <1>7, <4>2, <4>3, ConcatAssociative
    <3> HIDE DEF u, x
    <3> QED BY <3>4, <3>5, <3>6 DEF j
  <2> HIDE DEF P
  <2>3. Nat \subseteq P
    BY <2>1, <2>2, Induction
  <2>4. b \in P
    BY <1>1, <2>3
  <2>5. b <= b
    BY <1>1
  <2> QED BY <2>4, <2>5 DEF P
<1>9. Peer!Lines(w) = Peer!Lines(s) \o Peer!Lines(t)
  BY <1>2, <1>3, <1>4, <1>8 DEF l
<1> QED BY <1>9 DEF w
-----------------------------------------------------------------------------
(***************************************************************************)
(* The invariant of the receive threads.                                   *)
(***************************************************************************)
PrintTypes ==
  /\ taken \in [Clients -> Nat] /\ n \in [Clients -> Nat]
  /\ buffer \in [Peer!Processes -> [1..BufCap -> Unit \cup {Nul}]]
  /\ DOMAIN rpc = Clients /\ DOMAIN printed = Clients
  /\ \A c \in Clients : taken[c] <= Len(out[c])

\* Between the clearing of the buffer and the printing a client that is alone
\* with the buffer finds there what it has read last, and zeros.
Held(c) ==
  /\ rpc[c] = "read" => buffer[Process[c]] = Peer!Empty
  /\ rpc[c] \in {"end", "split"} =>
       /\ n[c] \in 1..taken[c] /\ n[c] <= BufCap
       /\ rpc[c] = "split" => n[c] < BufCap
       /\ \A i \in 1..BufCap :
            buffer[Process[c]][i] = IF i <= n[c] THEN out[c][taken[c] - n[c] + i]
                                    ELSE Nul

BufferHolds == \A c \in Clients \ (mixed \cup over) : Held(c)

PrintInv == Inv /\ PrintTypes /\ BufferHolds /\ PrintsWhatItReads

\* What PrintInv says of one client.
Sound(c) == Held(c) /\ printed[c] = Peer!Lines(Done(c))

\* Initially nothing is read or printed.
LEMMA PrintInit == ChatInit => PrintInv
<1> SUFFICES ASSUME ChatInit PROVE PrintInv
  OBVIOUS
<1> USE DEF ChatInit, Init, Peer!Init
<1>1. Inv
  BY InitInv
<1>2. <<>> \in Seq(Unit) /\ Len(<<>>) = 0
  BY EmptySeq
<1>3. PrintTypes
  BY <1>2 DEF PrintTypes, Peer!Empty
<1>4. ASSUME NEW c \in Clients PROVE Sound(c)
  <2>1. rpc[c] = "none" /\ printed[c] = <<>> /\ out[c] = <<>> /\ taken[c] = 0
    OBVIOUS
  <2>2. Done(c) = SubSeq(<<>>, 1, 0)
    BY <2>1 DEF Done
  <2>3. Done(c) = <<>>
    BY <2>2, SubSeqEmpty
  <2> QED BY <2>1, <2>3, LinesEmpty DEF Sound, Held
<1> QED BY <1>1, <1>3, <1>4 DEF PrintInv, BufferHolds, PrintsWhatItReads, Sound

\* What is written to a socket is appended to what was written before.
Grows(d) == /\ out'[d] \in Seq(Unit) /\ Len(out[d]) <= Len(out'[d])
            /\ \A i \in 1..Len(out[d]) : out'[d][i] = out[d][i]

\* A longer sequence begins alike.
LEMMA PrefixSame ==
  ASSUME NEW p \in Seq(Unit), NEW q \in Seq(Unit), Len(p) <= Len(q),
         \A i \in 1..Len(p) : q[i] = p[i], NEW k \in Nat, k <= Len(p)
  PROVE  SubSeq(q, 1, k) = SubSeq(p, 1, k)
<1>1. Len(p) \in Nat /\ Len(q) \in Nat
  BY LenProperties
<1>2. \A i \in 1..k : i \in 1..Len(p) /\ i \in 1..Len(q)
  BY <1>1
<1>3. \A i \in 1..k : p[i] \in Unit /\ q[i] \in Unit /\ q[i] = p[i]
  BY <1>2, ElementOfSeq
<1> DEFINE x == SubSeq(p, 1, k)
           y == SubSeq(q, 1, k)
<1>4. /\ x \in Seq(Unit) /\ Len(x) = IF 1 <= k THEN k - 1 + 1 ELSE 0
      /\ \A i \in 1..(k - 1 + 1) : x[i] = p[1 + i - 1]
  BY <1>3, SubSeqProperties
<1>5. /\ y \in Seq(Unit) /\ Len(y) = IF 1 <= k THEN k - 1 + 1 ELSE 0
      /\ \A i \in 1..(k - 1 + 1) : y[i] = q[1 + i - 1]
  BY <1>3, SubSeqProperties
<1> HIDE DEF x, y
<1>6. Len(x) = k /\ Len(y) = k
  BY <1>4, <1>5
<1>7. \A i \in 1..k : x[i] = p[i] /\ y[i] = q[i]
  BY <1>4, <1>5
<1>8. x = y
  BY <1>3, <1>4, <1>5, <1>6, <1>7, SeqEqual
<1> QED BY <1>8 DEF x, y

\* A step that leaves the client's variables alone, and the buffer while the
\* client uses it, is none of the client's business.
LEMMA Untouched ==
  ASSUME PrintInv, NEW d \in Clients, Sound(d), Grows(d),
         rpc'[d] = rpc[d], taken'[d] = taken[d], n'[d] = n[d],
         printed'[d] = printed[d],
         rpc[d] \in {"read", "end", "split"} =>
            buffer'[Process[d]] = buffer[Process[d]]
  PROVE  Sound(d)'
<1> USE DEF PrintInv, Inv, Types, PrintTypes
<1>1. /\ out[d] \in Seq(Unit) /\ Len(out[d]) \in Nat
      /\ taken[d] \in Nat /\ n[d] \in Nat /\ taken[d] <= Len(out[d])
  BY LenProperties
<1>2. Held(d)'
  <2>1. ASSUME rpc[d] \in {"end", "split"}, NEW i \in 1..BufCap, i <= n[d]
        PROVE  out'[d][taken[d] - n[d] + i] = out[d][taken[d] - n[d] + i]
    <3>1. n[d] \in 1..taken[d]
      BY <2>1 DEF Sound, Held
    <3>2. taken[d] - n[d] + i \in 1..Len(out[d])
      BY <1>1, <2>1, <3>1
    <3> QED BY <3>2 DEF Grows
  <2>2. CASE rpc[d] \in {"end", "split"}
    <3>1. \A i \in 1..BufCap : buffer'[Process[d]][i] =
             IF i <= n[d] THEN out'[d][taken[d] - n[d] + i] ELSE Nul
      <4>1. \A i \in 1..BufCap : buffer[Process[d]][i] =
               IF i <= n[d] THEN out[d][taken[d] - n[d] + i] ELSE Nul
        BY <2>2 DEF Sound, Held
      <4>2. buffer'[Process[d]] = buffer[Process[d]]
        BY <2>2
      <4> QED BY <2>1, <2>2, <4>1, <4>2
    <3>2. /\ n[d] \in 1..taken[d] /\ n[d] <= BufCap
          /\ rpc[d] = "split" => n[d] < BufCap
      BY <2>2 DEF Sound, Held
    <3>3. rpc'[d] # "read" /\ rpc'[d] = rpc[d] /\ n'[d] = n[d] /\ taken'[d] = taken[d]
      BY <2>2
    <3> QED BY ONLY <3>1, <3>2, <3>3 DEF Held
  <2>3. CASE rpc[d] \notin {"end", "split"}
    BY <2>3 DEF Sound, Held
  <2> QED BY <2>2, <2>3
<1> DEFINE k == IF rpc[d] \in {"end", "split"} THEN taken[d] - n[d] ELSE taken[d]
<1>3. k \in Nat /\ k <= Len(out[d])
  <2>1. CASE rpc[d] \in {"end", "split"}
    <3>1. n[d] \in 1..taken[d]
      BY <2>1 DEF Sound, Held
    <3> QED BY <1>1, <2>1, <3>1
  <2>2. CASE rpc[d] \notin {"end", "split"}
    BY <1>1, <2>2
  <2> QED BY <2>1, <2>2
<1>4. Done(d) = SubSeq(out[d], 1, k) /\ Done(d)' = SubSeq(out'[d], 1, k)
  BY DEF Done
<1> HIDE DEF k
<1>5. Done(d)' = Done(d)
  BY <1>1, <1>3, <1>4, PrefixSame DEF Grows
<1>6. printed'[d] = Peer!Lines(Done(d)')
  BY <1>5 DEF Sound
<1> QED BY <1>2, <1>6 DEF Sound

\* What is left to show of a step when every client is sound after it.
LEMMA AllSound ==
  ASSUME Inv', PrintTypes', \A c \in Clients \ (mixed' \cup over') : Sound(c)'
  PROVE  PrintInv'
  BY DEF PrintInv, BufferHolds, PrintsWhatItReads, Sound

\* The step of a client c does nothing to the others, except to take the
\* buffer away from those of its process.
LEMMA OthersSound ==
  ASSUME PrintInv, NEW c \in Clients, UNCHANGED out,
         \A d \in Clients \ {c} : /\ rpc'[d] = rpc[d] /\ taken'[d] = taken[d]
                                  /\ n'[d] = n[d] /\ printed'[d] = printed[d],
         mixed \subseteq mixed', over \subseteq over',
         UNCHANGED buffer \/ \E b : Peer!Fill(c, b)
  PROVE  \A d \in Clients \ (mixed' \cup over' \cup {c}) : Sound(d)'
<1> SUFFICES ASSUME NEW d \in Clients \ (mixed' \cup over' \cup {c})
             PROVE  Sound(d)'
  OBVIOUS
<1>1. Sound(d)
  BY DEF PrintInv, BufferHolds, PrintsWhatItReads, Sound
<1>2. Grows(d)
  <2>1. Len(out[d]) \in Nat /\ out[d] \in Seq(Unit)
    BY LenProperties DEF PrintInv, Inv, Types
  <2> QED BY <2>1 DEF Grows
<1>3. ASSUME rpc[d] \in {"read", "end", "split"}
      PROVE  buffer'[Process[d]] = buffer[Process[d]]
  <2>1. CASE UNCHANGED buffer
    BY <2>1
  <2>2. CASE \E b : Peer!Fill(c, b)
    <3>1. Process[d] # Process[c]
      BY <1>3, <2>2 DEF Peer!Fill, Peer!Sharing, Peer!Siblings
    <3>2. Process[d] \in DOMAIN buffer
      BY DEF PrintInv, PrintTypes, Peer!Processes
    <3> QED BY <2>2, <3>1, <3>2 DEF Peer!Fill
  <2> QED BY <2>1, <2>2
<1> QED BY <1>1, <1>2, <1>3, Untouched

\* Steps outside a read: connected, stopped, joined.
LEMMA IdleInv ==
  ASSUME PrintInv, Inv', NEW c \in Clients, NEW l,
         rpc' = [rpc EXCEPT ![c] = l],
         rpc[c] \notin {"read", "end", "split"}, l \notin {"read", "end", "split"},
         UNCHANGED <<out, taken, n, buffer, printed, mixed, over>>
  PROVE  PrintInv'
<1>1. PrintTypes'
  BY DEF PrintInv, PrintTypes
<1>2. rpc'[c] = l /\ \A d \in Clients \ {c} : rpc'[d] = rpc[d]
  BY DEF PrintInv, PrintTypes
<1>3. \A d \in Clients \ (mixed' \cup over' \cup {c}) : Sound(d)'
  BY <1>2, OthersSound
<1>4. c \notin mixed \cup over => Sound(c)'
  <2> SUFFICES ASSUME c \notin mixed \cup over PROVE Sound(c)'
    OBVIOUS
  <2>1. Held(c)'
    BY <1>2 DEF Held
  <2>2. Done(c)' = Done(c)
    BY <1>2 DEF Done
  <2>3. printed'[c] = Peer!Lines(Done(c)')
    BY <2>2 DEF PrintInv, PrintsWhatItReads
  <2> QED BY <2>1, <2>3 DEF Sound
<1> QED BY <1>1, <1>3, <1>4, AllSound

\* The buffer is cleared for a read.
LEMMA ClearInv ==
  ASSUME PrintInv, Inv', NEW c \in Clients, Peer!Clear(c), UNCHANGED out
  PROVE  PrintInv'
<1> USE DEF Peer!Clear, Peer!Goto, Peer!At
<1>1. /\ rpc' = [rpc EXCEPT ![c] = "read"] /\ rpc[c] = "loop"
      /\ buffer' = [buffer EXCEPT ![Process[c]] = Peer!Empty]
      /\ mixed \subseteq mixed' /\ UNCHANGED <<taken, n, printed, over>>
  BY DEF Peer!Fill
<1>2. Peer!Empty \in [1..BufCap -> Unit \cup {Nul}] /\ Process[c] \in DOMAIN buffer
  BY DEF Peer!Empty, PrintInv, PrintTypes, Peer!Processes
<1>3. PrintTypes'
  BY <1>1, <1>2 DEF PrintInv, PrintTypes
<1>4. rpc'[c] = "read" /\ \A d \in Clients \ {c} : rpc'[d] = rpc[d]
  BY <1>1 DEF PrintInv, PrintTypes
<1>5. \A d \in Clients \ (mixed' \cup over' \cup {c}) : Sound(d)'
  BY <1>1, <1>4, OthersSound
<1>6. c \notin mixed' \cup over' => Sound(c)'
  <2> SUFFICES ASSUME c \notin mixed' \cup over' PROVE Sound(c)'
    OBVIOUS
  <2>1. Held(c)'
    BY <1>1, <1>2, <1>4 DEF Held, Peer!Empty
  <2>2. Done(c)' = Done(c)
    BY <1>1, <1>4 DEF Done
  <2>3. printed'[c] = Peer!Lines(Done(c)')
    BY <1>1, <2>2 DEF PrintInv, PrintsWhatItReads
  <2> QED BY <2>1, <2>3 DEF Sound
<1> QED BY <1>3, <1>5, <1>6, AllSound

\* A read fills the cleared buffer from the front.
LEMMA ReadInv ==
  ASSUME PrintInv, Inv', NEW c \in Clients, Peer!Read(c), UNCHANGED out
  PROVE  PrintInv'
<1> DEFINE t == taken[c]
           o == out[c]
           k == Peer!ReadSize(c)
           b == [i \in 1..BufCap |-> IF i <= k THEN o[t + i] ELSE buffer[Process[c]][i]]
<1>1. /\ o \in Seq(Unit) /\ Len(o) \in Nat /\ t \in Nat /\ t <= Len(o)
      /\ Process[c] \in DOMAIN buffer
      /\ buffer[Process[c]] \in [1..BufCap -> Unit \cup {Nul}]
  BY LenProperties DEF PrintInv, Inv, Types, PrintTypes, Peer!Processes
<1>2. k \in Nat \ {0} /\ k <= BufCap /\ t + k <= Len(o)
  <2>1. Peer!Unread(c) = Len(o) - t /\ Peer!Unread(c) > 0
    BY DEF Peer!Unread, Peer!Read
  <2>2. k = IF Len(o) - t < BufCap THEN Len(o) - t ELSE BufCap
    BY <2>1 DEF Peer!ReadSize
  <2> HIDE DEF k, t, o
  <2> QED BY <1>1, <2>1, <2>2, ChatAssumption
<1>3. /\ rpc' = [rpc EXCEPT ![c] = "end"] /\ rpc[c] = "read"
      /\ n' = [n EXCEPT ![c] = k] /\ taken' = [taken EXCEPT ![c] = t + k]
      /\ Peer!Fill(c, b)
      /\ buffer' = [buffer EXCEPT ![Process[c]] = b]
      /\ mixed \subseteq mixed' /\ UNCHANGED <<printed, over>>
  BY DEF Peer!Read, Peer!Goto, Peer!At, Peer!Fill
<1> HIDE DEF k
<1>4. b \in [1..BufCap -> Unit \cup {Nul}]
  <2>1. ASSUME NEW i \in 1..BufCap, i <= k PROVE o[t + i] \in Unit
    <3>1. t + i \in 1..Len(o)
      BY <1>1, <1>2, <2>1
    <3> QED BY <1>1, <3>1, ElementOfSeq
  <2> QED BY <1>1, <2>1
<1>5. PrintTypes'
  <2>1. t + k \in Nat
    BY <1>1, <1>2
  <2> HIDE DEF b, t
  <2> QED BY <1>2, <1>3, <1>4, <2>1 DEF PrintInv, PrintTypes
<1>6. /\ rpc'[c] = "end" /\ n'[c] = k /\ taken'[c] = t + k
      /\ buffer'[Process[c]] = b
      /\ \A d \in Clients \ {c} : /\ rpc'[d] = rpc[d] /\ taken'[d] = taken[d]
                                  /\ n'[d] = n[d] /\ printed'[d] = printed[d]
  <2> HIDE DEF b, t
  <2> QED BY <1>1, <1>3 DEF PrintInv, PrintTypes
<1>7. \A d \in Clients \ (mixed' \cup over' \cup {c}) : Sound(d)'
  BY <1>3, <1>6, OthersSound
<1>8. c \notin mixed' \cup over' => Sound(c)'
  <2> SUFFICES ASSUME c \notin mixed' \cup over' PROVE Sound(c)'
    OBVIOUS
  <2>1. buffer[Process[c]] = Peer!Empty
    BY <1>3 DEF PrintInv, BufferHolds, Held
  <2>2. (t + k) - k = t
    BY <1>1, <1>2
  <2>3. \A i \in 1..BufCap : b[i] = IF i <= k THEN o[t + i] ELSE Nul
    BY <2>1 DEF Peer!Empty
  <2>4. k \in 1..(t + k) /\ k <= BufCap
    BY <1>1, <1>2
  <2>5. Held(c)'
    <3> HIDE DEF b, t
    <3> QED BY <1>6, <2>2, <2>3, <2>4 DEF Held
  <2>6. Done(c)' = SubSeq(o, 1, t) /\ Done(c) = SubSeq(o, 1, t)
    <3>1. Done(c) = SubSeq(o, 1, t)
      BY <1>3 DEF Done
    <3>2. Done(c)' = SubSeq(o, 1, (t + k) - k)
      BY <1>6 DEF Done
    <3> QED BY <2>2, <3>1, <3>2
  <2>7. printed'[c] = Peer!Lines(Done(c)')
    BY <1>3, <2>6 DEF PrintInv, PrintsWhatItReads
  <2> QED BY <2>5, <2>7 DEF Sound
<1> QED BY <1>5, <1>7, <1>8, AllSound

\* The zero behind the data changes nothing unless the data fills the buffer.
LEMMA TerminateInv ==
  ASSUME PrintInv, Inv', NEW c \in Clients, Peer!Terminate(c), UNCHANGED out
  PROVE  PrintInv'
<1> DEFINE B == buffer[Process[c]]
<1>1. /\ Process[c] \in DOMAIN buffer /\ B \in [1..BufCap -> Unit \cup {Nul}]
      /\ n[c] \in Nat
  BY DEF PrintInv, PrintTypes, Peer!Processes
<1>2. /\ rpc' = [rpc EXCEPT ![c] = "split"] /\ rpc[c] = "end"
      /\ UNCHANGED <<taken, n, printed>>
  BY DEF Peer!Terminate, Peer!Goto, Peer!At
<1>3. rpc'[c] = "split" /\ \A d \in Clients \ {c} : rpc'[d] = rpc[d]
  BY <1>2 DEF PrintInv, PrintTypes
<1>4. CASE n[c] < BufCap
  <2> DEFINE b == [B EXCEPT ![n[c] + 1] = Nul]
  <2>1. /\ Peer!Fill(c, b) /\ buffer' = [buffer EXCEPT ![Process[c]] = b]
        /\ mixed \subseteq mixed' /\ UNCHANGED over
    <3>1. n[c] # BufCap
      BY <1>1, <1>4, ChatAssumption
    <3> QED BY <3>1 DEF Peer!Terminate, Peer!Fill
  <2>2. b \in [1..BufCap -> Unit \cup {Nul}]
    BY <1>1
  <2> HIDE DEF b
  <2>3. PrintTypes'
    BY <1>2, <2>1, <2>2 DEF PrintInv, PrintTypes
  <2>4. \A d \in Clients \ (mixed' \cup over' \cup {c}) : Sound(d)'
    BY <1>2, <1>3, <2>1, OthersSound
  <2>5. c \notin mixed' \cup over' => Sound(c)'
    <3> SUFFICES ASSUME c \notin mixed' \cup over' PROVE Sound(c)'
      OBVIOUS
    <3>1. /\ n[c] \in 1..taken[c]
          /\ \A i \in 1..BufCap : B[i] = IF i <= n[c] THEN out[c][taken[c] - n[c] + i]
                                         ELSE Nul
      BY <1>2, <2>1 DEF PrintInv, BufferHolds, Held
    <3>2. \A i \in 1..BufCap : b[i] = IF i = n[c] + 1 THEN Nul ELSE B[i]
      BY <1>1 DEF b
    <3>3. ~(n[c] + 1 <= n[c])
      BY <1>1
    <3>4. \A i \in 1..BufCap : b[i] = IF i <= n[c] THEN out[c][taken[c] - n[c] + i]
                                      ELSE Nul
      BY <3>1, <3>2, <3>3
    <3>5. buffer'[Process[c]] = b
      BY <1>1, <2>1
    <3>6. Held(c)'
      <4>1. n[c] <= BufCap
        BY <1>1, <1>4, ChatAssumption
      <4> QED BY <1>2, <1>3, <1>4, <3>1, <3>4, <3>5, <4>1 DEF Held
    <3>7. Done(c)' = Done(c)
      BY <1>2, <1>3 DEF Done
    <3>8. printed'[c] = Peer!Lines(Done(c)')
      BY <1>2, <2>1, <3>7 DEF PrintInv, PrintsWhatItReads
    <3> QED BY <3>6, <3>8 DEF Sound
  <2> QED BY <2>3, <2>4, <2>5, AllSound
<1>5. CASE ~(n[c] < BufCap)
  <2>1. over' = over \cup {c} /\ UNCHANGED <<buffer, mixed>>
    BY <1>5 DEF Peer!Terminate
  <2>2. PrintTypes'
    BY <1>2, <2>1 DEF PrintInv, PrintTypes
  <2>3. \A d \in Clients \ (mixed' \cup over' \cup {c}) : Sound(d)'
    BY <1>2, <1>3, <2>1, OthersSound
  <2> QED BY <2>1, <2>2, <2>3, AllSound
<1> QED BY <1>4, <1>5

\* The C string in the buffer of a client that is alone with it is what the
\* client has read last.
LEMMA StringRead ==
  ASSUME PrintInv, NEW c \in Clients, c \notin mixed \cup over, rpc[c] = "split",
         NEW s \in Peer!Strings(buffer[Process[c]])
  PROVE  s = SubSeq(out[c], taken[c] - n[c] + 1, taken[c])
<1> DEFINE B == buffer[Process[c]]
           k == n[c]
           t == taken[c]
           o == out[c]
<1>1. /\ k \in 1..t /\ k \in Nat /\ t \in Nat /\ k < BufCap /\ BufCap \in Nat
      /\ o \in Seq(Unit) /\ Len(o) \in Nat /\ t <= Len(o)
      /\ \A i \in 1..BufCap : B[i] = IF i <= k THEN o[t - k + i] ELSE Nul
  BY LenProperties, ChatAssumption
     DEF PrintInv, BufferHolds, Held, PrintTypes, Inv, Types
<1> HIDE DEF B, k, t, o
<1>2. ASSUME NEW i \in 1..k
      PROVE  i \in 1..BufCap /\ B[i] = o[t - k + i] /\ B[i] \in Unit
  <2>1. t - k + i \in 1..Len(o) /\ i \in 1..BufCap /\ i <= k
    BY <1>1
  <2> QED BY <1>1, <2>1, ElementOfSeq
<1>3. /\ k + 1 \in 1..BufCap /\ ~(k + 1 <= k) /\ B[k + 1] = Nul
      /\ (k + 1) - 1 = k
  <2>1. k + 1 \in 1..BufCap /\ ~(k + 1 <= k) /\ (k + 1) - 1 = k
    BY <1>1
  <2> QED BY <1>1, <2>1
<1>4. \A i \in 1..k : B[i] # Nul
  BY <1>2, ChatAssumption DEF Unit
<1> DEFINE First(i) == B[i] = Nul /\ \A j \in 1..(i - 1) : B[j] # Nul
           z == CHOOSE i \in 1..BufCap : First(i)
<1>5. First(k + 1)
  BY <1>3, <1>4
<1>6. ASSUME NEW i \in 1..BufCap, First(i) PROVE i = k + 1
  <2>1. ~(i \in 1..k)
    BY <1>4, <1>6
  <2>2. ~(k + 1 \in 1..(i - 1))
    BY <1>3, <1>6
  <2> HIDE DEF First
  <2> QED BY <1>1, <2>1, <2>2
<1>7. z = k + 1
  <2>1. z \in 1..BufCap /\ First(z)
    <3> HIDE DEF First
    <3> QED BY <1>3, <1>5
  <2> HIDE DEF First, z
  <2> QED BY <1>6, <2>1
<1>8. s = SubSeq(B, 1, k)
  <2>1. s \in {SubSeq(B, 1, z - 1)}
    BY <1>3 DEF Peer!Strings, B
  <2> HIDE DEF z
  <2> QED BY <1>3, <1>7, <2>1
<1> DEFINE r == SubSeq(o, t - k + 1, t)
           x == SubSeq(B, 1, k)
<1>9. /\ x \in Seq(Unit) /\ Len(x) = k /\ \A i \in 1..k : x[i] = B[i]
  <2>1. /\ x \in Seq(Unit) /\ Len(x) = IF 1 <= k THEN k - 1 + 1 ELSE 0
        /\ \A i \in 1..(k - 1 + 1) : x[i] = B[1 + i - 1]
    BY <1>1, <1>2, SubSeqProperties
  <2> HIDE DEF x
  <2> QED BY <1>1, <2>1
<1>10. /\ r \in Seq(Unit) /\ Len(r) = k /\ \A i \in 1..k : r[i] = o[t - k + i]
  <2>1. ASSUME NEW i \in (t - k + 1)..t PROVE o[i] \in Unit
    <3>1. i \in 1..Len(o)
      BY <1>1
    <3> QED BY <1>1, <3>1, ElementOfSeq
  <2>2. t - k + 1 \in Int /\ t \in Int
    BY <1>1
  <2>3. /\ r \in Seq(Unit)
        /\ Len(r) = IF t - k + 1 <= t THEN t - (t - k + 1) + 1 ELSE 0
        /\ \A i \in 1..(t - (t - k + 1) + 1) : r[i] = o[(t - k + 1) + i - 1]
    BY <2>1, <2>2, SubSeqProperties
  <2> HIDE DEF r
  <2>4. Len(r) = k /\ t - (t - k + 1) + 1 = k
    BY <1>1, <2>3
  <2>5. \A i \in 1..k : (t - k + 1) + i - 1 = t - k + i
    BY <1>1
  <2> QED BY <2>3, <2>4, <2>5
<1> HIDE DEF r, x
<1>11. x = r
  BY <1>2, <1>9, <1>10, SeqEqual
<1> QED BY <1>8, <1>11 DEF r, x, o, t, k

\* The pieces of the last read come behind those of all the reads before.
LEMMA OutputInv ==
  ASSUME PrintInv, Inv', NEW c \in Clients, Peer!Output(c), UNCHANGED out
  PROVE  PrintInv'
<1>1. PICK s \in Peer!Strings(buffer[Process[c]]) :
         printed' = [printed EXCEPT ![c] = @ \o Peer!Lines(s)]
  BY DEF Peer!Output
<1>2. /\ rpc' = [rpc EXCEPT ![c] = "loop"] /\ rpc[c] = "split"
      /\ n' = [n EXCEPT ![c] = 0] /\ UNCHANGED <<taken, buffer, mixed, over>>
  BY DEF Peer!Output, Peer!Goto, Peer!At
<1>3. PrintTypes'
  BY <1>1, <1>2 DEF PrintInv, PrintTypes
<1>4. /\ rpc'[c] = "loop" /\ printed'[c] = printed[c] \o Peer!Lines(s)
      /\ \A d \in Clients \ {c} : /\ rpc'[d] = rpc[d] /\ n'[d] = n[d]
                                  /\ printed'[d] = printed[d]
  BY <1>1, <1>2 DEF PrintInv, PrintTypes
<1>5. \A d \in Clients \ (mixed' \cup over' \cup {c}) : Sound(d)'
  BY <1>2, <1>4, OthersSound
<1>6. c \notin mixed' \cup over' => Sound(c)'
  <2> SUFFICES ASSUME c \notin mixed' \cup over' PROVE Sound(c)'
    OBVIOUS
  <2>1. Held(c)'
    BY <1>4 DEF Held
  <2> DEFINE o == out[c]
             t == taken[c]
             k == taken[c] - n[c]
  <2>2. s = SubSeq(o, k + 1, t)
    BY <1>2, StringRead
  <2>3. o \in Seq(Unit) /\ Len(o) \in Nat /\ t \in Nat /\ t <= Len(o)
    BY LenProperties DEF PrintInv, Inv, Types, PrintTypes
  <2>4. k \in 0..t
    <3>1. n[c] \in 1..taken[c]
      BY <1>2 DEF PrintInv, BufferHolds, Held
    <3> QED BY <2>3, <3>1
  <2>5. Done(c) = SubSeq(o, 1, k) /\ Done(c)' = SubSeq(o, 1, t)
    BY <1>2, <1>4 DEF Done
  <2> HIDE DEF o, t, k
  <2>6. SubSeq(o, 1, k) \o SubSeq(o, k + 1, t) = SubSeq(o, 1, t)
    <3>1. 1 \in 1..(Len(o) + 1) /\ k \in (1 - 1)..Len(o) /\ t \in k..Len(o)
      BY <2>3, <2>4
    <3> QED BY <2>3, <3>1, ConcatAdjacentSubSeq
  <2>7. SubSeq(o, 1, k) \in Seq(Unit) /\ SubSeq(o, k + 1, t) \in Seq(Unit)
    <3>1. \A i \in 1..k : i \in 1..Len(o)
      BY <2>3, <2>4
    <3>2. \A i \in (k + 1)..t : i \in 1..Len(o)
      BY <2>3, <2>4
    <3>3. /\ \A i \in 1..k : o[i] \in Unit
          /\ \A i \in (k + 1)..t : o[i] \in Unit
      BY <2>3, <3>1, <3>2, ElementOfSeq
    <3>4. {1, k, k + 1, t} \subseteq Int
      BY <2>3, <2>4
    <3> QED BY <3>3, <3>4, SubSeqProperties
  <2>8. Peer!Lines(SubSeq(o, 1, t)) = Peer!Lines(SubSeq(o, 1, k)) \o Peer!Lines(s)
    <3> DEFINE p == SubSeq(o, 1, k)
               q == SubSeq(o, k + 1, t)
    <3>1. p \in Seq(Unit) /\ q \in Seq(Unit) /\ p \o q = SubSeq(o, 1, t) /\ s = q
      BY <2>2, <2>6, <2>7
    <3> HIDE DEF p, q
    <3>2. Peer!Lines(p \o q) = Peer!Lines(p) \o Peer!Lines(q)
      BY <3>1, LinesConcat
    <3>3. Peer!Lines(SubSeq(o, 1, t)) = Peer!Lines(p) \o Peer!Lines(s)
      BY <3>1, <3>2
    <3> QED BY <3>3 DEF p
  <2>9. printed[c] = Peer!Lines(SubSeq(o, 1, k))
    BY <1>2, <2>5 DEF PrintInv, PrintsWhatItReads
  <2>10. printed'[c] = Peer!Lines(Done(c)')
    BY <1>4, <2>5, <2>8, <2>9
  <2> QED BY <2>1, <2>10 DEF Sound
<1> QED BY <1>3, <1>5, <1>6, AllSound

\* The end of a process takes what its clients have printed with it.
LEMMA ExitInv ==
  ASSUME PrintInv, Inv', NEW c \in Clients, Peer!Exit(c), UNCHANGED out
  PROVE  PrintInv'
<1> USE DEF Peer!Exit
<1>1. Process[c] \in DOMAIN buffer /\ Peer!Empty \in [1..BufCap -> Unit \cup {Nul}]
  BY DEF PrintInv, PrintTypes, Peer!Processes, Peer!Empty
<1>2. \A d \in Clients : Len(out[d]) \in Nat /\ out[d] \in Seq(Unit)
  BY LenProperties DEF PrintInv, Inv, Types
<1>3. PrintTypes'
  BY <1>1, <1>2 DEF PrintInv, PrintTypes
<1>4. ASSUME NEW d \in Clients \ (mixed' \cup over') PROVE Sound(d)'
  <2>1. CASE d \in Peer!Siblings(c)
    <3>1. rpc'[d] = "exited" /\ taken'[d] = 0 /\ printed'[d] = <<>>
      BY <2>1
    <3>2. Done(d)' = SubSeq(out[d], 1, 0)
      BY <3>1 DEF Done
    <3>3. Done(d)' = <<>>
      BY <3>2, SubSeqEmpty
    <3>4. printed'[d] = Peer!Lines(Done(d)')
      BY <3>1, <3>3, LinesEmpty
    <3> QED BY <3>1, <3>4 DEF Sound, Held
  <2>2. CASE d \notin Peer!Siblings(c)
    <3>1. /\ rpc'[d] = rpc[d] /\ taken'[d] = taken[d] /\ n'[d] = n[d]
          /\ printed'[d] = printed[d] /\ d \notin mixed \cup over
      BY <2>2
    <3>2. buffer'[Process[d]] = buffer[Process[d]]
      <4>1. Process[d] # Process[c] /\ Process[d] \in DOMAIN buffer
        BY <2>2 DEF Peer!Siblings, PrintInv, PrintTypes, Peer!Processes
      <4> QED BY <4>1
    <3>3. Sound(d)
      BY <3>1 DEF PrintInv, BufferHolds, PrintsWhatItReads, Sound
    <3>4. Grows(d)
      BY <1>2 DEF Grows
    <3> QED BY <3>1, <3>2, <3>3, <3>4, Untouched
  <2> QED BY <2>1, <2>2
<1> QED BY <1>3, <1>4, AllSound
\* The server's steps only append to what is written to a client.
LEMMA WritesInv ==
  ASSUME PrintInv, Inv', UNCHANGED clients, \A d \in Clients : Grows(d)
  PROVE  PrintInv'
<1> USE DEF clients
<1>1. PrintTypes'
  <2>1. ASSUME NEW d \in Clients PROVE taken[d] <= Len(out'[d])
    <3>1. /\ taken[d] \in Nat /\ taken[d] <= Len(out[d])
          /\ Len(out[d]) <= Len(out'[d])
      BY DEF PrintInv, PrintTypes, Grows
    <3>2. Len(out[d]) \in Nat /\ Len(out'[d]) \in Nat
      BY LenProperties DEF PrintInv, Inv, Types
    <3> QED BY <3>1, <3>2
  <2> QED BY <2>1 DEF PrintInv, PrintTypes
<1>2. ASSUME NEW d \in Clients \ (mixed' \cup over') PROVE Sound(d)'
  <2>1. Sound(d)
    BY DEF PrintInv, BufferHolds, PrintsWhatItReads, Sound
  <2> QED BY <2>1, Untouched
<1> QED BY <1>1, <1>2, AllSound

\* The server's writes append to the sockets they go to.
LEMMA WritesGrow ==
  ASSUME Inv, NEW c \in Clients, NEW got,
         \A d \in Others(c) : got[d] \in Int /\ got[d] <= ReadSize(c),
         Written(c, got)
  PROVE  \A d \in Clients : Grows(d)
<1> SUFFICES ASSUME NEW d \in Clients PROVE Grows(d)
  OBVIOUS
<1> DEFINE o == out[d]
           q == inq[c]
           g == got[d]
<1>1. o \in Seq(Unit) /\ q \in Seq(Unit) /\ Len(o) \in Nat /\ Len(q) \in Nat
  BY LenProperties DEF Inv, Types
<1>2. CASE d \in Others(c)
  <2>1. out'[d] = o \o SubSeq(q, 1, g)
    BY <1>2 DEF Written
  <2>2. g \in Int /\ g <= Len(q)
    <3>1. g \in Int /\ g <= ReadSize(c)
      BY <1>2
    <3>2. ReadSize(c) \in Nat /\ ReadSize(c) <= Len(q)
      BY <1>1, TcpAssumption DEF ReadSize
    <3> HIDE DEF g, q
    <3> QED BY <1>1, <3>1, <3>2
  <2> HIDE DEF o, q, g
  <2>3. LET r == o \o SubSeq(q, 1, g)
        IN /\ r \in Seq(Unit) /\ Len(o) <= Len(r)
           /\ \A i \in 1..Len(o) : r[i] = o[i]
    BY <1>1, <2>2, WrittenSeq
  <2> QED BY <2>1, <2>3 DEF Grows, o
<1>3. CASE d \notin Others(c)
  <2>1. out'[d] = out[d]
    BY <1>3 DEF Written
  <2> QED BY <1>1, <2>1 DEF Grows
<1> QED BY <1>2, <1>3

\* Every step of the server, of a client, or of both preserves the invariant.
LEMMA PrintNext == PrintInv /\ [ChatNext]_all => PrintInv'
<1> SUFFICES ASSUME PrintInv, [ChatNext]_all PROVE PrintInv'
  OBVIOUS
<1>1. Inv /\ Inv'
  BY NextInv DEF PrintInv
<1>2. ASSUME UNCHANGED out PROVE \A d \in Clients : Grows(d)
  <2>1. \A d \in Clients : Len(out[d]) \in Nat /\ out[d] \in Seq(Unit)
    BY <1>1, LenProperties DEF Inv, Types
  <2> QED BY <1>2, <2>1 DEF Grows
<1>3. ASSUME NEW c \in Clients, ChatConnect(c) PROVE PrintInv'
  <2>1. UNCHANGED out /\ rpc[c] = "none"
    BY <1>3 DEF ChatConnect, Connect, Peer!Connect, Peer!At
  <2> QED BY <1>1, <1>3, <2>1, IdleInv DEF ChatConnect, Peer!Connect, Peer!Goto
<1>4. ASSUME NEW c \in Clients, Ends(c) \/ PeerClosed(c) PROVE PrintInv'
  <2>1. Peer!Exit(c) /\ UNCHANGED out
    BY <1>4 DEF Ends, PeerClosed, Peer!PeerClosed, ClientClose
  <2> QED BY <1>1, <2>1, ExitInv
<1>5. ASSUME NEW c \in Clients, Send(c) \/ ServerSide(c) PROVE PrintInv'
  <2>1. UNCHANGED out /\ UNCHANGED clients
    BY <1>5 DEF Send, ClientSend, ServerSide, Accept, Disconnected
  <2> QED BY <1>1, <1>2, <2>1, WritesInv
<1>6. ASSUME NEW c \in Clients PROVE \A d \in Others(c) :
         Taken(c)[d] \in Int /\ Taken(c)[d] <= ReadSize(c) /\ 0 <= ReadSize(c)
  BY <1>1, TakenBound
<1>7. ASSUME NEW c \in Clients, Relay(c) PROVE PrintInv'
  BY <1>1, <1>6, <1>7, WritesGrow, WritesInv DEF Relay, ForwardTo
<1>8. ASSUME NEW c \in Clients, RelayFails(c) PROVE PrintInv'
  <2>1. PICK before \in SUBSET Others(c) :
           ForwardFailsTo(c, [e \in Others(c) |->
                                IF e \in before THEN Taken(c)[e] ELSE 0])
    BY <1>8 DEF RelayFails
  <2> DEFINE got == [e \in Others(c) |-> IF e \in before THEN Taken(c)[e] ELSE 0]
  <2>2. \A d \in Others(c) : got[d] \in Int /\ got[d] <= ReadSize(c)
    BY <1>6
  <2>3. Written(c, got) /\ UNCHANGED clients
    BY <1>8, <2>1 DEF RelayFails, ForwardFailsTo
  <2> HIDE DEF got
  <2> QED BY <1>1, <2>2, <2>3, WritesGrow, WritesInv
<1>9. ASSUME NEW c \in Clients, Peer!Receive(c), UNCHANGED server PROVE PrintInv'
  <2>1. UNCHANGED out
    BY <1>9 DEF server, vars
  <2>2. CASE Peer!Return(c) \/ Peer!Joined(c)
    <3>1. \E l \in {"returned", "joined"} :
             /\ rpc' = [rpc EXCEPT ![c] = l]
             /\ rpc[c] \in {"loop", "returned"}
             /\ UNCHANGED <<taken, n, buffer, printed, mixed, over>>
      BY <2>2 DEF Peer!Return, Peer!Joined, Peer!Goto, Peer!At
    <3> QED BY <1>1, <2>1, <3>1, IdleInv
  <2> QED BY <1>1, <1>9, <2>1, <2>2, ClearInv, ReadInv, TerminateInv, OutputInv
          DEF Peer!Receive
<1>10. ASSUME NEW c \in Clients, Peer!Disconnect(c), UNCHANGED server PROVE PrintInv'
  <2>1. UNCHANGED <<out, rpc, taken, n, buffer, printed, mixed, over>>
    BY <1>10 DEF Peer!Disconnect, server, vars
  <2> QED BY <1>1, <2>1 DEF PrintInv, PrintTypes, BufferHolds, Held,
                            PrintsWhatItReads, Done
<1>11. CASE (CallFails \/ Stop \/ LoopEnds) /\ UNCHANGED clients
  <2>1. UNCHANGED out
    BY <1>11 DEF CallFails, Stop, LoopEnds
  <2> QED BY <1>1, <1>2, <1>11, <2>1, WritesInv
<1>12. CASE UNCHANGED all
  <2>1. UNCHANGED out /\ UNCHANGED clients
    BY <1>12 DEF all, vars
  <2> QED BY <1>1, <1>2, <2>1, WritesInv
<1> QED
  BY <1>3, <1>4, <1>5, <1>7, <1>8, <1>9, <1>10, <1>11, <1>12
     DEF ChatNext, ConnectFails, ClientEnds, ClientSide

\* A client prints exactly what it has read, whole and in order, however the
\* server's writes and its own reads cut the stream, unless another client of
\* its process has used the static buffer meanwhile or a read has filled it.
THEOREM PrintsAll == ChatSpec => []PrintsWhatItReads
<1>1. PrintInv => PrintsWhatItReads
  BY DEF PrintInv
<1> QED BY <1>1, PrintInit, PrintNext, PTL DEF ChatSpec
-----------------------------------------------------------------------------
(***************************************************************************)
(* The redis client: RedisProxy and the server it talks to.                *)
(***************************************************************************)
Cmd == [id : Nat \X Nat, op : {"set", "get"}, key : Keys, val : Values \cup {None}]
Rep == [id : Nat \X Nat, type : {"status", "nil", "string", "error"},
        val : Values \cup {None, "OK"}]

RedisTypes == /\ ctx \in Nat /\ conns \in Nat /\ calls \in Nat
              /\ net \in Seq(Seq(Cmd)) /\ cmds \in Seq(Cmd)
              /\ inbox \in Seq(Rep) /\ resps \in Seq(Rep)
              /\ store \in [Keys -> Values \cup {None}]
              /\ pc \in {"idle", "connect", "send", "replies"}

\* The replies to the call that have come, those still unread included.
Answered == Len(resps) + Len(inbox)
Answer(i) == IF i <= Len(resps) THEN resps[i] ELSE inbox[i - Len(resps)]

\* Outside a call, and before its commands are sent, the connection is clean.
CleanBetweenCalls ==
  /\ conns = Len(net) /\ ctx <= conns
  /\ pc \in {"send", "replies"} => ctx # 0
  /\ pc # "replies" => /\ inbox = <<>> /\ resps = <<>>
                       /\ ctx # 0 => net[ctx] = <<>>
  /\ pc = "idle" => cmds = <<>>
  /\ \A i, j \in 1..Len(cmds) : cmds[i].op = cmds[j].op

\* The replies that have come and the commands not yet executed are, in this
\* order, those of the call.
AnswersInOrder ==
  pc = "replies" =>
     /\ Answered + Len(net[ctx]) = Len(cmds)
     /\ \A i \in 1..Answered : Answer(i).id = cmds[i].id
     /\ \A i \in 1..Len(net[ctx]) : net[ctx][i] = cmds[Answered + i]

\* A Set on its way on a connection that was closed has returned false.
LateIsUnsure ==
  \A c \in 1..conns : c # ctx =>
     \A i \in 1..Len(net[c]) : net[c][i].op = "set" => net[c][i].key \in unsure

Sets(i, k) == cmds[i].op = "set" /\ cmds[i].key = k

\* A key without such a Set holds what was acknowledged last, or what the last
\* command executed of the call has put there, unless one was refused.
StoreKnown ==
  \A k \in Keys \ unsure :
     /\ pc # "replies" => store[k] = acked[k]
     /\ pc = "replies" =>
          \/ \E i \in 1..Answered : Sets(i, k) /\ Answer(i).type # "status"
          \/ (\A i \in 1..Answered : ~Sets(i, k)) /\ store[k] = acked[k]
          \/ \E i \in 1..Answered : /\ Sets(i, k) /\ store[k] = cmds[i].val
                                    /\ \A j \in 1..Answered : Sets(j, k) => j <= i

RedisInv == /\ RedisTypes /\ CleanBetweenCalls /\ AnswersInOrder
            /\ LateIsUnsure /\ StoreKnown

\* The proxy and the server start in the invariant.
LEMMA StartInv == ProxyInit => RedisInv
<1> SUFFICES ASSUME ProxyInit PROVE RedisInv
  OBVIOUS
<1>1. /\ <<>> \in Seq(Seq(Cmd)) /\ <<>> \in Seq(Cmd) /\ <<>> \in Seq(Rep)
      /\ Len(<<>>) = 0
  BY EmptySeq
<1>2. RedisTypes
  BY <1>1 DEF ProxyInit, RedisTypes
<1>3. CleanBetweenCalls
  BY <1>1 DEF ProxyInit, CleanBetweenCalls
<1>4. AnswersInOrder /\ LateIsUnsure /\ StoreKnown
  BY DEF ProxyInit, AnswersInOrder, LateIsUnsure, StoreKnown
<1> QED BY <1>2, <1>3, <1>4 DEF RedisInv

\* What the sequences of the invariant give.
LEMMA RedisSeqs ==
  ASSUME RedisInv
  PROVE  /\ Len(net) \in Nat /\ Len(cmds) \in Nat
         /\ Len(inbox) \in Nat /\ Len(resps) \in Nat
         /\ \A c \in 1..Len(net) : net[c] \in Seq(Cmd) /\ Len(net[c]) \in Nat
         /\ \A i \in 1..Len(cmds) : cmds[i] \in Cmd
         /\ DOMAIN cmds = 1..Len(cmds) /\ DOMAIN resps = 1..Len(resps)
         /\ DOMAIN net = 1..Len(net)
         /\ ctx # 0 => ctx \in 1..Len(net)
         /\ Answered \in Nat
<1> USE DEF RedisInv, RedisTypes
<1>1. /\ Len(net) \in Nat /\ Len(cmds) \in Nat
      /\ Len(inbox) \in Nat /\ Len(resps) \in Nat
  BY LenProperties
<1>2. \A c \in 1..Len(net) : net[c] \in Seq(Cmd)
  BY ElementOfSeq
<1>3. \A c \in 1..Len(net) : Len(net[c]) \in Nat
  BY <1>2, LenProperties
<1>4. \A i \in 1..Len(cmds) : cmds[i] \in Cmd
  BY ElementOfSeq
<1>5. /\ DOMAIN cmds = 1..Len(cmds) /\ DOMAIN resps = 1..Len(resps)
      /\ DOMAIN net = 1..Len(net)
  BY LenProperties
<1>6. ctx # 0 => ctx \in 1..Len(net)
  BY <1>1 DEF CleanBetweenCalls
<1>7. Answered \in Nat
  BY <1>1 DEF Answered
<1> QED BY <1>1, <1>2, <1>3, <1>4, <1>5, <1>6, <1>7

\* A call begins.
LEMMA CallInv == ASSUME RedisInv, Call PROVE RedisInv'
<1> USE DEF redis, history
<1>1. PICK m \in 1..MaxPipe : \E ops \in [1..m -> Ops] :
         /\ \A i \in 1..m : ops[i].op = ops[1].op
         /\ cmds' = [i \in 1..m |-> [id |-> <<calls + 1, i>>, op |-> ops[i].op,
                                     key |-> ops[i].key, val |-> ops[i].val]]
  BY DEF Call
<1>2. PICK ops \in [1..m -> Ops] :
         /\ \A i \in 1..m : ops[i].op = ops[1].op
         /\ cmds' = [i \in 1..m |-> [id |-> <<calls + 1, i>>, op |-> ops[i].op,
                                     key |-> ops[i].key, val |-> ops[i].val]]
  BY <1>1
<1>3. m \in Nat
  BY RedisAssumption
<1>4. \A i \in 1..m : ops[i] \in Ops /\ cmds'[i] \in Cmd /\ cmds'[i].op = ops[i].op
  <2> SUFFICES ASSUME NEW i \in 1..m
               PROVE  ops[i] \in Ops /\ cmds'[i] \in Cmd /\ cmds'[i].op = ops[i].op
    OBVIOUS
  <2>1. cmds'[i] = [id |-> <<calls + 1, i>>, op |-> ops[i].op,
                    key |-> ops[i].key, val |-> ops[i].val]
    BY <1>2
  <2>2. ops[i] \in Ops
    OBVIOUS
  <2>3. /\ ops[i].op \in {"set", "get"} /\ ops[i].key \in Keys
        /\ ops[i].val \in Values \cup {None}
    BY <2>2 DEF Ops
  <2>4. calls + 1 \in Nat /\ i \in Nat
    BY <1>3 DEF RedisInv, RedisTypes
  <2> QED BY <2>1, <2>2, <2>3, <2>4 DEF Cmd
<1>5. cmds' \in Seq(Cmd) /\ Len(cmds') = m
  <2>1. cmds' \in [1..m -> Cmd]
    BY <1>2, <1>4
  <2> QED BY <1>3, <2>1
<1>6. /\ pc = "idle" /\ pc' = "connect" /\ calls' = calls + 1
      /\ UNCHANGED <<ctx, conns, net, inbox, store, resps, acked, unsure>>
  BY DEF Call
<1>7. RedisTypes'
  BY <1>5, <1>6 DEF RedisInv, RedisTypes
<1>8. CleanBetweenCalls'
  BY <1>2, <1>4, <1>5, <1>6 DEF RedisInv, CleanBetweenCalls
<1>9. AnswersInOrder' /\ LateIsUnsure' /\ StoreKnown'
  BY <1>6 DEF RedisInv, AnswersInOrder, LateIsUnsure, StoreKnown
<1> QED BY <1>7, <1>8, <1>9 DEF RedisInv

\* connect.
LEMMA ConnectInv ==
  ASSUME RedisInv, ConnectKept \/ ConnectNew \/ ConnectRefused
  PROVE  RedisInv'
<1> USE DEF redis, history
<1>1. CASE ConnectKept \/ ConnectRefused
  <2>1. /\ pc = "connect" /\ pc' \in {"idle", "send"}
        /\ pc' = "send" => ctx # 0 /\ cmds' = cmds
        /\ pc' = "idle" => cmds' = <<>>
        /\ UNCHANGED <<ctx, conns, net, inbox, store, resps, calls, acked, unsure>>
    BY <1>1 DEF ConnectKept, ConnectRefused
  <2>2. <<>> \in Seq(Cmd) /\ 1..Len(<<>>) = {}
    BY EmptySeq
  <2>3. RedisTypes'
    BY <2>1, <2>2 DEF RedisInv, RedisTypes
  <2>4. CleanBetweenCalls'
    BY <2>1, <2>2 DEF RedisInv, CleanBetweenCalls
  <2>5. AnswersInOrder' /\ LateIsUnsure' /\ StoreKnown'
    BY <2>1 DEF RedisInv, AnswersInOrder, LateIsUnsure, StoreKnown
  <2> QED BY <2>3, <2>4, <2>5 DEF RedisInv
<1>2. CASE ConnectNew
  <2>1. /\ pc = "connect" /\ pc' = "send" /\ ctx = 0
        /\ conns' = conns + 1 /\ ctx' = conns + 1 /\ net' = Append(net, <<>>)
        /\ UNCHANGED <<inbox, store, cmds, resps, calls, acked, unsure>>
    BY <1>2 DEF ConnectNew
  <2>2. <<>> \in Seq(Cmd) /\ Len(<<>>) = 0
    BY EmptySeq
  <2>3. /\ net' \in Seq(Seq(Cmd)) /\ Len(net') = Len(net) + 1
        /\ \A i \in 1..Len(net) : net'[i] = net[i]
        /\ net'[Len(net) + 1] = <<>>
    BY <2>1, <2>2, AppendProperties DEF RedisInv, RedisTypes
  <2>4. conns = Len(net) /\ Len(net) \in Nat
    BY RedisSeqs DEF RedisInv, CleanBetweenCalls
  <2>5. RedisTypes'
    BY <2>1, <2>3 DEF RedisInv, RedisTypes
  <2>6. CleanBetweenCalls'
    BY <2>1, <2>3, <2>4 DEF RedisInv, CleanBetweenCalls
  <2>7. LateIsUnsure'
    <3> SUFFICES ASSUME NEW c \in 1..conns', c # ctx', NEW i \in 1..Len(net'[c]),
                        net'[c][i].op = "set"
                 PROVE  net'[c][i].key \in unsure'
      BY DEF LateIsUnsure
    <3>1. c \in 1..Len(net) /\ net'[c] = net[c] /\ c # ctx
      BY <2>1, <2>3, <2>4
    <3> QED BY <2>1, <2>4, <3>1 DEF RedisInv, LateIsUnsure
  <2>8. AnswersInOrder' /\ StoreKnown'
    BY <2>1 DEF RedisInv, AnswersInOrder, StoreKnown
  <2> QED BY <2>5, <2>6, <2>7, <2>8 DEF RedisInv
<1> QED BY <1>1, <1>2

\* What sending the first m commands leaves on the connection.
LEMMA SentFirst ==
  ASSUME RedisInv, pc = "send", NEW m \in 0..Len(cmds), SendFirst(m)
  PROVE  /\ net' \in Seq(Seq(Cmd)) /\ Len(net') = Len(net)
         /\ \A c \in 1..Len(net) : c # ctx => net'[c] = net[c]
         /\ Len(net'[ctx]) = m
         /\ \A i \in 1..m : i \in 1..Len(cmds) /\ net'[ctx][i] = cmds[i]
<1>1. ctx \in 1..Len(net) /\ net[ctx] = <<>> /\ Len(cmds) \in Nat /\ m \in Nat
  BY RedisSeqs DEF RedisInv, CleanBetweenCalls
<1> DEFINE s == SubSeq(cmds, 1, m)
<1>2. \A i \in 1..m : i \in 1..Len(cmds) /\ cmds[i] \in Cmd
  BY <1>1, RedisSeqs
<1>3. /\ s \in Seq(Cmd) /\ Len(s) = IF 1 <= m THEN m - 1 + 1 ELSE 0
      /\ \A i \in 1..(m - 1 + 1) : s[i] = cmds[1 + i - 1]
  BY <1>1, <1>2, SubSeqProperties
<1>4. Len(s) = m /\ \A i \in 1..m : s[i] = cmds[i]
  BY <1>1, <1>3
<1>5. <<>> \o s = s
  BY <1>3, ConcatEmptySeq
<1>6. net' = [net EXCEPT ![ctx] = s]
  BY <1>1, <1>5 DEF SendFirst
<1> HIDE DEF s
<1>7. net \in Seq(Seq(Cmd))
  BY DEF RedisInv, RedisTypes
<1>8. /\ net' \in Seq(Seq(Cmd)) /\ Len(net') = Len(net)
      /\ \A j \in 1..Len(net) : net'[j] = IF j = ctx THEN s ELSE net[j]
  BY <1>1, <1>3, <1>6, <1>7, ExceptSeq, SMTT(20)
<1> QED BY <1>1, <1>2, <1>4, <1>8

\* All commands are sent.
LEMMA AllSentInv ==
  ASSUME RedisInv, SendAll
  PROVE  RedisInv'
<1>1. /\ pc = "send" /\ pc' = "replies" /\ SendFirst(Len(cmds))
      /\ UNCHANGED <<ctx, conns, inbox, store, cmds, resps, calls, acked, unsure>>
  BY DEF SendAll, history
<1>2. Len(cmds) \in Nat
  BY RedisSeqs
<1>3. /\ net' \in Seq(Seq(Cmd)) /\ Len(net') = Len(net)
      /\ \A c \in 1..Len(net) : c # ctx => net'[c] = net[c]
      /\ Len(net'[ctx]) = Len(cmds)
      /\ \A i \in 1..Len(cmds) : net'[ctx][i] = cmds[i]
  BY <1>1, <1>2, SentFirst
<1>4. inbox = <<>> /\ resps = <<>> /\ ctx # 0 /\ conns = Len(net)
  BY <1>1 DEF RedisInv, CleanBetweenCalls
<1>5. Answered' = 0
  BY <1>1, <1>4, EmptySeq DEF Answered
<1>6. RedisTypes'
  BY <1>1, <1>3 DEF RedisInv, RedisTypes
<1>7. CleanBetweenCalls'
  BY <1>1, <1>3, <1>4 DEF RedisInv, CleanBetweenCalls
<1>8. AnswersInOrder'
  BY <1>1, <1>2, <1>3, <1>5 DEF AnswersInOrder
<1>9. LateIsUnsure'
  BY <1>1, <1>3, <1>4 DEF RedisInv, LateIsUnsure
<1>10. StoreKnown'
  BY <1>1, <1>5 DEF RedisInv, StoreKnown
<1> QED BY <1>6, <1>7, <1>8, <1>9, <1>10 DEF RedisInv

\* The connection is closed and the call returns false: whatever is still on
\* its way is of the call.
LEMMA GiveUpInv ==
  ASSUME RedisInv, ctx # 0, Close, ReturnFalse,
         UNCHANGED <<conns, store, calls>>,
         net' \in Seq(Seq(Cmd)), Len(net') = Len(net),
         \A c \in 1..Len(net) : c # ctx => net'[c] = net[c],
         \A i \in 1..Len(net'[ctx]) : \E j \in 1..Len(cmds) : net'[ctx][i] = cmds[j],
         \A k \in Keys \ unsure : k \notin KeysSet => store[k] = acked[k]
  PROVE  RedisInv'
<1>1. /\ ctx' = 0 /\ inbox' = <<>> /\ pc' = "idle" /\ cmds' = <<>> /\ resps' = <<>>
      /\ unsure' = unsure \cup KeysSet /\ acked' = acked
  BY DEF Close, ReturnFalse
<1>2. <<>> \in Seq(Cmd) /\ <<>> \in Seq(Rep) /\ Len(<<>>) = 0
  BY EmptySeq
<1>3. RedisTypes'
  BY <1>1, <1>2 DEF RedisInv, RedisTypes
<1>4. CleanBetweenCalls'
  BY <1>1, <1>2 DEF RedisInv, RedisTypes, CleanBetweenCalls
<1>5. LateIsUnsure'
  <2> SUFFICES ASSUME NEW c \in 1..conns', NEW i \in 1..Len(net'[c]),
                      net'[c][i].op = "set"
               PROVE  net'[c][i].key \in unsure'
    BY DEF LateIsUnsure
  <2>1. c \in 1..Len(net) /\ c \in 1..conns
    BY DEF RedisInv, CleanBetweenCalls
  <2>2. CASE c = ctx
    BY <1>1, <2>2, RedisSeqs DEF KeysSet
  <2>3. CASE c # ctx
    BY <1>1, <2>1, <2>3 DEF RedisInv, LateIsUnsure
  <2> QED BY <2>2, <2>3
<1>6. AnswersInOrder' /\ StoreKnown'
  BY <1>1 DEF AnswersInOrder, StoreKnown
<1> QED BY <1>3, <1>4, <1>5, <1>6 DEF RedisInv

\* A failure while commands are sent, or while replies are read.
LEMMA FailInv == ASSUME RedisInv, SendFails \/ Timeout PROVE RedisInv'
<1>1. CASE SendFails
  <2>1. PICK m \in 0..Len(cmds) : SendFirst(m)
    BY <1>1 DEF SendFails
  <2>2. /\ pc = "send" /\ Close /\ ReturnFalse
        /\ UNCHANGED <<conns, store, calls>>
    BY <1>1 DEF SendFails
  <2>3. ctx # 0 /\ \A k \in Keys \ unsure : store[k] = acked[k]
    BY <2>2 DEF RedisInv, CleanBetweenCalls, StoreKnown
  <2>4. /\ net' \in Seq(Seq(Cmd)) /\ Len(net') = Len(net)
        /\ \A c \in 1..Len(net) : c # ctx => net'[c] = net[c]
        /\ \A i \in 1..Len(net'[ctx]) : \E j \in 1..Len(cmds) : net'[ctx][i] = cmds[j]
    BY <2>1, <2>2, SentFirst
  <2> QED BY <2>2, <2>3, <2>4, GiveUpInv
<1>2. CASE Timeout
  <2>1. /\ pc = "replies" /\ Close /\ ReturnFalse
        /\ UNCHANGED <<conns, net, store, calls>>
    BY <1>2 DEF Timeout
  <2>2. ctx # 0 /\ net \in Seq(Seq(Cmd))
    BY <2>1 DEF RedisInv, CleanBetweenCalls, RedisTypes
  <2>3. \A i \in 1..Len(net[ctx]) : \E j \in 1..Len(cmds) : net[ctx][i] = cmds[j]
    <3> SUFFICES ASSUME NEW i \in 1..Len(net[ctx])
                 PROVE  \E j \in 1..Len(cmds) : net[ctx][i] = cmds[j]
      OBVIOUS
    <3>1. /\ net[ctx][i] = cmds[Answered + i]
          /\ Answered + Len(net[ctx]) = Len(cmds)
      BY <2>1 DEF RedisInv, AnswersInOrder
    <3>2. Answered \in Nat /\ Len(net[ctx]) \in Nat /\ Len(cmds) \in Nat
      BY <2>2, RedisSeqs
    <3>3. Answered + i \in 1..Len(cmds)
      BY <3>1, <3>2
    <3> QED BY <3>1, <3>3
  <2>4. \A k \in Keys \ unsure : k \notin KeysSet => store[k] = acked[k]
    <3> SUFFICES ASSUME NEW k \in Keys \ unsure, k \notin KeysSet
                 PROVE  store[k] = acked[k]
      OBVIOUS
    <3>1. \A i \in 1..Len(cmds) : ~Sets(i, k)
      BY RedisSeqs DEF KeysSet, Sets
    <3>2. Answered \in Nat /\ Answered <= Len(cmds)
      BY <2>1, <2>2, RedisSeqs DEF RedisInv, AnswersInOrder
    <3>3. \A i \in 1..Answered : ~Sets(i, k)
      BY <3>1, <3>2, RedisSeqs
    <3> QED BY <2>1, <3>3 DEF RedisInv, StoreKnown
  <2>5. Len(net') = Len(net) /\ net' = net
    BY <2>1
  <2> QED BY <2>1, <2>2, <2>3, <2>4, <2>5, GiveUpInv
<1> QED BY <1>1, <1>2

\* ~RedisProxy.
LEMMA DestroyInv == ASSUME RedisInv, Destroy PROVE RedisInv'
<1>1. /\ pc = "idle" /\ ctx # 0 /\ ctx' = 0 /\ inbox' = <<>>
      /\ UNCHANGED <<conns, net, store, pc, cmds, resps, calls, acked, unsure>>
  BY DEF Destroy, Close, history
<1>2. net[ctx] = <<>> /\ 1..Len(<<>>) = {} /\ <<>> \in Seq(Rep)
  BY <1>1, EmptySeq DEF RedisInv, CleanBetweenCalls
<1>3. RedisTypes'
  BY <1>1, <1>2 DEF RedisInv, RedisTypes
<1>4. CleanBetweenCalls'
  BY <1>1 DEF RedisInv, RedisTypes, CleanBetweenCalls
<1>5. LateIsUnsure'
  BY <1>1, <1>2 DEF RedisInv, LateIsUnsure
<1>6. AnswersInOrder' /\ StoreKnown'
  BY <1>1 DEF RedisInv, AnswersInOrder, StoreKnown
<1> QED BY <1>3, <1>4, <1>5, <1>6 DEF RedisInv

\* A reply is read: it moves from the connection to the call.
LEMMA GetReplyInv == ASSUME RedisInv, GetReply PROVE RedisInv'
<1>1. /\ pc = "replies" /\ inbox # <<>>
      /\ resps' = Append(resps, Head(inbox)) /\ inbox' = Tail(inbox)
      /\ UNCHANGED <<ctx, conns, net, store, pc, cmds, calls, acked, unsure>>
  BY DEF GetReply, history
<1>2. /\ inbox \in Seq(Rep) /\ resps \in Seq(Rep)
      /\ Len(inbox) \in Nat /\ Len(resps) \in Nat
  BY RedisSeqs DEF RedisInv, RedisTypes
<1>3. /\ Head(inbox) \in Rep /\ inbox' \in Seq(Rep) /\ Len(inbox') = Len(inbox) - 1
      /\ \A i \in 1..Len(inbox') : inbox'[i] = inbox[i + 1]
      /\ Head(inbox) = inbox[1]
  BY <1>1, <1>2, HeadTailProperties, EmptySeq
<1>4. /\ resps' \in Seq(Rep) /\ Len(resps') = Len(resps) + 1
      /\ \A i \in 1..Len(resps) : resps'[i] = resps[i]
      /\ resps'[Len(resps) + 1] = Head(inbox)
  BY <1>1, <1>2, <1>3, AppendProperties
<1>5. Answered' = Answered /\ Answered = Len(resps) + Len(inbox)
  BY <1>2, <1>3, <1>4 DEF Answered
<1>6. \A i \in 1..Answered : Answer(i)' = Answer(i)
  <2> SUFFICES ASSUME NEW i \in 1..Answered PROVE Answer(i)' = Answer(i)
    OBVIOUS
  <2>1. CASE i <= Len(resps)
    BY <1>2, <1>4, <2>1 DEF Answer
  <2>2. CASE i = Len(resps) + 1
    <3>1. i - Len(resps) = 1 /\ ~(i <= Len(resps)) /\ i <= Len(resps')
      BY <1>2, <1>4, <2>2
    <3>2. Answer(i) = inbox[1]
      BY <3>1 DEF Answer
    <3>3. Answer(i)' = resps'[Len(resps) + 1]
      BY <2>2, <3>1 DEF Answer
    <3> QED BY <1>3, <1>4, <3>2, <3>3
  <2>3. CASE i > Len(resps) + 1
    <3>1. /\ ~(i <= Len(resps)) /\ ~(i <= Len(resps'))
          /\ i - Len(resps') \in 1..Len(inbox')
          /\ (i - Len(resps')) + 1 = i - Len(resps)
      BY <1>2, <1>3, <1>4, <1>5, <2>3
    <3>2. inbox'[i - Len(resps')] = inbox[(i - Len(resps')) + 1]
      BY <1>3, <3>1
    <3> QED BY <3>1, <3>2 DEF Answer
  <2> QED BY <1>2, <2>1, <2>2, <2>3
<1>7. RedisTypes'
  BY <1>1, <1>3, <1>4 DEF RedisInv, RedisTypes
<1>8. CleanBetweenCalls' /\ LateIsUnsure'
  BY <1>1 DEF RedisInv, CleanBetweenCalls, LateIsUnsure
<1>9. AnswersInOrder'
  BY <1>1, <1>5, <1>6 DEF RedisInv, AnswersInOrder
<1>10. StoreKnown'
  BY <1>1, <1>5, <1>6 DEF RedisInv, StoreKnown, Sets
<1> QED BY <1>7, <1>8, <1>9, <1>10 DEF RedisInv

\* The call has all its replies and returns.
LEMMA ReturnInv == ASSUME RedisInv, Return PROVE RedisInv'
<1>1. /\ pc = "replies" /\ ~(Len(resps) < Len(cmds))
      /\ pc' = "idle" /\ cmds' = <<>> /\ resps' = <<>>
      /\ UNCHANGED <<ctx, conns, net, inbox, store, calls>>
  BY DEF Return, RepliesMissing, redis
<1>2. /\ Len(resps) \in Nat /\ Len(inbox) \in Nat /\ Len(cmds) \in Nat
      /\ ctx \in 1..Len(net) /\ net[ctx] \in Seq(Cmd) /\ Len(net[ctx]) \in Nat
  BY <1>1, RedisSeqs DEF RedisInv, CleanBetweenCalls
<1>3. Len(resps) + Len(inbox) + Len(net[ctx]) = Len(cmds)
  BY <1>1 DEF RedisInv, AnswersInOrder, Answered
<1>4. /\ Len(inbox) = 0 /\ Len(net[ctx]) = 0 /\ Len(resps) = Len(cmds)
      /\ Answered = Len(cmds)
  <2> DEFINE a == Len(resps)
             b == Len(inbox)
             m == Len(net[ctx])
             d == Len(cmds)
  <2>1. a \in Nat /\ b \in Nat /\ m \in Nat /\ d \in Nat
    BY <1>2
  <2>2. ~(a < d) /\ a + b + m = d
    BY <1>1, <1>3
  <2>3. Answered = a + b
    BY DEF Answered
  <2> HIDE DEF a, b, m, d
  <2>4. b = 0 /\ m = 0 /\ a = d /\ Answered = d
    BY <2>1, <2>2, <2>3
  <2> QED BY <2>4 DEF a, b, m, d
<1>5. inbox = <<>> /\ net[ctx] = <<>>
  BY <1>2, <1>4, EmptySeq DEF RedisInv, RedisTypes
<1>6. <<>> \in Seq(Cmd) /\ <<>> \in Seq(Rep) /\ 1..Len(<<>>) = {}
  BY EmptySeq
<1>7. ASSUME NEW k \in Keys \ unsure
      PROVE  \/ \E i \in 1..Len(cmds) : Sets(i, k) /\ resps[i].type # "status"
             \/ (\A i \in 1..Len(cmds) : ~Sets(i, k)) /\ store[k] = acked[k]
             \/ \E i \in 1..Len(cmds) : /\ Sets(i, k) /\ store[k] = cmds[i].val
                                        /\ \A j \in 1..Len(cmds) : Sets(j, k) => j <= i
  <2>1. \A i \in 1..Len(cmds) : Answer(i) = resps[i]
    BY <1>2, <1>4 DEF Answer
  <2> QED BY <1>1, <1>4, <2>1 DEF RedisInv, StoreKnown
<1>8. \A k \in Keys : k \in KeysSet <=> \E i \in 1..Len(cmds) : Sets(i, k)
  BY RedisSeqs DEF KeysSet, Sets
<1>9. ASSUME \A i \in DOMAIN resps : Stored(resps[i])
      PROVE  unsure' = unsure /\ \A k \in Keys \ unsure' : store[k] = acked'[k]
  <2> DEFINE Last(k) == CHOOSE i \in DOMAIN cmds :
                          /\ cmds[i].key = k
                          /\ \A j \in DOMAIN cmds : cmds[j].key = k => j <= i
  <2>1. /\ acked' = [k \in Keys |-> IF k \in KeysSet THEN cmds[Last(k)].val
                                    ELSE acked[k]]
        /\ unsure' = unsure
    BY <1>9 DEF Return
  <2>2. \A i \in 1..Len(cmds) : resps[i].type = "status"
    BY <1>4, <1>9, RedisSeqs DEF Stored
  <2>3. ASSUME NEW k \in Keys \ unsure PROVE store[k] = acked'[k]
    <3>1. CASE \A i \in 1..Len(cmds) : ~Sets(i, k)
      <4>1. k \notin KeysSet
        BY <1>8, <3>1
      <4>2. store[k] = acked[k]
        BY <1>7, <3>1
      <4> QED BY <2>1, <4>1, <4>2
    <3>2. CASE \E i \in 1..Len(cmds) : Sets(i, k)
      <4>1. k \in KeysSet
        BY <1>8, <3>2
      <4>2. PICK i \in 1..Len(cmds) :
               /\ Sets(i, k) /\ store[k] = cmds[i].val
               /\ \A j \in 1..Len(cmds) : Sets(j, k) => j <= i
        BY <1>7, <2>2, <3>2
      <4>3. \A j \in 1..Len(cmds) : cmds[j].key = k => j <= i
        BY <4>2 DEF Sets, RedisInv, CleanBetweenCalls
      <4>4. /\ i \in DOMAIN cmds /\ cmds[i].key = k
            /\ \A j \in DOMAIN cmds : cmds[j].key = k => j <= i
        BY <4>2, <4>3, RedisSeqs DEF Sets
      <4>5. /\ Last(k) \in DOMAIN cmds /\ cmds[Last(k)].key = k
            /\ \A j \in DOMAIN cmds : cmds[j].key = k => j <= Last(k)
        BY <4>4
      <4> HIDE DEF Last
      <4>6. Last(k) = i
        <5>1. Last(k) <= i /\ i <= Last(k)
          BY <4>4, <4>5
        <5>2. Last(k) \in Nat /\ i \in Nat
          BY <4>5, RedisSeqs
        <5> QED BY <5>1, <5>2
      <4> QED BY <2>1, <4>1, <4>2, <4>6
    <3> QED BY <3>1, <3>2
  <2> QED BY <2>1, <2>3
<1>10. ASSUME ~\A i \in DOMAIN resps : Stored(resps[i])
       PROVE  unsure \subseteq unsure' /\ \A k \in Keys \ unsure' : store[k] = acked'[k]
  <2>1. unsure' = unsure \cup KeysSet /\ acked' = acked
    BY <1>10 DEF Return
  <2>2. ASSUME NEW k \in Keys \ unsure' PROVE store[k] = acked'[k]
    <3>1. k \in Keys \ unsure /\ k \notin KeysSet
      BY <2>1
    <3>2. \A i \in 1..Len(cmds) : ~Sets(i, k)
      BY <1>8, <3>1
    <3> QED BY <1>7, <2>1, <3>1, <3>2
  <2> QED BY <2>1, <2>2
<1>11. unsure \subseteq unsure' /\ \A k \in Keys \ unsure' : store[k] = acked'[k]
  BY <1>9, <1>10
<1>12. RedisTypes'
  BY <1>1, <1>6 DEF RedisInv, RedisTypes
<1>13. CleanBetweenCalls'
  BY <1>1, <1>5, <1>6 DEF RedisInv, CleanBetweenCalls
<1>14. LateIsUnsure'
  BY <1>1, <1>11 DEF RedisInv, LateIsUnsure
<1>15. AnswersInOrder' /\ StoreKnown'
  BY <1>1, <1>11 DEF AnswersInOrder, StoreKnown
<1> QED BY <1>12, <1>13, <1>14, <1>15 DEF RedisInv

\* What taking a command off connection c leaves there.
LEMMA TakenFirst ==
  ASSUME RedisInv, NEW c \in DOMAIN net, Take(c)
  PROVE  /\ c \in 1..Len(net) /\ Len(net[c]) \in Nat \ {0}
         /\ Head(net[c]) = net[c][1] /\ net[c][1] \in Cmd
         /\ net' \in Seq(Seq(Cmd)) /\ Len(net') = Len(net)
         /\ \A d \in 1..Len(net) : d # c => net'[d] = net[d]
         /\ Len(net'[c]) = Len(net[c]) - 1
         /\ \A i \in 1..Len(net'[c]) : net'[c][i] = net[c][i + 1]
         /\ UNCHANGED <<ctx, conns, pc, cmds, resps, calls, acked, unsure>>
<1> DEFINE s == net[c]
           t == Tail(net[c])
<1>1. /\ s # <<>> /\ net' = [net EXCEPT ![c] = t]
      /\ UNCHANGED <<ctx, conns, pc, cmds, resps, calls, acked, unsure>>
  BY DEF Take, history
<1>2. c \in 1..Len(net) /\ s \in Seq(Cmd) /\ Len(s) \in Nat
  BY RedisSeqs
<1>3. Len(s) # 0
  BY <1>1, <1>2, EmptySeq
<1>4. Head(s) = s[1] /\ s[1] \in Cmd
  BY <1>2, <1>3, ElementOfSeq
<1>5. t \in Seq(Cmd) /\ Len(t) = Len(s) - 1 /\ \A i \in 1..Len(t) : t[i] = s[i + 1]
  BY <1>1, <1>2, HeadTailProperties
<1>6. net \in Seq(Seq(Cmd))
  BY DEF RedisInv, RedisTypes
<1> HIDE DEF s, t
<1>7. /\ net' \in Seq(Seq(Cmd)) /\ Len(net') = Len(net)
      /\ \A j \in 1..Len(net) : net'[j] = IF j = c THEN t ELSE net[j]
  BY <1>1, <1>2, <1>5, <1>6, ExceptSeq, SMTT(20)
<1>8. net'[c] = t
  BY <1>2, <1>7
<1> QED BY <1>1, <1>2, <1>3, <1>4, <1>5, <1>7, <1>8 DEF s

\* StoreKnown after a step that changes neither the call nor the history.
LEMMA SameStored ==
  ASSUME UNCHANGED <<pc, cmds, acked, unsure>>,
         \A k \in Keys \ unsure :
           /\ pc # "replies" => store'[k] = acked[k]
           /\ pc = "replies" =>
              \/ \E i \in 1..Answered' : Sets(i, k) /\ Answer(i)'.type # "status"
              \/ (\A i \in 1..Answered' : ~Sets(i, k)) /\ store'[k] = acked[k]
              \/ \E i \in 1..Answered' : /\ Sets(i, k) /\ store'[k] = cmds[i].val
                                         /\ \A j \in 1..Answered' : Sets(j, k) => j <= i
  PROVE  StoreKnown'
<1>1. \A i, k : Sets(i, k)' <=> Sets(i, k)
  BY DEF Sets
<1> QED BY <1>1 DEF StoreKnown

\* A late command, of a connection that was closed, touches only keys with a
\* Set that returned false.
LEMMA LateInv ==
  ASSUME RedisInv, NEW c \in DOMAIN net, c # ctx, Take(c), inbox' = inbox,
         store' \in [Keys -> Values \cup {None}],
         \A k \in Keys \ unsure : store'[k] = store[k]
  PROVE  RedisInv'
<1>1. /\ c \in 1..Len(net) /\ Len(net[c]) \in Nat
      /\ net' \in Seq(Seq(Cmd)) /\ Len(net') = Len(net)
      /\ \A d \in 1..Len(net) : d # c => net'[d] = net[d]
      /\ Len(net'[c]) = Len(net[c]) - 1
      /\ \A i \in 1..Len(net'[c]) : net'[c][i] = net[c][i + 1]
      /\ UNCHANGED <<ctx, conns, pc, cmds, resps, calls, acked, unsure>>
  BY TakenFirst
<1>2. ctx # 0 => net'[ctx] = net[ctx]
  BY <1>1, RedisSeqs
<1>3. RedisTypes'
  BY <1>1 DEF RedisInv, RedisTypes
<1>4. CleanBetweenCalls'
  BY <1>1, <1>2 DEF RedisInv, CleanBetweenCalls
<1>5. Answered' = Answered /\ \A i \in 1..Answered : Answer(i)' = Answer(i)
  BY <1>1 DEF Answered, Answer
<1>6. AnswersInOrder'
  BY <1>1, <1>2, <1>5 DEF RedisInv, AnswersInOrder, CleanBetweenCalls
<1>7. LateIsUnsure'
  <2> SUFFICES ASSUME NEW d \in 1..conns', d # ctx', NEW i \in 1..Len(net'[d]),
                      net'[d][i].op = "set"
               PROVE  net'[d][i].key \in unsure'
    BY DEF LateIsUnsure
  <2>1. d \in 1..Len(net) /\ d \in 1..conns /\ d # ctx
    BY <1>1 DEF RedisInv, CleanBetweenCalls
  <2>2. CASE d = c
    <3>1. i \in 1..Len(net'[c]) /\ net'[c][i] = net[c][i + 1]
      BY <1>1, <2>2
    <3>2. i + 1 \in 1..Len(net[c])
      <4> DEFINE a == Len(net[c])
                 b == Len(net'[c])
      <4>1. a \in Nat /\ b = a - 1 /\ i \in 1..b
        BY <1>1, <3>1
      <4> HIDE DEF a, b
      <4>2. i + 1 \in 1..a
        BY <4>1
      <4> QED BY <4>2 DEF a
    <3> QED BY <1>1, <2>1, <2>2, <3>1, <3>2 DEF RedisInv, LateIsUnsure
  <2>3. CASE d # c
    BY <1>1, <2>1, <2>3 DEF RedisInv, LateIsUnsure
  <2> QED BY <2>2, <2>3
<1>8. StoreKnown'
  <2> SUFFICES ASSUME NEW k \in Keys \ unsure
               PROVE
       /\ pc # "replies" => store'[k] = acked[k]
       /\ pc = "replies" =>
          \/ \E i \in 1..Answered' : Sets(i, k) /\ Answer(i)'.type # "status"
          \/ (\A i \in 1..Answered' : ~Sets(i, k)) /\ store'[k] = acked[k]
          \/ \E i \in 1..Answered' : /\ Sets(i, k) /\ store'[k] = cmds[i].val
                                     /\ \A j \in 1..Answered' : Sets(j, k) => j <= i
    BY <1>1, SameStored
  <2> QED BY <1>5 DEF RedisInv, StoreKnown
<1> QED BY <1>3, <1>4, <1>6, <1>7, <1>8 DEF RedisInv

\* The next command of the call is executed, or refused, and answered.
LEMMA ServeInv ==
  ASSUME RedisInv, ctx \in DOMAIN net, Take(ctx),
         NEW r \in Rep, r.id = Head(net[ctx]).id, inbox' = Append(inbox, r),
         store' \in [Keys -> Values \cup {None}],
         \A k \in Keys : IF Head(net[ctx]).op = "set" /\ Head(net[ctx]).key = k
                         THEN r.type = "status" => store'[k] = Head(net[ctx]).val
                         ELSE store'[k] = store[k]
  PROVE  RedisInv'
<1>1. /\ ctx \in 1..Len(net) /\ Len(net[ctx]) \in Nat \ {0}
      /\ Head(net[ctx]) = net[ctx][1]
      /\ net' \in Seq(Seq(Cmd)) /\ Len(net') = Len(net)
      /\ \A d \in 1..Len(net) : d # ctx => net'[d] = net[d]
      /\ Len(net'[ctx]) = Len(net[ctx]) - 1
      /\ \A i \in 1..Len(net'[ctx]) : net'[ctx][i] = net[ctx][i + 1]
      /\ UNCHANGED <<ctx, conns, pc, cmds, resps, calls, acked, unsure>>
  BY TakenFirst
<1>lens. /\ Len(net[ctx]) \in Nat /\ Len(net'[ctx]) \in Nat
       /\ Len(net'[ctx]) = Len(net[ctx]) - 1
  <2> DEFINE a == Len(net[ctx])
             b == Len(net'[ctx])
  <2>1. a \in Nat \ {0} /\ b = a - 1
    BY <1>1
  <2> HIDE DEF a, b
  <2>2. a \in Nat /\ b \in Nat /\ b = a - 1
    BY <2>1
  <2> QED BY <2>2 DEF a, b
<1>2. pc = "replies" /\ ctx # 0
  <2>1. ctx # 0 /\ net[ctx] # <<>>
    BY <1>1, RedisSeqs, EmptySeq
  <2> QED BY <2>1 DEF RedisInv, CleanBetweenCalls
<1>3. /\ Len(resps) \in Nat /\ Len(inbox) \in Nat /\ Len(cmds) \in Nat
      /\ Answered \in Nat /\ Answered = Len(resps) + Len(inbox)
  BY RedisSeqs DEF Answered
<1>4. /\ inbox' \in Seq(Rep) /\ Len(inbox') = Len(inbox) + 1
      /\ \A i \in 1..Len(inbox) : inbox'[i] = inbox[i]
      /\ inbox'[Len(inbox) + 1] = r
  BY AppendProperties DEF RedisInv, RedisTypes
<1>5. Answered' = Answered + 1
  BY <1>1, <1>3, <1>4 DEF Answered
<1>6. \A i \in 1..Answered : Answer(i)' = Answer(i)
  <2> SUFFICES ASSUME NEW i \in 1..Answered PROVE Answer(i)' = Answer(i)
    OBVIOUS
  <2>1. CASE i <= Len(resps)
    BY <1>1, <2>1 DEF Answer
  <2>2. CASE ~(i <= Len(resps))
    <3>1. i - Len(resps) \in 1..Len(inbox)
      BY <1>3, <2>2
    <3> QED BY <1>1, <1>4, <2>2, <3>1 DEF Answer
  <2> QED BY <2>1, <2>2
<1>7. ASSUME NEW i \in Nat, i = Answered + 1 PROVE Answer(i)' = r
  <2>1. ~(i <= Len(resps)) /\ i - Len(resps) = Len(inbox) + 1
    BY <1>3, <1>7
  <2>2. ~(i <= Len(resps')) /\ i - Len(resps') = Len(inbox) + 1
    BY <1>1, <2>1
  <2>3. Answer(i)' = inbox'[Len(inbox) + 1]
    BY <2>2 DEF Answer
  <2> QED BY <1>4, <2>3
<1>8. /\ Answered + Len(net[ctx]) = Len(cmds)
      /\ \A i \in 1..Answered : Answer(i).id = cmds[i].id
      /\ \A i \in 1..Len(net[ctx]) : net[ctx][i] = cmds[Answered + i]
  BY <1>2 DEF RedisInv, AnswersInOrder
<1>9. Head(net[ctx]) = cmds[Answered + 1]
  <2>1. Head(net[ctx]) = net[ctx][1] /\ Len(net[ctx]) \in Nat \ {0}
    BY <1>1
  <2>2. 1 \in 1..Len(net[ctx])
    BY <2>1
  <2> QED BY <1>8, <2>1, <2>2
<1>10. RedisTypes'
  BY <1>1, <1>4 DEF RedisInv, RedisTypes
<1>11. CleanBetweenCalls'
  BY <1>1, <1>2 DEF RedisInv, CleanBetweenCalls
<1>12. AnswersInOrder'
  <2>1. Answered' + Len(net'[ctx]) = Len(cmds)
    <3> DEFINE a == Len(net[ctx])
               b == Len(net'[ctx])
               m == Len(cmds)
    <3>1. /\ a \in Nat /\ b \in Nat /\ b = a - 1 /\ m \in Nat /\ Answered + a = m
          /\ Answered \in Nat /\ Answered' = Answered + 1
      BY <1>3, <1>5, <1>8, <1>lens
    <3> HIDE DEF a, b, m
    <3>2. Answered' + b = m
      BY <3>1
    <3> QED BY <3>2 DEF b, m
  <2>2. ASSUME NEW i \in 1..Answered' PROVE Answer(i)'.id = cmds[i].id
    <3>1. i \in 1..Answered \/ i = Answered + 1
      BY <1>3, <1>5
    <3>2. CASE i \in 1..Answered
      BY <1>6, <1>8, <3>2
    <3>3. CASE i = Answered + 1
      <4>1. Answer(i)' = r
        BY <1>3, <1>7, <3>3
      <4> QED BY <1>9, <3>3, <4>1
    <3> QED BY <3>1, <3>2, <3>3
  <2>3. ASSUME NEW i \in 1..Len(net'[ctx]) PROVE net'[ctx][i] = cmds[Answered' + i]
    <3>1. i + 1 \in 1..Len(net[ctx]) /\ Answered + (i + 1) = Answered' + i
      BY <1>3, <1>5, <1>lens
    <3> QED BY <1>1, <1>8, <3>1
  <2> QED BY <1>1, <2>1, <2>2, <2>3 DEF AnswersInOrder
<1>13. LateIsUnsure'
  <2>1. conns = Len(net)
    BY DEF RedisInv, CleanBetweenCalls
  <2> SUFFICES ASSUME NEW d \in 1..conns', d # ctx', NEW i \in 1..Len(net'[d]),
                      net'[d][i].op = "set"
               PROVE  net'[d][i].key \in unsure'
    BY DEF LateIsUnsure
  <2>2. d \in 1..Len(net) /\ d \in 1..conns /\ d # ctx
    BY <1>1, <2>1
  <2>3. net'[d] = net[d] /\ unsure' = unsure
    BY <1>1, <2>2
  <2> QED BY <2>2, <2>3 DEF RedisInv, LateIsUnsure
<1>14. StoreKnown'
  <2> SUFFICES ASSUME NEW k \in Keys \ unsure
               PROVE
          \/ \E i \in 1..Answered' : Sets(i, k) /\ Answer(i)'.type # "status"
          \/ (\A i \in 1..Answered' : ~Sets(i, k)) /\ store'[k] = acked[k]
          \/ \E i \in 1..Answered' : /\ Sets(i, k) /\ store'[k] = cmds[i].val
                                     /\ \A j \in 1..Answered' : Sets(j, k) => j <= i
    BY <1>1, <1>2, SameStored
  <2>1. \A i \in 1..Answered' : i \in 1..Answered \/ i = Answered + 1
    BY <1>3, <1>5
  <2>2. /\ Answered + 1 \in 1..Answered'
        /\ \A i \in 1..Answered : i \in 1..Answered' /\ i <= Answered + 1
    BY <1>3, <1>5
  <2>3. CASE Sets(Answered + 1, k)
    <3>1. r.type = "status" => store'[k] = cmds[Answered + 1].val
      BY <1>9, <2>3 DEF Sets
    <3>2. \A j \in 1..Answered' : j <= Answered + 1
      BY <1>3, <1>5
    <3>3. CASE r.type = "status"
      BY <2>2, <2>3, <3>1, <3>2, <3>3
    <3>4. CASE r.type # "status"
      <4>1. PICK i \in Nat : i = Answered + 1
        BY <1>3
      <4>2. i \in 1..Answered' /\ Sets(i, k) /\ Answer(i)' = r
        BY <1>7, <2>2, <2>3, <4>1
      <4> QED BY <3>4, <4>2
    <3> QED BY <3>3, <3>4
  <2>4. CASE ~Sets(Answered + 1, k)
    <3>1. store'[k] = store[k]
      BY <1>9, <2>4 DEF Sets
    <3>2. \/ \E i \in 1..Answered : Sets(i, k) /\ Answer(i).type # "status"
          \/ (\A i \in 1..Answered : ~Sets(i, k)) /\ store[k] = acked[k]
          \/ \E i \in 1..Answered : /\ Sets(i, k) /\ store[k] = cmds[i].val
                                    /\ \A j \in 1..Answered : Sets(j, k) => j <= i
      BY <1>2 DEF RedisInv, StoreKnown
    <3>3. CASE \E i \in 1..Answered : Sets(i, k) /\ Answer(i).type # "status"
      BY <1>6, <2>2, <3>3
    <3>4. CASE (\A i \in 1..Answered : ~Sets(i, k)) /\ store[k] = acked[k]
      BY <2>1, <2>4, <3>1, <3>4
    <3>5. CASE \E i \in 1..Answered : /\ Sets(i, k) /\ store[k] = cmds[i].val
                                      /\ \A j \in 1..Answered : Sets(j, k) => j <= i
      BY <2>1, <2>2, <2>4, <3>1, <3>5
    <3> QED BY <3>2, <3>3, <3>4, <3>5
  <2> QED BY <2>3, <2>4
<1> QED BY <1>10, <1>11, <1>12, <1>13, <1>14 DEF RedisInv

\* The server executes or refuses a command.
LEMMA ServerInv ==
  ASSUME RedisInv, NEW c \in DOMAIN net,
         ServerSet(c) \/ ServerGet(c) \/ ServerError(c)
  PROVE  RedisInv'
<1>1. Take(c)
  BY DEF ServerSet, ServerGet, ServerError
<1> DEFINE h == Head(net[c])
<1>2. /\ h \in Cmd /\ h = net[c][1] /\ 1 \in 1..Len(net[c]) /\ c \in 1..Len(net)
      /\ unsure' = unsure
  BY <1>1, TakenFirst
<1>3. h.id \in Nat \X Nat /\ h.key \in Keys /\ h.val \in Values \cup {None}
  BY <1>2 DEF Cmd
<1>4. store \in [Keys -> Values \cup {None}]
  BY DEF RedisInv, RedisTypes
<1>5. PICK t \in {"status", "nil", "string", "error"},
           v \in Values \cup {None, "OK"} :
        /\ Reply(c, h, t, v)
        /\ \/ h.op = "set" /\ store' = [store EXCEPT ![h.key] = h.val]
           \/ (h.op = "set" => t # "status") /\ store' = store
  <2>1. CASE ServerSet(c)
    BY <2>1 DEF ServerSet
  <2>2. CASE ServerGet(c)
    <3>1. /\ h.op = "get" /\ store' = store
          /\ Reply(c, h, IF Visible(h.key) = None THEN "nil" ELSE "string",
                         Visible(h.key))
      BY <2>2 DEF ServerGet
    <3>2. Visible(h.key) \in Values \cup {None, "OK"}
      BY <1>3, <1>4 DEF Visible
    <3> QED BY <3>1, <3>2
  <2>3. CASE ServerError(c)
    BY <2>3 DEF ServerError
  <2> QED BY <2>1, <2>2, <2>3
<1> HIDE DEF h
<1>6. /\ store' \in [Keys -> Values \cup {None}]
      /\ \A k \in Keys : IF h.op = "set" /\ h.key = k
                         THEN t = "status" => store'[k] = h.val
                         ELSE store'[k] = store[k]
  BY <1>3, <1>4, <1>5
<1>7. CASE c = ctx
  <2> DEFINE r == [id |-> h.id, type |-> t, val |-> v]
  <2>1. r \in Rep /\ r.id = h.id /\ r.type = t
    BY <1>3 DEF Rep
  <2>2. inbox' = Append(inbox, r)
    BY <1>5, <1>7 DEF Reply
  <2> HIDE DEF r
  <2> QED BY <1>1, <1>6, <1>7, <2>1, <2>2, ServeInv DEF h
<1>8. CASE c # ctx
  <2>1. inbox' = inbox
    BY <1>5, <1>8 DEF Reply
  <2>2. h.op = "set" => h.key \in unsure
    BY <1>2, <1>8 DEF RedisInv, LateIsUnsure, CleanBetweenCalls
  <2>3. \A k \in Keys \ unsure : store'[k] = store[k]
    BY <1>6, <2>2
  <2> QED BY <1>1, <1>6, <1>8, <2>1, <2>3, LateInv
<1> QED BY <1>7, <1>8

\* Every step of the proxy, its caller and the server.
LEMMA ProxyInv ==
  ASSUME RedisInv, [ProxyNext]_proxyVars
  PROVE  RedisInv'
<1>1. CASE Call
  BY <1>1, CallInv
<1>2. CASE ConnectKept \/ ConnectNew \/ ConnectRefused
  BY <1>2, ConnectInv
<1>3. CASE SendAll
  BY <1>3, AllSentInv
<1>4. CASE SendFails \/ Timeout
  BY <1>4, FailInv
<1>5. CASE GetReply
  BY <1>5, GetReplyInv
<1>6. CASE Return
  BY <1>6, ReturnInv
<1>7. CASE Destroy
  BY <1>7, DestroyInv
<1>8. CASE \E c \in DOMAIN net :
             ServerSet(c) \/ ServerGet(c) \/ ServerError(c)
  BY <1>8, ServerInv
<1>9. CASE (\E k \in Keys : KeyExpires(k)) \/ UNCHANGED proxyVars
  <2>1. UNCHANGED <<ctx, conns, net, inbox, store, pc, cmds, resps, calls, acked,
                    unsure>>
    BY <1>9 DEF KeyExpires, history, proxyVars
  <2>2. RedisTypes' /\ CleanBetweenCalls' /\ LateIsUnsure'
    BY <2>1 DEF RedisInv, RedisTypes, CleanBetweenCalls, LateIsUnsure
  <2>3. Answered' = Answered /\ \A i \in 1..Answered : Answer(i)' = Answer(i)
    BY <2>1 DEF Answered, Answer
  <2>4. AnswersInOrder'
    BY <2>1, <2>3 DEF RedisInv, AnswersInOrder
  <2>5. StoreKnown'
    BY <2>1, <2>3 DEF RedisInv, StoreKnown, Sets
  <2> QED BY <2>2, <2>4, <2>5 DEF RedisInv
<1> QED BY <1>1, <1>2, <1>3, <1>4, <1>5, <1>6, <1>7, <1>8, <1>9
        DEF ProxyNext, Proxy

\* The invariant holds for any number of calls, of commands in a pipeline and of
\* connections, any keys and any values.
THEOREM RedisInvariance == ProxySpec => []RedisInv
<1>1. ProxyInit => RedisInv
  BY StartInv
<1>2. RedisInv /\ [ProxyNext]_proxyVars => RedisInv'
  BY ProxyInv
<1> QED BY <1>1, <1>2, PTL DEF ProxySpec

\* The replies a call of the proxy hands out answer its own commands, in order:
\* closing the connection on any failure keeps late replies from a later call.
THEOREM RepliesOwn == ProxySpec => []RepliesAreOwn
<1>1. RedisInv => RepliesAreOwn
  <2> SUFFICES ASSUME RedisInv, NEW i \in DOMAIN resps
               PROVE  resps[i].id = cmds[i].id
    BY DEF RepliesAreOwn
  <2>1. i \in 1..Len(resps) /\ Len(resps) \in Nat /\ Len(inbox) \in Nat
    BY RedisSeqs
  <2>2. pc = "replies"
    <3>1. resps # <<>>
      BY <2>1, EmptySeq
    <3> QED BY <3>1 DEF RedisInv, CleanBetweenCalls
  <2>3. i \in 1..Answered /\ Answer(i) = resps[i]
    BY <2>1 DEF Answered, Answer
  <2> QED BY <2>2, <2>3 DEF RedisInv, AnswersInOrder
<1> QED BY <1>1, RedisInvariance, PTL

\* Only what was set with an expiry expires.
ExpiredByRight == expired \subseteq Keys /\ \A k \in expired : store[k] \in Expiring

\* Every step keeps that.
LEMMA ExpiryNext ==
  RedisInv /\ ExpiredByRight /\ [ProxyNext]_proxyVars => ExpiredByRight'
<1> SUFFICES ASSUME RedisInv, ExpiredByRight, [ProxyNext]_proxyVars
             PROVE  ExpiredByRight'
  OBVIOUS
<1>1. CASE UNCHANGED <<store, expired>>
  BY <1>1 DEF ExpiredByRight
<1>2. CASE \E c \in DOMAIN net : ServerSet(c)
  <2>1. PICK c \in DOMAIN net : ServerSet(c)
    BY <1>2
  <2>2. store \in [Keys -> Values \cup {None}]
    BY DEF RedisInv, RedisTypes
  <2>3. \E key : /\ store' = [store EXCEPT ![key] = Head(net[c]).val]
                 /\ expired' = expired \ {key}
    BY <2>1 DEF ServerSet
  <2> QED BY <2>2, <2>3 DEF ExpiredByRight
<1>3. CASE \E k \in Keys : KeyExpires(k)
  BY <1>3 DEF KeyExpires, ExpiredByRight
<1>4. CASE \E c \in DOMAIN net : ServerGet(c) \/ ServerError(c)
  BY <1>1, <1>4 DEF ServerGet, ServerError
<1>5. CASE Call \/ Proxy \/ Destroy
  BY <1>1, <1>5 DEF Call, Proxy, Destroy, ConnectKept, ConnectNew, ConnectRefused,
                    SendAll, SendFails, GetReply, Timeout, Return, redis
<1>6. CASE UNCHANGED proxyVars
  BY <1>1, <1>6 DEF proxyVars
<1> QED BY <1>2, <1>3, <1>4, <1>5, <1>6 DEF ProxyNext

\* What a Set or PipeSet that returned true has put into the server stays there
\* until the next call or until it expires, for each key without a Set that
\* returned false.
THEOREM AcknowledgedHolds == ProxySpec => []AcknowledgedSetHolds
<1>1. RedisInv /\ ExpiredByRight => AcknowledgedSetHolds
  BY DEF RedisInv, StoreKnown, ExpiredByRight, Visible, AcknowledgedSetHolds
<1>2. ProxyInit => ExpiredByRight
  BY DEF ProxyInit, ExpiredByRight
<1> QED BY <1>1, <1>2, ExpiryNext, RedisInvariance, PTL DEF ProxySpec
=============================================================================
