------------------------------ MODULE RedisProxy ------------------------------
(***************************************************************************)
(* io_wrapper::RedisProxy (src/redis_proxy): a client of one redis server  *)
(* with one connection, opened on demand and closed on any failure.        *)
(*                                                                         *)
(* A call sends one command, or several in a pipeline, and reads as many   *)
(* replies.  The server is slow: a reply may come after the read timeout,  *)
(* and commands sent on a connection that the proxy has closed may still   *)
(* be executed, at any later time.                                         *)
(***************************************************************************)
EXTENDS Naturals, Sequences, FiniteSets

CONSTANTS Keys,
          Values,    \* what a key is set to, with or without an expiry
          Expiring,  \* the values that are set with an expiry ("ex")
          None,      \* no value
          MaxCalls,  \* bound: calls of the proxy
          MaxPipe    \* bound: commands of one pipeline

ASSUME RedisAssumption == /\ None \notin Values /\ Expiring \subseteq Values
                          /\ {MaxCalls, MaxPipe} \subseteq Nat \ {0}

VARIABLES ctx,    \* ctx_: the number of the open connection, 0 for nullptr
          conns,  \* connections opened so far
          net,    \* net[c]: commands sent on connection c, not yet executed
          inbox,  \* replies on the open connection that were not read
          store,  \* what was stored last under each of the server's keys
          expired, \* keys whose value has expired since
          pc,     \* "idle", "connect", "send", "replies"
          cmds,   \* the commands of the call
          resps,  \* the replies read for the call
          calls,  \* number of calls, which also tells commands apart
          acked,  \* history: per key, the value of the last Set that returned true
          unsure  \* history: keys with a Set that returned false

proxyVars == <<ctx, conns, net, inbox, store, expired, pc, cmds, resps, calls,
               acked, unsure>>
redis == <<net, inbox, store, expired>>
history == <<acked, unsure>>

Ops == [op : {"set"}, key : Keys, val : Values] \cup
       [op : {"get"}, key : Keys, val : {None}]

ProxyInit == /\ ctx = 0 /\ conns = 0
             /\ net = <<>> /\ inbox = <<>>
             /\ store = [k \in Keys |-> None] /\ expired = {}
             /\ pc = "idle" /\ cmds = <<>> /\ resps = <<>> /\ calls = 0
             /\ acked = [k \in Keys |-> None]
             /\ unsure = {}

\* The keys that the call writes.
KeysSet == {cmds[i].key : i \in {j \in DOMAIN cmds : cmds[j].op = "set"}}
-----------------------------------------------------------------------------
\* Set, Get, Execute and ExecuteArgv send one command; PipeSet, PipeGet and
\* PipeExecute several.  The commands of a pipeline are all of one kind.
Call == /\ pc = "idle" /\ calls < MaxCalls
        /\ \E m \in 1..MaxPipe : \E ops \in [1..m -> Ops] :
             /\ \A i \in 1..m : ops[i].op = ops[1].op
             /\ cmds' = [i \in 1..m |-> [id |-> <<calls + 1, i>>, op |-> ops[i].op,
                                         key |-> ops[i].key, val |-> ops[i].val]]
        /\ calls' = calls + 1
        /\ pc' = "connect"
        /\ UNCHANGED <<ctx, conns, redis, resps, history>>

\* A call that ends without all its replies: the caller is told so.
ReturnFalse == /\ pc' = "idle" /\ cmds' = <<>> /\ resps' = <<>>
               /\ unsure' = unsure \cup KeysSet
               /\ UNCHANGED acked

\* close: what lies unread on the connection is gone.
Close == ctx' = 0 /\ inbox' = <<>>

\* connect keeps an open connection.
ConnectKept == /\ pc = "connect" /\ ctx # 0
               /\ pc' = "send"
               /\ UNCHANGED <<ctx, conns, redis, cmds, resps, calls, history>>

ConnectNew == /\ pc = "connect" /\ ctx = 0
              /\ conns' = conns + 1 /\ ctx' = conns + 1
              /\ net' = Append(net, <<>>)
              /\ pc' = "send"
              /\ UNCHANGED <<inbox, store, expired, cmds, resps, calls, history>>

\* No connection, or no timeout could be set: nothing has been sent.
ConnectRefused == /\ pc = "connect" /\ ctx = 0
                  /\ pc' = "idle" /\ cmds' = <<>>
                  /\ UNCHANGED <<ctx, conns, redis, resps, calls, history>>

SendFirst(m) == net' = [net EXCEPT ![ctx] = @ \o SubSeq(cmds, 1, m)]

\* redisCommandArgv, or redisAppendCommandArgv and the first redisGetReply.
SendAll == /\ pc = "send"
           /\ SendFirst(Len(cmds))
           /\ pc' = "replies"
           /\ UNCHANGED <<ctx, conns, inbox, store, expired, cmds, resps, calls, history>>

\* Some commands are sent and then the connection fails or times out.
SendFails == /\ pc = "send"
             /\ \E m \in 0..Len(cmds) : SendFirst(m)
             /\ Close /\ ReturnFalse
             /\ UNCHANGED <<conns, store, expired, calls>>

\* MUTANT: a pipeline reads one reply less than it has commands.
RepliesMissing_LastLeft ==
  Len(resps) + (IF Len(cmds) > 1 THEN 1 ELSE 0) < Len(cmds)

\* One reply is read for each command.
RepliesMissing == Len(resps) < Len(cmds)

\* redisGetReply takes the next reply of the connection, whatever it answers.
GetReply == /\ pc = "replies"
            /\ RepliesMissing /\ inbox # <<>>
            /\ resps' = Append(resps, Head(inbox))
            /\ inbox' = Tail(inbox)
            /\ UNCHANGED <<ctx, conns, net, store, expired, pc, cmds, calls, history>>

\* MUTANT: no read timeout.
Timeout_Never == FALSE

\* The read times out or the connection breaks: redisGetReply yields no reply.
Timeout == /\ pc = "replies" /\ RepliesMissing
           /\ Close /\ ReturnFalse
           /\ UNCHANGED <<conns, net, store, expired, calls>>

\* MUTANT: any status or error will do.
Stored_AnyReply(r) == r.type \in {"status", "error"}

\* Set and PipeSet want the status OK.
Stored(r) == r.type = "status"

\* All replies are there.  Set and PipeSet return true if each is OK; the other
\* calls hand the replies on.
Return == /\ pc = "replies" /\ ~RepliesMissing
          /\ pc' = "idle" /\ cmds' = <<>> /\ resps' = <<>>
          /\ IF \A i \in DOMAIN resps : Stored(resps[i])
             THEN /\ acked' = [k \in Keys |->
                       IF k \in KeysSet
                       THEN LET i == CHOOSE i \in DOMAIN cmds :
                                       /\ cmds[i].key = k
                                       /\ \A j \in DOMAIN cmds :
                                            cmds[j].key = k => j <= i
                            IN cmds[i].val
                       ELSE acked[k]]
                  /\ UNCHANGED unsure
             ELSE /\ unsure' = unsure \cup KeysSet
                  /\ UNCHANGED acked
          /\ UNCHANGED <<ctx, conns, redis, calls>>

\* ~RedisProxy closes the connection; the caller may make another proxy.
Destroy == /\ pc = "idle" /\ ctx # 0
           /\ Close
           /\ UNCHANGED <<conns, net, store, expired, pc, cmds, resps, calls, history>>
-----------------------------------------------------------------------------
(***************************************************************************)
(* The server executes the commands of a connection in order.              *)
(***************************************************************************)
Reply(c, cmd, type, val) ==
  inbox' = IF c = ctx THEN Append(inbox, [id |-> cmd.id, type |-> type, val |-> val])
           ELSE inbox

Take(c) == /\ net[c] # <<>>
           /\ net' = [net EXCEPT ![c] = Tail(@)]
           /\ UNCHANGED <<ctx, conns, pc, cmds, resps, calls, history>>

\* What a client sees under a key.
Visible(k) == IF k \in expired THEN None ELSE store[k]

\* set, with or without ex: the expiry of the value before is forgotten.
ServerSet(c) == /\ Take(c)
                /\ LET cmd == Head(net[c]) IN
                     /\ cmd.op = "set"
                     /\ store' = [store EXCEPT ![cmd.key] = cmd.val]
                     /\ expired' = expired \ {cmd.key}
                     /\ Reply(c, cmd, "status", "OK")

ServerGet(c) == /\ Take(c)
                /\ LET cmd == Head(net[c]) IN
                     /\ cmd.op = "get"
                     /\ Reply(c, cmd, IF Visible(cmd.key) = None THEN "nil"
                                      ELSE "string", Visible(cmd.key))
                /\ UNCHANGED <<store, expired>>

\* The server refuses a command (out of memory, read-only replica).
ServerError(c) == /\ Take(c)
                  /\ Reply(c, Head(net[c]), "error", None)
                  /\ UNCHANGED <<store, expired>>

\* The time of a value that was set with an expiry is over.
KeyExpires(k) == /\ store[k] \in Expiring /\ k \notin expired
                 /\ expired' = expired \cup {k}
                 /\ UNCHANGED <<ctx, conns, net, inbox, store, pc, cmds, resps, calls,
                                history>>
-----------------------------------------------------------------------------
Proxy == \/ ConnectKept \/ ConnectNew \/ ConnectRefused \/ SendAll \/ SendFails
         \/ GetReply \/ Timeout \/ Return

ProxyNext == \/ Call \/ Proxy \/ Destroy
             \/ \E c \in DOMAIN net : ServerSet(c) \/ ServerGet(c) \/ ServerError(c)
             \/ \E k \in Keys : KeyExpires(k)

\* The caller's thread runs on; of the server nothing is assumed.
ProxySpec == ProxyInit /\ [][ProxyNext]_proxyVars /\ WF_proxyVars(Proxy)
-----------------------------------------------------------------------------
\* The replies a call hands to its caller answer its own commands, in order,
\* whatever earlier calls timed out and however late their replies come.
RepliesAreOwn == \A i \in DOMAIN resps : resps[i].id = cmds[i].id

\* A Set or PipeSet that returned true has taken effect, and the key keeps that
\* value until the next call, or until it expires if it was set so, if no Set of
\* the key ever returned false: apart from the expiry only such a command, still
\* on its way, can undo an acknowledged one.
AcknowledgedSetHolds ==
  pc = "idle" => \A k \in Keys \ unsure :
                    \/ Visible(k) = acked[k]
                    \/ Visible(k) = None /\ acked[k] \in Expiring

\* Each call returns, also when the server never answers.
CallReturns == pc # "idle" ~> pc = "idle"
=============================================================================
