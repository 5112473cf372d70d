----------------------------- MODULE AtomicCell -----------------------------
(***************************************************************************)
(* What util::rcu_ptr promises: a cell whose updates and stores take       *)
(* effect one at a time, each exactly once, each update on the value the   *)
(* cell holds at that moment.  A value is the sequence of the operations   *)
(* that made it; an update of an empty cell has nothing to change.         *)
(***************************************************************************)
EXTENDS Sequences

CONSTANTS Updaters, Users, Null

VARIABLES val,    \* the value of the cell, or Null
          seen,   \* seen[s]: the value user s got from its last Get
          done    \* operations that have taken effect

vars == <<val, seen, done>>

Init == /\ val \in {Null, <<>>}
        /\ seen = [s \in Users |-> Null]
        /\ done = {}

Apply(u) == /\ u \notin done
            /\ val' = IF val = Null THEN Null ELSE Append(val, u)
            /\ done' = done \cup {u}
            /\ UNCHANGED seen

Get(s) == /\ seen' = [seen EXCEPT ![s] = val]
          /\ UNCHANGED <<val, done>>

Put(s) == /\ s \notin done
          /\ val' \in {Null, <<s>>, seen[s]}
          /\ done' = done \cup {s}
          /\ UNCHANGED seen

Next == \/ \E u \in Updaters : Apply(u)
        \/ \E s \in Users : Get(s) \/ Put(s)

Spec == Init /\ [][Next]_vars
=============================================================================
