------------------------------- MODULE KVStore -------------------------------
(***************************************************************************)
(* What a durable key-value store promises its clients, without logs,      *)
(* files or restarts: the contents change only by a put or a remove that   *)
(* a client has called, and by each call at most once.                     *)
(***************************************************************************)
CONSTANTS Key, Value, NotFound, NoCall

VARIABLES
    db,       \* what the store answers for each key, now or after any restart
    pending   \* the call whose effect is still open

Answer == Value \cup {NotFound}

Init == /\ db = [k \in Key |-> NotFound]
        /\ pending = NoCall

\* A client calls put(k, a), or remove(k) when a is NotFound.
Call(k, a) == /\ pending = NoCall
              /\ pending' = [key |-> k, answer |-> a]
              /\ UNCHANGED db

TakeEffect == /\ pending # NoCall
              /\ db' = [db EXCEPT ![pending.key] = pending.answer]
              /\ pending' = NoCall

\* A call cut short by a crash may leave no trace.
Vanish == /\ pending # NoCall
          /\ pending' = NoCall
          /\ UNCHANGED db

Next == \/ \E k \in Key, a \in Answer : Call(k, a)
        \/ TakeEffect
        \/ Vanish

Spec == Init /\ [][Next]_<<db, pending>>
=============================================================================
