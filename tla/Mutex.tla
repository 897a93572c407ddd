------------------------------- MODULE Mutex -------------------------------
(***************************************************************************)
(* What a job that runs under a database lock relies on: at most one       *)
(* process works at a time.  DbLock implements this specification when its *)
(* heartbeats are timely (DbLock_proofs).                                  *)
(***************************************************************************)
CONSTANT Proc

VARIABLE holders    \* the processes that work under the lock

Init == holders = {}

(* A process starts to work only when nobody works. *)
Enter(p) == holders = {} /\ holders' = {p}

(* A process stops: it is done, was told that the lock is lost, or died. *)
Leave(p) == p \in holders /\ holders' = holders \ {p}

Next == \E p \in Proc : Enter(p) \/ Leave(p)

Spec == Init /\ [][Next]_holders
=============================================================================
