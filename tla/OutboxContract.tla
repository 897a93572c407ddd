--------------------------- MODULE OutboxContract ---------------------------
(***************************************************************************)
(* What the part of the program that enqueues a notification relies on,    *)
(* whoever drains the queue, and whatever leases and calls fail meanwhile. *)
(* Outbox implements this specification (Outbox_proofs) when the           *)
(* dead-letter collections take every write.                               *)
(***************************************************************************)
EXTENDS Naturals

CONSTANT Key

VARIABLES phase,    \* of a notification: absent, waiting, or how it was finished
          posted,   \* how many messages the channel has for it
          kept,     \* those that may end without a message: the payload is kept for
                    \* a replay, or the subscription was ended
          doubt     \* those for which a worker cannot know what another has done

vars == <<phase, posted, kept, doubt>>

Init ==
    /\ phase = [k \in Key |-> "absent"] /\ posted = [k \in Key |-> 0]
    /\ kept = {} /\ doubt = {}

Enqueue(k) ==
    /\ phase[k] = "absent" /\ phase' = [phase EXCEPT ![k] = "waiting"]
    /\ UNCHANGED <<posted, kept, doubt>>

(* Posted once, while it waits, unless it is in doubt. *)
Post(k) ==
    /\ k \in doubt \/ (phase[k] = "waiting" /\ posted[k] = 0)
    /\ posted' = [posted EXCEPT ![k] = @ + 1] /\ doubt' \in {doubt, doubt \cup {k}}
    /\ UNCHANGED <<phase, kept>>

(* What waits is finished, or removed by the sweep, only when it was posted *)
(* or need not be; delivered, only when it was posted.  Nothing is finished *)
(* twice, nor waits again after that.                                       *)
End(k) ==
    /\ phase[k] = "waiting"
    /\ \/ posted[k] > 0 /\ phase' = [phase EXCEPT ![k] = "delivered"]
       \/ /\ posted[k] > 0 \/ k \in kept
          /\ \E how \in {"dead-lettered", "dropped", "absent"} : phase' = [phase EXCEPT ![k] = how]
    /\ UNCHANGED <<posted, kept, doubt>>

Keep(k) == kept' = kept \cup {k} /\ UNCHANGED <<phase, posted, doubt>>
Doubt(k) == doubt' = doubt \cup {k} /\ UNCHANGED <<phase, posted, kept>>

Next == \E k \in Key : Enqueue(k) \/ Post(k) \/ End(k) \/ Keep(k) \/ Doubt(k)

Spec == Init /\ [][Next]_vars
=============================================================================
