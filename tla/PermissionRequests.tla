--------------------------- MODULE PermissionRequests ---------------------------
(***************************************************************************)
(* The approvals moderators ask the owner for, and the batches that use    *)
(* them up: one approval for every slice of a batch, or none               *)
(* (features/command-security/permissionRequestRepository.ts and           *)
(* permissionRequestTypes.ts).                                             *)
(*                                                                         *)
(* An action is one awaited call.  Time is abstract: a pending or approved *)
(* request may pass its expiry at any moment, and a claim counts as stale  *)
(* (usedAt 60 s ago) once its batch is gone or, unless Timely, at any      *)
(* time.  expireStale runs at the head of every call: its two updates are  *)
(* Revive and Expire, which any caller may take at any point.  A batch     *)
(* approval ("lot:") is never matched by consumeAll and is left out.       *)
(***************************************************************************)
EXTENDS Integers, FiniteSets

CONSTANTS Request,
          Handler,      \* those who call consumeAll, each once
          Slice,        \* the actions an approval may be for
          MaxAmount,    \* bound on the amount of an approval
          Timely,       \* a batch is over within CLAIM_RECOVERY_MS
          MaxFaults     \* bound on the calls that fail

None == "none"
PermissionAssumption ==
    /\ MaxAmount \in Nat \ {0} /\ MaxFaults \in Nat /\ Timely \in BOOLEAN
    /\ None \notin Handler

VARIABLES req,      \* the documents
          batch,    \* of each handler: the step of its consumeAll
          granted,  \* who was granted each request (history)
          unheard,  \* the batches whose commit was applied but not confirmed
          faults

Nothing == [s \in Slice |-> 0]
requestVars == <<req, batch, granted, unheard, faults>>

Final == {"rejected", "expired", "cancelled"}
InFlight == {"find", "claim", "commit", "release"}

RequestTypeOK ==
    /\ req \in [Request -> [status : {"absent", "pending", "approved", "used"} \cup Final,
                            slice : Slice, amount : 1 .. MaxAmount, claim : Handler \cup {None}]]
    /\ batch \in [Handler -> [pc : InFlight \cup {"none", "granted", "refused", "crashed"},
                              slice : Slice, need : [Slice -> Nat], todo : SUBSET Slice,
                              found : SUBSET Request, held : SUBSET Request]]
    /\ granted \in [Request -> SUBSET Handler]
    /\ unheard \subseteq Handler /\ faults \in 0 .. MaxFaults

RequestInit ==
    /\ req \in [Request -> [status : {"absent"}, slice : Slice, amount : 1 .. MaxAmount,
                            claim : {None}]]
    /\ batch = [h \in Handler |-> [pc |-> "none", slice |-> CHOOSE s \in Slice : TRUE,
                                   need |-> Nothing, todo |-> {},
                                   found |-> {}, held |-> {}]]
    /\ granted = [r \in Request |-> {}]
    /\ unheard = {} /\ faults = 0

Fault == faults < MaxFaults /\ faults' = faults + 1
Mark(r, from, to) == req[r].status = from /\ req' = [req EXCEPT ![r].status = to]
Live(r) == req[r].status \in {"pending", "approved"}
At(h, pc) == batch[h].pc = pc
(* A batch that claims no more keeps its slices only if they were granted. *)
Goto(h, pc) ==
    batch' = [batch EXCEPT ![h] = [pc |-> pc, need |-> IF pc = "granted" THEN @.need ELSE Nothing,
                                   todo |-> {}, slice |-> @.slice, found |-> {}, held |-> {}]]

-----------------------------------------------------------------------------
(* What moderators and the owner do with a request; resolve takes pending *)
(* ones only, and cancelTypes is the first half of stopping the guard.    *)
Create(r) == Mark(r, "absent", "pending") /\ UNCHANGED <<batch, granted, unheard, faults>>

Resolve(r, decision) == Mark(r, "pending", decision) /\ UNCHANGED <<batch, granted, unheard, faults>>

CancelUndelivered(r) == Mark(r, "pending", "cancelled") /\ UNCHANGED <<batch, granted, unheard, faults>>

\* Mutant: the update cancels whatever is of these types.
CancelTypes_All ==
    /\ \E r \in Request : Live(r)
    /\ req' = [r \in Request |-> IF req[r].status # "absent"
                                   THEN [req[r] EXCEPT !.status = "cancelled"] ELSE req[r]]
    /\ UNCHANGED <<batch, granted, unheard, faults>>

CancelTypes ==
    /\ \E r \in Request : Live(r)
    /\ req' = [r \in Request |-> IF Live(r) THEN [req[r] EXCEPT !.status = "cancelled"] ELSE req[r]]
    /\ UNCHANGED <<batch, granted, unheard, faults>>

(* expireStale: claims older than a minute are approvals again ... *)
Revive(r) ==
    /\ req[r].claim # None
    /\ Timely => batch[req[r].claim].pc \notin InFlight
    /\ req' = [req EXCEPT ![r].status = "approved", ![r].claim = None]
    /\ UNCHANGED <<batch, granted, unheard, faults>>

(* ... and what is past its expiry is marked so. *)
Expire(r) ==
    /\ Live(r)
    /\ req' = [req EXCEPT ![r].status = "expired"]
    /\ UNCHANGED <<batch, granted, unheard, faults>>

-----------------------------------------------------------------------------
(* consumeAll: the slices one by one, each with consume's find and its    *)
(* compare-and-set, then commitBatch; releaseBatch if anything is missing. *)
Covers(r, s, amount) == req[r].slice = s /\ amount <= req[r].amount

StartBatch(h, need) ==
    batch' = [batch EXCEPT ![h].pc = "find", ![h].need = need,
                           ![h].todo = {s \in Slice : need[s] > 0}]

Find(h) ==
    /\ At(h, "find")
    /\ \E s \in batch[h].todo :
         batch' = [batch EXCEPT ![h].pc = "claim", ![h].slice = s,
                                ![h].found = {r \in Request : /\ req[r].status = "approved"
                                                              /\ Covers(r, s, batch[h].need[s])}]
    /\ UNCHANGED <<req, granted, unheard, faults>>

Used(r, h) == [req EXCEPT ![r].status = "used", ![r].claim = h]

\* Mutant: the claim trusts what find read.
ClaimOne_NoCompare(h, r) ==
    LET left == batch[h].todo \ {batch[h].slice} IN
    /\ req' = Used(r, h)
    /\ batch' = [batch EXCEPT ![h].todo = left, ![h].held = @ \cup {r},
                              ![h].found = {}, ![h].pc = IF left = {} THEN "commit" ELSE "find"]

ClaimOne(h, r) ==
    LET left == batch[h].todo \ {batch[h].slice} IN
    /\ req[r].status = "approved"
    /\ req' = Used(r, h)
    /\ batch' = [batch EXCEPT ![h].todo = left, ![h].held = @ \cup {r},
                              ![h].found = {}, ![h].pc = IF left = {} THEN "commit" ELSE "find"]

(* A claim that throws may have been made: releaseBatch goes by the batch. *)
Claim(h) ==
    /\ At(h, "claim")
    /\ \/ (\E r \in batch[h].found : ClaimOne(h, r)) /\ UNCHANGED faults
       \/ /\ \A r \in batch[h].found : req[r].status # "approved"
          /\ Goto(h, "release") /\ UNCHANGED <<req, faults>>
       \/ /\ Fault /\ Goto(h, "release")
          /\ \/ UNCHANGED req
             \/ \E r \in batch[h].found : req[r].status = "approved" /\ req' = Used(r, h)
    /\ UNCHANGED <<granted, unheard>>

Claims(h) == {r \in Request : req[r].claim = h}
Unclaimed(h) == [r \in Request |-> IF req[r].claim = h THEN [req[r] EXCEPT !.claim = None] ELSE req[r]]

Commit(h) ==
    /\ At(h, "commit")
    /\ \/ /\ Claims(h) # {}
          /\ req' = Unclaimed(h) /\ Goto(h, "granted")
          /\ granted' = [r \in Request |-> granted[r] \cup (IF r \in batch[h].held THEN {h} ELSE {})]
          /\ UNCHANGED <<unheard, faults>>
       \/ /\ Claims(h) = {} /\ Goto(h, "release") /\ UNCHANGED <<req, granted, unheard, faults>>
       \/ /\ Fault /\ Goto(h, "release") /\ UNCHANGED granted
          /\ \/ UNCHANGED <<req, unheard>>
             \/ req' = Unclaimed(h) /\ unheard' = unheard \cup {h}

Release(h) ==
    /\ At(h, "release") /\ Goto(h, "refused")
    /\ \/ /\ req' = [r \in Request |-> IF req[r].claim = h
                          THEN [req[r] EXCEPT !.status = "approved", !.claim = None] ELSE req[r]]
          /\ UNCHANGED faults
       \/ Fault /\ UNCHANGED req
    /\ UNCHANGED <<granted, unheard>>

CrashBatch(h) ==
    /\ batch[h].pc \in InFlight /\ Fault /\ Goto(h, "crashed")
    /\ UNCHANGED <<req, granted, unheard>>

RequestNext ==
    \/ \E r \in Request : \/ Create(r) \/ CancelUndelivered(r) \/ Revive(r) \/ Expire(r)
                          \/ \E decision \in {"approved", "rejected"} : Resolve(r, decision)
    \/ CancelTypes
    \/ \E h \in Handler : Find(h) \/ Claim(h) \/ Commit(h) \/ Release(h) \/ CrashBatch(h)

-----------------------------------------------------------------------------
(* An approval is granted to one batch, and a granted batch got every one of *)
(* its slices from an approval that is used up for it; an approval that is   *)
(* used up for good was granted, or its batch never heard that it was        *)
(* ("sau se consuma aprobarea fiecarei felii, sau niciuna").                 *)
AllOrNothing ==
    /\ \A r \in Request : Cardinality(granted[r]) <= 1
    /\ \A h \in Handler : At(h, "granted") =>
         \A s \in Slice : batch[h].need[s] > 0 =>
           \E r \in Request : /\ h \in granted[r] /\ Covers(r, s, batch[h].need[s])
                             /\ req[r].status = "used" /\ req[r].claim = None
    /\ \A r \in Request : req[r].status = "used" /\ req[r].claim = None
                            => granted[r] # {} \/ unheard # {}

(* A request that was rejected, that expired or that was cancelled is never *)
(* an approval again, whatever batch still had a claim in flight.           *)
RefusedStaysRefused ==
    [][\A r \in Request : req[r].status \in Final => req'[r].status = req[r].status]_requestVars
=============================================================================
