----------------------------- MODULE AdProtection -----------------------------
(***************************************************************************)
(* The protection against advertisements of one guild: the messages of one *)
(* member, what they cost (features/command-security/adProtectionRuntime   *)
(* .ts, adProtectionRepository.ts), and the requests to the owner to let   *)
(* one through (features/command-handlers/adProtectionInteractionHandler   *)
(* .ts).                                                                   *)
(*                                                                         *)
(* An advertisement is its fingerprint (adRequestTypes.ts); one with an    *)
(* attachment that could not be hashed is Unverified.  Only messages that  *)
(* detectAd finds are modelled.  An action is one awaited call.            *)
(***************************************************************************)
EXTENDS Integers, FiniteSets

CONSTANTS Message,     \* the messages, each handled once
          Request,     \* the requests, each made once
          Ad,          \* the fingerprints
          Unverified,  \* the fingerprint of what could not be hashed
          Limit,       \* AD_STRIKE_LIMIT
          MaxFaults    \* bound on failed calls and crashes

AdAssumption ==
    Limit \in Nat \ {0} /\ Unverified \notin Ad /\ MaxFaults \in Nat /\ IsFiniteSet(Message)

VARIABLES request,     \* the document of each request, and who is at work on it
          attempts,    \* the document of the member's attempts
          message,     \* the state of each message
          overlapped,  \* two messages were past the limit at the same time
          faults

vars == <<request, attempts, message, overlapped, faults>>

Init ==
    /\ request = [r \in Request |-> [status |-> "none", ad |-> Unverified, over |-> FALSE,
                                     pc |-> "new"]]
    /\ \E n \in 0 .. (Limit - 1) : attempts = [strikes |-> n, detected |-> n, warns |-> 0]
    /\ message = [m \in Message |-> [pc |-> "new", ad |-> Unverified, fresh |-> {}, found |-> {},
                                     by |-> {}]]
    /\ overlapped = FALSE /\ faults = 0

Messages == Cardinality(Message)
Fingerprint == Ad \cup {Unverified}
Status == {"none", "pending", "approved", "rejected", "used", "expired", "cancelled"}

TypeOK ==
    /\ request \in [Request -> [status : Status, ad : Fingerprint, over : BOOLEAN,
                                pc : {"new", "sent", "failed", "done"}]]
    /\ attempts.strikes \in 0 .. (Limit - 1)
    /\ attempts.detected \in 0 .. (Messages + Limit) /\ attempts.warns \in 0 .. Messages
    /\ message \in [Message -> [pc : {"new", "find", "claim", "delete", "bump", "reset", "warn",
                                      "publish", "done", "lost"},
                                ad : Fingerprint, fresh : SUBSET Request, found : SUBSET Request,
                                by : SUBSET Request]]
    /\ overlapped \in BOOLEAN /\ faults \in 0 .. MaxFaults

Fault == faults < MaxFaults /\ faults' = faults + 1
At(m, pc) == message[m].pc = pc
Put(m, q) == message' = [message EXCEPT ![m] = q]
Move(m, pc) == Put(m, [message[m] EXCEPT !.pc = pc])

Open(r) == request[r].status \in {"pending", "approved"}

(* expireStale. *)
Expired == [r \in Request |-> IF Open(r) /\ request[r].over
                              THEN [request[r] EXCEPT !.status = "expired"] ELSE request[r]]

-----------------------------------------------------------------------------
(* /ad-request: the request is stored and goes to the owner. *)
Ask(r) ==
    /\ request[r].pc = "new"
    /\ \E a \in Fingerprint :
         request' = [Expired EXCEPT ![r] = [status |-> "pending", ad |-> a, over |-> FALSE,
                                            pc |-> "sent"]]
    /\ UNCHANGED <<attempts, message, overlapped, faults>>

(* The message to the owner, with its buttons, is there or is not. *)
Deliver(r) ==
    /\ request[r].pc = "sent"
    /\ \/ request' = [request EXCEPT ![r].pc = "done"] /\ UNCHANGED faults
       \/ Fault /\ request' = [request EXCEPT ![r].pc = "failed"]
    /\ UNCHANGED <<attempts, message, overlapped>>

(* cancelRequest *)
CancelUndelivered(r) ==
    /\ request[r].pc = "failed"
    /\ request' = [request EXCEPT ![r].pc = "done",
                     ![r].status = IF @ = "pending" THEN "cancelled" ELSE @]
    /\ UNCHANGED <<attempts, message, overlapped, faults>>

(* The owner's button: one decision, before the request expired.  An       *)
(* approval has a term of its own.                                         *)
Decide(r) ==
    /\ Expired[r].status = "pending"
    /\ \E decision \in {"approved", "rejected"} :
         request' = [Expired EXCEPT ![r].status = decision]
    /\ UNCHANGED <<attempts, message, overlapped, faults>>

(* cancelActiveRequests, where the owner ends the protection. *)
CancelActive ==
    /\ request' = [r \in Request |-> IF Open(r) THEN [request[r] EXCEPT !.status = "cancelled"]
                                    ELSE request[r]]
    /\ UNCHANGED <<attempts, message, overlapped, faults>>

Elapse(r) ==
    /\ Open(r) /\ ~request[r].over /\ request' = [request EXCEPT ![r].over = TRUE]
    /\ UNCHANGED <<attempts, message, overlapped, faults>>

-----------------------------------------------------------------------------
(* handleMessage: an advertisement, where the protection is on, there is   *)
(* no raid and the author is not the owner.  consumeApproval takes the     *)
(* time now: what is not over yet stays fresh.                             *)
Detect(m) ==
    /\ At(m, "new")
    /\ \E a \in Fingerprint :
         Put(m, [message[m] EXCEPT !.pc = "find", !.ad = a,
                                   !.fresh = {r \in Request : ~request[r].over}])
    /\ request' = Expired
    /\ UNCHANGED <<attempts, overlapped, faults>>

(* scopeMatchesAdApproval *)
Matches(r, a) == request[r].ad = a /\ a # Unverified

Find(m) ==
    /\ At(m, "find")
    /\ Put(m, [message[m] EXCEPT !.pc = "claim",
                 !.found = {r \in message[m].fresh :
                              request[r].status = "approved" /\ Matches(r, message[m].ad)}])
    /\ UNCHANGED <<request, attempts, overlapped, faults>>

(* The update asks for an approval that is still there. *)
Claimable(r) == request[r].status = "approved"

(* One after the other, until one is claimed: the message stays. *)
ClaimApproval(m) ==
    /\ At(m, "claim")
    /\ \/ /\ message[m].found = {} /\ Move(m, "delete") /\ UNCHANGED request
       \/ \E r \in message[m].found :
            IF Claimable(r)
            THEN /\ request' = [request EXCEPT ![r].status = "used"]
                 /\ Put(m, [message[m] EXCEPT !.pc = "done", !.by = {r}])
            ELSE Put(m, [message[m] EXCEPT !.found = @ \ {r}]) /\ UNCHANGED request
    /\ UNCHANGED <<attempts, overlapped, faults>>

(* A search that fails is a search that found nothing. *)
SearchFails(m) ==
    /\ Fault /\ message[m].pc \in {"find", "claim"} /\ Move(m, "delete")
    /\ UNCHANGED <<request, attempts, overlapped>>

(* A message that cannot be deleted counts all the same, and is told.      *)
DeleteMessage(m) ==
    /\ At(m, "delete") /\ Move(m, "bump")
    /\ UNCHANGED <<request, attempts, overlapped, faults>>

(* recordAttempt: one strike more below the limit. *)
Bump(m) ==
    /\ At(m, "bump")
    /\ IF attempts.strikes < Limit - 1
       THEN /\ attempts' = [attempts EXCEPT !.strikes = @ + 1, !.detected = @ + 1]
            /\ Move(m, "publish") /\ UNCHANGED overlapped
       ELSE /\ Move(m, "reset") /\ UNCHANGED attempts
            /\ overlapped' = (overlapped \/ \E n \in Message : At(n, "reset"))
    /\ UNCHANGED <<request, faults>>

(* The last strike: counted, and the strikes begin anew. *)
Reset(m) ==
    /\ At(m, "reset") /\ Move(m, "warn")
    /\ attempts' = [attempts EXCEPT !.strikes = 0, !.detected = @ + 1, !.warns = @ + 1]
    /\ UNCHANGED <<request, overlapped, faults>>

(* issueWarn: addWarning, of Moderation; a failure is told and logged. *)
IssueWarn(m) ==
    /\ At(m, "warn") /\ Move(m, "publish")
    /\ UNCHANGED <<request, attempts, overlapped, faults>>

(* publish: what fails is passed over. *)
Publish(m) ==
    /\ At(m, "publish") /\ Move(m, "done")
    /\ UNCHANGED <<request, attempts, overlapped, faults>>

(* The attempts cannot be written, or the process dies: nothing more is    *)
(* done for this message.                                                  *)
Break(m) ==
    /\ Fault /\ message[m].pc \notin {"new", "done", "lost"} /\ Move(m, "lost")
    /\ UNCHANGED <<request, attempts, overlapped>>

Next ==
    \/ \E r \in Request :
        Ask(r) \/ Deliver(r) \/ CancelUndelivered(r) \/ Decide(r) \/ Elapse(r)
    \/ CancelActive
    \/ \E m \in Message :
        \/ Detect(m) \/ Find(m) \/ ClaimApproval(m) \/ SearchFails(m) \/ DeleteMessage(m)
        \/ Bump(m) \/ Reset(m) \/ IssueWarn(m) \/ Publish(m) \/ Break(m)

Spec == Init /\ [][Next]_vars

-----------------------------------------------------------------------------
(* An approval lets one message through, the one it names, however many    *)
(* copies are posted at once; and every Limit advertisements cost one      *)
(* warning: attempts in parallel neither lose nor invent a strike.  Two    *)
(* that pass the limit at the same time each cost a warning: the exception *)
(* the code makes.                                                         *)
AdsAccounted ==
    /\ \A m \in Message : \A r \in message[m].by :
         /\ request[r].status = "used" /\ Matches(r, message[m].ad)
         /\ \A n \in Message \ {m} : r \notin message[n].by
    /\ overlapped \/ attempts.strikes + Limit * attempts.warns = attempts.detected
=============================================================================
