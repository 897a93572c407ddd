------------------------------- MODULE Outbox -------------------------------
(***************************************************************************)
(* The notification outbox (features/notifications): jobs are documents of *)
(* the collection notificationOutbox, enqueued under a dedupe key, claimed *)
(* under a lease by the workers that drain the queue, posted to Discord    *)
(* and finished by a compare-and-set on the lease.                         *)
(*                                                                         *)
(* An action is one awaited call to MongoDB or Discord.  Time is abstract: *)
(* a lease is live or has run out, a job's availableAt has come or not, a  *)
(* job is older than maxAgeMs or not.  Any number of workers may drain at  *)
(* once: the drain lock (DbLock) excludes them only while its lease is     *)
(* renewed in time.                                                        *)
(***************************************************************************)
EXTENDS Integers, FiniteSets

CONSTANTS Key,            \* dedupe keys; the unique index allows one job for each
          Worker,         \* the processes that drain the outbox
          NoJob,          \* no document for a key
          MaxAttempts,    \* OUTBOX_MAX_ATTEMPTS
          Limit,          \* NOTIFICATION_OUTBOX_DRAIN_LIMIT
          RecoveryVerify, \* NOTIFICATION_OUTBOX_RECOVERY_VERIFY
          RecoveryStrict, \* NOTIFICATION_OUTBOX_RECOVERY_STRICT
          AuditCanFail,   \* whether the dead-letter collections may refuse a write
          MaxEnqueues,    \* bound on the enqueues of a key
          MaxFaults,      \* bound on the failed calls, crashes and aborted drains
          MaxStalls       \* bound on the leases that run out under a worker

ASSUME OutboxAssumption ==
    /\ MaxAttempts \in Nat \ {0} /\ Limit \in Nat \ {0}
    /\ RecoveryVerify \in BOOLEAN /\ RecoveryStrict \in BOOLEAN /\ AuditCanFail \in BOOLEAN
    /\ MaxEnqueues \in Nat /\ MaxFaults \in Nat /\ MaxStalls \in Nat

VARIABLES job,         \* the document of a key
          sent,        \* notificationOutboxSent: the keys marked as sent
          replay,      \* notificationDeadLetterReplay: the keys whose payload can be replayed
          posted,      \* how many messages the channel has for a key
          subscribed,  \* what isStillSubscribed reads for a key
          enqueues,    \* how often a key was enqueued
          enqueuing,   \* an enqueueOutbox between its check and its insert
          promised,    \* the keys for which an enqueueOutbox has returned
          left,        \* the keys whose subscription was ended at some time
          pc,          \* where a worker's drainOutbox is
          cur,         \* the worker's copy of the job it claimed
          count,       \* how many jobs this drain has claimed
          goal,        \* the status the worker is finishing its job with
          halt,        \* stopDrain, decided before the job is finished
          stale,       \* the jobs the sweep found and has not handled
          faults, stalls,
          excused      \* the keys one of whose leases ran out, or whose post had
                       \* an unknown outcome: a second message may follow

queue == <<job, sent, replay>>
env == <<subscribed, left, enqueues, enqueuing, promised>>
drain == <<count, halt, stale>>
ghost == <<stalls, excused>>
vars == <<queue, posted, env, pc, cur, goal, drain, faults, ghost>>

Active == {"queued", "leased", "delivered-pending"}
Expirable == {"queued", "leased"}
Terminal == {"delivered", "dead-lettered", "dropped"}

Job == [id : Nat, status : Active \cup Terminal, version : Nat, lease : {"none", "live", "expired"},
        deliveries : 0 .. 2, attempts : Nat, accepted : BOOLEAN, due : BOOLEAN, old : BOOLEAN]
(* What a worker keeps of the job it claimed: the lease token, and the     *)
(* fields it decides by.                                                   *)
Claimed == [key : Key, id : Nat, version : Nat, deliveries : 0 .. 2, attempts : Nat, accepted : BOOLEAN]

NewJob(id) == [id |-> id, status |-> "queued", version |-> 0, lease |-> "none", deliveries |-> 0,
               attempts |-> 0, accepted |-> FALSE, due |-> TRUE, old |-> FALSE]
ASSUME NoJobAssumption == NoJob \notin Job

Snapshot(k) == [key |-> k, id |-> job[k].id, version |-> job[k].version, deliveries |-> job[k].deliveries,
                attempts |-> job[k].attempts, accepted |-> job[k].accepted]

Places == {"idle", "loop", "dedupe", "subscription", "verify", "send", "accept", "mark",
           "audit", "retry", "finish", "sweep", "sweepAudit", "sweepDelete"}
(* Where the worker acts on the job it claimed. *)
Busy == {"dedupe", "subscription", "verify", "send", "accept", "mark", "audit", "retry", "finish"}

TypeOK ==
    /\ job \in [Key -> Job \cup {NoJob}]
    /\ sent \subseteq Key /\ replay \subseteq Key /\ excused \subseteq Key
    /\ posted \in [Key -> Nat]
    /\ subscribed \in [Key -> BOOLEAN]
    /\ enqueues \in [Key -> 0 .. MaxEnqueues]
    /\ enqueuing \subseteq Key /\ promised \subseteq Key /\ left \subseteq Key
    /\ pc \in [Worker -> Places]
    /\ cur \in [Worker -> Claimed \cup {NoJob}]
    /\ count \in [Worker -> 0 .. Limit]
    /\ goal \in [Worker -> Terminal]
    /\ halt \in [Worker -> BOOLEAN]
    /\ stale \in [Worker -> SUBSET Claimed]
    /\ faults \in 0 .. MaxFaults /\ stalls \in 0 .. MaxStalls

Init ==
    /\ job = [k \in Key |-> NoJob]
    /\ sent = {} /\ replay = {} /\ excused = {}
    /\ posted = [k \in Key |-> 0]
    /\ subscribed = [k \in Key |-> TRUE]
    /\ enqueues = [k \in Key |-> 0]
    /\ enqueuing = {} /\ promised = {} /\ left = {}
    /\ pc = [w \in Worker |-> "idle"]
    /\ cur = [w \in Worker |-> NoJob]
    /\ count = [w \in Worker |-> 0]
    /\ goal = [w \in Worker |-> "delivered"]
    /\ halt = [w \in Worker |-> FALSE]
    /\ stale = [w \in Worker |-> {}]
    /\ faults = 0 /\ stalls = 0

Goto(w, place) == pc' = [pc EXCEPT ![w] = place]
Finishing(w, status) == goal' = [goal EXCEPT ![w] = status]
Fault == faults < MaxFaults /\ faults' = faults + 1
NoFault == UNCHANGED faults

(* The worker is done with its job, or with its loop: what it kept of it is *)
(* out of scope.                                                            *)
Leave(w, place) ==
    /\ Goto(w, place) /\ Finishing(w, "delivered")
    /\ cur' = [cur EXCEPT ![w] = NoJob] /\ halt' = [halt EXCEPT ![w] = FALSE]
    /\ count' = [count EXCEPT ![w] = IF place = "loop" THEN @ ELSE 0]

-----------------------------------------------------------------------------
(* enqueueOutbox *)

(* alreadySent: a read that fails counts as not sent. *)
EnqueueCheck(k) ==
    /\ k \notin enqueuing /\ enqueues[k] < MaxEnqueues
    /\ enqueues' = [enqueues EXCEPT ![k] = @ + 1]
    /\ \/ k \in sent /\ promised' = promised \cup {k} /\ UNCHANGED enqueuing /\ NoFault
       \/ k \notin sent /\ enqueuing' = enqueuing \cup {k} /\ UNCHANGED promised /\ NoFault
       \/ enqueuing' = enqueuing \cup {k} /\ UNCHANGED promised /\ Fault
    /\ UNCHANGED <<queue, posted, subscribed, left, pc, cur, goal, drain, ghost>>

(* insertJob: a duplicate key, whatever the status of the job that holds   *)
(* it, is taken for success; any other error is the caller's.              *)
Insert(k) == job' = IF job[k] = NoJob THEN [job EXCEPT ![k] = NewJob(enqueues[k])] ELSE job
EnqueueInsert(k) ==
    /\ k \in enqueuing
    /\ enqueuing' = enqueuing \ {k}
    /\ \/ Insert(k) /\ promised' = promised \cup {k} /\ NoFault
       \/ Insert(k) /\ UNCHANGED promised /\ Fault
       \/ UNCHANGED <<job, promised>> /\ Fault
    /\ UNCHANGED <<sent, replay, posted, subscribed, left, enqueues, pc, cur, goal, drain, ghost>>

-----------------------------------------------------------------------------
(* The drain loop: claimNextJob *)

StartDrain(w) ==
    /\ pc[w] = "idle"
    /\ Goto(w, "loop")
    /\ count' = [count EXCEPT ![w] = 0]
    /\ halt' = [halt EXCEPT ![w] = FALSE]
    /\ UNCHANGED <<queue, posted, env, cur, goal, stale, faults, ghost>>

(* Mutant: lockedUntil is not looked at. *)
ClaimableWhileLeased(k) == job[k] # NoJob /\ job[k].status \in Active /\ job[k].due

(* Mutant: a lease that ran out is not taken over. *)
ClaimableUnleased(k) == job[k] # NoJob /\ job[k].status \in Active /\ job[k].due /\ job[k].lease = "none"

Claimable(k) == /\ job[k] # NoJob /\ job[k].status \in Active
                /\ job[k].due /\ job[k].lease # "live"

(* sort: { status: 1 }, by the names of the statuses. *)
Rank == [s \in Active |-> CASE s = "delivered-pending" -> 0 [] s = "leased" -> 1 [] s = "queued" -> 2]
NextJobs == {k \in Key : Claimable(k) /\ \A j \in Key : Claimable(j) => Rank[job[k].status] <= Rank[job[j].status]}

Leased(j) == [j EXCEPT !.status = "leased", !.lease = "live", !.version = @ + 1,
                       !.deliveries = IF @ = 2 THEN 2 ELSE @ + 1]

ClaimTo(w, k, place) ==
    /\ job' = [job EXCEPT ![k] = Leased(@)]
    /\ cur' = [cur EXCEPT ![w] = Snapshot(k)']
    /\ Goto(w, place)
    /\ count' = [count EXCEPT ![w] = @ + 1]
    /\ Finishing(w, "delivered")
    /\ UNCHANGED <<sent, replay, posted, env, halt, stale, faults, ghost>>

(* Mutant: deliveryAcceptedAt is not looked at. *)
ClaimForgetsAcceptance(w) ==
    /\ pc[w] = "loop" /\ count[w] < Limit
    /\ \E k \in NextJobs : ClaimTo(w, k, "dedupe")

(* A job whose delivery was accepted skips to the end of the delivery. *)
Claim(w) ==
    /\ pc[w] = "loop" /\ count[w] < Limit
    /\ \E k \in NextJobs : ClaimTo(w, k, IF job[k].accepted THEN "mark" ELSE "dedupe")

EndLoop(w) ==
    /\ pc[w] = "loop" /\ (count[w] = Limit \/ NextJobs = {})
    /\ Leave(w, "sweep")
    /\ UNCHANGED <<queue, posted, env, stale, faults, ghost>>

(* shouldAbort: the drain lock is lost, or the process shuts down. *)
Abort(w) ==
    /\ pc[w] = "loop" /\ Fault
    /\ Leave(w, "sweep")
    /\ UNCHANGED <<queue, posted, env, stale, ghost>>

(* A claim that throws, before or after the server applied it, ends the    *)
(* drain.                                                                  *)
DrainThrows(w) ==
    /\ pc[w] = "loop" /\ Fault
    /\ \/ UNCHANGED job
       \/ \E k \in NextJobs : job' = [job EXCEPT ![k] = Leased(@)]
    /\ Leave(w, "idle")
    /\ UNCHANGED <<sent, replay, posted, env, stale, ghost>>

-----------------------------------------------------------------------------
(* validateClaimedJob *)

(* The compare-and-set of every later write: _id, lockedBy, leaseVersion.  *)
Same(c) == job[c.key] # NoJob /\ job[c.key].id = c.id

(* Mutant: the write is guarded by _id only. *)
HoldsLeaseById(c) == Same(c)

HoldsLease(c) == Same(c) /\ job[c.key].version = c.version /\ job[c.key].lease # "none"

(* createdAt against maxAgeMs: a job that is gone was swept, so it is old. *)
IsOld(c) == Same(c) => job[c.key].old

CheckSent(w) ==
    /\ pc[w] = "dedupe"
    /\ \/ /\ cur[w].key \in sent /\ NoFault
          /\ Goto(w, "finish") /\ Finishing(w, "dropped")
       \/ /\ (cur[w].key \notin sent /\ NoFault) \/ Fault
          /\ \/ IsOld(cur[w]) /\ Goto(w, "audit") /\ Finishing(w, "dead-lettered")
             \/ ~IsOld(cur[w]) /\ Goto(w, "subscription") /\ UNCHANGED goal
    /\ UNCHANGED <<queue, posted, env, cur, drain, ghost>>

(* planNotificationFailure on the attempts the worker read at its claim. *)
(* Mutant: a job that is given up is not audited. *)
PlanWithoutAudit(c, permanent) ==
    IF permanent \/ c.attempts + 1 >= MaxAttempts THEN "finish" ELSE "retry"

Plan(c, permanent) == IF permanent \/ c.attempts + 1 >= MaxAttempts THEN "audit" ELSE "retry"
RetryOrDeadLetter(w, permanent) ==
    /\ Goto(w, Plan(cur[w], permanent))
    /\ Finishing(w, "dead-lettered")

(* A job with deliveries > 1 may have been posted by an earlier worker.    *)
(* Mutant: off by one. *)
MayBePostedLate(c) == RecoveryVerify /\ c.deliveries > 2

MayBePosted(c) == RecoveryVerify /\ c.deliveries > 1

CheckSubscription(w) ==
    /\ pc[w] = "subscription"
    /\ \/ /\ subscribed[cur[w].key] /\ NoFault /\ UNCHANGED goal
          /\ Goto(w, IF MayBePosted(cur[w]) THEN "verify" ELSE "send")
       \/ /\ ~subscribed[cur[w].key] /\ NoFault
          /\ Goto(w, "finish") /\ Finishing(w, "dropped")
       \/ Fault /\ RetryOrDeadLetter(w, FALSE)
    /\ UNCHANGED <<queue, posted, env, cur, drain, ghost>>

-----------------------------------------------------------------------------
(* deliver *)

(* The channel cannot be fetched, or is not one the bot may send to. *)
ChannelFails(w) ==
    /\ pc[w] \in {"verify", "send"}
    /\ \E permanent \in BOOLEAN : RetryOrDeadLetter(w, permanent)
    /\ UNCHANGED <<queue, posted, env, cur, drain, faults, ghost>>

(* alreadyPostedInChannel: the marker of a posted message is found unless  *)
(* it is beyond the history limit or the read fails; in strict mode a      *)
(* failed read postpones the job.                                          *)
Verify(w) ==
    /\ pc[w] = "verify"
    /\ \/ posted[cur[w].key] > 0 /\ NoFault /\ Goto(w, "accept") /\ UNCHANGED goal
       \/ posted[cur[w].key] = 0 /\ NoFault /\ Goto(w, "send") /\ UNCHANGED goal
       \/ Fault /\ Goto(w, "send") /\ UNCHANGED goal
       \/ Fault /\ RecoveryStrict /\ RetryOrDeadLetter(w, FALSE)
    /\ UNCHANGED <<queue, posted, env, cur, drain, ghost>>

(* channel.send; an error may come although Discord took the message. *)
Send(w) ==
    /\ pc[w] = "send"
    /\ posted' = [posted EXCEPT ![cur[w].key] = @ + 1]
    /\ \/ Goto(w, "accept") /\ NoFault /\ UNCHANGED <<goal, excused>>
       \/ Fault /\ RetryOrDeadLetter(w, FALSE) /\ excused' = excused \cup {cur[w].key}
    /\ UNCHANGED <<queue, env, cur, drain, stalls>>

-----------------------------------------------------------------------------
(* finalizeDeliveredJob, finalizeJob, scheduleRetry *)

Write(c, j) == job' = [job EXCEPT ![c.key] = j]
Accepted(j) == [j EXCEPT !.status = "delivered-pending", !.accepted = TRUE]
Finished(j, status) == [j EXCEPT !.status = status, !.lease = "none"]

Retried(j, attempts) == [j EXCEPT !.status = "queued", !.lease = "none", !.attempts = attempts, !.due = FALSE]

(* markDeliveryAccepted; when it fails or matches nothing the drain stops. *)
Accept(w) ==
    LET c == cur[w] IN
    /\ pc[w] = "accept"
    /\ \/ /\ HoldsLease(c) /\ Write(c, Accepted(job[c.key])) /\ Goto(w, "mark")
          /\ Finishing(w, "delivered") /\ UNCHANGED <<cur, count, halt, faults>>
       \/ ~HoldsLease(c) /\ Leave(w, "sweep") /\ UNCHANGED job /\ NoFault
       \/ Fault /\ Leave(w, "sweep") /\ UNCHANGED job
       \/ Fault /\ HoldsLease(c) /\ Write(c, Accepted(job[c.key])) /\ Leave(w, "sweep")
    /\ UNCHANGED <<sent, replay, posted, env, stale, ghost>>

(* recordSentHistory and markSent; a failed markSent leaves a dead-letter  *)
(* entry that cannot be replayed, and stops the drain.                     *)
MarkSent(w) ==
    /\ pc[w] = "mark" /\ Goto(w, "finish")
    /\ \/ sent' = sent \cup {cur[w].key} /\ UNCHANGED halt /\ NoFault
       \/ Fault /\ halt' = [halt EXCEPT ![w] = TRUE] /\ sent' \in {sent, sent \cup {cur[w].key}}
    /\ UNCHANGED <<job, replay, posted, env, cur, goal, count, stale, ghost>>

(* recordDeadLetterOrKeep around recordOutboxDeadLetter, which logs and    *)
(* swallows the errors of both of its writes: the job is always finished.  *)
RecordDeadLetter(k) ==
    \/ replay' = replay \cup {k}
    \/ AuditCanFail /\ UNCHANGED replay

Audit(w) ==
    /\ pc[w] = "audit"
    /\ RecordDeadLetter(cur[w].key)
    /\ Goto(w, "finish")
    /\ UNCHANGED <<job, sent, posted, env, cur, goal, drain, faults, ghost>>

(* After the last write on a job.  A delivered job whose lease was lost     *)
(* also stops the drain.                                                   *)
AfterFinish(w, lost) == IF halt[w] \/ (lost /\ goal[w] = "delivered") THEN "sweep" ELSE "loop"

Finish(w) ==
    LET c == cur[w] IN
    /\ pc[w] = "finish"
    /\ \/ /\ HoldsLease(c) /\ Write(c, Finished(job[c.key], goal[w]))
          /\ Leave(w, AfterFinish(w, FALSE)) /\ (NoFault \/ Fault)
       \/ ~HoldsLease(c) /\ Leave(w, AfterFinish(w, TRUE)) /\ UNCHANGED job /\ NoFault
       \/ Fault /\ Leave(w, AfterFinish(w, FALSE)) /\ UNCHANGED job
    /\ UNCHANGED <<sent, replay, posted, env, stale, ghost>>

(* An exception of scheduleRetry ends the drain. *)
Retry(w) ==
    LET c == cur[w] IN
    /\ pc[w] = "retry"
    /\ \/ /\ HoldsLease(c) /\ Write(c, Retried(job[c.key], c.attempts + 1))
          /\ (Leave(w, "loop") /\ NoFault) \/ (Leave(w, "idle") /\ Fault)
       \/ ~HoldsLease(c) /\ Leave(w, "loop") /\ UNCHANGED job /\ NoFault
       \/ Fault /\ Leave(w, "idle") /\ UNCHANGED job
    /\ UNCHANGED <<sent, replay, posted, env, stale, ghost>>

-----------------------------------------------------------------------------
(* The sweep of the jobs older than maxAgeMs, at the end of every drain *)

Sweepable == {k \in Key : /\ job[k] # NoJob /\ job[k].old
                          /\ job[k].status \in Expirable /\ job[k].lease # "live"}

(* findStaleJobs: up to Limit jobs, none when the query fails. *)
SweepFind(w) ==
    /\ pc[w] = "sweep"
    /\ \/ /\ NoFault
          /\ \E found \in SUBSET Sweepable :
                /\ found = Sweepable \/ Cardinality(found) = Limit
                /\ Cardinality(found) <= Limit
                /\ stale' = [stale EXCEPT ![w] = {Snapshot(k) : k \in found}]
       \/ Fault /\ stale' = [stale EXCEPT ![w] = {}]
    /\ Goto(w, "sweepAudit")
    /\ UNCHANGED <<queue, posted, env, cur, goal, count, halt, ghost>>

SweepAudit(w) ==
    /\ pc[w] = "sweepAudit" /\ stale[w] # {}
    /\ \E c \in stale[w] :
          /\ RecordDeadLetter(c.key)
          /\ cur' = [cur EXCEPT ![w] = c]
          /\ stale' = [stale EXCEPT ![w] = @ \ {c}]
    /\ Goto(w, "sweepDelete")
    /\ UNCHANGED <<job, sent, posted, env, goal, count, halt, faults, ghost>>

(* deleteStaleJobIfLeaseFree compares lockedUntil with the start of the    *)
(* sweep: a lease taken since then counts as live even when it has run out.*)
LeaseFree(c) == job[c.key].lease = "none" \/ (job[c.key].lease = "expired" /\ job[c.key].version = c.version)
SweepDelete(w) ==
    LET c == cur[w] IN
    /\ pc[w] = "sweepDelete"
    /\ \/ /\ Same(c) /\ job[c.key].status \in Expirable /\ LeaseFree(c)
          /\ job' = [job EXCEPT ![c.key] = NoJob] /\ (NoFault \/ Fault)
       \/ /\ ~(Same(c) /\ job[c.key].status \in Expirable /\ LeaseFree(c))
          /\ UNCHANGED job /\ NoFault
       \/ Fault /\ UNCHANGED job
    /\ Leave(w, "sweepAudit")
    /\ UNCHANGED <<sent, replay, posted, env, stale, ghost>>

EndDrain(w) ==
    /\ pc[w] = "sweepAudit" /\ stale[w] = {}
    /\ Goto(w, "idle")
    /\ UNCHANGED <<queue, posted, env, cur, goal, drain, faults, ghost>>

-----------------------------------------------------------------------------
(* Crashes, time and users *)

Crash(w) ==
    /\ pc[w] # "idle" /\ Fault
    /\ Leave(w, "idle")
    /\ UNCHANGED <<queue, posted, env, stale, ghost>>

(* A lease is not renewed: it runs out, under a worker that stalls or      *)
(* after a worker has died or stopped.                                     *)
Held(k) == \E w \in Worker : pc[w] \in Busy /\ cur[w].key = k /\ HoldsLease(cur[w])
LeaseRunsOut(k) ==
    /\ job[k] # NoJob /\ job[k].lease = "live"
    /\ job' = [job EXCEPT ![k].lease = "expired"]
    /\ excused' = excused \cup {k}
    /\ \/ ~Held(k) /\ UNCHANGED stalls
       \/ Held(k) /\ stalls < MaxStalls /\ stalls' = stalls + 1
    /\ UNCHANGED <<sent, replay, posted, env, pc, cur, goal, drain, faults>>

BackoffEnds(k) ==
    /\ job[k] # NoJob /\ ~job[k].due
    /\ job' = [job EXCEPT ![k].due = TRUE]
    /\ UNCHANGED <<sent, replay, posted, env, pc, cur, goal, drain, faults, ghost>>

GrowOld(k) ==
    /\ job[k] # NoJob /\ job[k].status \in Active /\ ~job[k].old
    /\ job' = [job EXCEPT ![k].old = TRUE]
    /\ UNCHANGED <<sent, replay, posted, env, pc, cur, goal, drain, faults, ghost>>

SetSubscription(k, on) ==
    /\ subscribed' = [subscribed EXCEPT ![k] = on]
    /\ left' = IF on THEN left ELSE left \cup {k}
    /\ UNCHANGED <<queue, posted, enqueues, enqueuing, promised, pc, cur, goal, drain, faults, ghost>>

-----------------------------------------------------------------------------
WorkerStep(w) ==
    \/ StartDrain(w) \/ Claim(w) \/ EndLoop(w) \/ Abort(w) \/ DrainThrows(w)
    \/ CheckSent(w) \/ CheckSubscription(w) \/ ChannelFails(w) \/ Verify(w) \/ Send(w)
    \/ Accept(w) \/ MarkSent(w) \/ Audit(w) \/ Finish(w) \/ Retry(w)
    \/ SweepFind(w) \/ SweepAudit(w) \/ SweepDelete(w) \/ EndDrain(w)

KeyStep(k) ==
    \/ EnqueueCheck(k) \/ EnqueueInsert(k)
    \/ LeaseRunsOut(k) \/ BackoffEnds(k) \/ GrowOld(k)
    \/ \E on \in BOOLEAN : SetSubscription(k, on)

Next == (\E w \in Worker : WorkerStep(w) \/ Crash(w)) \/ (\E k \in Key : KeyStep(k))

Spec == Init /\ [][Next]_vars

(* The timer re-arms after every drain, a drain runs on, a lease that is   *)
(* not renewed runs out and a backoff ends.                                *)
Fairness == /\ \A w \in Worker : WF_vars(WorkerStep(w))
            /\ \A k \in Key : WF_vars(LeaseRunsOut(k)) /\ WF_vars(BackoffEnds(k))

FairSpec == Spec /\ Fairness

-----------------------------------------------------------------------------
(* Properties *)

IsActive(k) == job[k] # NoJob /\ job[k].status \in Active

(* A message is posted at most once, unless a lease of its job ran out or  *)
(* Discord's answer to the post was lost: no other failed call, no crash   *)
(* before the post and no overlap of workers posts it twice.               *)
PostedOnce == \A k \in Key : posted[k] > 1 => k \in excused

(* With NOTIFICATION_OUTBOX_RECOVERY_VERIFY no single failure posts twice:  *)
(* a crash after the post, or a lost answer to it, is found out by reading  *)
(* the channel before the job is posted again.  (For one job of a key: a    *)
(* job enqueued anew after the sweep is posted unread.)                     *)
OneFailurePostsOnce ==
    \A k \in Key : RecoveryVerify /\ enqueues[k] = 1 /\ posted[k] > 1 => faults > 1 \/ stalls > 0

(* Nothing says that a message was delivered that was not posted: not the  *)
(* marker that drops later duplicates, not the job.                        *)
DeliveredWasPosted ==
    \A k \in Key :
        k \in sent \/ (job[k] # NoJob /\ (job[k].accepted \/ job[k].status = "delivered")) => posted[k] > 0

(* No job vanishes: a notification that was enqueued waits in the queue,   *)
(* was posted, can be replayed, or its subscription was ended meanwhile.   *)
(* (For dead-letter collections that take every write.)                    *)
Accounted(k) == posted[k] > 0 \/ k \in replay \/ k \in left
NothingLost == \A k \in promised : IsActive(k) \/ Accounted(k)

(* A finished job stays as it is: a worker whose lease was taken over, and *)
(* the sweep, never reopen, re-finish or remove it.                        *)
FinalIsFinal == \A k \in Key : job[k] # NoJob /\ job[k].status \in Terminal => job'[k] = job[k]
FinishedStaysFinished == [][FinalIsFinal]_vars

(* Once the acceptance of a delivery is recorded, the worker that holds    *)
(* the job's lease never posts it again: what is left is bookkeeping.      *)
NoRepost ==
    \A w \in Worker : pc[w] = "send" /\ pc'[w] # "send" /\ HoldsLease(cur[w]) =>
        posted' = posted \/ ~job[cur[w].key].accepted
AcceptedNotReposted == [][NoRepost]_vars

(* The compare-and-set token of a job is never in two hands: of all the    *)
(* workers that act on a job, whoever's lease ran out, at most one can     *)
(* still write to it.                                                      *)
OneLeaseHolder ==
    \A v, w \in Worker :
        pc[v] \in Busy /\ pc[w] \in Busy /\ cur[v].key = cur[w].key
            /\ HoldsLease(cur[v]) /\ HoldsLease(cur[w]) => v = w

(* A job never gets attempts back, and a lease is never handed out twice:  *)
(* while its document lives, its version and its attempts only grow.       *)
Monotone ==
    \A k \in Key : job[k] # NoJob /\ job'[k] # NoJob /\ job'[k].id = job[k].id =>
        /\ job'[k].attempts >= job[k].attempts
        /\ job'[k].version >= job[k].version
        /\ (job'[k].lease = "live" /\ job[k].lease # "live") => job'[k].version > job[k].version
LeasesAdvance == [][Monotone]_vars

(* To whoever enqueues, the drains, leases and sweeps are one abstract      *)
(* queue: a notification waits, is posted once unless in doubt, and is      *)
(* finished for good, or removed, only with a message or a reason for none. *)
Phase == [k \in Key |-> IF job[k] = NoJob THEN "absent" ELSE IF IsActive(k) THEN "waiting" ELSE job[k].status]
Contract == INSTANCE OutboxContract WITH phase <- Phase, kept <- replay \cup left, doubt <- excused
KeepsContract == Contract!Spec

(* Every queued notification is settled: delivered, dropped, dead-lettered *)
(* or swept.                                                               *)
EveryJobSettles == \A k \in Key : IsActive(k) ~> ~IsActive(k)

-----------------------------------------------------------------------------
(* The inductive invariants *)

(* A worker that acts on a job has a copy of it. *)
CurTyped == \A w \in Worker : pc[w] \in Busy \cup {"sweepDelete"} => cur[w] \in Claimed
TypeInv == TypeOK /\ CurTyped

(* A job with a lease is active and was due; a finished job stays due. *)
Lifecycle ==
    \A k \in Key : job[k] # NoJob =>
        /\ job[k].lease # "none" => job[k].status \in Active /\ job[k].due
        /\ job[k].status \in Terminal => job[k].due

(* No document gets the _id of an earlier one. *)
IdIssued(id, k) == id <= enqueues[k] /\ (k \in enqueuing => id < enqueues[k])
IdsUnique ==
    /\ \A k \in Key : job[k] # NoJob => IdIssued(job[k].id, k)
    /\ \A w \in Worker : pc[w] \in Busy => IdIssued(cur[w].id, cur[w].key)

(* A worker's copy is never newer than the document, and it is as new on   *)
(* the attempts as long as the worker holds the lease.                     *)
CopiesBehind ==
    \A w \in Worker : pc[w] \in Busy =>
        /\ Same(cur[w]) => cur[w].version <= job[cur[w].key].version
        /\ HoldsLease(cur[w]) => cur[w].attempts = job[cur[w].key].attempts

LeaseTokenInv == TypeInv /\ Lifecycle /\ IdsUnique /\ CopiesBehind /\ OneLeaseHolder

(* A worker past the post of a message has posted it, or read that somebody *)
(* did.                                                                     *)
WorkerPosted ==
    \A w \in Worker :
        pc[w] \in {"accept", "mark"} \/ (pc[w] = "finish" /\ goal[w] = "delivered") => posted[cur[w].key] > 0
GoalsSet ==
    \A w \in Worker : /\ pc[w] = "mark" => goal[w] = "delivered"
                      /\ pc[w] = "audit" => goal[w] = "dead-lettered"
EvidenceInv == TypeInv /\ DeliveredWasPosted /\ WorkerPosted /\ GoalsSet

(* A job ends, and the sweep deletes it, only when it is accounted for. *)
FinishedAccounted ==
    /\ \A k \in Key : ~subscribed[k] => k \in left
    /\ \A k \in Key : job[k] # NoJob /\ job[k].status \in Terminal => Accounted(k)
    /\ \A w \in Worker : pc[w] \in {"finish", "sweepDelete"} => Accounted(cur[w].key)
AccountInv == EvidenceInv /\ NothingLost /\ FinishedAccounted

(* As long as no lease of k ran out, whoever acts on its job holds the     *)
(* live lease; and once its message is posted the lease is held for good,  *)
(* by a worker that only finishes or by one that died, or the job is       *)
(* delivered.                                                              *)
Unexcused(k) == k \notin excused
HoldersLive ==
    \A w \in Worker : pc[w] \in Busy /\ Unexcused(cur[w].key) =>
        HoldsLease(cur[w]) /\ job[cur[w].key].lease = "live"
PostedIsFinal ==
    \A k \in Key : Unexcused(k) /\ posted[k] > 0 =>
        /\ posted[k] = 1 /\ job[k] # NoJob
        /\ job[k].lease = "live" \/ job[k].status = "delivered"
        /\ \A w \in Worker : pc[w] \in Busy /\ cur[w].key = k =>
               pc[w] \in {"accept", "mark"} \/ (pc[w] = "finish" /\ goal[w] = "delivered")
OncePostedInv == LeaseTokenInv /\ EvidenceInv /\ PostedOnce /\ HoldersLive /\ PostedIsFinal

-----------------------------------------------------------------------------
(* What the tests and the messages of the outbox say (see the README). *)

(* A dead-lettered job has its payload kept for a replay. *)
DeadLetterKeepsPayload ==
    \A k \in Key : job[k] # NoJob /\ job[k].status = "dead-lettered" => k \in replay

(* A job whose delivery was accepted is not swept. *)
AcceptedSurvives == \A k \in Key : job[k] # NoJob /\ job[k].accepted => job'[k] # NoJob
AcceptedNotSwept == [][AcceptedSurvives]_vars
=============================================================================
