--------------------------- MODULE Outbox_proofs ---------------------------
(* Proofs about the notification outbox. *)
EXTENDS Outbox, TLAPS

USE DEF Goto, Finishing, Leave, Fault, NoFault, queue, env, drain, ghost

-----------------------------------------------------------------------------
(* What the writes make of a job *)

LEMMA JobWrites ==
    ASSUME NEW j \in Job
    PROVE  /\ Leased(j) \in Job /\ Accepted(j) \in Job
           /\ \A status \in Terminal : Finished(j, status) \in Job
           /\ \A n \in Nat : Retried(j, n) \in Job
           /\ [j EXCEPT !.due = TRUE] \in Job /\ [j EXCEPT !.old = TRUE] \in Job
  <1> USE DEF Job
  <1>1. Leased(j) \in Job
    <2>1. j.version + 1 \in Nat /\ (IF j.deliveries = 2 THEN 2 ELSE j.deliveries + 1) \in 0 .. 2
      OBVIOUS
    <2> QED BY <2>1 DEF Leased, Active
  <1>2. Accepted(j) \in Job
    BY DEF Accepted, Active
  <1>3. ASSUME NEW status \in Terminal PROVE Finished(j, status) \in Job
    BY DEF Finished
  <1>4. ASSUME NEW n \in Nat PROVE Retried(j, n) \in Job
    BY DEF Retried, Active
  <1>5. [j EXCEPT !.due = TRUE] \in Job /\ [j EXCEPT !.old = TRUE] \in Job
    OBVIOUS
  <1> QED BY <1>1, <1>2, <1>3, <1>4, <1>5

LEMMA WriteTyped ==
    ASSUME job \in [Key -> Job \cup {NoJob}], NEW c \in Claimed, NEW j \in Job, Write(c, j)
    PROVE  job' \in [Key -> Job \cup {NoJob}]
  BY DEF Write, Claimed

LEMMA LeaveTyped ==
    ASSUME TypeInv, NEW w \in Worker, NEW place \in Places \ (Busy \cup {"sweepDelete"}), Leave(w, place)
    PROVE  /\ pc' \in [Worker -> Places] /\ cur' \in [Worker -> Claimed \cup {NoJob}]
           /\ goal' \in [Worker -> Terminal] /\ halt' \in [Worker -> BOOLEAN]
           /\ count' \in [Worker -> 0 .. Limit] /\ CurTyped'
  <1>1. pc' \in [Worker -> Places] /\ cur' \in [Worker -> Claimed \cup {NoJob}]
    BY DEF TypeInv, TypeOK
  <1>2. goal' \in [Worker -> Terminal] /\ halt' \in [Worker -> BOOLEAN]
    BY DEF TypeInv, TypeOK, Terminal
  <1>3. count' \in [Worker -> 0 .. Limit]
    BY OutboxAssumption DEF TypeInv, TypeOK
  <1>4. CurTyped'
    <2> SUFFICES ASSUME NEW v \in Worker, pc'[v] \in Busy \cup {"sweepDelete"} PROVE cur'[v] \in Claimed
      BY DEF CurTyped
    <2>1. v # w
      BY DEF TypeInv, TypeOK
    <2> QED BY <2>1 DEF TypeInv, TypeOK, CurTyped
  <1> QED BY <1>1, <1>2, <1>3, <1>4

-----------------------------------------------------------------------------
(* The type invariant *)

THEOREM TypeInvariant == Spec => []TypeInv
<1>1. Init => TypeInv
  BY OutboxAssumption DEF Init, TypeInv, TypeOK, CurTyped, Busy, Places, Terminal
<1>2. TypeInv /\ [Next]_vars => TypeInv'
  <2> SUFFICES ASSUME TypeInv, [Next]_vars PROVE TypeInv'
    OBVIOUS
  <2> USE OutboxAssumption DEF TypeInv, TypeOK, CurTyped, Busy, Places
  <2>1. ASSUME NEW k \in Key, EnqueueCheck(k) PROVE TypeInv'
    BY <2>1 DEF EnqueueCheck
  <2>2. ASSUME NEW k \in Key, EnqueueInsert(k) PROVE TypeInv'
    <3>1. NewJob(enqueues[k]) \in Job
      BY DEF NewJob, Job, Active
    <3>2. job' \in [Key -> Job \cup {NoJob}]
      BY <2>2, <3>1 DEF EnqueueInsert, Insert
    <3> QED
      BY <2>2, <3>2 DEF EnqueueInsert
  <2>3. ASSUME NEW w \in Worker, StartDrain(w) PROVE TypeInv'
    BY <2>3 DEF StartDrain
  <2>4. ASSUME NEW w \in Worker, Claim(w) PROVE TypeInv'
    <3>1. PICK k \in NextJobs : ClaimTo(w, k, IF job[k].accepted THEN "mark" ELSE "dedupe")
      BY <2>4 DEF Claim
    <3>2. k \in Key /\ job[k] \in Job
      BY <3>1 DEF NextJobs, Claimable
    <3>3. job' \in [Key -> Job \cup {NoJob}] /\ job'[k] \in Job
      BY <3>1, <3>2, JobWrites DEF ClaimTo
    <3>4. Snapshot(k)' \in Claimed
      BY <3>2, <3>3 DEF Snapshot, Job, Claimed
    <3> QED
      BY <2>4, <3>1, <3>3, <3>4 DEF Claim, ClaimTo, Terminal
  <2>5. ASSUME NEW w \in Worker, EndLoop(w) PROVE TypeInv'
    BY <2>5 DEF EndLoop, Terminal
  <2>6. ASSUME NEW w \in Worker, Abort(w) PROVE TypeInv'
    BY <2>6 DEF Abort, Terminal
  <2>7. ASSUME NEW w \in Worker, DrainThrows(w) PROVE TypeInv'
    <3>1. ASSUME NEW k \in NextJobs PROVE [job EXCEPT ![k] = Leased(@)] \in [Key -> Job \cup {NoJob}]
      <4>1. k \in Key /\ job[k] \in Job
        BY <3>1 DEF NextJobs, Claimable
      <4> QED BY <4>1, JobWrites
    <3>2. job' \in [Key -> Job \cup {NoJob}]
      BY <2>7, <3>1 DEF DrainThrows
    <3> QED
      BY <2>7, <3>2 DEF DrainThrows, Terminal
  <2>8. ASSUME NEW w \in Worker, CheckSent(w) PROVE TypeInv'
    BY <2>8 DEF CheckSent, Terminal
  <2>9. ASSUME NEW w \in Worker, CheckSubscription(w) PROVE TypeInv'
    BY <2>9 DEF CheckSubscription, RetryOrDeadLetter, Plan, Terminal
  <2>10. ASSUME NEW w \in Worker, ChannelFails(w) PROVE TypeInv'
    BY <2>10 DEF ChannelFails, RetryOrDeadLetter, Plan, Terminal
  <2>11. ASSUME NEW w \in Worker, Verify(w) PROVE TypeInv'
    BY <2>11 DEF Verify, RetryOrDeadLetter, Plan, Terminal
  <2>12. ASSUME NEW w \in Worker, Send(w) PROVE TypeInv'
    BY <2>12 DEF Send, RetryOrDeadLetter, Plan, Terminal, Claimed
  <2>13. ASSUME NEW w \in Worker, Accept(w) PROVE TypeInv'
    <3>1. cur[w] \in Claimed /\ cur[w].key \in Key
      BY <2>13 DEF Accept, Claimed
    <3>2. job' \in [Key -> Job \cup {NoJob}]
      BY <2>13, <3>1, JobWrites, WriteTyped DEF Accept, HoldsLease, Same
    <3>3. CASE Leave(w, "sweep") /\ faults' \in 0 .. MaxFaults
      <4> HIDE DEF Leave
      <4> QED BY <2>13, <3>2, <3>3, LeaveTyped DEF Accept
    <3>4. CASE Goto(w, "mark") /\ Finishing(w, "delivered") /\ UNCHANGED <<cur, count, halt, faults>>
      <4>1. goal' \in [Worker -> Terminal] /\ pc' \in [Worker -> Places]
        BY <3>4 DEF Terminal
      <4>2. CurTyped'
        BY <2>13, <3>1, <3>4 DEF Accept
      <4> QED BY <2>13, <3>2, <3>4, <4>1, <4>2 DEF Accept
    <3>5. \/ Leave(w, "sweep") /\ faults' \in 0 .. MaxFaults
          \/ Goto(w, "mark") /\ Finishing(w, "delivered") /\ UNCHANGED <<cur, count, halt, faults>>
      <4> HIDE DEF Leave, Goto, Finishing
      <4> QED BY <2>13 DEF Accept
    <3> QED
      BY <3>3, <3>4, <3>5
  <2>14. ASSUME NEW w \in Worker, MarkSent(w) PROVE TypeInv'
    <3>1. cur[w].key \in Key
      BY <2>14 DEF MarkSent, Claimed
    <3>2. sent' \subseteq Key /\ halt' \in [Worker -> BOOLEAN]
      BY <2>14, <3>1 DEF MarkSent
    <3>3. faults' \in 0 .. MaxFaults
      BY <2>14 DEF MarkSent
    <3>4. pc' \in [Worker -> Places] /\ CurTyped'
      BY <2>14 DEF MarkSent
    <3> QED
      BY <2>14, <3>2, <3>3, <3>4 DEF MarkSent
  <2>15. ASSUME NEW w \in Worker, Audit(w) PROVE TypeInv'
    BY <2>15 DEF Audit, RecordDeadLetter, Claimed
  <2>16. ASSUME NEW w \in Worker, Finish(w) PROVE TypeInv'
    <3>1. cur[w] \in Claimed /\ cur[w].key \in Key
      BY <2>16 DEF Finish, Claimed
    <3>2. job' \in [Key -> Job \cup {NoJob}]
      BY <2>16, <3>1, JobWrites, WriteTyped DEF Finish, HoldsLease, Same
    <3>3. PICK place \in {"sweep", "loop"} : Leave(w, place) /\ faults' \in 0 .. MaxFaults
      <4> HIDE DEF Leave
      <4> QED BY <2>16 DEF Finish, AfterFinish
    <3>4. UNCHANGED <<sent, replay, posted, env, stale, ghost>>
      BY <2>16 DEF Finish
    <3> HIDE DEF Leave
    <3> QED
      BY <3>2, <3>3, <3>4, LeaveTyped
  <2>17. ASSUME NEW w \in Worker, Retry(w) PROVE TypeInv'
    <3>1. cur[w] \in Claimed /\ cur[w].key \in Key
      BY <2>17 DEF Retry, Claimed
    <3>2. cur[w].attempts + 1 \in Nat
      BY <3>1 DEF Claimed
    <3>3. job' \in [Key -> Job \cup {NoJob}]
      BY <2>17, <3>1, <3>2, JobWrites, WriteTyped DEF Retry, HoldsLease, Same
    <3>4. PICK place \in {"idle", "loop"} : Leave(w, place) /\ faults' \in 0 .. MaxFaults
      <4> HIDE DEF Leave
      <4> QED BY <2>17 DEF Retry
    <3>5. UNCHANGED <<sent, replay, posted, env, stale, ghost>>
      BY <2>17 DEF Retry
    <3> HIDE DEF Leave
    <3> QED
      BY <3>3, <3>4, <3>5, LeaveTyped
  <2>18. ASSUME NEW w \in Worker, SweepFind(w) PROVE TypeInv'
    BY <2>18 DEF SweepFind, Sweepable, Snapshot, Job, Claimed
  <2>19. ASSUME NEW w \in Worker, SweepAudit(w) PROVE TypeInv'
    BY <2>19 DEF SweepAudit, RecordDeadLetter, Claimed
  <2>20. ASSUME NEW w \in Worker, SweepDelete(w) PROVE TypeInv'
    BY <2>20 DEF SweepDelete, Terminal
  <2>21. ASSUME NEW w \in Worker, EndDrain(w) PROVE TypeInv'
    BY <2>21 DEF EndDrain
  <2>22. ASSUME NEW w \in Worker, Crash(w) PROVE TypeInv'
    BY <2>22 DEF Crash, Terminal
  <2>23. ASSUME NEW k \in Key, LeaseRunsOut(k) PROVE TypeInv'
    BY <2>23 DEF LeaseRunsOut, Job
  <2>24. ASSUME NEW k \in Key, BackoffEnds(k) PROVE TypeInv'
    <3>1. job[k] \in Job
      BY <2>24 DEF BackoffEnds
    <3>2. job' \in [Key -> Job \cup {NoJob}]
      BY <2>24, <3>1, JobWrites DEF BackoffEnds
    <3> QED
      BY <2>24, <3>2 DEF BackoffEnds
  <2>25. ASSUME NEW k \in Key, GrowOld(k) PROVE TypeInv'
    <3>1. job[k] \in Job
      BY <2>25 DEF GrowOld
    <3>2. job' \in [Key -> Job \cup {NoJob}]
      BY <2>25, <3>1, JobWrites DEF GrowOld
    <3> QED
      BY <2>25, <3>2 DEF GrowOld
  <2>26. ASSUME NEW k \in Key, NEW on \in BOOLEAN, SetSubscription(k, on) PROVE TypeInv'
    BY <2>26 DEF SetSubscription
  <2>27. CASE UNCHANGED vars
    BY <2>27 DEF vars
  <2> QED
    BY <2>1, <2>2, <2>3, <2>4, <2>5, <2>6, <2>7, <2>8, <2>9, <2>10, <2>11, <2>12, <2>13, <2>14,
       <2>15, <2>16, <2>17, <2>18, <2>19, <2>20, <2>21, <2>22, <2>23, <2>24, <2>25, <2>26, <2>27
       DEF Next, WorkerStep, KeyStep
<1> QED
  BY <1>1, <1>2, PTL DEF Spec

(* Every variable has its type in every reachable state, for any number of *)
(* keys and workers and any bounds.                                        *)
THEOREM TypeCorrect == Spec => []TypeOK
  BY TypeInvariant, PTL DEF TypeInv

-----------------------------------------------------------------------------
(* What a step may do to the job of a key *)

ByHolder(k, w) == cur[w].key = k /\ HoldsLease(cur[w])
Claims(w, k) ==
    /\ pc[w] = "loop" /\ Claimable(k) /\ pc'[w] \in {"dedupe", "mark"}
    /\ job'[k] = Leased(job[k]) /\ cur'[w] = Snapshot(k)'
    /\ \A v \in Worker : v # w => pc'[v] = pc[v] /\ cur'[v] = cur[v]
JobStep(k) ==
    \/ job'[k] = job[k]
    \/ /\ k \in enqueuing /\ enqueuing' = enqueuing \ {k} /\ UNCHANGED enqueues
       /\ job[k] = NoJob /\ job'[k] = NewJob(enqueues[k])
    \/ /\ Claimable(k) /\ job'[k] = Leased(job[k])
       /\ faults' = faults + 1 \/ \E w \in Worker : Claims(w, k)
    \/ \E w \in Worker : pc[w] = "accept" /\ ByHolder(k, w) /\ job'[k] = Accepted(job[k])
    \/ \E w \in Worker : /\ pc[w] = "finish" /\ ByHolder(k, w) /\ pc'[w] \notin Busy
                         /\ job'[k] = Finished(job[k], goal[w])
    \/ \E w \in Worker : /\ pc[w] = "retry" /\ ByHolder(k, w) /\ pc'[w] \notin Busy
                         /\ job'[k] = Retried(job[k], cur[w].attempts + 1)
    \/ \E w \in Worker : /\ pc[w] = "sweepDelete" /\ cur[w].key = k /\ Same(cur[w]) /\ LeaseFree(cur[w])
                         /\ job[k].status \in Expirable /\ job'[k] = NoJob
    \/ /\ job[k] # NoJob /\ job[k].lease = "live" /\ k \in excused' /\ LeaseRunsOut(k)
       /\ job'[k] = [job[k] EXCEPT !.lease = "expired"]
    \/ job[k] # NoJob /\ ~job[k].due /\ job'[k] = [job[k] EXCEPT !.due = TRUE]
    \/ job[k] # NoJob /\ job[k].status \in Active /\ job'[k] = [job[k] EXCEPT !.old = TRUE]

LEMMA JobSteps ==
    ASSUME TypeInv, [Next]_vars, NEW k \in Key PROVE JobStep(k)
  <1> USE DEF TypeInv, TypeOK, CurTyped, Busy, JobStep, ByHolder
  <1>1. ASSUME NEW j \in Key, EnqueueInsert(j) PROVE JobStep(k)
    BY <1>1 DEF EnqueueInsert, Insert
  <1>2. ASSUME NEW w \in Worker, Claim(w) \/ DrainThrows(w) PROVE JobStep(k)
    <2>1. ASSUME NEW j \in NextJobs, ClaimTo(w, j, IF job[j].accepted THEN "mark" ELSE "dedupe"), pc[w] = "loop"
          PROVE  JobStep(k)
      <3>1. j \in Key /\ Claims(w, j) /\ (k # j => job'[k] = job[k])
        BY <2>1 DEF ClaimTo, NextJobs, Claims
      <3> QED BY <3>1 DEF Claims
    <2>2. CASE DrainThrows(w)
      BY <2>2 DEF DrainThrows, NextJobs
    <2> QED BY <1>2, <2>1, <2>2 DEF Claim
  <1>3. ASSUME NEW w \in Worker, Accept(w) PROVE JobStep(k)
    BY <1>3 DEF Accept, Write, Claimed
  <1>4. ASSUME NEW w \in Worker, Finish(w) PROVE JobStep(k)
    BY <1>4 DEF Finish, Write, AfterFinish, Claimed
  <1>5. ASSUME NEW w \in Worker, Retry(w) PROVE JobStep(k)
    BY <1>5 DEF Retry, Write, Claimed
  <1>6. ASSUME NEW w \in Worker, SweepDelete(w) PROVE JobStep(k)
    BY <1>6 DEF SweepDelete, Claimed
  <1>7. ASSUME NEW j \in Key, LeaseRunsOut(j) PROVE JobStep(k)
    BY <1>7 DEF LeaseRunsOut
  <1>8. ASSUME NEW j \in Key, BackoffEnds(j) PROVE JobStep(k)
    BY <1>8 DEF BackoffEnds
  <1>9. ASSUME NEW j \in Key, GrowOld(j) PROVE JobStep(k)
    BY <1>9 DEF GrowOld
  <1>10. CASE UNCHANGED job
    BY <1>10
  <1>11. ASSUME NEW w \in Worker,
                \/ StartDrain(w) \/ EndLoop(w) \/ Abort(w) \/ CheckSent(w)
                \/ CheckSubscription(w) \/ ChannelFails(w) \/ Verify(w) \/ Send(w) \/ MarkSent(w)
                \/ Audit(w) \/ SweepFind(w) \/ SweepAudit(w) \/ EndDrain(w) \/ Crash(w)
         PROVE  UNCHANGED job
    BY <1>11 DEF StartDrain, EndLoop, Abort, CheckSent, CheckSubscription, ChannelFails,
       Verify, Send, MarkSent, Audit, SweepFind, SweepAudit, EndDrain, Crash
  <1>12. ASSUME NEW j \in Key, EnqueueCheck(j) \/ \E on \in BOOLEAN : SetSubscription(j, on) PROVE UNCHANGED job
    BY <1>12 DEF EnqueueCheck, SetSubscription
  <1> QED
    BY <1>1, <1>2, <1>3, <1>4, <1>5, <1>6, <1>7, <1>8, <1>9, <1>10, <1>11, <1>12
       DEF Next, WorkerStep, KeyStep, vars

LEMMA JobKeepsId ==
    ASSUME NEW k \in Key, JobStep(k), job[k] \in Job, job[k] # NoJob, job'[k] # NoJob
    PROVE  job'[k].id = job[k].id
  <1>1. CASE job'[k] = Leased(job[k])
    BY <1>1 DEF Leased, Job
  <1>2. CASE job'[k] = Accepted(job[k])
    BY <1>2 DEF Accepted, Job
  <1>3. CASE \E w \in Worker : job'[k] = Finished(job[k], goal[w])
    BY <1>3 DEF Finished, Job
  <1>4. CASE \E w \in Worker : job'[k] = Retried(job[k], cur[w].attempts + 1)
    BY <1>4 DEF Retried, Job
  <1>5. CASE \/ job'[k] = [job[k] EXCEPT !.lease = "expired"]
             \/ job'[k] = [job[k] EXCEPT !.due = TRUE] \/ job'[k] = [job[k] EXCEPT !.old = TRUE]
    BY <1>5 DEF Job
  <1> QED BY <1>1, <1>2, <1>3, <1>4, <1>5 DEF JobStep

-----------------------------------------------------------------------------
(* A finished job stays as it is *)

LEMMA LifecycleInvariant == Spec => [](TypeInv /\ Lifecycle)
<1>1. Init => Lifecycle
  BY DEF Init, Lifecycle
<1>2. TypeInv /\ Lifecycle /\ [Next]_vars => Lifecycle'
  <2> SUFFICES ASSUME TypeInv, Lifecycle, [Next]_vars, NEW k \in Key, job'[k] # NoJob
               PROVE  /\ job'[k].lease # "none" => job'[k].status \in Active /\ job'[k].due
                      /\ job'[k].status \in Terminal => job'[k].due
    BY DEF Lifecycle
  <2>1. JobStep(k)
    BY JobSteps
  <2>2. job[k] = NoJob \/ job[k] \in Job
    BY DEF TypeInv, TypeOK
  <2>3. CASE job[k] = NoJob
    BY <2>1, <2>3 DEF JobStep, ByHolder, HoldsLease, Same, Claimable, NewJob, Terminal
  <2>4. CASE job[k] \in Job /\ job[k] # NoJob
    <3>1. /\ job[k].lease # "none" => job[k].status \in Active /\ job[k].due
          /\ job[k].status \in Terminal => job[k].due
      BY <2>4 DEF Lifecycle
    <3>2. CASE Claimable(k) /\ job'[k] = Leased(job[k])
      BY <2>4, <3>2 DEF Claimable, Leased, Job, Active
    <3>3. CASE \E w \in Worker : ByHolder(k, w) /\ job'[k] = Accepted(job[k])
      BY <2>4, <3>1, <3>3 DEF ByHolder, HoldsLease, Accepted, Job, Active
    <3>4. CASE \E w \in Worker : ByHolder(k, w) /\ job'[k] = Finished(job[k], goal[w])
      BY <2>4, <3>1, <3>4 DEF ByHolder, HoldsLease, Finished, Job
    <3>5. CASE \E w \in Worker : job'[k] = Retried(job[k], cur[w].attempts + 1)
      BY <2>4, <3>5 DEF Retried, Job, Terminal
    <3>6. CASE \/ job'[k] = [job[k] EXCEPT !.lease = "expired"] /\ job[k].lease = "live"
               \/ job'[k] = [job[k] EXCEPT !.due = TRUE]
               \/ job'[k] = [job[k] EXCEPT !.old = TRUE]
      BY <2>4, <3>1, <3>6 DEF Job
    <3> QED
      BY <2>1, <2>4, <3>1, <3>2, <3>3, <3>4, <3>5, <3>6 DEF JobStep
  <2> QED BY <2>2, <2>3, <2>4
<1> QED
  BY <1>1, <1>2, TypeInvariant, PTL DEF Spec

LEMMA FinalStep ==
    ASSUME TypeInv, Lifecycle, [Next]_vars PROVE FinalIsFinal
  <1> SUFFICES ASSUME NEW k \in Key, job[k] # NoJob, job[k].status \in Terminal
               PROVE  job'[k] = job[k]
    BY DEF FinalIsFinal
  <1>1. JobStep(k)
    BY JobSteps
  <1>2. job[k] \in Job /\ job[k].status \notin Active /\ job[k].lease = "none" /\ job[k].due
    BY DEF TypeInv, TypeOK, Lifecycle, Active, Terminal
  <1> QED
    BY <1>1, <1>2 DEF JobStep, ByHolder, HoldsLease, Same, Claimable, Expirable, Active

(* A job that was delivered, dead-lettered or dropped is never written or  *)
(* removed again, by a worker whose lease is gone or by the sweep.         *)
THEOREM FinishedIsFinal == Spec => FinishedStaysFinished
<1>1. TypeInv /\ Lifecycle /\ [Next]_vars => FinalIsFinal
  BY FinalStep
<1> QED
  BY <1>1, LifecycleInvariant, PTL DEF Spec, FinishedStaysFinished

-----------------------------------------------------------------------------
(* The lease of a job is in one hand *)

LEMMA EnqueueSteps ==
    ASSUME TypeInv, [Next]_vars
    PROVE  \/ UNCHANGED <<enqueues, enqueuing, promised>>
           \/ \E k \in Key :
                 /\ k \in enqueuing /\ enqueuing' = enqueuing \ {k} /\ UNCHANGED enqueues
                 /\ promised' = promised \/ (promised' = promised \cup {k} /\ Insert(k))
           \/ \E k \in Key :
                 /\ k \notin enqueuing /\ enqueues' = [enqueues EXCEPT ![k] = @ + 1]
                 /\ \/ k \in sent /\ enqueuing' = enqueuing /\ promised' = promised \cup {k}
                    \/ enqueuing' = enqueuing \cup {k} /\ promised' = promised
  <1>1. ASSUME NEW k \in Key, EnqueueCheck(k)
        PROVE  /\ k \notin enqueuing /\ enqueues' = [enqueues EXCEPT ![k] = @ + 1]
               /\ \/ k \in sent /\ enqueuing' = enqueuing /\ promised' = promised \cup {k}
                  \/ enqueuing' = enqueuing \cup {k} /\ promised' = promised
    BY <1>1 DEF EnqueueCheck
  <1>2. ASSUME NEW k \in Key, EnqueueInsert(k)
        PROVE  /\ k \in enqueuing /\ enqueuing' = enqueuing \ {k} /\ UNCHANGED enqueues
               /\ promised' = promised \/ (promised' = promised \cup {k} /\ Insert(k))
    BY <1>2 DEF EnqueueInsert
  <1>3. ASSUME NEW w \in Worker, WorkerStep(w) \/ Crash(w)
        PROVE  UNCHANGED <<enqueues, enqueuing, promised>>
    BY <1>3 DEF WorkerStep, Crash, StartDrain, Claim, ClaimTo, EndLoop, Abort, DrainThrows, CheckSent,
       CheckSubscription, ChannelFails, Verify, Send, Accept, MarkSent, Audit, Finish, Retry,
       SweepFind, SweepAudit, SweepDelete, EndDrain
  <1>4. ASSUME NEW k \in Key, \/ LeaseRunsOut(k) \/ BackoffEnds(k) \/ GrowOld(k)
                             \/ \E on \in BOOLEAN : SetSubscription(k, on)
        PROVE  UNCHANGED <<enqueues, enqueuing, promised>>
    BY <1>4 DEF LeaseRunsOut, BackoffEnds, GrowOld, SetSubscription
  <1> QED
    BY <1>1, <1>2, <1>3, <1>4 DEF Next, KeyStep, vars

LEMMA IdStaysIssued ==
    ASSUME TypeInv, [Next]_vars, NEW id \in Nat, NEW k \in Key, IdIssued(id, k)
    PROVE  id <= enqueues'[k] /\ (k \in enqueuing' => id < enqueues'[k])
  BY EnqueueSteps, OutboxAssumption DEF IdIssued, TypeInv, TypeOK

(* A worker acts on the job it acted on before, or on one it claims now. *)
LEMMA CopySteps ==
    ASSUME TypeInv, [Next]_vars, NEW w \in Worker, pc'[w] \in Busy
    PROVE  (pc[w] \in Busy /\ cur'[w] = cur[w]) \/ \E k \in Key : Claims(w, k)
  <1> USE DEF TypeInv, TypeOK, Busy
  <1>1. ASSUME NEW v \in Worker, Claim(v)
        PROVE  (pc[w] \in Busy /\ cur'[w] = cur[w]) \/ \E k \in Key : Claims(w, k)
    BY <1>1 DEF Claim, ClaimTo, NextJobs, Claims
  <1>2. ASSUME NEW v \in Worker, SweepAudit(v) PROVE pc[w] \in Busy /\ cur'[w] = cur[w]
    BY <1>2 DEF SweepAudit
  <1>3. ASSUME NEW v \in Worker,
               \/ StartDrain(v) \/ EndLoop(v) \/ Abort(v) \/ DrainThrows(v) \/ SweepFind(v)
               \/ SweepDelete(v) \/ EndDrain(v) \/ Crash(v)
        PROVE  pc[w] \in Busy /\ cur'[w] = cur[w]
    BY <1>3 DEF StartDrain, EndLoop, Abort, DrainThrows, SweepFind, SweepDelete, EndDrain, Crash
  <1>4. ASSUME NEW v \in Worker,
               \/ CheckSent(v) \/ CheckSubscription(v) \/ ChannelFails(v) \/ Verify(v) \/ Send(v)
               \/ MarkSent(v) \/ Audit(v)
        PROVE  pc[w] \in Busy /\ cur'[w] = cur[w]
    BY <1>4 DEF CheckSent, CheckSubscription, ChannelFails, Verify, Send, MarkSent, Audit, RetryOrDeadLetter
  <1>6. ASSUME NEW v \in Worker, Accept(v) \/ Finish(v) \/ Retry(v) PROVE pc[w] \in Busy /\ cur'[w] = cur[w]
    BY <1>6 DEF Accept, Finish, Retry, AfterFinish
  <1>5. ASSUME NEW k \in Key, KeyStep(k) PROVE pc[w] \in Busy /\ cur'[w] = cur[w]
    BY <1>5 DEF KeyStep, EnqueueCheck, EnqueueInsert, Insert, LeaseRunsOut, BackoffEnds, GrowOld, SetSubscription
  <1> QED
    BY <1>1, <1>2, <1>3, <1>4, <1>5, <1>6 DEF Next, WorkerStep, vars

(* What a worker's copy says of the document after a step, it said before. *)
LEMMA CopyOutlives ==
    ASSUME LeaseTokenInv, [Next]_vars, NEW w \in Worker, pc[w] \in Busy, cur'[w] = cur[w]
    PROVE  /\ Same(cur[w])' => Same(cur[w]) /\ job[cur[w].key].version <= job'[cur[w].key].version
           /\ HoldsLease(cur[w])' =>
                 HoldsLease(cur[w]) /\ job'[cur[w].key].attempts = job[cur[w].key].attempts
  <1> DEFINE k == cur[w].key
  <1>1. cur[w] \in Claimed /\ k \in Key
    BY DEF LeaseTokenInv, TypeInv, CurTyped, Claimed
  <1>2. JobStep(k)
    BY <1>1, JobSteps DEF LeaseTokenInv
  <1>3. job[k] = NoJob \/ job[k] \in Job
    BY <1>1 DEF LeaseTokenInv, TypeInv, TypeOK
  <1>4. IdIssued(cur[w].id, k) /\ (Same(cur[w]) => cur[w].version <= job[k].version)
    BY DEF LeaseTokenInv, IdsUnique, CopiesBehind
  <1>5. CASE job[k] = NoJob
    <2>a. \A id : NewJob(id).id = id
      BY DEF NewJob
    <2>1. job'[k] = NoJob \/ (k \in enqueuing /\ job'[k].id = enqueues[k])
      BY <1>2, <1>5, <2>a DEF JobStep, ByHolder, HoldsLease, Same, Claimable
    <2>2. cur[w].id \in Nat /\ enqueues[k] \in Nat
      BY <1>1 DEF LeaseTokenInv, TypeInv, TypeOK, Claimed
    <2> QED BY <1>1, <1>4, <2>1, <2>2 DEF Same, HoldsLease, IdIssued
  <1>6. CASE job[k] # NoJob /\ job[k] \in Job
    <2>1. CASE job'[k] = Leased(job[k])
      BY <1>1, <1>4, <1>6, <2>1 DEF Leased, Job, Claimed, Same, HoldsLease
    <2>2. CASE job'[k] = Accepted(job[k])
      BY <1>1, <1>4, <1>6, <2>2 DEF Accepted, Job, Claimed, Same, HoldsLease
    <2>3. CASE \E v \in Worker : job'[k] = Finished(job[k], goal[v])
      BY <1>1, <1>4, <1>6, <2>3 DEF Finished, Job, Claimed, Same, HoldsLease
    <2>4. CASE \E v \in Worker : job'[k] = Retried(job[k], cur[v].attempts + 1)
      BY <1>1, <1>4, <1>6, <2>4 DEF Retried, Job, Claimed, Same, HoldsLease
    <2>5. CASE job'[k] = NoJob \/ job'[k] = job[k]
      BY <1>1, <1>4, <1>6, <2>5 DEF Job, Same, HoldsLease
    <2>6. CASE \/ job'[k] = [job[k] EXCEPT !.lease = "expired"] /\ job[k].lease = "live"
               \/ job'[k] = [job[k] EXCEPT !.due = TRUE]
               \/ job'[k] = [job[k] EXCEPT !.old = TRUE]
      BY <1>1, <1>4, <1>6, <2>6 DEF Job, Same, HoldsLease
    <2> QED
      BY <1>2, <1>6, <2>1, <2>2, <2>3, <2>4, <2>5, <2>6 DEF JobStep
  <1> QED BY <1>3, <1>5, <1>6

LEMMA LeaseTokenStep ==
    ASSUME LeaseTokenInv, TypeInv', Lifecycle', [Next]_vars PROVE LeaseTokenInv'
  <1> USE DEF LeaseTokenInv
  <1>1. ASSUME NEW w \in Worker, pc'[w] \in Busy, NEW k \in Key, Claims(w, k)
        PROVE  /\ cur'[w].key = k /\ cur'[w].id = job[k].id
               /\ cur'[w].version = job[k].version + 1 /\ job'[k].version = job[k].version + 1
               /\ cur'[w].attempts = job'[k].attempts /\ job'[k].id = job[k].id
               /\ job[k] # NoJob /\ job[k] \in Job
    BY <1>1 DEF Claims, Claimable, Snapshot, Leased, Job, TypeInv, TypeOK
  <1>2. IdsUnique'
    <2>1. ASSUME NEW k \in Key, job'[k] # NoJob
          PROVE  job'[k].id <= enqueues'[k] /\ (k \in enqueuing' => job'[k].id < enqueues'[k])
      <3>1. JobStep(k)
        BY JobSteps
      <3>2. CASE job[k] = NoJob
        <4>1. job'[k].id = enqueues[k] /\ enqueuing' = enqueuing \ {k} /\ UNCHANGED enqueues
          BY <2>1, <3>1, <3>2 DEF JobStep, ByHolder, HoldsLease, Same, Claimable, NewJob
        <4>2. enqueues[k] \in Nat
          BY DEF TypeInv, TypeOK
        <4> QED BY <4>1, <4>2
      <3>3. CASE job[k] # NoJob
        <4>1. job[k] \in Job
          BY <3>3 DEF TypeInv, TypeOK
        <4>2. job[k].id \in Nat /\ IdIssued(job[k].id, k)
          BY <3>3, <4>1 DEF Job, IdsUnique
        <4>3. job'[k].id = job[k].id
          BY <2>1, <3>1, <3>3, <4>1, JobKeepsId
        <4> QED BY <4>2, <4>3, IdStaysIssued
      <3> QED BY <3>2, <3>3
    <2>2. ASSUME NEW w \in Worker, pc'[w] \in Busy
          PROVE  /\ cur'[w].id <= enqueues'[cur'[w].key]
                 /\ cur'[w].key \in enqueuing' => cur'[w].id < enqueues'[cur'[w].key]
      <3>1. CASE pc[w] \in Busy /\ cur'[w] = cur[w]
        <4>1. cur[w].id \in Nat /\ cur[w].key \in Key /\ IdIssued(cur[w].id, cur[w].key)
          BY <3>1 DEF TypeInv, CurTyped, Claimed, IdsUnique
        <4> QED BY <3>1, <4>1, IdStaysIssued
      <3>2. ASSUME NEW k \in Key, Claims(w, k)
            PROVE  /\ cur'[w].id <= enqueues'[cur'[w].key]
                   /\ cur'[w].key \in enqueuing' => cur'[w].id < enqueues'[cur'[w].key]
        <4>1. cur'[w].id = job[k].id /\ cur'[w].key = k /\ job[k].id \in Nat /\ job[k] # NoJob
          BY <2>2, <3>2, <1>1 DEF Job
        <4> QED BY <4>1, IdStaysIssued DEF IdsUnique
      <3> QED BY <2>2, <3>1, <3>2, CopySteps
    <2> QED BY <2>1, <2>2 DEF IdsUnique, IdIssued
  <1>3. CopiesBehind'
    <2> SUFFICES ASSUME NEW w \in Worker, pc'[w] \in Busy
                 PROVE  /\ Same(cur[w])' => cur'[w].version <= job'[cur'[w].key].version
                        /\ HoldsLease(cur[w])' => cur'[w].attempts = job'[cur'[w].key].attempts
      BY DEF CopiesBehind
    <2>1. CASE pc[w] \in Busy /\ cur'[w] = cur[w]
      <3>1. cur[w] \in Claimed /\ cur'[w] \in Claimed
        BY <2>1 DEF TypeInv, CurTyped
      <3>2. /\ Same(cur[w])' => job[cur[w].key] \in Job /\ job'[cur[w].key] \in Job
        BY <2>1, <3>1, CopyOutlives DEF Same, TypeInv, TypeOK, Claimed
      <3> QED
        BY <2>1, <3>1, <3>2, CopyOutlives DEF CopiesBehind, HoldsLease, Job, Claimed
    <2>2. ASSUME NEW k \in Key, Claims(w, k)
          PROVE  /\ cur'[w].version <= job'[cur'[w].key].version
                 /\ cur'[w].attempts = job'[cur'[w].key].attempts
      BY <2>2, <1>1 DEF Job
    <2> QED BY <2>1, <2>2, CopySteps
  <1>4. OneLeaseHolder'
    <2> SUFFICES ASSUME NEW v \in Worker, NEW w \in Worker, pc'[v] \in Busy, pc'[w] \in Busy,
                        cur'[v].key = cur'[w].key, HoldsLease(cur[v])', HoldsLease(cur[w])', v # w
                 PROVE  FALSE
      BY DEF OneLeaseHolder
    <2>1. ASSUME NEW x \in Worker, NEW y \in Worker, x # y, pc'[x] \in Busy, pc'[y] \in Busy,
                 cur'[x].key = cur'[y].key, HoldsLease(cur[x])', NEW k \in Key, Claims(y, k)
          PROVE  FALSE
      <3>1. pc[x] \in Busy /\ cur'[x] = cur[x]
        BY <2>1 DEF Claims
      <3>2. cur[x] \in Claimed /\ cur[x].key = k /\ job[k] \in Job /\ job'[k].version = job[k].version + 1
        BY <2>1, <3>1, <1>1 DEF TypeInv, CurTyped
      <3>3. HoldsLease(cur[x]) /\ cur[x].version <= job[k].version
        BY <2>1, <3>1, <3>2, CopyOutlives DEF CopiesBehind, HoldsLease
      <3> QED BY <2>1, <3>1, <3>2, <3>3 DEF HoldsLease, Job, Claimed
    <2>2. CASE pc[v] \in Busy /\ cur'[v] = cur[v] /\ pc[w] \in Busy /\ cur'[w] = cur[w]
      BY <2>2, CopyOutlives DEF OneLeaseHolder
    <2> QED BY <2>1, <2>2, CopySteps
  <1> QED BY <1>2, <1>3, <1>4

THEOREM LeaseTokenInvariant == Spec => []LeaseTokenInv
<1>1. Init => LeaseTokenInv
  BY OutboxAssumption DEF Init, LeaseTokenInv, TypeInv, TypeOK, CurTyped, Busy, Places, Terminal, Lifecycle, IdsUnique,
     CopiesBehind, OneLeaseHolder
<1>2. LeaseTokenInv /\ (TypeInv /\ Lifecycle)' /\ [Next]_vars => LeaseTokenInv'
  BY LeaseTokenStep
<1> QED
  BY <1>1, <1>2, LifecycleInvariant, PTL DEF Spec

(* Whatever leases run out and whoever stalls, at most one worker can      *)
(* still write to a job.                                                   *)
THEOREM OneHolder == Spec => []OneLeaseHolder
  BY LeaseTokenInvariant, PTL DEF LeaseTokenInv

(* The attempts and the lease version of a document never go back, and     *)
(* each lease has a version of its own.                                    *)
THEOREM LeasesOnlyAdvance == Spec => LeasesAdvance
<1>1. LeaseTokenInv /\ [Next]_vars => Monotone
  <2> SUFFICES ASSUME LeaseTokenInv, [Next]_vars, NEW k \in Key,
                      job[k] # NoJob, job'[k] # NoJob
               PROVE  /\ job'[k].attempts >= job[k].attempts
                      /\ job'[k].version >= job[k].version
                      /\ job'[k].lease = "live" /\ job[k].lease # "live" => job'[k].version > job[k].version
    BY DEF Monotone
  <2>1. JobStep(k) /\ job[k] \in Job
    BY JobSteps DEF LeaseTokenInv, TypeInv, TypeOK
  <2>2. ASSUME NEW w \in Worker, pc[w] = "retry", ByHolder(k, w) PROVE cur[w].attempts = job[k].attempts
    BY <2>2 DEF ByHolder, LeaseTokenInv, CopiesBehind, Busy
  <2>3. CASE Claimable(k) /\ job'[k] = Leased(job[k])
    BY <2>1, <2>3 DEF Leased, Job
  <2>4. CASE job'[k] = Accepted(job[k])
    BY <2>1, <2>4 DEF Accepted, Job
  <2>5. CASE \E w \in Worker : job'[k] = Finished(job[k], goal[w])
    BY <2>1, <2>5 DEF Finished, Job
  <2>6. CASE \E w \in Worker : pc[w] = "retry" /\ ByHolder(k, w) /\ job'[k] = Retried(job[k], cur[w].attempts + 1)
    BY <2>1, <2>2, <2>6 DEF Retried, Job
  <2>7. CASE \/ job'[k] = [job[k] EXCEPT !.lease = "expired"]
             \/ job'[k] = [job[k] EXCEPT !.due = TRUE] \/ job'[k] = [job[k] EXCEPT !.old = TRUE]
             \/ job'[k] = job[k]
    BY <2>1, <2>7 DEF Job
  <2> QED BY <2>1, <2>3, <2>4, <2>5, <2>6, <2>7 DEF JobStep
<1> QED
  BY <1>1, LeaseTokenInvariant, PTL DEF Spec, LeasesAdvance

-----------------------------------------------------------------------------
(* What was accepted is not posted again *)

ToBePosted(w) == pc[w] \in {"dedupe", "subscription", "verify", "send"}
PostsUnaccepted ==
    \A w \in Worker : ToBePosted(w) /\ HoldsLease(cur[w]) => ~job[cur[w].key].accepted

LEMMA PostingSteps ==
    ASSUME TypeInv, [Next]_vars, NEW w \in Worker, ToBePosted(w)'
    PROVE  \/ ToBePosted(w) /\ cur'[w] = cur[w]
           \/ \E k \in Key : Claims(w, k) /\ ~job[k].accepted
  <1> USE DEF TypeInv, TypeOK, ToBePosted
  <1>1. ASSUME NEW v \in Worker, v # w, WorkerStep(v) \/ Crash(v) PROVE pc'[w] = pc[w] /\ cur'[w] = cur[w]
    BY <1>1 DEF WorkerStep, Crash, StartDrain, Claim, ClaimTo, EndLoop, Abort, DrainThrows, CheckSent,
       CheckSubscription, ChannelFails, Verify, Send, Accept, MarkSent, Audit, Finish, Retry,
       SweepFind, SweepAudit, SweepDelete, EndDrain, RetryOrDeadLetter
  <1>2. ASSUME NEW k \in Key, KeyStep(k) PROVE pc'[w] = pc[w] /\ cur'[w] = cur[w]
    BY <1>2 DEF KeyStep, EnqueueCheck, EnqueueInsert, Insert, LeaseRunsOut, BackoffEnds, GrowOld, SetSubscription
  <1>3. CASE Claim(w)
    BY <1>3 DEF Claim, ClaimTo, NextJobs, Claims
  <1>4. CASE CheckSent(w) \/ CheckSubscription(w) \/ ChannelFails(w) \/ Verify(w) \/ Send(w)
    BY <1>4 DEF CheckSent, CheckSubscription, ChannelFails, Verify, Send, RetryOrDeadLetter, Plan
  <1>5. ASSUME WorkerStep(w) \/ Crash(w), ~Claim(w), ~CheckSent(w), ~CheckSubscription(w),
               ~ChannelFails(w), ~Verify(w), ~Send(w)
        PROVE  FALSE
    BY <1>5 DEF WorkerStep, Crash, StartDrain, EndLoop, Abort, DrainThrows, Accept, MarkSent, Audit,
       Finish, AfterFinish, Retry, SweepFind, SweepAudit, SweepDelete, EndDrain
  <1> QED BY <1>1, <1>2, <1>3, <1>4, <1>5 DEF Next, vars

LEMMA PostsUnacceptedStep ==
    ASSUME LeaseTokenInv, PostsUnaccepted, [Next]_vars PROVE PostsUnaccepted'
  <1> SUFFICES ASSUME NEW w \in Worker, ToBePosted(w)', HoldsLease(cur[w])', job'[cur'[w].key].accepted
               PROVE  FALSE
    BY DEF PostsUnaccepted
  <1>1. CASE ToBePosted(w) /\ cur'[w] = cur[w]
    <2> DEFINE k == cur[w].key
    <2>1. k \in Key /\ pc[w] \in Busy
      BY <1>1 DEF LeaseTokenInv, TypeInv, CurTyped, Claimed, ToBePosted, Busy
    <2>2. HoldsLease(cur[w])
      BY <1>1, <2>1, CopyOutlives
    <2>3. job[k] \in Job /\ job[k] # NoJob /\ ~job[k].accepted
      BY <1>1, <2>1, <2>2 DEF HoldsLease, Same, LeaseTokenInv, TypeInv, TypeOK, PostsUnaccepted
    <2>4. ASSUME NEW v \in Worker, pc[v] = "accept", ByHolder(k, v) PROVE FALSE
      BY <1>1, <2>1, <2>2, <2>4 DEF LeaseTokenInv, OneLeaseHolder, ByHolder, ToBePosted, Busy
    <2>5. JobStep(k)
      BY <2>1, JobSteps DEF LeaseTokenInv
    <2>6. CASE job'[k] = Leased(job[k])
      BY <1>1, <2>3, <2>6 DEF Leased, Job
    <2>7. CASE \E v \in Worker : job'[k] = Finished(job[k], goal[v])
      BY <1>1, <2>3, <2>7 DEF Finished, Job
    <2>8. CASE \E v \in Worker : job'[k] = Retried(job[k], cur[v].attempts + 1)
      BY <1>1, <2>3, <2>8 DEF Retried, Job
    <2>9. CASE \/ job'[k] = [job[k] EXCEPT !.lease = "expired"]
               \/ job'[k] = [job[k] EXCEPT !.due = TRUE] \/ job'[k] = [job[k] EXCEPT !.old = TRUE]
               \/ job'[k] = job[k]
      BY <1>1, <2>3, <2>9 DEF Job
    <2>10. job'[k] # NoJob
      BY <1>1 DEF HoldsLease, Same
    <2> QED BY <2>3, <2>4, <2>5, <2>6, <2>7, <2>8, <2>9, <2>10 DEF JobStep
  <1>2. ASSUME NEW k \in Key, Claims(w, k), ~job[k].accepted PROVE FALSE
    <2>1. job[k] \in Job /\ cur'[w].key = k /\ job'[k] = Leased(job[k])
      BY <1>2 DEF Claims, Claimable, Snapshot, LeaseTokenInv, TypeInv, TypeOK
    <2> QED BY <1>2, <2>1 DEF Leased, Job
  <1> QED BY <1>1, <1>2, PostingSteps DEF LeaseTokenInv

(* Once the acceptance of a delivery is recorded, no worker that can still *)
(* write to the job posts it, however leases run out and calls fail.       *)
THEOREM AcceptedIsNotReposted == Spec => AcceptedNotReposted
<1>1. Init => PostsUnaccepted
  BY DEF Init, PostsUnaccepted, ToBePosted
<1>2. LeaseTokenInv /\ PostsUnaccepted /\ [Next]_vars => PostsUnaccepted'
  BY PostsUnacceptedStep
<1>3. PostsUnaccepted => NoRepost
  BY DEF PostsUnaccepted, NoRepost, ToBePosted
<1> QED
  BY <1>1, <1>2, <1>3, LeaseTokenInvariant, PTL DEF Spec, AcceptedNotReposted

-----------------------------------------------------------------------------
(* Nothing counts as delivered that was not posted *)

LEMMA PostedSteps ==
    ASSUME TypeInv, [Next]_vars
    PROVE  \/ UNCHANGED posted
           \/ \E w \in Worker :
                 /\ pc[w] = "send" /\ posted' = [posted EXCEPT ![cur[w].key] = @ + 1]
                 /\ pc'[w] = "accept" \/ cur[w].key \in excused'
                 /\ UNCHANGED <<job, cur>>
  <1>1. ASSUME NEW w \in Worker, Send(w)
        PROVE  /\ pc[w] = "send" /\ posted' = [posted EXCEPT ![cur[w].key] = @ + 1]
               /\ pc'[w] = "accept" \/ cur[w].key \in excused'
               /\ UNCHANGED <<job, cur>>
    BY <1>1 DEF Send, TypeInv, TypeOK
  <1>2. ASSUME NEW w \in Worker, WorkerStep(w) \/ Crash(w), ~Send(w) PROVE UNCHANGED posted
    BY <1>2 DEF WorkerStep, Crash, StartDrain, Claim, ClaimTo, EndLoop, Abort, DrainThrows, CheckSent,
       CheckSubscription, ChannelFails, Verify, Accept, MarkSent, Audit, Finish, Retry,
       SweepFind, SweepAudit, SweepDelete, EndDrain
  <1>3. ASSUME NEW k \in Key, KeyStep(k) PROVE UNCHANGED posted
    BY <1>3 DEF KeyStep, EnqueueCheck, EnqueueInsert, Insert, LeaseRunsOut, BackoffEnds, GrowOld, SetSubscription
  <1> QED BY <1>1, <1>2, <1>3 DEF Next, WorkerStep, vars

LEMMA PostedGrows ==
    ASSUME TypeInv, [Next]_vars, NEW k \in Key
    PROVE  posted'[k] \in Nat /\ posted'[k] >= posted[k]
  BY PostedSteps DEF TypeInv, TypeOK

LEMMA SentSteps ==
    ASSUME TypeInv, [Next]_vars
    PROVE  sent' = sent \/ \E w \in Worker : pc[w] = "mark" /\ sent' = sent \cup {cur[w].key}
  <1>1. ASSUME NEW w \in Worker, MarkSent(w)
        PROVE  sent' = sent \/ (pc[w] = "mark" /\ sent' = sent \cup {cur[w].key})
    BY <1>1 DEF MarkSent
  <1>2. ASSUME NEW w \in Worker, WorkerStep(w) \/ Crash(w), ~MarkSent(w) PROVE sent' = sent
    BY <1>2 DEF WorkerStep, Crash, StartDrain, Claim, ClaimTo, EndLoop, Abort, DrainThrows, CheckSent,
       CheckSubscription, ChannelFails, Verify, Send, Accept, Audit, Finish, Retry,
       SweepFind, SweepAudit, SweepDelete, EndDrain
  <1>3. ASSUME NEW k \in Key, KeyStep(k) PROVE sent' = sent
    BY <1>3 DEF KeyStep, EnqueueCheck, EnqueueInsert, Insert, LeaseRunsOut, BackoffEnds, GrowOld, SetSubscription
  <1> QED BY <1>1, <1>2, <1>3 DEF Next, WorkerStep, vars

(* How a worker comes to the end of a delivery: what it is finishing, and  *)
(* the job, key by key.                                                    *)
LEMMA DeliverySteps ==
    ASSUME TypeInv, [Next]_vars, NEW w \in Worker, pc'[w] \in {"accept", "mark", "audit", "finish"}
    PROVE  \/ pc[w] = pc'[w] /\ goal'[w] = goal[w] /\ cur'[w] = cur[w]
           \/ \E k \in Key : Claims(w, k) /\ pc'[w] = "mark" /\ goal'[w] = "delivered" /\ job[k].accepted
           \/ /\ cur'[w] = cur[w] /\ pc[w] = "dedupe" /\ pc'[w] = "finish"
              /\ goal'[w] = "dropped" /\ cur[w].key \in sent
           \/ /\ cur'[w] = cur[w] /\ pc[w] = "subscription" /\ pc'[w] = "finish"
              /\ goal'[w] = "dropped" /\ ~subscribed[cur[w].key]
           \/ /\ cur'[w] = cur[w] /\ pc[w] \in {"dedupe", "subscription", "verify", "send"}
              /\ pc'[w] = "audit" /\ goal'[w] = "dead-lettered"
           \/ cur'[w] = cur[w] /\ pc[w] = "verify" /\ pc'[w] = "accept" /\ posted[cur[w].key] > 0
           \/ /\ cur'[w] = cur[w] /\ pc[w] = "send" /\ pc'[w] = "accept"
              /\ posted' = [posted EXCEPT ![cur[w].key] = @ + 1]
           \/ cur'[w] = cur[w] /\ pc[w] = "accept" /\ pc'[w] = "mark" /\ goal'[w] = "delivered"
           \/ cur'[w] = cur[w] /\ pc[w] = "mark" /\ pc'[w] = "finish" /\ goal'[w] = goal[w]
           \/ /\ cur'[w] = cur[w] /\ pc[w] = "audit" /\ pc'[w] = "finish" /\ goal'[w] = goal[w]
              /\ ~AuditCanFail => cur[w].key \in replay'
  <1> DEFINE Same3 == pc[w] = pc'[w] /\ goal'[w] = goal[w] /\ cur'[w] = cur[w]
  <1> USE DEF TypeInv, TypeOK
  <1>1. ASSUME NEW v \in Worker, v # w, WorkerStep(v) \/ Crash(v) PROVE Same3
    <2>1. CASE \/ StartDrain(v) \/ Claim(v) \/ EndLoop(v) \/ Abort(v) \/ DrainThrows(v) \/ CheckSent(v)
               \/ CheckSubscription(v) \/ ChannelFails(v) \/ Verify(v) \/ Send(v)
      BY <1>1, <2>1 DEF StartDrain, Claim, ClaimTo, EndLoop, Abort, DrainThrows, CheckSent,
         CheckSubscription, ChannelFails, Verify, Send, RetryOrDeadLetter
    <2>2. CASE \/ Accept(v) \/ MarkSent(v) \/ Audit(v) \/ Finish(v) \/ Retry(v) \/ SweepFind(v)
               \/ SweepAudit(v) \/ SweepDelete(v) \/ EndDrain(v) \/ Crash(v)
      BY <1>1, <2>2 DEF Accept, MarkSent, Audit, Finish, Retry, SweepFind, SweepAudit, SweepDelete, EndDrain, Crash
    <2> QED BY <1>1, <2>1, <2>2 DEF WorkerStep
  <1>2. ASSUME NEW k \in Key, KeyStep(k) PROVE Same3
    BY <1>2 DEF KeyStep, EnqueueCheck, EnqueueInsert, Insert, LeaseRunsOut, BackoffEnds, GrowOld, SetSubscription
  <1>3. CASE Claim(w)
    BY <1>3 DEF Claim, ClaimTo, NextJobs, Claims
  <1>4. CASE CheckSent(w)
    BY <1>4 DEF CheckSent
  <1>5. CASE CheckSubscription(w)
    BY <1>5 DEF CheckSubscription, RetryOrDeadLetter, Plan
  <1>6. CASE ChannelFails(w)
    BY <1>6 DEF ChannelFails, RetryOrDeadLetter, Plan
  <1>7. CASE Verify(w)
    BY <1>7 DEF Verify, RetryOrDeadLetter, Plan
  <1>8. CASE Send(w)
    BY <1>8 DEF Send, RetryOrDeadLetter, Plan
  <1>9. CASE Accept(w)
    BY <1>9 DEF Accept
  <1>10. CASE MarkSent(w)
    BY <1>10 DEF MarkSent
  <1>11. CASE Audit(w)
    BY <1>11 DEF Audit, RecordDeadLetter
  <1>12. CASE \/ StartDrain(w) \/ EndLoop(w) \/ Abort(w) \/ DrainThrows(w) \/ Finish(w) \/ Retry(w)
              \/ SweepFind(w) \/ SweepAudit(w) \/ SweepDelete(w) \/ EndDrain(w) \/ Crash(w)
    BY <1>12 DEF StartDrain, EndLoop, Abort, DrainThrows, Finish, AfterFinish, Retry, SweepFind,
       SweepAudit, SweepDelete, EndDrain, Crash
  <1> QED
    BY <1>1, <1>2, <1>3, <1>4, <1>5, <1>6, <1>7, <1>8, <1>9, <1>10, <1>11, <1>12
       DEF Next, WorkerStep, vars

LEMMA EvidenceStep ==
    ASSUME EvidenceInv, TypeInv', [Next]_vars PROVE EvidenceInv'
  <1> USE DEF EvidenceInv
  <1>1. ASSUME NEW w \in Worker, pc[w] \in Busy PROVE cur[w].key \in Key
    BY <1>1 DEF TypeInv, CurTyped, Claimed
  <1>2. \A k \in Key : posted[k] \in Nat /\ posted'[k] \in Nat
    BY DEF TypeInv, TypeOK
  <1>3. ASSUME NEW w \in Worker, NEW k \in Key, Claims(w, k)
        PROVE  cur'[w].key = k /\ job[k] # NoJob
    BY <1>3 DEF Claims, Claimable, Snapshot
  <1>4. ASSUME NEW k \in Key, k \in sent' PROVE posted'[k] > 0
    <2>1. k \in sent \/ \E w \in Worker : pc[w] = "mark" /\ cur[w].key = k
      BY <1>4, SentSteps
    <2>2. posted[k] > 0
      BY <2>1 DEF DeliveredWasPosted, WorkerPosted
    <2> QED BY <1>2, <2>2, PostedGrows
  <1>5. ASSUME NEW k \in Key, job'[k] # NoJob, job'[k].accepted \/ job'[k].status = "delivered"
        PROVE  posted'[k] > 0
    <2>1. JobStep(k)
      BY JobSteps
    <2>2. job[k] = NoJob \/ job[k] \in Job
      BY DEF TypeInv, TypeOK
    <2>3. CASE job[k] # NoJob /\ (job[k].accepted \/ job[k].status = "delivered")
      <3>1. posted[k] > 0
        BY <2>3 DEF DeliveredWasPosted
      <3> QED BY <1>2, <3>1, PostedGrows
    <2>4. CASE \E w \in Worker : pc[w] = "accept" /\ ByHolder(k, w)
      <3>1. posted[k] > 0
        BY <2>4 DEF ByHolder, WorkerPosted
      <3> QED BY <1>2, <3>1, PostedGrows
    <2>5. CASE \E w \in Worker : pc[w] = "finish" /\ ByHolder(k, w) /\ goal[w] = "delivered"
      <3>1. posted[k] > 0
        BY <2>5 DEF ByHolder, WorkerPosted
      <3> QED BY <1>2, <3>1, PostedGrows
    <2>6. CASE job[k] = NoJob
      BY <1>5, <2>1, <2>6 DEF JobStep, ByHolder, HoldsLease, Same, Claimable, NewJob
    <2>7. CASE Claimable(k) /\ job'[k] = Leased(job[k])
      BY <1>5, <2>2, <2>3, <2>6, <2>7 DEF Leased, Job
    <2>8. CASE \E w \in Worker : pc[w] = "finish" /\ ByHolder(k, w) /\ job'[k] = Finished(job[k], goal[w])
      BY <1>5, <2>2, <2>3, <2>5, <2>6, <2>8 DEF Finished, Job
    <2>9. CASE \E w \in Worker : job'[k] = Retried(job[k], cur[w].attempts + 1)
      BY <1>5, <2>2, <2>3, <2>6, <2>9 DEF Retried, Job
    <2>10. CASE \/ job'[k] = [job[k] EXCEPT !.lease = "expired"]
                \/ job'[k] = [job[k] EXCEPT !.due = TRUE] \/ job'[k] = [job[k] EXCEPT !.old = TRUE]
                \/ job'[k] = job[k]
      BY <1>5, <2>2, <2>3, <2>6, <2>10 DEF Job
    <2> QED BY <1>5, <2>1, <2>4, <2>6, <2>7, <2>8, <2>9, <2>10 DEF JobStep
  <1>6. DeliveredWasPosted'
    BY <1>4, <1>5 DEF DeliveredWasPosted
  <1>7. ASSUME NEW w \in Worker,
               pc'[w] \in {"accept", "mark"} \/ (pc'[w] = "finish" /\ goal'[w] = "delivered")
        PROVE  posted'[cur'[w].key] > 0
    <2>1. CASE /\ cur'[w] = cur[w] /\ pc[w] \in Busy
               /\ posted[cur[w].key] > 0
      BY <1>1, <1>2, <2>1, PostedGrows
    <2>2. ASSUME NEW k \in Key, Claims(w, k), job[k].accepted PROVE posted'[cur'[w].key] > 0
      <3>1. posted[k] > 0
        BY <1>3, <2>2 DEF DeliveredWasPosted
      <3> QED BY <1>2, <1>3, <2>2, <3>1, PostedGrows
    <2>3. CASE cur'[w] = cur[w] /\ pc[w] = "send" /\ posted' = [posted EXCEPT ![cur[w].key] = @ + 1]
      BY <1>1, <1>2, <2>3 DEF Busy, TypeInv, TypeOK
    <2> QED BY <1>7, <2>1, <2>2, <2>3, DeliverySteps DEF WorkerPosted, GoalsSet, Busy
  <1>8. GoalsSet'
    BY DeliverySteps DEF GoalsSet
  <1> QED BY <1>6, <1>7, <1>8 DEF WorkerPosted

THEOREM EvidenceInvariant == Spec => []EvidenceInv
<1>1. Init => EvidenceInv
  BY OutboxAssumption DEF Init, EvidenceInv, TypeInv, TypeOK, CurTyped, Busy, Places, Terminal,
     DeliveredWasPosted, WorkerPosted, GoalsSet
<1>2. EvidenceInv /\ TypeInv' /\ [Next]_vars => EvidenceInv'
  BY EvidenceStep
<1> QED
  BY <1>1, <1>2, TypeInvariant, PTL DEF Spec

(* A key that is marked as sent, a job whose delivery was accepted and a   *)
(* delivered job all have their message in the channel.                    *)
THEOREM DeliveredImpliesPosted == Spec => []DeliveredWasPosted
  BY EvidenceInvariant, PTL DEF EvidenceInv

-----------------------------------------------------------------------------
(* No notification vanishes *)

LEMMA SubscriptionSteps ==
    ASSUME TypeInv, [Next]_vars
    PROVE  /\ left \subseteq left'
           /\ \A k \in Key : ~subscribed'[k] => ~subscribed[k] \/ k \in left'
  <1>1. ASSUME NEW w \in Worker, WorkerStep(w) \/ Crash(w) PROVE UNCHANGED <<subscribed, left>>
    BY <1>1 DEF WorkerStep, Crash, StartDrain, Claim, ClaimTo, EndLoop, Abort, DrainThrows, CheckSent,
       CheckSubscription, ChannelFails, Verify, Send, Accept, MarkSent, Audit, Finish,
       Retry, SweepFind, SweepAudit, SweepDelete, EndDrain
  <1>2. ASSUME NEW j \in Key, NEW on \in BOOLEAN, SetSubscription(j, on)
        PROVE  /\ left \subseteq left'
               /\ \A k \in Key : ~subscribed'[k] => ~subscribed[k] \/ k \in left'
    BY <1>2 DEF SetSubscription, TypeInv, TypeOK
  <1>3. ASSUME NEW j \in Key, \/ EnqueueCheck(j) \/ EnqueueInsert(j) \/ LeaseRunsOut(j)
                             \/ BackoffEnds(j) \/ GrowOld(j)
        PROVE  UNCHANGED <<subscribed, left>>
    BY <1>3 DEF EnqueueCheck, EnqueueInsert, LeaseRunsOut, BackoffEnds, GrowOld
  <1> QED BY <1>1, <1>2, <1>3 DEF Next, KeyStep, vars

LEMMA AccountedStays ==
    ASSUME TypeInv, [Next]_vars, NEW k \in Key, Accounted(k)
    PROVE  posted'[k] > 0 \/ k \in replay' \/ k \in left'
  <1>1. replay \subseteq replay'
    <2>1. ASSUME NEW w \in Worker, WorkerStep(w) \/ Crash(w) PROVE replay \subseteq replay'
      BY <2>1 DEF WorkerStep, Crash, StartDrain, Claim, ClaimTo, EndLoop, Abort, DrainThrows, CheckSent,
         CheckSubscription, ChannelFails, Verify, Send, Accept, MarkSent, Audit, RecordDeadLetter, Finish,
         Retry, SweepFind, SweepAudit, SweepDelete, EndDrain
    <2>2. ASSUME NEW j \in Key, KeyStep(j) PROVE replay' = replay
      BY <2>2 DEF KeyStep, EnqueueCheck, EnqueueInsert, Insert, LeaseRunsOut, BackoffEnds, GrowOld, SetSubscription
    <2> QED BY <2>1, <2>2 DEF Next, vars
  <1>2. left \subseteq left'
    BY SubscriptionSteps
  <1>3. posted[k] > 0 => posted'[k] > 0
    BY PostedGrows DEF TypeInv, TypeOK
  <1> QED BY <1>1, <1>2, <1>3 DEF Accounted

LEMMA SweepAuditSteps ==
    ASSUME TypeInv, [Next]_vars, ~AuditCanFail, NEW w \in Worker, pc'[w] = "sweepDelete"
    PROVE  \/ pc[w] = "sweepDelete" /\ cur'[w] = cur[w]
           \/ cur'[w].key \in replay'
  <1> USE DEF TypeInv, TypeOK
  <1>1. ASSUME NEW v \in Worker, SweepAudit(v)
        PROVE  (pc[w] = "sweepDelete" /\ cur'[w] = cur[w]) \/ cur'[w].key \in replay'
    BY <1>1 DEF SweepAudit, RecordDeadLetter
  <1>2. ASSUME NEW v \in Worker, WorkerStep(v) \/ Crash(v), ~SweepAudit(v)
        PROVE  pc[w] = "sweepDelete" /\ cur'[w] = cur[w]
    BY <1>2 DEF WorkerStep, Crash, StartDrain, Claim, ClaimTo, EndLoop, Abort, DrainThrows, CheckSent,
       CheckSubscription, ChannelFails, Verify, Send, Accept, MarkSent, Audit, Finish, AfterFinish, Retry,
       RetryOrDeadLetter, Plan, SweepFind, SweepDelete, EndDrain
  <1>3. ASSUME NEW k \in Key, KeyStep(k) PROVE pc[w] = "sweepDelete" /\ cur'[w] = cur[w]
    BY <1>3 DEF KeyStep, EnqueueCheck, EnqueueInsert, Insert, LeaseRunsOut, BackoffEnds, GrowOld, SetSubscription
  <1> QED BY <1>1, <1>2, <1>3 DEF Next, WorkerStep, vars

(* An active job stays active, or a worker finishes or sweeps it. *)
LEMMA ActiveEnds ==
    ASSUME TypeInv, [Next]_vars, NEW k \in Key, IsActive(k)
    PROVE  \/ job'[k] # NoJob /\ job'[k].status \in Active
           \/ \E w \in Worker : pc[w] \in {"finish", "sweepDelete"} /\ cur[w].key = k
  <1>1. JobStep(k) /\ job[k] \in Job
    BY JobSteps DEF IsActive, TypeInv, TypeOK
  <1>2. ASSUME NEW j \in Job PROVE j # NoJob
    BY <1>2, NoJobAssumption
  <1>3. CASE job'[k] = Leased(job[k])
    <2>1. job'[k] \in Job
      BY <1>1, <1>3, JobWrites
    <2>2. job'[k].status = "leased"
      BY <1>1, <1>3 DEF Leased, Job
    <2> QED BY <1>2, <2>1, <2>2 DEF Active
  <1>4. CASE job'[k] = Accepted(job[k])
    <2>1. job'[k] \in Job
      BY <1>1, <1>4, JobWrites
    <2>2. job'[k].status = "delivered-pending"
      BY <1>1, <1>4 DEF Accepted, Job
    <2> QED BY <1>2, <2>1, <2>2 DEF Active
  <1>5. ASSUME NEW w \in Worker, ByHolder(k, w), job'[k] = Retried(job[k], cur[w].attempts + 1), pc[w] = "retry"
        PROVE  job'[k] # NoJob /\ job'[k].status \in Active
    <2>1. cur[w].attempts + 1 \in Nat
      BY <1>5 DEF TypeInv, CurTyped, Claimed, Busy
    <2>2. job'[k] \in Job
      BY <1>1, <1>5, <2>1, JobWrites
    <2>3. job'[k].status = "queued"
      BY <1>1, <1>5 DEF Retried, Job
    <2> QED BY <1>2, <2>2, <2>3 DEF Active
  <1>6. CASE \/ job'[k] = [job[k] EXCEPT !.lease = "expired"]
             \/ job'[k] = [job[k] EXCEPT !.due = TRUE] \/ job'[k] = [job[k] EXCEPT !.old = TRUE]
             \/ job'[k] = job[k]
    <2>1. job'[k] \in Job /\ job'[k].status = job[k].status
      BY <1>1, <1>6 DEF Job
    <2> QED BY <1>2, <2>1 DEF IsActive
  <1> QED BY <1>1, <1>3, <1>4, <1>5, <1>6 DEF JobStep, ByHolder, IsActive

LEMMA AccountStep ==
    ASSUME AccountInv, EvidenceInv', [Next]_vars, ~AuditCanFail PROVE AccountInv'
  <1> USE DEF AccountInv, EvidenceInv
  <1>1. \A k \in Key : posted[k] \in Nat /\ enqueues[k] \in Nat
    BY OutboxAssumption DEF TypeInv, TypeOK
  <1>2. ASSUME NEW w \in Worker, pc[w] \in {"finish", "sweepDelete"}
        PROVE  cur[w].key \in Key /\ Accounted(cur[w].key)
    BY <1>2 DEF TypeInv, CurTyped, Claimed, Busy, FinishedAccounted
  <1>0. promised' \subseteq Key
    BY DEF TypeInv, TypeOK
  <1>3. NothingLost'
    <2> SUFFICES ASSUME NEW k \in Key, k \in promised'
                 PROVE  \/ job'[k] # NoJob /\ job'[k].status \in Active
                        \/ posted'[k] > 0 \/ k \in replay' \/ k \in left'
      BY <1>0 DEF NothingLost, IsActive, Accounted
    <2>1. CASE Accounted(k)
      BY <2>1, AccountedStays
    <2>2. CASE IsActive(k)
      BY <1>2, <2>1, <2>2, ActiveEnds
    <2>3. CASE k \in promised
      BY <2>1, <2>2, <2>3 DEF NothingLost, Accounted
    <2>4. CASE k \in sent
      BY <2>1, <2>4 DEF DeliveredWasPosted, Accounted
    <2>5. CASE Insert(k)
      <3>1. CASE job[k] # NoJob
        <4>1. job[k].status \in Active \cup Terminal
          BY <3>1 DEF TypeInv, TypeOK, Job
        <4> QED BY <2>1, <2>2, <3>1, <4>1 DEF FinishedAccounted, IsActive
      <3>2. CASE job[k] = NoJob
        <4>1. job'[k] = NewJob(enqueues[k])
          BY <2>5, <3>2 DEF Insert, TypeInv, TypeOK
        <4>2. NewJob(enqueues[k]) \in Job
          BY <1>1 DEF NewJob, Job, Active
        <4>3. NewJob(enqueues[k]) # NoJob
          BY <4>2, NoJobAssumption
        <4>4. NewJob(enqueues[k]).status = "queued"
          BY DEF NewJob
        <4> QED BY <4>1, <4>3, <4>4 DEF Active
      <3> QED BY <3>1, <3>2
    <2> QED
      BY <2>3, <2>4, <2>5, EnqueueSteps
  <1>4. ASSUME NEW k \in Key, job'[k] # NoJob, job'[k].status \in Terminal
        PROVE  posted'[k] > 0 \/ k \in replay' \/ k \in left'
    <2>1. CASE Accounted(k)
      BY <2>1, AccountedStays
    <2>2. CASE IsActive(k)
      BY <1>2, <1>4, <2>1, <2>2, ActiveEnds DEF Active, Terminal
    <2>3. CASE job[k] # NoJob /\ ~IsActive(k)
      <3>1. job[k].status \in Terminal
        BY <2>3 DEF TypeInv, TypeOK, Job, IsActive
      <3> QED BY <2>1, <2>3, <3>1 DEF FinishedAccounted
    <2>4. CASE job[k] = NoJob
      <3>1. job'[k] = NewJob(enqueues[k])
        BY <1>4, <2>4, JobSteps DEF JobStep, ByHolder, HoldsLease, Same, Claimable
      <3> QED BY <1>4, <3>1 DEF NewJob, Terminal
    <2> QED BY <2>2, <2>3, <2>4
  <1>5. ASSUME NEW w \in Worker, pc'[w] \in {"finish", "sweepDelete"}
        PROVE  posted'[cur'[w].key] > 0 \/ cur'[w].key \in replay' \/ cur'[w].key \in left'
    <2>1. CASE pc[w] \in {"finish", "sweepDelete"} /\ cur'[w] = cur[w]
      BY <1>2, <2>1, AccountedStays
    <2>2. CASE cur'[w].key \in replay'
      BY <2>2
    <2>3. CASE /\ cur'[w] = cur[w] /\ pc[w] \in Busy
               /\ posted[cur[w].key] > 0 \/ cur[w].key \in sent \/ ~subscribed[cur[w].key]
      <3>1. cur[w].key \in Key
        BY <2>3 DEF TypeInv, CurTyped, Claimed
      <3>2. Accounted(cur[w].key)
        BY <2>3, <3>1 DEF Accounted, DeliveredWasPosted, FinishedAccounted
      <3> QED BY <2>3, <3>1, <3>2, AccountedStays
    <2>4. CASE pc'[w] = "finish"
      BY <2>1, <2>2, <2>3, <2>4, DeliverySteps DEF WorkerPosted, Busy
    <2>5. CASE pc'[w] = "sweepDelete"
      BY <2>1, <2>2, <2>5, SweepAuditSteps
    <2> QED BY <1>5, <2>4, <2>5
  <1>6. \A k \in Key : ~subscribed'[k] => k \in left'
    BY SubscriptionSteps DEF FinishedAccounted
  <1> QED BY <1>3, <1>4, <1>5, <1>6 DEF FinishedAccounted, Accounted

LEMMA AccountInvariant == ASSUME ~AuditCanFail PROVE Spec => []AccountInv
<1>1. Init => AccountInv
  BY OutboxAssumption DEF Init, AccountInv, EvidenceInv, TypeInv, TypeOK, CurTyped, Busy, Places, Terminal,
     DeliveredWasPosted, WorkerPosted, GoalsSet, NothingLost, FinishedAccounted
<1>2. AccountInv /\ EvidenceInv' /\ [Next]_vars => AccountInv'
  BY AccountStep
<1> QED
  BY <1>1, <1>2, EvidenceInvariant, PTL DEF Spec

(* When the dead-letter collections take every write, no enqueued          *)
(* notification vanishes without a message, a payload to replay or a       *)
(* reader who left: through no race of workers, failed call or crash.      *)
THEOREM NoNotificationLost == ASSUME ~AuditCanFail PROVE Spec => []NothingLost
  BY AccountInvariant, PTL DEF AccountInv

-----------------------------------------------------------------------------
(* A message is posted once *)

LEMMA ExcusedGrows ==
    ASSUME TypeInv, [Next]_vars PROVE excused \subseteq excused'
  <1>1. ASSUME NEW w \in Worker, WorkerStep(w) \/ Crash(w) PROVE excused \subseteq excused'
    BY <1>1 DEF WorkerStep, Crash, StartDrain, Claim, ClaimTo, EndLoop, Abort, DrainThrows, CheckSent,
       CheckSubscription, ChannelFails, Verify, Send, Accept, MarkSent, Audit, Finish, Retry,
       SweepFind, SweepAudit, SweepDelete, EndDrain
  <1>2. ASSUME NEW k \in Key, KeyStep(k) PROVE excused \subseteq excused'
    BY <1>2 DEF KeyStep, EnqueueCheck, EnqueueInsert, Insert, LeaseRunsOut, BackoffEnds, GrowOld, SetSubscription
  <1> QED BY <1>1, <1>2 DEF Next, vars

(* From the acceptance of a delivery a worker goes to its end only. *)
LEMMA EndingSteps ==
    ASSUME TypeInv, GoalsSet, [Next]_vars, NEW w \in Worker, pc'[w] \in Busy,
           pc[w] \in {"accept", "mark"} \/ (pc[w] = "finish" /\ goal[w] = "delivered")
    PROVE  pc'[w] \in {"accept", "mark"} \/ (pc'[w] = "finish" /\ goal'[w] = "delivered")
  <1> USE DEF TypeInv, TypeOK, Busy
  <1>1. ASSUME NEW v \in Worker, v # w, WorkerStep(v) \/ Crash(v) PROVE pc'[w] = pc[w] /\ goal'[w] = goal[w]
    BY <1>1 DEF WorkerStep, Crash, StartDrain, Claim, ClaimTo, EndLoop, Abort, DrainThrows, CheckSent,
       CheckSubscription, ChannelFails, Verify, Send, Accept, MarkSent, Audit, Finish, Retry,
       SweepFind, SweepAudit, SweepDelete, EndDrain, RetryOrDeadLetter
  <1>2. ASSUME NEW k \in Key, KeyStep(k) PROVE pc'[w] = pc[w] /\ goal'[w] = goal[w]
    BY <1>2 DEF KeyStep, EnqueueCheck, EnqueueInsert, Insert, LeaseRunsOut, BackoffEnds, GrowOld, SetSubscription
  <1>3. CASE Accept(w)
    BY <1>3 DEF Accept
  <1>4. CASE MarkSent(w)
    <2>1. pc[w] = "mark" /\ pc'[w] = "finish" /\ goal' = goal
      BY <1>4 DEF MarkSent
    <2>2. goal[w] = "delivered"
      BY <2>1 DEF GoalsSet
    <2> QED BY <2>1, <2>2
  <1>5. CASE Finish(w) \/ Crash(w)
    BY <1>5 DEF Finish, AfterFinish, Crash
  <1>6. ASSUME WorkerStep(w), ~Accept(w), ~MarkSent(w), ~Finish(w) PROVE FALSE
    BY <1>6 DEF WorkerStep, StartDrain, Claim, EndLoop, Abort, DrainThrows, CheckSent,
       CheckSubscription, ChannelFails, Verify, Send, Audit, Retry, SweepFind, SweepAudit, SweepDelete, EndDrain
  <1> QED BY <1>1, <1>2, <1>3, <1>4, <1>5, <1>6 DEF Next, vars

(* A live lease lives on, or runs out, or ends by the write of its holder. *)
LEMMA LiveSteps ==
    ASSUME LeaseTokenInv, [Next]_vars, NEW k \in Key, job[k] # NoJob, job[k].lease = "live"
    PROVE  \/ /\ job'[k] # NoJob /\ job'[k].lease = "live"
              /\ job'[k].id = job[k].id /\ job'[k].version = job[k].version
           \/ k \in excused' /\ LeaseRunsOut(k)
           \/ \E w \in Worker : pc[w] = "finish" /\ ByHolder(k, w) /\ pc'[w] \notin Busy
                              /\ job'[k] # NoJob /\ job'[k].status = goal[w]
           \/ \E w \in Worker : pc[w] = "retry" /\ ByHolder(k, w) /\ pc'[w] \notin Busy
  <1>1. JobStep(k) /\ job[k] \in Job
    BY JobSteps DEF LeaseTokenInv, TypeInv, TypeOK
  <1>2. ASSUME NEW j \in Job PROVE j # NoJob
    BY <1>2, NoJobAssumption
  <1>3. CASE job'[k] = Accepted(job[k])
    <2>1. job'[k] \in Job
      BY <1>1, <1>3, JobWrites
    <2>2. job'[k].lease = "live" /\ job'[k].id = job[k].id /\ job'[k].version = job[k].version
      BY <1>1, <1>3 DEF Accepted, Job
    <2> QED BY <1>2, <2>1, <2>2
  <1>4. ASSUME NEW w \in Worker, pc[w] = "finish", job'[k] = Finished(job[k], goal[w])
        PROVE  job'[k] # NoJob /\ job'[k].status = goal[w]
    <2>1. goal[w] \in Terminal
      BY DEF LeaseTokenInv, TypeInv, TypeOK
    <2>2. job'[k] \in Job
      BY <1>1, <1>4, <2>1, JobWrites
    <2>3. job'[k].status = goal[w]
      BY <1>1, <1>4 DEF Finished, Job
    <2> QED BY <1>2, <2>2, <2>3
  <1>5. CASE \/ job'[k] = [job[k] EXCEPT !.due = TRUE] \/ job'[k] = [job[k] EXCEPT !.old = TRUE]
             \/ job'[k] = job[k]
    <2>1. /\ job'[k] \in Job /\ job'[k].lease = "live"
          /\ job'[k].id = job[k].id /\ job'[k].version = job[k].version
      BY <1>1, <1>5 DEF Job
    <2> QED BY <1>2, <2>1
  <1> QED BY <1>1, <1>3, <1>4, <1>5 DEF JobStep, Claimable, LeaseFree

(* A worker that claims holds the live lease. *)
LEMMA ClaimedIsHeld ==
    ASSUME TypeInv, NEW w \in Worker, NEW k \in Key, Claims(w, k)
    PROVE  HoldsLease(cur[w])' /\ job'[cur'[w].key].lease = "live"
  <1>1. job[k] \in Job /\ job'[k] = Leased(job[k]) /\ cur'[w] = Snapshot(k)'
    BY DEF Claims, Claimable, TypeInv, TypeOK
  <1>2. job'[k] # NoJob /\ job'[k].lease = "live"
    <2>1. job'[k] \in Job
      BY <1>1, JobWrites
    <2>2. job'[k].lease = "live"
      BY <1>1 DEF Leased, Job
    <2> QED BY <2>1, <2>2, NoJobAssumption
  <1>3. cur'[w].key = k /\ cur'[w].id = job'[k].id /\ cur'[w].version = job'[k].version
    BY <1>1 DEF Snapshot
  <1> QED BY <1>2, <1>3 DEF HoldsLease, Same

LEMMA HoldersLiveStep ==
    ASSUME OncePostedInv, LeaseTokenInv', [Next]_vars PROVE HoldersLive'
  <1> USE DEF OncePostedInv
  <1> SUFFICES ASSUME NEW w \in Worker, pc'[w] \in Busy, cur'[w].key \notin excused'
               PROVE  HoldsLease(cur[w])' /\ job'[cur'[w].key].lease = "live"
    BY DEF HoldersLive, Unexcused
  <1>1. CASE pc[w] \in Busy /\ cur'[w] = cur[w]
    <2> DEFINE k == cur[w].key
    <2>1. k \in Key /\ k \notin excused'
      BY <1>1 DEF LeaseTokenInv, TypeInv, CurTyped, Claimed
    <2>2. HoldsLease(cur[w]) /\ job[k].lease = "live"
      BY <1>1, <2>1, ExcusedGrows DEF LeaseTokenInv, HoldersLive, Unexcused
    <2>3. ASSUME NEW v \in Worker, pc[v] \in Busy, ByHolder(k, v) PROVE v = w
      BY <1>1, <2>2, <2>3 DEF LeaseTokenInv, OneLeaseHolder, ByHolder
    <2>4. ~\E v \in Worker : pc[v] \in {"finish", "retry"} /\ ByHolder(k, v) /\ pc'[v] \notin Busy
      BY <2>3 DEF Busy
    <2>5. /\ job'[k] # NoJob /\ job'[k].lease = "live"
          /\ job'[k].id = job[k].id /\ job'[k].version = job[k].version
      BY <2>1, <2>2, <2>4, LiveSteps DEF HoldsLease, Same
    <2> QED BY <1>1, <2>2, <2>5 DEF HoldsLease, Same
  <1>2. ASSUME NEW k \in Key, Claims(w, k)
        PROVE  HoldsLease(cur[w])' /\ job'[cur'[w].key].lease = "live"
    BY <1>2, ClaimedIsHeld DEF LeaseTokenInv
  <1> QED BY <1>1, <1>2, CopySteps DEF LeaseTokenInv

LEMMA PostedIsFinalStep ==
    ASSUME OncePostedInv, LeaseTokenInv', EvidenceInv', [Next]_vars PROVE PostedIsFinal'
  <1> USE DEF OncePostedInv
  <1> DEFINE Ending(w) == pc[w] \in {"accept", "mark"} \/ (pc[w] = "finish" /\ goal[w] = "delivered")
  <1> DEFINE EndingNext(w) == pc'[w] \in {"accept", "mark"} \/ (pc'[w] = "finish" /\ goal'[w] = "delivered")
  <1> SUFFICES ASSUME NEW k \in Key, k \notin excused', posted'[k] > 0
               PROVE  /\ posted'[k] = 1 /\ job'[k] # NoJob
                      /\ job'[k].lease = "live" \/ job'[k].status = "delivered"
                      /\ \A w \in Worker : pc'[w] \in Busy /\ cur'[w].key = k => EndingNext(w)
    BY DEF PostedIsFinal, Unexcused
  <1>1. k \notin excused /\ posted[k] \in Nat /\ posted'[k] \in Nat
    BY ExcusedGrows DEF LeaseTokenInv, TypeInv, TypeOK
  <1>2. CASE posted[k] > 0
    <2>1. /\ posted[k] = 1 /\ job[k] # NoJob /\ job[k] \in Job
          /\ job[k].lease = "live" \/ job[k].status = "delivered"
          /\ \A w \in Worker : pc[w] \in Busy /\ cur[w].key = k => Ending(w)
      BY <1>1, <1>2 DEF PostedIsFinal, Unexcused, LeaseTokenInv, TypeInv, TypeOK
    <2>2. ~\E w \in Worker : pc[w] \in {"send", "retry"} /\ cur[w].key = k
      BY <2>1 DEF Busy
    <2>3. posted'[k] = 1
      BY <2>1, <2>2, PostedSteps DEF LeaseTokenInv, TypeInv, TypeOK
    <2>4. job'[k] # NoJob /\ (job'[k].lease = "live" \/ job'[k].status = "delivered")
      <3>1. CASE job[k].lease = "live"
        BY <2>1, <2>2, <3>1, LiveSteps DEF ByHolder, Busy
      <3>2. CASE job[k].status = "delivered"
        <4>1. job'[k] = job[k]
          BY <2>1, <3>2, FinalStep DEF LeaseTokenInv, FinalIsFinal, Terminal
        <4> QED BY <2>1, <3>2, <4>1
      <3> QED BY <2>1, <3>1, <3>2
    <2>5. ASSUME NEW w \in Worker, pc'[w] \in Busy, cur'[w].key = k PROVE EndingNext(w)
      <3>1. ~\E j \in Key : Claims(w, j)
        <4>1. ~Claimable(k)
          BY <2>1 DEF Claimable, LeaseTokenInv, Active
        <4>2. ASSUME NEW j \in Key, Claims(w, j) PROVE j = k
          BY <2>5, <4>2 DEF Claims, Snapshot
        <4> QED BY <4>1, <4>2 DEF Claims
      <3>2. pc[w] \in Busy /\ cur'[w] = cur[w]
        BY <2>5, <3>1, CopySteps DEF LeaseTokenInv
      <3>3. Ending(w)
        BY <2>1, <2>5, <3>2
      <3> QED BY <2>5, <3>3, EndingSteps DEF LeaseTokenInv, EvidenceInv
    <2> QED BY <2>3, <2>4, <2>5
  <1>3. CASE posted[k] = 0
    <2>1. PICK w \in Worker :
             /\ pc[w] = "send" /\ posted' = [posted EXCEPT ![cur[w].key] = @ + 1]
             /\ pc'[w] = "accept" \/ cur[w].key \in excused'
             /\ UNCHANGED <<job, cur>>
      BY <1>3, PostedSteps DEF LeaseTokenInv
    <2>2. cur[w].key = k
      BY <1>1, <1>3, <2>1 DEF LeaseTokenInv, TypeInv, TypeOK
    <2>3. pc'[w] = "accept" /\ posted'[k] = 1
      BY <1>3, <2>1, <2>2 DEF LeaseTokenInv, TypeInv, TypeOK
    <2>4. HoldsLease(cur[w]) /\ job[k].lease = "live"
      BY <1>1, <2>1, <2>2 DEF HoldersLive, Unexcused, Busy
    <2>5. ASSUME NEW v \in Worker, pc'[v] \in Busy, cur'[v].key = k PROVE v = w
      <3>1. HoldsLease(cur[v])' /\ HoldsLease(cur[w])'
        BY <2>3, <2>5, <2>1, <2>2, HoldersLiveStep DEF HoldersLive, Unexcused, Busy
      <3> QED BY <2>1, <2>2, <2>3, <2>5, <3>1 DEF LeaseTokenInv, OneLeaseHolder, Busy
    <2> QED BY <2>1, <2>2, <2>3, <2>4, <2>5 DEF HoldsLease, Same
  <1> QED BY <1>1, <1>2, <1>3

THEOREM OncePostedInvariant == Spec => []OncePostedInv
<1>1. Init => OncePostedInv
  BY OutboxAssumption DEF Init, OncePostedInv, LeaseTokenInv, EvidenceInv, TypeInv, TypeOK, CurTyped, Busy,
     Places, Terminal, Lifecycle, IdsUnique, CopiesBehind, OneLeaseHolder, DeliveredWasPosted, WorkerPosted,
     GoalsSet, PostedOnce, HoldersLive, PostedIsFinal
<1>2. OncePostedInv /\ LeaseTokenInv' /\ EvidenceInv' /\ [Next]_vars => OncePostedInv'
  <2> SUFFICES ASSUME OncePostedInv, LeaseTokenInv', EvidenceInv', [Next]_vars PROVE OncePostedInv'
    OBVIOUS
  <2>1. HoldersLive' /\ PostedIsFinal'
    BY HoldersLiveStep, PostedIsFinalStep
  <2>2. PostedOnce'
    <3>1. ASSUME NEW k \in Key, posted'[k] > 1, k \notin excused' PROVE FALSE
      <4>1. posted'[k] \in Nat
        BY DEF LeaseTokenInv, TypeInv, TypeOK
      <4> QED BY <2>1, <3>1, <4>1 DEF PostedIsFinal, Unexcused
    <3> QED BY <3>1 DEF PostedOnce
  <2> QED BY <2>1, <2>2 DEF OncePostedInv
<1> QED
  BY <1>1, <1>2, LeaseTokenInvariant, EvidenceInvariant, PTL DEF Spec

(* However many workers drain, crash or meet errors, a message is posted   *)
(* twice only if a lease of its job ran out or the answer to its post was  *)
(* lost.                                                                   *)
THEOREM PostedAtMostOnce == Spec => []PostedOnce
  BY OncePostedInvariant, PTL DEF OncePostedInv
-----------------------------------------------------------------------------
(* The queue keeps its contract *)

PhaseOf(j) == IF j = NoJob THEN "absent" ELSE IF j.status \in Active THEN "waiting" ELSE j.status
Shown == <<Phase, posted, replay \cup left, excused>>
Quiet == UNCHANGED <<posted, replay, left, excused>>

LEMMA PhaseIs == Phase = [k \in Key |-> PhaseOf(job[k])]
  BY DEF Phase, PhaseOf, IsActive

LEMMA PhaseMoves ==
    ASSUME TypeInv, NEW k \in Key, NEW j, job' = [job EXCEPT ![k] = j]
    PROVE  Phase' = [Phase EXCEPT ![k] = PhaseOf(j)]
  <1>1. Phase' = [i \in Key |-> PhaseOf(job'[i])]
    BY DEF Phase, PhaseOf, IsActive
  <1>2. \A i \in Key : job'[i] = IF i = k THEN j ELSE job[i]
    BY DEF TypeInv, TypeOK
  <1>3. Phase' = [i \in Key |-> IF i = k THEN PhaseOf(j) ELSE Phase[i]]
    BY <1>1, <1>2, PhaseIs
  <1> QED BY <1>3, PhaseIs

LEMMA PhaseKept ==
    ASSUME TypeInv, NEW k \in Key, NEW j, job' = [job EXCEPT ![k] = j], PhaseOf(j) = PhaseOf(job[k])
    PROVE  Phase' = Phase
  <1>1. Phase' = [Phase EXCEPT ![k] = Phase[k]]
    BY PhaseMoves, PhaseIs
  <1> QED BY <1>1, PhaseIs

(* What a worker writes to an active job, but for its end, leaves it so. *)
LEMMA StaysWaiting ==
    ASSUME NEW j \in Job, j.status \in Active
    PROVE  /\ PhaseOf(j) = "waiting" /\ PhaseOf(Leased(j)) = "waiting" /\ PhaseOf(Accepted(j)) = "waiting"
           /\ \A n \in Nat : PhaseOf(Retried(j, n)) = "waiting"
  <1>1. /\ Leased(j) \in Job /\ Accepted(j) \in Job
        /\ \A n \in Nat : Retried(j, n) \in Job
    BY JobWrites
  <1>2. /\ Leased(j).status = "leased" /\ Accepted(j).status = "delivered-pending"
        /\ \A n \in Nat : Retried(j, n).status = "queued"
    BY DEF Leased, Accepted, Retried, Job
  <1> QED BY <1>1, <1>2, NoJobAssumption DEF PhaseOf, Active

(* A step that leaves the queue, the channel and the reasons as they were. *)
LEMMA SilentSteps ==
    ASSUME NEW w \in Worker,
           \/ StartDrain(w) \/ EndLoop(w) \/ Abort(w) \/ CheckSent(w) \/ CheckSubscription(w) \/ ChannelFails(w)
           \/ Verify(w) \/ MarkSent(w) \/ SweepFind(w) \/ EndDrain(w) \/ Crash(w)
    PROVE  UNCHANGED Shown
  BY DEF StartDrain, EndLoop, Abort, CheckSent, CheckSubscription, ChannelFails, Verify, MarkSent, SweepFind,
     EndDrain, Crash, queue, env, ghost, Shown, Phase, IsActive

(* A claim, an acceptance, a retry and a tick of the clock: the job waits  *)
(* on.                                                                     *)
LEMMA WaitingSteps ==
    ASSUME TypeInv, Lifecycle,
           \/ \E w \in Worker : Claim(w) \/ DrainThrows(w) \/ Accept(w) \/ Retry(w)
           \/ \E k \in Key : BackoffEnds(k) \/ GrowOld(k)
    PROVE  UNCHANGED Shown
  <1> USE DEF TypeInv, TypeOK, CurTyped, Busy
  <1>1. ASSUME NEW k \in Key, job[k] \in Job, job[k].status \in Active, Quiet,
               \/ job' = [job EXCEPT ![k] = Leased(job[k])] \/ job' = [job EXCEPT ![k] = Accepted(job[k])]
               \/ \E n \in Nat : job' = [job EXCEPT ![k] = Retried(job[k], n)]
        PROVE  UNCHANGED Shown
    BY <1>1, StaysWaiting, PhaseKept DEF Shown, Quiet
  <1>2. CASE UNCHANGED job /\ Quiet
    BY <1>2 DEF Shown, Quiet, Phase, IsActive
  <1>3. ASSUME NEW w \in Worker, Claim(w) \/ DrainThrows(w) PROVE UNCHANGED Shown
    <2>1. Quiet /\ (UNCHANGED job \/ \E k \in NextJobs : job' = [job EXCEPT ![k] = Leased(job[k])])
      BY <1>3 DEF Claim, ClaimTo, DrainThrows, Quiet, env, ghost
    <2>2. \A k \in NextJobs : k \in Key /\ job[k] \in Job /\ job[k].status \in Active
      BY DEF NextJobs, Claimable
    <2> QED BY <1>1, <1>2, <2>1, <2>2
  <1>4. ASSUME NEW w \in Worker, HoldsLease(cur[w]), pc[w] \in Busy
        PROVE  /\ cur[w].key \in Key /\ job[cur[w].key] \in Job /\ job[cur[w].key].status \in Active
               /\ cur[w].attempts + 1 \in Nat
    BY <1>4 DEF HoldsLease, Same, Lifecycle, Claimed
  <1>5. ASSUME NEW w \in Worker, Accept(w) PROVE UNCHANGED Shown
    <2>1. /\ Quiet /\ pc[w] \in Busy
          /\ \/ UNCHANGED job
             \/ HoldsLease(cur[w]) /\ job' = [job EXCEPT ![cur[w].key] = Accepted(job[cur[w].key])]
      BY <1>5 DEF Accept, Write, Quiet, env, ghost
    <2> QED BY <1>1, <1>2, <1>4, <2>1
  <1>6. ASSUME NEW w \in Worker, Retry(w) PROVE UNCHANGED Shown
    <2>1. /\ Quiet /\ pc[w] \in Busy
          /\ \/ UNCHANGED job
             \/ /\ HoldsLease(cur[w])
                /\ job' = [job EXCEPT ![cur[w].key] = Retried(job[cur[w].key], cur[w].attempts + 1)]
      BY <1>6 DEF Retry, Write, Quiet, env, ghost
    <2> QED BY <1>1, <1>2, <1>4, <2>1
  <1>7. ASSUME NEW k \in Key, BackoffEnds(k) \/ GrowOld(k) PROVE UNCHANGED Shown
    <2>1. Quiet /\ job[k] \in Job
      BY <1>7 DEF BackoffEnds, GrowOld, Quiet, env, ghost
    <2>2. PICK j : /\ job' = [job EXCEPT ![k] = j]
                   /\ j = [job[k] EXCEPT !.due = TRUE] \/ j = [job[k] EXCEPT !.old = TRUE]
      BY <1>7 DEF BackoffEnds, GrowOld
    <2>3. j \in Job /\ j.status = job[k].status
      BY <2>1, <2>2 DEF Job
    <2>4. PhaseOf(j) = PhaseOf(job[k])
      BY <2>1, <2>3, NoJobAssumption DEF PhaseOf
    <2> QED BY <2>1, <2>2, <2>4, PhaseKept DEF Shown, Quiet
  <1> QED BY <1>3, <1>5, <1>6, <1>7

LEMMA EnqueueKeeps ==
    ASSUME TypeInv, NEW k \in Key, EnqueueCheck(k) \/ EnqueueInsert(k)
    PROVE  UNCHANGED Shown \/ Contract!Enqueue(k)
  <1>1. Quiet /\ (UNCHANGED job \/ (job[k] = NoJob /\ job' = [job EXCEPT ![k] = NewJob(enqueues[k])]))
    BY DEF EnqueueCheck, EnqueueInsert, Insert, Quiet, queue, ghost
  <1>2. CASE UNCHANGED job
    BY <1>1, <1>2 DEF Shown, Quiet, Phase, IsActive
  <1>3. CASE job[k] = NoJob /\ job' = [job EXCEPT ![k] = NewJob(enqueues[k])]
    <2>1. NewJob(enqueues[k]) \in Job
      BY OutboxAssumption DEF TypeInv, TypeOK, NewJob, Job, Active
    <2>2. PhaseOf(NewJob(enqueues[k])) = "waiting" /\ PhaseOf(job[k]) = "absent"
      BY <1>3, <2>1, NoJobAssumption DEF PhaseOf, NewJob, Active
    <2>3. Phase[k] = "absent" /\ Phase' = [Phase EXCEPT ![k] = "waiting"]
      BY <1>3, <2>2, PhaseMoves, PhaseIs
    <2> QED BY <1>1, <2>3 DEF Contract!Enqueue, Quiet
  <1> QED BY <1>1, <1>2, <1>3

LEMMA DoubtKeeps == ASSUME TypeInv, NEW k \in Key, LeaseRunsOut(k) PROVE Contract!Doubt(k)
  <1>1. /\ job[k] \in Job /\ job' = [job EXCEPT ![k] = [job[k] EXCEPT !.lease = "expired"]]
        /\ excused' = excused \cup {k} /\ UNCHANGED <<posted, replay, left>>
    BY DEF LeaseRunsOut, TypeInv, TypeOK, env
  <1>2. [job[k] EXCEPT !.lease = "expired"] \in Job
        /\ [job[k] EXCEPT !.lease = "expired"].status = job[k].status
    BY <1>1 DEF Job
  <1>3. PhaseOf([job[k] EXCEPT !.lease = "expired"]) = PhaseOf(job[k])
    BY <1>1, <1>2, NoJobAssumption DEF PhaseOf
  <1>4. Phase' = Phase
    BY <1>1, <1>3, PhaseKept
  <1> QED BY <1>1, <1>4 DEF Contract!Doubt

LEMMA AuditKeeps ==
    ASSUME TypeInv, ~AuditCanFail, NEW w \in Worker, Audit(w) \/ SweepAudit(w)
    PROVE  \E k \in Key : Contract!Keep(k)
  <1>1. \E k \in Key : replay' = replay \cup {k} /\ UNCHANGED <<job, posted, left, excused>>
    BY DEF Audit, SweepAudit, RecordDeadLetter, TypeInv, TypeOK, CurTyped, Busy, Claimed, env, ghost
  <1>2. ASSUME NEW k \in Key, replay' = replay \cup {k}, UNCHANGED <<job, posted, left, excused>>
        PROVE  Contract!Keep(k)
    BY <1>2 DEF Contract!Keep, Phase, IsActive
  <1> QED BY <1>1, <1>2

LEMMA SubscriptionKeeps ==
    ASSUME NEW k \in Key, NEW on \in BOOLEAN, SetSubscription(k, on)
    PROVE  UNCHANGED Shown \/ Contract!Keep(k)
  <1>1. UNCHANGED <<job, posted, replay, excused>> /\ left' \in {left, left \cup {k}}
    BY DEF SetSubscription, queue, ghost
  <1> QED BY <1>1 DEF Contract!Keep, Shown, Phase, IsActive

(* A message of a key that is not in doubt is posted by the holder of its  *)
(* live lease, and is the first.                                           *)
LEMMA SendKeeps ==
    ASSUME OncePostedInv, NEW w \in Worker, Send(w)
    PROVE  \E k \in Key : Contract!Post(k)
  <1> DEFINE k == cur[w].key
  <1>1. /\ TypeInv /\ pc[w] = "send" /\ k \in Key /\ posted[k] \in Nat
        /\ posted' = [posted EXCEPT ![k] = @ + 1]
        /\ excused' \in {excused, excused \cup {k}} /\ UNCHANGED <<job, replay, left>>
    BY DEF Send, OncePostedInv, LeaseTokenInv, TypeInv, TypeOK, CurTyped, Busy, Claimed, queue, env
  <1>2. ASSUME k \notin excused PROVE Phase[k] = "waiting" /\ posted[k] = 0
    <2>1. HoldsLease(cur[w])
      BY <1>1, <1>2 DEF OncePostedInv, HoldersLive, Unexcused, Busy
    <2>2. job[k] # NoJob /\ job[k].status \in Active
      BY <1>1, <2>1 DEF OncePostedInv, LeaseTokenInv, Lifecycle, HoldsLease, Same
    <2>3. posted[k] = 0
      BY <1>1, <1>2 DEF OncePostedInv, PostedIsFinal, Unexcused, Busy
    <2> QED BY <1>1, <2>2, <2>3, PhaseIs DEF PhaseOf
  <1>3. UNCHANGED <<Phase, replay \cup left>>
    BY <1>1 DEF Phase, IsActive
  <1>4. Contract!Post(k)
    BY <1>1, <1>2, <1>3 DEF Contract!Post
  <1> QED BY <1>1, <1>4

LEMMA FinishKeeps ==
    ASSUME OncePostedInv, AccountInv, NEW w \in Worker, Finish(w)
    PROVE  UNCHANGED Shown \/ \E k \in Key : Contract!End(k)
  <1> DEFINE k == cur[w].key
             j == Finished(job[k], goal[w])
  <1>1. /\ TypeInv /\ Lifecycle /\ pc[w] = "finish" /\ k \in Key /\ goal[w] \in Terminal /\ Quiet
        /\ UNCHANGED job \/ (HoldsLease(cur[w]) /\ job' = [job EXCEPT ![k] = j])
    BY DEF Finish, Write, OncePostedInv, LeaseTokenInv, TypeInv, TypeOK, CurTyped, Busy, Claimed, Quiet, env, ghost
  <1>2. CASE UNCHANGED job
    BY <1>1, <1>2 DEF Shown, Quiet, Phase, IsActive
  <1>3. CASE HoldsLease(cur[w]) /\ job' = [job EXCEPT ![k] = j]
    <2>1. job[k] # NoJob /\ job[k] \in Job /\ job[k].status \in Active
      BY <1>1, <1>3 DEF HoldsLease, Same, Lifecycle, TypeInv, TypeOK
    <2>2. j \in Job /\ j.status = goal[w]
      BY <1>1, <2>1 DEF Finished, Job
    <2>3. PhaseOf(j) = goal[w]
      BY <1>1, <2>2, NoJobAssumption DEF PhaseOf, Active, Terminal
    <2>a. Phase[k] = "waiting"
      BY <1>1, <2>1, PhaseIs DEF PhaseOf
    <2>b. Phase' = [Phase EXCEPT ![k] = PhaseOf(j)]
      BY <1>1, <1>3, PhaseMoves
    <2>4. Phase[k] = "waiting" /\ Phase' = [Phase EXCEPT ![k] = goal[w]]
      BY <2>3, <2>a, <2>b
    <2>5. /\ posted[k] > 0 \/ k \in replay \cup left
          /\ goal[w] = "delivered" => posted[k] > 0
      BY <1>1 DEF AccountInv, FinishedAccounted, Accounted, EvidenceInv, WorkerPosted
    <2>6. Contract!End(k)
      BY <1>1, <2>4, <2>5 DEF Contract!End, Quiet, Terminal
    <2> QED BY <1>1, <2>6
  <1> QED BY <1>1, <1>2, <1>3

LEMMA SweepKeeps ==
    ASSUME TypeInv, AccountInv, NEW w \in Worker, SweepDelete(w)
    PROVE  UNCHANGED Shown \/ \E k \in Key : Contract!End(k)
  <1> DEFINE k == cur[w].key
  <1>1. /\ pc[w] = "sweepDelete" /\ k \in Key /\ Quiet
        /\ \/ UNCHANGED job
           \/ job[k] # NoJob /\ job[k].status \in Expirable /\ job' = [job EXCEPT ![k] = NoJob]
    BY DEF SweepDelete, Same, TypeInv, TypeOK, CurTyped, Claimed, Quiet, env, ghost
  <1>2. CASE UNCHANGED job
    BY <1>1, <1>2 DEF Shown, Quiet, Phase, IsActive
  <1>3. CASE job[k] # NoJob /\ job[k].status \in Expirable /\ job' = [job EXCEPT ![k] = NoJob]
    <2>1. Phase[k] = "waiting"
      BY <1>1, <1>3, PhaseIs DEF PhaseOf, Active, Expirable
    <2>2. Phase' = [Phase EXCEPT ![k] = "absent"]
      BY <1>1, <1>3, PhaseMoves DEF PhaseOf
    <2>3. posted[k] > 0 \/ k \in replay \cup left
      BY <1>1 DEF AccountInv, FinishedAccounted, Accounted
    <2>4. Contract!End(k)
      BY <1>1, <2>1, <2>2, <2>3 DEF Contract!End, Quiet
    <2> QED BY <1>1, <2>4
  <1> QED BY <1>1, <1>2, <1>3

LEMMA ContractStep ==
    ASSUME OncePostedInv, AccountInv, ~AuditCanFail, [Next]_vars PROVE [Contract!Next]_(Contract!vars)
  <1>1. TypeInv /\ Lifecycle
    BY DEF OncePostedInv, LeaseTokenInv
  <1>2. ASSUME NEW w \in Worker, WorkerStep(w) \/ Crash(w)
        PROVE  UNCHANGED Shown \/ \E k \in Key : Contract!Keep(k) \/ Contract!Post(k) \/ Contract!End(k)
    BY <1>1, <1>2, SilentSteps, WaitingSteps, AuditKeeps, SendKeeps, FinishKeeps, SweepKeeps DEF WorkerStep
  <1>3. ASSUME NEW k \in Key, KeyStep(k)
        PROVE  UNCHANGED Shown \/ Contract!Enqueue(k) \/ Contract!Doubt(k) \/ Contract!Keep(k)
    BY <1>1, <1>3, WaitingSteps, EnqueueKeeps, DoubtKeeps, SubscriptionKeeps DEF KeyStep
  <1>4. ASSUME UNCHANGED vars PROVE UNCHANGED Shown
    <2>1. UNCHANGED <<job, posted, replay, left, excused>>
      BY <1>4 DEF vars, queue, env, ghost
    <2> QED BY <2>1 DEF Shown, Phase, IsActive
  <1>5. UNCHANGED Shown <=> UNCHANGED Contract!vars
    BY DEF Shown, Contract!vars
  <1> QED BY <1>2, <1>3, <1>4, <1>5 DEF Next, Contract!Next

(* When the dead-letter collections take every write, the outbox is an     *)
(* abstract queue: a notification is posted once while it waits, unless it *)
(* is in doubt, and ends once, with a message or a reason for none,        *)
(* whatever workers, leases and calls fail.                                *)
THEOREM OutboxKeepsContract == ASSUME ~AuditCanFail PROVE Spec => KeepsContract
<1>1. Init => Contract!Init
  BY DEF Init, Contract!Init, Phase, IsActive
<1>2. OncePostedInv /\ AccountInv /\ [Next]_vars => [Contract!Next]_(Contract!vars)
  BY ContractStep
<1> QED
  BY <1>1, <1>2, OncePostedInvariant, AccountInvariant, PTL DEF Spec, KeepsContract, Contract!Spec

-----------------------------------------------------------------------------
(* With RecoveryVerify a single failure does not post twice *)

(* While no lease ran out under its worker, whoever acts on a job holds    *)
(* its live lease; and before the first failure every live lease is held.  *)
HoldersBusyLive ==
    stalls = 0 => \A w \in Worker : pc[w] \in Busy => HoldsLease(cur[w]) /\ job[cur[w].key].lease = "live"
LeasesHeld ==
    faults = 0 /\ stalls = 0 =>
        excused = {} /\ \A k \in Key : job[k] # NoJob /\ job[k].lease = "live" => Held(k)
(* A key that is enqueued once is inserted once. *)
Untouched(k) == job[k] = NoJob /\ posted[k] = 0 /\ \A w \in Worker : pc[w] \in Busy => cur[w].key # k
InsertedOnce ==
    \A k \in Key : /\ k \in enqueuing => enqueues[k] > 0
                   /\ enqueues[k] = 0 \/ (enqueues[k] = 1 /\ k \in enqueuing) => Untouched(k)
(* A job that is or was claimed remembers it. *)
DeliveriesCounted ==
    \A k \in Key : job[k] # NoJob =>
        /\ job[k].lease # "none" => job[k].deliveries >= 1
        /\ stalls = 0 /\ enqueues[k] = 1 /\ posted[k] > 0 => job[k].deliveries >= 1
(* After the failure, whoever acts on a job whose message was posted reads *)
(* the channel before it posts.                                            *)
OnceMore(k) ==
    /\ posted[k] = 1
    /\ \A w \in Worker : pc[w] \in Busy /\ cur[w].key = k =>
           pc[w] # "send" /\ (pc[w] \in {"dedupe", "subscription", "verify"} => MayBePosted(cur[w]))
ReadBeforePosted ==
    RecoveryVerify /\ faults = 1 /\ stalls = 0 =>
        \A k \in Key : enqueues[k] = 1 /\ posted[k] > 0 => OnceMore(k)
VerifiedInv ==
    OncePostedInv /\ HoldersBusyLive /\ LeasesHeld /\ InsertedOnce /\ DeliveriesCounted /\ ReadBeforePosted

(* What a step counts. *)
LEMMA CountersGrow ==
    ASSUME TypeInv, [Next]_vars
    PROVE  /\ faults \in Nat /\ (faults' = faults \/ faults' = faults + 1)
           /\ stalls \in Nat /\ (stalls' = stalls \/ stalls' = stalls + 1)
           /\ excused' = excused \/ faults' = faults + 1 \/ \E k \in Key : LeaseRunsOut(k)
  <1>0. faults \in Nat /\ stalls \in Nat
    BY OutboxAssumption DEF TypeInv, TypeOK
  <1>1. ASSUME NEW w \in Worker, WorkerStep(w) \/ Crash(w)
        PROVE  /\ faults' = faults \/ faults' = faults + 1
               /\ stalls' = stalls
               /\ excused' = excused \/ faults' = faults + 1
    BY <1>1 DEF WorkerStep, Crash, StartDrain, Claim, ClaimTo, EndLoop, Abort, DrainThrows, CheckSent,
       CheckSubscription, ChannelFails, Verify, Send, Accept, MarkSent, Audit, Finish, Retry,
       SweepFind, SweepAudit, SweepDelete, EndDrain
  <1>2. ASSUME NEW k \in Key, KeyStep(k)
        PROVE  /\ faults' = faults \/ faults' = faults + 1
               /\ stalls' = stalls \/ stalls' = stalls + 1
               /\ excused' = excused \/ LeaseRunsOut(k)
    BY <1>2 DEF KeyStep, EnqueueCheck, EnqueueInsert, Insert, LeaseRunsOut, BackoffEnds, GrowOld, SetSubscription
  <1>3. CASE UNCHANGED vars
    BY <1>0, <1>3 DEF vars
  <1> QED BY <1>0, <1>1, <1>2, <1>3 DEF Next

(* A lease that is held runs out under a stall only. *)
LEMMA HeldStays ==
    ASSUME LeaseTokenInv, [Next]_vars, stalls' = stalls, NEW k \in Key, job[k] # NoJob, job[k].lease = "live", Held(k)
    PROVE  \/ /\ job'[k] # NoJob /\ job'[k].lease = "live"
              /\ job'[k].id = job[k].id /\ job'[k].version = job[k].version
           \/ \E w \in Worker : pc[w] \in {"finish", "retry"} /\ ByHolder(k, w) /\ pc'[w] \notin Busy
  <1>1. ~LeaseRunsOut(k)
    BY CountersGrow DEF LeaseRunsOut, LeaseTokenInv
  <1> QED BY <1>1, LiveSteps

LEMMA HoldersBusyLiveStep ==
    ASSUME LeaseTokenInv, LeaseTokenInv', HoldersBusyLive, [Next]_vars PROVE HoldersBusyLive'
  <1> SUFFICES ASSUME stalls' = 0, NEW w \in Worker, pc'[w] \in Busy
               PROVE  HoldsLease(cur[w])' /\ job'[cur'[w].key].lease = "live"
    BY DEF HoldersBusyLive
  <1>0. stalls = 0 /\ stalls' = stalls
    BY CountersGrow DEF LeaseTokenInv
  <1>1. CASE pc[w] \in Busy /\ cur'[w] = cur[w]
    <2> DEFINE k == cur[w].key
    <2>1. k \in Key
      BY <1>1 DEF LeaseTokenInv, TypeInv, CurTyped, Claimed
    <2>2. HoldsLease(cur[w]) /\ job[k].lease = "live"
      BY <1>0, <1>1 DEF HoldersBusyLive
    <2>3. Held(k) /\ job[k] # NoJob
      BY <1>1, <2>2 DEF Held, HoldsLease, Same
    <2>4. ASSUME NEW v \in Worker, pc[v] \in Busy, ByHolder(k, v) PROVE v = w
      BY <1>1, <2>2, <2>4 DEF LeaseTokenInv, OneLeaseHolder, ByHolder
    <2>5. ~\E v \in Worker : pc[v] \in {"finish", "retry"} /\ ByHolder(k, v) /\ pc'[v] \notin Busy
      BY <2>4 DEF Busy
    <2>6. /\ job'[k] # NoJob /\ job'[k].lease = "live"
          /\ job'[k].id = job[k].id /\ job'[k].version = job[k].version
      BY <1>0, <2>1, <2>2, <2>3, <2>5, HeldStays
    <2> QED BY <1>1, <2>2, <2>6 DEF HoldsLease, Same
  <1>2. ASSUME NEW k \in Key, Claims(w, k)
        PROVE  HoldsLease(cur[w])' /\ job'[cur'[w].key].lease = "live"
    BY <1>2, ClaimedIsHeld DEF LeaseTokenInv
  <1> QED BY <1>1, <1>2, CopySteps DEF LeaseTokenInv

(* Without a failure a worker leaves its job only when the lease is gone.  *)
LEMMA HolderGoesOn ==
    ASSUME TypeInv, [Next]_vars, faults' = faults, NEW w \in Worker, pc[w] \in Busy, HoldsLease(cur[w])
    PROVE  (pc'[w] \in Busy /\ cur'[w] = cur[w]) \/ job'[cur[w].key].lease = "none"
  <1> USE DEF TypeInv, TypeOK, Busy
  <1>0. faults # faults + 1
    BY CountersGrow
  <1>1. ASSUME NEW v \in Worker, v # w, WorkerStep(v) \/ Crash(v) PROVE pc'[w] = pc[w] /\ cur'[w] = cur[w]
    BY <1>1 DEF WorkerStep, Crash, StartDrain, Claim, ClaimTo, EndLoop, Abort, DrainThrows, CheckSent,
       CheckSubscription, ChannelFails, Verify, Send, Accept, MarkSent, Audit, Finish, Retry,
       SweepFind, SweepAudit, SweepDelete, EndDrain, RetryOrDeadLetter
  <1>2. ASSUME NEW k \in Key, KeyStep(k) PROVE pc'[w] = pc[w] /\ cur'[w] = cur[w]
    BY <1>2 DEF KeyStep, EnqueueCheck, EnqueueInsert, Insert, LeaseRunsOut, BackoffEnds, GrowOld, SetSubscription
  <1>3. CASE CheckSent(w) \/ CheckSubscription(w) \/ ChannelFails(w) \/ Verify(w) \/ Send(w)
    BY <1>3 DEF CheckSent, CheckSubscription, ChannelFails, Verify, Send, RetryOrDeadLetter, Plan
  <1>4. CASE Accept(w) \/ MarkSent(w) \/ Audit(w)
    BY <1>0, <1>4 DEF Accept, MarkSent, Audit
  <1>5. cur[w].key \in Key /\ job[cur[w].key] \in Job
    BY DEF CurTyped, Claimed, HoldsLease, Same
  <1>6. CASE Finish(w)
    <2>1. job' = [job EXCEPT ![cur[w].key] = Finished(job[cur[w].key], goal[w])]
      BY <1>0, <1>6 DEF Finish, Write
    <2> QED BY <1>5, <2>1 DEF Finished, Job
  <1>7. CASE Retry(w)
    <2>1. job' = [job EXCEPT ![cur[w].key] = Retried(job[cur[w].key], cur[w].attempts + 1)]
      BY <1>0, <1>7 DEF Retry, Write
    <2> QED BY <1>5, <2>1 DEF Retried, Job
  <1>8. ~Crash(w)
    BY <1>0 DEF Crash
  <1>9. ASSUME WorkerStep(w), ~CheckSent(w), ~CheckSubscription(w), ~ChannelFails(w), ~Verify(w), ~Send(w),
               ~Accept(w), ~MarkSent(w), ~Audit(w), ~Finish(w), ~Retry(w)
        PROVE  FALSE
    BY <1>9 DEF WorkerStep, StartDrain, Claim, EndLoop, Abort, DrainThrows, SweepFind, SweepAudit, SweepDelete, EndDrain
  <1> QED BY <1>1, <1>2, <1>3, <1>4, <1>6, <1>7, <1>8, <1>9 DEF Next, vars

(* A lease comes to life by a claim only. *)
LEMMA LeaseBegins ==
    ASSUME TypeInv, [Next]_vars, NEW k \in Key, job'[k] # NoJob, job'[k].lease = "live",
           job[k] = NoJob \/ job[k].lease # "live"
    PROVE  faults' = faults + 1 \/ \E w \in Worker : Claims(w, k)
  <1>1. JobStep(k) /\ (job[k] # NoJob => job[k] \in Job)
    BY JobSteps DEF TypeInv, TypeOK
  <1>2. CASE job[k] = NoJob
    BY <1>1, <1>2, NoJobAssumption
       DEF JobStep, NewJob, Claimable, ByHolder, HoldsLease, Same
  <1>3. ASSUME job[k] # NoJob, ~(faults' = faults + 1 \/ \E w \in Worker : Claims(w, k)) PROVE FALSE
    <2>1. job[k] \in Job
      BY <1>1, <1>3
    <2> QED BY <1>1, <1>3, <2>1 DEF JobStep, NewJob, Accepted, Finished, Retried, Job
  <1> QED BY <1>2, <1>3

LEMMA LeasesHeldStep ==
    ASSUME LeaseTokenInv, LeaseTokenInv', HoldersBusyLive, HoldersBusyLive', LeasesHeld, [Next]_vars
    PROVE  LeasesHeld'
  <1> SUFFICES ASSUME faults' = 0, stalls' = 0
               PROVE  excused' = {} /\ \A k \in Key : job'[k] # NoJob /\ job'[k].lease = "live" => Held(k)'
    BY DEF LeasesHeld
  <1>0. faults = 0 /\ stalls = 0 /\ faults' # faults + 1
    BY CountersGrow DEF LeaseTokenInv
  <1>1. excused = {} /\ \A k \in Key : job[k] # NoJob /\ job[k].lease = "live" => Held(k)
    BY <1>0 DEF LeasesHeld
  <1>2. excused' = {}
    BY <1>0, <1>1, CountersGrow DEF LeaseRunsOut, LeaseTokenInv
  <1>3. ASSUME NEW k \in Key, job'[k] # NoJob, job'[k].lease = "live" PROVE Held(k)'
    <2>1. CASE job[k] # NoJob /\ job[k].lease = "live"
      <3>1. PICK w \in Worker : pc[w] \in Busy /\ cur[w].key = k /\ HoldsLease(cur[w])
        BY <1>1, <2>1 DEF Held
      <3>2. pc'[w] \in Busy /\ cur'[w] = cur[w]
        BY <1>0, <1>3, <3>1, HolderGoesOn DEF LeaseTokenInv
      <3>3. HoldsLease(cur[w])'
        BY <3>2 DEF HoldersBusyLive
      <3> QED BY <3>1, <3>2, <3>3 DEF Held
    <2>2. CASE job[k] = NoJob \/ job[k].lease # "live"
      <3>1. PICK w \in Worker : Claims(w, k)
        BY <1>0, <1>3, <2>2, LeaseBegins DEF LeaseTokenInv
      <3>2. pc'[w] \in Busy /\ cur'[w].key = k
        BY <3>1 DEF Claims, Snapshot, Busy
      <3>3. HoldsLease(cur[w])'
        BY <3>2 DEF HoldersBusyLive
      <3> QED BY <3>2, <3>3 DEF Held
    <2> QED BY <2>1, <2>2
  <1> QED BY <1>2, <1>3

LEMMA InsertedOnceStep ==
    ASSUME LeaseTokenInv, InsertedOnce, [Next]_vars PROVE InsertedOnce'
  <1>0. TypeInv
    BY DEF LeaseTokenInv
  <1>a. ASSUME NEW k \in Key, k \in enqueuing' PROVE enqueues'[k] > 0
    <2>1. enqueues[k] \in Nat /\ enqueues \in [Key -> 0 .. MaxEnqueues] /\ enqueuing \subseteq Key
      BY <1>0, OutboxAssumption DEF TypeInv, TypeOK
    <2> QED BY <1>0, <1>a, <2>1, EnqueueSteps DEF InsertedOnce
  <1> SUFFICES ASSUME NEW k \in Key, enqueues'[k] = 0 \/ (enqueues'[k] = 1 /\ k \in enqueuing')
               PROVE  Untouched(k)'
    BY <1>a DEF InsertedOnce
  <1>1. (enqueues[k] = 0 \/ (enqueues[k] = 1 /\ k \in enqueuing)) /\ ~(k \in enqueuing /\ k \notin enqueuing')
    <2>1. enqueues[k] \in Nat /\ enqueues \in [Key -> 0 .. MaxEnqueues] /\ enqueuing \subseteq Key
      BY <1>0, OutboxAssumption DEF TypeInv, TypeOK
    <2>2. k \in enqueuing => enqueues[k] > 0
      BY DEF InsertedOnce
    <2>3. CASE UNCHANGED <<enqueues, enqueuing>>
      BY <2>2, <2>3
    <2>4. ASSUME NEW j \in Key, j \in enqueuing, enqueuing' = enqueuing \ {j}, UNCHANGED enqueues
          PROVE  (enqueues[k] = 0 \/ (enqueues[k] = 1 /\ k \in enqueuing)) /\ ~(k \in enqueuing /\ k \notin enqueuing')
      BY <2>1, <2>2, <2>4
    <2>5. ASSUME NEW j \in Key, j \notin enqueuing, enqueues' = [enqueues EXCEPT ![j] = @ + 1],
                 enqueuing' = enqueuing \/ enqueuing' = enqueuing \cup {j}
          PROVE  (enqueues[k] = 0 \/ (enqueues[k] = 1 /\ k \in enqueuing)) /\ ~(k \in enqueuing /\ k \notin enqueuing')
      BY <2>1, <2>2, <2>5
    <2> QED BY <1>0, <2>3, <2>4, <2>5, EnqueueSteps
  <1>2. job[k] = NoJob /\ posted[k] = 0 /\ \A w \in Worker : pc[w] \in Busy => cur[w].key # k
    BY <1>1 DEF InsertedOnce, Untouched
  <1>3. job'[k] = NoJob
    BY <1>0, <1>1, <1>2, JobSteps DEF JobStep, Claimable, ByHolder, HoldsLease, Same
  <1>4. posted'[k] = 0
    BY <1>0, <1>2, PostedSteps DEF TypeInv, TypeOK, Busy
  <1>5. ASSUME NEW w \in Worker, pc'[w] \in Busy PROVE cur'[w].key # k
    <2>1. CASE pc[w] \in Busy /\ cur'[w] = cur[w]
      BY <1>2, <2>1
    <2>2. ASSUME NEW j \in Key, Claims(w, j) PROVE cur'[w].key # k
      <3>1. j # k /\ cur'[w] = Snapshot(j)'
        BY <1>2, <2>2 DEF Claims, Claimable
      <3> QED BY <3>1 DEF Snapshot
    <2> QED BY <1>0, <1>5, <2>1, <2>2, CopySteps
  <1> QED BY <1>3, <1>4, <1>5 DEF Untouched

(* A key that is enqueued once and whose message was posted is not inserted *)
(* again.                                                                  *)
LEMMA InsertedBefore ==
    ASSUME TypeInv, InsertedOnce, [Next]_vars, NEW k \in Key, enqueues'[k] = 1, posted[k] > 0
    PROVE  enqueues[k] = 1 /\ k \notin enqueuing
  <1>1. /\ enqueues[k] \in Nat /\ enqueues \in [Key -> 0 .. MaxEnqueues] /\ enqueuing \subseteq Key
        /\ posted[k] # 0
    BY OutboxAssumption DEF TypeInv, TypeOK
  <1>2. enqueues'[k] = enqueues[k] \/ enqueues'[k] = enqueues[k] + 1
    BY <1>1, EnqueueSteps
  <1> QED BY <1>1, <1>2 DEF InsertedOnce, Untouched

LEMMA JobKeepsDeliveries ==
    ASSUME NEW k \in Key, JobStep(k), job[k] \in Job, job[k] # NoJob, job'[k] # NoJob
    PROVE  /\ job'[k].deliveries \in Nat /\ job[k].deliveries \in Nat
           /\ job'[k].deliveries >= job[k].deliveries
           /\ job'[k].lease # "none" => job[k].lease # "none" \/ job'[k].deliveries >= 1
  <1>0. job[k].deliveries \in 0 .. 2
    BY DEF Job
  <1>1. CASE job'[k] = Leased(job[k])
    BY <1>0, <1>1 DEF Leased, Job
  <1>2. CASE job'[k] = Accepted(job[k])
    BY <1>0, <1>2 DEF Accepted, Job
  <1>3. CASE \E w \in Worker : job'[k] = Finished(job[k], goal[w])
    BY <1>0, <1>3 DEF Finished, Job
  <1>4. CASE \E w \in Worker : job'[k] = Retried(job[k], cur[w].attempts + 1)
    BY <1>0, <1>4 DEF Retried, Job
  <1>5. CASE job[k].lease = "live" /\ job'[k] = [job[k] EXCEPT !.lease = "expired"]
    BY <1>0, <1>5 DEF Job
  <1>6. CASE job'[k] = [job[k] EXCEPT !.due = TRUE] \/ job'[k] = [job[k] EXCEPT !.old = TRUE]
    BY <1>0, <1>6 DEF Job
  <1> QED BY <1>0, <1>1, <1>2, <1>3, <1>4, <1>5, <1>6 DEF JobStep

LEMMA DeliveriesCountedStep ==
    ASSUME LeaseTokenInv, HoldersBusyLive, InsertedOnce, DeliveriesCounted, [Next]_vars PROVE DeliveriesCounted'
  <1> SUFFICES ASSUME NEW k \in Key, job'[k] # NoJob
               PROVE  /\ job'[k].lease # "none" => job'[k].deliveries >= 1
                      /\ stalls' = 0 /\ enqueues'[k] = 1 /\ posted'[k] > 0 => job'[k].deliveries >= 1
    BY DEF DeliveriesCounted
  <1>0. TypeInv /\ JobStep(k) /\ (job[k] # NoJob => job[k] \in Job) /\ posted[k] \in Nat
    BY JobSteps DEF LeaseTokenInv, TypeInv, TypeOK
  <1>1. CASE job[k] = NoJob
    <2>1. k \in enqueuing /\ job'[k] = NewJob(enqueues[k])
      BY <1>0, <1>1 DEF JobStep, Claimable, ByHolder, HoldsLease, Same
    <2>2. job'[k].lease = "none"
      BY <2>1 DEF NewJob
    <2>3. ASSUME enqueues'[k] = 1, posted'[k] > 0 PROVE FALSE
      <3>1. posted[k] = 0
        BY <1>0, <2>1, <2>3, InsertedBefore
      <3>2. PICK w \in Worker : pc[w] = "send" /\ UNCHANGED job
        BY <1>0, <2>3, <3>1, PostedSteps
      <3> QED BY <1>1, <3>2
    <2> QED BY <2>2, <2>3
  <1>2. CASE job[k] # NoJob
    <2>1. job[k] \in Job
      BY <1>0, <1>2
    <2>2. /\ job'[k].deliveries \in Nat /\ job[k].deliveries \in Nat
          /\ job'[k].deliveries >= job[k].deliveries
          /\ job'[k].lease # "none" => job[k].lease # "none" \/ job'[k].deliveries >= 1
      BY <1>0, <1>2, <2>1, JobKeepsDeliveries
    <2>5. ASSUME stalls' = 0, enqueues'[k] = 1, posted'[k] > 0 PROVE job'[k].deliveries >= 1
      <3>0. stalls = 0
        BY <1>0, <2>5, CountersGrow
      <3>1. CASE posted[k] > 0
        BY <1>0, <1>2, <2>2, <2>5, <3>0, <3>1, InsertedBefore DEF DeliveriesCounted
      <3>2. CASE posted[k] = 0
        <4>1. PICK w \in Worker : pc[w] = "send" /\ cur[w].key = k
          BY <1>0, <2>5, <3>2, PostedSteps DEF TypeInv, TypeOK
        <4>2. job[k].lease # "none"
          BY <3>0, <4>1 DEF HoldersBusyLive, Busy
        <4> QED BY <1>2, <2>2, <4>2 DEF DeliveriesCounted
      <3> QED BY <1>0, <3>1, <3>2
    <2> QED BY <1>2, <2>2, <2>5 DEF DeliveriesCounted
  <1> QED BY <1>1, <1>2

(* A worker is before its post as it was, or claims now; and without a     *)
(* failure it posts what it need not read, or found unposted.              *)
LEMMA Reads ==
    ASSUME TypeInv, [Next]_vars, faults' = faults, NEW w \in Worker, ToBePosted(w)',
           ~\E k \in Key : Claims(w, k)
    PROVE  /\ ToBePosted(w) /\ cur'[w] = cur[w]
           /\ pc'[w] = "send" => \/ pc[w] = "send"
                                 \/ (pc[w] = "verify" /\ posted[cur[w].key] = 0)
                                 \/ ~MayBePosted(cur[w])
  <1>0. ToBePosted(w) /\ cur'[w] = cur[w] /\ faults # faults + 1
    BY PostingSteps, CountersGrow
  <1> SUFFICES ASSUME pc'[w] = "send"
               PROVE  \/ pc[w] = "send"
                      \/ (pc[w] = "verify" /\ posted[cur[w].key] = 0)
                      \/ ~MayBePosted(cur[w])
    BY <1>0
  <1> USE DEF TypeInv, TypeOK, ToBePosted
  <1>1. ASSUME NEW v \in Worker, v # w, WorkerStep(v) \/ Crash(v) PROVE pc'[w] = pc[w]
    BY <1>1 DEF WorkerStep, Crash, StartDrain, Claim, ClaimTo, EndLoop, Abort, DrainThrows, CheckSent,
       CheckSubscription, ChannelFails, Verify, Send, Accept, MarkSent, Audit, Finish, Retry,
       SweepFind, SweepAudit, SweepDelete, EndDrain, RetryOrDeadLetter
  <1>2. ASSUME NEW k \in Key, KeyStep(k) PROVE pc'[w] = pc[w]
    BY <1>2 DEF KeyStep, EnqueueCheck, EnqueueInsert, Insert, LeaseRunsOut, BackoffEnds, GrowOld, SetSubscription
  <1>3. CASE CheckSubscription(w)
    BY <1>0, <1>3 DEF CheckSubscription
  <1>4. CASE Verify(w)
    BY <1>0, <1>4 DEF Verify
  <1>5. ASSUME WorkerStep(w) \/ Crash(w), ~CheckSubscription(w), ~Verify(w) PROVE FALSE
    BY <1>0, <1>5 DEF WorkerStep, Crash, StartDrain, Claim, ClaimTo, EndLoop, Abort, DrainThrows, CheckSent,
       ChannelFails, Send, Accept, MarkSent, Audit, Finish, AfterFinish, Retry, RetryOrDeadLetter, Plan,
       SweepFind, SweepAudit, SweepDelete, EndDrain
  <1>6. CASE UNCHANGED vars
    BY <1>6 DEF vars
  <1>7. CASE \E v \in Worker : WorkerStep(v) \/ Crash(v)
    BY <1>1, <1>3, <1>4, <1>5, <1>7
  <1>8. CASE \E k \in Key : KeyStep(k)
    BY <1>2, <1>8
  <1> QED BY <1>6, <1>7, <1>8 DEF Next

LEMMA PostLeaves ==
    ASSUME TypeInv, [Next]_vars, NEW w \in Worker, pc[w] = "send", posted'[cur[w].key] # posted[cur[w].key],
           \A v \in Worker : pc[v] = "send" /\ cur[v].key = cur[w].key => v = w
    PROVE  pc'[w] \notin {"send", "dedupe", "subscription", "verify"}
  <1>1. ASSUME NEW v \in Worker, Send(v) PROVE pc'[w] \notin {"send", "dedupe", "subscription", "verify"}
    <2>1. v = w
      BY <1>1 DEF Send, TypeInv, TypeOK
    <2> QED BY <1>1, <2>1 DEF Send, RetryOrDeadLetter, Plan, TypeInv, TypeOK
  <1>2. ASSUME NEW v \in Worker, WorkerStep(v) \/ Crash(v), ~Send(v) PROVE UNCHANGED posted
    BY <1>2 DEF WorkerStep, Crash, StartDrain, Claim, ClaimTo, EndLoop, Abort, DrainThrows, CheckSent,
       CheckSubscription, ChannelFails, Verify, Accept, MarkSent, Audit, Finish, Retry,
       SweepFind, SweepAudit, SweepDelete, EndDrain
  <1>3. ASSUME NEW k \in Key, KeyStep(k) PROVE UNCHANGED posted
    BY <1>3 DEF KeyStep, EnqueueCheck, EnqueueInsert, Insert, LeaseRunsOut, BackoffEnds, GrowOld, SetSubscription
  <1> QED BY <1>1, <1>2, <1>3 DEF Next, WorkerStep, vars

(* The post of a message that was not posted: its worker is alone with it. *)
LEMMA FirstPost ==
    ASSUME LeaseTokenInv', HoldersBusyLive', HoldersBusyLive, LeaseTokenInv, [Next]_vars, stalls' = 0,
           NEW k \in Key, posted[k] = 0, posted'[k] > 0
    PROVE  OnceMore(k)'
  <1>0. TypeInv /\ TypeInv' /\ stalls = 0
    BY CountersGrow DEF LeaseTokenInv
  <1>1. PICK w \in Worker : /\ pc[w] = "send" /\ posted' = [posted EXCEPT ![cur[w].key] = @ + 1]
                            /\ UNCHANGED <<job, cur>>
    BY <1>0, PostedSteps
  <1>2. cur[w].key = k /\ posted'[k] = 1
    BY <1>0, <1>1 DEF TypeInv, TypeOK
  <1>3. HoldsLease(cur[w]) /\ job[k].lease = "live"
    BY <1>0, <1>1, <1>2 DEF HoldersBusyLive, Busy
  <1>4. ASSUME NEW v \in Worker, pc[v] \in Busy, cur[v].key = k PROVE v = w
    <2>1. HoldsLease(cur[v])
      BY <1>0, <1>4 DEF HoldersBusyLive
    <2> QED BY <1>1, <1>2, <1>3, <1>4, <2>1 DEF LeaseTokenInv, OneLeaseHolder, Busy
  <1>5. ASSUME NEW v \in Worker, pc'[v] \in Busy, cur'[v].key = k PROVE v = w
    <2>1. ASSUME NEW j \in Key, Claims(v, j) PROVE FALSE
      <3>1. j = k
        BY <1>5, <2>1 DEF Claims, Snapshot
      <3> QED BY <1>3, <2>1, <3>1 DEF Claims, Claimable
    <2>2. pc[v] \in Busy /\ cur'[v] = cur[v]
      BY <1>0, <1>5, <2>1, CopySteps
    <2> QED BY <1>4, <1>5, <2>2
  <1>6. \A v \in Worker : pc[v] = "send" /\ cur[v].key = cur[w].key => v = w
    BY <1>2, <1>4 DEF Busy
  <1>7. posted'[cur[w].key] # posted[cur[w].key]
    BY <1>2
  <1>8. pc'[w] \notin {"send", "dedupe", "subscription", "verify"}
    BY <1>0, <1>1, <1>6, <1>7, PostLeaves
  <1> QED BY <1>2, <1>5, <1>8 DEF OnceMore

LEMMA ReadBeforePostedStep ==
    ASSUME VerifiedInv, LeaseTokenInv', HoldersBusyLive', [Next]_vars PROVE ReadBeforePosted'
  <1> SUFFICES ASSUME RecoveryVerify, faults' = 1, stalls' = 0, NEW k \in Key, enqueues'[k] = 1, posted'[k] > 0
               PROVE  OnceMore(k)'
    BY DEF ReadBeforePosted
  <1> USE DEF VerifiedInv
  <1>0. TypeInv /\ LeaseTokenInv /\ stalls = 0 /\ faults \in {0, 1} /\ posted[k] \in Nat
    <2>1. TypeInv /\ LeaseTokenInv
      BY DEF OncePostedInv, LeaseTokenInv
    <2> QED BY <2>1, CountersGrow DEF TypeInv, TypeOK
  <1>1. CASE posted[k] = 0
    BY <1>0, <1>1, FirstPost
  <1>2. CASE posted[k] > 0
    <2>1. enqueues[k] = 1
      BY <1>0, <1>2, InsertedBefore
    <2>2. ASSUME posted[k] = 1, \A w \in Worker : pc[w] = "send" => cur[w].key # k PROVE posted'[k] = 1
      BY <1>0, <2>2, PostedSteps DEF TypeInv, TypeOK
    <2>3. ASSUME NEW w \in Worker, NEW j \in Key, cur'[w].key = k, Claims(w, j) PROVE Claims(w, k)
      <3>1. j = k
        BY <2>3 DEF Claims, Snapshot
      <3> QED BY <2>3, <3>1
    <2>4. CASE faults = 0
      <3>1. /\ posted[k] = 1 /\ job[k] # NoJob
            /\ job[k].lease = "live" \/ job[k].status = "delivered"
            /\ \A w \in Worker : pc[w] \in Busy /\ cur[w].key = k =>
                  pc[w] \in {"accept", "mark"} \/ (pc[w] = "finish" /\ goal[w] = "delivered")
        BY <1>0, <1>2, <2>4 DEF LeasesHeld, OncePostedInv, PostedIsFinal, Unexcused
      <3>2. posted'[k] = 1
        BY <2>2, <3>1 DEF Busy
      <3>3. ASSUME NEW w \in Worker, pc'[w] \in Busy, cur'[w].key = k
            PROVE  pc'[w] \in {"accept", "mark", "finish"}
        <4>1. ~Claims(w, k)
          BY <3>1 DEF Claims, Claimable, Active
        <4>2. pc[w] \in Busy /\ cur'[w] = cur[w]
          BY <1>0, <2>3, <3>3, <4>1, CopySteps
        <4>3. pc[w] \in {"accept", "mark"} \/ (pc[w] = "finish" /\ goal[w] = "delivered")
          BY <3>1, <3>3, <4>2
        <4>4. GoalsSet
          BY DEF OncePostedInv, EvidenceInv
        <4> QED BY <1>0, <3>3, <4>3, <4>4, EndingSteps
      <3> QED BY <3>2, <3>3 DEF OnceMore
    <2>5. CASE faults = 1
      <3>1. OnceMore(k)
        BY <1>0, <1>2, <2>1, <2>5 DEF ReadBeforePosted
      <3>2. posted'[k] = 1
        BY <2>2, <3>1 DEF OnceMore, Busy
      <3>3. ASSUME NEW w \in Worker, Claims(w, k)
            PROVE  pc'[w] # "send" /\ MayBePosted(cur[w])'
        <4>1. job[k] # NoJob /\ job[k] \in Job /\ job'[k] = Leased(job[k])
          BY <1>0, <3>3 DEF Claims, Claimable, TypeInv, TypeOK
        <4>2. job[k].deliveries \in 0 .. 2 /\ job[k].deliveries >= 1
          BY <1>0, <1>2, <2>1, <4>1 DEF DeliveriesCounted, Job
        <4>3. job'[k].deliveries = 2
          BY <4>1, <4>2 DEF Leased, Job
        <4>4. cur'[w].deliveries = 2
          BY <3>3, <4>3 DEF Claims, Snapshot
        <4> QED BY <3>3, <4>4 DEF Claims, MayBePosted
      <3>4. ASSUME NEW w \in Worker, pc'[w] \in Busy, cur'[w].key = k, ToBePosted(w)', ~Claims(w, k)
            PROVE  pc'[w] # "send" /\ MayBePosted(cur[w])'
        <4>1. ~\E j \in Key : Claims(w, j)
          BY <2>3, <3>4
        <4>2. /\ ToBePosted(w) /\ cur'[w] = cur[w]
              /\ pc'[w] = "send" => \/ pc[w] = "send"
                                    \/ (pc[w] = "verify" /\ posted[cur[w].key] = 0)
                                    \/ ~MayBePosted(cur[w])
          BY <1>0, <2>5, <3>4, <4>1, Reads
        <4>3. pc[w] # "send" /\ MayBePosted(cur[w])
          BY <3>1, <3>4, <4>2 DEF OnceMore, ToBePosted, Busy
        <4> QED BY <1>2, <3>4, <4>2, <4>3 DEF MayBePosted
      <3> QED BY <3>2, <3>3, <3>4 DEF OnceMore, ToBePosted
    <2> QED BY <1>0, <2>4, <2>5
  <1> QED BY <1>0, <1>1, <1>2

LEMMA VerifiedInvariant == Spec => []VerifiedInv
<1>1. Init => HoldersBusyLive /\ LeasesHeld /\ InsertedOnce /\ DeliveriesCounted /\ ReadBeforePosted
  BY DEF Init, HoldersBusyLive, LeasesHeld, InsertedOnce, Untouched, DeliveriesCounted, ReadBeforePosted, Busy
<1>2. VerifiedInv /\ OncePostedInv' /\ [Next]_vars => VerifiedInv'
  <2> SUFFICES ASSUME VerifiedInv, OncePostedInv', [Next]_vars PROVE VerifiedInv'
    OBVIOUS
  <2>1. LeaseTokenInv /\ LeaseTokenInv'
    BY DEF VerifiedInv, OncePostedInv
  <2>2. HoldersBusyLive'
    BY <2>1, HoldersBusyLiveStep DEF VerifiedInv
  <2>3. LeasesHeld'
    BY <2>1, <2>2, LeasesHeldStep DEF VerifiedInv
  <2>4. InsertedOnce'
    BY <2>1, InsertedOnceStep DEF VerifiedInv
  <2>5. DeliveriesCounted'
    BY <2>1, DeliveriesCountedStep DEF VerifiedInv
  <2>6. ReadBeforePosted'
    BY <2>1, <2>2, ReadBeforePostedStep
  <2> QED BY <2>2, <2>3, <2>4, <2>5, <2>6 DEF VerifiedInv
<1>3. Spec => []OncePostedInv
  BY OncePostedInvariant
<1>4. OncePostedInv /\ HoldersBusyLive /\ LeasesHeld /\ InsertedOnce /\ DeliveriesCounted /\ ReadBeforePosted
      => VerifiedInv
  BY DEF VerifiedInv
<1> QED
  BY <1>1, <1>2, <1>3, <1>4, PTL DEF Spec

(* With RecoveryVerify no single failure, wherever it strikes, posts a     *)
(* message twice: the channel is read before the second post.              *)
THEOREM SingleFailurePostsOnce == Spec => []OneFailurePostsOnce
<1>1. VerifiedInv => OneFailurePostsOnce
  <2> SUFFICES ASSUME VerifiedInv, RecoveryVerify, NEW k \in Key, enqueues[k] = 1, posted[k] > 1
               PROVE  faults > 1 \/ stalls > 0
    BY DEF OneFailurePostsOnce
  <2>1. faults \in Nat /\ stalls \in Nat /\ posted[k] \in Nat
    BY OutboxAssumption DEF VerifiedInv, OncePostedInv, LeaseTokenInv, TypeInv, TypeOK
  <2>2. ASSUME faults = 0, stalls = 0 PROVE FALSE
    <3>1. excused = {}
      BY <2>2 DEF VerifiedInv, LeasesHeld
    <3> QED BY <3>1 DEF VerifiedInv, OncePostedInv, PostedOnce
  <2>3. ASSUME faults = 1, stalls = 0 PROVE FALSE
    BY <2>1, <2>3 DEF VerifiedInv, ReadBeforePosted, OnceMore
  <2> QED BY <2>1, <2>2, <2>3
<1> QED
  BY <1>1, VerifiedInvariant, PTL
=============================================================================
