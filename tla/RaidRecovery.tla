----------------------------- MODULE RaidRecovery -----------------------------
(***************************************************************************)
(* What an anti-raid incident restores of the server's structure           *)
(* (features/command-security/raidRecoveryRuntime.ts, raidSnapshot*.ts,    *)
(* raidBaselineSnapshot.ts): a baseline refreshed in quiet times and       *)
(* frozen at the first signal, a snapshot of the incident taken once, a    *)
(* plan saved with it and its operations applied one at a time.            *)
(*                                                                         *)
(* A worker is one call, of the periodic refresh, of an intervention that  *)
(* captures or of one that restores; interventions overlap.  An action is  *)
(* one awaited call.  A resource is a channel, or a role that is not       *)
(* managed; of capturedAt the model keeps whether it is later than the     *)
(* start of the incident, and of a baseline nothing but whether it is      *)
(* frozen once the incident has its snapshot: nobody reads it from then    *)
(* on.  In quiet times people create and delete resources.  One incident:  *)
(* after it the guild's resources have other ids.                          *)
(***************************************************************************)
EXTENDS Integers, FiniteSets

CONSTANTS Resource,      \* the channels and roles of the server
          Worker,        \* the calls that can be under way at once
          MaxAttempts,   \* MAX_ATTEMPTS
          MaxFaults      \* bound on crashes and on calls that throw

RecoveryAssumption ==
    MaxAttempts \in Nat \ {0} /\ MaxFaults \in Nat

VARIABLES stage,    \* of the incident: the raid goes on, contained or not, until recovery
          before,   \* the first baseline's, but for what people deleted since in quiet times
          live,     \* a resource: not created yet, there, destroyed, or recreated under a new id
          base,     \* the guild's baseline
          snap,     \* the snapshot of the incident
          ops,      \* its operations
          worker,
          unsaved,  \* was a plan applied that is not stored
          faults

server == <<before, live>>
stored == <<base, snap, ops>>
vars == <<stage, server, stored, worker, unsaved, faults>>

Set0 == SUBSET Resource
Status == {"none", "pending", "done", "skipped", "owner"}
Op == [status : Status, attempts : Nat]
NoOp == [status |-> "none", attempts |-> 0]
NoPlan == [r \in Resource |-> NoOp]
NoSnap == [set |-> {}, from |-> "none"]
Snap == [set : Set0, from : {"none", "baseline", "live"}]
Idle == [pc |-> "idle", copy |-> NoSnap, late |-> FALSE, plan |-> NoPlan, there |-> {},
         whole |-> FALSE, r |-> {}, read |-> NoPlan, result |-> "none"]
Place == {"idle", "take", "write", "take live", "store", "plan", "save", "apply",
          "mark", "marking", "resolve", "release"}
Call == [pc : Place, copy : Snap, late : BOOLEAN, plan : [Resource -> Op], there : Set0,
         whole : BOOLEAN, r : Set0, read : [Resource -> Op], result : Status]

TypeOK ==
    /\ stage \in {"calm", "raid", "recovery", "closed"}
    /\ before \in Set0 /\ live \in [Resource -> {"none", "there", "gone", "again"}]
    /\ base \in [set : Set0, late : BOOLEAN, frozen : BOOLEAN]
    /\ snap \in Snap /\ ops \in [Resource -> Op]
    /\ worker \in [Worker -> Call] /\ unsaved \in BOOLEAN /\ faults \in 0 .. MaxFaults

Exists(r) == live[r] \in {"there", "again"}
Present == {r \in Resource : Exists(r)}
(* By the ids of the snapshot. *)
There == {r \in Resource : live[r] = "there"}

Init ==
    /\ stage = "calm" /\ live \in [Resource -> {"none", "there"}] /\ before = There
    /\ base = [set |-> There, late |-> FALSE, frozen |-> FALSE]
    /\ snap = NoSnap /\ ops = NoPlan
    /\ worker = [w \in Worker |-> Idle] /\ unsaved = FALSE /\ faults = 0

At(w, place) == worker[w].pc = place
Set(w, rec) == worker' = [worker EXCEPT ![w] = rec]
Return(w) == Set(w, Idle)
Opened == stage # "calm"
Capture == [set |-> Present, from |-> "live"]
Fault == faults < MaxFaults /\ faults' = faults + 1

-----------------------------------------------------------------------------
(* A refresh or a freeze that begins later meets a baseline nobody reads.  *)
Needed == stage \in {"calm", "raid"} /\ snap = NoSnap

(* refreshBaseline: it reads the baseline, captures the server, and writes *)
(* unless the baseline was frozen meanwhile.                               *)
Refresh(w) ==
    /\ At(w, "idle") /\ ~base.frozen /\ Needed
    /\ Set(w, [Idle EXCEPT !.pc = "take"])
    /\ UNCHANGED <<stage, server, stored, unsaved, faults>>

Take(w) ==
    /\ At(w, "take")
    /\ Set(w, [worker[w] EXCEPT !.pc = "write", !.copy = Capture, !.late = Opened])
    /\ UNCHANGED <<stage, server, stored, unsaved, faults>>

WriteBaseline(w) ==
    /\ At(w, "write") /\ Return(w)
    /\ base' = IF base.frozen \/ snap # NoSnap THEN base
               ELSE [set |-> worker[w].copy.set, late |-> worker[w].late, frozen |-> FALSE]
    /\ UNCHANGED <<stage, server, snap, ops, unsaved, faults>>

-----------------------------------------------------------------------------
(* Quiet times. *)
Create(r) ==
    /\ stage = "calm" /\ live[r] = "none" /\ live' = [live EXCEPT ![r] = "there"]
    /\ UNCHANGED <<stage, before, stored, worker, unsaved, faults>>

Delete(r) ==
    /\ stage = "calm" /\ live[r] = "there" /\ live' = [live EXCEPT ![r] = "gone"]
    /\ before' = before \ {r}
    /\ UNCHANGED <<stage, stored, worker, unsaved, faults>>

-----------------------------------------------------------------------------
(* The incident: opened, its baseline frozen in a call of its own, its     *)
(* stages moved on by the interventions (RaidIncident).  An intervention   *)
(* that captures has seen the incident confirmed, not contained, but goes  *)
(* on when another has contained it since.                                 *)
Open ==
    /\ stage = "calm" /\ stage' = "raid"
    /\ UNCHANGED <<server, stored, worker, unsaved, faults>>

FreezeBaseline ==
    /\ stage = "raid" /\ Needed /\ ~base.frozen /\ base' = [base EXCEPT !.frozen = TRUE]
    /\ UNCHANGED <<stage, server, snap, ops, worker, unsaved, faults>>

Damage(r) ==
    /\ stage = "raid" /\ Exists(r)
    /\ live' = [live EXCEPT ![r] = "gone"]
    /\ UNCHANGED <<stage, before, stored, worker, unsaved, faults>>

(* captureBeforeContainment: the frozen baseline when it is older than the *)
(* incident, can be read and is not older than a week, else the server as  *)
(* it is now; the first capture stored stays.                              *)
Choose(w) ==
    /\ At(w, "idle") /\ stage = "raid" /\ snap = NoSnap
    /\ \/ /\ base.frozen /\ ~base.late
          /\ Set(w, [Idle EXCEPT !.pc = "store", !.copy = [set |-> base.set, from |-> "baseline"]])
       \/ Set(w, [Idle EXCEPT !.pc = "take live"])
    /\ UNCHANGED <<stage, server, stored, unsaved, faults>>

CaptureLive(w) ==
    /\ At(w, "take live")
    /\ Set(w, [worker[w] EXCEPT !.pc = "store", !.copy = Capture])
    /\ UNCHANGED <<stage, server, stored, unsaved, faults>>

StoreSnapshot(w) ==
    /\ At(w, "store") /\ Return(w)
    /\ snap' = IF snap = NoSnap THEN worker[w].copy ELSE snap
    /\ base' = [set |-> {}, late |-> FALSE, frozen |-> base.frozen]
    /\ UNCHANGED <<stage, server, ops, unsaved, faults>>

Recover ==
    /\ stage = "raid" /\ stage' = "recovery"
    /\ UNCHANGED <<server, stored, worker, unsaved, faults>>

-----------------------------------------------------------------------------
(* restore. *)

Read(w) ==
    /\ At(w, "idle") /\ stage = "recovery" /\ snap # NoSnap
    /\ Set(w, [Idle EXCEPT !.pc = "plan", !.copy = snap, !.plan = ops])
    /\ UNCHANGED <<stage, server, stored, unsaved, faults>>

Todo(plan) == {r \in Resource : plan[r].status = "pending"}
Left(plan) == [r \in Resource |-> IF r \in Todo(plan) THEN plan[r] ELSE NoOp]
Complete(plan) == \A r \in Resource : plan[r].status \in {"none", "done", "skipped"}
Planned(missing) ==
    [r \in Resource |-> IF r \in missing THEN [status |-> "pending", attempts |-> 0] ELSE NoOp]

(* readCurrentState; then planRecovery on the first run, while a saved plan *)
(* is taken up as it was read.                                              *)
Survey(w) ==
    /\ At(w, "plan")
    /\ LET saved == worker[w].plan
           new == Planned(worker[w].copy.set \ There)
       IN  \/ /\ saved # NoPlan
              /\ Set(w, [Idle EXCEPT !.pc = "apply", !.plan = Left(saved), !.there = There \cap Todo(saved),
                                     !.whole = Complete(saved)])
           \/ /\ saved = NoPlan
              /\ Set(w, [Idle EXCEPT !.pc = "save", !.plan = new, !.there = There \cap Todo(new)])
    /\ UNCHANGED <<stage, server, stored, unsaved, faults>>

(* savePlan, whose failure is dropped: the plan is applied all the same.   *)
(* When there is nothing to restore the incident is resolved.              *)
SavePlan(w) ==
    /\ At(w, "save")
    /\ \/ ops' = worker[w].plan /\ UNCHANGED <<unsaved, faults>>
       \/ Fault /\ ops' = worker[w].plan /\ UNCHANGED unsaved
       \/ Fault /\ UNCHANGED ops /\ unsaved' = (unsaved \/ worker[w].plan # NoPlan)
    /\ Set(w, [worker[w] EXCEPT !.pc = IF worker[w].plan = NoPlan THEN "resolve" ELSE "apply"])
    /\ UNCHANGED <<stage, server, base, snap>>

Mark(w, r, result) ==
    Set(w, [worker[w] EXCEPT !.pc = "mark", !.r = {r}, !.result = result])

(* Mutant: an operation that throws is marked as done. *)
Apply_ThrownIsDone(w, r) ==
    /\ At(w, "apply") /\ worker[w].plan[r].status = "pending"
    /\ \/ r \in worker[w].there /\ Mark(w, r, "skipped") /\ UNCHANGED <<server, faults>>
       \/ r \notin worker[w].there /\ Mark(w, r, "done") /\ Fault /\ UNCHANGED server
    /\ UNCHANGED <<stage, stored, unsaved>>

(* One pending operation: what is there again is passed over, what was     *)
(* tried three times is the owner's, and so is what Discord refuses and a  *)
(* role that is recreated in another position.  A call that throws may     *)
(* have recreated the resource.                                            *)
Apply(w, r) ==
    /\ At(w, "apply") /\ worker[w].plan[r].status = "pending"
    /\ LET recreated == [live EXCEPT ![r] = "again"]
       IN  \/ r \in worker[w].there /\ Mark(w, r, "skipped") /\ UNCHANGED <<live, faults>>
           \/ /\ r \notin worker[w].there /\ worker[w].plan[r].attempts >= MaxAttempts
              /\ Mark(w, r, "owner") /\ UNCHANGED <<live, faults>>
           \/ /\ r \notin worker[w].there /\ worker[w].plan[r].attempts < MaxAttempts
              /\ \/ live' = recreated /\ Mark(w, r, "done") /\ UNCHANGED faults
                 \/ live' \in {live, recreated} /\ Mark(w, r, "owner") /\ UNCHANGED faults
                 \/ live' \in {live, recreated} /\ Mark(w, r, "pending") /\ Fault
    /\ UNCHANGED <<stage, before, stored, unsaved>>

(* The loop does not come to an operation again. *)
GoOn(w, r) ==
    Set(w, [worker[w] EXCEPT !.pc = "apply", !.plan[r] = NoOp, !.there = @ \ {r},
                             !.read = NoPlan, !.r = {}, !.result = "none"])

(* markOperation reads the operations and then writes them all back, the   *)
(* one it marks included; its failure is dropped too.                      *)
MarkRead(w) ==
    /\ At(w, "mark")
    /\ \/ Set(w, [worker[w] EXCEPT !.pc = "marking", !.read = ops]) /\ UNCHANGED faults
       \/ Fault /\ \E r \in worker[w].r : GoOn(w, r)
    /\ UNCHANGED <<stage, server, stored, unsaved>>

MarkWrite(w) ==
    /\ At(w, "marking")
    /\ \E r \in worker[w].r :
         /\ \/ /\ ops' = [worker[w].read EXCEPT ![r].status = IF @ = "none" THEN @ ELSE worker[w].result,
                                ![r].attempts = IF worker[w].read[r].status = "none" THEN @ ELSE @ + 1]
               /\ UNCHANGED faults
            \/ Fault /\ UNCHANGED ops
         /\ GoOn(w, r)
    /\ UNCHANGED <<stage, server, base, snap, unsaved>>

(* The operations are read again; when they cannot be, the plan the worker *)
(* began with is looked at.                                                *)
ReadBack(w) ==
    /\ At(w, "apply") /\ Todo(worker[w].plan) = {}
    /\ \E complete \in BOOLEAN :
         /\ \/ complete = Complete(ops) /\ UNCHANGED faults
            \/ complete = worker[w].whole /\ Fault
         /\ Set(w, IF complete THEN [Idle EXCEPT !.pc = "resolve"] ELSE Idle)
    /\ UNCHANGED <<stage, server, stored, unsaved>>

(* A complete restoration resolves the incident, and the baseline is       *)
(* released after that.                                                    *)
Resolve(w) ==
    /\ At(w, "resolve")
    /\ stage' = IF stage = "recovery" THEN "closed" ELSE stage
    /\ Set(w, [Idle EXCEPT !.pc = "release"])
    /\ UNCHANGED <<server, stored, unsaved, faults>>

ReleaseBaseline(w) ==
    /\ At(w, "release") /\ base' = [base EXCEPT !.frozen = FALSE] /\ Return(w)
    /\ UNCHANGED <<stage, server, snap, ops, unsaved, faults>>

(* A capture, a write of a snapshot or of the baseline, or the reading of  *)
(* the current state fails: the call returns.                              *)
GiveUp(w) ==
    /\ worker[w].pc \in {"take", "write", "take live", "store", "plan", "release"}
    /\ Fault /\ Return(w)
    /\ UNCHANGED <<stage, server, stored, unsaved>>

Crash ==
    /\ Fault /\ \E w \in Worker : ~At(w, "idle")
    /\ worker' = [w \in Worker |-> Idle]
    /\ UNCHANGED <<stage, server, stored, unsaved>>

Next ==
    \/ \E w \in Worker :
         \/ Refresh(w) \/ Take(w) \/ WriteBaseline(w)
         \/ Choose(w) \/ CaptureLive(w) \/ StoreSnapshot(w)
         \/ Read(w) \/ Survey(w) \/ SavePlan(w)
         \/ (\E r \in Resource : Apply(w, r)) \/ MarkRead(w) \/ MarkWrite(w)
         \/ ReadBack(w) \/ Resolve(w) \/ ReleaseBaseline(w) \/ GiveUp(w)
    \/ \E r \in Resource : Create(r) \/ Delete(r) \/ Damage(r)
    \/ Open \/ FreezeBaseline \/ Recover
    \/ Crash

Spec == Init /\ [][Next]_vars

-----------------------------------------------------------------------------
(* What an incident that is closed has restored: every resource of its     *)
(* snapshot exists, as it was or recreated, and when the snapshot came     *)
(* from the baseline so does every resource of the first baseline that     *)
(* people had not deleted before the raid.  No refresh that overlaps the   *)
(* raid, no missed or late freeze or release, no crash, failed mark,       *)
(* repeated run or mark lost to an overlapping run changes it.  A plan     *)
(* that could not be saved does: nothing is then marked, and no operation  *)
(* at all counts as a complete restoration.                                *)
Owed == snap.set \cup IF snap.from = "baseline" THEN before ELSE {}
ClosedIsRestored ==
    [][stage = "recovery" /\ stage' = "closed" /\ ~unsaved => \A r \in Owed : Exists(r)]_vars
================================================================================
