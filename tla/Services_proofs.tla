---------------------------- MODULE Services_proofs ----------------------------
(***************************************************************************)
(* What the services' components promise, each by an inductive invariant   *)
(* of its own, for any callers, games, videos, instances and limits, and   *)
(* from these what the composition promises.                               *)
(*                                                                         *)
(* A component's invariant is proved of its own steps; the composition     *)
(* takes them, or leaves the component's state alone.                      *)
(***************************************************************************)
EXTENDS MCServices, Sequences, FiniteSetTheorems, SequenceTheorems, TLAPS

(* A step of the composition is one component's, and leaves the others     *)
(* alone.                                                                  *)
LEMMA OneAtATime ==
    ASSUME [AllNext]_allVars
    PROVE  /\ SettingsStep \/ UNCHANGED settingsVars
           /\ LifeStep \/ UNCHANGED vars
           /\ LimiterStep \/ UNCHANGED limiterVars
           /\ VideoStep \/ UNCHANGED videoVars
           /\ PriceStep \/ UNCHANGED priceVars
           /\ MemberStep \/ UNCHANGED memberVars
           /\ StartsStep \/ UNCHANGED startsVars
           /\ InspectorStep \/ UNCHANGED inspectorVars
           /\ HttpStep \/ UNCHANGED httpVars
           /\ BreakerStep \/ UNCHANGED breakerVars
           /\ CountsStep \/ UNCHANGED countsVars
           /\ AlertsStep \/ UNCHANGED alertsVars
BY DEF AllNext, allVars, SettingsStep, LifeStep, LimiterStep, VideoStep, PriceStep, MemberStep, StartsStep,
   InspectorStep, HttpStep, BreakerStep, CountsStep, AlertsStep

-----------------------------------------------------------------------------
(* Boot and shutdown.                                                      *)
(* A migration that is in the database stays there (Kept), while           *)
(* lastApplied may go back: an instance that is late writes its own step.  *)
(* So the invariant does not relate an instance to lastApplied, but to the *)
(* migrations below the one it makes (BootInv).                            *)
BootPlaces == {"down", "lock", "read", "up", "half", "write", "unlock", "wait", "failed", "booted"}
BootRec == [pc : BootPlaces, next : 0 .. Target + 1]
Stages == {"no", "stop", "unlock", "drain", "close", "closed"}
ShutRec == [stage : Stages, unstopped : BOOLEAN, undrained : BOOLEAN]

(* The types of what a step writes, one instance at a time.                *)
Typed ==
    /\ boot \in [Instance -> BootRec] /\ job \in [Instance -> [Job -> {"idle", "acquire", "run"}]]
    /\ ops \in [Instance -> BOOLEAN] /\ shut \in [Instance -> ShutRec]
    /\ lock \in [Lock -> Instance \cup {Nobody}]
    /\ done \in [1 .. Target -> {"no", "part", "done"}]
    /\ applied \in 0 .. Target /\ starts \in 0 .. MaxStarts

AllDone(n) == \A m \in 1 .. Target : m <= n => done[m] = "done"

(* What an instance knows of the database at each step of its boot.        *)
Knows(b) ==
    /\ b.pc \in {"up", "half", "write"} => b.next \in 1 .. Target /\ AllDone(b.next - 1)
    /\ b.pc = "write" => AllDone(b.next)
    /\ b.pc \in {"unlock", "booted"} => AllDone(Target)

BootInv == AllDone(applied) /\ \A i \in Instance : Knows(boot[i])

Kept == \A m \in 1 .. Target : done[m] = "done" => done'[m] = "done"

(* What shutdown() has seen to, and what a running cycle or drain has.     *)
ShutInv ==
    \A i \in Instance :
        /\ Timely => \A j \in {"cron", "outbox"} : job[i][j] = "run" => Holds(i, j)
        /\ shut[i].stage \in {"unlock", "drain", "close", "closed"} => Stopped(i) \/ shut[i].unstopped
        /\ shut[i].stage \in {"close", "closed"} => (ops[i] => shut[i].undrained)

InstanceStep(i) ==
    \/ Start(i) \/ AcquireMigrations(i) \/ ReadApplied(i) \/ BeginUp(i) \/ EndUp(i) \/ FailUp(i)
    \/ WriteApplied(i) \/ Unlock(i) \/ Wait(i)
    \/ BeginCycle(i) \/ BeginDrain(i) \/ RunTask(i) \/ RunSweep(i) \/ BeginOp(i) \/ EndOp(i)
    \/ \E j \in {"cron", "outbox"} : Acquire(i, j)
    \/ \E j \in Job : EndJob(i, j)
    \/ Signal(i) \/ StopAll(i) \/ ReleaseLocks(i) \/ DrainIngress(i) \/ CloseMongo(i)
    \/ Exit(i) \/ Crash(i)

-----------------------------------------------------------------------------
(* Types                                                                   *)
LEMMA TypedIsTypeOK == Typed <=> TypeOK
  BY DEF Typed, TypeOK, BootRec, BootPlaces, ShutRec, Stages

LEMMA InitTyped == ASSUME LifecycleAssumption, Init PROVE Typed
  <1>1. Down \in BootRec /\ Running \in ShutRec
    BY DEF LifecycleAssumption, Down, BootRec, BootPlaces, Running, ShutRec, Stages
  <1> QED BY <1>1 DEF LifecycleAssumption, Init, Typed

(* The place of an instance's boot moves within BootRec.                   *)
LEMMA GotoTyped ==
    ASSUME Typed, NEW i \in Instance, NEW p \in BootPlaces, Goto(i, p)
    PROVE  boot' \in [Instance -> BootRec]
  BY DEF Typed, Goto, BootRec

LEMMA LeaveTyped ==
    ASSUME LifecycleAssumption, Typed, NEW i \in Instance, NEW p \in BootPlaces, Leave(i, p)
    PROVE  boot' \in [Instance -> BootRec]
  <1>1. [pc |-> p, next |-> 0] \in BootRec
    BY DEF LifecycleAssumption, BootRec
  <1> QED BY <1>1 DEF Typed, Leave

LEMMA ReleaseTyped ==
    ASSUME Typed, NEW i \in Instance, NEW l \in Lock, Release(i, l)
    PROVE  lock' \in [Lock -> Instance \cup {Nobody}]
  BY DEF Typed, Release

LEMMA GoneTyped ==
    ASSUME LifecycleAssumption, Typed, NEW i \in Instance, Gone(i)
    PROVE  /\ boot' \in [Instance -> BootRec] /\ job' \in [Instance -> [Job -> {"idle", "acquire", "run"}]]
           /\ ops' \in [Instance -> BOOLEAN] /\ shut' \in [Instance -> ShutRec]
  <1>1. Down \in BootRec /\ Running \in ShutRec
    BY DEF LifecycleAssumption, Down, BootRec, BootPlaces, Running, ShutRec, Stages
  <1> QED BY <1>1 DEF Typed, Gone

LEMMA BootTyped ==
    ASSUME LifecycleAssumption, Typed, BootInv, NEW i \in Instance,
           Start(i) \/ AcquireMigrations(i) \/ ReadApplied(i) \/ BeginUp(i) \/ EndUp(i) \/ FailUp(i)
           \/ WriteApplied(i) \/ Unlock(i) \/ Wait(i)
    PROVE  Typed'
  <1>0. Running \in ShutRec
    BY DEF Running, ShutRec, Stages
  <1>1. CASE Start(i)
    BY <1>0, <1>1, GotoTyped DEF Start, LifecycleAssumption, Typed, BootPlaces, db
  <1>2. CASE AcquireMigrations(i)
    BY <1>2, GotoTyped DEF AcquireMigrations, Typed, BootPlaces, Lock
  <1>3. CASE ReadApplied(i)
    BY <1>3 DEF ReadApplied, LifecycleAssumption, Typed, BootRec, BootPlaces, db
  <1>4. CASE BeginUp(i)
    BY <1>4, GotoTyped DEF BeginUp, Typed, BootPlaces
  <1>5. CASE EndUp(i)
    BY <1>5, GotoTyped DEF EndUp, Typed, BootPlaces
  <1>6. CASE FailUp(i)
    <2>1. boot' \in [Instance -> BootRec]
      BY <1>6, LeaveTyped DEF FailUp, BootPlaces
    <2> QED BY <1>6, <2>1, ReleaseTyped DEF FailUp, Typed, Lock
  <1>7. CASE WriteApplied(i)
    <2>1. boot[i].next \in 1 .. Target
      BY <1>7 DEF WriteApplied, At, BootInv, Knows
    <2>2. boot[i].next + 1 \in 0 .. Target + 1 /\ boot[i].next \in 0 .. Target
      BY <2>1 DEF LifecycleAssumption
    <2> QED BY <1>7, <2>2 DEF WriteApplied, Typed, BootRec, BootPlaces
  <1>8. CASE Unlock(i)
    <2>1. boot' \in [Instance -> BootRec]
      BY <1>8, LeaveTyped DEF Unlock, BootPlaces
    <2> QED BY <1>8, <2>1, ReleaseTyped DEF Unlock, Typed, Lock
  <1>9. CASE Wait(i)
    BY <1>9, GotoTyped DEF Wait, Typed, BootPlaces, db
  <1> QED BY <1>1, <1>2, <1>3, <1>4, <1>5, <1>6, <1>7, <1>8, <1>9

LEMMA WorkTyped ==
    ASSUME LifecycleAssumption, Typed, NEW i \in Instance,
           BeginCycle(i) \/ BeginDrain(i) \/ RunTask(i) \/ RunSweep(i) \/ BeginOp(i) \/ EndOp(i)
           \/ (\E j \in {"cron", "outbox"} : Acquire(i, j)) \/ (\E j \in Job : EndJob(i, j))
    PROVE  Typed'
  <1>1. ASSUME NEW j \in Job, NEW p \in {"acquire", "run"}, Begin(i, j, p) PROVE Typed'
    BY <1>1 DEF Begin, Typed, db, LifecycleAssumption
  <1>2. CASE BeginCycle(i) \/ BeginDrain(i) \/ RunTask(i) \/ RunSweep(i)
    BY <1>1, <1>2 DEF BeginCycle, BeginDrain, RunTask, RunSweep, Job
  <1>3. CASE BeginOp(i) \/ EndOp(i)
    BY <1>3 DEF BeginOp, EndOp, Typed, db
  <1>4. CASE \E j \in {"cron", "outbox"} : Acquire(i, j)
    BY <1>4 DEF Acquire, Typed, Job, Lock
  <1>5. CASE \E j \in Job : EndJob(i, j)
    <2>1. PICK j \in Job : EndJob(i, j)
      BY <1>5
    <2>2. lock' \in [Lock -> Instance \cup {Nobody}]
      BY <2>1, ReleaseTyped DEF EndJob, Typed
    <2> QED BY <2>1, <2>2 DEF EndJob, Typed
  <1> QED BY <1>2, <1>3, <1>4, <1>5

LEMMA ShutdownTyped ==
    ASSUME LifecycleAssumption, Typed, NEW i \in Instance,
           Signal(i) \/ StopAll(i) \/ ReleaseLocks(i) \/ DrainIngress(i) \/ CloseMongo(i) \/ Exit(i) \/ Crash(i)
    PROVE  Typed'
  <1>1. CASE Signal(i) \/ CloseMongo(i)
    <2>1. PICK s \in {"stop", "closed"} : shut' = [shut EXCEPT ![i].stage = s]
      BY <1>1 DEF Signal, CloseMongo
    <2>2. shut' \in [Instance -> ShutRec]
      BY <2>1 DEF Typed, ShutRec, Stages
    <2> QED BY <1>1, <2>2 DEF Signal, CloseMongo, Typed, db
  <1>2. CASE StopAll(i)
    <2>1. PICK b \in BOOLEAN : shut' = [shut EXCEPT ![i].stage = "unlock", ![i].unstopped = b]
      BY <1>2 DEF StopAll, Stopped
    <2>a. shut[i] \in ShutRec /\ "unlock" \in Stages
      BY DEF Typed, Stages
    <2>2. [shut[i] EXCEPT !.stage = "unlock", !.unstopped = b] \in ShutRec
      BY <2>a DEF ShutRec
    <2>3. shut' = [shut EXCEPT ![i] = [shut[i] EXCEPT !.stage = "unlock", !.unstopped = b]]
      BY <2>1 DEF Typed, ShutRec
    <2>4. shut' \in [Instance -> ShutRec]
      BY <2>2, <2>3 DEF Typed
    <2> QED BY <1>2, <2>4 DEF StopAll, Typed, db
  <1>3. CASE ReleaseLocks(i)
    BY <1>3 DEF ReleaseLocks, Typed, ShutRec, Stages
  <1>4. CASE DrainIngress(i)
    <2>1. ops[i] \in BOOLEAN
      BY DEF Typed
    <2> QED BY <1>4, <2>1 DEF DrainIngress, Typed, ShutRec, Stages, db
  <1>5. CASE Exit(i) \/ Crash(i)
    BY <1>5, GoneTyped DEF Exit, Crash, Typed, db
  <1> QED BY <1>1, <1>2, <1>3, <1>4, <1>5

LEMMA ExpireTyped == ASSUME Typed, NEW l \in Lock, Expire(l) PROVE Typed'
  BY DEF Expire, Typed

-----------------------------------------------------------------------------
(* The migrations                                                          *)
LEMMA InitBoot == ASSUME LifecycleAssumption, Init PROVE BootInv
  BY DEF LifecycleAssumption, Init, BootInv, AllDone, Knows, Down

(* What an instance knew stays true of a database that keeps its           *)
(* migrations.                                                             *)
LEMMA KnowledgeKept ==
    ASSUME Typed, BootInv, Kept, NEW i \in Instance, \A k \in Instance \ {i} : boot'[k] = boot[k],
           AllDone(applied)', Knows(boot[i])'
    PROVE  BootInv'
  <1>1. \A n : AllDone(n) => AllDone(n)'
    BY DEF Kept, AllDone
  <1>2. \A k \in Instance \ {i} : Knows(boot[k])'
    BY <1>1 DEF BootInv, Knows
  <1> QED BY <1>2 DEF BootInv

LEMMA AppliedKept == ASSUME BootInv, Kept, UNCHANGED applied PROVE AllDone(applied)'
  BY DEF BootInv, Kept, AllDone

LEMMA StoredKept == ASSUME UNCHANGED done PROVE Kept
  BY DEF Kept

LEMMA BootStep ==
    ASSUME LifecycleAssumption, Typed, BootInv, NEW i \in Instance,
           Start(i) \/ AcquireMigrations(i) \/ ReadApplied(i) \/ BeginUp(i) \/ EndUp(i) \/ FailUp(i)
           \/ WriteApplied(i) \/ Unlock(i) \/ Wait(i)
    PROVE  BootInv'
  <1>0. boot[i] \in BootRec /\ Knows(boot[i]) /\ applied \in 0 .. Target /\ Target \in Nat \ {0}
    BY DEF Typed, BootInv, LifecycleAssumption
  <1>1. CASE Start(i) \/ AcquireMigrations(i) \/ FailUp(i) \/ Unlock(i)
    <2>1. Knows(boot[i])'
      <3>1. CASE Start(i) \/ AcquireMigrations(i)
        BY <1>0, <3>1 DEF Start, AcquireMigrations, Goto, Typed, Knows, AllDone, BootRec, db
      <3>2. CASE FailUp(i) \/ Unlock(i)
        <4>1. boot'[i].pc \in {"failed", "booted"} /\ UNCHANGED done
              /\ (boot'[i].pc = "booted" => boot[i].pc = "unlock")
          BY <3>2 DEF FailUp, Unlock, Leave, At, Typed
        <4> QED BY <1>0, <4>1 DEF Knows, AllDone
      <3> QED BY <1>1, <3>1, <3>2
    <2>2. UNCHANGED <<done, applied>> /\ \A k \in Instance \ {i} : boot'[k] = boot[k]
      BY <1>1 DEF Start, AcquireMigrations, FailUp, Unlock, Goto, Leave, Typed, db
    <2> QED BY <2>1, <2>2, AppliedKept, StoredKept, KnowledgeKept
  <1>3. CASE ReadApplied(i)
    <2>1. UNCHANGED <<done, applied>> /\ (\A k \in Instance \ {i} : boot'[k] = boot[k])
            /\ boot'[i] = [pc |-> IF applied = Target THEN "unlock" ELSE "up", next |-> applied + 1]
      BY <1>3 DEF ReadApplied, Typed, db
    <2>2. Knows(boot[i])'
      BY <1>0, <2>1 DEF Knows, AllDone, BootInv
    <2> QED BY <2>1, <2>2, AppliedKept, StoredKept, KnowledgeKept
  <1>4. CASE BeginUp(i)
    <2>1. Kept
      BY <1>4 DEF BeginUp, Kept, Typed
    <2>2. UNCHANGED applied /\ (\A k \in Instance \ {i} : boot'[k] = boot[k])
            /\ boot'[i] = [boot[i] EXCEPT !.pc = "half"] /\ boot[i].pc = "up"
      BY <1>4 DEF BeginUp, At, Goto, Typed
    <2>3. Knows(boot[i])'
      BY <1>0, <2>1, <2>2 DEF Knows, AllDone, Kept, BootRec
    <2> QED BY <2>1, <2>2, <2>3, AppliedKept, KnowledgeKept
  <1>5. CASE EndUp(i)
    <2>1. Kept /\ done'[boot[i].next] = "done"
      BY <1>0, <1>5 DEF EndUp, At, Knows, Kept, Typed
    <2>2. UNCHANGED applied /\ (\A k \in Instance \ {i} : boot'[k] = boot[k])
            /\ boot'[i] = [boot[i] EXCEPT !.pc = "write"] /\ boot[i].pc = "half"
      BY <1>5 DEF EndUp, At, Goto, Typed
    <2>3. Knows(boot[i])'
      BY <1>0, <2>1, <2>2 DEF Knows, AllDone, Kept, BootRec
    <2> QED BY <2>1, <2>2, <2>3, AppliedKept, KnowledgeKept
  <1>6. CASE WriteApplied(i)
    <2>1. UNCHANGED done /\ applied' = boot[i].next /\ (\A k \in Instance \ {i} : boot'[k] = boot[k])
            /\ boot'[i] = [pc |-> IF boot[i].next = Target THEN "unlock" ELSE "up", next |-> boot[i].next + 1]
            /\ boot[i].pc = "write"
      BY <1>6 DEF WriteApplied, At, Typed
    <2>2. Knows(boot[i])' /\ AllDone(applied)'
      BY <1>0, <2>1 DEF Knows, AllDone
    <2> QED BY <2>1, <2>2, StoredKept, KnowledgeKept
  <1>7. CASE Wait(i)
    <2>1. UNCHANGED <<done, applied>> /\ (\A k \in Instance \ {i} : boot'[k] = boot[k])
            /\ boot'[i].pc \in {"booted", "failed"} /\ (boot'[i].pc = "booted" => applied >= Target)
      BY <1>7 DEF Wait, Goto, Typed, BootRec, db
    <2>2. Knows(boot[i])'
      BY <1>0, <2>1 DEF Knows, AllDone, BootInv
    <2> QED BY <2>1, <2>2, AppliedKept, StoredKept, KnowledgeKept
  <1> QED BY <1>1, <1>3, <1>4, <1>5, <1>6, <1>7

LEMMA BootUntouched == ASSUME BootInv, UNCHANGED <<boot, done, applied>> PROVE BootInv'
  BY DEF BootInv, Knows, AllDone

LEMMA GoneBoot ==
    ASSUME Typed, BootInv, NEW i \in Instance, Gone(i), UNCHANGED db PROVE BootInv'
  <1>1. Knows(boot[i])' /\ UNCHANGED <<done, applied>> /\ \A k \in Instance \ {i} : boot'[k] = boot[k]
    BY DEF Gone, Down, Knows, Typed, db
  <1> QED BY <1>1, AppliedKept, StoredKept, KnowledgeKept

-----------------------------------------------------------------------------
(* The shutdown                                                            *)
LEMMA InitShut == ASSUME Init PROVE ShutInv
  BY DEF Init, ShutInv, Running, Job

(* Boot and shutdown as long as the jobs of an instance are left alone.    *)
LEMMA ShutUntouched ==
    ASSUME ShutInv, UNCHANGED <<job, ops>>,
           \A k \in Instance : \A j \in {"cron", "outbox"} :
              Timely /\ job[k][j] = "run" /\ Holds(k, j) => lock'[j] = k,
           \A k \in Instance : shut'[k] = shut[k] \/ shut'[k].stage \in {"no", "stop"}
    PROVE  ShutInv'
  BY DEF ShutInv, Holds, Stopped

LEMMA BootShut ==
    ASSUME LifecycleAssumption, Typed, ShutInv, NEW i \in Instance,
           Start(i) \/ AcquireMigrations(i) \/ ReadApplied(i) \/ BeginUp(i) \/ EndUp(i) \/ FailUp(i)
           \/ WriteApplied(i) \/ Unlock(i) \/ Wait(i)
    PROVE  ShutInv'
  <1>1. UNCHANGED <<job, ops>>
    BY DEF Start, AcquireMigrations, ReadApplied, BeginUp, EndUp, FailUp, WriteApplied, Unlock, Wait
  <1>2. \A j \in {"cron", "outbox"} : lock'[j] = lock[j]
    BY DEF Start, AcquireMigrations, ReadApplied, BeginUp, EndUp, FailUp, WriteApplied, Unlock, Wait, Release, db,
           Typed, Lock
  <1>3. \A k \in Instance : shut'[k] = shut[k] \/ shut'[k].stage = "no"
    BY DEF Start, AcquireMigrations, ReadApplied, BeginUp, EndUp, FailUp, WriteApplied, Unlock, Wait, Running, Typed
  <1> QED BY <1>1, <1>2, <1>3, ShutUntouched DEF Holds

LEMMA WorkShut ==
    ASSUME LifecycleAssumption, Typed, ShutInv, NEW i \in Instance,
           BeginCycle(i) \/ BeginDrain(i) \/ RunTask(i) \/ RunSweep(i) \/ BeginOp(i) \/ EndOp(i)
           \/ (\E j \in {"cron", "outbox"} : Acquire(i, j)) \/ (\E j \in Job : EndJob(i, j))
    PROVE  ShutInv'
  <1>1. ASSUME NEW j \in Job, NEW p \in {"acquire", "run"}, Begin(i, j, p), j \in {"cron", "outbox"} => p = "acquire"
        PROVE  ShutInv'
    BY <1>1 DEF Begin, ShutInv, Holds, Stopped, Typed, db
  <1>2. CASE BeginCycle(i) \/ BeginDrain(i) \/ RunTask(i) \/ RunSweep(i)
    BY <1>1, <1>2 DEF BeginCycle, BeginDrain, RunTask, RunSweep, Job
  <1>3. CASE BeginOp(i) \/ EndOp(i)
    BY <1>3 DEF BeginOp, EndOp, ShutInv, Holds, Stopped, Typed, db
  <1>4. ASSUME NEW j \in {"cron", "outbox"}, Acquire(i, j) PROVE ShutInv'
    BY <1>4 DEF Acquire, ShutInv, Holds, Stopped, Typed, Awaited, Job, Lock, LifecycleAssumption
  <1>5. ASSUME NEW j \in Job, EndJob(i, j) PROVE ShutInv'
    BY <1>5 DEF EndJob, Release, ShutInv, Holds, Stopped, Typed, Awaited, Job, Lock
  <1> QED BY <1>2, <1>3, <1>4, <1>5

LEMMA ShutdownShut ==
    ASSUME Typed, ShutInv, NEW i \in Instance,
           Signal(i) \/ StopAll(i) \/ ReleaseLocks(i) \/ DrainIngress(i) \/ CloseMongo(i) \/ Exit(i) \/ Crash(i)
    PROVE  ShutInv'
  <1>1. CASE Signal(i)
    BY <1>1, ShutUntouched DEF Signal, db, Typed, ShutRec, Holds
  <1>2. CASE StopAll(i)
    BY <1>2 DEF StopAll, ShutInv, Holds, Stopped, Typed, ShutRec, db
  <1>3. CASE ReleaseLocks(i)
    <2>1. \A k \in Instance : \A j \in {"cron", "outbox"} : Timely /\ job[k][j] = "run" /\ Holds(k, j) => lock'[j] = k
      BY <1>3 DEF ReleaseLocks, ShutInv, Stopped, Holds, Typed, Awaited, Job, Lock
    <2> QED BY <1>3, <2>1 DEF ReleaseLocks, ShutInv, Holds, Stopped, Typed, ShutRec
  <1>4. CASE DrainIngress(i)
    BY <1>4 DEF DrainIngress, ShutInv, Holds, Stopped, Typed, ShutRec, db
  <1>5. CASE CloseMongo(i)
    BY <1>5 DEF CloseMongo, ShutInv, Holds, Stopped, Typed, ShutRec, db
  <1>6. CASE Exit(i) \/ Crash(i)
    BY <1>6 DEF Exit, Crash, Gone, Running, ShutInv, Holds, Stopped, Typed, Job, db
  <1> QED BY <1>1, <1>2, <1>3, <1>4, <1>5, <1>6

LEMMA ExpireShut == ASSUME LifecycleAssumption, Typed, ShutInv, NEW l \in Lock, Expire(l) PROVE ShutInv'
  <1>1. ASSUME NEW k \in Instance, NEW j \in {"cron", "outbox"}, Timely, job[k][j] = "run", Holds(k, j)
        PROVE  lock'[j] = k
    BY <1>1 DEF Expire, Works, Holds, Typed, Lock
  <1> QED BY <1>1, ShutUntouched DEF Expire

-----------------------------------------------------------------------------
LEMMA NextStep ==
    ASSUME LifecycleAssumption, Typed, BootInv, ShutInv, [Next]_vars PROVE Typed' /\ BootInv' /\ ShutInv'
  <1>1. CASE UNCHANGED vars
    BY <1>1 DEF vars, db, Typed, BootInv, Knows, AllDone, ShutInv, Holds, Stopped
  <1>2. ASSUME NEW i \in Instance, InstanceStep(i) PROVE Typed' /\ BootInv' /\ ShutInv'
    <2>1. CASE Start(i) \/ AcquireMigrations(i) \/ ReadApplied(i) \/ BeginUp(i) \/ EndUp(i) \/ FailUp(i)
               \/ WriteApplied(i) \/ Unlock(i) \/ Wait(i)
      BY <2>1, BootTyped, BootStep, BootShut
    <2>2. CASE BeginCycle(i) \/ BeginDrain(i) \/ RunTask(i) \/ RunSweep(i) \/ BeginOp(i) \/ EndOp(i)
               \/ (\E j \in {"cron", "outbox"} : Acquire(i, j)) \/ (\E j \in Job : EndJob(i, j))
      <3>1. UNCHANGED <<boot, done, applied>>
        BY <2>2 DEF BeginCycle, BeginDrain, RunTask, RunSweep, Begin, BeginOp, EndOp, Acquire, EndJob, db
      <3> QED BY <2>2, <3>1, BootUntouched, WorkTyped, WorkShut
    <2>3. CASE Exit(i) \/ Crash(i)
      BY <2>3, GoneBoot, ShutdownTyped, ShutdownShut DEF Exit, Crash
    <2>4. CASE Signal(i) \/ StopAll(i) \/ ReleaseLocks(i) \/ DrainIngress(i) \/ CloseMongo(i)
      <3>1. UNCHANGED <<boot, done, applied>>
        BY <2>4 DEF Signal, StopAll, ReleaseLocks, DrainIngress, CloseMongo, db
      <3> QED BY <2>4, <3>1, BootUntouched, ShutdownTyped, ShutdownShut
    <2> QED BY <1>2, <2>1, <2>2, <2>3, <2>4 DEF InstanceStep
  <1>3. ASSUME NEW l \in Lock, Expire(l) PROVE Typed' /\ BootInv' /\ ShutInv'
    BY <1>3, ExpireTyped, ExpireShut, BootUntouched DEF Expire
  <1> QED BY <1>1, <1>2, <1>3 DEF Next, InstanceStep

LEMMA LifecycleInvariant ==
    ASSUME LifecycleAssumption PROVE Spec => [](Typed /\ BootInv /\ ShutInv)
  <1>1. Init => Typed /\ BootInv /\ ShutInv
    BY InitTyped, InitBoot, InitShut
  <1>2. Typed /\ BootInv /\ ShutInv /\ [Next]_vars => (Typed /\ BootInv /\ ShutInv)'
    BY NextStep
  <1> QED BY <1>1, <1>2, PTL DEF Spec

(* Whatever leases run out and whoever crashes: lastApplied names only     *)
(* migrations that are in the database, and whoever has booted, by making  *)
(* them or by waiting for another, works on the whole schema.              *)
THEOREM BootedOnWholeSchema == ASSUME LifecycleAssumption PROVE Spec => []AppliedAreDone
  <1>1. Typed /\ BootInv => AppliedAreDone
    BY DEF LifecycleAssumption, Typed, BootInv, AllDone, Knows, AppliedAreDone
  <1> QED BY <1>1, LifecycleInvariant, PTL

(* A running cycle or drain keeps its lock, while leases are timely,       *)
(* through the shutdown of its process; the database is closed under work  *)
(* only when its deadline was missed.                                      *)
THEOREM ShutdownCovers == ASSUME LifecycleAssumption PROVE Spec => []WorkIsCovered
  <1>1. ShutInv => WorkIsCovered
    BY DEF ShutInv, WorkIsCovered
  <1> QED BY <1>1, LifecycleInvariant, PTL

(* The states are of the types the module gives.                           *)
THEOREM LifecycleTyped == ASSUME LifecycleAssumption PROVE Spec => []TypeOK
  BY LifecycleInvariant, TypedIsTypeOK, PTL

-----------------------------------------------------------------------------
(* The rate limiter.                                                       *)
(* The permits given and the tokens left never exceed a full bucket and    *)
(* what has been refilled; and whoever sleeps sleeps until the bucket,     *)
(* which nobody else touches meanwhile, holds a permit.                    *)
LimiterSpent == limiter_permits * Period
LimiterBalance == LimiterSpent + limiter_tokens <= R!Cap + limiter_lastRefill
LimiterSleepCovers ==
    limiter_wake # 0 => limiter_chain # <<>> /\ limiter_tokens + (limiter_wake - limiter_lastRefill) >= Period
LimiterInv == R!TypeOK /\ LimiterBalance /\ LimiterSleepCovers

(* The bucket holds one permit at least. *)
LEMMA LimiterCap == ASSUME R!LimiterAssumption PROVE R!Cap \in Nat /\ R!Cap >= Period
BY DEF R!LimiterAssumption, R!Cap

LEMMA LimiterSpends ==
    ASSUME R!LimiterAssumption, limiter_permits \in Nat
    PROVE  /\ LimiterSpent \in Nat
           /\ limiter_permits' = limiter_permits + 1 => LimiterSpent' = LimiterSpent + Period
BY DEF R!LimiterAssumption, LimiterSpent

LEMMA LimiterRefills ==
    ASSUME R!LimiterAssumption, R!TypeOK
    PROVE  /\ R!Refilled \in 0 .. R!Cap
           /\ R!Refilled <= limiter_tokens + (limiter_clock - limiter_lastRefill)
           /\ R!Refilled >= Period \/ R!Refilled = limiter_tokens + (limiter_clock - limiter_lastRefill)
BY LimiterCap DEF R!LimiterAssumption, R!TypeOK, R!Refilled, R!Lesser

(* acquireOne up to its sleep keeps the balance and sleeps long enough. *)
LEMMA LimiterBegins ==
    ASSUME R!LimiterAssumption, LimiterInv, R!Begin PROVE LimiterInv'
<1>1. R!TypeOK /\ LimiterBalance /\ limiter_wake = 0 /\ limiter_chain # <<>>
  BY DEF LimiterInv, R!Begin
<1>2. /\ limiter_clock \in Nat /\ limiter_clock <= MaxTicks /\ MaxTicks \in Nat /\ limiter_tokens \in Nat
      /\ limiter_lastRefill \in 0 .. limiter_clock
      /\ limiter_chain \in Seq(Caller) /\ limiter_wake \in Nat /\ limiter_permits \in Nat
      /\ Period \in Nat \ {0} /\ MaxWait \in Nat /\ MaxWait >= Period
  BY <1>1 DEF R!TypeOK, R!LimiterAssumption
<1>3. CASE R!Refilled >= Period
  <2>1. /\ limiter_tokens' = R!Refilled - Period /\ limiter_chain' = Tail(limiter_chain)
        /\ limiter_permits' = limiter_permits + 1
        /\ limiter_wake' = 0 /\ limiter_lastRefill' = limiter_clock /\ limiter_clock' = limiter_clock
    BY <1>1, <1>3 DEF R!Begin
  <2>2. R!TypeOK'
    BY <1>1, <1>2, <1>3, <2>1, LimiterRefills, LimiterCap DEF R!TypeOK, R!Cap
  <2>3. LimiterBalance'
    BY <1>1, <1>2, <1>3, <2>1, LimiterRefills, LimiterSpends, LimiterCap DEF LimiterBalance, R!Cap
  <2> QED
    BY <2>1, <2>2, <2>3 DEF LimiterInv, LimiterSleepCovers
<1>4. CASE ~(R!Refilled >= Period)
  <2>1. /\ limiter_tokens' = R!Refilled /\ limiter_chain' = limiter_chain /\ limiter_permits' = limiter_permits
        /\ limiter_wake' = limiter_clock + R!Lesser(MaxWait, Period - R!Refilled)
        /\ limiter_lastRefill' = limiter_clock /\ limiter_clock' = limiter_clock
    BY <1>1, <1>4 DEF R!Begin
  <2>2. /\ R!Refilled \in 0 .. R!Cap /\ R!Refilled <= limiter_tokens + (limiter_clock - limiter_lastRefill)
        /\ R!Cap \in Nat
    BY <1>1, LimiterRefills, LimiterCap
  <2>3. limiter_wake' = limiter_clock + (Period - R!Refilled)
    BY <1>2, <1>4, <2>1, <2>2 DEF R!Lesser
  <2>4. R!TypeOK'
    BY <1>1, <1>2, <1>4, <2>1, <2>2, <2>3 DEF R!TypeOK, R!Cap
  <2>5. LimiterBalance'
    BY <1>1, <1>2, <2>1, <2>2, LimiterSpends DEF LimiterBalance, R!Cap, LimiterSpent
  <2> QED
    BY <1>1, <1>2, <2>1, <2>2, <2>3, <2>4, <2>5 DEF LimiterInv, LimiterSleepCovers
<1> QED
  BY <1>3, <1>4

(* After the sleep there is a permit in the bucket. *)
LEMMA LimiterWakes ==
    ASSUME R!LimiterAssumption, LimiterInv, R!Wake PROVE LimiterInv'
<1>1. /\ R!TypeOK /\ LimiterBalance /\ limiter_wake # 0 /\ limiter_wake <= limiter_clock /\ limiter_chain # <<>>
      /\ limiter_tokens + (limiter_wake - limiter_lastRefill) >= Period
  BY DEF LimiterInv, R!Wake, LimiterSleepCovers
<1>2. /\ limiter_clock \in Nat /\ limiter_clock <= MaxTicks /\ MaxTicks \in Nat /\ limiter_tokens \in Nat
      /\ limiter_lastRefill \in 0 .. limiter_clock
      /\ limiter_chain \in Seq(Caller) /\ limiter_wake \in Nat /\ limiter_permits \in Nat
      /\ Period \in Nat \ {0}
  BY <1>1 DEF R!TypeOK, R!LimiterAssumption
<1>3. R!Refilled >= Period
  BY <1>1, <1>2, LimiterRefills
<1>4. /\ limiter_tokens' = R!Refilled - Period /\ limiter_chain' = Tail(limiter_chain)
      /\ limiter_permits' = limiter_permits + 1
      /\ limiter_wake' = 0 /\ limiter_lastRefill' = limiter_clock /\ limiter_clock' = limiter_clock
  BY <1>1, <1>3 DEF R!Wake
<1>5. R!TypeOK'
  BY <1>1, <1>2, <1>3, <1>4, LimiterRefills, LimiterCap DEF R!TypeOK, R!Cap
<1>6. LimiterBalance'
  BY <1>1, <1>2, <1>3, <1>4, LimiterRefills, LimiterSpends, LimiterCap DEF LimiterBalance, R!Cap
<1> QED
  BY <1>4, <1>5, <1>6 DEF LimiterInv, LimiterSleepCovers

LEMMA LimiterMoves ==
    ASSUME R!LimiterAssumption, LimiterInv, [R!Next]_(R!vars) PROVE LimiterInv'
<1>1. CASE R!Tick
  BY <1>1 DEF R!Tick, LimiterInv, R!LimiterAssumption, R!TypeOK, LimiterBalance, LimiterSleepCovers,
      LimiterSpent, R!Cap
<1>2. CASE \E c \in Caller : R!Acquire(c)
  <2>1. PICK c \in Caller : R!Acquire(c)
    BY <1>2
  <2>2. limiter_chain' \in Seq(Caller) /\ limiter_chain' # <<>>
    BY <2>1 DEF R!Acquire, LimiterInv, R!TypeOK
  <2> QED
    BY <2>1, <2>2 DEF R!Acquire, LimiterInv, R!TypeOK, LimiterBalance, LimiterSleepCovers, LimiterSpent, R!Cap
<1>3. CASE UNCHANGED R!vars
  BY <1>3 DEF R!vars, LimiterInv, R!TypeOK, LimiterBalance, LimiterSleepCovers, LimiterSpent, R!Cap
<1> QED
  BY <1>1, <1>2, <1>3, LimiterBegins, LimiterWakes DEF R!Next

(* The types of the limiter's state, and that a caller sleeps only as long *)
(* as the bucket needs.                                                    *)
THEOREM LimiterInvariant == ASSUME R!LimiterAssumption PROVE R!Spec => []LimiterInv
<1>1. R!Init => LimiterInv
  BY LimiterCap DEF R!Init, LimiterInv, R!LimiterAssumption, R!TypeOK, LimiterBalance, LimiterSleepCovers,
      LimiterSpent
<1>2. LimiterInv /\ [R!Next]_(R!vars) => LimiterInv'
  BY LimiterMoves
<1> QED
  BY <1>1, <1>2, PTL DEF R!Spec

(* The permits given never exceed a full bucket and what the clock has     *)
(* refilled since, whatever the capacity, the rate, the number of callers  *)
(* and the lateness of the timers.                                         *)
THEOREM LimiterKeepsRate == ASSUME R!LimiterAssumption PROVE R!Spec => []R!RateKept
<1>1. LimiterInv => R!RateKept
  BY LimiterSpends, LimiterCap DEF LimiterInv, LimiterBalance, R!TypeOK, R!RateKept, LimiterSpent, R!LimiterAssumption
<1> QED
  BY <1>1, LimiterInvariant, PTL

(* The limiter's part of the services is the limiter.                      *)
LEMMA LimiterAlone == AllSpec => R!Spec
<1>1. AllInit => R!Init
  BY DEF AllInit
<1>2. LimiterStep => R!Next
  BY DEF LimiterStep
<1>3. UNCHANGED limiterVars => UNCHANGED R!vars
  BY DEF limiterVars, R!vars
<1>4. [AllNext]_allVars => [R!Next]_(R!vars)
  BY <1>2, <1>3, OneAtATime
<1> QED
  BY <1>1, <1>4, PTL DEF AllSpec, R!Spec

(* The services together keep the rate of the limiter.                     *)
THEOREM RateIsKept == AllSpec => []RateKept
<1>1. R!RateKept => RateKept
  BY DEF RateKept
<1> QED
  BY <1>1, ServicesAssumption, LimiterAlone, LimiterKeepsRate, PTL

-----------------------------------------------------------------------------
(* The alerts about new accounts.  The worker that sends owns the token of *)
(* a document which nobody can claim any more, so there is one sender for  *)
(* each member; and once its alert is posted, the document refuses every   *)
(* claim for good.                                                         *)

AlertsStatuses == {"none", "claimed", "sending", "delivered", "unconfirmed", "released"}
AlertsSteps == {"idle", "enable", "next", "claim", "begin", "send", "mark", "confirm", "release", "undo", "boot"}
AlertsRow == [status : AlertsStatuses, token : Instance \cup {"none"}, old : BOOLEAN]
AlertsTask == [pc : AlertsSteps, scan : BOOLEAN, was : BOOLEAN, member : Thing \cup {"none"}, left : SUBSET Thing]

(* A worker that deals with a member has one.                              *)
AlertsFine(r) == r.pc \in {"claim", "begin", "send", "mark", "confirm", "release"} => r.member \in Thing

(* What a worker that sends may rely on.                                   *)
AlertsSends(r) == r.pc \in {"send", "release"}
AlertsOwned(w, m) ==
    /\ alerts_row[m].token = w /\ alerts_row[m].status \in {"sending", "unconfirmed"}
    /\ alerts_posted[m] = 0 \/ m \in alerts_lost

AlertsSenders == \A w \in Instance : AlertsSends(alerts_worker[w]) => AlertsOwned(w, alerts_worker[w].member)
AlertsPostedIsFinal == \A m \in Thing : alerts_posted[m] > 0 => m \in alerts_lost \/ A!Blocked(m)

AlertsInv ==
    /\ A!TypeOK /\ \A w \in Instance : AlertsFine(alerts_worker[w])
    /\ AlertsSenders /\ AlertsPostedIsFinal /\ A!AlertedOnce /\ A!QuietMeansAlerted

-----------------------------------------------------------------------------
(* A step that changes the record of one worker, and its types.            *)
LEMMA AlertsPutTypes ==
    ASSUME A!TypeOK, \A v \in Instance : AlertsFine(alerts_worker[v]), NEW w \in Instance, NEW r, r \in AlertsTask,
           AlertsFine(r), A!Put(w, r)
    PROVE  /\ alerts_worker' \in [Instance -> AlertsTask] /\ \A v \in Instance : AlertsFine(alerts_worker'[v])
           /\ alerts_worker'[w] = r /\ \A v \in Instance \ {w} : alerts_worker'[v] = alerts_worker[v]
BY DEF A!TypeOK, A!Put, AlertsTask, AlertsSteps, AlertsFine

(* Each record a worker may go to has its types.                           *)
LEMMA AlertsNextTypes ==
    ASSUME A!TypeOK, \A v \in Instance : AlertsFine(alerts_worker[v]), NEW w \in Instance
    PROVE  /\ alerts_worker[w] \in AlertsTask /\ A!Idle \in AlertsTask /\ AlertsFine(A!Idle) /\ ~AlertsSends(A!Idle)
           /\ \A pc \in AlertsSteps : [alerts_worker[w] EXCEPT !.pc = pc] \in AlertsTask
           /\ [alerts_worker[w] EXCEPT !.pc = "next", !.member = "none"] \in AlertsTask
           /\ [A!Idle EXCEPT !.pc = "undo", !.scan = TRUE] \in AlertsTask
           /\ [A!Idle EXCEPT !.pc = "boot"] \in AlertsTask
BY DEF A!TypeOK, AlertsTask, AlertsSteps, A!Idle, AlertsFine, AlertsSends

(* A step that leaves documents, posts and faults' marks alone, and moves  *)
(* a worker that does not send to a record that does not.                  *)
LEMMA AlertsQuietStep ==
    ASSUME AlertsInv, NEW w \in Instance, NEW r, r \in AlertsTask, AlertsFine(r), ~AlertsSends(r),
           ~AlertsSends(alerts_worker[w]),
           A!Put(w, r), alerts_on' \in BOOLEAN, alerts_faults' \in Nat,
           UNCHANGED <<alerts_row, alerts_posted, alerts_lost, alerts_muted>>
    PROVE  AlertsInv'
<1>1. /\ alerts_worker' \in [Instance -> AlertsTask] /\ \A v \in Instance : AlertsFine(alerts_worker'[v])
      /\ alerts_worker'[w] = r /\ \A v \in Instance \ {w} : alerts_worker'[v] = alerts_worker[v]
  BY AlertsPutTypes DEF AlertsInv
<1>2. A!TypeOK' BY <1>1 DEF AlertsInv, A!TypeOK, AlertsTask, AlertsSteps
<1>3. AlertsSenders' BY <1>1 DEF AlertsInv, AlertsSenders, AlertsOwned
<1>4. AlertsPostedIsFinal' /\ A!AlertedOnce' BY DEF AlertsInv, AlertsPostedIsFinal, A!AlertedOnce, A!Blocked
<1>5. A!QuietMeansAlerted' BY <1>1 DEF AlertsInv, A!QuietMeansAlerted, A!Blocked, AlertsSends
<1>6. (\A v \in Instance : AlertsFine(alerts_worker[v]))' BY <1>1 DEF AlertsFine
<1>. QED BY <1>2, <1>3, <1>4, <1>5, <1>6 DEF AlertsInv

(* A step of a worker that was not sending, with one document written.     *)
LEMMA AlertsDocumentStep ==
    ASSUME AlertsInv, NEW w \in Instance, NEW r, r \in AlertsTask, AlertsFine(r), ~AlertsSends(alerts_worker[w]),
           A!Put(w, r),
           NEW m \in Thing, NEW d, d \in AlertsRow, alerts_row' = [alerts_row EXCEPT ![m] = d],
           alerts_muted' \in SUBSET Thing, alerts_muted \subseteq alerts_muted', alerts_faults' \in Nat,
           UNCHANGED <<alerts_on, alerts_posted, alerts_lost>>,
           \A v \in Instance : AlertsSends(alerts_worker[v]) /\ alerts_worker[v].member = m =>
               d.token = v /\ d.status \in {"sending", "unconfirmed"},
           AlertsSends(r) => /\ r.member = m /\ d.token = w /\ d.status = "sending"
                             /\ alerts_posted[m] = 0 \/ m \in alerts_lost,
           alerts_posted[m] > 0 => m \in alerts_lost \/ d.status \in {"sending", "delivered", "unconfirmed"},
           d.status \in {"sending", "delivered", "unconfirmed"} =>
               \/ alerts_posted[m] > 0 \/ m \in alerts_muted' \/ AlertsSends(r)
               \/ \E v \in Instance : AlertsSends(alerts_worker[v]) /\ alerts_worker[v].member = m
    PROVE  AlertsInv'
<1>1. /\ alerts_worker' \in [Instance -> AlertsTask] /\ \A v \in Instance : AlertsFine(alerts_worker'[v])
      /\ alerts_worker'[w] = r /\ \A v \in Instance \ {w} : alerts_worker'[v] = alerts_worker[v]
  BY AlertsPutTypes DEF AlertsInv
<1>2. alerts_row \in [Thing -> AlertsRow] BY DEF AlertsInv, A!TypeOK, AlertsRow, AlertsStatuses
<1>3. /\ alerts_row' \in [Thing -> AlertsRow] /\ alerts_row'[m] = d
      /\ \A n \in Thing \ {m} : alerts_row'[n] = alerts_row[n]
  BY <1>2
<1>4. A!TypeOK' BY <1>1, <1>3 DEF AlertsInv, A!TypeOK, AlertsTask, AlertsSteps, AlertsRow, AlertsStatuses
<1>5. AlertsSenders'
  <2>1. SUFFICES ASSUME NEW v \in Instance, AlertsSends(alerts_worker'[v])
                 PROVE  /\ alerts_row'[alerts_worker'[v].member].token = v
                        /\ alerts_row'[alerts_worker'[v].member].status \in {"sending", "unconfirmed"}
                        /\ alerts_posted[alerts_worker'[v].member] = 0 \/ alerts_worker'[v].member \in alerts_lost
    BY DEF AlertsSenders, AlertsOwned
  <2>2. CASE v = w BY <2>1, <2>2, <1>1, <1>3 DEF AlertsOwned
  <2>3. CASE v # w
    <3>1. /\ AlertsOwned(v, alerts_worker[v].member) /\ alerts_worker'[v] = alerts_worker[v]
          /\ alerts_worker[v].member \in Thing
      BY <2>1, <2>3, <1>1 DEF AlertsInv, AlertsSenders, AlertsFine, AlertsSends
    <3>2. CASE alerts_worker[v].member = m BY <3>1, <3>2, <2>1, <1>3 DEF AlertsOwned
    <3>3. CASE alerts_worker[v].member # m BY <3>1, <3>3, <1>3 DEF AlertsOwned
    <3>. QED BY <3>2, <3>3
  <2>. QED BY <2>2, <2>3
<1>6. AlertsPostedIsFinal' BY <1>3 DEF AlertsInv, AlertsPostedIsFinal, A!Blocked
<1>7. A!AlertedOnce' BY DEF AlertsInv, A!AlertedOnce
<1>8. A!QuietMeansAlerted'
  <2>1. SUFFICES ASSUME NEW n \in Thing, A!Blocked(n)', alerts_posted[n] = 0, n \notin alerts_muted'
                 PROVE  \E v \in Instance : alerts_worker'[v].member = n /\ AlertsSends(alerts_worker'[v])
    BY DEF A!QuietMeansAlerted, AlertsSends, AlertsInv, A!TypeOK
  <2>2. (AlertsSends(r) /\ n = m) \/ \E v \in Instance : alerts_worker[v].member = n /\ AlertsSends(alerts_worker[v])
    <3>1. CASE n = m BY <3>1, <2>1, <1>3 DEF A!Blocked
    <3>2. CASE n # m BY <3>2, <2>1, <1>3 DEF AlertsInv, A!QuietMeansAlerted, A!Blocked, AlertsSends
    <3>. QED BY <3>1, <3>2
  <2>. QED BY <2>2, <1>1
<1>9. (\A v \in Instance : AlertsFine(alerts_worker[v]))' BY <1>1 DEF AlertsFine
<1>. QED BY <1>4, <1>5, <1>6, <1>7, <1>8, <1>9 DEF AlertsInv

-----------------------------------------------------------------------------
(* The steps that touch no document.                                       *)
LEMMA AlertsFaultTypes == ASSUME A!TypeOK, A!Fault PROVE alerts_faults' \in Nat
BY DEF A!TypeOK, A!Fault

LEMMA AlertsCommandSteps ==
    ASSUME AlertsInv, NEW w \in Instance,
           \/ A!Start(w) \/ A!Enable(w) \/ A!FetchFails(w) \/ A!NextMember(w) \/ A!ChannelFails(w)
           \/ A!Undo(w) \/ \E m \in Thing : A!Join(w, m)
    PROVE  AlertsInv'
<1>0. A!TypeOK /\ (\A v \in Instance : AlertsFine(alerts_worker[v])) /\ alerts_faults \in Nat /\ alerts_on \in BOOLEAN
  BY DEF AlertsInv, A!TypeOK
<1>1. CASE A!Start(w)
  <2> DEFINE r == [A!Idle EXCEPT !.pc = "enable", !.scan = TRUE, !.was = alerts_on, !.left = Thing]
  <2>1. r \in AlertsTask /\ AlertsFine(r) /\ ~AlertsSends(r)
    BY <1>0 DEF AlertsTask, AlertsSteps, A!Idle, AlertsFine, AlertsSends
  <2>. QED BY <1>0, <1>1, <2>1, AlertsQuietStep DEF A!Start, AlertsSends
<1>2. CASE A!Enable(w)
  <2>1. PICK r : r \in AlertsTask /\ AlertsFine(r) /\ ~AlertsSends(r) /\ A!Put(w, r)
    <3>1. A!Put(w, A!Idle) \/ A!Put(w, [alerts_worker[w] EXCEPT !.pc = "next"]) BY <1>2 DEF A!Enable, A!Go
    <3>2. [alerts_worker[w] EXCEPT !.pc = "next"] \in AlertsTask BY <1>0, AlertsNextTypes DEF AlertsSteps
    <3>3. AlertsFine([alerts_worker[w] EXCEPT !.pc = "next"]) /\ ~AlertsSends([alerts_worker[w] EXCEPT !.pc = "next"])
      BY <1>0, AlertsNextTypes DEF AlertsFine, AlertsSends, AlertsTask
    <3>. QED BY <1>0, <3>1, <3>2, <3>3, AlertsNextTypes
  <2>2. alerts_faults' \in Nat /\ alerts_on' \in BOOLEAN BY <1>0, <1>2, AlertsFaultTypes DEF A!Enable
  <2>3. ~AlertsSends(alerts_worker[w]) /\ UNCHANGED <<alerts_row, alerts_posted, alerts_lost, alerts_muted>>
    BY <1>2 DEF A!Enable, AlertsSends
  <2>. QED BY <2>1, <2>2, <2>3, AlertsQuietStep
<1>3. CASE A!FetchFails(w)
  <2> DEFINE r == [A!Idle EXCEPT !.pc = "undo", !.scan = TRUE]
  <2>1. r \in AlertsTask /\ AlertsFine(r) /\ ~AlertsSends(r)
    BY DEF AlertsTask, AlertsSteps, A!Idle, AlertsFine, AlertsSends
  <2>2. A!Put(w, r) BY <1>3 DEF A!FetchFails, A!Thrown
  <2>. QED BY <1>0, <1>3, <2>1, <2>2, AlertsFaultTypes, AlertsQuietStep DEF A!FetchFails, AlertsSends
<1>4. CASE A!NextMember(w)
  <2>1. CASE A!Put(w, A!Idle) BY <1>0, <1>4, <2>1, AlertsNextTypes, AlertsQuietStep DEF A!NextMember, AlertsSends
  <2>2. CASE \E m \in alerts_worker[w].left :
               A!Put(w, [alerts_worker[w] EXCEPT !.pc = "claim", !.member = m, !.left = @ \ {m}])
    <3>1. PICK m \in alerts_worker[w].left :
               A!Put(w, [alerts_worker[w] EXCEPT !.pc = "claim", !.member = m, !.left = @ \ {m}])
      BY <2>2
    <3> DEFINE r == [alerts_worker[w] EXCEPT !.pc = "claim", !.member = m, !.left = @ \ {m}]
    <3>2. alerts_worker[w] \in AlertsTask BY <1>0, AlertsNextTypes
    <3>3. r \in AlertsTask /\ AlertsFine(r) /\ ~AlertsSends(r)
      BY <3>1, <3>2 DEF AlertsTask, AlertsSteps, AlertsFine, AlertsSends
    <3>. QED BY <1>0, <1>4, <3>1, <3>3, AlertsQuietStep DEF A!NextMember, AlertsSends
  <2>. QED BY <1>4, <2>1, <2>2 DEF A!NextMember
<1>5. CASE A!ChannelFails(w)
  BY <1>0, <1>5, AlertsNextTypes, AlertsFaultTypes, AlertsQuietStep DEF A!ChannelFails, AlertsSends
<1>6. CASE A!Undo(w)
  <2>1. alerts_on' \in BOOLEAN /\ alerts_faults' \in Nat BY <1>0, <1>6, AlertsFaultTypes DEF A!Undo
  <2>. QED BY <1>0, <1>6, <2>1, AlertsNextTypes, AlertsQuietStep DEF A!Undo, AlertsSends
<1>7. CASE \E m \in Thing : A!Join(w, m)
  <2>1. PICK m \in Thing : A!Join(w, m) BY <1>7
  <2> DEFINE r == [A!Idle EXCEPT !.pc = "claim", !.member = m]
  <2>2. r \in AlertsTask /\ AlertsFine(r) /\ ~AlertsSends(r)
    BY DEF AlertsTask, AlertsSteps, A!Idle, AlertsFine, AlertsSends
  <2>. QED BY <1>0, <2>1, <2>2, AlertsQuietStep DEF A!Join, AlertsSends
<1>. QED BY <1>1, <1>2, <1>3, <1>4, <1>5, <1>6, <1>7

(* The step past a member, and a step that only advances.                  *)
LEMMA AlertsPassedTypes ==
    ASSUME A!TypeOK, \A v \in Instance : AlertsFine(alerts_worker[v]), NEW w \in Instance, A!Passed(w)
    PROVE  \E r : r \in AlertsTask /\ AlertsFine(r) /\ ~AlertsSends(r) /\ A!Put(w, r)
<1> DEFINE r == [alerts_worker[w] EXCEPT !.pc = "next", !.member = "none"]
<1>1. r \in AlertsTask BY AlertsNextTypes
<1>2. AlertsFine(r) /\ ~AlertsSends(r) BY AlertsNextTypes DEF AlertsTask, AlertsFine, AlertsSends
<1>. QED BY <1>1, <1>2 DEF A!Passed

LEMMA AlertsGoTypes ==
    ASSUME A!TypeOK, \A v \in Instance : AlertsFine(alerts_worker[v]), NEW w \in Instance,
           NEW pc \in {"begin", "send", "mark", "confirm", "release"}, A!Go(w, pc), alerts_worker[w].member \in Thing
    PROVE  \E r : r \in AlertsTask /\ AlertsFine(r) /\ A!Put(w, r) /\ r.pc = pc /\ r.member = alerts_worker[w].member
<1> DEFINE r == [alerts_worker[w] EXCEPT !.pc = pc]
<1>1. alerts_worker[w] \in AlertsTask BY AlertsNextTypes
<1>2. r \in AlertsTask /\ r.pc = pc /\ r.member = alerts_worker[w].member BY <1>1 DEF AlertsTask, AlertsSteps
<1>. QED BY <1>2 DEF A!Go, AlertsFine

-----------------------------------------------------------------------------
(* Nobody is sending for a member whose document can be claimed.           *)
LEMMA AlertsOpenIsUnsent ==
    ASSUME AlertsInv, NEW m \in Thing, ~A!Blocked(m)
    PROVE  /\ \A v \in Instance : ~(AlertsSends(alerts_worker[v]) /\ alerts_worker[v].member = m)
           /\ alerts_posted[m] > 0 => m \in alerts_lost
BY DEF AlertsInv, AlertsSenders, AlertsOwned, AlertsPostedIsFinal, A!Blocked

LEMMA AlertsClaimStep == ASSUME AlertsInv, NEW w \in Instance, A!Claim(w) PROVE AlertsInv'
<1> DEFINE m == alerts_worker[w].member
           d == [status |-> "claimed", token |-> w, old |-> FALSE]
<1>0. A!TypeOK /\ (\A v \in Instance : AlertsFine(alerts_worker[v])) /\ alerts_faults \in Nat
      /\ ~AlertsSends(alerts_worker[w]) /\ m \in Thing /\ d \in AlertsRow
  BY DEF AlertsInv, A!TypeOK, A!Claim, AlertsFine, AlertsSends, AlertsRow, AlertsStatuses
<1>1. alerts_faults' \in Nat BY <1>0, AlertsFaultTypes DEF A!Claim
<1>2. PICK r : r \in AlertsTask /\ AlertsFine(r) /\ ~AlertsSends(r) /\ A!Put(w, r)
  <2>1. CASE A!Passed(w) BY <1>0, <2>1, AlertsPassedTypes
  <2>2. CASE A!Go(w, "begin") BY <1>0, <2>2, AlertsGoTypes DEF AlertsSends
  <2>. QED BY <2>1, <2>2 DEF A!Claim
<1>3. CASE UNCHANGED alerts_row
  BY <1>0, <1>1, <1>2, <1>3, AlertsQuietStep DEF A!Claim, AlertsInv, A!TypeOK
<1>4. CASE A!Claimable(m) /\ alerts_row' = [alerts_row EXCEPT ![m] = d]
  <2>1. /\ \A v \in Instance : ~(AlertsSends(alerts_worker[v]) /\ alerts_worker[v].member = m)
        /\ alerts_posted[m] > 0 => m \in alerts_lost
    BY <1>0, <1>4, AlertsOpenIsUnsent DEF A!Claimable
  <2>2. /\ alerts_muted' \in SUBSET Thing /\ alerts_muted \subseteq alerts_muted'
        /\ UNCHANGED <<alerts_on, alerts_posted, alerts_lost>>
    BY <1>0 DEF A!Claim, A!TypeOK
  <2>3. d.status = "claimed" OBVIOUS
  <2>. HIDE DEF m, d
  <2>. QED BY <1>0, <1>1, <1>2, <1>4, <2>1, <2>2, <2>3, AlertsDocumentStep
<1>. QED BY <1>3, <1>4 DEF A!Claim

LEMMA AlertsBeginSendStep == ASSUME AlertsInv, NEW w \in Instance, A!BeginSend(w) PROVE AlertsInv'
<1> DEFINE m == alerts_worker[w].member
<1>0. A!TypeOK /\ (\A v \in Instance : AlertsFine(alerts_worker[v])) /\ alerts_faults \in Nat
      /\ ~AlertsSends(alerts_worker[w]) /\ m \in Thing
  BY DEF AlertsInv, A!TypeOK, A!BeginSend, AlertsFine, AlertsSends
<1>1. /\ alerts_faults' \in Nat /\ alerts_muted' \in SUBSET Thing /\ alerts_muted \subseteq alerts_muted'
      /\ UNCHANGED <<alerts_on, alerts_posted, alerts_lost>>
  BY <1>0, AlertsFaultTypes DEF A!BeginSend, A!TypeOK
<1>2. CASE A!Passed(w) /\ UNCHANGED <<alerts_row, alerts_muted>>
  <2>1. PICK r : r \in AlertsTask /\ AlertsFine(r) /\ ~AlertsSends(r) /\ A!Put(w, r) BY <1>0, <1>2, AlertsPassedTypes
  <2>. QED BY <1>0, <1>1, <1>2, <2>1, AlertsQuietStep DEF A!TypeOK
<1>3. CASE A!Began(w, m) /\ A!Sending(w, m)
           /\ (A!Go(w, "send") \/ (A!Passed(w) /\ alerts_muted' = alerts_muted \cup {m}))
  <2>1. PICK d \in AlertsRow : d.status = "sending" /\ d.token = w /\ alerts_row' = [alerts_row EXCEPT ![m] = d]
    <3>1. [status |-> "sending", token |-> w, old |-> FALSE] \in AlertsRow BY DEF AlertsRow, AlertsStatuses
    <3>. QED BY <1>3, <3>1 DEF A!Sending
  <2>2. /\ \A v \in Instance : ~(AlertsSends(alerts_worker[v]) /\ alerts_worker[v].member = m)
        /\ alerts_posted[m] > 0 => m \in alerts_lost
    BY <1>0, <1>3, AlertsOpenIsUnsent DEF A!Began, A!Blocked
  <2>3. alerts_posted[m] = 0 \/ m \in alerts_lost BY <1>0, <2>2 DEF A!TypeOK
  <2>4. PICK r : /\ r \in AlertsTask /\ AlertsFine(r) /\ A!Put(w, r) /\ (AlertsSends(r) => r.member = m)
                 /\ AlertsSends(r) \/ m \in alerts_muted'
    <3>1. CASE A!Go(w, "send") BY <1>0, <3>1, AlertsGoTypes DEF AlertsSends
    <3>2. CASE A!Passed(w) /\ alerts_muted' = alerts_muted \cup {m} BY <1>0, <3>2, AlertsPassedTypes
    <3>. QED BY <1>3, <3>1, <3>2
  <2>. HIDE DEF m
  <2>5. AlertsSends(r) => /\ r.member = m /\ d.token = w /\ d.status = "sending"
                          /\ alerts_posted[m] = 0 \/ m \in alerts_lost
    BY <2>1, <2>3, <2>4
  <2>6. d.status \in {"sending", "delivered", "unconfirmed"} =>
           \/ alerts_posted[m] > 0 \/ m \in alerts_muted' \/ AlertsSends(r)
           \/ \E v \in Instance : AlertsSends(alerts_worker[v]) /\ alerts_worker[v].member = m
    BY <2>4
  <2>7. \A v \in Instance : AlertsSends(alerts_worker[v]) /\ alerts_worker[v].member = m =>
           d.token = v /\ d.status \in {"sending", "unconfirmed"}
    BY <2>2
  <2>8. alerts_posted[m] > 0 => m \in alerts_lost \/ d.status \in {"sending", "delivered", "unconfirmed"}
    BY <2>2
  <2>9. d \in AlertsRow /\ alerts_row' = [alerts_row EXCEPT ![m] = d] BY <2>1
  <2>10. r \in AlertsTask /\ AlertsFine(r) /\ A!Put(w, r) BY <2>4
  <2>. QED BY ONLY <1>0, <1>1, <2>5, <2>6, <2>7, <2>8, <2>9, <2>10, AlertsDocumentStep, AlertsInv, w \in Instance
<1>. QED BY <1>2, <1>3 DEF A!BeginSend

LEMMA AlertsMarkStep ==
    ASSUME AlertsInv, NEW w \in Instance, A!MarkDelivered(w) \/ A!MarkSentUnconfirmed(w)
    PROVE  AlertsInv'
<1> DEFINE m == alerts_worker[w].member
           mine == alerts_row[m].token = w /\ alerts_row[m].status = "sending"
<1>0. A!TypeOK /\ (\A v \in Instance : AlertsFine(alerts_worker[v])) /\ alerts_faults \in Nat
      /\ ~AlertsSends(alerts_worker[w]) /\ m \in Thing
      /\ UNCHANGED <<alerts_on, alerts_posted, alerts_lost, alerts_muted>>
      /\ alerts_muted \in SUBSET Thing /\ alerts_row[m] \in AlertsRow
  BY DEF AlertsInv, A!TypeOK, A!MarkDelivered, A!MarkSentUnconfirmed, AlertsFine, AlertsSends, AlertsRow,
      AlertsStatuses
<1>1. alerts_faults' \in Nat BY <1>0, AlertsFaultTypes DEF A!MarkDelivered, A!MarkSentUnconfirmed
<1>2. PICK r : r \in AlertsTask /\ AlertsFine(r) /\ ~AlertsSends(r) /\ A!Put(w, r)
  <2>1. CASE A!Passed(w) BY <1>0, <2>1, AlertsPassedTypes
  <2>2. CASE A!Go(w, "confirm") BY <1>0, <2>2, AlertsGoTypes DEF AlertsSends
  <2>. QED BY <2>1, <2>2 DEF A!MarkDelivered, A!MarkSentUnconfirmed
<1>3. CASE UNCHANGED alerts_row
  BY <1>0, <1>1, <1>2, <1>3, AlertsQuietStep DEF A!TypeOK
<1>4. CASE mine /\ \E d \in AlertsRow : /\ d.status \in {"delivered", "unconfirmed"}
                                        /\ alerts_row' = [alerts_row EXCEPT ![m] = d]
  <2>1. PICK d \in AlertsRow : d.status \in {"delivered", "unconfirmed"} /\ alerts_row' = [alerts_row EXCEPT ![m] = d]
    BY <1>4
  <2>2. \A v \in Instance : ~(AlertsSends(alerts_worker[v]) /\ alerts_worker[v].member = m)
    BY <1>0, <1>4 DEF AlertsInv, AlertsSenders, AlertsOwned
  <2>3. alerts_posted[m] > 0 \/ m \in alerts_muted
    BY <1>0, <1>4, <2>2 DEF AlertsInv, A!QuietMeansAlerted, A!Blocked, AlertsSends
  <2>. HIDE DEF m
  <2>. QED BY <1>0, <1>1, <1>2, <2>1, <2>2, <2>3, AlertsDocumentStep
<1>5. CASE mine /\ alerts_row' = [alerts_row EXCEPT ![m] = [A!NoRow EXCEPT !.status = "delivered"]]
  <2>1. [A!NoRow EXCEPT !.status = "delivered"] \in AlertsRow BY DEF A!NoRow, AlertsRow, AlertsStatuses
  <2>2. [A!NoRow EXCEPT !.status = "delivered"].status = "delivered" BY DEF A!NoRow
  <2>. QED BY <1>4, <1>5, <2>1, <2>2
<1>6. CASE mine /\ alerts_row' = [alerts_row EXCEPT ![m].status = "unconfirmed", ![m].old = FALSE]
  <2> DEFINE d == [alerts_row[m] EXCEPT !.status = "unconfirmed", !.old = FALSE]
  <2>1. d \in AlertsRow /\ d.status = "unconfirmed" BY <1>0 DEF AlertsRow, AlertsStatuses
  <2>2. alerts_row' = [alerts_row EXCEPT ![m] = d] BY <1>0, <1>6 DEF A!TypeOK, AlertsRow, AlertsStatuses
  <2>. QED BY <1>4, <1>6, <2>1, <2>2
<1>. QED BY <1>3, <1>5, <1>6 DEF A!MarkDelivered, A!MarkSentUnconfirmed

-----------------------------------------------------------------------------
(* Two workers never send for the same member.                             *)
LEMMA AlertsOneSender ==
    ASSUME AlertsInv, NEW v \in Instance, NEW w \in Instance, AlertsSends(alerts_worker[v]),
           AlertsSends(alerts_worker[w]),
           alerts_worker[v].member = alerts_worker[w].member
    PROVE  v = w
BY DEF AlertsInv, AlertsSenders, AlertsOwned

LEMMA AlertsSendStep == ASSUME AlertsInv, NEW w \in Instance, A!Send(w) PROVE AlertsInv'
<1> DEFINE m == alerts_worker[w].member
<1>0. /\ A!TypeOK /\ (\A v \in Instance : AlertsFine(alerts_worker[v]))
     /\ m \in Thing /\ AlertsSends(alerts_worker[w])
      /\ UNCHANGED <<alerts_on, alerts_row, alerts_muted>> /\ AlertsOwned(w, m) /\ A!Blocked(m)
  BY DEF AlertsInv, AlertsSenders, AlertsOwned, A!Blocked, A!Send, AlertsFine, AlertsSends
<1> DEFINE post == alerts_posted' = [alerts_posted EXCEPT ![m] = @ + 1]
<1>1. PICK r : /\ r \in AlertsTask /\ AlertsFine(r) /\ A!Put(w, r) /\ r.member = m
               /\ \/ r.pc = "mark" /\ post
                  \/ r.pc = "release" /\ (UNCHANGED alerts_posted \/ (post /\ alerts_lost' = alerts_lost \cup {m}))
  <2>1. CASE A!Go(w, "mark") /\ post BY <1>0, <2>1, AlertsGoTypes
  <2>2. CASE A!Go(w, "release") /\ (UNCHANGED alerts_posted \/ (post /\ alerts_lost' = alerts_lost \cup {m}))
    BY <1>0, <2>2, AlertsGoTypes
  <2>. QED BY <2>1, <2>2 DEF A!Send
<1>2. /\ alerts_worker' \in [Instance -> AlertsTask] /\ \A v \in Instance : AlertsFine(alerts_worker'[v])
      /\ alerts_worker'[w] = r /\ \A v \in Instance \ {w} : alerts_worker'[v] = alerts_worker[v]
  BY <1>0, <1>1, AlertsPutTypes
<1>3. /\ alerts_faults' \in Nat /\ alerts_lost \subseteq alerts_lost' /\ alerts_lost' \in SUBSET Thing
      /\ alerts_posted' \in [Thing -> Nat] /\ \A n \in Thing \ {m} : alerts_posted'[n] = alerts_posted[n]
  BY <1>0, AlertsFaultTypes DEF A!Send, A!TypeOK
<1>4. \/ alerts_posted' = alerts_posted /\ r.pc = "release"
      \/ alerts_posted'[m] = alerts_posted[m] + 1 /\ (r.pc = "mark" \/ m \in alerts_lost')
  BY <1>0, <1>1 DEF A!TypeOK
<1>5. A!TypeOK' BY <1>0, <1>2, <1>3 DEF A!TypeOK, AlertsTask, AlertsSteps
<1>6. AlertsSenders'
  <2>1. SUFFICES ASSUME NEW v \in Instance, AlertsSends(alerts_worker'[v])
                 PROVE  /\ alerts_row[alerts_worker'[v].member].token = v
                        /\ alerts_row[alerts_worker'[v].member].status \in {"sending", "unconfirmed"}
                        /\ alerts_posted'[alerts_worker'[v].member] = 0 \/ alerts_worker'[v].member \in alerts_lost'
    BY <1>0 DEF AlertsSenders, AlertsOwned
  <2>2. CASE v = w BY <1>0, <1>1, <1>2, <1>3, <1>4, <2>1, <2>2 DEF AlertsOwned, AlertsSends
  <2>3. CASE v # w
    <3>1. AlertsSends(alerts_worker[v]) /\ alerts_worker'[v] = alerts_worker[v] /\ alerts_worker[v].member \in Thing
      BY <1>0, <1>2, <2>1, <2>3 DEF AlertsFine, AlertsSends
    <3>2. alerts_worker[v].member # m BY <1>0, <2>3, <3>1, AlertsOneSender
    <3>. QED BY <1>3, <3>1, <3>2 DEF AlertsInv, AlertsSenders, AlertsOwned
  <2>. QED BY <2>2, <2>3
<1>7. AlertsPostedIsFinal' BY <1>0, <1>3 DEF AlertsInv, AlertsPostedIsFinal, A!Blocked
<1>8. A!AlertedOnce' BY <1>0, <1>3, <1>4 DEF AlertsInv, A!AlertedOnce, AlertsOwned, A!TypeOK
<1>9. A!QuietMeansAlerted'
  <2>1. SUFFICES ASSUME NEW n \in Thing, A!Blocked(n), alerts_posted'[n] = 0, n \notin alerts_muted
                 PROVE  \E v \in Instance : alerts_worker'[v].member = n /\ AlertsSends(alerts_worker'[v])
    BY <1>0, <1>3 DEF A!QuietMeansAlerted, A!Blocked, AlertsSends
  <2>2. CASE n = m BY <1>0, <1>1, <1>2, <1>4, <2>1, <2>2 DEF AlertsSends, A!TypeOK
  <2>3. CASE n # m
    <3>1. PICK v \in Instance : alerts_worker[v].member = n /\ AlertsSends(alerts_worker[v])
      BY <1>3, <2>1, <2>3 DEF AlertsInv, A!QuietMeansAlerted, AlertsSends, A!TypeOK
    <3>. QED BY <1>2, <2>3, <3>1
  <2>. QED BY <2>2, <2>3
<1>10. (\A v \in Instance : AlertsFine(alerts_worker[v]))' BY <1>2 DEF AlertsFine
<1>. QED BY <1>5, <1>6, <1>7, <1>8, <1>9, <1>10 DEF AlertsInv

(* A worker stops sending: its member is muted, or its document opened.    *)
LEMMA AlertsEndOfSend ==
    ASSUME AlertsInv, NEW w \in Instance, NEW r, r \in AlertsTask, AlertsFine(r), ~AlertsSends(r), A!Put(w, r),
           alerts_faults' \in Nat, UNCHANGED <<alerts_on, alerts_posted, alerts_lost>>,
           alerts_muted' \in SUBSET Thing, alerts_muted \subseteq alerts_muted',
           alerts_row' \in [Thing -> AlertsRow],
           \A n \in Thing : alerts_row'[n] # alerts_row[n] =>
               n = alerts_worker[w].member /\ AlertsSends(alerts_worker[w]) /\ alerts_row'[n].status = "released",
           AlertsSends(alerts_worker[w]) =>
               alerts_worker[w].member \in alerts_muted' \/ alerts_row'[alerts_worker[w].member].status = "released"
    PROVE  AlertsInv'
<1>1. /\ alerts_worker' \in [Instance -> AlertsTask] /\ \A v \in Instance : AlertsFine(alerts_worker'[v])
      /\ alerts_worker'[w] = r /\ \A v \in Instance \ {w} : alerts_worker'[v] = alerts_worker[v]
  BY AlertsPutTypes DEF AlertsInv
<1>2. A!TypeOK' BY <1>1 DEF AlertsInv, A!TypeOK, AlertsTask, AlertsSteps, AlertsRow, AlertsStatuses
<1>3. AlertsSenders'
  <2>1. SUFFICES ASSUME NEW v \in Instance, AlertsSends(alerts_worker'[v])
                 PROVE  /\ alerts_row'[alerts_worker'[v].member].token = v
                        /\ alerts_row'[alerts_worker'[v].member].status \in {"sending", "unconfirmed"}
                        /\ alerts_posted[alerts_worker'[v].member] = 0 \/ alerts_worker'[v].member \in alerts_lost
    BY DEF AlertsSenders, AlertsOwned
  <2>2. /\ v # w /\ alerts_worker'[v] = alerts_worker[v] /\ AlertsSends(alerts_worker[v])
        /\ alerts_worker[v].member \in Thing
    BY <1>1, <2>1 DEF AlertsInv, AlertsFine, AlertsSends
  <2>3. alerts_row'[alerts_worker[v].member] = alerts_row[alerts_worker[v].member] BY <2>2, AlertsOneSender
  <2>. QED BY <2>2, <2>3 DEF AlertsInv, AlertsSenders, AlertsOwned
<1>4. AlertsPostedIsFinal'
  <2>1. SUFFICES ASSUME NEW n \in Thing, alerts_posted[n] > 0, n \notin alerts_lost PROVE A!Blocked(n)'
    BY DEF AlertsPostedIsFinal
  <2>2. A!Blocked(n) BY <2>1 DEF AlertsInv, AlertsPostedIsFinal
  <2>3. alerts_row'[n] = alerts_row[n] BY <2>1 DEF AlertsInv, AlertsSenders, AlertsOwned, A!TypeOK
  <2>. QED BY <2>2, <2>3 DEF A!Blocked
<1>5. A!AlertedOnce' BY DEF AlertsInv, A!AlertedOnce
<1>6. A!QuietMeansAlerted'
  <2>1. SUFFICES ASSUME NEW n \in Thing, A!Blocked(n)', ~(alerts_posted[n] > 0), n \notin alerts_muted'
                 PROVE  \E v \in Instance : alerts_worker'[v].member = n /\ AlertsSends(alerts_worker'[v])
    BY DEF A!QuietMeansAlerted, AlertsSends
  <2>2. alerts_row'[n] = alerts_row[n] /\ n \notin alerts_muted BY <2>1 DEF A!Blocked
  <2>3. PICK v \in Instance : alerts_worker[v].member = n /\ AlertsSends(alerts_worker[v])
    BY <2>1, <2>2 DEF AlertsInv, A!QuietMeansAlerted, A!Blocked, AlertsSends
  <2>4. v # w BY <2>1, <2>3 DEF A!Blocked
  <2>. QED BY <1>1, <2>3, <2>4
<1>7. (\A v \in Instance : AlertsFine(alerts_worker[v]))' BY <1>1 DEF AlertsFine
<1>. QED BY <1>2, <1>3, <1>4, <1>5, <1>6, <1>7 DEF AlertsInv

LEMMA AlertsReleaseStep == ASSUME AlertsInv, NEW w \in Instance, A!Release(w) PROVE AlertsInv'
<1> DEFINE m == alerts_worker[w].member
           d == [A!NoRow EXCEPT !.status = "released"]
<1>0. A!TypeOK /\ m \in Thing /\ AlertsSends(alerts_worker[w]) /\ UNCHANGED <<alerts_on, alerts_posted, alerts_lost>>
      /\ alerts_row \in [Thing -> AlertsRow] /\ d \in AlertsRow /\ d.status = "released"
  BY DEF AlertsInv, A!TypeOK, A!Release, AlertsFine, AlertsSends, AlertsRow, AlertsStatuses, A!NoRow
<1>1. alerts_faults' \in Nat /\ alerts_muted' \in SUBSET Thing /\ alerts_muted \subseteq alerts_muted'
  BY <1>0, AlertsFaultTypes DEF A!Release, A!TypeOK
<1>2. PICK r : r \in AlertsTask /\ AlertsFine(r) /\ ~AlertsSends(r) /\ A!Put(w, r)
  <2>1. [A!Idle EXCEPT !.pc = "undo", !.scan = TRUE] \in AlertsTask /\ A!Idle \in AlertsTask
        /\ AlertsFine(A!Idle) /\ ~AlertsSends(A!Idle)
    BY DEF AlertsTask, AlertsSteps, A!Idle, AlertsFine, AlertsSends
  <2>2. AlertsFine([A!Idle EXCEPT !.pc = "undo", !.scan = TRUE])
        /\ ~AlertsSends([A!Idle EXCEPT !.pc = "undo", !.scan = TRUE])
    BY DEF A!Idle, AlertsFine, AlertsSends
  <2>. QED BY <2>1, <2>2 DEF A!Release, A!Thrown
<1>3. CASE alerts_row' = [alerts_row EXCEPT ![m] = d] /\ UNCHANGED alerts_muted
  <2>1. /\ alerts_row' \in [Thing -> AlertsRow] /\ alerts_row'[m] = d
        /\ \A n \in Thing \ {m} : alerts_row'[n] = alerts_row[n]
    BY <1>0, <1>3
  <2>. HIDE DEF d
  <2>. QED BY <1>0, <1>1, <1>2, <2>1, AlertsEndOfSend
<1>4. CASE UNCHANGED alerts_row /\ alerts_muted' = alerts_muted \cup {m}
  BY <1>0, <1>1, <1>2, <1>4, AlertsEndOfSend
<1>. QED BY <1>3, <1>4 DEF A!Release

LEMMA AlertsCrashStep == ASSUME AlertsInv, NEW w \in Instance, A!Crash(w) PROVE AlertsInv'
<1> DEFINE r == [A!Idle EXCEPT !.pc = "boot"]
<1>0. /\ A!TypeOK /\ alerts_row \in [Thing -> AlertsRow]
      /\ UNCHANGED <<alerts_on, alerts_row, alerts_posted, alerts_lost>>
      /\ (AlertsSends(alerts_worker[w]) => alerts_worker[w].member \in Thing)
  BY DEF AlertsInv, A!TypeOK, A!Crash, AlertsRow, AlertsStatuses, AlertsFine, AlertsSends
<1>1. r \in AlertsTask /\ AlertsFine(r) /\ ~AlertsSends(r) /\ A!Put(w, r)
  BY DEF A!Crash, AlertsTask, AlertsSteps, A!Idle, AlertsFine, AlertsSends
<1>2. /\ alerts_faults' \in Nat /\ alerts_muted' \in SUBSET Thing /\ alerts_muted \subseteq alerts_muted'
      /\ AlertsSends(alerts_worker[w]) => alerts_worker[w].member \in alerts_muted'
  BY <1>0, AlertsFaultTypes DEF A!Crash, A!TypeOK, AlertsSends
<1>. HIDE DEF r
<1>. QED BY <1>0, <1>1, <1>2, AlertsEndOfSend

-----------------------------------------------------------------------------
(* Time and the reconciliation keep each token, and what is refused.       *)
LEMMA AlertsAging ==
    ASSUME AlertsInv, alerts_row' \in [Thing -> AlertsRow], UNCHANGED <<alerts_posted, alerts_lost, alerts_muted>>,
           \A n \in Thing : /\ alerts_row'[n].token = alerts_row[n].token
                            /\ \/ alerts_row'[n].status = alerts_row[n].status
                               \/ alerts_row[n].status = "sending" /\ alerts_row'[n].status = "unconfirmed",
           \A v \in Instance : AlertsSends(alerts_worker'[v]) <=> AlertsSends(alerts_worker[v]),
           \A v \in Instance : AlertsSends(alerts_worker[v]) => alerts_worker'[v] = alerts_worker[v]
    PROVE  AlertsSenders' /\ AlertsPostedIsFinal' /\ A!AlertedOnce' /\ A!QuietMeansAlerted'
<1>1. AlertsSenders'
  <2>1. SUFFICES ASSUME NEW v \in Instance, AlertsSends(alerts_worker'[v])
                 PROVE  /\ alerts_row'[alerts_worker'[v].member].token = v
                        /\ alerts_row'[alerts_worker'[v].member].status \in {"sending", "unconfirmed"}
                        /\ alerts_posted[alerts_worker'[v].member] = 0 \/ alerts_worker'[v].member \in alerts_lost
    BY DEF AlertsSenders, AlertsOwned
  <2>2. alerts_worker'[v] = alerts_worker[v] /\ AlertsSends(alerts_worker[v]) /\ alerts_worker[v].member \in Thing
    BY <2>1 DEF AlertsInv, AlertsFine, AlertsSends
  <2>. QED BY <2>2 DEF AlertsInv, AlertsSenders, AlertsOwned
<1>2. \A n \in Thing : A!Blocked(n)' <=> A!Blocked(n) BY DEF A!Blocked
<1>3. AlertsPostedIsFinal' /\ A!AlertedOnce' BY <1>2 DEF AlertsInv, AlertsPostedIsFinal, A!AlertedOnce
<1>4. A!QuietMeansAlerted' BY <1>2 DEF AlertsInv, A!QuietMeansAlerted, AlertsSends
<1>. QED BY <1>1, <1>3, <1>4

LEMMA AlertsReconcileStep == ASSUME AlertsInv, NEW w \in Instance, A!Reconcile(w) PROVE AlertsInv'
<1>0. A!TypeOK /\ alerts_row \in [Thing -> AlertsRow] /\ alerts_faults \in Nat
      /\ UNCHANGED <<alerts_on, alerts_posted, alerts_lost, alerts_muted>> /\ ~AlertsSends(alerts_worker[w])
  BY DEF AlertsInv, A!TypeOK, A!Reconcile, AlertsRow, AlertsStatuses, AlertsSends
<1>1. /\ alerts_worker' \in [Instance -> AlertsTask] /\ \A v \in Instance : AlertsFine(alerts_worker'[v])
      /\ alerts_worker'[w] = A!Idle /\ \A v \in Instance \ {w} : alerts_worker'[v] = alerts_worker[v]
  BY AlertsNextTypes, AlertsPutTypes DEF AlertsInv, A!Reconcile
<1>2. alerts_faults' \in Nat BY <1>0, AlertsFaultTypes DEF A!Reconcile
<1>3. /\ alerts_row' \in [Thing -> AlertsRow]
      /\ \A n \in Thing : /\ alerts_row'[n].token = alerts_row[n].token
                          /\ \/ alerts_row'[n].status = alerts_row[n].status
                             \/ alerts_row[n].status = "sending" /\ alerts_row'[n].status = "unconfirmed"
  <2>1. CASE UNCHANGED alerts_row
    BY <1>0, <2>1
  <2>2. CASE alerts_row' = [n \in Thing |-> IF alerts_row[n].status = "sending" /\ alerts_row[n].old
                                            THEN [alerts_row[n] EXCEPT !.status = "unconfirmed", !.old = FALSE]
                                            ELSE alerts_row[n]]
    <3>1. ASSUME NEW r \in AlertsRow
          PROVE  LET e == [r EXCEPT !.status = "unconfirmed", !.old = FALSE]
                 IN  e \in AlertsRow /\ e.token = r.token /\ e.status = "unconfirmed"
      BY DEF AlertsRow, AlertsStatuses
    <3> QED
      BY <1>0, <2>2, <3>1
  <2> QED
    BY <2>1, <2>2 DEF A!Reconcile
<1>4. \A v \in Instance : /\ AlertsSends(alerts_worker'[v]) <=> AlertsSends(alerts_worker[v])
                          /\ AlertsSends(alerts_worker[v]) => alerts_worker'[v] = alerts_worker[v]
  BY <1>0, <1>1 DEF A!Idle, AlertsSends
<1>5. AlertsSenders' /\ AlertsPostedIsFinal' /\ A!AlertedOnce' /\ A!QuietMeansAlerted'
  BY <1>0, <1>3, <1>4, AlertsAging
<1>6. A!TypeOK' BY <1>0, <1>1, <1>2, <1>3 DEF A!TypeOK, AlertsTask, AlertsSteps, AlertsRow, AlertsStatuses
<1>7. (\A v \in Instance : AlertsFine(alerts_worker[v]))' BY <1>1 DEF AlertsFine
<1>. QED BY <1>5, <1>6, <1>7 DEF AlertsInv

LEMMA AlertsTimeStep == ASSUME AlertsInv, NEW m \in Thing, A!TimePasses(m) PROVE AlertsInv'
<1>0. /\ A!TypeOK /\ alerts_row \in [Thing -> AlertsRow]
      /\ UNCHANGED <<alerts_on, alerts_worker, alerts_posted, alerts_lost, alerts_muted, alerts_faults>>
  BY DEF AlertsInv, A!TypeOK, A!TimePasses, AlertsRow, AlertsStatuses
<1>1. /\ alerts_row' \in [Thing -> AlertsRow]
      /\ \A n \in Thing : alerts_row'[n].token = alerts_row[n].token /\ alerts_row'[n].status = alerts_row[n].status
  BY <1>0 DEF A!TimePasses, AlertsRow
<1>2. AlertsSenders' /\ AlertsPostedIsFinal' /\ A!AlertedOnce' /\ A!QuietMeansAlerted' BY <1>0, <1>1, AlertsAging
<1>3. A!TypeOK' BY <1>0, <1>1 DEF A!TypeOK, AlertsRow, AlertsStatuses
<1>4. (\A v \in Instance : AlertsFine(alerts_worker[v]))' BY <1>0 DEF AlertsInv, AlertsFine
<1>. QED BY <1>2, <1>3, <1>4 DEF AlertsInv

-----------------------------------------------------------------------------
LEMMA AlertsInitInv == A!Init => AlertsInv
<1> SUFFICES ASSUME A!Init PROVE AlertsInv OBVIOUS
<1>1. A!TypeOK
  <2>1. A!NoRow \in AlertsRow /\ A!Idle \in AlertsTask
    BY DEF AlertsRow, AlertsStatuses, AlertsTask, AlertsSteps, A!NoRow, A!Idle
  <2>2. alerts_row \in [Thing -> AlertsRow] /\ alerts_worker \in [Instance -> AlertsTask] BY <2>1 DEF A!Init
  <2>3. alerts_faults \in Nat /\ alerts_posted \in [Thing -> Nat] BY DEF A!Init
  <2>. QED BY <2>2, <2>3 DEF A!Init, A!TypeOK, AlertsRow, AlertsStatuses, AlertsTask, AlertsSteps
<1>2. \A w \in Instance : AlertsFine(alerts_worker[w]) /\ ~AlertsSends(alerts_worker[w])
  BY DEF A!Init, A!Idle, AlertsFine, AlertsSends
<1>3. \A m \in Thing : alerts_posted[m] = 0 /\ ~A!Blocked(m) BY DEF A!Init, A!NoRow, A!Blocked
<1>. QED BY <1>1, <1>2, <1>3 DEF AlertsInv, AlertsSenders, AlertsPostedIsFinal, A!AlertedOnce, A!QuietMeansAlerted

LEMMA AlertsNextInv == AlertsInv /\ [A!Next]_(A!vars) => AlertsInv'
<1> SUFFICES ASSUME AlertsInv, [A!Next]_(A!vars) PROVE AlertsInv' OBVIOUS
<1>1. CASE UNCHANGED A!vars
  BY <1>1 DEF A!vars, AlertsInv, A!TypeOK, AlertsFine, AlertsSenders, AlertsOwned, AlertsPostedIsFinal, A!AlertedOnce,
     A!QuietMeansAlerted, A!Blocked
<1>2. CASE A!Stop
  <2>1. /\ alerts_on' \in BOOLEAN
        /\ UNCHANGED <<alerts_row, alerts_worker, alerts_posted, alerts_lost, alerts_muted, alerts_faults>>
    BY <1>2 DEF A!Stop
  <2>. QED
    BY <2>1 DEF AlertsInv, A!TypeOK, AlertsFine, AlertsSenders, AlertsOwned, AlertsPostedIsFinal, A!AlertedOnce,
       A!QuietMeansAlerted, A!Blocked
<1>3. CASE \E m \in Thing : A!TimePasses(m) BY <1>3, AlertsTimeStep
<1>4. ASSUME NEW w \in Instance,
             \/ A!Start(w) \/ A!Enable(w) \/ A!FetchFails(w) \/ A!NextMember(w) \/ A!ChannelFails(w)
             \/ A!Undo(w) \/ \E m \in Thing : A!Join(w, m)
      PROVE  AlertsInv'
  BY <1>4, AlertsCommandSteps
<1>5. ASSUME NEW w \in Instance,
             \/ A!Claim(w) \/ A!BeginSend(w) \/ A!Send(w) \/ A!Release(w) \/ A!MarkDelivered(w)
             \/ A!MarkSentUnconfirmed(w) \/ A!Crash(w) \/ A!Reconcile(w)
      PROVE  AlertsInv'
  BY <1>5, AlertsClaimStep, AlertsBeginSendStep, AlertsSendStep, AlertsReleaseStep, AlertsMarkStep,
      AlertsCrashStep, AlertsReconcileStep
<1>. QED BY <1>1, <1>2, <1>3, <1>4, <1>5 DEF A!Next

(* The invariant holds in every behaviour of joins, starts and restarts.   *)
THEOREM AlertsInvariant == A!Spec => []AlertsInv
BY AlertsInitInv, AlertsNextInv, PTL DEF A!Spec

(* Whatever joins, scans, leases and restarts overlap, a member is alerted *)
(* about once, unless a send threw although Discord had taken it.          *)
THEOREM AlertedOnceHolds == A!Spec => []A!AlertedOnce
<1>1. AlertsInv => A!AlertedOnce BY DEF AlertsInv
<1>. QED BY <1>1, AlertsInvariant, PTL

(* A document refuses every later claim only when its alert was posted, is *)
(* being sent, or a fault the code cannot see through has closed it.       *)
THEOREM QuietMeansAlertedHolds == A!Spec => []A!QuietMeansAlerted
<1>1. AlertsInv => A!QuietMeansAlerted BY DEF AlertsInv
<1>. QED BY <1>1, AlertsInvariant, PTL

-----------------------------------------------------------------------------
(* The settings cache.  The database shows a value no longer ago than the  *)
(* ages of what was read of it and of what is cached; a copy that is there *)
(* stays, so an answer put together from two collections at two moments is *)
(* one that the database gave.                                             *)
SettingsNumbers == 0 .. MaxWrites
SettingsCopies == {S!Unread, S!None} \cup SettingsNumbers
SettingsLegacies == {S!Unread, S!None, 0}

(* What a field reads as, the copy c being read; the document of before    *)
(* the slices had but the default.                                         *)
SettingsSeen(c) == IF c \in SettingsNumbers THEN c ELSE 0

(* What is cached was shown no longer ago than its age says, and so was    *)
(* what a read has so far.                                                 *)
SettingsKeptEntry(e) == e.there => settings_shown.s[e.s] <= e.age /\ settings_shown.r[e.r] <= e.age
SettingsReadSoFar(r) ==
    /\ r.s \in SettingsLegacies
    /\ r.r # S!Unread => r.s # S!Unread
    /\ r.pc = "backfill" => r.s = 0
    /\ r.pc = "repair" => r.r # S!Unread /\ r.copy # S!Unread
    /\ r.pc \in {"load", "repair"} =>
         /\ r.r # S!Unread => settings_shown.r[r.r] <= r.age
         /\ r.copy # S!Unread => settings_shown.s[SettingsSeen(r.copy)] <= r.age

SettingsInv ==
    /\ S!TypeOK
    /\ settings_legacy.s \in {S!None, 0}
    /\ settings_shown.s[SettingsSeen(settings_copy)] = 0 /\ settings_shown.r[settings_legacy.r] = 0
    /\ \A p \in Instance : SettingsKeptEntry(settings_cache[p]) /\ SettingsReadSoFar(settings_reading[p])

LEMMA SettingsNumbering ==
    ASSUME S!SettingsAssumption
    PROVE  /\ S!Unread \notin S!Value /\ S!None \notin SettingsNumbers /\ S!Unread \notin SettingsNumbers
           /\ S!None # S!Unread
           /\ SettingsNumbers \subseteq Nat /\ 0 \in SettingsNumbers /\ S!Age \subseteq Nat /\ 0 \in S!Age
           /\ TTL \in S!Age
           /\ S!Value = {S!None} \cup SettingsNumbers
           /\ \A c \in SettingsCopies : SettingsSeen(c) \in SettingsNumbers
BY DEF S!SettingsAssumption, S!Unread, S!None, S!Value, SettingsNumbers, S!Age, SettingsSeen, SettingsCopies

LEMMA SettingsShownTypes ==
    ASSUME S!SettingsAssumption, S!TypeOK
    PROVE  /\ settings_shown = [s |-> settings_shown.s, r |-> settings_shown.r]
           /\ settings_shown.s \in [SettingsNumbers -> S!Age] /\ settings_shown.r \in [SettingsNumbers -> S!Age]
           /\ \A v \in SettingsNumbers : settings_shown.s[v] \in Nat /\ settings_shown.r[v] \in Nat
BY SettingsNumbering DEF S!TypeOK, SettingsNumbers

LEMMA SettingsMergeSeen ==
    ASSUME S!SettingsAssumption, NEW s \in {S!None, 0}, NEW c \in S!Value
    PROVE  S!Merge(s, c) = SettingsSeen(c) /\ SettingsSeen(c) \in SettingsNumbers
BY SettingsNumbering DEF S!Merge, SettingsSeen

(* When nothing is shown longer ago than before, what was kept stays so.   *)
SettingsFresher ==
    \A v \in SettingsNumbers : settings_shown'.s[v] <= settings_shown.s[v]
      /\ settings_shown'.r[v] <= settings_shown.r[v]

LEMMA SettingsEntryStays ==
    ASSUME S!SettingsAssumption, S!TypeOK, S!TypeOK', SettingsFresher, NEW e \in S!Entry, SettingsKeptEntry(e)
    PROVE  e.there => settings_shown'.s[e.s] <= e.age /\ settings_shown'.r[e.r] <= e.age
<1>1. e.s \in SettingsNumbers /\ e.r \in SettingsNumbers /\ e.age \in Nat
  BY SettingsNumbering DEF S!Entry, SettingsNumbers
<1>2. \A v \in SettingsNumbers : /\ settings_shown.s[v] \in Nat /\ settings_shown.r[v] \in Nat
                                 /\ settings_shown'.s[v] \in Nat /\ settings_shown'.r[v] \in Nat
  BY SettingsNumbering DEF S!TypeOK, SettingsNumbers
<1> QED
  BY <1>1, <1>2 DEF SettingsKeptEntry, SettingsFresher

SettingsSoFarNext(r) ==
    /\ r.s \in SettingsLegacies
    /\ r.r # S!Unread => r.s # S!Unread
    /\ r.pc = "backfill" => r.s = 0
    /\ r.pc = "repair" => r.r # S!Unread /\ r.copy # S!Unread
    /\ r.pc \in {"load", "repair"} =>
         /\ r.r # S!Unread => settings_shown'.r[r.r] <= r.age
         /\ r.copy # S!Unread => settings_shown'.s[SettingsSeen(r.copy)] <= r.age
SettingsKeptNext(e) == e.there => settings_shown'.s[e.s] <= e.age /\ settings_shown'.r[e.r] <= e.age

LEMMA SettingsReadTypes ==
    ASSUME S!SettingsAssumption, NEW r \in S!Reading
    PROVE  /\ r.copy \in SettingsCopies /\ SettingsSeen(r.copy) \in SettingsNumbers
           /\ r.r \in SettingsNumbers \cup {S!Unread} /\ r.age \in S!Age /\ r.age \in Nat
BY SettingsNumbering DEF S!Reading, SettingsCopies, SettingsNumbers

LEMMA SettingsReadStays ==
    ASSUME S!SettingsAssumption, S!TypeOK, S!TypeOK', SettingsFresher, NEW r \in S!Reading, SettingsReadSoFar(r)
    PROVE  SettingsSoFarNext(r)
<1>1. /\ r.copy \in SettingsCopies /\ SettingsSeen(r.copy) \in SettingsNumbers
      /\ r.r \in SettingsNumbers \cup {S!Unread} /\ r.age \in Nat
  BY SettingsReadTypes
<1>2. \A v \in SettingsNumbers : /\ settings_shown.s[v] \in Nat /\ settings_shown.r[v] \in Nat
                                 /\ settings_shown'.s[v] \in Nat /\ settings_shown'.r[v] \in Nat
  BY SettingsNumbering DEF S!TypeOK, SettingsNumbers
<1> QED
  BY <1>1, <1>2 DEF SettingsReadSoFar, SettingsSoFarNext, SettingsFresher

LEMMA SettingsGather ==
    ASSUME S!TypeOK',
           settings_legacy'.s \in {S!None, 0}, settings_shown'.s[SettingsSeen(settings_copy')] = 0,
           settings_shown'.r[settings_legacy'.r] = 0,
           \A p \in Instance : SettingsKeptNext(settings_cache'[p]) /\ SettingsSoFarNext(settings_reading'[p])
    PROVE  SettingsInv'
BY DEF SettingsInv, SettingsKeptEntry, SettingsReadSoFar, SettingsKeptNext, SettingsSoFarNext, SettingsSeen,
    SettingsLegacies, SettingsNumbers, S!Unread, S!None

(* What a read begins and ends as.                                         *)
LEMMA SettingsIdleRead ==
    ASSUME S!SettingsAssumption, NEW pc \in {"idle", "load", "find legacy"}
    PROVE  /\ [S!NotReading EXCEPT !.pc = pc] \in S!Reading /\ SettingsSoFarNext([S!NotReading EXCEPT !.pc = pc])
           /\ S!NotReading \in S!Reading /\ SettingsSoFarNext(S!NotReading)
BY SettingsNumbering DEF S!NotReading, S!Reading, SettingsSoFarNext, SettingsLegacies, SettingsNumbers

LEMMA SettingsNoEntryKept == ASSUME S!SettingsAssumption PROVE S!NoEntry \in S!Entry /\ SettingsKeptNext(S!NoEntry)
BY SettingsNumbering DEF S!NoEntry, S!Entry, SettingsKeptNext, SettingsNumbers

LEMMA SettingsFaultTypes == ASSUME S!SettingsAssumption, S!TypeOK, S!Fault PROVE settings_faults' \in 0 .. MaxFaults
BY DEF S!SettingsAssumption, S!TypeOK, S!Fault

(* The steps that write neither collection.                                *)
LEMMA SettingsOffDatabase ==
    ASSUME S!SettingsAssumption, SettingsInv, UNCHANGED S!db,
           settings_remote' \in SUBSET Instance, settings_last' \in 0 .. MaxWrites,
           settings_faults' \in 0 .. MaxFaults,
           settings_writing' \in [Instance -> S!Writing], settings_cache' \in [Instance -> S!Entry],
           settings_reading' \in [Instance -> S!Reading],
           \A p \in Instance : settings_cache'[p] = settings_cache[p] \/ SettingsKeptNext(settings_cache'[p]),
           \A p \in Instance : settings_reading'[p] = settings_reading[p] \/ SettingsSoFarNext(settings_reading'[p])
    PROVE  SettingsInv'
<1>1. settings_legacy' = settings_legacy /\ settings_copy' = settings_copy /\ settings_shown' = settings_shown
  BY DEF S!db
<1>2. S!TypeOK'
  BY <1>1 DEF SettingsInv, S!TypeOK
<1>3. SettingsFresher
  BY <1>1, SettingsShownTypes DEF SettingsFresher, SettingsInv
<1>4. ASSUME NEW p \in Instance PROVE SettingsKeptNext(settings_cache'[p]) /\ SettingsSoFarNext(settings_reading'[p])
  <2>1. /\ settings_cache[p] \in S!Entry /\ settings_reading[p] \in S!Reading /\ SettingsKeptEntry(settings_cache[p])
        /\ SettingsReadSoFar(settings_reading[p])
    BY DEF SettingsInv, S!TypeOK
  <2>2. SettingsKeptNext(settings_cache[p])
    BY <2>1, <1>2, <1>3, SettingsEntryStays DEF SettingsInv, SettingsKeptNext
  <2>3. SettingsSoFarNext(settings_reading[p])
    BY <2>1, <1>2, <1>3, SettingsReadStays DEF SettingsInv
  <2> QED
    BY <2>2, <2>3
<1> QED
  BY <1>1, <1>2, <1>4, SettingsGather DEF SettingsInv

(* The steps that write a collection.                                      *)
LEMMA SettingsOnDatabase ==
    ASSUME S!SettingsAssumption, SettingsInv,
           NEW l \in [there : BOOLEAN, s : {S!None, 0}, r : SettingsNumbers], NEW c \in S!Value, S!Stored(l, c),
           UNCHANGED <<settings_cache, settings_remote, settings_last>>, settings_faults' \in 0 .. MaxFaults,
           settings_writing' \in [Instance -> S!Writing], settings_reading' \in [Instance -> S!Reading],
           \A p \in Instance : settings_reading'[p] = settings_reading[p] \/ SettingsSoFarNext(settings_reading'[p])
                               \/ (SettingsReadSoFar(settings_reading[p]) => SettingsReadSoFar(settings_reading'[p]))
    PROVE  SettingsInv'
<1>1. settings_legacy' = l /\ settings_copy' = c /\ l.s \in {S!None, 0} /\ l.r \in SettingsNumbers /\ l.s \in S!Value
  BY SettingsNumbering DEF S!Stored
<1>2. S!Merge(l.s, c) = SettingsSeen(c) /\ SettingsSeen(c) \in SettingsNumbers
  BY <1>1, SettingsMergeSeen
<1> DEFINE Sh == [settings_shown.s EXCEPT ![SettingsSeen(c)] = 0]
           Rh == [settings_shown.r EXCEPT ![l.r] = 0]
<1>3. settings_shown' = [s |-> Sh, r |-> Rh]
  BY <1>2 DEF S!Stored
<1>4. Sh \in [SettingsNumbers -> S!Age] /\ Rh \in [SettingsNumbers -> S!Age] /\ Sh[SettingsSeen(c)] = 0 /\ Rh[l.r] = 0
  BY <1>1, <1>2, SettingsShownTypes, SettingsNumbering DEF SettingsInv
<1>5. \A v \in SettingsNumbers : Sh[v] <= settings_shown.s[v] /\ Rh[v] <= settings_shown.r[v]
  BY <1>1, <1>2, SettingsShownTypes, SettingsNumbering DEF SettingsInv
<1> HIDE DEF Sh, Rh
<1>6. S!TypeOK'
  BY <1>1, <1>3, <1>4 DEF SettingsInv, S!TypeOK, SettingsNumbers
<1>7. SettingsFresher
  BY <1>3, <1>5 DEF SettingsFresher
<1>8. ASSUME NEW p \in Instance PROVE SettingsKeptNext(settings_cache'[p]) /\ SettingsSoFarNext(settings_reading'[p])
  <2>1. /\ settings_cache[p] \in S!Entry /\ settings_reading[p] \in S!Reading /\ SettingsKeptEntry(settings_cache[p])
        /\ SettingsReadSoFar(settings_reading[p])
        /\ settings_reading'[p] \in S!Reading
    BY DEF SettingsInv, S!TypeOK
  <2>2. SettingsKeptNext(settings_cache[p])
    BY <2>1, <1>6, <1>7, SettingsEntryStays DEF SettingsInv, SettingsKeptNext
  <2>3. SettingsReadSoFar(settings_reading[p])
          /\ settings_reading'[p] = settings_reading[p] => SettingsSoFarNext(settings_reading'[p])
    BY <2>1, <1>6, <1>7, SettingsReadStays DEF SettingsInv
  <2>4. SettingsReadSoFar(settings_reading'[p]) => SettingsSoFarNext(settings_reading'[p])
    BY <2>1, <1>6, <1>7, SettingsReadStays DEF SettingsInv
  <2> QED
    BY <2>1, <2>2, <2>3, <2>4
<1>9. settings_shown'.s[SettingsSeen(settings_copy')] = 0 /\ settings_shown'.r[settings_legacy'.r] = 0
  BY <1>1, <1>3, <1>4
<1> QED
  BY <1>1, <1>6, <1>8, <1>9, SettingsGather DEF SettingsInv

LEMMA SettingsPutRead ==
    ASSUME S!SettingsAssumption, SettingsInv, NEW p \in Instance, NEW r \in S!Reading,
           settings_reading' = [settings_reading EXCEPT ![p] = r]
    PROVE  /\ settings_reading' \in [Instance -> S!Reading] /\ settings_reading'[p] = r
           /\ \A q \in Instance \ {p} : settings_reading'[q] = settings_reading[q]
BY DEF SettingsInv, S!TypeOK

LEMMA SettingsPutWriting ==
    ASSUME SettingsInv, NEW p \in Instance, NEW w \in S!Writing,
           settings_writing' = [settings_writing EXCEPT ![p] = w]
    PROVE  settings_writing' \in [Instance -> S!Writing]
BY DEF SettingsInv, S!TypeOK

(* The reads.                                                              *)
LEMMA SettingsBeginStep ==
    ASSUME S!SettingsAssumption, SettingsInv, NEW p \in Instance, S!BeginRead(p) \/ S!BeginFind(p)
    PROVE  SettingsInv'
<1>1. PICK pc \in {"load", "find legacy"} : settings_reading' =
             [settings_reading EXCEPT ![p] = [S!NotReading EXCEPT !.pc = pc]]
  BY DEF S!BeginRead, S!BeginFind
<1> DEFINE q == [S!NotReading EXCEPT !.pc = pc]
<1>2. q \in S!Reading /\ SettingsSoFarNext(q)
  BY SettingsIdleRead
<1> HIDE DEF q
<1>3. settings_reading' = [settings_reading EXCEPT ![p] = q]
  BY <1>1 DEF q
<1>4. /\ settings_reading' \in [Instance -> S!Reading] /\ settings_reading'[p] = q
      /\ \A k \in Instance \ {p} : settings_reading'[k] = settings_reading[k]
  BY <1>2, <1>3, SettingsPutRead
<1>5. UNCHANGED <<S!db, settings_cache, settings_writing, settings_remote, settings_last, settings_faults>>
  BY DEF S!BeginRead, S!BeginFind
<1> QED
  BY <1>2, <1>4, <1>5, SettingsOffDatabase DEF SettingsInv, S!TypeOK

LEMMA SettingsShownStays ==
    ASSUME S!SettingsAssumption, SettingsInv, UNCHANGED S!db, NEW r, SettingsReadSoFar(r)
    PROVE  SettingsSoFarNext(r)
BY DEF SettingsReadSoFar, SettingsSoFarNext, S!db

LEMMA SettingsLoadLegacyStep ==
    ASSUME S!SettingsAssumption, SettingsInv, NEW p \in Instance, S!LoadLegacy(p)
    PROVE  SettingsInv'
<1>1. settings_reading[p] \in S!Reading /\ SettingsReadSoFar(settings_reading[p]) /\ UNCHANGED S!db
      /\ settings_legacy.s \in {S!None, 0} /\ settings_legacy.r \in SettingsNumbers
      /\ settings_shown.r[settings_legacy.r] = 0
  BY DEF SettingsInv, S!TypeOK, S!LoadLegacy, SettingsNumbers
<1> DEFINE place == IF settings_reading[p].pc = "load" THEN "load" ELSE IF settings_legacy.s = S!None THEN "idle"
             ELSE "backfill"
           q == [settings_reading[p] EXCEPT !.s = settings_legacy.s, !.r = settings_legacy.r, !.pc = place]
<1>2. settings_reading' = [settings_reading EXCEPT ![p] = q]
  BY DEF S!LoadLegacy
<1>3. /\ q \in S!Reading /\ q.s = settings_legacy.s /\ q.r = settings_legacy.r /\ q.pc = place
      /\ q.copy = settings_reading[p].copy /\ q.age = settings_reading[p].age
  BY <1>1, SettingsNumbering DEF S!Reading, SettingsNumbers
<1>4. place \in {"load", "idle", "backfill"} /\ (place = "load" <=> settings_reading[p].pc = "load")
      /\ (place = "backfill" => settings_legacy.s # S!None)
  OBVIOUS
<1> HIDE DEF q, place
<1>5. SettingsSoFarNext(q)
  BY <1>1, <1>3, <1>4, SettingsShownStays, SettingsReadTypes, SettingsNumbering DEF SettingsReadSoFar,
      SettingsSoFarNext, SettingsLegacies, S!db
<1>6. /\ settings_reading' \in [Instance -> S!Reading] /\ settings_reading'[p] = q
      /\ \A k \in Instance \ {p} : settings_reading'[k] = settings_reading[k]
  BY <1>2, <1>3, SettingsPutRead
<1> QED
  BY <1>1, <1>5, <1>6, SettingsOffDatabase DEF S!LoadLegacy, SettingsInv, S!TypeOK

LEMMA SettingsLoadCopyStep ==
    ASSUME S!SettingsAssumption, SettingsInv, NEW p \in Instance, S!LoadCopy(p)
    PROVE  SettingsInv'
<1>1. /\ settings_reading[p] \in S!Reading /\ SettingsReadSoFar(settings_reading[p]) /\ UNCHANGED S!db
      /\ settings_copy \in S!Value /\ settings_shown.s[SettingsSeen(settings_copy)] = 0
  BY DEF SettingsInv, S!TypeOK, S!LoadCopy
<1> DEFINE q == [settings_reading[p] EXCEPT !.copy = settings_copy]
<1>2. settings_reading' = [settings_reading EXCEPT ![p] = q] /\ settings_reading[p].pc = "load"
  BY <1>1 DEF S!LoadCopy, S!Reading
<1>3. /\ q \in S!Reading /\ q.s = settings_reading[p].s /\ q.r = settings_reading[p].r
      /\ q.pc = settings_reading[p].pc
      /\ q.copy = settings_copy /\ q.age = settings_reading[p].age
  BY <1>1, SettingsNumbering DEF S!Reading
<1> HIDE DEF q
<1>4. SettingsSoFarNext(q)
  BY <1>1, <1>2, <1>3, SettingsReadTypes, SettingsNumbering DEF SettingsReadSoFar, SettingsSoFarNext, S!db
<1>5. /\ settings_reading' \in [Instance -> S!Reading] /\ settings_reading'[p] = q
      /\ \A k \in Instance \ {p} : settings_reading'[k] = settings_reading[k]
  BY <1>2, <1>3, SettingsPutRead
<1> QED
  BY <1>1, <1>4, <1>5, SettingsOffDatabase DEF S!LoadCopy, SettingsInv, S!TypeOK

LEMMA SettingsLegacyType ==
    ASSUME S!SettingsAssumption, SettingsInv
    PROVE  settings_legacy \in [there : BOOLEAN, s : {S!None, 0}, r : SettingsNumbers]
BY DEF SettingsInv, S!TypeOK, SettingsNumbers

LEMMA SettingsRepairStep ==
    ASSUME S!SettingsAssumption, SettingsInv, NEW p \in Instance, S!Repair(p)
    PROVE  SettingsInv'
<1>1. /\ settings_reading[p] \in S!Reading /\ SettingsReadSoFar(settings_reading[p]) /\ S!Loaded(p)
      /\ settings_reading[p].s # S!None
  BY DEF SettingsInv, S!TypeOK, S!Repair, S!Missing
<1> DEFINE q == [settings_reading[p] EXCEPT !.pc = "repair"]
<1>2. settings_reading' = [settings_reading EXCEPT ![p] = q]
  BY <1>1 DEF S!Repair, S!Reading
<1>3. /\ q \in S!Reading /\ q.s = settings_reading[p].s /\ q.r = settings_reading[p].r /\ q.pc = "repair"
      /\ q.copy = settings_reading[p].copy /\ q.age = settings_reading[p].age
  BY <1>1 DEF S!Reading
<1> HIDE DEF q
<1>4. SettingsReadSoFar(q)
  BY <1>1, <1>3 DEF SettingsReadSoFar, S!Loaded
<1>5. /\ settings_reading' \in [Instance -> S!Reading] /\ settings_reading'[p] = q
      /\ \A k \in Instance \ {p} : settings_reading'[k] = settings_reading[k]
  BY <1>2, <1>3, SettingsPutRead
<1>6. settings_reading[p].s = 0 /\ 0 \in S!Value
  BY <1>1, SettingsNumbering DEF SettingsReadSoFar, S!Loaded, SettingsLegacies
<1>7. CASE S!Stored(settings_legacy, settings_reading[p].s) /\ UNCHANGED settings_faults
  <2>1. /\ S!Stored(settings_legacy, 0) /\ UNCHANGED <<settings_cache, settings_remote, settings_last>>
        /\ settings_faults' \in 0 .. MaxFaults
        /\ settings_writing' \in [Instance -> S!Writing]
    BY <1>6, <1>7 DEF S!Repair, SettingsInv, S!TypeOK
  <2>2. \A k \in Instance : settings_reading'[k] = settings_reading[k]
          \/ (SettingsReadSoFar(settings_reading[k]) => SettingsReadSoFar(settings_reading'[k]))
    BY <1>4, <1>5
  <2> QED
    BY <1>5, <1>6, <2>1, <2>2, SettingsLegacyType, SettingsOnDatabase
<1>8. CASE S!Fault /\ UNCHANGED S!db
  <2>1. SettingsSoFarNext(q)
    BY <1>4, <1>8, SettingsShownStays
  <2>2. settings_faults' \in 0 .. MaxFaults
    BY <1>8, SettingsFaultTypes DEF SettingsInv
  <2> QED
    BY <1>5, <1>8, <2>1, <2>2, SettingsOffDatabase DEF S!Repair, SettingsInv, S!TypeOK
<1> QED
  BY <1>7, <1>8 DEF S!Repair

LEMMA SettingsFillStep ==
    ASSUME S!SettingsAssumption, SettingsInv, NEW p \in Instance, S!Fill(p)
    PROVE  SettingsInv'
<1>1. /\ settings_reading[p] \in S!Reading /\ SettingsReadSoFar(settings_reading[p]) /\ UNCHANGED S!db
      /\ settings_reading[p].pc \in {"load", "repair"}
      /\ settings_reading[p].r # S!Unread /\ settings_reading[p].copy # S!Unread
  BY DEF SettingsInv, S!TypeOK, S!Fill, S!Loaded, SettingsReadSoFar
<1>2. /\ settings_reading[p].s \in {S!None, 0} /\ settings_reading[p].copy \in S!Value
      /\ settings_reading[p].r \in SettingsNumbers /\ settings_reading[p].age \in S!Age
  BY <1>1, SettingsReadTypes DEF SettingsReadSoFar, SettingsLegacies, S!Reading
<1>3. /\ S!Merge(settings_reading[p].s, settings_reading[p].copy) = SettingsSeen(settings_reading[p].copy)
      /\ SettingsSeen(settings_reading[p].copy) \in SettingsNumbers
  BY <1>2, SettingsMergeSeen
<1> DEFINE f == [there |-> TRUE, r |-> settings_reading[p].r, age |-> settings_reading[p].age,
             s |-> SettingsSeen(settings_reading[p].copy)]
           e == S!Kept(f)
<1>4. settings_cache' = [settings_cache EXCEPT ![p] = e]
  BY <1>3 DEF S!Fill
<1>a. f \in S!Entry /\ SettingsKeptNext(f)
  BY <1>1, <1>2, <1>3 DEF S!Entry, SettingsKeptNext, SettingsReadSoFar, SettingsNumbers, S!db
<1> HIDE DEF f
<1>5. e \in S!Entry /\ SettingsKeptNext(e)
  BY <1>a, SettingsNoEntryKept DEF S!Kept
<1> HIDE DEF e
<1>6. /\ settings_cache' \in [Instance -> S!Entry]
      /\ \A k \in Instance : settings_cache'[k] = settings_cache[k] \/ SettingsKeptNext(settings_cache'[k])
  BY <1>4, <1>5 DEF SettingsInv, S!TypeOK
<1>7. /\ settings_reading' = [settings_reading EXCEPT ![p] = S!NotReading] /\ S!NotReading \in S!Reading
      /\ SettingsSoFarNext(S!NotReading)
  BY SettingsIdleRead DEF S!Fill
<1>8. /\ settings_reading' \in [Instance -> S!Reading]
      /\ \A k \in Instance : settings_reading'[k] = settings_reading[k] \/ SettingsSoFarNext(settings_reading'[k])
  BY <1>7 DEF SettingsInv, S!TypeOK
<1> QED
  BY <1>1, <1>6, <1>8, SettingsOffDatabase DEF S!Fill, SettingsInv, S!TypeOK

LEMMA SettingsBackfillStep ==
    ASSUME S!SettingsAssumption, SettingsInv, NEW p \in Instance, S!Backfill(p)
    PROVE  SettingsInv'
<1>1. settings_reading[p].s = 0 /\ 0 \in S!Value
  BY SettingsNumbering DEF S!Backfill, SettingsInv, SettingsReadSoFar
<1>2. /\ settings_reading' = [settings_reading EXCEPT ![p] = S!NotReading] /\ S!NotReading \in S!Reading
      /\ SettingsSoFarNext(S!NotReading)
  BY SettingsIdleRead DEF S!Backfill
<1>3. /\ settings_reading' \in [Instance -> S!Reading]
      /\ \A k \in Instance : settings_reading'[k] = settings_reading[k] \/ SettingsSoFarNext(settings_reading'[k])
  BY <1>2 DEF SettingsInv, S!TypeOK
<1> QED
  BY <1>1, <1>3, SettingsLegacyType, SettingsOnDatabase DEF S!Backfill, SettingsInv, S!TypeOK

(* The writes.                                                             *)
LEMMA SettingsBeginWriteStep ==
    ASSUME S!SettingsAssumption, SettingsInv, NEW p \in Instance, S!BeginWrite(p)
    PROVE  SettingsInv'
<1>1. settings_last' = settings_last + 1 /\ settings_last' \in 0 .. MaxWrites
  BY DEF S!BeginWrite, SettingsInv, S!TypeOK, S!SettingsAssumption
<1>2. PICK pc \in {"slice", "legacy"} : settings_writing' =
             [settings_writing EXCEPT ![p] = [pc |-> pc, v |-> settings_last']]
  BY <1>1 DEF S!BeginWrite
<1>3. [pc |-> pc, v |-> settings_last'] \in S!Writing
  BY <1>1 DEF S!Writing
<1>4. settings_writing' \in [Instance -> S!Writing]
  BY <1>2, <1>3, SettingsPutWriting
<1> QED
  BY <1>1, <1>4, SettingsOffDatabase DEF S!BeginWrite, SettingsInv, S!TypeOK

LEMMA SettingsWriteSliceStep ==
    ASSUME S!SettingsAssumption, SettingsInv, NEW p \in Instance, S!WriteSlice(p) \/ S!WriteMixed(p)
    PROVE  SettingsInv'
<1>1. settings_writing[p] \in S!Writing /\ settings_writing[p].v \in S!Value
  BY DEF SettingsInv, S!TypeOK, S!Writing, S!Value
<1> DEFINE q == [settings_writing[p] EXCEPT !.pc = "legacy"]
<1>2. q \in S!Writing /\ S!NotWriting \in S!Writing
  BY <1>1 DEF S!Writing, S!NotWriting, S!SettingsAssumption
<1>3. settings_writing' = [settings_writing EXCEPT ![p] = q]
        \/ settings_writing' = [settings_writing EXCEPT ![p] = S!NotWriting]
  BY <1>1 DEF S!WriteSlice, S!WriteMixed
<1> HIDE DEF q
<1>4. settings_writing' \in [Instance -> S!Writing]
  BY <1>2, <1>3, SettingsPutWriting
<1>5. /\ S!Stored(settings_legacy, settings_writing[p].v)
      /\ UNCHANGED <<settings_cache, settings_reading, settings_remote, settings_last, settings_faults>>
  BY DEF S!WriteSlice, S!WriteMixed
<1> QED
  BY <1>1, <1>4, <1>5, SettingsLegacyType, SettingsOnDatabase DEF SettingsInv, S!TypeOK

LEMMA SettingsWriteLegacyStep ==
    ASSUME S!SettingsAssumption, SettingsInv, NEW p \in Instance, S!WriteLegacy(p)
    PROVE  SettingsInv'
<1>1. settings_writing[p] \in S!Writing /\ settings_writing[p].v \in SettingsNumbers /\ settings_copy \in S!Value
  BY DEF SettingsInv, S!TypeOK, S!Writing, SettingsNumbers
<1> DEFINE q == [settings_writing[p] EXCEPT !.pc = "hook"]
           l == [settings_legacy EXCEPT !.there = TRUE, !.r = settings_writing[p].v,
               !.s = IF settings_legacy.there THEN settings_legacy.s ELSE 0]
<1>2. q \in S!Writing
  BY <1>1 DEF S!Writing
<1>3. l \in [there : BOOLEAN, s : {S!None, 0}, r : SettingsNumbers]
  BY <1>1, SettingsLegacyType
<1>4. settings_writing' = [settings_writing EXCEPT ![p] = q] /\ S!Stored(l, settings_copy)
  BY <1>1 DEF S!WriteLegacy
<1> HIDE DEF q, l
<1>5. settings_writing' \in [Instance -> S!Writing]
  BY <1>2, <1>4, SettingsPutWriting
<1>6. UNCHANGED <<settings_cache, settings_reading, settings_remote, settings_last, settings_faults>>
  BY DEF S!WriteLegacy
<1> QED
  BY <1>1, <1>3, <1>4, <1>5, <1>6, SettingsOnDatabase DEF SettingsInv, S!TypeOK

(* The entries that go, and the messages.                                  *)
LEMMA SettingsDropStep ==
    ASSUME S!SettingsAssumption, SettingsInv, NEW p \in Instance,
           S!Publish(p) \/ S!Deliver(p) \/ S!Lose(p) \/ S!Crash(p) \/ S!Evict(p)
    PROVE  SettingsInv'
<1>1. settings_cache' = [settings_cache EXCEPT ![p] = S!NoEntry] \/ UNCHANGED settings_cache
  BY DEF S!Publish, S!Deliver, S!Lose, S!Crash, S!Evict
<1>2. /\ settings_cache' \in [Instance -> S!Entry]
      /\ \A k \in Instance : settings_cache'[k] = settings_cache[k] \/ SettingsKeptNext(settings_cache'[k])
  BY <1>1, SettingsNoEntryKept DEF SettingsInv, S!TypeOK
<1>3. settings_reading' = [settings_reading EXCEPT ![p] = S!NotReading] \/ UNCHANGED settings_reading
  BY DEF S!Publish, S!Deliver, S!Lose, S!Crash, S!Evict
<1>4. /\ settings_reading' \in [Instance -> S!Reading]
      /\ \A k \in Instance : settings_reading'[k] = settings_reading[k] \/ SettingsSoFarNext(settings_reading'[k])
  BY <1>3, SettingsIdleRead DEF SettingsInv, S!TypeOK
<1>5. settings_writing' = [settings_writing EXCEPT ![p] = S!NotWriting] \/ UNCHANGED settings_writing
  BY DEF S!Publish, S!Deliver, S!Lose, S!Crash, S!Evict
<1>6. S!NotWriting \in S!Writing
  BY DEF S!NotWriting, S!Writing, S!SettingsAssumption
<1>7. settings_writing' \in [Instance -> S!Writing]
  BY <1>5, <1>6 DEF SettingsInv, S!TypeOK
<1>8. settings_remote' \in SUBSET Instance
  BY DEF S!Publish, S!Deliver, S!Lose, S!Crash, S!Evict, SettingsInv, S!TypeOK
<1>9. settings_faults' \in 0 .. MaxFaults
  BY SettingsFaultTypes DEF S!Publish, S!Deliver, S!Lose, S!Crash, S!Evict, SettingsInv, S!TypeOK
<1>10. UNCHANGED S!db /\ settings_last' = settings_last
  BY DEF S!Publish, S!Deliver, S!Lose, S!Crash, S!Evict
<1> QED
  BY <1>2, <1>4, <1>7, <1>8, <1>9, <1>10, SettingsOffDatabase DEF SettingsInv, S!TypeOK

(* A tick ages all of them together, up to the TTL.                        *)
LEMMA SettingsAging ==
    ASSUME S!SettingsAssumption
    PROVE  /\ \A a \in S!Age : S!Older(a) \in S!Age /\ S!Older(a) \in Nat
           /\ \A a, b \in S!Age : a <= b => S!Older(a) <= S!Older(b)
           /\ \A a \in S!Age : 0 <= S!Older(a)
BY DEF S!Age, S!Older, S!SettingsAssumption

LEMMA SettingsTickStep == ASSUME S!SettingsAssumption, SettingsInv, S!Tick PROVE SettingsInv'
<1>1. /\ settings_legacy' = settings_legacy /\ settings_copy' = settings_copy
      /\ S!Effective = SettingsSeen(settings_copy) /\ SettingsSeen(settings_copy) \in SettingsNumbers
      /\ settings_legacy.r \in SettingsNumbers
  BY SettingsMergeSeen DEF S!Tick, SettingsInv, S!TypeOK, S!Effective, SettingsNumbers
<1>2. /\ settings_shown.s \in [SettingsNumbers -> S!Age] /\ settings_shown.r \in [SettingsNumbers -> S!Age]
      /\ \A v \in SettingsNumbers : settings_shown.s[v] \in S!Age /\ settings_shown.r[v] \in S!Age
  BY SettingsShownTypes DEF SettingsInv
<1> DEFINE Sh == [v \in SettingsNumbers |-> IF v = S!Effective THEN 0 ELSE S!Older(settings_shown.s[v])]
           Rh == [v \in SettingsNumbers |-> IF v = settings_legacy.r THEN 0 ELSE S!Older(settings_shown.r[v])]
<1>3. settings_shown' = [s |-> Sh, r |-> Rh]
  BY DEF S!Tick, SettingsNumbers
<1>4. /\ Sh \in [SettingsNumbers -> S!Age] /\ Rh \in [SettingsNumbers -> S!Age] /\ Sh[SettingsSeen(settings_copy)] = 0
      /\ Rh[settings_legacy.r] = 0
  BY <1>1, <1>2, SettingsAging, SettingsNumbering
<1>5. \A v \in SettingsNumbers : Sh[v] <= S!Older(settings_shown.s[v]) /\ Rh[v] <= S!Older(settings_shown.r[v])
                                 /\ Sh[v] \in Nat /\ Rh[v] \in Nat
  BY <1>1, <1>2, SettingsAging, SettingsNumbering
<1> HIDE DEF Sh, Rh
<1>6. ASSUME NEW p \in Instance
      PROVE  /\ settings_cache'[p] \in S!Entry /\ SettingsKeptNext(settings_cache'[p])
             /\ settings_reading'[p] \in S!Reading /\ SettingsSoFarNext(settings_reading'[p])
  <2>1. /\ settings_cache[p] \in S!Entry /\ settings_reading[p] \in S!Reading /\ SettingsKeptEntry(settings_cache[p])
        /\ SettingsReadSoFar(settings_reading[p])
    BY DEF SettingsInv, S!TypeOK
  <2> DEFINE e == IF settings_cache[p].there
                  THEN [settings_cache[p] EXCEPT !.age = S!Older(settings_cache[p].age)] ELSE settings_cache[p]
             q == [settings_reading[p] EXCEPT !.age = IF settings_reading[p].pc = "idle" THEN settings_reading[p].age
                 ELSE S!Older(settings_reading[p].age)]
  <2>2. /\ settings_cache'[p] = IF settings_cache[p].there THEN S!Kept(e) ELSE e
        /\ settings_reading'[p] = q
    BY <2>1 DEF S!Tick
  <2>3. /\ e \in S!Entry /\ e.there = settings_cache[p].there /\ e.s = settings_cache[p].s
        /\ e.r = settings_cache[p].r
        /\ e.there => e.age = S!Older(settings_cache[p].age)
    BY <2>1, SettingsAging DEF S!Entry
  <2>4. /\ q \in S!Reading /\ q.pc = settings_reading[p].pc /\ q.s = settings_reading[p].s
        /\ q.r = settings_reading[p].r
        /\ q.copy = settings_reading[p].copy
        /\ q.pc # "idle" => q.age = S!Older(settings_reading[p].age)
    BY <2>1, SettingsAging DEF S!Reading
  <2> HIDE DEF e, q
  <2>5. /\ settings_cache[p].s \in SettingsNumbers /\ settings_cache[p].r \in SettingsNumbers
        /\ settings_cache[p].age \in S!Age
    BY <2>1 DEF S!Entry, SettingsNumbers
  <2>6. SettingsKeptNext(e)
    <3> SUFFICES ASSUME e.there PROVE Sh[e.s] <= e.age /\ Rh[e.r] <= e.age
      BY <1>3 DEF SettingsKeptNext
    <3>1. settings_shown.s[e.s] <= settings_cache[p].age /\ settings_shown.r[e.r] <= settings_cache[p].age
      BY <2>1, <2>3 DEF SettingsKeptEntry
    <3>2. S!Older(settings_shown.s[e.s]) <= e.age /\ S!Older(settings_shown.r[e.r]) <= e.age
      BY <3>1, <2>3, <2>5, <1>2, SettingsAging
    <3>3. /\ S!Older(settings_shown.s[e.s]) \in Nat /\ S!Older(settings_shown.r[e.r]) \in Nat /\ e.age \in Nat
          /\ Sh[e.s] \in Nat /\ Rh[e.r] \in Nat
          /\ Sh[e.s] <= S!Older(settings_shown.s[e.s]) /\ Rh[e.r] <= S!Older(settings_shown.r[e.r])
      BY <2>3, <2>5, <1>2, <1>5, SettingsAging
    <3> HIDE DEF Sh, Rh
    <3> QED
      BY <3>2, <3>3
  <2>7. /\ SettingsSeen(settings_reading[p].copy) \in SettingsNumbers
        /\ settings_reading[p].r \in SettingsNumbers \cup {S!Unread} /\ settings_reading[p].age \in S!Age
    BY <2>1, SettingsReadTypes
  <2>8. ASSUME NEW v \in SettingsNumbers, NEW a \in S!Age
        PROVE  (settings_shown.s[v] <= a => Sh[v] <= S!Older(a)) /\ (settings_shown.r[v] <= a => Rh[v] <= S!Older(a))
    <3>1. /\ (settings_shown.s[v] <= a => S!Older(settings_shown.s[v]) <= S!Older(a))
          /\ (settings_shown.r[v] <= a => S!Older(settings_shown.r[v]) <= S!Older(a))
      BY <1>2, SettingsAging
    <3>2. /\ S!Older(settings_shown.s[v]) \in Nat /\ S!Older(settings_shown.r[v]) \in Nat /\ S!Older(a) \in Nat
          /\ Sh[v] \in Nat /\ Rh[v] \in Nat
          /\ Sh[v] <= S!Older(settings_shown.s[v]) /\ Rh[v] <= S!Older(settings_shown.r[v])
      BY <1>2, <1>5, SettingsAging
    <3> QED
      BY <3>1, <3>2
  <2>9. SettingsSoFarNext(q)
    BY <1>3, <2>1, <2>4, <2>7, <2>8 DEF SettingsReadSoFar, SettingsSoFarNext
  <2>10. /\ (IF settings_cache[p].there THEN S!Kept(e) ELSE e) \in S!Entry
         /\ SettingsKeptNext(IF settings_cache[p].there THEN S!Kept(e) ELSE e)
    BY <2>3, <2>6, SettingsNoEntryKept DEF S!Kept
  <2> QED
    BY <2>2, <2>4, <2>9, <2>10
<1>7. settings_cache' \in [Instance -> S!Entry] /\ settings_reading' \in [Instance -> S!Reading]
  <2>1. /\ settings_cache' = [p \in Instance |-> settings_cache'[p]]
        /\ settings_reading' = [p \in Instance |-> settings_reading'[p]]
    BY DEF S!Tick
  <2> QED
    BY <1>6, <2>1
<1>8. S!TypeOK'
  BY <1>1, <1>3, <1>4, <1>7 DEF S!Tick, SettingsInv, S!TypeOK, SettingsNumbers
<1> QED
  BY <1>1, <1>3, <1>4, <1>6, <1>8, SettingsGather DEF SettingsInv

LEMMA SettingsInitInv == ASSUME S!SettingsAssumption, S!Init PROVE SettingsInv
<1>1. /\ settings_legacy \in [there : BOOLEAN, s : {S!None, 0}, r : SettingsNumbers] /\ settings_legacy.r = 0
      /\ settings_copy = S!None /\ settings_legacy.s \in S!Value
  BY SettingsNumbering DEF S!Init
<1> DEFINE first == [v \in 0 .. MaxWrites |-> IF v = 0 THEN 0 ELSE TTL]
<1>2. settings_shown = [s |-> first, r |-> first] /\ first \in [SettingsNumbers -> S!Age] /\ first[0] = 0
  BY SettingsNumbering DEF S!Init, SettingsNumbers
<1> HIDE DEF first
<1>3. SettingsSeen(settings_copy) = 0
  BY <1>1, SettingsNumbering DEF SettingsSeen
<1>4. /\ S!NoEntry \in S!Entry /\ S!NotReading \in S!Reading /\ SettingsKeptEntry(S!NoEntry)
      /\ SettingsReadSoFar(S!NotReading)
  BY SettingsNumbering DEF S!NoEntry, S!Entry, S!NotReading, S!Reading, SettingsKeptEntry, SettingsReadSoFar,
      SettingsLegacies, SettingsNumbers
<1>5. S!NotWriting \in S!Writing
  BY DEF S!NotWriting, S!Writing, S!SettingsAssumption
<1>6. S!TypeOK
  BY <1>1, <1>2, <1>4, <1>5, SettingsNumbering DEF S!Init, S!TypeOK, SettingsNumbers, S!SettingsAssumption
<1> QED
  <2>1. \A p \in Instance : settings_cache[p] = S!NoEntry /\ settings_reading[p] = S!NotReading
    BY DEF S!Init
  <2>2. settings_shown.s[SettingsSeen(settings_copy)] = 0 /\ settings_shown.r[settings_legacy.r] = 0
    BY <1>1, <1>2, <1>3
  <2> QED
    BY <1>1, <1>4, <1>6, <2>1, <2>2 DEF SettingsInv

LEMMA SettingsNextInv == ASSUME S!SettingsAssumption, SettingsInv, [S!Next]_(S!vars) PROVE SettingsInv'
<1>1. CASE \E p \in Instance : S!BeginRead(p) \/ S!BeginFind(p)
  BY <1>1, SettingsBeginStep
<1>2. CASE \E p \in Instance : S!LoadLegacy(p)
  BY <1>2, SettingsLoadLegacyStep
<1>3. CASE \E p \in Instance : S!LoadCopy(p)
  BY <1>3, SettingsLoadCopyStep
<1>4. CASE \E p \in Instance : S!Repair(p)
  BY <1>4, SettingsRepairStep
<1>5. CASE \E p \in Instance : S!Fill(p)
  BY <1>5, SettingsFillStep
<1>6. CASE \E p \in Instance : S!Backfill(p)
  BY <1>6, SettingsBackfillStep
<1>7. CASE \E p \in Instance : S!BeginWrite(p)
  BY <1>7, SettingsBeginWriteStep
<1>8. CASE \E p \in Instance : S!WriteSlice(p) \/ S!WriteMixed(p)
  BY <1>8, SettingsWriteSliceStep
<1>9. CASE \E p \in Instance : S!WriteLegacy(p)
  BY <1>9, SettingsWriteLegacyStep
<1>10. CASE \E p \in Instance : S!Publish(p) \/ S!Deliver(p) \/ S!Lose(p) \/ S!Crash(p) \/ S!Evict(p)
  BY <1>10, SettingsDropStep
<1>11. CASE S!Tick
  BY <1>11, SettingsTickStep
<1>12. CASE UNCHANGED S!vars
  BY <1>12 DEF S!vars, S!db, SettingsInv, S!TypeOK, SettingsKeptEntry, SettingsReadSoFar
<1> QED
  BY <1>1, <1>2, <1>3, <1>4, <1>5, <1>6, <1>7, <1>8, <1>9, <1>10, <1>11, <1>12 DEF S!Next

(* What a process serves was what the database said within the TTL.        *)
THEOREM SettingsInvariant ==
    ASSUME S!SettingsAssumption
    PROVE  S!Spec => [](SettingsInv /\ S!StaleWithinTTL)
<1>1. S!Init => SettingsInv
  BY SettingsInitInv
<1>2. SettingsInv /\ [S!Next]_(S!vars) => SettingsInv'
  BY SettingsNextInv
<1>3. SettingsInv => S!StaleWithinTTL
  BY DEF SettingsInv, S!StaleWithinTTL, S!Served, SettingsKeptEntry
<1> QED
  BY <1>1, <1>2, <1>3, PTL DEF S!Spec

-----------------------------------------------------------------------------
(* The videos.  A claimed video is with a pass, was taken by every         *)
(* destination, was not wanted, or is stranded by a fault.                 *)
VideoTask == [pc : {"idle", "claim", "prepare", "deliver", "undo"},
              force : BOOLEAN, left : SUBSET Thing, mine : SUBSET Thing, out : SUBSET Thing,
              sends : SUBSET (Thing \X Instance), ok : SUBSET (Thing \X Instance),
              undo : SUBSET Thing, then : {"idle", "claim"}]

VideoDelivered(v) == \A d \in Instance : <<v, d>> \in video_accepted
(* A pass that is over has no claims, what it calls done was taken, and    *)
(* what it will end with and not roll back went everywhere.                *)
VideoFine(r) ==
    /\ r.pc = "idle" => r.mine = {}
    /\ r.ok \subseteq video_accepted
    /\ r.pc = "undo" /\ r.then = "idle" => \A v \in r.mine : v \in r.undo \/ VideoDelivered(v)
VideoInv == V!TypeOK /\ (\A p \in V!Pass : VideoFine(video_pass[p])) /\ V!ClaimsAreJustified

LEMMA VideoIdleTypes == V!Idle \in VideoTask /\ V!Idle.pc = "idle" /\ V!Idle.mine = {} /\ V!Idle.ok = {}
BY DEF V!Idle, VideoTask

LEMMA VideoFaultTypes == ASSUME V!TypeOK, V!YouTubeAssumption, V!Fault PROVE video_faults' \in 0 .. MaxFaults
BY DEF V!TypeOK, V!Fault, V!YouTubeAssumption

LEMMA VideoGoes ==
    ASSUME V!TypeOK, NEW p \in V!Pass, NEW r \in VideoTask, V!Put(p, r)
    PROVE  /\ video_pass' \in [V!Pass -> VideoTask] /\ video_pass'[p] = r
           /\ \A q \in V!Pass : q # p => video_pass'[q] = video_pass[q]
BY DEF V!TypeOK, V!Put, VideoTask

(* What a step of one pass has to see to: new claims and those it lets go. *)
LEMMA VideoPassStep ==
    ASSUME VideoInv, NEW p \in V!Pass, NEW r \in VideoTask, V!Put(p, r), video_faults' \in 0 .. MaxFaults,
           video_seen' \in SUBSET Thing, video_skipped' \in SUBSET Thing, video_stranded' \in SUBSET Thing,
           video_accepted' \in SUBSET (Thing \X Instance),
           video_skipped \subseteq video_skipped', video_stranded \subseteq video_stranded',
           video_accepted \subseteq video_accepted',
           \A v \in video_seen' : v \in video_seen \/ v \in r.mine \cup video_skipped' \cup video_stranded',
           \A v \in video_pass[p].mine : v \in video_seen' =>
               v \in r.mine \cup video_skipped' \cup video_stranded' \/ VideoDelivered(v),
           VideoFine(r)'
    PROVE  VideoInv'
<1>1. /\ video_pass' \in [V!Pass -> VideoTask] /\ video_pass'[p] = r
      /\ \A q \in V!Pass : q # p => video_pass'[q] = video_pass[q]
  BY VideoGoes DEF VideoInv
<1>2. V!TypeOK'
  BY <1>1 DEF VideoInv, V!TypeOK, VideoTask
<1>3. \A v \in Thing : VideoDelivered(v) => VideoDelivered(v)'
  BY DEF VideoDelivered
<1>4. \A q \in V!Pass : VideoFine(video_pass[q])'
  <2>1. SUFFICES ASSUME NEW q \in V!Pass, q # p PROVE VideoFine(video_pass[q])'
    BY <1>1 DEF VideoFine
  <2>2. VideoFine(video_pass[q]) /\ video_pass'[q] = video_pass[q] /\ video_pass[q].mine \subseteq Thing
    BY <1>1, <2>1 DEF VideoInv, V!TypeOK
  <2> QED
    BY <1>3, <2>2 DEF VideoFine
<1>5. V!ClaimsAreJustified'
  <2>1. SUFFICES ASSUME NEW v \in video_seen', v \notin video_skipped' \cup video_stranded', ~VideoDelivered(v)'
                 PROVE  \E q \in V!Pass : v \in video_pass'[q].mine
    BY DEF V!ClaimsAreJustified, VideoDelivered
  <2>2. v \in Thing /\ ~VideoDelivered(v)
    BY <1>3, <2>1
  <2>3. CASE v \in video_seen
    <3>1. PICK q \in V!Pass : v \in video_pass[q].mine
      BY <2>1, <2>2, <2>3 DEF VideoInv, V!ClaimsAreJustified, VideoDelivered
    <3> QED
      BY <1>1, <2>1, <2>2, <3>1
  <2>4. CASE v \notin video_seen
    BY <1>1, <2>1, <2>4
  <2> QED
    BY <2>3, <2>4
<1> QED
  BY <1>2, <1>4, <1>5 DEF VideoInv

LEMMA VideoNow ==
    ASSUME VideoInv, NEW p \in V!Pass
    PROVE  /\ video_pass[p] \in VideoTask /\ V!TypeOK /\ VideoFine(video_pass[p]) /\ video_faults \in 0 .. MaxFaults
           /\ video_seen \in SUBSET Thing /\ video_skipped \in SUBSET Thing /\ video_stranded \in SUBSET Thing
           /\ video_accepted \in SUBSET (Thing \X Instance)
           /\ video_pass[p].mine \in SUBSET Thing /\ video_pass[p].left \in SUBSET Thing
           /\ video_pass[p].undo \in SUBSET Thing
BY DEF VideoInv, V!TypeOK, VideoTask

(* A pass that takes over a video without a claim, or with one. *)
LEMMA VideoClaimStep ==
    ASSUME V!YouTubeAssumption, VideoInv, NEW p \in V!Pass, V!Claim(p) \/ V!ClaimManual(p) PROVE VideoInv'
<1>0. /\ video_pass[p] \in VideoTask /\ V!TypeOK /\ VideoFine(video_pass[p]) /\ video_faults' \in 0 .. MaxFaults
      /\ video_seen \in SUBSET Thing /\ video_skipped \in SUBSET Thing /\ video_stranded' = video_stranded
      /\ video_stranded \in SUBSET Thing
      /\ video_accepted' = video_accepted /\ video_accepted \in SUBSET (Thing \X Instance)
      /\ video_pass[p].left \in SUBSET Thing
      /\ video_pass[p].pc = "claim"
  BY VideoNow DEF V!Claim, V!ClaimManual
<1>1. ASSUME NEW v \in Thing, NEW r \in VideoTask, V!Put(p, r), r.pc \in {"claim", "prepare"},
             r.ok = video_pass[p].ok,
             \/ video_seen' = video_seen /\ r.mine = video_pass[p].mine /\ video_skipped' = video_skipped
             \/ video_seen' =
                   video_seen \cup {v} /\ r.mine = video_pass[p].mine \cup {v} /\ video_skipped' = video_skipped
             \/ /\ video_seen' = video_seen \cup {v} /\ r.mine = video_pass[p].mine
                /\ video_skipped' = IF v \in video_seen THEN video_skipped ELSE video_skipped \cup {v}
      PROVE  VideoInv'
  <2>1. VideoFine(r)'
    BY <1>0, <1>1 DEF VideoFine
  <2>2. /\ video_seen' \in SUBSET Thing /\ video_skipped' \in SUBSET Thing /\ video_skipped \subseteq video_skipped'
        /\ \A u \in video_seen' : u \in video_seen \/ u \in r.mine \cup video_skipped' \cup video_stranded'
        /\ \A u \in video_pass[p].mine : u \in video_seen' =>
             u \in r.mine \cup video_skipped' \cup video_stranded' \/ VideoDelivered(u)
    BY <1>0, <1>1
  <2> QED
    BY <1>0, <1>1, <2>1, <2>2, VideoPassStep
<1> DEFINE After(v) == [video_pass[p] EXCEPT !.left = @ \ {v}]
           Claimed(v) == [After(v) EXCEPT !.pc = "prepare", !.mine = @ \cup {v}]
           Taken(v) == [After(v) EXCEPT !.mine = @ \cup {v}, !.out = @ \cup {v}]
           Forced(v) == [After(v) EXCEPT !.out = @ \cup {v}]
<1>2. ASSUME NEW v \in Thing
      PROVE  /\ After(v) \in VideoTask /\ After(v).pc = "claim" /\ After(v).ok = video_pass[p].ok
             /\ After(v).mine = video_pass[p].mine
             /\ Claimed(v) \in VideoTask /\ Claimed(v).pc = "prepare" /\ Claimed(v).ok = video_pass[p].ok
             /\ Claimed(v).mine = video_pass[p].mine \cup {v}
             /\ Taken(v) \in VideoTask /\ Taken(v).pc = "claim" /\ Taken(v).ok = video_pass[p].ok
             /\ Taken(v).mine = video_pass[p].mine \cup {v}
             /\ Forced(v) \in VideoTask /\ Forced(v).pc = "claim" /\ Forced(v).ok = video_pass[p].ok
             /\ Forced(v).mine = video_pass[p].mine
  <2>1. /\ After(v) \in VideoTask /\ After(v).pc = "claim" /\ After(v).ok = video_pass[p].ok
        /\ After(v).mine = video_pass[p].mine
    BY <1>0 DEF VideoTask
  <2> HIDE DEF After
  <2> QED
    BY <2>1 DEF VideoTask
<1>4. CASE V!Claim(p)
  <2>1. PICK v \in video_pass[p].left :
            \/ V!Put(p, After(v)) /\ UNCHANGED <<video_seen, video_skipped>>
            \/ video_seen' = video_seen \cup {v} /\ UNCHANGED video_skipped /\ V!Put(p, Claimed(v))
            \/ /\ video_seen' = video_seen \cup {v} /\ V!Put(p, After(v))
               /\ video_skipped' = IF v \in video_seen THEN video_skipped ELSE video_skipped \cup {v}
    BY <1>4 DEF V!Claim
  <2>2. v \in Thing
    BY <1>0
  <2> HIDE DEF After, Claimed
  <2>3. CASE V!Put(p, After(v)) /\ UNCHANGED <<video_seen, video_skipped>>
    <3>1. PICK r \in VideoTask : r = After(v)
      BY <1>2, <2>2
    <3> QED
      BY <1>1, <1>2, <2>2, <2>3, <3>1
  <2>4. CASE video_seen' = video_seen \cup {v} /\ UNCHANGED video_skipped /\ V!Put(p, Claimed(v))
    <3>1. PICK r \in VideoTask : r = Claimed(v)
      BY <1>2, <2>2
    <3> QED
      BY <1>1, <1>2, <2>2, <2>4, <3>1
  <2>5. CASE /\ video_seen' = video_seen \cup {v} /\ V!Put(p, After(v))
             /\ video_skipped' = IF v \in video_seen THEN video_skipped ELSE video_skipped \cup {v}
    <3>1. PICK r \in VideoTask : r = After(v)
      BY <1>2, <2>2
    <3> QED
      BY <1>1, <1>2, <2>2, <2>5, <3>1
  <2> QED
    BY <2>1, <2>3, <2>4, <2>5
<1>5. CASE V!ClaimManual(p)
  <2>1. PICK v \in video_pass[p].left :
            \/ V!Put(p, After(v)) /\ UNCHANGED video_seen
            \/ video_seen' = video_seen \cup {v} /\ V!Put(p, Taken(v))
            \/ V!Put(p, Forced(v)) /\ UNCHANGED video_seen
    BY <1>5 DEF V!ClaimManual
  <2>2. v \in Thing /\ video_skipped' = video_skipped
    BY <1>0, <1>5 DEF V!ClaimManual
  <2> HIDE DEF After, Taken, Forced
  <2>3. CASE V!Put(p, After(v)) /\ UNCHANGED video_seen
    <3>1. PICK r \in VideoTask : r = After(v)
      BY <1>2, <2>2
    <3> QED
      BY <1>1, <1>2, <2>2, <2>3, <3>1
  <2>4. CASE video_seen' = video_seen \cup {v} /\ V!Put(p, Taken(v))
    <3>1. PICK r \in VideoTask : r = Taken(v)
      BY <1>2, <2>2
    <3> QED
      BY <1>1, <1>2, <2>2, <2>4, <3>1
  <2>5. CASE V!Put(p, Forced(v)) /\ UNCHANGED video_seen
    <3>1. PICK r \in VideoTask : r = Forced(v)
      BY <1>2, <2>2
    <3> QED
      BY <1>1, <1>2, <2>2, <2>5, <3>1
  <2> QED
    BY <2>1, <2>3, <2>4, <2>5
<1> QED
  BY <1>4, <1>5

(* A pass that keeps its claims and touches nothing else. *)
LEMMA VideoQuiet ==
    ASSUME VideoInv, NEW p \in V!Pass, NEW r \in VideoTask, V!Put(p, r), video_faults' \in 0 .. MaxFaults,
           UNCHANGED <<video_seen, video_skipped, video_stranded>>, video_accepted' \in SUBSET (Thing \X Instance),
           video_accepted \subseteq video_accepted', r.mine = video_pass[p].mine, VideoFine(r)'
    PROVE  VideoInv'
<1>0. video_seen \in SUBSET Thing /\ video_skipped \in SUBSET Thing /\ video_stranded \in SUBSET Thing
  BY DEF VideoInv, V!TypeOK
<1> QED
  BY <1>0, VideoPassStep

LEMMA VideoBeginStep == ASSUME VideoInv, NEW p \in V!Pass, V!Begin(p) PROVE VideoInv'
<1>0. /\ VideoFine(video_pass[p]) /\ video_faults' \in 0 .. MaxFaults
      /\ UNCHANGED <<video_seen, video_skipped, video_stranded, video_accepted>>
      /\ video_accepted \in SUBSET (Thing \X Instance)
  BY VideoNow DEF V!Begin
<1>1. PICK f \in BOOLEAN : V!Put(p, [V!Idle EXCEPT !.pc = "claim", !.left = Thing, !.force = f])
  BY DEF V!Begin
<1> DEFINE q == [V!Idle EXCEPT !.pc = "claim", !.left = Thing, !.force = f]
<1>2. q \in VideoTask /\ q.pc = "claim" /\ q.mine = {} /\ q.ok = {}
  BY DEF V!Idle, VideoTask
<1>3. V!Put(p, q)
  BY <1>1
<1> HIDE DEF q
<1> PICK r \in VideoTask : r = q
  BY <1>2
<1>4. video_pass[p].mine = {}
  BY <1>0 DEF V!Begin, VideoFine
<1> QED
  BY <1>0, <1>2, <1>3, <1>4, VideoQuiet DEF VideoFine

LEMMA VideoClaimFailsStep == ASSUME V!YouTubeAssumption, VideoInv, NEW p \in V!Pass, V!ClaimFails(p) PROVE VideoInv'
<1>0. /\ video_pass[p] \in VideoTask /\ V!TypeOK /\ VideoFine(video_pass[p]) /\ video_faults' \in 0 .. MaxFaults
      /\ video_seen \in SUBSET Thing /\ video_skipped' = video_skipped /\ video_skipped \in SUBSET Thing
      /\ video_stranded \in SUBSET Thing
      /\ video_accepted' = video_accepted /\ video_accepted \in SUBSET (Thing \X Instance)
      /\ video_pass[p].left \in SUBSET Thing
      /\ video_pass[p].mine \in SUBSET Thing /\ video_pass[p].pc = "claim"
  BY VideoNow, VideoFaultTypes DEF V!ClaimFails
<1>1. PICK v \in video_pass[p].left \ video_seen :
         \/ /\ video_seen' = video_seen \cup {v} /\ video_stranded' = video_stranded \cup {v}
            /\ V!Put(p, [video_pass[p] EXCEPT !.left = @ \ {v}])
         \/ video_stranded' = video_stranded \cup video_pass[p].mine /\ V!Put(p, V!Idle) /\ UNCHANGED video_seen
  BY DEF V!ClaimFails
<1>2. CASE /\ video_seen' = video_seen \cup {v} /\ video_stranded' = video_stranded \cup {v}
           /\ V!Put(p, [video_pass[p] EXCEPT !.left = @ \ {v}])
  <2> DEFINE q == [video_pass[p] EXCEPT !.left = @ \ {v}]
  <2>1. q \in VideoTask /\ q.pc = "claim" /\ q.mine = video_pass[p].mine /\ q.ok = video_pass[p].ok
    BY <1>0 DEF VideoTask
  <2>2. V!Put(p, q)
    BY <1>2
  <2> HIDE DEF q
  <2> PICK r \in VideoTask : r = q
    BY <2>1
  <2>3. VideoFine(r)'
    BY <1>0, <2>1 DEF VideoFine
  <2>4. /\ video_seen' \in SUBSET Thing /\ video_stranded' \in SUBSET Thing
        /\ video_stranded \subseteq video_stranded'
        /\ \A u \in video_seen' : u \in video_seen \/ u \in r.mine \cup video_skipped' \cup video_stranded'
        /\ \A u \in video_pass[p].mine : u \in video_seen' =>
             u \in r.mine \cup video_skipped' \cup video_stranded' \/ VideoDelivered(u)
    BY <1>0, <1>2, <2>1
  <2> QED
    BY <1>0, <2>1, <2>2, <2>3, <2>4, VideoPassStep
<1>3. CASE video_stranded' = video_stranded \cup video_pass[p].mine /\ V!Put(p, V!Idle) /\ UNCHANGED video_seen
  <2>1. VideoFine(V!Idle)'
    BY VideoIdleTypes DEF VideoFine
  <2>2. video_stranded' \in SUBSET Thing /\ video_stranded \subseteq video_stranded'
    BY <1>0, <1>3
  <2> QED
    BY <1>0, <1>3, <2>1, <2>2, VideoIdleTypes, VideoPassStep
<1> QED
  BY <1>1, <1>2, <1>3

LEMMA VideoCrashStep == ASSUME V!YouTubeAssumption, VideoInv, NEW p \in V!Pass, V!Crash(p) PROVE VideoInv'
<1>0. /\ V!TypeOK /\ video_faults' \in 0 .. MaxFaults
      /\ video_seen' = video_seen /\ video_seen \in SUBSET Thing /\ video_skipped' = video_skipped
      /\ video_skipped \in SUBSET Thing
      /\ video_stranded \in SUBSET Thing /\ video_accepted' = video_accepted
      /\ video_accepted \in SUBSET (Thing \X Instance)
      /\ video_pass[p].mine \in SUBSET Thing /\ V!Put(p, V!Idle)
      /\ video_stranded' = video_stranded \cup video_pass[p].mine
  BY VideoNow, VideoFaultTypes DEF V!Crash
<1>1. VideoFine(V!Idle)'
  BY VideoIdleTypes DEF VideoFine
<1>2. video_stranded' \in SUBSET Thing /\ video_stranded \subseteq video_stranded'
  BY <1>0
<1> QED
  BY <1>0, <1>1, <1>2, VideoIdleTypes, VideoPassStep

LEMMA VideoPrepareStep == ASSUME VideoInv, NEW p \in V!Pass, V!Prepare(p) PROVE VideoInv'
<1>0. /\ video_pass[p] \in VideoTask /\ VideoFine(video_pass[p]) /\ video_faults' \in 0 .. MaxFaults
      /\ video_seen' = video_seen /\ video_seen \in SUBSET Thing /\ video_skipped \in SUBSET Thing
      /\ video_stranded' = video_stranded
      /\ video_stranded \in SUBSET Thing /\ video_accepted' = video_accepted
      /\ video_accepted \in SUBSET (Thing \X Instance)
      /\ video_pass[p].mine \in SUBSET Thing /\ V!Current(p) \in SUBSET Thing
  BY VideoNow DEF V!Prepare, V!Current
<1>1. CASE V!Put(p, [video_pass[p] EXCEPT !.pc = "claim", !.out = @ \cup V!Current(p)]) /\ UNCHANGED video_skipped
  <2> DEFINE q == [video_pass[p] EXCEPT !.pc = "claim", !.out = @ \cup V!Current(p)]
  <2>1. q \in VideoTask /\ q.pc = "claim" /\ q.mine = video_pass[p].mine /\ q.ok = video_pass[p].ok
    BY <1>0 DEF VideoTask
  <2>2. V!Put(p, q)
    BY <1>1
  <2> HIDE DEF q
  <2> PICK r \in VideoTask : r = q
    BY <2>1
  <2> QED
    BY <1>0, <1>1, <2>1, <2>2, VideoQuiet DEF VideoFine
<1>2. CASE /\ V!Put(p, [video_pass[p] EXCEPT !.pc = "claim", !.mine = @ \ V!Current(p)])
           /\ video_skipped' = video_skipped \cup V!Current(p)
  <2> DEFINE q == [video_pass[p] EXCEPT !.pc = "claim", !.mine = @ \ V!Current(p)]
  <2>1. q \in VideoTask /\ q.pc = "claim" /\ q.mine = video_pass[p].mine \ V!Current(p) /\ q.ok = video_pass[p].ok
    BY <1>0 DEF VideoTask
  <2>2. V!Put(p, q)
    BY <1>2
  <2> HIDE DEF q
  <2> PICK r \in VideoTask : r = q
    BY <2>1
  <2>3. VideoFine(r)'
    BY <1>0, <2>1 DEF VideoFine
  <2>4. video_skipped' \in SUBSET Thing /\ video_skipped \subseteq video_skipped'
    BY <1>0, <1>2
  <2> QED
    BY <1>0, <1>2, <2>1, <2>2, <2>3, <2>4, VideoPassStep
<1>3. CASE V!Put(p, [video_pass[p] EXCEPT !.pc = "undo", !.undo = V!Current(p), !.then = "claim"])
             /\ UNCHANGED video_skipped
  <2> DEFINE q == [video_pass[p] EXCEPT !.pc = "undo", !.undo = V!Current(p), !.then = "claim"]
  <2>1. q \in VideoTask /\ q.pc = "undo" /\ q.then = "claim" /\ q.mine = video_pass[p].mine /\ q.ok = video_pass[p].ok
    BY <1>0 DEF VideoTask
  <2>2. V!Put(p, q)
    BY <1>3
  <2> HIDE DEF q
  <2> PICK r \in VideoTask : r = q
    BY <2>1
  <2> QED
    BY <1>0, <1>3, <2>1, <2>2, VideoQuiet DEF VideoFine
<1> QED
  BY <1>1, <1>2, <1>3 DEF V!Prepare

LEMMA VideoAbortStep == ASSUME VideoInv, NEW p \in V!Pass, V!Abort(p) PROVE VideoInv'
<1>0. /\ video_pass[p] \in VideoTask /\ VideoFine(video_pass[p]) /\ video_faults' \in 0 .. MaxFaults
      /\ UNCHANGED <<video_seen, video_skipped, video_stranded, video_accepted>>
      /\ video_accepted \in SUBSET (Thing \X Instance)
  BY VideoNow DEF V!Abort
<1> DEFINE q == [video_pass[p] EXCEPT !.pc = "undo", !.undo = video_pass[p].mine, !.then = "idle"]
<1>1. q \in VideoTask /\ q.pc = "undo" /\ q.mine = video_pass[p].mine /\ q.undo = q.mine /\ q.ok = video_pass[p].ok
  BY <1>0 DEF VideoTask
<1>2. V!Put(p, q)
  BY DEF V!Abort
<1> HIDE DEF q
<1> PICK r \in VideoTask : r = q
  BY <1>1
<1> QED
  BY <1>0, <1>1, <1>2, VideoQuiet DEF VideoFine

LEMMA VideoDeliveryStep ==
    ASSUME V!YouTubeAssumption, VideoInv, NEW p \in V!Pass,
           V!BeginDelivery(p) \/ V!Send(p) \/ V!LeaveDestination(p) \/ V!EndDelivery(p)
    PROVE  VideoInv'
<1>0. /\ video_pass[p] \in VideoTask /\ V!TypeOK /\ VideoFine(video_pass[p]) /\ video_faults \in 0 .. MaxFaults
      /\ UNCHANGED <<video_seen, video_skipped, video_stranded>> /\ video_accepted \in SUBSET (Thing \X Instance)
      /\ video_pass[p].sends \in SUBSET (Thing \X Instance) /\ video_pass[p].out \in SUBSET Thing
  BY VideoNow DEF V!BeginDelivery, V!Send, V!LeaveDestination, V!EndDelivery, VideoTask
<1>1. CASE V!BeginDelivery(p)
  <2> DEFINE q == [video_pass[p] EXCEPT !.pc = "deliver", !.sends = video_pass[p].out \X Instance]
  <2>1. q \in VideoTask /\ q.pc = "deliver" /\ q.mine = video_pass[p].mine /\ q.ok = video_pass[p].ok
    BY <1>0 DEF VideoTask
  <2>2. V!Put(p, q)
    BY <1>1 DEF V!BeginDelivery
  <2> HIDE DEF q
  <2> PICK r \in VideoTask : r = q
    BY <2>1
  <2> QED
    BY <1>0, <1>1, <2>1, <2>2, VideoQuiet DEF VideoFine, V!BeginDelivery
<1>2. CASE V!Send(p)
  <2>1. PICK s \in video_pass[p].sends : /\ video_accepted' = video_accepted \cup {s}
                                         /\ V!Put(p, [video_pass[p] EXCEPT !.sends = @ \ {s}, !.ok = @ \cup {s}])
    BY <1>2 DEF V!Send
  <2> DEFINE q == [video_pass[p] EXCEPT !.sends = @ \ {s}, !.ok = @ \cup {s}]
  <2>2. video_pass[p].pc = "deliver"
    BY <1>2 DEF V!Send
  <2>3. q \in VideoTask /\ q.pc = "deliver" /\ q.mine = video_pass[p].mine /\ q.ok = video_pass[p].ok \cup {s}
    BY <1>0, <2>2 DEF VideoTask
  <2>4. V!Put(p, q)
    BY <2>1
  <2> HIDE DEF q
  <2> PICK r \in VideoTask : r = q
    BY <2>3
  <2>5. VideoFine(r)'
    BY <1>0, <2>1, <2>3 DEF VideoFine
  <2>6. video_accepted' \in SUBSET (Thing \X Instance) /\ video_accepted \subseteq video_accepted'
    BY <1>0, <2>1
  <2> QED
    BY <1>0, <1>2, <2>3, <2>4, <2>5, <2>6, VideoQuiet DEF V!Send
<1>3. CASE V!LeaveDestination(p)
  <2>1. PICK s \in video_pass[p].sends : /\ video_accepted' \in {video_accepted, video_accepted \cup {s}}
                                         /\ V!Put(p, [video_pass[p] EXCEPT !.sends = {t \in @ : t[2] # s[2]}])
    BY <1>3 DEF V!LeaveDestination
  <2> DEFINE q == [video_pass[p] EXCEPT !.sends = {t \in @ : t[2] # s[2]}]
  <2>2. video_pass[p].pc = "deliver" /\ video_faults' \in 0 .. MaxFaults
    BY <1>0, <1>3, VideoFaultTypes DEF V!LeaveDestination
  <2>3. q \in VideoTask /\ q.pc = "deliver" /\ q.mine = video_pass[p].mine /\ q.ok = video_pass[p].ok
    BY <1>0, <2>2 DEF VideoTask
  <2>4. V!Put(p, q)
    BY <2>1
  <2> HIDE DEF q
  <2> PICK r \in VideoTask : r = q
    BY <2>3
  <2>5. video_accepted' \in SUBSET (Thing \X Instance) /\ video_accepted \subseteq video_accepted'
    BY <1>0, <2>1
  <2>6. VideoFine(r)'
    BY <1>0, <2>3, <2>5 DEF VideoFine
  <2> QED
    BY <1>0, <2>2, <2>3, <2>4, <2>5, <2>6, VideoQuiet
<1>4. CASE V!EndDelivery(p)
  <2> DEFINE q == [video_pass[p] EXCEPT !.pc = "undo", !.undo = V!Undone(p), !.then = "idle"]
  <2>1. V!Undone(p) \in SUBSET Thing
    BY <1>0 DEF V!Undone, VideoTask
  <2>2. /\ q \in VideoTask /\ q.pc = "undo" /\ q.mine = video_pass[p].mine /\ q.ok = video_pass[p].ok
        /\ q.undo = V!Undone(p)
    BY <1>0, <2>1 DEF VideoTask
  <2>3. V!Put(p, q)
    BY <1>4 DEF V!EndDelivery
  <2> HIDE DEF q
  <2> PICK r \in VideoTask : r = q
    BY <2>2
  <2>4. video_accepted' = video_accepted /\ video_faults' = video_faults
    BY <1>4 DEF V!EndDelivery
  <2>5. \A v \in video_pass[p].mine : v \in V!Undone(p) \/ VideoDelivered(v)'
    BY <1>0, <2>4 DEF V!Undone, VideoFine, VideoDelivered
  <2>6. VideoFine(r)'
    BY <1>0, <2>2, <2>4, <2>5 DEF VideoFine
  <2> QED
    BY <1>0, <2>2, <2>3, <2>4, <2>6, VideoQuiet
<1> QED
  BY <1>1, <1>2, <1>3, <1>4

LEMMA VideoRollbackStep ==
    ASSUME V!YouTubeAssumption, VideoInv, NEW p \in V!Pass, V!Rollback(p) \/ V!EndRollback(p) PROVE VideoInv'
<1>0. /\ video_pass[p] \in VideoTask /\ V!TypeOK /\ VideoFine(video_pass[p]) /\ video_faults \in 0 .. MaxFaults
      /\ video_seen \in SUBSET Thing /\ video_skipped' = video_skipped /\ video_skipped \in SUBSET Thing
      /\ video_stranded \in SUBSET Thing
      /\ video_accepted' = video_accepted /\ video_accepted \in SUBSET (Thing \X Instance)
      /\ video_pass[p].mine \in SUBSET Thing /\ video_pass[p].undo \in SUBSET Thing /\ video_pass[p].pc = "undo"
  BY VideoNow DEF V!Rollback, V!EndRollback
<1>1. CASE V!Rollback(p)
  <2>1. PICK v \in video_pass[p].undo :
          /\ V!Put(p, [video_pass[p] EXCEPT !.undo = @ \ {v}, !.mine = @ \ {v}])
          /\ \/ video_seen' = video_seen \ {v} /\ UNCHANGED <<video_stranded, video_faults>>
             \/ V!Fault /\ video_stranded' = video_stranded \cup {v} /\ UNCHANGED video_seen
    BY <1>1 DEF V!Rollback
  <2> DEFINE q == [video_pass[p] EXCEPT !.undo = @ \ {v}, !.mine = @ \ {v}]
  <2>2. /\ q \in VideoTask /\ q.pc = "undo" /\ q.mine = video_pass[p].mine \ {v} /\ q.undo = video_pass[p].undo \ {v}
        /\ q.ok = video_pass[p].ok /\ q.then = video_pass[p].then
    BY <1>0 DEF VideoTask
  <2>3. V!Put(p, q)
    BY <2>1
  <2> HIDE DEF q
  <2> PICK r \in VideoTask : r = q
    BY <2>2
  <2>4. VideoFine(r)'
    BY <1>0, <2>2 DEF VideoFine, VideoDelivered
  <2>5. /\ video_seen' \in SUBSET Thing /\ video_seen' \subseteq video_seen /\ video_stranded' \in SUBSET Thing
        /\ video_stranded \subseteq video_stranded' /\ (v \in video_seen' => v \in video_stranded')
    BY <1>0, <2>1
  <2>6. video_faults' \in 0 .. MaxFaults
    BY <1>0, <2>1, VideoFaultTypes
  <2>7. /\ \A u \in video_seen' : u \in video_seen \/ u \in r.mine \cup video_skipped' \cup video_stranded'
        /\ \A u \in video_pass[p].mine : u \in video_seen' =>
             u \in r.mine \cup video_skipped' \cup video_stranded' \/ VideoDelivered(u)
    BY <2>2, <2>5
  <2> QED
    BY <1>0, <2>2, <2>3, <2>4, <2>5, <2>6, <2>7, VideoPassStep
<1>2. CASE V!EndRollback(p)
  <2>0. UNCHANGED <<video_seen, video_stranded, video_faults>> /\ video_pass[p].undo = {}
    BY <1>2 DEF V!EndRollback
  <2>1. CASE video_pass[p].then = "idle"
    <3>1. V!Put(p, V!Idle)
      BY <1>2, <2>1 DEF V!EndRollback
    <3>2. \A v \in video_pass[p].mine : VideoDelivered(v)
      BY <1>0, <2>0, <2>1 DEF VideoFine
    <3>3. VideoFine(V!Idle)'
      BY VideoIdleTypes DEF VideoFine
    <3> QED
      BY <1>0, <2>0, <3>1, <3>2, <3>3, VideoIdleTypes, VideoPassStep
  <2>2. CASE video_pass[p].then # "idle"
    <3> DEFINE q == [video_pass[p] EXCEPT !.pc = "claim"]
    <3>1. q \in VideoTask /\ q.pc = "claim" /\ q.mine = video_pass[p].mine /\ q.ok = video_pass[p].ok
      BY <1>0 DEF VideoTask
    <3>2. V!Put(p, q)
      BY <1>2, <2>2 DEF V!EndRollback
    <3> HIDE DEF q
    <3> PICK r \in VideoTask : r = q
      BY <3>1
    <3> QED
      BY <1>0, <2>0, <3>1, <3>2, VideoQuiet DEF VideoFine
  <2> QED
    BY <2>1, <2>2
<1> QED
  BY <1>1, <1>2

(* A video that was claimed is with a pass, told, not wanted, or stranded  *)
(* by a fault: none is forgotten between the claim and the outbox.         *)
THEOREM VideoInvariant == ASSUME V!YouTubeAssumption PROVE V!Spec => []VideoInv
<1>1. V!Init => VideoInv
  <2> SUFFICES ASSUME V!Init PROVE VideoInv
    OBVIOUS
  <2>1. V!TypeOK
    BY VideoIdleTypes DEF V!YouTubeAssumption, V!Init, V!TypeOK, VideoTask
  <2> QED
    BY <2>1, VideoIdleTypes DEF V!Init, VideoInv, VideoFine, V!ClaimsAreJustified
<1>2. VideoInv /\ [V!Next]_(V!vars) => VideoInv'
  <2> SUFFICES ASSUME VideoInv, [V!Next]_(V!vars) PROVE VideoInv'
    OBVIOUS
  <2>1. CASE UNCHANGED V!vars
    BY <2>1 DEF V!vars, VideoInv, V!TypeOK, VideoFine, VideoDelivered, V!ClaimsAreJustified
  <2>2. CASE V!Next
    BY <2>2, VideoBeginStep, VideoClaimStep, VideoClaimFailsStep, VideoPrepareStep, VideoAbortStep,
        VideoDeliveryStep, VideoRollbackStep, VideoCrashStep DEF V!Next
  <2> QED
    BY <2>1, <2>2
<1> QED
  BY <1>1, <1>2, PTL DEF V!Spec

-----------------------------------------------------------------------------
(* The price alerts.  A triggered rule is with a pass, was told, or is     *)
(* stranded by a fault.                                                    *)
PriceTask == [pc : {"idle", "look", "resolve", "send", "undo"}, left : SUBSET Thing,
              seen : [Thing -> P!Rules], mine : SUBSET Thing, undo : SUBSET Thing]

(* A pass that is over carries nothing, and one that rolls back rolls back *)
(* all it carries.                                                         *)
PriceCarries ==
    \A p \in Instance : /\ price_pass[p].pc = "idle" => price_pass[p].mine = {}
                        /\ price_pass[p].pc = "undo" => price_pass[p].mine = price_pass[p].undo
PriceInv == P!TypeOK /\ PriceCarries /\ P!TriggersAreTold

LEMMA PriceIdleTypes ==
  ASSUME P!PriceAssumption
  PROVE  /\ P!Idle \in PriceTask /\ P!Idle.pc = "idle" /\ P!Idle.mine = {} /\ P!NoRule \in P!Rules
         /\ P!NewRule \in P!Rules
                               /\ ~P!NoRule.triggered /\ ~P!NewRule.triggered
<1>1. P!NoRule \in P!Rules /\ P!NewRule \in P!Rules /\ ~P!NoRule.triggered /\ ~P!NewRule.triggered
  <2>1. 0 \in 0 .. Rearm
    BY DEF P!PriceAssumption
  <2>3. P!NoRule \in P!Rules /\ ~P!NoRule.triggered
    BY <2>1 DEF P!NoRule, P!Rules
  <2>4. P!NewRule \in P!Rules /\ ~P!NewRule.triggered
    BY <2>3 DEF P!NewRule, P!Rules
  <2> QED
    BY <2>3, <2>4
<1>2. P!Idle \in PriceTask /\ P!Idle.pc = "idle" /\ P!Idle.mine = {}
  BY <1>1 DEF P!Idle, PriceTask
<1> QED
  BY <1>1, <1>2

LEMMA PriceFaultTypes == ASSUME P!TypeOK, P!PriceAssumption, P!Fault PROVE price_faults' \in 0 .. MaxFaults
BY DEF P!TypeOK, P!Fault, P!PriceAssumption

LEMMA PriceGoes ==
    ASSUME P!TypeOK, NEW p \in Instance, NEW r \in PriceTask, P!Put(p, r)
    PROVE  /\ price_pass' \in [Instance -> PriceTask] /\ price_pass'[p] = r
           /\ \A q \in Instance : q # p => price_pass'[q] = price_pass[q]
BY DEF P!TypeOK, P!Put, PriceTask

(* A step of one pass that leaves the rules alone: the triggers it lets go *)
(* of are told or stranded.                                                *)
LEMMA PricePassStep ==
    ASSUME PriceInv, NEW p \in Instance, NEW r \in PriceTask, P!Put(p, r), price_faults' \in 0 .. MaxFaults,
           UNCHANGED price_rule, price_told' \in SUBSET Thing, price_stranded' \in SUBSET Thing,
           price_told \subseteq price_told', price_stranded \subseteq price_stranded',
           r.pc = "idle" => r.mine = {}, r.pc = "undo" => r.mine = r.undo,
           \A t \in price_pass[p].mine : t \in r.mine \cup price_told' \cup price_stranded'
             \/ ~price_rule[t].triggered
    PROVE  PriceInv'
<1>1. /\ price_pass' \in [Instance -> PriceTask] /\ price_pass'[p] = r
      /\ \A q \in Instance : q # p => price_pass'[q] = price_pass[q]
  BY PriceGoes DEF PriceInv
<1>2. P!TypeOK'
  BY <1>1 DEF PriceInv, P!TypeOK, PriceTask
<1>3. PriceCarries'
  BY <1>1 DEF PriceInv, PriceCarries
<1>4. P!TriggersAreTold'
  BY <1>1 DEF PriceInv, P!TriggersAreTold
<1> QED
  BY <1>2, <1>3, <1>4 DEF PriceInv

(* A step that writes one rule; a trigger that is the rule's is carried,   *)
(* told or stranded.                                                       *)
LEMMA PriceRuleStep ==
    ASSUME PriceInv, NEW t \in Thing, NEW x \in P!Rules, price_rule' = [price_rule EXCEPT ![t] = x],
           price_pass' \in [Instance -> PriceTask], PriceCarries', price_faults' \in 0 .. MaxFaults,
           price_told' \in SUBSET Thing, price_stranded' \in SUBSET Thing,
           price_told \subseteq price_told' \cup {t}, price_stranded \subseteq price_stranded' \cup {t},
           \A q \in Instance : price_pass[q].mine \subseteq price_pass'[q].mine \cup price_stranded' \cup {t},
           x.triggered => t \in price_told' \cup price_stranded' \/ \E q \in Instance : t \in price_pass'[q].mine
    PROVE  PriceInv'
<1>1. P!TypeOK'
  BY DEF PriceInv, P!TypeOK, PriceTask
<1>2. price_rule'[t] = x /\ \A u \in Thing : u # t => price_rule'[u] = price_rule[u]
  BY DEF PriceInv, P!TypeOK
<1>3. P!TriggersAreTold'
  BY <1>2 DEF PriceInv, P!TriggersAreTold
<1> QED
  BY <1>1, <1>3 DEF PriceInv

LEMMA PriceCarriesStep ==
    ASSUME PriceInv, NEW p \in Instance, NEW r \in PriceTask, P!Put(p, r),
           r.pc = "idle" => r.mine = {}, r.pc = "undo" => r.mine = r.undo
    PROVE  PriceCarries'
<1>1. /\ price_pass' \in [Instance -> PriceTask] /\ price_pass'[p] = r
      /\ \A q \in Instance : q # p => price_pass'[q] = price_pass[q]
  BY PriceGoes DEF PriceInv
<1> QED
  BY <1>1 DEF PriceInv, PriceCarries

LEMMA PriceInitInv == ASSUME P!PriceAssumption, P!Init PROVE PriceInv
<1>1. P!TypeOK
  BY PriceIdleTypes DEF P!PriceAssumption, P!Init, P!TypeOK, PriceTask
<1> QED
  BY <1>1, PriceIdleTypes DEF P!Init, PriceInv, PriceCarries, P!TriggersAreTold

LEMMA PricePassMoves ==
    ASSUME P!PriceAssumption, PriceInv, NEW p \in Instance,
           P!Begin(p) \/ P!EndLook(p) \/ P!Resolve(p) \/ P!Send(p) \/ P!SendFails(p) \/ P!Crash(p)
    PROVE  PriceInv'
<1>0. /\ price_pass[p] \in PriceTask /\ price_told \in SUBSET Thing /\ price_stranded \in SUBSET Thing
      /\ price_faults \in 0 .. MaxFaults
      /\ price_rule \in [Thing -> P!Rules] /\ P!TypeOK
  BY DEF PriceInv, P!TypeOK, PriceTask
<1>1. CASE P!Begin(p)
  <2>1. PICK l \in SUBSET {r \in Thing : price_rule[r].there} :
               P!Put(p, [P!Idle EXCEPT !.pc = "look", !.left = l,
                                       !.seen = [r \in Thing |-> IF r \in l THEN price_rule[r] ELSE P!NoRule]])
    BY <1>1 DEF P!Begin
  <2> DEFINE x == [r \in Thing |-> IF r \in l THEN price_rule[r] ELSE P!NoRule]
             q == [P!Idle EXCEPT !.pc = "look", !.left = l, !.seen = x]
  <2>a. x \in [Thing -> P!Rules]
    BY <1>0, PriceIdleTypes
  <2>b. P!Put(p, q)
    BY <2>1
  <2> HIDE DEF x
  <2>2. q \in PriceTask /\ q.pc = "look"
    BY <1>0, <2>a, PriceIdleTypes DEF PriceTask
  <2>3. price_pass[p].mine = {}
    BY <1>1 DEF P!Begin, PriceInv, PriceCarries
  <2>4. P!Put(p, q)
    BY <2>b
  <2> HIDE DEF q
  <2> QED
    BY <1>0, <1>1, <2>2, <2>3, <2>4, PricePassStep DEF P!Begin
<1>2. CASE P!EndLook(p)
  <2> DEFINE q == [price_pass[p] EXCEPT !.pc = "resolve"]
  <2>1. q \in PriceTask /\ q.pc = "resolve" /\ q.mine = price_pass[p].mine
    BY <1>0 DEF PriceTask
  <2>2. (P!Put(p, P!Idle) /\ price_pass[p].mine = {}) \/ P!Put(p, q)
    BY <1>2 DEF P!EndLook
  <2> HIDE DEF q
  <2>3. PICK r \in PriceTask : P!Put(p, r) /\ r.pc \in {"idle", "resolve"} /\ r.mine = price_pass[p].mine
               /\ (r.pc = "idle" => r.mine = {})
    BY <2>1, <2>2, PriceIdleTypes
  <2> QED
    BY <1>0, <1>2, <2>3, PricePassStep DEF P!EndLook
<1>3. CASE P!Resolve(p)
  <2>1. PICK r \in PriceTask : /\ P!Put(p, r) /\ r.mine = price_pass[p].mine
                               /\ r.pc = "send" \/ (r.pc = "undo" /\ r.undo = r.mine)
    <3> DEFINE a == [price_pass[p] EXCEPT !.pc = "send"]
               b == [price_pass[p] EXCEPT !.pc = "undo", !.undo = price_pass[p].mine]
    <3>1. /\ a \in PriceTask /\ a.mine = price_pass[p].mine /\ a.pc = "send"
          /\ b \in PriceTask /\ b.mine = price_pass[p].mine /\ b.pc = "undo" /\ b.undo = price_pass[p].mine
      BY <1>0 DEF PriceTask
    <3>2. P!Put(p, a) \/ P!Put(p, b)
      BY <1>3 DEF P!Resolve
    <3> HIDE DEF a, b
    <3> QED
      BY <3>1, <3>2
  <2> QED
    BY <1>0, <1>3, <2>1, PricePassStep DEF P!Resolve
<1>4. CASE P!Send(p)
  <2>1. PICK t \in price_pass[p].mine : /\ price_told' = IF price_rule[t].triggered THEN price_told \cup {t}
                                             ELSE price_told
                                        /\ P!Put(p, IF price_pass[p].mine = {t} THEN P!Idle
                                             ELSE [price_pass[p] EXCEPT !.mine = @ \ {t}])
    BY <1>4 DEF P!Send
  <2>2. PICK r \in PriceTask : P!Put(p, r) /\ r.mine = price_pass[p].mine \ {t} /\ (r.pc = "idle" => r.mine = {})
               /\ r.pc # "undo"
    BY <1>0, <1>4, <2>1, PriceIdleTypes DEF P!Send, PriceTask
  <2>3. /\ price_told' \in SUBSET Thing /\ price_told \subseteq price_told'
        /\ (t \in price_told' \/ ~price_rule[t].triggered)
    BY <1>0, <2>1 DEF PriceTask
  <2> QED
    BY <1>0, <1>4, <2>2, <2>3, PricePassStep DEF P!Send
<1>5. CASE P!SendFails(p)
  <2>1. PICK r \in PriceTask : P!Put(p, r) /\ r.mine = price_pass[p].mine /\ r.pc = "undo" /\ r.undo = r.mine
    <3> DEFINE b == [price_pass[p] EXCEPT !.pc = "undo", !.undo = price_pass[p].mine]
    <3>1. b \in PriceTask /\ b.mine = price_pass[p].mine /\ b.pc = "undo" /\ b.undo = price_pass[p].mine
      BY <1>0 DEF PriceTask
    <3>2. P!Put(p, b)
      BY <1>5 DEF P!SendFails
    <3> HIDE DEF b
    <3> QED
      BY <3>1, <3>2
  <2> QED
    BY <1>0, <1>5, <2>1, PricePassStep, PriceFaultTypes DEF P!SendFails
<1>6. CASE P!Crash(p)
  <2>1. /\ price_stranded' \in SUBSET Thing /\ price_pass[p].mine \subseteq price_stranded'
        /\ price_stranded \subseteq price_stranded'
    BY <1>0, <1>6 DEF P!Crash, PriceTask
  <2> QED
    BY <1>0, <1>6, <2>1, PricePassStep, PriceFaultTypes, PriceIdleTypes DEF P!Crash
<1> QED
  BY <1>1, <1>2, <1>3, <1>4, <1>5, <1>6

LEMMA PriceLooks ==
    ASSUME P!PriceAssumption, PriceInv, NEW p \in Instance, NEW t \in Thing,
           P!Absent(p, t) \/ P!Claim(p, t) \/ \E over \in BOOLEAN : P!Observe(p, t, over)
    PROVE  PriceInv'
<1>0. /\ price_pass[p] \in PriceTask /\ price_told \in SUBSET Thing /\ price_stranded \in SUBSET Thing
      /\ price_faults \in 0 .. MaxFaults
      /\ price_rule \in [Thing -> P!Rules] /\ price_pass[p].seen[t] \in P!Rules /\ P!TypeOK
  BY DEF PriceInv, P!TypeOK, PriceTask
<1>1. price_pass[p].pc = "look" /\ price_faults' = price_faults
  BY DEF P!Absent, P!Claim, P!Observe
<1>a. P!NoRule \in P!Rules /\ [price_pass[p].seen EXCEPT ![t] = P!NoRule] \in [Thing -> P!Rules]
  BY <1>0, PriceIdleTypes DEF PriceTask
<1>b. /\ price_pass[p].left \ {t} \in SUBSET Thing
      /\ P!Looked(p, t) = [price_pass[p] EXCEPT !.left = price_pass[p].left \ {t},
                                                !.seen = [price_pass[p].seen EXCEPT ![t] = P!NoRule]]
  BY <1>0 DEF P!Looked, PriceTask
<1>2. /\ P!Looked(p, t) \in PriceTask /\ P!Looked(p, t).mine = price_pass[p].mine /\ P!Looked(p, t).pc = "look"
      /\ [P!Looked(p, t) EXCEPT !.mine = @ \cup {t}] \in PriceTask
      /\ [P!Looked(p, t) EXCEPT !.mine = @ \cup {t}].mine = price_pass[p].mine \cup {t}
      /\ [P!Looked(p, t) EXCEPT !.mine = @ \cup {t}].pc = "look"
  BY <1>0, <1>1, <1>a, <1>b DEF PriceTask
<1>3. ASSUME P!Put(p, P!Looked(p, t)), UNCHANGED <<price_rule, price_told, price_stranded>> PROVE PriceInv'
  BY <1>0, <1>1, <1>2, <1>3, PricePassStep
<1>4. ASSUME P!Put(p, P!Looked(p, t)), NEW x \in P!Rules, price_rule' = [price_rule EXCEPT ![t] = x],
             \/ P!Rearmed(t) /\ ~x.triggered
             \/ UNCHANGED <<price_told, price_stranded>> /\ x.triggered = price_rule[t].triggered
      PROVE  PriceInv'
  <2>1. PriceCarries'
    BY <1>2, <1>4, PriceCarriesStep
  <2>2. price_pass' \in [Instance -> PriceTask] /\ \A q \in Instance : price_pass'[q].mine = price_pass[q].mine
    BY <1>0, <1>2, <1>4, PriceGoes
  <2>3. /\ price_told' \in SUBSET Thing /\ price_stranded' \in SUBSET Thing
        /\ price_told \subseteq price_told' \cup {t} /\ price_stranded \subseteq price_stranded' \cup {t}
    BY <1>0, <1>4 DEF P!Rearmed
  <2>4. x.triggered => t \in price_told' \cup price_stranded' \/ \E q \in Instance : t \in price_pass'[q].mine
    BY <1>4, <2>2 DEF PriceInv, P!TriggersAreTold
  <2> QED
    BY <1>0, <1>1, <1>4, <2>1, <2>2, <2>3, <2>4, PriceRuleStep
<1>5. CASE P!Absent(p, t)
  <2>1. CASE ~price_pass[p].seen[t].triggered \/ ~price_rule[t].there
    BY <1>3, <1>5, <2>1 DEF P!Absent
  <2>2. CASE price_pass[p].seen[t].absent + 1 >= Rearm /\ ~(~price_pass[p].seen[t].triggered \/ ~price_rule[t].there)
    BY <1>4, <1>5, <2>2, PriceIdleTypes DEF P!Absent
  <2>3. CASE ~(price_pass[p].seen[t].absent + 1 >= Rearm)
               /\ ~(~price_pass[p].seen[t].triggered \/ ~price_rule[t].there)
    <3> DEFINE n == price_pass[p].seen[t].absent + 1
    <3>1. n \in 0 .. Rearm
      BY <1>0, <2>3 DEF P!Rules, P!PriceAssumption
    <3>2. /\ price_rule' = [price_rule EXCEPT ![t] = [price_rule[t] EXCEPT !.absent = n]]
          /\ UNCHANGED <<price_told, price_stranded>>
      BY <1>0, <1>5, <2>3 DEF P!Absent
    <3>3. /\ [price_rule[t] EXCEPT !.absent = n] \in P!Rules
          /\ [price_rule[t] EXCEPT !.absent = n].triggered = price_rule[t].triggered
      BY <1>0, <3>1 DEF P!Rules
    <3>4. P!Put(p, P!Looked(p, t))
      BY <1>5 DEF P!Absent
    <3> QED
      BY <1>4, <3>2, <3>3, <3>4
  <2> QED
    BY <2>1, <2>2, <2>3
<1>6. ASSUME NEW over \in BOOLEAN, P!Observe(p, t, over) PROVE PriceInv'
  <2>0. P!Put(p, P!Looked(p, t))
    BY <1>6 DEF P!Observe
  <2>1. CASE ~price_rule[t].there
    BY <1>3, <1>6, <2>1 DEF P!Observe
  <2>2. CASE price_rule[t].there /\ over /\ price_pass[p].seen[t].triggered
    BY <1>4, <1>6, <2>0, <2>2, PriceIdleTypes DEF P!Observe
  <2>3. CASE price_rule[t].there /\ ~(over /\ price_pass[p].seen[t].triggered)
    <3>2. /\ price_rule' = [price_rule EXCEPT ![t] = [price_rule[t] EXCEPT !.absent = 0]]
          /\ UNCHANGED <<price_told, price_stranded>>
      BY <1>0, <1>6, <2>3 DEF P!Observe
    <3>3. /\ [price_rule[t] EXCEPT !.absent = 0] \in P!Rules
          /\ [price_rule[t] EXCEPT !.absent = 0].triggered = price_rule[t].triggered
      BY <1>0 DEF P!Rules, P!PriceAssumption
    <3> QED
      BY <1>4, <2>0, <3>2, <3>3
  <2> QED
    BY <2>1, <2>2, <2>3
<1>7. CASE P!Claim(p, t)
  <2>1. CASE price_rule[t].there /\ ~price_rule[t].triggered
    <3> DEFINE x == [P!NewRule EXCEPT !.triggered = TRUE]
               r == [P!Looked(p, t) EXCEPT !.mine = @ \cup {t}]
    <3>1. price_rule' = [price_rule EXCEPT ![t] = x] /\ P!Put(p, r) /\ P!Rearmed(t)
      BY <1>7, <2>1 DEF P!Claim
    <3>2. x \in P!Rules
      BY PriceIdleTypes DEF P!Rules
    <3>3. r \in PriceTask /\ r.mine = price_pass[p].mine \cup {t} /\ r.pc = "look"
      BY <1>2
    <3> HIDE DEF x, r
    <3>4. PriceCarries'
      BY <3>1, <3>3, PriceCarriesStep
    <3>5. /\ price_pass' \in [Instance -> PriceTask]
          /\ \A q \in Instance : price_pass[q].mine \subseteq price_pass'[q].mine
      BY <1>0, <3>1, <3>3, PriceGoes
    <3>6. t \in price_pass'[p].mine
      BY <1>0, <3>1, <3>3, PriceGoes
    <3>7. /\ price_told' \in SUBSET Thing /\ price_stranded' \in SUBSET Thing
          /\ price_told \subseteq price_told' \cup {t} /\ price_stranded \subseteq price_stranded' \cup {t}
      BY <1>0, <3>1 DEF P!Rearmed
    <3> QED
      BY <1>0, <1>1, <3>1, <3>2, <3>4, <3>5, <3>6, <3>7, PriceRuleStep
  <2>2. CASE ~(price_rule[t].there /\ ~price_rule[t].triggered)
    BY <1>3, <1>7, <2>2 DEF P!Claim
  <2> QED
    BY <2>1, <2>2
<1> QED
  BY <1>5, <1>6, <1>7

LEMMA PriceLookFailsStep == ASSUME P!PriceAssumption, PriceInv, NEW p \in Instance, P!LookFails(p) PROVE PriceInv'
<1>0. /\ price_pass[p] \in PriceTask /\ price_told \in SUBSET Thing /\ price_stranded \in SUBSET Thing
      /\ price_faults' \in 0 .. MaxFaults
      /\ price_rule \in [Thing -> P!Rules] /\ P!TypeOK /\ P!Put(p, P!Idle) /\ price_told' = price_told
  BY PriceFaultTypes DEF PriceInv, P!TypeOK, PriceTask, P!LookFails
<1>1. PICK t \in price_pass[p].left :
        \/ price_stranded' = price_stranded \cup price_pass[p].mine /\ UNCHANGED price_rule
        \/ /\ price_rule' = [price_rule EXCEPT ![t] = [P!NewRule EXCEPT !.triggered = TRUE]]
           /\ price_stranded' = price_stranded \cup price_pass[p].mine \cup {t}
  BY DEF P!LookFails
<1>2. t \in Thing /\ price_pass[p].mine \in SUBSET Thing
  BY <1>0 DEF PriceTask
<1>3. CASE price_stranded' = price_stranded \cup price_pass[p].mine /\ UNCHANGED price_rule
  BY <1>0, <1>2, <1>3, PricePassStep, PriceIdleTypes
<1>4. CASE /\ price_rule' = [price_rule EXCEPT ![t] = [P!NewRule EXCEPT !.triggered = TRUE]]
           /\ price_stranded' = price_stranded \cup price_pass[p].mine \cup {t}
  <2> DEFINE x == [P!NewRule EXCEPT !.triggered = TRUE]
  <2>1. x \in P!Rules /\ price_rule' = [price_rule EXCEPT ![t] = x]
    BY <1>4, PriceIdleTypes DEF P!Rules
  <2> HIDE DEF x
  <2>2. PriceCarries'
    BY <1>0, PriceIdleTypes, PriceCarriesStep
  <2>3. /\ price_pass' \in [Instance -> PriceTask] /\ price_pass'[p] = P!Idle
        /\ \A q \in Instance : q # p => price_pass'[q] = price_pass[q]
    BY <1>0, PriceIdleTypes, PriceGoes
  <2>4. /\ \A q \in Instance : price_pass[q].mine \subseteq price_pass'[q].mine \cup price_stranded' \cup {t}
        /\ price_stranded' \in SUBSET Thing /\ price_stranded \subseteq price_stranded' \cup {t}
        /\ t \in price_stranded'
    BY <1>0, <1>2, <1>4, <2>3
  <2> QED
    BY <1>0, <1>2, <2>1, <2>2, <2>3, <2>4, PriceRuleStep
<1> QED
  BY <1>1, <1>3, <1>4

LEMMA PriceRollbackStep == ASSUME P!PriceAssumption, PriceInv, NEW p \in Instance, P!Rollback(p) PROVE PriceInv'
<1>0. /\ price_pass[p] \in PriceTask /\ price_told \in SUBSET Thing /\ price_stranded \in SUBSET Thing
      /\ price_faults \in 0 .. MaxFaults
      /\ price_rule \in [Thing -> P!Rules] /\ P!TypeOK
  BY DEF PriceInv, P!TypeOK, PriceTask
<1>1. PICK t \in price_pass[p].undo :
        /\ P!Put(p, IF price_pass[p].undo = {t} THEN P!Idle
             ELSE [price_pass[p] EXCEPT !.undo = @ \ {t}, !.mine = @ \ {t}])
        /\ \/ price_rule' = [price_rule EXCEPT ![t].triggered = FALSE] /\ P!Rearmed(t) /\ UNCHANGED price_faults
           \/ P!Fault /\ price_stranded' = price_stranded \cup {t} /\ UNCHANGED <<price_rule, price_told>>
  BY DEF P!Rollback
<1>2. t \in Thing /\ price_pass[p].mine = price_pass[p].undo
  BY <1>0, <1>1 DEF P!Rollback, PriceInv, PriceCarries, PriceTask
<1>3. PICK r \in PriceTask : /\ P!Put(p, r) /\ r.mine = price_pass[p].mine \ {t}
                             /\ r.pc = "idle" => r.mine = {}
                             /\ r.pc = "undo" => r.mine = r.undo
  <2>1. CASE price_pass[p].undo = {t}
    BY <1>1, <1>2, <2>1, PriceIdleTypes
  <2>2. CASE price_pass[p].undo # {t}
    <3>1. price_pass[p].pc = "undo"
      BY DEF P!Rollback
    <3> DEFINE q == [price_pass[p] EXCEPT !.undo = @ \ {t}, !.mine = @ \ {t}]
    <3>2. q \in PriceTask /\ q.pc = "undo" /\ q.mine = price_pass[p].mine \ {t} /\ q.undo = q.mine
      BY <1>0, <1>2, <3>1 DEF PriceTask
    <3>3. P!Put(p, q)
      BY <1>1, <2>2
    <3> HIDE DEF q
    <3> QED
      BY <3>2, <3>3
  <2> QED
    BY <2>1, <2>2
<1>4. CASE price_rule' = [price_rule EXCEPT ![t].triggered = FALSE] /\ P!Rearmed(t) /\ UNCHANGED price_faults
  <2> DEFINE x == [price_rule[t] EXCEPT !.triggered = FALSE]
  <2>1. x \in P!Rules /\ ~x.triggered /\ price_rule' = [price_rule EXCEPT ![t] = x]
    BY <1>0, <1>2, <1>4 DEF P!Rules
  <2> HIDE DEF x
  <2>2. PriceCarries'
    BY <1>3, PriceCarriesStep
  <2>3. /\ price_pass' \in [Instance -> PriceTask] /\ price_pass'[p] = r
        /\ \A q \in Instance : q # p => price_pass'[q] = price_pass[q]
    BY <1>0, <1>3, PriceGoes
  <2>4. /\ \A q \in Instance : price_pass[q].mine \subseteq price_pass'[q].mine \cup price_stranded' \cup {t}
        /\ price_told' \in SUBSET Thing /\ price_told \subseteq price_told' \cup {t}
        /\ price_stranded' \in SUBSET Thing /\ price_stranded \subseteq price_stranded' \cup {t}
    BY <1>0, <1>3, <1>4, <2>3 DEF P!Rearmed
  <2> QED
    BY <1>0, <1>2, <1>4, <2>1, <2>2, <2>3, <2>4, PriceRuleStep
<1>5. CASE P!Fault /\ price_stranded' = price_stranded \cup {t} /\ UNCHANGED <<price_rule, price_told>>
  BY <1>0, <1>2, <1>3, <1>5, PricePassStep, PriceFaultTypes
<1> QED
  BY <1>1, <1>4, <1>5

LEMMA PriceEdits == ASSUME P!PriceAssumption, PriceInv, NEW t \in Thing, P!Upsert(t) \/ P!Remove(t) PROVE PriceInv'
<1>0. /\ price_told \in SUBSET Thing /\ price_stranded \in SUBSET Thing /\ price_faults \in 0 .. MaxFaults
      /\ price_pass \in [Instance -> PriceTask]
      /\ UNCHANGED <<price_pass, price_faults>> /\ P!Rearmed(t) /\ PriceCarries
  BY DEF PriceInv, P!TypeOK, PriceTask, P!Upsert, P!Remove
<1>1. PICK x \in P!Rules : price_rule' = [price_rule EXCEPT ![t] = x] /\ ~x.triggered
  BY PriceIdleTypes DEF P!Upsert, P!Remove
<1>2. PriceCarries'
  BY <1>0 DEF PriceCarries
<1> QED
  BY <1>0, <1>1, <1>2, PriceRuleStep DEF P!Rearmed

(* A rule that was consumed is with a pass, told to its owner, or stranded *)
(* by a fault: the claim and the message stay together.                    *)
THEOREM PriceInvariant == ASSUME P!PriceAssumption PROVE P!Spec => []PriceInv
<1>1. P!Init => PriceInv
  BY PriceInitInv
<1>2. PriceInv /\ [P!Next]_(P!vars) => PriceInv'
  <2> SUFFICES ASSUME PriceInv, [P!Next]_(P!vars) PROVE PriceInv'
    OBVIOUS
  <2>1. CASE UNCHANGED P!vars
    BY <2>1 DEF P!vars, PriceInv, P!TypeOK, PriceCarries, P!TriggersAreTold
  <2>2. CASE P!Next
    BY <2>2, PricePassMoves, PriceLooks, PriceLookFailsStep, PriceRollbackStep, PriceEdits DEF P!Next
  <2> QED
    BY <2>1, <2>2
<1> QED
  BY <1>1, <1>2, PTL DEF P!Spec

-----------------------------------------------------------------------------
(* The player counts.  A claim compares the time of the record that was    *)
(* read, so no two refreshes that run at once claim the same change.       *)
CountsPlaces == {"idle", "list", "claim", "send", "read", "write", "tell", "done"}
CountsTask == [pc : CountsPlaces, count : Counts \cup {0}, at : C!Time, seen : SUBSET C!Watched, prev : SUBSET Counts]

CountsSole(Z) == \A x, y \in Z : x = y

(* What is watched says what was told last. *)
CountsLastIsWatched ==
    /\ CountsSole(counts_watch) /\ (counts_watch = {} => counts_last = {})
    /\ \A w \in counts_watch : w.told = counts_last
(* A record that was read is the stored one if their times are.             *)
CountsGenuine(r) == \A w \in r.seen, x \in counts_watch : w.at = x.at => w.told = x.told
(* The time of a refresh that has not claimed is no other's.                *)
CountsUnclaimed(r) == r.pc \in {"list", "claim"}
CountsFresh(r) ==
    /\ r.at <= counts_clock /\ (r.pc # "idle" => r.count \in Counts)
    /\ \A w \in r.seen : w.at <= counts_clock
    /\ CountsUnclaimed(r) => \A w \in counts_watch : w.at # r.at
CountsApart(r, q) ==
    CountsUnclaimed(r) => (\A w \in q.seen : w.at # r.at) /\ (CountsUnclaimed(q) => q.at # r.at)
CountsNoted(r) == r.pc \in {"tell", "done"} => \E p \in counts_record : p >= r.count

CountsInv ==
    /\ C!TypeOK /\ counts_refresh \in [Instance -> CountsTask] /\ counts_crowded = FALSE /\ CountsLastIsWatched
    /\ \A w \in counts_watch : w.at <= counts_clock
    /\ \A r \in Instance : CountsGenuine(counts_refresh[r]) /\ CountsFresh(counts_refresh[r])
    /\ \A r \in Instance : \A w \in counts_refresh[r].seen : CountsUnclaimed(counts_refresh[r]) =>
         w.at # counts_refresh[r].at
    /\ \A r, q \in Instance : r # q => CountsApart(counts_refresh[r], counts_refresh[q])
    /\ \A r \in Instance \ counts_overlapped :
               /\ CountsNoted(counts_refresh[r])
               /\ counts_refresh[r].pc # "idle" => \A q \in Instance : q # r => counts_refresh[q].pc = "idle"

(* Of the operator as the instance sees it.                                *)
LEMMA CountsSizes == C!Cardinality({}) = 0 /\ \A x : C!Cardinality({x}) = 1
<1>1. \A X : C!Cardinality(X) = Cardinality(X)
  BY DEF C!Cardinality, Cardinality
<1> QED
  BY <1>1, FS_EmptySet, FS_Singleton

LEMMA CountsIdleTypes ==
    ASSUME C!CountsAssumption
    PROVE  C!Idle \in CountsTask /\ C!Idle.pc = "idle" /\ C!Idle.seen = {} /\ C!Idle.at = 0 /\ C!Idle.prev = {}
BY DEF C!Idle, CountsTask, CountsPlaces, C!Time, C!CountsAssumption

LEMMA CountsFaultTypes == ASSUME C!CountsAssumption, C!TypeOK, C!Fault PROVE counts_faults' \in 0 .. MaxFaults
BY DEF C!TypeOK, C!Fault, C!CountsAssumption

LEMMA CountsGoes ==
    ASSUME CountsInv, NEW p \in Instance, NEW r \in CountsTask, C!Put(p, r)
    PROVE  /\ counts_refresh' \in [Instance -> CountsTask] /\ counts_refresh'[p] = r
           /\ \A q \in Instance : q # p => counts_refresh'[q] = counts_refresh[q]
BY DEF CountsInv, C!Put

LEMMA CountsNow ==
    ASSUME CountsInv, NEW p \in Instance
    PROVE  /\ counts_refresh[p] \in CountsTask /\ C!TypeOK /\ counts_faults \in 0 .. MaxFaults
           /\ counts_clock \in C!Time
           /\ counts_refresh[p].seen \in SUBSET C!Watched /\ counts_refresh[p].count \in Counts \cup {0}
           /\ counts_refresh[p].at \in C!Time /\ counts_watch \in SUBSET C!Watched /\ counts_record \in SUBSET Counts
           /\ counts_last \in SUBSET C!Told /\ counts_overlapped \in SUBSET Instance
BY DEF CountsInv, C!TypeOK, CountsTask

(* A refresh that goes on without looking at what is watched.              *)
LEMMA CountsQuiet ==
    ASSUME C!CountsAssumption, CountsInv, NEW p \in Instance, NEW r \in CountsTask, C!Put(p, r),
           counts_faults' \in 0 .. MaxFaults,
           UNCHANGED <<counts_clock, counts_watch, counts_last, counts_crowded, counts_overlapped>>,
           ~CountsUnclaimed(r), r.seen = counts_refresh[p].seen \/ r.seen = {},
           r.at = counts_refresh[p].at \/ r.at = 0,
           r.pc = "idle" \/ r.count = counts_refresh[p].count,
           counts_refresh[p].pc # "idle",
           counts_record' \in SUBSET Counts, C!Cardinality(counts_record') <= 1,
           counts_record' = counts_record \/ \E n \in counts_record' : n >= r.count,
           counts_record' = counts_record \/ counts_refresh[p].pc = "write",
           p \notin counts_overlapped => (r.pc \in {"tell", "done"} => \E n \in counts_record' : n >= r.count)
    PROVE  CountsInv'
<1>1. /\ counts_refresh' \in [Instance -> CountsTask] /\ counts_refresh'[p] = r
      /\ \A q \in Instance : q # p => counts_refresh'[q] = counts_refresh[q]
  BY CountsGoes
<1>2. C!TypeOK'
  BY <1>1 DEF CountsInv, C!TypeOK, CountsTask, CountsPlaces
<1>3. counts_crowded' = FALSE /\ CountsLastIsWatched' /\ \A w \in counts_watch' : w.at <= counts_clock'
  BY DEF CountsInv, CountsLastIsWatched, CountsSole
<1>4. \A q \in Instance : CountsGenuine(counts_refresh[q])' /\ CountsFresh(counts_refresh[q])'
  <2>1. CountsGenuine(counts_refresh[p])'
    BY <1>1 DEF CountsInv, CountsGenuine
  <2>2. CountsFresh(counts_refresh[p])'
    BY <1>1 DEF CountsInv, CountsFresh, C!TypeOK, C!Time
  <2>3. ASSUME NEW q \in Instance, q # p PROVE CountsGenuine(counts_refresh[q])' /\ CountsFresh(counts_refresh[q])'
    BY <1>1, <2>3 DEF CountsInv, CountsFresh, CountsGenuine, CountsUnclaimed
  <2> QED
    BY <2>1, <2>2, <2>3
<1>5. \A q \in Instance : \A w \in counts_refresh'[q].seen : CountsUnclaimed(counts_refresh'[q]) =>
        w.at # counts_refresh'[q].at
  BY <1>1 DEF CountsInv
<1>6. \A q, s \in Instance : q # s => CountsApart(counts_refresh'[q], counts_refresh'[s])
  <2>1. SUFFICES ASSUME NEW q \in Instance, NEW s \in Instance, q # s
                 PROVE  CountsApart(counts_refresh'[q], counts_refresh'[s])
    OBVIOUS
  <2>2. CountsApart(counts_refresh[q], counts_refresh[s])
    BY <2>1 DEF CountsInv
  <2>3. CASE q = p
    BY <1>1, <2>3 DEF CountsApart
  <2>4. CASE q # p /\ s = p
    BY <1>1, <2>2, <2>4 DEF CountsApart
  <2>5. CASE q # p /\ s # p
    BY <1>1, <2>2, <2>5
  <2> QED
    BY <2>3, <2>4, <2>5
<1>7. \A q \in Instance \ counts_overlapped' :
         /\ CountsNoted(counts_refresh[q])'
         /\ counts_refresh'[q].pc # "idle" => \A s \in Instance : s # q => counts_refresh'[s].pc = "idle"
  <2>1. SUFFICES ASSUME NEW q \in Instance \ counts_overlapped
                 PROVE  /\ counts_refresh'[q].pc \in {"tell", "done"} =>
                             \E n \in counts_record' : n >= counts_refresh'[q].count
                        /\ counts_refresh'[q].pc # "idle" => \A s \in Instance : s # q =>
                             counts_refresh'[s].pc = "idle"
    BY DEF CountsNoted
  <2>2. /\ counts_refresh[q].pc \in {"tell", "done"} => \E n \in counts_record : n >= counts_refresh[q].count
        /\ counts_refresh[q].pc # "idle" => \A s \in Instance : s # q => counts_refresh[s].pc = "idle"
    BY DEF CountsInv, CountsNoted
  <2>3. CASE q = p
    BY <1>1, <2>2, <2>3
  <2>4. CASE q # p
    <3>1. counts_refresh[q].pc = "idle" /\ counts_refresh'[q].pc = "idle"
      BY <1>1, <2>2, <2>4
    <3> QED
      BY <3>1
  <2> QED
    BY <2>3, <2>4
<1> QED
  BY <1>1, <1>2, <1>3, <1>4, <1>5, <1>6, <1>7 DEF CountsInv, CountsNoted

LEMMA CountsQuietStep ==
    ASSUME C!CountsAssumption, CountsInv, NEW p \in Instance,
           C!Send(p) \/ C!ReadRecord(p) \/ C!WriteRecord(p) \/ C!TellMilestone(p) \/ C!Finish(p) \/ C!Break(p)
    PROVE  CountsInv'
<1>0. /\ counts_refresh[p] \in CountsTask /\ C!TypeOK /\ counts_faults' \in 0 .. MaxFaults
      /\ counts_record \in SUBSET Counts
      /\ counts_refresh[p].seen \in SUBSET C!Watched /\ counts_refresh[p].count \in Counts \cup {0}
      /\ UNCHANGED <<counts_clock, counts_watch, counts_last, counts_crowded, counts_overlapped>>
      /\ counts_refresh[p].pc # "idle"
      /\ C!Cardinality(counts_record) <= 1
  BY CountsNow, CountsFaultTypes DEF C!Send, C!ReadRecord, C!WriteRecord, C!TellMilestone, C!Finish, C!Break,
      C!At, C!TypeOK
<1>1. ASSUME NEW l \in CountsPlaces, l \notin {"list", "claim"}, C!Put(p, [counts_refresh[p] EXCEPT !.pc = l]),
             \/ counts_record' = counts_record
             \/ counts_record' = {counts_refresh[p].count} /\ counts_refresh[p].pc = "write",
             p \notin counts_overlapped => (l \in {"tell", "done"} =>
                 \E n \in counts_record' : n >= counts_refresh[p].count)
      PROVE  CountsInv'
  <2> DEFINE q == [counts_refresh[p] EXCEPT !.pc = l]
  <2>1. /\ q \in CountsTask /\ q.pc = l /\ q.seen = counts_refresh[p].seen /\ q.at = counts_refresh[p].at
        /\ q.count = counts_refresh[p].count
    BY <1>0, <1>1 DEF CountsTask
  <2>2. C!Put(p, q)
    BY <1>1
  <2> HIDE DEF q
  <2> PICK r \in CountsTask : r = q
    BY <2>1
  <2>3. counts_record' \in SUBSET Counts /\ C!Cardinality(counts_record') <= 1
    <3>1. counts_refresh[p].count \in Counts
      BY <1>0 DEF CountsInv, CountsFresh
    <3>2. C!Cardinality({counts_refresh[p].count}) = 1
      BY CountsSizes
    <3>3. CASE counts_record' = counts_record
      BY <1>0, <3>3
    <3>4. CASE counts_record' = {counts_refresh[p].count}
      BY <3>1, <3>2, <3>4
    <3> QED
      BY <1>1, <3>3, <3>4
  <2>4. counts_refresh[p].count \in Nat /\ (counts_record' = counts_record \/ \E n \in counts_record' : n >= r.count)
    BY <1>0, <1>1, <2>1 DEF C!CountsAssumption
  <2> QED
    BY <1>0, <1>1, <2>1, <2>2, <2>3, <2>4, CountsQuiet DEF CountsUnclaimed
<1>2. CASE C!Put(p, C!Idle) /\ counts_record' = counts_record
  BY <1>0, <1>2, CountsIdleTypes, CountsQuiet DEF CountsUnclaimed
<1>3. counts_refresh[p].count \in Nat
  <2>1. counts_refresh[p].count \in Counts \cup {0}
    BY <1>0
  <2>2. \A n \in Counts : n \in Nat
    BY DEF C!CountsAssumption
  <2>3. CASE counts_refresh[p].count \in Counts
    BY <2>2, <2>3
  <2>4. CASE counts_refresh[p].count = 0
    BY <2>4
  <2> QED
    BY <2>1, <2>3, <2>4
<1>4. CASE C!Send(p)
  BY <1>1, <1>2, <1>4 DEF C!Send, C!Move, CountsPlaces
<1>5. CASE C!ReadRecord(p)
  <2> DEFINE l == IF \E n \in counts_record : counts_refresh[p].count <= n THEN "done" ELSE "write"
             q == [counts_refresh[p] EXCEPT !.prev = counts_record, !.pc = l]
  <2>1. /\ l \in CountsPlaces /\ l \notin {"list", "claim", "tell", "idle"}
        /\ l = "done" => \E n \in counts_record : n >= counts_refresh[p].count
    BY <1>0, <1>3 DEF CountsPlaces, C!CountsAssumption
  <2> HIDE DEF l
  <2>2. /\ q \in CountsTask /\ q.pc = l /\ q.seen = counts_refresh[p].seen /\ q.at = counts_refresh[p].at
        /\ q.count = counts_refresh[p].count
    BY <1>0, <2>1 DEF CountsTask
  <2>3. C!Put(p, q) /\ counts_record' = counts_record
    BY <1>5 DEF C!ReadRecord, l
  <2> HIDE DEF q
  <2> PICK r \in CountsTask : r = q
    BY <2>2
  <2> QED
    BY <1>0, <2>1, <2>2, <2>3, CountsQuiet DEF CountsUnclaimed
<1>6. CASE C!WriteRecord(p)
  <2>1. /\ counts_record' = {counts_refresh[p].count} /\ counts_refresh[p].pc = "write"
        /\ \/ C!Put(p, [counts_refresh[p] EXCEPT !.pc = "done"])
           \/ C!Put(p, [counts_refresh[p] EXCEPT !.pc = "tell"])
    BY <1>6 DEF C!WriteRecord, C!Move, C!At
  <2>2. \E n \in counts_record' : n >= counts_refresh[p].count
    BY <1>3, <2>1
  <2> QED
    BY <1>1, <2>1, <2>2 DEF CountsPlaces
<1>7. CASE C!TellMilestone(p)
  <2>1. p \notin counts_overlapped => \E n \in counts_record : n >= counts_refresh[p].count
    BY <1>7 DEF CountsInv, CountsNoted, C!TellMilestone, C!At
  <2> QED
    BY <1>1, <1>7, <2>1 DEF C!TellMilestone, C!Move, CountsPlaces
<1>8. CASE C!Finish(p)
  BY <1>2, <1>8 DEF C!Finish
<1>9. CASE C!Break(p)
  BY <1>2, <1>9 DEF C!Break
<1> QED
  BY <1>4, <1>5, <1>6, <1>7, <1>8, <1>9

(* A refresh begins, with a time of its own.                               *)
LEMMA CountsObserveStep == ASSUME C!CountsAssumption, CountsInv, NEW p \in Instance, C!Observe(p) PROVE CountsInv'
<1>0. /\ counts_refresh[p].pc = "idle" /\ counts_clock < MaxClock /\ counts_clock' = counts_clock + 1
      /\ counts_clock' \in C!Time /\ counts_clock \in Nat
      /\ UNCHANGED <<counts_watch, counts_record, counts_last, counts_crowded, counts_faults>> /\ C!TypeOK
  BY CountsNow DEF C!Observe, C!At, C!Time, C!CountsAssumption
<1>1. PICK n \in Counts : C!Put(p, [C!Idle EXCEPT !.pc = "list", !.count = n, !.at = counts_clock'])
  BY DEF C!Observe
<1> DEFINE q == [C!Idle EXCEPT !.pc = "list", !.count = n, !.at = counts_clock + 1]
<1>2. /\ q \in CountsTask /\ q.pc = "list" /\ q.count = n /\ q.at = counts_clock + 1 /\ q.seen = {}
  BY <1>0 DEF C!Idle, CountsTask, CountsPlaces
<1>3. C!Put(p, q)
  BY <1>0, <1>1
<1> HIDE DEF q
<1> PICK r \in CountsTask : r = q
  BY <1>2
<1>4. /\ counts_refresh' \in [Instance -> CountsTask] /\ counts_refresh'[p] = r
      /\ \A s \in Instance : s # p => counts_refresh'[s] = counts_refresh[s]
  BY <1>3, CountsGoes
<1>5. /\ counts_overlapped' \in SUBSET Instance
      /\ \A s \in Instance \ counts_overlapped' : counts_refresh'[s].pc # "idle" =>
           s = p /\ \A t \in Instance : t # p => counts_refresh[t].pc = "idle"
  <2> DEFINE busy == {s \in Instance : counts_refresh[s].pc # "idle"}
  <2>1. counts_overlapped' = IF busy = {} THEN {} ELSE counts_overlapped \cup busy \cup {p}
    BY DEF C!Observe, C!At
  <2>2. CASE busy = {}
    BY <1>4, <2>1, <2>2
  <2>3. CASE busy # {}
    BY <1>0, <1>4, <2>1, <2>3 DEF C!TypeOK
  <2> QED
    BY <2>2, <2>3
<1>6. \A s \in Instance : counts_refresh[s].at \in Nat /\ counts_refresh[s].at <= counts_clock
  BY DEF CountsInv, C!TypeOK, CountsFresh, C!Time
<1>7. \A w \in C!Watched : w.at \in Nat
  BY DEF C!Watched, C!Time
<1>8. /\ \A w \in counts_watch : w.at \in Nat /\ w.at <= counts_clock
      /\ \A s \in Instance : \A w \in counts_refresh[s].seen : w.at \in Nat /\ w.at <= counts_clock
  BY <1>7 DEF CountsInv, C!TypeOK, CountsFresh
<1>9. C!TypeOK'
  BY <1>0, <1>4, <1>5 DEF C!TypeOK, CountsTask, CountsPlaces
<1>10. counts_crowded' = FALSE /\ CountsLastIsWatched' /\ \A w \in counts_watch' : w.at <= counts_clock'
  BY <1>0, <1>8 DEF CountsInv, CountsLastIsWatched, CountsSole
<1>11. \A s \in Instance : CountsGenuine(counts_refresh[s])' /\ CountsFresh(counts_refresh[s])'
  <2>1. CountsGenuine(counts_refresh[p])'
    BY <1>2, <1>4 DEF CountsGenuine
  <2>2. CountsFresh(counts_refresh[p])'
    BY <1>0, <1>2, <1>4, <1>8 DEF CountsFresh, CountsUnclaimed
  <2>3. ASSUME NEW s \in Instance, s # p PROVE CountsGenuine(counts_refresh[s])' /\ CountsFresh(counts_refresh[s])'
    <3>1. counts_refresh'[s] = counts_refresh[s] /\ CountsGenuine(counts_refresh[s]) /\ CountsFresh(counts_refresh[s])
      BY <1>4, <2>3 DEF CountsInv
    <3>2. CountsGenuine(counts_refresh[s])'
      BY <1>0, <3>1 DEF CountsGenuine
    <3>3. CountsFresh(counts_refresh[s])'
      BY <1>0, <1>6, <1>8, <3>1 DEF CountsFresh, CountsUnclaimed
    <3> QED
      BY <3>2, <3>3
  <2> QED
    BY <2>1, <2>2, <2>3
<1>12. \A s \in Instance : \A w \in counts_refresh'[s].seen : CountsUnclaimed(counts_refresh'[s]) =>
         w.at # counts_refresh'[s].at
  BY <1>2, <1>4 DEF CountsInv
<1>13. \A s, t \in Instance : s # t => CountsApart(counts_refresh'[s], counts_refresh'[t])
  <2>1. SUFFICES ASSUME NEW s \in Instance, NEW t \in Instance, s # t
                 PROVE  CountsApart(counts_refresh'[s], counts_refresh'[t])
    OBVIOUS
  <2>2. CASE s = p
    <3>1. counts_refresh'[t] = counts_refresh[t] /\ counts_refresh'[s] = r
      BY <1>4, <2>1, <2>2
    <3> QED
      BY <1>0, <1>2, <1>6, <1>8, <3>1 DEF CountsApart
  <2>3. CASE s # p /\ t = p
    <3>1. counts_refresh'[s] = counts_refresh[s] /\ counts_refresh'[t] = r
      BY <1>4, <2>3
    <3> QED
      BY <1>0, <1>2, <1>6, <1>8, <3>1 DEF CountsApart
  <2>4. CASE s # p /\ t # p
    BY <1>4, <2>1, <2>4 DEF CountsInv
  <2> QED
    BY <2>2, <2>3, <2>4
<1>14. \A s \in Instance \ counts_overlapped' :
         /\ CountsNoted(counts_refresh[s])'
         /\ counts_refresh'[s].pc # "idle" => \A t \in Instance : t # s => counts_refresh'[t].pc = "idle"
  BY <1>0, <1>2, <1>4, <1>5 DEF CountsNoted
<1> QED
  BY <1>4, <1>9, <1>10, <1>11, <1>12, <1>13, <1>14 DEF CountsInv

LEMMA CountsTickStep == ASSUME C!CountsAssumption, CountsInv, C!Tick PROVE CountsInv'
<1>0. /\ counts_clock' = counts_clock + 1 /\ counts_clock' \in C!Time /\ counts_clock \in Nat
      /\ UNCHANGED <<counts_watch, counts_record, counts_refresh, counts_last, counts_crowded, counts_overlapped,
           counts_faults>>
  BY DEF C!Tick, C!Time, C!CountsAssumption, CountsInv, C!TypeOK
<1>1. \A w \in C!Watched : w.at \in Nat
  BY DEF C!Watched, C!Time
<1>2. C!TypeOK'
  BY <1>0 DEF C!TypeOK, CountsInv
<1>3. CountsLastIsWatched' /\ \A w \in counts_watch' : w.at <= counts_clock'
  BY <1>0, <1>1 DEF CountsInv, C!TypeOK, CountsLastIsWatched, CountsSole
<1>4. \A s \in Instance : CountsGenuine(counts_refresh[s])' /\ CountsFresh(counts_refresh[s])'
  BY <1>0, <1>1 DEF CountsInv, C!TypeOK, CountsGenuine, CountsFresh, CountsUnclaimed, C!Time
<1> QED
  BY <1>0, <1>2, <1>3, <1>4 DEF CountsInv, CountsNoted, CountsApart

(* What a refresh reads is what is watched.                                *)
LEMMA CountsListStep == ASSUME C!CountsAssumption, CountsInv, NEW p \in Instance, C!List(p) PROVE CountsInv'
<1>0. /\ counts_refresh[p] \in CountsTask /\ counts_refresh[p].pc = "list" /\ C!TypeOK
      /\ counts_watch \in SUBSET C!Watched
      /\ UNCHANGED <<counts_clock, counts_watch, counts_record, counts_last, counts_crowded, counts_overlapped,
           counts_faults>>
      /\ CountsGenuine(counts_refresh[p]) /\ CountsFresh(counts_refresh[p]) /\ CountsSole(counts_watch)
  BY CountsNow DEF C!List, C!At, CountsInv, CountsLastIsWatched
<1> DEFINE q == [counts_refresh[p] EXCEPT !.pc = "claim", !.seen = counts_watch]
<1>1. /\ q \in CountsTask /\ q.pc = "claim" /\ q.count = counts_refresh[p].count /\ q.at = counts_refresh[p].at
      /\ q.seen = counts_watch
  BY <1>0 DEF CountsTask, CountsPlaces
<1>2. C!Put(p, q)
  BY DEF C!List
<1> HIDE DEF q
<1> PICK r \in CountsTask : r = q
  BY <1>1
<1>4. /\ counts_refresh' \in [Instance -> CountsTask] /\ counts_refresh'[p] = r
      /\ \A s \in Instance : s # p => counts_refresh'[s] = counts_refresh[s]
  BY <1>2, CountsGoes
<1>5. C!TypeOK'
  BY <1>0, <1>4 DEF C!TypeOK, CountsTask, CountsPlaces
<1>6. counts_crowded' = FALSE /\ CountsLastIsWatched' /\ \A w \in counts_watch' : w.at <= counts_clock'
  BY <1>0 DEF CountsInv, CountsLastIsWatched, CountsSole
<1>7. \A s \in Instance : CountsGenuine(counts_refresh[s])' /\ CountsFresh(counts_refresh[s])'
  <2>1. CountsGenuine(counts_refresh[p])'
    BY <1>0, <1>1, <1>4 DEF CountsGenuine, CountsSole
  <2>2. CountsFresh(counts_refresh[p])'
    BY <1>0, <1>1, <1>4, <1>6 DEF CountsFresh, CountsUnclaimed
  <2>3. ASSUME NEW s \in Instance, s # p PROVE CountsGenuine(counts_refresh[s])' /\ CountsFresh(counts_refresh[s])'
    BY <1>0, <1>4, <2>3 DEF CountsInv, CountsFresh, CountsGenuine, CountsUnclaimed
  <2> QED
    BY <2>1, <2>2, <2>3
<1>8. \A s \in Instance : \A w \in counts_refresh'[s].seen : CountsUnclaimed(counts_refresh'[s]) =>
        w.at # counts_refresh'[s].at
  BY <1>0, <1>1, <1>4 DEF CountsInv, CountsFresh, CountsUnclaimed
<1>9. \A s, t \in Instance : s # t => CountsApart(counts_refresh'[s], counts_refresh'[t])
  <2>1. SUFFICES ASSUME NEW s \in Instance, NEW t \in Instance, s # t
                 PROVE  CountsApart(counts_refresh'[s], counts_refresh'[t])
    OBVIOUS
  <2>2. CountsApart(counts_refresh[s], counts_refresh[t])
    BY <2>1 DEF CountsInv
  <2>3. CASE s = p
    <3>1. counts_refresh'[t] = counts_refresh[t] /\ counts_refresh'[s] = r
      BY <1>4, <2>1, <2>3
    <3> QED
      BY <1>0, <1>1, <2>2, <2>3, <3>1 DEF CountsApart, CountsUnclaimed
  <2>4. CASE s # p /\ t = p
    <3>1. counts_refresh'[s] = counts_refresh[s] /\ counts_refresh'[t] = r /\ CountsFresh(counts_refresh[s])
      BY <1>4, <2>4 DEF CountsInv
    <3> QED
      BY <1>0, <1>1, <2>2, <2>4, <3>1 DEF CountsApart, CountsUnclaimed, CountsFresh
  <2>5. CASE s # p /\ t # p
    BY <1>4, <2>1, <2>2, <2>5
  <2> QED
    BY <2>3, <2>4, <2>5
<1>10. \A s \in Instance \ counts_overlapped' :
         /\ CountsNoted(counts_refresh[s])'
         /\ counts_refresh'[s].pc # "idle" => \A t \in Instance : t # s => counts_refresh'[t].pc = "idle"
  <2>1. SUFFICES ASSUME NEW s \in Instance \ counts_overlapped
                 PROVE  /\ CountsNoted(counts_refresh[s])'
                        /\ counts_refresh'[s].pc # "idle" => \A t \in Instance : t # s =>
                             counts_refresh'[t].pc = "idle"
    BY <1>0
  <2>2. CountsNoted(counts_refresh[s]) /\ (counts_refresh[s].pc # "idle" => \A t \in Instance : t # s =>
          counts_refresh[t].pc = "idle")
    BY DEF CountsInv
  <2>3. CASE s = p
    BY <1>0, <1>1, <1>4, <2>2, <2>3 DEF CountsNoted
  <2>4. CASE s # p
    <3>1. counts_refresh[s].pc = "idle" /\ counts_refresh'[s] = counts_refresh[s]
      BY <1>0, <1>4, <2>2, <2>4
    <3> QED
      BY <3>1 DEF CountsNoted
  <2> QED
    BY <2>3, <2>4
<1> QED
  BY <1>4, <1>5, <1>6, <1>7, <1>8, <1>9, <1>10 DEF CountsInv

(* A refresh that stores its observation: nobody has read one of its time. *)
LEMMA CountsStores ==
    ASSUME C!CountsAssumption, CountsInv, NEW p \in Instance, NEW r \in CountsTask, C!Put(p, r),
           counts_refresh[p].pc = "claim",
           r.pc \in {"send", "read"}, r.seen = counts_refresh[p].seen, r.at = counts_refresh[p].at,
           r.count = counts_refresh[p].count,
           UNCHANGED <<counts_clock, counts_record, counts_overlapped, counts_faults>>,
           NEW x \in C!Watched, counts_watch' = {x}, x.at = counts_refresh[p].at, counts_last' \in SUBSET C!Told,
           counts_last' = x.told,
           counts_crowded' = counts_crowded
    PROVE  CountsInv'
<1>0. /\ C!TypeOK /\ CountsGenuine(counts_refresh[p]) /\ CountsFresh(counts_refresh[p])
  BY CountsNow DEF CountsInv
<1>4. /\ counts_refresh' \in [Instance -> CountsTask] /\ counts_refresh'[p] = r
      /\ \A s \in Instance : s # p => counts_refresh'[s] = counts_refresh[s]
  BY CountsGoes
<1>5. C!TypeOK'
  <2>1. C!Cardinality({x}) = 1
    BY CountsSizes
  <2>2. counts_watch' \subseteq C!Watched /\ C!Cardinality(counts_watch') <= 1
    BY <2>1
  <2> QED
    BY <1>0, <1>4, <2>2 DEF C!TypeOK, CountsTask, CountsPlaces
<1>6. counts_crowded' = FALSE /\ CountsLastIsWatched' /\ \A w \in counts_watch' : w.at <= counts_clock'
  BY <1>0 DEF CountsInv, CountsLastIsWatched, CountsSole, CountsFresh
<1>7. \A s \in Instance : CountsGenuine(counts_refresh[s])' /\ CountsFresh(counts_refresh[s])'
  <2>1. ASSUME NEW w \in counts_refresh[p].seen PROVE w.at # x.at
    BY DEF CountsInv, CountsUnclaimed
  <2>2. CountsGenuine(counts_refresh[p])'
    BY <1>4, <2>1 DEF CountsGenuine
  <2>3. CountsFresh(counts_refresh[p])'
    BY <1>0, <1>4 DEF CountsFresh, CountsUnclaimed
  <2>4. ASSUME NEW s \in Instance, s # p PROVE CountsGenuine(counts_refresh[s])' /\ CountsFresh(counts_refresh[s])'
    <3>1. /\ counts_refresh'[s] = counts_refresh[s] /\ CountsFresh(counts_refresh[s])
          /\ CountsApart(counts_refresh[p], counts_refresh[s])
      BY <1>4, <2>4 DEF CountsInv
    <3>2. CountsGenuine(counts_refresh[s])'
      BY <3>1 DEF CountsGenuine, CountsApart, CountsUnclaimed
    <3>3. CountsFresh(counts_refresh[s])'
      BY <3>1 DEF CountsFresh, CountsApart, CountsUnclaimed
    <3> QED
      BY <3>2, <3>3
  <2> QED
    BY <2>2, <2>3, <2>4
<1>8. \A s \in Instance : \A w \in counts_refresh'[s].seen : CountsUnclaimed(counts_refresh'[s]) =>
        w.at # counts_refresh'[s].at
  BY <1>4 DEF CountsInv, CountsUnclaimed
<1>9. \A s, t \in Instance : s # t => CountsApart(counts_refresh'[s], counts_refresh'[t])
  <2>1. SUFFICES ASSUME NEW s \in Instance, NEW t \in Instance, s # t
                 PROVE  CountsApart(counts_refresh'[s], counts_refresh'[t])
    OBVIOUS
  <2>2. CountsApart(counts_refresh[s], counts_refresh[t])
    BY <2>1 DEF CountsInv
  <2>3. CASE s = p
    BY <1>4, <2>3 DEF CountsApart, CountsUnclaimed
  <2>4. CASE s # p /\ t = p
    <3>1. counts_refresh'[s] = counts_refresh[s] /\ counts_refresh'[t] = r
      BY <1>4, <2>4
    <3> QED
      BY <2>2, <2>4, <3>1 DEF CountsApart, CountsUnclaimed
  <2>5. CASE s # p /\ t # p
    BY <1>4, <2>1, <2>2, <2>5
  <2> QED
    BY <2>3, <2>4, <2>5
<1>10. \A s \in Instance \ counts_overlapped' :
         /\ CountsNoted(counts_refresh[s])'
         /\ counts_refresh'[s].pc # "idle" => \A t \in Instance : t # s => counts_refresh'[t].pc = "idle"
  <2>1. SUFFICES ASSUME NEW s \in Instance \ counts_overlapped
                 PROVE  /\ CountsNoted(counts_refresh[s])'
                        /\ counts_refresh'[s].pc # "idle" => \A t \in Instance : t # s =>
                             counts_refresh'[t].pc = "idle"
    OBVIOUS
  <2>2. CountsNoted(counts_refresh[s]) /\ (counts_refresh[s].pc # "idle" => \A t \in Instance : t # s =>
          counts_refresh[t].pc = "idle")
    BY DEF CountsInv
  <2>3. CASE s = p
    BY <1>4, <2>2, <2>3 DEF CountsNoted
  <2>4. CASE s # p
    <3>1. counts_refresh[s].pc = "idle" /\ counts_refresh'[s] = counts_refresh[s]
      BY <1>4, <2>2, <2>4
    <3> QED
      BY <3>1 DEF CountsNoted
  <2> QED
    BY <2>3, <2>4
<1> QED
  BY <1>4, <1>5, <1>6, <1>7, <1>8, <1>9, <1>10 DEF CountsInv

LEMMA CountsStartWatchingStep ==
    ASSUME C!CountsAssumption, CountsInv, NEW p \in Instance, C!StartWatching(p) PROVE CountsInv'
<1>0. /\ counts_refresh[p] \in CountsTask /\ counts_refresh[p].pc = "claim" /\ C!TypeOK
      /\ counts_faults \in 0 .. MaxFaults
      /\ UNCHANGED <<counts_clock, counts_record, counts_last, counts_crowded, counts_overlapped, counts_faults>>
      /\ counts_record \in SUBSET Counts
      /\ counts_refresh[p].at \in C!Time /\ counts_last \in SUBSET C!Told
      /\ C!Cardinality(counts_record) <= 1 /\ counts_refresh[p].count \in Counts
  BY CountsNow DEF C!StartWatching, C!At, C!TypeOK, CountsInv, CountsFresh
<1> DEFINE q == [counts_refresh[p] EXCEPT !.pc = "read"]
<1>1. /\ q \in CountsTask /\ q.pc = "read" /\ q.count = counts_refresh[p].count /\ q.at = counts_refresh[p].at
      /\ q.seen = counts_refresh[p].seen
  BY <1>0 DEF CountsTask, CountsPlaces
<1>2. C!Put(p, q)
  BY DEF C!StartWatching, C!Move
<1> HIDE DEF q
<1> PICK r \in CountsTask : r = q
  BY <1>1
<1>3. CASE counts_watch = {}
  <2> DEFINE x == [count |-> counts_refresh[p].count, at |-> counts_refresh[p].at, told |-> {}]
  <2>1. x \in C!Watched /\ x.at = counts_refresh[p].at /\ x.told = {}
    BY <1>0 DEF C!Watched
  <2>2. counts_watch' = {x}
    BY <1>3 DEF C!StartWatching
  <2>3. counts_last = {}
    BY <1>3 DEF CountsInv, CountsLastIsWatched
  <2> HIDE DEF x
  <2> PICK y \in C!Watched : y = x
    BY <2>1
  <2> QED
    BY <1>0, <1>1, <1>2, <2>1, <2>2, <2>3, CountsStores
<1>4. CASE counts_watch # {}
  <2>1. counts_watch' = counts_watch
    BY <1>4 DEF C!StartWatching
  <2> QED
    BY <1>0, <1>1, <1>2, <2>1, CountsQuiet DEF CountsUnclaimed
<1> QED
  BY <1>3, <1>4

LEMMA CountsClaimChangeStep ==
    ASSUME C!CountsAssumption, CountsInv, NEW p \in Instance, C!ClaimChange(p) PROVE CountsInv'
<1>0. /\ counts_refresh[p] \in CountsTask /\ counts_refresh[p].pc = "claim" /\ C!TypeOK
      /\ counts_faults \in 0 .. MaxFaults
      /\ UNCHANGED <<counts_clock, counts_record, counts_overlapped, counts_faults>>
      /\ counts_record \in SUBSET Counts
      /\ counts_refresh[p].at \in C!Time /\ counts_last \in SUBSET C!Told /\ CountsGenuine(counts_refresh[p])
      /\ CountsLastIsWatched
      /\ counts_watch \in SUBSET C!Watched /\ C!Cardinality(counts_record) <= 1 /\ counts_refresh[p].count \in Counts
      /\ counts_refresh[p].seen \in SUBSET C!Watched
  BY CountsNow DEF C!ClaimChange, C!At, C!TypeOK, CountsInv, CountsFresh
<1> DEFINE n == counts_refresh[p].count
           told(w) == [dir |-> C!Direction(w.count, n), at |-> counts_refresh[p].at]
           notify(w) == C!Significant(w.count, n) /\ ~C!CooldownActive(w, told(w).dir, told(w).at)
<1>1. PICK w \in counts_refresh[p].seen :
               \/ ~C!Claims(p, w) /\ C!Move(p, "read") /\ UNCHANGED <<counts_watch, counts_last, counts_crowded>>
               \/ /\ C!Claims(p, w)
                  /\ counts_watch' = {[count |-> n, at |-> counts_refresh[p].at,
                           told |-> IF notify(w) THEN {told(w)} ELSE UNION {x.told : x \in counts_watch}]}
                  /\ C!Move(p, IF notify(w) THEN "send" ELSE "read")
                  /\ counts_last' = IF notify(w) THEN {told(w)} ELSE counts_last
                  /\ counts_crowded' = \/ counts_crowded
                                       \/ /\ notify(w)
                                          /\ \E t \in counts_last : t.dir = told(w).dir
                                               /\ told(w).at - t.at < Cooldown
  BY DEF C!ClaimChange
<1>2. ASSUME NEW l \in {"read", "send"}
      PROVE  LET q == [counts_refresh[p] EXCEPT !.pc = l]
             IN  /\ q \in CountsTask /\ q.pc = l /\ q.count = counts_refresh[p].count /\ q.at = counts_refresh[p].at
                 /\ q.seen = counts_refresh[p].seen
  BY <1>0 DEF CountsTask, CountsPlaces
<1>3. CASE ~C!Claims(p, w) /\ C!Move(p, "read") /\ UNCHANGED <<counts_watch, counts_last, counts_crowded>>
  <2> DEFINE q == [counts_refresh[p] EXCEPT !.pc = "read"]
  <2>1. /\ q \in CountsTask /\ q.pc = "read" /\ q.count = counts_refresh[p].count /\ q.at = counts_refresh[p].at
        /\ q.seen = counts_refresh[p].seen
    BY <1>2
  <2>2. C!Put(p, q)
    BY <1>3 DEF C!Move
  <2> HIDE DEF q
  <2> PICK r \in CountsTask : r = q
    BY <2>1
  <2> QED
    BY <1>0, <1>3, <2>1, <2>2, CountsQuiet DEF CountsUnclaimed
<1>4. CASE /\ C!Claims(p, w)
           /\ counts_watch' = {[count |-> n, at |-> counts_refresh[p].at,
                          told |-> IF notify(w) THEN {told(w)} ELSE UNION {x.told : x \in counts_watch}]}
           /\ C!Move(p, IF notify(w) THEN "send" ELSE "read")
           /\ counts_last' = IF notify(w) THEN {told(w)} ELSE counts_last
           /\ counts_crowded' = \/ counts_crowded
                                \/ /\ notify(w)
                                   /\ \E t \in counts_last : t.dir = told(w).dir /\ told(w).at - t.at < Cooldown
  <2>1. PICK y \in counts_watch : y.count = w.count /\ y.at = w.at
    BY <1>4 DEF C!Claims
  <2>2. y.told = w.told /\ y.told = counts_last /\ y \in C!Watched
    BY <1>0, <2>1 DEF CountsGenuine, CountsLastIsWatched
  <2>3. UNION {x.told : x \in counts_watch} = counts_last
    BY <1>0, <2>1, <2>2 DEF CountsLastIsWatched, CountsSole
  <2>4. notify(w) => ~\E t \in counts_last : t.dir = told(w).dir /\ told(w).at - t.at < Cooldown
    BY <2>2 DEF C!CooldownActive
  <2>5. counts_crowded' = counts_crowded
    <3>1. counts_crowded = FALSE
      BY DEF CountsInv
    <3> HIDE DEF notify, told
    <3> QED
      BY <1>4, <2>4, <3>1
  <2>6. told(w) \in C!Told
    BY <1>0 DEF C!Told, C!Direction
  <2>7. counts_last \in {{}} \cup {{t} : t \in C!Told}
    BY <2>2 DEF C!Watched
  <2> DEFINE now == IF notify(w) THEN {told(w)} ELSE counts_last
             x == [count |-> n, at |-> counts_refresh[p].at, told |-> now]
             l == IF notify(w) THEN "send" ELSE "read"
             q == [counts_refresh[p] EXCEPT !.pc = l]
  <2>8. now \in {{}} \cup {{t} : t \in C!Told} /\ now \in SUBSET C!Told /\ l \in {"read", "send"}
    <3> HIDE DEF told, notify
    <3> QED
      BY <1>0, <2>6, <2>7
  <2>9. counts_watch' = {x} /\ counts_last' = now /\ C!Put(p, q)
    <3> HIDE DEF told, notify
    <3> QED
      BY <1>4, <2>3 DEF C!Move
  <2> HIDE DEF now, l
  <2>10. x \in C!Watched /\ x.at = counts_refresh[p].at /\ x.told = now
    BY <1>0, <2>8 DEF C!Watched
  <2>11. /\ q \in CountsTask /\ q.pc = l /\ q.count = counts_refresh[p].count /\ q.at = counts_refresh[p].at
         /\ q.seen = counts_refresh[p].seen
    BY <1>2, <2>8
  <2> HIDE DEF x, q
  <2> PICK z \in C!Watched : z = x
    BY <2>10
  <2> PICK r \in CountsTask : r = q
    BY <2>11
  <2> QED
    BY <1>0, <2>5, <2>8, <2>9, <2>10, <2>11, CountsStores
<1> QED
  BY <1>1, <1>3, <1>4

(* Two changes of one kind are claimed a cooldown apart, however refreshes *)
(* interleave, and a refresh that ran alone leaves a record that is not    *)
(* below its count.                                                        *)
THEOREM CountsInvariant == ASSUME C!CountsAssumption PROVE C!Spec => [](CountsInv /\ C!CountsAreTold)
<1>1. C!Init => CountsInv
  <2> SUFFICES ASSUME C!Init PROVE CountsInv
    OBVIOUS
  <2>1. C!TypeOK /\ counts_refresh \in [Instance -> CountsTask]
    BY CountsIdleTypes, CountsSizes DEF C!CountsAssumption, C!Init, C!TypeOK, CountsTask, CountsPlaces, C!Time
  <2> QED
    BY <2>1, CountsIdleTypes
    DEF C!Init, CountsInv, CountsLastIsWatched, CountsSole, CountsGenuine, CountsFresh, CountsApart, CountsNoted,
    CountsUnclaimed
<1>2. CountsInv /\ [C!Next]_(C!vars) => CountsInv'
  <2> SUFFICES ASSUME CountsInv, [C!Next]_(C!vars) PROVE CountsInv'
    OBVIOUS
  <2>1. CASE UNCHANGED C!vars
    BY <2>1 DEF C!vars, CountsInv, C!TypeOK, CountsLastIsWatched, CountsSole, CountsGenuine, CountsFresh,
        CountsApart, CountsNoted, CountsUnclaimed
  <2>2. CASE C!Next
    BY <2>2, CountsObserveStep, CountsListStep, CountsStartWatchingStep, CountsClaimChangeStep, CountsQuietStep,
        CountsTickStep DEF C!Next
  <2> QED
    BY <2>1, <2>2
<1>3. CountsInv => C!CountsAreTold
  BY DEF CountsInv, C!CountsAreTold, CountsNoted, C!At
<1> QED
  BY <1>1, <1>2, <1>3, PTL DEF C!Spec

-----------------------------------------------------------------------------
(* The sanctions and warnings of a member.                                 *)
ModerationTask ==
    [pc : {"idle", "save", "undo", "lift", "remove", "restore", "send", "drop"}, field : M!Field, n : M!Number]
ModerationInv == M!TypeOK /\ M!WarningsAccounted

(* A handler that says nothing of a warning, before and after its step.    *)
ModerationSilent(r) == r.pc \notin {"send", "drop"}

LEMMA ModerationFaultTypes == ASSUME M!ModerationAssumption, M!TypeOK, M!Fault PROVE member_faults' \in 0 .. MaxFaults
BY DEF M!ModerationAssumption, M!TypeOK, M!Fault

LEMMA ModerationPutTypes ==
    ASSUME M!TypeOK, NEW h \in Instance, NEW r \in ModerationTask, M!Put(h, r)
    PROVE  /\ member_cmd' \in [Instance -> ModerationTask]
           /\ member_cmd'[h] = r /\ \A k \in Instance \ {h} : member_cmd'[k] = member_cmd[k]
BY DEF M!TypeOK, M!Put, ModerationTask

LEMMA ModerationIdleTypes == ASSUME M!ModerationAssumption PROVE M!Idle \in ModerationTask /\ ModerationSilent(M!Idle)
BY DEF M!Idle, ModerationTask, M!Field, M!Number, ModerationSilent, M!ModerationAssumption

LEMMA ModerationCleanedTypes == ASSUME M!ModerationAssumption, M!TypeOK PROVE M!Cleaned \in [M!Field -> M!Number]
BY DEF M!Cleaned, M!Fresh, M!TypeOK, M!Number, M!ModerationAssumption

(* What leaves the warnings and who is at work on one alone keeps them     *)
(* accounted for.                                                          *)
LEMMA ModerationUntouched ==
    ASSUME M!WarningsAccounted, UNCHANGED M!warnings, UNCHANGED member_cmd
    PROVE  M!WarningsAccounted'
BY DEF M!WarningsAccounted, M!warnings

LEMMA ModerationSilentStep ==
    ASSUME M!TypeOK, M!WarningsAccounted, NEW h \in Instance, NEW r \in ModerationTask,
           ModerationSilent(member_cmd[h]), M!Put(h, r), UNCHANGED M!warnings
    PROVE  M!WarningsAccounted'
<1>1. member_cmd'[h] = r /\ \A k \in Instance \ {h} : member_cmd'[k] = member_cmd[k]
  BY ModerationPutTypes
<1>2. UNCHANGED <<member_warned, member_told, member_orphaned, member_unheard>>
  BY DEF M!warnings
<1> SUFFICES ASSUME NEW w \in member_warned, w \notin member_told \cup member_orphaned \cup member_unheard
             PROVE  \E k \in Instance : member_cmd'[k].pc \in {"send", "drop"} /\ member_cmd'[k].n = w
  BY <1>2 DEF M!WarningsAccounted
<1>3. PICK k \in Instance : member_cmd[k].pc \in {"send", "drop"} /\ member_cmd[k].n = w
  BY DEF M!WarningsAccounted
<1>4. k # h
  BY <1>3 DEF ModerationSilent
<1> QED
  BY <1>1, <1>3, <1>4

(* The sanctions: a handler without a warning takes a step of its own.     *)
LEMMA ModerationSanctionStep ==
    ASSUME M!ModerationAssumption, ModerationInv, NEW h \in Instance, M!Sanction(h)
    PROVE  ModerationInv'
<1>1. member_last' = member_last + 1 /\ member_last' \in M!Number /\ member_discord' \in M!Number
  BY DEF ModerationInv, M!TypeOK, M!Sanction, M!Number, M!ModerationAssumption
<1>2. PICK f \in M!Field : M!Put(h, [pc |-> "save", field |-> f, n |-> member_last'])
  BY DEF M!Sanction
<1> DEFINE q == [pc |-> "save", field |-> f, n |-> member_last']
<1>3. q \in ModerationTask
  BY <1>1 DEF ModerationTask
<1>4. member_cmd' \in [Instance -> ModerationTask]
  BY <1>2, <1>3, ModerationPutTypes DEF ModerationInv
<1>5. M!TypeOK'
  BY <1>1, <1>4 DEF ModerationInv, M!TypeOK, M!Sanction, M!warnings, ModerationTask
<1>6. ModerationSilent(member_cmd[h]) /\ UNCHANGED M!warnings
  BY DEF M!Sanction, ModerationSilent, M!warnings
<1>7. M!WarningsAccounted'
  BY <1>2, <1>3, <1>6, ModerationSilentStep DEF ModerationInv
<1> QED
  BY <1>5, <1>7 DEF ModerationInv

LEMMA ModerationSaveStep ==
    ASSUME M!ModerationAssumption, ModerationInv, NEW h \in Instance, M!Save(h)
    PROVE  ModerationInv'
<1> DEFINE q == [member_cmd[h] EXCEPT !.pc = "undo"]
<1>1. member_cmd[h] \in ModerationTask
  BY DEF ModerationInv, M!TypeOK, ModerationTask
<1>2. q \in ModerationTask /\ M!Idle \in ModerationTask
  BY <1>1, ModerationIdleTypes DEF ModerationTask
<1>3. M!Saved(h) \in [M!Field -> M!Number] /\ member_rec \in [M!Field -> M!Number]
  <2>1. member_rec \in [M!Field -> M!Number] /\ member_cmd[h].n \in M!Number /\ 0 \in M!Number
    BY <1>1 DEF ModerationInv, M!TypeOK, ModerationTask, M!Number, M!ModerationAssumption
  <2> QED
    BY <2>1 DEF M!Saved
<1>4. PICK r \in ModerationTask : M!Put(h, r)
  BY <1>2 DEF M!Save
<1>5. member_rec' \in [M!Field -> M!Number] /\ member_faults' \in 0 .. MaxFaults
  BY <1>3, ModerationFaultTypes DEF M!Save, ModerationInv, M!TypeOK
<1>6. member_cmd' \in [Instance -> ModerationTask]
  BY <1>4, ModerationPutTypes DEF ModerationInv
<1>7. M!TypeOK'
  BY <1>5, <1>6 DEF ModerationInv, M!TypeOK, M!Save, M!warnings, ModerationTask
<1>8. ModerationSilent(member_cmd[h]) /\ UNCHANGED M!warnings
  BY DEF M!Save, ModerationSilent, M!warnings
<1>9. M!WarningsAccounted'
  BY <1>4, <1>8, ModerationSilentStep DEF ModerationInv
<1> QED
  BY <1>7, <1>9 DEF ModerationInv

LEMMA ModerationUndoStep ==
    ASSUME M!ModerationAssumption, ModerationInv, NEW h \in Instance, M!Undo(h) \/ M!LiftTimeout(h) \/ M!Restore(h)
    PROVE  ModerationInv'
<1> DEFINE q == [member_cmd[h] EXCEPT !.pc = "remove"]
<1>1. member_cmd[h] \in ModerationTask
  BY DEF ModerationInv, M!TypeOK, ModerationTask
<1>2. q \in ModerationTask /\ M!Idle \in ModerationTask
  BY <1>1, ModerationIdleTypes DEF ModerationTask
<1>4. PICK r \in ModerationTask : M!Put(h, r)
  BY <1>2 DEF M!Undo, M!LiftTimeout, M!Restore
<1>5. member_discord' \in M!Number
  BY <1>1 DEF M!Undo, M!LiftTimeout, M!Restore, ModerationInv, M!TypeOK, ModerationTask, M!Number,
      M!ModerationAssumption
<1>6. member_faults' \in 0 .. MaxFaults
  BY ModerationFaultTypes DEF M!Undo, M!LiftTimeout, M!Restore, ModerationInv, M!TypeOK
<1>7. member_cmd' \in [Instance -> ModerationTask]
  BY <1>4, ModerationPutTypes DEF ModerationInv
<1>8. M!TypeOK'
  BY <1>5, <1>6, <1>7 DEF ModerationInv, M!TypeOK, M!Undo, M!LiftTimeout, M!Restore, M!warnings, ModerationTask
<1>9. ModerationSilent(member_cmd[h]) /\ UNCHANGED M!warnings
  BY DEF M!Undo, M!LiftTimeout, M!Restore, ModerationSilent, M!warnings
<1>10. M!WarningsAccounted'
  BY <1>4, <1>9, ModerationSilentStep DEF ModerationInv
<1> QED
  BY <1>8, <1>10 DEF ModerationInv

LEMMA ModerationLiftStep ==
    ASSUME M!ModerationAssumption, ModerationInv, NEW h \in Instance, NEW f \in M!Field, M!Lift(h, f)
    PROVE  ModerationInv'
<1> DEFINE q == [pc |-> "lift", field |-> f, n |-> M!Fresh(f)]
<1>1. member_rec' \in [M!Field -> M!Number]
  BY ModerationCleanedTypes DEF M!Lift, ModerationInv
<1>2. M!Fresh(f) \in M!Number
  BY DEF M!Fresh, ModerationInv, M!TypeOK, M!Number, M!ModerationAssumption
<1>3. q \in ModerationTask
  BY <1>2 DEF ModerationTask
<1> HIDE DEF q
<1>4. M!Put(h, q) \/ UNCHANGED member_cmd
  BY DEF M!Lift, q
<1>5. member_cmd' \in [Instance -> ModerationTask]
  BY <1>3, <1>4, ModerationPutTypes DEF ModerationInv, M!TypeOK, ModerationTask
<1>6. M!TypeOK'
  BY <1>1, <1>5 DEF ModerationInv, M!TypeOK, M!Lift, M!warnings, ModerationTask
<1>7. ModerationSilent(member_cmd[h]) /\ UNCHANGED M!warnings
  BY DEF M!Lift, ModerationSilent, M!warnings
<1>8. M!WarningsAccounted'
  BY <1>3, <1>4, <1>7, ModerationSilentStep, ModerationUntouched DEF ModerationInv
<1> QED
  BY <1>6, <1>8 DEF ModerationInv

LEMMA ModerationRemoveStep ==
    ASSUME M!ModerationAssumption, ModerationInv, NEW h \in Instance, M!Remove(h)
    PROVE  ModerationInv'
<1> DEFINE q == [member_cmd[h] EXCEPT !.pc = "restore"]
           removed == [member_rec EXCEPT ![member_cmd[h].field] = 0]
<1>1. member_cmd[h] \in ModerationTask
  BY DEF ModerationInv, M!TypeOK, ModerationTask
<1>2. q \in ModerationTask /\ M!Idle \in ModerationTask
  BY <1>1, ModerationIdleTypes DEF ModerationTask
<1>3. removed \in [M!Field -> M!Number] /\ member_rec \in [M!Field -> M!Number]
  BY DEF ModerationInv, M!TypeOK, M!Number, M!ModerationAssumption
<1> HIDE DEF q
<1>4. PICK r \in ModerationTask : M!Put(h, r)
  BY <1>2 DEF M!Remove, q
<1>5. member_rec' \in [M!Field -> M!Number]
  BY <1>3 DEF M!Remove
<1>6. member_faults' \in 0 .. MaxFaults
  BY ModerationFaultTypes DEF M!Remove, ModerationInv, M!TypeOK
<1>7. member_cmd' \in [Instance -> ModerationTask]
  BY <1>4, ModerationPutTypes DEF ModerationInv
<1>8. M!TypeOK'
  BY <1>5, <1>6, <1>7 DEF ModerationInv, M!TypeOK, M!Remove, M!warnings, ModerationTask
<1>9. ModerationSilent(member_cmd[h]) /\ UNCHANGED M!warnings
  BY DEF M!Remove, ModerationSilent, M!warnings
<1>10. M!WarningsAccounted'
  BY <1>4, <1>9, ModerationSilentStep DEF ModerationInv
<1> QED
  BY <1>8, <1>10 DEF ModerationInv

(* The warnings.                                                           *)
LEMMA ModerationWarnStep ==
    ASSUME M!ModerationAssumption, ModerationInv, NEW h \in Instance, M!Warn(h)
    PROVE  ModerationInv'
<1> DEFINE q == [M!Idle EXCEPT !.pc = "send", !.n = member_last']
<1>1. member_last' = member_last + 1 /\ member_last' \in M!Number
  BY DEF ModerationInv, M!TypeOK, M!Warn, M!Number, M!ModerationAssumption
<1>2. q \in ModerationTask /\ q.pc = "send" /\ q.n = member_last'
  BY <1>1 DEF ModerationTask, M!Idle, M!Field
<1>3. \/ /\ member_warned' = member_warned \cup {member_last'} /\ M!Put(h, q)
         /\ UNCHANGED <<member_unheard, member_faults>>
      \/ /\ M!Fault /\ member_warned' \in {member_warned, member_warned \cup {member_last'}}
         /\ member_unheard' = member_unheard \cup {member_last'} /\ UNCHANGED member_cmd
  BY DEF M!Warn
<1> HIDE DEF q
<1>4. CASE M!Put(h, q) /\ UNCHANGED <<member_unheard, member_faults>>
  <2>1. /\ member_cmd' \in [Instance -> ModerationTask] /\ member_cmd'[h] = q
        /\ \A k \in Instance \ {h} : member_cmd'[k] = member_cmd[k]
    BY <1>2, <1>4, ModerationPutTypes DEF ModerationInv
  <2>2. member_warned' \subseteq member_warned \cup {member_last'}
    BY <1>3
  <2>3. M!TypeOK'
    BY <1>1, <1>4, <2>1, <2>2 DEF ModerationInv, M!TypeOK, M!Warn, M!sanctions, ModerationTask
  <2>4. M!WarningsAccounted'
    <3> SUFFICES ASSUME NEW w \in member_warned', w \notin member_told \cup member_orphaned \cup member_unheard
                 PROVE  \E k \in Instance : member_cmd'[k].pc \in {"send", "drop"} /\ member_cmd'[k].n = w
      BY <1>4 DEF M!WarningsAccounted, M!Warn
    <3>1. CASE w = member_last'
      BY <3>1, <1>2, <2>1
    <3>2. CASE w # member_last'
      <4>1. w \in member_warned
        BY <3>2, <2>2
      <4>2. PICK k \in Instance : member_cmd[k].pc \in {"send", "drop"} /\ member_cmd[k].n = w
        BY <4>1 DEF ModerationInv, M!WarningsAccounted
      <4>3. k # h
        BY <4>2 DEF M!Warn
      <4> QED
        BY <4>2, <4>3, <2>1
    <3> QED
      BY <3>1, <3>2
  <2> QED
    BY <2>3, <2>4 DEF ModerationInv
<1>5. CASE /\ M!Fault /\ member_warned' \in {member_warned, member_warned \cup {member_last'}}
           /\ member_unheard' = member_unheard \cup {member_last'} /\ UNCHANGED member_cmd
  <2>1. member_faults' \in 0 .. MaxFaults
    BY <1>5, ModerationFaultTypes DEF ModerationInv
  <2>2. M!TypeOK'
    BY <1>1, <1>5, <2>1 DEF ModerationInv, M!TypeOK, M!Warn, M!sanctions
  <2>3. M!WarningsAccounted'
    BY <1>5 DEF ModerationInv, M!WarningsAccounted, M!Warn
  <2> QED
    BY <2>2, <2>3 DEF ModerationInv
<1> QED
  BY <1>3, <1>4, <1>5

LEMMA ModerationSendWarningStep ==
    ASSUME M!ModerationAssumption, ModerationInv, NEW h \in Instance, M!SendWarning(h)
    PROVE  ModerationInv'
<1> DEFINE q == [member_cmd[h] EXCEPT !.pc = "drop"]
<1>1. member_cmd[h] \in ModerationTask
  BY DEF ModerationInv, M!TypeOK, ModerationTask
<1>2. q \in ModerationTask /\ q.pc = "drop" /\ q.n = member_cmd[h].n /\ M!Idle \in ModerationTask
  BY <1>1, ModerationIdleTypes DEF ModerationTask
<1> HIDE DEF q
<1>3. \/ member_told' = member_told \cup {member_cmd[h].n} /\ M!Put(h, M!Idle) /\ UNCHANGED member_faults
      \/ M!Fault /\ M!Put(h, q) /\ member_told' \in {member_told, member_told \cup {member_cmd[h].n}}
  BY DEF M!SendWarning, q
<1>4. member_faults' \in 0 .. MaxFaults
  BY <1>3, ModerationFaultTypes DEF ModerationInv, M!TypeOK
<1>5. member_told' \in SUBSET M!Number
  BY <1>1, <1>3 DEF ModerationInv, M!TypeOK, ModerationTask
<1>6. member_cmd' \in [Instance -> ModerationTask] /\ \A k \in Instance \ {h} : member_cmd'[k] = member_cmd[k]
  BY <1>2, <1>3, ModerationPutTypes DEF ModerationInv
<1>7. M!TypeOK'
  BY <1>4, <1>5, <1>6 DEF ModerationInv, M!TypeOK, M!SendWarning, M!sanctions, ModerationTask
<1>8. M!WarningsAccounted'
  <2> SUFFICES ASSUME NEW w \in member_warned, w \notin member_told' \cup member_orphaned \cup member_unheard
               PROVE  \E k \in Instance : member_cmd'[k].pc \in {"send", "drop"} /\ member_cmd'[k].n = w
    BY DEF M!WarningsAccounted, M!SendWarning
  <2>1. w \notin member_told \cup member_orphaned \cup member_unheard
    BY <1>3
  <2>2. PICK k \in Instance : member_cmd[k].pc \in {"send", "drop"} /\ member_cmd[k].n = w
    BY <2>1 DEF ModerationInv, M!WarningsAccounted
  <2>3. CASE k # h
    BY <2>2, <2>3, <1>6
  <2>4. CASE k = h
    <3>1. w \notin member_told'
      OBVIOUS
    <3>3. M!Put(h, q)
      BY <3>1, <2>2, <2>4, <1>3
    <3>2. member_cmd'[h] = q
      BY <3>3, <1>2, ModerationPutTypes DEF ModerationInv
    <3> QED
      BY <3>2, <2>2, <2>4, <1>2
  <2> QED
    BY <2>3, <2>4
<1> QED
  BY <1>7, <1>8 DEF ModerationInv

LEMMA ModerationDropWarningStep ==
    ASSUME M!ModerationAssumption, ModerationInv, NEW h \in Instance, M!DropWarning(h)
    PROVE  ModerationInv'
<1>1. member_cmd[h] \in ModerationTask /\ M!Put(h, M!Idle) /\ M!Idle \in ModerationTask
  BY ModerationIdleTypes DEF ModerationInv, M!TypeOK, ModerationTask, M!DropWarning
<1>2. \/ member_warned' = member_warned \ {member_cmd[h].n} /\ UNCHANGED <<member_orphaned, member_faults>>
      \/ /\ M!Fault /\ member_warned' \in {member_warned, member_warned \ {member_cmd[h].n}}
         /\ member_orphaned' = member_orphaned \cup {member_cmd[h].n}
  BY DEF M!DropWarning
<1>3. member_faults' \in 0 .. MaxFaults
  BY <1>2, ModerationFaultTypes DEF ModerationInv, M!TypeOK
<1>4. member_warned' \in SUBSET M!Number /\ member_orphaned' \in SUBSET M!Number
  BY <1>1, <1>2 DEF ModerationInv, M!TypeOK, ModerationTask
<1>5. member_cmd' \in [Instance -> ModerationTask] /\ \A k \in Instance \ {h} : member_cmd'[k] = member_cmd[k]
  BY <1>1, ModerationPutTypes DEF ModerationInv
<1>6. M!TypeOK'
  BY <1>3, <1>4, <1>5 DEF ModerationInv, M!TypeOK, M!DropWarning, M!sanctions, ModerationTask
<1>7. M!WarningsAccounted'
  <2> SUFFICES ASSUME NEW w \in member_warned', w \notin member_told \cup member_orphaned' \cup member_unheard
               PROVE  \E k \in Instance : member_cmd'[k].pc \in {"send", "drop"} /\ member_cmd'[k].n = w
    BY DEF M!WarningsAccounted, M!DropWarning
  <2>1. w \in member_warned /\ w \notin member_told \cup member_orphaned \cup member_unheard /\ w # member_cmd[h].n
    BY <1>2
  <2>2. PICK k \in Instance : member_cmd[k].pc \in {"send", "drop"} /\ member_cmd[k].n = w
    BY <2>1 DEF ModerationInv, M!WarningsAccounted
  <2> QED
    BY <2>1, <2>2, <1>5
<1> QED
  BY <1>6, <1>7 DEF ModerationInv

(* The reconciliation, the cleanup, time and the member.                   *)
LEMMA ModerationRecordsStep ==
    ASSUME M!ModerationAssumption, ModerationInv, M!FetchMembers \/ M!ReadRecords \/ M!Pull \/ M!Cleanup
    PROVE  ModerationInv'
<1>1. member_rec' \in [M!Field -> M!Number]
  BY ModerationCleanedTypes DEF M!FetchMembers, M!ReadRecords, M!Pull, M!Cleanup, M!sanctions, ModerationInv,
      M!TypeOK, M!Number,
     M!ModerationAssumption
<1>2. member_recon' \in [pc : {"asleep", "read", "pull"}, active : BOOLEAN, stale : SUBSET M!Field]
  <2>1. CASE M!FetchMembers
    BY <2>1 DEF M!FetchMembers, ModerationInv, M!TypeOK
  <2>2. CASE M!ReadRecords
    <3>1. {f \in M!Field : M!Stale(f)} \in SUBSET M!Field
      OBVIOUS
    <3> QED
      BY <2>2, <3>1 DEF M!ReadRecords, ModerationInv, M!TypeOK
  <2>3. CASE M!Pull
    BY <2>3 DEF M!Pull, M!Asleep
  <2>4. CASE M!Cleanup
    BY <2>4 DEF M!Cleanup, ModerationInv, M!TypeOK
  <2> QED
    BY <2>1, <2>2, <2>3, <2>4
<1>3. UNCHANGED <<member_discord, member_past, member_warned, member_told, member_orphaned, member_unheard,
        member_present, member_cmd, member_last, member_faults>>
  BY DEF M!FetchMembers, M!ReadRecords, M!Pull, M!Cleanup, M!sanctions, M!warnings
<1>4. M!TypeOK'
  BY <1>1, <1>2, <1>3 DEF ModerationInv, M!TypeOK
<1> QED
  BY <1>3, <1>4, ModerationUntouched DEF ModerationInv, M!warnings

LEMMA ModerationMemberStep ==
    ASSUME M!ModerationAssumption, ModerationInv, M!Leave \/ M!Join \/ \E n \in M!Number : M!RunOut(n)
    PROVE  ModerationInv'
<1>1. /\ member_rec' \in [M!Field -> M!Number] /\ member_discord' \in M!Number /\ member_past' \in SUBSET M!Number
      /\ member_present' \in BOOLEAN
  <2>1. /\ member_rec \in [M!Field -> M!Number] /\ member_discord \in M!Number /\ member_past \in SUBSET M!Number
        /\ member_present \in BOOLEAN
        /\ 0 \in M!Number /\ 1 .. member_last \subseteq M!Number
    BY DEF ModerationInv, M!TypeOK, M!Number, M!ModerationAssumption
  <2>2. CASE M!Leave
    BY <2>1, <2>2 DEF M!Leave
  <2>3. CASE M!Join
    BY <2>1, <2>3 DEF M!Join, M!sanctions
  <2>4. CASE \E n \in M!Number : M!RunOut(n)
    BY <2>1, <2>4 DEF M!RunOut
  <2> QED
    BY <2>2, <2>3, <2>4
<1>2. member_faults' \in 0 .. MaxFaults
  BY ModerationFaultTypes DEF M!Leave, M!Join, M!RunOut, ModerationInv, M!TypeOK
<1>3. UNCHANGED <<member_warned, member_told, member_orphaned, member_unheard, member_cmd, member_recon, member_last>>
  BY DEF M!Leave, M!Join, M!RunOut, M!warnings
<1>4. M!TypeOK'
  BY <1>1, <1>2, <1>3 DEF ModerationInv, M!TypeOK
<1> QED
  BY <1>3, <1>4, ModerationUntouched DEF ModerationInv, M!warnings

LEMMA ModerationRemoveWarningStep == ASSUME ModerationInv, M!RemoveWarning PROVE ModerationInv'
<1>1. member_warned' \subseteq member_warned /\ UNCHANGED <<member_told, member_orphaned, member_unheard, member_cmd>>
  BY DEF M!RemoveWarning
<1>2. M!TypeOK'
  BY <1>1 DEF M!RemoveWarning, M!sanctions, ModerationInv, M!TypeOK
<1>3. M!WarningsAccounted'
  BY <1>1 DEF ModerationInv, M!WarningsAccounted
<1> QED
  BY <1>2, <1>3 DEF ModerationInv

LEMMA ModerationCrashStep == ASSUME M!ModerationAssumption, ModerationInv, M!Crash PROVE ModerationInv'
<1> DEFINE U == {h \in Instance : member_cmd[h].pc \in {"send", "drop"}}
<1>1. member_unheard' = member_unheard \cup {member_cmd[h].n : h \in U}
  BY DEF M!Crash
<1>2. member_unheard' \in SUBSET M!Number
  BY <1>1 DEF ModerationInv, M!TypeOK
<1>3. member_cmd' \in [Instance -> ModerationTask] /\ member_faults' \in 0 .. MaxFaults
  BY ModerationIdleTypes, ModerationFaultTypes DEF M!Crash, ModerationInv
<1>4. member_recon' \in [pc : {"asleep", "read", "pull"}, active : BOOLEAN, stale : SUBSET M!Field]
  BY DEF M!Crash, M!Asleep
<1>5. M!TypeOK'
  BY <1>2, <1>3, <1>4 DEF M!Crash, M!sanctions, ModerationInv, M!TypeOK, ModerationTask
<1>6. M!WarningsAccounted'
  BY <1>1 DEF M!Crash, ModerationInv, M!WarningsAccounted
<1> QED
  BY <1>5, <1>6 DEF ModerationInv

LEMMA ModerationInitInv == ASSUME M!ModerationAssumption, M!Init PROVE ModerationInv
<1>1. member_cmd \in [Instance -> ModerationTask]
  BY ModerationIdleTypes DEF M!Init
<1>2. member_last \in M!Number /\ member_discord \in M!Number
  BY DEF M!Init, M!ModerationAssumption, M!Number
<1>3. member_rec \in [M!Field -> M!Number]
  BY DEF M!Init, M!ModerationAssumption, M!Number
<1>4. member_recon \in [pc : {"asleep", "read", "pull"}, active : BOOLEAN, stale : SUBSET M!Field]
  BY DEF M!Init, M!Asleep
<1>5. M!TypeOK
  BY <1>1, <1>2, <1>3, <1>4 DEF M!Init, M!TypeOK, ModerationTask, M!ModerationAssumption
<1>6. M!WarningsAccounted
  BY DEF M!Init, M!WarningsAccounted
<1> QED
  BY <1>5, <1>6 DEF ModerationInv

LEMMA ModerationNextInv == ASSUME M!ModerationAssumption, ModerationInv, [M!Next]_(M!vars) PROVE ModerationInv'
<1>1. CASE \E h \in Instance : M!Sanction(h)
  BY <1>1, ModerationSanctionStep
<1>2. CASE \E h \in Instance : M!Save(h)
  BY <1>2, ModerationSaveStep
<1>3. CASE \E h \in Instance : M!Undo(h) \/ M!LiftTimeout(h) \/ M!Restore(h)
  BY <1>3, ModerationUndoStep
<1>4. CASE \E h \in Instance : \E f \in M!Field : M!Lift(h, f)
  BY <1>4, ModerationLiftStep
<1>5. CASE \E h \in Instance : M!Remove(h)
  BY <1>5, ModerationRemoveStep
<1>6. CASE \E h \in Instance : M!Warn(h)
  BY <1>6, ModerationWarnStep
<1>7. CASE \E h \in Instance : M!SendWarning(h)
  BY <1>7, ModerationSendWarningStep
<1>8. CASE \E h \in Instance : M!DropWarning(h)
  BY <1>8, ModerationDropWarningStep
<1>9. CASE M!RemoveWarning
  BY <1>9, ModerationRemoveWarningStep
<1>10. CASE M!FetchMembers \/ M!ReadRecords \/ M!Pull \/ M!Cleanup
  BY <1>10, ModerationRecordsStep
<1>11. CASE M!Leave \/ M!Join \/ \E n \in M!Number : M!RunOut(n)
  BY <1>11, ModerationMemberStep
<1>12. CASE M!Crash
  BY <1>12, ModerationCrashStep
<1>13. CASE UNCHANGED M!vars
  <2>1. M!TypeOK'
    BY <1>13 DEF ModerationInv, M!TypeOK, M!vars, M!sanctions, M!warnings
  <2> QED
    BY <2>1, <1>13, ModerationUntouched DEF ModerationInv, M!vars
<1> QED
  BY <1>1, <1>2, <1>3, <1>4, <1>5, <1>6, <1>7, <1>8, <1>9, <1>10, <1>11, <1>12, <1>13 DEF M!Next

(* A warning whose message failed is taken back, and no other.             *)
THEOREM ModerationInvariant ==
    ASSUME M!ModerationAssumption
    PROVE  M!Spec => []ModerationInv
<1>1. M!Init => ModerationInv
  BY ModerationInitInv
<1>2. ModerationInv /\ [M!Next]_(M!vars) => ModerationInv'
  BY ModerationNextInv
<1> QED
  BY <1>1, <1>2, PTL DEF M!Spec

-----------------------------------------------------------------------------
(* The native inspector.  What a client owes an answer to is the job that  *)
(* listens; a client is on the stack or at work, and never both.           *)
InspectorClientState ==
    [ready : {"none", "pending", "ok"}, alive : BOOLEAN, inbox : Seq(Caller), buffer : Seq(I!Frame),
                         listening : Caller \cup {"none"}]
InspectorJobState == [pc : {"new", "waiting", "given", "starting", "running", "ended", "done"},
                      at : SUBSET Instance, report : SUBSET Caller]
InspectorWork == {"given", "starting", "running", "ended"}

InspectorAtWork(j) == inspector_job[j].pc \in InspectorWork
InspectorListens(c) == inspector_client[c].listening # "none"

(* A job at work has one client, and no other job at work has it. *)
InspectorOneClient ==
    /\ \A j \in Caller : InspectorAtWork(j) => \E c \in Instance : inspector_job[j].at = {c}
    /\ \A j, k \in Caller : InspectorAtWork(j) /\ InspectorAtWork(k) /\ j # k =>
         inspector_job[j].at # inspector_job[k].at
(* The clients on the stack are different ones that serve no job. *)
InspectorStackIsFree ==
    /\ \A i \in 1 .. Len(inspector_idle) : \A j \in Caller : InspectorAtWork(j) =>
         inspector_job[j].at # {inspector_idle[i]}
    /\ \A i, k \in 1 .. Len(inspector_idle) : i # k => inspector_idle[i] # inspector_idle[k]
(* The queue holds each job that waits once. *)
InspectorQueueWaits ==
    /\ \A i \in 1 .. Len(inspector_waiting) : inspector_job[inspector_waiting[i]].pc = "waiting"
    /\ \A i, k \in 1 .. Len(inspector_waiting) : i # k => inspector_waiting[i] # inspector_waiting[k]
(* Until the router is stopped it knows the clients in use. *)
InspectorKnown ==
    (\E j \in Caller : inspector_job[j].pc = "new") =>
        /\ \A j \in Caller : InspectorAtWork(j) => inspector_job[j].at \subseteq inspector_made
        /\ \A i \in 1 .. Len(inspector_idle) : inspector_idle[i] \in inspector_made
(* A client it made is on the stack or at work, and who waits waits for    *)
(* all of them.                                                            *)
InspectorAccounted ==
    /\ \A c \in inspector_made : (\E i \in 1 .. Len(inspector_idle) : inspector_idle[i] = c)
         \/ \E j \in Caller : InspectorAtWork(j) /\ inspector_job[j].at = {c}
    /\ inspector_waiting # <<>> => inspector_made = Instance /\ inspector_idle = <<>>
(* What a client has read and not used is garbage; it owes an answer only  *)
(* to the job that listens.                                                *)
InspectorServes(c) ==
    /\ \A i \in 1 .. Len(inspector_client[c].buffer) : inspector_client[c].buffer[i] = "garbage"
    /\ ~InspectorListens(c) => inspector_client[c].inbox = <<>>
    /\ InspectorListens(c) =>
        /\ inspector_job[inspector_client[c].listening].pc = "running"
        /\ inspector_job[inspector_client[c].listening].at = {c}
        /\ inspector_client[c].buffer = <<>> /\ Len(inspector_client[c].inbox) <= 1
        /\ \A i \in 1 .. Len(inspector_client[c].inbox) : inspector_client[c].inbox[i] = inspector_client[c].listening
InspectorOwn == \A j \in Caller : inspector_job[j].report \subseteq {j}
InspectorInv ==
    /\ I!TypeOK /\ InspectorOwn /\ InspectorOneClient /\ InspectorStackIsFree /\ InspectorQueueWaits
    /\ InspectorKnown /\ InspectorAccounted
    /\ \A c \in Instance : InspectorServes(c)

LEMMA InspectorTypes ==
    ASSUME I!TypeOK
    PROVE  /\ inspector_client \in [Instance -> InspectorClientState]
           /\ inspector_job \in [Caller -> InspectorJobState]
           /\ inspector_idle \in Seq(Instance) /\ inspector_waiting \in Seq(Caller)
           /\ inspector_made \in SUBSET Instance /\ inspector_faults \in 0 .. MaxInspectorFaults
           /\ Len(inspector_idle) \in Nat /\ Len(inspector_waiting) \in Nat
           /\ \A i \in 1 .. Len(inspector_idle) : inspector_idle[i] \in Instance
           /\ \A i \in 1 .. Len(inspector_waiting) : inspector_waiting[i] \in Caller
BY ElementOfSeq, LenProperties DEF I!TypeOK, InspectorClientState, InspectorJobState

LEMMA AtMostOne == \A n \in Nat \ {0} : n <= 1 => n = 1
OBVIOUS

(* A stack without its top. *)
LEMMA Popped ==
    ASSUME NEW Z, NEW s \in Seq(Z), s # <<>>
    PROVE  LET t == SubSeq(s, 1, Len(s) - 1)
           IN  t \in Seq(Z) /\ Len(t) = Len(s) - 1 /\ \A i \in 1 .. Len(t) : t[i] = s[i]
<1>1. PICK n \in Nat \ {0} : n = Len(s)
  BY EmptySeq
<1>2. s \in [1 .. n -> Z]
  BY <1>1, LenProperties
<1>3. 1 \in Int /\ n - 1 \in Int /\ \A i \in 1 .. n - 1 : s[i] \in Z
  BY <1>1, <1>2
<1> DEFINE t == SubSeq(s, 1, n - 1)
<1>4. /\ t \in Seq(Z) /\ Len(t) = IF 1 <= n - 1 THEN n - 1 - 1 + 1 ELSE 0
      /\ \A i \in 1 .. n - 1 - 1 + 1 : t[i] = s[1 + i - 1]
  BY <1>3, SubSeqProperties
<1> HIDE DEF t
<1>5. Len(t) = n - 1
  BY <1>1, <1>4
<1>6. \A i \in 1 .. n - 1 : t[i] = s[i]
  <2>1. SUFFICES ASSUME NEW i \in 1 .. n - 1 PROVE t[i] = s[i]
    OBVIOUS
  <2>2. i \in 1 .. n - 1 - 1 + 1 /\ 1 + i - 1 = i
    OBVIOUS
  <2>3. t[i] = s[1 + i - 1]
    BY <1>4, <2>2
  <2> QED
    BY <2>2, <2>3
<1>7. t \in Seq(Z) /\ Len(t) = n - 1 /\ \A i \in 1 .. Len(t) : t[i] = s[i]
  BY <1>4, <1>5, <1>6
<1> QED
  BY <1>1, <1>7 DEF t

LEMMA InspectorFaultTypes ==
  ASSUME I!InspectorAssumption, I!TypeOK, I!Fault
  PROVE  inspector_faults' \in 0 .. MaxInspectorFaults
BY DEF I!InspectorAssumption, I!TypeOK, I!Fault

LEMMA InspectorFreshTypes ==
    I!Fresh \in InspectorClientState /\ I!Fresh.listening = "none" /\ I!Fresh.inbox = <<>> /\ I!Fresh.buffer = <<>>
BY EmptySeq DEF I!Fresh, InspectorClientState, I!Frame

LEMMA InspectorAtIs == ASSUME NEW j \in Caller, NEW c \in Instance, inspector_job[j].at = {c} PROVE I!At(j) = c
BY DEF I!At

(* A step of a client for the job it serves: the router sees nothing.      *)
LEMMA InspectorClientStep ==
    ASSUME InspectorInv, NEW c \in Instance, NEW j \in Caller, InspectorAtWork(j), inspector_job[j].at = {c},
           UNCHANGED <<inspector_made, inspector_idle, inspector_waiting>>,
           inspector_faults' \in 0 .. MaxInspectorFaults,
           inspector_client' \in [Instance -> InspectorClientState],
           \A d \in Instance : d # c => inspector_client'[d] = inspector_client[d],
           inspector_job' \in [Caller -> InspectorJobState],
           \A k \in Caller : k # j => inspector_job'[k] = inspector_job[k],
           InspectorAtWork(j)', inspector_job'[j].at = {c}, inspector_job'[j].report \subseteq {j},
           InspectorServes(c)'
    PROVE  InspectorInv'
<1>1. I!TypeOK'
  BY DEF InspectorInv, I!TypeOK, InspectorClientState, InspectorJobState
<1>2. \A k \in Caller : inspector_job'[k].at = inspector_job[k].at /\ (InspectorAtWork(k)' <=> InspectorAtWork(k))
                        /\ (inspector_job[k].pc \in {"new", "waiting"} <=> inspector_job'[k].pc \in {"new",
                             "waiting"})
                        /\ (inspector_job'[k].pc = "new" => inspector_job[k].pc = "new")
                        /\ (inspector_job[k].pc = "waiting" => inspector_job'[k].pc = "waiting")
  BY DEF InspectorAtWork, InspectorWork
<1>3. InspectorOwn'
  BY DEF InspectorInv, InspectorOwn
<1>4. InspectorOneClient'
  <2>1. \A k \in Caller : InspectorAtWork(k)' => \E d \in Instance : inspector_job'[k].at = {d}
    BY <1>2 DEF InspectorInv, InspectorOneClient
  <2>2. \A k, l \in Caller : InspectorAtWork(k)' /\ InspectorAtWork(l)' /\ k # l =>
          inspector_job'[k].at # inspector_job'[l].at
    BY <1>2 DEF InspectorInv, InspectorOneClient
  <2> QED
    BY <2>1, <2>2 DEF InspectorOneClient
<1>5. InspectorStackIsFree'
  <2>1. \A i \in 1 .. Len(inspector_idle) : \A k \in Caller : InspectorAtWork(k)' =>
          inspector_job'[k].at # {inspector_idle[i]}
    BY <1>2 DEF InspectorInv, InspectorStackIsFree
  <2> QED
    BY <2>1 DEF InspectorInv, InspectorStackIsFree
<1>6. InspectorQueueWaits'
  BY <1>2, InspectorTypes DEF InspectorInv, InspectorQueueWaits
<1>7. InspectorKnown'
  <2>1. SUFFICES ASSUME NEW k \in Caller, inspector_job'[k].pc = "new"
                 PROVE  /\ \A l \in Caller : InspectorAtWork(l)' => inspector_job'[l].at \subseteq inspector_made
                        /\ \A i \in 1 .. Len(inspector_idle) : inspector_idle[i] \in inspector_made
    BY DEF InspectorKnown
  <2>2. inspector_job[k].pc = "new"
    BY <1>2, <2>1
  <2> QED
    BY <1>2, <2>2 DEF InspectorInv, InspectorKnown
<1>8. InspectorAccounted'
  <2>1. ASSUME NEW d \in inspector_made
        PROVE  (\E i \in 1 .. Len(inspector_idle) : inspector_idle[i] = d) \/ \E k \in Caller : InspectorAtWork(k)'
                 /\ inspector_job'[k].at = {d}
    BY <1>2, <2>1 DEF InspectorInv, InspectorAccounted
  <2> QED
    BY <2>1 DEF InspectorInv, InspectorAccounted
<1>9. ASSUME NEW d \in Instance, d # c PROVE InspectorServes(d)'
  <2>1. InspectorServes(d) /\ inspector_client'[d] = inspector_client[d]
    BY <1>9 DEF InspectorInv
  <2>2. CASE ~InspectorListens(d)
    BY <2>1, <2>2 DEF InspectorServes, InspectorListens
  <2>3. CASE InspectorListens(d)
    <3>1. inspector_client[d].listening \in Caller
      BY <2>3, InspectorTypes DEF InspectorInv, InspectorListens, InspectorClientState
    <3>2. inspector_client[d].listening # j
      BY <1>9, <2>1, <2>3 DEF InspectorServes
    <3>3. inspector_job'[inspector_client[d].listening] = inspector_job[inspector_client[d].listening]
      BY <3>1, <3>2
    <3> QED
      BY <2>1, <2>3, <3>3 DEF InspectorServes, InspectorListens
  <2> QED
    BY <2>2, <2>3
<1> QED
  BY <1>1, <1>3, <1>4, <1>5, <1>6, <1>7, <1>8, <1>9 DEF InspectorInv

(* A step of a client that no job sees.                                    *)
LEMMA InspectorUnseen ==
    ASSUME InspectorInv, NEW c \in Instance,
           UNCHANGED <<inspector_made, inspector_idle, inspector_waiting, inspector_job>>,
           inspector_faults' \in 0 .. MaxInspectorFaults,
           inspector_client' \in [Instance -> InspectorClientState],
           \A d \in Instance : d # c => inspector_client'[d] = inspector_client[d], InspectorServes(c)'
    PROVE  InspectorInv'
<1>1. I!TypeOK'
  BY DEF InspectorInv, I!TypeOK, InspectorClientState, InspectorJobState
<1>2. \A k \in Caller : InspectorAtWork(k)' <=> InspectorAtWork(k)
  BY DEF InspectorAtWork
<1>3. /\ InspectorOwn' /\ InspectorOneClient' /\ InspectorStackIsFree' /\ InspectorQueueWaits' /\ InspectorKnown'
      /\ InspectorAccounted'
  <2>1. InspectorOwn' /\ InspectorOneClient'
    BY DEF InspectorInv, InspectorOwn, InspectorOneClient, InspectorAtWork
  <2>2. InspectorStackIsFree' /\ InspectorQueueWaits'
    BY DEF InspectorInv, InspectorStackIsFree, InspectorQueueWaits, InspectorAtWork
  <2>3. InspectorKnown'
    BY DEF InspectorInv, InspectorKnown, InspectorAtWork
  <2>4. InspectorAccounted'
    BY DEF InspectorInv, InspectorAccounted, InspectorAtWork
  <2> QED
    BY <2>1, <2>2, <2>3, <2>4
<1>4. ASSUME NEW d \in Instance, d # c PROVE InspectorServes(d)'
  <2>1. InspectorServes(d) /\ inspector_client'[d] = inspector_client[d] /\ inspector_job' = inspector_job
    BY <1>4 DEF InspectorInv
  <2> QED
    BY <2>1 DEF InspectorServes, InspectorListens
<1> QED
  BY <1>1, <1>3, <1>4 DEF InspectorInv

LEMMA InspectorSettles ==
    ASSUME inspector_job \in [Caller -> InspectorJobState], NEW j \in Caller, NEW report \in SUBSET Caller,
           I!Settle(j, report)
    PROVE  /\ inspector_job' \in [Caller -> InspectorJobState]
           /\ \A k \in Caller : k # j => inspector_job'[k] = inspector_job[k]
           /\ inspector_job'[j].pc = "ended" /\ inspector_job'[j].at = inspector_job[j].at
           /\ inspector_job'[j].report = report
<1> DEFINE q == [inspector_job[j] EXCEPT !.pc = "ended", !.report = report]
<1>a. inspector_job[j] \in InspectorJobState
  OBVIOUS
<1>1. q \in InspectorJobState /\ q.pc = "ended" /\ q.at = inspector_job[j].at /\ q.report = report
  BY <1>a DEF InspectorJobState
<1>2. inspector_job' = [inspector_job EXCEPT ![j] = q]
  BY DEF I!Settle
<1> HIDE DEF q
<1> QED
  BY <1>1, <1>2

(* A job that ends without a report, its process restarted.                *)
LEMMA InspectorRestartStep ==
    ASSUME InspectorInv, NEW c \in Instance, NEW j \in Caller, InspectorAtWork(j), inspector_job[j].at = {c},
           UNCHANGED <<inspector_made, inspector_idle, inspector_waiting>>,
           inspector_faults' \in 0 .. MaxInspectorFaults,
           inspector_client' = [inspector_client EXCEPT ![c] = I!Fresh], I!Settle(j, {})
    PROVE  InspectorInv'
<1>0. inspector_client \in [Instance -> InspectorClientState] /\ inspector_job \in [Caller -> InspectorJobState]
  BY InspectorTypes DEF InspectorInv
<1>1. /\ inspector_client' \in [Instance -> InspectorClientState] /\ inspector_client'[c] = I!Fresh
      /\ \A d \in Instance : d # c => inspector_client'[d] = inspector_client[d]
  BY <1>0, InspectorFreshTypes
<1>2. /\ inspector_job' \in [Caller -> InspectorJobState]
      /\ \A k \in Caller : k # j => inspector_job'[k] = inspector_job[k]
      /\ inspector_job'[j].pc = "ended" /\ inspector_job'[j].at = inspector_job[j].at /\ inspector_job'[j].report = {}
  BY <1>0, InspectorSettles
<1>3. InspectorServes(c)'
  BY <1>1, InspectorFreshTypes DEF InspectorServes, InspectorListens
<1>4. InspectorAtWork(j)'
  BY <1>2 DEF InspectorAtWork, InspectorWork
<1> QED
  BY <1>1, <1>2, <1>3, <1>4, InspectorClientStep

(* What is found in the buffer of the client of a job that begins to       *)
(* listen, or listens.                                                     *)
LEMMA InspectorPumpStep ==
    ASSUME I!InspectorAssumption, InspectorInv, NEW c \in Instance, NEW j \in Caller, InspectorAtWork(j),
           inspector_job[j].at = {c},
           NEW s \in InspectorClientState, s.listening = j,
           UNCHANGED <<inspector_made, inspector_idle, inspector_waiting>>,
           inspector_faults' \in 0 .. MaxInspectorFaults,
           I!Pump(c, s, j),
           \/ s.buffer = <<>> /\ Len(s.inbox) <= 1 /\ \A i \in 1 .. Len(s.inbox) : s.inbox[i] = j
           \/ s.buffer # <<>> /\ Head(s.buffer) = "garbage"
           \/ s.buffer # <<>> /\ Head(s.buffer) = j /\ Tail(s.buffer) = <<>> /\ s.inbox = <<>>
    PROVE  InspectorInv'
<1>0. inspector_client \in [Instance -> InspectorClientState] /\ inspector_job \in [Caller -> InspectorJobState]
  BY InspectorTypes DEF InspectorInv
<1>1. CASE s.buffer = <<>>
  <2>1. /\ inspector_client' = [inspector_client EXCEPT ![c] = s]
        /\ inspector_job' = [inspector_job EXCEPT ![j].pc = "running"]
    BY <1>1 DEF I!Pump
  <2>2. /\ inspector_client' \in [Instance -> InspectorClientState] /\ inspector_client'[c] = s
        /\ \A d \in Instance : d # c => inspector_client'[d] = inspector_client[d]
    BY <1>0, <2>1
  <2>3. /\ inspector_job' \in [Caller -> InspectorJobState]
        /\ \A k \in Caller : k # j => inspector_job'[k] = inspector_job[k]
        /\ inspector_job'[j].pc = "running" /\ inspector_job'[j].at = inspector_job[j].at
        /\ inspector_job'[j].report = inspector_job[j].report
    <3> DEFINE t == [inspector_job[j] EXCEPT !.pc = "running"]
    <3>1. inspector_job[j] \in InspectorJobState
      BY <1>0
    <3>2. /\ t \in InspectorJobState /\ t.pc = "running" /\ t.at = inspector_job[j].at
          /\ t.report = inspector_job[j].report
      BY <3>1 DEF InspectorJobState
    <3>3. inspector_job' = [inspector_job EXCEPT ![j] = t]
      BY <2>1
    <3> HIDE DEF t
    <3> QED
      BY <1>0, <3>2, <3>3
  <2>4. InspectorServes(c)'
    BY <1>1, <2>2, <2>3, EmptySeq DEF InspectorServes, InspectorListens, I!InspectorAssumption
  <2>5. InspectorAtWork(j)'
    BY <2>3 DEF InspectorAtWork, InspectorWork
  <2>6. inspector_job'[j].report \subseteq {j}
    BY <2>3 DEF InspectorInv, InspectorOwn
  <2> QED
    BY <2>2, <2>3, <2>4, <2>5, <2>6, InspectorClientStep
<1>2. CASE s.buffer # <<>> /\ Head(s.buffer) = "garbage"
  <2>1. inspector_client' = [inspector_client EXCEPT ![c] = I!Fresh] /\ I!Settle(j, {})
    BY <1>2 DEF I!Pump
  <2> QED
    BY <2>1, InspectorRestartStep
<1>3. CASE s.buffer # <<>> /\ Head(s.buffer) # "garbage"
  <2>0. Head(s.buffer) = j /\ Tail(s.buffer) = <<>> /\ s.inbox = <<>>
    BY <1>3
  <2> DEFINE q == [s EXCEPT !.buffer = Tail(s.buffer), !.listening = "none"]
  <2>1. inspector_client' = [inspector_client EXCEPT ![c] = q] /\ I!Settle(j, {j})
    BY <1>3, <2>0 DEF I!Pump
  <2>2. q \in InspectorClientState /\ q.listening = "none" /\ q.buffer = <<>> /\ q.inbox = <<>>
    BY <2>0, EmptySeq DEF InspectorClientState, I!Frame
  <2> HIDE DEF q
  <2>3. /\ inspector_client' \in [Instance -> InspectorClientState] /\ inspector_client'[c] = q
        /\ \A d \in Instance : d # c => inspector_client'[d] = inspector_client[d]
    BY <1>0, <2>1, <2>2
  <2>4. /\ inspector_job' \in [Caller -> InspectorJobState]
        /\ \A k \in Caller : k # j => inspector_job'[k] = inspector_job[k]
        /\ inspector_job'[j].pc = "ended" /\ inspector_job'[j].at = inspector_job[j].at
        /\ inspector_job'[j].report = {j}
    BY <1>0, <2>1, InspectorSettles
  <2>5. InspectorServes(c)'
    BY <2>2, <2>3, EmptySeq DEF InspectorServes, InspectorListens
  <2>6. InspectorAtWork(j)'
    BY <2>4 DEF InspectorAtWork, InspectorWork
  <2> QED
    BY <2>3, <2>4, <2>5, <2>6, InspectorClientStep
<1> QED
  BY <1>1, <1>2, <1>3

LEMMA InspectorServedBy ==
    ASSUME InspectorInv, NEW j \in Caller, InspectorAtWork(j)
    PROVE  \E c \in Instance : inspector_job[j].at = {c} /\ I!At(j) = c
             /\ inspector_client[c] \in InspectorClientState /\ InspectorServes(c)
<1>1. PICK c \in Instance : inspector_job[j].at = {c}
  BY DEF InspectorInv, InspectorOneClient
<1> QED
  BY <1>1, InspectorAtIs, InspectorTypes DEF InspectorInv

(* Who listens to a client is at work there. *)
LEMMA InspectorListener ==
    ASSUME InspectorInv, NEW c \in Instance, InspectorListens(c)
    PROVE  \E j \in Caller : /\ inspector_client[c].listening = j /\ inspector_job[j].pc = "running"
                                  /\ InspectorAtWork(j) /\ inspector_job[j].at = {c}
                             /\ inspector_client[c].buffer = <<>> /\ Len(inspector_client[c].inbox) <= 1
                             /\ \A i \in 1 .. Len(inspector_client[c].inbox) : inspector_client[c].inbox[i] = j
<1>1. inspector_client[c].listening \in Caller
  BY InspectorTypes DEF InspectorInv, InspectorListens, InspectorClientState
<1>2. InspectorServes(c)
  BY DEF InspectorInv
<1> QED
  BY <1>1, <1>2 DEF InspectorServes, InspectorAtWork, InspectorWork

(* A job that does not run yet: nobody listens to its client. *)
LEMMA InspectorNobodyListens ==
    ASSUME InspectorInv, NEW c \in Instance, NEW j \in Caller, InspectorAtWork(j), inspector_job[j].at = {c},
           inspector_job[j].pc # "running"
    PROVE  ~InspectorListens(c)
<1>1. SUFFICES ASSUME InspectorListens(c) PROVE FALSE
  OBVIOUS
<1>2. PICK k \in Caller : inspector_job[k].pc = "running" /\ InspectorAtWork(k) /\ inspector_job[k].at = {c}
  BY <1>1, InspectorListener
<1> QED
  BY <1>2 DEF InspectorInv, InspectorOneClient

LEMMA InspectorAskedTypes ==
    ASSUME NEW s \in InspectorClientState, NEW j \in Caller, s.inbox = <<>>
    PROVE  /\ I!Asked(s, j) \in InspectorClientState /\ I!Asked(s, j).listening = j /\ I!Asked(s, j).buffer = s.buffer
           /\ Len(I!Asked(s, j).inbox) <= 1 /\ \A i \in 1 .. Len(I!Asked(s, j).inbox) : I!Asked(s, j).inbox[i] = j
<1> DEFINE i == IF s.alive THEN Append(s.inbox, j) ELSE s.inbox
<1>1. /\ Append(s.inbox, j) \in Seq(Caller) /\ Len(Append(s.inbox, j)) = 1 /\ Append(s.inbox, j)[1] = j
      /\ <<>> \in Seq(Caller) /\ Len(<<>>) = 0
  BY AppendProperties, EmptySeq
<1>2. i \in Seq(Caller) /\ Len(i) \in {0, 1} /\ \A n \in 1 .. Len(i) : i[n] = j
  BY <1>1
<1>3. I!Asked(s, j) = [s EXCEPT !.listening = j, !.inbox = i]
  BY DEF I!Asked
<1> HIDE DEF i
<1>4. I!Asked(s, j) \in InspectorClientState
  BY <1>2, <1>3 DEF InspectorClientState
<1>5. I!Asked(s, j).listening = j /\ I!Asked(s, j).buffer = s.buffer /\ I!Asked(s, j).inbox = i
  BY <1>3 DEF InspectorClientState
<1> QED
  BY <1>2, <1>4, <1>5

LEMMA InspectorBeginStep ==
  ASSUME I!InspectorAssumption, InspectorInv, NEW j \in Caller, I!Begin(j)
  PROVE  InspectorInv'
<1>0. /\ inspector_job[j].pc = "given" /\ InspectorAtWork(j)
      /\ UNCHANGED <<inspector_made, inspector_idle, inspector_waiting, inspector_faults>>
      /\ inspector_faults' \in 0 .. MaxInspectorFaults
  BY InspectorTypes DEF I!Begin, InspectorAtWork, InspectorWork, InspectorInv
<1>1. PICK c \in Instance : inspector_job[j].at = {c} /\ I!At(j) = c /\ inspector_client[c] \in InspectorClientState
             /\ InspectorServes(c)
  BY <1>0, InspectorServedBy
<1>2. ~InspectorListens(c) /\ inspector_client[c].inbox = <<>>
  BY <1>0, <1>1, InspectorNobodyListens DEF InspectorServes
<1>3. inspector_client \in [Instance -> InspectorClientState] /\ inspector_job \in [Caller -> InspectorJobState]
  BY InspectorTypes DEF InspectorInv
<1> DEFINE r == [inspector_client[c] EXCEPT !.ready = "pending", !.alive = TRUE, !.inbox = <<>>]
<1>4. \/ inspector_client[c].ready = "ok" /\ I!Pump(c, I!Asked(inspector_client[c], j), j)
      \/ /\ inspector_client' = [inspector_client EXCEPT ![c] = r]
         /\ inspector_job' = [inspector_job EXCEPT ![j].pc = "starting"]
  BY <1>1 DEF I!Begin
<1>5. CASE I!Pump(c, I!Asked(inspector_client[c], j), j)
  <2>1. /\ I!Asked(inspector_client[c], j) \in InspectorClientState /\ I!Asked(inspector_client[c], j).listening = j
        /\ I!Asked(inspector_client[c], j).buffer = inspector_client[c].buffer
        /\ Len(I!Asked(inspector_client[c], j).inbox) <= 1
        /\ \A i \in 1 .. Len(I!Asked(inspector_client[c], j).inbox) : I!Asked(inspector_client[c], j).inbox[i] = j
    BY <1>1, <1>2, InspectorAskedTypes
  <2>2. inspector_client[c].buffer \in Seq(I!Frame)
    BY <1>1 DEF InspectorClientState
  <2>3. inspector_client[c].buffer # <<>> => Head(inspector_client[c].buffer) = "garbage"
    <3>1. SUFFICES ASSUME inspector_client[c].buffer # <<>> PROVE Head(inspector_client[c].buffer) = "garbage"
      OBVIOUS
    <3>2. 1 \in 1 .. Len(inspector_client[c].buffer)
      BY <2>2, <3>1, EmptySeq
    <3> QED
      BY <1>1, <3>2 DEF InspectorServes
  <2> QED
    BY <1>0, <1>1, <1>5, <2>1, <2>3, InspectorPumpStep
<1>6. CASE inspector_client' = [inspector_client EXCEPT ![c] = r]
             /\ inspector_job' = [inspector_job EXCEPT ![j].pc = "starting"]
  <2>1. /\ r \in InspectorClientState /\ r.listening = inspector_client[c].listening
        /\ r.buffer = inspector_client[c].buffer /\ r.inbox = <<>>
    BY <1>1, EmptySeq DEF InspectorClientState
  <2> HIDE DEF r
  <2>2. /\ inspector_client' \in [Instance -> InspectorClientState] /\ inspector_client'[c] = r
        /\ \A d \in Instance : d # c => inspector_client'[d] = inspector_client[d]
    BY <1>3, <1>6, <2>1
  <2>3. /\ inspector_job' \in [Caller -> InspectorJobState]
        /\ \A k \in Caller : k # j => inspector_job'[k] = inspector_job[k]
        /\ inspector_job'[j].pc = "starting" /\ inspector_job'[j].at = inspector_job[j].at
        /\ inspector_job'[j].report = inspector_job[j].report
    BY <1>3, <1>6 DEF InspectorJobState
  <2>4. InspectorServes(c)'
    BY <1>1, <1>2, <2>1, <2>2 DEF InspectorServes, InspectorListens
  <2>5. InspectorAtWork(j)'
    BY <2>3 DEF InspectorAtWork, InspectorWork
  <2>6. inspector_job'[j].report \subseteq {j}
    BY <2>3 DEF InspectorInv, InspectorOwn
  <2> QED
    BY <1>0, <1>1, <2>2, <2>3, <2>4, <2>5, <2>6, InspectorClientStep
<1> QED
  BY <1>4, <1>5, <1>6

LEMMA InspectorReadyStep ==
  ASSUME I!InspectorAssumption, InspectorInv, NEW j \in Caller, I!Ready(j)
  PROVE  InspectorInv'
<1>0. /\ inspector_job[j].pc = "starting" /\ InspectorAtWork(j)
      /\ UNCHANGED <<inspector_made, inspector_idle, inspector_waiting, inspector_faults>>
      /\ inspector_faults' \in 0 .. MaxInspectorFaults
  BY InspectorTypes DEF I!Ready, InspectorAtWork, InspectorWork, InspectorInv
<1>1. PICK c \in Instance : inspector_job[j].at = {c} /\ I!At(j) = c /\ inspector_client[c] \in InspectorClientState
             /\ InspectorServes(c)
  BY <1>0, InspectorServedBy
<1>2. ~InspectorListens(c) /\ inspector_client[c].inbox = <<>>
  BY <1>0, <1>1, InspectorNobodyListens DEF InspectorServes
<1> DEFINE s == [inspector_client[c] EXCEPT !.ready = "ok"]
<1>3. s \in InspectorClientState /\ s.inbox = <<>> /\ s.buffer = inspector_client[c].buffer
  BY <1>1, <1>2 DEF InspectorClientState
<1>4. /\ inspector_client[c].buffer = <<>> /\ inspector_client' = [inspector_client EXCEPT ![c] = I!Asked(s, j)]
      /\ inspector_job' = [inspector_job EXCEPT ![j].pc = "running"]
  BY <1>1 DEF I!Ready
<1> HIDE DEF s
<1>5. /\ I!Asked(s, j) \in InspectorClientState /\ I!Asked(s, j).listening = j /\ I!Asked(s, j).buffer = <<>>
      /\ Len(I!Asked(s, j).inbox) <= 1 /\ \A i \in 1 .. Len(I!Asked(s, j).inbox) : I!Asked(s, j).inbox[i] = j
  BY <1>3, <1>4, InspectorAskedTypes
<1>6. I!Pump(c, I!Asked(s, j), j)
  BY <1>4, <1>5 DEF I!Pump
<1> QED
  BY <1>0, <1>1, <1>5, <1>6, InspectorPumpStep

LEMMA InspectorEndsStep ==
    ASSUME I!InspectorAssumption, InspectorInv, NEW j \in Caller, I!StartFails(j) \/ I!TimedOut(j) PROVE InspectorInv'
<1>0. /\ InspectorAtWork(j) /\ UNCHANGED <<inspector_made, inspector_idle, inspector_waiting>>
      /\ inspector_faults' \in 0 .. MaxInspectorFaults
  BY InspectorTypes, InspectorFaultTypes DEF I!StartFails, I!TimedOut, InspectorAtWork, InspectorWork, InspectorInv
<1>1. PICK c \in Instance : inspector_job[j].at = {c} /\ I!At(j) = c
  BY <1>0, InspectorServedBy
<1>2. inspector_client' = [inspector_client EXCEPT ![c] = I!Fresh] /\ I!Settle(j, {})
  BY <1>1 DEF I!StartFails, I!TimedOut, I!Restart
<1> QED
  BY <1>0, <1>1, <1>2, InspectorRestartStep

(* A frame of a process.                                                   *)
LEMMA InspectorArrivesStep ==
    ASSUME I!InspectorAssumption, InspectorInv, NEW c \in Instance, I!Answer(c) \/ I!Garbage(c) PROVE InspectorInv'
<1>0. /\ UNCHANGED <<inspector_made, inspector_idle, inspector_waiting>>
      /\ inspector_faults' \in 0 .. MaxInspectorFaults /\ inspector_client \in [Instance -> InspectorClientState]
      /\ inspector_client[c] \in InspectorClientState /\ InspectorServes(c)
  BY InspectorTypes, InspectorFaultTypes DEF I!Answer, I!Garbage, InspectorInv
<1>1. inspector_client[c].inbox \in Seq(Caller) /\ inspector_client[c].buffer \in Seq(I!Frame)
  BY <1>0 DEF InspectorClientState
<1>2. PICK f \in I!Frame, i \in Seq(Caller) :
        /\ I!Arrives(c, f, i)
        /\ \/ inspector_client[c].inbox # <<>> /\ f = Head(inspector_client[c].inbox)
                                                    /\ i = Tail(inspector_client[c].inbox)
           \/ f = "garbage" /\ i = inspector_client[c].inbox
  <2>1. CASE I!Answer(c)
    <3>1. /\ inspector_client[c].inbox # <<>>
          /\ I!Arrives(c, Head(inspector_client[c].inbox), Tail(inspector_client[c].inbox))
      BY <2>1 DEF I!Answer
    <3>2. Head(inspector_client[c].inbox) \in Caller /\ Tail(inspector_client[c].inbox) \in Seq(Caller)
      BY <1>1, <3>1, HeadTailProperties
    <3> QED
      BY <3>1, <3>2 DEF I!Frame
  <2>2. CASE I!Garbage(c)
    BY <1>1, <2>2 DEF I!Garbage, I!Frame
  <2> QED
    BY <2>1, <2>2
<1> DEFINE b == Append(inspector_client[c].buffer, f)
           s == [inspector_client[c] EXCEPT !.inbox = i, !.buffer = b]
<1>3. /\ b \in Seq(I!Frame) /\ b # <<>> /\ Len(b) = Len(inspector_client[c].buffer) + 1
      /\ \A n \in 1 .. Len(inspector_client[c].buffer) : b[n] = inspector_client[c].buffer[n]
      /\ b[Len(inspector_client[c].buffer) + 1] = f
  BY <1>1, AppendProperties
<1>4. s \in InspectorClientState /\ s.inbox = i /\ s.buffer = b /\ s.listening = inspector_client[c].listening
  <2> HIDE DEF b
  <2> QED
    BY <1>0, <1>3 DEF InspectorClientState
<1>5. IF s.listening # "none" THEN I!Pump(c, s, s.listening)
      ELSE inspector_client' = [inspector_client EXCEPT ![c] = s] /\ UNCHANGED inspector_job
  BY <1>2 DEF I!Arrives
<1>6. CASE InspectorListens(c)
  <2>1. PICK j \in Caller : /\ inspector_client[c].listening = j /\ InspectorAtWork(j) /\ inspector_job[j].at = {c}
                            /\ inspector_client[c].buffer = <<>> /\ Len(inspector_client[c].inbox) <= 1
                            /\ \A n \in 1 .. Len(inspector_client[c].inbox) : inspector_client[c].inbox[n] = j
    BY <1>6, InspectorListener
  <2>2. Head(b) = f /\ Tail(b) = <<>>
    BY <1>1, <2>1, HeadTailAppend
  <2>3. CASE inspector_client[c].inbox # <<>> /\ f = Head(inspector_client[c].inbox)
                                                   /\ i = Tail(inspector_client[c].inbox)
    <3>1. Len(inspector_client[c].inbox) = 1 /\ Len(i) = 0 /\ f = j
      <4>1. Len(inspector_client[c].inbox) \in Nat \ {0}
        BY <1>1, <2>3, EmptySeq
      <4>2. Len(i) = Len(inspector_client[c].inbox) - 1
        BY <1>1, <2>3, HeadTailProperties
      <4>3. f = inspector_client[c].inbox[1]
        BY <2>3
      <4>7. Len(inspector_client[c].inbox) <= 1
        BY <2>1
      <4>4. Len(inspector_client[c].inbox) = 1
        BY <4>1, <4>7, AtMostOne
      <4>5. Len(i) = 0
        BY <4>2, <4>4
      <4>6. 1 \in 1 .. Len(inspector_client[c].inbox)
        BY <4>4
      <4> QED
        BY <2>1, <4>3, <4>4, <4>5, <4>6
    <3>2. i = <<>>
      BY <3>1, EmptySeq
    <3>3. I!Pump(c, s, j) /\ s.listening = j
      BY <1>4, <1>5, <1>6, <2>1 DEF InspectorListens
    <3> HIDE DEF s, b
    <3> PICK r \in InspectorClientState : r = s
      BY <1>4
    <3> QED
      BY <1>0, <1>3, <1>4, <2>1, <2>2, <3>1, <3>2, <3>3, InspectorPumpStep
  <2>4. CASE f = "garbage"
    <3>3. I!Pump(c, s, j) /\ s.listening = j
      BY <1>4, <1>5, <1>6, <2>1 DEF InspectorListens
    <3> HIDE DEF s, b
    <3> PICK r \in InspectorClientState : r = s
      BY <1>4
    <3> QED
      BY <1>0, <1>3, <1>4, <2>1, <2>2, <2>4, <3>3, InspectorPumpStep
  <2> QED
    BY <1>2, <2>3, <2>4
<1>7. CASE ~InspectorListens(c)
  <2>1. inspector_client[c].inbox = <<>>
    BY <1>0, <1>7 DEF InspectorServes
  <2>2. f = "garbage" /\ i = <<>>
    BY <1>2, <2>1
  <2>3. inspector_client' = [inspector_client EXCEPT ![c] = s] /\ inspector_job' = inspector_job
    BY <1>4, <1>5, <1>7 DEF InspectorListens
  <2>4. \A n \in 1 .. Len(b) : b[n] = "garbage"
    <3>1. Len(inspector_client[c].buffer) \in Nat
      BY <1>1, LenProperties
    <3> HIDE DEF b
    <3> QED
      BY <1>0, <1>3, <2>2, <3>1 DEF InspectorServes
  <2> HIDE DEF s, b
  <2>5. /\ inspector_client' \in [Instance -> InspectorClientState] /\ inspector_client'[c] = s
        /\ \A d \in Instance : d # c => inspector_client'[d] = inspector_client[d]
    BY <1>0, <1>4, <2>3
  <2>6. InspectorServes(c)'
    BY <1>4, <1>7, <2>2, <2>4, <2>5 DEF InspectorServes, InspectorListens
  <2> QED
    BY <1>0, <2>3, <2>5, <2>6, InspectorUnseen
<1> QED
  BY <1>6, <1>7

LEMMA InspectorProcessStep ==
    ASSUME I!InspectorAssumption, InspectorInv, NEW c \in Instance, I!Die(c) \/ I!Exit(c) PROVE InspectorInv'
<1>0. /\ UNCHANGED <<inspector_made, inspector_idle, inspector_waiting>>
      /\ inspector_faults' \in 0 .. MaxInspectorFaults /\ inspector_client \in [Instance -> InspectorClientState]
      /\ inspector_client[c] \in InspectorClientState /\ InspectorServes(c)
  BY InspectorTypes, InspectorFaultTypes DEF I!Die, I!Exit, InspectorInv
<1>1. CASE I!Die(c)
  <2> DEFINE s == [inspector_client[c] EXCEPT !.alive = FALSE, !.inbox = <<>>]
  <2>1. /\ s \in InspectorClientState /\ s.listening = inspector_client[c].listening
        /\ s.buffer = inspector_client[c].buffer /\ s.inbox = <<>>
    BY <1>0, EmptySeq DEF InspectorClientState
  <2>2. inspector_client' = [inspector_client EXCEPT ![c] = s] /\ inspector_job' = inspector_job
    BY <1>1 DEF I!Die
  <2> HIDE DEF s
  <2>3. /\ inspector_client' \in [Instance -> InspectorClientState] /\ inspector_client'[c] = s
        /\ \A d \in Instance : d # c => inspector_client'[d] = inspector_client[d]
    BY <1>0, <2>1, <2>2
  <2>4. InspectorServes(c)'
    BY <1>0, <2>1, <2>2, <2>3, EmptySeq DEF InspectorServes, InspectorListens
  <2> QED
    BY <1>0, <2>2, <2>3, <2>4, InspectorUnseen
<1>2. CASE I!Exit(c) /\ InspectorListens(c)
  <2>1. PICK j \in Caller : inspector_client[c].listening = j /\ InspectorAtWork(j) /\ inspector_job[j].at = {c}
    BY <1>2, InspectorListener
  <2>2. inspector_client' = [inspector_client EXCEPT ![c] = I!Fresh] /\ I!Settle(j, {})
    BY <1>2, <2>1 DEF I!Exit, I!Restart, InspectorListens
  <2> QED
    BY <1>0, <2>1, <2>2, InspectorRestartStep
<1>3. CASE I!Exit(c) /\ ~InspectorListens(c)
  <2> DEFINE s == [inspector_client[c] EXCEPT !.ready = "none"]
  <2>1. /\ s \in InspectorClientState /\ s.listening = inspector_client[c].listening
        /\ s.buffer = inspector_client[c].buffer
        /\ s.inbox = inspector_client[c].inbox
    BY <1>0 DEF InspectorClientState
  <2>2. inspector_client' = [inspector_client EXCEPT ![c] = s] /\ inspector_job' = inspector_job
    BY <1>3 DEF I!Exit, InspectorListens
  <2> HIDE DEF s
  <2>3. /\ inspector_client' \in [Instance -> InspectorClientState] /\ inspector_client'[c] = s
        /\ \A d \in Instance : d # c => inspector_client'[d] = inspector_client[d]
    BY <1>0, <2>1, <2>2
  <2>4. InspectorServes(c)'
    BY <1>0, <2>1, <2>2, <2>3 DEF InspectorServes, InspectorListens
  <2> QED
    BY <1>0, <2>2, <2>3, <2>4, InspectorUnseen
<1> QED
  BY <1>1, <1>2, <1>3

(* The router moves jobs that do not run; the clients stay as they are.    *)
LEMMA InspectorServesOn ==
    ASSUME InspectorInv, inspector_client' = inspector_client,
           \A j \in Caller : inspector_job[j].pc = "running" => inspector_job'[j] = inspector_job[j]
    PROVE  \A c \in Instance : InspectorServes(c)'
<1>1. SUFFICES ASSUME NEW c \in Instance PROVE InspectorServes(c)'
  OBVIOUS
<1>2. InspectorServes(c)
  BY DEF InspectorInv
<1>3. CASE ~InspectorListens(c)
  BY <1>2, <1>3 DEF InspectorServes, InspectorListens
<1>4. CASE InspectorListens(c)
  <2>1. PICK j \in Caller : inspector_client[c].listening = j /\ inspector_job[j].pc = "running"
    BY <1>4, InspectorListener
  <2>2. inspector_job'[j] = inspector_job[j]
    BY <2>1
  <2> QED
    BY <1>2, <1>4, <2>1, <2>2 DEF InspectorServes, InspectorListens
<1> QED
  BY <1>3, <1>4

(* A job that is given a client nobody serves.                             *)
LEMMA InspectorGiven ==
    ASSUME InspectorInv, NEW j \in Caller, ~InspectorAtWork(j), NEW c \in Instance,
           \A k \in Caller : InspectorAtWork(k) => inspector_job[k].at # {c},
           inspector_job' = [inspector_job EXCEPT ![j].pc = "given", ![j].at = {c}]
    PROVE  /\ inspector_job' \in [Caller -> InspectorJobState]
           /\ \A k \in Caller : k # j => inspector_job'[k] = inspector_job[k]
           /\ inspector_job'[j].pc = "given" /\ inspector_job'[j].at = {c}
           /\ inspector_job'[j].report = inspector_job[j].report
           /\ InspectorAtWork(j)' /\ \A k \in Caller : k # j => (InspectorAtWork(k)' <=> InspectorAtWork(k))
           /\ InspectorOwn' /\ InspectorOneClient'
<1>0. inspector_job \in [Caller -> InspectorJobState]
  BY InspectorTypes DEF InspectorInv
<1> DEFINE q == [inspector_job[j] EXCEPT !.pc = "given", !.at = {c}]
<1>1. q \in InspectorJobState /\ q.pc = "given" /\ q.at = {c} /\ q.report = inspector_job[j].report
  BY <1>0 DEF InspectorJobState
<1>2. inspector_job' = [inspector_job EXCEPT ![j] = q]
  OBVIOUS
<1> HIDE DEF q
<1>3. /\ inspector_job' \in [Caller -> InspectorJobState]
      /\ \A k \in Caller : k # j => inspector_job'[k] = inspector_job[k]
      /\ inspector_job'[j].pc = "given" /\ inspector_job'[j].at = {c}
      /\ inspector_job'[j].report = inspector_job[j].report
  BY <1>0, <1>1, <1>2
<1>4. InspectorAtWork(j)' /\ \A k \in Caller : k # j => (InspectorAtWork(k)' <=> InspectorAtWork(k))
  BY <1>3 DEF InspectorAtWork, InspectorWork
<1>5. InspectorOwn'
  BY <1>3 DEF InspectorInv, InspectorOwn
<1>6. \A k \in Caller : InspectorAtWork(k)' => \E d \in Instance : inspector_job'[k].at = {d}
  BY <1>3, <1>4 DEF InspectorInv, InspectorOneClient
<1>7. \A k, l \in Caller : InspectorAtWork(k)' /\ InspectorAtWork(l)' /\ k # l =>
        inspector_job'[k].at # inspector_job'[l].at
  <2>1. SUFFICES ASSUME NEW k \in Caller, NEW l \in Caller, InspectorAtWork(k)', InspectorAtWork(l)', k # l
                 PROVE  inspector_job'[k].at # inspector_job'[l].at
    OBVIOUS
  <2>2. CASE k # j /\ l # j
    BY <1>3, <1>4, <2>1, <2>2 DEF InspectorInv, InspectorOneClient
  <2>3. CASE k = j
    BY <1>3, <1>4, <2>1, <2>3
  <2>4. CASE l = j
    BY <1>3, <1>4, <2>1, <2>4
  <2> QED
    BY <2>2, <2>3, <2>4
<1>8. InspectorOneClient'
  BY <1>6, <1>7 DEF InspectorOneClient
<1> QED
  BY <1>3, <1>4, <1>5, <1>8

LEMMA InspectorInspectStep == ASSUME InspectorInv, NEW j \in Caller, I!Inspect(j) PROVE InspectorInv'
<1>0. /\ inspector_job[j].pc = "new" /\ ~InspectorAtWork(j) /\ inspector_client' = inspector_client
      /\ inspector_faults' = inspector_faults
      /\ I!TypeOK /\ inspector_job \in [Caller -> InspectorJobState] /\ inspector_idle \in Seq(Instance)
      /\ inspector_waiting \in Seq(Caller)
      /\ inspector_made \in SUBSET Instance /\ Len(inspector_idle) \in Nat /\ Len(inspector_waiting) \in Nat
      /\ \A i \in 1 .. Len(inspector_idle) : inspector_idle[i] \in Instance
      /\ \A i \in 1 .. Len(inspector_waiting) : inspector_waiting[i] \in Caller
  BY InspectorTypes DEF I!Inspect, InspectorAtWork, InspectorWork, InspectorInv
<1>1. /\ \A k \in Caller : InspectorAtWork(k) => inspector_job[k].at \subseteq inspector_made
      /\ \A i \in 1 .. Len(inspector_idle) : inspector_idle[i] \in inspector_made
  BY <1>0 DEF InspectorInv, InspectorKnown
<1>2. \A i \in 1 .. Len(inspector_waiting) : inspector_waiting[i] # j
  BY <1>0 DEF InspectorInv, InspectorQueueWaits
<1>3. ASSUME NEW c \in Instance, inspector_idle # <<>>, c = inspector_idle[Len(inspector_idle)],
             inspector_job' = [inspector_job EXCEPT ![j].pc = "given", ![j].at = {c}],
             inspector_idle' = SubSeq(inspector_idle, 1, Len(inspector_idle) - 1),
             UNCHANGED <<inspector_made, inspector_waiting>>
      PROVE  InspectorInv'
  <2>0. Len(inspector_idle) \in 1 .. Len(inspector_idle)
    BY <1>0, <1>3, EmptySeq
  <2>1. \A k \in Caller : InspectorAtWork(k) => inspector_job[k].at # {c}
    BY <1>3, <2>0 DEF InspectorInv, InspectorStackIsFree
  <2>2. /\ inspector_job' \in [Caller -> InspectorJobState]
        /\ \A k \in Caller : k # j => inspector_job'[k] = inspector_job[k]
        /\ inspector_job'[j].pc = "given" /\ inspector_job'[j].at = {c}
        /\ InspectorAtWork(j)' /\ \A k \in Caller : k # j => (InspectorAtWork(k)' <=> InspectorAtWork(k))
        /\ InspectorOwn' /\ InspectorOneClient'
    BY <1>0, <1>3, <2>1, InspectorGiven
  <2>3. /\ inspector_idle' \in Seq(Instance) /\ Len(inspector_idle') = Len(inspector_idle) - 1
        /\ \A i \in 1 .. Len(inspector_idle') : inspector_idle'[i] = inspector_idle[i]
    BY <1>0, <1>3, Popped
  <2>4. I!TypeOK'
    BY <1>0, <1>3, <2>2, <2>3 DEF I!TypeOK, InspectorJobState
  <2>5. \A i \in 1 .. Len(inspector_idle') : i \in 1 .. Len(inspector_idle) /\ i # Len(inspector_idle)
    BY <1>0, <2>3
  <2>6. InspectorStackIsFree'
    <3>1. \A i \in 1 .. Len(inspector_idle') : inspector_idle'[i] = inspector_idle[i] /\ inspector_idle[i] # c
      BY <1>3, <2>0, <2>3, <2>5 DEF InspectorInv, InspectorStackIsFree
    <3>2. ASSUME NEW i \in 1 .. Len(inspector_idle'), NEW k \in Caller, InspectorAtWork(k)'
          PROVE  inspector_job'[k].at # {inspector_idle'[i]}
      <4>1. CASE k = j
        BY <2>2, <3>1, <4>1
      <4>2. CASE k # j
        BY <2>2, <2>5, <3>1, <3>2, <4>2 DEF InspectorInv, InspectorStackIsFree
      <4> QED
        BY <4>1, <4>2
    <3>3. \A i, k \in 1 .. Len(inspector_idle') : i # k => inspector_idle'[i] # inspector_idle'[k]
      BY <2>5, <3>1 DEF InspectorInv, InspectorStackIsFree
    <3> QED
      BY <3>2, <3>3 DEF InspectorStackIsFree
  <2>7. InspectorQueueWaits'
    BY <1>0, <1>2, <1>3, <2>2 DEF InspectorInv, InspectorQueueWaits
  <2>8. InspectorKnown'
    <3>1. \A i \in 1 .. Len(inspector_idle') : inspector_idle'[i] \in inspector_made
      BY <1>1, <2>3, <2>5
    <3>2. c \in inspector_made
      BY <1>1, <1>3, <2>0
    <3>3. \A k \in Caller : InspectorAtWork(k)' => inspector_job'[k].at \subseteq inspector_made
      BY <1>1, <2>2, <3>2
    <3> QED
      BY <1>3, <3>1, <3>3 DEF InspectorKnown
  <2>9. InspectorAccounted'
    <3>1. inspector_waiting = <<>>
      BY <1>3 DEF InspectorInv, InspectorAccounted
    <3>2. ASSUME NEW d \in inspector_made
          PROVE  (\E i \in 1 .. Len(inspector_idle') : inspector_idle'[i] = d)
                   \/ \E k \in Caller : InspectorAtWork(k)' /\ inspector_job'[k].at = {d}
      <4>1. CASE \E k \in Caller : InspectorAtWork(k) /\ inspector_job[k].at = {d}
        BY <1>0, <2>2, <4>1
      <4>2. CASE d = c
        BY <2>2, <4>2
      <4>3. CASE d # c /\ \E i \in 1 .. Len(inspector_idle) : inspector_idle[i] = d
        <5>1. PICK i \in 1 .. Len(inspector_idle) : inspector_idle[i] = d
          BY <4>3
        <5>2. i \in 1 .. Len(inspector_idle')
          BY <1>0, <1>3, <2>3, <4>3, <5>1
        <5> QED
          BY <2>3, <5>1, <5>2
      <4> QED
        BY <3>2, <4>1, <4>2, <4>3 DEF InspectorInv, InspectorAccounted
    <3> QED
      BY <1>3, <3>1, <3>2 DEF InspectorAccounted
  <2>10. \A d \in Instance : InspectorServes(d)'
    BY <1>0, <2>2, InspectorServesOn
  <2> QED
    BY <2>2, <2>4, <2>6, <2>7, <2>8, <2>9, <2>10 DEF InspectorInv
<1>4. ASSUME NEW c \in Instance \ inspector_made, inspector_idle = <<>>, inspector_made' = inspector_made \cup {c},
             inspector_job' = [inspector_job EXCEPT ![j].pc = "given", ![j].at = {c}],
             UNCHANGED <<inspector_idle, inspector_waiting>>
      PROVE  InspectorInv'
  <2>0. Len(inspector_idle) = 0
    BY <1>4, EmptySeq
  <2>1. \A k \in Caller : InspectorAtWork(k) => inspector_job[k].at # {c}
    BY <1>1, <1>4
  <2>2. /\ inspector_job' \in [Caller -> InspectorJobState]
        /\ \A k \in Caller : k # j => inspector_job'[k] = inspector_job[k]
        /\ inspector_job'[j].pc = "given" /\ inspector_job'[j].at = {c}
        /\ InspectorAtWork(j)' /\ \A k \in Caller : k # j => (InspectorAtWork(k)' <=> InspectorAtWork(k))
        /\ InspectorOwn' /\ InspectorOneClient'
    BY <1>0, <1>4, <2>1, InspectorGiven
  <2>4. I!TypeOK'
    BY <1>0, <1>4, <2>2 DEF I!TypeOK, InspectorJobState
  <2>6. InspectorStackIsFree'
    BY <1>4, <2>0 DEF InspectorStackIsFree
  <2>7. InspectorQueueWaits'
    BY <1>0, <1>2, <1>4, <2>2 DEF InspectorInv, InspectorQueueWaits
  <2>8. InspectorKnown'
    <3>1. \A k \in Caller : InspectorAtWork(k)' => inspector_job'[k].at \subseteq inspector_made'
      BY <1>1, <1>4, <2>2
    <3>2. \A i \in 1 .. Len(inspector_idle') : inspector_idle'[i] \in inspector_made'
      BY <1>4, <2>0
    <3> QED
      BY <3>1, <3>2 DEF InspectorKnown
  <2>9. InspectorAccounted'
    <3>1. inspector_waiting = <<>>
      BY <1>4 DEF InspectorInv, InspectorAccounted
    <3>2. ASSUME NEW d \in inspector_made' PROVE \E k \in Caller : InspectorAtWork(k)' /\ inspector_job'[k].at = {d}
      <4>1. CASE d = c
        BY <2>2, <4>1
      <4>2. CASE d \in inspector_made
        <5>1. PICK k \in Caller : InspectorAtWork(k) /\ inspector_job[k].at = {d}
          BY <2>0, <4>2 DEF InspectorInv, InspectorAccounted
        <5> QED
          BY <1>0, <2>2, <5>1
      <4> QED
        BY <1>4, <4>1, <4>2
    <3> QED
      BY <1>4, <3>1, <3>2 DEF InspectorAccounted
  <2>10. \A d \in Instance : InspectorServes(d)'
    BY <1>0, <2>2, InspectorServesOn
  <2> QED
    BY <2>2, <2>4, <2>6, <2>7, <2>8, <2>9, <2>10 DEF InspectorInv
<1>5. ASSUME inspector_idle = <<>>, inspector_made = Instance,
             inspector_job' = [inspector_job EXCEPT ![j].pc = "waiting"],
             inspector_waiting' = Append(inspector_waiting, j),
             UNCHANGED <<inspector_made, inspector_idle>>
      PROVE  InspectorInv'
  <2>1. /\ inspector_job' \in [Caller -> InspectorJobState]
        /\ \A k \in Caller : k # j => inspector_job'[k] = inspector_job[k]
        /\ inspector_job'[j].pc = "waiting" /\ inspector_job'[j].at = inspector_job[j].at
        /\ inspector_job'[j].report = inspector_job[j].report
    BY <1>0, <1>5 DEF InspectorJobState
  <2>2. ~InspectorAtWork(j)' /\ \A k \in Caller : (InspectorAtWork(k)' <=> InspectorAtWork(k))
          /\ inspector_job'[k].at = inspector_job[k].at
    BY <1>0, <2>1 DEF InspectorAtWork, InspectorWork
  <2>3. /\ inspector_waiting' \in Seq(Caller) /\ Len(inspector_waiting') = Len(inspector_waiting) + 1
        /\ \A i \in 1 .. Len(inspector_waiting) : inspector_waiting'[i] = inspector_waiting[i]
        /\ inspector_waiting'[Len(inspector_waiting) + 1] = j
    BY <1>0, <1>5, AppendProperties
  <2>4. I!TypeOK'
    BY <1>0, <1>5, <2>1, <2>3 DEF I!TypeOK, InspectorJobState
  <2>5. InspectorOwn'
    BY <2>1 DEF InspectorInv, InspectorOwn
  <2>6. InspectorOneClient'
    <3>1. \A k \in Caller : InspectorAtWork(k)' => \E d \in Instance : inspector_job'[k].at = {d}
      BY <2>2 DEF InspectorInv, InspectorOneClient
    <3>2. \A k, l \in Caller : InspectorAtWork(k)' /\ InspectorAtWork(l)' /\ k # l =>
            inspector_job'[k].at # inspector_job'[l].at
      BY <2>2 DEF InspectorInv, InspectorOneClient
    <3> QED
      BY <3>1, <3>2 DEF InspectorOneClient
  <2>7. InspectorStackIsFree'
    BY <1>5, EmptySeq DEF InspectorStackIsFree
  <2>8. InspectorQueueWaits'
    <3>1. \A i \in 1 .. Len(inspector_waiting') : i \in 1 .. Len(inspector_waiting) \/ i = Len(inspector_waiting) + 1
      BY <1>0, <2>3
    <3>2. \A i \in 1 .. Len(inspector_waiting) : inspector_waiting'[i] = inspector_waiting[i]
            /\ inspector_waiting[i] # j /\ inspector_job'[inspector_waiting[i]].pc = "waiting"
      BY <1>0, <1>2, <2>1, <2>3 DEF InspectorInv, InspectorQueueWaits
    <3>3. \A i \in 1 .. Len(inspector_waiting') : inspector_job'[inspector_waiting'[i]].pc = "waiting"
      BY <2>1, <2>3, <3>1, <3>2
    <3>4. \A i, k \in 1 .. Len(inspector_waiting) : i # k => inspector_waiting[i] # inspector_waiting[k]
      BY DEF InspectorInv, InspectorQueueWaits
    <3>5. ASSUME NEW i \in 1 .. Len(inspector_waiting'), NEW k \in 1 .. Len(inspector_waiting'), i # k
          PROVE  inspector_waiting'[i] # inspector_waiting'[k]
      BY <2>3, <3>1, <3>2, <3>4, <3>5
    <3> QED
      BY <3>3, <3>5 DEF InspectorQueueWaits
  <2>9. InspectorKnown'
    <3>1. \A k \in Caller : InspectorAtWork(k)' => inspector_job'[k].at \subseteq inspector_made
      BY <1>1, <2>2
    <3> QED
      BY <1>1, <1>5, <3>1 DEF InspectorKnown
  <2>10. InspectorAccounted'
    <3>1. ASSUME NEW d \in inspector_made
          PROVE  (\E i \in 1 .. Len(inspector_idle) : inspector_idle[i] = d) \/ \E k \in Caller : InspectorAtWork(k)'
                   /\ inspector_job'[k].at = {d}
      BY <2>2, <3>1 DEF InspectorInv, InspectorAccounted
    <3> QED
      BY <1>5, <3>1 DEF InspectorAccounted
  <2>11. \A d \in Instance : InspectorServes(d)'
    BY <1>0, <2>1, InspectorServesOn
  <2> QED
    BY <2>4, <2>5, <2>6, <2>7, <2>8, <2>9, <2>10, <2>11 DEF InspectorInv
<1>6. inspector_idle # <<>> => inspector_idle[Len(inspector_idle)] \in Instance
  BY <1>0, EmptySeq
<1> QED
  BY <1>3, <1>4, <1>5, <1>6 DEF I!Inspect

LEMMA InspectorReleaseStep == ASSUME InspectorInv, NEW j \in Caller, I!Release(j) PROVE InspectorInv'
<1>0. /\ inspector_job[j].pc = "ended" /\ InspectorAtWork(j)
      /\ UNCHANGED <<inspector_made, inspector_client, inspector_faults>>
      /\ I!TypeOK /\ inspector_job \in [Caller -> InspectorJobState] /\ inspector_idle \in Seq(Instance)
      /\ inspector_waiting \in Seq(Caller)
      /\ inspector_made \in SUBSET Instance /\ Len(inspector_idle) \in Nat /\ Len(inspector_waiting) \in Nat
      /\ \A i \in 1 .. Len(inspector_idle) : inspector_idle[i] \in Instance
      /\ \A i \in 1 .. Len(inspector_waiting) : inspector_waiting[i] \in Caller
  BY InspectorTypes DEF I!Release, InspectorAtWork, InspectorWork, InspectorInv
<1>1. PICK c \in Instance : inspector_job[j].at = {c} /\ I!At(j) = c
  BY <1>0, InspectorServedBy
<1>2. \A k \in Caller : InspectorAtWork(k) /\ k # j => inspector_job[k].at # {c}
  BY <1>0, <1>1 DEF InspectorInv, InspectorOneClient
<1> DEFINE closing == [inspector_job EXCEPT ![j].pc = "done"]
<1>3. /\ closing \in [Caller -> InspectorJobState] /\ \A k \in Caller : k # j => closing[k] = inspector_job[k]
      /\ closing[j].pc = "done" /\ closing[j].at = {c} /\ closing[j].report = inspector_job[j].report
  BY <1>0, <1>1 DEF InspectorJobState
<1>4. CASE inspector_waiting = <<>>
  <2>0. /\ inspector_job' = closing /\ inspector_idle' = Append(inspector_idle, c)
        /\ inspector_waiting' = inspector_waiting
    BY <1>1, <1>4 DEF I!Release
  <2> HIDE DEF closing
  <2>1. ~InspectorAtWork(j)' /\ \A k \in Caller : k # j => (InspectorAtWork(k)' <=> InspectorAtWork(k))
    BY <1>3, <2>0 DEF InspectorAtWork, InspectorWork
  <2>2. /\ inspector_idle' \in Seq(Instance) /\ Len(inspector_idle') = Len(inspector_idle) + 1
        /\ \A i \in 1 .. Len(inspector_idle) : inspector_idle'[i] = inspector_idle[i]
        /\ inspector_idle'[Len(inspector_idle) + 1] = c
    BY <1>0, <2>0, AppendProperties
  <2>3. \A i \in 1 .. Len(inspector_idle') : i \in 1 .. Len(inspector_idle) \/ i = Len(inspector_idle) + 1
    BY <1>0, <2>2
  <2>4. I!TypeOK'
    BY <1>0, <1>3, <2>0, <2>2 DEF I!TypeOK, InspectorJobState
  <2>5. InspectorOwn'
    BY <1>3, <2>0 DEF InspectorInv, InspectorOwn
  <2>6. InspectorOneClient'
    <3>1. \A k \in Caller : InspectorAtWork(k)' => \E d \in Instance : inspector_job'[k].at = {d}
      BY <1>3, <2>0, <2>1 DEF InspectorInv, InspectorOneClient
    <3>2. \A k, l \in Caller : InspectorAtWork(k)' /\ InspectorAtWork(l)' /\ k # l =>
            inspector_job'[k].at # inspector_job'[l].at
      BY <1>3, <2>0, <2>1 DEF InspectorInv, InspectorOneClient
    <3> QED
      BY <3>1, <3>2 DEF InspectorOneClient
  <2>7. InspectorStackIsFree'
    <3>1. \A i \in 1 .. Len(inspector_idle) : inspector_idle[i] # c
      BY <1>0, <1>1 DEF InspectorInv, InspectorStackIsFree
    <3>2. ASSUME NEW i \in 1 .. Len(inspector_idle'), NEW k \in Caller, InspectorAtWork(k)'
          PROVE  inspector_job'[k].at # {inspector_idle'[i]}
      <4>1. InspectorAtWork(k) /\ k # j /\ inspector_job'[k] = inspector_job[k]
        BY <1>3, <2>0, <2>1, <3>2
      <4>2. CASE i \in 1 .. Len(inspector_idle)
        BY <2>2, <4>1, <4>2 DEF InspectorInv, InspectorStackIsFree
      <4>3. CASE i = Len(inspector_idle) + 1
        BY <1>2, <2>2, <4>1, <4>3
      <4> QED
        BY <2>3, <4>2, <4>3
    <3>3. \A i, k \in 1 .. Len(inspector_idle) : i # k => inspector_idle[i] # inspector_idle[k]
      BY DEF InspectorInv, InspectorStackIsFree
    <3>4. ASSUME NEW i \in 1 .. Len(inspector_idle'), NEW k \in 1 .. Len(inspector_idle'), i # k
          PROVE  inspector_idle'[i] # inspector_idle'[k]
      BY <2>2, <2>3, <3>1, <3>3, <3>4
    <3> QED
      BY <3>2, <3>4 DEF InspectorStackIsFree
  <2>8. InspectorQueueWaits'
    BY <1>4, <2>0, EmptySeq DEF InspectorQueueWaits
  <2>9. InspectorKnown'
    <3>1. SUFFICES ASSUME NEW k \in Caller, inspector_job'[k].pc = "new"
                   PROVE  /\ \A l \in Caller : InspectorAtWork(l)' => inspector_job'[l].at \subseteq inspector_made'
                          /\ \A i \in 1 .. Len(inspector_idle') : inspector_idle'[i] \in inspector_made'
      BY DEF InspectorKnown
    <3>2. inspector_job[k].pc = "new"
      BY <1>3, <2>0, <3>1
    <3>3. /\ \A l \in Caller : InspectorAtWork(l) => inspector_job[l].at \subseteq inspector_made
          /\ \A i \in 1 .. Len(inspector_idle) : inspector_idle[i] \in inspector_made
      BY <3>2 DEF InspectorInv, InspectorKnown
    <3>4. c \in inspector_made
      BY <1>0, <1>1, <3>3
    <3>5. \A l \in Caller : InspectorAtWork(l)' => inspector_job'[l].at \subseteq inspector_made'
      BY <1>0, <1>3, <2>0, <2>1, <3>3
    <3>6. \A i \in 1 .. Len(inspector_idle') : inspector_idle'[i] \in inspector_made'
      BY <1>0, <2>2, <2>3, <3>3, <3>4
    <3> QED
      BY <3>5, <3>6
  <2>10. InspectorAccounted'
    <3>1. ASSUME NEW d \in inspector_made'
          PROVE  (\E i \in 1 .. Len(inspector_idle') : inspector_idle'[i] = d)
                   \/ \E k \in Caller : InspectorAtWork(k)' /\ inspector_job'[k].at = {d}
      <4>0. d \in inspector_made
        BY <1>0
      <4>1. CASE d = c
        <5>1. Len(inspector_idle) + 1 \in 1 .. Len(inspector_idle')
          BY <1>0, <2>2
        <5> QED
          BY <2>2, <4>1, <5>1
      <4>2. CASE \E i \in 1 .. Len(inspector_idle) : inspector_idle[i] = d
        <5>1. PICK i \in 1 .. Len(inspector_idle) : inspector_idle[i] = d
          BY <4>2
        <5>2. i \in 1 .. Len(inspector_idle')
          BY <1>0, <2>2
        <5> QED
          BY <2>2, <5>1, <5>2
      <4>3. CASE d # c /\ \E k \in Caller : InspectorAtWork(k) /\ inspector_job[k].at = {d}
        <5>1. PICK k \in Caller : InspectorAtWork(k) /\ inspector_job[k].at = {d}
          BY <4>3
        <5>2. k # j
          BY <1>1, <4>3, <5>1
        <5> QED
          BY <1>3, <2>0, <2>1, <5>1, <5>2
      <4> QED
        BY <4>0, <4>1, <4>2, <4>3 DEF InspectorInv, InspectorAccounted
    <3> QED
      BY <1>4, <2>0, <3>1 DEF InspectorAccounted
  <2>11. \A d \in Instance : InspectorServes(d)'
    <3>1. \A k \in Caller : inspector_job[k].pc = "running" => inspector_job'[k] = inspector_job[k]
      BY <1>0, <1>3, <2>0
    <3> QED
      BY <1>0, <3>1, InspectorServesOn
  <2> QED
    BY <2>4, <2>5, <2>6, <2>7, <2>8, <2>9, <2>10, <2>11 DEF InspectorInv
<1>5. CASE inspector_waiting # <<>>
  <2>0. /\ inspector_job' = [closing EXCEPT ![Head(inspector_waiting)].pc = "given",
             ![Head(inspector_waiting)].at = inspector_job[j].at]
        /\ inspector_waiting' = Tail(inspector_waiting) /\ inspector_idle' = inspector_idle
    BY <1>5 DEF I!Release
  <2>1. /\ Head(inspector_waiting) \in Caller /\ Head(inspector_waiting) = inspector_waiting[1]
        /\ 1 \in 1 .. Len(inspector_waiting)
        /\ inspector_waiting' \in Seq(Caller) /\ Len(inspector_waiting') = Len(inspector_waiting) - 1
        /\ \A i \in 1 .. Len(inspector_waiting') : inspector_waiting'[i] = inspector_waiting[i + 1]
    BY <1>0, <1>5, <2>0, EmptySeq, HeadTailProperties
  <2> PICK h \in Caller : h = Head(inspector_waiting)
    BY <2>1
  <2>2. inspector_job[h].pc = "waiting" /\ ~InspectorAtWork(h) /\ h # j
    BY <1>0, <2>1 DEF InspectorInv, InspectorQueueWaits, InspectorAtWork, InspectorWork
  <2>3. /\ inspector_job' \in [Caller -> InspectorJobState]
        /\ \A k \in Caller : k \notin {j, h} => inspector_job'[k] = inspector_job[k]
        /\ inspector_job'[j].pc = "done" /\ inspector_job'[j].at = {c}
        /\ inspector_job'[j].report = inspector_job[j].report
        /\ inspector_job'[h].pc = "given" /\ inspector_job'[h].at = {c}
        /\ inspector_job'[h].report = inspector_job[h].report
    <3> DEFINE q == [closing[h] EXCEPT !.pc = "given", !.at = inspector_job[j].at]
    <3>1. q \in InspectorJobState /\ q.pc = "given" /\ q.at = {c} /\ q.report = inspector_job[h].report
      <4> HIDE DEF closing
      <4> QED
        BY <1>0, <1>1, <1>3, <2>2 DEF InspectorJobState
    <3>2. inspector_job' = [closing EXCEPT ![h] = q]
      BY <2>0
    <3> HIDE DEF closing, q
    <3> QED
      BY <1>3, <2>2, <3>1, <3>2
  <2>4. /\ ~InspectorAtWork(j)' /\ InspectorAtWork(h)'
        /\ \A k \in Caller : k \notin {j, h} => (InspectorAtWork(k)' <=> InspectorAtWork(k))
    BY <2>3 DEF InspectorAtWork, InspectorWork
  <2>5. I!TypeOK'
    BY <1>0, <2>0, <2>1, <2>3 DEF I!TypeOK, InspectorJobState
  <2>6. InspectorOwn'
    BY <2>3 DEF InspectorInv, InspectorOwn
  <2>7. InspectorOneClient'
    <3>1. \A k \in Caller : InspectorAtWork(k)' => \E d \in Instance : inspector_job'[k].at = {d}
      BY <2>3, <2>4 DEF InspectorInv, InspectorOneClient
    <3>2. ASSUME NEW k \in Caller, NEW l \in Caller, InspectorAtWork(k)', InspectorAtWork(l)', k # l
          PROVE  inspector_job'[k].at # inspector_job'[l].at
      <4>1. k # j /\ l # j
        BY <2>4, <3>2
      <4>2. CASE k = h
        BY <1>2, <2>3, <2>4, <3>2, <4>1, <4>2
      <4>3. CASE l = h
        BY <1>2, <2>3, <2>4, <3>2, <4>1, <4>3
      <4>4. CASE k # h /\ l # h
        BY <2>3, <2>4, <3>2, <4>1, <4>4 DEF InspectorInv, InspectorOneClient
      <4> QED
        BY <4>2, <4>3, <4>4
    <3> QED
      BY <3>1, <3>2 DEF InspectorOneClient
  <2>8. inspector_idle = <<>> /\ inspector_made = Instance
    BY <1>5 DEF InspectorInv, InspectorAccounted
  <2>9. InspectorStackIsFree'
    BY <2>0, <2>8, EmptySeq DEF InspectorStackIsFree
  <2>10. InspectorQueueWaits'
    <3>1. \A i \in 1 .. Len(inspector_waiting') : i + 1 \in 1 .. Len(inspector_waiting) /\ i + 1 # 1
      BY <1>0, <2>1
    <3>2. \A i \in 1 .. Len(inspector_waiting') : inspector_waiting'[i] \in Caller
            /\ inspector_waiting'[i] \notin {j, h} /\ inspector_job[inspector_waiting'[i]].pc = "waiting"
      <4>1. SUFFICES ASSUME NEW i \in 1 .. Len(inspector_waiting')
                     PROVE  /\ inspector_waiting'[i] \in Caller /\ inspector_waiting'[i] \notin {j, h}
                            /\ inspector_job[inspector_waiting'[i]].pc = "waiting"
        OBVIOUS
      <4> PICK n \in 1 .. Len(inspector_waiting) : n = i + 1 /\ n # 1
        BY <3>1
      <4>2. inspector_waiting'[i] = inspector_waiting[n]
        BY <2>1
      <4>3. /\ inspector_waiting[n] \in Caller /\ inspector_waiting[n] # inspector_waiting[1]
            /\ inspector_job[inspector_waiting[n]].pc = "waiting"
        BY <1>0, <2>1 DEF InspectorInv, InspectorQueueWaits
      <4> QED
        BY <1>0, <2>1, <4>2, <4>3
    <3>3. \A i \in 1 .. Len(inspector_waiting') : inspector_job'[inspector_waiting'[i]].pc = "waiting"
      BY <2>3, <3>2
    <3>4. ASSUME NEW i \in 1 .. Len(inspector_waiting'), NEW k \in 1 .. Len(inspector_waiting'), i # k
          PROVE  inspector_waiting'[i] # inspector_waiting'[k]
      <4>1. i + 1 # k + 1
        BY <3>4
      <4> QED
        BY <2>1, <3>1, <4>1 DEF InspectorInv, InspectorQueueWaits
    <3> QED
      BY <3>3, <3>4 DEF InspectorQueueWaits
  <2>11. InspectorKnown'
    BY <1>0, <2>3, <2>0, <2>8, EmptySeq DEF InspectorKnown, InspectorJobState
  <2>12. InspectorAccounted'
    <3>1. ASSUME NEW d \in inspector_made' PROVE \E k \in Caller : InspectorAtWork(k)' /\ inspector_job'[k].at = {d}
      <4>1. PICK k \in Caller : InspectorAtWork(k) /\ inspector_job[k].at = {d}
        <5>1. d \in inspector_made /\ ~\E i \in 1 .. Len(inspector_idle) : inspector_idle[i] = d
          <6>1. Len(inspector_idle) = 0
            BY <2>8, EmptySeq
          <6> QED
            BY <1>0, <6>1
        <5> QED
          BY <5>1 DEF InspectorInv, InspectorAccounted
      <4>2. CASE k = j
        BY <1>1, <2>3, <2>4, <4>1, <4>2
      <4>3. CASE k # j
        BY <2>2, <2>3, <2>4, <4>1, <4>3
      <4> QED
        BY <4>2, <4>3
    <3> QED
      BY <1>0, <2>0, <2>8, <3>1 DEF InspectorAccounted
  <2>13. \A d \in Instance : InspectorServes(d)'
    <3>1. \A k \in Caller : inspector_job[k].pc = "running" => inspector_job'[k] = inspector_job[k]
      BY <1>0, <2>2, <2>3
    <3> QED
      BY <1>0, <3>1, InspectorServesOn
  <2> QED
    BY <2>5, <2>6, <2>7, <2>9, <2>10, <2>11, <2>12, <2>13 DEF InspectorInv
<1> QED
  BY <1>4, <1>5

LEMMA InspectorStopStep == ASSUME I!InspectorAssumption, InspectorInv, I!Stop PROVE InspectorInv'
<1>0. /\ inspector_job' = inspector_job /\ inspector_made' = {} /\ inspector_idle' = <<>>
      /\ inspector_waiting' = <<>> /\ inspector_client' = [c \in Instance |-> I!Fresh]
      /\ inspector_faults' \in 0 .. MaxInspectorFaults /\ \A j \in Caller : inspector_job[j].pc # "new"
  BY InspectorFaultTypes DEF I!Stop, InspectorInv
<1>1. I!TypeOK'
  BY <1>0, InspectorFreshTypes, EmptySeq DEF InspectorInv, I!TypeOK, InspectorClientState
<1>2. InspectorOwn' /\ InspectorOneClient'
  BY <1>0 DEF InspectorInv, InspectorOwn, InspectorOneClient, InspectorAtWork
<1>3. InspectorStackIsFree' /\ InspectorQueueWaits'
  BY <1>0, EmptySeq DEF InspectorStackIsFree, InspectorQueueWaits
<1>4. InspectorKnown' /\ InspectorAccounted'
  BY <1>0 DEF InspectorKnown, InspectorAccounted
<1>5. \A c \in Instance : InspectorServes(c)'
  BY <1>0, InspectorFreshTypes, EmptySeq DEF InspectorServes, InspectorListens
<1> QED
  BY <1>1, <1>2, <1>3, <1>4, <1>5 DEF InspectorInv

(* The jobs that clients wait for, the queue and the worker agree,         *)
(* whatever order answers, timeouts, exits and calls come in.              *)
THEOREM InspectorInvariant ==
    ASSUME I!InspectorAssumption
    PROVE  I!Spec => [](InspectorInv /\ I!ReportsAreOwn /\ I!NobodyWaitsIdly)
<1>1. I!Init => InspectorInv
  <2> SUFFICES ASSUME I!Init PROVE InspectorInv
    OBVIOUS
  <2>0. \A j \in Caller : inspector_job[j].pc = "new" /\ inspector_job[j].at = {} /\ inspector_job[j].report = {}
    BY DEF I!Init
  <2>1. inspector_job \in [Caller -> InspectorJobState]
    BY DEF I!Init, InspectorJobState
  <2>2. I!TypeOK
    BY <2>1, InspectorFreshTypes, EmptySeq DEF I!InspectorAssumption, I!Init, I!TypeOK, InspectorClientState,
        InspectorJobState
  <2>3. \A j \in Caller : ~InspectorAtWork(j)
    BY <2>0 DEF InspectorAtWork, InspectorWork
  <2>4. InspectorOwn /\ InspectorOneClient
    BY <2>0, <2>3 DEF InspectorOwn, InspectorOneClient
  <2>5. InspectorStackIsFree /\ InspectorQueueWaits
    BY EmptySeq DEF I!Init, InspectorStackIsFree, InspectorQueueWaits
  <2>6. InspectorKnown /\ InspectorAccounted
    BY <2>3, EmptySeq DEF I!Init, InspectorKnown, InspectorAccounted
  <2>7. \A c \in Instance : InspectorServes(c)
    BY InspectorFreshTypes, EmptySeq DEF I!Init, InspectorServes, InspectorListens
  <2> QED
    BY <2>2, <2>4, <2>5, <2>6, <2>7 DEF InspectorInv
<1>2. InspectorInv /\ [I!Next]_(I!vars) => InspectorInv'
  <2> SUFFICES ASSUME InspectorInv, [I!Next]_(I!vars) PROVE InspectorInv'
    OBVIOUS
  <2>1. CASE UNCHANGED I!vars
    <3>1. /\ inspector_faults' \in 0 .. MaxInspectorFaults /\ inspector_client' = inspector_client
          /\ inspector_job' = inspector_job
      BY <2>1, InspectorTypes DEF I!vars, InspectorInv
    <3>2. I!TypeOK'
      BY <2>1 DEF I!vars, InspectorInv, I!TypeOK
    <3>3. InspectorOwn' /\ InspectorOneClient'
      BY <3>1 DEF InspectorInv, InspectorOwn, InspectorOneClient, InspectorAtWork
    <3>4. InspectorStackIsFree' /\ InspectorQueueWaits'
      BY <2>1 DEF I!vars, InspectorInv, InspectorStackIsFree, InspectorQueueWaits, InspectorAtWork
    <3>5. InspectorKnown'
      BY <2>1 DEF I!vars, InspectorInv, InspectorKnown, InspectorAtWork
    <3>6. InspectorAccounted'
      BY <2>1 DEF I!vars, InspectorInv, InspectorAccounted, InspectorAtWork
    <3>7. \A c \in Instance : InspectorServes(c)'
      BY <3>1, InspectorServesOn
    <3> QED
      BY <3>2, <3>3, <3>4, <3>5, <3>6, <3>7 DEF InspectorInv
  <2>2. CASE I!Next
    BY <2>2, InspectorInspectStep, InspectorBeginStep, InspectorReadyStep, InspectorEndsStep,
        InspectorReleaseStep, InspectorArrivesStep, InspectorProcessStep, InspectorStopStep DEF I!Next
  <2> QED
    BY <2>1, <2>2
<1>3. InspectorInv => I!ReportsAreOwn
  BY DEF InspectorInv, InspectorOwn, InspectorOneClient, InspectorAtWork, InspectorWork, I!ReportsAreOwn
<1>4. InspectorInv => I!NobodyWaitsIdly
  <2>1. SUFFICES ASSUME InspectorInv, inspector_waiting # <<>>
                 PROVE  /\ inspector_made = Instance /\ inspector_idle = <<>>
                        /\ \A c \in Instance : \E j \in Caller :
                             /\ inspector_job[j].at = {c}
                             /\ inspector_job[j].pc \in {"given", "starting", "running", "ended"}
    BY DEF I!NobodyWaitsIdly
  <2>2. inspector_made = Instance /\ inspector_idle = <<>>
    BY <2>1 DEF InspectorInv, InspectorAccounted
  <2> QED
    BY <2>1, <2>2, EmptySeq DEF InspectorInv, InspectorAccounted, InspectorAtWork, InspectorWork
<1> QED
  BY <1>1, <1>2, <1>3, <1>4, PTL DEF I!Spec

-----------------------------------------------------------------------------
(* The HTTP client.                                                        *)
HttpTask == [pc : {"idle", "get", "parse", "post", "answered", "failed"}, tries : 0 .. Retries,
             cached : SUBSET H!Version, since : H!Version, got : H!Version]

(* What was asked is no newer than what is served, a body that came is at  *)
(* least as new, and a POST under way has had no effect.                   *)
HttpCurrent(r) == r.since <= http_server /\ (r.pc \in {"parse", "answered"} => r.got >= r.since)
HttpInv ==
    /\ H!TypeOK
    /\ \A r \in Instance : HttpCurrent(http_request[r]) /\ (http_request[r].pc = "post" => http_taken[r] = 0)
         /\ http_taken[r] <= 1

(* Of the operator as the instance sees it.                                *)
LEMMA HttpSizes == H!Cardinality({}) = 0 /\ \A x : H!Cardinality({x}) = 1
<1>1. \A X : H!Cardinality(X) = Cardinality(X)
  BY DEF H!Cardinality, Cardinality
<1> QED
  BY <1>1, FS_EmptySet, FS_Singleton

LEMMA HttpIdleTypes ==
    ASSUME H!HttpAssumption
    PROVE  H!Idle \in HttpTask /\ H!Idle.pc = "idle" /\ H!Idle.since = 0 /\ H!Idle.got = 0 /\ H!Idle.tries = 0
BY DEF H!Idle, HttpTask, H!Version, H!HttpAssumption

LEMMA HttpGoes ==
    ASSUME H!TypeOK, NEW p \in Instance, NEW r \in HttpTask, H!Put(p, r)
    PROVE  /\ http_request' \in [Instance -> HttpTask] /\ http_request'[p] = r
           /\ \A q \in Instance : q # p => http_request'[q] = http_request[q]
BY DEF H!TypeOK, H!Put, HttpTask

LEMMA HttpNow ==
    ASSUME HttpInv, NEW p \in Instance
    PROVE  /\ http_request[p] \in HttpTask /\ H!TypeOK /\ HttpCurrent(http_request[p]) /\ http_server \in H!Version
           /\ http_server \in Nat
           /\ http_cache \in SUBSET H!Version /\ H!Cardinality(http_cache) <= 1 /\ http_taken \in [Instance -> Nat]
           /\ http_request[p].since \in Nat /\ http_request[p].got \in H!Version /\ http_request[p].got \in Nat
           /\ http_request[p].cached \in SUBSET H!Version /\ (http_request[p].pc = "post" => http_taken[p] = 0)
           /\ http_taken[p] <= 1
BY DEF HttpInv, H!TypeOK, HttpTask, H!Version

LEMMA HttpRequestStep ==
    ASSUME HttpInv, NEW p \in Instance, NEW r \in HttpTask, H!Put(p, r), http_server' = http_server, HttpCurrent(r)',
           http_cache' \in SUBSET H!Version, H!Cardinality(http_cache') <= 1,
           NEW n \in {0, 1}, http_taken' = [http_taken EXCEPT ![p] = n], r.pc = "post" => n = 0
    PROVE  HttpInv'
<1>1. /\ http_request' \in [Instance -> HttpTask] /\ http_request'[p] = r
      /\ \A q \in Instance : q # p => http_request'[q] = http_request[q]
  BY HttpGoes DEF HttpInv
<1>2. /\ http_taken' \in [Instance -> Nat] /\ http_taken'[p] = n
      /\ \A q \in Instance : q # p => http_taken'[q] = http_taken[q]
  BY DEF HttpInv, H!TypeOK
<1>3. H!TypeOK'
  BY <1>1, <1>2 DEF HttpInv, H!TypeOK, HttpTask, H!Version
<1>4. ASSUME NEW q \in Instance
      PROVE  /\ HttpCurrent(http_request[q])' /\ (http_request'[q].pc = "post" => http_taken'[q] = 0)
             /\ http_taken'[q] <= 1
  <2>1. CASE q = p
    BY <1>1, <1>2, <2>1 DEF HttpCurrent
  <2>2. CASE q # p
    BY <1>1, <1>2, <2>2 DEF HttpInv, HttpCurrent
  <2> QED
    BY <2>1, <2>2
<1> QED
  BY <1>3, <1>4 DEF HttpInv

LEMMA HttpKeeps ==
  ASSUME HttpInv, NEW p \in Instance
  PROVE  http_taken[p] \in {0, 1} /\ http_taken = [http_taken EXCEPT ![p] = http_taken[p]]
BY DEF HttpInv, H!TypeOK

LEMMA HttpConditionalStep ==
    ASSUME H!HttpAssumption, HttpInv, NEW p \in Instance,
           H!Get(p) \/ H!NotModified(p) \/ H!Modified(p) \/ H!Parsed(p) \/ H!ParseFails(p) \/ H!Return(p)
    PROVE  HttpInv'
<1>0. /\ http_request[p] \in HttpTask /\ HttpCurrent(http_request[p]) /\ http_server \in H!Version
      /\ http_server \in Nat /\ http_server' = http_server
      /\ http_cache \in SUBSET H!Version /\ H!Cardinality(http_cache) <= 1 /\ http_request[p].got \in H!Version
      /\ http_request[p].cached \in SUBSET H!Version /\ http_taken' = http_taken
  BY HttpNow DEF H!Get, H!NotModified, H!Modified, H!Parsed, H!ParseFails, H!Return
<1>1. ASSUME NEW r \in HttpTask, H!Put(p, r), HttpCurrent(r), http_cache' \in SUBSET H!Version,
             H!Cardinality(http_cache') <= 1, r.pc # "post"
      PROVE  HttpInv'
  <2>1. HttpCurrent(r)'
    BY <1>0, <1>1 DEF HttpCurrent
  <2> PICK n \in {0, 1} : n = http_taken[p]
    BY HttpKeeps
  <2>2. http_taken' = [http_taken EXCEPT ![p] = n]
    BY <1>0, HttpKeeps
  <2> QED
    BY <1>0, <1>1, <2>1, <2>2, HttpRequestStep
<1>2. CASE H!Get(p)
  <2> DEFINE q == [H!Idle EXCEPT !.pc = "get", !.cached = http_cache, !.since = http_server]
  <2>1. q \in HttpTask /\ q.pc = "get" /\ q.since = http_server
    BY <1>0, HttpIdleTypes DEF HttpTask
  <2>2. H!Put(p, q) /\ http_cache' = http_cache
    BY <1>2 DEF H!Get
  <2> HIDE DEF q
  <2> QED
    BY <1>0, <1>1, <2>1, <2>2 DEF HttpCurrent
<1>3. ASSUME NEW l \in {"answered", "parse", "failed"}, NEW v \in H!Version,
             l \in {"answered", "parse"} => v >= http_request[p].since,
             H!Put(p, [http_request[p] EXCEPT !.pc = l, !.got = v]), http_cache' \in SUBSET H!Version,
             H!Cardinality(http_cache') <= 1
      PROVE  HttpInv'
  <2> DEFINE q == [http_request[p] EXCEPT !.pc = l, !.got = v]
  <2>1. q \in HttpTask /\ q.pc = l /\ q.since = http_request[p].since /\ q.got = v
    BY <1>0 DEF HttpTask
  <2>2. H!Put(p, q)
    BY <1>3
  <2> HIDE DEF q
  <2> QED
    BY <1>0, <1>1, <1>3, <2>1, <2>2 DEF HttpCurrent
<1>4. CASE H!NotModified(p)
  <2>1. PICK v \in http_request[p].cached : H!Put(p, [http_request[p] EXCEPT !.pc = "answered", !.got = v])
    BY <1>4 DEF H!NotModified, H!Answered
  <2>2. v = http_server /\ v \in H!Version /\ v >= http_request[p].since
    BY <1>0, <1>4 DEF H!NotModified, HttpCurrent
  <2> QED
    BY <1>0, <1>3, <1>4, <2>1, <2>2 DEF H!NotModified
<1>5. CASE H!Modified(p)
  <2>1. H!Put(p, [http_request[p] EXCEPT !.pc = "parse", !.got = http_server]) /\ http_cache' = http_cache
    BY <1>5 DEF H!Modified
  <2>2. http_server >= http_request[p].since
    BY <1>0 DEF HttpCurrent
  <2> QED
    BY <1>0, <1>3, <2>1, <2>2
<1>6. CASE H!Parsed(p)
  <2>1. /\ H!Put(p, [http_request[p] EXCEPT !.pc = "answered", !.got = http_request[p].got])
        /\ http_cache' \in {{}, {http_request[p].got}} /\ http_request[p].pc = "parse"
    BY <1>6 DEF H!Parsed, H!Answered, H!At
  <2>2. http_cache' \in SUBSET H!Version
    BY <1>0, <2>1
  <2>3. H!Cardinality({}) = 0 /\ H!Cardinality({http_request[p].got}) = 1
    BY HttpSizes
  <2>4. H!Cardinality(http_cache') <= 1
    BY <2>1, <2>3
  <2>5. http_request[p].got >= http_request[p].since
    BY <1>0, <2>1 DEF HttpCurrent
  <2> QED
    BY <1>0, <1>3, <2>1, <2>2, <2>4, <2>5
<1>7. CASE H!ParseFails(p)
  <2> DEFINE q == [http_request[p] EXCEPT !.pc = "failed"]
  <2>1. q \in HttpTask /\ q.pc = "failed" /\ q.since = http_request[p].since
    BY <1>0 DEF HttpTask
  <2>2. H!Put(p, q) /\ http_cache' = http_cache
    BY <1>7 DEF H!ParseFails
  <2> HIDE DEF q
  <2> QED
    BY <1>0, <1>1, <2>1, <2>2 DEF HttpCurrent
<1>8. CASE H!Return(p)
  <2>1. H!Put(p, H!Idle) /\ http_cache' = http_cache
    BY <1>8 DEF H!Return
  <2> QED
    BY <1>0, <1>1, <2>1, HttpIdleTypes DEF HttpCurrent
<1> QED
  BY <1>2, <1>4, <1>5, <1>6, <1>7, <1>8

LEMMA HttpPostStep ==
    ASSUME H!HttpAssumption, HttpInv, NEW p \in Instance, H!Post(p) \/ H!PostAnswered(p) \/ H!AttemptFails(p)
    PROVE  HttpInv'
<1>0. /\ http_request[p] \in HttpTask /\ HttpCurrent(http_request[p]) /\ http_server \in H!Version
      /\ http_server \in Nat /\ http_server' = http_server
      /\ http_cache' = http_cache /\ http_cache \in SUBSET H!Version /\ H!Cardinality(http_cache) <= 1
      /\ http_taken \in [Instance -> Nat]
      /\ (http_request[p].pc = "post" => http_taken[p] = 0) /\ http_request[p].since \in Nat
  BY HttpNow DEF H!Post, H!PostAnswered, H!AttemptFails
<1>1. CASE H!Post(p)
  <2> DEFINE q == [H!Idle EXCEPT !.pc = "post"]
  <2>1. q \in HttpTask /\ q.pc = "post" /\ q.since = 0
    BY HttpIdleTypes DEF HttpTask
  <2>2. H!Put(p, q) /\ http_taken' = [http_taken EXCEPT ![p] = 0]
    BY <1>1 DEF H!Post
  <2> HIDE DEF q
  <2>3. HttpCurrent(q)'
    BY <1>0, <2>1 DEF HttpCurrent
  <2> PICK r \in HttpTask : r = q
    BY <2>1
  <2> QED
    BY <1>0, <2>1, <2>2, <2>3, HttpRequestStep DEF HttpCurrent
<1>2. CASE H!PostAnswered(p)
  <2> DEFINE q == [http_request[p] EXCEPT !.pc = "answered", !.got = http_server]
  <2>1. q \in HttpTask /\ q.pc = "answered" /\ q.since = http_request[p].since /\ q.got = http_server
    BY <1>0 DEF HttpTask
  <2>2. H!Put(p, q)
    BY <1>2 DEF H!PostAnswered, H!Answered
  <2>3. http_taken' = [http_taken EXCEPT ![p] = 1]
    BY <1>0, <1>2 DEF H!PostAnswered, H!Take, H!At
  <2> HIDE DEF q
  <2> PICK r \in HttpTask : r = q
    BY <2>1
  <2> QED
    BY <1>0, <2>1, <2>2, <2>3, HttpRequestStep DEF HttpCurrent
<1>3. CASE H!AttemptFails(p)
  <2>1. PICK failure \in H!Failure :
          /\ IF failure = "noAnswer" /\ http_request[p].pc = "post"
             THEN H!Take(p) \/ UNCHANGED http_taken
             ELSE UNCHANGED http_taken
          /\ H!Put(p, IF H!ShouldRetry(failure, http_request[p].pc = "get") /\ http_request[p].tries < Retries
                      THEN [http_request[p] EXCEPT !.tries = @ + 1, !.since = http_server]
                      ELSE [http_request[p] EXCEPT !.pc = "failed"])
          /\ http_request[p].pc \in {"get", "post"}
    BY <1>3 DEF H!AttemptFails, H!At
  <2> DEFINE again == [http_request[p] EXCEPT !.tries = @ + 1, !.since = http_server]
             over == [http_request[p] EXCEPT !.pc = "failed"]
  <2>2. http_request[p].tries < Retries =>
          again \in HttpTask /\ again.pc = http_request[p].pc /\ again.since = http_server
    <3>1. SUFFICES ASSUME http_request[p].tries < Retries
                   PROVE  again \in HttpTask /\ again.pc = http_request[p].pc /\ again.since = http_server
      OBVIOUS
    <3>2. http_request[p].tries \in 0 .. Retries
      BY <1>0 DEF HttpTask
    <3>3. http_request[p].tries + 1 \in 0 .. Retries
      BY <3>1, <3>2 DEF H!HttpAssumption
    <3> QED
      BY <1>0, <3>3 DEF HttpTask
  <2>3. over \in HttpTask /\ over.pc = "failed" /\ over.since = http_request[p].since
    BY <1>0 DEF HttpTask
  <2>4. http_taken' = [http_taken EXCEPT ![p] = http_taken[p]]
          \/ (http_request[p].pc = "post" /\ http_taken' = [http_taken EXCEPT ![p] = 1])
    BY <1>0, <2>1, HttpKeeps DEF H!Take
  <2>5. ASSUME NEW r \in HttpTask, H!Put(p, r), HttpCurrent(r),
               r.pc = "post" => http_taken' = http_taken /\ http_request[p].pc = "post"
        PROVE  HttpInv'
    <3>1. HttpCurrent(r)'
      BY <1>0, <2>5 DEF HttpCurrent
    <3>2. PICK n \in {0, 1} : http_taken' = [http_taken EXCEPT ![p] = n]
      BY <2>4, HttpKeeps
    <3>3. http_taken'[p] = n
      BY <1>0, <3>2
    <3> QED
      BY <1>0, <2>5, <3>1, <3>2, <3>3, HttpRequestStep
  <2> HIDE DEF again, over
  <2>6. CASE H!ShouldRetry(failure, http_request[p].pc = "get") /\ http_request[p].tries < Retries
    <3>1. H!Put(p, again)
      BY <2>1, <2>6 DEF again
    <3>2. failure = "noAnswer" => http_request[p].pc = "get"
      BY <2>6 DEF H!ShouldRetry
    <3>3. http_taken' = http_taken
      BY <2>1, <3>2
    <3> QED
      BY <1>0, <2>1, <2>2, <2>5, <2>6, <3>1, <3>3 DEF HttpCurrent
  <2>7. CASE ~(H!ShouldRetry(failure, http_request[p].pc = "get") /\ http_request[p].tries < Retries)
    <3>1. H!Put(p, over)
      BY <2>1, <2>7 DEF over
    <3> QED
      BY <1>0, <2>3, <2>5, <3>1 DEF HttpCurrent
  <2> QED
    BY <2>6, <2>7
<1> QED
  BY <1>1, <1>2, <1>3

LEMMA HttpWorldStep == ASSUME H!HttpAssumption, HttpInv, H!Evict \/ H!Publish PROVE HttpInv'
<1>1. http_request' = http_request /\ http_taken' = http_taken
  BY DEF H!Evict, H!Publish
<1>2. http_server \in Nat /\ http_server' >= http_server /\ http_server' \in H!Version
  BY DEF H!Evict, H!Publish, HttpInv, H!TypeOK, H!Version, H!HttpAssumption
<1>3. http_cache' \subseteq H!Version /\ H!Cardinality(http_cache') <= 1
  <2>1. H!Cardinality({}) = 0
    BY HttpSizes
  <2>2. http_cache' = http_cache \/ http_cache' = {}
    BY DEF H!Evict, H!Publish
  <2>3. http_cache \subseteq H!Version /\ H!Cardinality(http_cache) <= 1
    BY DEF HttpInv, H!TypeOK
  <2>4. CASE http_cache' = http_cache
    BY <2>3, <2>4
  <2>5. CASE http_cache' = {}
    BY <2>1, <2>5
  <2> QED
    BY <2>2, <2>4, <2>5
<1>4. H!TypeOK'
  BY <1>1, <1>2, <1>3 DEF HttpInv, H!TypeOK, H!Version
<1>5. \A r \in Instance : http_request[r].since \in Nat
  BY DEF HttpInv, H!TypeOK, H!Version
<1>6. \A r \in Instance : HttpCurrent(http_request[r])'
  <2>1. SUFFICES ASSUME NEW r \in Instance PROVE HttpCurrent(http_request[r])'
    OBVIOUS
  <2>2. HttpCurrent(http_request[r]) /\ http_request[r].since \in Nat
    BY <1>5 DEF HttpInv
  <2>3. http_server' \in Nat
    BY <1>2 DEF H!Version
  <2>4. http_request[r].since <= http_server
    BY <2>2 DEF HttpCurrent
  <2>5. http_request[r].since <= http_server'
    BY <1>2, <2>2, <2>3, <2>4
  <2> QED
    BY <1>1, <2>2, <2>5 DEF HttpCurrent
<1> QED
  BY <1>1, <1>4, <1>6 DEF HttpInv

(* What a caller gets is what the source served at its request or later,   *)
(* from the source or from the cache it confirmed, and a POST is taken at  *)
(* most once.                                                              *)
THEOREM HttpInvariant == ASSUME H!HttpAssumption PROVE H!Spec => [](HttpInv /\ H!AnswersAreCurrent)
<1>1. H!Init => HttpInv
  <2> SUFFICES ASSUME H!Init PROVE HttpInv
    OBVIOUS
  <2>1. H!TypeOK
    BY HttpIdleTypes, HttpSizes DEF H!HttpAssumption, H!Init, H!TypeOK, HttpTask, H!Version
  <2> QED
    BY <2>1, HttpIdleTypes DEF H!Init, HttpInv, HttpCurrent
<1>2. HttpInv /\ [H!Next]_(H!vars) => HttpInv'
  <2> SUFFICES ASSUME HttpInv, [H!Next]_(H!vars) PROVE HttpInv'
    OBVIOUS
  <2>1. CASE UNCHANGED H!vars
    BY <2>1 DEF H!vars, HttpInv, H!TypeOK, HttpCurrent
  <2>2. CASE H!Next
    BY <2>2, HttpConditionalStep, HttpPostStep, HttpWorldStep DEF H!Next
  <2> QED
    BY <2>1, <2>2
<1>3. HttpInv => H!AnswersAreCurrent
  BY DEF HttpInv, H!AnswersAreCurrent, HttpCurrent, H!At
<1> QED
  BY <1>1, <1>2, <1>3, PTL DEF H!Spec

-----------------------------------------------------------------------------
(* The circuit breaker.  While no fetches overlap and no write is lost,    *)
(* there is one fetch under way at most, and the document, the row of      *)
(* failures and what was told agree beside it.                             *)
BreakerState == [fails : 0 .. Threshold, until : {"none", "open", "over"}, alert : BOOLEAN,
                 drifts : 0 .. Threshold, driftAlert : BOOLEAN]
BreakerTask == [pc : {"idle", "read", "call", "good", "bad", "open", "mark", "claim", "send"},
                src : 1 .. Sources, drift : BOOLEAN, seen : BOOLEAN]

(* What holds beside the only fetch under way, r, or when there is none.   *)
BreakerSound(r) ==
    /\ r.pc \in {"call", "good"} => breaker_breaker.until # "open" /\ (r.seen <=> breaker_breaker # B!Closed)
    /\ r.pc = "bad" => B!Up(breaker_breaker.fails) <= breaker_row /\ B!Up(breaker_breaker.drifts) <= breaker_row
    /\ r.pc \in {"open", "mark", "claim", "send"} => breaker_row >= Threshold
    /\ r.pc = "open" /\ r.seen => breaker_told
    /\ r.pc # "good" => breaker_breaker.fails <= breaker_row /\ breaker_breaker.drifts <= breaker_row
    /\ breaker_breaker.until = "open" => breaker_row >= Threshold
         /\ (breaker_told \/ r.pc \in {"mark", "claim", "send"})
    /\ breaker_breaker.alert \/ breaker_breaker.driftAlert => breaker_told \/ r.pc \in {"claim", "send", "good"}
    /\ breaker_quiet # {} => breaker_told \/ r.pc = "send"

BreakerOneFetch == \A f, g \in Instance : breaker_fetch[f].pc # "idle" /\ breaker_fetch[g].pc # "idle" => f = g
BreakerClean == ~breaker_overlapped /\ ~breaker_lost
BreakerInv ==
    /\ B!TypeOK /\ IsFiniteSet(breaker_shared)
    /\ BreakerClean =>
        /\ BreakerOneFetch
        /\ \A f \in Instance : breaker_fetch[f].pc # "idle" => BreakerSound(breaker_fetch[f])
        /\ (\A f \in Instance : breaker_fetch[f].pc = "idle") => BreakerSound(B!Idle)

(* The library's facts, of the operator as the instance sees it.           *)
LEMMA BreakerCardinality == ASSUME NEW X PROVE B!Cardinality(X) = Cardinality(X)
BY DEF B!Cardinality, Cardinality

LEMMA BreakerEmptySet == IsFiniteSet({}) /\ B!Cardinality({}) = 0
BY FS_EmptySet, BreakerCardinality

LEMMA BreakerCardinalityType == ASSUME NEW X, IsFiniteSet(X) PROVE B!Cardinality(X) \in Nat
BY FS_CardinalityType, BreakerCardinality

LEMMA BreakerSubset ==
    ASSUME NEW X, NEW Y \in SUBSET X, IsFiniteSet(X)
    PROVE  IsFiniteSet(Y) /\ B!Cardinality(Y) <= B!Cardinality(X)
BY FS_Subset, BreakerCardinality

LEMMA BreakerAddElement ==
    ASSUME NEW X, NEW x, IsFiniteSet(X)
    PROVE  /\ IsFiniteSet(X \cup {x})
           /\ B!Cardinality(X \cup {x}) = B!Cardinality(X) \/ B!Cardinality(X \cup {x}) = B!Cardinality(X) + 1
BY FS_AddElement, BreakerCardinality

LEMMA BreakerIdleTypes == ASSUME B!BreakerAssumption PROVE B!Idle \in BreakerTask /\ B!Idle.pc = "idle"
BY DEF B!Idle, BreakerTask, B!BreakerAssumption

LEMMA BreakerFaultTypes == ASSUME B!BreakerAssumption, B!TypeOK, B!Fault PROVE breaker_faults' \in 0 .. MaxFaults
BY DEF B!TypeOK, B!Fault, B!BreakerAssumption

LEMMA BreakerTypes ==
    ASSUME B!BreakerAssumption, B!TypeOK
    PROVE  /\ breaker_breaker \in BreakerState /\ breaker_quiet \in SUBSET BOOLEAN /\ breaker_told \in BOOLEAN
           /\ breaker_overlapped \in BOOLEAN
           /\ breaker_lost \in BOOLEAN /\ breaker_shared \in SUBSET Instance
           /\ B!Cardinality(breaker_shared) <= Contexts
           /\ breaker_fetch \in [Instance -> BreakerTask] /\ breaker_row \in 0 .. Threshold /\ breaker_row \in Nat
           /\ breaker_faults \in 0 .. MaxFaults
           /\ Threshold \in Nat /\ Threshold >= 1
           /\ breaker_breaker.fails \in Nat /\ breaker_breaker.drifts \in Nat
           /\ breaker_breaker.fails <= Threshold /\ breaker_breaker.drifts <= Threshold
<1>1. Threshold \in Nat /\ Threshold >= 1
  BY DEF B!BreakerAssumption
<1>2. breaker_breaker \in BreakerState /\ breaker_fetch \in [Instance -> BreakerTask]
  BY DEF B!TypeOK, BreakerState, BreakerTask
<1>3. breaker_breaker.fails \in 0 .. Threshold /\ breaker_breaker.drifts \in 0 .. Threshold
  BY <1>2 DEF BreakerState
<1>4. breaker_row \in Nat
  BY <1>1 DEF B!TypeOK
<1>5. /\ breaker_breaker.fails \in Nat /\ breaker_breaker.drifts \in Nat
      /\ breaker_breaker.fails <= Threshold /\ breaker_breaker.drifts <= Threshold
  BY <1>1, <1>3
<1> QED
  BY <1>1, <1>2, <1>4, <1>5 DEF B!TypeOK

LEMMA BreakerUpTypes ==
    ASSUME B!BreakerAssumption, NEW n \in 0 .. Threshold
    PROVE  B!Up(n) \in 0 .. Threshold /\ B!Up(n) >= n /\ \A m \in 0 .. Threshold : n <= m => B!Up(n) <= B!Up(m)
<1>1. Threshold \in Nat
  BY DEF B!BreakerAssumption
<1> QED
  BY <1>1 DEF B!Up

LEMMA BreakerNothingRuns == ASSUME NEW r, r.pc = "idle", BreakerSound(r) PROVE BreakerSound(B!Idle)
BY DEF BreakerSound, B!Idle

(* Who settles leaves the map. *)
LEMMA BreakerLeavesMap ==
    ASSUME B!BreakerAssumption, B!TypeOK, IsFiniteSet(breaker_shared), NEW f \in Instance,
           UNCHANGED breaker_shared \/ B!Settled(f)
    PROVE  /\ breaker_shared' \in SUBSET Instance /\ IsFiniteSet(breaker_shared')
           /\ B!Cardinality(breaker_shared') <= Contexts
<1>1. B!Cardinality(breaker_shared) \in Nat /\ Contexts \in Nat /\ B!Cardinality(breaker_shared) <= Contexts
  BY BreakerCardinalityType DEF B!TypeOK, B!BreakerAssumption
<1>2. CASE UNCHANGED breaker_shared
  BY <1>1, <1>2 DEF B!TypeOK
<1>3. CASE B!Settled(f)
  <2>1. IsFiniteSet(breaker_shared \ {f}) /\ B!Cardinality(breaker_shared \ {f}) <= B!Cardinality(breaker_shared)
    BY BreakerSubset
  <2>2. B!Cardinality(breaker_shared \ {f}) \in Nat
    BY <2>1, BreakerCardinalityType
  <2> QED
    BY <1>1, <1>3, <2>1, <2>2 DEF B!TypeOK, B!Settled
<1> QED
  BY <1>2, <1>3

LEMMA BreakerFetchStep ==
    ASSUME B!BreakerAssumption, BreakerInv, NEW f \in Instance, breaker_fetch[f].pc # "idle", NEW r \in BreakerTask,
           B!Put(f, r),
           UNCHANGED breaker_shared \/ B!Settled(f), breaker_breaker' \in BreakerState,
           breaker_quiet' \in SUBSET BOOLEAN, breaker_told' \in BOOLEAN,
           breaker_lost' \in BOOLEAN, breaker_overlapped' = breaker_overlapped, breaker_row' \in 0 .. Threshold,
           breaker_faults' \in 0 .. MaxFaults,
           ~breaker_lost' => ~breaker_lost,
           ~breaker_overlapped /\ ~breaker_lost /\ ~breaker_lost'
             /\ BreakerSound(breaker_fetch[f]) => BreakerSound(r)'
    PROVE  BreakerInv'
<1>0. B!TypeOK /\ IsFiniteSet(breaker_shared)
  BY DEF BreakerInv
<1>1. /\ breaker_fetch' \in [Instance -> BreakerTask] /\ breaker_fetch'[f] = r
      /\ \A g \in Instance : g # f => breaker_fetch'[g] = breaker_fetch[g]
  BY <1>0, BreakerTypes DEF B!Put
<1>2. /\ breaker_shared' \in SUBSET Instance /\ IsFiniteSet(breaker_shared')
      /\ B!Cardinality(breaker_shared') <= Contexts
  BY <1>0, BreakerLeavesMap
<1>3. B!TypeOK'
  BY <1>0, <1>1, <1>2, BreakerTypes DEF B!TypeOK, BreakerState, BreakerTask
<1>4. ASSUME BreakerClean'
      PROVE  /\ BreakerOneFetch'
             /\ \A g \in Instance : breaker_fetch'[g].pc # "idle" => BreakerSound(breaker_fetch[g])'
             /\ (\A g \in Instance : breaker_fetch'[g].pc = "idle") => BreakerSound(B!Idle)'
  <2>1. BreakerClean /\ BreakerOneFetch /\ BreakerSound(breaker_fetch[f])
    BY <1>4 DEF BreakerInv, BreakerClean
  <2>2. \A g \in Instance : g # f => breaker_fetch'[g].pc = "idle"
    BY <1>1, <2>1 DEF BreakerOneFetch
  <2>3. BreakerSound(r)'
    BY <1>4, <2>1 DEF BreakerClean
  <2>4. BreakerOneFetch'
    BY <2>2 DEF BreakerOneFetch
  <2>5. \A g \in Instance : breaker_fetch'[g].pc # "idle" => BreakerSound(breaker_fetch[g])'
    BY <1>1, <2>2, <2>3 DEF BreakerSound
  <2>6. (\A g \in Instance : breaker_fetch'[g].pc = "idle") => BreakerSound(B!Idle)'
    BY <1>1, <2>3 DEF BreakerSound, B!Idle
  <2> QED
    BY <2>4, <2>5, <2>6
<1> QED
  BY <1>2, <1>3, <1>4 DEF BreakerInv

LEMMA BreakerNow ==
    ASSUME B!BreakerAssumption, BreakerInv, NEW f \in Instance
    PROVE  /\ B!TypeOK /\ breaker_fetch[f] \in BreakerTask /\ breaker_breaker \in BreakerState
           /\ breaker_quiet \in SUBSET BOOLEAN /\ breaker_told \in BOOLEAN
           /\ breaker_overlapped \in BOOLEAN /\ breaker_lost \in BOOLEAN /\ breaker_row \in 0 .. Threshold
           /\ breaker_row \in Nat
           /\ breaker_faults \in 0 .. MaxFaults
           /\ Threshold \in Nat /\ Threshold >= 1 /\ breaker_fetch[f].src \in 1 .. Sources
           /\ breaker_fetch[f].drift \in BOOLEAN
BY BreakerTypes DEF BreakerInv, BreakerTask

LEMMA BreakerReadStep ==
    ASSUME B!BreakerAssumption, BreakerInv, NEW f \in Instance, B!ReadBreaker(f) PROVE BreakerInv'
<1>0. /\ breaker_fetch[f] \in BreakerTask /\ breaker_fetch[f].pc = "read" /\ breaker_faults' \in 0 .. MaxFaults
      /\ UNCHANGED <<breaker_breaker, breaker_quiet, breaker_row, breaker_told, breaker_overlapped, breaker_lost>>
      /\ breaker_breaker \in BreakerState /\ breaker_quiet \in SUBSET BOOLEAN /\ breaker_told \in BOOLEAN
      /\ breaker_lost \in BOOLEAN
      /\ breaker_row \in 0 .. Threshold
  BY BreakerNow, BreakerFaultTypes DEF B!ReadBreaker, B!At
<1>1. CASE B!End(f)
  <2>1. BreakerSound(breaker_fetch[f]) => BreakerSound(B!Idle)'
    BY <1>0, BreakerIdleTypes DEF BreakerSound
  <2> QED
    BY <1>0, <1>1, <2>1, BreakerIdleTypes, BreakerFetchStep DEF B!End
<1>2. CASE /\ breaker_breaker.until # "open" /\ UNCHANGED breaker_shared
           /\ B!Put(f, [breaker_fetch[f] EXCEPT !.pc = "call", !.seen = (breaker_breaker # B!Closed)])
  <2> DEFINE q == [breaker_fetch[f] EXCEPT !.pc = "call", !.seen = (breaker_breaker # B!Closed)]
  <2>1. q \in BreakerTask /\ q.pc = "call" /\ (q.seen <=> breaker_breaker # B!Closed)
    BY <1>0 DEF BreakerTask
  <2>2. B!Put(f, q)
    BY <1>2
  <2> HIDE DEF q
  <2> PICK r \in BreakerTask : r = q
    BY <2>1
  <2>3. BreakerSound(breaker_fetch[f]) => BreakerSound(r)'
    BY <1>0, <1>2, <2>1 DEF BreakerSound
  <2> QED
    BY <1>0, <1>2, <2>1, <2>2, <2>3, BreakerFetchStep
<1> QED
  BY <1>1, <1>2 DEF B!ReadBreaker

LEMMA BreakerSourceStep ==
    ASSUME B!BreakerAssumption, BreakerInv, NEW f \in Instance, B!SourceAnswers(f) \/ B!SourceFails(f)
    PROVE  BreakerInv'
<1>0. /\ breaker_fetch[f] \in BreakerTask /\ breaker_fetch[f].pc = "call" /\ breaker_faults' \in 0 .. MaxFaults
      /\ UNCHANGED <<breaker_breaker, breaker_quiet, breaker_shared, breaker_overlapped, breaker_lost,
           breaker_faults>>
      /\ breaker_breaker \in BreakerState /\ breaker_quiet \in SUBSET BOOLEAN /\ breaker_told \in BOOLEAN
      /\ breaker_lost \in BOOLEAN
      /\ breaker_row \in 0 .. Threshold /\ Threshold \in Nat /\ breaker_fetch[f].src \in 1 .. Sources
      /\ breaker_fetch[f].drift \in BOOLEAN /\ breaker_row \in Nat
  BY BreakerNow DEF B!SourceAnswers, B!SourceFails, B!At
<1>1. CASE B!SourceAnswers(f)
  <2> DEFINE q == [breaker_fetch[f] EXCEPT !.pc = "good"]
  <2>1. q \in BreakerTask /\ q.pc = "good" /\ q.seen = breaker_fetch[f].seen
    BY <1>0 DEF BreakerTask
  <2>2. B!Put(f, q) /\ breaker_row' = 0 /\ breaker_told' = (breaker_quiet # {})
    BY <1>1 DEF B!SourceAnswers, B!Move
  <2> HIDE DEF q
  <2> PICK r \in BreakerTask : r = q
    BY <2>1
  <2>3. BreakerSound(breaker_fetch[f]) => BreakerSound(r)'
    BY <1>0, <2>1, <2>2 DEF BreakerSound
  <2> QED
    BY <1>0, <2>1, <2>2, <2>3, BreakerFetchStep
<1>2. CASE B!SourceFails(f)
  <2>1. PICK drift \in BOOLEAN :
          \/ breaker_fetch[f].src < Sources /\ B!Put(f, [breaker_fetch[f] EXCEPT !.src = @ + 1, !.drift = drift])
               /\ UNCHANGED breaker_row
          \/ B!Put(f, [breaker_fetch[f] EXCEPT !.pc = "bad", !.drift = drift]) /\ breaker_row' = B!Up(breaker_row)
    BY <1>0, <1>2 DEF B!SourceFails
  <2>2. breaker_told' = breaker_told
    BY <1>2 DEF B!SourceFails
  <2>3. CASE breaker_fetch[f].src < Sources /\ B!Put(f, [breaker_fetch[f] EXCEPT !.src = @ + 1, !.drift = drift])
               /\ UNCHANGED breaker_row
    <3> DEFINE q == [breaker_fetch[f] EXCEPT !.src = @ + 1, !.drift = drift]
    <3>1. breaker_fetch[f].src + 1 \in 1 .. Sources
      BY <1>0, <2>3 DEF B!BreakerAssumption
    <3>2. q \in BreakerTask /\ q.pc = "call" /\ q.seen = breaker_fetch[f].seen
      BY <1>0, <3>1 DEF BreakerTask
    <3>3. B!Put(f, q)
      BY <2>3
    <3> HIDE DEF q
    <3> PICK r \in BreakerTask : r = q
      BY <3>2
    <3>4. BreakerSound(breaker_fetch[f]) => BreakerSound(r)'
      BY <1>0, <2>2, <2>3, <3>2 DEF BreakerSound
    <3> QED
      BY <1>0, <2>2, <2>3, <3>2, <3>3, <3>4, BreakerFetchStep
  <2>4. CASE B!Put(f, [breaker_fetch[f] EXCEPT !.pc = "bad", !.drift = drift]) /\ breaker_row' = B!Up(breaker_row)
    <3> DEFINE q == [breaker_fetch[f] EXCEPT !.pc = "bad", !.drift = drift]
    <3>1. q \in BreakerTask /\ q.pc = "bad" /\ q.seen = breaker_fetch[f].seen
      BY <1>0 DEF BreakerTask
    <3>2. B!Put(f, q)
      BY <2>4
    <3>3. breaker_row' \in 0 .. Threshold /\ breaker_row' >= breaker_row
      BY <1>0, <2>4, BreakerUpTypes
    <3>4. breaker_breaker.fails \in 0 .. Threshold /\ breaker_breaker.drifts \in 0 .. Threshold
      BY <1>0 DEF BreakerState
    <3>5. /\ breaker_breaker.fails <= breaker_row => B!Up(breaker_breaker.fails) <= breaker_row'
               /\ breaker_breaker.fails <= breaker_row'
          /\ breaker_breaker.drifts <= breaker_row => B!Up(breaker_breaker.drifts) <= breaker_row'
               /\ breaker_breaker.drifts <= breaker_row'
      <4>1. /\ breaker_breaker.fails <= breaker_row => B!Up(breaker_breaker.fails) <= B!Up(breaker_row)
            /\ breaker_breaker.drifts <= breaker_row => B!Up(breaker_breaker.drifts) <= B!Up(breaker_row)
        BY <1>0, <3>4, BreakerUpTypes
      <4>2. breaker_row' \in Nat /\ breaker_breaker.fails \in Nat /\ breaker_breaker.drifts \in Nat
        BY <1>0, <3>3, <3>4
      <4> QED
        BY <1>0, <2>4, <3>3, <4>1, <4>2
    <3> HIDE DEF q
    <3> PICK r \in BreakerTask : r = q
      BY <3>1
    <3>6. BreakerSound(breaker_fetch[f]) => BreakerSound(r)'
      <4>1. SUFFICES ASSUME BreakerSound(breaker_fetch[f]) PROVE BreakerSound(r)'
        OBVIOUS
      <4>2. /\ breaker_breaker.until # "open" /\ breaker_breaker.fails <= breaker_row
            /\ breaker_breaker.drifts <= breaker_row
            /\ (breaker_breaker.alert \/ breaker_breaker.driftAlert => breaker_told)
            /\ (breaker_quiet # {} => breaker_told)
        BY <1>0, <4>1 DEF BreakerSound
      <4> QED
        BY <1>0, <2>2, <3>1, <3>5, <4>2 DEF BreakerSound
    <3> QED
      BY <1>0, <2>2, <3>1, <3>2, <3>3, <3>6, BreakerFetchStep
  <2> QED
    BY <2>1, <2>3, <2>4
<1> QED
  BY <1>1, <1>2

LEMMA BreakerClosedTypes ==
    ASSUME B!BreakerAssumption
    PROVE  /\ B!Closed \in BreakerState /\ B!Closed.fails = 0 /\ B!Closed.drifts = 0 /\ B!Closed.until = "none"
           /\ B!Closed.alert = FALSE /\ B!Closed.driftAlert = FALSE
BY DEF B!Closed, BreakerState, B!BreakerAssumption

LEMMA BreakerGoodStep == ASSUME B!BreakerAssumption, BreakerInv, NEW f \in Instance, B!Good(f) PROVE BreakerInv'
<1>0. /\ breaker_fetch[f] \in BreakerTask /\ breaker_fetch[f].pc = "good" /\ breaker_faults' \in 0 .. MaxFaults
      /\ B!TypeOK
      /\ UNCHANGED <<breaker_quiet, breaker_row, breaker_told, breaker_overlapped>>
      /\ breaker_fetch[f].seen \in BOOLEAN
      /\ breaker_breaker \in BreakerState /\ breaker_quiet \in SUBSET BOOLEAN /\ breaker_told \in BOOLEAN
      /\ breaker_lost \in BOOLEAN
      /\ breaker_row \in 0 .. Threshold /\ breaker_row \in Nat
  BY BreakerNow, BreakerFaultTypes DEF B!Good, B!At, BreakerTask
<1>1. CASE breaker_breaker' = B!Reset(f) /\ B!End(f) /\ UNCHANGED <<breaker_lost, breaker_faults>>
  <2>1. breaker_breaker' \in BreakerState
    BY <1>0, <1>1, BreakerClosedTypes DEF B!Reset
  <2>2. BreakerSound(breaker_fetch[f]) => BreakerSound(B!Idle)'
    <3>1. SUFFICES ASSUME BreakerSound(breaker_fetch[f]) PROVE BreakerSound(B!Idle)'
      OBVIOUS
    <3>2. breaker_fetch[f].seen <=> breaker_breaker # B!Closed
      BY <1>0, <3>1 DEF BreakerSound
    <3>3. breaker_breaker' = B!Closed
      BY <1>1, <3>2 DEF B!Reset
    <3>4. /\ breaker_breaker'.fails = 0 /\ breaker_breaker'.drifts = 0 /\ breaker_breaker'.until = "none"
          /\ ~breaker_breaker'.alert /\ ~breaker_breaker'.driftAlert
      BY <3>3, BreakerClosedTypes
    <3>5. breaker_quiet # {} => breaker_told
      BY <1>0, <3>1 DEF BreakerSound
    <3>6. B!Idle.pc = "idle"
      BY BreakerIdleTypes
    <3> QED
      BY <1>0, <3>4, <3>5, <3>6 DEF BreakerSound
  <2> QED
    BY <1>0, <1>1, <2>1, <2>2, BreakerIdleTypes, BreakerFetchStep DEF B!End
<1>2. CASE /\ B!Put(f, [breaker_fetch[f] EXCEPT !.pc = "bad", !.drift = FALSE])
           /\ breaker_lost' = TRUE /\ UNCHANGED <<breaker_breaker, breaker_shared>>
  <2> DEFINE q == [breaker_fetch[f] EXCEPT !.pc = "bad", !.drift = FALSE]
  <2>1. q \in BreakerTask
    BY <1>0 DEF BreakerTask
  <2>2. B!Put(f, q)
    BY <1>2
  <2> HIDE DEF q
  <2> PICK r \in BreakerTask : r = q
    BY <2>1
  <2> QED
    BY <1>0, <1>2, <2>1, <2>2, BreakerFetchStep
<1> QED
  BY <1>1, <1>2 DEF B!Good

LEMMA BreakerRegisterStep ==
  ASSUME B!BreakerAssumption, BreakerInv, NEW f \in Instance, B!Register(f)
  PROVE  BreakerInv'
<1>0. /\ breaker_fetch[f] \in BreakerTask /\ breaker_fetch[f].pc = "bad" /\ breaker_faults' \in 0 .. MaxFaults
      /\ UNCHANGED <<breaker_quiet, breaker_row, breaker_told, breaker_overlapped, breaker_lost, breaker_faults>>
      /\ breaker_fetch[f].drift \in BOOLEAN
      /\ breaker_breaker \in BreakerState /\ breaker_quiet \in SUBSET BOOLEAN /\ breaker_told \in BOOLEAN
      /\ breaker_lost \in BOOLEAN
      /\ breaker_row \in 0 .. Threshold /\ breaker_row \in Nat /\ Threshold \in Nat
  BY BreakerNow DEF B!Register, B!At
<1> DEFINE drift == breaker_fetch[f].drift
           b == B!Counted(drift)
<1>1. breaker_breaker.fails \in 0 .. Threshold /\ breaker_breaker.drifts \in 0 .. Threshold
  BY <1>0 DEF BreakerState
<1>2. /\ B!Up(breaker_breaker.fails) \in 0 .. Threshold /\ B!Up(breaker_breaker.drifts) \in 0 .. Threshold
  BY <1>1, BreakerUpTypes
<1>3. /\ b \in BreakerState /\ b.until = breaker_breaker.until /\ b.alert = breaker_breaker.alert
      /\ b.driftAlert = breaker_breaker.driftAlert
      /\ b.fails = (IF drift THEN breaker_breaker.fails ELSE B!Up(breaker_breaker.fails))
      /\ b.drifts = (IF drift THEN B!Up(breaker_breaker.drifts) ELSE breaker_breaker.drifts)
  <2> HIDE DEF drift
  <2>1. CASE drift
    BY <1>0, <1>2, <2>1 DEF B!Counted, BreakerState
  <2>2. CASE ~drift
    BY <1>0, <1>2, <2>2 DEF B!Counted, BreakerState
  <2> QED
    BY <2>1, <2>2
<1>4. breaker_breaker' = b
  BY DEF B!Register
<1> HIDE DEF b
<1>5. ASSUME BreakerSound(breaker_fetch[f])
      PROVE  /\ breaker_breaker'.fails <= breaker_row /\ breaker_breaker'.drifts <= breaker_row
             /\ breaker_breaker'.until = "open" => breaker_row >= Threshold /\ breaker_told
             /\ breaker_breaker'.alert \/ breaker_breaker'.driftAlert => breaker_told
             /\ breaker_quiet # {} => breaker_told
  BY <1>0, <1>3, <1>4, <1>5 DEF BreakerSound
<1>6. CASE ~B!Opens(b, drift) /\ B!End(f)
  <2>1. BreakerSound(breaker_fetch[f]) => BreakerSound(B!Idle)'
    BY <1>0, <1>5, BreakerIdleTypes DEF BreakerSound
  <2> QED
    BY <1>0, <1>3, <1>4, <1>6, <2>1, BreakerIdleTypes, BreakerFetchStep DEF B!End
<1>7. CASE /\ B!Opens(b, drift) /\ UNCHANGED breaker_shared
           /\ B!Put(f, [breaker_fetch[f] EXCEPT !.pc = "open", !.seen = IF drift THEN b.driftAlert ELSE b.alert])
  <2> DEFINE seen == IF drift THEN b.driftAlert ELSE b.alert
             q == [breaker_fetch[f] EXCEPT !.pc = "open", !.seen = seen]
  <2>1. seen \in BOOLEAN /\ (seen => b.alert \/ b.driftAlert)
    BY <1>3 DEF BreakerState
  <2>2. B!Put(f, q)
    BY <1>7
  <2> HIDE DEF seen
  <2>3. q \in BreakerTask /\ q.pc = "open" /\ q.seen = seen
    BY <1>0, <2>1 DEF BreakerTask
  <2> HIDE DEF q
  <2> PICK r \in BreakerTask : r = q
    BY <2>3
  <2>4. BreakerSound(breaker_fetch[f]) => BreakerSound(r)'
    <3>1. SUFFICES ASSUME BreakerSound(breaker_fetch[f]) PROVE BreakerSound(r)'
      OBVIOUS
    <3>2. b.fails >= Threshold \/ b.drifts >= Threshold
      BY <1>7 DEF B!Opens
    <3>3. b.fails \in Nat /\ b.drifts \in Nat
      BY <1>3 DEF BreakerState
    <3>4. b.fails <= breaker_row /\ b.drifts <= breaker_row
      BY <1>4, <1>5, <3>1
    <3>5. breaker_row >= Threshold
      BY <1>0, <3>2, <3>3, <3>4
    <3> QED
      BY <1>0, <1>4, <1>5, <2>1, <2>3, <3>1, <3>5 DEF BreakerSound
  <2> QED
    BY <1>0, <1>3, <1>4, <1>7, <2>2, <2>3, <2>4, BreakerFetchStep
<1> QED
  BY <1>4, <1>6, <1>7 DEF B!Register, b

LEMMA BreakerOpenStep == ASSUME B!BreakerAssumption, BreakerInv, NEW f \in Instance, B!Open(f) PROVE BreakerInv'
<1>0. /\ breaker_fetch[f] \in BreakerTask /\ breaker_fetch[f].pc = "open" /\ breaker_faults' \in 0 .. MaxFaults
      /\ UNCHANGED <<breaker_quiet, breaker_row, breaker_told, breaker_overlapped, breaker_lost, breaker_faults>>
      /\ breaker_breaker \in BreakerState /\ breaker_quiet \in SUBSET BOOLEAN /\ breaker_told \in BOOLEAN
      /\ breaker_lost \in BOOLEAN
      /\ breaker_row \in 0 .. Threshold
  BY BreakerNow DEF B!Open, B!At
<1> DEFINE b == [breaker_breaker EXCEPT !.until = "open"]
<1>1. /\ b \in BreakerState /\ b.until = "open" /\ b.alert = breaker_breaker.alert
      /\ b.driftAlert = breaker_breaker.driftAlert
      /\ b.fails = breaker_breaker.fails /\ b.drifts = breaker_breaker.drifts
  BY <1>0 DEF BreakerState
<1>2. breaker_breaker' = b
  BY DEF B!Open
<1> HIDE DEF b
<1>3. CASE breaker_fetch[f].seen /\ B!End(f)
  <2>1. BreakerSound(breaker_fetch[f]) => BreakerSound(B!Idle)'
    BY <1>0, <1>1, <1>2, <1>3, BreakerIdleTypes DEF BreakerSound
  <2> QED
    BY <1>0, <1>1, <1>2, <1>3, <2>1, BreakerIdleTypes, BreakerFetchStep DEF B!End
<1>4. CASE B!Move(f, "mark") /\ UNCHANGED breaker_shared
  <2> DEFINE q == [breaker_fetch[f] EXCEPT !.pc = "mark"]
  <2>1. q \in BreakerTask /\ q.pc = "mark"
    BY <1>0 DEF BreakerTask
  <2>2. B!Put(f, q)
    BY <1>4 DEF B!Move
  <2> HIDE DEF q
  <2> PICK r \in BreakerTask : r = q
    BY <2>1
  <2>3. BreakerSound(breaker_fetch[f]) => BreakerSound(r)'
    BY <1>0, <1>1, <1>2, <2>1 DEF BreakerSound
  <2> QED
    BY <1>0, <1>1, <1>2, <1>4, <2>1, <2>2, <2>3, BreakerFetchStep
<1> QED
  BY <1>3, <1>4 DEF B!Open

LEMMA BreakerAlertStep ==
    ASSUME B!BreakerAssumption, BreakerInv, NEW f \in Instance, B!Mark(f) \/ B!ClaimAlert(f) \/ B!SendAlert(f)
    PROVE  BreakerInv'
<1>0. /\ breaker_fetch[f] \in BreakerTask /\ breaker_fetch[f].pc \in {"mark", "claim", "send"}
      /\ breaker_faults' \in 0 .. MaxFaults
      /\ UNCHANGED <<breaker_row, breaker_overlapped>> /\ breaker_fetch[f].drift \in BOOLEAN
      /\ breaker_breaker \in BreakerState /\ breaker_quiet \in SUBSET BOOLEAN /\ breaker_told \in BOOLEAN
      /\ breaker_lost \in BOOLEAN
      /\ breaker_row \in 0 .. Threshold
  BY BreakerNow, BreakerFaultTypes DEF B!Mark, B!ClaimAlert, B!SendAlert, B!At
<1>1. CASE B!Mark(f)
  <2>0. UNCHANGED <<breaker_quiet, breaker_shared, breaker_told, breaker_lost>> /\ breaker_fetch[f].pc = "mark"
    BY <1>1 DEF B!Mark, B!At
  <2> DEFINE q == [breaker_fetch[f] EXCEPT !.pc = "claim"]
  <2>1. q \in BreakerTask /\ q.pc = "claim"
    BY <1>0 DEF BreakerTask
  <2>2. B!Put(f, q)
    BY <1>1 DEF B!Mark, B!Move
  <2>3. /\ breaker_breaker' \in BreakerState /\ breaker_breaker'.until = breaker_breaker.until
        /\ breaker_breaker'.fails = breaker_breaker.fails /\ breaker_breaker'.drifts = breaker_breaker.drifts
    <3>1. \/ breaker_breaker' = [breaker_breaker EXCEPT !.driftAlert = TRUE]
          \/ breaker_breaker' = [breaker_breaker EXCEPT !.alert = TRUE]
      BY <1>1 DEF B!Mark
    <3> QED
      BY <1>0, <3>1 DEF BreakerState
  <2> HIDE DEF q
  <2> PICK r \in BreakerTask : r = q
    BY <2>1
  <2>4. BreakerSound(breaker_fetch[f]) => BreakerSound(r)'
    BY <1>0, <2>0, <2>1, <2>3 DEF BreakerSound
  <2> QED
    BY <1>0, <2>0, <2>1, <2>2, <2>3, <2>4, BreakerFetchStep
<1>2. CASE B!ClaimAlert(f) /\ breaker_fetch[f].drift \in breaker_quiet /\ B!End(f) /\ UNCHANGED breaker_quiet
  <2>0. UNCHANGED <<breaker_breaker, breaker_told, breaker_lost>> /\ breaker_fetch[f].pc = "claim"
    BY <1>2 DEF B!ClaimAlert, B!At
  <2>1. BreakerSound(breaker_fetch[f]) => BreakerSound(B!Idle)'
    BY <1>0, <1>2, <2>0, BreakerIdleTypes DEF BreakerSound
  <2> QED
    BY <1>0, <1>2, <2>0, <2>1, BreakerIdleTypes, BreakerFetchStep DEF B!End
<1>3. CASE B!ClaimAlert(f) /\ breaker_quiet' = breaker_quiet \cup {breaker_fetch[f].drift} /\ B!Move(f, "send")
             /\ UNCHANGED breaker_shared
  <2>0. UNCHANGED <<breaker_breaker, breaker_told, breaker_lost>> /\ breaker_fetch[f].pc = "claim"
    BY <1>3 DEF B!ClaimAlert, B!At
  <2> DEFINE q == [breaker_fetch[f] EXCEPT !.pc = "send"]
  <2>1. q \in BreakerTask /\ q.pc = "send"
    BY <1>0 DEF BreakerTask
  <2>2. B!Put(f, q)
    BY <1>3 DEF B!Move
  <2> HIDE DEF q
  <2> PICK r \in BreakerTask : r = q
    BY <2>1
  <2>3. BreakerSound(breaker_fetch[f]) => BreakerSound(r)'
    BY <1>0, <2>0, <2>1 DEF BreakerSound
  <2>4. breaker_quiet' \in SUBSET BOOLEAN
    BY <1>0, <1>3
  <2> QED
    BY <1>0, <1>3, <2>0, <2>1, <2>2, <2>3, <2>4, BreakerFetchStep
<1>4. CASE B!SendAlert(f)
  <2>0. B!End(f) /\ UNCHANGED breaker_breaker /\ breaker_fetch[f].pc = "send"
    BY <1>4 DEF B!SendAlert, B!At
  <2>1. CASE breaker_told' = TRUE /\ UNCHANGED <<breaker_quiet, breaker_lost, breaker_faults>>
    <3>1. BreakerSound(breaker_fetch[f]) => BreakerSound(B!Idle)'
      BY <1>0, <2>0, <2>1, BreakerIdleTypes DEF BreakerSound
    <3> QED
      BY <1>0, <2>0, <2>1, <3>1, BreakerIdleTypes, BreakerFetchStep DEF B!End
  <2>2. CASE breaker_quiet' = breaker_quiet \ {breaker_fetch[f].drift} /\ breaker_lost' = TRUE
               /\ UNCHANGED breaker_told
    <3>1. breaker_quiet' \in SUBSET BOOLEAN
      BY <1>0, <2>2
    <3> QED
      BY <1>0, <2>0, <2>2, <3>1, BreakerIdleTypes, BreakerFetchStep DEF B!End
  <2> QED
    BY <1>4, <2>1, <2>2 DEF B!SendAlert
<1> QED
  BY <1>1, <1>2, <1>3, <1>4 DEF B!ClaimAlert

LEMMA BreakerLoseStep ==
  ASSUME B!BreakerAssumption, BreakerInv, NEW f \in Instance, B!LoseBookkeeping(f)
  PROVE  BreakerInv'
<1>0. /\ breaker_fetch[f].pc # "idle" /\ breaker_faults' \in 0 .. MaxFaults /\ breaker_lost' = TRUE /\ B!End(f)
      /\ UNCHANGED <<breaker_breaker, breaker_quiet, breaker_row, breaker_told, breaker_overlapped>>
      /\ breaker_breaker \in BreakerState /\ breaker_quiet \in SUBSET BOOLEAN /\ breaker_told \in BOOLEAN
      /\ breaker_row \in 0 .. Threshold
  BY BreakerNow, BreakerFaultTypes DEF B!LoseBookkeeping
<1> QED
  BY <1>0, BreakerIdleTypes, BreakerFetchStep DEF B!End

(* A fetch begins beside others, or alone.                                 *)
LEMMA BreakerBeginStep == ASSUME B!BreakerAssumption, BreakerInv, NEW f \in Instance, B!Begin(f) PROVE BreakerInv'
<1>0. /\ breaker_fetch[f] \in BreakerTask /\ breaker_fetch[f].pc = "idle" /\ B!TypeOK /\ IsFiniteSet(breaker_shared)
      /\ UNCHANGED <<breaker_breaker, breaker_quiet, breaker_row, breaker_told, breaker_lost, breaker_faults>>
      /\ breaker_overlapped' = (breaker_overlapped \/ \E g \in Instance : breaker_fetch[g].pc # "idle")
           /\ breaker_overlapped \in BOOLEAN
      /\ breaker_fetch \in [Instance -> BreakerTask]
  BY BreakerNow, BreakerTypes DEF B!Begin, B!At, BreakerInv
<1> DEFINE q == [breaker_fetch[f] EXCEPT !.pc = "read"]
<1>1. q \in BreakerTask /\ q.pc = "read"
  BY <1>0 DEF BreakerTask
<1>2. B!Put(f, q)
  BY DEF B!Begin, B!Move
<1> HIDE DEF q
<1> PICK r \in BreakerTask : r = q
  BY <1>1
<1>3. /\ breaker_fetch' \in [Instance -> BreakerTask] /\ breaker_fetch'[f] = r
      /\ \A g \in Instance : g # f => breaker_fetch'[g] = breaker_fetch[g]
  BY <1>0, <1>2 DEF B!Put
<1>4. /\ breaker_shared' \in SUBSET Instance /\ IsFiniteSet(breaker_shared')
      /\ B!Cardinality(breaker_shared') <= Contexts
  <2>1. breaker_shared' = breaker_shared \cup {f} /\ B!Cardinality(breaker_shared) < Contexts
    BY DEF B!Begin
  <2>2. B!Cardinality(breaker_shared) \in Nat /\ Contexts \in Nat
    BY <1>0, BreakerCardinalityType DEF B!BreakerAssumption
  <2>3. IsFiniteSet(breaker_shared \cup {f})
    BY <1>0, BreakerAddElement
  <2>4. B!Cardinality(breaker_shared \cup {f}) =
        B!Cardinality(breaker_shared) \/ B!Cardinality(breaker_shared \cup {f}) = B!Cardinality(breaker_shared) + 1
    BY <1>0, BreakerAddElement
  <2>5. B!Cardinality(breaker_shared \cup {f}) <= Contexts
    BY <2>1, <2>2, <2>4
  <2> QED
    BY <1>0, <2>1, <2>3, <2>5 DEF B!TypeOK
<1>5. B!TypeOK'
  BY <1>0, <1>3, <1>4, BreakerTypes DEF B!TypeOK, BreakerState, BreakerTask
<1>6. ASSUME BreakerClean'
      PROVE  /\ BreakerOneFetch'
             /\ \A g \in Instance : breaker_fetch'[g].pc # "idle" => BreakerSound(breaker_fetch[g])'
             /\ (\A g \in Instance : breaker_fetch'[g].pc = "idle") => BreakerSound(B!Idle)'
  <2>1. BreakerClean /\ \A g \in Instance : breaker_fetch[g].pc = "idle"
    BY <1>0, <1>6 DEF BreakerClean
  <2>2. BreakerSound(B!Idle)
    BY <2>1 DEF BreakerInv
  <2>3. BreakerSound(r)'
    BY <1>0, <1>1, <2>2, BreakerIdleTypes DEF BreakerSound
  <2>4. BreakerOneFetch'
    BY <1>3, <2>1 DEF BreakerOneFetch
  <2>5. \A g \in Instance : breaker_fetch'[g].pc # "idle" => BreakerSound(breaker_fetch[g])'
    BY <1>3, <2>1, <2>3 DEF BreakerSound
  <2> QED
    BY <1>1, <1>3, <2>4, <2>5
<1> QED
  BY <1>4, <1>5, <1>6 DEF BreakerInv

(* What is no step of a fetch.                                             *)
LEMMA BreakerWorldStep ==
    ASSUME B!BreakerAssumption, BreakerInv, B!CooldownEnds \/ \E f \in Instance : B!InflightTimeout(f)
    PROVE  BreakerInv'
<1>0. /\ UNCHANGED <<breaker_fetch, breaker_row, breaker_told, breaker_overlapped, breaker_lost>>
      /\ breaker_faults' \in 0 .. MaxFaults
      /\ B!TypeOK /\ IsFiniteSet(breaker_shared) /\ breaker_breaker \in BreakerState
      /\ breaker_quiet \in SUBSET BOOLEAN
  BY BreakerTypes, BreakerFaultTypes DEF B!CooldownEnds, B!InflightTimeout, BreakerInv
<1>1. /\ breaker_shared' \in SUBSET Instance /\ IsFiniteSet(breaker_shared')
      /\ B!Cardinality(breaker_shared') <= Contexts
  <2>1. CASE B!CooldownEnds
    BY <1>0, <2>1, BreakerTypes DEF B!CooldownEnds
  <2>2. CASE \E f \in Instance : B!InflightTimeout(f)
    <3>1. PICK f \in Instance : B!Settled(f)
      BY <2>2 DEF B!InflightTimeout
    <3> QED
      BY <1>0, <3>1, BreakerLeavesMap
  <2> QED
    BY <2>1, <2>2
<1>2. /\ breaker_breaker' \in BreakerState /\ breaker_quiet' \in SUBSET BOOLEAN
      /\ breaker_quiet' \subseteq breaker_quiet
      /\ \/ breaker_breaker' = breaker_breaker
         \/ breaker_breaker.until = "open" /\ breaker_breaker'.until = "over"
      /\ breaker_breaker'.fails = breaker_breaker.fails /\ breaker_breaker'.drifts = breaker_breaker.drifts
      /\ breaker_breaker'.alert = breaker_breaker.alert /\ breaker_breaker'.driftAlert = breaker_breaker.driftAlert
  <2>1. CASE breaker_breaker.until = "open" /\ breaker_breaker' = [breaker_breaker EXCEPT !.until = "over"]
               /\ UNCHANGED breaker_quiet
    BY <1>0, <2>1 DEF BreakerState
  <2>2. CASE (\E alert \in breaker_quiet : breaker_quiet' = breaker_quiet \ {alert}) /\ UNCHANGED breaker_breaker
    BY <1>0, <2>2
  <2>3. CASE \E f \in Instance : B!InflightTimeout(f)
    BY <1>0, <2>3 DEF B!InflightTimeout
  <2> QED
    BY <2>1, <2>2, <2>3 DEF B!CooldownEnds
<1>3. B!TypeOK'
  BY <1>0, <1>1, <1>2, BreakerTypes DEF B!TypeOK, BreakerState, BreakerTask
<1>4. ASSUME NEW r, BreakerSound(r) PROVE BreakerSound(r)'
  <2>1. CASE breaker_breaker' = breaker_breaker
    BY <1>0, <1>2, <1>4, <2>1 DEF BreakerSound
  <2>2. CASE breaker_breaker.until = "open" /\ breaker_breaker'.until = "over"
    BY <1>0, <1>2, <1>4, <2>2 DEF BreakerSound
  <2> QED
    BY <1>2, <2>1, <2>2
<1>5. ASSUME BreakerClean'
      PROVE  /\ BreakerOneFetch'
             /\ \A g \in Instance : breaker_fetch'[g].pc # "idle" => BreakerSound(breaker_fetch[g])'
             /\ (\A g \in Instance : breaker_fetch'[g].pc = "idle") => BreakerSound(B!Idle)'
  <2>1. BreakerClean
    BY <1>0, <1>5 DEF BreakerClean
  <2>2. BreakerOneFetch'
    BY <1>0, <2>1 DEF BreakerInv, BreakerOneFetch
  <2>3. (\A g \in Instance : breaker_fetch'[g].pc = "idle") => BreakerSound(B!Idle)'
    BY <1>0, <1>4, <2>1 DEF BreakerInv
  <2>4. ASSUME NEW g \in Instance, breaker_fetch'[g].pc # "idle" PROVE BreakerSound(breaker_fetch[g])'
    <3>1. PICK r : r = breaker_fetch[g]
      OBVIOUS
    <3>2. BreakerSound(r)'
      BY <1>0, <1>4, <2>1, <2>4, <3>1 DEF BreakerInv
    <3> QED
      BY <1>0, <3>1, <3>2 DEF BreakerSound
  <2> QED
    BY <2>2, <2>3, <2>4
<1> QED
  BY <1>1, <1>3, <1>5 DEF BreakerInv

(* While no fetches overlap and no write is lost, the document, the row of *)
(* failures and what was told agree: an open circuit has its failures in a *)
(* row and was told.                                                       *)
THEOREM BreakerInvariant ==
    ASSUME B!BreakerAssumption PROVE B!Spec => [](BreakerInv /\ B!OpenMeansFailing /\ B!OutageIsTold)
<1>1. B!Init => BreakerInv
  <2> SUFFICES ASSUME B!Init PROVE BreakerInv
    OBVIOUS
  <2>1. IsFiniteSet(breaker_shared) /\ B!Cardinality(breaker_shared) = 0
    BY BreakerEmptySet DEF B!Init
  <2>2. Contexts \in Nat /\ Threshold \in Nat /\ MaxFaults \in Nat
    BY DEF B!BreakerAssumption
  <2>3. B!TypeOK
    <3>1. breaker_breaker \in BreakerState /\ breaker_fetch \in [Instance -> BreakerTask]
      BY BreakerIdleTypes, BreakerClosedTypes DEF B!Init
    <3>2. /\ B!Cardinality(breaker_shared) <= Contexts /\ breaker_row \in 0 .. Threshold
          /\ breaker_faults \in 0 .. MaxFaults
      BY <2>1, <2>2 DEF B!Init
    <3> QED
      BY <3>1, <3>2 DEF B!Init, B!TypeOK, BreakerState, BreakerTask
  <2>4. BreakerSound(B!Idle)
    <3>1. /\ breaker_breaker.fails = 0 /\ breaker_breaker.drifts = 0 /\ breaker_breaker.until = "none"
          /\ ~breaker_breaker.alert /\ ~breaker_breaker.driftAlert
      BY BreakerClosedTypes DEF B!Init
    <3>2. B!Idle.pc = "idle"
      BY BreakerIdleTypes
    <3> QED
      BY <3>1, <3>2 DEF B!Init, BreakerSound
  <2> QED
    BY <2>1, <2>3, <2>4, BreakerIdleTypes DEF B!Init, BreakerInv, BreakerOneFetch
<1>2. BreakerInv /\ [B!Next]_(B!vars) => BreakerInv'
  <2> SUFFICES ASSUME BreakerInv, [B!Next]_(B!vars) PROVE BreakerInv'
    OBVIOUS
  <2>1. CASE UNCHANGED B!vars
    <3>1. UNCHANGED <<breaker_breaker, breaker_quiet, breaker_shared, breaker_fetch, breaker_row, breaker_told,
            breaker_overlapped, breaker_lost, breaker_faults>>
      BY <2>1 DEF B!vars
    <3>2. B!TypeOK' /\ IsFiniteSet(breaker_shared)'
      BY <3>1 DEF BreakerInv, B!TypeOK
    <3>3. BreakerClean' => BreakerClean /\ BreakerOneFetch'
      BY <3>1 DEF BreakerInv, BreakerClean, BreakerOneFetch
    <3>4. BreakerClean' => \A f \in Instance : breaker_fetch'[f].pc # "idle" => BreakerSound(breaker_fetch[f])'
      BY <3>1, <3>3 DEF BreakerInv, BreakerSound
    <3>5. BreakerClean' => ((\A f \in Instance : breaker_fetch'[f].pc = "idle") => BreakerSound(B!Idle)')
      BY <3>1, <3>3 DEF BreakerInv, BreakerSound
    <3> QED
      BY <3>2, <3>3, <3>4, <3>5 DEF BreakerInv
  <2>2. CASE B!Next
    BY <2>2, BreakerBeginStep, BreakerReadStep, BreakerSourceStep, BreakerGoodStep, BreakerRegisterStep,
        BreakerOpenStep, BreakerAlertStep, BreakerLoseStep, BreakerWorldStep DEF B!Next
  <2> QED
    BY <2>1, <2>2
<1>3. BreakerInv => B!OpenMeansFailing
  <2>1. SUFFICES ASSUME BreakerInv, BreakerClean, breaker_breaker.until = "open" PROVE breaker_row >= Threshold
    BY DEF B!OpenMeansFailing, BreakerClean
  <2>2. CASE \A f \in Instance : breaker_fetch[f].pc = "idle"
    BY <2>1, <2>2 DEF BreakerInv, BreakerSound
  <2>3. CASE ~\A f \in Instance : breaker_fetch[f].pc = "idle"
    BY <2>1, <2>3 DEF BreakerInv, BreakerSound
  <2> QED
    BY <2>2, <2>3
<1>4. BreakerInv => B!OutageIsTold
  <2>1. SUFFICES ASSUME BreakerInv, BreakerClean, breaker_breaker.until = "open",
                          \A f \in Instance : breaker_fetch[f].pc = "idle"
                 PROVE  breaker_told
    BY DEF B!OutageIsTold, BreakerClean, B!At
  <2> QED
    BY <2>1, BreakerIdleTypes DEF BreakerInv, BreakerSound
<1> QED
  BY <1>1, <1>2, <1>3, <1>4, PTL DEF B!Spec

-----------------------------------------------------------------------------
(* The composition.  A behaviour of it is, of each component's variables,  *)
(* a behaviour of the component.                                           *)
LEMMA SettingsAlone == AllSpec => S!Spec
<1>1. AllInit => S!Init
  BY DEF AllInit
<1>2. SettingsStep => S!Next
  BY DEF SettingsStep
<1>3. UNCHANGED settingsVars => UNCHANGED S!vars
  BY DEF settingsVars, S!vars, S!db
<1>4. [AllNext]_allVars => [S!Next]_(S!vars)
  BY <1>2, <1>3, OneAtATime
<1> QED
  BY <1>1, <1>4, PTL DEF AllSpec, S!Spec

LEMMA VideoAlone == AllSpec => V!Spec
<1>1. AllInit => V!Init
  BY DEF AllInit
<1>2. VideoStep => V!Next
  BY DEF VideoStep
<1>3. UNCHANGED videoVars => UNCHANGED V!vars
  BY DEF videoVars, V!vars
<1>4. [AllNext]_allVars => [V!Next]_(V!vars)
  BY <1>2, <1>3, OneAtATime
<1> QED
  BY <1>1, <1>4, PTL DEF AllSpec, V!Spec

LEMMA PriceAlone == AllSpec => P!Spec
<1>1. AllInit => P!Init
  BY DEF AllInit
<1>2. PriceStep => P!Next
  BY DEF PriceStep
<1>3. UNCHANGED priceVars => UNCHANGED P!vars
  BY DEF priceVars, P!vars
<1>4. [AllNext]_allVars => [P!Next]_(P!vars)
  BY <1>2, <1>3, OneAtATime
<1> QED
  BY <1>1, <1>4, PTL DEF AllSpec, P!Spec

LEMMA MemberAlone == AllSpec => M!Spec
<1>1. AllInit => M!Init
  BY DEF AllInit
<1>2. MemberStep => M!Next
  BY DEF MemberStep
<1>3. UNCHANGED memberVars => UNCHANGED M!vars
  BY DEF memberVars, M!vars, M!sanctions, M!warnings
<1>4. [AllNext]_allVars => [M!Next]_(M!vars)
  BY <1>2, <1>3, OneAtATime
<1> QED
  BY <1>1, <1>4, PTL DEF AllSpec, M!Spec

LEMMA StartsAlone == AllSpec => N!Spec
<1>1. AllInit => N!Init
  BY DEF AllInit
<1>2. StartsStep => N!Next
  BY DEF StartsStep
<1>3. UNCHANGED startsVars => UNCHANGED N!vars
  BY DEF startsVars, N!vars, N!guild, N!feeds, N!out, N!admin, N!ghost
<1>4. [AllNext]_allVars => [N!Next]_(N!vars)
  BY <1>2, <1>3, OneAtATime
<1> QED
  BY <1>1, <1>4, PTL DEF AllSpec, N!Spec

LEMMA InspectorAlone == AllSpec => I!Spec
<1>1. AllInit => I!Init
  BY DEF AllInit
<1>2. InspectorStep => I!Next
  BY DEF InspectorStep
<1>3. UNCHANGED inspectorVars => UNCHANGED I!vars
  BY DEF inspectorVars, I!vars
<1>4. [AllNext]_allVars => [I!Next]_(I!vars)
  BY <1>2, <1>3, OneAtATime
<1> QED
  BY <1>1, <1>4, PTL DEF AllSpec, I!Spec

LEMMA HttpAlone == AllSpec => H!Spec
<1>1. AllInit => H!Init
  BY DEF AllInit
<1>2. HttpStep => H!Next
  BY DEF HttpStep
<1>3. UNCHANGED httpVars => UNCHANGED H!vars
  BY DEF httpVars, H!vars
<1>4. [AllNext]_allVars => [H!Next]_(H!vars)
  BY <1>2, <1>3, OneAtATime
<1> QED
  BY <1>1, <1>4, PTL DEF AllSpec, H!Spec

LEMMA BreakerAlone == AllSpec => B!Spec
<1>1. AllInit => B!Init
  BY DEF AllInit
<1>2. BreakerStep => B!Next
  BY DEF BreakerStep
<1>3. UNCHANGED breakerVars => UNCHANGED B!vars
  BY DEF breakerVars, B!vars
<1>4. [AllNext]_allVars => [B!Next]_(B!vars)
  BY <1>2, <1>3, OneAtATime
<1> QED
  BY <1>1, <1>4, PTL DEF AllSpec, B!Spec

LEMMA CountsAlone == AllSpec => C!Spec
<1>1. AllInit => C!Init
  BY DEF AllInit
<1>2. CountsStep => C!Next
  BY DEF CountsStep
<1>3. UNCHANGED countsVars => UNCHANGED C!vars
  BY DEF countsVars, C!vars
<1>4. [AllNext]_allVars => [C!Next]_(C!vars)
  BY <1>2, <1>3, OneAtATime
<1> QED
  BY <1>1, <1>4, PTL DEF AllSpec, C!Spec

LEMMA AlertsAlone == AllSpec => A!Spec
<1>1. AllInit => A!Init
  BY DEF AllInit
<1>2. AlertsStep => A!Next
  BY DEF AlertsStep
<1>3. UNCHANGED alertsVars => UNCHANGED A!vars
  BY DEF alertsVars, A!vars
<1>4. [AllNext]_allVars => [A!Next]_(A!vars)
  BY <1>2, <1>3, OneAtATime
<1> QED
  BY <1>1, <1>4, PTL DEF AllSpec, A!Spec

LEMMA LifeAlone == AllSpec => Spec
<1>1. AllInit => Init
  BY DEF AllInit
<1>2. LifeStep => Next
  BY DEF LifeStep
<1>3. [AllNext]_allVars => [Next]_vars
  BY <1>2, OneAtATime
<1> QED
  BY <1>1, <1>3, PTL DEF AllSpec, Spec

(* Whatever the races of reads, writes, hooks and lost messages, what a    *)
(* process serves was what the database said within the last TTL           *)
(* (getGuildSettings reads the clock before it queries).                   *)
THEOREM StaleIsWithinTTL == AllSpec => []StaleWithinTTL
<1>1. S!StaleWithinTTL => StaleWithinTTL
  BY DEF StaleWithinTTL
<1> QED
  BY <1>1, ServicesAssumption, SettingsAlone, SettingsInvariant, PTL

(* What a claim takes from everyone else was told: a video to every        *)
(* destination, a triggered price, a change of the players, an alert about *)
(* a new account (once), or it was stranded by a fault.                    *)
THEOREM ClaimsAreTold == AllSpec => []ConsumedIsTold
<1>1. VideoInv => V!ClaimsAreJustified
  BY DEF VideoInv
<1>2. PriceInv => P!TriggersAreTold
  BY DEF PriceInv
<1>3. /\ V!ClaimsAreJustified /\ P!TriggersAreTold /\ C!CountsAreTold
      /\ A!QuietMeansAlerted /\ A!AlertedOnce
      => ConsumedIsTold
  BY DEF ConsumedIsTold
<1> QED
  BY <1>1, <1>2, <1>3, ServicesAssumption, VideoAlone, PriceAlone, CountsAlone, AlertsAlone,
     VideoInvariant, PriceInvariant, CountsInvariant, QuietMeansAlertedHolds, AlertedOnceHolds, PTL

(* Each stored warning was announced, is under way, or was reported: the   *)
(* one taken back is the one whose message failed, and no other.           *)
THEOREM WarningsAreAccounted == AllSpec => []WarningsAccounted
<1>1. ModerationInv => WarningsAccounted
  BY DEF ModerationInv, WarningsAccounted
<1> QED
  BY <1>1, ServicesAssumption, MemberAlone, ModerationInvariant, PTL

(* A caller gets the report of what it asked for, from a process that may  *)
(* have been killed and started again, and an answer of the source no      *)
(* older than its request; nobody waits beside an idle client.             *)
THEOREM AnswersMatchQuestions == AllSpec => []AnswersAreOwn
<1>1. I!ReportsAreOwn /\ I!NobodyWaitsIdly /\ H!AnswersAreCurrent => AnswersAreOwn
  BY DEF AnswersAreOwn
<1> QED
  BY <1>1, ServicesAssumption, InspectorAlone, HttpAlone, InspectorInvariant, HttpInvariant, PTL

(* While no fetches overlap and no write is lost, a circuit is open when   *)
(* its source has failed Threshold times in a row, and that was told.      *)
THEOREM OpenCircuitsAreTold == AllSpec => []OutagesAreTold
<1>1. B!OpenMeansFailing /\ B!OutageIsTold => OutagesAreTold
  BY DEF OutagesAreTold
<1> QED
  BY <1>1, ServicesAssumption, BreakerAlone, BreakerInvariant, PTL

-----------------------------------------------------------------------------
(* The starts and stops of the updates are the cycle of NotificationCycle, *)
(* whose theorems NP states of the variables of N.                         *)
NP == INSTANCE NotificationCycle_proofs WITH
    Cycle <- Cycle, Command <- Instance, Channel <- Channel, NoChannel <- "none",
    Published <- Published, MaxAttempts <- MaxAttempts, QueueLimit <- QueueLimit,
    PerCycle <- PerCycle, PerMessage <- PerMessage,
    MaxCommands <- MaxCommands, MaxFaults <- MaxFaults, sub <- starts_sub, pending <- starts_pending,
    current <- starts_current, seen <- starts_seen, latest <- starts_latest,
    snapshot <- starts_snapshot, announced <- starts_announced,
    recorded <- starts_recorded, pc <- starts_pc, cyc <- starts_cyc, cpc <- starts_cpc,
    cmd <- starts_cmd, commands <- starts_commands, faults <- starts_faults,
    baseline <- starts_baseline, returned <- starts_returned,
    overlapped <- starts_overlapped, excused <- starts_excused

(* N and NP instantiate the same definitions. *)
LEMMA SameStartState == N!Init <=> NP!Init
BY DEF N!guild, NP!guild, N!Update, NP!Update, N!Excuses, NP!Excuses, N!Off, NP!Off, N!NoData, NP!NoData,
   N!Init, NP!Init

LEMMA SameTypes == N!TypeOK <=> NP!TypeOK
BY DEF N!guild, NP!guild, N!Update, NP!Update, N!Item, NP!Item, N!Subscription, NP!Subscription, N!Excuses,
   NP!Excuses, N!CycleData, NP!CycleData, N!Places, NP!Places, N!CommandPlaces, NP!CommandPlaces, N!TypeOK,
   NP!TypeOK

LEMMA SamePicked == ASSUME NEW q, NEW K PROVE N!Picked(q, K) = NP!Picked(q, K)
<1>1. ASSUME NEW X PROVE N!Cardinality(X) = NP!Cardinality(X)
  BY DEF N!Cardinality, NP!Cardinality
<1>2. ASSUME NEW n PROVE N!Position(K, n) = NP!Position(K, n)
  BY <1>1 DEF N!Position, NP!Position
<1> QED
  BY <1>1, <1>2 DEF N!Picked, NP!Picked

LEMMA SameFresh == ASSUME NEW q, NEW old PROVE N!Fresh(q, old) = NP!Fresh(q, old)
BY SamePicked DEF N!Fresh, NP!Fresh, N!Newest, NP!Newest

LEMMA SameQueue == ASSUME NEW q, NEW feed PROVE N!WithFeed(q, feed) = NP!WithFeed(q, feed)
BY DEF N!WithFeed, NP!WithFeed, N!Newest, NP!Newest, N!Ids, NP!Ids

LEMMA SameGivenBack == ASSUME NEW data, NEW items PROVE N!GivenBack(data, items) = NP!GivenBack(data, items)
BY SamePicked DEF N!GivenBack, NP!GivenBack, N!DeadOf, NP!DeadOf, N!Last, NP!Last, N!LastAttempt, NP!LastAttempt

LEMMA SameCycleSteps == ASSUME NEW c \in Cycle PROVE N!CycleStep(c) <=> NP!CycleStep(c)
<1>1. N!Find(c) <=> NP!Find(c)
  BY DEF N!guild, NP!guild, N!feeds, NP!feeds, N!out, NP!out, N!admin, NP!admin, N!NoData, NP!NoData, N!Goto,
     NP!Goto, N!Find, NP!Find
<1>2. N!LoadFeed(c) <=> NP!LoadFeed(c)
  BY DEF N!guild, NP!guild, N!out, NP!out, N!admin, NP!admin, N!ghost, NP!ghost, N!NoData, NP!NoData, N!Fault,
     NP!Fault, N!NoFault, NP!NoFault, N!Goto, NP!Goto, N!End, NP!End, N!LoadFeed, NP!LoadFeed
<1>3. N!ResolveChannel(c) <=> NP!ResolveChannel(c)
  BY SameFresh, SameQueue DEF N!guild, NP!guild, N!feeds, NP!feeds, N!out, NP!out, N!admin, NP!admin, N!Ids,
     NP!Ids, N!NoData, NP!NoData, N!Fault, NP!Fault, N!NoFault, NP!NoFault, N!Goto, NP!Goto, N!End, NP!End,
     N!Excuse, NP!Excuse, N!ResolveChannel, NP!ResolveChannel
<1>4. N!GiveUp(c) <=> NP!GiveUp(c)
  BY DEF N!feeds, NP!feeds, N!out, NP!out, N!admin, NP!admin, N!Off, NP!Off, N!Ids, NP!Ids, N!NoData, NP!NoData,
     N!Fault, NP!Fault, N!NoFault, NP!NoFault, N!Goto, NP!Goto, N!End, NP!End, N!Excuse, NP!Excuse, N!InHand,
     NP!InHand, N!InFlight, NP!InFlight, N!DisableForChannelError, NP!DisableForChannelError, N!GiveUp,
     NP!GiveUp
<1>5. N!Rebaseline(c) <=> NP!Rebaseline(c)
  BY DEF N!guild, NP!guild, N!feeds, NP!feeds, N!out, NP!out, N!admin, NP!admin, N!Update, NP!Update, N!Excuses,
     NP!Excuses, N!NoData, NP!NoData, N!Fault, NP!Fault, N!NoFault, NP!NoFault, N!Goto, NP!Goto, N!End, NP!End,
     N!Rebaseline, NP!Rebaseline
<1>6. N!SetHashVersion(c) <=> NP!SetHashVersion(c)
  BY DEF N!feeds, NP!feeds, N!out, NP!out, N!admin, NP!admin, N!ghost, NP!ghost, N!NoData, NP!NoData, N!Fault,
     NP!Fault, N!NoFault, NP!NoFault, N!Goto, NP!Goto, N!End, NP!End, N!SetHashVersion, NP!SetHashVersion
<1>7. N!EndClaims(c) <=> NP!EndClaims(c)
  BY DEF N!guild, NP!guild, N!feeds, NP!feeds, N!out, NP!out, N!admin, NP!admin, N!ghost, NP!ghost, N!Goto,
     NP!Goto, N!EndClaims, NP!EndClaims
<1>8. N!ClaimGuard(c) <=> NP!ClaimGuard(c)
  BY SameGivenBack DEF N!guild, NP!guild, N!feeds, NP!feeds, N!out, NP!out, N!admin, NP!admin, N!Ids, NP!Ids,
     N!Fault, NP!Fault, N!NoFault, NP!NoFault, N!Goto, NP!Goto, N!Excuse, NP!Excuse, N!GiveBack, NP!GiveBack,
     N!Subscribed, NP!Subscribed, N!ClaimGuard, NP!ClaimGuard
<1>9. N!Upsert(c) <=> NP!Upsert(c)
  BY SameGivenBack DEF N!guild, NP!guild, N!feeds, NP!feeds, N!out, NP!out, N!admin, NP!admin, N!Ids, NP!Ids,
     N!Fault, NP!Fault, N!NoFault, NP!NoFault, N!Goto, NP!Goto, N!Excuse, NP!Excuse, N!GiveBack, NP!GiveBack,
     N!Upsert, NP!Upsert
<1>10. N!Unclaim(c) <=> NP!Unclaim(c)
  BY SameGivenBack DEF N!guild, NP!guild, N!feeds, NP!feeds, N!out, NP!out, N!admin, NP!admin, N!Ids, NP!Ids,
     N!Fault, NP!Fault, N!NoFault, NP!NoFault, N!Goto, NP!Goto, N!Excuse, NP!Excuse, N!GiveBack, NP!GiveBack,
     N!RollBack, NP!RollBack, N!Unclaim, NP!Unclaim
<1>11. N!Send(c) <=> NP!Send(c)
  BY DEF N!guild, NP!guild, N!feeds, NP!feeds, N!admin, NP!admin, N!Update, NP!Update, N!Excuses, NP!Excuses,
     N!Ids, NP!Ids, N!Fault, NP!Fault, N!NoFault, NP!NoFault, N!Goto, NP!Goto, N!Excuse, NP!Excuse, N!ChunkOf,
     NP!ChunkOf, N!AfterChunk, NP!AfterChunk, N!Post, NP!Post, N!SendFails, NP!SendFails, N!Send, NP!Send
<1>12. N!Undo(c) <=> NP!Undo(c)
  BY SameGivenBack DEF N!guild, NP!guild, N!feeds, NP!feeds, N!out, NP!out, N!admin, NP!admin, N!Ids, NP!Ids,
     N!Fault, NP!Fault, N!NoFault, NP!NoFault, N!Goto, NP!Goto, N!Excuse, NP!Excuse, N!GiveBack, NP!GiveBack,
     N!RollBack, NP!RollBack, N!Undo, NP!Undo
<1>13. N!Disable(c) <=> NP!Disable(c)
  BY DEF N!feeds, NP!feeds, N!out, NP!out, N!admin, NP!admin, N!Off, NP!Off, N!Ids, NP!Ids, N!Fault, NP!Fault,
     N!NoFault, NP!NoFault, N!Goto, NP!Goto, N!Excuse, NP!Excuse, N!InHand, NP!InHand, N!InFlight, NP!InFlight,
     N!DisableForChannelError, NP!DisableForChannelError, N!Disable, NP!Disable
<1>14. N!Persist(c) <=> NP!Persist(c)
  BY DEF N!feeds, NP!feeds, N!out, NP!out, N!admin, NP!admin, N!Ids, NP!Ids, N!NoData, NP!NoData, N!Fault,
     NP!Fault, N!NoFault, NP!NoFault, N!Goto, NP!Goto, N!End, NP!End, N!Excuse, NP!Excuse, N!InHand, NP!InHand,
     N!OnChannel, NP!OnChannel, N!Persist, NP!Persist
<1>15. N!DeadLetter(c) <=> NP!DeadLetter(c)
  BY DEF N!guild, NP!guild, N!feeds, NP!feeds, N!admin, NP!admin, N!NoData, NP!NoData, N!Fault, NP!Fault,
     N!NoFault, NP!NoFault, N!Goto, NP!Goto, N!End, NP!End, N!Excuse, NP!Excuse, N!DeadLetter, NP!DeadLetter
<1> QED
  BY <1>1, <1>2, <1>3, <1>4, <1>5, <1>6, <1>7, <1>8, <1>9, <1>10, <1>11, <1>12, <1>13, <1>14, <1>15
     DEF N!CycleStep, NP!CycleStep

LEMMA SameCommandSteps == ASSUME NEW k \in Instance PROVE N!CommandStep(k) <=> NP!CommandStep(k)
<1>1. ASSUME NEW ch \in Channel PROVE N!Start(k, ch) <=> NP!Start(k, ch)
  BY DEF N!feeds, NP!feeds, N!out, NP!out, N!Ids, NP!Ids, N!Excuse, NP!Excuse, N!InHand, NP!InHand, N!InFlight,
     NP!InFlight, N!GotoCommand, NP!GotoCommand, N!Start, NP!Start
<1>2. N!FetchBaseline(k) <=> NP!FetchBaseline(k)
  BY DEF N!guild, NP!guild, N!feeds, NP!feeds, N!out, NP!out, N!ghost, NP!ghost, N!Fault, NP!Fault, N!NoFault,
     NP!NoFault, N!GotoCommand, NP!GotoCommand, N!FetchBaseline, NP!FetchBaseline
<1>3. N!SeedBaseline(k) <=> NP!SeedBaseline(k)
  BY DEF N!guild, NP!guild, N!feeds, NP!feeds, N!out, NP!out, N!Update, NP!Update, N!Excuses, NP!Excuses,
     N!Fault, NP!Fault, N!NoFault, NP!NoFault, N!GotoCommand, NP!GotoCommand, N!SeedBaseline, NP!SeedBaseline
<1>4. N!FinalizeActivation(k) <=> NP!FinalizeActivation(k)
  BY DEF N!feeds, NP!feeds, N!out, NP!out, N!ghost, NP!ghost, N!Fault, NP!Fault, N!NoFault, NP!NoFault,
     N!GotoCommand, NP!GotoCommand, N!IsActivation, NP!IsActivation, N!Finalized, NP!Finalized,
     N!FinalizeActivation, NP!FinalizeActivation
<1>5. N!RollbackActivation(k) <=> NP!RollbackActivation(k)
  BY DEF N!feeds, NP!feeds, N!out, NP!out, N!Off, NP!Off, N!Ids, NP!Ids, N!Fault, NP!Fault, N!NoFault,
     NP!NoFault, N!Excuse, NP!Excuse, N!InHand, NP!InHand, N!InFlight, NP!InFlight, N!GotoCommand,
     NP!GotoCommand, N!IsActivation, NP!IsActivation, N!RollbackActivation, NP!RollbackActivation
<1> QED
  BY <1>1, <1>2, <1>3, <1>4, <1>5 DEF N!CommandStep, NP!CommandStep

LEMMA SameSteps == [N!Next]_(N!vars) <=> [NP!Next]_(NP!vars)
<1>1. N!Stop <=> NP!Stop
  BY DEF N!feeds, NP!feeds, N!out, NP!out, N!admin, NP!admin, N!Off, NP!Off, N!Ids, NP!Ids, N!Excuse, NP!Excuse,
     N!InHand, NP!InHand, N!InFlight, NP!InFlight, N!Stop, NP!Stop
<1>2. N!Publish <=> NP!Publish
  BY DEF N!guild, NP!guild, N!out, NP!out, N!admin, NP!admin, N!ghost, NP!ghost, N!Publish, NP!Publish
<1>3. N!Crash <=> NP!Crash
  BY DEF N!guild, NP!guild, N!feeds, NP!feeds, N!out, NP!out, N!Ids, NP!Ids, N!NoData, NP!NoData, N!Fault,
     NP!Fault, N!Goto, NP!Goto, N!End, NP!End, N!Excuse, NP!Excuse, N!InHand, NP!InHand, N!GotoCommand,
     NP!GotoCommand, N!Crash, NP!Crash
<1>4. UNCHANGED N!vars <=> UNCHANGED NP!vars
  BY DEF N!guild, NP!guild, N!feeds, NP!feeds, N!out, NP!out, N!admin, NP!admin, N!ghost, NP!ghost, N!vars,
     NP!vars
<1> QED
  BY <1>1, <1>2, <1>3, <1>4, SameCycleSteps, SameCommandSteps DEF N!Next, NP!Next

LEMMA StartsAre == N!Spec => NP!Spec
  BY SameStartState, SameSteps, PTL DEF N!Spec, NP!Spec

LEMMA SameAssumption == N!CycleAssumption <=> NP!CycleAssumption
  BY DEF N!CycleAssumption, NP!CycleAssumption

(* A start of the updates, however long its baseline takes, changes the    *)
(* subscription only while the activation is its own.                      *)
LEMMA StartsTyped == ASSUME N!CycleAssumption PROVE N!Spec => []N!TypeOK
<1>1. NP!TypeInv => N!TypeOK
  BY SameTypes DEF NP!TypeInv
<1> QED
  BY <1>1, StartsAre, SameAssumption, NP!Typing, PTL

LEMMA StartsAreOwn == ASSUME N!CycleAssumption PROVE N!Spec => N!StartsKeepToThemselves
<1>1. [NP!OwnActivation]_(NP!vars) => [N!OwnActivation]_(N!vars)
  BY DEF N!guild, NP!guild, N!feeds, NP!feeds, N!out, NP!out, N!admin, NP!admin, N!ghost, NP!ghost, N!vars,
     NP!vars, N!OwnActivation, NP!OwnActivation
<1> QED
  BY <1>1, StartsAre, SameAssumption, NP!OwnStart, PTL DEF NP!StartsKeepToThemselves, N!StartsKeepToThemselves

(* A start changes only the subscription that it began, however long its   *)
(* baseline takes and whatever stops and starts come meanwhile.            *)
THEOREM StartsAreTheirOwn == AllSpec => StartsKeepToThemselves
BY ServicesAssumption, StartsAlone, StartsAreOwn, PTL DEF StartsKeepToThemselves

(* The variables of each component keep their types.                       *)
THEOREM ServicesAreTyped == AllSpec => []TypesOK
<1>1. SettingsInv /\ TypeOK /\ LimiterInv /\ VideoInv /\ PriceInv /\ ModerationInv /\ N!TypeOK
      /\ InspectorInv /\ HttpInv /\ BreakerInv /\ CountsInv /\ AlertsInv
      => TypesOK
  BY DEF TypesOK, SettingsInv, LimiterInv, VideoInv, PriceInv, ModerationInv, InspectorInv, HttpInv,
     BreakerInv, CountsInv, AlertsInv
<1>2. AllSpec => [](SettingsInv /\ TypeOK /\ LimiterInv /\ VideoInv)
  BY ServicesAssumption, SettingsAlone, LifeAlone, LimiterAlone, VideoAlone,
     SettingsInvariant, LifecycleTyped, LimiterInvariant, VideoInvariant, PTL
<1>3. AllSpec => [](PriceInv /\ ModerationInv /\ N!TypeOK /\ InspectorInv)
  BY ServicesAssumption, PriceAlone, MemberAlone, StartsAlone, InspectorAlone,
     PriceInvariant, ModerationInvariant, StartsTyped, InspectorInvariant, PTL
<1>4. AllSpec => [](HttpInv /\ BreakerInv /\ CountsInv /\ AlertsInv)
  BY ServicesAssumption, HttpAlone, BreakerAlone, CountsAlone, AlertsAlone,
     HttpInvariant, BreakerInvariant, CountsInvariant, AlertsInvariant, PTL
<1> QED
  BY <1>1, <1>2, <1>3, <1>4, PTL
================================================================================
