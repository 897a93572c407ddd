------------------------------- MODULE Lifecycle -------------------------------
(***************************************************************************)
(* Instances of the bot booting, working and shutting down                 *)
(* (infra/mongo/migrations.ts, app/lifecycle/shutdown.ts and bootPhases.ts,*)
(* app/scheduler/cron.ts, outboxWorker.ts and scheduledTaskRunner.ts,      *)
(* app/lifecycle/ingressActivityTracker.ts).                               *)
(*                                                                         *)
(* An action is one awaited call.  The locks are those of DbLock, seen     *)
(* from outside: a holder, and a lease that runs out once the holder is    *)
(* gone or, unless Timely, at any time (the migration lock is not          *)
(* renewed).  A migration is idempotent; interrupted, it is done in part.  *)
(***************************************************************************)
EXTENDS Integers, FiniteSets

CONSTANTS Instance,
          Target,      \* targetMigrationId: migrations are 1 .. Target
          Timely,      \* no lease runs out while its holder lives
          MaxStarts    \* bound on the starts of instances and of their jobs

Nobody == "nobody"
LifecycleAssumption ==
    /\ Target \in Nat \ {0} /\ MaxStarts \in Nat /\ Timely \in BOOLEAN
    /\ Nobody \notin Instance

Job == {"cron", "outbox", "task", "sweep"}
(* The stop of the anti-raid sweep clears its timer and awaits nothing. *)
Awaited == Job \ {"sweep"}
Lock == {"db_migrations", "cron", "outbox"}

VARIABLES boot,     \* of each instance: the step of its boot, what it read
          job,      \* of each instance: the steps of its background jobs
          ops,      \* of each instance: is a gateway operation in flight
          shut,     \* of each instance: the step of shutdown()
          lock,     \* who holds each lock
          done,     \* what of each migration is in the database
          applied,  \* migrationState.lastApplied
          starts

db == <<lock, done, applied>>
vars == <<boot, job, ops, shut, db, starts>>

Down == [pc |-> "down", next |-> 0]
Running == [stage |-> "no", unstopped |-> FALSE, undrained |-> FALSE]

TypeOK ==
    /\ boot \in [Instance -> [pc : {"down", "lock", "read", "up", "half", "write", "unlock",
                                    "wait", "failed", "booted"}, next : 0 .. Target + 1]]
    /\ job \in [Instance -> [Job -> {"idle", "acquire", "run"}]]
    /\ ops \in [Instance -> BOOLEAN]
    /\ shut \in [Instance -> [stage : {"no", "stop", "unlock", "drain", "close", "closed"},
                              unstopped : BOOLEAN, undrained : BOOLEAN]]
    /\ lock \in [Lock -> Instance \cup {Nobody}]
    /\ done \in [1 .. Target -> {"no", "part", "done"}]
    /\ applied \in 0 .. Target /\ starts \in 0 .. MaxStarts

Init ==
    /\ boot = [i \in Instance |-> Down]
    /\ job = [i \in Instance |-> [j \in Job |-> "idle"]]
    /\ ops = [i \in Instance |-> FALSE]
    /\ shut = [i \in Instance |-> Running]
    /\ lock = [l \in Lock |-> Nobody]
    /\ done = [m \in 1 .. Target |-> "no"] /\ applied = 0
    /\ starts = 0

At(i, pc) == boot[i].pc = pc /\ shut[i].stage # "closed"
Goto(i, pc) == boot' = [boot EXCEPT ![i].pc = pc]
(* The boot is over, and what it read is forgotten. *)
Leave(i, pc) == boot' = [boot EXCEPT ![i] = [pc |-> pc, next |-> 0]]
Holds(i, l) == lock[l] = i
Release(i, l) == lock' = [lock EXCEPT ![l] = IF @ = i THEN Nobody ELSE @]
Stopped(i) == \A j \in Awaited : job[i][j] = "idle"

-----------------------------------------------------------------------------
(* runMigrations in the database phase of the boot. *)
Start(i) ==
    /\ boot[i].pc = "down" /\ starts < MaxStarts
    /\ starts' = starts + 1
    /\ Goto(i, "lock") /\ shut' = [shut EXCEPT ![i] = Running]
    /\ UNCHANGED <<job, ops, db>>

AcquireMigrations(i) ==
    /\ At(i, "lock")
    /\ IF lock["db_migrations"] = Nobody
       THEN lock' = [lock EXCEPT !["db_migrations"] = i] /\ Goto(i, "read")
       ELSE Goto(i, "wait") /\ UNCHANGED lock
    /\ UNCHANGED <<job, ops, shut, done, applied, starts>>

(* readLastApplied: once, before the first migration. *)
ReadApplied(i) ==
    /\ At(i, "read")
    /\ boot' = [boot EXCEPT ![i] = [pc |-> IF applied = Target THEN "unlock" ELSE "up", next |-> applied + 1]]
    /\ UNCHANGED <<job, ops, shut, db, starts>>

(* up(), seen when it has begun to write and when it has ended. *)
BeginUp(i) ==
    /\ At(i, "up") /\ Goto(i, "half")
    /\ done' = [done EXCEPT ![boot[i].next] = IF @ = "no" THEN "part" ELSE @]
    /\ UNCHANGED <<job, ops, shut, lock, applied, starts>>

EndUp(i) ==
    /\ At(i, "half") /\ Goto(i, "write")
    /\ done' = [done EXCEPT ![boot[i].next] = "done"]
    /\ UNCHANGED <<job, ops, shut, lock, applied, starts>>

(* A migration that fails ends the boot, its lock released. *)
FailUp(i) ==
    /\ At(i, "half") /\ Leave(i, "failed")
    /\ Release(i, "db_migrations")
    /\ UNCHANGED <<job, ops, shut, done, applied, starts>>

(* Mutant: the state is written as the schema's target, not as this step. *)
WriteApplied_Target(i) ==
    /\ At(i, "write") /\ applied' = Target
    /\ boot' = [boot EXCEPT ![i] = [pc |-> IF @.next = Target THEN "unlock" ELSE "up", next |-> @.next + 1]]
    /\ UNCHANGED <<job, ops, shut, lock, done, starts>>

(* lastApplied is set to the migration just made, whatever it was by then. *)
WriteApplied(i) ==
    /\ At(i, "write") /\ applied' = boot[i].next
    /\ boot' = [boot EXCEPT ![i] = [pc |-> IF @.next = Target THEN "unlock" ELSE "up", next |-> @.next + 1]]
    /\ UNCHANGED <<job, ops, shut, lock, done, starts>>

Unlock(i) ==
    /\ At(i, "unlock") /\ Leave(i, "booted")
    /\ Release(i, "db_migrations")
    /\ UNCHANGED <<job, ops, shut, done, applied, starts>>

(* waitForOtherInstanceMigrations: until the state says the target, or a   *)
(* timeout that stops the boot.                                            *)
Wait(i) ==
    /\ At(i, "wait")
    /\ \/ applied >= Target /\ Goto(i, "booted")
       \/ applied < Target /\ Goto(i, "failed")
    /\ UNCHANGED <<job, ops, shut, db, starts>>

-----------------------------------------------------------------------------
(* The jobs of a booted instance.  A cron cycle and an outbox drain need   *)
(* their lock; a scheduled task and the sweep run alone in their process.  *)
Begin(i, j, pc) ==
    /\ boot[i].pc = "booted" /\ shut[i].stage = "no" /\ job[i][j] = "idle"
    /\ starts < MaxStarts /\ starts' = starts + 1
    /\ job' = [job EXCEPT ![i][j] = pc]
    /\ UNCHANGED <<boot, ops, shut, db>>

BeginCycle(i) == Begin(i, "cron", "acquire")
BeginDrain(i) == Begin(i, "outbox", "acquire")
RunTask(i) == Begin(i, "task", "run")
RunSweep(i) == Begin(i, "sweep", "run")

Acquire(i, j) ==
    /\ job[i][j] = "acquire"
    /\ IF shut[i].stage # "closed" /\ lock[j] = Nobody
       THEN lock' = [lock EXCEPT ![j] = i] /\ job' = [job EXCEPT ![i][j] = "run"]
       ELSE job' = [job EXCEPT ![i][j] = "idle"] /\ UNCHANGED lock
    /\ UNCHANGED <<boot, ops, shut, done, applied, starts>>

(* The end of a cycle or drain: what shouldAbort allows is done, the lock  *)
(* is released when the database still answers.                            *)
EndJob(i, j) ==
    /\ job[i][j] = "run" /\ job' = [job EXCEPT ![i][j] = "idle"]
    /\ IF j \in Lock /\ shut[i].stage # "closed" THEN Release(i, j) ELSE UNCHANGED lock
    /\ UNCHANGED <<boot, ops, shut, done, applied, starts>>

(* ingress.track around a gateway handler. *)
BeginOp(i) ==
    /\ boot[i].pc = "booted" /\ shut[i].stage = "no" /\ ~ops[i]
    /\ ops' = [ops EXCEPT ![i] = TRUE]
    /\ UNCHANGED <<boot, job, shut, db, starts>>

EndOp(i) ==
    /\ ops[i] /\ ops' = [ops EXCEPT ![i] = FALSE]
    /\ UNCHANGED <<boot, job, shut, db, starts>>

-----------------------------------------------------------------------------
(* shutdown(): the handlers are registered before the boot begins. *)
Signal(i) ==
    /\ boot[i].pc # "down" /\ shut[i].stage = "no"
    /\ shut' = [shut EXCEPT ![i].stage = "stop"]
    /\ UNCHANGED <<boot, job, ops, db, starts>>

(* Mutant: a stop that clears the timers and does not wait for the flights. *)
StopAll_TimersOnly(i) ==
    /\ shut[i].stage = "stop"
    /\ shut' = [shut EXCEPT ![i].stage = "unlock"]
    /\ UNCHANGED <<boot, job, ops, db, starts>>

(* Mutant: the stops are awaited without a deadline. *)
StopAll_NoDeadline(i) ==
    /\ shut[i].stage = "stop" /\ Stopped(i)
    /\ shut' = [shut EXCEPT ![i].stage = "unlock"]
    /\ UNCHANGED <<boot, job, ops, db, starts>>

(* stopAll: every component confirmed, or its deadline passed. *)
StopAll(i) ==
    /\ shut[i].stage = "stop"
    /\ shut' = [shut EXCEPT ![i].stage = "unlock", ![i].unstopped = ~Stopped(i)]
    /\ UNCHANGED <<boot, job, ops, db, starts>>

(* The locks this process holds are released if every component confirmed. *)
ReleaseLocks(i) ==
    /\ shut[i].stage = "unlock"
    /\ lock' = [l \in Lock |-> IF Holds(i, l) /\ ~shut[i].unstopped THEN Nobody ELSE lock[l]]
    /\ shut' = [shut EXCEPT ![i].stage = "drain"]
    /\ UNCHANGED <<boot, job, ops, done, applied, starts>>

DrainIngress(i) ==
    /\ shut[i].stage = "drain"
    /\ shut' = [shut EXCEPT ![i].stage = "close", ![i].undrained = ops[i]]
    /\ UNCHANGED <<boot, job, ops, db, starts>>

CloseMongo(i) ==
    /\ shut[i].stage = "close"
    /\ shut' = [shut EXCEPT ![i].stage = "closed"]
    /\ UNCHANGED <<boot, job, ops, db, starts>>

Gone(i) ==
    /\ boot' = [boot EXCEPT ![i] = Down]
    /\ job' = [job EXCEPT ![i] = [j \in Job |-> "idle"]]
    /\ ops' = [ops EXCEPT ![i] = FALSE]
    /\ shut' = [shut EXCEPT ![i] = Running]

Exit(i) == shut[i].stage = "closed" /\ Gone(i) /\ UNCHANGED <<db, starts>>

(* A crash, or the exit of a boot that failed. *)
Crash(i) == boot[i].pc # "down" /\ Gone(i) /\ UNCHANGED <<db, starts>>

(* A lease runs out. *)
Works(i, l) ==
    IF l = "db_migrations" THEN boot[i].pc \in {"read", "up", "half", "write", "unlock"}
    ELSE job[i][l] = "run"
Expire(l) ==
    /\ lock[l] # Nobody
    /\ Timely => ~Works(lock[l], l)
    /\ lock' = [lock EXCEPT ![l] = Nobody]
    /\ UNCHANGED <<boot, job, ops, shut, done, applied, starts>>

Next ==
    \/ \E i \in Instance :
         \/ Start(i) \/ AcquireMigrations(i) \/ ReadApplied(i) \/ BeginUp(i) \/ EndUp(i) \/ FailUp(i)
         \/ WriteApplied(i) \/ Unlock(i) \/ Wait(i)
         \/ BeginCycle(i) \/ BeginDrain(i) \/ RunTask(i) \/ RunSweep(i) \/ BeginOp(i) \/ EndOp(i)
         \/ \E j \in {"cron", "outbox"} : Acquire(i, j)
         \/ \E j \in Job : EndJob(i, j)
         \/ Signal(i) \/ StopAll(i) \/ ReleaseLocks(i) \/ DrainIngress(i) \/ CloseMongo(i)
         \/ Exit(i) \/ Crash(i)
    \/ \E l \in Lock : Expire(l)

Spec == Init /\ [][Next]_vars

(* shutdown() races every wait against a deadline, so its steps are taken  *)
(* whatever the jobs and the gateway operations do.                        *)
ShutdownStep(i) == StopAll(i) \/ ReleaseLocks(i) \/ DrainIngress(i) \/ CloseMongo(i) \/ Exit(i)
FairSpec == Spec /\ \A i \in Instance : WF_vars(ShutdownStep(i))

-----------------------------------------------------------------------------
(* The promises of the boot: whatever instances overlap in runMigrations   *)
(* (a lease that ran out, a shutdown that released the lock), lastApplied  *)
(* names migrations that are all in the database, so an instance that      *)
(* waited for another does not work on half a schema.                      *)
AppliedAreDone ==
    /\ \A m \in 1 .. applied : done[m] = "done"
    /\ \A i \in Instance : boot[i].pc = "booted" => \A m \in 1 .. Target : done[m] = "done"

(* The order of shutdown(): while leases are timely a running cycle or     *)
(* drain has its lock, also while its process is being shut down; and      *)
(* Mongo is closed under an awaited job or a gateway operation only after  *)
(* its deadline was reported missed.                                       *)
WorkIsCovered ==
    \A i \in Instance :
        /\ Timely => \A j \in {"cron", "outbox"} : job[i][j] = "run" => Holds(i, j)
        /\ shut[i].stage = "closed" =>
             (Stopped(i) \/ shut[i].unstopped) /\ (ops[i] => shut[i].undrained)

(* A shutdown ends: it waits for jobs that may hang in a call, and is not  *)
(* held by them.                                                           *)
ShutdownEnds == \A i \in Instance : shut[i].stage = "stop" ~> boot[i].pc = "down"

(* Every background component, the sweep among them, has stopped or is     *)
(* reported before Mongo is closed.                                        *)
SweepIsCovered ==
    \A i \in Instance : shut[i].stage = "closed" /\ job[i]["sweep"] = "run" => shut[i].unstopped

(* Locks are released at shutdown only when nothing that uses them is      *)
(* under way: no two instances migrate at once.                            *)
Migrating(i) == boot[i].pc \in {"read", "up", "half", "write"}
OneMigrates == \A i, k \in Instance : (i # k /\ Migrating(i)) => ~Migrating(k)
=============================================================================
