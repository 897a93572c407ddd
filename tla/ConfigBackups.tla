----------------------------- MODULE ConfigBackups -----------------------------
(***************************************************************************)
(* The backups of a guild's configuration: /backup add, load and delete    *)
(* (features/command-handlers/backupInteractionHandler.ts), the store with *)
(* its limit (features/admin-records/configBackupRepository.ts), and the   *)
(* channels and roles that a load creates anew                             *)
(* (backupResourceRestorePlan.ts, backupResourceRestoreRuntime.ts).        *)
(*                                                                         *)
(* Each command ends as an operation of the journal (OperationJournal):    *)
(* one that a crash cut short is executed again, unless a newer one of the *)
(* same resource is known.  All backups refer to the same resources, which *)
(* may be gone from the server.  An action is one awaited call.            *)
(***************************************************************************)
EXTENDS Integers, FiniteSets

CONSTANTS Name,         \* names of backups
          Reference,    \* the resources that a backup refers to
          Commander,    \* the commands; of two, the one with the larger at is newer
          NoBackup,
          MaxBackups,   \* MAX_CONFIG_BACKUPS
          MaxFaults     \* bound on crashes, failed calls and deletions by hand

BackupAssumption ==
    /\ MaxBackups \in Nat /\ MaxFaults \in Nat /\ IsFiniteSet(Commander)
    /\ Reference \cap (Reference \X Commander) = {}

(* A resource: the one the backups name, or the one that a load made for   *)
(* it, called restored-<kind>-<id>.                                        *)
Resource == Reference \cup (Reference \X Commander)

VARIABLES store,      \* of each name: when its backup was made, 0 without one
          clock,      \* the commands so far
          live,       \* the resources of the server
          config,     \* the resources that the configuration refers to
          cmd,        \* the state of each command
          removed,    \* the resources a person deleted
          shared,     \* the resources a load saw while their maker was at work
          raced,      \* names saved while another command was at work on them
          faults

vars == <<store, clock, live, config, cmd, removed, shared, raced, faults>>

(* at: the interaction id; drop: the names to delete; cache: the resources *)
(* that the load saw; map: what stands for a reference; made: by this one. *)
Idle == [pc |-> "idle", kind |-> "save", name |-> NoBackup, at |-> 0, drop |-> {}, cache |-> {},
         todo |-> {}, map |-> {}, made |-> {}]

Init ==
    /\ store = [n \in Name |-> 0] /\ clock = 0 /\ live \in SUBSET Reference
    /\ config = {} /\ cmd = [c \in Commander |-> Idle]
    /\ removed = {} /\ shared = {} /\ raced = {} /\ faults = 0

Commands == Cardinality(Commander)

TypeOK ==
    /\ store \in [Name -> 0 .. Commands] /\ clock \in 0 .. Commands
    /\ {live, config, removed, shared} \subseteq SUBSET Resource
    /\ raced \subseteq Name /\ faults \in 0 .. MaxFaults
    /\ \A c \in Commander :
         /\ cmd[c].pc \in {"idle", "upsert", "overflow", "drop", "delete", "create", "undo", "apply",
                           "done", "failed", "pending"}
         /\ cmd[c].kind \in {"save", "delete", "load"} /\ cmd[c].name \in Name \cup {NoBackup}
         /\ cmd[c].at \in 0 .. Commands /\ cmd[c].drop \subseteq Name
         /\ cmd[c].todo \subseteq Reference /\ cmd[c].map \subseteq Resource
         /\ cmd[c].cache \subseteq Resource /\ cmd[c].made \subseteq Resource

Fault == faults < MaxFaults /\ faults' = faults + 1
Put(c, r) == cmd' = [cmd EXCEPT ![c] = r]
At(c, pc) == cmd[c].pc = pc
Move(c, pc) == Put(c, [cmd[c] EXCEPT !.pc = pc])

(* The journal knows a newer operation of the same resource.               *)
SameResource(c, d) ==
    IF cmd[c].kind = "load" THEN cmd[d].kind = "load"
    ELSE cmd[d].kind # "load" /\ cmd[d].name = cmd[c].name

Superseded(c) ==
    \E d \in Commander :
        /\ cmd[d].at > cmd[c].at /\ SameResource(c, d)
        /\ cmd[d].pc \notin {"idle", "create", "undo", "failed"}

-----------------------------------------------------------------------------
Start(c, kind, n) == [Idle EXCEPT !.kind = kind, !.name = n, !.at = clock + 1]

(* handleAdd *)
Save(c, n) ==
    /\ At(c, "idle") /\ Put(c, [Start(c, "save", n) EXCEPT !.pc = "upsert"])
    /\ clock' = clock + 1
    /\ UNCHANGED <<store, live, config, removed, shared, raced, faults>>

Writes(d, n) == cmd[d].name = n /\ cmd[d].pc \in {"upsert", "overflow", "delete"}

(* saveConfigBackupRecord: the backup of that name is replaced. *)
Upsert(c) ==
    /\ At(c, "upsert")
    /\ store' = [store EXCEPT ![cmd[c].name] = cmd[c].at]
    /\ raced' = IF \E d \in Commander \ {c} : cmd[c].name \in cmd[d].drop \/ Writes(d, cmd[c].name)
                THEN raced \cup {cmd[c].name} ELSE raced
    /\ Move(c, "overflow")
    /\ UNCHANGED <<clock, live, config, removed, shared, faults>>

Newer(n) == {m \in Name : store[m] > store[n]}

(* Those after the newest MaxBackups. *)
Overflow == {n \in Name : store[n] > 0 /\ Cardinality(Newer(n)) >= MaxBackups}

FindOverflow(c) ==
    /\ At(c, "overflow")
    /\ Put(c, [cmd[c] EXCEPT !.pc = IF Overflow = {} THEN "done" ELSE "drop", !.drop = Overflow])
    /\ UNCHANGED <<store, clock, live, config, removed, shared, raced, faults>>

(* They are deleted by their names. *)
DropOverflow(c) ==
    /\ At(c, "drop")
    /\ store' = [n \in Name |-> IF n \in cmd[c].drop THEN 0 ELSE store[n]]
    /\ Put(c, [cmd[c] EXCEPT !.pc = "done", !.drop = {}])
    /\ UNCHANGED <<clock, live, config, removed, shared, raced, faults>>

(* handleDelete: the backup was found. *)
Delete(c, n) ==
    /\ At(c, "idle") /\ store[n] > 0
    /\ Put(c, [Start(c, "delete", n) EXCEPT !.pc = "delete"]) /\ clock' = clock + 1
    /\ UNCHANGED <<store, live, config, removed, shared, raced, faults>>

DeleteOne(c) ==
    /\ At(c, "delete") /\ store' = [store EXCEPT ![cmd[c].name] = 0] /\ Move(c, "done")
    /\ UNCHANGED <<clock, live, config, removed, shared, raced, faults>>

-----------------------------------------------------------------------------
AtWork(d) == cmd[d].pc \in {"create", "undo"}

(* handleLoad: the plan; what is missing is to be made. *)
Load(c, n) ==
    /\ At(c, "idle") /\ store[n] > 0 /\ clock' = clock + 1
    /\ Put(c, [Start(c, "load", n) EXCEPT !.pc = "create", !.cache = live,
                    !.todo = Reference \ live, !.map = Reference \cap live])
    /\ shared' = shared \cup {x \in live : \E d \in Commander : AtWork(d) /\ x \in cmd[d].made}
    /\ UNCHANGED <<store, live, config, removed, raced, faults>>

(* Mutant: what a load found is in its list of created resources, too. *)
Reuse_IntoCreated(c, r, d) ==
    [cmd[c] EXCEPT !.todo = @ \ {r}, !.map = @ \cup {<<r, d>>}, !.made = @ \cup {<<r, d>>}]

Reuse(c, r, d) == [cmd[c] EXCEPT !.todo = @ \ {r}, !.map = @ \cup {<<r, d>>}]

(* A resource of the name, among those the load saw when it began, serves. *)
ReuseRestored(c) ==
    /\ At(c, "create")
    /\ \E r \in cmd[c].todo, d \in Commander :
         <<r, d>> \in cmd[c].cache /\ Put(c, Reuse(c, r, d))
    /\ UNCHANGED <<store, clock, live, config, removed, shared, raced, faults>>

Create(c) ==
    /\ At(c, "create")
    /\ \E r \in cmd[c].todo :
         /\ \A d \in Commander : <<r, d>> \notin cmd[c].cache
         /\ live' = live \cup {<<r, c>>}
         /\ Put(c, [cmd[c] EXCEPT !.todo = @ \ {r}, !.map = @ \cup {<<r, c>>},
                                  !.made = @ \cup {<<r, c>>}])
    /\ UNCHANGED <<store, clock, config, removed, shared, raced, faults>>

(* The server refuses: all that the load created is deleted again. *)
CreateFails(c) ==
    /\ Fault /\ At(c, "create") /\ cmd[c].todo # {} /\ Move(c, "undo")
    /\ UNCHANGED <<store, clock, live, config, removed, shared, raced>>

(* rollbackMaterializedResources; a deletion that fails is passed over.    *)
Rollback(c) ==
    /\ At(c, "undo")
    /\ \/ \E x \in cmd[c].made :
            /\ Put(c, [cmd[c] EXCEPT !.made = @ \ {x}])
            /\ \/ live' = live \ {x} /\ UNCHANGED faults
               \/ Fault /\ UNCHANGED live
       \/ cmd[c].made = {} /\ Put(c, [Idle EXCEPT !.pc = "failed"]) /\ UNCHANGED <<live, faults>>
    /\ UNCHANGED <<store, clock, config, removed, shared, raced>>

(* The snapshot is remapped and goes to the journal. *)
Materialized(c) ==
    /\ At(c, "create") /\ cmd[c].todo = {}
    /\ Put(c, [cmd[c] EXCEPT !.pc = "apply", !.cache = {}, !.made = {}])
    /\ UNCHANGED <<store, clock, live, config, removed, shared, raced, faults>>

(* loadConfigBackupWithAudit *)
Apply(c) ==
    /\ At(c, "apply") /\ config' = cmd[c].map /\ Move(c, "done")
    /\ UNCHANGED <<store, clock, live, removed, shared, raced, faults>>

-----------------------------------------------------------------------------
Executing == {"upsert", "overflow", "drop", "delete", "apply"}

(* The process dies.  Before the journal has the command nothing goes on;  *)
(* afterwards the operation stays pending.                                 *)
Crash(c) ==
    /\ Fault
    /\ \/ AtWork(c) /\ Put(c, [Idle EXCEPT !.pc = "failed"])
       \/ cmd[c].pc \in Executing /\ Put(c, [cmd[c] EXCEPT !.pc = "pending", !.drop = {}])
    /\ UNCHANGED <<store, clock, live, config, removed, shared, raced>>

(* recover: executed from its start, or superseded. *)
Recover(c) ==
    /\ At(c, "pending")
    /\ \/ Superseded(c) /\ Move(c, "done")
       \/ ~Superseded(c) /\ Move(c, CASE cmd[c].kind = "save" -> "upsert"
                                      [] cmd[c].kind = "delete" -> "delete"
                                      [] cmd[c].kind = "load" -> "apply")
    /\ UNCHANGED <<store, clock, live, config, removed, shared, raced, faults>>

(* Someone deletes a channel or a role of the server. *)
Remove(x) ==
    /\ Fault /\ x \in live /\ live' = live \ {x} /\ removed' = removed \cup {x}
    /\ UNCHANGED <<store, clock, config, cmd, shared, raced>>

Next ==
    \/ \E c \in Commander :
        \/ \E n \in Name : Save(c, n) \/ Delete(c, n) \/ Load(c, n)
        \/ Upsert(c) \/ FindOverflow(c) \/ DropOverflow(c) \/ DeleteOne(c)
        \/ ReuseRestored(c) \/ Create(c) \/ CreateFails(c) \/ Rollback(c) \/ Materialized(c)
        \/ Apply(c) \/ Crash(c) \/ Recover(c)
    \/ \E x \in Resource : Remove(x)

Spec == Init /\ [][Next]_vars

-----------------------------------------------------------------------------
(* The newest backup that was saved is there: while saves, their clean-up  *)
(* and their recovery interleave, the limit only takes older backups.  It  *)
(* may be gone when a command deleted it, or when it was saved while an    *)
(* older save of the name was at work, or one that had chosen that name to *)
(* be dropped.                                                             *)
NewestIsKept ==
    \A c \in Commander :
        LET n == cmd[c].name
        IN  cmd[c].kind = "save" /\ At(c, "done") /\ ~Superseded(c)
              /\ Cardinality({d \in Commander : cmd[d].at > cmd[c].at}) < MaxBackups
            => \/ store[n] > 0
               \/ n \in raced
               \/ \E d \in Commander : cmd[d].kind = "delete" /\ cmd[d].name = n

(* What the restored configuration refers to exists, however loads fail,   *)
(* roll back, crash and recover.  A resource that a person deleted may be  *)
(* missing, and one that the load borrowed from a load still at work.      *)
RestoredExists == config \subseteq live \cup removed \cup shared
=============================================================================
