------------------------------ MODULE ChannelLock ------------------------------
(***************************************************************************)
(* /lock-channel and /unlock-channel on one channel, and the recovery of   *)
(* what they leave behind when a write and its rollback both fail          *)
(* (features/command-security/channelLockUseCase.ts,                       *)
(* channelLockRecoveryRepository.ts, channelLockRecoveryRuntime.ts,        *)
(* app/scheduler/channelLockRecoveryTask.ts and the lock branch of         *)
(* features/command-handlers/securityInteractionHandler.ts).               *)
(*                                                                         *)
(* An action is one awaited call; a call that fails may have been applied, *)
(* and the process may end between two.  Commands on a channel come one at *)
(* a time, none while a divergence is recorded for it, and moderators edit *)
(* the permission by hand only when neither a command nor the recovery is  *)
(* at work: see the README for what the code does otherwise.               *)
(***************************************************************************)
EXTENDS Naturals

CONSTANTS MaxCommands, MaxFaults, MaxHands   \* bounds on a behaviour

LockAssumption == {MaxCommands, MaxFaults, MaxHands} \subseteq Nat

VARIABLES perm,     \* SendMessages of @everyone on Discord
          stored,   \* lockedChannelPermissions: the state to go back to, or "unlocked"
          record,   \* the document of channelLockRecoveries
          command,  \* the command in flight
          worker,   \* runRecoveryCycle: the step and the record it listed
          open,     \* the state the moderators want when unlocked (history)
          shut,     \* what they last gave the channel while it was stored locked (history)
          told,     \* a divergence was reported and nothing was scheduled for it
          cut,      \* a command ended between its writes, with nothing reported (history)
          budget

vars == <<perm, stored, record, command, worker, open, shut, told, cut, budget>>

PermissionState == {"allow", "deny", "inherit"}
Unlocked == "unlocked"
NoRecord == [present |-> FALSE, previous |-> "inherit", diverged |-> "inherit",
             desired |-> "inherit", lock |-> FALSE]
Record == [present : BOOLEAN, previous : PermissionState, diverged : PermissionState,
           desired : PermissionState, lock : BOOLEAN]
NoCommand == [pc |-> "none", lock |-> FALSE, previous |-> "inherit"]

TypeOK ==
    /\ {perm, open, shut} \subseteq PermissionState
    /\ stored \in PermissionState \cup {Unlocked}
    /\ record \in Record
    /\ command \in [pc : {"none", "edit", "persist", "revert", "record", "notice",
                          "unpersist", "unedit"},
                    lock : BOOLEAN, previous : PermissionState]
    /\ worker \in [pc : {"idle", "read", "edit", "persist", "close"}, record : Record]
    /\ {told, cut} \subseteq BOOLEAN
    /\ budget \in [commands : 0 .. MaxCommands, faults : 0 .. MaxFaults, hands : 0 .. MaxHands]

Init ==
    /\ perm = "inherit" /\ open = "inherit" /\ stored = Unlocked /\ record = NoRecord
    /\ command = NoCommand /\ worker = [pc |-> "idle", record |-> NoRecord]
    /\ shut = "deny" /\ told = FALSE /\ cut = FALSE
    /\ budget = [commands |-> 0, faults |-> 0, hands |-> 0]

Spend(what, max) == budget[what] < max /\ budget' = [budget EXCEPT ![what] = @ + 1]
Fault == Spend("faults", MaxFaults)
Goto(pc) == command' = [command EXCEPT !.pc = pc]
AtRest == command.pc = "none" /\ worker.pc = "idle"

Moderation == <<perm, stored, open, shut>>
Words == <<told, cut>>

-----------------------------------------------------------------------------

(* Mutant: a lock too keeps what is stored, not what the channel shows. *)
Begin_StoredAlways(lock) ==
    /\ AtRest /\ ~record.present /\ lock = (stored = Unlocked)
    /\ Spend("commands", MaxCommands)
    /\ command' = [pc |-> "edit", lock |-> lock, previous |-> stored]
    /\ UNCHANGED <<Moderation, record, worker, Words>>

(* The command.  A moderator waits for the recovery of a recorded divergence. *)
Begin(lock) ==
    /\ AtRest /\ ~record.present /\ lock = (stored = Unlocked)
    /\ Spend("commands", MaxCommands)
    /\ command' = [pc |-> "edit", lock |-> lock, previous |-> IF lock THEN perm ELSE stored]
    /\ UNCHANGED <<Moderation, record, worker, Words>>

(* A failure is answered "failed", and the overwrite is not looked at.     *)
EditOverwrite ==
    /\ command.pc = "edit"
    /\ LET edited == IF command.lock THEN "deny" ELSE command.previous
       IN  \/ /\ perm' = edited /\ shut' = "deny" /\ Goto("persist")
              /\ UNCHANGED <<cut, budget>>
           \/ Fault /\ Goto("none") /\ UNCHANGED <<perm, shut, cut>>
           \/ Fault /\ Goto("none") /\ perm' = edited /\ cut' = TRUE /\ UNCHANGED shut
    /\ UNCHANGED <<stored, record, worker, open, told>>

PersistState ==
    /\ command.pc = "persist"
    /\ LET persisted == IF command.lock THEN command.previous ELSE Unlocked
       IN  \/ /\ stored' = persisted
              /\ Goto(IF command.lock THEN "notice" ELSE "none") /\ UNCHANGED budget
           \/ Fault /\ Goto("revert") /\ stored' \in {stored, persisted}
    /\ UNCHANGED <<perm, record, worker, open, shut, Words>>

\* Mutant: the retries exhausted count as a rollback.
RevertOverwrite_Optimistic ==
    /\ command.pc = "revert"
    /\ \/ /\ perm' = IF command.lock THEN command.previous ELSE "deny"
          /\ UNCHANGED budget
       \/ Fault /\ UNCHANGED perm
    /\ Goto("none")
    /\ UNCHANGED <<stored, record, worker, open, shut, Words>>

(* A rollback that succeeds ends the command, even when the write it rolls *)
(* back had been applied.                                                  *)
RevertOverwrite ==
    /\ command.pc = "revert"
    /\ LET reverted == IF command.lock THEN command.previous ELSE "deny"
           applied == (stored = Unlocked) # command.lock
       IN  \/ /\ perm' = reverted /\ Goto("none") /\ cut' = (cut \/ applied)
              /\ UNCHANGED budget
           \/ Fault /\ Goto("record") /\ perm' \in {perm, reverted} /\ UNCHANGED cut
    /\ UNCHANGED <<stored, record, worker, open, shut, told>>

RecordDivergence ==
    /\ command.pc = "record" /\ Goto("none")
    /\ LET divergence ==
             [present |-> TRUE, previous |-> command.previous, lock |-> ~command.lock,
              diverged |-> IF command.lock THEN "deny" ELSE command.previous,
              desired |-> IF command.lock THEN command.previous ELSE "deny"]
       IN  \/ record' = divergence /\ UNCHANGED <<told, budget>>
           \/ Fault /\ told' = TRUE /\ record' \in {record, divergence}
    /\ UNCHANGED <<Moderation, worker, cut>>

(* A notice that cannot be sent undoes both writes, each on its own. *)
SendNotice ==
    /\ command.pc = "notice"
    /\ \/ Goto("none") /\ UNCHANGED budget
       \/ Fault /\ Goto("unpersist")
    /\ UNCHANGED <<Moderation, record, worker, Words>>

RevertPersistence ==
    /\ command.pc = "unpersist" /\ Goto("unedit")
    /\ \/ stored' = Unlocked /\ UNCHANGED <<told, budget>>
       \/ Fault /\ told' = TRUE /\ stored' \in {stored, Unlocked}
    /\ UNCHANGED <<perm, record, worker, open, shut, cut>>

RevertNotice ==
    /\ command.pc = "unedit" /\ Goto("none")
    /\ \/ perm' = command.previous /\ UNCHANGED <<told, budget>>
       \/ Fault /\ told' = TRUE /\ perm' \in {perm, command.previous}
    /\ UNCHANGED <<stored, record, worker, open, shut, cut>>

(* A moderator changes the permission, not to one of the two states the    *)
(* recovery takes for its own.  On a channel that is not stored locked the *)
(* disagreements of before are settled with that.                          *)
EditByHand(s) ==
    /\ AtRest /\ s # perm
    /\ record.present => s \notin {record.diverged, record.desired}
    /\ Spend("hands", MaxHands)
    /\ perm' = s
    /\ \/ stored = Unlocked /\ open' = s /\ told' = FALSE /\ cut' = FALSE /\ UNCHANGED shut
       \/ stored # Unlocked /\ shut' = s /\ UNCHANGED <<open, Words>>
    /\ UNCHANGED <<stored, record, command, worker>>

(* The process ends: the command where it is, and the recovery too.        *)
Crash ==
    /\ ~AtRest /\ Fault
    /\ cut' = (cut \/ command.pc \in {"persist", "revert", "record", "unedit"})
    /\ Goto("none") /\ worker' = [worker EXCEPT !.pc = "idle"]
    /\ UNCHANGED <<Moderation, record, told>>

-----------------------------------------------------------------------------
(* runRecoveryCycle over this channel's record. *)
WorkerAt(pc) == worker' = [worker EXCEPT !.pc = pc]

ListRecovery ==
    /\ AtRest /\ record.present
    /\ worker' = [pc |-> "read", record |-> record]
    /\ UNCHANGED <<Moderation, record, command, Words, budget>>

(* Restored already; changed by somebody since; or still as it was left. *)
ReadCurrent ==
    /\ worker.pc = "read"
    /\ WorkerAt(CASE perm = worker.record.desired -> "persist"
                  [] perm \notin {worker.record.desired, worker.record.diverged} -> "close"
                  [] OTHER -> "edit")
    /\ UNCHANGED <<Moderation, record, command, Words, budget>>

RestoreOverwrite ==
    /\ worker.pc = "edit"
    /\ \/ /\ perm' = worker.record.desired /\ shut' = "deny" /\ WorkerAt("persist")
          /\ UNCHANGED budget
       \/ Fault /\ WorkerAt("idle") /\ perm' \in {perm, worker.record.desired} /\ UNCHANGED shut
    /\ UNCHANGED <<stored, record, command, open, Words>>

PersistRestored ==
    /\ worker.pc = "persist"
    /\ LET restored == IF worker.record.lock THEN worker.record.previous ELSE Unlocked
       IN  \/ stored' = restored /\ WorkerAt("close") /\ UNCHANGED budget
           \/ Fault /\ WorkerAt("idle") /\ stored' \in {stored, restored}
    /\ UNCHANGED <<perm, record, command, open, shut, Words>>

CloseRecovery ==
    /\ worker.pc = "close" /\ WorkerAt("idle")
    /\ \/ record' = NoRecord /\ UNCHANGED budget
       \/ Fault /\ record' \in {record, NoRecord}
    /\ UNCHANGED <<Moderation, command, Words>>

Recovery == ReadCurrent \/ RestoreOverwrite \/ PersistRestored \/ CloseRecovery

Next ==
    \/ \E lock \in BOOLEAN : Begin(lock)
    \/ EditOverwrite \/ PersistState \/ RevertOverwrite \/ RecordDivergence
    \/ SendNotice \/ RevertPersistence \/ RevertNotice
    \/ \E s \in PermissionState : EditByHand(s)
    \/ Crash \/ ListRecovery \/ Recovery

Spec == Init /\ [][Next]_vars

-----------------------------------------------------------------------------
(* A channel at rest whose moderators were told of no divergence and for   *)
(* which none is recorded agrees with the database: not stored as locked   *)
(* it has the permission its moderators gave it, stored as locked it is    *)
(* denied, or as a moderator opened it since.  That is the promise of      *)
(* applyChannelLock's rollbacks and of recoverOne together.  It is not     *)
(* kept (`cut') when the process ended between the two writes of a command *)
(* or before it could undo one, when an edit was applied and not answered, *)
(* and when a write was and the edit before it was rolled back.            *)
NothingSilent ==
    AtRest /\ ~record.present /\ ~told /\ ~cut
        => IF stored = Unlocked THEN perm = open ELSE perm \in {"deny", shut}
=============================================================================
