-------------------------- MODULE ProtectedResources --------------------------
(***************************************************************************)
(* A protected channel, category or role: the guard of its changes         *)
(* (features/command-security/protectedResourceRuntime.ts), the record     *)
(* with its snapshot (protectedResourceRepository.ts), who changed it      *)
(* (app/runtime/protectedResourceGuildAdapter.ts) and the owner's command  *)
(* (features/command-handlers/protectedResourceInteractionHandler.ts),     *)
(* which also takes Manage Channels from others (protectedResource-        *)
(* Prevention.ts).                                                         *)
(*                                                                         *)
(* What an update event carries is the cached resource: it is read as it   *)
(* is by then.  The edits of the bot raise events as those of people do.   *)
(* An action is one awaited call; moving a record to a new id, a raid      *)
(* recovery's recreation, and the prevention's edit with what the record   *)
(* says of it are one step each.                                           *)
(***************************************************************************)
EXTENDS Integers, FiniteSets

CONSTANTS Handler,     \* events and commands at work at the same time
          MaxChanges,  \* bound on the changes people make, and their commands
          MaxId,       \* bound on recreations: ids are 0 .. MaxId
          MaxFaults    \* bound on failed calls and crashes

ProtectedAssumption == IsFiniteSet(Handler) /\ {MaxChanges, MaxId, MaxFaults} \subseteq Nat

VARIABLES server,      \* the resource
          record,      \* of each id: its protection, {} without one
          audit,       \* kinds and actors with entries in the audit log no one claimed
          approved,    \* the member has an approval that is not used
          echo,        \* edits of the bot whose event has not come
          handler,     \* the state of each handler
          changes,
          heard,       \* published since people last changed something: it is not restored
          raced,       \* a record was written that was out of date, with no event to come
          lost,        \* a fault took a write or a message
          faults

vars == <<server, record, audit, approved, echo, handler, changes, heard, raced, lost,
          faults>>

Id == 0 .. MaxId
Value == [v : 0 .. MaxChanges, deny : BOOLEAN]
Record == [snap : Value, prevention : BOOLEAN, deleted : BOOLEAN]
Actor == {"owner", "member", "bot"}
Kind == {"update", "delete"}
Nothing == [v |-> 0, deny |-> FALSE]
Protected(value) == [snap |-> value, prevention |-> FALSE, deleted |-> FALSE]

(* rec: the record as it was read; cap: the snapshot to write; job: an     *)
(* event or a command.                                                     *)
Idle == [pc |-> "idle", job |-> "update", id |-> 0, rec |-> {}, actor |-> {}, cap |-> Nothing]

Init ==
    /\ server = [id |-> 0, there |-> TRUE, value |-> Nothing]
    /\ \E r \in SUBSET {Protected(Nothing)} : record = [i \in Id |-> IF i = 0 THEN r ELSE {}]
    /\ audit = {} /\ approved \in BOOLEAN
    /\ echo = 0 /\ handler = [h \in Handler |-> Idle] /\ changes = 0
    /\ heard = FALSE /\ raced = FALSE /\ lost = FALSE /\ faults = 0

Handlers == Cardinality(Handler)

TypeOK ==
    /\ server \in [id : Id, there : BOOLEAN, value : Value]
    /\ \A i \in Id : record[i] \subseteq Record /\ Cardinality(record[i]) <= 1
    /\ audit \subseteq Kind \X Actor
    /\ {approved, heard, raced, lost} \subseteq BOOLEAN
    /\ echo \in 0 .. Handlers /\ changes \in 0 .. MaxChanges /\ faults \in 0 .. MaxFaults
    /\ \A h \in Handler :
         /\ handler[h].pc \in {"idle", "read", "gate", "find", "approve", "adopt", "restore",
                               "rebind", "mark", "publish", "alarm", "insert", "prevent", "undo"}
         /\ handler[h].job \in Kind \cup {"command"} /\ handler[h].id \in Id
         /\ handler[h].rec \subseteq Record /\ handler[h].actor \subseteq Actor
         /\ handler[h].cap \in Value

Fault == faults < MaxFaults /\ faults' = faults + 1
At(h, pc) == handler[h].pc = pc
Put(h, q) == handler' = [handler EXCEPT ![h] = q]
Move(h, pc) == Put(h, [handler[h] EXCEPT !.pc = pc])
End(h) == Put(h, Idle)
Here(h) == server.there /\ server.id = handler[h].id

(* An event of what the resource is by now still has to read the record:   *)
(* its handler will see what is there.                                     *)
NobodyReads ==
    /\ ~server.there \/ echo = 0
    /\ \A h \in Handler : At(h, "read") /\ handler[h].id = server.id =>
                            handler[h].job # (IF server.there THEN "update" ELSE "delete")

-----------------------------------------------------------------------------
(* The world: a person changes the resource, or deletes it; its event is   *)
(* handled.                                                                *)
Starts(h, kind) == Put(h, [Idle EXCEPT !.pc = "read", !.job = kind, !.id = server.id])

Change(h, who) ==
    /\ At(h, "idle") /\ server.there /\ changes < MaxChanges /\ changes' = changes + 1
    /\ \E kind \in Kind :
         /\ server' = IF kind = "delete" THEN [server EXCEPT !.there = FALSE]
                      ELSE [server EXCEPT !.value.v = changes']
         /\ audit' = audit \cup {<<kind, who>>} /\ Starts(h, kind)
    /\ heard' = FALSE
    /\ UNCHANGED <<record, approved, echo, raced, lost, faults>>

(* The event of an edit of the bot. *)
Echo(h) ==
    /\ At(h, "idle") /\ echo > 0 /\ echo' = echo - 1 /\ Starts(h, "update")
    /\ UNCHANGED <<server, record, audit, approved, changes, heard, raced, lost, faults>>

(* The recovery of a raid recreates what the record says was deleted in it *)
(* (onResourceRecreated).                                                  *)
Recover ==
    /\ ~server.there /\ server.id < MaxId
    /\ \E r \in record[server.id] :
         /\ r.deleted
         /\ server' = [id |-> server.id + 1, there |-> TRUE, value |-> r.snap]
         /\ record' = [record EXCEPT ![server.id] = {},
                                     ![server.id + 1] = {[r EXCEPT !.deleted = FALSE]}]
    /\ UNCHANGED <<audit, approved, echo, handler, changes, heard, raced, lost, faults>>

(* An edit of the bot. *)
Edit(value) ==
    /\ server' = [server EXCEPT !.value = value]
    /\ IF value = server.value THEN UNCHANGED <<echo, audit>>
       ELSE echo < Handlers /\ echo' = echo + 1 /\ audit' = audit \cup {<<"update", "bot">>}

-----------------------------------------------------------------------------
(* handleResourceUpdate and handleResourceDelete *)
Read(h) ==
    /\ At(h, "read")
    /\ IF record[handler[h].id] = {} THEN End(h)
       ELSE Put(h, [handler[h] EXCEPT !.pc = "gate", !.rec = record[handler[h].id]])
    /\ UNCHANGED <<server, record, audit, approved, echo, changes, heard, raced, lost,
                   faults>>

(* diffSnapshot *)
Differs(h) == \E r \in handler[h].rec : r.snap # server.value

Adopting(h) == [handler[h] EXCEPT !.pc = "adopt", !.cap = server.value]

(* gateOpen: whether the guard is on and a raid is confirmed are other     *)
(* features' records, which may say anything each time (readSituation);    *)
(* where they cannot be read, the guard is off.                            *)
Gate(h) ==
    /\ At(h, "gate")
    /\ \E situation \in {"off", "on", "raid"} :
         CASE situation = "off" -> Put(h, Adopting(h))
           [] situation # "off" /\ handler[h].job = "update" ->
                IF ~Differs(h) THEN End(h)
                ELSE Move(h, IF situation = "raid" THEN "restore" ELSE "find")
           [] situation # "off" /\ handler[h].job = "delete" ->
                Move(h, IF situation = "raid" THEN "mark" ELSE "find")
    /\ UNCHANGED <<server, record, audit, approved, echo, changes, heard, raced, lost, faults>>

(* findAuditActor: an entry that nobody claimed, of the kind; or there is  *)
(* none yet, or two that contradict each other.  Others may remain.        *)
FindActor(h) ==
    /\ At(h, "find")
    /\ \/ /\ \E who \in Actor :
               /\ <<handler[h].job, who>> \in audit
               /\ audit' \in {audit, audit \ {<<handler[h].job, who>>}}
               /\ Put(h, IF who = "owner" THEN Adopting(h)
                         ELSE [handler[h] EXCEPT !.pc = "approve", !.actor = {who}])
       \/ Move(h, "alarm") /\ UNCHANGED audit
    /\ UNCHANGED <<server, record, approved, echo, changes, heard, raced, lost, faults>>

(* consumeResourceApproval *)
Approve(h) ==
    /\ At(h, "approve")
    /\ IF handler[h].actor = {"member"} /\ approved
       THEN approved' = FALSE /\ Put(h, Adopting(h))
       ELSE Move(h, "restore") /\ UNCHANGED approved
    /\ UNCHANGED <<server, record, audit, echo, changes, heard, raced, lost, faults>>

(* refreshSnapshot and remove; a write that fails is passed over.          *)
Adopt(h) ==
    /\ At(h, "adopt") /\ End(h)
    /\ LET i == handler[h].id
       IN  \/ /\ record' = [record EXCEPT ![i] = IF handler[h].job = "delete" THEN {}
                                ELSE {[r EXCEPT !.snap = handler[h].cap] : r \in @}]
              /\ raced' = \/ raced
                          \/ NobodyReads /\ handler[h].job = "update" /\ handler[h].cap # server.value
              /\ UNCHANGED <<lost, faults>>
           \/ Fault /\ lost' = TRUE /\ UNCHANGED <<record, raced>>
    /\ UNCHANGED <<server, audit, approved, echo, changes, heard>>

(* restoreChannel, restoreRole: from the record that was read.  What is    *)
(* gone, or cannot be edited, is published as not restored.                *)
Restore(h) ==
    /\ At(h, "restore") /\ handler[h].job = "update"
    /\ \/ /\ Here(h) /\ (\E r \in handler[h].rec : Edit(r.snap))
          /\ Move(h, "publish") /\ UNCHANGED faults
       \/ Fault /\ Move(h, "alarm") /\ UNCHANGED <<server, echo, audit>>
       \/ ~Here(h) /\ Move(h, "alarm") /\ UNCHANGED <<server, echo, audit, faults>>
    /\ UNCHANGED <<record, approved, changes, heard, raced, lost>>

(* recreateChannel, recreateRole *)
Recreate(h) ==
    /\ At(h, "restore") /\ handler[h].job = "delete"
    /\ \/ /\ server.id < MaxId /\ ~server.there /\ UNCHANGED faults
          /\ \E r \in handler[h].rec :
               server' = [id |-> server.id + 1, there |-> TRUE, value |-> r.snap]
          /\ Move(h, "rebind")
       \/ Fault /\ Move(h, "alarm") /\ UNCHANGED server
    /\ UNCHANGED <<record, audit, approved, echo, changes, heard, raced, lost>>

Rebind(h) ==
    /\ At(h, "rebind") /\ Move(h, "publish")
    /\ LET i == handler[h].id
       IN  record' = [record EXCEPT ![i] = {}, ![i + 1] = {[r EXCEPT !.deleted = FALSE] : r \in record[i]}]
           /\ raced' = \/ raced
                       \/ NobodyReads /\ \E r \in record[i] : ~server.there \/ r.snap # server.value
    /\ UNCHANGED <<server, audit, approved, echo, changes, heard, lost, faults>>

(* markDeletedDuringRaid *)
MarkDeleted(h) ==
    /\ At(h, "mark") /\ End(h)
    /\ \/ record' = [record EXCEPT ![handler[h].id] = {[r EXCEPT !.deleted = TRUE] : r \in @}]
          /\ UNCHANGED <<lost, faults>>
       \/ Fault /\ lost' = TRUE /\ UNCHANGED record
    /\ UNCHANGED <<server, audit, approved, echo, changes, heard, raced>>

(* sanction: the actor's elevated roles are taken away, as far as they can *)
(* be, and all of it is published, whether it could be restored included.  *)
Publish(h) ==
    /\ handler[h].pc \in {"publish", "alarm"} /\ End(h)
    /\ \/ heard' = (heard \/ At(h, "alarm")) /\ UNCHANGED <<lost, faults>>
       \/ Fault /\ lost' = TRUE /\ UNCHANGED heard
    /\ UNCHANGED <<server, record, audit, approved, echo, changes, raced>>

-----------------------------------------------------------------------------
(* /protected-resource add: the snapshot is taken, then stored. *)
Add(h) ==
    /\ At(h, "idle") /\ server.there /\ record[server.id] = {} /\ changes < MaxChanges
    /\ changes' = changes + 1
    /\ Put(h, [Idle EXCEPT !.pc = "insert", !.job = "command", !.id = server.id,
                           !.cap = server.value])
    /\ UNCHANGED <<server, record, audit, approved, echo, heard, raced, lost, faults>>

Insert(h) ==
    /\ At(h, "insert")
    /\ LET i == handler[h].id
       IN  IF record[i] = {}
           THEN /\ record' = [record EXCEPT ![i] = {Protected(handler[h].cap)}]
                /\ Move(h, "prevent")
                /\ raced' = (raced \/ (NobodyReads /\ ~(Here(h) /\ server.value = handler[h].cap)))
           ELSE End(h) /\ UNCHANGED <<record, raced>>
    /\ UNCHANGED <<server, audit, approved, echo, changes, heard, lost, faults>>

(* runPrevention: others lose Manage Channels.  What was written is        *)
(* verified and goes to the record (markReadiness).                        *)
Prevent(h) ==
    /\ At(h, "prevent") /\ End(h)
    /\ \/ /\ Here(h) /\ Edit([server.value EXCEPT !.deny = TRUE])
          /\ record' = [record EXCEPT ![handler[h].id] = {[r EXCEPT !.prevention = TRUE] : r \in @}]
       \/ UNCHANGED <<server, echo, audit, record>>
    /\ UNCHANGED <<approved, changes, heard, raced, lost, faults>>

(* remove: the access is given back, and the record goes. *)
RemoveProtection(h) ==
    /\ At(h, "idle") /\ record[server.id] # {} /\ changes < MaxChanges
    /\ changes' = changes + 1
    /\ Put(h, [Idle EXCEPT !.pc = "undo", !.job = "command", !.id = server.id])
    /\ IF server.there /\ \E r \in record[server.id] : r.prevention
       THEN Edit([server.value EXCEPT !.deny = FALSE])
       ELSE UNCHANGED <<server, echo, audit>>
    /\ UNCHANGED <<record, approved, heard, raced, lost, faults>>

Remove(h) ==
    /\ At(h, "undo") /\ End(h) /\ record' = [record EXCEPT ![handler[h].id] = {}]
    /\ UNCHANGED <<server, audit, approved, echo, changes, heard, raced, lost, faults>>

(* The process dies, or an error ends the handler. *)
Break(h) ==
    /\ Fault /\ ~At(h, "idle") /\ End(h) /\ lost' = TRUE
    /\ UNCHANGED <<server, record, audit, approved, echo, changes, heard, raced>>

Next ==
    \/ \E h \in Handler :
        \/ \E who \in {"owner", "member"} : Change(h, who)
        \/ Echo(h) \/ Read(h) \/ Gate(h) \/ FindActor(h) \/ Approve(h) \/ Adopt(h) \/ Restore(h)
        \/ Recreate(h) \/ Rebind(h) \/ MarkDeleted(h) \/ Publish(h)
        \/ Add(h) \/ Insert(h) \/ Prevent(h) \/ RemoveProtection(h) \/ Remove(h) \/ Break(h)
    \/ Recover

Spec == Init /\ [][Next]_vars

-----------------------------------------------------------------------------
(* When nothing is at work, the resource is what its snapshot says, or the *)
(* administrators were told since it was last changed that it could not be *)
(* restored, or a raid's recovery has it to bring back.  A report that it  *)
(* was restored does not count: a handler that restores from a record it   *)
(* read before another one moved the snapshot is put right by the event of *)
(* its own edit.  The exceptions are writes that failed and a record that  *)
(* was out of date when it was written: the code does not compare.         *)
QuietMeansKept ==
    (echo = 0 /\ \A h \in Handler : At(h, "idle")) =>
        \A r \in record[server.id] :
            \/ server.there /\ server.value = r.snap
            \/ ~server.there /\ r.deleted
            \/ heard \/ raced \/ lost
=============================================================================
