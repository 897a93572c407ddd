---------------------------- MODULE StructureGuard ----------------------------
(***************************************************************************)
(* The guard of the server's structure: the handler of channels and roles  *)
(* created and deleted (features/command-security/serverStructureGuard-    *)
(* Runtime.ts), what undoes a change (serverStructureRollback.ts), who made *)
(* it (app/runtime/serverStructureGuildAdapter.ts) and the approvals that  *)
(* let one through (app/runtime/gatewayFeatureRuntimes.ts).                *)
(*                                                                         *)
(* An action is one awaited call of one handler.  The guard's deletions and *)
(* creations raise events as those of people do, once each; so do those of *)
(* other parts of the bot, which are left out.  Channels and roles are     *)
(* treated alike: there is one kind of resource.                           *)
(***************************************************************************)
EXTENDS Integers, FiniteSets

CONSTANTS Handler,      \* the events at work at the same time
          MaxId,        \* bound on the resources there ever are: 1 .. MaxId
          MaxGiven,     \* bound on the approvals there are beforehand
          MaxChanges,   \* bound on the changes people make
          MaxFaults     \* bound on failed calls and restarts

GuardAssumption == MaxId \in Nat \ {0} /\ MaxGiven \in Nat

VARIABLES live,       \* the resources of the server
          by,         \* the audit log: who created and who deleted each
          copyOf,     \* of each resource: the one it stands for, itself for a new one
          events,     \* the changes whose event has not come
          approval,   \* what the owner has approved the member for and is left of it
          given,      \* what it was at first
          handler,
          changes, faults

vars == <<live, by, copyOf, events, approval, given, handler, changes, faults>>

Id == 1 .. MaxId
Kind == {"create", "delete"}
Change == Kind \X Id
Actor == {"owner", "member", "bot"}
Approval == [exact : SUBSET Change, batch : [Kind -> Nat]]
Idle == [pc |-> "idle", change |-> <<"create", 1>>, situation |-> "off", actor |-> "nobody"]

TypeOK ==
    /\ live \in SUBSET Id /\ copyOf \in [Id -> Id] /\ events \in SUBSET Change
    /\ by \in [Kind -> [Id -> Actor \cup {"nobody"}]]
    /\ approval \in Approval /\ given \in Approval
    /\ handler \in [Handler -> [pc : {"idle", "gate", "find", "exact", "batch", "signal",
                                      "rollback", "sanction"},
                                change : Change, situation : {"off", "on", "raid"},
                                actor : Actor \cup {"nobody"}]]
    /\ changes \in Nat /\ faults \in Nat

(* Some resources are there, and not every approval is given beforehand.   *)
Init ==
    /\ live \in {1 .. n : n \in 1 .. MaxId - 1}
    /\ by = [k \in Kind |-> [i \in Id |-> IF k = "create" /\ i \in live THEN "owner" ELSE "nobody"]]
    /\ copyOf = [i \in Id |-> i] /\ events = {}
    /\ approval \in [exact : SUBSET ({"delete"} \X live), batch : [Kind -> 0 .. 1]]
    /\ Cardinality(approval.exact) + approval.batch["create"] + approval.batch["delete"] <= MaxGiven
    /\ given = approval /\ handler = [h \in Handler |-> Idle]
    /\ changes = 0 /\ faults = 0

Fault == faults < MaxFaults /\ faults' = faults + 1
At(h, pc) == handler[h].pc = pc
Put(h, r) == handler' = [handler EXCEPT ![h] = r]
Move(h, pc) == Put(h, [handler[h] EXCEPT !.pc = pc])
End(h) == Put(h, Idle)
KindOf(h) == handler[h].change[1]
IdOf(h) == handler[h].change[2]

(* The next id. *)
Fresh(i) == {j \in Id : by["create"][j] # "nobody"} = 1 .. i - 1

(* Discord creates or deletes i for who, and raises the event.             *)
Occurs(kind, i, who) ==
    /\ live' = IF kind = "create" THEN live \cup {i} ELSE live \ {i}
    /\ by' = [by EXCEPT ![kind][i] = who]
    /\ events' = events \cup {<<kind, i>>}
Nothing == UNCHANGED <<live, by, events, copyOf>>

-----------------------------------------------------------------------------
(* A person changes the structure.                                         *)
Changed(who) ==
    /\ changes < MaxChanges /\ changes' = changes + 1
    /\ \E i \in Id : \/ Fresh(i) /\ Occurs("create", i, who)
                     \/ i \in live /\ Occurs("delete", i, who)
    /\ UNCHANGED <<copyOf, approval, given, handler, faults>>

(* structureEvent: the event of a deletion carries the cached resource,    *)
(* which is the snapshot.                                                  *)
StructureEvent(h) ==
    /\ At(h, "idle")
    /\ \E e \in events :
         events' = events \ {e} /\ Put(h, [Idle EXCEPT !.pc = "gate", !.change = e])
    /\ UNCHANGED <<live, by, copyOf, approval, given, changes, faults>>

(* readSituation: whether the guard is on and a raid is confirmed are      *)
(* other components' state, and may be anything each time.  What cannot be *)
(* read is off.                                                            *)
ReadSituation(h) ==
    /\ At(h, "gate")
    /\ \E s \in {"off", "on", "raid"} : Put(h, [handler[h] EXCEPT !.pc = "find", !.situation = s])
    /\ UNCHANGED <<live, by, copyOf, events, approval, given, changes, faults>>

(* findStructureActor, and what the handler does about whom it finds: the  *)
(* owner may do anything.  The entry may be too late for three attempts.   *)
FindActor(h) ==
    /\ At(h, "find")
    /\ \/ /\ by[KindOf(h)][IdOf(h)] = "owner" /\ End(h) /\ UNCHANGED faults
       \/ /\ by[KindOf(h)][IdOf(h)] # "owner" /\ UNCHANGED faults
          /\ Put(h, [handler[h] EXCEPT !.actor = by[KindOf(h)][IdOf(h)],
                       !.pc = IF handler[h].situation = "on" THEN "exact" ELSE "signal"])
       \/ Fault /\ Move(h, "signal")
    /\ UNCHANGED <<live, by, copyOf, events, approval, given, changes>>

(* Mutant: the approval of a number of changes is used before one for this *)
(* resource.                                                               *)
ConsumeExact_AfterBatch(h) ==
    /\ At(h, "exact")
    /\ \/ /\ handler[h].actor = "member" /\ handler[h].change \in approval.exact
          /\ approval.batch[KindOf(h)] = 0
          /\ approval' = [approval EXCEPT !.exact = @ \ {handler[h].change}]
          /\ End(h) /\ UNCHANGED faults
       \/ /\ handler[h].actor = "member" => handler[h].change \notin approval.exact
                                               \/ approval.batch[KindOf(h)] > 0
          /\ Move(h, "batch") /\ UNCHANGED <<approval, faults>>
    /\ UNCHANGED <<live, by, copyOf, events, given, changes>>

(* requests.consume for this very resource.  Approvals are the member's.   *)
ConsumeExact(h) ==
    /\ At(h, "exact")
    /\ \/ /\ handler[h].actor = "member" /\ handler[h].change \in approval.exact
          /\ approval' = [approval EXCEPT !.exact = @ \ {handler[h].change}]
          /\ \/ End(h) /\ UNCHANGED faults
             \/ Fault /\ Move(h, "signal")
       \/ /\ handler[h].actor = "member" => handler[h].change \notin approval.exact
          /\ Move(h, "batch") /\ UNCHANGED <<approval, faults>>
       \/ Fault /\ Move(h, "signal") /\ UNCHANGED approval
    /\ UNCHANGED <<live, by, copyOf, events, given, changes>>

(* requests.consume for a number of changes of this kind.                  *)
ConsumeBatch(h) ==
    /\ At(h, "batch")
    /\ \/ /\ handler[h].actor = "member" /\ approval.batch[KindOf(h)] > 0
          /\ approval' = [approval EXCEPT !.batch[KindOf(h)] = @ - 1]
          /\ \/ End(h) /\ UNCHANGED faults
             \/ Fault /\ Move(h, "signal")
       \/ /\ handler[h].actor = "member" => approval.batch[KindOf(h)] = 0
          /\ Move(h, "signal") /\ UNCHANGED <<approval, faults>>
       \/ Fault /\ Move(h, "signal") /\ UNCHANGED approval
    /\ UNCHANGED <<live, by, copyOf, events, given, changes>>

(* signalAntiRaid.  Where nobody has asked for the approvals yet, or whom  *)
(* to ask for was not known, the detector looks the member up and uses the *)
(* one for this resource, unless it is off; its answer is not looked at.   *)
(* Where the guard is off nothing else is done.                            *)
SignalAntiRaid(h) ==
    /\ At(h, "signal")
    /\ IF handler[h].situation = "off" THEN End(h) ELSE Move(h, "rollback")
    /\ \/ UNCHANGED approval
       \/ /\ handler[h].situation # "on" \/ handler[h].actor = "nobody"
          /\ by[KindOf(h)][IdOf(h)] = "member" /\ handler[h].change \in approval.exact
          /\ approval' = [approval EXCEPT !.exact = @ \ {handler[h].change}]
    /\ UNCHANGED <<live, by, copyOf, events, given, changes, faults>>

(* A known actor is sanctioned, unless that is left to the raid.           *)
Undone(h) ==
    IF handler[h].situation = "on" /\ handler[h].actor # "nobody"
    THEN Move(h, "sanction") ELSE End(h)

(* executeStructureRollback: what was created is removed ...               *)
RemoveCreated(h) ==
    /\ At(h, "rollback") /\ KindOf(h) = "create" /\ Undone(h)
    /\ \/ /\ IdOf(h) \in live /\ Occurs("delete", IdOf(h), "bot")
          /\ UNCHANGED <<copyOf, faults>>
       \/ IdOf(h) \notin live /\ Nothing /\ UNCHANGED faults
       \/ Fault /\ Nothing
    /\ UNCHANGED <<approval, given, changes>>

(* ... and what was deleted is created again, under an id of its own.      *)
RecreateDeleted(h) ==
    /\ At(h, "rollback") /\ KindOf(h) = "delete" /\ Undone(h)
    /\ \/ \E i \in Id :
            /\ Fresh(i) /\ Occurs("create", i, "bot")
            /\ copyOf' = [copyOf EXCEPT ![i] = copyOf[IdOf(h)]] /\ UNCHANGED faults
       \/ Fault /\ Nothing
    /\ UNCHANGED <<approval, given, changes>>

(* executeElevatedRoleSanction, and the report of it. *)
Sanction(h) ==
    /\ At(h, "sanction") /\ End(h)
    /\ UNCHANGED <<live, by, copyOf, events, approval, given, changes, faults>>

(* The process ends: what was under way is not resumed, and the events of  *)
(* the time it is down are not sent again.                                 *)
Restart ==
    /\ Fault /\ handler' = [h \in Handler |-> Idle] /\ events' = {}
    /\ UNCHANGED <<live, by, copyOf, approval, given, changes>>

Next ==
    \/ Restart
    \/ \E who \in {"owner", "member"} : Changed(who)
    \/ \E h \in Handler :
         \/ StructureEvent(h) \/ ReadSituation(h) \/ FindActor(h)
         \/ ConsumeExact(h) \/ ConsumeBatch(h) \/ SignalAntiRaid(h)
         \/ RemoveCreated(h) \/ RecreateDeleted(h) \/ Sanction(h)

Spec == Init /\ [][Next]_vars

-----------------------------------------------------------------------------
(* However deletions and their handlers interleave, the guard brings back  *)
(* a resource once: no two of what the server has stand for the same one   *)
(* (recreateDeleted in serverStructureRollback.ts).                        *)
OneCopy == \A i, j \in live : copyOf[i] = copyOf[j] => i = j

(* What the member has done, and whether the approvals cover all of it: one *)
(* for the resource, or one of a number (consumeApproval).                 *)
Did(kind) == {i \in Id : by[kind][i] = "member"}
Covered ==
    \A kind \in Kind :
      Cardinality({i \in Did(kind) : <<kind, i>> \notin given.exact}) <= given.batch[kind]

(* A member whose approvals cover everything is not sanctioned, in whatever *)
(* order the events are handled, unless a call failed.                     *)
CoveredIsSpared ==
    Covered /\ faults = 0 => \A h \in Handler : At(h, "sanction") => handler[h].actor # "member"

(* Promises: docs/Comenzi Functionalitate.md:282, what was created without *)
(* approval is deleted, and docs/architecture/FUNCTION_MAP_CLEAN.md:389,   *)
(* legitimate work sets off no raid.  TLC violates both: the guard takes   *)
(* its own corrections for changes nobody approved, undoes them, reports   *)
(* the bot to the detector and sanctions it.                               *)
UndoneStaysUndone ==
    \A i \in Id : by["create"][i] = "member" /\ by["delete"][i] = "bot"
                    => \A j \in live : copyOf[j] # i
OwnWorkIsNoRaid ==
    \A h \in Handler : handler[h].pc \in {"signal", "sanction"} => handler[h].actor # "bot"
=============================================================================
