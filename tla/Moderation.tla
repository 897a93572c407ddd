------------------------------- MODULE Moderation -------------------------------
(***************************************************************************)
(* The sanctions and warnings of one member (features/moderation:          *)
(* moderationSanctionUseCase.ts, moderationRepository.ts,                  *)
(* moderationLifecycleRuntime.ts; app/scheduler/moderationCleanupTask.ts). *)
(*                                                                         *)
(* An action is one awaited call.  A sanction is the number of the command *)
(* that gave it, 0 for none, a warning likewise; sanctions run out in any  *)
(* order.  The member may leave and come back with the timeout Discord     *)
(* still has.  kick, ban and unban only call Discord and are left out.     *)
(***************************************************************************)
EXTENDS Integers, FiniteSets

CONSTANTS Handler,      \* commands under way at once
          MaxCommands,  \* bound on the commands that sanction or warn
          MaxFaults     \* bound on crashes and failed calls

ModerationAssumption == MaxCommands \in Nat /\ MaxCommands >= 2 /\ MaxFaults \in Nat

VARIABLES discord,   \* the timeout Discord enforces
          rec,       \* the record in moderationTimeouts and moderationMutes
          past,      \* the sanctions that have run out
          present,   \* is the member in the guild
          warned,    \* moderationWarnings
          told,      \* the warnings sent to the channel
          orphaned,  \* the warnings reported as left behind
          unheard,   \* those whose command heard nothing of them, or crashed
          cmd,       \* of each handler: its step and what it carries
          recon,     \* reconcileGuild: its step and what it read
          last, faults

sanctions == <<discord, rec, past>>
warnings == <<warned, told, orphaned, unheard>>
vars == <<sanctions, warnings, present, cmd, recon, last, faults>>

Field == {"timeouts", "mutes"}
Number == 0 .. MaxCommands
Other(f) == CHOOSE g \in Field : g # f
Idle == [pc |-> "idle", field |-> "timeouts", n |-> 0]
Asleep == [pc |-> "asleep", active |-> FALSE, stale |-> {}]

TypeOK ==
    /\ discord \in Number /\ rec \in [Field -> Number] /\ past \in SUBSET Number
    /\ present \in BOOLEAN /\ last \in Number /\ faults \in 0 .. MaxFaults
    /\ warned \in SUBSET Number /\ told \in SUBSET Number
    /\ orphaned \in SUBSET Number /\ unheard \in SUBSET Number
    /\ cmd \in [Handler -> [pc : {"idle", "save", "undo", "lift", "remove", "restore", "send", "drop"},
                            field : Field, n : Number]]
    /\ recon \in [pc : {"asleep", "read", "pull"}, active : BOOLEAN, stale : SUBSET Field]

(* No sanction, or one of each kind in a document of before the two        *)
(* excluded each other.                                                    *)
Init ==
    /\ \E old \in BOOLEAN :
         /\ last = IF old THEN 2 ELSE 0
         /\ discord = last
         /\ rec = [f \in Field |-> IF ~old THEN 0 ELSE IF f = "mutes" THEN 2 ELSE 1]
    /\ past = {} /\ present = TRUE
    /\ warned = {} /\ told = {} /\ orphaned = {} /\ unheard = {}
    /\ cmd = [h \in Handler |-> Idle] /\ recon = Asleep /\ faults = 0

Fault == faults < MaxFaults /\ faults' = faults + 1
Put(h, r) == cmd' = [cmd EXCEPT ![h] = r]
Fresh(f) == IF rec[f] \in past THEN 0 ELSE rec[f]
Cleaned == [f \in Field |-> Fresh(f)]

-----------------------------------------------------------------------------
(* applySanction: Discord first, then the record, which replaces the       *)
(* member's others; a record that fails is compensated.                    *)
Sanction(h) ==
    /\ cmd[h].pc = "idle" /\ present /\ last < MaxCommands
    /\ last' = last + 1 /\ discord' = last'
    /\ \E f \in Field : Put(h, [pc |-> "save", field |-> f, n |-> last'])
    /\ UNCHANGED <<rec, past, warnings, present, recon, faults>>

Saved(h) == [rec EXCEPT ![cmd[h].field] = cmd[h].n, ![Other(cmd[h].field)] = 0]
Save(h) ==
    /\ cmd[h].pc = "save"
    /\ \/ rec' = Saved(h) /\ Put(h, Idle) /\ UNCHANGED faults
       \/ Fault /\ rec' \in {rec, Saved(h)} /\ Put(h, [cmd[h] EXCEPT !.pc = "undo"])
    /\ UNCHANGED <<discord, past, warnings, present, recon, last>>

Undo(h) ==
    /\ cmd[h].pc = "undo" /\ Put(h, Idle)
    /\ \/ discord' = 0 /\ UNCHANGED faults
       \/ Fault /\ UNCHANGED discord
    /\ UNCHANGED <<rec, past, warnings, present, recon, last>>

(* liftSanction: the records are read (what ran out is cleaned); the       *)
(* timeout is lifted, the record removed, or the timeout put back.         *)
Lift(h, f) ==
    /\ cmd[h].pc = "idle" /\ present
    /\ rec' = Cleaned
    /\ IF Fresh(f) # 0 /\ Fresh(Other(f)) = 0
       THEN Put(h, [pc |-> "lift", field |-> f, n |-> Fresh(f)])
       ELSE UNCHANGED cmd
    /\ UNCHANGED <<discord, past, warnings, present, recon, last, faults>>

LiftTimeout(h) ==
    /\ cmd[h].pc = "lift"
    /\ \/ discord' = 0 /\ Put(h, [cmd[h] EXCEPT !.pc = "remove"]) /\ UNCHANGED faults
       \/ Fault /\ Put(h, Idle) /\ UNCHANGED discord
    /\ UNCHANGED <<rec, past, warnings, present, recon, last>>

(* removeModeration takes whatever record the member has in the field. *)
Remove(h) ==
    /\ cmd[h].pc = "remove"
    /\ LET removed == [rec EXCEPT ![cmd[h].field] = 0]
       IN  \/ removed # rec /\ rec' = removed /\ Put(h, Idle) /\ UNCHANGED faults
           \/ removed = rec /\ Put(h, [cmd[h] EXCEPT !.pc = "restore"]) /\ UNCHANGED <<rec, faults>>
           \/ Fault /\ rec' \in {rec, removed} /\ Put(h, [cmd[h] EXCEPT !.pc = "restore"])
    /\ UNCHANGED <<discord, past, warnings, present, recon, last>>

Restore(h) ==
    /\ cmd[h].pc = "restore" /\ Put(h, Idle)
    /\ \/ discord' = (IF cmd[h].n \in past THEN discord ELSE cmd[h].n) /\ UNCHANGED faults
       \/ Fault /\ UNCHANGED discord
    /\ UNCHANGED <<rec, past, warnings, present, recon, last>>

-----------------------------------------------------------------------------
(* recordWarning: stored, sent, and dropped by its own id when the channel *)
(* does not take it.  A warning that is stored by a call that throws is     *)
(* neither sent nor dropped.  The ban at the limit changes no record.       *)
Warn(h) ==
    /\ cmd[h].pc = "idle" /\ present /\ last < MaxCommands
    /\ last' = last + 1
    /\ \/ /\ warned' = warned \cup {last'} /\ Put(h, [Idle EXCEPT !.pc = "send", !.n = last'])
          /\ UNCHANGED <<unheard, faults>>
       \/ /\ Fault /\ warned' \in {warned, warned \cup {last'}}
          /\ unheard' = unheard \cup {last'} /\ UNCHANGED cmd
    /\ UNCHANGED <<sanctions, told, orphaned, present, recon>>

SendWarning(h) ==
    /\ cmd[h].pc = "send"
    /\ \/ told' = told \cup {cmd[h].n} /\ Put(h, Idle) /\ UNCHANGED faults
       \/ /\ Fault /\ told' \in {told, told \cup {cmd[h].n}}
          /\ Put(h, [cmd[h] EXCEPT !.pc = "drop"])
    /\ UNCHANGED <<sanctions, warned, orphaned, unheard, present, recon, last>>

(* Mutant: the member's latest warning is dropped, not this one. *)
DropWarning_Latest(h) ==
    /\ cmd[h].pc = "drop" /\ Put(h, Idle)
    /\ LET dropped == {w \in warned : \E x \in warned : x > w}
       IN  \/ warned' = dropped /\ UNCHANGED <<orphaned, faults>>
           \/ Fault /\ warned' \in {warned, dropped} /\ orphaned' = orphaned \cup {cmd[h].n}
    /\ UNCHANGED <<sanctions, told, unheard, present, recon, last>>

DropWarning(h) ==
    /\ cmd[h].pc = "drop" /\ Put(h, Idle)
    /\ LET dropped == warned \ {cmd[h].n}
       IN  \/ warned' = dropped /\ UNCHANGED <<orphaned, faults>>
           \/ Fault /\ warned' \in {warned, dropped} /\ orphaned' = orphaned \cup {cmd[h].n}
    /\ UNCHANGED <<sanctions, told, unheard, present, recon, last>>

(* removeWarning: the member's latest. *)
RemoveWarning ==
    /\ warned # {}
    /\ warned' = {w \in warned : \E x \in warned : x > w}
    /\ UNCHANGED <<sanctions, told, orphaned, unheard, present, cmd, recon, last, faults>>

-----------------------------------------------------------------------------
(* reconcileGuild: the members, then the records, then what to pull. *)
FetchMembers ==
    /\ recon.pc = "asleep"
    /\ recon' = [recon EXCEPT !.pc = "read", !.active = present /\ discord # 0]
    /\ UNCHANGED <<sanctions, warnings, present, cmd, last, faults>>

Stale(f) ==
    /\ Fresh(f) # 0
    /\ recon.active => Fresh(Other(f)) > Fresh(f)

(* Mutant: only the timeouts are compared with Discord. *)
ReadRecords_TimeoutsOnly ==
    /\ recon.pc = "read" /\ rec' = Cleaned
    /\ recon' = [recon EXCEPT !.pc = "pull", !.stale = {f \in {"timeouts"} : Stale(f)}]
    /\ UNCHANGED <<discord, past, warnings, present, cmd, last, faults>>

ReadRecords ==
    /\ recon.pc = "read" /\ rec' = Cleaned
    /\ recon' = [recon EXCEPT !.pc = "pull", !.stale = {f \in Field : Stale(f)}]
    /\ UNCHANGED <<discord, past, warnings, present, cmd, last, faults>>

(* pullModerationRecords: by the member, whatever the record is by now. *)
Pull ==
    /\ recon.pc = "pull" /\ recon' = Asleep
    /\ rec' = [f \in Field |-> IF f \in recon.stale THEN 0 ELSE rec[f]]
    /\ UNCHANGED <<discord, past, warnings, present, cmd, last, faults>>

(* The periodic cleanup. *)
Cleanup ==
    /\ Cleaned # rec /\ rec' = Cleaned
    /\ UNCHANGED <<discord, past, warnings, present, cmd, recon, last, faults>>

-----------------------------------------------------------------------------
(* Time and the member.  guildMemberRemove drops the records. *)
RunOut(n) ==
    /\ n \in 1 .. last /\ n \notin past
    /\ past' = past \cup {n} /\ discord' = IF discord = n THEN 0 ELSE discord
    /\ UNCHANGED <<rec, warnings, present, cmd, recon, last, faults>>

Leave ==
    /\ present /\ present' = FALSE
    /\ \/ rec' = [f \in Field |-> 0] /\ UNCHANGED faults
       \/ Fault /\ UNCHANGED rec
    /\ UNCHANGED <<discord, past, warnings, cmd, recon, last>>

Join ==
    /\ Fault /\ ~present /\ present' = TRUE
    /\ UNCHANGED <<sanctions, warnings, cmd, recon, last>>

Crash ==
    /\ Fault
    /\ unheard' = unheard \cup {cmd[h].n : h \in {k \in Handler : cmd[k].pc \in {"send", "drop"}}}
    /\ cmd' = [h \in Handler |-> Idle] /\ recon' = Asleep
    /\ UNCHANGED <<sanctions, warned, told, orphaned, present, last>>

Next ==
    \/ \E h \in Handler :
         \/ Sanction(h) \/ Save(h) \/ Undo(h)
         \/ \E f \in Field : Lift(h, f)
         \/ LiftTimeout(h) \/ Remove(h) \/ Restore(h)
         \/ Warn(h) \/ SendWarning(h) \/ DropWarning(h)
    \/ RemoveWarning \/ FetchMembers \/ ReadRecords \/ Pull \/ Cleanup
    \/ \E n \in Number : RunOut(n)
    \/ Leave \/ Join \/ Crash

Spec == Init /\ [][Next]_vars

(* A reconciliation runs at every boot and every five minutes; a command   *)
(* that has begun goes on.                                                 *)
Fairness ==
    /\ WF_vars(FetchMembers) /\ WF_vars(ReadRecords) /\ WF_vars(Pull)
    /\ \A h \in Handler :
         WF_vars(Save(h) \/ Undo(h) \/ LiftTimeout(h) \/ Remove(h) \/ Restore(h))
FairSpec == Spec /\ Fairness

-----------------------------------------------------------------------------
(* A warning whose message failed is taken back, and no other than that    *)
(* one: each stored warning was announced, is under way, was reported as   *)
(* left behind, or is one whose command never heard that it was stored or  *)
(* crashed with it (the program has no trace of those).                    *)
WarningsAccounted ==
    \A w \in warned :
        \/ w \in told \cup orphaned \cup unheard
        \/ \E h \in Handler : cmd[h].pc \in {"send", "drop"} /\ cmd[h].n = w

(* Whatever was left by a compensation that lost its race, a fault or a    *)
(* member who left, a record of a sanction Discord does not enforce does   *)
(* not stay: the reconciliation ends it.                                   *)
StaleRecordsEnd == (discord = 0 /\ rec # [f \in Field |-> 0]) ~> (discord # 0 \/ rec = [f \in Field |-> 0])

(* The reconciliation keeps the records of a timeout that Discord enforces *)
(* (all but the older of two).                                             *)
ReconciliationKeepsActive ==
    [][(recon.pc = "pull" /\ recon'.pc = "asleep" /\ faults' = faults)
         => \A f \in Field : (rec[f] = discord /\ discord # 0) => rec'[f] = rec[f]]_vars
=============================================================================
