-------------------------- MODULE MCRecovery --------------------------
(***************************************************************************)
(* What must end, for TLC, side by side, each under the fairness of its own *)
(* module: the operation journal, an anti-raid incident, the queue of the  *)
(* notification cycle, a shutdown, the reconciliation of the sanctions.    *)
(***************************************************************************)
EXTENDS Integers, Sequences, FiniteSets, TLC

CONSTANTS Handler, MemberFaults, NoEntry

VARIABLES
    focus,
    journal_entry, journal_written, journal_effects, journal_outcome, journal_toldOk,
    journal_calls, journal_pc, journal_mode, journal_cur, journal_list, journal_lost,
    journal_faults, journal_stalls,
    raid_inc, raid_perm, raid_task, raid_signals, raid_commands, raid_faults,
    cycle_sub, cycle_pending, cycle_current, cycle_seen, cycle_latest, cycle_snapshot,
    cycle_announced, cycle_recorded, cycle_pc, cycle_cyc, cycle_cpc, cycle_cmd,
    cycle_commands, cycle_faults, cycle_baseline, cycle_returned, cycle_overlapped,
    cycle_excused,
    life_boot, life_job, life_ops, life_shut, life_lock, life_done, life_applied,
    life_starts,
    member_discord, member_rec, member_past, member_present, member_warned, member_told,
    member_orphaned, member_unheard, member_cmd, member_recon, member_last, member_faults

J == INSTANCE OperationJournal WITH
    Op <- {1, 2}, Keyed <- {1, 2}, Unreadable <- {2}, Runner <- {"r1"},
    NoEntry <- NoEntry, MaxAttempts <- 2, Purgeable <- {2}, MaxCalls <- 2,
    MaxFaults <- 1, MaxStalls <- 1, entry <- journal_entry, written <- journal_written,
    effects <- journal_effects, outcome <- journal_outcome, toldOk <- journal_toldOk,
    calls <- journal_calls, pc <- journal_pc, mode <- journal_mode, cur <- journal_cur,
    list <- journal_list, lost <- journal_lost, faults <- journal_faults,
    stalls <- journal_stalls

I == INSTANCE RaidIncident WITH
    Human <- {"h1"}, Bot <- {"b1"}, Channel <- {"c1"}, Task <- {"t1"}, LastStep <- 2,
    MaxIncidents <- 1, MaxSignals <- 1, MaxCommands <- 1, MaxFaults <- 2,
    inc <- raid_inc, perm <- raid_perm, task <- raid_task, signals <- raid_signals,
    commands <- raid_commands, faults <- raid_faults

N == INSTANCE NotificationCycle WITH
    Cycle <- {"y1"}, Command <- {"k1"}, Channel <- {"c1"}, NoChannel <- "none",
    Published <- 1, MaxAttempts <- 2, QueueLimit <- 2, PerCycle <- 2, PerMessage <- 1,
    MaxCommands <- 2, MaxFaults <- 1, sub <- cycle_sub, pending <- cycle_pending,
    current <- cycle_current, seen <- cycle_seen, latest <- cycle_latest,
    snapshot <- cycle_snapshot, announced <- cycle_announced,
    recorded <- cycle_recorded, pc <- cycle_pc, cyc <- cycle_cyc, cpc <- cycle_cpc,
    cmd <- cycle_cmd, commands <- cycle_commands, faults <- cycle_faults,
    baseline <- cycle_baseline, returned <- cycle_returned,
    overlapped <- cycle_overlapped, excused <- cycle_excused

L == INSTANCE Lifecycle WITH
    Instance <- {"i1"}, Target <- 1, Timely <- TRUE, MaxStarts <- 4, boot <- life_boot,
    job <- life_job, ops <- life_ops, shut <- life_shut, lock <- life_lock,
    done <- life_done, applied <- life_applied, starts <- life_starts

M == INSTANCE Moderation WITH
    Handler <- Handler, MaxCommands <- 2, MaxFaults <- MemberFaults,
    discord <- member_discord, rec <- member_rec, past <- member_past,
    present <- member_present, warned <- member_warned, told <- member_told,
    orphaned <- member_orphaned, unheard <- member_unheard, cmd <- member_cmd, recon <- member_recon,
    last <- member_last, faults <- member_faults

journalVars == <<journal_entry, journal_written, journal_effects, journal_outcome,
    journal_toldOk, journal_calls, journal_pc, journal_mode, journal_cur, journal_list,
    journal_lost, journal_faults, journal_stalls>>
raidVars == <<raid_inc, raid_perm, raid_task, raid_signals, raid_commands, raid_faults>>
cycleVars == <<cycle_sub, cycle_pending, cycle_current, cycle_seen, cycle_latest,
    cycle_snapshot, cycle_announced, cycle_recorded, cycle_pc, cycle_cyc, cycle_cpc,
    cycle_cmd, cycle_commands, cycle_faults, cycle_baseline, cycle_returned,
    cycle_overlapped, cycle_excused>>
lifeVars == <<life_boot, life_job, life_ops, life_shut, life_lock, life_done,
    life_applied, life_starts>>
memberVars == <<member_discord, member_rec, member_past, member_present, member_warned,
    member_told, member_orphaned, member_unheard, member_cmd, member_recon, member_last,
    member_faults>>
vars == <<focus, journalVars, raidVars, cycleVars, lifeVars, memberVars>>

ASSUME I!RaidAssumption /\ N!CycleAssumption /\ L!LifecycleAssumption

(* The component whose steps a behaviour takes; the others stay as they    *)
(* begin, in one of their initial states.                                  *)
Component == {"journal", "raid", "cycle", "life", "member"}

Init ==
    /\ focus \in Component
    /\ J!Init /\ I!Init /\ N!Init /\ L!Init /\ M!Init
    /\ focus # "journal" => \A o \in {1, 2} : journal_entry[o] = NoEntry
    /\ focus # "cycle" => ~cycle_sub.on /\ cycle_current
    /\ focus # "member" => member_last = 0

JournalStep ==
    /\ focus = "journal" /\ J!Next
    /\ UNCHANGED <<focus, raidVars, cycleVars, lifeVars, memberVars>>
RaidStep ==
    /\ focus = "raid" /\ I!Next
    /\ UNCHANGED <<focus, journalVars, cycleVars, lifeVars, memberVars>>
CycleStep ==
    /\ focus = "cycle" /\ N!Next
    /\ UNCHANGED <<focus, journalVars, raidVars, lifeVars, memberVars>>
LifeStep ==
    /\ focus = "life" /\ L!Next
    /\ UNCHANGED <<focus, journalVars, raidVars, cycleVars, memberVars>>
MemberStep ==
    /\ focus = "member" /\ M!Next
    /\ UNCHANGED <<focus, journalVars, raidVars, cycleVars, lifeVars>>
Next ==
    JournalStep \/ RaidStep \/ CycleStep \/ LifeStep \/ MemberStep

Spec == Init /\ [][Next]_vars

(* The fairness of each module, of the steps of the wrapped one. *)
JournalFairness ==
    /\ \A w \in {"r1"} : WF_journalVars(focus = "journal" /\ J!RunnerStep(w))
    /\ \A o \in {1, 2} : /\ WF_journalVars(focus = "journal" /\ J!LeaseRunsOut(o))
                         /\ WF_journalVars(focus = "journal" /\ J!GrowOld(o))
RaidFairness ==
    /\ \A t \in {"t1"} : /\ WF_raidVars(focus = "raid" /\ I!Intervene(t))
                         /\ SF_raidVars(focus = "raid" /\ I!Sanction(t, TRUE))
                         /\ SF_raidVars(focus = "raid" /\ I!Unlock(t, TRUE))
    /\ WF_raidVars(focus = "raid" /\ \E t \in {"t1"} : I!Sweep(t))
    /\ \A i \in I!Incident : SF_raidVars(focus = "raid" /\ I!Calm(i))
CycleFairness == \A c \in {"y1"} : WF_cycleVars(focus = "cycle" /\ N!CycleStep(c))
LifeFairness == \A i \in {"i1"} : WF_lifeVars(focus = "life" /\ L!ShutdownStep(i))
MemberFairness ==
    /\ WF_memberVars(focus = "member" /\ M!FetchMembers)
    /\ WF_memberVars(focus = "member" /\ M!ReadRecords)
    /\ WF_memberVars(focus = "member" /\ M!Pull)
    /\ \A h \in Handler :
         WF_memberVars(focus = "member" /\ (M!Save(h) \/ M!Undo(h) \/ M!LiftTimeout(h) \/ M!Remove(h) \/ M!Restore(h)))

FairSpec == Spec /\ JournalFairness /\ RaidFairness /\ CycleFairness /\ LifeFairness /\ MemberFairness

-----------------------------------------------------------------------------
(* Every operation of the journal ends.                                    *)
EveryOperationEnds == focus = "journal" => J!EveryOperationEnds

(* Every raid that was confirmed is lifted.                                *)
EveryRaidEnds == I!EveryRaidEnds

(* Every queued update leaves the queue.                                   *)
QueueSettles == N!QueueSettles

(* A shutdown that began ends the process.                                 *)
ShutdownEnds == L!ShutdownEnds

(* A record Discord does not enforce does not stay.                        *)
StaleRecordsEnd == M!StaleRecordsEnd
=============================================================================
