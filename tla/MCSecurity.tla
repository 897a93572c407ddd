-------------------------- MODULE MCSecurity --------------------------
(***************************************************************************)
(* The anti-raid incident, its recovery, the channel lock, the requests of *)
(* the moderation guard, the backups of the configuration, the protection  *)
(* from advertisements, that of single resources and that of the server's  *)
(* structure, side by side: a behaviour is one of one of them.  The bounds *)
(* of the components are constants, which the configuration gives for TLC  *)
(* and Security_proofs leaves open.                                        *)
(***************************************************************************)
EXTENDS RaidIncident, TLC

CONSTANTS
    Thing,                                            \* resources, requests, names
    MaxAttempts,                                      \* of the recovery of a raid
    MaxLockCommands, MaxLockFaults, MaxHands,         \* of the channel lock
    Slice, MaxAmount, Timely, Threshold,              \* of the moderation guard
    Commander, NoBackup, MaxBackups,                  \* of the backups
    AdRequest, Ad, Unverified, Limit,                 \* of advertisements
    MaxSnapshots, MaxChanges,                         \* of protected resources
    MaxResources, MaxGiven                            \* of the server's structure

(* The variables of an instance begin with its letter, in small.           *)
VARIABLES
    focus,
    r_stage, r_before, r_live, r_base, r_snap, r_ops, r_worker, r_unsaved, r_faults,
    l_perm, l_stored, l_record, l_command, l_worker, l_open, l_shut, l_told, l_cut, l_budget,
    m_req, m_batch, m_granted, m_unheard, m_faults, m_window, m_event, m_guard,
    m_stopping, m_sanctions,
    b_store, b_clock, b_live, b_config, b_cmd, b_removed, b_shared, b_raced, b_faults,
    a_request, a_attempts, a_message, a_overlapped, a_faults,
    p_server, p_record, p_audit, p_approved, p_echo, p_handler, p_changes, p_heard,
    p_raced, p_lost, p_faults,
    g_live, g_by, g_copyOf, g_events, g_approval, g_given, g_handler, g_changes, g_faults

R == INSTANCE RaidRecovery WITH
    Resource <- Thing, Worker <- Task, stage <- r_stage, before <- r_before, live <- r_live,
    base <- r_base, snap <- r_snap, ops <- r_ops, worker <- r_worker,
    unsaved <- r_unsaved, faults <- r_faults

L == INSTANCE ChannelLock WITH
    MaxCommands <- MaxLockCommands, MaxFaults <- MaxLockFaults, perm <- l_perm,
    stored <- l_stored, record <- l_record, command <- l_command, worker <- l_worker,
    open <- l_open, shut <- l_shut, told <- l_told, cut <- l_cut, budget <- l_budget

M == INSTANCE MassModeration WITH
    Request <- Thing, Handler <- Task, req <- m_req, batch <- m_batch, granted <- m_granted,
    unheard <- m_unheard, faults <- m_faults, window <- m_window, event <- m_event,
    guard <- m_guard, stopping <- m_stopping, sanctions <- m_sanctions

B == INSTANCE ConfigBackups WITH
    Name <- Thing, Reference <- Task, store <- b_store, clock <- b_clock, live <- b_live,
    config <- b_config, cmd <- b_cmd, removed <- b_removed, shared <- b_shared,
    raced <- b_raced, faults <- b_faults

A == INSTANCE AdProtection WITH
    Message <- Task, Request <- AdRequest, request <- a_request, attempts <- a_attempts,
    message <- a_message, overlapped <- a_overlapped, faults <- a_faults

P == INSTANCE ProtectedResources WITH
    Handler <- Task, MaxId <- MaxSnapshots, server <- p_server, record <- p_record,
    audit <- p_audit, approved <- p_approved, echo <- p_echo, handler <- p_handler,
    changes <- p_changes, heard <- p_heard, raced <- p_raced, lost <- p_lost,
    faults <- p_faults

G == INSTANCE StructureGuard WITH
    Handler <- Task, MaxId <- MaxResources, live <- g_live, by <- g_by, copyOf <- g_copyOf,
    events <- g_events, approval <- g_approval, given <- g_given, handler <- g_handler,
    changes <- g_changes, faults <- g_faults

rVars == <<r_stage, r_before, r_live, r_base, r_snap, r_ops, r_worker, r_unsaved, r_faults>>
lVars == <<l_perm, l_stored, l_record, l_command, l_worker, l_open, l_shut, l_told, l_cut, l_budget>>
mVars == <<m_req, m_batch, m_granted, m_unheard, m_faults, m_window, m_event, m_guard,
           m_stopping, m_sanctions>>
bVars == <<b_store, b_clock, b_live, b_config, b_cmd, b_removed, b_shared, b_raced, b_faults>>
aVars == <<a_request, a_attempts, a_message, a_overlapped, a_faults>>
pVars == <<p_server, p_record, p_audit, p_approved, p_echo, p_handler, p_changes, p_heard,
           p_raced, p_lost, p_faults>>
gVars == <<g_live, g_by, g_copyOf, g_events, g_approval, g_given, g_handler, g_changes, g_faults>>
allVars == <<focus, vars, rVars, lVars, mVars, bVars, aVars, pVars, gVars>>

ASSUME SecurityAssumption ==
    /\ RaidAssumption /\ R!RecoveryAssumption /\ L!LockAssumption /\ M!ThresholdAssumption
    /\ B!BackupAssumption /\ A!AdAssumption /\ P!ProtectedAssumption /\ G!GuardAssumption

(* The component whose steps a behaviour takes; the others stay as they    *)
(* begin, in one of their initial states.                                  *)
Component == {"raid", "recovery", "lock", "guard", "backups", "ads", "protected",
              "structure"}

AllInit ==
    /\ focus \in Component
    /\ Init /\ R!Init /\ L!Init /\ M!Init /\ B!Init /\ A!Init /\ P!Init /\ G!Init
    /\ focus # "guard" => \A r \in Thing : m_req[r].amount = 1
    /\ Cardinality({r \in Thing : r_live[r] = "none"}) = IF focus = "recovery" THEN 1 ELSE 0
    /\ focus # "backups" => b_live = {}
    /\ focus # "ads" => a_attempts.strikes = 0
    /\ focus # "protected" => ~p_approved /\ p_record[0] = {}
    /\ focus # "structure" =>
         /\ g_live = {1} /\ g_given.exact = {}
         /\ \A k \in G!Kind : g_given.batch[k] = 0

RaidStep ==
    /\ focus = "raid" /\ Next
    /\ UNCHANGED <<focus, rVars, lVars, mVars, bVars, aVars, pVars, gVars>>
RecoveryStep ==
    /\ focus = "recovery" /\ R!Next
    /\ UNCHANGED <<focus, vars, lVars, mVars, bVars, aVars, pVars, gVars>>
LockStep ==
    /\ focus = "lock" /\ L!Next
    /\ UNCHANGED <<focus, vars, rVars, mVars, bVars, aVars, pVars, gVars>>
GuardStep ==
    /\ focus = "guard" /\ M!Next
    /\ UNCHANGED <<focus, vars, rVars, lVars, bVars, aVars, pVars, gVars>>
BackupsStep ==
    /\ focus = "backups" /\ B!Next
    /\ UNCHANGED <<focus, vars, rVars, lVars, mVars, aVars, pVars, gVars>>
AdsStep ==
    /\ focus = "ads" /\ A!Next
    /\ UNCHANGED <<focus, vars, rVars, lVars, mVars, bVars, pVars, gVars>>
ProtectedStep ==
    /\ focus = "protected" /\ P!Next
    /\ UNCHANGED <<focus, vars, rVars, lVars, mVars, bVars, aVars, gVars>>
StructureStep ==
    /\ focus = "structure" /\ G!Next
    /\ UNCHANGED <<focus, vars, rVars, lVars, mVars, bVars, aVars, pVars>>
AllNext ==
    RaidStep \/ RecoveryStep \/ LockStep \/ GuardStep \/ BackupsStep \/ AdsStep \/
    ProtectedStep \/ StructureStep

AllSpec == AllInit /\ [][AllNext]_allVars

Symmetry == Permutations(Task) \cup Permutations(Thing)

-----------------------------------------------------------------------------
(* The types of the components' state.                                     *)
TypesOK ==
    /\ TypeOK
    /\ focus = "recovery" => R!TypeOK
    /\ focus = "lock" => L!TypeOK
    /\ focus = "guard" => M!TypeOK
    /\ focus = "backups" => B!TypeOK
    /\ focus = "ads" => A!TypeOK
    /\ focus = "protected" => P!TypeOK
    /\ focus = "structure" => G!TypeOK

(* A recovery that is closed has brought back what the server had, unless  *)
(* it applied a plan that could not be saved.                              *)
ClosedIsRestored == R!ClosedIsRestored

(* Where Discord and the database disagree, it does not stay silent: the   *)
(* lock of a channel, unless a command was cut short, and what a snapshot  *)
(* protects, unless a write was lost or out of date.                       *)
NothingSilent ==
    /\ focus = "lock" => L!NothingSilent
    /\ focus = "protected" => P!QuietMeansKept

(* A batch of approvals is granted as a whole or not at all, the approval  *)
(* of an advertisement is used once, for what it was given for, and those  *)
(* of changes to the structure cover what they were given for; what the    *)
(* structure guard brings back it brings back once.                        *)
ApprovalsAccounted ==
    /\ focus = "guard" => M!AllOrNothing
    /\ focus = "ads" => A!AdsAccounted
    /\ focus = "structure" => G!CoveredIsSpared /\ G!OneCopy

(* The newest backup is not the one that is dropped, and what a load left  *)
(* in the configuration is there.                                          *)
BackupsHold == focus = "backups" => B!NewestIsKept /\ B!RestoredExists

(* A refused or cancelled request is not revived. *)
RefusedStaysRefused == M!RefusedStaysRefused
=============================================================================
