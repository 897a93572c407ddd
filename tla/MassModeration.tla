----------------------------- MODULE MassModeration -----------------------------
(***************************************************************************)
(* The mass-moderation guard: the kicks and bans of one moderator, counted *)
(* in a persistent window, approved as a batch or sanctioned once          *)
(* (features/command-security/massModerationRuntime.ts,                    *)
(* massModerationRepository.ts and massModerationTypes.ts), with the       *)
(* approvals of PermissionRequests and the stop of the guard               *)
(* (protectionStopActions.ts).                                             *)
(*                                                                         *)
(* A Handler is the handling of one audit-log event; events are handled as *)
(* they come, nothing serialises them.  An action is one awaited call.     *)
(* Every event hits another member, all within the five minutes of the     *)
(* window.                                                                 *)
(***************************************************************************)
EXTENDS PermissionRequests

CONSTANTS Threshold     \* MASS_MODERATION_DISTINCT_LIMIT

ThresholdAssumption == PermissionAssumption /\ Threshold \in Nat \ {0}

VARIABLES window,     \* the document: the events, sanctionedAt
          event,      \* of each handler: the step, its action, what it read
          guard,      \* moderationGuard.enabled
          stopping,   \* stopAtomically has cancelled and not yet disabled
          sanctions   \* the handlers that sanctioned the moderator (history)

moderationVars == <<window, event, guard, stopping, sanctions>>
vars == <<requestVars, moderationVars>>

Window == [events : SUBSET Handler, sanctioned : BOOLEAN]
Empty == [events |-> {}, sanctioned |-> FALSE]

TypeOK ==
    /\ RequestTypeOK
    /\ window \in Window
    /\ event \in [Handler -> [pc : {"new", "read", "write", "batch", "clear", "claim", "done"},
                              action : Slice, read : Window]]
    /\ guard \in BOOLEAN /\ stopping \in BOOLEAN
    /\ sanctions \subseteq Handler

Init ==
    /\ RequestInit
    /\ window = Empty
    /\ event \in [Handler -> [pc : {"new"}, action : Slice, read : {Empty}]]
    /\ guard = TRUE /\ stopping = FALSE
    /\ sanctions = {}

EventAt(h, pc) == event[h].pc = pc
EventGoto(h, pc) == event' = [event EXCEPT ![h].pc = pc, ![h].read = Empty]

-----------------------------------------------------------------------------
(* handleModerationAction. *)
ReadSituation(h) ==
    /\ EventAt(h, "new")
    /\ EventGoto(h, IF guard THEN "read" ELSE "done")
    /\ UNCHANGED <<requestVars, window, guard, stopping, sanctions>>

(* windows.record reads the document and then writes it whole. *)
ReadWindow(h) ==
    /\ EventAt(h, "read")
    /\ event' = [event EXCEPT ![h].pc = "write", ![h].read = window]
    /\ UNCHANGED <<requestVars, window, guard, stopping, sanctions>>

Need(events) == [s \in Slice |-> Cardinality({h \in events : event[h].action = s})]

WriteWindow(h) ==
    LET events == event[h].read.events \cup {h} IN
    /\ EventAt(h, "write")
    /\ window' = [event[h].read EXCEPT !.events = events]
    /\ IF Cardinality(events) >= Threshold
         THEN StartBatch(h, Need(events)) /\ EventGoto(h, "batch")
         ELSE EventGoto(h, "done") /\ UNCHANGED batch
    /\ UNCHANGED <<req, granted, unheard, faults, guard, stopping, sanctions>>

BatchOver(h) ==
    /\ EventAt(h, "batch")
    /\ \/ At(h, "granted") /\ EventGoto(h, "clear")
       \/ At(h, "refused") /\ EventGoto(h, "claim")
       \/ At(h, "crashed") /\ EventGoto(h, "done")
    /\ UNCHANGED <<requestVars, window, guard, stopping, sanctions>>

Clear(h) ==
    /\ EventAt(h, "clear") /\ EventGoto(h, "done")
    /\ \/ window' = Empty /\ UNCHANGED faults
       \/ Fault /\ UNCHANGED window
    /\ UNCHANGED <<req, batch, granted, unheard, guard, stopping, sanctions>>

ClaimSanction(h) ==
    /\ EventAt(h, "claim") /\ EventGoto(h, "done")
    /\ \/ /\ ~window.sanctioned
          /\ window' = [window EXCEPT !.sanctioned = TRUE] /\ sanctions' = sanctions \cup {h}
          /\ UNCHANGED faults
       \/ window.sanctioned /\ UNCHANGED <<window, sanctions, faults>>
       \/ Fault /\ UNCHANGED <<window, sanctions>>
    /\ UNCHANGED <<req, batch, granted, unheard, guard, stopping>>

(* stopAtomically: the requests are cancelled, then the guard is disabled. *)
StopGuard ==
    /\ guard /\ ~stopping /\ stopping' = TRUE
    /\ IF \E r \in Request : Live(r) THEN CancelTypes ELSE UNCHANGED requestVars
    /\ UNCHANGED <<window, event, guard, sanctions>>

DisableGuard ==
    /\ stopping /\ guard' = FALSE /\ stopping' = FALSE
    /\ UNCHANGED <<requestVars, window, event, sanctions>>

Approvals == RequestNext /\ UNCHANGED moderationVars

Next ==
    \/ Approvals
    \/ \E h \in Handler : \/ ReadSituation(h) \/ ReadWindow(h) \/ WriteWindow(h) \/ BatchOver(h)
                          \/ Clear(h) \/ ClaimSanction(h)
    \/ StopGuard \/ DisableGuard

Spec == Init /\ [][Next]_vars

-----------------------------------------------------------------------------
(* A window is sanctioned once, however many of its events are handled at   *)
(* the same time: the compare-and-set on sanctionedAt is there for that     *)
(* ("doua instante nu pot sanctiona aceeasi fereastra de doua ori").        *)
SanctionedOnce == Cardinality(sanctions) <= 1
=============================================================================
