----------------------------- MODULE PlayerCounts -----------------------------
(***************************************************************************)
(* The player count of one game and what one guild is told of it: the      *)
(* refresh (features/player-count/playerCountSnapshotService.ts), the      *)
(* record of what the guild watches (playerCountWatchRepository.ts), the   *)
(* messages (playerCountNotifier.ts) and what makes a change worth telling *)
(* (playerCountChangeSignal.ts).                                           *)
(*                                                                         *)
(* The refresh belongs to the cron cycle; a cycle whose lock was lost does *)
(* not look at the abort until its next game, so that two refreshes of a   *)
(* game can overlap.  An action is one awaited call.                       *)
(***************************************************************************)
EXTENDS Integers, FiniteSets

CONSTANTS Refresh,     \* the refreshes that may run at the same time
          Counts,      \* the counts Steam may report
          Step,        \* a change of so much is significant
          Cooldown,    \* CHANGE_COOLDOWN_MS
          MaxClock,    \* bound on the time
          MaxFaults    \* bound on failed calls and crashes

CountsAssumption ==
    /\ Counts \subseteq Nat /\ Step \in Nat \ {0} /\ Cooldown \in Nat
    /\ MaxClock \in Nat /\ MaxFaults \in Nat

VARIABLES clock,
          watch,       \* the guild's record of this game: {} or one
          record,      \* the highest count: {} or one
          refresh,     \* the state of each refresh
          last,        \* the change that was claimed last: {} or its direction and time
          crowded,     \* a change was claimed too soon after one of its kind
          overlapped,  \* refreshes that ran beside another one
          faults

vars == <<clock, watch, record, refresh, last, crowded, overlapped, faults>>

(* count, at: the observation; seen: the watch record, and prev the        *)
(* highest count, as they were read.                                       *)
Idle == [pc |-> "idle", count |-> 0, at |-> 0, seen |-> {}, prev |-> {}]

Init ==
    /\ clock = 0 /\ watch = {} /\ record = {} /\ refresh = [r \in Refresh |-> Idle]
    /\ last = {} /\ crowded = FALSE /\ overlapped = {} /\ faults = 0

Time == 0 .. MaxClock
Told == [dir : {"up", "down"}, at : Time]
Watched == [count : Counts, at : Time, told : {{}} \cup {{t} : t \in Told}]

TypeOK ==
    /\ clock \in Time /\ watch \subseteq Watched /\ Cardinality(watch) <= 1
    /\ record \subseteq Counts /\ Cardinality(record) <= 1
    /\ \A r \in Refresh :
         /\ refresh[r].pc \in {"idle", "list", "claim", "send", "read", "write", "tell", "done"}
         /\ refresh[r].count \in Counts \cup {0} /\ refresh[r].at \in Time
         /\ refresh[r].seen \subseteq Watched /\ refresh[r].prev \subseteq Counts
    /\ last \subseteq Told
    /\ overlapped \subseteq Refresh /\ faults \in 0 .. MaxFaults

Fault == faults < MaxFaults /\ faults' = faults + 1
Put(r, q) == refresh' = [refresh EXCEPT ![r] = q]
At(r, pc) == refresh[r].pc = pc
Move(r, pc) == Put(r, [refresh[r] EXCEPT !.pc = pc])

Tick ==
    /\ clock < MaxClock /\ clock' = clock + 1
    /\ UNCHANGED <<watch, record, refresh, last, crowded, overlapped, faults>>

-----------------------------------------------------------------------------
(* persistPoint: the snapshot and the history are written.  A source that  *)
(* fails ends the refresh.  Observations are a millisecond apart at least. *)
Observe(r) ==
    /\ At(r, "idle") /\ clock < MaxClock /\ clock' = clock + 1
    /\ \E n \in Counts : Put(r, [Idle EXCEPT !.pc = "list", !.count = n, !.at = clock'])
    /\ overlapped' = LET busy == {q \in Refresh : ~At(q, "idle")}
                     IN  IF busy = {} THEN {} ELSE overlapped \cup busy \cup {r}
    /\ UNCHANGED <<watch, record, last, crowded, faults>>

(* notifyPlayerCountChanges: listWatched. *)
List(r) ==
    /\ At(r, "list") /\ Put(r, [refresh[r] EXCEPT !.pc = "claim", !.seen = watch])
    /\ UNCHANGED <<clock, watch, record, last, crowded, overlapped, faults>>

(* startWatching: the first refresh only leaves its observation. *)
StartWatching(r) ==
    /\ At(r, "claim") /\ refresh[r].seen = {} /\ Move(r, "read")
    /\ watch' = IF watch = {} THEN {[count |-> refresh[r].count, at |-> refresh[r].at, told |-> {}]}
                ELSE watch
    /\ UNCHANGED <<clock, record, last, crowded, overlapped, faults>>

(* evaluatePlayerCountChange *)
Significant(before, n) == n >= before + Step \/ before >= n + Step

Direction(before, n) == IF n > before THEN "up" ELSE "down"

CooldownActive(w, dir, at) ==
    \E t \in w.told : t.dir = dir /\ at - t.at < Cooldown

(* claimObservation: the record must hold what was read. *)
Claims(r, w) == \E x \in watch : x.count = w.count /\ x.at = w.at

(* claimPlayerCountChange: the observation is claimed, and the change is   *)
(* told by the one that claimed it, before it is sent.                     *)
ClaimChange(r) ==
    /\ At(r, "claim")
    /\ \E w \in refresh[r].seen :
         LET n == refresh[r].count
             told == [dir |-> Direction(w.count, n), at |-> refresh[r].at]
             notify == Significant(w.count, n) /\ ~CooldownActive(w, told.dir, told.at)
         IN  IF ~Claims(r, w)
             THEN Move(r, "read") /\ UNCHANGED <<watch, last, crowded>>
             ELSE /\ watch' = {[count |-> n, at |-> refresh[r].at,
                                told |-> IF notify THEN {told}
                                         ELSE UNION {x.told : x \in watch}]}
                  /\ Move(r, IF notify THEN "send" ELSE "read")
                  /\ last' = IF notify THEN {told} ELSE last
                  /\ crowded' = \/ crowded
                                \/ notify /\ \E t \in last :
                                     t.dir = told.dir /\ told.at - t.at < Cooldown
    /\ UNCHANGED <<clock, record, overlapped, faults>>

(* Sent, or there is no channel to send to; a send that throws ends the    *)
(* refresh of this game.                                                   *)
Send(r) ==
    /\ At(r, "send")
    /\ \/ Move(r, "read") /\ UNCHANGED faults
       \/ Fault /\ Put(r, Idle)
    /\ UNCHANGED <<clock, watch, record, last, crowded, overlapped>>

-----------------------------------------------------------------------------
ReadRecord(r) ==
    /\ At(r, "read")
    /\ Put(r, [refresh[r] EXCEPT !.prev = record,
                   !.pc = IF \E p \in record : refresh[r].count <= p THEN "done" ELSE "write"])
    /\ UNCHANGED <<clock, watch, record, last, crowded, overlapped, faults>>

(* The record is written, whatever it is by now. *)
WriteRecord(r) ==
    /\ At(r, "write") /\ record' = {refresh[r].count}
    /\ Move(r, IF refresh[r].prev = {} THEN "done" ELSE "tell")
    /\ UNCHANGED <<clock, watch, last, crowded, overlapped, faults>>

(* notifyMilestone: what fails is logged. *)
TellMilestone(r) ==
    /\ At(r, "tell") /\ Move(r, "done")
    /\ UNCHANGED <<clock, watch, record, last, crowded, overlapped, faults>>

Finish(r) ==
    /\ At(r, "done") /\ Put(r, Idle)
    /\ UNCHANGED <<clock, watch, record, last, crowded, overlapped, faults>>

(* A call to the database fails, or the process dies. *)
Break(r) ==
    /\ Fault /\ refresh[r].pc \notin {"idle", "done"} /\ Put(r, Idle)
    /\ UNCHANGED <<clock, watch, record, last, crowded, overlapped>>

Next ==
    \/ \E r \in Refresh :
        \/ Observe(r) \/ List(r) \/ StartWatching(r) \/ ClaimChange(r) \/ Send(r)
        \/ ReadRecord(r) \/ WriteRecord(r) \/ TellMilestone(r) \/ Finish(r) \/ Break(r)
    \/ Tick

Spec == Init /\ [][Next]_vars

-----------------------------------------------------------------------------
(* A guild is told of two changes of one kind only a cooldown apart, or    *)
(* with one of the other kind between them, although refreshes that        *)
(* overlap judge by records they read earlier and observations may come in *)
(* the wrong order; and a refresh that ran alone leaves a record that is   *)
(* not below its count.                                                    *)
CountsAreTold ==
    /\ ~crowded
    /\ \A r \in Refresh \ overlapped : At(r, "done") => \E p \in record : p >= refresh[r].count
=============================================================================
