----------------------------- MODULE CircuitBreaker -----------------------------
(***************************************************************************)
(* The fetch of the latest update of one game: the sharing of the fetches  *)
(* under way (sources/updates/updatesFetchOrchestrator.ts and              *)
(* infra/http/inflightTracker.ts), the dispatch over the primary source    *)
(* and the fallbacks (updatesSourceDispatch.ts), the circuit breaker       *)
(* (updatesCircuitBreaker.ts, circuitBreakerStore.ts) and the alert to the *)
(* administrators (infra/mongo/adminAlerts.ts).                            *)
(*                                                                         *)
(* The requests themselves are HttpClient's: here a source gives a result, *)
(* fails or drifts.  Counters are kept up to their thresholds.  An action  *)
(* is one awaited call.                                                    *)
(***************************************************************************)
EXTENDS Integers, FiniteSets

CONSTANTS Fetch,       \* the fetches, of a cycle or of a command each
          Contexts,    \* 2, cron and manual: what fetches are shared under
          Sources,     \* the primary source is 1, then come the fallbacks
          Threshold,   \* CIRCUIT_BREAKER_FAIL_THRESHOLD, SCHEMA_DRIFT_THRESHOLD
          MaxFaults    \* bound on failed calls, crashes and timeouts

BreakerAssumption == {Sources, Threshold, Contexts} \subseteq Nat \ {0} /\ MaxFaults \in Nat

VARIABLES breaker,     \* the document of the circuit breaker
          quiet,       \* the alerts, of drift or not, claimed within ADMIN_ALERT_COOLDOWN_MS
          shared,      \* the fetches in the map of those under way
          fetch,       \* the state of each fetch
          row,         \* fetches that failed since the last one that succeeded
          told,        \* an alert was delivered since that success, or just before
          overlapped,  \* two fetches ran at the same time
          lost,        \* a fault took the bookkeeping of a fetch
          faults

vars == <<breaker, quiet, shared, fetch, row, told, overlapped, lost, faults>>

(* DEFAULT_STATE. until: the cooldown is not set, runs, or is over. *)
Closed == [fails |-> 0, until |-> "none", alert |-> FALSE, drifts |-> 0, driftAlert |-> FALSE]

(* src: the source in use; drift: the primary source drifted; seen: the    *)
(* breaker was not Closed when it was read and, once the circuit is to be  *)
(* opened, the alert was marked as sent.                                   *)
Idle == [pc |-> "idle", src |-> 1, drift |-> FALSE, seen |-> FALSE]

Init ==
    /\ breaker = Closed /\ quiet = {} /\ shared = {}
    /\ fetch = [f \in Fetch |-> Idle]
    /\ row = 0 /\ told = FALSE /\ overlapped = FALSE /\ lost = FALSE /\ faults = 0

TypeOK ==
    /\ breaker \in [fails : 0 .. Threshold, until : {"none", "open", "over"}, alert : BOOLEAN,
                    drifts : 0 .. Threshold, driftAlert : BOOLEAN]
    /\ quiet \subseteq BOOLEAN /\ {told, overlapped, lost} \subseteq BOOLEAN
    /\ shared \subseteq Fetch /\ Cardinality(shared) <= Contexts
    /\ fetch \in [Fetch -> [pc : {"idle", "read", "call", "good", "bad", "open", "mark", "claim",
                                  "send"},
                            src : 1 .. Sources, drift : BOOLEAN, seen : BOOLEAN]]
    /\ row \in 0 .. Threshold /\ faults \in 0 .. MaxFaults

Up(n) == IF n < Threshold THEN n + 1 ELSE n
Fault == faults < MaxFaults /\ faults' = faults + 1
Put(f, r) == fetch' = [fetch EXCEPT ![f] = r]
At(f, pc) == fetch[f].pc = pc
Move(f, pc) == Put(f, [fetch[f] EXCEPT !.pc = pc])

(* The promise settles: trackInflight takes it out of the map. *)
Settled(f) == shared' = shared \ {f}
End(f) == Put(f, Idle) /\ Settled(f)

-----------------------------------------------------------------------------
(* getLatestForAllGames: a fetch of the same context that is under way is  *)
(* shared, so that each context has one.                                   *)
Begin(f) ==
    /\ At(f, "idle") /\ Cardinality(shared) < Contexts
    /\ shared' = shared \cup {f} /\ Move(f, "read")
    /\ overlapped' = (overlapped \/ \E g \in Fetch : fetch[g].pc # "idle")
    /\ UNCHANGED <<breaker, quiet, row, told, lost, faults>>

(* withInflightTimeout: those who wait get an error and the next call      *)
(* starts a fetch of its own; the old one goes on.                         *)
InflightTimeout(f) ==
    /\ Fault /\ f \in shared /\ Settled(f)
    /\ UNCHANGED <<breaker, quiet, fetch, row, told, overlapped, lost>>

(* A circuit that is open, or cannot be read, stops the fetch. *)
ReadBreaker(f) ==
    /\ At(f, "read")
    /\ \/ breaker.until = "open" /\ End(f) /\ UNCHANGED faults
       \/ breaker.until # "open" /\ UNCHANGED <<shared, faults>>
          /\ Put(f, [fetch[f] EXCEPT !.pc = "call", !.seen = (breaker # Closed)])
       \/ Fault /\ End(f)
    /\ UNCHANGED <<breaker, quiet, row, told, overlapped, lost>>

(* fetchGameUpdate: a source that fails leads to the next one; the error   *)
(* that counts is the one of the primary source.  A listing that shows no  *)
(* article drifted.                                                        *)
SourceAnswers(f) ==
    /\ At(f, "call") /\ Move(f, "good") /\ row' = 0 /\ told' = (quiet # {})
    /\ UNCHANGED <<breaker, quiet, shared, overlapped, lost, faults>>

SourceFails(f) ==
    /\ At(f, "call")
    /\ \E drift \in IF fetch[f].src = 1 THEN BOOLEAN ELSE {fetch[f].drift} :
         IF fetch[f].src < Sources
         THEN Put(f, [fetch[f] EXCEPT !.src = @ + 1, !.drift = drift]) /\ UNCHANGED row
         ELSE Put(f, [fetch[f] EXCEPT !.pc = "bad", !.drift = drift]) /\ row' = Up(row)
    /\ UNCHANGED <<breaker, quiet, shared, told, overlapped, lost, faults>>

-----------------------------------------------------------------------------
(* executeFetchWithCircuitBreaker *)

(* Mutant: only a fetch that follows a cooldown closes the circuit. *)
Reset_AfterCooldown(f) == IF breaker.until # "none" THEN Closed ELSE breaker

(* A success clears the breaker if it held anything when the fetch began.  *)
Reset(f) == IF fetch[f].seen THEN Closed ELSE breaker

(* Where the reset fails, the fetch counts as one that failed. *)
Good(f) ==
    /\ At(f, "good")
    /\ \/ breaker' = Reset(f) /\ End(f) /\ UNCHANGED <<lost, faults>>
       \/ /\ Fault /\ fetch[f].seen
          /\ Put(f, [fetch[f] EXCEPT !.pc = "bad", !.drift = FALSE])
          /\ lost' = TRUE /\ UNCHANGED <<breaker, shared>>
    /\ UNCHANGED <<quiet, row, told, overlapped>>

Counted(drift) ==
    IF drift THEN [breaker EXCEPT !.drifts = Up(@)] ELSE [breaker EXCEPT !.fails = Up(@)]

Opens(b, drift) ==
    b.until # "open" /\ (IF drift THEN b.drifts ELSE b.fails) >= Threshold

(* registerFailure, registerSchemaDrift: counted, and read with the count. *)
Register(f) ==
    /\ At(f, "bad")
    /\ LET drift == fetch[f].drift
           b == Counted(drift)
       IN  /\ breaker' = b
           /\ \/ /\ Opens(b, drift) /\ UNCHANGED shared
                 /\ Put(f, [fetch[f] EXCEPT !.pc = "open",
                                            !.seen = IF drift THEN b.driftAlert ELSE b.alert])
              \/ ~Opens(b, drift) /\ End(f)
    /\ UNCHANGED <<quiet, row, told, overlapped, lost, faults>>

(* openCircuit; the alert follows unless one was marked as sent. *)
Open(f) ==
    /\ At(f, "open")
    /\ breaker' = [breaker EXCEPT !.until = "open"]
    /\ \/ fetch[f].seen /\ End(f)
       \/ ~fetch[f].seen /\ Move(f, "mark") /\ UNCHANGED shared
    /\ UNCHANGED <<quiet, row, told, overlapped, lost, faults>>

Mark(f) ==
    /\ At(f, "mark") /\ Move(f, "claim")
    /\ breaker' = IF fetch[f].drift THEN [breaker EXCEPT !.driftAlert = TRUE]
                  ELSE [breaker EXCEPT !.alert = TRUE]
    /\ UNCHANGED <<quiet, shared, row, told, overlapped, lost, faults>>

(* adminAlert: the cooldown of cb:<key>, or of drift:<key>, is claimed by   *)
(* an update or by a create.                                               *)
ClaimAlert(f) ==
    /\ At(f, "claim")
    /\ \/ fetch[f].drift \in quiet /\ End(f) /\ UNCHANGED quiet
       \/ /\ fetch[f].drift \notin quiet /\ quiet' = quiet \cup {fetch[f].drift}
          /\ Move(f, "send") /\ UNCHANGED shared
    /\ UNCHANGED <<breaker, row, told, overlapped, lost, faults>>

(* Delivered somewhere, or nowhere: then the cooldown is taken back; the   *)
(* mark in the breaker stays.                                              *)
SendAlert(f) ==
    /\ At(f, "send") /\ End(f)
    /\ \/ told' = TRUE /\ UNCHANGED <<quiet, lost, faults>>
       \/ Fault /\ quiet' = quiet \ {fetch[f].drift} /\ lost' = TRUE /\ UNCHANGED told
    /\ UNCHANGED <<breaker, row, overlapped>>

(* A call of the bookkeeping fails, or the process dies: the rest of it is *)
(* not done.                                                               *)
LoseBookkeeping(f) ==
    /\ Fault /\ fetch[f].pc \in {"bad", "open", "mark", "claim", "send"}
    /\ End(f) /\ lost' = TRUE
    /\ UNCHANGED <<breaker, quiet, row, told, overlapped>>

(* A cooldown ends: that of the circuit, or that of the alert. *)
CooldownEnds ==
    /\ \/ breaker.until = "open" /\ breaker' = [breaker EXCEPT !.until = "over"] /\ UNCHANGED quiet
       \/ (\E alert \in quiet : quiet' = quiet \ {alert}) /\ UNCHANGED breaker
    /\ UNCHANGED <<shared, fetch, row, told, overlapped, lost, faults>>

Next ==
    \/ \E f \in Fetch :
        \/ Begin(f) \/ InflightTimeout(f) \/ ReadBreaker(f) \/ SourceAnswers(f) \/ SourceFails(f)
        \/ Good(f) \/ Register(f) \/ Open(f) \/ Mark(f) \/ ClaimAlert(f) \/ SendAlert(f)
        \/ LoseBookkeeping(f)
    \/ CooldownEnds

Spec == Init /\ [][Next]_vars

-----------------------------------------------------------------------------
(* A source is left alone only after it failed so many times in a row, as  *)
(* the alert says, although the failures are counted in the database and a *)
(* success clears only what its fetch had read before.  Fetches that       *)
(* overlap and a failed write are the exceptions: see Good, where a fetch  *)
(* that succeeded is counted as one that failed.                           *)
OpenMeansFailing ==
    breaker.until = "open" => row >= Threshold \/ overlapped \/ lost

(* And while it is left alone, the administrators know: an alert was       *)
(* delivered since the source last worked, or within its cooldown before.  *)
OutageIsTold ==
    breaker.until = "open" /\ (\A f \in Fetch : At(f, "idle")) => told \/ overlapped \/ lost
=============================================================================
