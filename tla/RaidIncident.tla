----------------------------- MODULE RaidIncident -----------------------------
(***************************************************************************)
(* The anti-raid intervention of one guild (features/command-security/     *)
(* antiRaidRuntime.ts, antiRaidIntervention.ts, antiRaidIncident*.ts and   *)
(* command-handlers/antiRaidInteractionHandler.ts): observers open an      *)
(* incident, and every observer, every sweep and the owner's commands      *)
(* drive it, concurrently, from suspicion to the lifted lockdown.          *)
(*                                                                         *)
(* A task is one such call; an action is one awaited call of it.  Time is  *)
(* abstract: calm says that the safety period has passed since the last    *)
(* write that sets lastActivityAt.  One guild, one process.                *)
(***************************************************************************)
EXTENDS Integers, FiniteSets

CONSTANTS Human, Bot,    \* the actors a detector can name
          Channel,       \* the channels an attack touches
          Task,          \* the calls that can be under way at once
          LastStep,      \* length of SANCTION_LADDER: mute, timeout, ban
          MaxIncidents,  \* bound on the incidents opened
          MaxSignals,    \* bound on the verdicts of the detector
          MaxCommands,   \* bound on the owner's commands
          MaxFaults      \* bound on crashes and failed writes

RaidAssumption ==
    /\ Human \cap Bot = {} /\ LastStep \in Nat \ {0} /\ MaxIncidents \in Nat \ {0}
    /\ MaxSignals \in Nat /\ MaxCommands \in Nat /\ MaxFaults \in Nat

VARIABLES inc,      \* the incidents, by the order they were opened
          perm,     \* what @everyone may do in a channel
          task,     \* the calls under way
          signals, commands, faults

bounds == <<signals, commands, faults>>
vars == <<inc, perm, task, bounds>>

User == Human \cup Bot
Step == 1 .. LastStep
Incident == 1 .. MaxIncidents
Stage == <<"suspected", "confirmed", "containment", "cleanup", "recovery", "resolved">>
Rank(s) == CHOOSE k \in 0 .. 6 : (k = 0 /\ s = "none") \/ (k # 0 /\ s = Stage[k])
Active(i) == inc[i].stage \notin {"none", "resolved"}

Out == [in |-> FALSE, applied |-> {}, failed |-> {}, unstopped |-> FALSE]
New == [Out EXCEPT !.in = TRUE]
Member == [in : BOOLEAN, applied : SUBSET Step, failed : SUBSET Step, unstopped : BOOLEAN]
(* previousSendMessages of a lock, "lifted" once restoredAt is set. *)
Lock == {"none", "open", "denied", "lifted"}
Doc == [stage : {"none"} \cup {Stage[k] : k \in 1 .. 6}, dry : BOOLEAN, calm : BOOLEAN,
        member : [User -> Member], lock : [Channel -> Lock]]
Blank == [stage |-> "none", dry |-> FALSE, calm |-> FALSE,
          member |-> [u \in User |-> Out], lock |-> [c \in Channel |-> "none"]]
Nothing == [kind |-> "none"]

Jobs == {"observe", "join", "start", "stop", "add", "remove", "tick"}
Places == {"idle", "find", "open", "register", "leave", "stop", "active", "close", "confirm", "read",
           "capture", "act", "locked", "sanctioned", "unstopped", "purge", "restore", "lifted",
           "contain", "cleanup"}
(* Where a call does what the stage asks for. *)
Acting == {"confirm", "read", "capture", "act", "locked", "sanctioned", "unstopped", "purge",
           "restore", "lifted", "cleanup"}
Held == {Nothing} \cup [kind : {"lock"}, c : Channel, prev : {"open", "denied"}]
                  \cup [kind : {"unlock"}, c : Channel]
                  \cup [kind : {"step"}, u : User, step : Step, ok : BOOLEAN]

(* A call: where it is, which call it is, the incident it works on and its  *)
(* copy of it, the actors and channels it has not handled yet, the Discord  *)
(* call it has made and not recorded.                                       *)
Call == [pc : Places, job : Jobs, id : Incident, doc : Doc,
         who : SUBSET User, chans : SUBSET Channel, held : Held]
Idle == [pc |-> "idle", job |-> "tick", id |-> 1, doc |-> Blank,
         who |-> {}, chans |-> {}, held |-> Nothing]

TypeOK ==
    /\ inc \in [Incident -> Doc] /\ perm \in [Channel -> {"open", "denied"}]
    /\ task \in [Task -> Call]
    /\ signals \in 0 .. MaxSignals /\ commands \in 0 .. MaxCommands /\ faults \in 0 .. MaxFaults

Init ==
    /\ inc = [i \in Incident |-> Blank] /\ perm = [c \in Channel |-> "open"]
    /\ task = [t \in Task |-> Idle]
    /\ signals = 0 /\ commands = 0 /\ faults = 0

At(t, place) == task[t].pc = place
(* The call goes on as r says, or returns. *)
Set(t, r) == task' = [task EXCEPT ![t] = IF r.pc = "idle" THEN Idle ELSE r]
Goto(t, place) == Set(t, [task[t] EXCEPT !.pc = place])
(* The incident of the call as it is now. *)
Now(t) == inc[task[t].id]

(* nextSanctionStep: 0 when there is none left. *)
NextStep(u, m) ==
    IF u \in Bot
    THEN IF LastStep \in m.applied THEN 0 ELSE LastStep
    ELSE IF m.applied # {} \/ Step \subseteq m.failed THEN 0
         ELSE CHOOSE s \in Step \ m.failed : \A r \in Step \ m.failed : s <= r
Settled(u, m) == NextStep(u, m) = 0
Members(d) == {u \in User : d.member[u].in}
Unsettled(d) == {u \in Members(d) : ~Settled(u, d.member[u])}

(* Mutant: the stage is written whatever it is now. *)
Advance_Unconditional(i, from, to) ==
    inc' = IF Rank(to) > Rank(from) THEN [inc EXCEPT ![i].stage = to, ![i].calm = FALSE] ELSE inc

(* incidents.advance: a compare-and-set on the stage. *)
Advance(i, from, to) ==
    inc' = IF Rank(to) > Rank(from) /\ inc[i].stage = from
           THEN [inc EXCEPT ![i].stage = to, ![i].calm = FALSE] ELSE inc
(* A write that sets lastActivityAt, when it matches. *)
Write(i, matches, doc) == inc' = IF matches THEN [inc EXCEPT ![i] = [doc EXCEPT !.calm = FALSE]] ELSE inc

-----------------------------------------------------------------------------
(* How a call starts, up to runIntervention. *)

Begin(t, j, us, cs) ==
    /\ At(t, "idle") /\ UNCHANGED <<inc, perm>>
    /\ Set(t, [Idle EXCEPT !.pc = "find", !.job = j, !.who = us, !.chans = cs])

(* observeMessage, observeStructureChange: a verdict that triggered names  *)
(* actors and channels; one that did not only keeps an incident busy.      *)
Observe(t, us, cs) ==
    /\ signals < MaxSignals /\ (us = {} => cs = {})
    /\ signals' = signals + 1 /\ UNCHANGED <<commands, faults>>
    /\ Begin(t, "observe", us, cs)

(* observeBotJoin, escalateActor: they only join a confirmed raid. *)
ObserveBotJoin(t, us) ==
    /\ signals < MaxSignals /\ us # {}
    /\ signals' = signals + 1 /\ UNCHANGED <<commands, faults>>
    /\ Begin(t, "join", us, {})

(* forceStart, forceStop, addParticipant and removeParticipant of the owner. *)
Command(t, j, us) ==
    /\ commands < MaxCommands /\ (us = {} <=> j \in {"start", "stop"}) /\ Cardinality(us) <= 1
    /\ commands' = commands + 1 /\ UNCHANGED <<signals, faults>>
    /\ Begin(t, j, us, {})

(* Mutant: the sweep passes over the incidents nobody has confirmed. *)
Sweep_ConfirmedOnly(t) ==
    /\ \E i \in Incident : Active(i) /\ inc[i].stage # "suspected"
    /\ \A s \in Task : At(s, "idle") \/ task[s].job # "tick"
    /\ Begin(t, "tick", {}, {}) /\ UNCHANGED bounds

(* The sweep ticks a guild with an active incident; its runs do not overlap. *)
Sweep(t) ==
    /\ \E i \in Incident : Active(i)
    /\ \A s \in Task : At(s, "idle") \/ task[s].job # "tick"
    /\ Begin(t, "tick", {}, {}) /\ UNCHANGED bounds

(* Where a call goes that has found the incident i. *)
Found(t, i) ==
    CASE task[t].job = "observe" -> IF task[t].who = {} THEN "idle" ELSE "register"
      [] task[t].job = "join" -> IF inc[i].stage = "suspected" THEN "idle" ELSE "register"
      [] task[t].job = "stop" -> IF inc[i].stage = "suspected" THEN "idle" ELSE "stop"
      [] task[t].job = "add" -> IF inc[i].stage = "recovery" THEN "idle" ELSE "register"
      [] task[t].job = "remove" -> "leave"
      [] task[t].job = "start" -> "idle"
      [] OTHER -> "active"

(* incidents.active, and what the call does with it; an observer touches it. *)
Find(t) ==
    /\ At(t, "find")
    /\ \/ \E i \in Incident :
            /\ Active(i) /\ Write(i, task[t].job = "observe", inc[i])
            /\ Set(t, [task[t] EXCEPT !.pc = Found(t, i), !.id = i,
                        !.doc = IF task[t].job \in {"stop", "remove"} THEN inc[i] ELSE Blank])
       \/ /\ \A i \in Incident : ~Active(i)
          /\ Goto(t, IF task[t].job = "start" \/ (task[t].job = "observe" /\ task[t].who # {}) THEN "open" ELSE "idle")
          /\ UNCHANGED inc
    /\ UNCHANGED <<perm, bounds>>

(* incidents.open: the unique activeKey lets one caller create it; the dry *)
(* run is the setting read before.  The loser goes no further.             *)
Open(t, dry) ==
    /\ At(t, "open")
    /\ \/ (\E i \in Incident : Active(i)) /\ Goto(t, "idle") /\ UNCHANGED inc
       \/ \E i \in Incident :
            /\ \A k \in Incident : ~Active(k) /\ (inc[k].stage = "none" <=> k >= i)
            /\ inc' = [inc EXCEPT ![i] = [Blank EXCEPT
                        !.stage = IF task[t].job = "start" THEN "confirmed" ELSE "suspected",
                        !.dry = dry /\ task[t].job # "start"]]
            /\ Set(t, [task[t] EXCEPT !.id = i, !.pc = IF task[t].job = "start" THEN "active" ELSE "register"])
    /\ UNCHANGED <<perm, bounds>>

(* registerParticipants, one addParticipant at a time. *)
Register(t) ==
    /\ At(t, "register")
    /\ \/ /\ task[t].who = {} /\ Goto(t, IF task[t].job = "add" THEN "idle" ELSE "active")
          /\ UNCHANGED inc
       \/ \E u \in task[t].who :
            /\ Write(task[t].id, ~Now(t).member[u].in, [Now(t) EXCEPT !.member[u] = New])
            /\ Set(t, [task[t] EXCEPT !.who = @ \ {u}])
    /\ UNCHANGED <<perm, bounds>>

RemoveParticipant(t) ==
    /\ At(t, "leave")
    /\ \E u \in task[t].who :
         Write(task[t].id, task[t].doc.member[u].in, [Now(t) EXCEPT !.member[u] = Out])
    /\ Goto(t, "idle") /\ UNCHANGED <<perm, bounds>>

(* forceStop moves on from the stage it read. *)
ForceStop(t) ==
    /\ At(t, "stop")
    /\ Advance(task[t].id, task[t].doc.stage, "recovery")
    /\ Set(t, [task[t] EXCEPT !.pc = IF inc' # inc THEN "active" ELSE "idle", !.doc = Blank])
    /\ UNCHANGED <<perm, bounds>>

-----------------------------------------------------------------------------
(* advanceIncident. *)

(* Mutant: the dry run is only looked at once the safety period has passed. *)
ReadActive_DryForgotten(t) ==
    /\ At(t, "active")
    /\ \/ \E i \in Incident :
            /\ Active(i)
            /\ Set(t, [task[t] EXCEPT !.id = i,
                        !.pc = IF inc[i].dry /\ inc[i].calm THEN "close"
                               ELSE IF inc[i].stage = "suspected" THEN "confirm" ELSE "read"])
       \/ (\A i \in Incident : ~Active(i)) /\ Goto(t, "contain")
    /\ UNCHANGED <<inc, perm, bounds>>

ReadActive(t) ==
    /\ At(t, "active")
    /\ \/ \E i \in Incident :
            /\ Active(i)
            /\ Set(t, [task[t] EXCEPT !.id = i,
                        !.pc = IF inc[i].dry THEN IF inc[i].calm THEN "close" ELSE "contain"
                               ELSE IF inc[i].stage = "suspected" THEN "confirm" ELSE "read"])
       \/ (\A i \in Incident : ~Active(i)) /\ Goto(t, "contain")
    /\ UNCHANGED <<inc, perm, bounds>>

(* resolveDryRuns: a simulation ends without an action. *)
CloseDryRun(t) ==
    /\ At(t, "close")
    /\ inc' = [i \in Incident |-> IF Active(i) /\ inc[i].dry
                 THEN [inc[i] EXCEPT !.stage = "resolved", !.calm = FALSE] ELSE inc[i]]
    /\ Goto(t, "contain") /\ UNCHANGED <<perm, bounds>>

Confirm(t) ==
    /\ At(t, "confirm")
    /\ Advance(task[t].id, "suspected", "confirmed") /\ Goto(t, "read")
    /\ UNCHANGED <<perm, bounds>>

ReadCurrent(t) ==
    /\ At(t, "read")
    /\ LET d == Now(t) IN
       Set(t, [task[t] EXCEPT !.doc = d, !.who = Unsettled(d),
               !.chans = IF d.stage \in {"cleanup", "recovery"} THEN {} ELSE @,
               !.pc = CASE d.stage = "confirmed" -> "capture"
                        [] d.stage = "resolved" -> "contain"
                        [] OTHER -> "act"])
    /\ UNCHANGED <<inc, perm, bounds>>

(* captureStructureSnapshot, then confirmed to containment. *)
Capture(t) ==
    /\ At(t, "capture")
    /\ Advance(task[t].id, "confirmed", "containment") /\ Goto(t, "act")
    /\ UNCHANGED <<perm, bounds>>

LockFirst(t) == Cardinality(Members(task[t].doc)) >= 2
Done(t, c) == [task[t] EXCEPT !.pc = "act", !.held = Nothing, !.chans = @ \ {c}]

(* guild.lockChannel: what was allowed before is read, then denied; one    *)
(* the copy shows as locked is passed over, and a refusal is an error of   *)
(* the incident.                                                           *)
LockChannel(t, ok) ==
    /\ At(t, "act") /\ (LockFirst(t) \/ task[t].who = {})
    /\ \E c \in task[t].chans :
       \/ /\ task[t].doc.lock[c] \in {"open", "denied"}
          /\ Set(t, Done(t, c)) /\ UNCHANGED <<inc, perm>>
       \/ /\ ok /\ task[t].doc.lock[c] \notin {"open", "denied"}
          /\ Set(t, [task[t] EXCEPT !.pc = "locked", !.held = [kind |-> "lock", c |-> c, prev |-> perm[c]]])
          /\ perm' = [perm EXCEPT ![c] = "denied"] /\ UNCHANGED inc
       \/ /\ ~ok /\ task[t].doc.lock[c] \notin {"open", "denied"}
          /\ Set(t, Done(t, c)) /\ Write(task[t].id, TRUE, Now(t)) /\ UNCHANGED perm
    /\ UNCHANGED bounds

(* Mutant: a lock that could not be recorded is undone at once. *)
RecordLock_UndoesUnrecorded(t, ok) ==
    /\ At(t, "locked") /\ (ok \/ faults < MaxFaults)
    /\ LET c == task[t].held.c IN
       /\ Write(task[t].id, ok /\ Now(t).lock[c] = "none", [Now(t) EXCEPT !.lock[c] = task[t].held.prev])
       /\ Set(t, Done(t, c))
       /\ perm' = IF ok THEN perm ELSE [perm EXCEPT ![c] = task[t].held.prev]
    /\ faults' = IF ok THEN faults ELSE faults + 1
    /\ UNCHANGED <<signals, commands>>

(* incidents.lockChannel: only a channel the incident does not list; a     *)
(* write that fails is told to the owner and the intervention goes on.     *)
RecordLock(t, ok) ==
    /\ At(t, "locked") /\ (ok \/ faults < MaxFaults)
    /\ LET c == task[t].held.c IN
       /\ Write(task[t].id, ok /\ Now(t).lock[c] = "none", [Now(t) EXCEPT !.lock[c] = task[t].held.prev])
       /\ Set(t, Done(t, c))
    /\ faults' = IF ok THEN faults ELSE faults + 1
    /\ UNCHANGED <<perm, signals, commands>>

(* sanctionWithRetry: the next step of one participant, by the copy read. *)
Sanction(t, ok) ==
    /\ At(t, "act") /\ (~LockFirst(t) \/ task[t].chans = {})
    /\ \E u \in task[t].who :
         Set(t, [task[t] EXCEPT !.pc = "sanctioned",
                 !.held = [kind |-> "step", u |-> u, step |-> NextStep(u, task[t].doc.member[u]), ok |-> ok]])
    /\ UNCHANGED <<inc, perm, bounds>>

Sanctioned(t) == [task[t] EXCEPT !.pc = "act", !.held = Nothing, !.who = @ \ {task[t].held.u}]

RecordSanction(t) ==
    /\ At(t, "sanctioned")
    /\ LET u == task[t].held.u  s == task[t].held.step  ok == task[t].held.ok  m == Now(t).member[u]
           left == [task[t].doc.member[u] EXCEPT !.failed = @ \cup {s}]
       IN /\ Write(task[t].id, m.in /\ s \notin (IF ok THEN m.applied ELSE m.failed),
                   [Now(t) EXCEPT !.member[u] =
                     IF ok THEN [m EXCEPT !.applied = @ \cup {s}, !.unstopped = FALSE]
                     ELSE [m EXCEPT !.failed = @ \cup {s}]])
          /\ IF ~ok /\ Settled(u, left) THEN Goto(t, "unstopped") ELSE Set(t, Sanctioned(t))
    /\ UNCHANGED <<perm, bounds>>

(* markParticipantFailed: mute, timeout and ban failed; the owner is told. *)
MarkFailed(t) ==
    /\ At(t, "unstopped")
    /\ LET u == task[t].held.u IN
       Write(task[t].id, Now(t).member[u].in, [Now(t) EXCEPT !.member[u].unstopped = TRUE])
    /\ Set(t, Sanctioned(t)) /\ UNCHANGED <<perm, bounds>>

(* Every participant and channel is done: what follows depends on the stage read. *)
Acted(t) ==
    /\ At(t, "act") /\ task[t].who = {} /\ task[t].chans = {}
    /\ LET d == task[t].doc IN
       Set(t, CASE d.stage = "cleanup" -> [task[t] EXCEPT !.pc = "purge"]
                [] d.stage = "recovery" /\ d.calm ->
                     [task[t] EXCEPT !.pc = "restore", !.chans = {c \in Channel : d.lock[c] \in {"open", "denied"}}]
                [] OTHER -> [task[t] EXCEPT !.pc = "contain", !.doc = Blank])
    /\ UNCHANGED <<inc, perm, bounds>>

(* purgeMessages, then cleanup to recovery. *)
Purge(t) ==
    /\ At(t, "purge")
    /\ Advance(task[t].id, "cleanup", "recovery")
    /\ Set(t, [task[t] EXCEPT !.pc = "contain", !.doc = Blank])
    /\ UNCHANGED <<perm, bounds>>

(* restore: a channel gets back what the incident recorded; one that       *)
(* cannot be unlocked is an error of the incident, and restore goes on.    *)
Unlock(t, ok) ==
    /\ At(t, "restore")
    /\ \E c \in task[t].chans :
       \/ /\ ok /\ perm' = [perm EXCEPT ![c] = task[t].doc.lock[c]]
          /\ Set(t, [task[t] EXCEPT !.pc = "lifted", !.held = [kind |-> "unlock", c |-> c]])
          /\ UNCHANGED inc
       \/ /\ ~ok /\ Write(task[t].id, TRUE, Now(t))
          /\ Set(t, [task[t] EXCEPT !.chans = @ \ {c}]) /\ UNCHANGED perm
    /\ UNCHANGED bounds

MarkRestored(t) ==
    /\ At(t, "lifted")
    /\ LET c == task[t].held.c IN
       /\ inc' = IF Now(t).lock[c] \in {"open", "denied"}
                 THEN [inc EXCEPT ![task[t].id].lock[c] = "lifted"] ELSE inc
       /\ Set(t, [task[t] EXCEPT !.pc = "restore", !.held = Nothing, !.chans = @ \ {c}])
    /\ UNCHANGED <<perm, bounds>>

(* restoreStructure; only a complete one resolves the incident. *)
RestoreStructure(t, complete) ==
    /\ At(t, "restore") /\ task[t].chans = {}
    /\ IF complete THEN Advance(task[t].id, "recovery", "resolved") ELSE UNCHANGED inc
    /\ Set(t, [task[t] EXCEPT !.pc = "contain", !.doc = Blank]) /\ UNCHANGED <<perm, bounds>>

(* markContained: it reads the active incident and then moves it. *)
Contained(i) == inc[i].stage = "containment" /\ Members(inc[i]) # {} /\ Unsettled(inc[i]) = {}

ReadContained(t) ==
    /\ At(t, "contain")
    /\ \/ \E i \in Incident :
            Contained(i) /\ Set(t, [Idle EXCEPT !.pc = "cleanup", !.job = task[t].job, !.id = i])
       \/ (\A i \in Incident : ~Contained(i)) /\ Goto(t, "idle")
    /\ UNCHANGED <<inc, perm, bounds>>

MarkContained(t) ==
    /\ At(t, "cleanup")
    /\ Advance(task[t].id, "containment", "cleanup") /\ Goto(t, "idle")
    /\ UNCHANGED <<perm, bounds>>

-----------------------------------------------------------------------------
(* The safety period passes without a write to an incident. *)
Calm(i) ==
    /\ Active(i) /\ ~inc[i].calm /\ inc' = [inc EXCEPT ![i].calm = TRUE]
    /\ UNCHANGED <<perm, task, bounds>>

(* A call of advanceIncident throws: runIntervention logs it and goes on with markContained. *)
Throw(t) ==
    /\ task[t].pc \in (Acting \cup {"active", "close"}) \ {"cleanup"}
    /\ faults < MaxFaults /\ faults' = faults + 1
    /\ Set(t, [Idle EXCEPT !.pc = "contain", !.job = task[t].job])
    /\ UNCHANGED <<inc, perm, signals, commands>>

(* The process ends; what it had done and not recorded is forgotten. *)
Crash ==
    /\ faults < MaxFaults /\ faults' = faults + 1 /\ \E t \in Task : ~At(t, "idle")
    /\ task' = [t \in Task |-> Idle]
    /\ UNCHANGED <<inc, perm, signals, commands>>

Intervene(t) ==
    \/ Find(t) \/ (\E dry \in BOOLEAN : Open(t, dry)) \/ Register(t) \/ RemoveParticipant(t) \/ ForceStop(t)
    \/ ReadActive(t) \/ CloseDryRun(t) \/ Confirm(t) \/ ReadCurrent(t) \/ Capture(t)
    \/ (\E ok \in BOOLEAN : LockChannel(t, ok) \/ RecordLock(t, ok) \/ Sanction(t, ok)
                            \/ Unlock(t, ok) \/ RestoreStructure(t, ok))
    \/ RecordSanction(t) \/ MarkFailed(t) \/ Acted(t) \/ Purge(t) \/ MarkRestored(t)
    \/ ReadContained(t) \/ MarkContained(t)

Next ==
    \/ \E t \in Task :
         \/ \E us \in SUBSET User, cs \in SUBSET Channel : Observe(t, us, cs)
         \/ \E us \in SUBSET User : ObserveBotJoin(t, us)
         \/ \E us \in SUBSET User, j \in {"start", "stop", "add", "remove"} : Command(t, j, us)
         \/ Sweep(t) \/ Intervene(t) \/ Throw(t)
    \/ \E i \in Incident : Calm(i)
    \/ Crash

Spec == Init /\ [][Next]_vars

(* Every call goes on, the sweep comes back every minute and the safety    *)
(* period passes; Discord does not refuse for ever a ban or an unlock that *)
(* is asked again.  Nothing is assumed of the restoration of the structure.*)
Fairness ==
    /\ \A t \in Task : /\ WF_vars(Intervene(t)) /\ SF_vars(Sanction(t, TRUE))
                       /\ SF_vars(Unlock(t, TRUE))
    /\ WF_vars(\E t \in Task : Sweep(t))
    /\ \A i \in Incident : SF_vars(Calm(i))

FairSpec == Spec /\ Fairness
-----------------------------------------------------------------------------
(* A dry run does nothing: an incident opened as a simulation locks no     *)
(* channel, sanctions nobody and never leaves suspicion, and no call acts  *)
(* on it, whatever other calls and the owner's commands do meanwhile.      *)
DryRunTouchesNothing ==
    /\ \A i \in Incident : inc[i].dry =>
         /\ inc[i].stage \in {"suspected", "resolved"}
         /\ \A c \in Channel : inc[i].lock[c] = "none"
         /\ \A u \in User : inc[i].member[u].applied = {} /\ inc[i].member[u].failed = {}
    /\ \A t \in Task : task[t].pc \in Acting => ~inc[task[t].id].dry

(* A stage is never taken back, and a resolved incident stays resolved:    *)
(* the calls that drive an incident concurrently, each from the copy it    *)
(* read, never undo what another call has reached.                         *)
StagesOnlyAdvance == [][\A i \in Incident : Rank(inc[i].stage) <= Rank(inc'[i].stage)]_vars

(* A lockdown is lifted by the restoration alone: a denied channel is      *)
(* given back only when an incident that has recorded that channel is in   *)
(* recovery or resolved, never while the raid is still being contained.    *)
LiftedOnlyInRecovery ==
    [][\A c \in Channel : perm[c] = "denied" /\ perm'[c] = "open" =>
         \E i \in Incident : inc[i].stage \in {"recovery", "resolved"} /\ inc[i].lock[c] # "none"]_vars

(* Once the attack stops every incident ends, through crashes, failed      *)
(* sanctions and failed unlocks.  Two kinds remain, and both wait for the  *)
(* owner: one in containment that has no participants (they were removed,  *)
(* or none was registered), and one in recovery that has lifted the locks  *)
(* it recorded but whose structure cannot be restored.                     *)
EveryRaidEnds ==
    <>[](\A i \in Incident : Active(i) =>
           \/ inc[i].stage = "containment" /\ Members(inc[i]) = {}
           \/ inc[i].stage = "recovery" /\ \A c \in Channel : inc[i].lock[c] \in {"none", "lifted"})

(* What the owner is told when mute, timeout and ban have failed for a     *)
(* participant: the lockdown stays until a manual intervention, that is,   *)
(* containment is left by force-stop alone.                                *)
UnstoppedHoldsContainment ==
    [][\A i \in Incident : \A u \in User :
         inc[i].stage = "containment" /\ inc[i].member[u].unstopped
           => inc'[i].stage \in {"containment", "recovery"}]_vars
================================================================================
