-------------------------- MODULE RaidIncident_proofs --------------------------
(***************************************************************************)
(* The anti-raid incident, for any actors, channels, calls and bounds: the *)
(* types, what a dry run does, the order of the stages, and when a         *)
(* lockdown is lifted.                                                     *)
(*                                                                         *)
(* A call drives an incident from a copy it read.  The invariant says what *)
(* a call carries at each of its steps (Fine), and what the incident still *)
(* has of it however many other calls went on since (Linked); every change *)
(* of an incident adds to it and takes nothing back (Grown).               *)
(***************************************************************************)
EXTENDS RaidIncident, WellFoundedInduction, TLAPS

Stages == {"none", "suspected", "confirmed", "containment", "cleanup", "recovery", "resolved"}
Lifting == {"recovery", "resolved"}
LockHeld == [kind : {"lock"}, c : Channel, prev : {"open", "denied"}]
UnlockHeld == [kind : {"unlock"}, c : Channel]
StepHeld == [kind : {"step"}, u : User, step : Step, ok : BOOLEAN]

(* Where a call sanctions by its copy, and where it has a copy at all.     *)
Sanctioning == {"capture", "act", "locked", "sanctioned", "unstopped"}
Copied == Sanctioning \cup {"purge", "restore", "lifted"}

(* What a call carries.                                                    *)
Fine(r) ==
    /\ r \in Call
    /\ r.pc = "locked" => r.held \in LockHeld
    /\ r.pc = "lifted" => r.held \in UnlockHeld
    /\ r.pc \in {"sanctioned", "unstopped"} => r.held \in StepHeld
    /\ r.pc \in Sanctioning => r.who \subseteq Unsettled(r.doc)
    /\ r.pc \in {"restore", "lifted"} =>
         r.doc.stage = "recovery" /\ \A c \in r.chans : r.doc.lock[c] \in {"open", "denied"}
    /\ r.pc = "stop" => r.doc.stage \notin {"none", "suspected", "resolved"}

(* What the incidents f still have of it.                                  *)
Linked(r, f) ==
    /\ r.pc \in Acting => f[r.id].stage # "none" /\ ~f[r.id].dry
    /\ r.pc \in Copied =>
         /\ \A c \in Channel : r.doc.lock[c] # "none" => f[r.id].lock[c] # "none"
         /\ r.doc.stage = "recovery" => f[r.id].stage \in Lifting

(* A dry run has touched nothing.                                          *)
Clean(d) ==
    d.dry => /\ d.stage \in {"suspected", "resolved"}
             /\ \A c \in Channel : d.lock[c] = "none"
             /\ \A u \in User : d.member[u].applied = {} /\ d.member[u].failed = {}

(* What a step may make of an incident.                                    *)
Grows(d, e) ==
    /\ Rank(d.stage) <= Rank(e.stage)
    /\ d.stage # "none" =>
         /\ e.stage # "none" /\ e.dry = d.dry
         /\ \A c \in Channel : d.lock[c] # "none" => e.lock[c] # "none"
    /\ d.stage \in Lifting => e.stage \in Lifting
Grown(f, g) ==
    /\ g \in [Incident -> Doc]
    /\ \A i \in Incident : Clean(g[i]) /\ Grows(f[i], g[i])

Others ==
    /\ perm \in [Channel -> {"open", "denied"}]
    /\ signals \in 0 .. MaxSignals /\ commands \in 0 .. MaxCommands /\ faults \in 0 .. MaxFaults

RaidInv ==
    /\ Others
    /\ inc \in [Incident -> Doc] /\ \A i \in Incident : Clean(inc[i])
    /\ task \in [Task -> Call]
    /\ \A t \in Task : Fine(task[t]) /\ Linked(task[t], inc)

(* A step of the call t: what it makes of its own record, of the incidents *)
(* and of the channels.                                                    *)
InOrder(r) == Fine(r) /\ Linked(r, inc')
Moved(t) == \E r : InOrder(r) /\ task' = [task EXCEPT ![t] = r]
Lifts ==
    \A c \in Channel : perm[c] = "denied" /\ perm'[c] = "open" =>
        \E i \in Incident : inc[i].stage \in Lifting /\ inc[i].lock[c] # "none"
Good(t) == Grown(inc, inc') /\ Moved(t) /\ Others' /\ Lifts

-----------------------------------------------------------------------------
(* The stages and their ranks.                                             *)
LEMMA StageSet == {"none"} \cup {Stage[k] : k \in 1 .. 6} = Stages
  <1>1. /\ Stage[1] = "suspected" /\ Stage[2] = "confirmed" /\ Stage[3] = "containment"
        /\ Stage[4] = "cleanup" /\ Stage[5] = "recovery" /\ Stage[6] = "resolved"
    BY DEF Stage
  <1>2. 1 .. 6 = {1, 2, 3, 4, 5, 6}
    OBVIOUS
  <1> QED BY <1>1, <1>2 DEF Stages

LEMMA Ranks ==
    /\ Rank("none") = 0 /\ Rank("suspected") = 1 /\ Rank("confirmed") = 2 /\ Rank("containment") = 3
    /\ Rank("cleanup") = 4 /\ Rank("recovery") = 5 /\ Rank("resolved") = 6
  <1>1. /\ Stage[1] = "suspected" /\ Stage[2] = "confirmed" /\ Stage[3] = "containment"
        /\ Stage[4] = "cleanup" /\ Stage[5] = "recovery" /\ Stage[6] = "resolved"
    BY DEF Stage
  <1>2. 0 .. 6 = {0, 1, 2, 3, 4, 5, 6}
    OBVIOUS
  <1> DEFINE P(s, k) == (k = 0 /\ s = "none") \/ (k # 0 /\ s = Stage[k])
  <1>3. \A k \in 0 .. 6 : P("none", k) <=> k = 0
    BY <1>1, <1>2
  <1>4. \A k \in 0 .. 6 : P("suspected", k) <=> k = 1
    BY <1>1, <1>2
  <1>5. \A k \in 0 .. 6 : P("confirmed", k) <=> k = 2
    BY <1>1, <1>2
  <1>6. \A k \in 0 .. 6 : P("containment", k) <=> k = 3
    BY <1>1, <1>2
  <1>7. \A k \in 0 .. 6 : P("cleanup", k) <=> k = 4
    BY <1>1, <1>2
  <1>8. \A k \in 0 .. 6 : P("recovery", k) <=> k = 5
    BY <1>1, <1>2
  <1>9. \A k \in 0 .. 6 : P("resolved", k) <=> k = 6
    BY <1>1, <1>2
  <1>10. Rank("none") = 0
    BY <1>3 DEF Rank
  <1>11. Rank("suspected") = 1
    BY <1>4 DEF Rank
  <1>12. Rank("confirmed") = 2
    BY <1>5 DEF Rank
  <1>13. Rank("containment") = 3
    BY <1>6 DEF Rank
  <1>14. Rank("cleanup") = 4
    BY <1>7 DEF Rank
  <1>15. Rank("recovery") = 5
    BY <1>8 DEF Rank
  <1>16. Rank("resolved") = 6
    BY <1>9 DEF Rank
  <1> QED BY <1>10, <1>11, <1>12, <1>13, <1>14, <1>15, <1>16

(* Whoever is not settled has a next step.                                 *)
LEMMA NextStepIsAStep ==
    ASSUME RaidAssumption, NEW u \in User, NEW m \in Member, ~Settled(u, m)
    PROVE  NextStep(u, m) \in Step
  <1>1. LastStep \in Step
    BY DEF RaidAssumption, Step
  <1>2. CASE u \in Bot
    BY <1>1, <1>2 DEF NextStep, Settled
  <1>3. CASE u \notin Bot
    <2>1. Step \ m.failed # {}
      BY <1>3 DEF NextStep, Settled
    <2>2. \E s \in Step \ m.failed : \A r \in Step \ m.failed : s <= r
      <3>1. Step \ m.failed \subseteq Nat
        BY DEF Step, RaidAssumption
      <3>2. \E s \in Step \ m.failed : \A r \in Step \ m.failed : <<r, s>> \notin OpToRel(<, Nat)
        BY <2>1, <3>1, NatLessThanWellFounded, WFMin
      <3>3. PICK s \in Step \ m.failed : \A r \in Step \ m.failed : <<r, s>> \notin OpToRel(<, Nat)
        BY <3>2
      <3>4. ASSUME NEW r \in Step \ m.failed PROVE s <= r
        <4>1. ~(r < s)
          BY <3>1, <3>3 DEF OpToRel
        <4> QED BY <3>1, <4>1
      <3> QED BY <3>4
    <2>3. (CHOOSE s \in Step \ m.failed : \A r \in Step \ m.failed : s <= r) \in Step \ m.failed
      BY <2>2
    <2> QED BY <1>3, <2>3 DEF NextStep, Settled
  <1> QED BY <1>2, <1>3

-----------------------------------------------------------------------------
(* Records of calls and of incidents                                       *)
LEMMA IdleFine == ASSUME RaidAssumption PROVE Fine(Idle)
  <1>1. Blank \in Doc
    <2>1. Out \in Member
      BY DEF Out, Member
    <2>2. {"none"} \cup {Stage[k] : k \in 1 .. 6} = Stages
      BY StageSet
    <2> QED BY <2>1, <2>2 DEF Blank, Doc, Lock, Stages
  <1>2. Idle \in Call
    BY <1>1 DEF Idle, Call, Places, Jobs, Incident, Held, RaidAssumption
  <1> QED BY <1>2 DEF Idle, Fine, Sanctioning

LEMMA IdleLinked == ASSUME NEW f PROVE Linked(Idle, f)
  BY DEF Idle, Linked, Acting, Copied, Sanctioning

LEMMA SetMoves ==
    ASSUME RaidAssumption, NEW t \in Task, NEW r, Set(t, r), r.pc = "idle" \/ InOrder(r)
    PROVE  Moved(t)
  <1>1. InOrder(Idle)
    BY IdleFine, IdleLinked DEF InOrder
  <1>2. CASE r.pc = "idle"
    BY <1>1, <1>2 DEF Set, Moved
  <1>3. CASE r.pc # "idle"
    BY <1>3 DEF Set, Moved
  <1> QED BY <1>2, <1>3

LEMMA DocFields ==
    ASSUME NEW d \in Doc
    PROVE  /\ d.stage \in Stages /\ d.dry \in BOOLEAN /\ d.calm \in BOOLEAN
           /\ d.member \in [User -> Member] /\ d.lock \in [Channel -> Lock]
  BY StageSet DEF Doc

LEMMA DocRecord ==
    ASSUME NEW s \in Stages, NEW y \in BOOLEAN, NEW q \in BOOLEAN,
           NEW m \in [User -> Member], NEW l \in [Channel -> Lock]
    PROVE  [stage |-> s, dry |-> y, calm |-> q, member |-> m, lock |-> l] \in Doc
  BY StageSet DEF Doc

LEMMA RankTyped == ASSUME NEW s \in Stages PROVE Rank(s) \in Nat
  BY Ranks DEF Stages

LEMMA CallFields ==
    ASSUME NEW r \in Call
    PROVE  /\ r.pc \in Places /\ r.job \in Jobs /\ r.id \in Incident /\ r.doc \in Doc
           /\ r.who \in SUBSET User /\ r.chans \in SUBSET Channel /\ r.held \in Held
  BY DEF Call

-----------------------------------------------------------------------------
(* What a write makes of the incidents                                     *)
LEMMA Same ==
    ASSUME inc \in [Incident -> Doc], \A i \in Incident : Clean(inc[i]) PROVE Grown(inc, inc)
  <1>1. \A i \in Incident : Rank(inc[i].stage) \in Nat
    BY DocFields, RankTyped
  <1> QED BY <1>1 DEF Grown, Grows

(* One incident grows, the others stay.                                    *)
LEMMA OneGrows ==
    ASSUME inc \in [Incident -> Doc], \A i \in Incident : Clean(inc[i]),
           NEW i \in Incident, NEW d \in Doc, Clean(d), Grows(inc[i], d), inc' = [inc EXCEPT ![i] = d]
    PROVE  Grown(inc, inc')
  BY Same DEF Grown

LEMMA WriteGrows ==
    ASSUME RaidInv, NEW i \in Incident, NEW m, NEW d \in Doc, m => Clean(d) /\ Grows(inc[i], d), Write(i, m, d)
    PROVE  Grown(inc, inc')
  <1>1. CASE m
    <2>1. [d EXCEPT !.calm = FALSE] \in Doc
      BY DEF Doc
    <2>2. Clean([d EXCEPT !.calm = FALSE]) /\ Grows(inc[i], [d EXCEPT !.calm = FALSE])
      BY <1>1 DEF Clean, Grows, Doc
    <2> QED BY <1>1, <2>1, <2>2, OneGrows DEF Write, RaidInv
  <1>2. CASE ~m
    BY <1>2, Same DEF Write, RaidInv
  <1> QED BY <1>1, <1>2

(* A write that leaves the stage and the locks alone.                      *)
LEMMA TouchGrows ==
    ASSUME RaidInv, NEW i \in Incident, NEW m, NEW d \in Doc, Write(i, m, d),
           d.stage = inc[i].stage, d.dry = inc[i].dry, d.lock = inc[i].lock,
           m /\ d.dry => \A u \in User : d.member[u].applied = {} /\ d.member[u].failed = {}
    PROVE  Grown(inc, inc')
  <1>1. Rank(inc[i].stage) \in Nat
    BY DocFields, RankTyped DEF RaidInv
  <1>2. Grows(inc[i], d)
    BY <1>1 DEF Grows
  <1>3. ASSUME m PROVE Clean(d)
    <2>1. Clean(inc[i])
      BY DEF RaidInv
    <2> QED BY <1>3, <2>1 DEF Clean
  <1> QED BY <1>2, <1>3, WriteGrows

LEMMA AdvanceGrows ==
    ASSUME RaidInv, NEW i \in Incident, NEW from \in Stages, NEW to \in Stages, Advance(i, from, to),
           inc[i].stage = from => ~inc[i].dry
    PROVE  Grown(inc, inc')
  <1>1. CASE Rank(to) > Rank(from) /\ inc[i].stage = from
    <2> DEFINE d == [inc[i] EXCEPT !.stage = to, !.calm = FALSE]
    <2>1. inc[i] \in Doc
      BY DEF RaidInv
    <2>2. d \in Doc /\ d.stage = to /\ d.dry = inc[i].dry /\ d.lock = inc[i].lock
      BY <2>1, StageSet DEF Doc
    <2>3. Clean(d)
      BY <1>1, <2>2 DEF Clean
    <2>4. Grows(inc[i], d)
      <3>1. to # "none" /\ (from \in Lifting => to \in Lifting) /\ Rank(from) <= Rank(to)
        BY <1>1, Ranks DEF Stages, Lifting
      <3> QED BY <1>1, <2>2, <3>1 DEF Grows
    <2>5. inc' = [inc EXCEPT ![i] = d]
      BY <1>1, <2>1 DEF Advance, RaidInv
    <2> QED BY <2>2, <2>3, <2>4, <2>5, OneGrows DEF RaidInv
  <1>2. CASE ~(Rank(to) > Rank(from) /\ inc[i].stage = from)
    BY <1>2, Same DEF Advance, RaidInv
  <1> QED BY <1>1, <1>2

-----------------------------------------------------------------------------
(* What a call still finds of its copy                                     *)
LEMMA LinkKept ==
    ASSUME NEW r, Fine(r), NEW f, NEW g, Linked(r, f), Grown(f, g) PROVE Linked(r, g)
  <1>1. r.id \in Incident
    BY DEF Fine, Call
  <1>2. Grows(f[r.id], g[r.id])
    BY <1>1 DEF Grown
  <1>3. r.pc \in Copied => r.pc \in Acting
    BY DEF Copied, Sanctioning, Acting
  <1> QED BY <1>2, <1>3 DEF Linked, Grows

LEMMA SameCopy ==
    ASSUME NEW r, NEW q, NEW f, Linked(r, f), r.pc \in Copied, q.id = r.id, q.doc = r.doc PROVE Linked(q, f)
  BY DEF Linked, Copied, Sanctioning, Acting

LEMMA NoCopy == ASSUME NEW r, NEW f, r.pc \notin Acting PROVE Linked(r, f)
  BY DEF Linked, Copied, Sanctioning, Acting

LEMMA Assembled == ASSUME RaidAssumption, RaidInv, NEW t \in Task, Good(t) PROVE RaidInv'
  <1>1. PICK r : InOrder(r) /\ task' = [task EXCEPT ![t] = r]
    BY DEF Good, Moved
  <1>2. r \in Call
    BY <1>1 DEF InOrder, Fine
  <1>3. \A s \in Task : Fine(task[s]) /\ Linked(task[s], inc')
    BY LinkKept DEF RaidInv, Good
  <1>4. task' \in [Task -> Call] /\ \A s \in Task : Fine(task'[s]) /\ Linked(task'[s], inc')
    BY <1>1, <1>2, <1>3 DEF RaidInv, InOrder
  <1> QED BY <1>4 DEF RaidInv, Good, Grown, Fine, Linked, Clean

LEMMA InitRaid == ASSUME RaidAssumption, Init PROVE RaidInv
  <1>1. Idle \in Call /\ Fine(Idle) /\ Linked(Idle, inc)
    BY IdleFine, IdleLinked DEF Fine
  <1>2. Blank \in Doc /\ Clean(Blank)
    BY <1>1 DEF Idle, Call, Clean, Blank
  <1> QED BY <1>1, <1>2 DEF Init, RaidInv, Others, RaidAssumption

-----------------------------------------------------------------------------
(* How a call starts                                                       *)
LEMMA NothingLifted == ASSUME UNCHANGED perm PROVE Lifts
  BY DEF Lifts

LEMMA BeginGood ==
    ASSUME RaidAssumption, RaidInv, NEW t \in Task, NEW j \in Jobs, NEW us \in SUBSET User,
           NEW cs \in SUBSET Channel, Begin(t, j, us, cs)
    PROVE  Grown(inc, inc') /\ Moved(t) /\ Lifts
  <1> DEFINE r == [Idle EXCEPT !.pc = "find", !.job = j, !.who = us, !.chans = cs]
  <1>1. Idle \in Call
    BY IdleFine DEF Fine
  <1>2. InOrder(r)
    BY <1>1 DEF InOrder, Fine, Linked, Idle, Call, Places, Sanctioning, Copied, Acting
  <1>3. Moved(t)
    BY <1>2, SetMoves DEF Begin
  <1> QED BY <1>3, Same, NothingLifted DEF Begin, RaidInv

LEMMA StartsGood ==
    ASSUME RaidAssumption, RaidInv, NEW t \in Task,
           \/ \E us \in SUBSET User, cs \in SUBSET Channel : Observe(t, us, cs)
           \/ \E us \in SUBSET User : ObserveBotJoin(t, us)
           \/ \E us \in SUBSET User, j \in {"start", "stop", "add", "remove"} : Command(t, j, us)
           \/ Sweep(t)
    PROVE  Good(t)
  <1>1. PICK j \in Jobs, us \in SUBSET User, cs \in SUBSET Channel : Begin(t, j, us, cs)
    BY DEF Observe, ObserveBotJoin, Command, Sweep, Jobs
  <1>2. Others'
    <2>1. UNCHANGED perm
      BY <1>1 DEF Begin
    <2>2. \/ signals < MaxSignals /\ signals' = signals + 1 /\ UNCHANGED <<commands, faults>>
          \/ commands < MaxCommands /\ commands' = commands + 1 /\ UNCHANGED <<signals, faults>>
          \/ UNCHANGED <<signals, commands, faults>>
      BY DEF Observe, ObserveBotJoin, Command, Sweep, bounds
    <2> QED BY <2>1, <2>2 DEF RaidInv, Others, RaidAssumption
  <1> QED BY <1>1, <1>2, BeginGood DEF Good

LEMMA BoundsKept == ASSUME RaidInv, UNCHANGED <<perm, bounds>> PROVE Others' /\ Lifts
  BY NothingLifted DEF RaidInv, Others, bounds

(* A call that knows only the incident's number.                           *)
LEMMA PlainMoves ==
    ASSUME RaidAssumption, RaidInv, NEW t \in Task, NEW r, Set(t, r), r \in Call,
           r.pc \in {"idle", "find", "open", "register", "leave", "active", "close", "contain"}
    PROVE  Moved(t)
  <1>1. CASE r.pc = "idle"
    BY <1>1, SetMoves
  <1>2. CASE r.pc # "idle"
    <2>1. InOrder(r)
      BY <1>2, NoCopy DEF InOrder, Fine, Sanctioning, Acting
    <2> QED BY <2>1, SetMoves
  <1> QED BY <1>1, <1>2

LEMMA FindGood == ASSUME RaidAssumption, RaidInv, NEW t \in Task, Find(t) PROVE Good(t)
  <1>1. task[t] \in Call /\ Blank \in Doc
    BY IdleFine DEF RaidInv, Fine, Idle, Call
  <1>2. CASE \E i \in Incident :
            /\ Active(i) /\ Write(i, task[t].job = "observe", inc[i])
            /\ Set(t, [task[t] EXCEPT !.pc = Found(t, i), !.id = i,
                        !.doc = IF task[t].job \in {"stop", "remove"} THEN inc[i] ELSE Blank])
    <2>1. PICK i \in Incident :
            /\ Active(i) /\ Write(i, task[t].job = "observe", inc[i])
            /\ Set(t, [task[t] EXCEPT !.pc = Found(t, i), !.id = i,
                        !.doc = IF task[t].job \in {"stop", "remove"} THEN inc[i] ELSE Blank])
      BY <1>2
    <2> DEFINE r == [task[t] EXCEPT !.pc = Found(t, i), !.id = i,
                        !.doc = IF task[t].job \in {"stop", "remove"} THEN inc[i] ELSE Blank]
    <2>2. inc[i] \in Doc /\ Clean(inc[i])
      BY DEF RaidInv
    <2>3. Grown(inc, inc')
      BY <2>1, <2>2, TouchGrows DEF Clean
    <2>4. /\ Found(t, i) \in {"idle", "register", "stop", "leave", "active"}
          /\ Found(t, i) = "stop" => task[t].job = "stop" /\ inc[i].stage # "suspected"
      BY <1>1 DEF Found, Call, Jobs
    <2>5. r \in Call /\ r.pc = Found(t, i) /\ (task[t].job = "stop" => r.doc = inc[i])
      BY <1>1, <2>2, <2>4 DEF Call, Places
    <2>6. CASE Found(t, i) = "stop"
      <3>1. InOrder(r)
        BY <2>1, <2>4, <2>5, <2>6 DEF InOrder, Fine, Linked, Sanctioning, Copied, Acting, Active
      <3> QED BY <2>1, <2>3, <3>1, SetMoves, BoundsKept DEF Find, Good
    <2>7. CASE Found(t, i) # "stop"
      <3>1. Moved(t)
        BY <2>1, <2>4, <2>5, <2>7, PlainMoves
      <3> QED BY <2>3, <3>1, BoundsKept DEF Find, Good
    <2> QED BY <2>6, <2>7
  <1>3. CASE /\ Goto(t, IF task[t].job = "start" \/ (task[t].job = "observe" /\ task[t].who # {})
                        THEN "open" ELSE "idle")
             /\ UNCHANGED inc
    <2>1. PICK p \in {"open", "idle"} : Set(t, [task[t] EXCEPT !.pc = p])
      BY <1>3 DEF Goto
    <2>2. Moved(t)
      BY <1>1, <2>1, PlainMoves DEF Call, Places
    <2> QED BY <1>3, <2>2, Same, BoundsKept DEF Find, Good, RaidInv
  <1> QED BY <1>2, <1>3 DEF Find

LEMMA OpenGood ==
    ASSUME RaidAssumption, RaidInv, NEW t \in Task, NEW dry \in BOOLEAN, Open(t, dry) PROVE Good(t)
  <1>1. task[t] \in Call /\ Blank \in Doc
    BY IdleFine DEF RaidInv, Fine, Idle, Call
  <1>2. CASE Goto(t, "idle") /\ UNCHANGED inc
    <2>1. Moved(t)
      BY <1>1, <1>2, SetMoves DEF Goto, Call
    <2> QED BY <1>2, <2>1, Same, BoundsKept DEF Open, Good, RaidInv
  <1>3. ASSUME NEW i \in Incident, \A k \in Incident : ~Active(k) /\ (inc[k].stage = "none" <=> k >= i),
               inc' = [inc EXCEPT ![i] = [Blank EXCEPT
                        !.stage = IF task[t].job = "start" THEN "confirmed" ELSE "suspected",
                        !.dry = dry /\ task[t].job # "start"]],
               Set(t, [task[t] EXCEPT !.id = i, !.pc = IF task[t].job = "start" THEN "active" ELSE "register"])
        PROVE  Good(t)
    <2> DEFINE d == [Blank EXCEPT !.stage = IF task[t].job = "start" THEN "confirmed" ELSE "suspected",
                                  !.dry = dry /\ task[t].job # "start"]
    <2>1. d \in Doc
      BY <1>1, StageSet DEF Doc, Stages
    <2>2. Clean(d) /\ d.stage \in Stages
      BY DEF Clean, Blank, Out, Stages
    <2>3. inc[i].stage = "none"
      BY <1>3 DEF Incident
    <2>4. Grows(inc[i], d)
      BY <2>2, <2>3, RankTyped, Ranks DEF Grows, Lifting
    <2>5. Grown(inc, inc')
      BY <1>3, <2>1, <2>2, <2>4, OneGrows DEF RaidInv
    <2>6. Moved(t)
      BY <1>1, <1>3, PlainMoves DEF Call, Places
    <2> QED BY <2>5, <2>6, BoundsKept DEF Open, Good
  <1> QED BY <1>2, <1>3 DEF Open

LEMMA MemberDoc ==
    ASSUME RaidInv, NEW i \in Incident, NEW u \in User, NEW m \in Member
    PROVE  LET d == [inc[i] EXCEPT !.member[u] = m] IN
           /\ d \in Doc /\ d.stage = inc[i].stage /\ d.dry = inc[i].dry /\ d.lock = inc[i].lock
           /\ d.member = [inc[i].member EXCEPT ![u] = m]
  BY DEF RaidInv, Doc

LEMMA MemberGrows ==
    ASSUME RaidInv, NEW i \in Incident, NEW u \in User, NEW m \in Member, NEW b,
           Write(i, b, [inc[i] EXCEPT !.member[u] = m]), inc[i].dry => m.applied = {} /\ m.failed = {}
    PROVE  Grown(inc, inc')
  <1> DEFINE d == [inc[i] EXCEPT !.member[u] = m]
  <1>1. /\ d \in Doc /\ d.stage = inc[i].stage /\ d.dry = inc[i].dry /\ d.lock = inc[i].lock
        /\ d.member = [inc[i].member EXCEPT ![u] = m]
    BY MemberDoc
  <1>2. Clean(inc[i]) /\ inc[i].member \in [User -> Member]
    BY DocFields DEF RaidInv
  <1>3. d.dry => \A v \in User : d.member[v].applied = {} /\ d.member[v].failed = {}
    BY <1>1, <1>2 DEF Clean
  <1> QED BY <1>1, <1>3, TouchGrows

LEMMA RegisterGood == ASSUME RaidAssumption, RaidInv, NEW t \in Task, Register(t) PROVE Good(t)
  <1>1. task[t] \in Call /\ task[t].id \in Incident /\ task[t].who \in SUBSET User
    BY CallFields DEF RaidInv
  <1>2. CASE Goto(t, IF task[t].job = "add" THEN "idle" ELSE "active") /\ UNCHANGED inc
    <2>1. PICK p \in {"active", "idle"} : Set(t, [task[t] EXCEPT !.pc = p])
      BY <1>2 DEF Goto
    <2>2. Moved(t)
      BY <1>1, <2>1, PlainMoves DEF Call, Places
    <2> QED BY <1>2, <2>2, Same, BoundsKept DEF Register, Good, RaidInv
  <1>3. ASSUME NEW u \in task[t].who,
               Write(task[t].id, ~Now(t).member[u].in, [Now(t) EXCEPT !.member[u] = New]),
               Set(t, [task[t] EXCEPT !.who = @ \ {u}])
        PROVE  Good(t)
    <2>1. New \in Member /\ New.applied = {} /\ New.failed = {}
      BY DEF New, Out, Member
    <2>3. Grown(inc, inc')
      BY <1>1, <1>3, <2>1, MemberGrows DEF Now
    <2>4. Moved(t)
      BY <1>1, <1>3, PlainMoves DEF Register, At, Call
    <2> QED BY <2>3, <2>4, BoundsKept DEF Register, Good
  <1> QED BY <1>2, <1>3 DEF Register

LEMMA RemoveGood == ASSUME RaidAssumption, RaidInv, NEW t \in Task, RemoveParticipant(t) PROVE Good(t)
  <1>1. task[t] \in Call /\ task[t].id \in Incident /\ task[t].who \in SUBSET User
    BY CallFields DEF RaidInv
  <1>2. PICK u \in task[t].who :
          Write(task[t].id, task[t].doc.member[u].in, [Now(t) EXCEPT !.member[u] = Out])
    BY DEF RemoveParticipant
  <1>3. Out \in Member /\ Out.applied = {} /\ Out.failed = {}
    BY DEF Out, Member
  <1>5. Grown(inc, inc')
    BY <1>1, <1>2, <1>3, MemberGrows DEF Now
  <1>6. Moved(t)
    BY <1>1, PlainMoves DEF RemoveParticipant, Goto, Call, Places
  <1> QED BY <1>5, <1>6, BoundsKept DEF RemoveParticipant, Good

LEMMA ForceStopGood == ASSUME RaidAssumption, RaidInv, NEW t \in Task, ForceStop(t) PROVE Good(t)
  <1>1. task[t] \in Call /\ task[t].id \in Incident /\ task[t].doc \in Doc /\ Blank \in Doc
    BY IdleFine, CallFields DEF RaidInv, Fine, Idle
  <1>2. task[t].doc.stage \notin {"none", "suspected", "resolved"} /\ Clean(inc[task[t].id])
    BY <1>1 DEF ForceStop, At, RaidInv, Fine
  <1>3. Grown(inc, inc')
    BY <1>1, <1>2, DocFields, AdvanceGrows DEF ForceStop, Clean, Stages
  <1>4. PICK p \in {"active", "idle"} : Set(t, [task[t] EXCEPT !.pc = p, !.doc = Blank])
    BY DEF ForceStop
  <1>5. Moved(t)
    BY <1>1, <1>4, PlainMoves DEF Call, Places
  <1> QED BY <1>3, <1>5, BoundsKept DEF ForceStop, Good

-----------------------------------------------------------------------------
(* What a call does with the active incident                               *)
LEMMA ReadActiveGood == ASSUME RaidAssumption, RaidInv, NEW t \in Task, ReadActive(t) PROVE Good(t)
  <1>1. task[t] \in Call
    BY DEF RaidInv
  <1>2. Moved(t)
    <2>1. ASSUME NEW i \in Incident, Active(i),
                 Set(t, [task[t] EXCEPT !.id = i,
                          !.pc = IF inc[i].dry THEN IF inc[i].calm THEN "close" ELSE "contain"
                                 ELSE IF inc[i].stage = "suspected" THEN "confirm" ELSE "read"])
          PROVE  Moved(t)
      <3>1. CASE inc[i].dry
        <4>1. PICK p \in {"close", "contain"} : Set(t, [task[t] EXCEPT !.id = i, !.pc = p])
          BY <2>1, <3>1
        <4> QED BY <1>1, <4>1, PlainMoves DEF Call, Places
      <3>2. CASE ~inc[i].dry
        <4>1. PICK p \in {"confirm", "read"} : Set(t, [task[t] EXCEPT !.id = i, !.pc = p])
          BY <2>1, <3>2
        <4>2. InOrder([task[t] EXCEPT !.id = i, !.pc = p])
          BY <1>1, <2>1, <3>2, <4>1
             DEF ReadActive, InOrder, Fine, Linked, Call, Places, Sanctioning, Copied, Active
        <4> QED BY <4>1, <4>2, SetMoves
      <3> QED BY <3>1, <3>2
    <2>2. CASE Goto(t, "contain")
      BY <1>1, <2>2, PlainMoves DEF Goto, Call, Places
    <2> QED BY <2>1, <2>2 DEF ReadActive
  <1> QED BY <1>2, Same, BoundsKept DEF ReadActive, Good, RaidInv

LEMMA CloseGood == ASSUME RaidAssumption, RaidInv, NEW t \in Task, CloseDryRun(t) PROVE Good(t)
  <1>1. ASSUME NEW i \in Incident PROVE inc'[i] \in Doc /\ Clean(inc'[i]) /\ Grows(inc[i], inc'[i])
    <2>1. inc[i] \in Doc /\ Clean(inc[i]) /\ Rank(inc[i].stage) \in Nat
      BY DocFields, RankTyped DEF RaidInv
    <2>2. CASE Active(i) /\ inc[i].dry
      <3> DEFINE d == [inc[i] EXCEPT !.stage = "resolved", !.calm = FALSE]
      <3>1. inc'[i] = d /\ d \in Doc
        BY <2>1, <2>2, StageSet DEF CloseDryRun, Doc, Stages
      <3>2. d.stage = "resolved" /\ d.dry = inc[i].dry /\ d.member = inc[i].member /\ d.lock = inc[i].lock
        BY <2>1 DEF Doc
      <3>3. inc[i].stage = "suspected"
        BY <2>1, <2>2 DEF Clean, Active
      <3> QED BY <2>1, <3>1, <3>2, <3>3, Ranks DEF Clean, Grows, Lifting
    <2>3. CASE ~(Active(i) /\ inc[i].dry)
      <3>1. inc'[i] = inc[i]
        BY <2>3 DEF CloseDryRun
      <3> QED BY <2>1, <3>1 DEF Grows
    <2> QED BY <2>2, <2>3
  <1>2. Grown(inc, inc')
    BY <1>1 DEF Grown, CloseDryRun
  <1>3. Moved(t)
    BY PlainMoves DEF CloseDryRun, Goto, RaidInv, Call, Places
  <1> QED BY <1>2, <1>3, BoundsKept DEF CloseDryRun, Good

(* A call that acts on an incident.                                        *)
LEMMA ActorFacts ==
    ASSUME RaidInv, NEW t \in Task, task[t].pc \in Acting
    PROVE  /\ task[t] \in Call /\ Fine(task[t]) /\ Linked(task[t], inc)
           /\ task[t].id \in Incident /\ Now(t) = inc[task[t].id] /\ Now(t) \in Doc
           /\ ~Now(t).dry /\ Now(t).stage # "none"
  BY DEF RaidInv, Call, Linked, Now

LEMMA ActorMoves ==
    ASSUME RaidAssumption, RaidInv, NEW t \in Task, task[t].pc \in Copied, Grown(inc, inc'),
           NEW r, Set(t, r), Fine(r), r.id = task[t].id, r.doc = task[t].doc
    PROVE  Moved(t)
  <1>1. task[t].pc \in Acting
    BY DEF Copied, Sanctioning, Acting
  <1>2. Linked(task[t], inc')
    BY <1>1, ActorFacts, LinkKept
  <1> QED BY <1>2, SameCopy, SetMoves DEF InOrder

LEMMA ConfirmGood == ASSUME RaidAssumption, RaidInv, NEW t \in Task, Confirm(t) PROVE Good(t)
  <1>1. task[t].pc \in Acting /\ task[t].pc = "confirm"
    BY DEF Confirm, At, Acting
  <1>2. Grown(inc, inc')
    BY <1>1, ActorFacts, AdvanceGrows DEF Confirm, Stages
  <1>3. Linked(task[t], inc')
    BY <1>1, <1>2, ActorFacts, LinkKept
  <1>4. InOrder([task[t] EXCEPT !.pc = "read"])
    BY <1>1, <1>3, ActorFacts DEF InOrder, Fine, Linked, Call, Places, Sanctioning, Copied, Acting
  <1>5. Moved(t)
    BY <1>4, SetMoves DEF Confirm, Goto
  <1> QED BY <1>2, <1>5, BoundsKept DEF Confirm, Good

LEMMA ReadCurrentGood == ASSUME RaidAssumption, RaidInv, NEW t \in Task, ReadCurrent(t) PROVE Good(t)
  <1>1. task[t].pc \in Acting
    BY DEF ReadCurrent, At, Acting
  <1> DEFINE d == Now(t)
             p == CASE d.stage = "confirmed" -> "capture"
                    [] d.stage = "resolved" -> "contain"
                    [] OTHER -> "act"
             r == [task[t] EXCEPT !.doc = d, !.who = Unsettled(d),
                    !.chans = IF d.stage \in {"cleanup", "recovery"} THEN {} ELSE @, !.pc = p]
  <1>2. task[t] \in Call /\ d \in Doc /\ Linked(task[t], inc) /\ d = inc[task[t].id] /\ UNCHANGED inc
    BY <1>1, ActorFacts DEF ReadCurrent
  <1>3. p \in {"capture", "contain", "act"}
    OBVIOUS
  <1>4. Unsettled(d) \in SUBSET User
    BY DEF Unsettled, Members
  <1> HIDE DEF p, d
  <1>5. r \in Call /\ r.pc = p /\ r.id = task[t].id /\ r.doc = d /\ r.who = Unsettled(d)
    BY <1>2, <1>3, <1>4 DEF Call, Places
  <1>6. Fine(r)
    BY <1>3, <1>5 DEF Fine, Sanctioning
  <1>7. Linked(r, inc')
    BY <1>1, <1>2, <1>5 DEF Linked, Lifting
  <1>8. Set(t, r)
    BY DEF ReadCurrent, d, p
  <1>9. Moved(t)
    BY <1>6, <1>7, <1>8, SetMoves DEF InOrder
  <1> QED BY <1>2, <1>9, Same, BoundsKept DEF ReadCurrent, Good, RaidInv

LEMMA CaptureGood == ASSUME RaidAssumption, RaidInv, NEW t \in Task, Capture(t) PROVE Good(t)
  <1>1. task[t].pc = "capture" /\ task[t].pc \in Acting /\ task[t].pc \in Copied
    BY DEF Capture, At, Acting, Copied, Sanctioning
  <1>2. Grown(inc, inc')
    BY <1>1, ActorFacts, AdvanceGrows DEF Capture, Stages
  <1> DEFINE r == [task[t] EXCEPT !.pc = "act"]
  <1>3. Fine(r) /\ r.id = task[t].id /\ r.doc = task[t].doc
    BY <1>1, ActorFacts DEF Fine, Call, Places, Sanctioning
  <1>4. Moved(t)
    BY <1>1, <1>2, <1>3, ActorMoves DEF Capture, Goto
  <1> QED BY <1>2, <1>4, BoundsKept DEF Capture, Good

(* The next participant or channel.                                        *)
LEMMA DoneFine ==
    ASSUME RaidInv, NEW t \in Task, task[t].pc \in Sanctioning, NEW c
    PROVE  Fine(Done(t, c)) /\ Done(t, c).id = task[t].id /\ Done(t, c).doc = task[t].doc
  <1>1. task[t] \in Call /\ task[t].who \subseteq Unsettled(task[t].doc)
    BY DEF RaidInv, Fine
  <1> QED BY <1>1 DEF Done, Fine, Call, Places, Held, Sanctioning

LEMMA SanctionedFine ==
    ASSUME RaidInv, NEW t \in Task, task[t].pc \in Sanctioning
    PROVE  Fine(Sanctioned(t)) /\ Sanctioned(t).id = task[t].id /\ Sanctioned(t).doc = task[t].doc
  <1>1. task[t] \in Call /\ task[t].who \subseteq Unsettled(task[t].doc)
    BY DEF RaidInv, Fine
  <1> QED BY <1>1 DEF Sanctioned, Fine, Call, Places, Held, Sanctioning

(* An error of the incident is noted.                                      *)
LEMMA NoteGrows == ASSUME RaidInv, NEW t \in Task, Write(task[t].id, TRUE, Now(t)) PROVE Grown(inc, inc')
  <1>1. task[t].id \in Incident /\ Now(t) = inc[task[t].id] /\ Clean(Now(t)) /\ Now(t) \in Doc
    BY CallFields DEF RaidInv, Now
  <1> QED BY <1>1, TouchGrows DEF Clean

LEMMA LockChannelGood ==
    ASSUME RaidAssumption, RaidInv, NEW t \in Task, NEW ok \in BOOLEAN, LockChannel(t, ok) PROVE Good(t)
  <1>1. /\ task[t].pc = "act" /\ task[t].pc \in Sanctioning /\ task[t].pc \in Copied
        /\ task[t] \in Call /\ task[t].chans \in SUBSET Channel /\ task[t].who \subseteq Unsettled(task[t].doc)
    BY CallFields DEF LockChannel, At, Sanctioning, Copied, RaidInv, Fine
  <1>2. PICK c \in task[t].chans :
       \/ Set(t, Done(t, c)) /\ UNCHANGED <<inc, perm>>
       \/ /\ Set(t, [task[t] EXCEPT !.pc = "locked", !.held = [kind |-> "lock", c |-> c, prev |-> perm[c]]])
          /\ perm' = [perm EXCEPT ![c] = "denied"] /\ UNCHANGED inc
       \/ Set(t, Done(t, c)) /\ Write(task[t].id, TRUE, Now(t)) /\ UNCHANGED perm
    BY DEF LockChannel
  <1>3. UNCHANGED bounds
    BY DEF LockChannel
  <1>4. CASE Set(t, Done(t, c)) /\ UNCHANGED perm /\ (UNCHANGED inc \/ Write(task[t].id, TRUE, Now(t)))
    <2>1. Grown(inc, inc')
      BY <1>4, Same, NoteGrows DEF RaidInv
    <2>2. Moved(t)
      BY <1>1, <1>4, <2>1, DoneFine, ActorMoves
    <2> QED BY <1>3, <1>4, <2>1, <2>2, BoundsKept DEF Good
  <1>5. CASE /\ Set(t, [task[t] EXCEPT !.pc = "locked", !.held = [kind |-> "lock", c |-> c, prev |-> perm[c]]])
             /\ perm' = [perm EXCEPT ![c] = "denied"] /\ UNCHANGED inc
    <2> DEFINE h == [kind |-> "lock", c |-> c, prev |-> perm[c]]
               r == [task[t] EXCEPT !.pc = "locked", !.held = h]
    <2>1. perm[c] \in {"open", "denied"} /\ c \in Channel
      BY <1>1 DEF RaidInv, Others
    <2>2. h \in LockHeld /\ h \in Held
      BY <2>1 DEF LockHeld, Held
    <2> HIDE DEF h
    <2>3. Fine(r) /\ r.id = task[t].id /\ r.doc = task[t].doc
      BY <1>1, <2>2 DEF Fine, Call, Places, Sanctioning
    <2>4. Grown(inc, inc')
      BY <1>5, Same DEF RaidInv
    <2>5. Moved(t)
      BY <1>1, <1>5, <2>3, <2>4, ActorMoves DEF h
    <2>6. Others' /\ Lifts
      BY <1>3, <1>5 DEF Others, Lifts, RaidInv, bounds
    <2> QED BY <2>4, <2>5, <2>6 DEF Good
  <1> QED BY <1>2, <1>4, <1>5

LEMMA RecordLockGood ==
    ASSUME RaidAssumption, RaidInv, NEW t \in Task, NEW ok \in BOOLEAN, RecordLock(t, ok) PROVE Good(t)
  <1>1. /\ task[t].pc = "locked" /\ task[t].pc \in Sanctioning /\ task[t].pc \in Copied
        /\ task[t].pc \in Acting /\ task[t].held \in LockHeld
    BY DEF RecordLock, At, Sanctioning, Copied, Acting, RaidInv, Fine
  <1> DEFINE c == task[t].held.c
             d == [Now(t) EXCEPT !.lock[c] = task[t].held.prev]
  <1>2. c \in Channel /\ task[t].held.prev \in {"open", "denied"}
    BY <1>1 DEF LockHeld
  <1>3. /\ task[t].id \in Incident /\ Now(t) = inc[task[t].id] /\ Now(t) \in Doc
        /\ ~Now(t).dry /\ Now(t).stage # "none" /\ Rank(Now(t).stage) \in Nat
    BY <1>1, ActorFacts, DocFields, RankTyped
  <1>4. /\ d \in Doc /\ d.stage = Now(t).stage /\ d.dry = Now(t).dry
        /\ d.lock = [Now(t).lock EXCEPT ![c] = task[t].held.prev] /\ Now(t).lock \in [Channel -> Lock]
    BY <1>2, <1>3 DEF Doc, Lock
  <1>5. Write(task[t].id, ok /\ Now(t).lock[c] = "none", d) /\ Set(t, Done(t, c))
    BY DEF RecordLock
  <1> HIDE DEF d, c
  <1>6. Clean(d) /\ Grows(Now(t), d)
    BY <1>2, <1>3, <1>4 DEF Clean, Grows
  <1>7. Grown(inc, inc')
    BY <1>3, <1>4, <1>5, <1>6, WriteGrows
  <1>8. Moved(t)
    BY <1>1, <1>5, <1>7, DoneFine, ActorMoves
  <1>9. Others' /\ Lifts
    BY NothingLifted DEF RecordLock, Others, RaidInv, RaidAssumption
  <1> QED BY <1>7, <1>8, <1>9 DEF Good

LEMMA SanctionGood ==
    ASSUME RaidAssumption, RaidInv, NEW t \in Task, NEW ok \in BOOLEAN, Sanction(t, ok) PROVE Good(t)
  <1>1. /\ task[t].pc = "act" /\ task[t].pc \in Sanctioning /\ task[t].pc \in Copied
        /\ task[t] \in Call /\ task[t].who \subseteq Unsettled(task[t].doc) /\ task[t].doc \in Doc
    BY CallFields DEF Sanction, At, Sanctioning, Copied, RaidInv, Fine
  <1>2. PICK u \in task[t].who :
         Set(t, [task[t] EXCEPT !.pc = "sanctioned",
                 !.held = [kind |-> "step", u |-> u, step |-> NextStep(u, task[t].doc.member[u]), ok |-> ok]])
    BY DEF Sanction
  <1> DEFINE h == [kind |-> "step", u |-> u, step |-> NextStep(u, task[t].doc.member[u]), ok |-> ok]
             r == [task[t] EXCEPT !.pc = "sanctioned", !.held = h]
  <1>3. u \in User /\ task[t].doc.member[u] \in Member /\ ~Settled(u, task[t].doc.member[u])
    BY <1>1, DocFields DEF Unsettled, Members
  <1>4. h \in StepHeld /\ h \in Held
    BY <1>3, NextStepIsAStep DEF StepHeld, Held
  <1>5. Set(t, r)
    BY <1>2
  <1> HIDE DEF h
  <1>6. Fine(r) /\ r.id = task[t].id /\ r.doc = task[t].doc
    BY <1>1, <1>4 DEF Fine, Call, Places, Sanctioning
  <1>7. Grown(inc, inc')
    BY Same DEF Sanction, RaidInv
  <1>8. Moved(t)
    BY <1>1, <1>5, <1>6, <1>7, ActorMoves
  <1> QED BY <1>7, <1>8, BoundsKept DEF Sanction, Good

LEMMA RecordSanctionGood ==
    ASSUME RaidAssumption, RaidInv, NEW t \in Task, RecordSanction(t) PROVE Good(t)
  <1>1. /\ task[t].pc = "sanctioned" /\ task[t].pc \in Sanctioning /\ task[t].pc \in Copied
        /\ task[t].pc \in Acting /\ task[t].held \in StepHeld
        /\ task[t] \in Call /\ task[t].who \subseteq Unsettled(task[t].doc)
    BY DEF RecordSanction, At, Sanctioning, Copied, Acting, RaidInv, Fine
  <1> DEFINE u == task[t].held.u
             s == task[t].held.step
             ok == task[t].held.ok
             m == Now(t).member[u]
             n == IF ok THEN [m EXCEPT !.applied = @ \cup {s}, !.unstopped = FALSE]
                  ELSE [m EXCEPT !.failed = @ \cup {s}]
  <1>2. u \in User /\ s \in Step
    BY <1>1 DEF StepHeld
  <1>3. /\ task[t].id \in Incident /\ Now(t) = inc[task[t].id] /\ ~Now(t).dry /\ m \in Member
    BY <1>1, <1>2, ActorFacts, DocFields
  <1>4. n \in Member
    BY <1>2, <1>3 DEF Member
  <1>5. Write(task[t].id, m.in /\ s \notin (IF ok THEN m.applied ELSE m.failed), [Now(t) EXCEPT !.member[u] = n])
    BY DEF RecordSanction
  <1>6. Set(t, [task[t] EXCEPT !.pc = "unstopped"]) \/ Set(t, Sanctioned(t))
    BY DEF RecordSanction, Goto
  <1> HIDE DEF n, m, s, u, ok
  <1>7. Grown(inc, inc')
    BY <1>2, <1>3, <1>4, <1>5, MemberGrows
  <1> DEFINE r == [task[t] EXCEPT !.pc = "unstopped"]
  <1>8. Fine(r) /\ r.id = task[t].id /\ r.doc = task[t].doc
    BY <1>1 DEF Fine, Call, Places, Sanctioning
  <1>9. Moved(t)
    BY <1>1, <1>6, <1>7, <1>8, SanctionedFine, ActorMoves
  <1> QED BY <1>7, <1>9, BoundsKept DEF RecordSanction, Good

LEMMA MarkFailedGood == ASSUME RaidAssumption, RaidInv, NEW t \in Task, MarkFailed(t) PROVE Good(t)
  <1>1. /\ task[t].pc = "unstopped" /\ task[t].pc \in Sanctioning /\ task[t].pc \in Copied
        /\ task[t].pc \in Acting /\ task[t].held.u \in User
    BY DEF MarkFailed, At, Sanctioning, Copied, Acting, RaidInv, Fine, StepHeld
  <1> DEFINE u == task[t].held.u
             m == [Now(t).member[u] EXCEPT !.unstopped = TRUE]
  <1>2. /\ task[t].id \in Incident /\ Now(t) = inc[task[t].id] /\ ~Now(t).dry /\ Now(t) \in Doc
        /\ Now(t).member \in [User -> Member]
    BY <1>1, ActorFacts, DocFields
  <1>3. m \in Member
    BY <1>1, <1>2 DEF Member
  <1>4. [Now(t) EXCEPT !.member[u].unstopped = TRUE] = [Now(t) EXCEPT !.member[u] = m]
    BY <1>1, <1>2 DEF Doc
  <1>5. Write(task[t].id, Now(t).member[u].in, [Now(t) EXCEPT !.member[u] = m]) /\ Set(t, Sanctioned(t))
    BY <1>4 DEF MarkFailed
  <1> HIDE DEF m
  <1>6. Grown(inc, inc')
    BY <1>1, <1>2, <1>3, <1>5, MemberGrows
  <1>7. Moved(t)
    BY <1>1, <1>5, <1>6, SanctionedFine, ActorMoves
  <1> QED BY <1>6, <1>7, BoundsKept DEF MarkFailed, Good

LEMMA ActedGood == ASSUME RaidAssumption, RaidInv, NEW t \in Task, Acted(t) PROVE Good(t)
  <1>1. task[t].pc = "act" /\ task[t].pc \in Copied /\ task[t] \in Call /\ Blank \in Doc
    BY IdleFine DEF Acted, At, Sanctioning, Copied, RaidInv, Fine, Idle, Call
  <1>2. Grown(inc, inc')
    BY Same DEF Acted, RaidInv
  <1> DEFINE d == task[t].doc
             cs == {c \in Channel : d.lock[c] \in {"open", "denied"}}
  <1>3. CASE Set(t, [task[t] EXCEPT !.pc = "purge"])
    <2> DEFINE r == [task[t] EXCEPT !.pc = "purge"]
    <2>1. Fine(r) /\ r.id = task[t].id /\ r.doc = task[t].doc
      BY <1>1 DEF Fine, Call, Places, Sanctioning
    <2>2. Moved(t)
      BY <1>1, <1>2, <1>3, <2>1, ActorMoves
    <2> QED BY <1>2, <2>2, BoundsKept DEF Acted, Good
  <1>4. CASE d.stage = "recovery" /\ Set(t, [task[t] EXCEPT !.pc = "restore", !.chans = cs])
    <2> DEFINE r == [task[t] EXCEPT !.pc = "restore", !.chans = cs]
    <2>1. Fine(r) /\ r.id = task[t].id /\ r.doc = task[t].doc
      BY <1>1, <1>4 DEF Fine, Call, Places, Sanctioning
    <2>2. Moved(t)
      BY <1>1, <1>2, <1>4, <2>1, ActorMoves
    <2> QED BY <1>2, <2>2, BoundsKept DEF Acted, Good
  <1>5. CASE Set(t, [task[t] EXCEPT !.pc = "contain", !.doc = Blank])
    <2>1. Moved(t)
      BY <1>1, <1>5, PlainMoves DEF Call, Places
    <2> QED BY <1>2, <2>1, BoundsKept DEF Acted, Good
  <1> QED BY <1>3, <1>4, <1>5 DEF Acted

LEMMA PurgeGood == ASSUME RaidAssumption, RaidInv, NEW t \in Task, Purge(t) PROVE Good(t)
  <1>1. task[t].pc = "purge" /\ task[t].pc \in Acting /\ task[t] \in Call /\ Blank \in Doc
    BY IdleFine DEF Purge, At, Acting, RaidInv, Fine, Idle, Call
  <1>2. Grown(inc, inc')
    BY <1>1, ActorFacts, AdvanceGrows DEF Purge, Stages
  <1>3. Moved(t)
    BY <1>1, PlainMoves DEF Purge, Call, Places
  <1> QED BY <1>2, <1>3, BoundsKept DEF Purge, Good

LEMMA UnlockGood ==
    ASSUME RaidAssumption, RaidInv, NEW t \in Task, NEW ok \in BOOLEAN, Unlock(t, ok) PROVE Good(t)
  <1>1. /\ task[t].pc = "restore" /\ task[t].pc \in Copied /\ task[t] \in Call
        /\ task[t].chans \in SUBSET Channel /\ task[t].doc.stage = "recovery" /\ Linked(task[t], inc)
        /\ task[t].id \in Incident /\ \A c \in task[t].chans : task[t].doc.lock[c] \in {"open", "denied"}
    BY CallFields DEF Unlock, At, Copied, RaidInv, Fine
  <1>2. PICK c \in task[t].chans :
       \/ /\ perm' = [perm EXCEPT ![c] = task[t].doc.lock[c]]
          /\ Set(t, [task[t] EXCEPT !.pc = "lifted", !.held = [kind |-> "unlock", c |-> c]])
          /\ UNCHANGED inc
       \/ /\ Write(task[t].id, TRUE, Now(t))
          /\ Set(t, [task[t] EXCEPT !.chans = @ \ {c}]) /\ UNCHANGED perm
    BY DEF Unlock
  <1>3. UNCHANGED bounds
    BY DEF Unlock
  <1>4. CASE /\ perm' = [perm EXCEPT ![c] = task[t].doc.lock[c]]
             /\ Set(t, [task[t] EXCEPT !.pc = "lifted", !.held = [kind |-> "unlock", c |-> c]])
             /\ UNCHANGED inc
    <2> DEFINE h == [kind |-> "unlock", c |-> c]
               r == [task[t] EXCEPT !.pc = "lifted", !.held = h]
    <2>1. h \in UnlockHeld /\ h \in Held
      BY <1>1 DEF UnlockHeld, Held
    <2> HIDE DEF h
    <2>2. Fine(r) /\ r.id = task[t].id /\ r.doc = task[t].doc
      BY <1>1, <2>1 DEF Fine, Call, Places, Sanctioning
    <2>3. Grown(inc, inc')
      BY <1>4, Same DEF RaidInv
    <2>4. Moved(t)
      BY <1>1, <1>4, <2>2, <2>3, ActorMoves DEF h
    <2>5. inc[task[t].id].stage \in Lifting /\ inc[task[t].id].lock[c] # "none"
      BY <1>1 DEF Linked
    <2>6. Others' /\ Lifts
      BY <1>1, <1>3, <1>4, <2>5 DEF Others, Lifts, RaidInv, bounds
    <2> QED BY <2>3, <2>4, <2>6 DEF Good
  <1>5. CASE /\ Write(task[t].id, TRUE, Now(t))
             /\ Set(t, [task[t] EXCEPT !.chans = @ \ {c}]) /\ UNCHANGED perm
    <2> DEFINE r == [task[t] EXCEPT !.chans = @ \ {c}]
    <2>1. Fine(r) /\ r.id = task[t].id /\ r.doc = task[t].doc
      BY <1>1 DEF Fine, Call, Places, Sanctioning
    <2>2. Grown(inc, inc')
      BY <1>5, NoteGrows
    <2>3. Moved(t)
      BY <1>1, <1>5, <2>1, <2>2, ActorMoves
    <2> QED BY <1>3, <1>5, <2>2, <2>3, BoundsKept DEF Good
  <1> QED BY <1>2, <1>4, <1>5

LEMMA MarkRestoredGood == ASSUME RaidAssumption, RaidInv, NEW t \in Task, MarkRestored(t) PROVE Good(t)
  <1>1. /\ task[t].pc = "lifted" /\ task[t].pc \in Copied /\ task[t].pc \in Acting /\ task[t] \in Call
        /\ task[t].held.c \in Channel /\ task[t].doc.stage = "recovery"
        /\ \A c \in task[t].chans : task[t].doc.lock[c] \in {"open", "denied"}
    BY DEF MarkRestored, At, Copied, Acting, RaidInv, Fine, UnlockHeld
  <1> DEFINE c == task[t].held.c
             d == [Now(t) EXCEPT !.lock[c] = "lifted"]
             r == [task[t] EXCEPT !.pc = "restore", !.held = Nothing, !.chans = @ \ {c}]
  <1>2. /\ task[t].id \in Incident /\ Now(t) = inc[task[t].id] /\ Now(t) \in Doc /\ ~Now(t).dry
        /\ Rank(Now(t).stage) \in Nat
    BY <1>1, ActorFacts, DocFields, RankTyped
  <1>3. /\ d \in Doc /\ d.stage = Now(t).stage /\ d.dry = Now(t).dry
        /\ d.lock = [Now(t).lock EXCEPT ![c] = "lifted"] /\ Now(t).lock \in [Channel -> Lock]
    BY <1>1, <1>2 DEF Doc, Lock
  <1>4. inc' = [inc EXCEPT ![task[t].id] = d] \/ UNCHANGED inc
    BY <1>2 DEF MarkRestored, RaidInv
  <1>5. Set(t, r)
    BY DEF MarkRestored
  <1> HIDE DEF d
  <1>6. Clean(d) /\ Grows(Now(t), d)
    BY <1>1, <1>2, <1>3 DEF Clean, Grows
  <1>7. Grown(inc, inc')
    BY <1>2, <1>3, <1>4, <1>6, Same, OneGrows DEF RaidInv
  <1>8. Fine(r) /\ r.id = task[t].id /\ r.doc = task[t].doc
    BY <1>1 DEF Fine, Call, Places, Held, Sanctioning
  <1>9. Moved(t)
    BY <1>1, <1>5, <1>7, <1>8, ActorMoves
  <1> QED BY <1>7, <1>9, BoundsKept DEF MarkRestored, Good

LEMMA RestoreStructureGood ==
    ASSUME RaidAssumption, RaidInv, NEW t \in Task, NEW ok \in BOOLEAN, RestoreStructure(t, ok) PROVE Good(t)
  <1>1. task[t].pc = "restore" /\ task[t].pc \in Acting /\ task[t] \in Call /\ Blank \in Doc
    BY IdleFine DEF RestoreStructure, At, Acting, RaidInv, Fine, Idle, Call
  <1>2. Grown(inc, inc')
    BY <1>1, ActorFacts, AdvanceGrows, Same DEF RestoreStructure, Stages, RaidInv
  <1>3. Moved(t)
    BY <1>1, PlainMoves DEF RestoreStructure, Call, Places
  <1> QED BY <1>2, <1>3, BoundsKept DEF RestoreStructure, Good

LEMMA ReadContainedGood == ASSUME RaidAssumption, RaidInv, NEW t \in Task, ReadContained(t) PROVE Good(t)
  <1>1. task[t] \in Call /\ task[t].job \in Jobs /\ Idle \in Call
    BY IdleFine, CallFields DEF RaidInv, Fine
  <1>2. ASSUME NEW i \in Incident, Contained(i),
               Set(t, [Idle EXCEPT !.pc = "cleanup", !.job = task[t].job, !.id = i])
        PROVE  Moved(t)
    <2> DEFINE r == [Idle EXCEPT !.pc = "cleanup", !.job = task[t].job, !.id = i]
    <2>1. r \in Call /\ r.pc = "cleanup" /\ r.id = i
      BY <1>1 DEF Call, Places
    <2>2. inc[i].stage # "none" /\ ~inc[i].dry
      BY <1>2 DEF Contained, RaidInv, Clean
    <2>3. UNCHANGED inc /\ Set(t, r)
      BY <1>2 DEF ReadContained
    <2> HIDE DEF r
    <2>4. Fine(r)
      BY <2>1 DEF Fine, Sanctioning
    <2>5. Linked(r, inc')
      BY <2>1, <2>2, <2>3 DEF Linked, Sanctioning, Copied
    <2> QED BY <2>3, <2>4, <2>5, SetMoves DEF InOrder
  <1>3. ASSUME Goto(t, "idle") PROVE Moved(t)
    BY <1>1, <1>3, PlainMoves DEF Goto, Call, Places
  <1> QED BY <1>2, <1>3, Same, BoundsKept DEF ReadContained, Good, RaidInv

LEMMA MarkContainedGood == ASSUME RaidAssumption, RaidInv, NEW t \in Task, MarkContained(t) PROVE Good(t)
  <1>1. task[t].pc \in Acting /\ task[t] \in Call
    BY DEF MarkContained, At, Acting, RaidInv
  <1>2. Grown(inc, inc')
    BY <1>1, ActorFacts, AdvanceGrows DEF MarkContained, Stages
  <1>3. Moved(t)
    BY <1>1, SetMoves DEF MarkContained, Goto, Call
  <1> QED BY <1>2, <1>3, BoundsKept DEF MarkContained, Good

LEMMA ThrowGood == ASSUME RaidAssumption, RaidInv, NEW t \in Task, Throw(t) PROVE Good(t)
  <1>1. task[t].job \in Jobs /\ Idle \in Call
    BY IdleFine, CallFields DEF RaidInv, Fine
  <1>2. Moved(t)
    BY <1>1, PlainMoves DEF Throw, Call, Places
  <1>3. Others' /\ Lifts
    BY NothingLifted DEF Throw, Others, RaidInv, RaidAssumption
  <1> QED BY <1>2, <1>3, Same DEF Throw, Good, RaidInv

LEMMA IntervenesGood == ASSUME RaidAssumption, RaidInv, NEW t \in Task, Intervene(t) PROVE Good(t)
  BY FindGood, OpenGood, RegisterGood, RemoveGood, ForceStopGood, ReadActiveGood, CloseGood, ConfirmGood,
     ReadCurrentGood, CaptureGood, LockChannelGood, RecordLockGood, SanctionGood, UnlockGood,
     RestoreStructureGood, RecordSanctionGood, MarkFailedGood, ActedGood, PurgeGood, MarkRestoredGood,
     ReadContainedGood, MarkContainedGood DEF Intervene

-----------------------------------------------------------------------------
(* Time and the end of the process                                         *)
LEMMA CalmGood == ASSUME RaidInv, NEW i \in Incident, Calm(i) PROVE Grown(inc, inc') /\ Lifts /\ Others'
  <1> DEFINE d == [inc[i] EXCEPT !.calm = TRUE]
  <1>1. inc[i] \in Doc /\ Clean(inc[i]) /\ Rank(inc[i].stage) \in Nat
    BY DocFields, RankTyped DEF RaidInv
  <1>2. /\ d \in Doc /\ d.stage = inc[i].stage /\ d.dry = inc[i].dry /\ d.lock = inc[i].lock
        /\ d.member = inc[i].member
    BY <1>1 DEF Doc
  <1>3. inc' = [inc EXCEPT ![i] = d]
    BY <1>1 DEF Calm, RaidInv
  <1>4. Clean(d) /\ Grows(inc[i], d)
    BY <1>1, <1>2 DEF Clean, Grows
  <1>5. Grown(inc, inc')
    BY <1>2, <1>3, <1>4, OneGrows DEF RaidInv
  <1> QED BY <1>5, BoundsKept DEF Calm

(* No call moves: what each has of its incident is kept.                   *)
LEMMA NobodyMoves == ASSUME RaidInv, Grown(inc, inc'), Others', UNCHANGED task PROVE RaidInv'
  <1>1. \A s \in Task : Fine(task[s]) /\ Linked(task[s], inc')
    BY LinkKept DEF RaidInv
  <1> QED BY <1>1 DEF RaidInv, Grown, Fine, Linked, Clean

LEMMA RaidGoesOn ==
    ASSUME RaidAssumption, RaidInv, [Next]_vars PROVE RaidInv' /\ Grown(inc, inc') /\ Lifts
  <1>1. CASE UNCHANGED vars
    <2>1. Others' /\ Lifts /\ Grown(inc, inc')
      BY <1>1, BoundsKept, Same DEF vars, RaidInv
    <2> QED BY <1>1, <2>1, NobodyMoves DEF vars
  <1>2. ASSUME NEW t \in Task, Good(t) PROVE RaidInv' /\ Grown(inc, inc') /\ Lifts
    BY <1>2, Assembled DEF Good
  <1>3. ASSUME NEW i \in Incident, Calm(i) PROVE RaidInv' /\ Grown(inc, inc') /\ Lifts
    BY <1>3, CalmGood, NobodyMoves DEF Calm
  <1>4. CASE Crash
    <2>1. Others' /\ Lifts /\ Grown(inc, inc')
      BY <1>4, NothingLifted, Same DEF Crash, Others, RaidInv, RaidAssumption
    <2>2. Idle \in Call /\ Fine(Idle) /\ Linked(Idle, inc')
      BY IdleFine, IdleLinked DEF Fine
    <2> QED BY <1>4, <2>1, <2>2 DEF Crash, RaidInv, Grown, Fine, Linked, Clean
  <1> QED BY <1>1, <1>2, <1>3, <1>4, StartsGood, IntervenesGood, ThrowGood DEF Next

-----------------------------------------------------------------------------
LEMMA RaidInvariant == ASSUME RaidAssumption PROVE Spec => []RaidInv
  <1>1. Init => RaidInv
    BY InitRaid
  <1>2. RaidInv /\ [Next]_vars => RaidInv'
    BY RaidGoesOn
  <1> QED BY <1>1, <1>2, PTL DEF Spec

(* The incidents, the channels and the calls keep their types.             *)
THEOREM RaidTyped == ASSUME RaidAssumption PROVE Spec => []TypeOK
  <1>1. RaidInv => TypeOK
    BY DEF RaidInv, Others, TypeOK
  <1> QED BY <1>1, RaidInvariant, PTL

(* An incident opened as a simulation locks nothing, sanctions nobody and  *)
(* is acted on by no call, for any number of calls that drive incidents.   *)
THEOREM DryRunsTouchNothing == ASSUME RaidAssumption PROVE Spec => []DryRunTouchesNothing
  <1>1. RaidInv => DryRunTouchesNothing
    BY DEF RaidInv, Clean, Linked, DryRunTouchesNothing
  <1> QED BY <1>1, RaidInvariant, PTL

(* However many calls drive an incident from copies they read, its stage   *)
(* is never taken back.                                                    *)
THEOREM StagesAdvance == ASSUME RaidAssumption PROVE Spec => StagesOnlyAdvance
  <1>1. RaidInv /\ [Next]_vars => [\A i \in Incident : Rank(inc[i].stage) <= Rank(inc'[i].stage)]_vars
    BY RaidGoesOn DEF Grown, Grows
  <1> QED BY <1>1, RaidInvariant, PTL DEF Spec, StagesOnlyAdvance

(* A denied channel is given back only on behalf of an incident that has   *)
(* recorded it and is in recovery or resolved.                             *)
THEOREM LiftedInRecovery == ASSUME RaidAssumption PROVE Spec => LiftedOnlyInRecovery
  <1>1. RaidInv /\ [Next]_vars =>
          [\A c \in Channel : perm[c] = "denied" /\ perm'[c] = "open" =>
             \E i \in Incident : inc[i].stage \in {"recovery", "resolved"} /\ inc[i].lock[c] # "none"]_vars
    BY RaidGoesOn DEF Lifts, Lifting
  <1> QED BY <1>1, RaidInvariant, PTL DEF Spec, LiftedOnlyInRecovery
=============================================================================
