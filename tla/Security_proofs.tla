------------------------ MODULE Security_proofs ------------------------
(***************************************************************************)
(* What the components of MCSecurity promise, each by an inductive         *)
(* invariant of its own, for any handlers, requests, resources, changes,   *)
(* faults and limits, and from these what the composition promises.        *)
(***************************************************************************)
EXTENDS MCSecurity, RaidIncident_proofs, FiniteSetTheorems

(* The guard of the server's structure.  A resource stands for another     *)
(* while it is there, while the event of its deletion is on its way, and   *)
(* while a handler has that event and has not answered it.  There is one   *)
(* such place at a time, and a copy is made when the last of them is left. *)
GPlace == {"idle", "gate", "find", "exact", "batch", "signal", "rollback", "sanction"}
GTask == [pc : GPlace, change : G!Change, situation : {"off", "on", "raid"}, actor : G!Actor \cup {"nobody"}]

Coming(i) == <<"delete", i>> \in g_events
Holds(h, i) == g_handler[h].pc \notin {"idle", "sanction"} /\ g_handler[h].change = <<"delete", i>>
Standing(i) == i \in g_live \/ Coming(i) \/ \E h \in Task : Holds(h, i)

OneStanding == \A i, j \in G!Id : Standing(i) /\ Standing(j) /\ g_copyOf[i] = g_copyOf[j] => i = j
OnePlace ==
    \A i \in G!Id :
      /\ Coming(i) => i \notin g_live
      /\ \A h \in Task : Holds(h, i) => /\ i \notin g_live /\ ~Coming(i)
                                        /\ \A g \in Task : Holds(g, i) => g = h
(* An id nobody has used stands for itself, and nothing stands for it.     *)
Born(i) == g_by["create"][i] # "nobody"
UnusedIsBlank ==
    \A i \in G!Id : IF Born(i) THEN Born(g_copyOf[i]) ELSE g_copyOf[i] = i /\ ~Standing(i)

StructureInv == G!TypeOK /\ OneStanding /\ OnePlace /\ UnusedIsBlank

-----------------------------------------------------------------------------
(* A step that moves one handler, and the types of where it goes.          *)
LEMMA StructurePutTypes ==
    ASSUME G!TypeOK, NEW h \in Task, NEW r \in GTask, G!Put(h, r)
    PROVE  /\ g_handler' \in [Task -> GTask] /\ g_handler'[h] = r
           /\ \A g \in Task \ {h} : g_handler'[g] = g_handler[g]
BY DEF G!TypeOK, G!Put, GTask, GPlace

LEMMA StructureMoveTypes ==
    ASSUME G!GuardAssumption, G!TypeOK, NEW h \in Task
    PROVE  /\ g_handler[h] \in GTask /\ G!Idle \in GTask /\ G!KindOf(h) \in G!Kind /\ G!IdOf(h) \in G!Id
           /\ g_handler[h].change = <<G!KindOf(h), G!IdOf(h)>>
           /\ \A pc \in GPlace : [g_handler[h] EXCEPT !.pc = pc] \in GTask
<1>1. g_handler[h] \in GTask BY DEF G!TypeOK, GTask, GPlace
<1>2. g_handler[h].change \in G!Kind \X G!Id BY <1>1 DEF GTask, G!Change
<1>3. G!Idle \in GTask BY DEF G!GuardAssumption, GTask, GPlace, G!Idle, G!Change, G!Kind, G!Id
<1>4. \A pc \in GPlace : [g_handler[h] EXCEPT !.pc = pc] \in GTask BY <1>1 DEF GTask
<1>. QED BY <1>1, <1>2, <1>3, <1>4 DEF G!KindOf, G!IdOf

(* The next id is one nobody has used.                                     *)
LEMMA StructureFresh == ASSUME G!GuardAssumption, NEW i \in G!Id, G!Fresh(i) PROVE ~Born(i)
BY DEF G!GuardAssumption, G!Id, G!Fresh, Born

(* A step that moves one handler, which does not come to hold a deletion   *)
(* it did not, and leaves the server and its events alone.                 *)
LEMMA StructureQuiet ==
    ASSUME G!GuardAssumption, StructureInv, NEW h \in Task, NEW r \in GTask, G!Put(h, r),
           \/ r.pc \in {"idle", "sanction"}
           \/ g_handler[h].pc \notin {"idle", "sanction"} /\ r.change = g_handler[h].change,
           g_approval' \in G!Approval, g_faults' \in Nat,
           UNCHANGED <<g_live, g_by, g_copyOf, g_events, g_given, g_changes>>
    PROVE  StructureInv'
<1>1. /\ g_handler' \in [Task -> GTask] /\ g_handler'[h] = r
      /\ \A g \in Task \ {h} : g_handler'[g] = g_handler[g]
  BY StructurePutTypes DEF StructureInv
<1>2. G!TypeOK' BY <1>1 DEF StructureInv, G!TypeOK, GTask, GPlace
<1>3. \A g \in Task, i \in G!Id : Holds(g, i)' => Holds(g, i) BY <1>1 DEF Holds
<1>4. \A i \in G!Id : Coming(i)' = Coming(i) /\ Born(i)' = Born(i) BY DEF Coming, Born
<1>5. \A i \in G!Id : Standing(i)' => Standing(i) BY <1>3, <1>4 DEF Standing
<1>6. OneStanding' BY <1>5 DEF StructureInv, OneStanding
<1>7. OnePlace' BY <1>3, <1>4 DEF StructureInv, OnePlace
<1>8. UnusedIsBlank'
  <2>1. \A i \in G!Id : g_copyOf[i] \in G!Id BY DEF StructureInv, G!TypeOK
  <2>. QED BY <1>4, <1>5, <2>1 DEF StructureInv, UnusedIsBlank
<1>. QED BY <1>2, <1>6, <1>7, <1>8 DEF StructureInv

(* A step that deletes a resource, while no handler comes to hold a        *)
(* deletion: what stood stands, on its way instead of there.               *)
LEMMA StructureDelete ==
    ASSUME G!GuardAssumption, StructureInv, NEW i \in G!Id, i \in g_live, NEW who \in G!Actor,
           G!Occurs("delete", i, who),
           g_handler' \in [Task -> GTask], \A g \in Task, j \in G!Id : Holds(g, j)' => Holds(g, j),
           g_changes' \in Nat, g_faults' \in Nat, UNCHANGED <<g_copyOf, g_approval, g_given>>
    PROVE  StructureInv'
<1>1. /\ g_live' = g_live \ {i} /\ g_events' = g_events \cup {<<"delete", i>>}
      /\ g_by' = [g_by EXCEPT !["delete"][i] = who]
  BY DEF G!Occurs
<1>2. G!TypeOK' BY <1>1 DEF StructureInv, G!TypeOK, GTask, GPlace, G!Change, G!Kind
<1>3. \A j \in G!Id : Born(j)' = Born(j) BY <1>1 DEF Born, StructureInv, G!TypeOK, G!Kind
<1>4. \A j \in G!Id : (Coming(j)' <=> Coming(j) \/ j = i) BY <1>1 DEF Coming
<1>5. \A j \in G!Id : Standing(j)' => Standing(j) BY <1>1, <1>4 DEF Standing
<1>6. OneStanding' BY <1>5 DEF StructureInv, OneStanding
<1>7. OnePlace' BY <1>1, <1>4 DEF StructureInv, OnePlace
<1>8. UnusedIsBlank'
  <2>1. \A j \in G!Id : g_copyOf[j] \in G!Id BY DEF StructureInv, G!TypeOK
  <2>. QED BY <1>3, <1>5, <2>1 DEF StructureInv, UnusedIsBlank
<1>. QED BY <1>2, <1>6, <1>7, <1>8 DEF StructureInv

(* A step that creates the next resource, as a new one or as the copy of   *)
(* one that stood and stands no longer.                                    *)
LEMMA StructureCreate ==
    ASSUME G!GuardAssumption, StructureInv, NEW i \in G!Id, G!Fresh(i), NEW who \in G!Actor,
           G!Occurs("create", i, who),
           g_handler' \in [Task -> GTask], \A g \in Task, j \in G!Id : Holds(g, j)' => Holds(g, j),
           g_changes' \in Nat, g_faults' \in Nat, UNCHANGED <<g_approval, g_given>>,
           \/ UNCHANGED g_copyOf
           \/ \E k \in G!Id : /\ Standing(k) /\ ~Standing(k)'
                              /\ g_copyOf' = [g_copyOf EXCEPT ![i] = g_copyOf[k]]
    PROVE  StructureInv'
<1>1. /\ g_live' = g_live \cup {i} /\ g_events' = g_events \cup {<<"create", i>>}
      /\ g_by' = [g_by EXCEPT !["create"][i] = who]
  BY DEF G!Occurs
<1>2. \A j \in G!Id : g_copyOf[j] \in G!Id BY DEF StructureInv, G!TypeOK
<1>3. g_copyOf' \in [G!Id -> G!Id] /\ \A j \in G!Id \ {i} : g_copyOf'[j] = g_copyOf[j]
  BY <1>2 DEF StructureInv, G!TypeOK
<1>4. G!TypeOK' BY <1>1, <1>3 DEF StructureInv, G!TypeOK, GTask, GPlace, G!Change, G!Kind
<1>5. ~Born(i) /\ ~Standing(i) /\ g_copyOf[i] = i BY StructureFresh DEF StructureInv, UnusedIsBlank
<1>6. \A j \in G!Id : Born(j)' <=> Born(j) \/ j = i
  BY <1>1 DEF Born, StructureInv, G!TypeOK, G!Kind, G!Actor
<1>7. \A j \in G!Id : Coming(j)' = Coming(j) BY <1>1 DEF Coming
<1>8. \A j \in G!Id : Standing(j)' => Standing(j) \/ j = i BY <1>1, <1>7 DEF Standing
<1>9. \A j \in G!Id \ {i} : Standing(j)' => g_copyOf'[j] # g_copyOf'[i]
  <2>1. SUFFICES ASSUME NEW j \in G!Id \ {i}, Standing(j)' PROVE g_copyOf'[j] # g_copyOf'[i] OBVIOUS
  <2>2. Standing(j) /\ g_copyOf'[j] = g_copyOf[j] BY <1>3, <1>8, <2>1
  <2>3. CASE UNCHANGED g_copyOf
    <3>1. Born(g_copyOf[j]) BY <2>2 DEF StructureInv, UnusedIsBlank
    <3>. QED BY <1>5, <2>2, <2>3, <3>1
  <2>4. CASE \E k \in G!Id : /\ Standing(k) /\ ~Standing(k)' /\ g_copyOf' = [g_copyOf EXCEPT ![i] = g_copyOf[k]]
    <3>1. PICK k \in G!Id : /\ Standing(k) /\ ~Standing(k)' /\ g_copyOf' = [g_copyOf EXCEPT ![i] = g_copyOf[k]]
      BY <2>4
    <3>2. g_copyOf'[i] = g_copyOf[k] /\ j # k BY <2>1, <3>1 DEF StructureInv, G!TypeOK
    <3>. QED BY <2>2, <3>1, <3>2 DEF StructureInv, OneStanding
  <2>. QED BY <2>3, <2>4
<1>10. OneStanding'
  <2>1. SUFFICES ASSUME NEW j \in G!Id, NEW k \in G!Id, Standing(j)', Standing(k)', g_copyOf'[j] = g_copyOf'[k]
                 PROVE  j = k
    BY DEF OneStanding
  <2>2. CASE j # i /\ k # i BY <1>3, <1>8, <2>1, <2>2 DEF StructureInv, OneStanding
  <2>. QED BY <1>9, <2>1, <2>2
<1>11. OnePlace'
  <2>1. ~Coming(i) /\ \A h \in Task : ~Holds(h, i) BY <1>5 DEF Standing
  <2>. QED BY <1>1, <1>7, <2>1 DEF StructureInv, OnePlace
<1>12. UnusedIsBlank'
  <2>1. SUFFICES ASSUME NEW j \in G!Id
                 PROVE  IF Born(j)' THEN g_by'["create"][g_copyOf'[j]] # "nobody"
                        ELSE g_copyOf'[j] = j /\ ~Standing(j)'
    BY DEF UnusedIsBlank, Born
  <2>0. \A k \in G!Id : g_by'["create"][k] # "nobody" <=> Born(k) \/ k = i BY <1>6 DEF Born
  <2>2. CASE j # i BY <1>2, <1>3, <1>6, <1>8, <2>0, <2>2 DEF StructureInv, UnusedIsBlank
  <2>3. CASE j = i
    <3>1. CASE UNCHANGED g_copyOf BY <1>5, <1>6, <2>0, <2>3, <3>1
    <3>2. CASE \E k \in G!Id : /\ Standing(k) /\ ~Standing(k)' /\ g_copyOf' = [g_copyOf EXCEPT ![i] = g_copyOf[k]]
      <4>1. PICK k \in G!Id : Standing(k) /\ g_copyOf' = [g_copyOf EXCEPT ![i] = g_copyOf[k]] BY <3>2
      <4>2. g_copyOf'[i] = g_copyOf[k] BY <4>1 DEF StructureInv, G!TypeOK
      <4>3. Born(g_copyOf[k]) BY <4>1 DEF StructureInv, UnusedIsBlank
      <4>. QED BY <1>2, <1>6, <2>0, <2>3, <4>2, <4>3
    <3>. QED BY <3>1, <3>2
  <2>. QED BY <2>2, <2>3
<1>. QED BY <1>4, <1>10, <1>11, <1>12 DEF StructureInv
-----------------------------------------------------------------------------
LEMMA StructureInit == G!GuardAssumption /\ G!Init => StructureInv
<1> SUFFICES ASSUME G!GuardAssumption, G!Init PROVE StructureInv OBVIOUS
<1>1. g_live \in SUBSET G!Id BY DEF G!Init, G!Id, G!GuardAssumption
<1>2. g_approval \in G!Approval
  BY <1>1 DEF G!Init, G!Approval, G!Change, G!Kind
<1>3. G!Idle \in GTask BY DEF G!GuardAssumption, GTask, GPlace, G!Idle, G!Change, G!Kind, G!Id
<1>4. /\ g_copyOf \in [G!Id -> G!Id] /\ g_by \in [G!Kind -> [G!Id -> G!Actor \cup {"nobody"}]]
      /\ g_handler \in [Task -> GTask]
  BY <1>3 DEF G!Init, G!Actor
<1>5. G!TypeOK BY <1>1, <1>2, <1>4 DEF G!Init, G!TypeOK, GTask, GPlace
<1>6. \A i \in G!Id : ~Coming(i) /\ \A h \in Task : ~Holds(h, i) BY DEF G!Init, Coming, Holds, G!Idle
<1>7. \A i \in G!Id : (Standing(i) <=> i \in g_live) /\ (Born(i) <=> i \in g_live) /\ g_copyOf[i] = i
  BY <1>6 DEF Standing, Born, G!Init, G!Kind
<1>. QED BY <1>5, <1>6, <1>7 DEF StructureInv, OneStanding, OnePlace, UnusedIsBlank

(* A person's change. *)
LEMMA StructureChanged ==
    ASSUME G!GuardAssumption, StructureInv, NEW who \in {"owner", "member"}, G!Changed(who) PROVE StructureInv'
<1>1. PICK i \in G!Id : \/ G!Fresh(i) /\ G!Occurs("create", i, who)
                        \/ i \in g_live /\ G!Occurs("delete", i, who)
  BY DEF G!Changed
<1>2. /\ who \in G!Actor /\ g_changes' \in Nat /\ g_faults' \in Nat /\ g_handler' \in [Task -> GTask]
      /\ UNCHANGED <<g_copyOf, g_approval, g_given, g_handler>>
  BY DEF G!Changed, StructureInv, G!TypeOK, GTask, GPlace, G!Actor
<1>3. \A g \in Task, j \in G!Id : Holds(g, j)' => Holds(g, j) BY <1>2 DEF Holds
<1>. QED BY <1>1, <1>2, <1>3, StructureCreate, StructureDelete

(* A handler takes an event: what was on its way is with it.               *)
LEMMA StructureEvents ==
    ASSUME G!GuardAssumption, StructureInv, NEW h \in Task, G!StructureEvent(h) PROVE StructureInv'
<1>1. PICK e \in g_events : /\ g_events' = g_events \ {e} /\ G!At(h, "idle")
                            /\ G!Put(h, [G!Idle EXCEPT !.pc = "gate", !.change = e])
  BY DEF G!StructureEvent
<1>2. UNCHANGED <<g_live, g_by, g_copyOf, g_approval, g_given, g_changes, g_faults>> BY DEF G!StructureEvent
<1>3. e \in G!Change /\ [G!Idle EXCEPT !.pc = "gate", !.change = e] \in GTask
  <2>1. e \in G!Change BY <1>1 DEF StructureInv, G!TypeOK
  <2>2. G!Idle \in GTask BY StructureMoveTypes DEF StructureInv
  <2>. QED BY <2>1, <2>2 DEF GTask, GPlace
<1>4. /\ g_handler' \in [Task -> GTask]
      /\ g_handler'[h] = [G!Idle EXCEPT !.pc = "gate", !.change = e]
      /\ \A g \in Task \ {h} : g_handler'[g] = g_handler[g]
  BY <1>1, <1>3, StructurePutTypes DEF StructureInv
<1>5. G!TypeOK' BY <1>1, <1>2, <1>4 DEF StructureInv, G!TypeOK, GTask, GPlace
<1>6. g_handler'[h].pc = "gate" /\ g_handler'[h].change = e BY <1>4 DEF G!Idle
<1>7. \A i \in G!Id : /\ Born(i)' = Born(i) /\ ~Holds(h, i) /\ (Holds(h, i)' <=> e = <<"delete", i>>)
                      /\ Coming(i)' <=> Coming(i) /\ e # <<"delete", i>>
                      /\ \A g \in Task \ {h} : Holds(g, i)' <=> Holds(g, i)
  BY <1>1, <1>2, <1>4, <1>6 DEF Born, Holds, Coming, G!At
<1>8. \A i \in G!Id : Standing(i)' => Standing(i) BY <1>1, <1>2, <1>7 DEF Standing, Coming
<1>9. OneStanding' BY <1>2, <1>8 DEF StructureInv, OneStanding
<1>10. OnePlace'
  <2>1. SUFFICES ASSUME NEW i \in G!Id
                 PROVE  /\ Coming(i)' => i \notin g_live'
                        /\ \A g \in Task : Holds(g, i)' => /\ i \notin g_live' /\ ~Coming(i)'
                                                           /\ \A k \in Task : Holds(k, i)' => k = g
    BY DEF OnePlace
  <2>2. CASE e = <<"delete", i>>
    <3>1. Coming(i) /\ i \notin g_live BY <1>1, <2>2 DEF Coming, StructureInv, OnePlace
    <3>2. \A g \in Task : ~Holds(g, i) BY <3>1 DEF StructureInv, OnePlace
    <3>. QED BY <1>2, <1>7, <2>2, <3>1, <3>2
  <2>3. CASE e # <<"delete", i>> BY <1>2, <1>7, <2>3 DEF StructureInv, OnePlace
  <2>. QED BY <2>2, <2>3
<1>11. UnusedIsBlank'
  <2>1. \A i \in G!Id : g_copyOf[i] \in G!Id BY DEF StructureInv, G!TypeOK
  <2>. QED BY <1>2, <1>7, <1>8, <2>1 DEF StructureInv, UnusedIsBlank
<1>. QED BY <1>5, <1>9, <1>10, <1>11 DEF StructureInv

(* The steps that neither touch the server nor end a handler's hold on an  *)
(* event otherwise than by ending its work.                                *)
LEMMA StructureFaultTypes == ASSUME G!TypeOK, G!Fault PROVE g_faults' \in Nat
BY DEF G!TypeOK, G!Fault

LEMMA StructureAsking ==
    ASSUME G!GuardAssumption, StructureInv, NEW h \in Task,
           \/ G!ReadSituation(h) \/ G!FindActor(h) \/ G!ConsumeExact(h)
           \/ G!ConsumeBatch(h) \/ G!SignalAntiRaid(h) \/ G!Sanction(h)
    PROVE  StructureInv'
<1>0. /\ G!TypeOK /\ g_faults \in Nat /\ g_approval \in G!Approval /\ g_handler[h] \in GTask /\ G!Idle \in GTask
      /\ G!Idle.pc = "idle" /\ \A pc \in GPlace : [g_handler[h] EXCEPT !.pc = pc] \in GTask
  BY StructureMoveTypes DEF StructureInv, G!TypeOK, G!Idle
<1>1. CASE G!ReadSituation(h)
  <2>1. PICK s \in {"off", "on", "raid"} : G!Put(h, [g_handler[h] EXCEPT !.pc = "find", !.situation = s])
    BY <1>1 DEF G!ReadSituation
  <2>0. \A p \in GPlace, u \in {"off", "on", "raid"} :
           /\ [g_handler[h] EXCEPT !.pc = p, !.situation = u] \in GTask
           /\ [g_handler[h] EXCEPT !.pc = p, !.situation = u].change = g_handler[h].change
    BY <1>0 DEF GTask
  <2>2. PICK r \in GTask : G!Put(h, r) /\ r.change = g_handler[h].change
    BY <2>0, <2>1 DEF GPlace
  <2>3. g_handler[h].pc = "gate" BY <1>1 DEF G!ReadSituation, G!At
  <2>4. UNCHANGED <<g_live, g_by, g_copyOf, g_events, g_approval, g_given, g_changes, g_faults>>
    BY <1>1 DEF G!ReadSituation
  <2>. QED BY <1>0, <2>2, <2>3, <2>4, StructureQuiet
<1>2. CASE G!FindActor(h)
  <2>1. g_handler[h].pc = "find" BY <1>2 DEF G!FindActor, G!At
  <2>2. PICK r \in GTask : G!Put(h, r) /\ (r.pc = "idle" \/ r.change = g_handler[h].change)
    <3>1. CASE g_by[G!KindOf(h)][G!IdOf(h)] = "owner" /\ G!End(h) BY <1>0, <3>1 DEF G!End
    <3>2. CASE /\ g_by[G!KindOf(h)][G!IdOf(h)] # "owner"
               /\ G!Put(h, [g_handler[h] EXCEPT !.actor = g_by[G!KindOf(h)][G!IdOf(h)],
                            !.pc = IF g_handler[h].situation = "on" THEN "exact" ELSE "signal"])
      <4>1. g_by[G!KindOf(h)][G!IdOf(h)] \in G!Actor \cup {"nobody"} BY StructureMoveTypes DEF StructureInv, G!TypeOK
      <4> DEFINE pc == IF g_handler[h].situation = "on" THEN "exact" ELSE "signal"
      <4>2. \A a \in G!Actor \cup {"nobody"}, p \in GPlace :
                /\ [g_handler[h] EXCEPT !.actor = a, !.pc = p] \in GTask
                /\ [g_handler[h] EXCEPT !.actor = a, !.pc = p].change = g_handler[h].change
        BY <1>0 DEF GTask
      <4>3. pc \in GPlace BY DEF GPlace
      <4>4. G!Put(h, [g_handler[h] EXCEPT !.actor = g_by[G!KindOf(h)][G!IdOf(h)], !.pc = pc]) BY <3>2
      <4> HIDE DEF pc
      <4>. QED BY <4>1, <4>2, <4>3, <4>4
    <3>3. CASE G!Move(h, "signal") BY <1>0, <3>3 DEF G!Move, GPlace, GTask
    <3>. QED BY <1>2, <3>1, <3>2, <3>3 DEF G!FindActor
  <2>3. g_faults' \in Nat BY <1>0, <1>2, StructureFaultTypes DEF G!FindActor
  <2>4. UNCHANGED <<g_live, g_by, g_copyOf, g_events, g_approval, g_given, g_changes>> BY <1>2 DEF G!FindActor
  <2>5. g_handler[h].pc \notin {"idle", "sanction"} BY <2>1
  <2>. QED BY <1>0, <2>2, <2>3, <2>4, <2>5, StructureQuiet
<1>3. CASE G!ConsumeExact(h) \/ G!ConsumeBatch(h)
  <2>1. g_handler[h].pc \notin {"idle", "sanction"} BY <1>3 DEF G!ConsumeExact, G!ConsumeBatch, G!At
  <2>2. PICK r \in GTask : G!Put(h, r) /\ (r.pc = "idle" \/ r.change = g_handler[h].change)
    <3>1. G!End(h) \/ G!Move(h, "signal") \/ G!Move(h, "batch") BY <1>3 DEF G!ConsumeExact, G!ConsumeBatch
    <3>. QED BY <1>0, <3>1 DEF G!End, G!Move, GPlace, GTask
  <2>3. g_faults' \in Nat BY <1>0, <1>3, StructureFaultTypes DEF G!ConsumeExact, G!ConsumeBatch
  <2>4. UNCHANGED <<g_live, g_by, g_copyOf, g_events, g_given, g_changes>> BY <1>3 DEF G!ConsumeExact, G!ConsumeBatch
  <2>5. g_approval' \in G!Approval
    <3>1. CASE G!ConsumeExact(h)
      <4>1. \/ g_approval' = g_approval \/ g_approval' = [g_approval EXCEPT !.exact = @ \ {g_handler[h].change}]
        BY <3>1 DEF G!ConsumeExact
      <4>. QED BY <1>0, <4>1 DEF G!Approval
    <3>2. CASE G!ConsumeBatch(h)
      <4>1. \/ g_approval' = g_approval
            \/ g_approval.batch[G!KindOf(h)] > 0 /\ g_approval' = [g_approval EXCEPT !.batch[G!KindOf(h)] = @ - 1]
        BY <3>2 DEF G!ConsumeBatch
      <4>. QED BY <1>0, <4>1, StructureMoveTypes DEF G!Approval, G!Kind
    <3>. QED BY <1>3, <3>1, <3>2
  <2>. QED BY <2>1, <2>2, <2>3, <2>4, <2>5, StructureQuiet
<1>4. CASE G!SignalAntiRaid(h) \/ G!Sanction(h)
  <2>1. PICK r \in GTask :
          G!Put(h, r) /\ (r.pc = "idle" \/ (r.change = g_handler[h].change /\ g_handler[h].pc = "signal"))
    <3>1. G!End(h) \/ (G!Move(h, "rollback") /\ g_handler[h].pc = "signal")
      BY <1>4 DEF G!SignalAntiRaid, G!Sanction, G!At
    <3>. QED BY <1>0, <3>1 DEF G!End, G!Move, GPlace, GTask
  <2>2. UNCHANGED <<g_live, g_by, g_copyOf, g_events, g_given, g_changes, g_faults>>
    BY <1>4 DEF G!SignalAntiRaid, G!Sanction
  <2>3. g_approval' \in G!Approval
    <3>1. g_approval' = g_approval \/ g_approval' = [g_approval EXCEPT !.exact = @ \ {g_handler[h].change}]
      BY <1>4 DEF G!SignalAntiRaid, G!Sanction
    <3>. QED BY <1>0, <3>1 DEF G!Approval
  <2>. QED BY <1>0, <2>1, <2>2, <2>3, StructureQuiet
<1>. QED BY <1>1, <1>2, <1>3, <1>4

(* Where an undone change leaves its handler: no deletion is held there.   *)
LEMMA StructureUndone ==
    ASSUME G!GuardAssumption, G!TypeOK, NEW h \in Task, G!Undone(h)
    PROVE  /\ g_handler' \in [Task -> GTask] /\ \A i \in G!Id : ~Holds(h, i)'
           /\ \A g \in Task \ {h}, i \in G!Id : Holds(g, i)' <=> Holds(g, i)
           /\ \E r \in GTask : G!Put(h, r) /\ r.pc \in {"idle", "sanction"}
<1>1. PICK r \in GTask : G!Put(h, r) /\ r.pc \in {"idle", "sanction"}
  <2>1. G!End(h) \/ G!Move(h, "sanction") BY DEF G!Undone
  <2>2. G!Idle.pc = "idle" /\ [g_handler[h] EXCEPT !.pc = "sanction"].pc = "sanction" /\ "sanction" \in GPlace
    BY StructureMoveTypes DEF G!Idle, GPlace, GTask
  <2>. QED BY <2>1, <2>2, StructureMoveTypes DEF G!End, G!Move
<1>. QED BY <1>1, StructurePutTypes DEF Holds

LEMMA StructureRemove ==
    ASSUME G!GuardAssumption, StructureInv, NEW h \in Task, G!RemoveCreated(h) PROVE StructureInv'
<1>0. G!TypeOK /\ G!Undone(h) /\ UNCHANGED <<g_approval, g_given, g_changes, g_copyOf>> /\ g_approval \in G!Approval
  BY DEF G!RemoveCreated, StructureInv, G!TypeOK, G!Nothing
<1>1. /\ g_handler' \in [Task -> GTask] /\ \A g \in Task, i \in G!Id : Holds(g, i)' => Holds(g, i)
      /\ \E r \in GTask : G!Put(h, r) /\ r.pc \in {"idle", "sanction"}
  BY <1>0, StructureUndone
<1>2. g_faults' \in Nat /\ g_changes' \in Nat BY <1>0, StructureFaultTypes DEF G!RemoveCreated, G!TypeOK
<1>3. CASE G!IdOf(h) \in g_live /\ G!Occurs("delete", G!IdOf(h), "bot")
  <2>1. G!IdOf(h) \in G!Id /\ "bot" \in G!Actor BY <1>0, StructureMoveTypes DEF G!Actor
  <2>. QED BY <1>0, <1>1, <1>2, <1>3, <2>1, StructureDelete
<1>4. CASE G!Nothing
  BY <1>0, <1>1, <1>2, <1>4, StructureQuiet DEF G!Nothing
<1>. QED BY <1>3, <1>4 DEF G!RemoveCreated

LEMMA StructureRecreate ==
    ASSUME G!GuardAssumption, StructureInv, NEW h \in Task, G!RecreateDeleted(h) PROVE StructureInv'
<1>0. G!TypeOK /\ G!Undone(h) /\ UNCHANGED <<g_approval, g_given, g_changes>> /\ g_approval \in G!Approval
  BY DEF G!RecreateDeleted, StructureInv, G!TypeOK
<1>1. /\ g_handler' \in [Task -> GTask] /\ \A g \in Task, i \in G!Id : Holds(g, i)' => Holds(g, i)
      /\ \E r \in GTask : G!Put(h, r) /\ r.pc \in {"idle", "sanction"}
  BY <1>0, StructureUndone
<1>2. g_faults' \in Nat /\ g_changes' \in Nat BY <1>0, StructureFaultTypes DEF G!RecreateDeleted, G!TypeOK
<1>3. ASSUME NEW i \in G!Id, G!Fresh(i), G!Occurs("create", i, "bot"),
             g_copyOf' = [g_copyOf EXCEPT ![i] = g_copyOf[G!IdOf(h)]]
      PROVE  StructureInv'
  <2>0. G!IdOf(h) \in G!Id BY <1>0, StructureMoveTypes
  <2> PICK k \in G!Id : k = G!IdOf(h) BY <2>0
  <2>1. k \in G!Id /\ "bot" \in G!Actor /\ Holds(h, k)
    BY <1>0, StructureMoveTypes DEF G!Actor, G!RecreateDeleted, Holds, G!At
  <2>2. k \notin g_live /\ ~Coming(k) /\ \A g \in Task : Holds(g, k) => g = h
    BY <2>1 DEF StructureInv, OnePlace
  <2>3. Standing(k) /\ i # k
    BY <1>3, <2>1, StructureFresh DEF Standing, StructureInv, UnusedIsBlank
  <2>4. ~Standing(k)'
    <3>1. k \notin g_live' /\ ~Coming(k)' BY <1>3, <2>2, <2>3 DEF G!Occurs, Coming
    <3>2. \A g \in Task : ~Holds(g, k)' BY <1>0, <2>1, <2>2, StructureUndone
    <3>. QED BY <3>1, <3>2 DEF Standing
  <2>. QED BY <1>0, <1>1, <1>2, <1>3, <2>1, <2>3, <2>4, StructureCreate
<1>4. CASE G!Nothing
  BY <1>0, <1>1, <1>2, <1>4, StructureQuiet DEF G!Nothing
<1>. QED BY <1>3, <1>4 DEF G!RecreateDeleted

LEMMA StructureRestart == ASSUME G!GuardAssumption, StructureInv, G!Restart PROVE StructureInv'
<1>1. /\ g_handler' = [h \in Task |-> G!Idle] /\ g_events' = {} /\ g_faults' \in Nat
      /\ UNCHANGED <<g_live, g_by, g_copyOf, g_approval, g_given, g_changes>>
  BY StructureFaultTypes DEF G!Restart, StructureInv
<1>2. G!Idle \in GTask BY DEF G!GuardAssumption, GTask, GPlace, G!Idle, G!Change, G!Kind, G!Id
<1>3. G!TypeOK' BY <1>1, <1>2 DEF StructureInv, G!TypeOK, GTask, GPlace
<1>4. \A i \in G!Id : Born(i)' = Born(i) /\ ~Coming(i)' /\ \A h \in Task : ~Holds(h, i)'
  BY <1>1 DEF Born, Coming, Holds, G!Idle
<1>5. \A i \in G!Id : Standing(i)' => Standing(i) BY <1>1, <1>4 DEF Standing
<1>6. OneStanding' BY <1>1, <1>5 DEF StructureInv, OneStanding
<1>7. OnePlace' BY <1>4 DEF OnePlace
<1>8. UnusedIsBlank'
  <2>1. \A i \in G!Id : g_copyOf[i] \in G!Id BY DEF StructureInv, G!TypeOK
  <2>. QED BY <1>1, <1>4, <1>5, <2>1 DEF StructureInv, UnusedIsBlank
<1>. QED BY <1>3, <1>6, <1>7, <1>8 DEF StructureInv

LEMMA StructureNext == ASSUME G!GuardAssumption, StructureInv, [G!Next]_(G!vars) PROVE StructureInv'
<1>1. CASE G!Next
  BY <1>1, StructureRestart, StructureChanged, StructureEvents, StructureAsking, StructureRemove,
      StructureRecreate DEF G!Next
<1>2. CASE UNCHANGED G!vars
  <2>1. G!TypeOK' BY <1>2 DEF G!vars, StructureInv, G!TypeOK
  <2>2. OneStanding' /\ OnePlace' /\ UnusedIsBlank'
    BY <1>2 DEF G!vars, StructureInv, OneStanding, OnePlace, UnusedIsBlank, Standing, Coming, Holds, Born
  <2>. QED BY <2>1, <2>2 DEF StructureInv
<1>. QED BY <1>1, <1>2

(* The types of the state, with the argument above, for any handlers and   *)
(* bounds (handleStructureChange).                                         *)
THEOREM StructureInvariant == ASSUME G!GuardAssumption PROVE G!Spec => []StructureInv
<1>1. G!Init => StructureInv BY StructureInit
<1>2. StructureInv /\ [G!Next]_(G!vars) => StructureInv' BY StructureNext
<1>. QED BY <1>1, <1>2, PTL DEF G!Spec

(* No two resources stand for the same one, however events, handlers and   *)
(* restarts interleave.                                                    *)
THEOREM OneCopyHolds == ASSUME G!GuardAssumption PROVE G!Spec => []G!OneCopy
<1>1. StructureInv => G!OneCopy BY DEF StructureInv, G!TypeOK, OneStanding, Standing, G!OneCopy
<1>. QED BY <1>1, StructureInvariant, PTL

-----------------------------------------------------------------------------
(* The approvals of changes to the structure.  As long as no call fails,   *)
(* what is left of an approval for a number is what was given, less the    *)
(* changes decided on that nothing else approved; so a handler finds       *)
(* nothing left only if the changes are more than were approved.           *)
(*                                                                         *)
(* Who made a change; a change whose event is on its way, or with a        *)
(* handler that has not yet decided on it.                                 *)
Author(c) == g_by[c[1]][c[2]]
Asks(h, c) == g_handler[h].pc \in {"gate", "find", "exact", "batch", "signal"} /\ g_handler[h].change = c
Pending(c) == c \in g_events \/ \E h \in Task : Asks(h, c)

(* A resource is created once and deleted once.                            *)
DoneOnce ==
    \A i \in G!Id : /\ i \in g_live => g_by["create"][i] # "nobody" /\ g_by["delete"][i] = "nobody"
                    /\ g_by["create"][i] = "nobody" => g_by["delete"][i] = "nobody"
(* A change is handled once, and a handler knows whose it is.              *)
HandledOnce ==
    \A c \in G!Change : /\ Pending(c) => Author(c) # "nobody"
                        /\ c \in g_events => \A h \in Task : ~Asks(h, c)
                        /\ \A g, h \in Task : Asks(g, c) /\ Asks(h, c) => g = h
Decides(h) == g_handler[h].pc \in {"exact", "batch"}
KnowsWhom ==
    \A h \in Task :
      /\ Decides(h) => g_handler[h].situation = "on" /\ g_handler[h].actor = Author(g_handler[h].change)
      /\ g_handler[h].pc = "batch" /\ g_handler[h].actor = "member" => g_handler[h].change \notin g_given.exact
      /\ g_handler[h].pc = "sanction" => g_handler[h].situation = "on"

(* An approval of one resource is left until it is used for that.  The     *)
(* uses of one for a number are those of the changes it has to cover which *)
(* were decided on.                                                        *)
Early(h, c) == g_handler[h].pc \in {"gate", "find", "exact"} /\ g_handler[h].change = c
ExactLeft ==
    \A c \in g_given.exact :
      Author(c) = "nobody" \/ c \in g_events \/ (\E h \in Task : Early(h, c)) => c \in g_approval.exact
Uncovered(k) == {i \in G!Did(k) : <<k, i>> \notin g_given.exact}
Waiting(k) == {i \in Uncovered(k) : Pending(<<k, i>>)}
BatchLeft ==
    \A k \in G!Kind :
      g_given.batch[k] + Cardinality(Waiting(k)) <= g_approval.batch[k] + Cardinality(Uncovered(k))
Blamed(h) ==
    /\ g_handler[h].pc \in {"signal", "rollback", "sanction"}
    /\ g_handler[h].situation = "on" /\ g_handler[h].actor = "member"
Spared == G!Covered => \A h \in Task : ~Blamed(h)

ApprovalsLeft == DoneOnce /\ HandledOnce /\ KnowsWhom /\ ExactLeft /\ BatchLeft /\ Spared
SparedInv == StructureInv /\ (g_faults = 0 => ApprovalsLeft)

LEMMA UncoveredFinite ==
    ASSUME G!GuardAssumption, G!TypeOK, NEW k \in G!Kind
    PROVE  /\ IsFiniteSet(Uncovered(k)) /\ IsFiniteSet(Waiting(k)) /\ Waiting(k) \in SUBSET Uncovered(k)
           /\ Cardinality(Uncovered(k)) \in Nat /\ Cardinality(Waiting(k)) \in Nat
           /\ g_given.batch[k] \in Nat /\ g_approval.batch[k] \in Nat
<1>1. IsFiniteSet(G!Id) BY FS_Interval DEF G!GuardAssumption, G!Id
<1>2. Uncovered(k) \in SUBSET G!Id /\ Waiting(k) \in SUBSET Uncovered(k) BY DEF Uncovered, Waiting, G!Did
<1>3. IsFiniteSet(Uncovered(k)) /\ IsFiniteSet(Waiting(k)) BY <1>1, <1>2, FS_Subset
<1>. QED BY <1>2, <1>3, FS_CardinalityType DEF G!TypeOK, G!Approval

LEMMA CoveredCounts ==
    G!Covered <=> \A k \in G!Kind : Cardinality(Uncovered(k)) <= g_given.batch[k]
<1>1. \A X : G!Cardinality(X) = Cardinality(X) BY DEF G!Cardinality, Cardinality
<1>. QED BY <1>1 DEF G!Covered, Uncovered

(* What is decided on without a use of an approval for a number: fewer     *)
(* changes wait, and nothing else is different.                            *)
LEMMA FewerWait ==
    ASSUME G!GuardAssumption, G!TypeOK, G!TypeOK', BatchLeft, UNCHANGED <<g_by, g_given>>,
           g_approval'.batch = g_approval.batch,
           \A c \in G!Change : Author(c) = "member" /\ Pending(c)' => Pending(c)
    PROVE  BatchLeft'
<1> SUFFICES ASSUME NEW k \in G!Kind
             PROVE  g_given'.batch[k] + Cardinality(Waiting(k)') <= g_approval'.batch[k] + Cardinality(Uncovered(k)')
  BY DEF BatchLeft
<1>1. Uncovered(k)' = Uncovered(k) BY DEF Uncovered, G!Did
<1>2. Waiting(k)' \in SUBSET Waiting(k)
  <2>1. \A i \in Uncovered(k) : <<k, i>> \in G!Change /\ Author(<<k, i>>) = "member"
    BY DEF Uncovered, G!Did, G!Change, Author
  <2>. QED BY <1>1, <2>1 DEF Waiting
<1>3. Cardinality(Waiting(k)') <= Cardinality(Waiting(k)) /\ Cardinality(Waiting(k)') \in Nat
  BY <1>2, UncoveredFinite, FS_Subset, FS_CardinalityType
<1>. QED BY <1>1, <1>3, UncoveredFinite DEF BatchLeft

(* A change nobody has decided on yet, whose event is raised.              *)
LEMMA OneMoreWaits ==
    ASSUME G!GuardAssumption, G!TypeOK, G!TypeOK', BatchLeft, NEW k \in G!Kind, NEW i \in G!Id,
           NEW who \in G!Actor, Author(<<k, i>>) = "nobody", ~Pending(<<k, i>>),
           g_by' = [g_by EXCEPT ![k][i] = who], UNCHANGED <<g_approval, g_given>>,
           \A c \in G!Change : Pending(c)' <=> Pending(c) \/ c = <<k, i>>
    PROVE  BatchLeft' /\ (G!Covered' => G!Covered)
<1>1. \A m \in G!Kind, j \in G!Id : Author(<<m, j>>)' = IF m = k /\ j = i THEN who ELSE Author(<<m, j>>)
  BY DEF Author, G!TypeOK
<1>2. \A m \in G!Kind : G!Did(m) = {j \in G!Id : Author(<<m, j>>) = "member"} BY DEF G!Did, Author
<1>3. \A m \in G!Kind : G!Did(m)' = {j \in G!Id : Author(<<m, j>>)' = "member"} BY DEF G!Did, Author
<1>4. i \notin Uncovered(k) /\ i \notin Waiting(k) BY <1>2 DEF Uncovered, Waiting
<1>5. \A m \in G!Kind, j \in G!Id : <<m, j>> \in G!Change /\ (<<m, j>> = <<k, i>> <=> m = k /\ j = i)
  BY DEF G!Change
<1>6. \A m \in G!Kind : \/ Uncovered(m)' = Uncovered(m) /\ Waiting(m)' = Waiting(m)
                        \/ m = k /\ Uncovered(m)' = Uncovered(m) \cup {i} /\ Waiting(m)' = Waiting(m) \cup {i}
  <2> SUFFICES ASSUME NEW m \in G!Kind
               PROVE  \/ Uncovered(m)' = Uncovered(m) /\ Waiting(m)' = Waiting(m)
                      \/ m = k /\ Uncovered(m)' = Uncovered(m) \cup {i} /\ Waiting(m)' = Waiting(m) \cup {i}
    OBVIOUS
  <2>1. \A j \in G!Id : j \in Uncovered(m) <=> Author(<<m, j>>) = "member" /\ <<m, j>> \notin g_given.exact
    BY <1>2 DEF Uncovered
  <2>2. \A j \in G!Id : j \in Uncovered(m)' <=> Author(<<m, j>>)' = "member" /\ <<m, j>> \notin g_given.exact
    BY <1>3 DEF Uncovered
  <2>3. Uncovered(m) \in SUBSET G!Id /\ Uncovered(m)' \in SUBSET G!Id BY <1>2, <1>3 DEF Uncovered
  <2>4. \A j \in G!Id : j \in Waiting(m) <=> j \in Uncovered(m) /\ Pending(<<m, j>>) BY <2>3 DEF Waiting
  <2>5. \A j \in G!Id : j \in Waiting(m)' <=> j \in Uncovered(m)' /\ Pending(<<m, j>>)'
    BY <2>3 DEF Waiting
  <2>6. Waiting(m) \in SUBSET G!Id /\ Waiting(m)' \in SUBSET G!Id BY <2>3 DEF Waiting
  <2>7. \A j \in G!Id : Pending(<<m, j>>)' <=> Pending(<<m, j>>) \/ (m = k /\ j = i) BY <1>5
  <2>8. CASE m = k /\ who = "member" /\ <<k, i>> \notin g_given.exact
    <3>1. \A j \in G!Id : j \in Uncovered(m)' <=> j \in Uncovered(m) \/ j = i BY <1>1, <2>1, <2>2, <2>8
    <3>2. \A j \in G!Id : j \in Waiting(m)' <=> j \in Waiting(m) \/ j = i BY <2>4, <2>5, <2>7, <2>8, <3>1
    <3>3. Uncovered(m)' = Uncovered(m) \cup {i} BY <2>3, <3>1
    <3>4. Waiting(m)' = Waiting(m) \cup {i} BY <2>6, <3>2
    <3>. QED BY <2>8, <3>3, <3>4
  <2>9. CASE ~(m = k /\ who = "member" /\ <<k, i>> \notin g_given.exact)
    <3>1. \A j \in G!Id : j \in Uncovered(m)' <=> j \in Uncovered(m) BY <1>1, <1>4, <2>1, <2>2, <2>9
    <3>2. \A j \in G!Id : j \in Waiting(m)' <=> j \in Waiting(m) BY <1>4, <2>4, <2>5, <2>7, <3>1
    <3>3. Uncovered(m)' = Uncovered(m) BY <2>3, <3>1
    <3>4. Waiting(m)' = Waiting(m) BY <2>6, <3>2
    <3>. QED BY <3>3, <3>4
  <2>. QED BY <2>8, <2>9
<1>7. \A m \in G!Kind : /\ Cardinality(Uncovered(m)) <= Cardinality(Uncovered(m)')
                        /\ Cardinality(Uncovered(m)') \in Nat
                        /\ g_given'.batch[m] + Cardinality(Waiting(m)')
                             <= g_approval'.batch[m] + Cardinality(Uncovered(m)')
  <2> SUFFICES ASSUME NEW m \in G!Kind
               PROVE  /\ Cardinality(Uncovered(m)) <= Cardinality(Uncovered(m)')
                      /\ Cardinality(Uncovered(m)') \in Nat
                      /\ g_given'.batch[m] + Cardinality(Waiting(m)')
                           <= g_approval'.batch[m] + Cardinality(Uncovered(m)')
    OBVIOUS
  <2>1. CASE Uncovered(m)' = Uncovered(m) /\ Waiting(m)' = Waiting(m) BY <2>1, UncoveredFinite DEF BatchLeft
  <2>2. CASE m = k /\ Uncovered(m)' = Uncovered(m) \cup {i} /\ Waiting(m)' = Waiting(m) \cup {i}
    <3>1. Cardinality(Uncovered(m)') = Cardinality(Uncovered(m)) + 1
      BY <1>4, <2>2, UncoveredFinite, FS_AddElement
    <3>2. Cardinality(Waiting(m)') = Cardinality(Waiting(m)) + 1
      BY <1>4, <2>2, UncoveredFinite, FS_AddElement
    <3>. QED BY <3>1, <3>2, UncoveredFinite DEF BatchLeft
  <2>. QED BY <1>6, <2>1, <2>2
<1>8. BatchLeft' BY <1>7 DEF BatchLeft
<1>9. ASSUME G!Covered' PROVE G!Covered
  <2>1. \A m \in G!Kind : Cardinality(Uncovered(m)') <= g_given'.batch[m]
    <3>1. \A X : G!Cardinality(X) = Cardinality(X) BY DEF G!Cardinality, Cardinality
    <3>. QED BY <1>9, <3>1 DEF G!Covered, Uncovered
  <2>. QED BY <1>7, <2>1, CoveredCounts, UncoveredFinite
<1>. QED BY <1>8, <1>9

(* A step of a handler that has decided, which goes on or is done, or of   *)
(* none: what the others ask is as it was.                                 *)
Follows ==
    \A h \in Task :
      \/ g_handler'[h] = g_handler[h]
      \/ /\ g_handler[h].pc \in {"rollback", "sanction"}
         /\ \/ g_handler'[h].pc = "idle"
            \/ /\ g_handler'[h].pc \in {"rollback", "sanction"}
               /\ g_handler'[h].situation = g_handler[h].situation /\ g_handler'[h].actor = g_handler[h].actor
               /\ g_handler'[h].pc = "sanction" => g_handler[h].situation = "on"

LEMMA FollowsAsks ==
    ASSUME Follows
    PROVE  /\ \A h \in Task, c \in G!Change :
                (Asks(h, c)' <=> Asks(h, c)) /\ (Early(h, c)' <=> Early(h, c))
           /\ \A h \in Task : Blamed(h)' => Blamed(h)
           /\ \A h \in Task : Decides(h)' => g_handler'[h] = g_handler[h] /\ Decides(h)
           /\ KnowsWhom => \A h \in Task : g_handler'[h].pc = "sanction" => g_handler'[h].situation = "on"
BY DEF Follows, Asks, Early, Blamed, Decides, KnowsWhom

LEMMA ApprovalsFollow ==
    ASSUME G!GuardAssumption, G!TypeOK, G!TypeOK', ApprovalsLeft, Follows,
           UNCHANGED <<g_live, g_by, g_events, g_approval, g_given>>
    PROVE  ApprovalsLeft'
<1>1. \A c \in G!Change : Author(c)' = Author(c) BY DEF Author
<1>2. \A c \in G!Change : Pending(c)' <=> Pending(c) BY FollowsAsks DEF Pending
<1>3. DoneOnce' BY DEF ApprovalsLeft, DoneOnce
<1>4. HandledOnce' BY <1>1, <1>2, FollowsAsks DEF ApprovalsLeft, HandledOnce
<1>5. KnowsWhom'
  <2> SUFFICES ASSUME NEW h \in Task
               PROVE  /\ Decides(h)' => /\ g_handler'[h].situation = "on"
                                        /\ g_handler'[h].actor = Author(g_handler'[h].change)
                      /\ g_handler'[h].pc = "batch" /\ g_handler'[h].actor = "member"
                           => g_handler'[h].change \notin g_given'.exact
                      /\ g_handler'[h].pc = "sanction" => g_handler'[h].situation = "on"
    BY DEF KnowsWhom, Author
  <2>1. Decides(h)' => Decides(h) /\ g_handler'[h] = g_handler[h] BY FollowsAsks
  <2>2. g_handler'[h].pc = "batch" => Decides(h)' BY DEF Decides
  <2>3. g_handler'[h].pc = "sanction" => g_handler'[h].situation = "on" BY FollowsAsks DEF ApprovalsLeft
  <2>. QED BY <2>1, <2>2, <2>3 DEF ApprovalsLeft, KnowsWhom
<1>6. ExactLeft'
  <2>1. \A c \in g_given.exact : c \in G!Change BY DEF G!TypeOK, G!Approval
  <2>. QED BY <1>1, <2>1, FollowsAsks DEF ApprovalsLeft, ExactLeft
<1>7. BatchLeft' BY <1>2, FewerWait DEF ApprovalsLeft
<1>8. Spared' BY FollowsAsks DEF ApprovalsLeft, Spared, G!Covered, G!Did
<1>. QED BY <1>3, <1>4, <1>5, <1>6, <1>7, <1>8 DEF ApprovalsLeft

(* A change of the server, by anyone.                                      *)
LEMMA ApprovalsOccur ==
    ASSUME G!GuardAssumption, G!TypeOK, G!TypeOK', ApprovalsLeft, Follows,
           NEW k \in G!Kind, NEW i \in G!Id, NEW who \in G!Actor, G!Occurs(k, i, who),
           (k = "create" /\ G!Fresh(i)) \/ (k = "delete" /\ i \in g_live),
           UNCHANGED <<g_approval, g_given>>
    PROVE  ApprovalsLeft'
<1> DEFINE new == <<k, i>>
<1>0. /\ g_live' = IF k = "create" THEN g_live \cup {i} ELSE g_live \ {i}
      /\ g_by' = [g_by EXCEPT ![k][i] = who] /\ g_events' = g_events \cup {<<k, i>>}
  BY DEF G!Occurs
<1>1. new \in G!Change /\ Author(new) = "nobody"
  <2>1. CASE k = "create" /\ G!Fresh(i)
    <3>1. ~Born(i) BY <2>1, StructureFresh
    <3>. QED BY <2>1, <3>1 DEF Author, Born, G!Change
  <2>2. CASE k = "delete" /\ i \in g_live BY <2>2 DEF ApprovalsLeft, DoneOnce, Author, G!Change
  <2>. QED BY <2>1, <2>2
<1>2. ~Pending(new) BY <1>1 DEF ApprovalsLeft, HandledOnce
<1>3. \A c \in G!Change : Author(c)' = IF c = new THEN who ELSE Author(c)
  <2> SUFFICES ASSUME NEW m \in G!Kind, NEW j \in G!Id
               PROVE  Author(<<m, j>>)' = IF m = k /\ j = i THEN who ELSE Author(<<m, j>>)
    BY DEF G!Change
  <2>. QED BY <1>0 DEF Author, G!TypeOK
<1>4. who # "nobody" BY DEF G!Actor
<1>5. \A c \in G!Change : Pending(c)' <=> Pending(c) \/ c = new BY <1>0, FollowsAsks DEF Pending
<1>6. DoneOnce'
  <2>1. \A j \in G!Id : g_by'["create"][j] = Author(<<"create", j>>)' /\ g_by'["delete"][j] = Author(<<"delete", j>>)'
    BY DEF Author
  <2>2. \A j \in G!Id : g_by["create"][j] = Author(<<"create", j>>) /\ g_by["delete"][j] = Author(<<"delete", j>>)
    BY DEF Author
  <2>3. \A j \in G!Id : <<"create", j>> \in G!Change /\ <<"delete", j>> \in G!Change BY DEF G!Change, G!Kind
  <2>4. CASE k = "create"
    <3>1. \A j \in G!Id : /\ g_by'["delete"][j] = g_by["delete"][j]
                          /\ g_by'["create"][j] = IF j = i THEN who ELSE g_by["create"][j]
      BY <1>3, <2>1, <2>2, <2>3, <2>4
    <3>2. g_by["create"][i] = "nobody" BY <1>1, <2>4 DEF Author
    <3>. QED BY <1>0, <1>4, <2>4, <3>1, <3>2 DEF ApprovalsLeft, DoneOnce
  <2>5. CASE k = "delete"
    <3>1. \A j \in G!Id : /\ g_by'["create"][j] = g_by["create"][j]
                          /\ g_by'["delete"][j] = IF j = i THEN who ELSE g_by["delete"][j]
      BY <1>3, <2>1, <2>2, <2>3, <2>5
    <3>2. i \in g_live BY <2>5
    <3>. QED BY <1>0, <1>4, <2>5, <3>1, <3>2 DEF ApprovalsLeft, DoneOnce
  <2>. QED BY <2>4, <2>5 DEF G!Kind
<1>7. HandledOnce'
  <2> SUFFICES ASSUME NEW c \in G!Change
               PROVE  /\ Pending(c)' => Author(c)' # "nobody"
                      /\ c \in g_events' => \A h \in Task : ~Asks(h, c)'
                      /\ \A g, h \in Task : Asks(g, c)' /\ Asks(h, c)' => g = h
    BY DEF HandledOnce
  <2>1. Pending(c)' => Author(c)' # "nobody" BY <1>3, <1>4, <1>5 DEF ApprovalsLeft, HandledOnce
  <2>2. c \in g_events' => \A h \in Task : ~Asks(h, c)'
    BY <1>0, <1>2, FollowsAsks DEF ApprovalsLeft, HandledOnce, Pending
  <2>3. \A g, h \in Task : Asks(g, c)' /\ Asks(h, c)' => g = h BY FollowsAsks DEF ApprovalsLeft, HandledOnce
  <2>. QED BY <2>1, <2>2, <2>3
<1>8. KnowsWhom'
  <2> SUFFICES ASSUME NEW h \in Task
               PROVE  /\ Decides(h)' => /\ g_handler'[h].situation = "on"
                                        /\ g_handler'[h].actor = Author(g_handler[h].change)'
                                        /\ g_handler'[h] = g_handler[h]
                      /\ g_handler'[h].pc = "batch" /\ g_handler'[h].actor = "member"
                           => g_handler'[h].change \notin g_given'.exact
                      /\ g_handler'[h].pc = "sanction" => g_handler'[h].situation = "on"
    BY DEF KnowsWhom, Author
  <2>1. ASSUME Decides(h)' PROVE /\ g_handler'[h] = g_handler[h] /\ Decides(h)
                                 /\ Author(g_handler[h].change)' = Author(g_handler[h].change)
    <3>1. g_handler'[h] = g_handler[h] /\ Decides(h) BY <2>1, FollowsAsks
    <3>2. g_handler[h].change \in G!Change BY DEF G!TypeOK
    <3>3. Pending(g_handler[h].change) BY <3>1 DEF Pending, Asks, Decides
    <3>. QED BY <1>2, <1>3, <3>1, <3>2, <3>3
  <2>2. g_handler'[h].pc = "batch" => Decides(h)' BY DEF Decides
  <2>3. g_handler'[h].pc = "sanction" => g_handler'[h].situation = "on" BY FollowsAsks DEF ApprovalsLeft
  <2>. QED BY <2>1, <2>2, <2>3 DEF ApprovalsLeft, KnowsWhom
<1>9. ExactLeft'
  <2> SUFFICES ASSUME NEW c \in g_given.exact,
                      Author(c)' = "nobody" \/ c \in g_events' \/ (\E h \in Task : Early(h, c)')
               PROVE  c \in g_approval.exact
    BY DEF ExactLeft
  <2>1. c \in G!Change BY DEF G!TypeOK, G!Approval
  <2>2. Author(c) = "nobody" \/ c \in g_events \/ (\E h \in Task : Early(h, c))
    BY <1>0, <1>1, <1>3, <1>4, <2>1, FollowsAsks
  <2>. QED BY <2>2 DEF ApprovalsLeft, ExactLeft
<1>10. BatchLeft' /\ (G!Covered' => G!Covered)
  BY <1>0, <1>1, <1>2, <1>5, OneMoreWaits DEF ApprovalsLeft
<1>11. Spared' BY <1>10, FollowsAsks DEF ApprovalsLeft, Spared
<1>. QED BY <1>6, <1>7, <1>8, <1>9, <1>10, <1>11 DEF ApprovalsLeft

(* A step of a handler that decides on a change, or comes nearer to it.    *)
LEMMA ApprovalsDecide ==
    ASSUME G!GuardAssumption, G!TypeOK, G!TypeOK', ApprovalsLeft, NEW h \in Task, NEW c \in G!Change, Asks(h, c),
           \A g \in Task \ {h} : g_handler'[g] = g_handler[g], UNCHANGED <<g_live, g_by, g_events, g_given>>,
           \/ g_handler'[h].pc \in {"idle", "rollback"}
           \/ g_handler'[h].pc \in {"find", "exact", "batch", "signal"} /\ g_handler'[h].change = c,
           Early(h, c)' => Early(h, c),
           Decides(h)' => g_handler'[h].situation = "on" /\ g_handler'[h].actor = Author(c),
           g_handler'[h].pc = "batch" /\ g_handler'[h].actor = "member" => c \notin g_given.exact,
           Blamed(h)' => ~G!Covered,
           \/ g_approval'.exact = g_approval.exact
           \/ ~Asks(h, c)' /\ g_approval'.exact = g_approval.exact \ {c},
           BatchLeft'
    PROVE  ApprovalsLeft'
<1>1. \A d \in G!Change : Author(d)' = Author(d) BY DEF Author
<1>2. \A g \in Task, d \in G!Change : (Asks(g, d)' => Asks(g, d)) /\ (Early(g, d)' => Early(g, d))
  <2> SUFFICES ASSUME NEW g \in Task, NEW d \in G!Change
               PROVE  (Asks(g, d)' => Asks(g, d)) /\ (Early(g, d)' => Early(g, d))
    OBVIOUS
  <2>1. CASE g = h BY <2>1 DEF Asks, Early
  <2>2. CASE g # h BY <2>2 DEF Asks, Early
  <2>. QED BY <2>1, <2>2
<1>3. \A d \in G!Change : Pending(d)' => Pending(d) BY <1>2 DEF Pending
<1>4. DoneOnce' BY DEF ApprovalsLeft, DoneOnce
<1>5. HandledOnce' BY <1>1, <1>2, <1>3 DEF ApprovalsLeft, HandledOnce
<1>6. KnowsWhom'
  <2> SUFFICES ASSUME NEW g \in Task
               PROVE  /\ Decides(g)' => /\ g_handler'[g].situation = "on"
                                        /\ g_handler'[g].actor = Author(g_handler'[g].change)
                      /\ g_handler'[g].pc = "batch" /\ g_handler'[g].actor = "member"
                           => g_handler'[g].change \notin g_given'.exact
                      /\ g_handler'[g].pc = "sanction" => g_handler'[g].situation = "on"
    BY DEF KnowsWhom, Author
  <2>1. CASE g = h
    <3>1. Decides(g)' => g_handler'[g].change = c BY <2>1 DEF Decides
    <3>2. g_handler'[g].pc = "batch" => g_handler'[g].change = c BY <2>1
    <3>. QED BY <2>1, <3>1, <3>2
  <2>2. CASE g # h BY <2>2 DEF ApprovalsLeft, KnowsWhom, Decides
  <2>. QED BY <2>1, <2>2
<1>7. ExactLeft'
  <2> SUFFICES ASSUME NEW d \in g_given.exact,
                      Author(d)' = "nobody" \/ d \in g_events' \/ (\E g \in Task : Early(g, d)')
               PROVE  d \in g_approval'.exact
    BY DEF ExactLeft
  <2>1. d \in G!Change BY DEF G!TypeOK, G!Approval
  <2>2. d \in g_approval.exact BY <1>1, <1>2, <2>1 DEF ApprovalsLeft, ExactLeft
  <2>3. ASSUME d = c, ~Asks(h, c)' PROVE FALSE
    <3>1. Author(c) # "nobody" /\ c \notin g_events BY DEF ApprovalsLeft, HandledOnce, Pending
    <3>2. PICK g \in Task : Early(g, c)' BY <1>1, <2>1, <2>3, <3>1
    <3>3. Asks(g, c) BY <1>2, <3>2 DEF Early, Asks
    <3>4. g = h BY <3>3 DEF ApprovalsLeft, HandledOnce
    <3>. QED BY <2>3, <3>2, <3>4 DEF Early, Asks
  <2>. QED BY <2>2, <2>3
<1>8. Spared'
  <2>1. ASSUME NEW g \in Task, Blamed(g)' PROVE ~G!Covered
    <3>1. CASE g = h BY <2>1, <3>1
    <3>2. CASE g # h BY <2>1, <3>2 DEF Blamed, ApprovalsLeft, Spared
    <3>. QED BY <3>1, <3>2
  <2>. QED BY <2>1 DEF Spared, G!Covered, G!Did
<1>. QED BY <1>4, <1>5, <1>6, <1>7, <1>8 DEF ApprovalsLeft

(* A handler takes an event: the change asks where it was to come.         *)
LEMMA ApprovalsEvent ==
    ASSUME G!GuardAssumption, G!TypeOK, G!TypeOK', ApprovalsLeft, NEW h \in Task, G!StructureEvent(h)
    PROVE  ApprovalsLeft'
<1>1. PICK e \in g_events : /\ g_events' = g_events \ {e} /\ G!At(h, "idle")
                            /\ G!Put(h, [G!Idle EXCEPT !.pc = "gate", !.change = e])
  BY DEF G!StructureEvent
<1>2. UNCHANGED <<g_live, g_by, g_copyOf, g_approval, g_given, g_changes, g_faults>> BY DEF G!StructureEvent
<1>3. e \in G!Change BY <1>1 DEF G!TypeOK
<1>4. /\ g_handler'[h] = [G!Idle EXCEPT !.pc = "gate", !.change = e]
      /\ \A g \in Task \ {h} : g_handler'[g] = g_handler[g]
  BY <1>1 DEF G!Put, G!TypeOK
<1>5. g_handler'[h].pc = "gate" /\ g_handler'[h].change = e BY <1>4 DEF G!Idle
<1>6. \A c \in G!Change : Author(c)' = Author(c) BY <1>2 DEF Author
<1>7. \A g \in Task, c \in G!Change :
        /\ Asks(g, c)' <=> Asks(g, c) \/ (g = h /\ c = e)
        /\ Early(g, c)' <=> Early(g, c) \/ (g = h /\ c = e)
  <2> SUFFICES ASSUME NEW g \in Task, NEW c \in G!Change
               PROVE  /\ Asks(g, c)' <=> Asks(g, c) \/ (g = h /\ c = e)
                      /\ Early(g, c)' <=> Early(g, c) \/ (g = h /\ c = e)
    OBVIOUS
  <2>1. CASE g = h BY <1>1, <1>5, <2>1 DEF Asks, Early, G!At
  <2>2. CASE g # h BY <1>4, <2>2 DEF Asks, Early
  <2>. QED BY <2>1, <2>2
<1>8. \A c \in G!Change : Pending(c)' <=> Pending(c) BY <1>1, <1>7 DEF Pending
<1>9. \A g \in Task : ~Asks(g, e) BY <1>1, <1>3 DEF ApprovalsLeft, HandledOnce
<1>10. DoneOnce' BY <1>2 DEF ApprovalsLeft, DoneOnce
<1>11. HandledOnce'
  <2> SUFFICES ASSUME NEW c \in G!Change
               PROVE  /\ Pending(c)' => Author(c)' # "nobody"
                      /\ c \in g_events' => \A g \in Task : ~Asks(g, c)'
                      /\ \A f, g \in Task : Asks(f, c)' /\ Asks(g, c)' => f = g
    BY DEF HandledOnce
  <2>1. CASE c = e BY <1>1, <1>6, <1>7, <1>8, <1>9, <2>1 DEF ApprovalsLeft, HandledOnce
  <2>2. CASE c # e BY <1>1, <1>6, <1>7, <1>8, <2>2 DEF ApprovalsLeft, HandledOnce
  <2>. QED BY <2>1, <2>2
<1>12. KnowsWhom'
  <2> SUFFICES ASSUME NEW g \in Task
               PROVE  /\ Decides(g)' => /\ g_handler'[g].situation = "on"
                                        /\ g_handler'[g].actor = Author(g_handler'[g].change)
                      /\ g_handler'[g].pc = "batch" /\ g_handler'[g].actor = "member"
                           => g_handler'[g].change \notin g_given'.exact
                      /\ g_handler'[g].pc = "sanction" => g_handler'[g].situation = "on"
    BY <1>2 DEF KnowsWhom, Author
  <2>1. CASE g = h BY <1>5, <2>1 DEF Decides
  <2>2. CASE g # h BY <1>2, <1>4, <2>2 DEF ApprovalsLeft, KnowsWhom, Decides
  <2>. QED BY <2>1, <2>2
<1>13. ExactLeft'
  <2>1. \A c \in g_given.exact : c \in G!Change BY DEF G!TypeOK, G!Approval
  <2>. QED BY <1>1, <1>2, <1>6, <1>7, <2>1 DEF ApprovalsLeft, ExactLeft
<1>14. BatchLeft' BY <1>2, <1>8, FewerWait DEF ApprovalsLeft
<1>15. Spared'
  <2>1. \A g \in Task : Blamed(g)' => Blamed(g) BY <1>4, <1>5 DEF Blamed
  <2>. QED BY <1>2, <2>1 DEF ApprovalsLeft, Spared, G!Covered, G!Did
<1>. QED BY <1>10, <1>11, <1>12, <1>13, <1>14, <1>15 DEF ApprovalsLeft

(* What a handler at work asks about, and a step of it.                    *)
LEMMA ApprovalsAsking ==
    ASSUME G!GuardAssumption, G!TypeOK, NEW h \in Task,
           g_handler[h].pc \in {"gate", "find", "exact", "batch", "signal"}
    PROVE  /\ <<G!KindOf(h), G!IdOf(h)>> \in G!Change /\ G!KindOf(h) \in G!Kind /\ G!IdOf(h) \in G!Id
           /\ g_handler[h].change = <<G!KindOf(h), G!IdOf(h)>> /\ Asks(h, <<G!KindOf(h), G!IdOf(h)>>)
           /\ Author(<<G!KindOf(h), G!IdOf(h)>>) = g_by[G!KindOf(h)][G!IdOf(h)]
<1>1. /\ g_handler[h].change = <<G!KindOf(h), G!IdOf(h)>> /\ G!KindOf(h) \in G!Kind /\ G!IdOf(h) \in G!Id
  BY StructureMoveTypes
<1>. QED BY <1>1 DEF G!Change, Asks, Author

LEMMA NoFault == ASSUME G!Fault, g_faults = 0, g_faults' = 0 PROVE FALSE
BY DEF G!Fault

LEMMA ApprovalsRead ==
    ASSUME G!GuardAssumption, G!TypeOK, G!TypeOK', ApprovalsLeft, NEW h \in Task, G!ReadSituation(h)
    PROVE  ApprovalsLeft'
<1> DEFINE c == <<G!KindOf(h), G!IdOf(h)>>
<1>0. G!At(h, "gate") /\ UNCHANGED <<g_live, g_by, g_events, g_approval, g_given>> BY DEF G!ReadSituation
<1>1. c \in G!Change /\ g_handler[h].change = c /\ Asks(h, c) BY <1>0, ApprovalsAsking DEF G!At
<1>2. PICK s \in {"off", "on", "raid"} : G!Put(h, [g_handler[h] EXCEPT !.pc = "find", !.situation = s])
  BY DEF G!ReadSituation
<1>3. /\ g_handler'[h] = [g_handler[h] EXCEPT !.pc = "find", !.situation = s]
      /\ \A g \in Task \ {h} : g_handler'[g] = g_handler[g]
  BY <1>2 DEF G!Put, G!TypeOK
<1>4. g_handler'[h].pc = "find" /\ g_handler'[h].change = c
  <2>1. g_handler[h] \in GTask BY StructureMoveTypes
  <2>. QED BY <1>1, <1>3, <2>1 DEF GTask
<1>5. \A d \in G!Change : Asks(h, d)' => Asks(h, d) BY <1>1, <1>4 DEF Asks
<1>6. BatchLeft'
  <2>1. \A d \in G!Change : Pending(d)' => Pending(d)
    <3>1. \A g \in Task, d \in G!Change : Asks(g, d)' => Asks(g, d) BY <1>3, <1>5 DEF Asks
    <3>. QED BY <1>0, <3>1 DEF Pending
  <2>. QED BY <1>0, <2>1, FewerWait DEF ApprovalsLeft
<1>7. Early(h, c) BY <1>0, <1>1 DEF Early, G!At
<1>8. ~Decides(h)' /\ ~Blamed(h)' BY <1>4 DEF Decides, Blamed
<1>. QED
  <2> HIDE DEF c
  <2>. QED BY <1>0, <1>1, <1>3, <1>4, <1>6, <1>7, <1>8, ApprovalsDecide

(* Where a step of a handler leads that is not to another handler's.       *)
LEMMA ApprovalsMove ==
    ASSUME G!TypeOK, NEW h \in Task, NEW pc \in GPlace, G!Move(h, pc)
    PROVE  /\ \A g \in Task \ {h} : g_handler'[g] = g_handler[g]
           /\ g_handler'[h].pc = pc /\ g_handler'[h].change = g_handler[h].change
           /\ g_handler'[h].situation = g_handler[h].situation /\ g_handler'[h].actor = g_handler[h].actor
BY DEF G!Move, G!Put, G!TypeOK

LEMMA ApprovalsEnd ==
    ASSUME G!TypeOK, NEW h \in Task, G!End(h)
    PROVE  (\A g \in Task \ {h} : g_handler'[g] = g_handler[g]) /\ g_handler'[h].pc = "idle"
BY DEF G!End, G!Put, G!TypeOK, G!Idle

(* A handler that is done with its change: nothing waits that did not.     *)
LEMMA ApprovalsNoneNew ==
    ASSUME NEW h \in Task, \A g \in Task \ {h} : g_handler'[g] = g_handler[g], UNCHANGED g_events,
           \/ g_handler'[h].pc \notin {"gate", "find", "exact", "batch", "signal"}
           \/ /\ g_handler[h].pc \in {"gate", "find", "exact", "batch", "signal"}
              /\ g_handler'[h].change = g_handler[h].change
    PROVE  \A d : Pending(d)' => Pending(d)
<1>1. \A g \in Task : \A d : Asks(g, d)' => Asks(g, d)
  <2>1. \A d : Asks(h, d)' => Asks(h, d) BY DEF Asks
  <2>2. \A g \in Task \ {h} : \A d : Asks(g, d)' => Asks(g, d) BY DEF Asks
  <2>. QED BY <2>1, <2>2
<1>. QED BY <1>1 DEF Pending

(* The owner's changes are left alone; others are known to be whose.       *)
LEMMA ApprovalsFind ==
    ASSUME G!GuardAssumption, G!TypeOK, G!TypeOK', ApprovalsLeft, NEW h \in Task, G!FindActor(h),
           g_faults = 0, g_faults' = 0
    PROVE  ApprovalsLeft'
<1> DEFINE c == <<G!KindOf(h), G!IdOf(h)>>
<1>0. G!At(h, "find") /\ UNCHANGED <<g_live, g_by, g_events, g_approval, g_given>> BY DEF G!FindActor
<1>1. c \in G!Change /\ g_handler[h].change = c /\ Asks(h, c) /\ Author(c) = g_by[G!KindOf(h)][G!IdOf(h)]
  BY <1>0, ApprovalsAsking DEF G!At
<1>2. Early(h, c) BY <1>0, <1>1 DEF Early, G!At
<1>3. CASE G!End(h)
  <2>1. (\A g \in Task \ {h} : g_handler'[g] = g_handler[g]) /\ g_handler'[h].pc = "idle" BY <1>3, ApprovalsEnd
  <2>2. BatchLeft' BY <1>0, <2>1, ApprovalsNoneNew, FewerWait DEF ApprovalsLeft
  <2>3. ~Decides(h)' /\ ~Blamed(h)' BY <2>1 DEF Decides, Blamed
  <2> HIDE DEF c
  <2>. QED BY <1>0, <1>1, <1>2, <2>1, <2>2, <2>3, ApprovalsDecide
<1>4. CASE G!Put(h, [g_handler[h] EXCEPT !.actor = g_by[G!KindOf(h)][G!IdOf(h)],
                       !.pc = IF g_handler[h].situation = "on" THEN "exact" ELSE "signal"])
  <2>1. \A g \in Task \ {h} : g_handler'[g] = g_handler[g] BY <1>4 DEF G!Put, G!TypeOK
  <2>2. /\ g_handler'[h].pc = IF g_handler[h].situation = "on" THEN "exact" ELSE "signal"
        /\ g_handler'[h].change = c /\ g_handler'[h].situation = g_handler[h].situation
        /\ g_handler'[h].actor = Author(c)
    BY <1>1, <1>4 DEF G!Put, G!TypeOK
  <2>3. BatchLeft'
    <3>1. \A d : Pending(d)' => Pending(d) BY <1>0, <1>1, <2>1, <2>2, ApprovalsNoneNew DEF G!At
    <3>. QED BY <1>0, <3>1, FewerWait DEF ApprovalsLeft
  <2>4. ~Blamed(h)' BY <2>2 DEF Blamed
  <2>5. Decides(h)' => g_handler'[h].situation = "on" /\ g_handler'[h].actor = Author(c) BY <2>2 DEF Decides
  <2>6. g_handler'[h].pc \in {"exact", "signal"} BY <2>2
  <2> HIDE DEF c
  <2>. QED BY <1>0, <1>1, <1>2, <2>1, <2>2, <2>3, <2>4, <2>5, <2>6, ApprovalsDecide
<1>. QED BY <1>3, <1>4, NoFault DEF G!FindActor

(* The approval for this resource is used, or there was none.              *)
LEMMA ApprovalsExact ==
    ASSUME G!GuardAssumption, G!TypeOK, G!TypeOK', ApprovalsLeft, NEW h \in Task, G!ConsumeExact(h),
           g_faults = 0, g_faults' = 0
    PROVE  ApprovalsLeft'
<1>0. G!At(h, "exact") /\ UNCHANGED <<g_live, g_by, g_events, g_given>> BY DEF G!ConsumeExact
<1>1. PICK c \in G!Change : g_handler[h].change = c /\ Asks(h, c) BY <1>0, ApprovalsAsking DEF G!At
<1>2. Early(h, c) /\ g_handler[h].situation = "on" /\ g_handler[h].actor = Author(c)
  BY <1>0, <1>1 DEF Early, G!At, ApprovalsLeft, KnowsWhom, Decides
<1>3. CASE G!End(h) /\ g_approval' = [g_approval EXCEPT !.exact = @ \ {g_handler[h].change}]
  <2>1. (\A g \in Task \ {h} : g_handler'[g] = g_handler[g]) /\ g_handler'[h].pc = "idle" BY <1>3, ApprovalsEnd
  <2>2. g_approval'.exact = g_approval.exact \ {c} /\ g_approval'.batch = g_approval.batch
    BY <1>1, <1>3 DEF G!TypeOK, G!Approval
  <2>3. BatchLeft' BY <1>0, <2>1, <2>2, ApprovalsNoneNew, FewerWait DEF ApprovalsLeft
  <2>4. ~Decides(h)' /\ ~Blamed(h)' /\ ~Asks(h, c)' BY <2>1 DEF Decides, Blamed, Asks
  <2>. QED BY <1>0, <1>1, <1>2, <2>1, <2>2, <2>3, <2>4, ApprovalsDecide
<1>4. CASE /\ g_handler[h].actor = "member" => g_handler[h].change \notin g_approval.exact
           /\ G!Move(h, "batch") /\ UNCHANGED g_approval
  <2>1. /\ \A g \in Task \ {h} : g_handler'[g] = g_handler[g]
        /\ g_handler'[h].pc = "batch" /\ g_handler'[h].change = c
        /\ g_handler'[h].situation = g_handler[h].situation /\ g_handler'[h].actor = g_handler[h].actor
    BY <1>1, <1>4, ApprovalsMove DEF GPlace
  <2>2. BatchLeft'
    <3>1. \A d : Pending(d)' => Pending(d) BY <1>0, <1>1, <2>1, ApprovalsNoneNew DEF G!At
    <3>. QED BY <1>0, <1>4, <3>1, FewerWait DEF ApprovalsLeft
  <2>3. g_handler[h].actor = "member" => c \notin g_given.exact
    BY <1>1, <1>2, <1>4 DEF ApprovalsLeft, ExactLeft
  <2>4. ~Blamed(h)' BY <2>1 DEF Blamed
  <2>. QED BY <1>0, <1>1, <1>2, <1>4, <2>1, <2>2, <2>3, <2>4, ApprovalsDecide
<1>. QED BY <1>3, <1>4, NoFault DEF G!ConsumeExact

(* The approval for a number is used, which stands for one change that     *)
(* waited; where none is left, the changes are more than were approved.    *)
LEMMA ApprovalsBatch ==
    ASSUME G!GuardAssumption, G!TypeOK, G!TypeOK', ApprovalsLeft, NEW h \in Task, G!ConsumeBatch(h),
           g_faults = 0, g_faults' = 0
    PROVE  ApprovalsLeft'
<1>0. G!At(h, "batch") /\ UNCHANGED <<g_live, g_by, g_events, g_given>> BY DEF G!ConsumeBatch
<1> PICK k \in G!Kind, i \in G!Id : k = G!KindOf(h) /\ i = G!IdOf(h) BY <1>0, ApprovalsAsking DEF G!At
<1> DEFINE c == <<k, i>>
<1>1. c \in G!Change /\ g_handler[h].change = c /\ Asks(h, c) /\ Author(c) = g_by[k][i]
  BY <1>0, ApprovalsAsking DEF G!At
<1>2. /\ g_handler[h].situation = "on" /\ g_handler[h].actor = Author(c)
      /\ g_handler[h].actor = "member" => c \notin g_given.exact
  BY <1>0, <1>1 DEF G!At, ApprovalsLeft, KnowsWhom, Decides
<1>3. g_handler[h].actor = "member" => i \in Uncovered(k) /\ i \in Waiting(k)
  BY <1>1, <1>2 DEF Uncovered, Waiting, G!Did, Pending
<1>4. CASE /\ g_handler[h].actor = "member" /\ g_approval.batch[k] > 0 /\ G!End(h)
           /\ g_approval' = [g_approval EXCEPT !.batch[k] = @ - 1]
  <2>1. (\A g \in Task \ {h} : g_handler'[g] = g_handler[g]) /\ g_handler'[h].pc = "idle" BY <1>4, ApprovalsEnd
  <2>2. /\ g_approval'.exact = g_approval.exact /\ g_approval'.batch[k] = g_approval.batch[k] - 1
        /\ \A m \in G!Kind \ {k} : g_approval'.batch[m] = g_approval.batch[m]
    BY <1>1, <1>4 DEF G!TypeOK, G!Approval
  <2>3. \A d : Pending(d)' => Pending(d) BY <1>0, <2>1, ApprovalsNoneNew
  <2>4. ~Pending(c)'
    <3>1. c \notin g_events /\ \A g \in Task : Asks(g, c) => g = h BY <1>1 DEF ApprovalsLeft, HandledOnce
    <3>2. \A g \in Task : ~Asks(g, c)' BY <2>1, <3>1 DEF Asks
    <3>. QED BY <1>0, <3>1, <3>2 DEF Pending
  <2>5. \A m \in G!Kind : Uncovered(m)' = Uncovered(m) /\ Waiting(m)' \in SUBSET Waiting(m)
    BY <1>0, <2>3 DEF Uncovered, Waiting, G!Did
  <2>6. \A m \in G!Kind : Cardinality(Waiting(m)') <= Cardinality(Waiting(m)) /\ Cardinality(Waiting(m)') \in Nat
    BY <2>5, UncoveredFinite, FS_Subset, FS_CardinalityType
  <2>7. Cardinality(Waiting(k)') <= Cardinality(Waiting(k)) - 1
    <3>1. i \notin Waiting(k)' BY <2>4 DEF Waiting
    <3>2. Waiting(k)' \in SUBSET (Waiting(k) \ {i}) BY <1>1, <2>5, <3>1
    <3>3. /\ IsFiniteSet(Waiting(k) \ {i})
          /\ Cardinality(Waiting(k) \ {i}) = Cardinality(Waiting(k)) - 1
      BY <1>1, <1>3, <1>4, UncoveredFinite, FS_RemoveElement
    <3>. QED BY <3>2, <3>3, FS_Subset
  <2>8. BatchLeft'
    <3> SUFFICES ASSUME NEW m \in G!Kind
                 PROVE  g_given'.batch[m] + Cardinality(Waiting(m)')
                          <= g_approval'.batch[m] + Cardinality(Uncovered(m)')
      BY DEF BatchLeft
    <3>1. g_given.batch[m] + Cardinality(Waiting(m)) <= g_approval.batch[m] + Cardinality(Uncovered(m))
      BY DEF ApprovalsLeft, BatchLeft
    <3>2. CASE m = k BY <1>0, <2>2, <2>5, <2>6, <2>7, <3>1, <3>2, UncoveredFinite
    <3>3. CASE m # k BY <1>0, <2>2, <2>5, <2>6, <3>1, <3>3, UncoveredFinite
    <3>. QED BY <3>2, <3>3
  <2>9. ~Decides(h)' /\ ~Blamed(h)' /\ ~Asks(h, c)' /\ ~Early(h, c)'
    BY <2>1 DEF Decides, Blamed, Asks, Early
  <2>. QED BY <1>0, <1>1, <2>1, <2>2, <2>8, <2>9, ApprovalsDecide
<1>5. CASE /\ g_handler[h].actor = "member" => g_approval.batch[k] = 0
           /\ G!Move(h, "signal") /\ UNCHANGED g_approval
  <2>1. /\ \A g \in Task \ {h} : g_handler'[g] = g_handler[g]
        /\ g_handler'[h].pc = "signal" /\ g_handler'[h].change = c
        /\ g_handler'[h].situation = g_handler[h].situation /\ g_handler'[h].actor = g_handler[h].actor
    BY <1>1, <1>5, ApprovalsMove DEF GPlace
  <2>2. BatchLeft' BY <1>0, <1>1, <1>5, <2>1, ApprovalsNoneNew, FewerWait DEF ApprovalsLeft, G!At
  <2>3. ASSUME g_handler[h].actor = "member" PROVE ~G!Covered
    <3>1. g_given.batch[k] + Cardinality(Waiting(k)) <= Cardinality(Uncovered(k))
      BY <1>1, <1>5, <2>3, UncoveredFinite DEF ApprovalsLeft, BatchLeft
    <3>2. Cardinality(Waiting(k)) > 0
      <4>1. Waiting(k) # {} BY <1>3, <2>3
      <4>. QED BY <1>1, <4>1, UncoveredFinite, FS_EmptySet
    <3>. QED BY <1>1, <3>1, <3>2, UncoveredFinite, CoveredCounts
  <2>4. Blamed(h)' => ~G!Covered BY <2>1, <2>3 DEF Blamed
  <2>5. ~Decides(h)' /\ ~Early(h, c)' BY <2>1 DEF Decides, Early
  <2>. QED BY <1>0, <1>1, <1>5, <2>1, <2>2, <2>4, <2>5, ApprovalsDecide
<1>. QED BY <1>4, <1>5, NoFault DEF G!ConsumeBatch

-----------------------------------------------------------------------------
LEMMA ApprovalsInit == ASSUME G!GuardAssumption, G!Init PROVE ApprovalsLeft
<1>0. G!TypeOK BY StructureInit DEF StructureInv
<1>1. g_live \in SUBSET G!Id BY <1>0 DEF G!TypeOK
<1>2. \A h \in Task : g_handler[h].pc = "idle" BY DEF G!Init, G!Idle
<1>3. \A c : ~Pending(c) BY <1>2 DEF G!Init, Pending, Asks
<1>4. \A i \in G!Id : g_by["delete"][i] = "nobody" /\ (i \in g_live => g_by["create"][i] # "nobody")
  BY DEF G!Init, G!Kind
<1>5. DoneOnce BY <1>4 DEF DoneOnce
<1>6. HandledOnce BY <1>3 DEF HandledOnce, Pending
<1>7. KnowsWhom BY <1>2 DEF KnowsWhom, Decides
<1>8. ExactLeft BY DEF G!Init, ExactLeft
<1>9. BatchLeft
  <2> SUFFICES ASSUME NEW k \in G!Kind
               PROVE  g_given.batch[k] + Cardinality(Waiting(k)) <= g_approval.batch[k] + Cardinality(Uncovered(k))
    BY DEF BatchLeft
  <2>1. g_given.batch[k] = g_approval.batch[k] BY DEF G!Init
  <2>2. Waiting(k) = {} BY <1>3 DEF Waiting
  <2>. QED BY <1>0, <2>1, <2>2, UncoveredFinite, FS_EmptySet
<1>10. Spared BY <1>2 DEF Spared, Blamed
<1>. QED BY <1>5, <1>6, <1>7, <1>8, <1>9, <1>10 DEF ApprovalsLeft

(* What undoes a change, signals it or sanctions its author decides on     *)
(* nothing.                                                                *)
LEMMA FollowsSteps ==
    ASSUME G!TypeOK, NEW h \in Task,
           (G!At(h, "rollback") /\ G!Undone(h)) \/ G!Sanction(h)
    PROVE  Follows
<1>1. g_handler[h].pc \in {"rollback", "sanction"} BY DEF G!Sanction, G!At
<1>2. G!End(h) \/ (G!Move(h, "sanction") /\ g_handler[h].situation = "on") BY DEF G!Sanction, G!Undone
<1>3. CASE G!End(h) BY <1>1, <1>3, ApprovalsEnd DEF Follows
<1>4. CASE G!Move(h, "sanction") /\ g_handler[h].situation = "on"
  <2>1. "sanction" \in GPlace BY DEF GPlace
  <2>. QED BY <1>1, <1>4, <2>1, ApprovalsMove DEF Follows
<1>. QED BY <1>2, <1>3, <1>4

(* The detector uses the approval for this change, which nobody asks for   *)
(* any more.                                                               *)
LEMMA ApprovalsSignal ==
    ASSUME G!GuardAssumption, G!TypeOK, G!TypeOK', ApprovalsLeft, NEW h \in Task, G!SignalAntiRaid(h)
    PROVE  ApprovalsLeft'
<1>0. G!At(h, "signal") /\ UNCHANGED <<g_live, g_by, g_events, g_given>> BY DEF G!SignalAntiRaid
<1>1. PICK c \in G!Change : g_handler[h].change = c /\ Asks(h, c) BY <1>0, ApprovalsAsking DEF G!At
<1>2. /\ \A g \in Task \ {h} : g_handler'[g] = g_handler[g]
      /\ g_handler'[h].pc \in {"idle", "rollback"}
      /\ g_handler'[h].pc = "rollback" => /\ g_handler'[h].situation = g_handler[h].situation
                                         /\ g_handler'[h].actor = g_handler[h].actor
  <2>1. "rollback" \in GPlace /\ (G!End(h) \/ G!Move(h, "rollback")) BY DEF G!SignalAntiRaid, GPlace
  <2>. QED BY <2>1, ApprovalsEnd, ApprovalsMove
<1>3. /\ g_approval'.batch = g_approval.batch
      /\ g_approval'.exact = g_approval.exact \/ g_approval'.exact = g_approval.exact \ {c}
  BY <1>1 DEF G!SignalAntiRaid, G!TypeOK, G!Approval
<1>4. BatchLeft' BY <1>0, <1>2, <1>3, ApprovalsNoneNew, FewerWait DEF ApprovalsLeft
<1>5. ~Decides(h)' /\ ~Asks(h, c)' /\ ~Early(h, c)' BY <1>2 DEF Decides, Asks, Early
<1>6. Blamed(h)' => ~G!Covered BY <1>0, <1>2 DEF Blamed, G!At, ApprovalsLeft, Spared
<1>. QED BY <1>0, <1>1, <1>2, <1>3, <1>4, <1>5, <1>6, ApprovalsDecide

LEMMA ApprovalsNext ==
    ASSUME G!GuardAssumption, G!TypeOK, G!TypeOK', ApprovalsLeft, [G!Next]_(G!vars), g_faults = 0, g_faults' = 0
    PROVE  ApprovalsLeft'
<1>1. ASSUME NEW who \in {"owner", "member"}, G!Changed(who) PROVE ApprovalsLeft'
  <2>1. PICK i \in G!Id : \/ G!Fresh(i) /\ G!Occurs("create", i, who)
                          \/ i \in g_live /\ G!Occurs("delete", i, who)
    BY <1>1 DEF G!Changed
  <2>2. UNCHANGED <<g_approval, g_given, g_handler>> BY <1>1 DEF G!Changed
  <2>3. who \in G!Actor /\ Follows /\ "create" \in G!Kind /\ "delete" \in G!Kind
    BY <2>2 DEF G!Actor, Follows, G!Kind
  <2>. QED BY <2>1, <2>2, <2>3, ApprovalsOccur
<1>2. ASSUME NEW h \in Task, G!Sanction(h) PROVE ApprovalsLeft'
  <2>1. UNCHANGED <<g_live, g_by, g_events, g_approval, g_given>> BY <1>2 DEF G!Sanction
  <2>. QED BY <1>2, <2>1, FollowsSteps, ApprovalsFollow
<1>3. ASSUME NEW h \in Task, G!RemoveCreated(h) PROVE ApprovalsLeft'
  <2>1. Follows /\ UNCHANGED <<g_approval, g_given>> BY <1>3, FollowsSteps DEF G!RemoveCreated
  <2>2. CASE G!IdOf(h) \in g_live /\ G!Occurs("delete", G!IdOf(h), "bot")
    <3>1. G!IdOf(h) \in G!Id /\ "bot" \in G!Actor /\ "delete" \in G!Kind
      BY StructureMoveTypes DEF G!Actor, G!Kind
    <3>. QED BY <2>1, <2>2, <3>1, ApprovalsOccur
  <2>3. CASE G!Nothing BY <2>1, <2>3, ApprovalsFollow DEF G!Nothing
  <2>. QED BY <1>3, <2>2, <2>3 DEF G!RemoveCreated
<1>4. ASSUME NEW h \in Task, G!RecreateDeleted(h) PROVE ApprovalsLeft'
  <2>1. Follows /\ UNCHANGED <<g_approval, g_given>> BY <1>4, FollowsSteps DEF G!RecreateDeleted
  <2>2. ASSUME NEW i \in G!Id, G!Fresh(i), G!Occurs("create", i, "bot") PROVE ApprovalsLeft'
    <3>1. "bot" \in G!Actor /\ "create" \in G!Kind BY DEF G!Actor, G!Kind
    <3>. QED BY <2>1, <2>2, <3>1, ApprovalsOccur
  <2>3. CASE G!Nothing BY <2>1, <2>3, ApprovalsFollow DEF G!Nothing
  <2>. QED BY <1>4, <2>2, <2>3 DEF G!RecreateDeleted
<1>5. CASE UNCHANGED G!vars
  <2>1. Follows BY <1>5 DEF G!vars, Follows
  <2>. QED BY <1>5, <2>1, ApprovalsFollow DEF G!vars
<1>6. ~G!Restart BY NoFault DEF G!Restart
<1>7. CASE G!Next
  BY <1>1, <1>2, <1>3, <1>4, <1>6, <1>7, ApprovalsEvent, ApprovalsRead, ApprovalsFind, ApprovalsExact,
     ApprovalsBatch, ApprovalsSignal DEF G!Next
<1>. QED BY <1>5, <1>7

(* What is left of the approvals covers what was not decided on, for any   *)
(* handlers, number of changes and approvals (consumeApproval).            *)
THEOREM ApprovalsInvariant == ASSUME G!GuardAssumption PROVE G!Spec => []SparedInv
<1>1. G!Init => SparedInv BY StructureInit, ApprovalsInit DEF SparedInv
<1>2. SparedInv /\ [G!Next]_(G!vars) => SparedInv'
  <2> SUFFICES ASSUME SparedInv, [G!Next]_(G!vars) PROVE SparedInv' OBVIOUS
  <2>1. StructureInv' BY StructureNext DEF SparedInv
  <2>2. g_faults' = 0 => g_faults = 0
    <3>1. g_faults \in Nat BY DEF SparedInv, StructureInv, G!TypeOK
    <3>2. g_faults' = g_faults \/ g_faults' = g_faults + 1
      BY DEF G!Next, G!vars, G!Restart, G!Changed, G!StructureEvent, G!ReadSituation, G!FindActor, G!ConsumeExact,
             G!ConsumeBatch, G!SignalAntiRaid, G!RemoveCreated, G!RecreateDeleted, G!Sanction, G!Fault
    <3>. QED BY <3>1, <3>2
  <2>. QED BY <2>1, <2>2, ApprovalsNext DEF SparedInv, StructureInv
<1>. QED BY <1>1, <1>2, PTL DEF G!Spec

LEMMA CoveredAreSpared == SparedInv => G!CoveredIsSpared
<1>1. ASSUME ApprovalsLeft, G!Covered PROVE \A h \in Task : G!At(h, "sanction") => g_handler[h].actor # "member"
  BY <1>1 DEF ApprovalsLeft, Spared, Blamed, KnowsWhom, G!At
<1>. QED BY <1>1 DEF SparedInv, G!CoveredIsSpared

-----------------------------------------------------------------------------
(* The recovery of a raid.  What was captured before the incident has all  *)
(* that people had not deleted by then, and while no plan was applied that *)
(* is not stored, an operation is done or skipped only when its resource   *)
(* is back.                                                                *)
(*                                                                         *)
(* In quiet times `before' is there; what was captured before the incident *)
(* has it, the baseline first of all.                                      *)
RecoveryHere == {"there", "again"}
RecoveryCalmIsThere == r_stage = "calm" => \A r \in r_before : r_live[r] = "there"
RecoveryStoredIsWhole ==
    /\ r_snap = R!NoSnap /\ ~r_base.late => r_before \subseteq r_base.set
    /\ r_snap.from = "baseline" => r_before \subseteq r_snap.set
RecoveryCopyIsWhole(w) ==
    /\ r_worker[w].pc = "write" /\ ~r_worker[w].late => r_before \subseteq r_worker[w].copy.set
    /\ r_worker[w].pc = "store" /\ r_worker[w].copy.from = "baseline" => r_before \subseteq r_worker[w].copy.set
    /\ r_worker[w].pc = "store" => r_worker[w].copy.from # "none"

(* A plan is good when what it does not have pending, nor left to the      *)
(* owner, is back.                                                         *)
RecoveryGood(plan) ==
    \/ r_unsaved
    \/ \A r \in r_snap.set : plan[r].status \in {"none", "done", "skipped"} => r_live[r] \in RecoveryHere
RecoveryBack == r_unsaved \/ \A r \in r_snap.set : r_live[r] \in RecoveryHere
RecoveryLate == r_snap # R!NoSnap /\ r_stage \in {"recovery", "closed"}
RecoveryOpsAreGood == r_ops # R!NoPlan => RecoveryLate /\ RecoveryGood(r_ops)

RecoveryMarks == {"mark", "marking"}
RecoveryApplies == {"apply"} \cup RecoveryMarks
RecoveryRestores == {"plan", "save", "resolve"} \cup RecoveryApplies
RecoveryWorkIsGood(w) ==
    /\ r_worker[w].pc \in RecoveryRestores => RecoveryLate
    /\ r_worker[w].pc = "plan" =>
         /\ r_worker[w].copy = r_snap
         /\ r_worker[w].plan # R!NoPlan => RecoveryGood(r_worker[w].plan) /\ RecoveryGood(r_ops)
    /\ r_worker[w].pc = "save" => RecoveryGood(r_worker[w].plan)
    /\ r_worker[w].pc \in {"save"} \cup RecoveryApplies =>
         /\ \A r \in r_worker[w].there : r_live[r] \in RecoveryHere
         /\ r_worker[w].whole => RecoveryBack
    /\ r_worker[w].pc \in RecoveryApplies => RecoveryGood(r_ops)
    /\ \A r \in r_worker[w].r :
         r_worker[w].pc \in RecoveryMarks /\ r_worker[w].result \in {"none", "done", "skipped"}
           => r_live[r] \in RecoveryHere
    /\ r_worker[w].pc = "marking" => RecoveryGood(r_worker[w].read)
    /\ r_worker[w].pc = "resolve" => RecoveryBack

RecoveryInv ==
    /\ R!TypeOK /\ RecoveryCalmIsThere /\ RecoveryStoredIsWhole /\ RecoveryOpsAreGood
    /\ \A w \in Task : RecoveryCopyIsWhole(w) /\ RecoveryWorkIsGood(w)

RecoveryStages == {"calm", "raid", "recovery", "closed"}
RecoveryLives == [Thing -> {"none", "there", "gone", "again"}]
RecoveryBases == [set : R!Set0, late : BOOLEAN, frozen : BOOLEAN]
RecoveryTyped ==
    /\ r_stage \in RecoveryStages /\ r_before \in R!Set0 /\ r_live \in RecoveryLives /\ r_base \in RecoveryBases
    /\ r_snap \in R!Snap /\ r_ops \in [Thing -> R!Op] /\ r_unsaved \in BOOLEAN /\ r_faults \in 0 .. MaxFaults

LEMMA RecoveryFaultTypes == ASSUME R!RecoveryAssumption, R!TypeOK, R!Fault PROVE r_faults' \in 0 .. MaxFaults
BY DEF R!RecoveryAssumption, R!TypeOK, R!Fault

LEMMA RecoveryNoOp == R!NoOp \in R!Op /\ R!NoOp.status = "none"
BY DEF R!NoOp, R!Op, R!Status

LEMMA RecoveryIdleTypes ==
    /\ R!Idle \in R!Call /\ R!Idle.pc = "idle" /\ R!Idle.whole = FALSE
    /\ R!NoPlan \in [Thing -> R!Op] /\ R!NoSnap \in R!Snap
<1>1. R!NoOp \in R!Op /\ R!NoSnap \in R!Snap
  BY DEF R!NoOp, R!Op, R!Status, R!NoSnap, R!Snap, R!Set0
<1>2. R!NoPlan \in [Thing -> R!Op]
  BY <1>1 DEF R!NoPlan
<1> QED
  BY <1>1, <1>2 DEF R!Idle, R!Call, R!Set0, R!Status, R!Place

LEMMA RecoverySetTypes ==
    ASSUME R!TypeOK, NEW w \in Task, NEW c \in R!Call, R!Set(w, c)
    PROVE  /\ r_worker' \in [Task -> R!Call] /\ r_worker'[w] = c
           /\ \A v \in Task : v # w => r_worker'[v] = r_worker[v]
BY DEF R!TypeOK, R!Set

(* The incident goes on: a snapshot stays, and once it is in recovery      *)
(* nothing is destroyed.                                                   *)
RecoveryOnward ==
    /\ r_unsaved => r_unsaved'
    /\ r_snap # R!NoSnap => r_snap' = r_snap
    /\ r_stage \in {"recovery", "closed"} =>
         r_stage' \in {"recovery", "closed"} /\ \A r \in Thing : r_live[r] \in RecoveryHere => r_live'[r] \in RecoveryHere
RecoveryMarksHold == RecoveryLate /\ RecoveryGood(r_ops) => RecoveryGood(r_ops)'

LEMMA RecoveryGoodStays ==
    ASSUME R!TypeOK, RecoveryOnward, RecoveryLate, NEW p, RecoveryGood(p) PROVE RecoveryGood(p)' /\ RecoveryLate'
BY DEF R!TypeOK, RecoveryOnward, RecoveryLate, RecoveryGood, R!Snap, R!Set0

LEMMA RecoveryBackStays ==
    ASSUME R!TypeOK, RecoveryOnward, RecoveryLate, RecoveryBack PROVE RecoveryBack' /\ RecoveryLate'
BY DEF R!TypeOK, RecoveryOnward, RecoveryLate, RecoveryBack, R!Snap, R!Set0

LEMMA RecoveryWorkStays ==
    ASSUME R!TypeOK, RecoveryOnward, NEW w \in Task, RecoveryCopyIsWhole(w), RecoveryWorkIsGood(w),
           r_worker'[w] = r_worker[w], r_before' \subseteq r_before, RecoveryMarksHold
    PROVE  RecoveryCopyIsWhole(w)' /\ RecoveryWorkIsGood(w)'
<1>1. RecoveryCopyIsWhole(w)'
  BY DEF RecoveryCopyIsWhole
<1>2. r_worker[w] \in R!Call
  BY DEF R!TypeOK
<1>3. CASE ~(r_worker[w].pc \in RecoveryRestores)
  <2>1. r_worker'[w].pc \notin RecoveryRestores
    BY <1>3
  <2> QED
    BY <1>1, <2>1 DEF RecoveryWorkIsGood, RecoveryRestores, RecoveryApplies, RecoveryMarks
<1>4. CASE r_worker[w].pc \in RecoveryRestores
  <2>1. RecoveryLate /\ RecoveryLate' /\ r_snap' = r_snap
    BY <1>4 DEF RecoveryWorkIsGood, RecoveryLate, RecoveryOnward
  <2>2. \A r \in Thing : r_live[r] \in RecoveryHere => r_live'[r] \in RecoveryHere
    BY <2>1 DEF RecoveryOnward, RecoveryLate
  <2>3. r_worker[w].pc = "marking" => RecoveryGood(r_worker[w].read)'
    <3>1. PICK p : p = r_worker[w].read
      OBVIOUS
    <3>2. RecoveryGood(p) => RecoveryGood(p)'
      BY <2>1, RecoveryGoodStays
    <3>3. r_worker'[w].read = p
      BY <3>1
    <3> QED
      BY <3>1, <3>2, <3>3 DEF RecoveryWorkIsGood, RecoveryGood
  <2>4. RecoveryGood(r_worker[w].plan) => RecoveryGood(r_worker[w].plan)'
    <3>1. PICK p : p = r_worker[w].plan
      OBVIOUS
    <3>2. RecoveryGood(p) => RecoveryGood(p)'
      BY <2>1, RecoveryGoodStays
    <3>3. r_worker'[w].plan = p
      BY <3>1
    <3> QED
      BY <3>1, <3>2, <3>3 DEF RecoveryGood
  <2>5. r_worker[w].there \subseteq Thing /\ r_worker[w].r \subseteq Thing
    BY <1>2 DEF R!Call, R!Set0
  <2>6. RecoveryBack => RecoveryBack'
    BY <2>1, RecoveryBackStays
  <2>7. RecoveryGood(r_ops) => RecoveryGood(r_ops)'
    BY <2>1 DEF RecoveryMarksHold
  <2> QED
    BY <1>1, <1>4, <2>1, <2>2, <2>3, <2>4, <2>5, <2>6, <2>7
    DEF RecoveryWorkIsGood, RecoveryRestores, RecoveryApplies, RecoveryMarks
<1> QED
  BY <1>3, <1>4

(* One worker moves. *)
LEMMA RecoveryWorkerStep ==
    ASSUME RecoveryInv, NEW w \in Task, NEW c \in R!Call, R!Set(w, c), RecoveryTyped', RecoveryOnward,
           r_before' \subseteq r_before, RecoveryCalmIsThere', RecoveryStoredIsWhole', RecoveryOpsAreGood',
           RecoveryMarksHold, RecoveryCopyIsWhole(w)', RecoveryWorkIsGood(w)'
    PROVE  RecoveryInv'
<1>1. /\ r_worker' \in [Task -> R!Call] /\ r_worker'[w] = c
      /\ \A v \in Task : v # w => r_worker'[v] = r_worker[v]
  BY RecoverySetTypes DEF RecoveryInv
<1>2. R!TypeOK'
  BY <1>1 DEF RecoveryTyped, R!TypeOK, RecoveryStages, RecoveryLives, RecoveryBases
<1>3. \A v \in Task : RecoveryCopyIsWhole(v)' /\ RecoveryWorkIsGood(v)'
  BY <1>1, RecoveryWorkStays DEF RecoveryInv
<1> QED
  BY <1>2, <1>3 DEF RecoveryInv

(* The server, the incident and what is stored stay. *)
LEMMA RecoverySame ==
    ASSUME RecoveryInv, UNCHANGED <<r_stage, R!server, R!stored, r_unsaved>>, r_faults' \in 0 .. MaxFaults
    PROVE  /\ RecoveryTyped' /\ RecoveryOnward /\ r_before' \subseteq r_before
           /\ RecoveryCalmIsThere' /\ RecoveryStoredIsWhole' /\ RecoveryOpsAreGood'
           /\ RecoveryMarksHold
<1>1. RecoveryTyped' /\ RecoveryOnward /\ r_before' \subseteq r_before
  BY DEF RecoveryInv, R!TypeOK, RecoveryTyped, RecoveryStages, RecoveryLives, RecoveryBases, RecoveryOnward,
      R!server, R!stored
<1>2. RecoveryCalmIsThere' /\ RecoveryStoredIsWhole'
  BY DEF RecoveryInv, RecoveryCalmIsThere, RecoveryStoredIsWhole, R!server, R!stored
<1>3. RecoveryOpsAreGood' /\ RecoveryMarksHold
  BY DEF RecoveryInv, RecoveryOpsAreGood, RecoveryMarksHold, RecoveryLate, RecoveryGood, R!server, R!stored
<1> QED
  BY <1>1, <1>2, <1>3

(* One worker moves, and nothing else does. *)
LEMMA RecoveryWorkerAlone ==
    ASSUME RecoveryInv, NEW w \in Task, NEW c \in R!Call, R!Set(w, c),
           UNCHANGED <<r_stage, R!server, R!stored, r_unsaved>>,
           r_faults' \in 0 .. MaxFaults, RecoveryCopyIsWhole(w)', RecoveryWorkIsGood(w)'
    PROVE  RecoveryInv'
BY RecoverySame, RecoveryWorkerStep

(* A worker that goes where it has no part in a restoration.               *)
LEMMA RecoveryElsewhere ==
    ASSUME NEW w \in Task, r_worker'[w].pc \in {"idle", "take", "take live", "release"}
    PROVE  RecoveryCopyIsWhole(w)' /\ RecoveryWorkIsGood(w)'
BY DEF RecoveryCopyIsWhole, RecoveryWorkIsGood, RecoveryRestores, RecoveryApplies, RecoveryMarks

(* No worker moves. *)
LEMMA RecoveryWorldStep ==
    ASSUME RecoveryInv, UNCHANGED r_worker, RecoveryTyped', RecoveryOnward, r_before' \subseteq r_before,
           RecoveryCalmIsThere', RecoveryStoredIsWhole', RecoveryOpsAreGood', RecoveryMarksHold
    PROVE  RecoveryInv'
<1>1. R!TypeOK'
  BY DEF RecoveryInv, RecoveryTyped, R!TypeOK, RecoveryStages, RecoveryLives, RecoveryBases
<1>2. \A v \in Task : RecoveryCopyIsWhole(v)' /\ RecoveryWorkIsGood(v)'
  BY RecoveryWorkStays DEF RecoveryInv
<1> QED
  BY <1>1, <1>2 DEF RecoveryInv

LEMMA RecoveryReturnTypes ==
    ASSUME RecoveryInv, NEW w \in Task, R!Return(w)
    PROVE  R!Idle \in R!Call /\ R!Set(w, R!Idle) /\ RecoveryCopyIsWhole(w)' /\ RecoveryWorkIsGood(w)'
<1>1. R!Set(w, R!Idle) /\ r_worker'[w].pc = "idle"
  BY RecoveryIdleTypes, RecoverySetTypes DEF R!Return, RecoveryInv
<1> QED
  BY <1>1, RecoveryIdleTypes, RecoveryElsewhere

-----------------------------------------------------------------------------
LEMMA RecoveryRefreshFine == ASSUME RecoveryInv, NEW w \in Task, R!Refresh(w) \/ R!Choose(w) PROVE RecoveryInv'
<1>0. /\ UNCHANGED <<r_stage, R!server, R!stored, r_unsaved, r_faults>> /\ r_faults' \in 0 .. MaxFaults
      /\ R!Idle \in R!Call
  BY RecoveryIdleTypes DEF R!Refresh, R!Choose, RecoveryInv, R!TypeOK
<1>1. ASSUME NEW pc \in {"take", "take live"}, R!Set(w, [R!Idle EXCEPT !.pc = pc]) PROVE RecoveryInv'
  <2>1. PICK c \in R!Call : c = [R!Idle EXCEPT !.pc = pc] /\ c.pc = pc
    <3> DEFINE e == [R!Idle EXCEPT !.pc = pc]
    <3>1. e \in R!Call /\ e.pc = pc
      BY <1>0 DEF R!Call, R!Place
    <3> QED
      BY <3>1
  <2>2. r_worker'[w].pc = pc
    BY <1>1, <2>1, RecoverySetTypes DEF RecoveryInv
  <2> QED
    BY <1>0, <1>1, <2>1, <2>2, RecoveryElsewhere, RecoveryWorkerAlone
<1>2. CASE /\ r_snap = R!NoSnap /\ r_base.frozen /\ ~r_base.late
           /\ R!Set(w, [R!Idle EXCEPT !.pc = "store", !.copy = [set |-> r_base.set, from |-> "baseline"]])
  <2> DEFINE s == [set |-> r_base.set, from |-> "baseline"]
  <2>1. s \in R!Snap /\ s.from = "baseline" /\ r_before \subseteq s.set
    <3>1. r_base.set \in R!Set0 /\ r_before \subseteq r_base.set
      BY <1>2 DEF RecoveryInv, R!TypeOK, RecoveryStoredIsWhole
    <3> QED
      BY <3>1 DEF R!Snap
  <2> HIDE DEF s
  <2>2. PICK c \in R!Call : c = [R!Idle EXCEPT !.pc = "store", !.copy = s] /\ c.pc = "store" /\ c.copy = s
    <3> DEFINE e == [R!Idle EXCEPT !.pc = "store", !.copy = s]
    <3>1. e \in R!Call /\ e.pc = "store" /\ e.copy = s
      BY <1>0, <2>1 DEF R!Call, R!Place
    <3> QED
      BY <3>1
  <2>3. R!Set(w, c)
    BY <1>2, <2>2 DEF s
  <2>4. r_worker'[w] = c
    BY <2>3, RecoverySetTypes DEF RecoveryInv
  <2>5. RecoveryCopyIsWhole(w)' /\ RecoveryWorkIsGood(w)'
    BY <1>0, <2>1, <2>2, <2>4
    DEF RecoveryCopyIsWhole, RecoveryWorkIsGood, RecoveryRestores, RecoveryApplies, RecoveryMarks, R!server
  <2> QED
    BY <1>0, <2>3, <2>5, RecoveryWorkerAlone
<1> QED
  BY <1>1, <1>2 DEF R!Refresh, R!Choose

LEMMA RecoveryCaptured ==
    ASSUME RecoveryInv
    PROVE  R!Capture \in R!Snap /\ R!Capture.from = "live" /\ (~R!Opened => r_before \subseteq R!Capture.set)
<1>1. R!Present \in R!Set0 /\ (~R!Opened => r_before \subseteq R!Present)
  BY DEF RecoveryInv, R!TypeOK, RecoveryCalmIsThere, R!Opened, R!Present, R!Exists, R!Set0
<1> QED
  BY <1>1 DEF R!Capture, R!Snap

LEMMA RecoveryTakeFine == ASSUME RecoveryInv, NEW w \in Task, R!Take(w) \/ R!CaptureLive(w) PROVE RecoveryInv'
<1>0. /\ UNCHANGED <<r_stage, R!server, R!stored, r_unsaved, r_faults>> /\ r_faults' \in 0 .. MaxFaults
      /\ r_worker[w] \in R!Call
  BY DEF R!Take, R!CaptureLive, RecoveryInv, R!TypeOK
<1>1. CASE R!Take(w)
  <2>1. PICK c \in R!Call : /\ c = [r_worker[w] EXCEPT !.pc = "write", !.copy = R!Capture, !.late = R!Opened]
                            /\ c.pc = "write" /\ c.copy = R!Capture /\ c.late = R!Opened
    <3> DEFINE e == [r_worker[w] EXCEPT !.pc = "write", !.copy = R!Capture, !.late = R!Opened]
    <3>0. R!Opened \in BOOLEAN
      BY DEF R!Opened
    <3>1. e \in R!Call /\ e.pc = "write" /\ e.copy = R!Capture /\ e.late = R!Opened
      BY <1>0, <3>0, RecoveryCaptured DEF R!Call, R!Place
    <3> QED
      BY <3>1
  <2>2. r_worker'[w] = c /\ R!Set(w, c)
    BY <1>1, <2>1, RecoverySetTypes DEF RecoveryInv, R!Take
  <2>3. RecoveryCopyIsWhole(w)' /\ RecoveryWorkIsGood(w)'
    BY <1>0, <2>1, <2>2, RecoveryCaptured
    DEF RecoveryCopyIsWhole, RecoveryWorkIsGood, RecoveryRestores, RecoveryApplies, RecoveryMarks, R!server
  <2> QED
    BY <1>0, <2>2, <2>3, RecoveryWorkerAlone
<1>2. CASE R!CaptureLive(w)
  <2>1. PICK c \in R!Call : /\ c = [r_worker[w] EXCEPT !.pc = "store", !.copy = R!Capture]
                            /\ c.pc = "store" /\ c.copy = R!Capture
    <3> DEFINE e == [r_worker[w] EXCEPT !.pc = "store", !.copy = R!Capture]
    <3>1. e \in R!Call /\ e.pc = "store" /\ e.copy = R!Capture
      BY <1>0, RecoveryCaptured DEF R!Call, R!Place
    <3> QED
      BY <3>1
  <2>2. r_worker'[w] = c /\ R!Set(w, c)
    BY <1>2, <2>1, RecoverySetTypes DEF RecoveryInv, R!CaptureLive
  <2>3. RecoveryCopyIsWhole(w)' /\ RecoveryWorkIsGood(w)'
    BY <2>1, <2>2, RecoveryCaptured
    DEF RecoveryCopyIsWhole, RecoveryWorkIsGood, RecoveryRestores, RecoveryApplies, RecoveryMarks
  <2> QED
    BY <1>0, <2>2, <2>3, RecoveryWorkerAlone
<1> QED
  BY <1>1, <1>2

LEMMA RecoveryWriteBaselineFine == ASSUME RecoveryInv, NEW w \in Task, R!WriteBaseline(w) PROVE RecoveryInv'
<1>0. /\ r_worker[w] \in R!Call /\ r_worker[w].pc = "write" /\ R!Return(w)
      /\ UNCHANGED <<r_stage, R!server, r_snap, r_ops, r_unsaved, r_faults>>
      /\ r_base' = IF r_base.frozen \/ r_snap # R!NoSnap THEN r_base
           ELSE [set |-> r_worker[w].copy.set, late |-> r_worker[w].late, frozen |-> FALSE]
  BY DEF R!WriteBaseline, R!At, RecoveryInv, R!TypeOK
<1>1. r_base' \in RecoveryBases /\ (r_snap = R!NoSnap /\ ~r_base'.late => r_before \subseteq r_base'.set)
  <2>1. CASE r_base' = r_base
    BY <2>1 DEF RecoveryInv, R!TypeOK, RecoveryBases, RecoveryStoredIsWhole
  <2>2. CASE r_base' = [set |-> r_worker[w].copy.set, late |-> r_worker[w].late, frozen |-> FALSE]
    <3>1. r_worker[w].copy.set \in R!Set0 /\ r_worker[w].late \in BOOLEAN /\ FALSE \in BOOLEAN
      BY <1>0 DEF R!Call, R!Snap
    <3>2. r_base' \in RecoveryBases /\ r_base'.set = r_worker[w].copy.set /\ r_base'.late = r_worker[w].late
      BY <2>2, <3>1 DEF RecoveryBases
    <3> QED
      BY <1>0, <3>2 DEF RecoveryInv, RecoveryCopyIsWhole
  <2> QED
    BY <1>0, <2>1, <2>2
<1>2. RecoveryTyped' /\ RecoveryOnward /\ r_before' \subseteq r_before
  BY <1>0, <1>1 DEF RecoveryInv, R!TypeOK, RecoveryTyped, RecoveryStages, RecoveryLives, RecoveryOnward, R!server
<1>3. RecoveryCalmIsThere' /\ RecoveryStoredIsWhole'
  BY <1>0, <1>1 DEF RecoveryInv, RecoveryCalmIsThere, RecoveryStoredIsWhole, R!server
<1>4. RecoveryOpsAreGood' /\ RecoveryMarksHold
  BY <1>0 DEF RecoveryInv, RecoveryOpsAreGood, RecoveryMarksHold, RecoveryLate, RecoveryGood, R!server
<1> QED
  BY <1>0, <1>2, <1>3, <1>4, RecoveryReturnTypes, RecoveryWorkerStep

LEMMA RecoveryStoreFine == ASSUME RecoveryInv, NEW w \in Task, R!StoreSnapshot(w) PROVE RecoveryInv'
<1>0. /\ r_worker[w] \in R!Call /\ r_worker[w].pc = "store" /\ R!Return(w)
      /\ UNCHANGED <<r_stage, R!server, r_ops, r_unsaved, r_faults>>
      /\ r_snap' = IF r_snap = R!NoSnap THEN r_worker[w].copy ELSE r_snap
      /\ r_base' = [set |-> {}, late |-> FALSE, frozen |-> r_base.frozen]
  BY DEF R!StoreSnapshot, R!At, RecoveryInv, R!TypeOK
<1>1. r_snap' \in R!Snap /\ (r_snap'.from = "baseline" => r_before \subseteq r_snap'.set)
  BY <1>0 DEF RecoveryInv, R!TypeOK, R!Call, RecoveryStoredIsWhole, RecoveryCopyIsWhole
<1>2. r_base' \in RecoveryBases
  <2>1. {} \in R!Set0 /\ FALSE \in BOOLEAN /\ r_base.frozen \in BOOLEAN
    BY DEF R!Set0, RecoveryInv, R!TypeOK
  <2> QED
    BY <1>0, <2>1 DEF RecoveryBases
<1>3. RecoveryTyped' /\ RecoveryOnward /\ r_before' \subseteq r_before
  BY <1>0, <1>1, <1>2 DEF RecoveryInv, R!TypeOK, RecoveryTyped, RecoveryStages, RecoveryLives,
      RecoveryOnward, R!server
<1>4. r_snap' # R!NoSnap
  BY <1>0 DEF RecoveryInv, RecoveryCopyIsWhole, R!NoSnap
<1>5. RecoveryCalmIsThere' /\ RecoveryStoredIsWhole'
  BY <1>0, <1>1, <1>4 DEF RecoveryInv, RecoveryCalmIsThere, RecoveryStoredIsWhole, R!server
<1>6. RecoveryOpsAreGood' /\ RecoveryMarksHold
  BY <1>0 DEF RecoveryInv, RecoveryOpsAreGood, RecoveryMarksHold, RecoveryLate, RecoveryGood, R!server
<1> QED
  BY <1>0, <1>3, <1>5, <1>6, RecoveryReturnTypes, RecoveryWorkerStep

LEMMA RecoveryReadFine == ASSUME RecoveryInv, NEW w \in Task, R!Read(w) PROVE RecoveryInv'
<1>0. /\ UNCHANGED <<r_stage, R!server, R!stored, r_unsaved, r_faults>> /\ r_faults' \in 0 .. MaxFaults
      /\ R!Idle \in R!Call /\ RecoveryLate /\ r_snap \in R!Snap /\ r_ops \in [Thing -> R!Op]
  BY RecoveryIdleTypes DEF R!Read, RecoveryInv, R!TypeOK, RecoveryLate
<1>1. PICK c \in R!Call : /\ c = [R!Idle EXCEPT !.pc = "plan", !.copy = r_snap, !.plan = r_ops]
                          /\ c.pc = "plan" /\ c.copy = r_snap /\ c.plan = r_ops
  <2> DEFINE e == [R!Idle EXCEPT !.pc = "plan", !.copy = r_snap, !.plan = r_ops]
  <2>1. e \in R!Call /\ e.pc = "plan" /\ e.copy = r_snap /\ e.plan = r_ops
    BY <1>0 DEF R!Call, R!Place
  <2> QED
    BY <2>1
<1>2. R!Set(w, c) /\ r_worker'[w] = c
  BY <1>1, RecoverySetTypes DEF R!Read, RecoveryInv
<1>3. RecoveryCopyIsWhole(w)' /\ RecoveryWorkIsGood(w)'
  BY <1>0, <1>1, <1>2 DEF RecoveryCopyIsWhole, RecoveryWorkIsGood, RecoveryInv, RecoveryOpsAreGood, RecoveryLate,
      RecoveryGood, R!server, R!stored, RecoveryRestores, RecoveryApplies, RecoveryMarks
<1> QED
  BY <1>0, <1>2, <1>3, RecoveryWorkerAlone

(* What a plan that leaves no more than `missing' out has.                 *)
LEMMA RecoveryPlanned ==
    ASSUME NEW missing
    PROVE  /\ R!Planned(missing) \in [Thing -> R!Op]
           /\ \A r \in Thing \ missing : R!Planned(missing)[r].status = "none"
           /\ \A r \in Thing \cap missing : R!Planned(missing)[r].status = "pending"
<1>1. [status |-> "pending", attempts |-> 0] \in R!Op
  BY DEF R!Op, R!Status
<1> QED
  BY <1>1, RecoveryNoOp DEF R!Planned

LEMMA RecoverySurveyFine == ASSUME RecoveryInv, NEW w \in Task, R!Survey(w) PROVE RecoveryInv'
<1> DEFINE saved == r_worker[w].plan
           new == R!Planned(r_worker[w].copy.set \ R!There)
<1>0. /\ r_worker[w] \in R!Call /\ r_worker[w].pc = "plan"
      /\ UNCHANGED <<r_stage, R!server, R!stored, r_unsaved, r_faults>> /\ r_faults' \in 0 .. MaxFaults
      /\ R!Idle \in R!Call /\ saved \in [Thing -> R!Op]
      /\ RecoveryLate /\ r_worker[w].copy = r_snap
      /\ r_snap.set \subseteq Thing
  BY RecoveryIdleTypes
  DEF R!Survey, R!At, RecoveryInv, R!TypeOK, R!Call, RecoveryWorkIsGood, RecoveryRestores, R!Snap, R!Set0
<1>1. \A r \in R!There : r_live[r] \in RecoveryHere
  BY DEF R!There, RecoveryHere
<1>2. CASE /\ saved # R!NoPlan
           /\ R!Set(w, [R!Idle EXCEPT !.pc = "apply", !.plan = R!Left(saved), !.there = R!There \cap R!Todo(saved),
                                      !.whole = R!Complete(saved)])
  <2> DEFINE plan == R!Left(saved)
             there == R!There \cap R!Todo(saved)
             whole == R!Complete(saved)
  <2>1. plan \in [Thing -> R!Op] /\ there \in R!Set0 /\ whole \in BOOLEAN
    BY <1>0, RecoveryNoOp DEF R!Left, R!Todo, R!Set0, R!Complete
  <2>2. RecoveryGood(saved) /\ RecoveryGood(r_ops)
    BY <1>0, <1>2 DEF RecoveryInv, RecoveryWorkIsGood
  <2>3. whole => RecoveryBack
    BY <1>0, <2>2 DEF R!Complete, RecoveryGood, RecoveryBack
  <2>4. \A r \in there : r_live[r] \in RecoveryHere
    BY <1>1
  <2>5. R!Set(w, [R!Idle EXCEPT !.pc = "apply", !.plan = plan, !.there = there, !.whole = whole])
    BY <1>2
  <2> HIDE DEF plan, there, whole
  <2>6. PICK c \in R!Call :
           /\ c = [R!Idle EXCEPT !.pc = "apply", !.plan = plan, !.there = there, !.whole = whole]
           /\ c.pc = "apply" /\ c.there = there /\ c.whole = whole
    <3> DEFINE e == [R!Idle EXCEPT !.pc = "apply", !.plan = plan, !.there = there, !.whole = whole]
    <3>1. e \in R!Call /\ e.pc = "apply" /\ e.there = there /\ e.whole = whole
      BY <1>0, <2>1 DEF R!Call, R!Place
    <3> QED
      BY <3>1
  <2>7. R!Set(w, c) /\ r_worker'[w] = c
    BY <2>5, <2>6, RecoverySetTypes DEF RecoveryInv
  <2>8. RecoveryCopyIsWhole(w)' /\ RecoveryWorkIsGood(w)'
    BY <1>0, <2>2, <2>3, <2>4, <2>6, <2>7 DEF RecoveryCopyIsWhole, RecoveryWorkIsGood, RecoveryLate, RecoveryGood,
        RecoveryBack, R!server, R!stored, RecoveryRestores, RecoveryApplies, RecoveryMarks
  <2> QED
    BY <1>0, <2>7, <2>8, RecoveryWorkerAlone
<1>3. CASE R!Set(w, [R!Idle EXCEPT !.pc = "save", !.plan = new, !.there = R!There \cap R!Todo(new)])
  <2> DEFINE there == R!There \cap R!Todo(new)
  <2>1. new \in [Thing -> R!Op] /\ \A r \in r_snap.set : new[r].status # "pending" => r \in R!There
    <3>1. r_snap.set \ R!There \subseteq Thing
      BY <1>0
    <3> QED
      BY <1>0, RecoveryPlanned
  <2>2. RecoveryGood(new)
    BY <1>1, <2>1 DEF RecoveryGood
  <2>3. there \in R!Set0 /\ \A r \in there : r_live[r] \in RecoveryHere
    BY <1>1 DEF R!Set0, R!There
  <2> HIDE DEF new, there
  <2>4. PICK c \in R!Call : /\ c = [R!Idle EXCEPT !.pc = "save", !.plan = new, !.there = there]
                            /\ c.pc = "save" /\ c.plan = new /\ c.there = there /\ c.whole = FALSE
    <3> DEFINE e == [R!Idle EXCEPT !.pc = "save", !.plan = new, !.there = there]
    <3>1. e \in R!Call /\ e.pc = "save" /\ e.plan = new /\ e.there = there /\ e.whole = FALSE
      BY <1>0, <2>1, <2>3, RecoveryIdleTypes DEF R!Call, R!Place
    <3> QED
      BY <3>1
  <2>5. R!Set(w, c) /\ r_worker'[w] = c
    BY <1>3, <2>4, RecoverySetTypes DEF RecoveryInv, there
  <2>6. RecoveryGood(r_worker[w].plan)'
    <3>1. PICK p : p = new
      OBVIOUS
    <3> QED
      BY <1>0, <2>2, <2>4, <2>5, <3>1 DEF RecoveryGood, R!server, R!stored
  <2>7. RecoveryCopyIsWhole(w)' /\ RecoveryWorkIsGood(w)'
    BY <1>0, <2>3, <2>4, <2>5, <2>6 DEF RecoveryCopyIsWhole, RecoveryWorkIsGood, RecoveryLate, RecoveryGood,
        RecoveryBack, R!server, R!stored, RecoveryRestores, RecoveryApplies, RecoveryMarks
  <2> QED
    BY <1>0, <2>5, <2>7, RecoveryWorkerAlone
<1> QED
  BY <1>2, <1>3 DEF R!Survey

LEMMA RecoverySavePlanFine ==
    ASSUME R!RecoveryAssumption, RecoveryInv, NEW w \in Task, R!SavePlan(w) PROVE RecoveryInv'
<1>a. PICK p : p = r_worker[w].plan
  OBVIOUS
<1> DEFINE pc == IF p = R!NoPlan THEN "resolve" ELSE "apply"
<1>0. /\ r_worker[w] \in R!Call /\ r_worker[w].pc = "save" /\ UNCHANGED <<r_stage, R!server, r_base, r_snap>>
      /\ R!TypeOK /\ p \in [Thing -> R!Op] /\ RecoveryLate /\ RecoveryGood(p)
      /\ (\A q \in r_worker[w].there : r_live[q] \in RecoveryHere) /\ (r_worker[w].whole => RecoveryBack)
      /\ r_faults' \in 0 .. MaxFaults
      /\ \/ r_ops' = p /\ r_unsaved' = r_unsaved
         \/ r_ops' = r_ops /\ r_unsaved' = (r_unsaved \/ p # R!NoPlan)
      /\ R!Set(w, [r_worker[w] EXCEPT !.pc = pc])
  BY <1>a, RecoveryFaultTypes
  DEF R!SavePlan, R!At, RecoveryInv, R!TypeOK, R!Call, RecoveryWorkIsGood, RecoveryRestores, RecoveryApplies
<1>1. r_unsaved' \in BOOLEAN /\ (r_unsaved => r_unsaved') /\ (p # R!NoPlan => r_unsaved' \/ r_ops' = p)
  BY <1>0 DEF R!TypeOK
<1>2. RecoveryTyped' /\ RecoveryOnward /\ r_before' \subseteq r_before
  BY <1>0, <1>1 DEF R!TypeOK, RecoveryTyped, RecoveryStages, RecoveryLives, RecoveryBases, RecoveryOnward, R!server
<1>3. RecoveryGood(p)'
  BY <1>0, <1>1 DEF RecoveryGood, R!server
<1>4. RecoveryLate'
  BY <1>0 DEF RecoveryLate
<1>5. RecoveryOpsAreGood' /\ RecoveryMarksHold
  <2>1. RecoveryGood(r_ops) => RecoveryGood(r_ops)'
    BY <1>0, <1>1, <1>3 DEF RecoveryGood, R!server
  <2>2. r_ops' = r_ops \/ RecoveryGood(r_ops)'
    BY <1>0, <1>3 DEF RecoveryGood
  <2> QED
    BY <1>4, <2>1, <2>2 DEF RecoveryInv, RecoveryOpsAreGood, RecoveryMarksHold
<1>6. RecoveryCalmIsThere' /\ RecoveryStoredIsWhole'
  BY <1>0 DEF RecoveryInv, RecoveryCalmIsThere, RecoveryStoredIsWhole, R!server
<1>7. p # R!NoPlan => RecoveryGood(r_ops)'
  BY <1>1, <1>3 DEF RecoveryGood
<1>8. p = R!NoPlan => RecoveryBack'
  <2>1. \A r \in Thing : R!NoPlan[r].status = "none"
    BY RecoveryNoOp DEF R!NoPlan
  <2>2. r_snap.set \subseteq Thing
    BY <1>0 DEF R!TypeOK, R!Snap, R!Set0
  <2> QED
    BY <1>0, <1>1, <2>1, <2>2 DEF RecoveryGood, RecoveryBack, R!server
<1>9. pc \in {"resolve", "apply"} /\ (pc = "resolve" => p = R!NoPlan) /\ (pc = "apply" => p # R!NoPlan)
  OBVIOUS
<1> HIDE DEF pc
<1>10. PICK c \in R!Call : /\ c = [r_worker[w] EXCEPT !.pc = pc] /\ c.pc = pc
                           /\ c.there = r_worker[w].there /\ c.whole = r_worker[w].whole
  <2> DEFINE e == [r_worker[w] EXCEPT !.pc = pc]
  <2>1. e \in R!Call /\ e.pc = pc /\ e.there = r_worker[w].there /\ e.whole = r_worker[w].whole
    BY <1>0, <1>9 DEF R!Call, R!Place
  <2> QED
    BY <2>1
<1>11. R!Set(w, c) /\ r_worker'[w] = c
  BY <1>0, <1>10, RecoverySetTypes
<1>12. RecoveryBack => RecoveryBack'
  BY <1>0, <1>1 DEF RecoveryBack, R!server
<1>13. RecoveryCopyIsWhole(w)' /\ RecoveryWorkIsGood(w)'
  BY <1>0, <1>4, <1>7, <1>8, <1>9, <1>10, <1>11, <1>12
  DEF RecoveryCopyIsWhole, RecoveryWorkIsGood, R!server, RecoveryRestores, RecoveryApplies, RecoveryMarks
<1> QED
  BY <1>2, <1>5, <1>6, <1>11, <1>13, RecoveryWorkerStep

LEMMA RecoveryApplyFine ==
  ASSUME R!RecoveryAssumption, RecoveryInv, NEW w \in Task, NEW r \in Thing, R!Apply(w, r)
  PROVE  RecoveryInv'
<1>0. /\ r_worker[w] \in R!Call /\ r_worker[w].pc = "apply" /\ UNCHANGED <<r_stage, R!stored, r_before, r_unsaved>>
      /\ R!TypeOK /\ RecoveryLate /\ RecoveryGood(r_ops)
      /\ (\A q \in r_worker[w].there : r_live[q] \in RecoveryHere) /\ (r_worker[w].whole => RecoveryBack)
      /\ r_faults' \in 0 .. MaxFaults
  BY RecoveryFaultTypes
  DEF R!Apply, R!At, RecoveryInv, R!TypeOK, RecoveryWorkIsGood, RecoveryRestores, RecoveryApplies
<1> DEFINE recreated == [r_live EXCEPT ![r] = "again"]
<1>1. /\ r_live \in RecoveryLives /\ recreated \in RecoveryLives /\ recreated[r] \in RecoveryHere
      /\ \A q \in Thing : r_live[q] \in RecoveryHere => recreated[q] \in RecoveryHere
  BY <1>0 DEF R!TypeOK, RecoveryLives, RecoveryHere
<1>2. PICK result \in {"skipped", "owner", "done", "pending"} :
           /\ R!Mark(w, r, result) /\ r_live' \in {r_live, recreated}
           /\ (result \in {"skipped", "done"} => r_live'[r] \in RecoveryHere)
  <2>1. CASE r \in r_worker[w].there /\ R!Mark(w, r, "skipped") /\ UNCHANGED r_live
    BY <1>0, <2>1
  <2>2. CASE R!Mark(w, r, "owner") /\ UNCHANGED r_live
    BY <2>2
  <2>3. CASE r_live' = recreated /\ R!Mark(w, r, "done")
    BY <1>1, <2>3
  <2>4. CASE r_live' \in {r_live, recreated} /\ R!Mark(w, r, "owner")
    BY <2>4
  <2>5. CASE r_live' \in {r_live, recreated} /\ R!Mark(w, r, "pending")
    BY <2>5
  <2> QED
    BY <2>1, <2>2, <2>3, <2>4, <2>5 DEF R!Apply
<1>3. /\ r_live' \in RecoveryLives
      /\ \A q \in Thing : r_live[q] \in RecoveryHere => r_live'[q] \in RecoveryHere
  BY <1>1, <1>2
<1> HIDE DEF recreated
<1>4. PICK c \in R!Call : /\ c = [r_worker[w] EXCEPT !.pc = "mark", !.r = {r}, !.result = result]
                          /\ c.pc = "mark" /\ c.r = {r} /\ c.result = result
                          /\ c.there = r_worker[w].there /\ c.whole = r_worker[w].whole
  <2> DEFINE e == [r_worker[w] EXCEPT !.pc = "mark", !.r = {r}, !.result = result]
  <2>1. /\ e \in R!Call /\ e.pc = "mark" /\ e.r = {r} /\ e.result = result
        /\ e.there = r_worker[w].there /\ e.whole = r_worker[w].whole
    BY <1>0 DEF R!Call, R!Set0, R!Status, R!Place
  <2> QED
    BY <2>1
<1>5. R!Set(w, c) /\ r_worker'[w] = c
  BY <1>0, <1>2, <1>4, RecoverySetTypes DEF R!Mark
<1>6. RecoveryTyped' /\ RecoveryOnward /\ r_before' \subseteq r_before
  BY <1>0, <1>3 DEF R!TypeOK, RecoveryTyped, RecoveryStages, RecoveryBases, RecoveryOnward, R!stored
<1>7. RecoveryGood(r_ops)' /\ RecoveryLate'
  BY <1>0, <1>3 DEF RecoveryGood, RecoveryLate, R!stored, R!TypeOK, R!Snap, R!Set0
<1>8. RecoveryBack => RecoveryBack'
  BY <1>0, <1>6, RecoveryBackStays
<1>9. RecoveryCalmIsThere' /\ RecoveryStoredIsWhole' /\ RecoveryOpsAreGood' /\ RecoveryMarksHold
  BY <1>0, <1>7 DEF RecoveryInv, RecoveryCalmIsThere, RecoveryStoredIsWhole, RecoveryOpsAreGood, RecoveryMarksHold,
      RecoveryLate, R!stored
<1>10. RecoveryCopyIsWhole(w)' /\ RecoveryWorkIsGood(w)'
  <2>1. r_worker[w].there \subseteq Thing
    BY <1>0 DEF R!Call, R!Set0
  <2> QED
    BY <1>0, <1>2, <1>3, <1>4, <1>5, <1>7, <1>8, <2>1
    DEF RecoveryCopyIsWhole, RecoveryWorkIsGood, RecoveryRestores, RecoveryApplies, RecoveryMarks
<1> QED
  BY <1>5, <1>6, <1>9, <1>10, RecoveryWorkerStep

(* The loop goes on past an operation. *)
LEMMA RecoveryGoesOn ==
    ASSUME RecoveryInv, NEW w \in Task, NEW r \in Thing, R!GoOn(w, r)
    PROVE  \E c \in R!Call : /\ R!Set(w, c) /\ r_worker'[w] = c
                             /\ c.pc = "apply" /\ c.r = {} /\ c.whole = r_worker[w].whole
                             /\ c.there \subseteq r_worker[w].there
<1> DEFINE plan == [r_worker[w].plan EXCEPT ![r] = R!NoOp]
           there == r_worker[w].there \ {r}
<1>1. r_worker[w] \in R!Call /\ R!TypeOK
  BY DEF RecoveryInv, R!TypeOK
<1>2. plan \in [Thing -> R!Op] /\ there \in R!Set0 /\ there \subseteq r_worker[w].there
  BY <1>1, RecoveryNoOp DEF R!Call, R!Set0
<1>3. R!Set(w, [r_worker[w] EXCEPT !.pc = "apply", !.plan = plan, !.there = there, !.read = R!NoPlan, !.r = {},
                                   !.result = "none"])
  BY <1>1 DEF R!GoOn, R!Call
<1> HIDE DEF plan, there
<1>4. PICK c \in R!Call : /\ c = [r_worker[w] EXCEPT !.pc = "apply", !.plan = plan, !.there = there,
                                                     !.read = R!NoPlan, !.r = {}, !.result = "none"]
                          /\ c.pc = "apply" /\ c.there = there /\ c.r = {} /\ c.whole = r_worker[w].whole
  <2> DEFINE e == [r_worker[w] EXCEPT !.pc = "apply", !.plan = plan, !.there = there, !.read = R!NoPlan, !.r = {},
                                      !.result = "none"]
  <2>1. e \in R!Call /\ e.pc = "apply" /\ e.there = there /\ e.r = {} /\ e.whole = r_worker[w].whole
    BY <1>1, <1>2, RecoveryIdleTypes DEF R!Call, R!Set0, R!Status, R!Place
  <2> QED
    BY <2>1
<1> QED
  BY <1>1, <1>2, <1>3, <1>4, RecoverySetTypes

LEMMA RecoveryMarkReadFine ==
  ASSUME R!RecoveryAssumption, RecoveryInv, NEW w \in Task, R!MarkRead(w) PROVE RecoveryInv'
<1>0. /\ r_worker[w] \in R!Call /\ r_worker[w].pc = "mark"
      /\ UNCHANGED <<r_stage, R!server, R!stored, r_unsaved>> /\ R!TypeOK
      /\ r_ops \in [Thing -> R!Op] /\ r_faults' \in 0 .. MaxFaults /\ RecoveryWorkIsGood(w)
  BY RecoveryFaultTypes DEF R!MarkRead, R!At, RecoveryInv, R!TypeOK
<1>1. CASE R!Set(w, [r_worker[w] EXCEPT !.pc = "marking", !.read = r_ops])
  <2>1. PICK c \in R!Call : /\ c = [r_worker[w] EXCEPT !.pc = "marking", !.read = r_ops]
                            /\ c.pc = "marking" /\ c.r = r_worker[w].r /\ c.result = r_worker[w].result
                            /\ c.there = r_worker[w].there /\ c.read = r_ops /\ c.whole = r_worker[w].whole
    <3> DEFINE e == [r_worker[w] EXCEPT !.pc = "marking", !.read = r_ops]
    <3>1. /\ e \in R!Call /\ e.pc = "marking" /\ e.r = r_worker[w].r /\ e.result = r_worker[w].result
          /\ e.there = r_worker[w].there /\ e.read = r_ops /\ e.whole = r_worker[w].whole
      BY <1>0 DEF R!Call, R!Place
    <3> QED
      BY <3>1
  <2>2. R!Set(w, c) /\ r_worker'[w] = c
    BY <1>0, <1>1, <2>1, RecoverySetTypes
  <2>3. RecoveryCopyIsWhole(w)' /\ RecoveryWorkIsGood(w)'
    BY <1>0, <2>1, <2>2 DEF RecoveryCopyIsWhole, RecoveryWorkIsGood, RecoveryGood, RecoveryBack, RecoveryLate, R!server,
        R!stored, RecoveryRestores, RecoveryApplies, RecoveryMarks
  <2> QED
    BY <1>0, <2>2, <2>3, RecoveryWorkerAlone
<1>2. CASE \E r \in r_worker[w].r : R!GoOn(w, r)
  <2>1. PICK r \in Thing : R!GoOn(w, r)
    BY <1>0, <1>2 DEF R!Call, R!Set0
  <2>2. PICK c \in R!Call : /\ R!Set(w, c) /\ r_worker'[w] = c
                            /\ c.pc = "apply" /\ c.r = {} /\ c.whole = r_worker[w].whole
                            /\ c.there \subseteq r_worker[w].there
    BY <2>1, RecoveryGoesOn
  <2>3. RecoveryCopyIsWhole(w)' /\ RecoveryWorkIsGood(w)'
    BY <1>0, <2>2 DEF RecoveryCopyIsWhole, RecoveryWorkIsGood, RecoveryGood, RecoveryBack, RecoveryLate, R!server,
        R!stored, RecoveryRestores, RecoveryApplies, RecoveryMarks
  <2> QED
    BY <1>0, <2>2, <2>3, RecoveryWorkerAlone
<1> QED
  BY <1>1, <1>2 DEF R!MarkRead

LEMMA RecoveryMarkWriteFine ==
  ASSUME R!RecoveryAssumption, RecoveryInv, NEW w \in Task, R!MarkWrite(w) PROVE RecoveryInv'
<1>0. /\ r_worker[w] \in R!Call /\ r_worker[w].pc = "marking"
      /\ UNCHANGED <<r_stage, R!server, r_base, r_snap, r_unsaved>> /\ R!TypeOK
      /\ RecoveryLate /\ RecoveryGood(r_worker[w].read) /\ RecoveryGood(r_ops)
      /\ (\A q \in r_worker[w].there : r_live[q] \in RecoveryHere) /\ (r_worker[w].whole => RecoveryBack)
      /\ \A r \in r_worker[w].r : r_worker[w].result \in {"none", "done", "skipped"} => r_live[r] \in RecoveryHere
      /\ r_faults' \in 0 .. MaxFaults
  BY RecoveryFaultTypes DEF R!MarkWrite, R!At, RecoveryInv, R!TypeOK, RecoveryWorkIsGood, RecoveryRestores,
     RecoveryApplies, RecoveryMarks
<1>1. PICK r \in r_worker[w].r :
         /\ \/ r_ops' = [r_worker[w].read EXCEPT
                             ![r].status = IF @ = "none" THEN @ ELSE r_worker[w].result,
                             ![r].attempts = IF r_worker[w].read[r].status = "none" THEN @ ELSE @ + 1]
            \/ r_ops' = r_ops
         /\ R!GoOn(w, r)
  BY DEF R!MarkWrite
<1>2. PICK p : p = r_worker[w].read
  OBVIOUS
<1>3. r \in Thing /\ p \in [Thing -> R!Op] /\ p[r] \in R!Op /\ r_worker[w].result \in R!Status
  BY <1>0, <1>2 DEF R!Call, R!Set0
<1> DEFINE s == IF p[r].status = "none" THEN p[r].status ELSE r_worker[w].result
           n == IF p[r].status = "none" THEN p[r].attempts ELSE p[r].attempts + 1
           o == [p[r] EXCEPT !.status = s, !.attempts = n]
<1>4. o \in R!Op /\ o.status = s
  <2>1. p[r].status \in R!Status /\ p[r].attempts \in Nat
    BY <1>3 DEF R!Op
  <2>2. s \in R!Status /\ n \in Nat
    BY <1>3, <2>1
  <2> HIDE DEF s, n
  <2> QED
    BY <1>3, <2>2 DEF R!Op
<1>5. r_ops' = [p EXCEPT ![r] = o] \/ r_ops' = r_ops
  BY <1>1, <1>2, <1>3 DEF R!Op
<1>6. r_unsaved \/ (s \in {"none", "done", "skipped"} /\ r \in r_snap.set => r_live[r] \in RecoveryHere)
  BY <1>0, <1>2, <1>3 DEF RecoveryGood
<1>7. r_ops' \in [Thing -> R!Op] /\ RecoveryGood(r_ops)'
  <2> HIDE DEF o, s
  <2>1. CASE r_ops' = [p EXCEPT ![r] = o]
    <3>1. r_ops' \in [Thing -> R!Op] /\ r_ops'[r] = o /\ \A q \in Thing : q # r => r_ops'[q] = p[q]
      BY <1>3, <1>4, <2>1
    <3>2. r_snap.set \subseteq Thing
      BY <1>0 DEF R!TypeOK, R!Snap, R!Set0
    <3> QED
      BY <1>0, <1>2, <1>4, <1>6, <3>1, <3>2 DEF RecoveryGood, R!server
  <2>2. CASE r_ops' = r_ops
    BY <1>0, <2>2 DEF R!TypeOK, RecoveryGood, R!server
  <2> QED
    BY <1>5, <2>1, <2>2
<1> HIDE DEF o, s, n
<1>8. PICK c \in R!Call : /\ R!Set(w, c) /\ r_worker'[w] = c
                          /\ c.pc = "apply" /\ c.r = {} /\ c.whole = r_worker[w].whole
                          /\ c.there \subseteq r_worker[w].there
  BY <1>1, <1>3, RecoveryGoesOn
<1>9. RecoveryTyped' /\ RecoveryOnward /\ r_before' \subseteq r_before
  BY <1>0, <1>7 DEF R!TypeOK, RecoveryTyped, RecoveryStages, RecoveryLives, RecoveryBases, RecoveryOnward, R!server
<1>10. RecoveryCalmIsThere' /\ RecoveryStoredIsWhole' /\ RecoveryOpsAreGood' /\ RecoveryMarksHold
  BY <1>0, <1>7 DEF RecoveryInv, RecoveryCalmIsThere, RecoveryStoredIsWhole, RecoveryOpsAreGood, RecoveryMarksHold,
      RecoveryLate, R!server
<1>11. RecoveryCopyIsWhole(w)' /\ RecoveryWorkIsGood(w)'
  BY <1>0, <1>7, <1>8 DEF RecoveryCopyIsWhole, RecoveryWorkIsGood, RecoveryLate, RecoveryBack, R!server,
      RecoveryRestores, RecoveryApplies, RecoveryMarks
<1> QED
  BY <1>8, <1>9, <1>10, <1>11, RecoveryWorkerStep

LEMMA RecoveryReadBackFine ==
  ASSUME R!RecoveryAssumption, RecoveryInv, NEW w \in Task, R!ReadBack(w) PROVE RecoveryInv'
<1>0. /\ UNCHANGED <<r_stage, R!server, R!stored, r_unsaved>> /\ R!TypeOK /\ r_faults' \in 0 .. MaxFaults
      /\ RecoveryLate /\ RecoveryGood(r_ops) /\ (r_worker[w].whole => RecoveryBack)
  BY RecoveryFaultTypes
  DEF R!ReadBack, R!At, RecoveryInv, R!TypeOK, RecoveryWorkIsGood, RecoveryRestores, RecoveryApplies
<1>1. R!Complete(r_ops) => RecoveryBack
  <2>1. r_snap.set \subseteq Thing
    BY <1>0 DEF R!TypeOK, R!Snap, R!Set0
  <2> QED
    BY <1>0, <2>1 DEF R!Complete, RecoveryGood, RecoveryBack
<1>2. CASE RecoveryBack /\ R!Set(w, [R!Idle EXCEPT !.pc = "resolve"])
  <2>1. PICK c \in R!Call : c = [R!Idle EXCEPT !.pc = "resolve"] /\ c.pc = "resolve"
    <3> DEFINE e == [R!Idle EXCEPT !.pc = "resolve"]
    <3>1. e \in R!Call /\ e.pc = "resolve"
      BY RecoveryIdleTypes DEF R!Call, R!Place
    <3> QED
      BY <3>1
  <2>2. R!Set(w, c) /\ r_worker'[w] = c
    BY <1>0, <1>2, <2>1, RecoverySetTypes
  <2>3. c.r = {}
    BY <2>1, RecoveryIdleTypes DEF R!Idle, R!Call
  <2>4. RecoveryCopyIsWhole(w)' /\ RecoveryWorkIsGood(w)'
    BY <1>0, <1>2, <2>1, <2>2, <2>3 DEF RecoveryCopyIsWhole, RecoveryWorkIsGood, RecoveryBack, RecoveryLate, R!server,
        R!stored, RecoveryRestores, RecoveryApplies, RecoveryMarks
  <2> QED
    BY <1>0, <2>2, <2>4, RecoveryWorkerAlone
<1>3. CASE R!Return(w)
  BY <1>0, <1>3, RecoveryReturnTypes, RecoveryWorkerAlone
<1> QED
  BY <1>0, <1>1, <1>2, <1>3 DEF R!ReadBack, R!Return

LEMMA RecoveryResolveFine == ASSUME RecoveryInv, NEW w \in Task, R!Resolve(w) PROVE RecoveryInv'
<1>0. /\ UNCHANGED <<R!server, R!stored, r_unsaved, r_faults>> /\ R!TypeOK /\ RecoveryLate
      /\ r_stage' = IF r_stage = "recovery" THEN "closed" ELSE r_stage
      /\ R!Set(w, [R!Idle EXCEPT !.pc = "release"])
  BY DEF R!Resolve, R!At, RecoveryInv, R!TypeOK, RecoveryWorkIsGood, RecoveryRestores
<1>1. PICK c \in R!Call : c = [R!Idle EXCEPT !.pc = "release"] /\ c.pc = "release"
  <2> DEFINE e == [R!Idle EXCEPT !.pc = "release"]
  <2>1. e \in R!Call /\ e.pc = "release"
    BY RecoveryIdleTypes DEF R!Call, R!Place
  <2> QED
    BY <2>1
<1>2. R!Set(w, c) /\ r_worker'[w].pc = "release"
  BY <1>0, <1>1, RecoverySetTypes
<1>3. r_stage' \in {"recovery", "closed"}
  BY <1>0 DEF RecoveryLate
<1>4. RecoveryTyped' /\ RecoveryOnward /\ r_before' \subseteq r_before
  BY <1>0, <1>3 DEF R!TypeOK, RecoveryTyped, RecoveryStages, RecoveryLives, RecoveryBases, RecoveryOnward,
      R!server, R!stored
<1>5. RecoveryCalmIsThere' /\ RecoveryStoredIsWhole'
  BY <1>0, <1>3 DEF RecoveryInv, RecoveryCalmIsThere, RecoveryStoredIsWhole, R!server, R!stored
<1>6. RecoveryOpsAreGood' /\ RecoveryMarksHold
  BY <1>0, <1>3 DEF RecoveryInv, RecoveryOpsAreGood, RecoveryMarksHold, RecoveryLate, RecoveryGood, R!server, R!stored
<1> QED
  BY <1>2, <1>4, <1>5, <1>6, RecoveryElsewhere, RecoveryWorkerStep

LEMMA RecoveryReleaseFine == ASSUME RecoveryInv, NEW w \in Task, R!ReleaseBaseline(w) PROVE RecoveryInv'
<1>0. /\ r_base' = [r_base EXCEPT !.frozen = FALSE] /\ R!Return(w)
      /\ UNCHANGED <<r_stage, R!server, r_snap, r_ops, r_unsaved, r_faults>>
      /\ r_base \in RecoveryBases /\ FALSE \in BOOLEAN
  BY DEF R!ReleaseBaseline, RecoveryInv, R!TypeOK, RecoveryBases
<1>1. r_base' \in RecoveryBases /\ r_base'.late = r_base.late /\ r_base'.set = r_base.set
  BY <1>0 DEF RecoveryBases
<1>2. RecoveryTyped' /\ RecoveryOnward /\ r_before' \subseteq r_before
  BY <1>0, <1>1 DEF RecoveryInv, R!TypeOK, RecoveryTyped, RecoveryStages, RecoveryLives, RecoveryOnward, R!server
<1>3. RecoveryCalmIsThere' /\ RecoveryStoredIsWhole' /\ RecoveryOpsAreGood' /\ RecoveryMarksHold
  BY <1>0, <1>1 DEF RecoveryInv, RecoveryCalmIsThere, RecoveryStoredIsWhole, RecoveryOpsAreGood, RecoveryMarksHold,
      RecoveryLate, RecoveryGood, R!server
<1> QED
  BY <1>0, <1>2, <1>3, RecoveryReturnTypes, RecoveryWorkerStep

LEMMA RecoveryGiveUpFine == ASSUME R!RecoveryAssumption, RecoveryInv, NEW w \in Task, R!GiveUp(w) PROVE RecoveryInv'
<1>1. UNCHANGED <<r_stage, R!server, R!stored, r_unsaved>> /\ r_faults' \in 0 .. MaxFaults /\ R!Return(w)
  BY RecoveryFaultTypes DEF R!GiveUp, RecoveryInv
<1> QED
  BY <1>1, RecoveryReturnTypes, RecoveryWorkerAlone

LEMMA RecoveryFreezeFine == ASSUME RecoveryInv, R!FreezeBaseline PROVE RecoveryInv'
<1>0. /\ r_base' = [r_base EXCEPT !.frozen = TRUE]
      /\ UNCHANGED <<r_stage, R!server, r_snap, r_ops, r_worker, r_unsaved, r_faults>>
      /\ r_base \in RecoveryBases /\ TRUE \in BOOLEAN
  BY DEF R!FreezeBaseline, RecoveryInv, R!TypeOK, RecoveryBases
<1>1. r_base' \in RecoveryBases /\ r_base'.late = r_base.late /\ r_base'.set = r_base.set
  BY <1>0 DEF RecoveryBases
<1>2. RecoveryTyped' /\ RecoveryOnward /\ r_before' \subseteq r_before
  BY <1>0, <1>1 DEF RecoveryInv, R!TypeOK, RecoveryTyped, RecoveryStages, RecoveryLives, RecoveryOnward, R!server
<1>3. RecoveryCalmIsThere' /\ RecoveryStoredIsWhole' /\ RecoveryOpsAreGood' /\ RecoveryMarksHold
  BY <1>0, <1>1 DEF RecoveryInv, RecoveryCalmIsThere, RecoveryStoredIsWhole, RecoveryOpsAreGood, RecoveryMarksHold,
      RecoveryLate, RecoveryGood, R!server
<1> QED
  BY <1>0, <1>2, <1>3, RecoveryWorldStep

LEMMA RecoveryStageFine == ASSUME RecoveryInv, R!Open \/ R!Recover PROVE RecoveryInv'
<1>0. /\ UNCHANGED <<R!server, R!stored, r_worker, r_unsaved, r_faults>>
      /\ r_stage \notin {"recovery", "closed"} /\ r_stage' \in {"raid", "recovery"}
  BY DEF R!Open, R!Recover
<1>1. RecoveryTyped' /\ RecoveryOnward /\ r_before' \subseteq r_before
  BY <1>0 DEF RecoveryInv, R!TypeOK, RecoveryTyped, RecoveryStages, RecoveryLives, RecoveryBases, RecoveryOnward,
      R!server, R!stored
<1>2. RecoveryCalmIsThere' /\ RecoveryStoredIsWhole' /\ RecoveryOpsAreGood' /\ RecoveryMarksHold
  BY <1>0 DEF RecoveryInv, RecoveryCalmIsThere, RecoveryStoredIsWhole, RecoveryOpsAreGood, RecoveryMarksHold,
      RecoveryLate, RecoveryGood, R!server, R!stored
<1> QED
  BY <1>0, <1>1, <1>2, RecoveryWorldStep

(* What people do in quiet times, and what the raid does. *)
LEMMA RecoveryPeopleFine ==
    ASSUME RecoveryInv, NEW r \in Thing, R!Create(r) \/ R!Delete(r) \/ R!Damage(r) PROVE RecoveryInv'
<1>0. /\ UNCHANGED <<r_stage, R!stored, r_worker, r_unsaved, r_faults>>
      /\ r_stage \in {"calm", "raid"} /\ r_live \in RecoveryLives /\ r_before \in R!Set0
      /\ r_before' \in {r_before, r_before \ {r}}
      /\ \E to \in {"there", "gone"} : r_live' = [r_live EXCEPT ![r] = to]
      /\ r_stage = "calm" => \/ r_before' = r_before /\ r_live'[r] = "there"
                             \/ r_before' = r_before \ {r}
  BY DEF R!Create, R!Delete, R!Damage, RecoveryInv, R!TypeOK, RecoveryLives, R!stored
<1>1. r_live' \in RecoveryLives /\ (\A q \in Thing : q # r => r_live'[q] = r_live[q])
  BY <1>0 DEF RecoveryLives
<1>2. RecoveryTyped' /\ RecoveryOnward /\ r_before' \subseteq r_before
  BY <1>0, <1>1 DEF RecoveryInv, R!TypeOK, RecoveryTyped, RecoveryStages, RecoveryBases, RecoveryOnward,
      R!stored, R!Set0
<1>3. RecoveryCalmIsThere'
  BY <1>0, <1>1 DEF RecoveryInv, RecoveryCalmIsThere, R!Set0
<1>4. RecoveryStoredIsWhole'
  BY <1>0, <1>2 DEF RecoveryInv, RecoveryStoredIsWhole, R!stored
<1>5. RecoveryOpsAreGood' /\ RecoveryMarksHold
  BY <1>0 DEF RecoveryInv, RecoveryOpsAreGood, RecoveryMarksHold, RecoveryLate, R!stored
<1> QED
  BY <1>0, <1>2, <1>3, <1>4, <1>5, RecoveryWorldStep

LEMMA RecoveryCrashFine == ASSUME R!RecoveryAssumption, RecoveryInv, R!Crash PROVE RecoveryInv'
<1>0. /\ UNCHANGED <<r_stage, R!server, R!stored, r_unsaved>> /\ r_worker' = [w \in Task |-> R!Idle]
      /\ r_faults' \in 0 .. MaxFaults
  BY RecoveryFaultTypes DEF R!Crash, RecoveryInv
<1>1. r_worker' \in [Task -> R!Call] /\ \A w \in Task : r_worker'[w].pc = "idle"
  BY <1>0, RecoveryIdleTypes
<1>2. R!TypeOK'
  BY <1>0, <1>1 DEF RecoveryInv, R!TypeOK, R!server, R!stored
<1>3. RecoveryCalmIsThere' /\ RecoveryStoredIsWhole' /\ RecoveryOpsAreGood'
  BY <1>0, RecoverySame
<1>4. \A w \in Task : RecoveryCopyIsWhole(w)' /\ RecoveryWorkIsGood(w)'
  BY <1>1, RecoveryElsewhere
<1> QED
  BY <1>2, <1>3, <1>4 DEF RecoveryInv

LEMMA RecoveryInit == ASSUME R!RecoveryAssumption, R!Init PROVE RecoveryInv
<1>1. R!TypeOK
  <2>1. r_worker \in [Task -> R!Call] /\ r_ops \in [Thing -> R!Op] /\ r_snap \in R!Snap
    BY RecoveryIdleTypes DEF R!Init
  <2>2. R!There \in R!Set0 /\ FALSE \in BOOLEAN
    BY DEF R!Set0, R!There
  <2>3. r_base \in [set : R!Set0, late : BOOLEAN, frozen : BOOLEAN]
    BY <2>2 DEF R!Init
  <2>4. r_live \in [Thing -> {"none", "there", "gone", "again"}]
    BY DEF R!Init
  <2>5. r_stage = "calm" /\ r_before \in R!Set0 /\ r_unsaved \in BOOLEAN
    BY <2>2 DEF R!Init
  <2>6. r_faults \in 0 .. MaxFaults
    BY DEF R!Init, R!RecoveryAssumption
  <2> QED
    BY <2>1, <2>3, <2>4, <2>5, <2>6 DEF R!TypeOK
<1>2. RecoveryCalmIsThere /\ RecoveryStoredIsWhole /\ RecoveryOpsAreGood
  BY DEF R!Init, R!There, RecoveryCalmIsThere, RecoveryStoredIsWhole, RecoveryOpsAreGood, R!NoSnap
<1>3. \A w \in Task : RecoveryCopyIsWhole(w) /\ RecoveryWorkIsGood(w)
  BY RecoveryIdleTypes
  DEF R!Init, RecoveryCopyIsWhole, RecoveryWorkIsGood, RecoveryRestores, RecoveryApplies, RecoveryMarks
<1> QED
  BY <1>1, <1>2, <1>3 DEF RecoveryInv

LEMMA RecoveryStays == ASSUME RecoveryInv, UNCHANGED R!vars PROVE RecoveryInv'
<1>1. UNCHANGED <<r_stage, R!server, R!stored, r_unsaved, r_worker>> /\ r_faults' \in 0 .. MaxFaults
  BY DEF R!vars, RecoveryInv, R!TypeOK
<1> QED
  BY <1>1, RecoverySame, RecoveryWorldStep

LEMMA RecoveryNext == ASSUME R!RecoveryAssumption, RecoveryInv, [R!Next]_(R!vars) PROVE RecoveryInv'
BY RecoveryRefreshFine, RecoveryTakeFine, RecoveryWriteBaselineFine, RecoveryStoreFine, RecoveryReadFine,
   RecoverySurveyFine, RecoverySavePlanFine, RecoveryApplyFine, RecoveryMarkReadFine, RecoveryMarkWriteFine,
   RecoveryReadBackFine, RecoveryResolveFine, RecoveryReleaseFine, RecoveryGiveUpFine, RecoveryFreezeFine,
   RecoveryStageFine, RecoveryPeopleFine, RecoveryCrashFine, RecoveryStays DEF R!Next

(* What is stored of a raid has, when it was captured before, all that     *)
(* people had then, and what its plan calls done is there while no plan    *)
(* failed to be saved (planRecovery, applyOperation).                      *)
THEOREM RecoveryInvariant == ASSUME R!RecoveryAssumption PROVE R!Spec => []RecoveryInv
<1>1. R!Init => RecoveryInv
  BY RecoveryInit
<1>2. RecoveryInv /\ [R!Next]_(R!vars) => RecoveryInv'
  BY RecoveryNext
<1> QED
  BY <1>1, <1>2, PTL DEF R!Spec

(* The step that closes the incident is a worker's that has no operation   *)
(* left.                                                                   *)
LEMMA RecoveryClosesWhole ==
    ASSUME RecoveryInv, [R!Next]_(R!vars), r_stage = "recovery", r_stage' = "closed", ~r_unsaved
    PROVE  \A r \in R!Owed : R!Exists(r)
<1>1. PICK w \in Task : R!Resolve(w)
  BY DEF R!Next, R!vars, R!Refresh, R!Take, R!WriteBaseline, R!Choose, R!CaptureLive, R!StoreSnapshot, R!Read,
     R!Survey, R!SavePlan, R!Apply, R!MarkRead, R!MarkWrite, R!ReadBack, R!ReleaseBaseline, R!GiveUp, R!Create,
     R!Delete, R!Open, R!FreezeBaseline, R!Damage, R!Recover, R!Crash
<1>2. RecoveryBack
  BY <1>1 DEF R!Resolve, R!At, RecoveryInv, RecoveryWorkIsGood
<1>3. R!Owed \subseteq r_snap.set
  BY DEF R!Owed, RecoveryInv, RecoveryStoredIsWhole
<1> QED
  BY <1>2, <1>3 DEF RecoveryBack, R!Exists, RecoveryHere

-----------------------------------------------------------------------------
(* The lock of a channel.  While nothing was told nor cut short, what      *)
(* Discord shows is what is stored, but for what a command or a recorded   *)
(* divergence says of it.                                                  *)
LockPlaces == {"none", "edit", "persist", "revert", "record", "notice", "unpersist", "unedit"}
LockSteps == {"idle", "read", "edit", "persist", "close"}
LockBudgets == [commands : 0 .. MaxLockCommands, faults : 0 .. MaxLockFaults, hands : 0 .. MaxHands]

(* What a command or a recorded divergence says of what is stored, told or *)
(* not, cut short or not.                                                  *)
LockCommandShape ==
    /\ ~l_record.present
    /\ l_stored \in {L!Unlocked, l_command.previous}
    /\ l_command.pc \in {"edit", "persist"} => (l_stored = L!Unlocked <=> l_command.lock)
    /\ l_command.pc \in {"notice", "unpersist", "unedit"} => l_command.lock
    /\ l_command.pc \in {"notice", "unpersist"} => l_stored # L!Unlocked
LockRecordShape ==
    /\ l_stored \in {L!Unlocked, l_record.previous}
    /\ l_record.lock => l_record.diverged = l_record.previous /\ l_record.desired = "deny"
    /\ ~l_record.lock => l_record.diverged = "deny" /\ l_record.desired = l_record.previous
LockShape ==
    /\ l_worker.pc # "idle" => l_command.pc = "none" /\ l_record.present /\ l_worker.record = l_record
    /\ l_command.pc # "none" => LockCommandShape
    /\ l_record.present => LockRecordShape

(* A channel at rest. *)
LockAtRestAgree ==
    /\ l_stored \in {L!Unlocked, l_open}
    /\ IF l_stored = L!Unlocked THEN l_perm = l_open ELSE l_perm \in {"deny", l_shut}

(* A command: what it has edited and what it will put back. *)
LockCommandAgrees ==
    /\ l_command.previous = l_open
    /\ l_command.pc = "edit" => LockAtRestAgree
    /\ l_command.pc \in {"persist", "revert"} => l_perm = (IF l_command.lock THEN "deny" ELSE l_open)
    /\ l_command.pc = "record" => l_perm \in {"deny", l_open}
    /\ l_command.pc \in {"notice", "unpersist", "unedit"} => l_perm = "deny"
    /\ l_command.pc = "unedit" => l_stored = L!Unlocked

(* A divergence: what the recovery will restore, or has; or a moderator    *)
(* has given the channel another permission since.                         *)
LockToRestore ==
    /\ l_perm \in {"deny", l_record.previous} /\ l_open = l_record.previous
    /\ l_worker.pc \in {"persist", "close"} => l_perm = l_record.desired
    /\ l_worker.pc = "close" => l_stored = (IF l_record.lock THEN l_record.previous ELSE L!Unlocked)
LockSuperseded ==
    /\ l_perm \notin {"deny", l_record.previous} /\ LockAtRestAgree
    /\ l_worker.pc \notin {"edit", "persist"}
LockRecordAgrees == LockToRestore \/ LockSuperseded

LockAgree ==
    /\ L!AtRest /\ ~l_record.present => LockAtRestAgree
    /\ l_command.pc # "none" => LockCommandAgrees
    /\ l_record.present => LockRecordAgrees

LockPermissions ==
    /\ {l_perm, l_open, l_shut} \subseteq L!PermissionState
    /\ l_stored \in L!PermissionState \cup {L!Unlocked}
LockCommandTyped == l_command \in [pc : LockPlaces, lock : BOOLEAN, previous : L!PermissionState]

LockInv == L!TypeOK /\ LockShape /\ (~l_told /\ ~l_cut => LockAgree)

LEMMA LockNoRecordType == L!NoRecord \in L!Record
<1>1. FALSE \in BOOLEAN /\ "inherit" \in L!PermissionState
  BY DEF L!PermissionState
<1> QED
  BY <1>1, Zenon DEF L!NoRecord, L!Record

LEMMA LockSpendTypes ==
    ASSUME L!LockAssumption, L!TypeOK
    PROVE  /\ L!Spend("commands", MaxLockCommands) => l_budget' \in LockBudgets
           /\ L!Fault => l_budget' \in LockBudgets
           /\ L!Spend("hands", MaxHands) => l_budget' \in LockBudgets
BY DEF L!LockAssumption, L!TypeOK, L!Spend, L!Fault, LockBudgets

LEMMA LockBeginHolds == ASSUME L!LockAssumption, LockInv, NEW lock \in BOOLEAN, L!Begin(lock) PROVE LockInv'
<1> USE DEF LockInv, L!TypeOK, L!Moderation, L!Words, L!Goto, L!WorkerAt, L!AtRest, L!PermissionState, L!Unlocked,
      LockPermissions, LockCommandTyped
<1>1. L!TypeOK'
  <2>1. LockPermissions'
    BY DEF L!Begin, L!Record
  <2>2. l_record' \in L!Record
    BY DEF L!Begin
  <2>3. LockCommandTyped'
    BY DEF L!Begin, LockPlaces
  <2>4. l_worker' \in [pc : LockSteps, record : L!Record]
    BY DEF L!Begin, LockSteps
  <2>5. {l_told, l_cut}' \subseteq BOOLEAN
    BY DEF L!Begin
  <2>6. l_budget' \in LockBudgets
    BY LockSpendTypes DEF L!Begin, LockBudgets
  <2> QED
    BY <2>1, <2>2, <2>3, <2>4, <2>5, <2>6 DEF LockPlaces, LockSteps, LockBudgets
<1>2. LockShape'
  BY DEF L!Begin, LockShape, LockCommandShape, LockRecordShape, L!Record, L!NoRecord
<1>3. (~l_told /\ ~l_cut)' => LockAgree'
  BY DEF L!Begin, LockShape, LockCommandShape, LockRecordShape, LockAgree, LockAtRestAgree,
      LockCommandAgrees, LockRecordAgrees, LockToRestore, LockSuperseded, L!Record, L!NoRecord
<1> QED
  BY <1>1, <1>2, <1>3 DEF LockInv

LEMMA LockEditOverwriteHolds == ASSUME L!LockAssumption, LockInv, L!EditOverwrite PROVE LockInv'
<1> USE DEF LockInv, L!TypeOK, L!Moderation, L!Words, L!Goto, L!WorkerAt, L!AtRest, L!PermissionState, L!Unlocked,
      LockPermissions, LockCommandTyped
<1>1. L!TypeOK'
  <2>1. LockPermissions'
    BY DEF L!EditOverwrite, L!Record
  <2>2. l_record' \in L!Record
    BY DEF L!EditOverwrite
  <2>3. LockCommandTyped'
    BY DEF L!EditOverwrite, LockPlaces
  <2>4. l_worker' \in [pc : LockSteps, record : L!Record]
    BY DEF L!EditOverwrite, LockSteps
  <2>5. {l_told, l_cut}' \subseteq BOOLEAN
    BY DEF L!EditOverwrite
  <2>6. l_budget' \in LockBudgets
    BY LockSpendTypes DEF L!EditOverwrite, LockBudgets
  <2> QED
    BY <2>1, <2>2, <2>3, <2>4, <2>5, <2>6 DEF LockPlaces, LockSteps, LockBudgets
<1>2. LockShape'
  BY DEF L!EditOverwrite, LockShape, LockCommandShape, LockRecordShape, L!Record, L!NoRecord
<1>3. (~l_told /\ ~l_cut)' => LockAgree'
  BY DEF L!EditOverwrite, LockShape, LockCommandShape, LockRecordShape, LockAgree, LockAtRestAgree,
      LockCommandAgrees, LockRecordAgrees, LockToRestore, LockSuperseded, L!Record, L!NoRecord
<1> QED
  BY <1>1, <1>2, <1>3 DEF LockInv

LEMMA LockPersistStateHolds == ASSUME L!LockAssumption, LockInv, L!PersistState PROVE LockInv'
<1> USE DEF LockInv, L!TypeOK, L!Moderation, L!Words, L!Goto, L!WorkerAt, L!AtRest, L!PermissionState, L!Unlocked,
      LockPermissions, LockCommandTyped
<1>1. L!TypeOK'
  <2>1. LockPermissions'
    BY DEF L!PersistState, L!Record
  <2>2. l_record' \in L!Record
    BY DEF L!PersistState
  <2>3. LockCommandTyped'
    BY DEF L!PersistState, LockPlaces
  <2>4. l_worker' \in [pc : LockSteps, record : L!Record]
    BY DEF L!PersistState, LockSteps
  <2>5. {l_told, l_cut}' \subseteq BOOLEAN
    BY DEF L!PersistState
  <2>6. l_budget' \in LockBudgets
    BY LockSpendTypes DEF L!PersistState, LockBudgets
  <2> QED
    BY <2>1, <2>2, <2>3, <2>4, <2>5, <2>6 DEF LockPlaces, LockSteps, LockBudgets
<1>2. LockShape'
  BY DEF L!PersistState, LockShape, LockCommandShape, LockRecordShape, L!Record, L!NoRecord
<1>3. (~l_told /\ ~l_cut)' => LockAgree'
  BY DEF L!PersistState, LockShape, LockCommandShape, LockRecordShape, LockAgree, LockAtRestAgree,
      LockCommandAgrees, LockRecordAgrees, LockToRestore, LockSuperseded, L!Record, L!NoRecord
<1> QED
  BY <1>1, <1>2, <1>3 DEF LockInv

LEMMA LockRevertOverwriteHolds == ASSUME L!LockAssumption, LockInv, L!RevertOverwrite PROVE LockInv'
<1> USE DEF LockInv, L!TypeOK, L!Moderation, L!Words, L!Goto, L!WorkerAt, L!AtRest, L!PermissionState, L!Unlocked,
      LockPermissions, LockCommandTyped
<1>1. L!TypeOK'
  <2>1. LockPermissions'
    BY DEF L!RevertOverwrite, L!Record
  <2>2. l_record' \in L!Record
    BY DEF L!RevertOverwrite
  <2>3. LockCommandTyped'
    BY DEF L!RevertOverwrite, LockPlaces
  <2>4. l_worker' \in [pc : LockSteps, record : L!Record]
    BY DEF L!RevertOverwrite, LockSteps
  <2>5. {l_told, l_cut}' \subseteq BOOLEAN
    BY DEF L!RevertOverwrite
  <2>6. l_budget' \in LockBudgets
    BY LockSpendTypes DEF L!RevertOverwrite, LockBudgets
  <2> QED
    BY <2>1, <2>2, <2>3, <2>4, <2>5, <2>6 DEF LockPlaces, LockSteps, LockBudgets
<1>2. LockShape'
  BY DEF L!RevertOverwrite, LockShape, LockCommandShape, LockRecordShape, L!Record, L!NoRecord
<1>3. (~l_told /\ ~l_cut)' => LockAgree'
  BY DEF L!RevertOverwrite, LockShape, LockCommandShape, LockRecordShape, LockAgree, LockAtRestAgree,
      LockCommandAgrees, LockRecordAgrees, LockToRestore, LockSuperseded, L!Record, L!NoRecord
<1> QED
  BY <1>1, <1>2, <1>3 DEF LockInv

LEMMA LockRecordDivergenceHolds == ASSUME L!LockAssumption, LockInv, L!RecordDivergence PROVE LockInv'
<1> USE DEF LockInv, L!TypeOK, L!Moderation, L!Words, L!Goto, L!WorkerAt, L!AtRest, L!PermissionState, L!Unlocked,
      LockPermissions, LockCommandTyped
<1>1. L!TypeOK'
  <2>1. LockPermissions'
    BY DEF L!RecordDivergence, L!Record
  <2>2. l_record' \in L!Record
    <3>1. CASE UNCHANGED l_record
      BY <3>1
    <3>2. CASE ~UNCHANGED l_record
      <4> DEFINE to == IF l_command.lock THEN "deny" ELSE l_command.previous
                 want == IF l_command.lock THEN l_command.previous ELSE "deny"
      <4>1. l_record' = [present |-> TRUE, previous |-> l_command.previous, lock |-> ~l_command.lock,
                         diverged |-> to, desired |-> want]
        BY <3>2 DEF L!RecordDivergence
      <4>2. l_command.previous \in L!PermissionState /\ to \in L!PermissionState /\ want \in L!PermissionState
        OBVIOUS
      <4> HIDE DEF to, want
      <4>3. TRUE \in BOOLEAN /\ (~l_command.lock) \in BOOLEAN
        OBVIOUS
      <4> QED
        BY <4>1, <4>2, <4>3, Zenon DEF L!Record
    <3> QED
      BY <3>1, <3>2
  <2>3. LockCommandTyped'
    BY DEF L!RecordDivergence, LockPlaces
  <2>4. l_worker' \in [pc : LockSteps, record : L!Record]
    BY DEF L!RecordDivergence, LockSteps
  <2>5. {l_told, l_cut}' \subseteq BOOLEAN
    BY DEF L!RecordDivergence
  <2>6. l_budget' \in LockBudgets
    BY LockSpendTypes DEF L!RecordDivergence, LockBudgets
  <2> QED
    BY <2>1, <2>2, <2>3, <2>4, <2>5, <2>6 DEF LockPlaces, LockSteps, LockBudgets
<1>2. LockShape'
  <2>1. /\ l_command.pc = "record" /\ ~l_record.present /\ l_worker.pc = "idle" /\ l_command'.pc = "none"
        /\ l_stored \in {L!Unlocked, l_command.previous} /\ UNCHANGED <<l_worker, l_stored>>
    BY DEF LockShape, LockCommandShape, L!RecordDivergence
  <2>2. CASE UNCHANGED l_record
    BY <2>1, <2>2 DEF LockShape
  <2>3. CASE ~UNCHANGED l_record
    <3>1. /\ l_record'.lock = ~l_command.lock /\ l_record'.previous = l_command.previous
          /\ l_record'.diverged = (IF l_command.lock THEN "deny" ELSE l_command.previous)
          /\ l_record'.desired = (IF l_command.lock THEN l_command.previous ELSE "deny")
      BY <2>3 DEF L!RecordDivergence
    <3>2. LockRecordShape'
      BY <2>1, <3>1 DEF LockRecordShape
    <3> QED
      BY <2>1, <3>2 DEF LockShape
  <2> QED
    BY <2>2, <2>3
<1>3. (~l_told /\ ~l_cut)' => LockAgree'
  BY DEF L!RecordDivergence, LockShape, LockCommandShape, LockRecordShape, LockAgree, LockAtRestAgree,
      LockCommandAgrees, LockRecordAgrees, LockToRestore, LockSuperseded, L!Record, L!NoRecord
<1> QED
  BY <1>1, <1>2, <1>3 DEF LockInv

LEMMA LockSendNoticeHolds == ASSUME L!LockAssumption, LockInv, L!SendNotice PROVE LockInv'
<1> USE DEF LockInv, L!TypeOK, L!Moderation, L!Words, L!Goto, L!WorkerAt, L!AtRest, L!PermissionState, L!Unlocked,
      LockPermissions, LockCommandTyped
<1>1. L!TypeOK'
  <2>1. LockPermissions'
    BY DEF L!SendNotice, L!Record
  <2>2. l_record' \in L!Record
    BY DEF L!SendNotice
  <2>3. LockCommandTyped'
    BY DEF L!SendNotice, LockPlaces
  <2>4. l_worker' \in [pc : LockSteps, record : L!Record]
    BY DEF L!SendNotice, LockSteps
  <2>5. {l_told, l_cut}' \subseteq BOOLEAN
    BY DEF L!SendNotice
  <2>6. l_budget' \in LockBudgets
    BY LockSpendTypes DEF L!SendNotice, LockBudgets
  <2> QED
    BY <2>1, <2>2, <2>3, <2>4, <2>5, <2>6 DEF LockPlaces, LockSteps, LockBudgets
<1>2. LockShape'
  BY DEF L!SendNotice, LockShape, LockCommandShape, LockRecordShape, L!Record, L!NoRecord
<1>3. (~l_told /\ ~l_cut)' => LockAgree'
  BY DEF L!SendNotice, LockShape, LockCommandShape, LockRecordShape, LockAgree, LockAtRestAgree,
      LockCommandAgrees, LockRecordAgrees, LockToRestore, LockSuperseded, L!Record, L!NoRecord
<1> QED
  BY <1>1, <1>2, <1>3 DEF LockInv

LEMMA LockRevertPersistenceHolds == ASSUME L!LockAssumption, LockInv, L!RevertPersistence PROVE LockInv'
<1> USE DEF LockInv, L!TypeOK, L!Moderation, L!Words, L!Goto, L!WorkerAt, L!AtRest, L!PermissionState, L!Unlocked,
      LockPermissions, LockCommandTyped
<1>1. L!TypeOK'
  <2>1. LockPermissions'
    BY DEF L!RevertPersistence, L!Record
  <2>2. l_record' \in L!Record
    BY DEF L!RevertPersistence
  <2>3. LockCommandTyped'
    BY DEF L!RevertPersistence, LockPlaces
  <2>4. l_worker' \in [pc : LockSteps, record : L!Record]
    BY DEF L!RevertPersistence, LockSteps
  <2>5. {l_told, l_cut}' \subseteq BOOLEAN
    BY DEF L!RevertPersistence
  <2>6. l_budget' \in LockBudgets
    BY LockSpendTypes DEF L!RevertPersistence, LockBudgets
  <2> QED
    BY <2>1, <2>2, <2>3, <2>4, <2>5, <2>6 DEF LockPlaces, LockSteps, LockBudgets
<1>2. LockShape'
  BY DEF L!RevertPersistence, LockShape, LockCommandShape, LockRecordShape, L!Record, L!NoRecord
<1>3. (~l_told /\ ~l_cut)' => LockAgree'
  BY DEF L!RevertPersistence, LockShape, LockCommandShape, LockRecordShape, LockAgree, LockAtRestAgree,
      LockCommandAgrees, LockRecordAgrees, LockToRestore, LockSuperseded, L!Record, L!NoRecord
<1> QED
  BY <1>1, <1>2, <1>3 DEF LockInv

LEMMA LockRevertNoticeHolds == ASSUME L!LockAssumption, LockInv, L!RevertNotice PROVE LockInv'
<1> USE DEF LockInv, L!TypeOK, L!Moderation, L!Words, L!Goto, L!WorkerAt, L!AtRest, L!PermissionState, L!Unlocked,
      LockPermissions, LockCommandTyped
<1>1. L!TypeOK'
  <2>1. LockPermissions'
    BY DEF L!RevertNotice, L!Record
  <2>2. l_record' \in L!Record
    BY DEF L!RevertNotice
  <2>3. LockCommandTyped'
    BY DEF L!RevertNotice, LockPlaces
  <2>4. l_worker' \in [pc : LockSteps, record : L!Record]
    BY DEF L!RevertNotice, LockSteps
  <2>5. {l_told, l_cut}' \subseteq BOOLEAN
    BY DEF L!RevertNotice
  <2>6. l_budget' \in LockBudgets
    BY LockSpendTypes DEF L!RevertNotice, LockBudgets
  <2> QED
    BY <2>1, <2>2, <2>3, <2>4, <2>5, <2>6 DEF LockPlaces, LockSteps, LockBudgets
<1>2. LockShape'
  BY DEF L!RevertNotice, LockShape, LockCommandShape, LockRecordShape, L!Record, L!NoRecord
<1>3. (~l_told /\ ~l_cut)' => LockAgree'
  BY DEF L!RevertNotice, LockShape, LockCommandShape, LockRecordShape, LockAgree, LockAtRestAgree,
      LockCommandAgrees, LockRecordAgrees, LockToRestore, LockSuperseded, L!Record, L!NoRecord
<1> QED
  BY <1>1, <1>2, <1>3 DEF LockInv

LEMMA LockEditByHandHolds ==
  ASSUME L!LockAssumption, LockInv, NEW s \in L!PermissionState, L!EditByHand(s)
  PROVE  LockInv'
<1> USE DEF LockInv, L!TypeOK, L!Moderation, L!Words, L!Goto, L!WorkerAt, L!AtRest, L!PermissionState, L!Unlocked,
      LockPermissions, LockCommandTyped
<1>1. L!TypeOK'
  <2>1. LockPermissions'
    BY DEF L!EditByHand, L!Record
  <2>2. l_record' \in L!Record
    BY DEF L!EditByHand
  <2>3. LockCommandTyped'
    BY DEF L!EditByHand, LockPlaces
  <2>4. l_worker' \in [pc : LockSteps, record : L!Record]
    BY DEF L!EditByHand, LockSteps
  <2>5. {l_told, l_cut}' \subseteq BOOLEAN
    BY DEF L!EditByHand
  <2>6. l_budget' \in LockBudgets
    BY LockSpendTypes DEF L!EditByHand, LockBudgets
  <2> QED
    BY <2>1, <2>2, <2>3, <2>4, <2>5, <2>6 DEF LockPlaces, LockSteps, LockBudgets
<1>2. LockShape'
  BY DEF L!EditByHand, LockShape, LockCommandShape, LockRecordShape, L!Record, L!NoRecord
<1>3. (~l_told /\ ~l_cut)' => LockAgree'
  BY DEF L!EditByHand, LockShape, LockCommandShape, LockRecordShape, LockAgree, LockAtRestAgree,
      LockCommandAgrees, LockRecordAgrees, LockToRestore, LockSuperseded, L!Record, L!NoRecord
<1> QED
  BY <1>1, <1>2, <1>3 DEF LockInv

LEMMA LockCrashHolds == ASSUME L!LockAssumption, LockInv, L!Crash PROVE LockInv'
<1> USE DEF LockInv, L!TypeOK, L!Moderation, L!Words, L!Goto, L!WorkerAt, L!AtRest, L!PermissionState, L!Unlocked,
      LockPermissions, LockCommandTyped
<1>1. L!TypeOK'
  <2>1. LockPermissions'
    BY DEF L!Crash, L!Record
  <2>2. l_record' \in L!Record
    BY DEF L!Crash
  <2>3. LockCommandTyped'
    BY DEF L!Crash, LockPlaces
  <2>4. l_worker' \in [pc : LockSteps, record : L!Record]
    BY DEF L!Crash, LockSteps
  <2>5. {l_told, l_cut}' \subseteq BOOLEAN
    BY DEF L!Crash
  <2>6. l_budget' \in LockBudgets
    BY LockSpendTypes DEF L!Crash, LockBudgets
  <2> QED
    BY <2>1, <2>2, <2>3, <2>4, <2>5, <2>6 DEF LockPlaces, LockSteps, LockBudgets
<1>2. LockShape'
  BY DEF L!Crash, LockShape, LockCommandShape, LockRecordShape, L!Record, L!NoRecord
<1>3. (~l_told /\ ~l_cut)' => LockAgree'
  BY DEF L!Crash, LockShape, LockCommandShape, LockRecordShape, LockAgree, LockAtRestAgree,
      LockCommandAgrees, LockRecordAgrees, LockToRestore, LockSuperseded, L!Record, L!NoRecord
<1> QED
  BY <1>1, <1>2, <1>3 DEF LockInv

LEMMA LockListRecoveryHolds == ASSUME L!LockAssumption, LockInv, L!ListRecovery PROVE LockInv'
<1> USE DEF LockInv, L!TypeOK, L!Moderation, L!Words, L!Goto, L!WorkerAt, L!AtRest, L!PermissionState, L!Unlocked,
      LockPermissions, LockCommandTyped
<1>1. L!TypeOK'
  <2>1. LockPermissions'
    BY DEF L!ListRecovery, L!Record
  <2>2. l_record' \in L!Record
    BY DEF L!ListRecovery
  <2>3. LockCommandTyped'
    BY DEF L!ListRecovery, LockPlaces
  <2>4. l_worker' \in [pc : LockSteps, record : L!Record]
    BY DEF L!ListRecovery, LockSteps
  <2>5. {l_told, l_cut}' \subseteq BOOLEAN
    BY DEF L!ListRecovery
  <2>6. l_budget' \in LockBudgets
    BY LockSpendTypes DEF L!ListRecovery, LockBudgets
  <2> QED
    BY <2>1, <2>2, <2>3, <2>4, <2>5, <2>6 DEF LockPlaces, LockSteps, LockBudgets
<1>2. LockShape'
  BY DEF L!ListRecovery, LockShape, LockCommandShape, LockRecordShape, L!Record, L!NoRecord
<1>3. (~l_told /\ ~l_cut)' => LockAgree'
  BY DEF L!ListRecovery, LockShape, LockCommandShape, LockRecordShape, LockAgree, LockAtRestAgree,
      LockCommandAgrees, LockRecordAgrees, LockToRestore, LockSuperseded, L!Record, L!NoRecord
<1> QED
  BY <1>1, <1>2, <1>3 DEF LockInv

LEMMA LockReadCurrentHolds == ASSUME L!LockAssumption, LockInv, L!ReadCurrent PROVE LockInv'
<1> USE DEF LockInv, L!TypeOK, L!Moderation, L!Words, L!Goto, L!WorkerAt, L!AtRest, L!PermissionState, L!Unlocked,
      LockPermissions, LockCommandTyped
<1>1. L!TypeOK'
  <2>1. LockPermissions'
    BY DEF L!ReadCurrent, L!Record
  <2>2. l_record' \in L!Record
    BY DEF L!ReadCurrent
  <2>3. LockCommandTyped'
    BY DEF L!ReadCurrent, LockPlaces
  <2>4. l_worker' \in [pc : LockSteps, record : L!Record]
    BY DEF L!ReadCurrent, LockSteps
  <2>5. {l_told, l_cut}' \subseteq BOOLEAN
    BY DEF L!ReadCurrent
  <2>6. l_budget' \in LockBudgets
    BY LockSpendTypes DEF L!ReadCurrent, LockBudgets
  <2> QED
    BY <2>1, <2>2, <2>3, <2>4, <2>5, <2>6 DEF LockPlaces, LockSteps, LockBudgets
<1>2. LockShape'
  BY DEF L!ReadCurrent, LockShape, LockCommandShape, LockRecordShape, L!Record, L!NoRecord
<1>3. (~l_told /\ ~l_cut)' => LockAgree'
  BY DEF L!ReadCurrent, LockShape, LockCommandShape, LockRecordShape, LockAgree, LockAtRestAgree,
      LockCommandAgrees, LockRecordAgrees, LockToRestore, LockSuperseded, L!Record, L!NoRecord
<1> QED
  BY <1>1, <1>2, <1>3 DEF LockInv

LEMMA LockRestoreOverwriteHolds == ASSUME L!LockAssumption, LockInv, L!RestoreOverwrite PROVE LockInv'
<1> USE DEF LockInv, L!TypeOK, L!Moderation, L!Words, L!Goto, L!WorkerAt, L!AtRest, L!PermissionState, L!Unlocked,
      LockPermissions, LockCommandTyped
<1>1. L!TypeOK'
  <2>1. LockPermissions'
    BY DEF L!RestoreOverwrite, L!Record
  <2>2. l_record' \in L!Record
    BY DEF L!RestoreOverwrite
  <2>3. LockCommandTyped'
    BY DEF L!RestoreOverwrite, LockPlaces
  <2>4. l_worker' \in [pc : LockSteps, record : L!Record]
    BY DEF L!RestoreOverwrite, LockSteps
  <2>5. {l_told, l_cut}' \subseteq BOOLEAN
    BY DEF L!RestoreOverwrite
  <2>6. l_budget' \in LockBudgets
    BY LockSpendTypes DEF L!RestoreOverwrite, LockBudgets
  <2> QED
    BY <2>1, <2>2, <2>3, <2>4, <2>5, <2>6 DEF LockPlaces, LockSteps, LockBudgets
<1>2. LockShape'
  BY DEF L!RestoreOverwrite, LockShape, LockCommandShape, LockRecordShape, L!Record, L!NoRecord
<1>3. (~l_told /\ ~l_cut)' => LockAgree'
  BY DEF L!RestoreOverwrite, LockShape, LockCommandShape, LockRecordShape, LockAgree, LockAtRestAgree,
      LockCommandAgrees, LockRecordAgrees, LockToRestore, LockSuperseded, L!Record, L!NoRecord
<1> QED
  BY <1>1, <1>2, <1>3 DEF LockInv

LEMMA LockPersistRestoredHolds == ASSUME L!LockAssumption, LockInv, L!PersistRestored PROVE LockInv'
<1> USE DEF LockInv, L!TypeOK, L!Moderation, L!Words, L!Goto, L!WorkerAt, L!AtRest, L!PermissionState, L!Unlocked,
      LockPermissions, LockCommandTyped
<1>1. L!TypeOK'
  <2>1. LockPermissions'
    BY DEF L!PersistRestored, L!Record
  <2>2. l_record' \in L!Record
    BY DEF L!PersistRestored
  <2>3. LockCommandTyped'
    BY DEF L!PersistRestored, LockPlaces
  <2>4. l_worker' \in [pc : LockSteps, record : L!Record]
    BY DEF L!PersistRestored, LockSteps
  <2>5. {l_told, l_cut}' \subseteq BOOLEAN
    BY DEF L!PersistRestored
  <2>6. l_budget' \in LockBudgets
    BY LockSpendTypes DEF L!PersistRestored, LockBudgets
  <2> QED
    BY <2>1, <2>2, <2>3, <2>4, <2>5, <2>6 DEF LockPlaces, LockSteps, LockBudgets
<1>2. LockShape'
  BY DEF L!PersistRestored, LockShape, LockCommandShape, LockRecordShape, L!Record, L!NoRecord
<1>3. (~l_told /\ ~l_cut)' => LockAgree'
  BY DEF L!PersistRestored, LockShape, LockCommandShape, LockRecordShape, LockAgree, LockAtRestAgree,
      LockCommandAgrees, LockRecordAgrees, LockToRestore, LockSuperseded, L!Record, L!NoRecord
<1> QED
  BY <1>1, <1>2, <1>3 DEF LockInv

LEMMA LockCloseRecoveryHolds == ASSUME L!LockAssumption, LockInv, L!CloseRecovery PROVE LockInv'
<1> USE DEF LockInv, L!TypeOK, L!Moderation, L!Words, L!Goto, L!WorkerAt, L!AtRest, L!PermissionState, L!Unlocked,
      LockPermissions, LockCommandTyped
<1>1. L!TypeOK'
  <2>1. LockPermissions'
    BY DEF L!CloseRecovery, L!Record
  <2>2. l_record' \in L!Record
    BY LockNoRecordType DEF L!CloseRecovery
  <2>3. LockCommandTyped'
    BY DEF L!CloseRecovery, LockPlaces
  <2>4. l_worker' \in [pc : LockSteps, record : L!Record]
    BY DEF L!CloseRecovery, LockSteps
  <2>5. {l_told, l_cut}' \subseteq BOOLEAN
    BY DEF L!CloseRecovery
  <2>6. l_budget' \in LockBudgets
    BY LockSpendTypes DEF L!CloseRecovery, LockBudgets
  <2> QED
    BY <2>1, <2>2, <2>3, <2>4, <2>5, <2>6 DEF LockPlaces, LockSteps, LockBudgets
<1>2. LockShape'
  BY DEF L!CloseRecovery, LockShape, LockCommandShape, LockRecordShape, L!Record, L!NoRecord
<1>3. (~l_told /\ ~l_cut)' => LockAgree'
  BY DEF L!CloseRecovery, LockShape, LockCommandShape, LockRecordShape, LockAgree, LockAtRestAgree,
      LockCommandAgrees, LockRecordAgrees, LockToRestore, LockSuperseded, L!Record, L!NoRecord
<1> QED
  BY <1>1, <1>2, <1>3 DEF LockInv

LEMMA LockInitInv == ASSUME L!LockAssumption, L!Init PROVE LockInv
<1>1. L!TypeOK
  <2>1. /\ {l_perm, l_open, l_shut} \subseteq L!PermissionState /\ l_stored \in L!PermissionState \cup {L!Unlocked}
        /\ l_record \in L!Record
    BY LockNoRecordType DEF L!Init, L!PermissionState, L!Unlocked
  <2>2. l_command \in [pc : LockPlaces, lock : BOOLEAN, previous : L!PermissionState]
    <3>1. "none" \in LockPlaces /\ FALSE \in BOOLEAN /\ "inherit" \in L!PermissionState
      BY DEF LockPlaces, L!PermissionState
    <3> QED
      BY <3>1, Zenon DEF L!Init, L!NoCommand
  <2>3. l_worker \in [pc : LockSteps, record : L!Record]
    BY LockNoRecordType DEF L!Init, LockSteps
  <2>4. {l_told, l_cut} \subseteq BOOLEAN
    BY DEF L!Init
  <2>5. l_budget \in LockBudgets
    BY DEF L!Init, L!LockAssumption, LockBudgets
  <2> QED
    BY <2>1, <2>2, <2>3, <2>4, <2>5 DEF L!TypeOK, LockPlaces, LockSteps, LockBudgets
<1>2. l_command.pc = "none" /\ ~l_record.present /\ l_worker.pc = "idle"
  BY DEF L!Init, L!NoCommand, L!NoRecord
<1>3. LockShape
  BY <1>2 DEF LockShape
<1>4. LockAgree
  BY <1>2 DEF LockAgree, L!Init, LockAtRestAgree
<1> QED
  BY <1>1, <1>3, <1>4 DEF LockInv

LEMMA LockNextInv == ASSUME L!LockAssumption, LockInv, [L!Next]_(L!vars) PROVE LockInv'
<1>1. CASE UNCHANGED L!vars
  BY <1>1 DEF L!vars, LockInv, L!TypeOK, LockShape, LockCommandShape, LockRecordShape, LockAgree, L!AtRest,
      LockAtRestAgree, LockCommandAgrees, LockRecordAgrees, LockToRestore, LockSuperseded
<1>2. CASE L!Next
  BY <1>2, LockBeginHolds, LockEditOverwriteHolds, LockPersistStateHolds, LockRevertOverwriteHolds,
      LockRecordDivergenceHolds, LockSendNoticeHolds, LockRevertPersistenceHolds, LockRevertNoticeHolds,
      LockEditByHandHolds, LockCrashHolds, LockListRecoveryHolds, LockReadCurrentHolds,
      LockRestoreOverwriteHolds, LockPersistRestoredHolds, LockCloseRecoveryHolds DEF L!Next, L!Recovery
<1> QED
  BY <1>1, <1>2

(* A channel at rest that is not stored as locked has the permission its   *)
(* moderators gave it, and one that is stored as locked is denied or as    *)
(* they opened it since, whatever writes, rollbacks and notices of         *)
(* /lock-channel failed, applied or not, wherever the recovery was ended   *)
(* and whatever the moderators did meanwhile, unless that is recorded or   *)
(* was told, or a command was cut short (`cut').                           *)
THEOREM LockInvariant == ASSUME L!LockAssumption PROVE L!Spec => [](LockInv /\ L!NothingSilent)
<1>1. L!Init => LockInv
  BY LockInitInv
<1>2. LockInv /\ [L!Next]_(L!vars) => LockInv'
  BY LockNextInv
<1>3. LockInv => L!NothingSilent
  BY DEF LockInv, LockAgree, LockAtRestAgree, L!NothingSilent
<1> QED
  BY <1>1, <1>2, <1>3, PTL DEF L!Spec

-----------------------------------------------------------------------------
(* The approvals of moderation.  Who has a claim on a request has it used, *)
(* and a batch that may still be granted holds what it claimed and an      *)
(* approval for each slice that it no longer looks for.                    *)
GuardDoc == [status : {"absent", "pending", "approved", "used"} \cup M!Final,
             slice : Slice, amount : 1 .. MaxAmount, claim : Task \cup {M!None}]
GuardBatch == [pc : M!InFlight \cup {"none", "granted", "refused", "crashed"},
               slice : Slice, need : [Slice -> Nat], todo : SUBSET Slice,
               found : SUBSET Thing, held : SUBSET Thing]
GuardEvent == [pc : {"new", "read", "write", "batch", "clear", "claim", "done"}, action : Slice, read : M!Window]

(* Who has a claim on a request has it used; a handler asks for a batch    *)
(* once; the windows are finite.                                           *)
GuardClaimsAreUses == \A r \in Thing : m_req[r].claim # M!None => m_req[r].status = "used"
GuardBatchIsLater == \A h \in Task : m_event[h].pc \in {"new", "read", "write"} => m_batch[h].pc = "none"
GuardWindowsAreFinite == M!IsFiniteSet(m_window.events) /\ \A h \in Task : M!IsFiniteSet(m_event[h].read.events)
GuardInv == M!TypeOK /\ GuardClaimsAreUses /\ GuardBatchIsLater /\ GuardWindowsAreFinite

(* A batch that may still be granted holds what it claimed, and holds an   *)
(* approval for each slice that it has not to look for; one that was       *)
(* granted was granted an approval for each.                               *)
GuardSeeking == {"find", "claim", "commit"}
GuardHeldAt(h) ==
    /\ m_batch[h].pc \in GuardSeeking \cup {"none"}
         => \A r \in Thing : m_req[r].claim = h <=> r \in m_batch[h].held
    /\ m_batch[h].pc = "none" => m_batch[h].held = {}
GuardSoughtAt(h) ==
    /\ m_batch[h].pc \in GuardSeeking
         => \A s \in Slice :
              m_batch[h].need[s] > 0
                => s \in m_batch[h].todo \/ \E r \in m_batch[h].held : M!Covers(r, s, m_batch[h].need[s])
    /\ m_batch[h].pc = "claim" => \A r \in m_batch[h].found :
         M!Covers(r, m_batch[h].slice, m_batch[h].need[m_batch[h].slice])
    /\ m_batch[h].pc = "commit" => m_batch[h].todo = {}
GuardWholeAt(h) ==
    m_batch[h].pc = "granted"
      => \A s \in Slice :
           m_batch[h].need[s] > 0 => \E r \in Thing : h \in m_granted[r] /\ M!Covers(r, s, m_batch[h].need[s])
GuardBatchFine(h) == GuardHeldAt(h) /\ GuardSoughtAt(h) /\ GuardWholeAt(h)
(* An approval that was granted is used up, and granted to one batch.      *)
GuardSpent(r) == m_req[r].status = "used" /\ m_req[r].claim = M!None
GuardSpentFine(r) ==
    /\ m_granted[r] # {} => GuardSpent(r)
    /\ \A h, k \in m_granted[r] : h = k
    /\ GuardSpent(r) => m_granted[r] # {} \/ m_unheard # {}
GuardGrantsFine == (\A h \in Task : GuardBatchFine(h)) /\ (\A r \in Thing : GuardSpentFine(r))
GuardGrantInv == GuardInv /\ GuardGrantsFine

GuardPlaces == M!InFlight \cup {"none", "granted", "refused", "crashed"}
GuardStatuses == {"absent", "pending", "approved", "used"} \cup M!Final

(* The library's facts, of the operators as the instance sees them.        *)
LEMMA GuardFinite == ASSUME NEW X PROVE M!Cardinality(X) = Cardinality(X) /\ M!IsFiniteSet(X) = IsFiniteSet(X)
BY DEF M!Cardinality, Cardinality, M!IsFiniteSet, IsFiniteSet

LEMMA GuardAddElement ==
    ASSUME NEW X, NEW x, M!IsFiniteSet(X)
    PROVE  /\ M!IsFiniteSet(X \cup {x})
           /\ x \in X => M!Cardinality(X \cup {x}) = M!Cardinality(X)
           /\ x \notin X => M!Cardinality(X \cup {x}) = M!Cardinality(X) + 1
BY FS_AddElement, GuardFinite

LEMMA GuardCardinalityType == ASSUME NEW X, M!IsFiniteSet(X) PROVE M!Cardinality(X) \in Nat
BY FS_CardinalityType, GuardFinite

LEMMA GuardEmptySet ==
    M!IsFiniteSet({}) /\ M!Cardinality({}) = 0 /\ \A X : M!IsFiniteSet(X) => (M!Cardinality(X) = 0 <=> X = {})
BY FS_EmptySet, GuardFinite

LEMMA GuardSingleton == ASSUME NEW x PROVE M!IsFiniteSet({x}) /\ M!Cardinality({x}) = 1
BY FS_Singleton, GuardFinite

LEMMA GuardSubset ==
    ASSUME NEW X, NEW Y \in SUBSET X, M!IsFiniteSet(X)
    PROVE  M!IsFiniteSet(Y) /\ M!Cardinality(Y) <= M!Cardinality(X)
BY FS_Subset, GuardFinite

LEMMA GuardTypes ==
    ASSUME M!TypeOK
    PROVE  /\ m_req \in [Thing -> GuardDoc] /\ m_batch \in [Task -> GuardBatch] /\ m_event \in [Task -> GuardEvent]
           /\ m_granted \in [Thing -> SUBSET Task] /\ m_unheard \subseteq Task /\ m_faults \in 0 .. MaxFaults
           /\ m_window \in M!Window /\ m_guard \in BOOLEAN /\ m_stopping \in BOOLEAN /\ m_sanctions \subseteq Task
BY DEF M!TypeOK, M!RequestTypeOK, GuardDoc, GuardBatch, GuardEvent

LEMMA GuardTyped ==
    ASSUME m_req \in [Thing -> GuardDoc], m_batch \in [Task -> GuardBatch], m_event \in [Task -> GuardEvent],
           m_granted \in [Thing -> SUBSET Task], m_unheard \subseteq Task, m_faults \in 0 .. MaxFaults,
           m_window \in M!Window, m_guard \in BOOLEAN, m_stopping \in BOOLEAN, m_sanctions \subseteq Task
    PROVE  M!TypeOK
BY DEF M!TypeOK, M!RequestTypeOK, GuardDoc, GuardBatch, GuardEvent

LEMMA GuardFaultTypes == ASSUME M!ThresholdAssumption, M!TypeOK, M!Fault PROVE m_faults' \in 0 .. MaxFaults
BY DEF M!ThresholdAssumption, M!PermissionAssumption, M!TypeOK, M!RequestTypeOK, M!Fault

(* One document moves, and the others stay. *)
LEMMA GuardDocPut ==
    ASSUME M!TypeOK, NEW r \in Thing, NEW d \in GuardDoc, m_req' = [m_req EXCEPT ![r] = d]
    PROVE  /\ m_req' \in [Thing -> GuardDoc] /\ m_req'[r] = d /\ \A q \in Thing : q # r => m_req'[q] = m_req[q]
BY GuardTypes

GuardSameDoc(r) == m_req'[r].slice = m_req[r].slice /\ m_req'[r].amount = m_req[r].amount

LEMMA GuardDocMoves ==
    ASSUME M!TypeOK, NEW r \in Thing, NEW to \in GuardStatuses, NEW who \in Task \cup {M!None},
           m_req' = [m_req EXCEPT ![r].status = to, ![r].claim = who]
    PROVE  /\ m_req' \in [Thing -> GuardDoc] /\ m_req'[r].status = to /\ m_req'[r].claim = who
           /\ \A q \in Thing : q # r => m_req'[q] = m_req[q]
           /\ \A q \in Thing : GuardSameDoc(q)
<1> DEFINE d == [m_req[r] EXCEPT !.status = to, !.claim = who]
<1>1. m_req[r] \in GuardDoc
  BY GuardTypes
<1>2. d \in GuardDoc /\ d.status = to /\ d.claim = who /\ d.slice = m_req[r].slice /\ d.amount = m_req[r].amount
  BY <1>1 DEF GuardDoc, GuardStatuses
<1>3. m_req' = [m_req EXCEPT ![r] = d]
  BY GuardTypes
<1> HIDE DEF d
<1> QED
  BY <1>2, <1>3, GuardDocPut DEF GuardSameDoc

LEMMA GuardStatusMoves ==
    ASSUME M!TypeOK, NEW r \in Thing, NEW to \in GuardStatuses, m_req' = [m_req EXCEPT ![r].status = to]
    PROVE  /\ m_req' \in [Thing -> GuardDoc] /\ m_req'[r].status = to /\ m_req'[r].claim = m_req[r].claim
           /\ \A q \in Thing : q # r => m_req'[q] = m_req[q]
           /\ \A q \in Thing : GuardSameDoc(q)
<1> DEFINE d == [m_req[r] EXCEPT !.status = to]
<1>1. m_req[r] \in GuardDoc
  BY GuardTypes
<1>2. /\ d \in GuardDoc /\ d.status = to /\ d.claim = m_req[r].claim /\ d.slice = m_req[r].slice
      /\ d.amount = m_req[r].amount
  BY <1>1 DEF GuardDoc, GuardStatuses
<1>3. m_req' = [m_req EXCEPT ![r] = d]
  BY GuardTypes
<1> HIDE DEF d
<1> QED
  BY <1>2, <1>3, GuardDocPut DEF GuardSameDoc

LEMMA GuardBatchMoves ==
    ASSUME M!TypeOK, NEW h \in Task, NEW b \in GuardBatch, m_batch' = [m_batch EXCEPT ![h] = b]
    PROVE  /\ m_batch' \in [Task -> GuardBatch] /\ m_batch'[h] = b
           /\ \A k \in Task : k # h => m_batch'[k] = m_batch[k]
BY DEF M!TypeOK, M!RequestTypeOK, GuardBatch

LEMMA GuardNoWindow == M!Empty \in M!Window /\ M!IsFiniteSet(M!Empty.events)
BY GuardEmptySet DEF M!Empty, M!Window

LEMMA GuardBatchGoes ==
    ASSUME M!TypeOK, NEW h \in Task, NEW pc \in GuardPlaces, M!Goto(h, pc)
    PROVE  /\ m_batch' \in [Task -> GuardBatch] /\ m_batch'[h].pc = pc
           /\ pc = "granted" => m_batch'[h].need = m_batch[h].need
           /\ \A k \in Task : k # h => m_batch'[k] = m_batch[k]
<1>1. m_batch \in [Task -> GuardBatch]
  BY GuardTypes
<1> DEFINE need == IF pc = "granted" THEN m_batch[h].need ELSE M!Nothing
           b == [pc |-> pc, need |-> need, todo |-> {}, slice |-> m_batch[h].slice, found |-> {}, held |-> {}]
<1>2. need \in [Slice -> Nat] /\ m_batch[h].slice \in Slice
  BY <1>1 DEF GuardBatch, M!Nothing
<1>3. m_batch' = [m_batch EXCEPT ![h] = b]
  BY <1>1 DEF M!Goto
<1>4. pc = "granted" => b.need = m_batch[h].need
  OBVIOUS
<1> HIDE DEF need
<1>5. b \in GuardBatch /\ b.pc = pc
  BY <1>2 DEF GuardBatch, GuardPlaces
<1> HIDE DEF b
<1> QED
  BY <1>3, <1>4, <1>5, GuardBatchMoves

(* A batch that a step does not touch. *)
LEMMA GuardBatchStays ==
    ASSUME NEW k \in Task, GuardBatchFine(k), m_batch'[k] = m_batch[k], M!TypeOK,
           \A r \in Thing : GuardSameDoc(r) /\ (m_req'[r].claim = k <=> m_req[r].claim = k)
             /\ (k \in m_granted[r] => k \in m_granted'[r])
    PROVE  GuardBatchFine(k)'
<1>1. m_batch[k] \in GuardBatch
  BY GuardTypes
<1>2. \A r \in Thing : \A s, n : M!Covers(r, s, n)' <=> M!Covers(r, s, n)
  BY DEF M!Covers, GuardSameDoc
<1>3. GuardHeldAt(k)'
  BY DEF GuardBatchFine, GuardHeldAt
<1>4. GuardSoughtAt(k)'
  BY <1>1, <1>2 DEF GuardBatchFine, GuardSoughtAt, M!Covers, GuardSameDoc, GuardBatch
<1>5. GuardWholeAt(k)'
  BY <1>1, <1>2 DEF GuardBatchFine, GuardWholeAt, M!Covers, GuardSameDoc, GuardBatch
<1> QED
  BY <1>3, <1>4, <1>5 DEF GuardBatchFine

(* A request that a step does not touch. *)
LEMMA GuardSpentStays ==
    ASSUME NEW r \in Thing, GuardSpentFine(r), m_granted'[r] = m_granted[r], m_unheard \subseteq m_unheard',
           GuardSpent(r)' <=> GuardSpent(r)
    PROVE  GuardSpentFine(r)'
BY DEF GuardSpentFine

(* A step of the guard alone. *)
LEMMA GuardEventMoves ==
    ASSUME GuardInv, NEW h \in Task, NEW e \in GuardEvent, m_event' = [m_event EXCEPT ![h] = e],
           e.pc \in {"new", "read", "write"} => m_event[h].pc \in {"new", "read", "write"},
           M!IsFiniteSet(e.read.events), M!IsFiniteSet(m_window'.events), UNCHANGED m_batch
    PROVE  m_event' \in [Task -> GuardEvent] /\ GuardBatchIsLater' /\ GuardWindowsAreFinite'
<1>1. /\ m_event' \in [Task -> GuardEvent] /\ m_event'[h] = e
      /\ \A k \in Task : k # h => m_event'[k] = m_event[k]
  BY GuardTypes DEF GuardInv
<1> QED
  BY <1>1 DEF GuardInv, GuardBatchIsLater, GuardWindowsAreFinite

LEMMA GuardRequestsRest ==
    ASSUME GuardInv, UNCHANGED <<m_req, m_batch, m_granted, m_unheard>>
    PROVE  GuardClaimsAreUses' /\ (GuardGrantsFine => GuardGrantsFine')
<1>1. GuardClaimsAreUses'
  BY DEF GuardInv, GuardClaimsAreUses
<1>2. ASSUME GuardGrantsFine, NEW k \in Task PROVE GuardBatchFine(k)'
  BY <1>2, GuardBatchStays DEF GuardGrantsFine, GuardInv, GuardSameDoc
<1>3. ASSUME GuardGrantsFine, NEW r \in Thing PROVE GuardSpentFine(r)'
  BY <1>3, GuardSpentStays DEF GuardGrantsFine, GuardSpent
<1> QED
  BY <1>1, <1>2, <1>3 DEF GuardGrantsFine

LEMMA GuardReadSituationFine == ASSUME M!ThresholdAssumption, GuardInv, NEW h \in Task, M!ReadSituation(h)
                                PROVE GuardInv' /\ (GuardGrantsFine => GuardGrantsFine')
<1> DEFINE e == [m_event[h] EXCEPT !.pc = IF m_guard THEN "read" ELSE "done", !.read = M!Empty]
<1>1. /\ m_event[h] \in GuardEvent /\ m_event[h].pc = "new" /\ M!IsFiniteSet(m_window.events)
  BY GuardTypes DEF M!ReadSituation, M!EventAt, GuardInv, GuardWindowsAreFinite
<1>2. e \in GuardEvent /\ M!IsFiniteSet(e.read.events)
  BY <1>1, GuardNoWindow DEF GuardEvent
<1>3. m_event' = [m_event EXCEPT ![h] = e] /\ UNCHANGED <<M!requestVars, m_window, m_guard, m_stopping, m_sanctions>>
  BY <1>1 DEF M!ReadSituation, M!EventGoto, GuardEvent
<1> HIDE DEF e
<1>4. m_event' \in [Task -> GuardEvent] /\ GuardBatchIsLater' /\ GuardWindowsAreFinite'
  BY <1>1, <1>2, <1>3, GuardEventMoves DEF M!requestVars
<1>5. M!TypeOK'
  BY <1>3, <1>4 DEF GuardInv, M!TypeOK, M!RequestTypeOK, M!requestVars, GuardEvent
<1> QED
  BY <1>3, <1>4, <1>5, GuardRequestsRest DEF GuardInv, M!requestVars

LEMMA GuardReadWindowFine == ASSUME M!ThresholdAssumption, GuardInv, NEW h \in Task, M!ReadWindow(h)
                             PROVE GuardInv' /\ (GuardGrantsFine => GuardGrantsFine')
<1> DEFINE e == [m_event[h] EXCEPT !.pc = "write", !.read = m_window]
<1>1. m_event[h] \in GuardEvent /\ m_event[h].pc = "read" /\ M!IsFiniteSet(m_window.events) /\ m_window \in M!Window
  BY GuardTypes DEF M!ReadWindow, M!EventAt, GuardInv, GuardWindowsAreFinite
<1>2. e \in GuardEvent /\ e.read = m_window
  BY <1>1 DEF GuardEvent
<1>3. m_event' = [m_event EXCEPT ![h] = e] /\ UNCHANGED <<M!requestVars, m_window, m_guard, m_stopping, m_sanctions>>
  BY GuardTypes DEF M!ReadWindow, GuardInv
<1> HIDE DEF e
<1>4. m_event' \in [Task -> GuardEvent] /\ GuardBatchIsLater' /\ GuardWindowsAreFinite'
  BY <1>1, <1>2, <1>3, GuardEventMoves DEF M!requestVars
<1>5. M!TypeOK'
  BY <1>3, <1>4 DEF GuardInv, M!TypeOK, M!RequestTypeOK, M!requestVars, GuardEvent
<1> QED
  BY <1>3, <1>4, <1>5, GuardRequestsRest DEF GuardInv, M!requestVars

(* The end of the event, whatever it does to the window.                   *)
LEMMA GuardEventEnds ==
    ASSUME M!ThresholdAssumption, GuardInv, NEW h \in Task, NEW pc \in {"clear", "claim", "done"}, M!EventGoto(h, pc),
           m_window' \in M!Window, M!IsFiniteSet(m_window'.events),
           UNCHANGED <<m_req, m_batch, m_granted, m_unheard, m_guard, m_stopping>>,
           m_faults' \in 0 .. MaxFaults, m_sanctions' \subseteq Task
    PROVE  GuardInv' /\ (GuardGrantsFine => GuardGrantsFine')
<1> DEFINE e == [m_event[h] EXCEPT !.pc = pc, !.read = M!Empty]
<1>1. m_event[h] \in GuardEvent
  BY GuardTypes DEF GuardInv
<1>2. e \in GuardEvent /\ M!IsFiniteSet(e.read.events) /\ e.pc = pc
  BY <1>1, GuardNoWindow DEF GuardEvent
<1>3. m_event' = [m_event EXCEPT ![h] = e]
  BY <1>1 DEF M!EventGoto, GuardEvent
<1> HIDE DEF e
<1>4. m_event' \in [Task -> GuardEvent] /\ GuardBatchIsLater' /\ GuardWindowsAreFinite'
  BY <1>1, <1>2, <1>3, GuardEventMoves
<1>5. M!TypeOK'
  BY <1>4 DEF GuardInv, M!TypeOK, M!RequestTypeOK, GuardEvent
<1> QED
  BY <1>4, <1>5, GuardRequestsRest DEF GuardInv

LEMMA GuardBatchOverFine == ASSUME M!ThresholdAssumption, GuardInv, NEW h \in Task, M!BatchOver(h)
                            PROVE GuardInv' /\ (GuardGrantsFine => GuardGrantsFine')
<1>1. /\ m_window' = m_window /\ m_sanctions' = m_sanctions /\ m_faults' = m_faults
      /\ UNCHANGED <<m_req, m_batch, m_granted, m_unheard, m_guard, m_stopping>>
  BY DEF M!BatchOver, M!requestVars
<1>2. /\ m_window \in M!Window /\ m_sanctions \subseteq Task /\ m_faults \in 0 .. MaxFaults
      /\ M!IsFiniteSet(m_window.events)
  BY GuardTypes DEF GuardInv, GuardWindowsAreFinite
<1>3. \E pc \in {"clear", "claim", "done"} : M!EventGoto(h, pc)
  BY DEF M!BatchOver
<1> QED
  BY <1>1, <1>2, <1>3, GuardEventEnds

LEMMA GuardClearFine == ASSUME M!ThresholdAssumption, GuardInv, NEW h \in Task, M!Clear(h)
                        PROVE GuardInv' /\ (GuardGrantsFine => GuardGrantsFine')
<1>1. /\ m_window \in M!Window /\ m_sanctions \subseteq Task /\ m_faults \in 0 .. MaxFaults
      /\ M!IsFiniteSet(m_window.events)
  BY GuardTypes DEF GuardInv, GuardWindowsAreFinite
<1>2. M!Empty \in M!Window /\ M!IsFiniteSet(M!Empty.events)
  BY GuardNoWindow
<1>3. /\ m_window' \in {m_window, M!Empty} /\ m_faults' \in 0 .. MaxFaults /\ m_sanctions' = m_sanctions
      /\ M!EventGoto(h, "done")
      /\ UNCHANGED <<m_req, m_batch, m_granted, m_unheard, m_guard, m_stopping>>
  BY <1>1, GuardFaultTypes DEF M!Clear, GuardInv
<1> QED
  BY <1>1, <1>2, <1>3, GuardEventEnds

LEMMA GuardClaimSanctionFine == ASSUME M!ThresholdAssumption, GuardInv, NEW h \in Task, M!ClaimSanction(h)
                                PROVE GuardInv' /\ (GuardGrantsFine => GuardGrantsFine')
<1>1. /\ m_window \in M!Window /\ m_sanctions \subseteq Task /\ m_faults \in 0 .. MaxFaults
      /\ M!IsFiniteSet(m_window.events)
  BY GuardTypes DEF GuardInv, GuardWindowsAreFinite
<1>2. /\ [m_window EXCEPT !.sanctioned = TRUE] \in M!Window
      /\ [m_window EXCEPT !.sanctioned = TRUE].events = m_window.events
  BY <1>1 DEF M!Window
<1>3. /\ m_window' \in {m_window, [m_window EXCEPT !.sanctioned = TRUE]} /\ m_faults' \in 0 .. MaxFaults
      /\ m_sanctions' \subseteq Task /\ M!EventGoto(h, "done")
      /\ UNCHANGED <<m_req, m_batch, m_granted, m_unheard, m_guard, m_stopping>>
  BY <1>1, GuardFaultTypes DEF M!ClaimSanction, GuardInv
<1> QED
  BY <1>1, <1>2, <1>3, GuardEventEnds

LEMMA GuardDisableFine ==
  ASSUME M!ThresholdAssumption, GuardInv, M!DisableGuard
  PROVE  GuardInv' /\ (GuardGrantsFine => GuardGrantsFine')
<1>1. M!TypeOK' /\ GuardBatchIsLater' /\ GuardWindowsAreFinite'
  BY DEF GuardInv, M!TypeOK, M!RequestTypeOK, M!requestVars, GuardBatchIsLater, GuardWindowsAreFinite, M!DisableGuard
<1> QED
  BY <1>1, GuardRequestsRest DEF GuardInv, M!requestVars, M!DisableGuard

(* A decision on requests leaves alone which are used, and by whom.        *)
GuardSameUse(r) ==
    GuardSameDoc(r) /\ m_req'[r].claim = m_req[r].claim /\ (m_req'[r].status = "used" <=> m_req[r].status = "used")

LEMMA GuardDecided ==
    ASSUME GuardInv, m_req' \in [Thing -> GuardDoc], \A r \in Thing : GuardSameUse(r),
           UNCHANGED <<m_batch, m_granted, m_unheard>>
    PROVE  GuardClaimsAreUses' /\ (GuardGrantsFine => GuardGrantsFine')
<1>1. GuardClaimsAreUses'
  BY DEF GuardInv, GuardClaimsAreUses, GuardSameUse
<1>2. ASSUME GuardGrantsFine, NEW k \in Task PROVE GuardBatchFine(k)'
  BY <1>2, GuardBatchStays DEF GuardGrantsFine, GuardInv, GuardSameUse
<1>3. ASSUME GuardGrantsFine, NEW r \in Thing PROVE GuardSpentFine(r)'
  BY <1>3, GuardSpentStays DEF GuardGrantsFine, GuardSpent, GuardSameUse
<1> QED
  BY <1>1, <1>2, <1>3 DEF GuardGrantsFine

LEMMA GuardOthersType ==
    ASSUME GuardInv, m_req' \in [Thing -> GuardDoc], m_batch' \in [Task -> GuardBatch],
           m_granted' \in [Thing -> SUBSET Task],
           m_unheard' \subseteq Task, m_faults' \in 0 .. MaxFaults, UNCHANGED M!moderationVars,
           \A h \in Task : m_batch[h].pc = "none" => m_batch'[h].pc = "none"
    PROVE  M!TypeOK' /\ GuardBatchIsLater' /\ GuardWindowsAreFinite'
<1>1. M!TypeOK'
  BY DEF GuardInv, M!TypeOK, M!RequestTypeOK, M!moderationVars, GuardDoc, GuardBatch
<1> QED
  BY <1>1 DEF GuardInv, GuardBatchIsLater, GuardWindowsAreFinite, M!moderationVars

LEMMA GuardMarkFine ==
    ASSUME M!ThresholdAssumption, GuardInv, NEW r \in Thing, NEW from \in {"absent", "pending", "approved"},
           NEW to \in GuardStatuses \ {"used"}, M!Mark(r, from, to),
           UNCHANGED <<m_batch, m_granted, m_unheard, m_faults, M!moderationVars>>
    PROVE  GuardInv' /\ (GuardGrantsFine => GuardGrantsFine')
<1>1. m_req[r].status = from /\ m_req' = [m_req EXCEPT ![r].status = to]
  BY DEF M!Mark
<1>2. /\ m_req' \in [Thing -> GuardDoc] /\ m_req'[r].status = to /\ m_req'[r].claim = m_req[r].claim
      /\ \A q \in Thing : q # r => m_req'[q] = m_req[q]
      /\ \A q \in Thing : GuardSameDoc(q)
  BY <1>1, GuardStatusMoves DEF GuardInv
<1>3. \A q \in Thing : GuardSameUse(q)
  BY <1>1, <1>2 DEF GuardSameUse
<1>4. M!TypeOK' /\ GuardBatchIsLater' /\ GuardWindowsAreFinite'
  BY <1>2, GuardOthersType, GuardTypes DEF GuardInv
<1> QED
  BY <1>2, <1>3, <1>4, GuardDecided DEF GuardInv

LEMMA GuardExpireFine == ASSUME M!ThresholdAssumption, GuardInv, NEW r \in Thing, M!Expire(r),
                                UNCHANGED M!moderationVars
                         PROVE GuardInv' /\ (GuardGrantsFine => GuardGrantsFine')
<1>1. \E from \in {"absent", "pending", "approved"} : M!Mark(r, from, "expired")
  BY DEF M!Expire, M!Live, M!Mark
<1>2. "expired" \in GuardStatuses \ {"used"}
  BY DEF GuardStatuses, M!Final
<1> QED
  BY <1>1, <1>2, GuardMarkFine DEF M!Expire

LEMMA GuardCancelFine == ASSUME M!ThresholdAssumption, GuardInv, M!CancelTypes
                         PROVE /\ m_req' \in [Thing -> GuardDoc] /\ (\A r \in Thing : GuardSameUse(r))
                                    /\ UNCHANGED <<m_batch, m_granted, m_unheard, m_faults>>
<1> DEFINE d(r) == IF M!Live(r) THEN [m_req[r] EXCEPT !.status = "cancelled"] ELSE m_req[r]
<1>1. m_req' = [r \in Thing |-> d(r)] /\ UNCHANGED <<m_batch, m_granted, m_unheard, m_faults>>
  BY DEF M!CancelTypes
<1>2. ASSUME NEW r \in Thing PROVE d(r) \in GuardDoc /\ GuardSameUse(r)
  <2>1. m_req[r] \in GuardDoc /\ m_req'[r] = d(r)
    BY <1>1, GuardTypes DEF GuardInv
  <2>2. CASE M!Live(r)
    BY <2>1, <2>2 DEF GuardDoc, GuardSameUse, GuardSameDoc, M!Live, M!Final
  <2>3. CASE ~M!Live(r)
    BY <2>1, <2>3 DEF GuardSameUse, GuardSameDoc
  <2> QED
    BY <2>2, <2>3
<1> HIDE DEF d
<1> QED
  BY <1>1, <1>2

LEMMA GuardCancelTypesFine == ASSUME M!ThresholdAssumption, GuardInv, M!CancelTypes, UNCHANGED M!moderationVars
                              PROVE GuardInv' /\ (GuardGrantsFine => GuardGrantsFine')
<1>1. M!TypeOK' /\ GuardBatchIsLater' /\ GuardWindowsAreFinite'
  BY GuardCancelFine, GuardOthersType, GuardTypes DEF GuardInv
<1> QED
  BY <1>1, GuardCancelFine, GuardDecided DEF GuardInv

LEMMA GuardStopGuardFine ==
  ASSUME M!ThresholdAssumption, GuardInv, M!StopGuard
  PROVE  GuardInv' /\ (GuardGrantsFine => GuardGrantsFine')
<1>1. m_req' \in [Thing -> GuardDoc] /\ (\A r \in Thing : GuardSameUse(r))
        /\ UNCHANGED <<m_batch, m_granted, m_unheard, m_faults>>
  <2>1. CASE M!CancelTypes
    BY <2>1, GuardCancelFine
  <2>2. CASE UNCHANGED M!requestVars
    BY <2>2, GuardTypes DEF GuardInv, GuardSameUse, GuardSameDoc, M!requestVars
  <2> QED
    BY <2>1, <2>2 DEF M!StopGuard
<1>2. m_stopping' = TRUE /\ UNCHANGED <<m_window, m_event, m_guard, m_sanctions>>
  BY DEF M!StopGuard
<1>3. M!TypeOK' /\ GuardBatchIsLater' /\ GuardWindowsAreFinite'
  BY <1>1, <1>2 DEF GuardInv, M!TypeOK, M!RequestTypeOK, GuardDoc, GuardBatchIsLater, GuardWindowsAreFinite
<1> QED
  BY <1>1, <1>3, GuardDecided DEF GuardInv

(* A claim is given up only when its batch is not in flight: no batch that *)
(* may still be granted loses one.                                         *)
LEMMA GuardReviveFine == ASSUME M!ThresholdAssumption, GuardInv, NEW r \in Thing, M!Revive(r),
                                UNCHANGED M!moderationVars
                         PROVE GuardInv' /\ (Timely /\ GuardGrantsFine => GuardGrantsFine')
<1>1. /\ m_req[r].claim # M!None /\ UNCHANGED <<m_batch, m_granted, m_unheard, m_faults>>
      /\ Timely => m_batch[m_req[r].claim].pc \notin M!InFlight
      /\ m_req' = [m_req EXCEPT ![r].status = "approved", ![r].claim = M!None]
  BY DEF M!Revive
<1>2. /\ m_req' \in [Thing -> GuardDoc] /\ m_req'[r].status = "approved" /\ m_req'[r].claim = M!None
      /\ \A q \in Thing : q # r => m_req'[q] = m_req[q]
      /\ \A q \in Thing : GuardSameDoc(q)
  <2>1. "approved" \in GuardStatuses /\ M!None \in Task \cup {M!None}
    BY DEF GuardStatuses
  <2> QED
    BY <1>1, <2>1, GuardDocMoves DEF GuardInv
<1>3. m_req[r].claim \in Task /\ m_req[r].status = "used"
  BY <1>1, GuardTypes DEF GuardInv, GuardClaimsAreUses, GuardDoc
<1>4. GuardInv'
  <2>1. GuardClaimsAreUses'
    BY <1>2 DEF GuardInv, GuardClaimsAreUses
  <2> QED
    BY <1>1, <1>2, <2>1, GuardOthersType, GuardTypes DEF GuardInv
<1>5. ASSUME Timely, GuardGrantsFine, NEW k \in Task PROVE GuardBatchFine(k)'
  <2>1. CASE k # m_req[r].claim
    <3>1. k # M!None
      BY DEF M!ThresholdAssumption, M!PermissionAssumption
    <3> QED
      BY <1>1, <1>2, <1>5, <2>1, <3>1, GuardBatchStays DEF GuardGrantsFine, GuardInv
  <2>2. CASE k = m_req[r].claim
    <3>1. m_batch[k].pc \notin M!InFlight
      BY <1>1, <1>5, <2>2
    <3>2. m_batch[k].pc # "none" /\ m_batch[k].pc \notin GuardSeeking /\ GuardBatchFine(k)
      BY <1>1, <1>5, <2>2, <3>1 DEF GuardGrantsFine, GuardBatchFine, GuardHeldAt, M!InFlight, GuardSeeking
    <3>3. GuardHeldAt(k)' /\ GuardSoughtAt(k)'
      BY <1>1, <3>2 DEF GuardHeldAt, GuardSoughtAt, GuardSeeking
    <3>4. GuardWholeAt(k)'
      BY <1>1, <1>2, <3>2 DEF GuardBatchFine, GuardWholeAt, M!Covers, GuardSameDoc
    <3> QED
      BY <3>3, <3>4 DEF GuardBatchFine
  <2> QED
    BY <2>1, <2>2
<1>6. ASSUME GuardGrantsFine, NEW q \in Thing PROVE GuardSpentFine(q)'
  <2>1. CASE q # r
    BY <1>1, <1>2, <1>6, <2>1, GuardSpentStays DEF GuardGrantsFine, GuardSpent
  <2>2. CASE q = r
    BY <1>1, <1>2, <1>6, <2>2 DEF GuardGrantsFine, GuardSpentFine, GuardSpent
  <2> QED
    BY <2>1, <2>2
<1> QED
  BY <1>4, <1>5, <1>6 DEF GuardGrantsFine

(* A handler looks for an approval of its next slice.                      *)
LEMMA GuardFindFine == ASSUME M!ThresholdAssumption, GuardInv, NEW h \in Task, M!Find(h), UNCHANGED M!moderationVars
                       PROVE GuardInv' /\ (GuardGrantsFine => GuardGrantsFine')
<1>0. m_batch[h] \in GuardBatch /\ m_batch[h].pc = "find" /\ UNCHANGED <<m_req, m_granted, m_unheard, m_faults>>
  BY GuardTypes DEF M!Find, M!At, GuardInv
<1>1. PICK s \in m_batch[h].todo :
         m_batch' = [m_batch EXCEPT ![h].pc = "claim", ![h].slice = s,
                                    ![h].found = {r \in Thing : /\ m_req[r].status = "approved"
                                                                /\ M!Covers(r, s, m_batch[h].need[s])}]
  BY DEF M!Find
<1> DEFINE found == {r \in Thing : m_req[r].status = "approved" /\ M!Covers(r, s, m_batch[h].need[s])}
           b == [m_batch[h] EXCEPT !.pc = "claim", !.slice = s, !.found = found]
<1>2. /\ b \in GuardBatch /\ b.pc = "claim" /\ b.slice = s /\ b.found = found /\ b.held = m_batch[h].held
      /\ b.need = m_batch[h].need /\ b.todo = m_batch[h].todo
  BY <1>0 DEF GuardBatch, M!InFlight
<1>3. m_batch' = [m_batch EXCEPT ![h] = b]
  BY <1>1, GuardTypes DEF GuardInv
<1> HIDE DEF b
<1>4. /\ m_batch' \in [Task -> GuardBatch] /\ m_batch'[h] = b
      /\ \A k \in Task : k # h => m_batch'[k] = m_batch[k]
  BY <1>2, <1>3, GuardBatchMoves DEF GuardInv
<1>5. M!TypeOK' /\ GuardBatchIsLater' /\ GuardWindowsAreFinite'
  BY <1>0, <1>4, GuardOthersType, GuardTypes DEF GuardInv
<1>6. GuardClaimsAreUses'
  BY <1>0 DEF GuardInv, GuardClaimsAreUses
<1>7. ASSUME GuardGrantsFine, NEW k \in Task PROVE GuardBatchFine(k)'
  <2>1. CASE k # h
    BY <1>0, <1>4, <1>7, <2>1, GuardBatchStays DEF GuardGrantsFine, GuardInv, GuardSameDoc
  <2>2. CASE k = h
    <3>1. GuardHeldAt(h)'
      BY <1>0, <1>2, <1>4, <1>7 DEF GuardGrantsFine, GuardBatchFine, GuardHeldAt, GuardSeeking
    <3>2. GuardSoughtAt(h)'
      BY <1>0, <1>2, <1>4, <1>7 DEF GuardGrantsFine, GuardBatchFine, GuardSoughtAt, GuardSeeking, M!Covers
    <3>3. GuardWholeAt(h)'
      BY <1>2, <1>4 DEF GuardWholeAt
    <3> QED
      BY <2>2, <3>1, <3>2, <3>3 DEF GuardBatchFine
  <2> QED
    BY <2>1, <2>2
<1>8. ASSUME GuardGrantsFine, NEW r \in Thing PROVE GuardSpentFine(r)'
  BY <1>0, <1>8, GuardSpentStays DEF GuardGrantsFine, GuardSpent
<1> QED
  BY <1>5, <1>6, <1>7, <1>8 DEF GuardGrantsFine, GuardInv

(* A handler's batch goes where it is neither sought for nor granted.      *)
LEMMA GuardBatchOut ==
    ASSUME M!TypeOK, NEW h \in Task, NEW pc \in {"release", "refused", "crashed"}, M!Goto(h, pc)
    PROVE  GuardBatchFine(h)'
<1>1. m_batch'[h].pc = pc
  BY GuardBatchGoes DEF GuardPlaces, M!InFlight
<1> QED
  BY <1>1 DEF GuardBatchFine, GuardHeldAt, GuardSoughtAt, GuardWholeAt, GuardSeeking

(* A claim, made or not, of one approval.                                  *)
LEMMA GuardClaimed ==
    ASSUME M!ThresholdAssumption, GuardInv, NEW h \in Task, NEW r \in Thing, m_req[r].status = "approved",
           m_req' = M!Used(r, h), UNCHANGED <<m_granted, m_unheard>>
    PROVE  /\ m_req' \in [Thing -> GuardDoc] /\ GuardClaimsAreUses' /\ m_req'[r].claim = h /\ m_req[r].claim = M!None
           /\ \A q \in Thing : q # r => m_req'[q] = m_req[q]
           /\ \A q \in Thing : GuardSameDoc(q)
           /\ GuardGrantsFine => \A q \in Thing : GuardSpentFine(q)'
           /\ GuardGrantsFine => \A k \in Task : k # h /\ m_batch'[k] = m_batch[k] => GuardBatchFine(k)'
<1>1. /\ m_req' \in [Thing -> GuardDoc] /\ m_req'[r].status = "used" /\ m_req'[r].claim = h
      /\ \A q \in Thing : q # r => m_req'[q] = m_req[q]
      /\ \A q \in Thing : GuardSameDoc(q)
  <2>1. /\ "used" \in GuardStatuses /\ h \in Task \cup {M!None}
        /\ m_req' = [m_req EXCEPT ![r].status = "used", ![r].claim = h]
    BY DEF GuardStatuses, M!Used
  <2> QED
    BY <2>1, GuardDocMoves DEF GuardInv
<1>2. h # M!None /\ m_req[r].claim = M!None /\ GuardClaimsAreUses'
  BY <1>1 DEF M!ThresholdAssumption, M!PermissionAssumption, GuardInv, GuardClaimsAreUses
<1>3. ASSUME GuardGrantsFine, NEW q \in Thing PROVE GuardSpentFine(q)'
  <2>1. CASE q # r
    BY <1>1, <1>3, <2>1, GuardSpentStays DEF GuardGrantsFine, GuardSpent
  <2>2. CASE q = r
    <3>1. m_granted[r] = {} /\ ~GuardSpent(r)'
      BY <1>1, <1>2, <1>3 DEF GuardGrantsFine, GuardSpentFine, GuardSpent
    <3> QED
      BY <2>2, <3>1 DEF GuardSpentFine, GuardSpent
  <2> QED
    BY <2>1, <2>2
<1>4. ASSUME GuardGrantsFine, NEW k \in Task, k # h, m_batch'[k] = m_batch[k] PROVE GuardBatchFine(k)'
  <2>1. k # M!None
    BY DEF M!ThresholdAssumption, M!PermissionAssumption
  <2>2. \A q \in Thing : m_req'[q].claim = k <=> m_req[q].claim = k
    BY <1>1, <1>2, <1>4, <2>1
  <2> QED
    BY <1>1, <1>4, <2>2, GuardBatchStays DEF GuardGrantsFine, GuardInv
<1> QED
  BY <1>1, <1>2, <1>3, <1>4

LEMMA GuardClaimFine == ASSUME M!ThresholdAssumption, GuardInv, NEW h \in Task, M!Claim(h), UNCHANGED M!moderationVars
                        PROVE GuardInv' /\ (GuardGrantsFine => GuardGrantsFine')
<1>0. m_batch[h] \in GuardBatch /\ m_batch[h].pc = "claim" /\ UNCHANGED <<m_granted, m_unheard>> /\ M!TypeOK
  BY GuardTypes DEF M!Claim, M!At, GuardInv
<1>1. ASSUME NEW r \in m_batch[h].found, M!ClaimOne(h, r), UNCHANGED m_faults
      PROVE  GuardInv' /\ (GuardGrantsFine => GuardGrantsFine')
  <2> DEFINE left == m_batch[h].todo \ {m_batch[h].slice}
             b == [m_batch[h] EXCEPT !.todo = left, !.held = @ \cup {r}, !.found = {},
                 !.pc = IF left = {} THEN "commit" ELSE "find"]
  <2>1. r \in Thing /\ m_req[r].status = "approved" /\ m_req' = M!Used(r, h)
    BY <1>0, <1>1 DEF M!ClaimOne, GuardBatch
  <2>2. /\ b \in GuardBatch /\ b.pc \in {"commit", "find"} /\ b.held = m_batch[h].held \cup {r}
        /\ b.need = m_batch[h].need
        /\ b.todo = left /\ (b.pc = "commit" => left = {})
    BY <1>0, <2>1 DEF GuardBatch, M!InFlight
  <2>3. m_batch' = [m_batch EXCEPT ![h] = b]
    BY <1>1, GuardTypes DEF GuardInv, M!ClaimOne
  <2> HIDE DEF b
  <2>4. /\ m_batch' \in [Task -> GuardBatch] /\ m_batch'[h] = b
        /\ \A k \in Task : k # h => m_batch'[k] = m_batch[k]
    BY <2>2, <2>3, GuardBatchMoves DEF GuardInv
  <2>5. /\ m_req' \in [Thing -> GuardDoc] /\ GuardClaimsAreUses' /\ m_req'[r].claim = h /\ m_req[r].claim = M!None
        /\ \A q \in Thing : q # r => m_req'[q] = m_req[q]
        /\ \A q \in Thing : GuardSameDoc(q)
        /\ GuardGrantsFine => \A q \in Thing : GuardSpentFine(q)'
        /\ GuardGrantsFine => \A k \in Task : k # h /\ m_batch'[k] = m_batch[k] => GuardBatchFine(k)'
    BY <1>0, <2>1, GuardClaimed
  <2>6. M!TypeOK' /\ GuardBatchIsLater' /\ GuardWindowsAreFinite'
    BY <1>0, <1>1, <2>4, <2>5, GuardOthersType, GuardTypes DEF GuardInv
  <2>7. ASSUME GuardGrantsFine PROVE GuardBatchFine(h)'
    <3>1. GuardBatchFine(h) /\ \A q \in Thing : \A s, n : M!Covers(q, s, n)' <=> M!Covers(q, s, n)
      BY <2>5, <2>7 DEF GuardGrantsFine, M!Covers, GuardSameDoc
    <3>2. GuardHeldAt(h)'
      BY <1>0, <2>2, <2>4, <2>5, <3>1 DEF GuardBatchFine, GuardHeldAt, GuardSeeking
    <3>3. ASSUME NEW s \in Slice, b.need[s] > 0
          PROVE  s \in left \/ \E q \in b.held : M!Covers(q, s, b.need[s])
      <4>1. s \in m_batch[h].todo \/ \E q \in m_batch[h].held : M!Covers(q, s, m_batch[h].need[s])
        BY <1>0, <2>2, <3>1, <3>3 DEF GuardBatchFine, GuardSoughtAt, GuardSeeking
      <4>2. CASE s \in m_batch[h].todo /\ s # m_batch[h].slice
        BY <4>2
      <4>3. CASE s = m_batch[h].slice
        <5>1. M!Covers(r, s, b.need[s])
          BY <1>0, <1>1, <2>2, <3>1, <4>3 DEF GuardBatchFine, GuardSoughtAt
        <5> QED
          BY <2>1, <2>2, <3>1, <5>1
      <4>4. CASE \E q \in m_batch[h].held : M!Covers(q, s, m_batch[h].need[s])
        <5>1. m_batch[h].held \subseteq Thing
          BY <1>0 DEF GuardBatch
        <5> QED
          BY <2>2, <3>1, <4>4, <5>1
      <4> QED
        BY <4>1, <4>2, <4>3, <4>4
    <3>4. GuardSoughtAt(h)'
      <4>1. \A s \in Slice : b.need[s] > 0 => s \in b.todo \/ \E q \in b.held : M!Covers(q, s, b.need[s])
        BY <2>2, <3>3
      <4>2. b.pc # "claim" /\ (b.pc = "commit" => b.todo = {})
        BY <2>2
      <4>3. m_batch'[h].pc # "claim" /\ (m_batch'[h].pc = "commit" => m_batch'[h].todo = {})
        BY <2>4, <4>2
      <4>4. b.held \subseteq Thing
        BY <2>2 DEF GuardBatch
      <4> QED
        BY <2>4, <2>5, <4>1, <4>3, <4>4 DEF GuardSoughtAt, M!Covers, GuardSameDoc
    <3>5. GuardWholeAt(h)'
      BY <2>2, <2>4 DEF GuardWholeAt
    <3> QED
      BY <3>2, <3>4, <3>5 DEF GuardBatchFine
  <2> QED
    BY <2>4, <2>5, <2>6, <2>7 DEF GuardGrantsFine, GuardInv
<1>2. ASSUME M!Goto(h, "release"), m_faults' \in 0 .. MaxFaults,
             \/ UNCHANGED m_req
             \/ \E r \in m_batch[h].found : m_req[r].status = "approved" /\ m_req' = M!Used(r, h)
      PROVE  GuardInv' /\ (GuardGrantsFine => GuardGrantsFine')
  <2>1. /\ m_batch' \in [Task -> GuardBatch]
        /\ \A k \in Task : k # h => m_batch'[k] = m_batch[k]
        /\ m_batch'[h].pc = "release"
    BY <1>0, <1>2, GuardBatchGoes DEF GuardPlaces, M!InFlight
  <2>2. GuardBatchFine(h)'
    BY <1>0, <1>2, GuardBatchOut
  <2>3. m_req' \in [Thing -> GuardDoc] /\ GuardClaimsAreUses'
        /\ (GuardGrantsFine => (\A q \in Thing : GuardSpentFine(q)') /\ (\A k \in Task : k # h => GuardBatchFine(k)'))
    <3>1. CASE UNCHANGED m_req
      <4>1. GuardClaimsAreUses' /\ m_req' \in [Thing -> GuardDoc]
        BY <3>1, GuardTypes DEF GuardInv, GuardClaimsAreUses
      <4>2. ASSUME GuardGrantsFine, NEW q \in Thing PROVE GuardSpentFine(q)'
        BY <1>0, <3>1, <4>2, GuardSpentStays DEF GuardGrantsFine, GuardSpent
      <4>3. ASSUME GuardGrantsFine, NEW k \in Task, k # h PROVE GuardBatchFine(k)'
        BY <1>0, <2>1, <3>1, <4>3, GuardBatchStays DEF GuardGrantsFine, GuardSameDoc
      <4> QED
        BY <4>1, <4>2, <4>3
    <3>2. ASSUME NEW r \in m_batch[h].found, m_req[r].status = "approved", m_req' = M!Used(r, h)
          PROVE  m_req' \in [Thing -> GuardDoc] /\ GuardClaimsAreUses'
                 /\ (GuardGrantsFine => (\A q \in Thing : GuardSpentFine(q)')
                      /\ (\A k \in Task : k # h => GuardBatchFine(k)'))
      <4>1. r \in Thing
        BY <1>0 DEF GuardBatch
      <4> QED
        BY <1>0, <2>1, <3>2, <4>1, GuardClaimed
    <3> QED
      BY <1>2, <3>1, <3>2
  <2>4. M!TypeOK' /\ GuardBatchIsLater' /\ GuardWindowsAreFinite'
    <3>1. m_granted' \in [Thing -> SUBSET Task] /\ m_unheard' \subseteq Task
      BY <1>0, GuardTypes
    <3>2. \A k \in Task : m_batch[k].pc = "none" => m_batch'[k].pc = "none"
      BY <1>0, <2>1
    <3> QED
      BY <1>2, <2>1, <2>3, <3>1, <3>2, GuardOthersType
  <2> QED
    BY <2>2, <2>3, <2>4 DEF GuardGrantsFine, GuardInv
<1>3. CASE (\E r \in m_batch[h].found : M!ClaimOne(h, r)) /\ UNCHANGED m_faults
  BY <1>1, <1>3
<1>4. CASE M!Goto(h, "release") /\ UNCHANGED <<m_req, m_faults>>
  <2>1. m_faults' \in 0 .. MaxFaults
    BY <1>0, <1>4, GuardTypes
  <2> QED
    BY <1>2, <1>4, <2>1
<1>5. CASE /\ M!Fault /\ M!Goto(h, "release")
           /\ \/ UNCHANGED m_req
              \/ \E r \in m_batch[h].found : m_req[r].status = "approved" /\ m_req' = M!Used(r, h)
  <2>1. m_faults' \in 0 .. MaxFaults
    BY <1>0, <1>5, GuardFaultTypes
  <2> QED
    BY <1>2, <1>5, <2>1
<1> QED
  BY <1>3, <1>4, <1>5 DEF M!Claim

(* The requests that a handler had claimed are no longer its, for good or  *)
(* as approvals again.                                                     *)
LEMMA GuardGivenUp ==
    ASSUME M!ThresholdAssumption, GuardInv, NEW h \in Task, NEW to \in {"used", "approved"},
           m_req' = [r \in Thing |-> IF m_req[r].claim = h THEN [m_req[r] EXCEPT !.status = to, !.claim = M!None]
               ELSE m_req[r]]
    PROVE  /\ m_req' \in [Thing -> GuardDoc] /\ GuardClaimsAreUses'
           /\ \A r \in Thing : GuardSameDoc(r)
           /\ \A r \in Thing : m_req[r].claim # h => m_req'[r] = m_req[r]
           /\ \A r \in Thing : m_req[r].claim = h =>
                  /\ m_req[r].status = "used" /\ m_req[r].claim # M!None
                  /\ m_req'[r].status = to /\ m_req'[r].claim = M!None
           /\ \A k \in Task : k # h => \A r \in Thing : m_req'[r].claim = k <=> m_req[r].claim = k
<1> DEFINE d(r) == IF m_req[r].claim = h THEN [m_req[r] EXCEPT !.status = to, !.claim = M!None] ELSE m_req[r]
<1>1. m_req' = [r \in Thing |-> d(r)]
  OBVIOUS
<1>2. \A k \in Task : k # M!None
  BY DEF M!ThresholdAssumption, M!PermissionAssumption
<1>3. ASSUME NEW r \in Thing
      PROVE  /\ d(r) \in GuardDoc /\ d(r).slice = m_req[r].slice /\ d(r).amount = m_req[r].amount
             /\ (m_req[r].claim # h => d(r) = m_req[r])
             /\ (m_req[r].claim = h => d(r).status = to /\ d(r).claim = M!None)
  <2>1. m_req[r] \in GuardDoc
    BY GuardTypes DEF GuardInv
  <2> QED
    BY <2>1 DEF GuardDoc
<1> HIDE DEF d
<1>4. \A r \in Thing : m_req'[r] = d(r)
  BY <1>1
<1>5. \A r \in Thing : m_req[r].claim # M!None => m_req[r].status = "used"
  BY DEF GuardInv, GuardClaimsAreUses
<1>6. GuardClaimsAreUses'
  BY <1>3, <1>4, <1>5 DEF GuardClaimsAreUses
<1>7. \A r \in Thing : m_req[r].claim = h =>
        /\ m_req[r].status = "used" /\ m_req[r].claim # M!None
        /\ m_req'[r].status = to /\ m_req'[r].claim = M!None
  BY <1>2, <1>3, <1>4, <1>5
<1>8. ASSUME NEW k \in Task, k # h, NEW r \in Thing PROVE m_req'[r].claim = k <=> m_req[r].claim = k
  BY <1>2, <1>3, <1>4, <1>8
<1>9. \A r \in Thing : GuardSameDoc(r)
  BY <1>3, <1>4 DEF GuardSameDoc
<1>10. m_req' \in [Thing -> GuardDoc]
  BY <1>1, <1>3
<1>11. \A r \in Thing : m_req[r].claim # h => m_req'[r] = m_req[r]
  BY <1>3, <1>4
<1> QED
  BY <1>6, <1>7, <1>8, <1>9, <1>10, <1>11

LEMMA GuardUnclaimedIsUsed ==
    ASSUME M!ThresholdAssumption, GuardInv, NEW h \in Task
    PROVE  M!Unclaimed(h) =
             [r \in Thing |-> IF m_req[r].claim = h THEN [m_req[r] EXCEPT !.status = "used", !.claim = M!None]
                 ELSE m_req[r]]
<1>1. ASSUME NEW r \in Thing, m_req[r].claim = h
      PROVE  [m_req[r] EXCEPT !.claim = M!None] = [m_req[r] EXCEPT !.status = "used", !.claim = M!None]
  <2>1. m_req[r] \in GuardDoc /\ m_req[r].status = "used"
    BY <1>1, GuardTypes DEF GuardInv, GuardClaimsAreUses, M!ThresholdAssumption, M!PermissionAssumption
  <2> QED
    BY <2>1 DEF GuardDoc
<1> QED
  BY <1>1 DEF M!Unclaimed

LEMMA GuardCommitFine == ASSUME M!ThresholdAssumption, GuardInv, NEW h \in Task, M!Commit(h),
                                UNCHANGED M!moderationVars
                         PROVE GuardInv' /\ (GuardGrantsFine => GuardGrantsFine')
<1>0. /\ m_batch[h] \in GuardBatch /\ m_batch[h].pc = "commit" /\ M!TypeOK /\ m_faults \in 0 .. MaxFaults
      /\ m_req \in [Thing -> GuardDoc] /\ m_granted \in [Thing -> SUBSET Task] /\ m_unheard \subseteq Task
  BY GuardTypes DEF M!Commit, M!At, GuardInv
<1>1. ASSUME NEW pc \in {"granted", "release"}, M!Goto(h, pc)
      PROVE  /\ m_batch' \in [Task -> GuardBatch] /\ m_batch'[h].pc = pc
             /\ pc = "granted" => m_batch'[h].need = m_batch[h].need
             /\ \A k \in Task : k # h => m_batch'[k] = m_batch[k]
             /\ \A k \in Task : m_batch[k].pc = "none" => m_batch'[k].pc = "none"
  <2>1. /\ m_batch' \in [Task -> GuardBatch] /\ m_batch'[h].pc = pc
        /\ pc = "granted" => m_batch'[h].need = m_batch[h].need
        /\ \A k \in Task : k # h => m_batch'[k] = m_batch[k]
    BY <1>0, <1>1, GuardBatchGoes DEF GuardPlaces, M!InFlight
  <2> QED
    BY <1>0, <2>1
<1>2. CASE /\ M!Claims(h) # {} /\ m_req' = M!Unclaimed(h) /\ M!Goto(h, "granted")
           /\ m_granted' = [r \in Thing |-> m_granted[r] \cup (IF r \in m_batch[h].held THEN {h} ELSE {})]
           /\ UNCHANGED <<m_unheard, m_faults>>
  <2>1. /\ m_batch' \in [Task -> GuardBatch] /\ m_batch'[h].pc = "granted" /\ m_batch'[h].need = m_batch[h].need
        /\ \A k \in Task : k # h => m_batch'[k] = m_batch[k]
        /\ \A k \in Task : m_batch[k].pc = "none" => m_batch'[k].pc = "none"
    BY <1>1, <1>2
  <2>2. /\ m_req' \in [Thing -> GuardDoc] /\ GuardClaimsAreUses'
        /\ \A r \in Thing : GuardSameDoc(r)
        /\ \A r \in Thing : m_req[r].claim # h => m_req'[r] = m_req[r]
        /\ \A r \in Thing : m_req[r].claim = h =>
             /\ m_req[r].status = "used" /\ m_req[r].claim # M!None
             /\ m_req'[r].status = "used" /\ m_req'[r].claim = M!None
        /\ \A k \in Task : k # h => \A r \in Thing : m_req'[r].claim = k <=> m_req[r].claim = k
    BY <1>2, GuardUnclaimedIsUsed, GuardGivenUp
  <2>3. /\ m_granted' \in [Thing -> SUBSET Task]
        /\ \A r \in Thing : m_granted'[r] = m_granted[r] \cup (IF r \in m_batch[h].held THEN {h} ELSE {})
    BY <1>0, <1>2
  <2>4. M!TypeOK' /\ GuardBatchIsLater' /\ GuardWindowsAreFinite'
    BY <1>0, <1>2, <2>1, <2>2, <2>3, GuardOthersType
  <2>5. ASSUME GuardGrantsFine, NEW k \in Task PROVE GuardBatchFine(k)'
    <3>1. CASE k # h
      <4>1. \A r \in Thing : k \in m_granted[r] => k \in m_granted'[r]
        BY <2>3
      <4> QED
        BY <1>0, <2>1, <2>2, <2>5, <3>1, <4>1, GuardBatchStays DEF GuardGrantsFine
    <3>2. CASE k = h
      <4>1. m_batch[h].held \subseteq Thing /\ GuardBatchFine(h)
        BY <1>0, <2>5 DEF GuardBatch, GuardGrantsFine
      <4>2. GuardHeldAt(h)' /\ GuardSoughtAt(h)'
        BY <2>1 DEF GuardHeldAt, GuardSoughtAt, GuardSeeking
      <4>3. \A s \in Slice : m_batch[h].need[s] > 0 => \E r \in m_batch[h].held : M!Covers(r, s, m_batch[h].need[s])
        BY <1>0, <4>1 DEF GuardBatchFine, GuardSoughtAt, GuardSeeking
      <4>4. GuardWholeAt(h)'
        BY <2>1, <2>2, <2>3, <4>1, <4>3 DEF GuardWholeAt, M!Covers, GuardSameDoc
      <4> QED
        BY <3>2, <4>2, <4>4 DEF GuardBatchFine
    <3> QED
      BY <3>1, <3>2
  <2>6. ASSUME GuardGrantsFine, NEW r \in Thing PROVE GuardSpentFine(r)'
    <3>1. m_req[r].claim = h <=> r \in m_batch[h].held
      BY <1>0, <2>6 DEF GuardGrantsFine, GuardBatchFine, GuardHeldAt, GuardSeeking
    <3>2. CASE m_req[r].claim = h
      <4>1. m_granted[r] = {}
        BY <2>2, <2>6, <3>2 DEF GuardGrantsFine, GuardSpentFine, GuardSpent
      <4>2. m_granted'[r] = {h}
        BY <2>3, <3>1, <3>2, <4>1
      <4> QED
        BY <2>2, <3>2, <4>2 DEF GuardSpentFine, GuardSpent
    <3>3. CASE m_req[r].claim # h
      <4>1. m_granted'[r] = m_granted[r] /\ m_req'[r] = m_req[r] /\ m_unheard' = m_unheard
        BY <1>2, <2>2, <2>3, <3>1, <3>3
      <4> QED
        BY <2>6, <4>1, GuardSpentStays DEF GuardGrantsFine, GuardSpent
    <3> QED
      BY <3>2, <3>3
  <2> QED
    BY <2>2, <2>4, <2>5, <2>6 DEF GuardGrantsFine, GuardInv
<1>3. CASE /\ M!Claims(h) = {} /\ M!Goto(h, "release") /\ UNCHANGED <<m_req, m_granted, m_unheard, m_faults>>
  <2>1. /\ m_batch' \in [Task -> GuardBatch] /\ m_batch'[h].pc = "release"
        /\ \A k \in Task : k # h => m_batch'[k] = m_batch[k]
        /\ \A k \in Task : m_batch[k].pc = "none" => m_batch'[k].pc = "none"
    BY <1>1, <1>3
  <2>2. M!TypeOK' /\ GuardBatchIsLater' /\ GuardWindowsAreFinite'
    BY <1>0, <1>3, <2>1, GuardOthersType
  <2>3. GuardClaimsAreUses' /\ GuardBatchFine(h)'
    BY <1>0, <1>3, GuardBatchOut DEF GuardInv, GuardClaimsAreUses
  <2>4. ASSUME GuardGrantsFine, NEW k \in Task, k # h PROVE GuardBatchFine(k)'
    BY <1>0, <1>3, <2>1, <2>4, GuardBatchStays DEF GuardGrantsFine, GuardSameDoc
  <2>5. ASSUME GuardGrantsFine, NEW r \in Thing PROVE GuardSpentFine(r)'
    BY <1>3, <2>5, GuardSpentStays DEF GuardGrantsFine, GuardSpent
  <2> QED
    BY <2>2, <2>3, <2>4, <2>5 DEF GuardGrantsFine, GuardInv
<1>4. CASE /\ M!Fault /\ M!Goto(h, "release") /\ UNCHANGED m_granted
           /\ UNCHANGED <<m_req, m_unheard>>
  <2>1. /\ m_batch' \in [Task -> GuardBatch] /\ m_batch'[h].pc = "release"
        /\ \A k \in Task : k # h => m_batch'[k] = m_batch[k]
        /\ \A k \in Task : m_batch[k].pc = "none" => m_batch'[k].pc = "none"
    BY <1>1, <1>4
  <2>2. M!TypeOK' /\ GuardBatchIsLater' /\ GuardWindowsAreFinite'
    BY <1>0, <1>4, <2>1, GuardOthersType, GuardFaultTypes
  <2>3. GuardClaimsAreUses' /\ GuardBatchFine(h)'
    BY <1>0, <1>4, GuardBatchOut DEF GuardInv, GuardClaimsAreUses
  <2>4. ASSUME GuardGrantsFine, NEW k \in Task, k # h PROVE GuardBatchFine(k)'
    BY <1>0, <1>4, <2>1, <2>4, GuardBatchStays DEF GuardGrantsFine, GuardSameDoc
  <2>5. ASSUME GuardGrantsFine, NEW r \in Thing PROVE GuardSpentFine(r)'
    BY <1>4, <2>5, GuardSpentStays DEF GuardGrantsFine, GuardSpent
  <2> QED
    BY <2>2, <2>3, <2>4, <2>5 DEF GuardGrantsFine, GuardInv
<1>5. CASE /\ M!Fault /\ M!Goto(h, "release") /\ UNCHANGED m_granted
           /\ m_req' = M!Unclaimed(h) /\ m_unheard' = m_unheard \cup {h}
  <2>1. /\ m_batch' \in [Task -> GuardBatch] /\ m_batch'[h].pc = "release"
        /\ \A k \in Task : k # h => m_batch'[k] = m_batch[k]
        /\ \A k \in Task : m_batch[k].pc = "none" => m_batch'[k].pc = "none"
    BY <1>1, <1>5
  <2>2. /\ m_req' \in [Thing -> GuardDoc] /\ GuardClaimsAreUses'
        /\ \A r \in Thing : GuardSameDoc(r)
        /\ \A r \in Thing : m_req[r].claim # h => m_req'[r] = m_req[r]
        /\ \A r \in Thing : m_req[r].claim = h =>
             /\ m_req[r].status = "used" /\ m_req[r].claim # M!None
             /\ m_req'[r].status = "used" /\ m_req'[r].claim = M!None
        /\ \A k \in Task : k # h => \A r \in Thing : m_req'[r].claim = k <=> m_req[r].claim = k
    BY <1>5, GuardUnclaimedIsUsed, GuardGivenUp
  <2>3. M!TypeOK' /\ GuardBatchIsLater' /\ GuardWindowsAreFinite'
    <3>1. m_unheard' \subseteq Task /\ m_granted' \in [Thing -> SUBSET Task] /\ m_faults' \in 0 .. MaxFaults
      BY <1>0, <1>5, GuardFaultTypes
    <3> QED
      BY <2>1, <2>2, <3>1, GuardOthersType
  <2>4. GuardBatchFine(h)'
    BY <1>0, <1>5, GuardBatchOut
  <2>5. ASSUME GuardGrantsFine, NEW k \in Task, k # h PROVE GuardBatchFine(k)'
    BY <1>0, <1>5, <2>1, <2>2, <2>5, GuardBatchStays DEF GuardGrantsFine
  <2>6. ASSUME GuardGrantsFine, NEW r \in Thing PROVE GuardSpentFine(r)'
    <3>1. CASE m_req[r].claim = h
      BY <1>5, <2>2, <2>6, <3>1 DEF GuardGrantsFine, GuardSpentFine, GuardSpent
    <3>2. CASE m_req[r].claim # h
      BY <1>5, <2>2, <2>6, <3>2, GuardSpentStays DEF GuardGrantsFine, GuardSpent
    <3> QED
      BY <3>1, <3>2
  <2> QED
    BY <2>2, <2>3, <2>4, <2>5, <2>6 DEF GuardGrantsFine, GuardInv
<1> QED
  BY <1>2, <1>3, <1>4, <1>5 DEF M!Commit

LEMMA GuardReleaseFine == ASSUME M!ThresholdAssumption, GuardInv, NEW h \in Task, M!Release(h),
                                 UNCHANGED M!moderationVars
                          PROVE GuardInv' /\ (GuardGrantsFine => GuardGrantsFine')
<1>0. /\ m_batch[h] \in GuardBatch /\ m_batch[h].pc = "release" /\ M!TypeOK /\ m_faults \in 0 .. MaxFaults
      /\ m_req \in [Thing -> GuardDoc] /\ m_granted \in [Thing -> SUBSET Task] /\ m_unheard \subseteq Task
      /\ M!Goto(h, "refused") /\ UNCHANGED <<m_granted, m_unheard>>
  BY GuardTypes DEF M!Release, M!At, GuardInv
<1>1. /\ m_batch' \in [Task -> GuardBatch] /\ m_batch'[h].pc = "refused"
      /\ \A k \in Task : k # h => m_batch'[k] = m_batch[k]
  BY <1>0, GuardBatchGoes DEF GuardPlaces, M!InFlight
<1>2. GuardBatchFine(h)'
  BY <1>0, GuardBatchOut
<1>3. CASE /\ m_req' = [r \in Thing |-> IF m_req[r].claim = h
                          THEN [m_req[r] EXCEPT !.status = "approved", !.claim = M!None] ELSE m_req[r]]
           /\ UNCHANGED m_faults
  <2>2. /\ m_req' \in [Thing -> GuardDoc] /\ GuardClaimsAreUses'
        /\ \A r \in Thing : GuardSameDoc(r)
        /\ \A r \in Thing : m_req[r].claim # h => m_req'[r] = m_req[r]
        /\ \A r \in Thing : m_req[r].claim = h =>
               /\ m_req[r].status = "used" /\ m_req[r].claim # M!None
               /\ m_req'[r].status = "approved" /\ m_req'[r].claim = M!None
        /\ \A k \in Task : k # h => \A r \in Thing : m_req'[r].claim = k <=> m_req[r].claim = k
    BY <1>3, GuardGivenUp
  <2>3. M!TypeOK' /\ GuardBatchIsLater' /\ GuardWindowsAreFinite'
    BY <1>0, <1>1, <1>3, <2>2, GuardOthersType
  <2>5. ASSUME GuardGrantsFine, NEW k \in Task, k # h PROVE GuardBatchFine(k)'
    BY <1>0, <1>1, <2>2, <2>5, GuardBatchStays DEF GuardGrantsFine
  <2>6. ASSUME GuardGrantsFine, NEW r \in Thing PROVE GuardSpentFine(r)'
    <3>1. CASE m_req[r].claim = h
      BY <1>0, <2>2, <2>6, <3>1 DEF GuardGrantsFine, GuardSpentFine, GuardSpent
    <3>2. CASE m_req[r].claim # h
      BY <1>0, <2>2, <2>6, <3>2, GuardSpentStays DEF GuardGrantsFine, GuardSpent
    <3> QED
      BY <3>1, <3>2
  <2> QED
    BY <1>2, <2>2, <2>3, <2>5, <2>6 DEF GuardGrantsFine, GuardInv
<1>4. CASE M!Fault /\ UNCHANGED m_req
  <2>2. M!TypeOK' /\ GuardBatchIsLater' /\ GuardWindowsAreFinite'
    BY <1>0, <1>1, <1>4, GuardOthersType, GuardFaultTypes
  <2>3. GuardClaimsAreUses'
    BY <1>4 DEF GuardInv, GuardClaimsAreUses
  <2>4. ASSUME GuardGrantsFine, NEW k \in Task, k # h PROVE GuardBatchFine(k)'
    BY <1>0, <1>1, <1>4, <2>4, GuardBatchStays DEF GuardGrantsFine, GuardSameDoc
  <2>5. ASSUME GuardGrantsFine, NEW r \in Thing PROVE GuardSpentFine(r)'
    BY <1>0, <1>4, <2>5, GuardSpentStays DEF GuardGrantsFine, GuardSpent
  <2> QED
    BY <1>2, <2>2, <2>3, <2>4, <2>5 DEF GuardGrantsFine, GuardInv
<1> QED
  BY <1>3, <1>4 DEF M!Release

LEMMA GuardCrashBatchFine == ASSUME M!ThresholdAssumption, GuardInv, NEW h \in Task, M!CrashBatch(h),
                                    UNCHANGED M!moderationVars
                             PROVE GuardInv' /\ (GuardGrantsFine => GuardGrantsFine')
<1>0. /\ m_batch[h] \in GuardBatch /\ m_batch[h].pc # "none" /\ M!TypeOK /\ m_faults' \in 0 .. MaxFaults
      /\ m_req \in [Thing -> GuardDoc] /\ m_granted \in [Thing -> SUBSET Task] /\ m_unheard \subseteq Task
      /\ M!Goto(h, "crashed") /\ UNCHANGED <<m_req, m_granted, m_unheard>>
  BY GuardTypes, GuardFaultTypes DEF M!CrashBatch, GuardInv, M!InFlight
<1>1. /\ m_batch' \in [Task -> GuardBatch] /\ m_batch'[h].pc = "crashed"
      /\ \A k \in Task : k # h => m_batch'[k] = m_batch[k]
  BY <1>0, GuardBatchGoes DEF GuardPlaces, M!InFlight
<1>2. GuardBatchFine(h)'
  BY <1>0, GuardBatchOut
<1>3. M!TypeOK' /\ GuardBatchIsLater' /\ GuardWindowsAreFinite'
  BY <1>0, <1>1, GuardOthersType
<1>4. GuardClaimsAreUses'
  BY <1>0 DEF GuardInv, GuardClaimsAreUses
<1>5. ASSUME GuardGrantsFine, NEW k \in Task, k # h PROVE GuardBatchFine(k)'
  BY <1>0, <1>1, <1>5, GuardBatchStays DEF GuardGrantsFine, GuardSameDoc
<1>6. ASSUME GuardGrantsFine, NEW r \in Thing PROVE GuardSpentFine(r)'
  BY <1>0, <1>6, GuardSpentStays DEF GuardGrantsFine, GuardSpent
<1> QED
  BY <1>2, <1>3, <1>4, <1>5, <1>6 DEF GuardGrantsFine, GuardInv

LEMMA GuardNeedTypes == ASSUME NEW events, M!IsFiniteSet(events) PROVE M!Need(events) \in [Slice -> Nat]
<1>1. ASSUME NEW s \in Slice PROVE M!Cardinality({k \in events : m_event[k].action = s}) \in Nat
  BY GuardSubset, GuardCardinalityType
<1> QED
  BY <1>1 DEF M!Need

(* An event is recorded, and the window that is over its limit has a batch *)
(* of approvals asked for.                                                 *)
LEMMA GuardWriteWindowFine == ASSUME M!ThresholdAssumption, GuardInv, NEW h \in Task, M!WriteWindow(h)
                              PROVE GuardInv' /\ (GuardGrantsFine => GuardGrantsFine')
<1> DEFINE events == m_event[h].read.events \cup {h}
           w == [m_event[h].read EXCEPT !.events = events]
<1>0. /\ m_batch[h] \in GuardBatch /\ m_batch[h].pc = "none" /\ M!TypeOK /\ m_event[h] \in GuardEvent
      /\ m_event[h].pc = "write"
      /\ M!IsFiniteSet(m_event[h].read.events)
      /\ UNCHANGED <<m_req, m_granted, m_unheard, m_faults, m_guard, m_stopping, m_sanctions>> /\ m_window' = w
  BY GuardTypes DEF M!WriteWindow, M!EventAt, GuardInv, GuardBatchIsLater, GuardWindowsAreFinite
<1>1. M!IsFiniteSet(events) /\ w \in M!Window /\ w.events = events
  BY <1>0, GuardAddElement DEF GuardEvent, M!Window
<1>2. ASSUME NEW pc \in {"batch", "done"}, M!EventGoto(h, pc), m_batch' \in [Task -> GuardBatch],
             \A k \in Task : k # h => m_batch'[k] = m_batch[k]
      PROVE  M!TypeOK' /\ GuardBatchIsLater' /\ GuardWindowsAreFinite' /\ GuardClaimsAreUses'
  <2> DEFINE e == [m_event[h] EXCEPT !.pc = pc, !.read = M!Empty]
  <2>1. e \in GuardEvent /\ M!IsFiniteSet(e.read.events) /\ e.pc = pc
    BY <1>0, GuardNoWindow DEF GuardEvent
  <2>2. m_event' = [m_event EXCEPT ![h] = e]
    BY <1>0, <1>2 DEF M!EventGoto, GuardEvent
  <2> HIDE DEF e
  <2>3. /\ m_event' \in [Task -> GuardEvent] /\ m_event'[h] = e
        /\ \A k \in Task : k # h => m_event'[k] = m_event[k]
    BY <1>0, <2>1, <2>2, GuardTypes
  <2>4. GuardBatchIsLater' /\ GuardWindowsAreFinite'
    BY <1>0, <1>1, <1>2, <2>1, <2>3 DEF GuardInv, GuardBatchIsLater, GuardWindowsAreFinite
  <2>5. M!TypeOK'
    <3>1. /\ m_req' \in [Thing -> GuardDoc] /\ m_granted' \in [Thing -> SUBSET Task] /\ m_unheard' \subseteq Task
          /\ m_faults' \in 0 .. MaxFaults /\ m_guard' \in BOOLEAN /\ m_stopping' \in BOOLEAN
          /\ m_sanctions' \subseteq Task
      BY <1>0, GuardTypes
    <3> QED
      BY <1>0, <1>1, <1>2, <2>3, <3>1 DEF M!TypeOK, M!RequestTypeOK, GuardDoc, GuardBatch, GuardEvent
  <2>6. GuardClaimsAreUses'
    BY <1>0 DEF GuardInv, GuardClaimsAreUses
  <2> QED
    BY <2>4, <2>5, <2>6
<1>3. ASSUME GuardGrantsFine, NEW r \in Thing PROVE GuardSpentFine(r)'
  BY <1>0, <1>3, GuardSpentStays DEF GuardGrantsFine, GuardSpent
<1>4. ASSUME GuardGrantsFine, NEW k \in Task, m_batch'[k] = m_batch[k] PROVE GuardBatchFine(k)'
  BY <1>0, <1>4, GuardBatchStays DEF GuardGrantsFine, GuardSameDoc
<1>5. CASE M!EventGoto(h, "done") /\ UNCHANGED m_batch
  <2>1. m_batch' \in [Task -> GuardBatch]
    BY <1>0, <1>5, GuardTypes
  <2>2. M!TypeOK' /\ GuardBatchIsLater' /\ GuardWindowsAreFinite' /\ GuardClaimsAreUses'
    BY <1>2, <1>5, <2>1
  <2> QED
    BY <1>3, <1>4, <1>5, <2>2 DEF GuardGrantsFine, GuardInv
<1>6. CASE M!StartBatch(h, M!Need(events)) /\ M!EventGoto(h, "batch")
  <2>1. PICK n : n = M!Need(events) /\ n \in [Slice -> Nat]
    BY <1>1, GuardNeedTypes
  <2> DEFINE todo == {s \in Slice : n[s] > 0}
             b == [m_batch[h] EXCEPT !.pc = "find", !.need = n, !.todo = todo]
  <2>2. /\ b \in GuardBatch /\ b.pc = "find" /\ b.need = n /\ b.todo = todo /\ b.held = m_batch[h].held
    BY <1>0, <2>1 DEF GuardBatch, M!InFlight
  <2>3. m_batch' = [m_batch EXCEPT ![h] = b]
    BY <1>0, <1>6, <2>1, GuardTypes DEF M!StartBatch
  <2> HIDE DEF b
  <2>4. /\ m_batch' \in [Task -> GuardBatch] /\ m_batch'[h] = b
        /\ \A k \in Task : k # h => m_batch'[k] = m_batch[k]
    BY <1>0, <2>2, <2>3, GuardBatchMoves
  <2>5. M!TypeOK' /\ GuardBatchIsLater' /\ GuardWindowsAreFinite' /\ GuardClaimsAreUses'
    BY <1>2, <1>6, <2>4
  <2>6. ASSUME GuardGrantsFine PROVE GuardBatchFine(h)'
    <3>1. GuardHeldAt(h)'
      BY <1>0, <2>2, <2>4, <2>6 DEF GuardGrantsFine, GuardBatchFine, GuardHeldAt
    <3>2. GuardSoughtAt(h)'
      BY <2>2, <2>4 DEF GuardSoughtAt
    <3>3. GuardWholeAt(h)'
      BY <2>2, <2>4 DEF GuardWholeAt
    <3> QED
      BY <3>1, <3>2, <3>3 DEF GuardBatchFine
  <2> QED
    BY <1>3, <1>4, <2>4, <2>5, <2>6 DEF GuardGrantsFine, GuardInv
<1> QED
  BY <1>5, <1>6 DEF M!WriteWindow

LEMMA GuardInit == ASSUME M!ThresholdAssumption, M!Init PROVE GuardGrantInv
<1>1. M!RequestInit /\ m_window = M!Empty /\ m_event \in [Task -> [pc : {"new"}, action : Slice, read : {M!Empty}]]
      /\ m_guard = TRUE /\ m_stopping = FALSE /\ m_sanctions = {}
  BY DEF M!Init
<1>2. M!Empty \in M!Window /\ M!IsFiniteSet(M!Empty.events)
  BY GuardNoWindow
<1>3. m_event \in [Task -> GuardEvent] /\ \A h \in Task : m_event[h].read = M!Empty
  BY <1>1, <1>2 DEF GuardEvent
<1>4. /\ m_req \in [Thing -> GuardDoc] /\ \A r \in Thing : m_req[r].claim = M!None /\ m_req[r].status = "absent"
  BY <1>1 DEF M!RequestInit, GuardDoc
<1>5. ASSUME NEW h \in Task
      PROVE  /\ m_batch[h] \in GuardBatch /\ m_batch[h].pc = "none" /\ m_batch[h].held = {}
  <2>1. PICK s \in Slice : s = CHOOSE x \in Slice : TRUE
    BY <1>1
  <2>2. m_batch[h] = [pc |-> "none", slice |-> s, need |-> [x \in Slice |-> 0], todo |-> {},
                      found |-> {}, held |-> {}]
    BY <1>1, <2>1 DEF M!RequestInit, M!Nothing
  <2> QED
    BY <2>2 DEF GuardBatch
<1>6. m_batch \in [Task -> GuardBatch]
  BY <1>1, <1>5 DEF M!RequestInit
<1>7. m_granted = [r \in Thing |-> {}] /\ m_unheard = {} /\ m_faults = 0 /\ m_faults \in 0 .. MaxFaults
  BY <1>1 DEF M!RequestInit, M!ThresholdAssumption, M!PermissionAssumption
<1>8. M!TypeOK
  BY <1>1, <1>2, <1>3, <1>4, <1>6, <1>7, GuardTyped
<1>9. GuardClaimsAreUses /\ GuardBatchIsLater /\ GuardWindowsAreFinite
  BY <1>1, <1>2, <1>3, <1>4, <1>5 DEF GuardClaimsAreUses, GuardBatchIsLater, GuardWindowsAreFinite
<1>10. GuardGrantsFine
  <2>1. \A h \in Task : h # M!None
    BY DEF M!ThresholdAssumption, M!PermissionAssumption
  <2>2. ASSUME NEW h \in Task PROVE GuardBatchFine(h)
    BY <1>4, <1>5, <2>1 DEF GuardBatchFine, GuardHeldAt, GuardSoughtAt, GuardWholeAt, GuardSeeking
  <2>3. ASSUME NEW r \in Thing PROVE GuardSpentFine(r)
    BY <1>4, <1>7 DEF GuardSpentFine, GuardSpent
  <2> QED
    BY <2>2, <2>3 DEF GuardGrantsFine
<1> QED
  BY <1>8, <1>9, <1>10 DEF GuardGrantInv, GuardInv

LEMMA GuardStays == ASSUME GuardInv, UNCHANGED M!vars PROVE GuardInv' /\ (GuardGrantsFine => GuardGrantsFine')
<1>1. M!TypeOK' /\ GuardBatchIsLater' /\ GuardWindowsAreFinite'
  BY DEF GuardInv, M!TypeOK, M!RequestTypeOK, M!vars, M!requestVars, M!moderationVars, GuardBatchIsLater,
      GuardWindowsAreFinite
<1> QED
  BY <1>1, GuardRequestsRest DEF GuardInv, M!vars, M!requestVars

LEMMA GuardApprovalsFine ==
  ASSUME M!ThresholdAssumption, GuardInv, M!Approvals
  PROVE  GuardInv' /\ (Timely /\ GuardGrantsFine => GuardGrantsFine')
<1>1. ASSUME NEW r \in Thing, M!Create(r), UNCHANGED M!moderationVars
      PROVE  GuardInv' /\ (GuardGrantsFine => GuardGrantsFine')
  BY <1>1, GuardMarkFine DEF M!Create, GuardStatuses, M!Final
<1>2. ASSUME NEW r \in Thing, M!CancelUndelivered(r), UNCHANGED M!moderationVars
      PROVE  GuardInv' /\ (GuardGrantsFine => GuardGrantsFine')
  BY <1>2, GuardMarkFine DEF M!CancelUndelivered, GuardStatuses, M!Final
<1>3. ASSUME NEW r \in Thing, NEW decision \in {"approved", "rejected"}, M!Resolve(r, decision),
             UNCHANGED M!moderationVars
      PROVE  GuardInv' /\ (GuardGrantsFine => GuardGrantsFine')
  BY <1>3, GuardMarkFine DEF M!Resolve, GuardStatuses, M!Final
<1> QED
  BY <1>1, <1>2, <1>3, GuardReviveFine, GuardExpireFine, GuardCancelTypesFine, GuardFindFine, GuardClaimFine,
      GuardCommitFine, GuardReleaseFine,
     GuardCrashBatchFine DEF M!Approvals, M!RequestNext

LEMMA GuardNext ==
  ASSUME M!ThresholdAssumption, GuardInv, [M!Next]_(M!vars)
  PROVE  GuardInv' /\ (Timely /\ GuardGrantsFine => GuardGrantsFine')
BY GuardApprovalsFine, GuardReadSituationFine, GuardReadWindowFine, GuardWriteWindowFine, GuardBatchOverFine,
    GuardClearFine, GuardClaimSanctionFine,
   GuardStopGuardFine, GuardDisableFine, GuardStays DEF M!Next

(* A claimed request is used, in whatever order requests expire, are       *)
(* cancelled and are claimed (consumeAll).                                 *)
THEOREM GuardInvariant == ASSUME M!ThresholdAssumption PROVE M!Spec => []GuardInv
<1>1. M!Init => GuardInv
  BY GuardInit DEF GuardGrantInv
<1>2. GuardInv /\ [M!Next]_(M!vars) => GuardInv'
  BY GuardNext
<1> QED
  BY <1>1, <1>2, PTL DEF M!Spec

(* While no claim outlives its batch, a batch is granted with an approval  *)
(* for each slice that is its own (consumeAll).                            *)
THEOREM GuardGrantInvariant == ASSUME M!ThresholdAssumption, Timely PROVE M!Spec => []GuardGrantInv
<1>1. M!Init => GuardGrantInv
  BY GuardInit
<1>2. GuardGrantInv /\ [M!Next]_(M!vars) => GuardGrantInv'
  BY GuardNext DEF GuardGrantInv
<1> QED
  BY <1>1, <1>2, PTL DEF M!Spec

LEMMA GuardGrantsAreWhole == ASSUME GuardGrantInv PROVE M!AllOrNothing
<1>1. ASSUME NEW r \in Thing PROVE M!Cardinality(m_granted[r]) <= 1
  <2>1. CASE m_granted[r] = {}
    BY <2>1, GuardEmptySet
  <2>2. ASSUME NEW h \in m_granted[r] PROVE M!Cardinality(m_granted[r]) <= 1
    <3>1. m_granted[r] = {h}
      BY <2>2 DEF GuardGrantInv, GuardGrantsFine, GuardSpentFine
    <3>2. M!Cardinality({h}) = 1
      BY GuardSingleton
    <3> QED
      BY <3>1, <3>2
  <2> QED
    BY <2>1, <2>2
<1>2. ASSUME NEW h \in Task, M!At(h, "granted"), NEW s \in Slice, m_batch[h].need[s] > 0
      PROVE  \E r \in Thing : /\ h \in m_granted[r] /\ M!Covers(r, s, m_batch[h].need[s])
                              /\ m_req[r].status = "used" /\ m_req[r].claim = M!None
  <2>1. PICK r \in Thing : h \in m_granted[r] /\ M!Covers(r, s, m_batch[h].need[s])
    BY <1>2 DEF GuardGrantInv, GuardGrantsFine, GuardBatchFine, GuardWholeAt, M!At
  <2>2. GuardSpent(r)
    BY <2>1 DEF GuardGrantInv, GuardGrantsFine, GuardSpentFine
  <2> QED
    BY <2>1, <2>2 DEF GuardSpent
<1>3. \A r \in Thing : m_req[r].status = "used" /\ m_req[r].claim = M!None => m_granted[r] # {} \/ m_unheard # {}
  BY DEF GuardGrantInv, GuardGrantsFine, GuardSpentFine, GuardSpent
<1> QED
  BY <1>1, <1>2, <1>3 DEF M!AllOrNothing

LEMMA GuardRefusedStays ==
    ASSUME M!ThresholdAssumption, GuardInv, [M!Next]_(M!vars), NEW r \in Thing, m_req[r].status \in M!Final
    PROVE  m_req'[r].status = m_req[r].status
<1>0. m_req[r].claim = M!None /\ m_req[r].status \notin {"absent", "pending", "approved", "used"} /\ M!TypeOK
      /\ \A k \in Task : k # M!None
  BY DEF GuardInv, GuardClaimsAreUses, M!Final, M!ThresholdAssumption, M!PermissionAssumption
<1>1. ASSUME NEW q \in Thing, NEW from \in {"absent", "pending", "approved"}, NEW to, M!Mark(q, from, to)
      PROVE  m_req'[r].status = m_req[r].status
  BY <1>0, <1>1, GuardTypes DEF M!Mark
<1>2. ASSUME M!CancelTypes PROVE m_req'[r].status = m_req[r].status
  BY <1>0, <1>2 DEF M!CancelTypes, M!Live
<1>3. ASSUME NEW q \in Thing, M!Revive(q) PROVE m_req'[r].status = m_req[r].status
  BY <1>0, <1>3, GuardTypes DEF M!Revive
<1>4. ASSUME NEW q \in Thing, M!Expire(q) PROVE m_req'[r].status = m_req[r].status
  BY <1>0, <1>4, GuardTypes DEF M!Expire, M!Live
<1>5. ASSUME NEW h \in Task, NEW q \in Thing, m_req[q].status = "approved", m_req' = M!Used(q, h)
      PROVE  m_req'[r].status = m_req[r].status
  BY <1>0, <1>5, GuardTypes DEF M!Used
<1>6. ASSUME NEW h \in Task, M!Claim(h) PROVE m_req'[r].status = m_req[r].status
  <2>1. m_batch[h].found \subseteq Thing
    BY <1>0, GuardTypes DEF GuardBatch
  <2> QED
    BY <1>5, <1>6, <2>1 DEF M!Claim, M!ClaimOne
<1>7. ASSUME NEW h \in Task, M!Commit(h) PROVE m_req'[r].status = m_req[r].status
  BY <1>0, <1>7 DEF M!Commit, M!Unclaimed
<1>8. ASSUME NEW h \in Task, M!Release(h) PROVE m_req'[r].status = m_req[r].status
  BY <1>0, <1>8 DEF M!Release
<1>9. ASSUME M!Approvals PROVE m_req'[r].status = m_req[r].status
  BY <1>1, <1>2, <1>3, <1>4, <1>6, <1>7, <1>8, <1>9 DEF M!Approvals, M!RequestNext, M!Create,
      M!CancelUndelivered, M!Resolve,
     M!Find, M!CrashBatch
<1>10. ASSUME M!StopGuard PROVE m_req'[r].status = m_req[r].status
  BY <1>2, <1>10 DEF M!StopGuard, M!requestVars
<1> QED
  BY <1>9, <1>10 DEF M!Next, M!ReadSituation, M!ReadWindow, M!WriteWindow, M!BatchOver, M!Clear, M!ClaimSanction,
      M!DisableGuard, M!vars,
     M!requestVars

(* A request that was refused, cancelled or is over keeps that status      *)
(* (expireStale, cancelTypes).                                             *)
THEOREM GuardRefusedStaysInvariant == ASSUME M!ThresholdAssumption PROVE M!Spec => M!RefusedStaysRefused
<1>1. GuardInv /\ [M!Next]_(M!vars)
        => [\A r \in Thing : m_req[r].status \in M!Final => m_req'[r].status = m_req[r].status]_(M!requestVars)
  BY GuardRefusedStays
<1> QED
  BY <1>1, GuardInvariant, PTL DEF M!Spec, M!RefusedStaysRefused

-----------------------------------------------------------------------------
(* The backups.  A save takes a number of its own, and drops only what is  *)
(* older than the newest that may be kept; what a load left in the         *)
(* configuration it found there or made.                                   *)
BackupPlaces ==
    {"idle", "upsert", "overflow", "drop", "delete", "create", "undo", "apply", "done", "failed", "pending"}
BackupCommand == [pc : BackupPlaces, kind : {"save", "delete", "load"}, name : Thing \cup {NoBackup}, at : Nat,
                  drop : SUBSET Thing, cache : SUBSET B!Resource, todo : SUBSET Task, map : SUBSET B!Resource,
                  made : SUBSET B!Resource]
BackupTypes ==
    /\ b_store \in [Thing -> Nat] /\ b_clock \in Nat /\ b_cmd \in [Commander -> BackupCommand]
    /\ b_live \in SUBSET B!Resource /\ b_config \in SUBSET B!Resource /\ b_removed \in SUBSET B!Resource
    /\ b_shared \in SUBSET B!Resource /\ b_raced \in SUBSET Thing /\ b_faults \in 0 .. MaxFaults

(* What a command is doing, it is of the kind that does it. *)
BackupOut(q) == q.pc \in {"idle", "failed"}
BackupFits(q) ==
    /\ q.pc \in {"upsert", "overflow", "drop"} => q.kind = "save"
    /\ q.pc = "delete" => q.kind = "delete"
    /\ q.pc \in {"create", "undo", "apply"} => q.kind = "load"
    /\ BackupOut(q) => q.kind = "save" /\ q.at = 0
    /\ ~BackupOut(q) => q.at > 0 /\ q.name \in Thing
    /\ q.drop # {} => q.pc = "drop"
    /\ q.made # {} => q.pc \in {"create", "undo"}

(* The commands are numbered as they start. *)
BackupStarted == {c \in Commander : b_cmd[c].pc # "idle"}
BackupNumbered ==
    /\ b_clock = B!Cardinality(BackupStarted)
    /\ \A c \in Commander : b_cmd[c].at <= b_clock
    /\ \A c, d \in Commander : b_cmd[c].at = b_cmd[d].at /\ b_cmd[c].at > 0 => c = d

(* A backup is one that a command saved. *)
BackupSavedBy(d, n) == b_cmd[d].kind = "save" /\ b_cmd[d].name = n /\ b_cmd[d].at = b_store[n]
BackupStoredIsSaved == \A n \in Thing : b_store[n] > 0 => \E d \in Commander : BackupSavedBy(d, n)

(* A save that is over, and that no newer command of its name follows, nor *)
(* enough newer saves: its backup is there, nobody is about to drop it and *)
(* nobody is about to write another.                                       *)
BackupNewerSaves(c) == {d \in Commander : b_cmd[d].kind = "save" /\ b_cmd[d].at > b_cmd[c].at}
BackupCounts(c) ==
    /\ b_cmd[c].kind = "save" /\ b_cmd[c].pc \in {"overflow", "drop", "done"} /\ ~B!Superseded(c)
    /\ B!Cardinality(BackupNewerSaves(c)) < MaxBackups
    /\ b_cmd[c].name \notin b_raced
    /\ ~\E d \in Commander : b_cmd[d].kind = "delete" /\ b_cmd[d].name = b_cmd[c].name
BackupSafe(c) ==
    /\ b_store[b_cmd[c].name] = b_cmd[c].at
    /\ \A d \in Commander : b_cmd[c].name \notin b_cmd[d].drop
    /\ \A d \in Commander \ {c} : ~(b_cmd[d].pc = "upsert" /\ b_cmd[d].name = b_cmd[c].name)
BackupKept(c) == BackupCounts(c) => BackupSafe(c)

(* What nobody has made yet is nowhere; a load's own are those it made;    *)
(* what it relies on is there, but for the exceptions; and what others     *)
(* rely on while it may undo it is an exception.                           *)
BackupUnmade(r, d) == b_cmd[d].pc = "idle" \/ (b_cmd[d].pc = "create" /\ r \in b_cmd[d].todo)
BackupNowhere(x) ==
    x \notin b_live /\ x \notin b_config /\ \A e \in Commander : x \notin b_cmd[e].cache \cup b_cmd[e].map
BackupUnmadeIsNowhere == \A r \in Task, d \in Commander : BackupUnmade(r, d) => BackupNowhere(<<r, d>>)
BackupThere == b_live \cup b_removed \cup b_shared
BackupRelies(e) == b_cmd[e].kind = "load" /\ b_cmd[e].pc \in {"create", "apply", "pending"}
BackupFoundIsThere == \A e \in Commander : BackupRelies(e) => b_cmd[e].cache \cup b_cmd[e].map \subseteq BackupThere
BackupMadeIsOwn ==
    \A d \in Commander : \A x \in b_cmd[d].made :
       /\ \E r \in Task : x = <<r, d>>
       /\ x \in b_config => x \in b_shared
       /\ \A e \in Commander \ {d} : x \in b_cmd[e].cache \cup b_cmd[e].map => x \in b_shared

BackupSaveInv == BackupStoredIsSaved /\ \A c \in Commander : BackupKept(c)
BackupLoadInv == BackupUnmadeIsNowhere /\ BackupFoundIsThere /\ BackupMadeIsOwn /\ B!RestoredExists
BackupInv ==
    BackupTypes /\ (\A c \in Commander : BackupFits(b_cmd[c])) /\ BackupNumbered /\ BackupSaveInv /\ BackupLoadInv

BackupBase == BackupTypes /\ (\A c \in Commander : BackupFits(b_cmd[c])) /\ BackupNumbered

(* The library's facts, of the operators as the instance sees them.        *)
LEMMA BackupFinite == ASSUME NEW X PROVE B!Cardinality(X) = Cardinality(X) /\ B!IsFiniteSet(X) = IsFiniteSet(X)
BY DEF B!Cardinality, Cardinality, B!IsFiniteSet, IsFiniteSet

LEMMA BackupAddElement ==
    ASSUME NEW X, NEW x, B!IsFiniteSet(X)
    PROVE  /\ B!IsFiniteSet(X \cup {x})
           /\ x \in X => B!Cardinality(X \cup {x}) = B!Cardinality(X)
           /\ x \notin X => B!Cardinality(X \cup {x}) = B!Cardinality(X) + 1
BY FS_AddElement, BackupFinite

LEMMA BackupCardinalityType == ASSUME NEW X, B!IsFiniteSet(X) PROVE B!Cardinality(X) \in Nat
BY FS_CardinalityType, BackupFinite

LEMMA BackupEmptySet ==
    B!IsFiniteSet({}) /\ B!Cardinality({}) = 0 /\ \A X : B!IsFiniteSet(X) => (B!Cardinality(X) = 0 <=> X = {})
BY FS_EmptySet, BackupFinite

LEMMA BackupSubset ==
    ASSUME NEW X, NEW Y \in SUBSET X, B!IsFiniteSet(X)
    PROVE  B!IsFiniteSet(Y) /\ B!Cardinality(Y) <= B!Cardinality(X)
BY FS_Subset, BackupFinite

LEMMA BackupSurjection ==
    ASSUME NEW X, NEW Y, B!IsFiniteSet(X), NEW f \in Surjection(X, Y)
    PROVE  B!IsFiniteSet(Y) /\ B!Cardinality(Y) <= B!Cardinality(X)
BY FS_Surjection, BackupFinite

-----------------------------------------------------------------------------
LEMMA BackupIdleTypes ==
    /\ B!Idle \in BackupCommand /\ BackupFits(B!Idle) /\ B!Idle.pc = "idle" /\ B!Idle.kind = "save" /\ B!Idle.at = 0
    /\ B!Idle.drop = {} /\ B!Idle.cache = {} /\ B!Idle.todo = {} /\ B!Idle.map = {} /\ B!Idle.made = {}
BY DEF B!Idle, BackupCommand, BackupPlaces, BackupFits, BackupOut

LEMMA BackupStartTypes ==
    ASSUME b_clock \in Nat, NEW c \in Commander, NEW kind \in {"save", "delete", "load"}, NEW n \in Thing
    PROVE  /\ B!Start(c, kind, n) \in BackupCommand /\ B!Start(c, kind, n).kind = kind
           /\ B!Start(c, kind, n).name = n /\ B!Start(c, kind, n).at = b_clock + 1
           /\ B!Start(c, kind, n).drop = {} /\ B!Start(c, kind, n).cache = {} /\ B!Start(c, kind, n).todo = {}
           /\ B!Start(c, kind, n).map = {} /\ B!Start(c, kind, n).made = {}
<1> DEFINE x == [B!Idle EXCEPT !.kind = kind, !.name = n, !.at = b_clock + 1]
<1>1. /\ B!Idle \in BackupCommand /\ B!Idle.drop = {} /\ B!Idle.cache = {} /\ B!Idle.todo = {} /\ B!Idle.map = {}
      /\ B!Idle.made = {}
  BY BackupIdleTypes
<1>2. b_clock + 1 \in Nat
  OBVIOUS
<1>3. x \in BackupCommand
  BY <1>1, <1>2 DEF BackupCommand
<1>4. x.kind = kind /\ x.name = n /\ x.at = b_clock + 1
  BY <1>1 DEF BackupCommand
<1>5. x.drop = {} /\ x.cache = {} /\ x.todo = {} /\ x.map = {} /\ x.made = {}
  BY <1>1 DEF BackupCommand
<1>6. x = B!Start(c, kind, n)
  BY DEF B!Start
<1> QED
  BY <1>3, <1>4, <1>5, <1>6

LEMMA BackupCmdPut ==
    ASSUME BackupTypes, NEW c \in Commander, NEW q \in BackupCommand, B!Put(c, q)
    PROVE  /\ b_cmd' \in [Commander -> BackupCommand] /\ b_cmd'[c] = q
           /\ \A d \in Commander : d # c => b_cmd'[d] = b_cmd[d]
BY DEF BackupTypes, B!Put

LEMMA BackupFaultTypes == ASSUME B!BackupAssumption, BackupTypes, B!Fault PROVE b_faults' \in 0 .. MaxFaults
BY DEF B!BackupAssumption, BackupTypes, B!Fault

(* A command that goes on keeps its number; one that starts gets the next. *)
LEMMA BackupGoesOn ==
    ASSUME BackupBase, NEW c \in Commander, NEW q \in BackupCommand, B!Put(c, q), BackupFits(q), b_clock' = b_clock,
           b_cmd[c].pc # "idle", q.pc # "idle", q.at = b_cmd[c].at \/ q.at = 0,
           b_store' \in [Thing -> Nat], b_live' \in SUBSET B!Resource, b_config' \in SUBSET B!Resource,
           b_removed' \in SUBSET B!Resource, b_shared' \in SUBSET B!Resource, b_raced' \in SUBSET Thing,
           b_faults' \in 0 .. MaxFaults
    PROVE  BackupBase'
<1>1. /\ b_cmd' \in [Commander -> BackupCommand] /\ b_cmd'[c] = q
      /\ \A d \in Commander : d # c => b_cmd'[d] = b_cmd[d]
  BY BackupCmdPut DEF BackupBase
<1>2. BackupTypes'
  BY <1>1 DEF BackupTypes, BackupBase
<1>3. BackupStarted' = BackupStarted
  BY <1>1 DEF BackupStarted
<1>4. BackupNumbered'
  BY <1>1, <1>3 DEF BackupNumbered, BackupBase, BackupTypes, BackupCommand
<1> QED
  BY <1>1, <1>2, <1>4 DEF BackupBase

LEMMA BackupStarts ==
    ASSUME B!BackupAssumption, BackupBase, NEW c \in Commander, NEW q \in BackupCommand, B!Put(c, q), BackupFits(q),
           b_clock' = b_clock + 1, b_cmd[c].pc = "idle", q.pc # "idle", q.at = b_clock + 1,
           b_shared' \in SUBSET B!Resource, UNCHANGED <<b_store, b_live, b_config, b_removed, b_raced, b_faults>>
    PROVE  BackupBase'
<1>1. /\ b_cmd' \in [Commander -> BackupCommand] /\ b_cmd'[c] = q
      /\ \A d \in Commander : d # c => b_cmd'[d] = b_cmd[d]
  BY BackupCmdPut DEF BackupBase
<1>2. BackupTypes'
  BY <1>1 DEF BackupTypes, BackupBase
<1>3. BackupStarted' = BackupStarted \cup {c} /\ c \notin BackupStarted
  BY <1>1 DEF BackupStarted
<1>4. B!IsFiniteSet(BackupStarted)
  BY BackupSubset DEF BackupStarted, B!BackupAssumption
<1>5. B!Cardinality(BackupStarted') = b_clock'
  BY <1>3, <1>4, BackupAddElement DEF BackupBase, BackupNumbered
<1>6. BackupNumbered'
  BY <1>1, <1>5 DEF BackupNumbered, BackupBase, BackupTypes, BackupCommand
<1> QED
  BY <1>1, <1>2, <1>6 DEF BackupBase

(* The clock is within the commands. *)
LEMMA BackupClockFits == ASSUME B!BackupAssumption, BackupBase PROVE B!Commands \in Nat /\ b_clock <= B!Commands
<1>1. BackupStarted \subseteq Commander
  BY DEF BackupStarted
<1> QED
  BY <1>1, BackupSubset, BackupCardinalityType DEF B!BackupAssumption, BackupBase, BackupNumbered, B!Commands

LEMMA BackupBaseTypesOK == ASSUME B!BackupAssumption, BackupInv PROVE B!TypeOK
<1>1. B!Commands \in Nat /\ b_clock <= B!Commands
  BY BackupClockFits DEF BackupInv, BackupBase
<1>2. \A n \in Thing : b_store[n] \in 0 .. B!Commands
  <2>1. \A d \in Commander : b_cmd[d].at \in Nat /\ b_cmd[d].at <= b_clock
    BY DEF BackupInv, BackupNumbered, BackupTypes, BackupCommand
  <2>2. \A n \in Thing : b_store[n] \in Nat
    BY DEF BackupInv, BackupTypes
  <2>3. b_clock \in Nat
    BY DEF BackupInv, BackupTypes
  <2>4. \A n \in Thing : b_store[n] > 0 => \E d \in Commander : b_cmd[d].at = b_store[n]
    BY DEF BackupInv, BackupSaveInv, BackupStoredIsSaved, BackupSavedBy
  <2> QED
    BY <1>1, <2>1, <2>2, <2>3, <2>4
<1>3. \A c \in Commander : b_cmd[c] \in BackupCommand /\ b_cmd[c].at \in 0 .. B!Commands
  <2>1. \A d \in Commander : b_cmd[d].at \in Nat /\ b_cmd[d].at <= b_clock
    BY DEF BackupInv, BackupNumbered, BackupTypes, BackupCommand
  <2> QED
    BY <1>1, <2>1 DEF BackupInv, BackupTypes
<1>4. b_store \in [Thing -> 0 .. B!Commands] /\ b_clock \in 0 .. B!Commands
  BY <1>1, <1>2 DEF BackupInv, BackupTypes
<1> QED
  BY <1>3, <1>4 DEF B!TypeOK, BackupInv, BackupTypes, BackupCommand, BackupPlaces

-----------------------------------------------------------------------------
(* What the journal knows of a command it does not forget.                 *)
BackupNotYet == {"idle", "create", "undo", "failed"}
BackupGoes(c, q) == b_cmd[c].pc \notin BackupNotYet =>
          q.pc \notin BackupNotYet /\ q.kind = b_cmd[c].kind /\ q.name = b_cmd[c].name /\ q.at = b_cmd[c].at

LEMMA BackupSupersededStays ==
    ASSUME BackupBase, NEW c \in Commander, NEW q \in BackupCommand, B!Put(c, q), BackupGoes(c, q),
           NEW e \in Commander, e # c \/ b_cmd[c].pc \notin BackupNotYet, B!Superseded(e)
    PROVE  B!Superseded(e)'
<1>1. /\ b_cmd' \in [Commander -> BackupCommand] /\ b_cmd'[c] = q
      /\ \A d \in Commander : d # c => b_cmd'[d] = b_cmd[d]
  BY BackupCmdPut DEF BackupBase
<1>2. PICK d \in Commander : /\ b_cmd[d].at > b_cmd[e].at /\ B!SameResource(e, d)
                             /\ b_cmd[d].pc \notin {"idle", "create", "undo", "failed"}
  BY DEF B!Superseded
<1>3. b_cmd'[d].at = b_cmd[d].at /\ b_cmd'[d].kind = b_cmd[d].kind /\ b_cmd'[d].name = b_cmd[d].name
      /\ b_cmd'[d].pc \notin BackupNotYet
  BY <1>1, <1>2 DEF BackupGoes, BackupNotYet
<1>4. b_cmd'[e].at = b_cmd[e].at /\ b_cmd'[e].kind = b_cmd[e].kind /\ b_cmd'[e].name = b_cmd[e].name
  BY <1>1 DEF BackupGoes
<1>5. B!SameResource(e, d)'
  BY <1>2, <1>3, <1>4 DEF B!SameResource
<1> QED
  BY <1>2, <1>3, <1>4, <1>5 DEF B!Superseded, BackupNotYet

LEMMA BackupNewerGrow ==
    ASSUME B!BackupAssumption, BackupBase, NEW c \in Commander, NEW q \in BackupCommand, B!Put(c, q),
           BackupGoes(c, q),
           NEW e \in Commander, b_cmd'[e].at = b_cmd[e].at
    PROVE  B!Cardinality(BackupNewerSaves(e)) <= B!Cardinality(BackupNewerSaves(e)')
           /\ B!Cardinality(BackupNewerSaves(e)) \in Nat /\ B!Cardinality(BackupNewerSaves(e)') \in Nat
<1>1. /\ b_cmd' \in [Commander -> BackupCommand] /\ b_cmd'[c] = q
      /\ \A d \in Commander : d # c => b_cmd'[d] = b_cmd[d]
  BY BackupCmdPut DEF BackupBase
<1>2. BackupNewerSaves(e)' \subseteq Commander
  BY DEF BackupNewerSaves
<1>3. ASSUME NEW d \in BackupNewerSaves(e) PROVE d \in BackupNewerSaves(e)'
  <2>1. d \in Commander /\ b_cmd[d].kind = "save" /\ b_cmd[d].at > b_cmd[e].at
    BY DEF BackupNewerSaves
  <2>2. b_cmd[d].at > 0
    BY <2>1 DEF BackupBase, BackupTypes, BackupCommand
  <2>3. b_cmd[d].pc \notin BackupNotYet
    BY <2>1, <2>2 DEF BackupBase, BackupFits, BackupOut, BackupNotYet
  <2>4. b_cmd'[d].kind = "save" /\ b_cmd'[d].at = b_cmd[d].at
    BY <1>1, <2>1, <2>3 DEF BackupGoes
  <2> QED
    BY <2>1, <2>4 DEF BackupNewerSaves
<1>4. B!IsFiniteSet(BackupNewerSaves(e)') /\ BackupNewerSaves(e) \subseteq BackupNewerSaves(e)'
  BY <1>2, <1>3, BackupSubset DEF B!BackupAssumption
<1> QED
  BY <1>4, BackupSubset, BackupCardinalityType

(* What counts after a step did before, if the command was that far.       *)
LEMMA BackupCountsBack ==
    ASSUME B!BackupAssumption, BackupBase, NEW c \in Commander, NEW q \in BackupCommand, B!Put(c, q),
           BackupGoes(c, q),
           b_raced \subseteq b_raced', NEW e \in Commander,
           e # c \/ b_cmd[c].pc \in {"overflow", "drop"}, BackupCounts(e)'
    PROVE  BackupCounts(e) /\ b_cmd'[e].at = b_cmd[e].at /\ b_cmd'[e].name = b_cmd[e].name
           /\ b_cmd[e].at > 0 /\ b_cmd[e].name \in Thing
<1>1. /\ b_cmd' \in [Commander -> BackupCommand] /\ b_cmd'[c] = q
      /\ \A d \in Commander : d # c => b_cmd'[d] = b_cmd[d]
  BY BackupCmdPut DEF BackupBase
<1>2. b_cmd'[e].at = b_cmd[e].at /\ b_cmd'[e].name = b_cmd[e].name /\ b_cmd'[e].kind = b_cmd[e].kind
  BY <1>1 DEF BackupGoes, BackupNotYet
<1>3. b_cmd[e].kind = "save" /\ b_cmd[e].pc \in {"overflow", "drop", "done"}
  BY <1>1, <1>2 DEF BackupCounts
<1>4. ~B!Superseded(e)
  BY BackupSupersededStays DEF BackupCounts, BackupNotYet
<1>5. B!Cardinality(BackupNewerSaves(e)) < MaxBackups
  BY <1>2, BackupNewerGrow DEF BackupCounts, B!BackupAssumption
<1>6. ~\E d \in Commander : b_cmd[d].kind = "delete" /\ b_cmd[d].name = b_cmd[e].name
  <2> SUFFICES ASSUME NEW d \in Commander, b_cmd[d].kind = "delete", b_cmd[d].name = b_cmd[e].name PROVE FALSE
    OBVIOUS
  <2>1. b_cmd[d].pc \notin BackupNotYet
    BY DEF BackupBase, BackupFits, BackupOut, BackupNotYet
  <2>2. b_cmd'[d].kind = "delete" /\ b_cmd'[d].name = b_cmd[d].name
    BY <1>1, <2>1 DEF BackupGoes
  <2> QED
    BY <1>2, <2>2 DEF BackupCounts
<1>7. b_cmd[e].name \notin b_raced
  BY <1>2 DEF BackupCounts
<1>8. b_cmd[e].at > 0 /\ b_cmd[e].name \in Thing
  BY <1>3 DEF BackupBase, BackupFits, BackupOut
<1> QED
  BY <1>2, <1>3, <1>4, <1>5, <1>6, <1>7, <1>8 DEF BackupCounts

(* A step that touches no backup, and no save that is over but by going    *)
(* on to drop what is not newest.                                          *)
LEMMA BackupSavesStay ==
    ASSUME B!BackupAssumption, BackupBase, BackupSaveInv, NEW c \in Commander, NEW q \in BackupCommand, B!Put(c, q),
           BackupGoes(c, q),
           UNCHANGED <<b_store, b_raced>>,
           \A e \in Commander : BackupCounts(e)' =>
             /\ e # c \/ b_cmd[c].pc \in {"overflow", "drop"}
             /\ BackupCounts(e) => /\ b_cmd[e].name \notin q.drop
                                   /\ e # c => ~(q.pc = "upsert" /\ q.name = b_cmd[e].name)
    PROVE  BackupSaveInv'
<1>1. /\ b_cmd' \in [Commander -> BackupCommand] /\ b_cmd'[c] = q
      /\ \A d \in Commander : d # c => b_cmd'[d] = b_cmd[d]
  BY BackupCmdPut DEF BackupBase
<1>2. BackupStoredIsSaved'
  <2> SUFFICES ASSUME NEW n \in Thing, b_store[n] > 0 PROVE \E d \in Commander : BackupSavedBy(d, n)'
    BY DEF BackupStoredIsSaved
  <2>1. PICK d \in Commander : BackupSavedBy(d, n)
    BY DEF BackupSaveInv, BackupStoredIsSaved
  <2>2. b_cmd[d].pc \notin BackupNotYet
    BY <2>1 DEF BackupBase, BackupFits, BackupOut, BackupNotYet, BackupSavedBy
  <2>3. BackupSavedBy(d, n)'
    BY <1>1, <2>1, <2>2 DEF BackupGoes, BackupSavedBy
  <2> QED
    BY <2>3
<1>3. ASSUME NEW e \in Commander PROVE BackupKept(e)'
  <2> SUFFICES ASSUME BackupCounts(e)' PROVE BackupSafe(e)'
    BY DEF BackupKept
  <2>1. BackupCounts(e) /\ b_cmd'[e].at = b_cmd[e].at /\ b_cmd'[e].name = b_cmd[e].name
    BY BackupCountsBack
  <2>2. BackupSafe(e)
    BY <2>1 DEF BackupSaveInv, BackupKept
  <2>3. /\ b_cmd[e].name \notin q.drop
        /\ e # c => ~(q.pc = "upsert" /\ q.name = b_cmd[e].name)
    BY <2>1
  <2> QED
    BY <1>1, <2>1, <2>2, <2>3 DEF BackupSafe
<1> QED
  BY <1>2, <1>3 DEF BackupSaveInv

(* A step of a command that is no save that is over, now or then.          *)
LEMMA BackupSavesAside ==
    ASSUME B!BackupAssumption, BackupBase, BackupSaveInv, NEW c \in Commander, NEW q \in BackupCommand, B!Put(c, q),
           BackupGoes(c, q),
           UNCHANGED <<b_store, b_raced>>, q.drop = {}, q.pc # "upsert",
           q.kind # "save" \/ q.pc \notin {"overflow", "drop", "done"}
    PROVE  BackupSaveInv'
<1>1. b_cmd'[c] = q
  BY BackupCmdPut DEF BackupBase
<1>2. \A e \in Commander : BackupCounts(e)' => e # c
  BY <1>1 DEF BackupCounts
<1> QED
  BY <1>2, BackupSavesStay

-----------------------------------------------------------------------------
(* A step that touches no resource, of a command that comes to know none.  *)
LEMMA BackupLoadQuiet ==
    ASSUME BackupBase, BackupLoadInv, NEW c \in Commander, NEW q \in BackupCommand, B!Put(c, q),
           UNCHANGED <<b_live, b_config, b_removed, b_shared>>,
           q.cache \cup q.map \subseteq b_cmd[c].cache \cup b_cmd[c].map, q.made \subseteq b_cmd[c].made,
           q.pc # "idle", q.pc = "create" => b_cmd[c].pc = "create" /\ q.todo \subseteq b_cmd[c].todo,
           q.kind = "load" /\ q.pc \in {"create", "apply", "pending"} => BackupRelies(c)
    PROVE  BackupLoadInv'
<1>1. /\ b_cmd' \in [Commander -> BackupCommand] /\ b_cmd'[c] = q
      /\ \A d \in Commander : d # c => b_cmd'[d] = b_cmd[d]
  BY BackupCmdPut DEF BackupBase
<1>2. \A x : BackupNowhere(x) => BackupNowhere(x)'
  BY <1>1 DEF BackupNowhere
<1>3. \A r \in Task, d \in Commander : BackupUnmade(r, d)' => BackupUnmade(r, d)
  BY <1>1 DEF BackupUnmade
<1>4. BackupUnmadeIsNowhere'
  BY <1>2, <1>3 DEF BackupLoadInv, BackupUnmadeIsNowhere
<1>5. \A e \in Commander : BackupRelies(e)' => BackupRelies(e)
  BY <1>1 DEF BackupRelies
<1>6. \A e \in Commander : b_cmd'[e].cache \cup b_cmd'[e].map \subseteq b_cmd[e].cache \cup b_cmd[e].map
  BY <1>1
<1>7. BackupFoundIsThere' /\ B!RestoredExists'
  BY <1>5, <1>6 DEF BackupLoadInv, BackupFoundIsThere, BackupThere, B!RestoredExists
<1>8. \A e \in Commander : b_cmd'[e].made \subseteq b_cmd[e].made
  BY <1>1
<1>9. BackupMadeIsOwn'
  BY <1>6, <1>8 DEF BackupLoadInv, BackupMadeIsOwn
<1> QED
  BY <1>4, <1>7, <1>9 DEF BackupLoadInv

LEMMA BackupSaveFine ==
    ASSUME B!BackupAssumption, BackupInv, NEW c \in Commander, NEW n \in Thing, B!Save(c, n) PROVE BackupInv'
<1>0. BackupBase
  BY DEF BackupInv, BackupBase
<1> DEFINE q == [B!Start(c, "save", n) EXCEPT !.pc = "upsert"]
<1>1. q \in BackupCommand /\ q.pc = "upsert" /\ q.kind = "save" /\ q.name = n /\ q.at = b_clock + 1
      /\ q.drop = {} /\ q.cache = {} /\ q.todo = {} /\ q.map = {} /\ q.made = {}
  <2>1. b_clock \in Nat
    BY <1>0 DEF BackupBase, BackupTypes
  <2> DEFINE x == B!Start(c, "save", n)
  <2>2. /\ x \in BackupCommand /\ x.kind = "save" /\ x.name = n /\ x.at = b_clock + 1
        /\ x.drop = {} /\ x.cache = {} /\ x.todo = {} /\ x.map = {} /\ x.made = {}
    BY <2>1, BackupStartTypes
  <2> HIDE DEF x
  <2>3. [x EXCEPT !.pc = "upsert"] = q
    BY DEF x
  <2>4. "upsert" \in BackupPlaces
    BY DEF BackupPlaces
  <2>5. [x EXCEPT !.pc = "upsert"] \in BackupCommand
    BY <2>2, <2>4 DEF BackupCommand
  <2> HIDE DEF q
  <2> QED
    BY <2>2, <2>3, <2>5 DEF BackupCommand
<1>2. B!Put(c, q) /\ b_cmd[c].pc = "idle" /\ b_clock' = b_clock + 1
      /\ UNCHANGED <<b_store, b_live, b_config, b_removed, b_shared, b_raced, b_faults>>
  BY DEF B!Save, B!At
<1> HIDE DEF q
<1>3. b_clock \in Nat /\ BackupTypes
  BY <1>0 DEF BackupBase, BackupTypes
<1>4. BackupFits(q)
  BY <1>1, <1>3 DEF BackupFits, BackupOut
<1>5. BackupBase'
  BY <1>0, <1>1, <1>2, <1>3, <1>4, BackupStarts DEF BackupTypes
<1>6. BackupGoes(c, q)
  BY <1>2 DEF BackupGoes, BackupNotYet
<1>7. b_cmd'[c] = q /\ \A d \in Commander : d # c => b_cmd'[d] = b_cmd[d]
  BY <1>1, <1>2, <1>3, BackupCmdPut
<1>8. ASSUME NEW e \in Commander, BackupCounts(e)' PROVE e # c /\ n # b_cmd[e].name
  <2>1. e # c
    BY <1>1, <1>7, <1>8 DEF BackupCounts
  <2>2. b_cmd[e].at < b_clock + 1 /\ b_cmd[e].kind = "save"
    BY <1>0, <1>7, <1>8, <2>1 DEF BackupBase, BackupNumbered, BackupTypes, BackupCommand, BackupCounts
  <2>3. n # b_cmd[e].name
    <3> SUFFICES ASSUME n = b_cmd[e].name PROVE FALSE
      OBVIOUS
    <3>1. B!SameResource(e, c)'
      BY <1>1, <1>7, <2>1, <2>2 DEF B!SameResource
    <3>2. B!Superseded(e)'
      BY <1>1, <1>7, <2>1, <2>2, <3>1 DEF B!Superseded
    <3> QED
      BY <1>8, <3>2 DEF BackupCounts
  <2> QED
    BY <2>1, <2>3
<1>9. BackupSaveInv'
  BY <1>0, <1>1, <1>2, <1>6, <1>8, BackupSavesStay DEF BackupInv
<1>10. BackupLoadInv'
  BY <1>0, <1>1, <1>2, BackupLoadQuiet DEF BackupInv
<1> QED
  BY <1>5, <1>9, <1>10 DEF BackupInv, BackupBase

LEMMA BackupDeleteFine ==
    ASSUME B!BackupAssumption, BackupInv, NEW c \in Commander, NEW n \in Thing, B!Delete(c, n) PROVE BackupInv'
<1>0. BackupBase
  BY DEF BackupInv, BackupBase
<1> DEFINE q == [B!Start(c, "delete", n) EXCEPT !.pc = "delete"]
<1>1. q \in BackupCommand /\ q.pc = "delete" /\ q.kind = "delete" /\ q.name = n /\ q.at = b_clock + 1
      /\ q.drop = {} /\ q.cache = {} /\ q.todo = {} /\ q.map = {} /\ q.made = {}
  <2>1. b_clock \in Nat
    BY <1>0 DEF BackupBase, BackupTypes
  <2> DEFINE x == B!Start(c, "delete", n)
  <2>2. /\ x \in BackupCommand /\ x.kind = "delete" /\ x.name = n /\ x.at = b_clock + 1
        /\ x.drop = {} /\ x.cache = {} /\ x.todo = {} /\ x.map = {} /\ x.made = {}
    <3> HIDE DEF q
    <3>1. \A k \in {"save", "delete", "load"} :
            /\ B!Start(c, k, n) \in BackupCommand /\ B!Start(c, k, n).kind = k
            /\ B!Start(c, k, n).name = n /\ B!Start(c, k, n).at = b_clock + 1
            /\ B!Start(c, k, n).drop = {} /\ B!Start(c, k, n).cache = {} /\ B!Start(c, k, n).todo = {}
            /\ B!Start(c, k, n).map = {} /\ B!Start(c, k, n).made = {}
      BY <2>1, BackupStartTypes
    <3> QED
      BY <3>1
  <2> HIDE DEF x
  <2>3. [x EXCEPT !.pc = "delete"] = q
    BY DEF x
  <2>4. "delete" \in BackupPlaces
    BY DEF BackupPlaces
  <2>5. [x EXCEPT !.pc = "delete"] \in BackupCommand
    BY <2>2, <2>4 DEF BackupCommand
  <2> HIDE DEF q
  <2> QED
    BY <2>2, <2>3, <2>5 DEF BackupCommand
<1>2. B!Put(c, q) /\ b_cmd[c].pc = "idle" /\ b_clock' = b_clock + 1
      /\ UNCHANGED <<b_store, b_live, b_config, b_removed, b_shared, b_raced, b_faults>>
  BY DEF B!Delete, B!At
<1> HIDE DEF q
<1>3. b_clock \in Nat /\ BackupTypes
  BY <1>0 DEF BackupBase, BackupTypes
<1>4. BackupFits(q)
  BY <1>1, <1>3 DEF BackupFits, BackupOut
<1>5. BackupBase'
  BY <1>0, <1>1, <1>2, <1>3, <1>4, BackupStarts DEF BackupTypes
<1>6. BackupGoes(c, q)
  BY <1>2 DEF BackupGoes, BackupNotYet
<1>9. BackupSaveInv'
  BY <1>0, <1>1, <1>2, <1>6, BackupSavesAside DEF BackupInv
<1>10. BackupLoadInv'
  BY <1>0, <1>1, <1>2, BackupLoadQuiet DEF BackupInv
<1> QED
  BY <1>5, <1>9, <1>10 DEF BackupInv, BackupBase

LEMMA BackupUpsertFine ==
    ASSUME B!BackupAssumption, BackupInv, NEW c \in Commander, B!Upsert(c) PROVE BackupInv'
<1>0. BackupBase
  BY DEF BackupInv, BackupBase
<1> DEFINE q == [b_cmd[c] EXCEPT !.pc = "overflow"]
<1> DEFINE n == b_cmd[c].name
<1>1. /\ q \in BackupCommand /\ q.pc = "overflow" /\ q.kind = b_cmd[c].kind /\ q.name = b_cmd[c].name
      /\ q.at = b_cmd[c].at
      /\ q.drop = b_cmd[c].drop /\ q.cache = b_cmd[c].cache /\ q.todo = b_cmd[c].todo
      /\ q.map = b_cmd[c].map /\ q.made = b_cmd[c].made
  BY <1>0 DEF BackupBase, BackupTypes, BackupCommand, BackupPlaces
<1>2. B!Put(c, q) /\ b_cmd[c].pc = "upsert" /\ b_clock' = b_clock /\ b_store' = [b_store EXCEPT ![n] = b_cmd[c].at]
      /\ UNCHANGED <<b_live, b_config, b_removed, b_shared, b_faults>>
  BY DEF B!Upsert, B!At, B!Move
<1>3. b_raced' = IF \E d \in Commander \ {c} : n \in b_cmd[d].drop
        \/ B!Writes(d, n) THEN b_raced \cup {n} ELSE b_raced
  BY DEF B!Upsert
<1> HIDE DEF q
<1>4. /\ b_cmd[c].kind = "save" /\ b_cmd[c].at > 0 /\ n \in Thing /\ b_cmd[c].drop = {} /\ b_cmd[c].made = {}
      /\ b_cmd[c].at \in Nat
  BY <1>0, <1>2 DEF BackupBase, BackupFits, BackupOut, BackupTypes, BackupCommand
<1> HIDE DEF n
<1>5. BackupFits(q)
  BY <1>1, <1>2, <1>4 DEF BackupFits, BackupOut, n
<1>6. b_store' \in [Thing -> Nat] /\ b_store'[n] = b_cmd[c].at /\ \A m \in Thing : m # n => b_store'[m] = b_store[m]
  BY <1>0, <1>2, <1>4 DEF BackupBase, BackupTypes
<1>7. b_raced' \subseteq Thing /\ b_raced \subseteq b_raced'
  BY <1>0, <1>3, <1>4 DEF BackupBase, BackupTypes
<1>8. BackupBase'
  <2>1. b_live \in SUBSET B!Resource /\ b_config \in SUBSET B!Resource /\ b_removed \in SUBSET B!Resource
        /\ b_shared \in SUBSET B!Resource /\ b_faults \in 0 .. MaxFaults
    BY <1>0 DEF BackupBase, BackupTypes
  <2> QED
    BY <1>0, <1>1, <1>2, <1>5, <1>6, <1>7, <2>1, BackupGoesOn
<1>9. BackupGoes(c, q)
  BY <1>1 DEF BackupGoes, BackupNotYet
<1>10. b_cmd'[c] = q /\ \A d \in Commander : d # c => b_cmd'[d] = b_cmd[d]
  BY <1>0, <1>1, <1>2, BackupCmdPut DEF BackupBase
<1>11. BackupStoredIsSaved'
  <2> SUFFICES ASSUME NEW m \in Thing, b_store'[m] > 0 PROVE \E d \in Commander : BackupSavedBy(d, m)'
    BY DEF BackupStoredIsSaved
  <2>1. CASE m = n
    BY <1>1, <1>4, <1>6, <1>10, <2>1 DEF BackupSavedBy, n
  <2>2. CASE m # n
    <3>1. PICK d \in Commander : BackupSavedBy(d, m)
      BY <1>6, <2>2 DEF BackupInv, BackupSaveInv, BackupStoredIsSaved
    <3>2. BackupSavedBy(d, m)'
      BY <1>1, <1>6, <1>10, <2>2, <3>1 DEF BackupSavedBy
    <3> QED
      BY <3>2
  <2> QED
    BY <2>1, <2>2
<1>12. ASSUME NEW e \in Commander PROVE BackupKept(e)'
  <2> SUFFICES ASSUME BackupCounts(e)' PROVE BackupSafe(e)'
    BY DEF BackupKept
  <2>1. CASE e = c
    <3>1. n \notin b_raced'
      BY <1>1, <1>10, <2>1 DEF BackupCounts, n
    <3>2. \A d \in Commander \ {c} : n \notin b_cmd[d].drop /\ ~B!Writes(d, n)
      BY <1>3, <3>1
    <3> QED
      BY <1>1, <1>4, <1>6, <1>10, <2>1, <3>2 DEF BackupSafe, B!Writes, n
  <2>2. CASE e # c
    <3>1. BackupCounts(e) /\ b_cmd'[e].at = b_cmd[e].at /\ b_cmd'[e].name = b_cmd[e].name /\ b_cmd[e].name \in Thing
      BY <1>0, <1>1, <1>2, <1>7, <1>9, <2>2, BackupCountsBack
    <3>2. BackupSafe(e)
      BY <3>1 DEF BackupInv, BackupSaveInv, BackupKept
    <3>3. b_cmd[e].name # n
      BY <1>2, <2>2, <3>2 DEF BackupSafe, n
    <3> QED
      BY <1>1, <1>2, <1>4, <1>6, <1>10, <2>2, <3>1, <3>2, <3>3 DEF BackupSafe
  <2> QED
    BY <2>1, <2>2
<1>13. BackupLoadInv'
  BY <1>0, <1>1, <1>2, <1>4, BackupLoadQuiet DEF BackupInv
<1> QED
  BY <1>8, <1>11, <1>12, <1>13 DEF BackupInv, BackupBase, BackupSaveInv

LEMMA BackupFindOverflowFine ==
    ASSUME B!BackupAssumption, BackupInv, NEW c \in Commander, B!FindOverflow(c) PROVE BackupInv'
<1>0. BackupBase /\ BackupTypes
  BY DEF BackupInv, BackupBase
<1> DEFINE pc == IF B!Overflow = {} THEN "done" ELSE "drop"
<1> DEFINE q == [b_cmd[c] EXCEPT !.pc = pc, !.drop = B!Overflow]
<1>1. q \in BackupCommand /\ q.pc = pc /\ q.kind = b_cmd[c].kind /\ q.name = b_cmd[c].name /\ q.at = b_cmd[c].at
      /\ q.drop = B!Overflow /\ q.cache = b_cmd[c].cache /\ q.todo = b_cmd[c].todo
      /\ q.map = b_cmd[c].map /\ q.made = b_cmd[c].made
  <2>1. B!Overflow \in SUBSET Thing
    BY DEF B!Overflow
  <2>2. pc \in BackupPlaces
    BY DEF BackupPlaces
  <2> HIDE DEF pc
  <2> QED
    BY <1>0, <2>1, <2>2 DEF BackupBase, BackupTypes, BackupCommand
<1>2. B!Put(c, q) /\ b_cmd[c].pc = "overflow"
      /\ UNCHANGED <<b_store, b_clock, b_live, b_config, b_removed, b_shared, b_raced, b_faults>>
  BY DEF B!FindOverflow, B!At
<1> HIDE DEF q
<1>3. b_cmd[c].kind = "save" /\ b_cmd[c].at > 0 /\ b_cmd[c].name \in Thing /\ b_cmd[c].made = {}
  BY <1>0, <1>2 DEF BackupBase, BackupFits, BackupOut
<1>4. BackupFits(q)
  BY <1>1, <1>3 DEF BackupFits, BackupOut
<1>5. BackupBase'
  <2>1. b_live \in SUBSET B!Resource /\ b_config \in SUBSET B!Resource /\ b_removed \in SUBSET B!Resource
        /\ b_shared \in SUBSET B!Resource /\ b_raced \in SUBSET Thing /\ b_store \in [Thing -> Nat]
        /\ b_faults \in 0 .. MaxFaults
    BY <1>0 DEF BackupBase, BackupTypes
  <2> QED
    BY <1>0, <1>1, <1>2, <1>4, <2>1, BackupGoesOn
<1>6. BackupGoes(c, q)
  BY <1>1 DEF BackupGoes, BackupNotYet
<1>7. ASSUME NEW e \in Commander, BackupCounts(e) PROVE b_cmd[e].name \notin B!Overflow
  <2>1. BackupSafe(e) /\ b_cmd[e].at > 0 /\ b_cmd[e].name \in Thing
    BY <1>0, <1>7 DEF BackupInv, BackupSaveInv, BackupKept, BackupCounts, BackupBase, BackupFits, BackupOut
  <2> DEFINE name == [d \in BackupNewerSaves(e) |-> b_cmd[d].name]
  <2> DEFINE names == {name[d] : d \in BackupNewerSaves(e)}
  <2>2. B!IsFiniteSet(BackupNewerSaves(e)) /\ B!Cardinality(BackupNewerSaves(e)) \in Nat
    BY BackupSubset, BackupCardinalityType DEF BackupNewerSaves, B!BackupAssumption
  <2>3. B!IsFiniteSet(names) /\ B!Cardinality(names) <= B!Cardinality(BackupNewerSaves(e))
    <3>1. BackupNewerSaves(e) # {} \/ BackupNewerSaves(e) = {}
      OBVIOUS
    <3>2. name \in Surjection(BackupNewerSaves(e), names)
      BY DEF Surjection
    <3> QED
      BY <2>2, <3>2, BackupSurjection
  <2>4. B!Newer(b_cmd[e].name) \subseteq names
    <3> SUFFICES ASSUME NEW m \in B!Newer(b_cmd[e].name) PROVE m \in names
      OBVIOUS
    <3>1. m \in Thing /\ b_store[m] > b_cmd[e].at
      BY <2>1 DEF B!Newer, BackupSafe
    <3>2. b_store[m] \in Nat /\ b_cmd[e].at \in Nat
      BY <1>0, <3>1 DEF BackupTypes, BackupCommand
    <3>3. PICK d \in Commander : BackupSavedBy(d, m)
      BY <3>1, <3>2 DEF BackupInv, BackupSaveInv, BackupStoredIsSaved
    <3>4. d \in BackupNewerSaves(e) /\ name[d] = m
      BY <3>1, <3>3 DEF BackupNewerSaves, BackupSavedBy
    <3> QED
      BY <3>4
  <2>5. B!Cardinality(B!Newer(b_cmd[e].name)) <= B!Cardinality(names) /\ B!Cardinality(B!Newer(b_cmd[e].name)) \in Nat
        /\ B!Cardinality(names) \in Nat
    BY <2>3, <2>4, BackupSubset, BackupCardinalityType
  <2>6. B!Cardinality(BackupNewerSaves(e)) < MaxBackups
    BY <1>7 DEF BackupCounts
  <2> QED
    BY <2>2, <2>3, <2>5, <2>6 DEF B!Overflow, B!BackupAssumption
<1>8. q.pc # "upsert"
  BY <1>1
<1>9. BackupSaveInv'
  BY <1>0, <1>1, <1>2, <1>6, <1>7, <1>8, BackupSavesStay DEF BackupInv
<1>10. BackupLoadInv'
  BY <1>0, <1>1, <1>2, <1>3, BackupLoadQuiet DEF BackupInv
<1> QED
  BY <1>5, <1>9, <1>10 DEF BackupInv, BackupBase

LEMMA BackupDropOverflowFine ==
    ASSUME B!BackupAssumption, BackupInv, NEW c \in Commander, B!DropOverflow(c) PROVE BackupInv'
<1>0. BackupBase /\ BackupTypes
  BY DEF BackupInv, BackupBase
<1> DEFINE q == [b_cmd[c] EXCEPT !.pc = "done", !.drop = {}]
<1>1. q \in BackupCommand /\ q.pc = "done" /\ q.kind = b_cmd[c].kind /\ q.name = b_cmd[c].name /\ q.at = b_cmd[c].at
      /\ q.drop = {} /\ q.cache = b_cmd[c].cache /\ q.todo = b_cmd[c].todo
      /\ q.map = b_cmd[c].map /\ q.made = b_cmd[c].made
  BY <1>0 DEF BackupBase, BackupTypes, BackupCommand, BackupPlaces
<1>2. /\ B!Put(c, q) /\ b_cmd[c].pc = "drop"
      /\ b_store' = [n \in Thing |-> IF n \in b_cmd[c].drop THEN 0 ELSE b_store[n]]
      /\ UNCHANGED <<b_clock, b_live, b_config, b_removed, b_shared, b_raced, b_faults>>
  BY DEF B!DropOverflow, B!At
<1> HIDE DEF q
<1>3. b_cmd[c].kind = "save" /\ b_cmd[c].at > 0 /\ b_cmd[c].name \in Thing /\ b_cmd[c].made = {}
  BY <1>0, <1>2 DEF BackupBase, BackupFits, BackupOut
<1>4. BackupFits(q)
  BY <1>1, <1>3 DEF BackupFits, BackupOut
<1>5. BackupBase'
  <2>1. b_live \in SUBSET B!Resource /\ b_config \in SUBSET B!Resource /\ b_removed \in SUBSET B!Resource
        /\ b_shared \in SUBSET B!Resource /\ b_raced \in SUBSET Thing /\ b_store' \in [Thing -> Nat]
        /\ b_faults \in 0 .. MaxFaults
    BY <1>0, <1>2 DEF BackupTypes
  <2> QED
    BY <1>0, <1>1, <1>2, <1>4, <2>1, BackupGoesOn
<1>6. BackupGoes(c, q)
  BY <1>1 DEF BackupGoes, BackupNotYet
<1>7. b_cmd'[c] = q /\ \A d \in Commander : d # c => b_cmd'[d] = b_cmd[d]
  BY <1>0, <1>1, <1>2, BackupCmdPut
<1>8. BackupStoredIsSaved'
  <2> SUFFICES ASSUME NEW m \in Thing, b_store'[m] > 0 PROVE \E d \in Commander : BackupSavedBy(d, m)'
    BY DEF BackupStoredIsSaved
  <2>1. b_store'[m] = b_store[m]
    BY <1>2
  <2>2. PICK d \in Commander : BackupSavedBy(d, m)
    BY <2>1 DEF BackupInv, BackupSaveInv, BackupStoredIsSaved
  <2>3. BackupSavedBy(d, m)'
    BY <1>1, <1>7, <2>1, <2>2 DEF BackupSavedBy
  <2> QED
    BY <2>3
<1>9. BackupSaveInv'
  <2>1. ASSUME NEW e \in Commander PROVE BackupKept(e)'
    <3> SUFFICES ASSUME BackupCounts(e)' PROVE BackupSafe(e)'
      BY DEF BackupKept
    <3>1. BackupCounts(e) /\ b_cmd'[e].at = b_cmd[e].at /\ b_cmd'[e].name = b_cmd[e].name /\ b_cmd[e].name \in Thing
      BY <1>0, <1>1, <1>2, <1>6, BackupCountsBack
    <3>2. BackupSafe(e)
      BY <3>1 DEF BackupInv, BackupSaveInv, BackupKept
    <3>3. b_store'[b_cmd[e].name] = b_store[b_cmd[e].name]
      BY <1>2, <3>1, <3>2 DEF BackupSafe
    <3> QED
      BY <1>1, <1>7, <3>1, <3>2, <3>3 DEF BackupSafe
  <2> QED
    BY <1>8, <2>1 DEF BackupSaveInv
<1>10. BackupLoadInv'
  BY <1>0, <1>1, <1>2, <1>3, BackupLoadQuiet DEF BackupInv
<1> QED
  BY <1>5, <1>9, <1>10 DEF BackupInv, BackupBase

LEMMA BackupDeleteOneFine ==
    ASSUME B!BackupAssumption, BackupInv, NEW c \in Commander, B!DeleteOne(c) PROVE BackupInv'
<1>0. BackupBase /\ BackupTypes
  BY DEF BackupInv, BackupBase
<1> DEFINE q == [b_cmd[c] EXCEPT !.pc = "done"]
<1>1. q \in BackupCommand /\ q.pc = "done" /\ q.kind = b_cmd[c].kind /\ q.name = b_cmd[c].name /\ q.at = b_cmd[c].at
      /\ q.drop = b_cmd[c].drop /\ q.cache = b_cmd[c].cache /\ q.todo = b_cmd[c].todo
      /\ q.map = b_cmd[c].map /\ q.made = b_cmd[c].made
  BY <1>0 DEF BackupBase, BackupTypes, BackupCommand, BackupPlaces
<1>2. B!Put(c, q) /\ b_cmd[c].pc = "delete" /\ b_store' = [b_store EXCEPT ![b_cmd[c].name] = 0]
      /\ UNCHANGED <<b_clock, b_live, b_config, b_removed, b_shared, b_raced, b_faults>>
  BY DEF B!DeleteOne, B!At, B!Move
<1> HIDE DEF q
<1>3. /\ b_cmd[c].kind = "delete" /\ b_cmd[c].at > 0 /\ b_cmd[c].name \in Thing /\ b_cmd[c].made = {}
      /\ b_cmd[c].drop = {}
  BY <1>0, <1>2 DEF BackupBase, BackupFits, BackupOut
<1>4. BackupFits(q)
  BY <1>1, <1>3 DEF BackupFits, BackupOut
<1>5. BackupBase'
  <2>1. b_live \in SUBSET B!Resource /\ b_config \in SUBSET B!Resource /\ b_removed \in SUBSET B!Resource
        /\ b_shared \in SUBSET B!Resource /\ b_raced \in SUBSET Thing /\ b_store' \in [Thing -> Nat]
        /\ b_faults \in 0 .. MaxFaults
    BY <1>0, <1>2 DEF BackupTypes
  <2> QED
    BY <1>0, <1>1, <1>2, <1>4, <2>1, BackupGoesOn
<1>6. BackupGoes(c, q)
  BY <1>1 DEF BackupGoes, BackupNotYet
<1>7. b_cmd'[c] = q /\ \A d \in Commander : d # c => b_cmd'[d] = b_cmd[d]
  BY <1>0, <1>1, <1>2, BackupCmdPut
<1>11. \A m \in Thing : m # b_cmd[c].name => b_store'[m] = b_store[m]
  BY <1>0, <1>2 DEF BackupTypes
<1>12. b_store'[b_cmd[c].name] = 0
  BY <1>0, <1>2, <1>3 DEF BackupTypes
<1>8. BackupStoredIsSaved'
  <2> SUFFICES ASSUME NEW m \in Thing, b_store'[m] > 0 PROVE \E d \in Commander : BackupSavedBy(d, m)'
    BY DEF BackupStoredIsSaved
  <2>1. b_store'[m] = b_store[m]
    BY <1>11, <1>12
  <2>2. PICK d \in Commander : BackupSavedBy(d, m)
    BY <2>1 DEF BackupInv, BackupSaveInv, BackupStoredIsSaved
  <2>3. BackupSavedBy(d, m)'
    BY <1>1, <1>7, <2>1, <2>2 DEF BackupSavedBy
  <2> QED
    BY <2>3
<1>9. BackupSaveInv'
  <2>1. ASSUME NEW e \in Commander PROVE BackupKept(e)'
    <3> SUFFICES ASSUME BackupCounts(e)' PROVE BackupSafe(e)'
      BY DEF BackupKept
    <3>0. e # c
      BY <1>1, <1>3, <1>7 DEF BackupCounts
    <3>1. BackupCounts(e) /\ b_cmd'[e].at = b_cmd[e].at /\ b_cmd'[e].name = b_cmd[e].name /\ b_cmd[e].name \in Thing
      BY <1>0, <1>1, <1>2, <1>6, <3>0, BackupCountsBack
    <3>2. BackupSafe(e)
      BY <3>1 DEF BackupInv, BackupSaveInv, BackupKept
    <3>3. b_cmd[e].name # b_cmd[c].name
      BY <1>3, <3>1 DEF BackupCounts
    <3>4. b_store'[b_cmd[e].name] = b_store[b_cmd[e].name]
      BY <1>11, <3>1, <3>3
    <3> QED
      BY <1>1, <1>3, <1>7, <3>1, <3>2, <3>4 DEF BackupSafe
  <2> QED
    BY <1>8, <2>1 DEF BackupSaveInv
<1>10. BackupLoadInv'
  BY <1>0, <1>1, <1>2, <1>3, BackupLoadQuiet DEF BackupInv
<1> QED
  BY <1>5, <1>9, <1>10 DEF BackupInv, BackupBase

-----------------------------------------------------------------------------
(* The plan of a load; what others are at work on, it borrows.             *)
LEMMA BackupLoadFine ==
    ASSUME B!BackupAssumption, BackupInv, NEW c \in Commander, NEW n \in Thing, B!Load(c, n) PROVE BackupInv'
<1>0. BackupBase /\ BackupTypes
  BY DEF BackupInv, BackupBase
<1> DEFINE q == [B!Start(c, "load", n) EXCEPT !.pc = "create", !.cache = b_live, !.todo = Task \ b_live,
                                           !.map = Task \cap b_live]
<1> DEFINE seen == {x \in b_live : \E d \in Commander : B!AtWork(d) /\ x \in b_cmd[d].made}
<1>1. q \in BackupCommand /\ q.pc = "create" /\ q.kind = "load" /\ q.name = n /\ q.at = b_clock + 1
      /\ q.drop = {} /\ q.cache = b_live /\ q.todo = Task \ b_live /\ q.map = Task \cap b_live /\ q.made = {}
  <2>1. b_clock \in Nat
    BY <1>0 DEF BackupTypes
  <2> DEFINE x == B!Start(c, "load", n)
  <2>2. /\ x \in BackupCommand /\ x.kind = "load" /\ x.name = n /\ x.at = b_clock + 1
        /\ x.drop = {} /\ x.cache = {} /\ x.todo = {} /\ x.map = {} /\ x.made = {}
    <3> HIDE DEF q
    <3>1. \A k \in {"save", "delete", "load"} :
            /\ B!Start(c, k, n) \in BackupCommand /\ B!Start(c, k, n).kind = k
            /\ B!Start(c, k, n).name = n /\ B!Start(c, k, n).at = b_clock + 1
            /\ B!Start(c, k, n).drop = {} /\ B!Start(c, k, n).cache = {} /\ B!Start(c, k, n).todo = {}
            /\ B!Start(c, k, n).map = {} /\ B!Start(c, k, n).made = {}
      BY <2>1, BackupStartTypes
    <3> QED
      BY <3>1
  <2> HIDE DEF x
  <2>3. [x EXCEPT !.pc = "create", !.cache = b_live, !.todo = Task \ b_live, !.map = Task \cap b_live] = q
    BY DEF x
  <2>4. "create" \in BackupPlaces /\ b_live \in SUBSET B!Resource /\ Task \cap b_live \in SUBSET B!Resource
        /\ Task \ b_live \in SUBSET Task
    BY <1>0 DEF BackupPlaces, BackupTypes
  <2>5. [x EXCEPT !.pc = "create", !.cache = b_live, !.todo = Task \ b_live,
          !.map = Task \cap b_live] \in BackupCommand
    BY <2>2, <2>4 DEF BackupCommand
  <2> HIDE DEF q
  <2> QED
    BY <2>2, <2>3, <2>5 DEF BackupCommand
<1>2. B!Put(c, q) /\ b_cmd[c].pc = "idle" /\ b_clock' = b_clock + 1 /\ b_shared' = b_shared \cup seen
      /\ UNCHANGED <<b_store, b_live, b_config, b_removed, b_raced, b_faults>>
  BY DEF B!Load, B!At
<1> HIDE DEF q
<1>3. b_clock \in Nat
  BY <1>0 DEF BackupTypes
<1>4. BackupFits(q)
  BY <1>1, <1>3 DEF BackupFits, BackupOut
<1>5. BackupBase'
  <2>1. b_shared' \in SUBSET B!Resource
    BY <1>0, <1>2 DEF BackupTypes
  <2> QED
    BY <1>0, <1>1, <1>2, <1>3, <1>4, <2>1, BackupStarts
<1>6. BackupGoes(c, q)
  BY <1>2 DEF BackupGoes, BackupNotYet
<1>7. b_cmd'[c] = q /\ \A d \in Commander : d # c => b_cmd'[d] = b_cmd[d]
  BY <1>0, <1>1, <1>2, BackupCmdPut
<1>8. BackupUnmadeIsNowhere'
  <2> SUFFICES ASSUME NEW r \in Task, NEW d \in Commander, BackupUnmade(r, d)' PROVE BackupNowhere(<<r, d>>)'
    BY DEF BackupUnmadeIsNowhere
  <2>1. BackupUnmade(r, d)
    BY <1>2, <1>7 DEF BackupUnmade
  <2>2. BackupNowhere(<<r, d>>)
    BY <2>1 DEF BackupInv, BackupLoadInv, BackupUnmadeIsNowhere
  <2> QED
    BY <1>1, <1>2, <1>7, <2>2 DEF BackupNowhere
<1>9. BackupSaveInv'
  BY <1>0, <1>1, <1>2, <1>6, BackupSavesAside DEF BackupInv
<1>10. BackupLoadInv'
  <2>1. BackupFoundIsThere'
    <3> SUFFICES ASSUME NEW e \in Commander, BackupRelies(e)'
                 PROVE  b_cmd'[e].cache \cup b_cmd'[e].map \subseteq BackupThere'
      BY DEF BackupFoundIsThere
    <3>1. CASE e = c
      BY <1>1, <1>2, <1>7, <3>1 DEF BackupThere
    <3>2. CASE e # c
      BY <1>2, <1>7, <3>2 DEF BackupThere, BackupRelies, BackupInv, BackupLoadInv, BackupFoundIsThere
    <3> QED
      BY <3>1, <3>2
  <2>2. BackupMadeIsOwn'
    <3> SUFFICES ASSUME NEW d \in Commander, NEW x \in b_cmd'[d].made
                 PROVE  /\ \E r \in Task : x = <<r, d>>
                        /\ x \in b_config' => x \in b_shared'
                        /\ \A e \in Commander \ {d} : x \in b_cmd'[e].cache \cup b_cmd'[e].map => x \in b_shared'
      BY DEF BackupMadeIsOwn
    <3>1. d # c /\ x \in b_cmd[d].made
      BY <1>1, <1>7
    <3>2. B!AtWork(d)
      BY <1>0, <3>1 DEF B!AtWork, BackupBase, BackupFits
    <3>3. x \in b_live => x \in b_shared'
      BY <1>2, <3>1, <3>2
    <3> QED
      BY <1>1, <1>2, <1>7, <3>1, <3>3 DEF BackupInv, BackupLoadInv, BackupMadeIsOwn
  <2>3. B!RestoredExists'
    BY <1>2 DEF BackupInv, BackupLoadInv, B!RestoredExists
  <2> QED
    BY <1>8, <2>1, <2>2, <2>3 DEF BackupLoadInv
<1> QED
  BY <1>5, <1>9, <1>10 DEF BackupInv, BackupBase

LEMMA BackupReuseRestoredFine ==
    ASSUME B!BackupAssumption, BackupInv, NEW c \in Commander, B!ReuseRestored(c) PROVE BackupInv'
<1>0. BackupBase /\ BackupTypes
  BY DEF BackupInv, BackupBase
<1> SUFFICES ASSUME NEW r \in b_cmd[c].todo, NEW d \in Commander, <<r, d>> \in b_cmd[c].cache,
                      B!Put(c, B!Reuse(c, r, d))
             PROVE  BackupInv'
  BY DEF B!ReuseRestored
<1> DEFINE todo == b_cmd[c].todo \ {r}
<1> DEFINE map == b_cmd[c].map \cup {<<r, d>>}
<1> DEFINE q == [b_cmd[c] EXCEPT !.todo = todo, !.map = map]
<1>1. q \in BackupCommand /\ q.pc = "create" /\ q.kind = b_cmd[c].kind /\ q.name = b_cmd[c].name /\ q.at = b_cmd[c].at
      /\ q.drop = b_cmd[c].drop /\ q.cache = b_cmd[c].cache /\ q.todo = todo
      /\ q.map = map /\ q.made = b_cmd[c].made
  <2>1. b_cmd[c] \in BackupCommand /\ b_cmd[c].pc = "create"
    BY <1>0 DEF BackupTypes, B!ReuseRestored, B!At
  <2>2. todo \in SUBSET Task /\ map \in SUBSET B!Resource
    BY <2>1 DEF BackupCommand
  <2> HIDE DEF todo, map
  <2> QED
    BY <2>1, <2>2 DEF BackupCommand
<1>2. B!Put(c, q) /\ b_cmd[c].pc = "create"
      /\ UNCHANGED <<b_store, b_clock, b_live, b_config, b_removed, b_shared, b_raced, b_faults>>
  BY DEF B!ReuseRestored, B!At, B!Reuse
<1> HIDE DEF q
<1>3. b_cmd[c].kind = "load" /\ b_cmd[c].at > 0 /\ b_cmd[c].name \in Thing /\ b_cmd[c].drop = {}
  BY <1>0, <1>2 DEF BackupBase, BackupFits, BackupOut
<1>4. BackupFits(q)
  BY <1>1, <1>3 DEF BackupFits, BackupOut
<1>5. BackupBase'
  <2>1. b_live' \in SUBSET B!Resource /\ b_config' \in SUBSET B!Resource /\ b_removed' \in SUBSET B!Resource
        /\ b_shared' \in SUBSET B!Resource /\ b_raced' \in SUBSET Thing /\ b_store' \in [Thing -> Nat]
        /\ b_faults' \in 0 .. MaxFaults
    BY <1>0, <1>2 DEF BackupTypes
  <2> QED
    BY <1>0, <1>1, <1>2, <1>4, <2>1, BackupGoesOn
<1>6. BackupGoes(c, q)
  BY <1>1, <1>2 DEF BackupGoes, BackupNotYet
<1>9. BackupSaveInv'
  BY <1>0, <1>1, <1>2, <1>3, <1>6, BackupSavesAside DEF BackupInv
<1>10. BackupLoadInv'
  <2>1. q.cache \cup q.map \subseteq b_cmd[c].cache \cup b_cmd[c].map
    BY <1>1
  <2> QED
    BY <1>0, <1>1, <1>2, <1>3, <2>1, BackupLoadQuiet DEF BackupInv, BackupRelies
<1> QED
  BY <1>5, <1>9, <1>10 DEF BackupInv, BackupBase

LEMMA BackupCreateFine ==
    ASSUME B!BackupAssumption, BackupInv, NEW c \in Commander, B!Create(c) PROVE BackupInv'
<1>0. BackupBase /\ BackupTypes
  BY DEF BackupInv, BackupBase
<1> PICK r \in b_cmd[c].todo : 
         /\ b_live' = b_live \cup {<<r, c>>}
         /\ B!Put(c, [b_cmd[c] EXCEPT !.todo = @ \ {r}, !.map = @ \cup {<<r, c>>}, !.made = @ \cup {<<r, c>>}])
  BY DEF B!Create
<1> DEFINE todo == b_cmd[c].todo \ {r}
<1> DEFINE map == b_cmd[c].map \cup {<<r, c>>}
<1> DEFINE made == b_cmd[c].made \cup {<<r, c>>}
<1> DEFINE q == [b_cmd[c] EXCEPT !.todo = todo, !.map = map, !.made = made]
<1>1. q \in BackupCommand /\ q.pc = "create" /\ q.kind = b_cmd[c].kind /\ q.name = b_cmd[c].name /\ q.at = b_cmd[c].at
      /\ q.drop = b_cmd[c].drop /\ q.cache = b_cmd[c].cache /\ q.todo = todo /\ q.map = map /\ q.made = made
      /\ r \in Task
  <2>1. b_cmd[c] \in BackupCommand /\ b_cmd[c].pc = "create"
    BY <1>0 DEF BackupTypes, B!Create, B!At
  <2>2. todo \in SUBSET Task /\ map \in SUBSET B!Resource /\ made \in SUBSET B!Resource /\ r \in Task
    BY <2>1 DEF BackupCommand, B!Resource
  <2> HIDE DEF todo, map, made
  <2> QED
    BY <2>1, <2>2 DEF BackupCommand
<1>2. B!Put(c, q) /\ b_cmd[c].pc = "create" /\ b_live' = b_live \cup {<<r, c>>}
      /\ UNCHANGED <<b_store, b_clock, b_config, b_removed, b_shared, b_raced, b_faults>>
  BY DEF B!Create, B!At
<1> HIDE DEF q
<1>3. b_cmd[c].kind = "load" /\ b_cmd[c].at > 0 /\ b_cmd[c].name \in Thing /\ b_cmd[c].drop = {}
  BY <1>0, <1>2 DEF BackupBase, BackupFits, BackupOut
<1>4. BackupFits(q)
  BY <1>1, <1>3 DEF BackupFits, BackupOut
<1>5. BackupBase'
  <2>1. b_live' \in SUBSET B!Resource /\ b_config' \in SUBSET B!Resource /\ b_removed' \in SUBSET B!Resource
        /\ b_shared' \in SUBSET B!Resource /\ b_raced' \in SUBSET Thing /\ b_store' \in [Thing -> Nat]
        /\ b_faults' \in 0 .. MaxFaults
    BY <1>0, <1>2, <1>1 DEF BackupTypes, B!Resource
  <2> QED
    BY <1>0, <1>1, <1>2, <1>4, <2>1, BackupGoesOn
<1>6. BackupGoes(c, q)
  BY <1>1, <1>2 DEF BackupGoes, BackupNotYet
<1>7. b_cmd'[c] = q /\ \A d \in Commander : d # c => b_cmd'[d] = b_cmd[d]
  BY <1>0, <1>1, <1>2, BackupCmdPut
<1>9. BackupSaveInv'
  BY <1>0, <1>1, <1>2, <1>3, <1>6, BackupSavesAside DEF BackupInv
<1>11. BackupNowhere(<<r, c>>)
  BY <1>1, <1>2 DEF BackupInv, BackupLoadInv, BackupUnmadeIsNowhere, BackupUnmade
<1>12. BackupUnmadeIsNowhere'
  <2> SUFFICES ASSUME NEW r2 \in Task, NEW d \in Commander, BackupUnmade(r2, d)' PROVE BackupNowhere(<<r2, d>>)'
    BY DEF BackupUnmadeIsNowhere
  <2>1. BackupUnmade(r2, d) /\ <<r2, d>> # <<r, c>>
    BY <1>1, <1>2, <1>7 DEF BackupUnmade
  <2>2. BackupNowhere(<<r2, d>>)
    BY <2>1 DEF BackupInv, BackupLoadInv, BackupUnmadeIsNowhere
  <2> QED
    BY <1>1, <1>2, <1>7, <2>1, <2>2 DEF BackupNowhere
<1>13. BackupFoundIsThere'
  <2> SUFFICES ASSUME NEW e \in Commander, BackupRelies(e)'
               PROVE  b_cmd'[e].cache \cup b_cmd'[e].map \subseteq BackupThere'
    BY DEF BackupFoundIsThere
  <2>1. BackupThere \cup {<<r, c>>} \subseteq BackupThere'
    BY <1>2 DEF BackupThere
  <2>2. BackupRelies(e)
    BY <1>2, <1>3, <1>7 DEF BackupRelies
  <2>3. b_cmd[e].cache \cup b_cmd[e].map \subseteq BackupThere
    BY <2>2 DEF BackupInv, BackupLoadInv, BackupFoundIsThere
  <2> QED
    BY <1>1, <1>7, <2>1, <2>3
<1>14. BackupMadeIsOwn'
  <2> SUFFICES ASSUME NEW d \in Commander, NEW x \in b_cmd'[d].made
               PROVE  /\ \E s \in Task : x = <<s, d>>
                      /\ x \in b_config' => x \in b_shared'
                      /\ \A e \in Commander \ {d} : x \in b_cmd'[e].cache \cup b_cmd'[e].map => x \in b_shared'
    BY DEF BackupMadeIsOwn
  <2>1. CASE x = <<r, c>>
    <3>1. d = c
      <4> SUFFICES ASSUME d # c PROVE FALSE
        OBVIOUS
      <4>1. x \in b_cmd[d].made
        BY <1>7
      <4>2. PICK s \in Task : x = <<s, d>>
        BY <4>1 DEF BackupInv, BackupLoadInv, BackupMadeIsOwn
      <4> QED
        BY <2>1, <4>2
    <3> QED
      BY <1>1, <1>2, <1>7, <1>11, <2>1, <3>1 DEF BackupNowhere
  <2>2. CASE x # <<r, c>>
    <3>1. x \in b_cmd[d].made
      BY <1>1, <1>7, <2>2
    <3> QED
      BY <1>1, <1>2, <1>7, <2>2, <3>1 DEF BackupInv, BackupLoadInv, BackupMadeIsOwn
  <2> QED
    BY <2>1, <2>2
<1>10. BackupLoadInv'
  <2>1. B!RestoredExists'
    BY <1>2 DEF BackupInv, BackupLoadInv, B!RestoredExists
  <2> QED
    BY <1>12, <1>13, <1>14, <2>1 DEF BackupLoadInv
<1> QED
  BY <1>5, <1>9, <1>10 DEF BackupInv, BackupBase

LEMMA BackupCreateFailsFine ==
    ASSUME B!BackupAssumption, BackupInv, NEW c \in Commander, B!CreateFails(c) PROVE BackupInv'
<1>0. BackupBase /\ BackupTypes
  BY DEF BackupInv, BackupBase
<1> DEFINE q == [b_cmd[c] EXCEPT !.pc = "undo"]
<1>1. q \in BackupCommand /\ q.pc = "undo" /\ q.kind = b_cmd[c].kind /\ q.name = b_cmd[c].name /\ q.at = b_cmd[c].at
      /\ q.drop = b_cmd[c].drop /\ q.cache = b_cmd[c].cache /\ q.todo = b_cmd[c].todo
      /\ q.map = b_cmd[c].map /\ q.made = b_cmd[c].made
  BY <1>0 DEF BackupBase, BackupTypes, BackupCommand, BackupPlaces
<1>2. B!Put(c, q) /\ b_cmd[c].pc = "create" /\ b_faults' \in 0 .. MaxFaults
      /\ UNCHANGED <<b_store, b_clock, b_live, b_config, b_removed, b_shared, b_raced>>
  BY <1>0, BackupFaultTypes DEF B!CreateFails, B!At, B!Move
<1> HIDE DEF q
<1>3. b_cmd[c].kind = "load" /\ b_cmd[c].at > 0 /\ b_cmd[c].name \in Thing /\ b_cmd[c].drop = {}
  BY <1>0, <1>2 DEF BackupBase, BackupFits, BackupOut
<1>4. BackupFits(q)
  BY <1>1, <1>3 DEF BackupFits, BackupOut
<1>5. BackupBase'
  <2>1. b_live' \in SUBSET B!Resource /\ b_config' \in SUBSET B!Resource /\ b_removed' \in SUBSET B!Resource
        /\ b_shared' \in SUBSET B!Resource /\ b_raced' \in SUBSET Thing /\ b_store' \in [Thing -> Nat]
        /\ b_faults' \in 0 .. MaxFaults
    BY <1>0, <1>2 DEF BackupTypes
  <2> QED
    BY <1>0, <1>1, <1>2, <1>4, <2>1, BackupGoesOn
<1>6. BackupGoes(c, q)
  BY <1>1, <1>2 DEF BackupGoes, BackupNotYet
<1>9. BackupSaveInv'
  BY <1>0, <1>1, <1>2, <1>3, <1>6, BackupSavesAside DEF BackupInv
<1>10. BackupLoadInv'
  BY <1>0, <1>1, <1>2, <1>3, BackupLoadQuiet DEF BackupInv, BackupRelies
<1> QED
  BY <1>5, <1>9, <1>10 DEF BackupInv, BackupBase

LEMMA BackupMaterializedFine ==
    ASSUME B!BackupAssumption, BackupInv, NEW c \in Commander, B!Materialized(c) PROVE BackupInv'
<1>0. BackupBase /\ BackupTypes
  BY DEF BackupInv, BackupBase
<1> DEFINE q == [b_cmd[c] EXCEPT !.pc = "apply", !.cache = {}, !.made = {}]
<1>1. q \in BackupCommand /\ q.pc = "apply" /\ q.kind = b_cmd[c].kind /\ q.name = b_cmd[c].name /\ q.at = b_cmd[c].at
      /\ q.drop = b_cmd[c].drop /\ q.cache = {} /\ q.todo = b_cmd[c].todo
      /\ q.map = b_cmd[c].map /\ q.made = {}
  BY <1>0 DEF BackupBase, BackupTypes, BackupCommand, BackupPlaces
<1>2. B!Put(c, q) /\ b_cmd[c].pc = "create"
      /\ UNCHANGED <<b_store, b_clock, b_live, b_config, b_removed, b_shared, b_raced, b_faults>>
  BY DEF B!Materialized, B!At
<1> HIDE DEF q
<1>3. b_cmd[c].kind = "load" /\ b_cmd[c].at > 0 /\ b_cmd[c].name \in Thing /\ b_cmd[c].drop = {}
  BY <1>0, <1>2 DEF BackupBase, BackupFits, BackupOut
<1>4. BackupFits(q)
  BY <1>1, <1>3 DEF BackupFits, BackupOut
<1>5. BackupBase'
  <2>1. b_live' \in SUBSET B!Resource /\ b_config' \in SUBSET B!Resource /\ b_removed' \in SUBSET B!Resource
        /\ b_shared' \in SUBSET B!Resource /\ b_raced' \in SUBSET Thing /\ b_store' \in [Thing -> Nat]
        /\ b_faults' \in 0 .. MaxFaults
    BY <1>0, <1>2 DEF BackupTypes
  <2> QED
    BY <1>0, <1>1, <1>2, <1>4, <2>1, BackupGoesOn
<1>6. BackupGoes(c, q)
  BY <1>1, <1>2 DEF BackupGoes, BackupNotYet
<1>9. BackupSaveInv'
  BY <1>0, <1>1, <1>2, <1>3, <1>6, BackupSavesAside DEF BackupInv
<1>10. BackupLoadInv'
  BY <1>0, <1>1, <1>2, <1>3, BackupLoadQuiet DEF BackupInv, BackupRelies
<1> QED
  BY <1>5, <1>9, <1>10 DEF BackupInv, BackupBase

LEMMA BackupApplyFine ==
    ASSUME B!BackupAssumption, BackupInv, NEW c \in Commander, B!Apply(c) PROVE BackupInv'
<1>0. BackupBase /\ BackupTypes
  BY DEF BackupInv, BackupBase
<1> DEFINE q == [b_cmd[c] EXCEPT !.pc = "done"]
<1>1. q \in BackupCommand /\ q.pc = "done" /\ q.kind = b_cmd[c].kind /\ q.name = b_cmd[c].name /\ q.at = b_cmd[c].at
      /\ q.drop = b_cmd[c].drop /\ q.cache = b_cmd[c].cache /\ q.todo = b_cmd[c].todo
      /\ q.map = b_cmd[c].map /\ q.made = b_cmd[c].made
  BY <1>0 DEF BackupBase, BackupTypes, BackupCommand, BackupPlaces
<1>2. B!Put(c, q) /\ b_cmd[c].pc = "apply" /\ b_config' = b_cmd[c].map
      /\ UNCHANGED <<b_store, b_clock, b_live, b_removed, b_shared, b_raced, b_faults>>
  BY DEF B!Apply, B!At, B!Move
<1> HIDE DEF q
<1>3. b_cmd[c].kind = "load" /\ b_cmd[c].at > 0 /\ b_cmd[c].name \in Thing /\ b_cmd[c].drop = {} /\ b_cmd[c].made = {}
      /\ b_cmd[c].map \in SUBSET B!Resource
  BY <1>0, <1>2 DEF BackupBase, BackupFits, BackupOut, BackupTypes, BackupCommand
<1>4. BackupFits(q)
  BY <1>1, <1>3 DEF BackupFits, BackupOut
<1>5. BackupBase'
  <2>1. b_live' \in SUBSET B!Resource /\ b_config' \in SUBSET B!Resource /\ b_removed' \in SUBSET B!Resource
        /\ b_shared' \in SUBSET B!Resource /\ b_raced' \in SUBSET Thing /\ b_store' \in [Thing -> Nat]
        /\ b_faults' \in 0 .. MaxFaults
    BY <1>0, <1>2, <1>3 DEF BackupTypes
  <2> QED
    BY <1>0, <1>1, <1>2, <1>4, <2>1, BackupGoesOn
<1>6. BackupGoes(c, q)
  BY <1>1, <1>2 DEF BackupGoes, BackupNotYet
<1>7. b_cmd'[c] = q /\ \A d \in Commander : d # c => b_cmd'[d] = b_cmd[d]
  BY <1>0, <1>1, <1>2, BackupCmdPut
<1>9. BackupSaveInv'
  BY <1>0, <1>1, <1>2, <1>3, <1>6, BackupSavesAside DEF BackupInv
<1>11. BackupUnmadeIsNowhere'
  <2> SUFFICES ASSUME NEW r \in Task, NEW d \in Commander, BackupUnmade(r, d)' PROVE BackupNowhere(<<r, d>>)'
    BY DEF BackupUnmadeIsNowhere
  <2>1. BackupUnmade(r, d)
    BY <1>1, <1>2, <1>7 DEF BackupUnmade
  <2>2. BackupNowhere(<<r, d>>)
    BY <2>1 DEF BackupInv, BackupLoadInv, BackupUnmadeIsNowhere
  <2> QED
    BY <1>1, <1>2, <1>7, <2>2 DEF BackupNowhere
<1>12. BackupFoundIsThere' /\ B!RestoredExists'
  <2>1. BackupThere' = BackupThere
    BY <1>2 DEF BackupThere
  <2>2. \A e \in Commander : BackupRelies(e)' => BackupRelies(e) /\ e # c
    BY <1>1, <1>7 DEF BackupRelies
  <2>3. BackupFoundIsThere'
    BY <1>7, <2>1, <2>2 DEF BackupInv, BackupLoadInv, BackupFoundIsThere
  <2>4. b_cmd[c].map \subseteq BackupThere
    BY <1>2, <1>3 DEF BackupInv, BackupLoadInv, BackupFoundIsThere, BackupRelies
  <2> QED
    BY <1>2, <2>1, <2>3, <2>4 DEF B!RestoredExists, BackupThere
<1>13. BackupMadeIsOwn'
  <2> SUFFICES ASSUME NEW d \in Commander, NEW x \in b_cmd'[d].made
               PROVE  /\ \E s \in Task : x = <<s, d>>
                      /\ x \in b_config' => x \in b_shared'
                      /\ \A e \in Commander \ {d} : x \in b_cmd'[e].cache \cup b_cmd'[e].map => x \in b_shared'
    BY DEF BackupMadeIsOwn
  <2>1. d # c /\ x \in b_cmd[d].made
    BY <1>1, <1>3, <1>7
  <2> QED
    BY <1>1, <1>2, <1>7, <2>1 DEF BackupInv, BackupLoadInv, BackupMadeIsOwn
<1>10. BackupLoadInv'
  BY <1>11, <1>12, <1>13 DEF BackupLoadInv
<1> QED
  BY <1>5, <1>9, <1>10 DEF BackupInv, BackupBase

(* A deletion that succeeds, of a resource that nobody may rely on.        *)
LEMMA BackupRollbackOne ==
    ASSUME B!BackupAssumption, BackupInv, NEW c \in Commander, b_cmd[c].pc = "undo", NEW x \in b_cmd[c].made,
           B!Put(c, [b_cmd[c] EXCEPT !.made = @ \ {x}]), b_live' \in {b_live, b_live \ {x}},
           b_faults' \in 0 .. MaxFaults,
           UNCHANGED <<b_store, b_clock, b_config, b_removed, b_shared, b_raced>>
    PROVE  BackupInv'
<1>0. BackupBase /\ BackupTypes
  BY DEF BackupInv, BackupBase
<1> DEFINE made == b_cmd[c].made \ {x}
<1> DEFINE q == [b_cmd[c] EXCEPT !.made = made]
<1>1. q \in BackupCommand /\ q.pc = "undo" /\ q.kind = b_cmd[c].kind /\ q.name = b_cmd[c].name /\ q.at = b_cmd[c].at
      /\ q.drop = b_cmd[c].drop /\ q.cache = b_cmd[c].cache /\ q.todo = b_cmd[c].todo
      /\ q.map = b_cmd[c].map /\ q.made = made
  <2>1. b_cmd[c] \in BackupCommand
    BY <1>0 DEF BackupTypes
  <2>2. made \in SUBSET B!Resource
    BY <2>1 DEF BackupCommand
  <2> HIDE DEF made
  <2> QED
    BY <2>1, <2>2 DEF BackupCommand
<1>2. B!Put(c, q) /\ b_cmd[c].pc = "undo" /\ b_faults' \in 0 .. MaxFaults
      /\ UNCHANGED <<b_store, b_clock, b_config, b_removed, b_shared, b_raced>>
  OBVIOUS
<1> HIDE DEF q
<1>3. b_cmd[c].kind = "load" /\ b_cmd[c].at > 0 /\ b_cmd[c].name \in Thing /\ b_cmd[c].drop = {}
  BY <1>0, <1>2 DEF BackupBase, BackupFits, BackupOut
<1>4. BackupFits(q)
  BY <1>1, <1>3 DEF BackupFits, BackupOut
<1>5. BackupBase'
  <2>1. b_live' \in SUBSET B!Resource /\ b_config' \in SUBSET B!Resource /\ b_removed' \in SUBSET B!Resource
        /\ b_shared' \in SUBSET B!Resource /\ b_raced' \in SUBSET Thing /\ b_store' \in [Thing -> Nat]
        /\ b_faults' \in 0 .. MaxFaults
    BY <1>0, <1>2 DEF BackupTypes
  <2> QED
    BY <1>0, <1>1, <1>2, <1>4, <2>1, BackupGoesOn
<1>6. BackupGoes(c, q)
  BY <1>1, <1>2 DEF BackupGoes, BackupNotYet
<1>7. b_cmd'[c] = q /\ \A d \in Commander : d # c => b_cmd'[d] = b_cmd[d]
  BY <1>0, <1>1, <1>2, BackupCmdPut
<1>9. BackupSaveInv'
  BY <1>0, <1>1, <1>2, <1>3, <1>6, BackupSavesAside DEF BackupInv
<1>11. BackupUnmadeIsNowhere'
  <2> SUFFICES ASSUME NEW r \in Task, NEW d \in Commander, BackupUnmade(r, d)' PROVE BackupNowhere(<<r, d>>)'
    BY DEF BackupUnmadeIsNowhere
  <2>1. BackupUnmade(r, d)
    BY <1>1, <1>2, <1>7 DEF BackupUnmade
  <2>2. BackupNowhere(<<r, d>>)
    BY <2>1 DEF BackupInv, BackupLoadInv, BackupUnmadeIsNowhere
  <2> QED
    BY <1>1, <1>2, <1>7, <2>2 DEF BackupNowhere
<1>12. BackupFoundIsThere'
  <2> SUFFICES ASSUME NEW e \in Commander, BackupRelies(e)'
               PROVE  b_cmd'[e].cache \cup b_cmd'[e].map \subseteq BackupThere'
    BY DEF BackupFoundIsThere
  <2>1. e # c /\ BackupRelies(e)
    BY <1>1, <1>7 DEF BackupRelies
  <2>2. b_cmd[e].cache \cup b_cmd[e].map \subseteq BackupThere
    BY <2>1 DEF BackupInv, BackupLoadInv, BackupFoundIsThere
  <2>3. x \in b_cmd[e].cache \cup b_cmd[e].map => x \in b_shared
    BY <2>1 DEF BackupInv, BackupLoadInv, BackupMadeIsOwn
  <2> QED
    BY <1>2, <1>7, <2>1, <2>2, <2>3 DEF BackupThere
<1>13. BackupMadeIsOwn'
  <2> SUFFICES ASSUME NEW d \in Commander, NEW y \in b_cmd'[d].made
               PROVE  /\ \E s \in Task : y = <<s, d>>
                      /\ y \in b_config' => y \in b_shared'
                      /\ \A e \in Commander \ {d} : y \in b_cmd'[e].cache \cup b_cmd'[e].map => y \in b_shared'
    BY DEF BackupMadeIsOwn
  <2>1. y \in b_cmd[d].made
    BY <1>1, <1>7
  <2> QED
    BY <1>1, <1>2, <1>7, <2>1 DEF BackupInv, BackupLoadInv, BackupMadeIsOwn
<1>14. B!RestoredExists'
  <2>1. x \in b_config => x \in b_shared
    BY DEF BackupInv, BackupLoadInv, BackupMadeIsOwn
  <2> QED
    BY <1>2, <2>1 DEF BackupInv, BackupLoadInv, B!RestoredExists
<1>10. BackupLoadInv'
  BY <1>11, <1>12, <1>13, <1>14 DEF BackupLoadInv
<1> QED
  BY <1>5, <1>9, <1>10 DEF BackupInv, BackupBase

(* A command that leaves off, before the journal has it.                   *)
LEMMA BackupLeavesOff ==
    ASSUME B!BackupAssumption, BackupInv, NEW c \in Commander, B!AtWork(c), B!Put(c, [B!Idle EXCEPT !.pc = "failed"]),
           b_faults' \in 0 .. MaxFaults,
           UNCHANGED <<b_store, b_clock, b_live, b_config, b_removed, b_shared, b_raced>>
    PROVE  BackupInv'
<1>0. BackupBase /\ BackupTypes
  BY DEF BackupInv, BackupBase
<1> DEFINE q == [B!Idle EXCEPT !.pc = "failed"]
<1>1. /\ q \in BackupCommand /\ q.pc = "failed" /\ q.kind = "save" /\ q.at = 0
      /\ q.drop = {} /\ q.cache = {} /\ q.todo = {} /\ q.map = {} /\ q.made = {}
  <2>1. "failed" \in BackupPlaces
    BY DEF BackupPlaces
  <2> QED
    BY <2>1, BackupIdleTypes DEF BackupCommand
<1>2. B!Put(c, q) /\ b_cmd[c].pc \in {"create", "undo"}
  BY DEF B!AtWork
<1> HIDE DEF q
<1>3. TRUE
  OBVIOUS
<1>4. BackupFits(q)
  BY <1>1, <1>3 DEF BackupFits, BackupOut
<1>5. BackupBase'
  <2>1. b_live' \in SUBSET B!Resource /\ b_config' \in SUBSET B!Resource /\ b_removed' \in SUBSET B!Resource
        /\ b_shared' \in SUBSET B!Resource /\ b_raced' \in SUBSET Thing /\ b_store' \in [Thing -> Nat]
        /\ b_faults' \in 0 .. MaxFaults
    BY <1>0, <1>2 DEF BackupTypes
  <2> QED
    BY <1>0, <1>1, <1>2, <1>4, <2>1, BackupGoesOn
<1>6. BackupGoes(c, q)
  BY <1>1, <1>2 DEF BackupGoes, BackupNotYet
<1>9. BackupSaveInv'
  BY <1>0, <1>1, <1>2, <1>3, <1>6, BackupSavesAside DEF BackupInv
<1>10. BackupLoadInv'
  BY <1>0, <1>1, <1>2, BackupLoadQuiet DEF BackupInv
<1> QED
  BY <1>5, <1>9, <1>10 DEF BackupInv, BackupBase

LEMMA BackupRollbackFine ==
    ASSUME B!BackupAssumption, BackupInv, NEW c \in Commander, B!Rollback(c) PROVE BackupInv'
<1>0. BackupBase /\ BackupTypes /\ b_cmd[c].pc = "undo"
  BY DEF BackupInv, BackupBase, B!Rollback, B!At
<1>1. CASE b_cmd[c].made = {} /\ B!Put(c, [B!Idle EXCEPT !.pc = "failed"]) /\ UNCHANGED <<b_live, b_faults>>
  <2>1. b_faults' \in 0 .. MaxFaults /\ B!AtWork(c)
    BY <1>0, <1>1 DEF BackupTypes, B!AtWork
  <2> QED
    BY <1>1, <2>1, BackupLeavesOff DEF B!Rollback
<1>2. CASE \E x \in b_cmd[c].made :
             /\ B!Put(c, [b_cmd[c] EXCEPT !.made = @ \ {x}])
             /\ \/ b_live' = b_live \ {x} /\ UNCHANGED b_faults
                \/ B!Fault /\ UNCHANGED b_live
  <2>1. PICK x \in b_cmd[c].made :
             /\ B!Put(c, [b_cmd[c] EXCEPT !.made = @ \ {x}])
             /\ \/ b_live' = b_live \ {x} /\ UNCHANGED b_faults
                \/ B!Fault /\ UNCHANGED b_live
    BY <1>2
  <2>2. b_live' \in {b_live, b_live \ {x}} /\ b_faults' \in 0 .. MaxFaults
    BY <1>0, <2>1, BackupFaultTypes DEF BackupTypes
  <2> QED
    BY <1>0, <2>1, <2>2, BackupRollbackOne DEF B!Rollback
<1> QED
  BY <1>1, <1>2 DEF B!Rollback

(* A command that stays as it is but for its place, and for what it was    *)
(* about to drop.                                                          *)
LEMMA BackupReplaced ==
    ASSUME B!BackupAssumption, BackupInv, NEW c \in Commander,
           NEW pc \in {"pending", "done", "upsert", "delete", "apply"},
           B!Put(c, [b_cmd[c] EXCEPT !.pc = pc, !.drop = {}]),
           b_cmd[c].pc \in B!Executing \cup {"pending"}, pc # "pending" => b_cmd[c].pc = "pending",
           pc = "upsert" => b_cmd[c].kind = "save" /\ ~B!Superseded(c), pc = "delete" => b_cmd[c].kind = "delete",
           pc = "apply" => b_cmd[c].kind = "load",
           pc = "done" => B!Superseded(c),
           b_faults' \in 0 .. MaxFaults,
           UNCHANGED <<b_store, b_clock, b_live, b_config, b_removed, b_shared, b_raced>>
    PROVE  BackupInv'
<1>0. BackupBase /\ BackupTypes
  BY DEF BackupInv, BackupBase
<1> DEFINE q == [b_cmd[c] EXCEPT !.pc = pc, !.drop = {}]
<1>1. q \in BackupCommand /\ q.pc = pc /\ q.kind = b_cmd[c].kind /\ q.name = b_cmd[c].name /\ q.at = b_cmd[c].at
      /\ q.drop = {} /\ q.cache = b_cmd[c].cache /\ q.todo = b_cmd[c].todo
      /\ q.map = b_cmd[c].map /\ q.made = b_cmd[c].made
  <2>1. pc \in BackupPlaces /\ b_cmd[c] \in BackupCommand
    BY <1>0 DEF BackupTypes, BackupPlaces
  <2> QED
    BY <2>1 DEF BackupCommand
<1>2. B!Put(c, q) /\ b_cmd[c].pc \in {"upsert", "overflow", "drop", "delete", "apply", "pending"}
  BY DEF B!Executing
<1> HIDE DEF q
<1>3. b_cmd[c].at > 0 /\ b_cmd[c].name \in Thing /\ b_cmd[c].made = {} /\ b_cmd[c].at \in Nat
      /\ (b_cmd[c].pc = "apply" => b_cmd[c].kind = "load")
      /\ (b_cmd[c].kind = "load" => b_cmd[c].pc \in {"apply", "pending"})
  BY <1>0, <1>2 DEF BackupBase, BackupFits, BackupOut, BackupTypes, BackupCommand
<1>4. BackupFits(q)
  BY <1>1, <1>3 DEF BackupFits, BackupOut
<1>5. BackupBase'
  <2>1. b_live' \in SUBSET B!Resource /\ b_config' \in SUBSET B!Resource /\ b_removed' \in SUBSET B!Resource
        /\ b_shared' \in SUBSET B!Resource /\ b_raced' \in SUBSET Thing /\ b_store' \in [Thing -> Nat]
        /\ b_faults' \in 0 .. MaxFaults
    BY <1>0, <1>2 DEF BackupTypes
  <2> QED
    BY <1>0, <1>1, <1>2, <1>4, <2>1, BackupGoesOn
<1>6. BackupGoes(c, q)
  BY <1>1, <1>2 DEF BackupGoes, BackupNotYet
<1>7. b_cmd'[c] = q /\ \A d \in Commander : d # c => b_cmd'[d] = b_cmd[d]
  BY <1>0, <1>1, <1>2, BackupCmdPut
<1>9. BackupSaveInv'
  <2>1. ASSUME NEW e \in Commander, BackupCounts(e)' PROVE e # c
    <3> SUFFICES ASSUME e = c PROVE FALSE
      OBVIOUS
    <3>1. pc = "done"
      BY <1>1, <1>7, <2>1 DEF BackupCounts
    <3>2. b_cmd[c].pc \notin BackupNotYet
      BY <1>2 DEF BackupNotYet
    <3>3. B!Superseded(c)'
      BY <1>0, <1>1, <1>2, <1>6, <3>1, <3>2, BackupSupersededStays
    <3> QED
      BY <2>1, <3>3 DEF BackupCounts
  <2>2. ASSUME NEW e \in Commander, e # c, BackupCounts(e), pc = "upsert" PROVE b_cmd[c].name # b_cmd[e].name
    <3> SUFFICES ASSUME b_cmd[c].name = b_cmd[e].name PROVE FALSE
      OBVIOUS
    <3>1. b_cmd[c].kind = "save" /\ b_cmd[c].pc = "pending" /\ b_cmd[e].kind = "save"
          /\ b_cmd[e].pc \in {"overflow", "drop", "done"}
      BY <2>2 DEF BackupCounts
    <3>2. b_cmd[e].at \in Nat /\ b_cmd[e].at # b_cmd[c].at
      BY <1>0, <1>3, <2>2 DEF BackupBase, BackupNumbered, BackupTypes, BackupCommand
    <3>3. B!SameResource(c, e) /\ B!SameResource(e, c)
      BY <3>1 DEF B!SameResource
    <3>4. CASE b_cmd[c].at > b_cmd[e].at
      <4>1. B!Superseded(e)
        BY <3>1, <3>3, <3>4 DEF B!Superseded
      <4> QED
        BY <2>2, <4>1 DEF BackupCounts
    <3>5. CASE b_cmd[e].at > b_cmd[c].at
      <4>1. B!Superseded(c)
        BY <3>1, <3>3, <3>5 DEF B!Superseded
      <4> QED
        BY <2>2, <4>1
    <3> QED
      BY <1>3, <3>2, <3>4, <3>5
  <2> QED
    BY <1>0, <1>1, <1>2, <1>6, <2>1, <2>2, BackupSavesStay DEF BackupInv
<1>10. BackupLoadInv'
  <2>1. q.kind = "load" /\ q.pc \in {"create", "apply", "pending"} => BackupRelies(c)
    BY <1>1, <1>2, <1>3 DEF BackupRelies
  <2> QED
    BY <1>0, <1>1, <1>2, <1>3, <2>1, BackupLoadQuiet DEF BackupInv
<1> QED
  BY <1>5, <1>9, <1>10 DEF BackupInv, BackupBase

LEMMA BackupCrashFine ==
    ASSUME B!BackupAssumption, BackupInv, NEW c \in Commander, B!Crash(c) PROVE BackupInv'
<1>1. b_faults' \in 0 .. MaxFaults /\ UNCHANGED <<b_store, b_clock, b_live, b_config, b_removed, b_shared, b_raced>>
  BY BackupFaultTypes DEF B!Crash, BackupInv
<1>2. CASE B!AtWork(c) /\ B!Put(c, [B!Idle EXCEPT !.pc = "failed"])
  BY <1>1, <1>2, BackupLeavesOff
<1>3. CASE b_cmd[c].pc \in B!Executing /\ B!Put(c, [b_cmd[c] EXCEPT !.pc = "pending", !.drop = {}])
  BY <1>1, <1>3, BackupReplaced
<1> QED
  BY <1>2, <1>3 DEF B!Crash

LEMMA BackupRecoverFine ==
    ASSUME B!BackupAssumption, BackupInv, NEW c \in Commander, B!Recover(c) PROVE BackupInv'
<1>1. b_faults' \in 0 .. MaxFaults /\ UNCHANGED <<b_store, b_clock, b_live, b_config, b_removed, b_shared, b_raced>>
      /\ b_cmd[c].pc = "pending"
  BY DEF B!Recover, B!At, BackupInv, BackupTypes
<1>2. b_cmd[c].drop = {} /\ b_cmd[c] \in BackupCommand
  BY <1>1 DEF BackupInv, BackupFits, BackupTypes
<1>3. \A pc \in BackupPlaces : [b_cmd[c] EXCEPT !.pc = pc, !.drop = {}] = [b_cmd[c] EXCEPT !.pc = pc]
  BY <1>2 DEF BackupCommand
<1>4. ASSUME NEW pc \in {"done", "upsert", "delete", "apply"}, B!Move(c, pc)
      PROVE  B!Put(c, [b_cmd[c] EXCEPT !.pc = pc, !.drop = {}])
  BY <1>3, <1>4 DEF BackupPlaces, B!Move
<1>5. CASE B!Superseded(c) /\ B!Move(c, "done")
  <2>1. B!Put(c, [b_cmd[c] EXCEPT !.pc = "done", !.drop = {}])
    BY <1>4, <1>5
  <2> QED
    BY <1>1, <1>5, <2>1, BackupReplaced DEF B!Executing
<1>6. CASE ~B!Superseded(c) /\ b_cmd[c].kind = "save" /\ B!Move(c, "upsert")
  <2>1. B!Put(c, [b_cmd[c] EXCEPT !.pc = "upsert", !.drop = {}])
    BY <1>4, <1>6
  <2> QED
    BY <1>1, <1>6, <2>1, BackupReplaced DEF B!Executing
<1>7. CASE ~B!Superseded(c) /\ b_cmd[c].kind = "delete" /\ B!Move(c, "delete")
  <2>1. B!Put(c, [b_cmd[c] EXCEPT !.pc = "delete", !.drop = {}])
    BY <1>4, <1>7
  <2> QED
    BY <1>1, <1>7, <2>1, BackupReplaced DEF B!Executing
<1>8. CASE ~B!Superseded(c) /\ b_cmd[c].kind = "load" /\ B!Move(c, "apply")
  <2>1. B!Put(c, [b_cmd[c] EXCEPT !.pc = "apply", !.drop = {}])
    BY <1>4, <1>8
  <2> QED
    BY <1>1, <1>8, <2>1, BackupReplaced DEF B!Executing
<1>9. b_cmd[c].kind \in {"save", "delete", "load"}
  BY <1>2 DEF BackupCommand
<1> QED
  BY <1>5, <1>6, <1>7, <1>8, <1>9 DEF B!Recover

LEMMA BackupRemoveFine ==
    ASSUME B!BackupAssumption, BackupInv, NEW x \in B!Resource, B!Remove(x) PROVE BackupInv'
<1>1. /\ b_live' = b_live \ {x} /\ b_removed' = b_removed \cup {x} /\ b_faults' \in 0 .. MaxFaults
      /\ UNCHANGED <<b_store, b_clock, b_config, b_cmd, b_shared, b_raced>>
  BY BackupFaultTypes DEF B!Remove, BackupInv
<1>2. BackupTypes' /\ (\A c \in Commander : BackupFits(b_cmd[c]))' /\ BackupNumbered'
  BY <1>1 DEF BackupInv, BackupTypes, BackupNumbered, BackupStarted
<1>3. BackupSaveInv'
  BY <1>1 DEF BackupInv, BackupSaveInv, BackupStoredIsSaved, BackupSavedBy, BackupKept, BackupCounts, BackupSafe,
      B!Superseded, B!SameResource, BackupNewerSaves
<1>4. BackupThere \subseteq BackupThere'
  BY <1>1 DEF BackupThere
<1>5. \A y : BackupNowhere(y) => BackupNowhere(y)'
  BY <1>1 DEF BackupNowhere
<1>6. BackupUnmadeIsNowhere'
  BY <1>1, <1>5 DEF BackupInv, BackupLoadInv, BackupUnmadeIsNowhere, BackupUnmade
<1>7. BackupFoundIsThere' /\ B!RestoredExists' /\ BackupMadeIsOwn'
  BY <1>1, <1>4 DEF BackupInv, BackupLoadInv, BackupFoundIsThere, B!RestoredExists, BackupMadeIsOwn,
      BackupRelies, BackupThere
<1> QED
  BY <1>2, <1>3, <1>6, <1>7 DEF BackupInv, BackupLoadInv

LEMMA BackupInit == B!BackupAssumption /\ B!Init => BackupInv
<1> SUFFICES ASSUME B!BackupAssumption, B!Init PROVE BackupInv
  OBVIOUS
<1>1. B!Idle \in BackupCommand /\ BackupFits(B!Idle) /\ B!Idle.pc = "idle" /\ B!Idle.kind = "save" /\ B!Idle.at = 0
      /\ B!Idle.cache = {} /\ B!Idle.map = {} /\ B!Idle.made = {}
  BY BackupIdleTypes
<1>2. \A c \in Commander : b_cmd[c] = B!Idle
  BY DEF B!Init
<1>3. BackupTypes
  BY <1>1 DEF B!Init, BackupTypes, B!BackupAssumption, B!Resource
<1>4. BackupStarted = {}
  BY <1>1, <1>2 DEF BackupStarted
<1>5. BackupNumbered
  BY <1>1, <1>2, <1>4, BackupEmptySet DEF BackupNumbered, B!Init
<1>6. BackupSaveInv
  BY <1>1, <1>2 DEF BackupSaveInv, BackupStoredIsSaved, BackupKept, BackupCounts, B!Init
<1>7. \A r \in Task, d \in Commander : <<r, d>> \notin Task
  BY DEF B!BackupAssumption
<1>8. BackupUnmadeIsNowhere
  BY <1>1, <1>2, <1>7 DEF BackupUnmadeIsNowhere, BackupNowhere, B!Init
<1>9. BackupFoundIsThere /\ BackupMadeIsOwn /\ B!RestoredExists
  BY <1>1, <1>2 DEF BackupFoundIsThere, BackupMadeIsOwn, B!RestoredExists, BackupRelies, B!Init
<1> QED
  BY <1>1, <1>2, <1>3, <1>5, <1>6, <1>8, <1>9 DEF BackupInv, BackupLoadInv

LEMMA BackupNext == ASSUME B!BackupAssumption, BackupInv, [B!Next]_(B!vars) PROVE BackupInv'
<1>1. CASE UNCHANGED B!vars
  <2>1. BackupTypes' /\ (\A c \in Commander : BackupFits(b_cmd[c]))' /\ BackupNumbered'
    BY <1>1 DEF B!vars, BackupInv, BackupTypes, BackupNumbered, BackupStarted
  <2>2. BackupSaveInv'
    BY <1>1 DEF B!vars, BackupInv, BackupSaveInv, BackupStoredIsSaved, BackupSavedBy, BackupKept, BackupCounts,
        BackupSafe, B!Superseded, B!SameResource,
       BackupNewerSaves
  <2>3. BackupLoadInv'
    BY <1>1 DEF B!vars, BackupInv, BackupLoadInv, BackupUnmadeIsNowhere, BackupUnmade, BackupNowhere,
        BackupFoundIsThere, BackupRelies, BackupThere,
       BackupMadeIsOwn, B!RestoredExists
  <2> QED
    BY <2>1, <2>2, <2>3 DEF BackupInv
<1>2. ASSUME NEW c \in Commander, NEW n \in Thing, B!Save(c, n) \/ B!Delete(c, n) \/ B!Load(c, n) PROVE BackupInv'
  BY <1>2, BackupSaveFine, BackupDeleteFine, BackupLoadFine
<1>3. ASSUME NEW c \in Commander,
             B!Upsert(c) \/ B!FindOverflow(c) \/ B!DropOverflow(c) \/ B!DeleteOne(c) \/ B!ReuseRestored(c)
               \/ B!Create(c)
      PROVE  BackupInv'
  BY <1>3, BackupUpsertFine, BackupFindOverflowFine, BackupDropOverflowFine, BackupDeleteOneFine,
      BackupReuseRestoredFine, BackupCreateFine
<1>4. ASSUME NEW c \in Commander,
             B!CreateFails(c) \/ B!Rollback(c) \/ B!Materialized(c) \/ B!Apply(c) \/ B!Crash(c) \/ B!Recover(c)
      PROVE  BackupInv'
  BY <1>4, BackupCreateFailsFine, BackupRollbackFine, BackupMaterializedFine, BackupApplyFine, BackupCrashFine,
      BackupRecoverFine
<1>5. ASSUME NEW x \in B!Resource, B!Remove(x) PROVE BackupInv'
  BY <1>5, BackupRemoveFine
<1> QED
  BY <1>1, <1>2, <1>3, <1>4, <1>5 DEF B!Next

(* The saves are numbered, what a save drops is not among the newest, and  *)
(* what a load put into the configuration exists (handleAdd, handleLoad).  *)
THEOREM BackupInvariant == ASSUME B!BackupAssumption PROVE B!Spec => []BackupInv
<1>1. B!Init => BackupInv
  BY BackupInit
<1>2. BackupInv /\ [B!Next]_(B!vars) => BackupInv'
  BY BackupNext
<1> QED
  BY <1>1, <1>2, PTL DEF B!Spec

LEMMA BackupNewestKept == ASSUME B!BackupAssumption, BackupInv PROVE B!NewestIsKept
<1> SUFFICES ASSUME NEW c \in Commander, b_cmd[c].kind = "save", b_cmd[c].pc = "done", ~B!Superseded(c),
                    B!Cardinality({d \in Commander : b_cmd[d].at > b_cmd[c].at}) < MaxBackups,
                    b_cmd[c].name \notin b_raced,
                    ~\E d \in Commander : b_cmd[d].kind = "delete" /\ b_cmd[d].name = b_cmd[c].name
             PROVE  b_store[b_cmd[c].name] > 0
  BY DEF B!NewestIsKept, B!At
<1> DEFINE all == {d \in Commander : b_cmd[d].at > b_cmd[c].at}
<1>1. BackupNewerSaves(c) \subseteq all /\ all \subseteq Commander
  BY DEF BackupNewerSaves
<1>2. B!IsFiniteSet(all)
  BY <1>1, BackupSubset DEF B!BackupAssumption
<1>3. /\ B!Cardinality(BackupNewerSaves(c)) <= B!Cardinality(all) /\ B!Cardinality(all) \in Nat
      /\ B!Cardinality(BackupNewerSaves(c)) \in Nat
  BY <1>1, <1>2, BackupSubset, BackupCardinalityType
<1>4. B!Cardinality(BackupNewerSaves(c)) < MaxBackups
  BY <1>3 DEF B!BackupAssumption
<1>5. BackupSafe(c)
  BY <1>4 DEF BackupInv, BackupSaveInv, BackupKept, BackupCounts
<1>6. b_cmd[c].at > 0
  BY DEF BackupInv, BackupFits, BackupOut
<1> QED
  BY <1>5, <1>6 DEF BackupSafe

-----------------------------------------------------------------------------
(* The protection from advertisements.  What let a message through was     *)
(* found for it, and was approved for what the message advertises; the     *)
(* strikes of a member are those of the messages that count.               *)
AdPlaces == {"new", "find", "claim", "delete", "bump", "reset", "warn", "publish", "done", "lost"}
AdDoc == [status : A!Status, ad : A!Fingerprint, over : BOOLEAN, pc : {"new", "sent", "failed", "done"}]
AdPost == [pc : AdPlaces, ad : A!Fingerprint, fresh : SUBSET AdRequest, found : SUBSET AdRequest,
           by : SUBSET AdRequest]

AdTally == a_attempts \in [strikes : 0 .. (Limit - 1), detected : Nat, warns : Nat]
AdTypes ==
    /\ a_request \in [AdRequest -> AdDoc] /\ a_message \in [Task -> AdPost] /\ AdTally
    /\ a_overlapped \in BOOLEAN /\ a_faults \in 0 .. MaxFaults

(* The messages that have been counted, or never will be: as many as were  *)
(* detected, at least.                                                     *)
AdCounted == {m \in Task : a_message[m].pc \in {"warn", "publish", "done", "lost"}}
AdCountable ==
    /\ a_attempts.detected <= A!Cardinality(AdCounted) + Limit /\ a_attempts.warns <= A!Cardinality(AdCounted)

(* A request not yet made is no approval; what a message found, and what   *)
(* let it through, names it; what let it through is used, by it alone.     *)
AdUnmadeIsNone == \A r \in AdRequest : a_request[r].pc = "new" => a_request[r].status = "none"
AdFinds(m) ==
    /\ a_message[m].pc = "new" => a_message[m].found = {} /\ a_message[m].by = {}
    /\ \A r \in a_message[m].found : a_request[r].pc # "new" /\ A!Matches(r, a_message[m].ad)
    /\ \A r \in a_message[m].by : /\ a_request[r].pc # "new" /\ A!Matches(r, a_message[m].ad)
                                  /\ a_request[r].status = "used"
                                  /\ \A n \in Task \ {m} : r \notin a_message[n].by
(* Who is past the limit is so alone, at the last strike.                  *)
AdAloneAtLimit ==
    ~a_overlapped =>
        /\ \A m \in Task :
             A!At(m, "reset") => a_attempts.strikes = Limit - 1 /\ \A n \in Task : A!At(n, "reset") => n = m
        /\ a_attempts.strikes + Limit * a_attempts.warns = a_attempts.detected

AdInv == AdTypes /\ AdCountable /\ AdUnmadeIsNone /\ (\A m \in Task : AdFinds(m)) /\ AdAloneAtLimit

(* The library's facts, of the operators as the instance sees them.        *)
LEMMA AdFinite == ASSUME NEW X PROVE A!Cardinality(X) = Cardinality(X) /\ A!IsFiniteSet(X) = IsFiniteSet(X)
BY DEF A!Cardinality, Cardinality, A!IsFiniteSet, IsFiniteSet

LEMMA AdAddElement ==
    ASSUME NEW X, NEW x, A!IsFiniteSet(X)
    PROVE  /\ A!IsFiniteSet(X \cup {x})
           /\ x \in X => A!Cardinality(X \cup {x}) = A!Cardinality(X)
           /\ x \notin X => A!Cardinality(X \cup {x}) = A!Cardinality(X) + 1
BY FS_AddElement, AdFinite

LEMMA AdCardinalityType == ASSUME NEW X, A!IsFiniteSet(X) PROVE A!Cardinality(X) \in Nat
BY FS_CardinalityType, AdFinite

LEMMA AdSubset ==
    ASSUME NEW X, NEW Y \in SUBSET X, A!IsFiniteSet(X)
    PROVE  A!IsFiniteSet(Y) /\ A!Cardinality(Y) <= A!Cardinality(X)
BY FS_Subset, AdFinite

LEMMA AdCountedIsFinite ==
    ASSUME A!AdAssumption
    PROVE  /\ A!IsFiniteSet(AdCounted) /\ A!Cardinality(AdCounted) \in Nat /\ A!Cardinality(AdCounted) <= A!Messages
           /\ A!Messages \in Nat
<1>1. AdCounted \subseteq Task /\ A!IsFiniteSet(Task)
  BY DEF AdCounted, A!AdAssumption
<1> QED
  BY <1>1, AdSubset, AdCardinalityType DEF A!Messages

LEMMA AdTypesOK == ASSUME A!AdAssumption, AdInv PROVE A!TypeOK
<1>1. /\ a_request \in [AdRequest -> AdDoc] /\ a_message \in [Task -> AdPost] /\ a_overlapped \in BOOLEAN
      /\ a_faults \in 0 .. MaxFaults
      /\ a_attempts.strikes \in 0 .. (Limit - 1) /\ a_attempts.detected \in Nat /\ a_attempts.warns \in Nat
      /\ a_attempts.detected <= A!Cardinality(AdCounted) + Limit /\ a_attempts.warns <= A!Cardinality(AdCounted)
  BY DEF AdInv, AdTypes, AdTally, AdCountable
<1>2. a_attempts.detected \in 0 .. (A!Messages + Limit) /\ a_attempts.warns \in 0 .. A!Messages
  BY <1>1, AdCountedIsFinite DEF A!AdAssumption
<1> QED
  BY <1>1, <1>2 DEF A!TypeOK, AdDoc, AdPost, AdPlaces

(* A step of a message that keeps what it found and what let it through,   *)
(* and leaves the counting alone.                                          *)
LEMMA AdPutPost ==
    ASSUME AdTypes, NEW m \in Task, NEW q \in AdPost, A!Put(m, q)
    PROVE  /\ a_message' \in [Task -> AdPost] /\ a_message'[m] = q
           /\ \A n \in Task : n # m => a_message'[n] = a_message[n]
BY DEF AdTypes, A!Put

LEMMA AdMoreCounted ==
    ASSUME A!AdAssumption, NEW m \in Task, \A n \in Task : n # m => a_message'[n] = a_message[n],
           m \in AdCounted => a_message'[m].pc \in {"warn", "publish", "done", "lost"}
    PROVE  AdCounted' = AdCounted \/ (m \notin AdCounted /\ m \in AdCounted' /\ AdCounted' = AdCounted \cup {m})
BY DEF AdCounted

LEMMA AdGrowsCounted ==
    ASSUME A!AdAssumption, NEW m \in Task, \A n \in Task : n # m => a_message'[n] = a_message[n],
           m \in AdCounted => a_message'[m].pc \in {"warn", "publish", "done", "lost"}
    PROVE  /\ A!Cardinality(AdCounted) \in Nat /\ A!Cardinality(AdCounted)' \in Nat
           /\ A!Cardinality(AdCounted) <= A!Cardinality(AdCounted)'
           /\ (m \notin AdCounted /\ m \in AdCounted' => A!Cardinality(AdCounted)' = A!Cardinality(AdCounted) + 1)
<1>1. A!IsFiniteSet(AdCounted) /\ A!Cardinality(AdCounted) \in Nat
  BY AdCountedIsFinite
<1>2. CASE AdCounted' = AdCounted
  BY <1>1, <1>2
<1>3. CASE m \notin AdCounted /\ m \in AdCounted' /\ AdCounted' = AdCounted \cup {m}
  <2>1. A!Cardinality(AdCounted \cup {m}) = A!Cardinality(AdCounted) + 1
    BY <1>1, <1>3, AdAddElement
  <2> QED
    BY <1>1, <1>3, <2>1
<1> QED
  BY <1>2, <1>3, AdMoreCounted

LEMMA AdQuiet ==
    ASSUME A!AdAssumption, AdInv, NEW m \in Task, NEW q \in AdPost, A!Put(m, q),
           q.found \subseteq a_message[m].found, q.by = a_message[m].by, q.ad = a_message[m].ad, q.pc # "new",
           q.pc = "reset" => a_message[m].pc = "reset",
           a_message[m].pc \in {"warn", "publish", "done", "lost"} => q.pc \in {"warn", "publish", "done", "lost"},
           a_faults' \in 0 .. MaxFaults, UNCHANGED <<a_request, a_attempts, a_overlapped>>
    PROVE  AdInv'
<1>1. /\ a_message' \in [Task -> AdPost] /\ a_message'[m] = q
      /\ \A n \in Task : n # m => a_message'[n] = a_message[n]
  BY AdPutPost DEF AdInv
<1>2. AdTypes' /\ AdUnmadeIsNone'
  BY <1>1 DEF AdInv, AdTypes, AdTally, AdUnmadeIsNone
<1>3. AdCountable'
  <2>1. /\ A!Cardinality(AdCounted) \in Nat /\ A!Cardinality(AdCounted)' \in Nat
        /\ A!Cardinality(AdCounted) <= A!Cardinality(AdCounted)'
    BY <1>1, AdGrowsCounted DEF AdCounted
  <2>2. a_attempts.detected \in Nat /\ a_attempts.warns \in Nat /\ Limit \in Nat
    BY DEF AdInv, AdTypes, AdTally, A!AdAssumption
  <2> QED
    BY <2>1, <2>2 DEF AdInv, AdCountable
<1>4. ASSUME NEW n \in Task PROVE AdFinds(n)'
  <2>1. AdFinds(n) /\ AdFinds(m)
    BY DEF AdInv
  <2>2. \A k \in Task : a_message'[k].by = a_message[k].by
    BY <1>1
  <2>3. a_message'[n].found \subseteq a_message[n].found /\ a_message'[n].ad = a_message[n].ad
        /\ (a_message'[n].pc = "new" => a_message[n].pc = "new")
    BY <1>1
  <2> QED
    BY <2>1, <2>2, <2>3 DEF AdFinds, A!Matches
<1>5. AdAloneAtLimit'
  <2>1. \A n \in Task : A!At(n, "reset")' => A!At(n, "reset")
    BY <1>1 DEF A!At
  <2> QED
    BY <2>1 DEF AdInv, AdAloneAtLimit
<1> QED
  BY <1>2, <1>3, <1>4, <1>5 DEF AdInv

LEMMA AdFaultTypes == ASSUME A!AdAssumption, AdInv, A!Fault PROVE a_faults' \in 0 .. MaxFaults
BY DEF A!AdAssumption, AdInv, AdTypes, A!Fault

LEMMA AdMoves ==
    ASSUME A!AdAssumption, AdInv, NEW m \in Task, NEW pc \in {"delete", "bump", "publish", "done", "lost"},
           A!Move(m, pc),
           a_message[m].pc \in {"warn", "publish", "done", "lost"} => pc \in {"publish", "done", "lost"},
           a_faults' \in 0 .. MaxFaults, UNCHANGED <<a_request, a_attempts, a_overlapped>>
    PROVE  AdInv'
<1> DEFINE q == [a_message[m] EXCEPT !.pc = pc]
<1>1. q \in AdPost /\ q.pc = pc /\ q.found = a_message[m].found /\ q.by = a_message[m].by /\ q.ad = a_message[m].ad
  BY DEF AdInv, AdTypes, AdPost, AdPlaces
<1>2. A!Put(m, q)
  BY DEF A!Move
<1> HIDE DEF q
<1> QED
  BY <1>1, <1>2, AdQuiet

(* What may become of the requests while messages have found some. *)
AdKept(r) ==
    /\ a_request[r].pc # "new" => a_request'[r].pc # "new" /\ a_request'[r].ad = a_request[r].ad
    /\ a_request'[r].pc = "new" => a_request'[r].status = "none"
    /\ a_request[r].pc # "new" /\ a_request[r].status = "used" => a_request'[r].status = "used"

LEMMA AdRequestMoves ==
    ASSUME A!AdAssumption, AdInv, a_request' \in [AdRequest -> AdDoc], \A r \in AdRequest : AdKept(r),
           a_faults' \in 0 .. MaxFaults, UNCHANGED <<a_message, a_attempts, a_overlapped>>
    PROVE  AdInv'
<1>1. AdTypes' /\ AdUnmadeIsNone' /\ AdCountable' /\ AdAloneAtLimit'
  BY DEF AdInv, AdTypes, AdTally, AdUnmadeIsNone, AdCountable, AdCounted, AdAloneAtLimit, A!At, AdKept
<1>2. ASSUME NEW m \in Task PROVE AdFinds(m)'
  <2>1. a_message[m].found \subseteq AdRequest /\ a_message[m].by \subseteq AdRequest /\ AdFinds(m)
    BY DEF AdInv, AdTypes, AdPost
  <2> QED
    BY <2>1 DEF AdFinds, A!Matches, AdKept
<1> QED
  BY <1>1, <1>2 DEF AdInv

LEMMA AdExpiredTypes ==
    ASSUME AdInv
    PROVE  /\ A!Expired \in [AdRequest -> AdDoc]
           /\ \A r \in AdRequest : /\ A!Expired[r].pc = a_request[r].pc /\ A!Expired[r].ad = a_request[r].ad
                                   /\ \/ A!Expired[r].status = a_request[r].status
                                      \/ A!Expired[r].status = "expired" /\ A!Open(r)
<1> DEFINE d(r) == IF A!Open(r) /\ a_request[r].over THEN [a_request[r] EXCEPT !.status = "expired"] ELSE a_request[r]
<1>1. A!Expired = [r \in AdRequest |-> d(r)]
  BY DEF A!Expired
<1>2. ASSUME NEW r \in AdRequest
      PROVE  /\ d(r) \in AdDoc /\ d(r).pc = a_request[r].pc /\ d(r).ad = a_request[r].ad
             /\ \/ d(r).status = a_request[r].status
                \/ d(r).status = "expired" /\ A!Open(r)
  <2>1. a_request[r] \in AdDoc
    BY DEF AdInv, AdTypes
  <2>2. CASE A!Open(r) /\ a_request[r].over
    <3>1. [a_request[r] EXCEPT !.status = "expired"] \in AdDoc
      BY <2>1 DEF AdDoc, A!Status
    <3>2. /\ [a_request[r] EXCEPT !.status = "expired"].pc = a_request[r].pc
          /\ [a_request[r] EXCEPT !.status = "expired"].ad = a_request[r].ad
          /\ [a_request[r] EXCEPT !.status = "expired"].status = "expired"
      BY <2>1 DEF AdDoc
    <3> QED
      BY <2>2, <3>1, <3>2
  <2>3. CASE ~(A!Open(r) /\ a_request[r].over)
    BY <2>1, <2>3
  <2> QED
    BY <2>2, <2>3
<1> HIDE DEF d
<1> QED
  BY <1>1, <1>2

LEMMA AdExpiredKept == ASSUME AdInv, NEW r \in AdRequest, a_request'[r] = A!Expired[r] PROVE AdKept(r)
BY AdExpiredTypes DEF AdInv, AdUnmadeIsNone, AdKept, A!Open

LEMMA AdRestKept == ASSUME AdInv, NEW r \in AdRequest, a_request'[r] = a_request[r] PROVE AdKept(r)
BY DEF AdInv, AdUnmadeIsNone, AdKept

LEMMA AdAskFine == ASSUME A!AdAssumption, AdInv, NEW r \in AdRequest, A!Ask(r) PROVE AdInv'
<1>1. PICK a \in A!Fingerprint :
        a_request' = [A!Expired EXCEPT ![r] = [status |-> "pending", ad |-> a, over |-> FALSE, pc |-> "sent"]]
  BY DEF A!Ask
<1> DEFINE d == [status |-> "pending", ad |-> a, over |-> FALSE, pc |-> "sent"]
<1>2. d \in AdDoc /\ d.pc = "sent"
  BY DEF AdDoc, A!Status
<1>3. /\ a_request' \in [AdRequest -> AdDoc] /\ a_request'[r] = d
      /\ \A q \in AdRequest : q # r => a_request'[q] = A!Expired[q]
  BY <1>1, <1>2, AdExpiredTypes DEF AdInv
<1> HIDE DEF d
<1>4. AdKept(r)
  BY <1>2, <1>3 DEF A!Ask, AdKept
<1>5. a_faults' \in 0 .. MaxFaults /\ UNCHANGED <<a_message, a_attempts, a_overlapped>>
  BY DEF A!Ask, AdInv, AdTypes
<1>6. \A q \in AdRequest : AdKept(q)
  BY <1>3, <1>4, AdExpiredKept
<1> QED
  BY <1>3, <1>5, <1>6, AdRequestMoves

(* One request moves on, as the others stay. *)
LEMMA AdRequestGoes ==
    ASSUME A!AdAssumption, AdInv, NEW r \in AdRequest, NEW d \in AdDoc, a_request' = [a_request EXCEPT ![r] = d],
           a_request[r].pc # "new", d.pc # "new", d.ad = a_request[r].ad,
           a_request[r].status = "used" => d.status = "used",
           a_faults' \in 0 .. MaxFaults, UNCHANGED <<a_message, a_attempts, a_overlapped>>
    PROVE  AdInv'
<1>1. /\ a_request' \in [AdRequest -> AdDoc] /\ a_request'[r] = d
      /\ \A q \in AdRequest : q # r => a_request'[q] = a_request[q]
  BY DEF AdInv, AdTypes
<1>2. AdKept(r)
  BY <1>1 DEF AdKept
<1>3. \A q \in AdRequest : AdKept(q)
  BY <1>1, <1>2, AdRestKept
<1> QED
  BY <1>1, <1>3, AdRequestMoves

LEMMA AdDeliverFine == ASSUME A!AdAssumption, AdInv, NEW r \in AdRequest, A!Deliver(r) PROVE AdInv'
<1>0. /\ a_request[r] \in AdDoc /\ a_request[r].pc = "sent" /\ a_request \in [AdRequest -> AdDoc]
      /\ a_faults \in 0 .. MaxFaults
      /\ UNCHANGED <<a_message, a_attempts, a_overlapped>>
  BY DEF A!Deliver, AdInv, AdTypes
<1>1. PICK pc \in {"done", "failed"} : a_request' = [a_request EXCEPT ![r].pc = pc] /\ a_faults' \in 0 .. MaxFaults
  BY <1>0, AdFaultTypes DEF A!Deliver
<1> DEFINE d == [a_request[r] EXCEPT !.pc = pc]
<1>2. d \in AdDoc /\ d.pc # "new" /\ d.ad = a_request[r].ad /\ d.status = a_request[r].status
  BY <1>0 DEF AdDoc
<1>3. a_request' = [a_request EXCEPT ![r] = d]
  BY <1>0, <1>1
<1> HIDE DEF d
<1> QED
  BY <1>0, <1>1, <1>2, <1>3, AdRequestGoes

LEMMA AdCancelFine == ASSUME A!AdAssumption, AdInv, NEW r \in AdRequest, A!CancelUndelivered(r) PROVE AdInv'
<1>0. /\ a_request[r] \in AdDoc /\ a_request[r].pc = "failed" /\ a_request \in [AdRequest -> AdDoc]
      /\ a_faults' \in 0 .. MaxFaults
      /\ UNCHANGED <<a_message, a_attempts, a_overlapped>>
  BY DEF A!CancelUndelivered, AdInv, AdTypes
<1> DEFINE s == IF a_request[r].status = "pending" THEN "cancelled" ELSE a_request[r].status
           d == [a_request[r] EXCEPT !.pc = "done", !.status = s]
<1>2. d \in AdDoc /\ d.pc = "done" /\ d.ad = a_request[r].ad /\ (a_request[r].status = "used" => d.status = "used")
  BY <1>0 DEF AdDoc, A!Status
<1>3. a_request' = [a_request EXCEPT ![r] = d]
  BY <1>0 DEF A!CancelUndelivered
<1> HIDE DEF d
<1> QED
  BY <1>0, <1>2, <1>3, AdRequestGoes

LEMMA AdElapseFine == ASSUME A!AdAssumption, AdInv, NEW r \in AdRequest, A!Elapse(r) PROVE AdInv'
<1>0. /\ a_request[r] \in AdDoc /\ a_request[r].pc # "new" /\ a_request \in [AdRequest -> AdDoc]
      /\ a_faults' \in 0 .. MaxFaults
      /\ UNCHANGED <<a_message, a_attempts, a_overlapped>>
  BY DEF A!Elapse, A!Open, AdInv, AdTypes, AdUnmadeIsNone
<1> DEFINE d == [a_request[r] EXCEPT !.over = TRUE]
<1>2. d \in AdDoc /\ d.pc = a_request[r].pc /\ d.ad = a_request[r].ad /\ d.status = a_request[r].status
  <2>1. TRUE \in BOOLEAN
    OBVIOUS
  <2> QED
    BY <1>0, <2>1 DEF AdDoc
<1>3. a_request' = [a_request EXCEPT ![r] = d]
  BY <1>0 DEF A!Elapse
<1> HIDE DEF d
<1> QED
  BY <1>0, <1>2, <1>3, AdRequestGoes

LEMMA AdCancelActiveFine == ASSUME A!AdAssumption, AdInv, A!CancelActive PROVE AdInv'
<1>1. ASSUME NEW r \in AdRequest PROVE a_request'[r] \in AdDoc /\ AdKept(r)
  <2>1. /\ a_request[r] \in AdDoc
        /\ a_request'[r] = IF A!Open(r) THEN [a_request[r] EXCEPT !.status = "cancelled"] ELSE a_request[r]
    BY DEF A!CancelActive, AdInv, AdTypes
  <2>2. CASE A!Open(r)
    <3>1. /\ a_request'[r] \in AdDoc /\ a_request'[r].pc = a_request[r].pc /\ a_request'[r].ad = a_request[r].ad
      BY <2>1, <2>2 DEF AdDoc, A!Status
    <3> QED
      BY <2>2, <3>1 DEF AdInv, AdUnmadeIsNone, AdKept, A!Open
  <2>3. CASE ~A!Open(r)
    BY <2>1, <2>3, AdRestKept
  <2> QED
    BY <2>2, <2>3
<1>2. /\ a_request' \in [AdRequest -> AdDoc] /\ a_faults' \in 0 .. MaxFaults
      /\ UNCHANGED <<a_message, a_attempts, a_overlapped>>
  BY <1>1 DEF A!CancelActive, AdInv, AdTypes
<1> QED
  BY <1>1, <1>2, AdRequestMoves

LEMMA AdDecideFine == ASSUME A!AdAssumption, AdInv, NEW r \in AdRequest, A!Decide(r) PROVE AdInv'
<1>0. /\ A!Expired \in [AdRequest -> AdDoc] /\ A!Expired[r] \in AdDoc /\ A!Expired[r].status = "pending"
      /\ a_faults' \in 0 .. MaxFaults
      /\ UNCHANGED <<a_message, a_attempts, a_overlapped>>
  BY AdExpiredTypes DEF A!Decide, AdInv, AdTypes
<1>1. PICK to \in {"approved", "rejected"} : a_request' = [A!Expired EXCEPT ![r].status = to]
  BY DEF A!Decide
<1> DEFINE d == [A!Expired[r] EXCEPT !.status = to]
<1>2. d \in AdDoc /\ d.pc = A!Expired[r].pc /\ d.ad = A!Expired[r].ad
  BY <1>0 DEF AdDoc, A!Status
<1>3. a_request' = [A!Expired EXCEPT ![r] = d]
  BY <1>0, <1>1
<1> HIDE DEF d
<1>4. /\ a_request' \in [AdRequest -> AdDoc] /\ a_request'[r] = d
      /\ \A q \in AdRequest : q # r => a_request'[q] = A!Expired[q]
  BY <1>0, <1>2, <1>3
<1>5. AdKept(r)
  <2>1. /\ a_request[r].status = "pending" /\ a_request[r].pc # "new" /\ A!Expired[r].pc = a_request[r].pc
        /\ A!Expired[r].ad = a_request[r].ad
    BY <1>0, AdExpiredTypes DEF AdInv, AdUnmadeIsNone
  <2> QED
    BY <1>2, <1>4, <2>1 DEF AdKept
<1>6. \A q \in AdRequest : AdKept(q)
  BY <1>4, <1>5, AdExpiredKept
<1> QED
  BY <1>0, <1>4, <1>6, AdRequestMoves

-----------------------------------------------------------------------------
LEMMA AdDetectFine == ASSUME A!AdAssumption, AdInv, NEW m \in Task, A!Detect(m) PROVE AdInv'
<1>0. a_message[m] \in AdPost /\ a_message[m].pc = "new" /\ a_message[m].found = {} /\ a_message[m].by = {}
      /\ a_faults' \in 0 .. MaxFaults /\ UNCHANGED <<a_attempts, a_overlapped, a_faults>> /\ a_request' = A!Expired
  BY DEF A!Detect, A!At, AdInv, AdTypes, AdFinds
<1>1. PICK a \in A!Fingerprint :
        A!Put(m, [a_message[m] EXCEPT !.pc = "find", !.ad = a, !.fresh = {r \in AdRequest : ~a_request[r].over}])
  BY DEF A!Detect
<1> DEFINE fresh == {r \in AdRequest : ~a_request[r].over}
           q == [a_message[m] EXCEPT !.pc = "find", !.ad = a, !.fresh = fresh]
<1>2. q \in AdPost /\ q.pc = "find" /\ q.found = {} /\ q.by = {} /\ A!Put(m, q)
  BY <1>0, <1>1 DEF AdPost, AdPlaces
<1> HIDE DEF q
<1>3. /\ a_message' \in [Task -> AdPost] /\ a_message'[m] = q
      /\ \A n \in Task : n # m => a_message'[n] = a_message[n]
  BY <1>2, AdPutPost DEF AdInv
<1>4. a_request' \in [AdRequest -> AdDoc] /\ \A r \in AdRequest : AdKept(r)
  BY <1>0, AdExpiredTypes, AdExpiredKept
<1>5. AdTypes' /\ AdUnmadeIsNone'
  BY <1>0, <1>3, <1>4 DEF AdInv, AdTypes, AdTally, AdUnmadeIsNone, AdKept
<1>6. AdCountable'
  <2>1. AdCounted' = AdCounted
    BY <1>0, <1>2, <1>3 DEF AdCounted
  <2> QED
    BY <1>0, <2>1 DEF AdInv, AdCountable
<1>7. ASSUME NEW n \in Task PROVE AdFinds(n)'
  <2>1. CASE n = m
    BY <1>2, <1>3, <2>1 DEF AdFinds
  <2>2. CASE n # m
    <3>1. /\ a_message[n].found \subseteq AdRequest /\ a_message[n].by \subseteq AdRequest /\ AdFinds(n)
          /\ a_message'[n] = a_message[n]
      BY <1>3, <2>2 DEF AdInv, AdTypes, AdPost
    <3>2. \A k \in Task : a_message'[k].by = a_message[k].by
      BY <1>0, <1>2, <1>3
    <3> QED
      BY <1>4, <3>1, <3>2 DEF AdFinds, A!Matches, AdKept
  <2> QED
    BY <2>1, <2>2
<1>8. AdAloneAtLimit'
  <2>1. \A n \in Task : A!At(n, "reset")' => A!At(n, "reset")
    BY <1>2, <1>3 DEF A!At
  <2> QED
    BY <1>0, <2>1 DEF AdInv, AdAloneAtLimit
<1> QED
  BY <1>5, <1>6, <1>7, <1>8 DEF AdInv

LEMMA AdFindFine == ASSUME A!AdAssumption, AdInv, NEW m \in Task, A!Find(m) PROVE AdInv'
<1>0. a_message[m] \in AdPost /\ a_message[m].pc = "find" /\ a_faults' \in 0 .. MaxFaults
      /\ UNCHANGED <<a_request, a_attempts, a_overlapped>>
  BY DEF A!Find, A!At, AdInv, AdTypes
<1> DEFINE found == {r \in a_message[m].fresh : a_request[r].status = "approved" /\ A!Matches(r, a_message[m].ad)}
           q == [a_message[m] EXCEPT !.pc = "claim", !.found = found]
<1>2. q \in AdPost /\ q.pc = "claim" /\ q.found = found /\ q.by = a_message[m].by /\ q.ad = a_message[m].ad
  BY <1>0 DEF AdPost, AdPlaces
<1>2a. A!Put(m, q)
  BY DEF A!Find
<1> HIDE DEF q
<1>3. /\ a_message' \in [Task -> AdPost] /\ a_message'[m] = q
      /\ \A n \in Task : n # m => a_message'[n] = a_message[n]
  BY <1>2, <1>2a, AdPutPost DEF AdInv
<1>5. AdTypes' /\ AdUnmadeIsNone'
  BY <1>0, <1>3 DEF AdInv, AdTypes, AdTally, AdUnmadeIsNone
<1>6. AdCountable'
  <2>1. AdCounted' = AdCounted
    BY <1>0, <1>2, <1>3 DEF AdCounted
  <2> QED
    BY <1>0, <2>1 DEF AdInv, AdCountable
<1>7. ASSUME NEW n \in Task PROVE AdFinds(n)'
  <2>1. AdFinds(n) /\ \A k \in Task : a_message'[k].by = a_message[k].by
    BY <1>2, <1>3 DEF AdInv
  <2>2. CASE n = m
    <3>1. \A r \in found : a_request[r].pc # "new" /\ A!Matches(r, a_message[m].ad)
      BY <1>0 DEF AdInv, AdUnmadeIsNone, AdPost
    <3> QED
      BY <1>0, <1>2, <1>3, <2>1, <2>2, <3>1 DEF AdFinds, A!Matches
  <2>3. CASE n # m
    BY <1>0, <1>3, <2>1, <2>3 DEF AdFinds, A!Matches
  <2> QED
    BY <2>2, <2>3
<1>8. AdAloneAtLimit'
  <2>1. \A n \in Task : A!At(n, "reset")' => A!At(n, "reset")
    BY <1>2, <1>3 DEF A!At
  <2> QED
    BY <1>0, <2>1 DEF AdInv, AdAloneAtLimit
<1> QED
  BY <1>5, <1>6, <1>7, <1>8 DEF AdInv

LEMMA AdClaimFine == ASSUME A!AdAssumption, AdInv, NEW m \in Task, A!ClaimApproval(m) PROVE AdInv'
<1>0. a_message[m] \in AdPost /\ a_message[m].pc = "claim" /\ a_faults' \in 0 .. MaxFaults /\ AdFinds(m)
      /\ UNCHANGED <<a_attempts, a_overlapped, a_faults>> /\ a_request \in [AdRequest -> AdDoc]
  BY DEF A!ClaimApproval, A!At, AdInv, AdTypes
<1>1. CASE A!Move(m, "delete") /\ UNCHANGED a_request
  BY <1>0, <1>1, AdMoves
<1>2. ASSUME NEW r \in a_message[m].found, A!Put(m, [a_message[m] EXCEPT !.found = @ \ {r}]), UNCHANGED a_request
      PROVE  AdInv'
  <2> DEFINE q == [a_message[m] EXCEPT !.found = @ \ {r}]
  <2>1. /\ q \in AdPost /\ q.pc = "claim" /\ q.found \subseteq a_message[m].found /\ q.by = a_message[m].by
        /\ q.ad = a_message[m].ad
    BY <1>0 DEF AdPost
  <2>2. A!Put(m, q)
    BY <1>2
  <2> HIDE DEF q
  <2> QED
    BY <1>0, <1>2, <2>1, <2>2, AdQuiet
<1>3. ASSUME NEW r \in a_message[m].found, A!Claimable(r), a_request' = [a_request EXCEPT ![r].status = "used"],
             A!Put(m, [a_message[m] EXCEPT !.pc = "done", !.by = {r}])
      PROVE  AdInv'
  <2> DEFINE q == [a_message[m] EXCEPT !.pc = "done", !.by = {r}]
             d == [a_request[r] EXCEPT !.status = "used"]
  <2>0. r \in AdRequest /\ a_request[r] \in AdDoc /\ a_request[r].status = "approved" /\ a_request[r].pc # "new"
        /\ A!Matches(r, a_message[m].ad)
    BY <1>0, <1>3 DEF AdPost, A!Claimable, AdFinds
  <2>1. /\ q \in AdPost /\ q.pc = "done" /\ q.found = a_message[m].found /\ q.by = {r} /\ q.ad = a_message[m].ad
        /\ A!Put(m, q)
    BY <1>0, <1>3, <2>0 DEF AdPost, AdPlaces
  <2>2. /\ d \in AdDoc /\ d.status = "used" /\ d.pc = a_request[r].pc /\ d.ad = a_request[r].ad
        /\ a_request' = [a_request EXCEPT ![r] = d]
    BY <1>0, <1>3, <2>0 DEF AdDoc, A!Status
  <2> HIDE DEF q, d
  <2>3. /\ a_message' \in [Task -> AdPost] /\ a_message'[m] = q
        /\ \A n \in Task : n # m => a_message'[n] = a_message[n]
    BY <2>1, AdPutPost DEF AdInv
  <2>4. /\ a_request' \in [AdRequest -> AdDoc] /\ a_request'[r] = d
        /\ \A s \in AdRequest : s # r => a_request'[s] = a_request[s]
    BY <1>0, <2>0, <2>2
  <2>5. AdTypes' /\ AdUnmadeIsNone'
    BY <1>0, <2>0, <2>2, <2>3, <2>4 DEF AdInv, AdTypes, AdTally, AdUnmadeIsNone
  <2>6. AdCountable'
    <3>1. /\ A!Cardinality(AdCounted) \in Nat /\ A!Cardinality(AdCounted)' \in Nat
          /\ A!Cardinality(AdCounted) <= A!Cardinality(AdCounted)'
      BY <1>0, <2>3, AdGrowsCounted DEF AdCounted
    <3>2. a_attempts.detected \in Nat /\ a_attempts.warns \in Nat /\ Limit \in Nat
      BY DEF AdInv, AdTypes, AdTally, A!AdAssumption
    <3> QED
      BY <1>0, <3>1, <3>2 DEF AdInv, AdCountable
  <2>7. \A n \in Task : r \notin a_message[n].by
    BY <2>0 DEF AdInv, AdFinds
  <2>8. ASSUME NEW n \in Task PROVE AdFinds(n)'
    <3>1. AdFinds(n) /\ a_message[n].found \subseteq AdRequest /\ a_message[n].by \subseteq AdRequest
      BY DEF AdInv, AdTypes, AdPost
    <3>2. \A s \in AdRequest : a_request'[s].pc = a_request[s].pc /\ a_request'[s].ad = a_request[s].ad
      BY <2>2, <2>4
    <3>3. CASE n = m
      <4>1. \A k \in Task \ {m} : r \notin a_message'[k].by
        BY <2>3, <2>7
      <4> QED
        BY <2>0, <2>1, <2>2, <2>3, <2>4, <3>1, <3>2, <3>3, <4>1 DEF AdFinds, A!Matches
    <3>4. CASE n # m
      <4>1. a_message'[n] = a_message[n]
        BY <2>3, <3>4
      <4>2. \A s \in a_message[n].by : s # r /\ a_request'[s] = a_request[s]
              /\ \A k \in Task \ {n} : s \notin a_message'[k].by
        <5>1. SUFFICES ASSUME NEW s \in a_message[n].by
                       PROVE s # r /\ a_request'[s] = a_request[s] /\ \A k \in Task \ {n} : s \notin a_message'[k].by
          OBVIOUS
        <5>2. s # r /\ a_request'[s] = a_request[s]
          BY <2>4, <2>7, <3>1
        <5>3. \A k \in Task \ {n} : s \notin a_message'[k].by
          BY <2>1, <2>3, <3>1, <5>2 DEF AdFinds
        <5> QED
          BY <5>2, <5>3
      <4> QED
        BY <3>1, <3>2, <4>1, <4>2 DEF AdFinds, A!Matches
    <3> QED
      BY <3>3, <3>4
  <2>9. AdAloneAtLimit'
    <3>1. \A n \in Task : A!At(n, "reset")' => A!At(n, "reset")
      BY <2>1, <2>3 DEF A!At
    <3> QED
      BY <1>0, <3>1 DEF AdInv, AdAloneAtLimit
  <2> QED
    BY <2>5, <2>6, <2>8, <2>9 DEF AdInv
<1> QED
  BY <1>1, <1>2, <1>3 DEF A!ClaimApproval

LEMMA AdSearchFailsFine == ASSUME A!AdAssumption, AdInv, NEW m \in Task, A!SearchFails(m) PROVE AdInv'
BY AdFaultTypes, AdMoves DEF A!SearchFails

LEMMA AdBreakFine == ASSUME A!AdAssumption, AdInv, NEW m \in Task, A!Break(m) PROVE AdInv'
BY AdFaultTypes, AdMoves DEF A!Break

LEMMA AdRestFine ==
    ASSUME A!AdAssumption, AdInv, NEW m \in Task, A!DeleteMessage(m) \/ A!IssueWarn(m) \/ A!Publish(m)
    PROVE  AdInv'
<1>1. a_faults' \in 0 .. MaxFaults /\ UNCHANGED <<a_request, a_attempts, a_overlapped>>
  BY DEF A!DeleteMessage, A!IssueWarn, A!Publish, AdInv, AdTypes
<1> QED
  BY <1>1, AdMoves DEF A!DeleteMessage, A!IssueWarn, A!Publish, A!At

(* A message is counted. *)
LEMMA AdCountMoves ==
    ASSUME A!AdAssumption, AdInv, NEW m \in Task, NEW pc \in {"reset", "warn", "publish"}, A!Move(m, pc),
           a_message[m].pc \in {"bump", "reset"}, UNCHANGED <<a_request, a_faults>>
    PROVE  /\ a_message' \in [Task -> AdPost] /\ a_message'[m].pc = pc
           /\ \A n \in Task : n # m => a_message'[n] = a_message[n]
           /\ a_request' \in [AdRequest -> AdDoc] /\ a_faults' \in 0 .. MaxFaults
           /\ \A n \in Task : AdFinds(n)'
           /\ AdUnmadeIsNone'
           /\ A!Cardinality(AdCounted) \in Nat /\ A!Cardinality(AdCounted)' \in Nat
           /\ A!Cardinality(AdCounted) <= A!Cardinality(AdCounted)'
           /\ pc # "reset" => A!Cardinality(AdCounted)' = A!Cardinality(AdCounted) + 1
<1> DEFINE q == [a_message[m] EXCEPT !.pc = pc]
<1>1. /\ q \in AdPost /\ q.pc = pc /\ q.found = a_message[m].found /\ q.by = a_message[m].by /\ q.ad = a_message[m].ad
      /\ A!Put(m, q)
  BY DEF AdInv, AdTypes, AdPost, AdPlaces, A!Move
<1> HIDE DEF q
<1>2. /\ a_message' \in [Task -> AdPost] /\ a_message'[m] = q
      /\ \A n \in Task : n # m => a_message'[n] = a_message[n]
  BY <1>1, AdPutPost DEF AdInv
<1>3. m \notin AdCounted /\ (m \in AdCounted' <=> pc # "reset")
  BY <1>1, <1>2 DEF AdCounted
<1>4. ASSUME NEW n \in Task PROVE AdFinds(n)'
  <2>1. AdFinds(n)
    BY DEF AdInv
  <2>2. \A k \in Task : a_message'[k].by = a_message[k].by /\ a_message'[k].found = a_message[k].found
                        /\ a_message'[k].ad = a_message[k].ad
    BY <1>1, <1>2
  <2>3. a_message'[n].pc = "new" => a_message[n].pc = "new"
    BY <1>1, <1>2
  <2> QED
    BY <2>1, <2>2, <2>3 DEF AdFinds, A!Matches
<1> QED
  BY <1>1, <1>2, <1>3, <1>4, AdGrowsCounted DEF AdInv, AdTypes, AdUnmadeIsNone

LEMMA AdBumpFine == ASSUME A!AdAssumption, AdInv, NEW m \in Task, A!Bump(m) PROVE AdInv'
<1>0. /\ a_message[m].pc = "bump" /\ UNCHANGED <<a_request, a_faults>> /\ Limit \in Nat \ {0}
      /\ a_attempts \in [strikes : 0 .. (Limit - 1), detected : Nat, warns : Nat]
      /\ a_attempts.strikes \in 0 .. (Limit - 1) /\ a_attempts.detected \in Nat /\ a_attempts.warns \in Nat
      /\ a_overlapped \in BOOLEAN
  BY DEF A!Bump, A!At, AdInv, AdTypes, AdTally, A!AdAssumption
<1>1. CASE /\ a_attempts.strikes < Limit - 1
           /\ a_attempts' = [a_attempts EXCEPT !.strikes = @ + 1, !.detected = @ + 1]
           /\ A!Move(m, "publish") /\ UNCHANGED a_overlapped
  <2>1. /\ a_message' \in [Task -> AdPost] /\ a_message'[m].pc = "publish"
        /\ \A n \in Task : n # m => a_message'[n] = a_message[n]
        /\ a_request' \in [AdRequest -> AdDoc] /\ a_faults' \in 0 .. MaxFaults
        /\ (\A n \in Task : AdFinds(n)')
        /\ AdUnmadeIsNone'
        /\ A!Cardinality(AdCounted) \in Nat /\ A!Cardinality(AdCounted)' = A!Cardinality(AdCounted) + 1
    BY <1>0, <1>1, AdCountMoves
  <2>2. /\ a_attempts' \in [strikes : 0 .. (Limit - 1), detected : Nat, warns : Nat]
        /\ a_attempts'.strikes = a_attempts.strikes + 1 /\ a_attempts'.detected = a_attempts.detected + 1
        /\ a_attempts'.warns = a_attempts.warns
    <3> DEFINE u == a_attempts.strikes + 1
               d == a_attempts.detected + 1
    <3>1. u \in 0 .. (Limit - 1) /\ d \in Nat
      BY <1>0, <1>1
    <3>2. a_attempts' = [a_attempts EXCEPT !.strikes = u, !.detected = d]
      BY <1>1
    <3> HIDE DEF u, d
    <3>3. /\ a_attempts' \in [strikes : 0 .. (Limit - 1), detected : Nat, warns : Nat]
          /\ a_attempts'.strikes = u /\ a_attempts'.detected = d /\ a_attempts'.warns = a_attempts.warns
      BY <1>0, <3>1, <3>2
    <3> QED
      BY <3>3 DEF u, d
  <2>3. AdTypes'
    BY <1>1, <2>1, <2>2 DEF AdInv, AdTypes, AdTally
  <2>4. AdCountable'
    BY <1>0, <2>1, <2>2 DEF AdInv, AdCountable
  <2>5. AdAloneAtLimit'
    <3>1. ASSUME ~a_overlapped PROVE \A n \in Task : ~A!At(n, "reset")'
      <4>1. \A n \in Task : ~A!At(n, "reset")
        BY <1>0, <1>1, <3>1 DEF AdInv, AdAloneAtLimit
      <4> QED
        BY <2>1, <4>1 DEF A!At
    <3>2. ASSUME ~a_overlapped PROVE a_attempts'.strikes + Limit * a_attempts'.warns = a_attempts'.detected
      <4>1. a_attempts.strikes + Limit * a_attempts.warns = a_attempts.detected /\ Limit * a_attempts.warns \in Nat
        BY <1>0, <3>2 DEF AdInv, AdAloneAtLimit
      <4>2. Limit * a_attempts'.warns = Limit * a_attempts.warns
        BY <2>2
      <4> QED
        BY <1>0, <2>2, <4>1, <4>2
    <3>3. a_overlapped' = a_overlapped
      BY <1>1
    <3> QED
      BY <3>1, <3>2, <3>3 DEF AdAloneAtLimit
  <2> QED
    BY <2>1, <2>3, <2>4, <2>5 DEF AdInv
<1>2. CASE /\ ~(a_attempts.strikes < Limit - 1) /\ A!Move(m, "reset") /\ UNCHANGED a_attempts
           /\ a_overlapped' = (a_overlapped \/ \E n \in Task : A!At(n, "reset"))
  <2>1. /\ a_message' \in [Task -> AdPost] /\ a_message'[m].pc = "reset"
        /\ \A n \in Task : n # m => a_message'[n] = a_message[n]
        /\ a_request' \in [AdRequest -> AdDoc] /\ a_faults' \in 0 .. MaxFaults
        /\ (\A n \in Task : AdFinds(n)')
        /\ AdUnmadeIsNone'
        /\ A!Cardinality(AdCounted) \in Nat /\ A!Cardinality(AdCounted)' \in Nat
        /\ A!Cardinality(AdCounted) <= A!Cardinality(AdCounted)'
    BY <1>0, <1>2, AdCountMoves
  <2>2. a_overlapped' \in BOOLEAN
    BY <1>2
  <2>3. AdTypes'
    BY <1>2, <2>1, <2>2 DEF AdInv, AdTypes, AdTally
  <2>4. AdCountable'
    BY <1>0, <1>2, <2>1 DEF AdInv, AdCountable
  <2>5. AdAloneAtLimit'
    <3>1. SUFFICES ASSUME ~a_overlapped' PROVE AdAloneAtLimit'
      BY DEF AdAloneAtLimit
    <3>2. ~a_overlapped /\ \A n \in Task : ~A!At(n, "reset")
      BY <1>2, <3>1
    <3>3. \A n \in Task : A!At(n, "reset")' => n = m
      BY <2>1, <3>2 DEF A!At
    <3>4. a_attempts.strikes = Limit - 1
      BY <1>0, <1>2
    <3> QED
      BY <1>2, <3>2, <3>3, <3>4 DEF AdInv, AdAloneAtLimit
  <2> QED
    BY <2>1, <2>3, <2>4, <2>5 DEF AdInv
<1> QED
  BY <1>1, <1>2 DEF A!Bump

LEMMA AdResetFine == ASSUME A!AdAssumption, AdInv, NEW m \in Task, A!Reset(m) PROVE AdInv'
<1>0. /\ a_message[m].pc = "reset" /\ UNCHANGED <<a_request, a_faults, a_overlapped>> /\ Limit \in Nat \ {0}
      /\ A!Move(m, "warn")
      /\ a_attempts \in [strikes : 0 .. (Limit - 1), detected : Nat, warns : Nat]
      /\ a_attempts.strikes \in 0 .. (Limit - 1) /\ a_attempts.detected \in Nat /\ a_attempts.warns \in Nat
      /\ a_attempts' = [a_attempts EXCEPT !.strikes = 0, !.detected = @ + 1, !.warns = @ + 1]
  BY DEF A!Reset, A!At, AdInv, AdTypes, AdTally, A!AdAssumption
<1>1. /\ a_message' \in [Task -> AdPost] /\ a_message'[m].pc = "warn"
      /\ \A n \in Task : n # m => a_message'[n] = a_message[n]
      /\ a_request' \in [AdRequest -> AdDoc] /\ a_faults' \in 0 .. MaxFaults
      /\ (\A n \in Task : AdFinds(n)')
      /\ AdUnmadeIsNone'
      /\ A!Cardinality(AdCounted) \in Nat /\ A!Cardinality(AdCounted)' = A!Cardinality(AdCounted) + 1
  BY <1>0, AdCountMoves
<1>2. /\ a_attempts' \in [strikes : 0 .. (Limit - 1), detected : Nat, warns : Nat]
      /\ a_attempts'.strikes = 0 /\ a_attempts'.detected = a_attempts.detected + 1
      /\ a_attempts'.warns = a_attempts.warns + 1
  <2> DEFINE d == a_attempts.detected + 1
             w == a_attempts.warns + 1
  <2>1. d \in Nat /\ w \in Nat /\ 0 \in 0 .. (Limit - 1)
    BY <1>0
  <2>2. a_attempts' = [a_attempts EXCEPT !.strikes = 0, !.detected = d, !.warns = w]
    BY <1>0
  <2> HIDE DEF d, w
  <2>3. /\ a_attempts' \in [strikes : 0 .. (Limit - 1), detected : Nat, warns : Nat]
        /\ a_attempts'.strikes = 0 /\ a_attempts'.detected = d /\ a_attempts'.warns = w
    BY <1>0, <2>1, <2>2
  <2> QED
    BY <2>3 DEF d, w
<1>3. AdTypes'
  BY <1>0, <1>1, <1>2 DEF AdInv, AdTypes, AdTally
<1>4. AdCountable'
  BY <1>0, <1>1, <1>2 DEF AdInv, AdCountable
<1>5. AdAloneAtLimit'
  <2>1. SUFFICES ASSUME ~a_overlapped PROVE AdAloneAtLimit'
    BY <1>0 DEF AdAloneAtLimit
  <2>2. /\ a_attempts.strikes = Limit - 1 /\ (\A n \in Task : A!At(n, "reset") => n = m)
        /\ a_attempts.strikes + Limit * a_attempts.warns = a_attempts.detected
    BY <1>0, <2>1 DEF AdInv, AdAloneAtLimit, A!At
  <2>3. \A n \in Task : ~A!At(n, "reset")'
    BY <1>1, <2>2 DEF A!At
  <2>4. Limit * a_attempts'.warns = Limit * a_attempts.warns + Limit
    <3>1. \A x, y \in Nat : x * (y + 1) = x * y + x
      OBVIOUS
    <3> QED
      BY <1>0, <1>2, <3>1
  <2>5. a_attempts'.strikes + Limit * a_attempts'.warns = a_attempts'.detected
    <3>1. Limit * a_attempts.warns \in Nat
      BY <1>0
    <3> QED
      BY <1>0, <1>2, <2>2, <2>4, <3>1
  <2> QED
    BY <2>3, <2>5 DEF AdAloneAtLimit
<1> QED
  BY <1>1, <1>3, <1>4, <1>5 DEF AdInv

LEMMA AdInit == ASSUME A!AdAssumption, A!Init PROVE AdInv
<1>1. PICK n \in 0 .. (Limit - 1) : a_attempts = [strikes |-> n, detected |-> n, warns |-> 0]
  BY DEF A!Init
<1>2. /\ \A r \in AdRequest : a_request[r] \in AdDoc /\ a_request[r].pc = "new" /\ a_request[r].status = "none"
      /\ \A m \in Task : a_message[m] \in AdPost /\ a_message[m].pc = "new" /\ a_message[m].found = {}
           /\ a_message[m].by = {}
  BY DEF A!Init, AdDoc, AdPost, A!Status, A!Fingerprint, AdPlaces
<1>3. a_request \in [AdRequest -> AdDoc] /\ a_message \in [Task -> AdPost]
  BY <1>2 DEF A!Init
<1>4. AdTypes
  <2>1. n \in 0 .. (Limit - 1) /\ n \in Nat /\ 0 \in Nat
    BY DEF A!AdAssumption
  <2>2. AdTally
    BY <1>1, <2>1 DEF AdTally
  <2>3. a_overlapped = FALSE /\ a_faults = 0
    BY DEF A!Init
  <2>4. a_faults \in 0 .. MaxFaults
    BY <2>3 DEF A!AdAssumption
  <2>5. a_overlapped \in BOOLEAN
    BY <2>3
  <2> QED
    BY <1>3, <2>2, <2>4, <2>5 DEF AdTypes
<1>5. A!Cardinality(AdCounted) \in Nat
  BY AdCountedIsFinite
<1>6. AdCountable
  BY <1>1, <1>5 DEF AdCountable, A!AdAssumption
<1>7. AdUnmadeIsNone /\ \A m \in Task : AdFinds(m)
  BY <1>2 DEF AdUnmadeIsNone, AdFinds
<1>8. AdAloneAtLimit
  <2>1. Limit * 0 = 0
    BY DEF A!AdAssumption
  <2> QED
    BY <1>1, <1>2, <2>1 DEF AdAloneAtLimit, A!At, A!AdAssumption
<1> QED
  BY <1>4, <1>6, <1>7, <1>8 DEF AdInv

LEMMA AdStays == ASSUME A!AdAssumption, AdInv, UNCHANGED A!vars PROVE AdInv'
<1>1. a_faults' \in 0 .. MaxFaults /\ a_request' \in [AdRequest -> AdDoc]
  BY DEF AdInv, AdTypes, A!vars
<1> QED
  BY <1>1, AdRestKept, AdRequestMoves DEF A!vars

LEMMA AdNext == ASSUME A!AdAssumption, AdInv, [A!Next]_(A!vars) PROVE AdInv'
BY AdAskFine, AdDeliverFine, AdCancelFine, AdDecideFine, AdElapseFine, AdDetectFine, AdFindFine, AdClaimFine,
    AdSearchFailsFine, AdRestFine,
   AdBumpFine, AdResetFine, AdBreakFine, AdStays, AdCancelActiveFine DEF A!Next

LEMMA AdAccounts == ASSUME AdInv PROVE A!AdsAccounted
BY DEF AdInv, AdFinds, AdAloneAtLimit, A!AdsAccounted

(* An approval lets one message through, the one it was for, and the       *)
(* strikes are those counted (handleMessage).                              *)
THEOREM AdInvariant == ASSUME A!AdAssumption PROVE A!Spec => []AdInv
<1>1. A!Init => AdInv
  BY AdInit
<1>2. AdInv /\ [A!Next]_(A!vars) => AdInv'
  BY AdNext
<1> QED
  BY <1>1, <1>2, PTL DEF A!Spec

-----------------------------------------------------------------------------
(* Protected resources.  Where the record and the server differ, an event, *)
(* a handler, a command or a change by hand that the guard was told of     *)
(* accounts for it.                                                        *)
ProtectedPlaces == {"idle", "read", "gate", "find", "approve", "adopt", "restore",
                    "rebind", "mark", "publish", "alarm", "insert", "prevent", "undo"}
(* A record as a handler read it.                                          *)
ProtectedRecs == {set \in SUBSET P!Record : \A a, b \in set : a = b}
ProtectedCall ==
    [pc : ProtectedPlaces, job : P!Kind \cup {"command"}, id : P!Id, rec : ProtectedRecs,
     actor : SUBSET P!Actor, cap : P!Value]
(* A command is at none of the steps of an event. *)
ProtectedFits(q) == q.job = "command" => q.pc \in {"insert", "prevent", "undo"}
ProtectedTypes ==
    /\ p_server \in [id : P!Id, there : BOOLEAN, value : P!Value]
    /\ p_record \in [P!Id -> SUBSET P!Record] /\ \A i \in P!Id : \A a, b \in p_record[i] : a = b
    /\ p_audit \subseteq P!Kind \X P!Actor
    /\ p_approved \in BOOLEAN /\ p_heard \in BOOLEAN /\ p_raced \in BOOLEAN /\ p_lost \in BOOLEAN
    /\ p_echo \in 0 .. P!Handlers /\ p_changes \in 0 .. MaxChanges /\ p_faults \in 0 .. MaxFaults
    /\ p_handler \in [Task -> ProtectedCall] /\ \A h \in Task : ProtectedFits(p_handler[h])

(* A handler that will see to it that the resource is what its record says,*)
(* or that the administrators hear of it.                                  *)
ProtectedOurs(h) ==
    p_handler[h].id = p_server.id /\ p_handler[h].job = (IF p_server.there THEN "update" ELSE "delete")
(* What the handler would restore is not there.                            *)
ProtectedStill(h) == \A q \in p_handler[h].rec : q.snap # p_server.value
ProtectedSees(h, snap) ==
    \/ p_handler[h].pc = "read" /\ ProtectedOurs(h)
    \/ p_handler[h].pc \in {"find", "approve"} /\ ProtectedOurs(h) /\ (p_server.there => ProtectedStill(h))
    \/ /\ p_handler[h].pc = "gate" /\ ProtectedOurs(h)
       /\ p_server.there => \E q \in p_handler[h].rec : q.snap = snap
    \/ /\ p_handler[h].pc = "adopt" /\ p_handler[h].id = p_server.id
       /\ p_handler[h].job = "delete" \/ (p_server.there /\ p_handler[h].cap = p_server.value)
    \/ p_handler[h].pc = "restore" /\ (p_handler[h].job = "update" /\ P!Here(h) => ProtectedStill(h))
    \/ p_handler[h].pc = "mark" /\ p_handler[h].id = p_server.id /\ ~p_server.there
    \/ p_handler[h].pc = "alarm"
ProtectedExcused == p_heard \/ p_raced \/ p_lost
ProtectedFine(r) ==
    \/ p_server.there /\ (p_server.value = r.snap \/ p_echo > 0)
    \/ ~p_server.there /\ r.deleted
ProtectedKeptInv ==
    \A r \in p_record[p_server.id] : ProtectedExcused \/ ProtectedFine(r) \/ \E h \in Task : ProtectedSees(h, r.snap)
ProtectedInv == ProtectedTypes /\ ProtectedKeptInv

(* No record is ahead of the resource, and no handler: what is recreated   *)
(* has no record until the one of its former id is moved.                  *)
ProtectedAhead ==
    /\ \A j \in P!Id : j > p_server.id => p_record[j] = {}
    /\ \A h \in Task : p_handler[h].id <= p_server.id /\ (p_handler[h].pc = "rebind" => p_handler[h].id < p_server.id)

(* The library's facts, of the operators as the instance sees them.        *)
LEMMA ProtectedFinite == ASSUME NEW X PROVE P!Cardinality(X) = Cardinality(X) /\ P!IsFiniteSet(X) = IsFiniteSet(X)
BY DEF P!Cardinality, Cardinality, P!IsFiniteSet, IsFiniteSet

LEMMA ProtectedCardinalityType == ASSUME NEW X, P!IsFiniteSet(X) PROVE P!Cardinality(X) \in Nat
BY FS_CardinalityType, ProtectedFinite

LEMMA ProtectedEmptySet ==
    P!IsFiniteSet({}) /\ P!Cardinality({}) = 0 /\ \A X : P!IsFiniteSet(X) => (P!Cardinality(X) = 0 <=> X = {})
BY FS_EmptySet, ProtectedFinite

LEMMA ProtectedSingleton == ASSUME NEW x PROVE P!IsFiniteSet({x}) /\ P!Cardinality({x}) = 1
BY FS_Singleton, ProtectedFinite

-----------------------------------------------------------------------------
(* Types of what the steps write.                                          *)
LEMMA ProtectedBoundTypes ==
  ASSUME P!ProtectedAssumption
  PROVE  P!Handlers \in Nat /\ MaxChanges \in Nat /\ MaxSnapshots \in Nat /\ MaxFaults \in Nat
BY ProtectedCardinalityType DEF P!ProtectedAssumption, P!Handlers

LEMMA ProtectedFaultTypes == ASSUME P!ProtectedAssumption, ProtectedTypes, P!Fault PROVE p_faults' \in 0 .. MaxFaults
BY ProtectedBoundTypes DEF ProtectedTypes, P!Fault

LEMMA ProtectedIdleTypes ==
  ASSUME P!ProtectedAssumption
  PROVE  P!Idle \in ProtectedCall /\ P!Idle.pc = "idle" /\ ProtectedFits(P!Idle)
<1>1. P!Nothing \in P!Value /\ 0 \in P!Id
  BY ProtectedBoundTypes DEF P!Nothing, P!Value, P!Id
<1>2. {} \in ProtectedRecs
  BY DEF ProtectedRecs
<1> QED
  BY <1>1, <1>2 DEF P!Idle, ProtectedCall, ProtectedPlaces, P!Kind, ProtectedFits

LEMMA ProtectedPutTypes ==
    ASSUME ProtectedTypes, NEW h \in Task, NEW q \in ProtectedCall, P!Put(h, q)
    PROVE  /\ p_handler' \in [Task -> ProtectedCall] /\ p_handler'[h] = q
           /\ \A g \in Task : g # h => p_handler'[g] = p_handler[g]
BY DEF ProtectedTypes, P!Put

LEMMA ProtectedMoveTypes ==
    ASSUME ProtectedTypes, NEW h \in Task
    PROVE  /\ p_handler[h] \in ProtectedCall
           /\ \A pc \in ProtectedPlaces :
                         /\ [p_handler[h] EXCEPT !.pc = pc] \in ProtectedCall
                         /\ [p_handler[h] EXCEPT !.pc = pc].pc = pc
                         /\ [p_handler[h] EXCEPT !.pc = pc].id = p_handler[h].id
                         /\ [p_handler[h] EXCEPT !.pc = pc].job = p_handler[h].job
                         /\ [p_handler[h] EXCEPT !.pc = pc].rec = p_handler[h].rec
                         /\ [p_handler[h] EXCEPT !.pc = pc].cap = p_handler[h].cap
<1>1. p_handler[h] \in ProtectedCall
  BY DEF ProtectedTypes
<1> QED
  BY <1>1 DEF ProtectedCall

(* The other handlers see to what they did before, while the resource      *)
(* stays as it is.                                                         *)
LEMMA ProtectedOthersSee ==
    ASSUME ProtectedTypes, NEW h \in Task, NEW q \in ProtectedCall, P!Put(h, q), UNCHANGED p_server,
           NEW g \in Task, g # h, NEW snap, ProtectedSees(g, snap)
    PROVE  ProtectedSees(g, snap)'
<1>1. p_handler'[g] = p_handler[g]
  BY ProtectedPutTypes
<1> QED
  BY <1>1 DEF ProtectedSees, ProtectedOurs, ProtectedStill, P!Here

(* One handler moves, and the resource and its record stay.                *)
LEMMA ProtectedHandlerMoves ==
    ASSUME ProtectedInv, NEW h \in Task, NEW q \in ProtectedCall, P!Put(h, q), UNCHANGED p_server,
           p_record'[p_server.id] \subseteq p_record[p_server.id], p_echo' = p_echo,
           ProtectedExcused => ProtectedExcused',
           \A r \in p_record[p_server.id] : ProtectedSees(h, r.snap) =>
               ProtectedExcused' \/ ProtectedFine(r) \/ ProtectedSees(h, r.snap)'
    PROVE  ProtectedKeptInv'
<1> SUFFICES ASSUME NEW r \in p_record'[p_server.id]
             PROVE  ProtectedExcused' \/ ProtectedFine(r)' \/ \E g \in Task : ProtectedSees(g, r.snap)'
  BY DEF ProtectedKeptInv
<1>0. r \in p_record[p_server.id]
  OBVIOUS
<1>1. ProtectedFine(r) => ProtectedFine(r)'
  BY DEF ProtectedFine
<1>2. CASE ProtectedExcused \/ ProtectedFine(r)
  BY <1>1, <1>2
<1>3. CASE \E g \in Task : ProtectedSees(g, r.snap)
  <2>1. PICK g \in Task : ProtectedSees(g, r.snap)
    BY <1>3
  <2>2. CASE g = h
    BY <1>0, <1>1, <2>1, <2>2
  <2>3. CASE g # h
    BY <2>1, <2>3, ProtectedOthersSee DEF ProtectedInv
  <2> QED
    BY <2>2, <2>3
<1> QED
  BY <1>0, <1>2, <1>3 DEF ProtectedInv, ProtectedKeptInv

(* An edit of the bot. *)
LEMMA ProtectedEditTypes ==
    ASSUME P!ProtectedAssumption, ProtectedTypes, NEW value \in P!Value, P!Edit(value)
    PROVE  /\ p_server' \in [id : P!Id, there : BOOLEAN, value : P!Value] /\ p_echo' \in 0 .. P!Handlers
           /\ p_audit' \subseteq P!Kind \X P!Actor
           /\ p_server'.id = p_server.id /\ p_server'.there = p_server.there
           /\ (p_server' = p_server /\ p_echo' = p_echo) \/ p_echo' > 0
<1>1. p_server' = [p_server EXCEPT !.value = value]
  BY DEF P!Edit
<1>2. /\ p_server' \in [id : P!Id, there : BOOLEAN, value : P!Value] /\ p_server'.id = p_server.id
      /\ p_server'.there = p_server.there
  BY <1>1 DEF ProtectedTypes
<1>3. CASE value = p_server.value
  <2>1. p_server' = p_server
    BY <1>1, <1>3 DEF ProtectedTypes
  <2> QED
    BY <1>2, <1>3, <2>1 DEF P!Edit, ProtectedTypes
<1>4. CASE value # p_server.value
  <2>1. /\ p_echo' = p_echo + 1 /\ p_echo < P!Handlers /\ p_audit' = p_audit \cup {<<"update", "bot">>}
        /\ P!Handlers \in Nat
    BY <1>4, ProtectedBoundTypes DEF P!Edit
  <2>2. <<"update", "bot">> \in P!Kind \X P!Actor
    BY DEF P!Kind, P!Actor
  <2> QED
    BY <1>2, <2>1, <2>2 DEF ProtectedTypes
<1> QED
  BY <1>3, <1>4

(* One handler moves, the bot may edit the resource, and its record keeps  *)
(* its snapshot.                                                           *)
LEMMA ProtectedEditMoves ==
    ASSUME ProtectedInv, NEW h \in Task, NEW q \in ProtectedCall, P!Put(h, q), p_server.there,
           p_server'.id = p_server.id, p_server'.there = p_server.there,
           (p_server' = p_server /\ p_echo' = p_echo) \/ p_echo' > 0,
           \A r \in p_record'[p_server.id] : \E s \in p_record[p_server.id] : s.snap = r.snap,
           p_handler[h].pc \in {"idle", "prevent"}, ProtectedExcused => ProtectedExcused'
    PROVE  ProtectedKeptInv'
<1> SUFFICES ASSUME NEW r \in p_record'[p_server.id]
             PROVE  ProtectedExcused' \/ ProtectedFine(r)' \/ \E g \in Task : ProtectedSees(g, r.snap)'
  BY DEF ProtectedKeptInv
<1>1. CASE p_echo' > 0
  BY <1>1 DEF ProtectedFine
<1>2. CASE p_server' = p_server /\ p_echo' = p_echo
  <2>1. PICK s \in p_record[p_server.id] : s.snap = r.snap
    OBVIOUS
  <2>2. ProtectedExcused \/ ProtectedFine(s) \/ \E g \in Task : ProtectedSees(g, s.snap)
    BY DEF ProtectedInv, ProtectedKeptInv
  <2>3. CASE ProtectedExcused
    BY <2>3
  <2>4. CASE ProtectedFine(s)
    BY <1>2, <2>1, <2>4 DEF ProtectedFine
  <2>5. CASE \E g \in Task : ProtectedSees(g, s.snap)
    <3>1. PICK g \in Task : ProtectedSees(g, s.snap)
      BY <2>5
    <3>2. g # h
      BY <3>1 DEF ProtectedSees
    <3> QED
      BY <1>2, <2>1, <3>1, <3>2, ProtectedOthersSee DEF ProtectedInv
  <2> QED
    BY <2>2, <2>3, <2>4, <2>5
<1> QED
  BY <1>1, <1>2

-----------------------------------------------------------------------------
(* What a handler becomes, and what it writes, has its type.               *)
ProtectedOneEach(rec) == rec \in [P!Id -> SUBSET P!Record] /\ \A i \in P!Id : \A a, b \in rec[i] : a = b

LEMMA ProtectedTypesMove ==
    ASSUME ProtectedTypes, NEW h \in Task, NEW q \in ProtectedCall, P!Put(h, q), ProtectedFits(q),
           p_server' = p_server \/ p_server' \in [id : P!Id, there : BOOLEAN, value : P!Value],
           p_record' = p_record \/ ProtectedOneEach(p_record'),
           p_audit' = p_audit \/ p_audit' \subseteq P!Kind \X P!Actor,
           p_approved' = p_approved \/ p_approved' \in BOOLEAN,
           p_heard' = p_heard \/ p_heard' \in BOOLEAN, p_raced' = p_raced \/ p_raced' \in BOOLEAN,
           p_lost' = p_lost \/ p_lost' \in BOOLEAN, p_echo' = p_echo \/ p_echo' \in 0 .. P!Handlers,
           p_changes' = p_changes \/ p_changes' \in 0 .. MaxChanges,
           p_faults' = p_faults \/ p_faults' \in 0 .. MaxFaults
    PROVE  ProtectedTypes'
<1>1. p_handler' \in [Task -> ProtectedCall] /\ \A g \in Task : ProtectedFits(p_handler'[g])
  BY ProtectedPutTypes DEF ProtectedTypes
<1>2. p_server' \in [id : P!Id, there : BOOLEAN, value : P!Value] /\ ProtectedOneEach(p_record')
  BY DEF ProtectedTypes, ProtectedOneEach
<1>3. /\ p_audit' \subseteq P!Kind \X P!Actor /\ p_approved' \in BOOLEAN /\ p_heard' \in BOOLEAN
      /\ p_raced' \in BOOLEAN
      /\ p_lost' \in BOOLEAN /\ p_echo' \in 0 .. P!Handlers /\ p_changes' \in 0 .. MaxChanges
      /\ p_faults' \in 0 .. MaxFaults
  BY DEF ProtectedTypes
<1> QED
  BY <1>1, <1>2, <1>3 DEF ProtectedTypes, ProtectedOneEach, P!Handlers, ProtectedFits

(* A record that is rewritten in place. *)
LEMMA ProtectedRecordTypes ==
    ASSUME ProtectedTypes, NEW i \in P!Id, NEW set \in SUBSET P!Record, \A a, b \in set : a = b
    PROVE  ProtectedOneEach([p_record EXCEPT ![i] = set])
BY DEF ProtectedTypes, ProtectedOneEach

LEMMA ProtectedStartTypes ==
    ASSUME P!ProtectedAssumption, ProtectedTypes, NEW kind \in P!Kind
    PROVE  LET q == [P!Idle EXCEPT !.pc = "read", !.job = kind, !.id = p_server.id]
           IN  q \in ProtectedCall /\ q.pc = "read" /\ q.job = kind /\ q.id = p_server.id
<1>1. P!Idle \in ProtectedCall
  BY ProtectedIdleTypes
<1>2. "read" \in ProtectedPlaces /\ kind \in P!Kind \cup {"command"} /\ p_server.id \in P!Id
  BY DEF ProtectedPlaces, ProtectedTypes
<1> QED
  BY <1>1, <1>2 DEF ProtectedCall

LEMMA ProtectedChangeFine ==
    ASSUME P!ProtectedAssumption, ProtectedInv, NEW h \in Task, NEW who \in {"owner", "member"}, P!Change(h, who)
    PROVE  ProtectedInv'
<1>0. ProtectedTypes /\ p_server \in [id : P!Id, there : BOOLEAN, value : P!Value]
  BY DEF ProtectedInv, ProtectedTypes
<1>1. PICK kind \in P!Kind :
         /\ p_server' = IF kind = "delete" THEN [p_server EXCEPT !.there = FALSE]
                        ELSE [p_server EXCEPT !.value.v = p_changes']
         /\ p_audit' = p_audit \cup {<<kind, who>>} /\ P!Starts(h, kind)
  BY DEF P!Change
<1> DEFINE q == [P!Idle EXCEPT !.pc = "read", !.job = kind, !.id = p_server.id]
<1>2. q \in ProtectedCall /\ q.pc = "read" /\ q.job = kind /\ q.id = p_server.id /\ P!Put(h, q)
  BY <1>0, <1>1, ProtectedStartTypes DEF P!Starts
<1> HIDE DEF q
<1>3. p_changes' \in 0 .. MaxChanges /\ p_heard' = FALSE /\ p_server.there /\ p_changes' \in Nat
      /\ UNCHANGED <<p_record, p_approved, p_echo, p_raced, p_lost, p_faults>>
  BY <1>0, ProtectedBoundTypes DEF P!Change, ProtectedTypes
<1>4. /\ p_server' \in [id : P!Id, there : BOOLEAN, value : P!Value] /\ p_server'.id = p_server.id
      /\ p_server'.there = (kind = "update")
  <2>1. CASE kind = "delete"
    BY <1>0, <1>1, <2>1
  <2>2. CASE kind = "update"
    <3> DEFINE value == [p_server.value EXCEPT !.v = p_changes']
    <3>1. value \in P!Value
      BY <1>0, <1>3 DEF P!Value
    <3>2. p_server' = [p_server EXCEPT !.value = value]
      BY <1>1, <2>2
    <3> HIDE DEF value
    <3> QED
      BY <1>0, <1>3, <2>2, <3>1, <3>2
  <2> QED
    BY <2>1, <2>2 DEF P!Kind
<1>5. p_audit' \subseteq P!Kind \X P!Actor
  BY <1>0, <1>1 DEF ProtectedTypes, P!Actor
<1>6. ProtectedTypes'
  <2>1. ProtectedFits(q)
    BY <1>2 DEF ProtectedFits, P!Kind
  <2> QED
    BY <1>0, <1>2, <1>3, <1>4, <1>5, <2>1, ProtectedTypesMove
<1>7. p_handler'[h] = q
  BY <1>0, <1>2, ProtectedPutTypes
<1>8. ProtectedOurs(h)'
  BY <1>2, <1>4, <1>7 DEF ProtectedOurs, P!Kind
<1>9. ProtectedKeptInv'
  BY <1>2, <1>7, <1>8 DEF ProtectedKeptInv, ProtectedSees
<1> QED
  BY <1>6, <1>9 DEF ProtectedInv

LEMMA ProtectedEchoFine ==
    ASSUME P!ProtectedAssumption, ProtectedInv, NEW h \in Task, P!Echo(h) PROVE ProtectedInv'
<1>0. ProtectedTypes
  BY DEF ProtectedInv
<1> DEFINE q == [P!Idle EXCEPT !.pc = "read", !.job = "update", !.id = p_server.id]
<1>1. q \in ProtectedCall /\ q.pc = "read" /\ q.job = "update" /\ q.id = p_server.id /\ P!Put(h, q)
  <2>1. "update" \in P!Kind
    BY DEF P!Kind
  <2> QED
    BY <1>0, <2>1, ProtectedStartTypes DEF P!Echo, P!Starts
<1> HIDE DEF q
<1>2. /\ p_handler[h].pc = "idle" /\ p_echo' \in 0 .. P!Handlers
      /\ UNCHANGED <<p_server, p_record, p_audit, p_approved, p_changes, p_heard, p_raced, p_lost, p_faults>>
  BY <1>0, ProtectedBoundTypes DEF P!Echo, P!At, ProtectedTypes
<1>3. ProtectedTypes'
  <2>1. ProtectedFits(q)
    BY <1>1 DEF ProtectedFits
  <2> QED
    BY <1>0, <1>1, <1>2, <2>1, ProtectedTypesMove
<1>4. p_handler'[h] = q
  BY <1>0, <1>1, ProtectedPutTypes
<1>5. CASE p_server.there
  <2>1. ProtectedOurs(h)'
    BY <1>1, <1>2, <1>4, <1>5 DEF ProtectedOurs
  <2> QED
    BY <1>1, <1>3, <1>4, <2>1 DEF ProtectedInv, ProtectedKeptInv, ProtectedSees
<1>6. CASE ~p_server.there
  <2> SUFFICES ASSUME NEW r \in p_record[p_server.id]
               PROVE  ProtectedExcused' \/ ProtectedFine(r)' \/ \E g \in Task : ProtectedSees(g, r.snap)'
    BY <1>2, <1>3 DEF ProtectedInv, ProtectedKeptInv
  <2>1. ProtectedExcused \/ ProtectedFine(r) \/ \E g \in Task : ProtectedSees(g, r.snap)
    BY DEF ProtectedInv, ProtectedKeptInv
  <2>2. CASE ProtectedExcused \/ ProtectedFine(r)
    BY <1>2, <1>6, <2>2 DEF ProtectedExcused, ProtectedFine
  <2>3. CASE \E g \in Task : ProtectedSees(g, r.snap)
    <3>1. PICK g \in Task : ProtectedSees(g, r.snap)
      BY <2>3
    <3>2. g # h
      BY <1>2, <3>1 DEF ProtectedSees
    <3> QED
      BY <1>0, <1>1, <1>2, <3>1, <3>2, ProtectedOthersSee
  <2> QED
    BY <2>1, <2>2, <2>3
<1> QED
  BY <1>5, <1>6

LEMMA ProtectedReadFine ==
    ASSUME P!ProtectedAssumption, ProtectedInv, NEW h \in Task, P!Read(h) PROVE ProtectedInv'
<1>0. /\ ProtectedTypes /\ p_handler[h] \in ProtectedCall /\ P!Idle \in ProtectedCall /\ ProtectedFits(P!Idle)
      /\ p_handler[h].pc = "read" /\ ProtectedFits(p_handler[h])
  BY ProtectedIdleTypes DEF ProtectedInv, ProtectedTypes, P!Read, P!At
<1>1. UNCHANGED <<p_server, p_record, p_audit, p_approved, p_echo, p_changes, p_heard, p_raced, p_lost, p_faults>>
  BY DEF P!Read
<1>2. CASE p_record[p_handler[h].id] = {}
  <2>1. P!Put(h, P!Idle)
    BY <1>2 DEF P!Read, P!End
  <2>2. ProtectedTypes'
    BY <1>0, <1>1, <2>1, ProtectedTypesMove
  <2>3. \A r \in p_record[p_server.id] : ~ProtectedSees(h, r.snap)
    BY <1>0, <1>2 DEF ProtectedSees, ProtectedOurs
  <2>4. ProtectedKeptInv'
    BY <1>0, <1>1, <2>1, <2>3, ProtectedHandlerMoves DEF ProtectedExcused
  <2> QED
    BY <2>2, <2>4 DEF ProtectedInv
<1>3. CASE p_record[p_handler[h].id] # {}
  <2> DEFINE set == p_record[p_handler[h].id]
  <2> DEFINE q == [p_handler[h] EXCEPT !.pc = "gate", !.rec = set]
  <2>1. P!Put(h, q)
    BY <1>3 DEF P!Read
  <2>2. set \in ProtectedRecs /\ "gate" \in ProtectedPlaces
    BY <1>0 DEF ProtectedTypes, ProtectedCall, ProtectedPlaces, ProtectedRecs
  <2>3. q \in ProtectedCall /\ q.pc = "gate" /\ q.rec = set /\ q.id = p_handler[h].id /\ q.job = p_handler[h].job
    <3> HIDE DEF set
    <3> QED
      BY <1>0, <2>2 DEF ProtectedCall
  <2> HIDE DEF q
  <2>4. ProtectedTypes'
    <3>1. ProtectedFits(q)
      BY <1>0, <2>3 DEF ProtectedFits
    <3> QED
      BY <1>0, <1>1, <2>1, <2>3, <3>1, ProtectedTypesMove
  <2>5. p_handler'[h] = q
    BY <1>0, <2>1, <2>3, ProtectedPutTypes
  <2>6. ASSUME NEW r \in p_record[p_server.id], ProtectedSees(h, r.snap) PROVE ProtectedSees(h, r.snap)'
    BY <1>0, <1>1, <2>3, <2>5, <2>6 DEF ProtectedSees, ProtectedOurs
  <2>7. ProtectedKeptInv'
    BY <1>0, <1>1, <2>1, <2>3, <2>6, ProtectedHandlerMoves DEF ProtectedExcused
  <2> QED
    BY <2>4, <2>7 DEF ProtectedInv
<1> QED
  BY <1>2, <1>3

(* A handler goes to another place with what it has, and the rest stays.   *)
LEMMA ProtectedPlaceFine ==
    ASSUME P!ProtectedAssumption, ProtectedInv, NEW h \in Task, NEW pc \in ProtectedPlaces, P!Move(h, pc),
           p_handler[h].pc \notin {"insert", "prevent", "undo"},
           UNCHANGED <<p_server, p_record, p_echo, p_changes, p_heard, p_raced>>,
           p_audit' = p_audit \/ p_audit' \subseteq P!Kind \X P!Actor,
           p_approved' = p_approved \/ p_approved' \in BOOLEAN,
           p_faults' = p_faults \/ p_faults' \in 0 .. MaxFaults, p_lost' = p_lost \/ p_lost' = TRUE,
           \A r \in p_record[p_server.id] : ProtectedSees(h, r.snap) =>
               \/ pc = "alarm" \/ (pc = "restore" /\ p_handler[h].job = "delete")
               \/ pc \in {"find", "approve", "restore"} /\ ProtectedOurs(h) /\ (p_server.there => ProtectedStill(h))
               \/ pc = "mark" /\ ProtectedOurs(h) /\ p_handler[h].job = "delete"
    PROVE  ProtectedInv'
<1> DEFINE q == [p_handler[h] EXCEPT !.pc = pc]
<1>0. ProtectedTypes
  BY DEF ProtectedInv
<1>1. q \in ProtectedCall /\ q.pc = pc /\ q.id = p_handler[h].id /\ q.job = p_handler[h].job /\ P!Put(h, q)
  BY <1>0, ProtectedMoveTypes DEF P!Move
<1> HIDE DEF q
<1>2. ProtectedTypes'
  <2>1. ProtectedFits(q)
    BY <1>0, <1>1 DEF ProtectedFits, ProtectedTypes
  <2> QED
    BY <1>0, <1>1, <2>1, ProtectedTypesMove
<1>3. p_handler'[h] = q
  BY <1>0, <1>1, ProtectedPutTypes
<1>4. q.rec = p_handler[h].rec
  BY <1>0, ProtectedMoveTypes DEF q
<1>5. ASSUME NEW r \in p_record[p_server.id], ProtectedSees(h, r.snap) PROVE ProtectedSees(h, r.snap)'
  BY <1>1, <1>3, <1>4, <1>5 DEF ProtectedSees, ProtectedOurs, ProtectedStill, P!Here
<1>6. ProtectedKeptInv'
  BY <1>1, <1>5, ProtectedHandlerMoves DEF ProtectedExcused
<1> QED
  BY <1>2, <1>6 DEF ProtectedInv

(* A handler comes to adopt the resource as it is.                         *)
LEMMA ProtectedAdoptingFine ==
    ASSUME P!ProtectedAssumption, ProtectedInv, NEW h \in Task, P!Put(h, P!Adopting(h)),
           p_handler[h].pc \in {"gate", "find", "approve"},
           UNCHANGED <<p_server, p_record, p_echo, p_changes, p_heard, p_raced, p_lost, p_faults>>,
           p_audit' = p_audit \/ p_audit' \subseteq P!Kind \X P!Actor,
           p_approved' = p_approved \/ p_approved' \in BOOLEAN
    PROVE  ProtectedInv'
<1> DEFINE q == [p_handler[h] EXCEPT !.pc = "adopt", !.cap = p_server.value]
<1>0. ProtectedTypes /\ p_handler[h] \in ProtectedCall /\ p_server.value \in P!Value /\ "adopt" \in ProtectedPlaces
  BY DEF ProtectedInv, ProtectedTypes, ProtectedPlaces
<1>1. /\ q \in ProtectedCall /\ q.pc = "adopt" /\ q.id = p_handler[h].id /\ q.job = p_handler[h].job
      /\ q.cap = p_server.value
      /\ P!Put(h, q)
  BY <1>0 DEF ProtectedCall, P!Adopting
<1> HIDE DEF q
<1>2. ProtectedTypes'
  <2>1. ProtectedFits(q)
    BY <1>0, <1>1 DEF ProtectedFits, ProtectedTypes
  <2> QED
    BY <1>0, <1>1, <2>1, ProtectedTypesMove
<1>3. p_handler'[h] = q
  BY <1>0, <1>1, ProtectedPutTypes
<1>4. \A snap : ProtectedSees(h, snap) => ProtectedSees(h, snap)'
  BY <1>1, <1>3 DEF ProtectedSees, ProtectedOurs
<1>5. ProtectedKeptInv'
  BY <1>1, <1>4, ProtectedHandlerMoves DEF ProtectedExcused
<1> QED
  BY <1>2, <1>5 DEF ProtectedInv

(* A handler ends, and what it saw to is done.                             *)
LEMMA ProtectedEndFine ==
    ASSUME P!ProtectedAssumption, ProtectedInv, NEW h \in Task, P!End(h),
           UNCHANGED <<p_server, p_audit, p_approved, p_echo, p_changes>>,
           p_record' = p_record \/ (ProtectedOneEach(p_record')
               /\ p_record'[p_server.id] \subseteq p_record[p_server.id]),
           p_faults' = p_faults \/ p_faults' \in 0 .. MaxFaults, p_lost' = p_lost \/ p_lost' = TRUE,
           p_raced' = p_raced \/ p_raced' = TRUE, p_heard' = p_heard \/ p_heard' = TRUE,
           \A r \in p_record[p_server.id] : ProtectedSees(h, r.snap) => ProtectedExcused' \/ ProtectedFine(r)
    PROVE  ProtectedInv'
<1>0. ProtectedTypes /\ P!Idle \in ProtectedCall /\ ProtectedFits(P!Idle) /\ P!Put(h, P!Idle)
  BY ProtectedIdleTypes DEF ProtectedInv, P!End
<1>1. ProtectedTypes'
  BY <1>0, ProtectedTypesMove
<1>2. ProtectedExcused => ProtectedExcused'
  BY DEF ProtectedExcused
<1>3. p_record'[p_server.id] \subseteq p_record[p_server.id]
  OBVIOUS
<1>4. ProtectedKeptInv'
  BY <1>0, <1>2, <1>3, ProtectedHandlerMoves
<1> QED
  BY <1>1, <1>4 DEF ProtectedInv

LEMMA ProtectedGateFine ==
    ASSUME P!ProtectedAssumption, ProtectedInv, NEW h \in Task, P!Gate(h) PROVE ProtectedInv'
<1>0. ProtectedTypes /\ p_handler[h] \in ProtectedCall /\ p_handler[h].pc = "gate"
      /\ UNCHANGED <<p_server, p_record, p_audit, p_approved, p_echo, p_changes, p_heard, p_raced, p_lost, p_faults>>
  BY DEF ProtectedInv, ProtectedTypes, P!Gate, P!At
<1>1. "restore" \in ProtectedPlaces /\ "find" \in ProtectedPlaces /\ "mark" \in ProtectedPlaces
  BY DEF ProtectedPlaces
<1>2. \/ P!Put(h, P!Adopting(h))
      \/ p_handler[h].job = "update" /\ ~P!Differs(h) /\ P!End(h)
      \/ p_handler[h].job = "update" /\ P!Differs(h) /\ (P!Move(h, "restore") \/ P!Move(h, "find"))
      \/ p_handler[h].job = "delete" /\ (P!Move(h, "mark") \/ P!Move(h, "find"))
  <2>1. p_handler[h].job \in {"update", "delete"}
    BY <1>0 DEF ProtectedTypes, ProtectedFits, ProtectedCall, P!Kind
  <2> QED
    BY <2>1 DEF P!Gate
<1>3. CASE P!Put(h, P!Adopting(h))
  BY <1>0, <1>3, ProtectedAdoptingFine
<1>4. CASE p_handler[h].job = "update" /\ ~P!Differs(h) /\ P!End(h)
  <2>1. ASSUME NEW r \in p_record[p_server.id], ProtectedSees(h, r.snap) PROVE ProtectedFine(r)
    <3>1. p_server.there /\ \E q \in p_handler[h].rec : q.snap = r.snap
      BY <1>0, <1>4, <2>1 DEF ProtectedSees, ProtectedOurs
    <3> QED
      BY <1>4, <3>1 DEF P!Differs, ProtectedFine
  <2> QED
    BY <1>0, <1>4, <2>1, ProtectedEndFine
<1>5. ASSUME NEW snap, ProtectedSees(h, snap) PROVE ProtectedOurs(h)
  BY <1>0, <1>5 DEF ProtectedSees
<1>6. CASE p_handler[h].job = "update" /\ P!Differs(h) /\ (P!Move(h, "restore") \/ P!Move(h, "find"))
  <2>1. ProtectedStill(h)
    BY <1>0, <1>6 DEF P!Differs, ProtectedStill, ProtectedCall, ProtectedRecs
  <2> QED
    BY <1>0, <1>1, <1>5, <1>6, <2>1, ProtectedPlaceFine
<1>7. CASE p_handler[h].job = "delete" /\ (P!Move(h, "mark") \/ P!Move(h, "find"))
  <2>1. ProtectedOurs(h) => ~p_server.there
    BY <1>7 DEF ProtectedOurs
  <2> QED
    BY <1>0, <1>1, <1>5, <1>7, <2>1, ProtectedPlaceFine
<1> QED
  BY <1>2, <1>3, <1>4, <1>6, <1>7

LEMMA ProtectedFindActorFine ==
    ASSUME P!ProtectedAssumption, ProtectedInv, NEW h \in Task, P!FindActor(h) PROVE ProtectedInv'
<1>0. ProtectedTypes /\ p_handler[h] \in ProtectedCall /\ p_handler[h].pc = "find"
      /\ UNCHANGED <<p_server, p_record, p_approved, p_echo, p_changes, p_heard, p_raced, p_lost, p_faults>>
  BY DEF ProtectedInv, ProtectedTypes, P!FindActor, P!At
<1>1. CASE P!Move(h, "alarm") /\ UNCHANGED p_audit
  <2>1. "alarm" \in ProtectedPlaces
    BY DEF ProtectedPlaces
  <2> QED
    BY <1>0, <1>1, <2>1, ProtectedPlaceFine
<1>2. ASSUME NEW who \in P!Actor, p_audit' \in {p_audit, p_audit \ {<<p_handler[h].job, who>>}},
             P!Put(h, IF who = "owner" THEN P!Adopting(h)
                      ELSE [p_handler[h] EXCEPT !.pc = "approve", !.actor = {who}])
      PROVE  ProtectedInv'
  <2>0. p_audit' \subseteq P!Kind \X P!Actor
    BY <1>0, <1>2 DEF ProtectedTypes
  <2>1. CASE who = "owner"
    BY <1>0, <1>2, <2>0, <2>1, ProtectedAdoptingFine
  <2>2. CASE who # "owner"
    <3> DEFINE q == [p_handler[h] EXCEPT !.pc = "approve", !.actor = {who}]
    <3>1. "approve" \in ProtectedPlaces /\ {who} \in SUBSET P!Actor
      BY DEF ProtectedPlaces
    <3>2. q \in ProtectedCall /\ q.pc = "approve" /\ q.id = p_handler[h].id /\ q.job = p_handler[h].job
          /\ q.rec = p_handler[h].rec /\ P!Put(h, q)
      BY <1>0, <1>2, <2>2, <3>1 DEF ProtectedCall
    <3> HIDE DEF q
    <3>3. ProtectedFits(q)
      BY <1>0, <3>2 DEF ProtectedTypes, ProtectedFits
    <3>4. ProtectedTypes'
      BY <1>0, <2>0, <3>2, <3>3, ProtectedTypesMove
    <3>5. p_handler'[h] = q
      BY <1>0, <3>2, ProtectedPutTypes
    <3>6. \A snap : ProtectedSees(h, snap) => ProtectedSees(h, snap)'
      BY <1>0, <3>2, <3>5 DEF ProtectedSees, ProtectedOurs, ProtectedStill
    <3>7. ProtectedKeptInv'
      BY <1>0, <3>2, <3>6, ProtectedHandlerMoves DEF ProtectedExcused
    <3> QED
      BY <3>4, <3>7 DEF ProtectedInv
  <2> QED
    BY <2>1, <2>2
<1> QED
  BY <1>1, <1>2 DEF P!FindActor

LEMMA ProtectedApproveFine ==
    ASSUME P!ProtectedAssumption, ProtectedInv, NEW h \in Task, P!Approve(h) PROVE ProtectedInv'
<1>0. p_handler[h].pc = "approve" /\ "restore" \in ProtectedPlaces
      /\ UNCHANGED <<p_server, p_record, p_audit, p_echo, p_changes, p_heard, p_raced, p_lost, p_faults>>
  BY DEF P!Approve, P!At, ProtectedPlaces
<1>1. CASE p_approved' = FALSE /\ P!Put(h, P!Adopting(h))
  BY <1>0, <1>1, ProtectedAdoptingFine
<1>2. CASE P!Move(h, "restore") /\ UNCHANGED p_approved
  <2>1. \A snap : ProtectedSees(h, snap) => ProtectedOurs(h) /\ (p_server.there => ProtectedStill(h))
    BY <1>0 DEF ProtectedSees
  <2> QED
    BY <1>0, <1>2, <2>1, ProtectedPlaceFine
<1> QED
  BY <1>1, <1>2 DEF P!Approve

LEMMA ProtectedAdoptFine ==
    ASSUME P!ProtectedAssumption, ProtectedInv, NEW h \in Task, P!Adopt(h) PROVE ProtectedInv'
<1>0. ProtectedTypes /\ p_handler[h] \in ProtectedCall /\ p_handler[h].pc = "adopt" /\ P!End(h)
      /\ UNCHANGED <<p_server, p_audit, p_approved, p_echo, p_changes, p_heard>>
  BY DEF ProtectedInv, ProtectedTypes, P!Adopt, P!At
<1>1. CASE P!Fault /\ p_lost' = TRUE /\ UNCHANGED <<p_record, p_raced>>
  BY <1>0, <1>1, ProtectedEndFine, ProtectedFaultTypes DEF ProtectedExcused
<1> DEFINE i == p_handler[h].id
<1> DEFINE set == IF p_handler[h].job = "delete" THEN {}
             ELSE {[r EXCEPT !.snap = p_handler[h].cap] : r \in p_record[i]}
<1>2. CASE /\ p_record' = [p_record EXCEPT ![i] = set]
           /\ p_raced' = \/ p_raced
                         \/ P!NobodyReads /\ p_handler[h].job = "update" /\ p_handler[h].cap # p_server.value
           /\ UNCHANGED <<p_lost, p_faults>>
  <2>1. i \in P!Id /\ p_handler[h].cap \in P!Value /\ p_handler[h].job \in {"update", "delete"}
    BY <1>0 DEF ProtectedTypes, ProtectedCall, ProtectedFits, P!Kind
  <2>2. \A r \in p_record[i] : r \in P!Record /\ [r EXCEPT !.snap = p_handler[h].cap] \in P!Record
    BY <1>0, <2>1 DEF ProtectedTypes, P!Record
  <2>3. set \in SUBSET P!Record /\ \A a, b \in set : a = b
    <3>1. \A a, b \in p_record[i] : a = b
      BY <1>0, <2>1 DEF ProtectedTypes
    <3> QED
      BY <2>2, <3>1
  <2>4. ProtectedOneEach(p_record')
    BY <1>0, <1>2, <2>1, <2>3, ProtectedRecordTypes
  <2>5. p_record'[i] = set /\ \A j \in P!Id : j # i => p_record'[j] = p_record[j]
    BY <1>0, <1>2, <2>1 DEF ProtectedTypes
  <2>6. p_server.id \in P!Id
    BY <1>0 DEF ProtectedTypes
  <2>7. p_raced' = p_raced \/ p_raced' = TRUE
    BY <1>0, <1>2 DEF ProtectedTypes
  <2>8. CASE i # p_server.id \/ p_handler[h].job = "delete"
    <3>1. p_record'[p_server.id] \subseteq p_record[p_server.id]
      BY <2>5, <2>6, <2>8
    <3>2. \A r \in p_record'[p_server.id] : ~ProtectedSees(h, r.snap)
      BY <1>0, <2>5, <2>6, <2>8 DEF ProtectedSees, ProtectedOurs
    <3>3. ProtectedTypes'
      <4>1. P!Idle \in ProtectedCall /\ ProtectedFits(P!Idle) /\ P!Put(h, P!Idle)
        BY <1>0, ProtectedIdleTypes DEF P!End
      <4> QED
        BY <1>0, <1>2, <2>4, <2>7, <4>1, ProtectedTypesMove
    <3>4. ProtectedKeptInv'
      <4> SUFFICES ASSUME NEW r \in p_record'[p_server.id]
                   PROVE  ProtectedExcused' \/ ProtectedFine(r)' \/ \E g \in Task : ProtectedSees(g, r.snap)'
        BY <1>0 DEF ProtectedKeptInv
      <4>1. r \in p_record[p_server.id] /\ ~ProtectedSees(h, r.snap)
        BY <3>1, <3>2
      <4>2. ProtectedExcused \/ ProtectedFine(r) \/ \E g \in Task : ProtectedSees(g, r.snap)
        BY <4>1 DEF ProtectedInv, ProtectedKeptInv
      <4>3. CASE ProtectedExcused \/ ProtectedFine(r)
        BY <1>0, <1>2, <4>3 DEF ProtectedExcused, ProtectedFine
      <4>4. CASE \E g \in Task : ProtectedSees(g, r.snap)
        <5>1. PICK g \in Task : ProtectedSees(g, r.snap) /\ g # h
          BY <4>1, <4>4
        <5>2. P!Idle \in ProtectedCall /\ P!Put(h, P!Idle)
          BY <1>0, ProtectedIdleTypes DEF P!End
        <5> QED
          BY <1>0, <5>1, <5>2, ProtectedOthersSee
      <4> QED
        BY <4>2, <4>3, <4>4
    <3> QED
      BY <3>3, <3>4 DEF ProtectedInv
  <2>9. CASE i = p_server.id /\ p_handler[h].job = "update"
    <3>1. P!Idle \in ProtectedCall /\ ProtectedFits(P!Idle) /\ P!Put(h, P!Idle)
      BY <1>0, ProtectedIdleTypes DEF P!End
    <3>2. ProtectedTypes'
      BY <1>0, <1>2, <2>4, <2>7, <3>1, ProtectedTypesMove
    <3>3. ProtectedKeptInv'
      <4> SUFFICES ASSUME NEW r \in p_record'[p_server.id]
                   PROVE  ProtectedExcused' \/ ProtectedFine(r)' \/ \E g \in Task : ProtectedSees(g, r.snap)'
        BY <1>0 DEF ProtectedKeptInv
      <4>1. PICK s \in p_record[p_server.id] : r = [s EXCEPT !.snap = p_handler[h].cap]
        BY <2>5, <2>9
      <4>2. r.snap = p_handler[h].cap /\ r.deleted = s.deleted
        BY <2>2, <2>9, <4>1 DEF P!Record
      <4>3. ProtectedExcused \/ ProtectedFine(s) \/ \E g \in Task : ProtectedSees(g, s.snap)
        BY DEF ProtectedInv, ProtectedKeptInv
      <4>4. CASE ProtectedExcused
        BY <1>0, <1>2, <4>4 DEF ProtectedExcused
      <4>5. CASE ~p_server.there
        <5>1. CASE ProtectedFine(s)
          BY <1>0, <4>2, <4>5, <5>1 DEF ProtectedFine
        <5>2. CASE \E g \in Task : ProtectedSees(g, s.snap)
          <6>1. PICK g \in Task : ProtectedSees(g, s.snap)
            BY <5>2
          <6>2. g # h
            BY <1>0, <2>9, <4>5, <6>1 DEF ProtectedSees
          <6>3. ProtectedSees(g, r.snap)
            BY <4>5, <6>1 DEF ProtectedSees
          <6> QED
            BY <1>0, <3>1, <6>2, <6>3, ProtectedOthersSee
        <5> QED
          BY <4>3, <4>4, <5>1, <5>2
      <4>6. CASE p_server.there /\ p_handler[h].cap = p_server.value
        BY <1>0, <4>2, <4>6 DEF ProtectedFine
      <4>7. CASE p_server.there /\ p_handler[h].cap # p_server.value /\ P!NobodyReads
        BY <1>2, <2>9, <4>7 DEF ProtectedExcused
      <4>8. CASE p_server.there /\ p_echo # 0
        BY <1>0, <4>8 DEF ProtectedFine, ProtectedTypes
      <4>9. CASE \E g \in Task : p_handler[g].pc = "read" /\ ProtectedOurs(g)
        <5>1. PICK g \in Task : p_handler[g].pc = "read" /\ ProtectedOurs(g)
          BY <4>9
        <5>2. g # h /\ ProtectedSees(g, r.snap)
          BY <1>0, <5>1 DEF ProtectedSees
        <5> QED
          BY <1>0, <3>1, <5>2, ProtectedOthersSee
      <4>10. p_server.there => P!NobodyReads \/ p_echo # 0 \/ \E g \in Task : p_handler[g].pc = "read"
               /\ ProtectedOurs(g)
        BY DEF P!NobodyReads, P!At, ProtectedOurs
      <4> QED
        BY <4>5, <4>6, <4>7, <4>8, <4>9, <4>10
    <3> QED
      BY <3>2, <3>3 DEF ProtectedInv
  <2> QED
    BY <2>1, <2>8, <2>9
<1> QED
  BY <1>1, <1>2 DEF P!Adopt

(* A handler puts back what it read, unless that is there: the event of    *)
(* its edit is to come.                                                    *)
LEMMA ProtectedRestoreFine ==
    ASSUME P!ProtectedAssumption, ProtectedInv, NEW h \in Task, P!Restore(h) PROVE ProtectedInv'
<1>0. ProtectedTypes /\ p_handler[h] \in ProtectedCall /\ p_handler[h].pc = "restore" /\ p_handler[h].job = "update"
      /\ {"publish", "alarm"} \subseteq ProtectedPlaces
      /\ UNCHANGED <<p_record, p_approved, p_changes, p_heard, p_raced, p_lost>>
  BY DEF ProtectedInv, ProtectedTypes, P!Restore, P!At, ProtectedPlaces
<1>1. CASE P!Fault /\ P!Move(h, "alarm") /\ UNCHANGED <<p_server, p_echo, p_audit>>
  BY <1>0, <1>1, ProtectedFaultTypes, ProtectedPlaceFine
<1>2. CASE P!Move(h, "alarm") /\ UNCHANGED <<p_server, p_echo, p_audit, p_faults>>
  BY <1>0, <1>2, ProtectedPlaceFine
<1>3. CASE P!Here(h) /\ (\E r \in p_handler[h].rec : P!Edit(r.snap)) /\ P!Move(h, "publish") /\ UNCHANGED p_faults
  <2>1. PICK s \in p_handler[h].rec : P!Edit(s.snap)
    BY <1>3
  <2>2. s.snap \in P!Value
    BY <1>0, <2>1 DEF ProtectedCall, ProtectedRecs, P!Record
  <2>3. /\ p_server' \in [id : P!Id, there : BOOLEAN, value : P!Value] /\ p_echo' \in 0 .. P!Handlers
        /\ p_audit' \subseteq P!Kind \X P!Actor
        /\ p_server'.id = p_server.id /\ p_server'.there = p_server.there
        /\ (p_server' = p_server /\ p_echo' = p_echo) \/ p_echo' > 0
    BY <1>0, <2>1, <2>2, ProtectedEditTypes
  <2> DEFINE q == [p_handler[h] EXCEPT !.pc = "publish"]
  <2>4. q \in ProtectedCall /\ q.pc = "publish" /\ q.job = p_handler[h].job /\ P!Put(h, q)
    BY <1>0, <1>3, ProtectedMoveTypes DEF P!Move
  <2> HIDE DEF q
  <2>5. ProtectedTypes'
    <3>1. ProtectedFits(q)
      BY <1>0, <2>4 DEF ProtectedFits
    <3> QED
      BY <1>0, <1>3, <2>3, <2>4, <3>1, ProtectedTypesMove
  <2>6. CASE p_echo' > 0
    <3>1. ProtectedKeptInv'
      BY <1>3, <2>3, <2>6 DEF ProtectedKeptInv, ProtectedFine, P!Here
    <3> QED
      BY <2>5, <3>1 DEF ProtectedInv
  <2>7. CASE p_server' = p_server /\ p_echo' = p_echo
    <3>1. CASE s.snap = p_server.value
      <4>1. \A snap : ~ProtectedSees(h, snap)
        BY <1>0, <1>3, <2>1, <3>1 DEF ProtectedSees, ProtectedStill
      <4>2. ProtectedKeptInv'
        BY <1>0, <2>4, <2>7, <4>1, ProtectedHandlerMoves DEF ProtectedExcused
      <4> QED
        BY <2>5, <4>2 DEF ProtectedInv
    <3>2. CASE s.snap # p_server.value
      <4>1. p_echo' = p_echo + 1 /\ p_echo \in Nat
        BY <1>0, <2>1, <3>2, ProtectedBoundTypes DEF P!Edit, ProtectedTypes
      <4> QED
        BY <2>7, <4>1
    <3> QED
      BY <3>1, <3>2
  <2> QED
    BY <2>3, <2>6, <2>7
<1> QED
  BY <1>1, <1>2, <1>3 DEF P!Restore

(* A record with a mark set or taken away. *)
LEMMA ProtectedMarkTypes ==
    ASSUME NEW r \in P!Record, NEW b \in BOOLEAN
    PROVE  /\ [r EXCEPT !.deleted = b] \in P!Record /\ [r EXCEPT !.deleted = b].snap = r.snap
           /\ [r EXCEPT !.deleted = b].deleted = b
           /\ [r EXCEPT !.prevention = b] \in P!Record /\ [r EXCEPT !.prevention = b].snap = r.snap
           /\ [r EXCEPT !.prevention = b].deleted = r.deleted
BY DEF P!Record

(* What is recreated has no record yet.                                    *)
LEMMA ProtectedRecreateFine ==
    ASSUME P!ProtectedAssumption, ProtectedInv, ProtectedAhead, NEW h \in Task, P!Recreate(h) PROVE ProtectedInv'
<1>0. ProtectedTypes /\ p_handler[h] \in ProtectedCall /\ p_handler[h].pc = "restore" /\ p_handler[h].job = "delete"
      /\ {"rebind", "alarm"} \subseteq ProtectedPlaces
      /\ UNCHANGED <<p_record, p_audit, p_approved, p_echo, p_changes, p_heard, p_raced, p_lost>>
  BY DEF ProtectedInv, ProtectedTypes, P!Recreate, P!At, ProtectedPlaces
<1>1. CASE P!Fault /\ P!Move(h, "alarm") /\ UNCHANGED p_server
  BY <1>0, <1>1, ProtectedPlaceFine, ProtectedFaultTypes
<1>2. CASE /\ p_server.id < MaxSnapshots /\ ~p_server.there /\ UNCHANGED p_faults
           /\ \E r \in p_handler[h].rec :
                p_server' = [id |-> p_server.id + 1, there |-> TRUE, value |-> r.snap]
           /\ P!Move(h, "rebind")
  <2>1. PICK r \in p_handler[h].rec : p_server' = [id |-> p_server.id + 1, there |-> TRUE, value |-> r.snap]
    BY <1>2
  <2>2. r.snap \in P!Value /\ p_server.id \in P!Id /\ p_server.id + 1 \in P!Id /\ TRUE \in BOOLEAN
    BY <1>0, <1>2, <2>1, ProtectedBoundTypes DEF ProtectedCall, ProtectedRecs, P!Record, ProtectedTypes, P!Id
  <2>3. p_server' \in [id : P!Id, there : BOOLEAN, value : P!Value]
    BY <2>1, <2>2
  <2> DEFINE q == [p_handler[h] EXCEPT !.pc = "rebind"]
  <2>4. q \in ProtectedCall /\ q.job = p_handler[h].job /\ P!Put(h, q)
    BY <1>0, <1>2, ProtectedMoveTypes DEF P!Move
  <2> HIDE DEF q
  <2>5. ProtectedTypes'
    <3>1. ProtectedFits(q)
      BY <1>0, <2>4 DEF ProtectedFits
    <3> QED
      BY <1>0, <1>2, <2>3, <2>4, <3>1, ProtectedTypesMove
  <2>6. p_record'[p_server'.id] = {}
    <3>1. p_server.id + 1 > p_server.id
      BY <2>2 DEF P!Id
    <3>2. p_server'.id = p_server.id + 1
      BY <2>1
    <3> QED
      BY <1>0, <2>2, <3>1, <3>2 DEF ProtectedAhead
  <2> QED
    BY <2>5, <2>6 DEF ProtectedInv, ProtectedKeptInv
<1> QED
  BY <1>1, <1>2 DEF P!Recreate

(* The record that is moved says what is there, or is known to be out of   *)
(* date, or somebody will read it.                                         *)
LEMMA ProtectedRebindFine ==
    ASSUME P!ProtectedAssumption, ProtectedInv, NEW h \in Task, P!Rebind(h) PROVE ProtectedInv'
<1> DEFINE i == p_handler[h].id
<1> DEFINE set == {[r EXCEPT !.deleted = FALSE] : r \in p_record[i]}
<1>0. /\ ProtectedTypes /\ p_handler[h] \in ProtectedCall /\ p_handler[h].pc = "rebind" /\ P!Move(h, "publish")
      /\ "publish" \in ProtectedPlaces /\ i \in P!Id /\ p_server.id \in P!Id
      /\ UNCHANGED <<p_server, p_audit, p_approved, p_echo, p_changes, p_heard, p_lost, p_faults>>
  BY DEF ProtectedInv, ProtectedTypes, P!Rebind, P!At, ProtectedCall, ProtectedPlaces
<1>1. /\ p_record' = [p_record EXCEPT ![i] = {}, ![i + 1] = set]
      /\ p_raced' = (p_raced \/ (P!NobodyReads
                                    /\ \E r \in p_record[i] : ~p_server.there \/ r.snap # p_server.value))
  BY DEF P!Rebind
<1>2. \A r \in p_record[i] : [r EXCEPT !.deleted = FALSE] \in P!Record /\ [r EXCEPT !.deleted = FALSE].snap = r.snap
  <2>1. FALSE \in BOOLEAN
    OBVIOUS
  <2>2. p_record[i] \subseteq P!Record
    BY <1>0 DEF ProtectedTypes
  <2> HIDE DEF i
  <2> QED
    BY <2>1, <2>2, ProtectedMarkTypes
<1>3. set \in SUBSET P!Record /\ \A a, b \in set : a = b
  <2>1. \A a, b \in p_record[i] : a = b
    BY <1>0 DEF ProtectedTypes
  <2> QED
    BY <1>2, <2>1
<1> DEFINE q == [p_handler[h] EXCEPT !.pc = "publish"]
<1>4. q \in ProtectedCall /\ q.pc = "publish" /\ q.job = p_handler[h].job /\ P!Put(h, q)
  BY <1>0, ProtectedMoveTypes DEF P!Move
<1> HIDE DEF q
<1>5. i # i + 1 /\ ProtectedOneEach(p_record')
  <2> HIDE DEF set, i
  <2>1. i # i + 1
    BY <1>0 DEF P!Id
  <2> QED
    BY <1>0, <1>1, <1>3, <2>1 DEF ProtectedTypes, ProtectedOneEach
<1>6. p_record'[p_server.id] = (IF p_server.id = i + 1 THEN set
                               ELSE IF p_server.id = i THEN {} ELSE p_record[p_server.id])
  <2> HIDE DEF set, i
  <2> QED
    BY <1>0, <1>1, <1>5 DEF ProtectedTypes
<1>7. ProtectedTypes'
  <2>1. ProtectedFits(q)
    BY <1>0, <1>4 DEF ProtectedFits, ProtectedTypes
  <2>2. p_raced' = p_raced \/ p_raced' = TRUE
    BY <1>1 DEF ProtectedInv, ProtectedTypes
  <2> QED
    BY <1>0, <1>4, <1>5, <2>1, <2>2, ProtectedTypesMove
<1>8. (ProtectedExcused => ProtectedExcused') /\ \A snap : ~ProtectedSees(h, snap)
  BY <1>0, <1>1 DEF ProtectedExcused, ProtectedSees
<1>9. CASE p_server.id # i + 1
  <2>1. p_record'[p_server.id] \subseteq p_record[p_server.id]
    BY <1>6, <1>9
  <2>2. ProtectedKeptInv'
    BY <1>0, <1>4, <1>8, <2>1, ProtectedHandlerMoves
  <2> QED
    BY <1>7, <2>2 DEF ProtectedInv
<1>10. CASE p_server.id = i + 1
  <2> SUFFICES ASSUME NEW r \in p_record'[p_server.id]
               PROVE  ProtectedExcused' \/ ProtectedFine(r)' \/ \E g \in Task : ProtectedSees(g, r.snap)'
    BY <1>0, <1>7 DEF ProtectedInv, ProtectedKeptInv
  <2>1. PICK s \in p_record[i] : s.snap = r.snap
    <3>1. r \in set
      BY <1>6, <1>10
    <3> QED
      BY <1>2, <3>1
  <2>2. CASE p_server.there /\ p_server.value = r.snap
    BY <1>0, <2>2 DEF ProtectedFine
  <2>3. CASE ~(p_server.there /\ p_server.value = r.snap) /\ P!NobodyReads
    BY <1>1, <2>1, <2>3 DEF ProtectedExcused
  <2>4. CASE p_server.there /\ p_echo # 0
    BY <1>0, <2>4 DEF ProtectedFine, ProtectedTypes
  <2>5. CASE \E g \in Task : p_handler[g].pc = "read" /\ ProtectedOurs(g)
    <3>1. PICK g \in Task : p_handler[g].pc = "read" /\ ProtectedOurs(g)
      BY <2>5
    <3>2. g # h /\ ProtectedSees(g, r.snap)
      BY <1>0, <3>1 DEF ProtectedSees
    <3> QED
      BY <1>0, <1>4, <3>2, ProtectedOthersSee
  <2>6. P!NobodyReads \/ (p_server.there /\ p_echo # 0) \/ \E g \in Task : p_handler[g].pc = "read"
          /\ ProtectedOurs(g)
    BY DEF P!NobodyReads, P!At, ProtectedOurs
  <2> QED
    BY <2>2, <2>3, <2>4, <2>5, <2>6
<1> QED
  BY <1>9, <1>10

LEMMA ProtectedMarkDeletedFine ==
    ASSUME P!ProtectedAssumption, ProtectedInv, NEW h \in Task, P!MarkDeleted(h) PROVE ProtectedInv'
<1>0. ProtectedTypes /\ p_handler[h] \in ProtectedCall /\ p_handler[h].pc = "mark" /\ P!End(h)
      /\ UNCHANGED <<p_server, p_audit, p_approved, p_echo, p_changes, p_heard, p_raced>>
  BY DEF ProtectedInv, ProtectedTypes, P!MarkDeleted, P!At
<1>1. CASE P!Fault /\ p_lost' = TRUE /\ UNCHANGED p_record
  BY <1>0, <1>1, ProtectedEndFine, ProtectedFaultTypes DEF ProtectedExcused
<1> DEFINE i == p_handler[h].id
<1> DEFINE set == {[r EXCEPT !.deleted = TRUE] : r \in p_record[i]}
<1>2. CASE p_record' = [p_record EXCEPT ![i] = set] /\ UNCHANGED <<p_lost, p_faults>>
  <2>1. i \in P!Id /\ p_server.id \in P!Id
    BY <1>0 DEF ProtectedTypes, ProtectedCall
  <2>2. \A r \in p_record[i] : r \in P!Record /\ [r EXCEPT !.deleted = TRUE] \in P!Record
    <3>1. TRUE \in BOOLEAN
      OBVIOUS
    <3>2. p_record[i] \subseteq P!Record
      BY <1>0, <2>1 DEF ProtectedTypes
    <3> HIDE DEF i
    <3> QED
      BY <3>1, <3>2, ProtectedMarkTypes
  <2>3. set \in SUBSET P!Record /\ \A a, b \in set : a = b
    <3>1. \A a, b \in p_record[i] : a = b
      BY <1>0, <2>1 DEF ProtectedTypes
    <3> QED
      BY <2>2, <3>1
  <2>4. ProtectedOneEach(p_record')
    BY <1>0, <1>2, <2>1, <2>3, ProtectedRecordTypes
  <2>5. p_record'[i] = set /\ \A j \in P!Id : j # i => p_record'[j] = p_record[j]
    BY <1>0, <1>2, <2>1 DEF ProtectedTypes
  <2>6. P!Idle \in ProtectedCall /\ ProtectedFits(P!Idle) /\ P!Put(h, P!Idle)
    BY <1>0, ProtectedIdleTypes DEF P!End
  <2>7. ProtectedTypes'
    BY <1>0, <1>2, <2>4, <2>6, ProtectedTypesMove
  <2>8. ProtectedKeptInv'
    <3> SUFFICES ASSUME NEW r \in p_record'[p_server.id]
                 PROVE  ProtectedExcused' \/ ProtectedFine(r)' \/ \E g \in Task : ProtectedSees(g, r.snap)'
      BY <1>0 DEF ProtectedKeptInv
    <3>1. PICK s \in p_record[p_server.id] : /\ r.snap = s.snap /\ (s.deleted => r.deleted)
                                             /\ (i = p_server.id => r.deleted)
      <4>1. CASE i = p_server.id
        <5>1. PICK s \in p_record[i] : r = [s EXCEPT !.deleted = TRUE]
          BY <2>5, <4>1
        <5>2. r.snap = s.snap /\ r.deleted
          BY <2>2, <5>1 DEF P!Record
        <5> QED
          BY <4>1, <5>2
      <4>2. CASE i # p_server.id
        BY <2>1, <2>5, <4>2
      <4> QED
        BY <4>1, <4>2
    <3>2. ProtectedExcused \/ ProtectedFine(s) \/ \E g \in Task : ProtectedSees(g, s.snap)
      BY DEF ProtectedInv, ProtectedKeptInv
    <3>3. CASE ProtectedExcused \/ ProtectedFine(s)
      BY <1>0, <1>2, <3>1, <3>3 DEF ProtectedExcused, ProtectedFine
    <3>4. CASE \E g \in Task : ProtectedSees(g, s.snap)
      <4>1. PICK g \in Task : ProtectedSees(g, s.snap)
        BY <3>4
      <4>2. CASE g = h
        BY <1>0, <3>1, <4>1, <4>2 DEF ProtectedSees, ProtectedFine
      <4>3. CASE g # h
        BY <1>0, <2>6, <3>1, <4>1, <4>3, ProtectedOthersSee
      <4> QED
        BY <4>2, <4>3
    <3> QED
      BY <3>2, <3>3, <3>4
  <2> QED
    BY <2>7, <2>8 DEF ProtectedInv
<1> QED
  BY <1>1, <1>2 DEF P!MarkDeleted

LEMMA ProtectedPublishFine ==
    ASSUME P!ProtectedAssumption, ProtectedInv, NEW h \in Task, P!Publish(h) PROVE ProtectedInv'
<1>1. P!End(h) /\ p_handler[h].pc \in {"publish", "alarm"}
      /\ UNCHANGED <<p_server, p_record, p_audit, p_approved, p_echo, p_changes, p_raced>>
  BY DEF P!Publish
<1>2. CASE p_heard' = (p_heard \/ P!At(h, "alarm")) /\ UNCHANGED <<p_lost, p_faults>>
  <2>1. p_heard' = p_heard \/ p_heard' = TRUE
    BY <1>2 DEF ProtectedInv, ProtectedTypes
  <2>2. \A snap : ProtectedSees(h, snap) => p_heard'
    BY <1>1, <1>2 DEF ProtectedSees, P!At
  <2> QED
    BY <1>1, <1>2, <2>1, <2>2, ProtectedEndFine DEF ProtectedExcused
<1>3. CASE P!Fault /\ p_lost' = TRUE /\ UNCHANGED p_heard
  BY <1>1, <1>3, ProtectedFaultTypes, ProtectedEndFine DEF ProtectedExcused, ProtectedInv
<1> QED
  BY <1>2, <1>3 DEF P!Publish

LEMMA ProtectedBreakFine ==
    ASSUME P!ProtectedAssumption, ProtectedInv, NEW h \in Task, P!Break(h) PROVE ProtectedInv'
<1>1. P!End(h) /\ p_lost' = TRUE /\ p_faults' \in 0 .. MaxFaults
      /\ UNCHANGED <<p_server, p_record, p_audit, p_approved, p_echo, p_changes, p_heard, p_raced>>
  BY ProtectedFaultTypes DEF P!Break, ProtectedInv
<1> QED
  BY <1>1, ProtectedEndFine DEF ProtectedExcused

LEMMA ProtectedRemoveFine ==
    ASSUME P!ProtectedAssumption, ProtectedInv, NEW h \in Task, P!Remove(h) PROVE ProtectedInv'
<1>1. P!End(h) /\ p_handler[h].pc = "undo" /\ p_record' = [p_record EXCEPT ![p_handler[h].id] = {}]
      /\ UNCHANGED <<p_server, p_audit, p_approved, p_echo, p_changes, p_heard, p_raced, p_lost, p_faults>>
  BY DEF P!Remove, P!At
<1>2. ProtectedTypes /\ p_handler[h].id \in P!Id /\ p_server.id \in P!Id
  BY DEF ProtectedInv, ProtectedTypes, ProtectedCall
<1>3. ProtectedOneEach(p_record')
  BY <1>1, <1>2, ProtectedRecordTypes
<1>4. p_record'[p_server.id] \subseteq p_record[p_server.id]
  BY <1>1, <1>2 DEF ProtectedTypes
<1>5. \A snap : ~ProtectedSees(h, snap)
  BY <1>1 DEF ProtectedSees
<1> QED
  BY <1>1, <1>3, <1>4, <1>5, ProtectedEndFine

-----------------------------------------------------------------------------
(* A command starts; it takes note of the resource.                        *)
LEMMA ProtectedCommandTypes ==
    ASSUME P!ProtectedAssumption, ProtectedTypes, NEW pc \in {"insert", "undo"}, NEW cap \in P!Value
    PROVE  LET q == [P!Idle EXCEPT !.pc = pc, !.job = "command", !.id = p_server.id, !.cap = cap]
           IN  /\ q \in ProtectedCall /\ q.pc = pc /\ q.job = "command"
               /\ q.id = p_server.id /\ q.cap = cap /\ ProtectedFits(q)
<1>1. P!Idle \in ProtectedCall
  BY ProtectedIdleTypes
<1>2. pc \in ProtectedPlaces /\ "command" \in P!Kind \cup {"command"} /\ p_server.id \in P!Id
  BY DEF ProtectedPlaces, ProtectedTypes
<1> QED
  BY <1>1, <1>2 DEF ProtectedCall, ProtectedFits

LEMMA ProtectedAddFine ==
    ASSUME P!ProtectedAssumption, ProtectedInv, NEW h \in Task, P!Add(h) PROVE ProtectedInv'
<1> DEFINE q == [P!Idle EXCEPT !.pc = "insert", !.job = "command", !.id = p_server.id, !.cap = p_server.value]
<1>0. ProtectedTypes /\ p_server.value \in P!Value /\ p_handler[h].pc = "idle" /\ p_changes' \in 0 .. MaxChanges
      /\ UNCHANGED <<p_server, p_record, p_audit, p_approved, p_echo, p_heard, p_raced, p_lost, p_faults>>
  BY ProtectedBoundTypes DEF ProtectedInv, ProtectedTypes, P!Add, P!At
<1>1. q \in ProtectedCall /\ q.pc = "insert" /\ ProtectedFits(q) /\ P!Put(h, q)
  <2>1. q \in ProtectedCall /\ q.pc = "insert" /\ ProtectedFits(q)
    BY <1>0, ProtectedCommandTypes
  <2> QED
    BY <2>1 DEF P!Add
<1> HIDE DEF q
<1>2. ProtectedTypes'
  BY <1>0, <1>1, ProtectedTypesMove
<1>3. \A snap : ~ProtectedSees(h, snap)
  BY <1>0 DEF ProtectedSees
<1>4. ProtectedKeptInv'
  BY <1>0, <1>1, <1>3, ProtectedHandlerMoves DEF ProtectedExcused, ProtectedInv
<1> QED
  BY <1>2, <1>4 DEF ProtectedInv

LEMMA ProtectedInsertFine ==
    ASSUME P!ProtectedAssumption, ProtectedInv, NEW h \in Task, P!Insert(h) PROVE ProtectedInv'
<1> DEFINE i == p_handler[h].id
<1> DEFINE cap == p_handler[h].cap
<1>0. /\ ProtectedTypes /\ p_handler[h] \in ProtectedCall /\ p_handler[h].pc = "insert" /\ i \in P!Id
      /\ cap \in P!Value /\ p_server.id \in P!Id
      /\ UNCHANGED <<p_server, p_audit, p_approved, p_echo, p_changes, p_heard, p_lost, p_faults>>
  BY DEF ProtectedInv, ProtectedTypes, P!Insert, P!At, ProtectedCall
<1>1. CASE P!End(h) /\ UNCHANGED <<p_record, p_raced>>
  <2>1. \A snap : ~ProtectedSees(h, snap)
    BY <1>0 DEF ProtectedSees
  <2> QED
    BY <1>0, <1>1, <2>1, ProtectedEndFine
<1>2. CASE /\ p_record[i] = {} /\ p_record' = [p_record EXCEPT ![i] = {P!Protected(cap)}]
           /\ P!Move(h, "prevent")
           /\ p_raced' = (p_raced \/ (P!NobodyReads /\ ~(P!Here(h) /\ p_server.value = cap)))
  <2> DEFINE q == [p_handler[h] EXCEPT !.pc = "prevent"]
  <2>1. q \in ProtectedCall /\ q.pc = "prevent" /\ q.job = p_handler[h].job /\ P!Put(h, q)
    <3>1. "prevent" \in ProtectedPlaces
      BY DEF ProtectedPlaces
    <3> QED
      BY <1>0, <1>2, <3>1, ProtectedMoveTypes DEF P!Move
  <2> HIDE DEF q
  <2>2. ProtectedFits(q)
    BY <2>1 DEF ProtectedFits
  <2>3. P!Protected(cap) \in P!Record /\ P!Protected(cap).snap = cap
    <3>1. FALSE \in BOOLEAN
      OBVIOUS
    <3> QED
      BY <1>0, <3>1 DEF P!Protected, P!Record
  <2>4. ProtectedOneEach(p_record')
    BY <1>0, <1>2, <2>3, ProtectedRecordTypes
  <2>5. p_raced' = p_raced \/ p_raced' = TRUE
    BY <1>0, <1>2 DEF ProtectedTypes
  <2>6. ProtectedTypes'
    BY <1>0, <2>1, <2>2, <2>4, <2>5, ProtectedTypesMove
  <2>7. ProtectedExcused => ProtectedExcused'
    BY <1>0, <1>2 DEF ProtectedExcused
  <2>8. \A snap : ~ProtectedSees(h, snap)
    BY <1>0 DEF ProtectedSees
  <2>9. CASE i # p_server.id
    <3>1. p_record'[p_server.id] = p_record[p_server.id]
      BY <1>0, <1>2, <2>9 DEF ProtectedTypes
    <3>2. ProtectedKeptInv'
      BY <1>0, <2>1, <2>7, <2>8, <3>1, ProtectedHandlerMoves
    <3> QED
      BY <2>6, <3>2 DEF ProtectedInv
  <2>10. CASE i = p_server.id
    <3>1. p_record'[p_server.id] = {P!Protected(cap)}
      BY <1>0, <1>2, <2>10 DEF ProtectedTypes
    <3>2. ProtectedKeptInv'
      <4> SUFFICES ASSUME NEW r \in p_record'[p_server.id]
                   PROVE  ProtectedExcused' \/ ProtectedFine(r)' \/ \E g \in Task : ProtectedSees(g, r.snap)'
        BY <1>0 DEF ProtectedKeptInv
      <4>1. r.snap = cap
        BY <2>3, <3>1
      <4>2. CASE p_server.there /\ p_server.value = cap
        BY <1>0, <4>1, <4>2 DEF ProtectedFine
      <4>3. CASE ~(p_server.there /\ p_server.value = cap) /\ P!NobodyReads
        BY <1>2, <4>3 DEF ProtectedExcused, P!Here
      <4>4. CASE p_server.there /\ p_echo # 0
        BY <1>0, <4>4 DEF ProtectedFine, ProtectedTypes
      <4>5. CASE \E g \in Task : p_handler[g].pc = "read" /\ ProtectedOurs(g)
        <5>1. PICK g \in Task : p_handler[g].pc = "read" /\ ProtectedOurs(g)
          BY <4>5
        <5>2. g # h /\ ProtectedSees(g, r.snap)
          BY <1>0, <5>1 DEF ProtectedSees
        <5> QED
          BY <1>0, <2>1, <5>2, ProtectedOthersSee
      <4>6. P!NobodyReads \/ (p_server.there /\ p_echo # 0) \/ \E g \in Task : p_handler[g].pc = "read"
              /\ ProtectedOurs(g)
        BY DEF P!NobodyReads, P!At, ProtectedOurs
      <4> QED
        BY <4>2, <4>3, <4>4, <4>5, <4>6
    <3> QED
      BY <2>6, <3>2 DEF ProtectedInv
  <2> QED
    BY <2>9, <2>10
<1> QED
  BY <1>1, <1>2 DEF P!Insert

LEMMA ProtectedPreventFine ==
    ASSUME P!ProtectedAssumption, ProtectedInv, NEW h \in Task, P!Prevent(h) PROVE ProtectedInv'
<1>0. /\ ProtectedTypes /\ p_handler[h] \in ProtectedCall /\ p_handler[h].pc = "prevent" /\ P!End(h)
      /\ p_server.value \in P!Value
      /\ UNCHANGED <<p_approved, p_changes, p_heard, p_raced, p_lost, p_faults>>
  BY DEF ProtectedInv, ProtectedTypes, P!Prevent, P!At
<1>1. CASE UNCHANGED <<p_server, p_echo, p_audit, p_record>>
  <2>1. \A snap : ~ProtectedSees(h, snap)
    BY <1>0 DEF ProtectedSees
  <2> QED
    BY <1>0, <1>1, <2>1, ProtectedEndFine
<1> DEFINE i == p_handler[h].id
<1> DEFINE set == {[r EXCEPT !.prevention = TRUE] : r \in p_record[i]}
<1>2. CASE /\ P!Here(h) /\ P!Edit([p_server.value EXCEPT !.deny = TRUE])
           /\ p_record' = [p_record EXCEPT ![i] = set]
  <2> DEFINE value == [p_server.value EXCEPT !.deny = TRUE]
  <2>1. value \in P!Value
    <3>1. TRUE \in BOOLEAN
      OBVIOUS
    <3> QED
      BY <1>0, <3>1 DEF P!Value
  <2>2. P!Edit(value) /\ p_server.there /\ p_server.id = i /\ i \in P!Id
    BY <1>0, <1>2 DEF P!Here, ProtectedCall
  <2> HIDE DEF value
  <2>3. /\ p_server' \in [id : P!Id, there : BOOLEAN, value : P!Value] /\ p_echo' \in 0 .. P!Handlers
        /\ p_audit' \subseteq P!Kind \X P!Actor
        /\ p_server'.id = p_server.id /\ p_server'.there = p_server.there
        /\ (p_server' = p_server /\ p_echo' = p_echo) \/ p_echo' > 0
    BY <1>0, <2>1, <2>2, ProtectedEditTypes
  <2>4. \A r \in p_record[i] : [r EXCEPT !.prevention = TRUE] \in P!Record
          /\ [r EXCEPT !.prevention = TRUE].snap = r.snap
    <3>1. TRUE \in BOOLEAN
      OBVIOUS
    <3>2. p_record[i] \subseteq P!Record
      BY <1>0, <2>2 DEF ProtectedTypes
    <3> HIDE DEF i
    <3> QED
      BY <3>1, <3>2, ProtectedMarkTypes
  <2>5. set \in SUBSET P!Record /\ \A a, b \in set : a = b
    <3>1. \A a, b \in p_record[i] : a = b
      BY <1>0, <2>2 DEF ProtectedTypes
    <3> QED
      BY <2>4, <3>1
  <2>6. ProtectedOneEach(p_record')
    BY <1>0, <1>2, <2>2, <2>5, ProtectedRecordTypes
  <2>7. \A r \in p_record'[p_server.id] : \E s \in p_record[p_server.id] : s.snap = r.snap
    <3>1. p_record'[p_server.id] = set
      BY <1>0, <1>2, <2>2 DEF ProtectedTypes
    <3> QED
      BY <2>2, <2>4, <3>1
  <2>8. P!Idle \in ProtectedCall /\ ProtectedFits(P!Idle) /\ P!Put(h, P!Idle)
    BY <1>0, ProtectedIdleTypes DEF P!End
  <2>9. ProtectedTypes'
    BY <1>0, <2>3, <2>6, <2>8, ProtectedTypesMove
  <2>10. ProtectedKeptInv'
    BY <1>0, <2>2, <2>3, <2>7, <2>8, ProtectedEditMoves DEF ProtectedExcused
  <2> QED
    BY <2>9, <2>10 DEF ProtectedInv
<1> QED
  BY <1>1, <1>2 DEF P!Prevent

LEMMA ProtectedRemoveProtectionFine ==
    ASSUME P!ProtectedAssumption, ProtectedInv, NEW h \in Task, P!RemoveProtection(h) PROVE ProtectedInv'
<1> DEFINE q == [P!Idle EXCEPT !.pc = "undo", !.job = "command", !.id = p_server.id]
<1>0. ProtectedTypes /\ p_server.value \in P!Value /\ p_handler[h].pc = "idle" /\ p_changes' \in 0 .. MaxChanges
      /\ UNCHANGED <<p_record, p_approved, p_heard, p_raced, p_lost, p_faults>>
  BY ProtectedBoundTypes DEF ProtectedInv, ProtectedTypes, P!RemoveProtection, P!At
<1>1. q \in ProtectedCall /\ q.pc = "undo" /\ ProtectedFits(q) /\ P!Put(h, q)
  <2>1. P!Idle \in ProtectedCall
    BY ProtectedIdleTypes
  <2>2. "undo" \in ProtectedPlaces /\ "command" \in P!Kind \cup {"command"} /\ p_server.id \in P!Id
    BY <1>0 DEF ProtectedPlaces, ProtectedTypes
  <2>3. q \in ProtectedCall /\ q.pc = "undo"
    BY <2>1, <2>2 DEF ProtectedCall
  <2> QED
    BY <2>3 DEF P!RemoveProtection, ProtectedFits
<1> HIDE DEF q
<1>2. CASE p_server.there /\ P!Edit([p_server.value EXCEPT !.deny = FALSE])
  <2> DEFINE value == [p_server.value EXCEPT !.deny = FALSE]
  <2>1. value \in P!Value
    <3>1. FALSE \in BOOLEAN
      OBVIOUS
    <3> QED
      BY <1>0, <3>1 DEF P!Value
  <2>2. P!Edit(value)
    BY <1>2
  <2> HIDE DEF value
  <2>3. /\ p_server' \in [id : P!Id, there : BOOLEAN, value : P!Value] /\ p_echo' \in 0 .. P!Handlers
        /\ p_audit' \subseteq P!Kind \X P!Actor
        /\ p_server'.id = p_server.id /\ p_server'.there = p_server.there
        /\ (p_server' = p_server /\ p_echo' = p_echo) \/ p_echo' > 0
    BY <1>0, <2>1, <2>2, ProtectedEditTypes
  <2>4. ProtectedTypes'
    BY <1>0, <1>1, <2>3, ProtectedTypesMove
  <2>5. ProtectedKeptInv'
    BY <1>0, <1>1, <1>2, <2>3, ProtectedEditMoves DEF ProtectedExcused
  <2> QED
    BY <2>4, <2>5 DEF ProtectedInv
<1>3. CASE UNCHANGED <<p_server, p_echo, p_audit>>
  <2>1. ProtectedTypes'
    BY <1>0, <1>1, <1>3, ProtectedTypesMove
  <2>2. \A snap : ~ProtectedSees(h, snap)
    BY <1>0 DEF ProtectedSees
  <2>3. ProtectedKeptInv'
    BY <1>0, <1>1, <1>3, <2>2, ProtectedHandlerMoves DEF ProtectedExcused, ProtectedInv
  <2> QED
    BY <2>1, <2>3 DEF ProtectedInv
<1> QED
  BY <1>2, <1>3 DEF P!RemoveProtection

LEMMA ProtectedRecoverFine ==
    ASSUME P!ProtectedAssumption, ProtectedInv, P!Recover PROVE ProtectedInv'
<1>0. ProtectedTypes /\ p_server.id \in P!Id /\ ~p_server.there /\ p_server.id < MaxSnapshots
      /\ UNCHANGED <<p_audit, p_approved, p_echo, p_handler, p_changes, p_heard, p_raced, p_lost, p_faults>>
  BY DEF ProtectedInv, ProtectedTypes, P!Recover
<1> DEFINE i == p_server.id
<1>1. PICK r \in p_record[i] :
         /\ p_server' = [id |-> i + 1, there |-> TRUE, value |-> r.snap]
         /\ p_record' = [p_record EXCEPT ![i] = {}, ![i + 1] = {[r EXCEPT !.deleted = FALSE]}]
  BY DEF P!Recover
<1> DEFINE s == [r EXCEPT !.deleted = FALSE]
<1>2. r \in P!Record /\ s \in P!Record /\ s.snap = r.snap /\ r.snap \in P!Value
  <2>1. FALSE \in BOOLEAN
    OBVIOUS
  <2>2. r \in P!Record
    BY <1>0 DEF ProtectedTypes
  <2> QED
    BY <2>1, <2>2 DEF P!Record
<1>3. i \in P!Id /\ i + 1 \in P!Id /\ i # i + 1 /\ TRUE \in BOOLEAN
  BY <1>0, ProtectedBoundTypes DEF P!Id
<1> HIDE DEF s, i
<1>4. p_record' = [p_record EXCEPT ![i] = {}, ![i + 1] = {s}]
  BY <1>1 DEF s
<1>5. ProtectedOneEach(p_record') /\ p_record'[i + 1] = {s}
  BY <1>0, <1>2, <1>3, <1>4 DEF ProtectedTypes, ProtectedOneEach
<1>6. p_server' \in [id : P!Id, there : BOOLEAN, value : P!Value]
  BY <1>1, <1>2, <1>3
<1>7. ProtectedTypes'
  BY <1>0, <1>5, <1>6 DEF ProtectedTypes, ProtectedOneEach, P!Handlers
<1>8. ProtectedKeptInv'
  BY <1>1, <1>2, <1>5 DEF ProtectedKeptInv, ProtectedFine
<1> QED
  BY <1>7, <1>8 DEF ProtectedInv

LEMMA ProtectedInit == P!ProtectedAssumption /\ P!Init => ProtectedInv
<1> SUFFICES ASSUME P!ProtectedAssumption, P!Init PROVE ProtectedInv
  OBVIOUS
<1>1. /\ P!Idle \in ProtectedCall /\ ProtectedFits(P!Idle) /\ 0 \in P!Id /\ P!Nothing \in P!Value
      /\ 0 \in 0 .. MaxChanges /\ 0 \in 0 .. MaxFaults
      /\ 0 \in 0 .. P!Handlers
  BY ProtectedIdleTypes, ProtectedBoundTypes DEF P!Id, P!Nothing, P!Value
<1>2. P!Protected(P!Nothing) \in P!Record /\ P!Protected(P!Nothing).snap = P!Nothing
  <2>1. FALSE \in BOOLEAN
    OBVIOUS
  <2> QED
    BY <1>1, <2>1 DEF P!Protected, P!Record
<1>3. PICK r \in SUBSET {P!Protected(P!Nothing)} : p_record = [j \in P!Id |-> IF j = 0 THEN r ELSE {}]
  BY DEF P!Init
<1>4. \A j \in P!Id : p_record[j] \subseteq {P!Protected(P!Nothing)}
  BY <1>3
<1>5. p_record \in [P!Id -> SUBSET P!Record] /\ \A j \in P!Id : \A a, b \in p_record[j] : a = b
  BY <1>2, <1>3, <1>4
<1>6. p_server = [id |-> 0, there |-> TRUE, value |-> P!Nothing] /\ TRUE \in BOOLEAN
  BY DEF P!Init
<1>7. p_server \in [id : P!Id, there : BOOLEAN, value : P!Value]
  BY <1>1, <1>6
<1>8. ProtectedTypes
  BY <1>1, <1>5, <1>7 DEF ProtectedTypes, P!Init
<1>9. ProtectedKeptInv
  BY <1>1, <1>2, <1>4, <1>6 DEF ProtectedKeptInv, ProtectedFine
<1> QED
  BY <1>8, <1>9 DEF ProtectedInv

-----------------------------------------------------------------------------
LEMMA ProtectedAheadInit == ASSUME P!ProtectedAssumption, P!Init PROVE ProtectedAhead
<1>1. p_server.id = 0 /\ (\A h \in Task : p_handler[h].id = 0 /\ p_handler[h].pc = "idle")
  BY DEF P!Init, P!Idle
<1>2. \A j \in P!Id : j > 0 => p_record[j] = {}
  <2>1. PICK r \in SUBSET {P!Protected(P!Nothing)} : p_record = [j \in P!Id |-> IF j = 0 THEN r ELSE {}]
    BY DEF P!Init
  <2> QED
    BY <2>1 DEF P!Id
<1> QED
  BY <1>1, <1>2 DEF ProtectedAhead

(* A handler goes on with its id, or starts or ends at one that is not     *)
(* ahead of the resource.                                                  *)
LEMMA ProtectedAheadMoves ==
    ASSUME ProtectedTypes, ProtectedAhead, NEW h \in Task, NEW q, P!Put(h, q), p_server'.id \in P!Id,
           p_server.id <= p_server'.id, q.id \in {0, p_server.id, p_handler[h].id},
           q.pc = "rebind" => q.id < p_server'.id,
           \A j \in P!Id : j > p_server'.id => p_record'[j] = {}
    PROVE  ProtectedAhead'
<1>1. /\ p_server.id \in Int /\ p_server'.id \in Int /\ 0 <= p_server.id
      /\ \A g \in Task : p_handler[g].id \in Int /\ p_handler[g].id <= p_server.id
  BY DEF ProtectedTypes, ProtectedCall, P!Id, ProtectedAhead
<1>2. p_handler'[h] = q /\ \A g \in Task : g # h => p_handler'[g] = p_handler[g]
  BY DEF ProtectedTypes, P!Put
<1>3. q.id \in Int /\ q.id <= p_server'.id
  BY <1>1
<1>4. \A g \in Task : g # h => /\ p_handler'[g].id <= p_server'.id
                               /\ p_handler'[g].pc = "rebind" => p_handler'[g].id < p_server'.id
  BY <1>1, <1>2 DEF ProtectedAhead
<1> QED
  BY <1>2, <1>3, <1>4 DEF ProtectedAhead

(* A step that leaves the resource its id, and its record to the ids that  *)
(* have one.                                                               *)
LEMMA ProtectedAheadStays ==
    ASSUME ProtectedTypes, ProtectedAhead, NEW h \in Task, NEW q, P!Put(h, q), p_server'.id = p_server.id,
           q.id \in {0, p_server.id, p_handler[h].id}, q.pc # "rebind",
           \/ p_record' = p_record
           \/ \E set : p_record' = [p_record EXCEPT ![p_handler[h].id] = set]
    PROVE  ProtectedAhead'
<1>1. p_server.id \in P!Id /\ p_server.id <= p_server.id /\ p_handler[h].id \in P!Id
  BY DEF ProtectedTypes, P!Id, ProtectedCall
<1>2. ASSUME NEW j \in P!Id, j > p_server.id PROVE p_record'[j] = {}
  <2>1. p_record[j] = {} /\ j # p_handler[h].id
    BY <1>1, <1>2 DEF ProtectedAhead, P!Id
  <2> QED
    BY <2>1 DEF ProtectedTypes
<1> QED
  BY <1>1, <1>2, ProtectedAheadMoves

(* Where the steps that start, go on or end take a handler.                *)
ProtectedGoes(h) == \E q : P!Put(h, q) /\ q.pc # "rebind" /\ q.id \in {0, p_server.id, p_handler[h].id}

LEMMA ProtectedSteps ==
    ASSUME ProtectedTypes, NEW h \in Task
    PROVE  /\ P!End(h) => ProtectedGoes(h)
           /\ \A pc : pc # "rebind" /\ P!Move(h, pc) => ProtectedGoes(h)
           /\ P!Put(h, P!Adopting(h)) => ProtectedGoes(h)
           /\ \A who : P!Put(h, [p_handler[h] EXCEPT !.pc = "approve", !.actor = {who}]) => ProtectedGoes(h)
           /\ \A set : P!Put(h, [p_handler[h] EXCEPT !.pc = "gate", !.rec = set]) => ProtectedGoes(h)
           /\ \A kind : P!Starts(h, kind) => ProtectedGoes(h)
<1>0. p_handler[h] \in ProtectedCall
  BY DEF ProtectedTypes
<1>1. P!End(h) => ProtectedGoes(h)
  <2>1. P!Idle.pc # "rebind" /\ P!Idle.id = 0
    BY DEF P!Idle
  <2> QED
    BY <2>1 DEF P!End, ProtectedGoes
<1>2. ASSUME NEW pc, pc # "rebind", P!Move(h, pc) PROVE ProtectedGoes(h)
  <2> DEFINE q == [p_handler[h] EXCEPT !.pc = pc]
  <2>1. q.pc # "rebind" /\ q.id = p_handler[h].id
    BY <1>0, <1>2 DEF ProtectedCall
  <2>2. P!Put(h, q)
    BY <1>2 DEF P!Move
  <2> QED
    BY <2>1, <2>2 DEF ProtectedGoes
<1>3. ASSUME P!Put(h, P!Adopting(h)) PROVE ProtectedGoes(h)
  <2>1. P!Adopting(h).pc # "rebind" /\ P!Adopting(h).id = p_handler[h].id
    BY <1>0 DEF ProtectedCall, P!Adopting
  <2> QED
    BY <1>3, <2>1 DEF ProtectedGoes
<1>4. ASSUME NEW who, P!Put(h, [p_handler[h] EXCEPT !.pc = "approve", !.actor = {who}]) PROVE ProtectedGoes(h)
  <2> DEFINE q == [p_handler[h] EXCEPT !.pc = "approve", !.actor = {who}]
  <2>1. q.pc # "rebind" /\ q.id = p_handler[h].id
    BY <1>0 DEF ProtectedCall
  <2> QED
    BY <1>4, <2>1 DEF ProtectedGoes
<1>5. ASSUME NEW set, P!Put(h, [p_handler[h] EXCEPT !.pc = "gate", !.rec = set]) PROVE ProtectedGoes(h)
  <2> DEFINE q == [p_handler[h] EXCEPT !.pc = "gate", !.rec = set]
  <2>1. q.pc # "rebind" /\ q.id = p_handler[h].id
    BY <1>0 DEF ProtectedCall
  <2> QED
    BY <1>5, <2>1 DEF ProtectedGoes
<1>6. ASSUME NEW kind, P!Starts(h, kind) PROVE ProtectedGoes(h)
  <2> DEFINE q == [P!Idle EXCEPT !.pc = "read", !.job = kind, !.id = p_server.id]
  <2>1. q.pc # "rebind" /\ q.id = p_server.id
    BY DEF P!Idle
  <2> QED
    BY <1>6, <2>1 DEF ProtectedGoes, P!Starts
<1> QED
  BY <1>1, <1>2, <1>3, <1>4, <1>5, <1>6

LEMMA ProtectedAheadEvents ==
    ASSUME ProtectedTypes, ProtectedAhead, NEW h \in Task,
           \/ \E who \in {"owner", "member"} : P!Change(h, who)
           \/ P!Echo(h) \/ P!Read(h) \/ P!Gate(h) \/ P!FindActor(h) \/ P!Approve(h)
           \/ P!Restore(h) \/ P!Publish(h) \/ P!Add(h) \/ P!RemoveProtection(h) \/ P!Break(h)
    PROVE  ProtectedAhead'
<1>1. p_server \in [id : P!Id, there : BOOLEAN, value : P!Value] /\ p_handler[h] \in ProtectedCall
  BY DEF ProtectedTypes
<1>2. p_server'.id = p_server.id /\ p_record' = p_record
  BY <1>1 DEF P!Change, P!Echo, P!Read, P!Gate, P!FindActor, P!Approve, P!Restore, P!Edit, P!Publish, P!Add,
      P!RemoveProtection, P!Break
<1>3. ProtectedGoes(h)
  <2>1. CASE \E who \in {"owner", "member"} : P!Change(h, who)
    BY <2>1, ProtectedSteps DEF P!Change
  <2>2. CASE P!Echo(h) \/ P!Publish(h) \/ P!Break(h)
    BY <2>2, ProtectedSteps DEF P!Echo, P!Publish, P!Break
  <2>3. CASE P!Read(h)
    BY <2>3, ProtectedSteps DEF P!Read
  <2>4. CASE P!Gate(h)
    <3>0. p_handler[h].job \in {"update", "delete"}
      BY <1>1, <2>4 DEF P!Gate, P!At, ProtectedTypes, ProtectedFits, ProtectedCall, P!Kind
    <3>1. \/ P!Put(h, P!Adopting(h)) \/ P!End(h)
          \/ P!Move(h, "restore") \/ P!Move(h, "find") \/ P!Move(h, "mark")
      BY <2>4, <3>0 DEF P!Gate
    <3> QED
      BY <3>1, ProtectedSteps
  <2>5. CASE P!FindActor(h)
    <3>1. \/ P!Move(h, "alarm") \/ P!Put(h, P!Adopting(h))
          \/ \E who : P!Put(h, [p_handler[h] EXCEPT !.pc = "approve", !.actor = {who}])
      BY <2>5 DEF P!FindActor
    <3> QED
      BY <3>1, ProtectedSteps
  <2>6. CASE P!Approve(h)
    <3>1. P!Put(h, P!Adopting(h)) \/ P!Move(h, "restore")
      BY <2>6 DEF P!Approve
    <3> QED
      BY <3>1, ProtectedSteps
  <2>7. CASE P!Restore(h)
    <3>1. P!Move(h, "publish") \/ P!Move(h, "alarm")
      BY <2>7 DEF P!Restore
    <3> QED
      BY <3>1, ProtectedSteps
  <2>8. CASE P!Add(h)
    <3> DEFINE q == [P!Idle EXCEPT !.pc = "insert", !.job = "command", !.id = p_server.id, !.cap = p_server.value]
    <3>1. q.pc # "rebind" /\ q.id = p_server.id /\ P!Put(h, q)
      BY <2>8 DEF P!Idle, P!Add
    <3> QED
      BY <3>1 DEF ProtectedGoes
  <2>9. CASE P!RemoveProtection(h)
    <3> DEFINE q == [P!Idle EXCEPT !.pc = "undo", !.job = "command", !.id = p_server.id]
    <3>1. q.pc # "rebind" /\ q.id = p_server.id /\ P!Put(h, q)
      BY <2>9 DEF P!Idle, P!RemoveProtection
    <3> QED
      BY <3>1 DEF ProtectedGoes
  <2> QED
    BY <2>1, <2>2, <2>3, <2>4, <2>5, <2>6, <2>7, <2>8, <2>9
<1> QED
  BY <1>2, <1>3, ProtectedAheadStays DEF ProtectedGoes

LEMMA ProtectedAheadWrites ==
    ASSUME ProtectedTypes, ProtectedAhead, NEW h \in Task,
           P!Adopt(h) \/ P!MarkDeleted(h) \/ P!Insert(h) \/ P!Prevent(h) \/ P!Remove(h)
    PROVE  ProtectedAhead'
<1>1. p_server \in [id : P!Id, there : BOOLEAN, value : P!Value] /\ p_handler[h] \in ProtectedCall
  BY DEF ProtectedTypes
<1>2. p_server'.id = p_server.id
  BY <1>1 DEF P!Adopt, P!MarkDeleted, P!Insert, P!Prevent, P!Edit, P!Remove
<1>3. ProtectedGoes(h)
  <2>1. P!End(h) \/ P!Move(h, "prevent")
    BY DEF P!Adopt, P!MarkDeleted, P!Insert, P!Prevent, P!Remove
  <2> QED
    BY <2>1, ProtectedSteps
<1>4. p_record' = p_record \/ \E set : p_record' = [p_record EXCEPT ![p_handler[h].id] = set]
  BY DEF P!Adopt, P!MarkDeleted, P!Insert, P!Prevent, P!Remove
<1> QED
  BY <1>2, <1>3, <1>4, ProtectedAheadStays DEF ProtectedGoes

LEMMA ProtectedAheadRecreates ==
    ASSUME P!ProtectedAssumption, ProtectedTypes, ProtectedAhead, NEW h \in Task, P!Recreate(h) \/ P!Rebind(h)
    PROVE  ProtectedAhead'
<1>1. p_server.id \in P!Id /\ p_handler[h].id \in P!Id /\ p_handler[h] \in ProtectedCall
  BY DEF ProtectedTypes, ProtectedCall
<1> DEFINE q(pc) == [p_handler[h] EXCEPT !.pc = pc]
<1>2. \A pc \in {"rebind", "publish", "alarm"} : q(pc).id = p_handler[h].id /\ q(pc).pc = pc
  BY <1>1 DEF ProtectedCall
<1> HIDE DEF q
<1>3. CASE P!Move(h, "alarm") /\ UNCHANGED <<p_server, p_record>>
  <2>1. P!Put(h, q("alarm"))
    BY <1>3 DEF P!Move, q
  <2> QED
    BY <1>2, <1>3, <2>1, ProtectedAheadStays
<1>4. CASE p_server'.id = p_server.id + 1 /\ p_server.id < MaxSnapshots /\ P!Move(h, "rebind") /\ UNCHANGED p_record
  <2>1. P!Put(h, q("rebind"))
    BY <1>4 DEF P!Move, q
  <2>2. p_server'.id \in P!Id /\ p_server.id <= p_server'.id /\ p_handler[h].id < p_server'.id
    BY <1>1, <1>4, ProtectedBoundTypes DEF P!Id, ProtectedAhead
  <2>3. \A j \in P!Id : j > p_server'.id => p_record'[j] = {}
    BY <1>1, <1>4 DEF P!Id, ProtectedAhead
  <2> QED
    BY <1>2, <2>1, <2>2, <2>3, ProtectedAheadMoves
<1>5. CASE P!Rebind(h)
  <2>1. P!Put(h, q("publish")) /\ p_handler[h].id < p_server.id /\ UNCHANGED p_server
    BY <1>5 DEF P!Rebind, P!Move, P!At, ProtectedAhead, q
  <2>2. PICK set : p_record' = [p_record EXCEPT ![p_handler[h].id] = {}, ![p_handler[h].id + 1] = set]
    BY <1>5 DEF P!Rebind
  <2>3. ASSUME NEW j \in P!Id, j > p_server.id PROVE p_record'[j] = {}
    <3>1. p_record[j] = {} /\ j # p_handler[h].id /\ j # p_handler[h].id + 1
      BY <1>1, <2>1, <2>3 DEF ProtectedAhead, P!Id
    <3> QED
      BY <2>2, <3>1 DEF ProtectedTypes
  <2>4. p_server.id <= p_server.id
    BY <1>1 DEF P!Id
  <2> QED
    BY <1>1, <1>2, <2>1, <2>3, <2>4, ProtectedAheadMoves
<1>6. P!Recreate(h) => \/ P!Move(h, "alarm") /\ UNCHANGED <<p_server, p_record>>
                      \/ /\ p_server'.id = p_server.id + 1 /\ p_server.id < MaxSnapshots
                         /\ P!Move(h, "rebind") /\ UNCHANGED p_record
  BY DEF P!Recreate
<1> QED
  BY <1>3, <1>4, <1>5, <1>6

LEMMA ProtectedAheadRecovers ==
    ASSUME P!ProtectedAssumption, ProtectedTypes, ProtectedAhead, P!Recover PROVE ProtectedAhead'
<1>1. p_server.id \in P!Id /\ p_server.id < MaxSnapshots /\ p_server'.id = p_server.id + 1 /\ UNCHANGED p_handler
  BY DEF ProtectedTypes, P!Recover
<1>2. PICK set : p_record' = [p_record EXCEPT ![p_server.id] = {}, ![p_server.id + 1] = set]
  BY DEF P!Recover
<1>3. ASSUME NEW j \in P!Id, j > p_server'.id PROVE p_record'[j] = {}
  <2>1. p_record[j] = {} /\ j # p_server.id /\ j # p_server.id + 1
    BY <1>1, <1>3 DEF ProtectedAhead, P!Id
  <2> QED
    BY <1>2, <2>1 DEF ProtectedTypes
<1>4. ASSUME NEW h \in Task
      PROVE  p_handler'[h].id <= p_server'.id /\ (p_handler'[h].pc = "rebind" => p_handler'[h].id < p_server'.id)
  BY <1>1 DEF ProtectedAhead, ProtectedTypes, ProtectedCall, P!Id
<1> QED
  BY <1>3, <1>4 DEF ProtectedAhead

LEMMA ProtectedAheadNext ==
    ASSUME P!ProtectedAssumption, ProtectedTypes, ProtectedAhead, [P!Next]_(P!vars) PROVE ProtectedAhead'
<1>1. CASE UNCHANGED P!vars
  BY <1>1 DEF P!vars, ProtectedAhead
<1> QED
  BY <1>1, ProtectedAheadEvents, ProtectedAheadWrites, ProtectedAheadRecreates, ProtectedAheadRecovers DEF P!Next

LEMMA ProtectedNext ==
    ASSUME P!ProtectedAssumption, ProtectedInv, ProtectedAhead, [P!Next]_(P!vars) PROVE ProtectedInv'
<1>1. CASE UNCHANGED P!vars
  <2>1. ProtectedTypes'
    BY <1>1 DEF P!vars, ProtectedInv, ProtectedTypes, P!Handlers
  <2>2. ProtectedKeptInv'
    BY <1>1 DEF P!vars, ProtectedInv, ProtectedKeptInv, ProtectedExcused, ProtectedFine, ProtectedSees, ProtectedOurs,
        ProtectedStill, P!Here
  <2> QED
    BY <2>1, <2>2 DEF ProtectedInv
<1>2. ASSUME NEW h \in Task, NEW who \in {"owner", "member"}, P!Change(h, who) PROVE ProtectedInv'
  BY <1>2, ProtectedChangeFine
<1>3. ASSUME NEW h \in Task,
             P!Echo(h) \/ P!Read(h) \/ P!Gate(h) \/ P!FindActor(h) \/ P!Approve(h) \/ P!Adopt(h) \/ P!Restore(h)
      PROVE  ProtectedInv'
  BY <1>3, ProtectedEchoFine, ProtectedReadFine, ProtectedGateFine, ProtectedFindActorFine, ProtectedApproveFine,
      ProtectedAdoptFine, ProtectedRestoreFine
<1>4. ASSUME NEW h \in Task,
             P!Recreate(h) \/ P!Rebind(h) \/ P!MarkDeleted(h) \/ P!Publish(h) \/ P!Add(h) \/ P!Insert(h)
      PROVE  ProtectedInv'
  BY <1>4, ProtectedRecreateFine, ProtectedRebindFine, ProtectedMarkDeletedFine, ProtectedPublishFine,
      ProtectedAddFine, ProtectedInsertFine
<1>5. ASSUME NEW h \in Task, P!Prevent(h) \/ P!RemoveProtection(h) \/ P!Remove(h) \/ P!Break(h)
      PROVE  ProtectedInv'
  BY <1>5, ProtectedPreventFine, ProtectedRemoveProtectionFine, ProtectedRemoveFine, ProtectedBreakFine
<1>6. CASE P!Recover
  BY <1>6, ProtectedRecoverFine
<1> QED
  BY <1>1, <1>2, <1>3, <1>4, <1>5, <1>6 DEF P!Next

(* What is protected is as its record says, or a handler will see to it,   *)
(* or the administrators were told; the exceptions are a write that failed *)
(* and a snapshot that was out of date when it was written                 *)
(* (guardResource).                                                        *)
THEOREM ProtectedInvariant == ASSUME P!ProtectedAssumption PROVE P!Spec => []ProtectedInv
<1>1. P!Init => ProtectedInv /\ ProtectedAhead
  BY ProtectedInit, ProtectedAheadInit
<1>2. ProtectedInv /\ ProtectedAhead /\ [P!Next]_(P!vars) => (ProtectedInv /\ ProtectedAhead)'
  BY ProtectedNext, ProtectedAheadNext DEF ProtectedInv
<1> QED
  BY <1>1, <1>2, PTL DEF P!Spec

LEMMA ProtectedTypesOK == ASSUME ProtectedInv PROVE P!TypeOK
<1>1. ASSUME NEW i \in P!Id PROVE p_record[i] \subseteq P!Record /\ P!Cardinality(p_record[i]) <= 1
  <2>1. p_record[i] \subseteq P!Record /\ \A a, b \in p_record[i] : a = b
    BY DEF ProtectedInv, ProtectedTypes
  <2>2. CASE p_record[i] = {}
    BY <2>1, <2>2, ProtectedEmptySet
  <2>3. CASE p_record[i] # {}
    <3>1. PICK a \in p_record[i] : TRUE
      BY <2>3
    <3>2. p_record[i] = {a}
      BY <2>1, <3>1
    <3> QED
      BY <2>1, <3>2, ProtectedSingleton
  <2> QED
    BY <2>2, <2>3
<1>2. \A h \in Task : p_handler[h] \in ProtectedCall
  BY DEF ProtectedInv, ProtectedTypes
<1> QED
  BY <1>1, <1>2 DEF P!TypeOK, ProtectedInv, ProtectedTypes, ProtectedCall, ProtectedPlaces, ProtectedRecs

LEMMA ProtectedQuietKept == ASSUME ProtectedInv PROVE P!QuietMeansKept
BY DEF ProtectedInv, ProtectedKeptInv, P!QuietMeansKept, ProtectedExcused, ProtectedFine, ProtectedSees, P!At

-----------------------------------------------------------------------------
(* The composition.  A behaviour of it is, of each component's variables,  *)
(* a behaviour of the component.                                           *)
LEMMA OneAtATime ==
    ASSUME [AllNext]_allVars
    PROVE  /\ RaidStep \/ UNCHANGED vars
           /\ RecoveryStep \/ UNCHANGED rVars
           /\ LockStep \/ UNCHANGED lVars
           /\ GuardStep \/ UNCHANGED mVars
           /\ BackupsStep \/ UNCHANGED bVars
           /\ AdsStep \/ UNCHANGED aVars
           /\ ProtectedStep \/ UNCHANGED pVars
           /\ StructureStep \/ UNCHANGED gVars
BY DEF AllNext, allVars, RaidStep, RecoveryStep, LockStep, GuardStep, BackupsStep, AdsStep, ProtectedStep,
   StructureStep

LEMMA RaidAlone == AllSpec => Spec
<1>1. AllInit => Init
  BY DEF AllInit
<1>2. RaidStep => Next
  BY DEF RaidStep
<1>3. [AllNext]_allVars => [Next]_vars
  BY <1>2, OneAtATime
<1> QED
  BY <1>1, <1>3, PTL DEF AllSpec, Spec

LEMMA RecoveryAlone == AllSpec => R!Spec
<1>1. AllInit => R!Init
  BY DEF AllInit
<1>2. RecoveryStep => R!Next
  BY DEF RecoveryStep
<1>3. UNCHANGED rVars => UNCHANGED R!vars
  BY DEF rVars, R!vars, R!server, R!stored
<1>4. [AllNext]_allVars => [R!Next]_(R!vars)
  BY <1>2, <1>3, OneAtATime
<1> QED
  BY <1>1, <1>4, PTL DEF AllSpec, R!Spec

LEMMA LockAlone == AllSpec => L!Spec
<1>1. AllInit => L!Init
  BY DEF AllInit
<1>2. LockStep => L!Next
  BY DEF LockStep
<1>3. UNCHANGED lVars => UNCHANGED L!vars
  BY DEF lVars, L!vars
<1>4. [AllNext]_allVars => [L!Next]_(L!vars)
  BY <1>2, <1>3, OneAtATime
<1> QED
  BY <1>1, <1>4, PTL DEF AllSpec, L!Spec

LEMMA GuardAlone == AllSpec => M!Spec
<1>1. AllInit => M!Init
  BY DEF AllInit
<1>2. GuardStep => M!Next
  BY DEF GuardStep
<1>3. UNCHANGED mVars => UNCHANGED M!vars
  BY DEF mVars, M!vars, M!requestVars, M!moderationVars
<1>4. [AllNext]_allVars => [M!Next]_(M!vars)
  BY <1>2, <1>3, OneAtATime
<1> QED
  BY <1>1, <1>4, PTL DEF AllSpec, M!Spec

LEMMA BackupsAlone == AllSpec => B!Spec
<1>1. AllInit => B!Init
  BY DEF AllInit
<1>2. BackupsStep => B!Next
  BY DEF BackupsStep
<1>3. UNCHANGED bVars => UNCHANGED B!vars
  BY DEF bVars, B!vars
<1>4. [AllNext]_allVars => [B!Next]_(B!vars)
  BY <1>2, <1>3, OneAtATime
<1> QED
  BY <1>1, <1>4, PTL DEF AllSpec, B!Spec

LEMMA AdsAlone == AllSpec => A!Spec
<1>1. AllInit => A!Init
  BY DEF AllInit
<1>2. AdsStep => A!Next
  BY DEF AdsStep
<1>3. UNCHANGED aVars => UNCHANGED A!vars
  BY DEF aVars, A!vars
<1>4. [AllNext]_allVars => [A!Next]_(A!vars)
  BY <1>2, <1>3, OneAtATime
<1> QED
  BY <1>1, <1>4, PTL DEF AllSpec, A!Spec

LEMMA ProtectedAlone == AllSpec => P!Spec
<1>1. AllInit => P!Init
  BY DEF AllInit
<1>2. ProtectedStep => P!Next
  BY DEF ProtectedStep
<1>3. UNCHANGED pVars => UNCHANGED P!vars
  BY DEF pVars, P!vars
<1>4. [AllNext]_allVars => [P!Next]_(P!vars)
  BY <1>2, <1>3, OneAtATime
<1> QED
  BY <1>1, <1>4, PTL DEF AllSpec, P!Spec

LEMMA StructureAlone == AllSpec => G!Spec
<1>1. AllInit => G!Init
  BY DEF AllInit
<1>2. StructureStep => G!Next
  BY DEF StructureStep
<1>3. UNCHANGED gVars => UNCHANGED G!vars
  BY DEF gVars, G!vars
<1>4. [AllNext]_allVars => [G!Next]_(G!vars)
  BY <1>2, <1>3, OneAtATime
<1> QED
  BY <1>1, <1>4, PTL DEF AllSpec, G!Spec

(* A recovery is closed only when everything it owes is back, whatever     *)
(* failed and whoever else refreshed, froze or recovered meanwhile, unless *)
(* it applied a plan that could not be saved (restore, advanceIncident).   *)
THEOREM ClosedAreRestored == AllSpec => ClosedIsRestored
<1>1. RecoveryInv /\ [R!Next]_(R!vars)
        => [r_stage = "recovery" /\ r_stage' = "closed" /\ ~r_unsaved => \A r \in R!Owed : R!Exists(r)]_(R!vars)
  BY RecoveryClosesWhole
<1> QED
  BY <1>1, SecurityAssumption, RecoveryAlone, RecoveryInvariant, PTL DEF R!Spec, ClosedIsRestored, R!ClosedIsRestored

(* Where the permission of a channel is not what is stored of it, somebody *)
(* is at work on it or was told, whatever writes and rollbacks failed,     *)
(* unless a command was cut short: it ended between its two writes or      *)
(* before it undid one, or an edit or a write was applied unheard and the  *)
(* command went on as if it had not been.  And a protected resource that   *)
(* is not what its record says was reported as not restored, unless a      *)
(* write was lost or the record was out of date when it was written.       *)
THEOREM NothingIsSilent == AllSpec => []NothingSilent
<1>1. L!NothingSilent /\ P!QuietMeansKept => NothingSilent
  BY DEF NothingSilent
<1>2. ProtectedInv => P!QuietMeansKept
  BY ProtectedQuietKept
<1> QED
  BY <1>1, <1>2, SecurityAssumption, LockAlone, ProtectedAlone, LockInvariant, ProtectedInvariant, PTL

(* While no claim outlives its batch, a batch of approvals is granted      *)
(* whole, and each approval once; an advertisement's approval lets one     *)
(* message through; and a member whose changes were approved is not        *)
(* sanctioned for them, in whatever order their events are handled.        *)
THEOREM ApprovalsAreAccounted == ASSUME Timely PROVE AllSpec => []ApprovalsAccounted
<1>1. M!AllOrNothing /\ A!AdsAccounted /\ G!CoveredIsSpared /\ G!OneCopy => ApprovalsAccounted
  BY DEF ApprovalsAccounted
<1>2. GuardGrantInv => M!AllOrNothing
  BY GuardGrantsAreWhole
<1>3. AdInv => A!AdsAccounted
  BY AdAccounts
<1> QED
  BY <1>1, <1>2, <1>3, SecurityAssumption, GuardAlone, AdsAlone, StructureAlone, GuardGrantInvariant, AdInvariant,
     ApprovalsInvariant, CoveredAreSpared, OneCopyHolds, PTL

(* However saves, deletions and loads overlap, the limit drops no backup   *)
(* that is among the newest, unless older saves of its name were at work   *)
(* on it, and what a load left in the configuration exists, or was there   *)
(* for others to delete.                                                   *)
THEOREM BackupsAreHeld == AllSpec => []BackupsHold
<1>1. BackupInv => B!NewestIsKept
  BY SecurityAssumption, BackupNewestKept
<1>2. BackupInv => B!RestoredExists
  BY DEF BackupInv, BackupLoadInv
<1>3. B!NewestIsKept /\ B!RestoredExists => BackupsHold
  BY DEF BackupsHold
<1> QED
  BY <1>1, <1>2, <1>3, SecurityAssumption, BackupsAlone, BackupInvariant, PTL

(* A request that was refused, cancelled or is over is not revived by a    *)
(* claim that comes late (expireStale, consumeAll).                        *)
THEOREM RefusedAreNotRevived == AllSpec => RefusedStaysRefused
BY SecurityAssumption, GuardAlone, GuardRefusedStaysInvariant, PTL DEF RefusedStaysRefused

(* The variables of each component keep their types.                       *)
THEOREM SecurityIsTyped == AllSpec => []TypesOK
<1>1. /\ RecoveryInv => R!TypeOK
      /\ LockInv => L!TypeOK
      /\ GuardInv => M!TypeOK
      /\ BackupInv => B!TypeOK
      /\ AdInv => A!TypeOK
      /\ ProtectedInv => P!TypeOK
      /\ StructureInv => G!TypeOK
  BY SecurityAssumption, BackupBaseTypesOK, AdTypesOK, ProtectedTypesOK
     DEF RecoveryInv, LockInv, GuardInv, StructureInv
<1>2. /\ TypeOK /\ R!TypeOK /\ L!TypeOK /\ M!TypeOK /\ B!TypeOK /\ A!TypeOK /\ P!TypeOK /\ G!TypeOK
      => TypesOK
  BY DEF TypesOK
<1>3. AllSpec => [](TypeOK /\ RecoveryInv /\ LockInv /\ GuardInv)
  BY SecurityAssumption, RaidAlone, RecoveryAlone, LockAlone, GuardAlone,
     RaidTyped, RecoveryInvariant, LockInvariant, GuardInvariant, PTL
<1>4. AllSpec => [](BackupInv /\ AdInv /\ ProtectedInv /\ StructureInv)
  BY SecurityAssumption, BackupsAlone, AdsAlone, ProtectedAlone, StructureAlone,
     BackupInvariant, AdInvariant, ProtectedInvariant, StructureInvariant, PTL
<1> QED
  BY <1>1, <1>2, <1>3, <1>4, PTL
================================================================================
