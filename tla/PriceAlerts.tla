------------------------------ MODULE PriceAlerts ------------------------------
(***************************************************************************)
(* The price alerts of one guild (features/notifications:                  *)
(* priceAlertService.ts, priceAlertRepository.ts and the rollback of       *)
(* seenRepository.ts).                                                     *)
(*                                                                         *)
(* A pass is the alert part of a discount cycle; passes overlap when a     *)
(* lease ran out, administrators edit the rules at any time.  An action is *)
(* one awaited call.  A pass works on the settings it was given; the       *)
(* prices are choices: absent, over or under the threshold.  A message     *)
(* holds one alert.                                                        *)
(***************************************************************************)
EXTENDS Integers, FiniteSets

CONSTANTS Rule,         \* pairs of a game and a currency
          Pass,
          Rearm,        \* rearmAbsentCycles
          MaxFaults     \* bound on crashes and failed calls

PriceAssumption == Rearm \in Nat /\ MaxFaults \in Nat

VARIABLES rule,      \* of each rule: is it there, triggered, absent for how long
          pass,      \* of each pass: its step and what it carries
          told,      \* the triggered rules whose message was accepted
          stranded,  \* the triggered rules a fault parted from their pass
          faults

vars == <<rule, pass, told, stranded, faults>>

NoRule == [there |-> FALSE, triggered |-> FALSE, absent |-> 0]
NewRule == [NoRule EXCEPT !.there = TRUE]
Rules == [there : BOOLEAN, triggered : BOOLEAN, absent : 0 .. Rearm]

(* left: rules not looked at; seen: these as the pass was given them;      *)
(* mine: triggered by the pass and not sent; undo: to be rolled back.      *)
Idle == [pc |-> "idle", left |-> {}, seen |-> [r \in Rule |-> NoRule], mine |-> {}, undo |-> {}]

TypeOK ==
    /\ rule \in [Rule -> Rules] /\ faults \in 0 .. MaxFaults
    /\ told \in SUBSET Rule /\ stranded \in SUBSET Rule
    /\ pass \in [Pass -> [pc : {"idle", "look", "resolve", "send", "undo"}, left : SUBSET Rule,
                          seen : [Rule -> Rules], mine : SUBSET Rule, undo : SUBSET Rule]]

Init ==
    /\ rule = [r \in Rule |-> NoRule] /\ pass = [p \in Pass |-> Idle]
    /\ told = {} /\ stranded = {} /\ faults = 0

Fault == faults < MaxFaults /\ faults' = faults + 1
Put(p, r) == pass' = [pass EXCEPT ![p] = r]
Looked(p, r) == [pass[p] EXCEPT !.left = @ \ {r}, !.seen[r] = NoRule]

(* A trigger that ends or begins has nothing told or stranded. *)
Rearmed(r) == told' = told \ {r} /\ stranded' = stranded \ {r}

-----------------------------------------------------------------------------
(* processGuildPriceAlerts, on the settings the cycle read; a rule is left *)
(* alone when the deals of its currency were not loaded.                   *)
Begin(p) ==
    /\ pass[p].pc = "idle"
    /\ \E left \in SUBSET {r \in Rule : rule[r].there} :
         Put(p, [Idle EXCEPT !.pc = "look", !.left = left,
                             !.seen = [r \in Rule |-> IF r \in left THEN rule[r] ELSE NoRule]])
    /\ UNCHANGED <<rule, told, stranded, faults>>

(* registerAbsentObservation, counted from what the pass read. *)
Absent(p, r) ==
    /\ pass[p].pc = "look" /\ r \in pass[p].left /\ Put(p, Looked(p, r))
    /\ LET n == pass[p].seen[r].absent + 1
       IN  IF ~pass[p].seen[r].triggered \/ ~rule[r].there
           THEN UNCHANGED <<rule, told, stranded>>
           ELSE IF n >= Rearm THEN rule' = [rule EXCEPT ![r] = NewRule] /\ Rearmed(r)
           ELSE rule' = [rule EXCEPT ![r].absent = n] /\ UNCHANGED <<told, stranded>>
    /\ UNCHANGED faults

(* updateObservedPrice: over the threshold, a triggered rule is rearmed. *)
Observe(p, r, over) ==
    /\ pass[p].pc = "look" /\ r \in pass[p].left /\ Put(p, Looked(p, r))
    /\ ~over => pass[p].seen[r].triggered
    /\ IF ~rule[r].there THEN UNCHANGED <<rule, told, stranded>>
       ELSE IF over /\ pass[p].seen[r].triggered
            THEN rule' = [rule EXCEPT ![r] = NewRule] /\ Rearmed(r)
            ELSE rule' = [rule EXCEPT ![r].absent = 0] /\ UNCHANGED <<told, stranded>>
    /\ UNCHANGED faults

(* claimTrigger: a compare-and-set on the rule not being triggered. *)
Claim(p, r) ==
    /\ pass[p].pc = "look" /\ r \in pass[p].left /\ ~pass[p].seen[r].triggered
    /\ IF rule[r].there /\ ~rule[r].triggered
       THEN /\ rule' = [rule EXCEPT ![r] = [NewRule EXCEPT !.triggered = TRUE]]
            /\ Put(p, [Looked(p, r) EXCEPT !.mine = @ \cup {r}]) /\ Rearmed(r)
       ELSE Put(p, Looked(p, r)) /\ UNCHANGED <<rule, told, stranded>>
    /\ UNCHANGED faults

(* A call that fails ends the pass; the claim may have been made. *)
LookFails(p) ==
    /\ Fault /\ pass[p].pc = "look" /\ Put(p, Idle)
    /\ \E r \in pass[p].left :
         LET claims == ~pass[p].seen[r].triggered /\ rule[r].there /\ ~rule[r].triggered
         IN  \/ stranded' = stranded \cup pass[p].mine /\ UNCHANGED rule
             \/ /\ claims /\ rule' = [rule EXCEPT ![r] = [NewRule EXCEPT !.triggered = TRUE]]
                /\ stranded' = stranded \cup pass[p].mine \cup {r}
    /\ UNCHANGED told

EndLook(p) ==
    /\ pass[p].pc = "look" /\ pass[p].left = {}
    /\ Put(p, IF pass[p].mine = {} THEN Idle ELSE [pass[p] EXCEPT !.pc = "resolve"])
    /\ UNCHANGED <<rule, told, stranded, faults>>

(* resolveOutboundChannel: aborted, everything claimed is rolled back. *)
Resolve(p) ==
    /\ pass[p].pc = "resolve"
    /\ \/ Put(p, [pass[p] EXCEPT !.pc = "send"])
       \/ Put(p, [pass[p] EXCEPT !.pc = "undo", !.undo = pass[p].mine])
    /\ UNCHANGED <<rule, told, stranded, faults>>

Send(p) ==
    /\ pass[p].pc = "send"
    /\ \E r \in pass[p].mine :
         /\ told' = IF rule[r].triggered THEN told \cup {r} ELSE told
         /\ Put(p, IF pass[p].mine = {r} THEN Idle ELSE [pass[p] EXCEPT !.mine = @ \ {r}])
    /\ UNCHANGED <<rule, stranded, faults>>

(* A send that fails ends the sending: its chunk and those after it are    *)
(* rolled back.                                                            *)
SendFails(p) ==
    /\ Fault /\ pass[p].pc = "send"
    /\ Put(p, [pass[p] EXCEPT !.pc = "undo", !.undo = pass[p].mine])
    /\ UNCHANGED <<rule, told, stranded>>

(* rollbackTriggeredAlert: whatever triggered the rule since. *)
Rollback(p) ==
    /\ pass[p].pc = "undo"
    /\ \E r \in pass[p].undo :
         /\ Put(p, IF pass[p].undo = {r} THEN Idle ELSE [pass[p] EXCEPT !.undo = @ \ {r}, !.mine = @ \ {r}])
         /\ \/ rule' = [rule EXCEPT ![r].triggered = FALSE] /\ Rearmed(r) /\ UNCHANGED faults
            \/ Fault /\ stranded' = stranded \cup {r} /\ UNCHANGED <<rule, told>>

Crash(p) ==
    /\ Fault /\ pass[p].pc # "idle" /\ Put(p, Idle)
    /\ stranded' = stranded \cup pass[p].mine
    /\ UNCHANGED <<rule, told>>

-----------------------------------------------------------------------------
(* upsertPriceAlert replaces the rule of the same game and currency;       *)
(* removePriceAlertsForGame.                                               *)
Upsert(r) ==
    /\ rule' = [rule EXCEPT ![r] = NewRule] /\ Rearmed(r)
    /\ UNCHANGED <<pass, faults>>

Remove(r) ==
    /\ rule[r].there /\ rule' = [rule EXCEPT ![r] = NoRule] /\ Rearmed(r)
    /\ UNCHANGED <<pass, faults>>

Next ==
    \/ \E p \in Pass :
         \/ Begin(p) \/ LookFails(p) \/ EndLook(p) \/ Resolve(p) \/ Send(p) \/ SendFails(p)
         \/ Rollback(p) \/ Crash(p)
         \/ \E r \in Rule : Absent(p, r) \/ Claim(p, r) \/ \E over \in BOOLEAN : Observe(p, r, over)
    \/ \E r \in Rule : Upsert(r) \/ Remove(r)

Spec == Init /\ [][Next]_vars

-----------------------------------------------------------------------------
(* A triggered rule is silent until its price rises or its deal is gone,   *)
(* so whatever passes, edits and failures interleave, it was told, or a    *)
(* pass still has it to tell, or a fault that the code cannot undo (a      *)
(* crash, a database call that failed) is to blame.                        *)
TriggersAreTold ==
    \A r \in Rule : rule[r].triggered =>
        r \in told \cup stranded \/ \E p \in Pass : r \in pass[p].mine
=============================================================================
