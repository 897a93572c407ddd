---------------------------- MODULE NewAccountAlerts ----------------------------
(***************************************************************************)
(* The alerts about new accounts in one guild (features/command-security:  *)
(* newAccountAlertDedup.ts, and its two callers, botAddSecurityRuntime.ts  *)
(* for a member that joins and securityInteractionAdapters.ts for those    *)
(* already there when the alerts are started).                             *)
(*                                                                         *)
(* A worker handles a join or a start.  An action is one awaited call.     *)
(* All members are recent accounts.  A document is kept for 90 days, which *)
(* is taken for ever.                                                      *)
(***************************************************************************)
EXTENDS Integers, FiniteSets

CONSTANTS Member, Worker,
          None,         \* no token, no member
          MaxFaults     \* bound on crashes and failed calls

AlertsAssumption == None \notin Member \cup Worker /\ MaxFaults \in Nat

VARIABLES on,        \* newAccountAlertsEnabled
          row,       \* of each member: its document in newAccountAlertDeliveries
          worker,    \* of each worker: its step and whom it deals with
          posted,    \* of each member: how many alerts are in the channel
          lost,      \* the members whose send threw although it was posted
          muted,     \* the members a fault has closed without an alert
          faults

vars == <<on, row, worker, posted, lost, muted, faults>>

(* old: the five minutes of a claim, or the fifteen of a send, are over. *)
NoRow == [status |-> "none", token |-> None, old |-> FALSE]
Idle == [pc |-> "idle", scan |-> FALSE, was |-> FALSE, member |-> None, left |-> {}]

TypeOK ==
    /\ on \in BOOLEAN
    /\ row \in [Member -> [status : {"none", "claimed", "sending", "delivered", "unconfirmed", "released"},
                           token : Worker \cup {None}, old : BOOLEAN]]
    /\ worker \in [Worker -> [pc : {"idle", "enable", "next", "claim", "begin", "send", "mark",
                                    "confirm", "release", "undo", "boot"},
                              scan : BOOLEAN, was : BOOLEAN, member : Member \cup {None},
                              left : SUBSET Member]]
    /\ posted \in [Member -> Nat] /\ lost \in SUBSET Member /\ muted \in SUBSET Member
    /\ faults \in Nat

Init ==
    /\ on = FALSE /\ row = [m \in Member |-> NoRow] /\ worker = [w \in Worker |-> Idle]
    /\ posted = [m \in Member |-> 0] /\ lost = {} /\ muted = {} /\ faults = 0

Fault == faults < MaxFaults /\ faults' = faults + 1
Put(w, r) == worker' = [worker EXCEPT ![w] = r]
Go(w, pc) == Put(w, [worker[w] EXCEPT !.pc = pc])

(* What is done for a member is over: the next one, if there is one. *)
Passed(w) == Put(w, [worker[w] EXCEPT !.pc = "next", !.member = None])

(* An exception ends a join; a start takes back that it enabled. *)
Thrown(w) == Put(w, IF worker[w].scan THEN [Idle EXCEPT !.pc = "undo", !.scan = TRUE] ELSE Idle)

Blocked(m) == row[m].status \in {"sending", "delivered", "unconfirmed"}
Claimable(m) == ~Blocked(m) /\ (row[m].status = "claimed" => row[m].old)

-----------------------------------------------------------------------------
(* handleGuildMemberAdd. *)
Join(w, m) ==
    /\ worker[w].pc = "idle" /\ on
    /\ Put(w, [Idle EXCEPT !.pc = "claim", !.member = m])
    /\ UNCHANGED <<on, row, posted, lost, muted, faults>>

(* /start new-account-alerts reads whether they are on, enables them, and  *)
(* scans the members unless they were.                                     *)
Start(w) ==
    /\ worker[w].pc = "idle"
    /\ Put(w, [Idle EXCEPT !.pc = "enable", !.scan = TRUE, !.was = on, !.left = Member])
    /\ UNCHANGED <<on, row, posted, lost, muted, faults>>

Enable(w) ==
    /\ worker[w].pc = "enable"
    /\ \/ on' = TRUE /\ (IF worker[w].was THEN Put(w, Idle) ELSE Go(w, "next")) /\ UNCHANGED faults
       \/ Fault /\ on' \in {on, TRUE} /\ Put(w, Idle)
    /\ UNCHANGED <<row, posted, lost, muted>>

(* The channel or the members cannot be fetched. *)
FetchFails(w) ==
    /\ Fault /\ worker[w].pc = "next" /\ worker[w].scan /\ worker[w].left = Member
    /\ Thrown(w)
    /\ UNCHANGED <<on, row, posted, lost, muted>>

NextMember(w) ==
    /\ worker[w].pc = "next"
    /\ \/ worker[w].left = {} /\ Put(w, Idle)
       \/ \E m \in worker[w].left :
            Put(w, [worker[w] EXCEPT !.pc = "claim", !.member = m, !.left = @ \ {m}])
    /\ UNCHANGED <<on, row, posted, lost, muted, faults>>

(* claim: an upsert with a filter; what fails, or meets the document of    *)
(* another, is no claim.  It may have been applied unheard.                *)
Claim(w) ==
    /\ worker[w].pc = "claim"
    /\ LET m == worker[w].member
           claimed == row' = [row EXCEPT ![m] = [status |-> "claimed", token |-> w, old |-> FALSE]]
       IN  \/ Claimable(m) /\ claimed /\ Go(w, "begin") /\ UNCHANGED faults
           \/ ~Claimable(m) /\ Passed(w) /\ UNCHANGED <<row, faults>>
           \/ Fault /\ Passed(w) /\ (UNCHANGED row \/ (Claimable(m) /\ claimed))
    /\ UNCHANGED <<on, posted, lost, muted>>

(* alertChannel throws for a join: the claim is left to its lease. *)
ChannelFails(w) ==
    /\ Fault /\ worker[w].pc = "begin" /\ ~worker[w].scan /\ Put(w, Idle)
    /\ UNCHANGED <<on, row, posted, lost, muted>>

Began(w, m) == row[m].token = w /\ row[m].status = "claimed"
Sending(w, m) == row' = [row EXCEPT ![m] = [status |-> "sending", token |-> w, old |-> FALSE]]

(* beginSend: without the protecting write nothing is sent. *)
BeginSend(w) ==
    /\ worker[w].pc = "begin"
    /\ LET m == worker[w].member
       IN  \/ Began(w, m) /\ Sending(w, m) /\ Go(w, "send") /\ UNCHANGED <<muted, faults>>
           \/ ~Began(w, m) /\ Passed(w) /\ UNCHANGED <<row, muted, faults>>
           \/ Fault /\ Passed(w) /\ UNCHANGED <<row, muted>>
           \/ Fault /\ Began(w, m) /\ Sending(w, m) /\ Passed(w) /\ muted' = muted \cup {m}
    /\ UNCHANGED <<on, posted, lost>>

(* The message is posted, or the send throws: posted or not. *)
Send(w) ==
    /\ worker[w].pc = "send"
    /\ LET m == worker[w].member
           post == posted' = [posted EXCEPT ![m] = @ + 1]
       IN  \/ post /\ Go(w, "mark") /\ UNCHANGED <<lost, faults>>
           \/ Fault /\ Go(w, "release") /\ UNCHANGED <<posted, lost>>
           \/ Fault /\ Go(w, "release") /\ post /\ lost' = lost \cup {m}
    /\ UNCHANGED <<on, row, muted>>

(* release after a send that threw; its own failure is dropped, and it     *)
(* finds nothing if the send was closed meanwhile.                         *)
Release(w) ==
    /\ worker[w].pc = "release" /\ Thrown(w)
    /\ LET m == worker[w].member
           mine == row[m].token = w /\ row[m].status \in {"claimed", "sending"}
       IN  \/ /\ mine /\ row' = [row EXCEPT ![m] = [NoRow EXCEPT !.status = "released"]]
              /\ UNCHANGED <<muted, faults>>
           \/ ~mine /\ muted' = muted \cup {m} /\ UNCHANGED <<row, faults>>
           \/ Fault /\ muted' = muted \cup {m} /\ UNCHANGED row
    /\ UNCHANGED <<on, posted, lost>>

(* markDelivered, then markSentUnconfirmed unless it is known to be done.  *)
MarkDelivered(w) ==
    /\ worker[w].pc = "mark"
    /\ LET m == worker[w].member
           mine == row[m].token = w /\ row[m].status = "sending"
           delivered == row' = [row EXCEPT ![m] = [NoRow EXCEPT !.status = "delivered"]]
       IN  \/ mine /\ delivered /\ Passed(w) /\ UNCHANGED faults
           \/ ~mine /\ Go(w, "confirm") /\ UNCHANGED <<row, faults>>
           \/ Fault /\ Go(w, "confirm") /\ (UNCHANGED row \/ (mine /\ delivered))
    /\ UNCHANGED <<on, posted, lost, muted>>

MarkSentUnconfirmed(w) ==
    /\ worker[w].pc = "confirm" /\ Passed(w)
    /\ LET m == worker[w].member
           mine == row[m].token = w /\ row[m].status = "sending"
           unconfirmed == row' = [row EXCEPT ![m].status = "unconfirmed", ![m].old = FALSE]
       IN  \/ mine /\ unconfirmed /\ UNCHANGED faults
           \/ ~mine /\ UNCHANGED <<row, faults>>
           \/ Fault /\ UNCHANGED row
    /\ UNCHANGED <<on, posted, lost, muted>>

(* The start that threw disables the alerts, whoever enabled them since. *)
Undo(w) ==
    /\ worker[w].pc = "undo" /\ Put(w, Idle)
    /\ \/ on' = FALSE /\ UNCHANGED faults
       \/ Fault /\ on' \in {on, FALSE}
    /\ UNCHANGED <<row, posted, lost, muted>>

Stop ==
    /\ on /\ on' = FALSE
    /\ UNCHANGED <<row, worker, posted, lost, muted, faults>>

-----------------------------------------------------------------------------
(* What the worker of a process that dies was sending stays in sending. *)
Crash(w) ==
    /\ Fault /\ worker[w].pc # "idle" /\ Put(w, [Idle EXCEPT !.pc = "boot"])
    /\ muted' = IF worker[w].pc \in {"send", "release"} THEN muted \cup {worker[w].member} ELSE muted
    /\ UNCHANGED <<on, row, posted, lost>>

(* reconcileStuckNewAccountSends closes the sends older than 15 minutes,   *)
(* also those another process has still under way; its failure is dropped. *)
Reconcile(w) ==
    /\ worker[w].pc = "boot" /\ Put(w, Idle)
    /\ \/ /\ row' = [m \in Member |->
                       IF row[m].status = "sending" /\ row[m].old
                       THEN [row[m] EXCEPT !.status = "unconfirmed", !.old = FALSE] ELSE row[m]]
          /\ UNCHANGED faults
       \/ Fault /\ UNCHANGED row
    /\ UNCHANGED <<on, posted, lost, muted>>

TimePasses(m) ==
    /\ row[m].status \in {"claimed", "sending"} /\ ~row[m].old
    /\ row' = [row EXCEPT ![m].old = TRUE]
    /\ UNCHANGED <<on, worker, posted, lost, muted, faults>>

Next ==
    \/ \E w \in Worker :
         \/ Start(w) \/ Enable(w) \/ FetchFails(w) \/ NextMember(w) \/ Claim(w) \/ ChannelFails(w)
         \/ BeginSend(w) \/ Send(w) \/ Release(w) \/ MarkDelivered(w) \/ MarkSentUnconfirmed(w)
         \/ Undo(w) \/ Crash(w) \/ Reconcile(w) \/ \E m \in Member : Join(w, m)
    \/ Stop \/ \E m \in Member : TimePasses(m)

Spec == Init /\ [][Next]_vars

-----------------------------------------------------------------------------
(* Whatever joins, scans, leases and restarts overlap, a member is alerted *)
(* about once, unless a send threw although Discord had taken it.          *)
AlertedOnce == \A m \in Member : posted[m] <= 1 \/ m \in lost

(* A document that refuses every later claim is one whose alert was posted *)
(* or is being sent, unless a fault the code cannot see through closed it. *)
QuietMeansAlerted ==
    \A m \in Member : Blocked(m) =>
        posted[m] > 0 \/ m \in muted
        \/ \E w \in Worker : worker[w].member = m /\ worker[w].pc \in {"send", "release"}

(* FUNCTION_MAP_CLEAN.md:425: if the protecting write fails nothing is     *)
(* sent and a later attempt is allowed.  Not so when it was applied        *)
(* unheard: the document is then closed without an alert.                  *)
FailedBeginStaysOpen ==
    [][\A w \in Worker, m \in Member :
          worker[w].member = m /\ worker[w].pc = "begin" /\ worker'[w].pc = "next" =>
              ~(Began(w, m) /\ Blocked(m)')]_vars
=============================================================================
