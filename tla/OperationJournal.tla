--------------------------- MODULE OperationJournal ---------------------------
(***************************************************************************)
(* The journal of administrative operations (shared/operationJournal*.ts): *)
(* an operation is recorded under its key, claimed under a lease, executed *)
(* and marked; what a crash or a failure leaves behind is taken up by the  *)
(* periodic recovery, in whichever process runs it.                        *)
(*                                                                         *)
(* The operations modelled write one resource (a guild's configuration, a  *)
(* backup, a slice of the settings) and are numbered in the order of their *)
(* resourceVersion.  A runner is one call of runJournaled or one           *)
(* recoverPending; an action is one awaited call of it.  Time is abstract: *)
(* a lease is live or has run out, a pending entry is older than the       *)
(* recovery's olderThanMs or not.                                          *)
(***************************************************************************)
EXTENDS Integers, FiniteSets

CONSTANTS Op,           \* the operations, by resourceVersion
          Keyed,        \* those run with the resource's resourceKey; the others have their own key
          Unreadable,   \* those of which a release may know no kind, or another schemaVersion
          Runner,       \* the calls that can be under way at once
          NoEntry,      \* no document for an operation
          MaxAttempts,  \* maxAttempts
          Purgeable,    \* those whose finished entries see the TTL index's day pass
          MaxCalls,     \* bound on the calls with one key
          MaxFaults,    \* bound on failed calls and crashes
          MaxStalls     \* bound on the leases that run out under a runner

ASSUME JournalAssumption ==
    /\ Op \subseteq Nat \ {0} /\ Keyed \subseteq Op /\ Unreadable \subseteq Op
    /\ MaxAttempts \in Nat \ {0} /\ Purgeable \subseteq Op
    /\ MaxCalls \in Nat \ {0} /\ MaxFaults \in Nat /\ MaxStalls \in Nat

VARIABLES entry,     \* the document of an operation
          written,   \* the operation whose effect the resource shows, 0 at first
          effects,   \* how often an operation's effect was applied
          outcome,   \* the final status an operation ever got
          toldOk,    \* the operations whose caller was told they succeeded
          calls,     \* how often runJournaled was called with a key
          pc,        \* where a runner is
          mode,      \* runJournaled or recoverPending
          cur,       \* the runner's copy of the entry it claimed
          list,      \* the candidates a recovery has not handled yet
          lost,      \* leaseLost of the runner's heartbeat
          faults, stalls

resource == <<written, effects>>
callers == <<toldOk, calls>>
run == <<mode, cur, list>>
vars == <<entry, resource, outcome, callers, pc, run, lost, faults, stalls>>

Open == {"pending", "leased"}
Terminal == {"done", "superseded", "failed"}
Entry == [status : Open \cup Terminal, attempts : 0 .. MaxAttempts, version : 0 .. MaxAttempts,
          lease : {"none", "live", "expired"}, old : BOOLEAN]
Copy == [op : Op, status : Open \cup Terminal, attempts : 0 .. MaxAttempts, version : 0 .. MaxAttempts]

ASSUME NoEntryAssumption == NoEntry \notin Entry \cup Copy

NewEntry == [status |-> "pending", attempts |-> 0, version |-> 0, lease |-> "none", old |-> FALSE]
CopyOf(o) == [op |-> o, status |-> entry[o].status, attempts |-> entry[o].attempts, version |-> entry[o].version]

Places == {"idle", "claim", "read", "next", "reject", "check", "supersede", "execute", "executed", "release"}
(* Where a runner acts on an entry it claimed. *)
Busy == {"reject", "check", "supersede", "execute", "executed", "release"}
(* Where its heartbeat runs. *)
Executing == {"execute", "executed", "release"}

TypeOK ==
    /\ entry \in [Op -> Entry \cup {NoEntry}]
    /\ written \in Op \cup {0} /\ effects \in [Op -> Nat]
    /\ outcome \in [Op -> Terminal \cup {"none"}]
    /\ toldOk \subseteq Op /\ calls \in [Op -> 0 .. MaxCalls]
    /\ pc \in [Runner -> Places] /\ mode \in [Runner -> {"call", "recovery"}]
    /\ cur \in [Runner -> Copy \cup {NoEntry}]
    /\ list \in [Runner -> SUBSET Copy] /\ lost \in [Runner -> BOOLEAN]
    /\ faults \in 0 .. MaxFaults /\ stalls \in 0 .. MaxStalls

(* Some entries were left by another release. *)
Init ==
    /\ \E left \in SUBSET Unreadable :
         /\ entry = [o \in Op |-> IF o \in left THEN NewEntry ELSE NoEntry]
         /\ calls = [o \in Op |-> IF o \in left THEN MaxCalls ELSE 0]
    /\ written = 0 /\ effects = [o \in Op |-> 0] /\ outcome = [o \in Op |-> "none"]
    /\ toldOk = {}
    /\ pc = [w \in Runner |-> "idle"] /\ mode = [w \in Runner |-> "call"]
    /\ cur = [w \in Runner |-> NoEntry] /\ list = [w \in Runner |-> {}]
    /\ lost = [w \in Runner |-> FALSE]
    /\ faults = 0 /\ stalls = 0

Goto(w, place) == pc' = [pc EXCEPT ![w] = place]
(* A runner that is done with an entry, or with its call, keeps nothing of  *)
(* it.                                                                      *)
Leave(w, place) ==
    /\ Goto(w, place)
    /\ mode' = [mode EXCEPT ![w] = IF place = "idle" THEN "call" ELSE @]
    /\ cur' = [cur EXCEPT ![w] = NoEntry] /\ lost' = [lost EXCEPT ![w] = FALSE]
(* A call returns or throws; a recovery goes on with its next candidate. *)
Return(w) == Leave(w, IF mode[w] = "call" THEN "idle" ELSE "next")
Fault == faults < MaxFaults /\ faults' = faults + 1
NoFault == UNCHANGED faults

(* Mutant: the status is not compared. *)
HoldsVersion(c) == entry[c.op] # NoEntry /\ entry[c.op].version = c.version

(* leaseGuard *)
HoldsLease(c) == entry[c.op] # NoEntry /\ entry[c.op].status = "leased" /\ entry[c.op].version = c.version

SetStatus(o, status) ==
    entry' = [entry EXCEPT ![o].status = status, ![o].lease = "none", ![o].old = FALSE]
SetFinal(o, status) == SetStatus(o, status) /\ outcome' = [outcome EXCEPT ![o] = status]

-----------------------------------------------------------------------------
(* runJournaled: ensurePending, claim, readEntry *)

EnsurePending(o) == entry' = IF entry[o] = NoEntry THEN [entry EXCEPT ![o] = NewEntry] ELSE entry

(* resourceVersion: an operation with its own key takes fallbackVersion, the *)
(* time of its call, so the one that is recorded later is the newer one.     *)
VersionInOrder(o) == o \in Keyed \/ entry[o] # NoEntry \/ \A n \in Op \ Keyed : n > o => calls[n] = 0

Call(w, o) ==
    /\ pc[w] = "idle" /\ calls[o] < MaxCalls /\ VersionInOrder(o)
    /\ calls' = [calls EXCEPT ![o] = @ + 1]
    /\ \/ /\ EnsurePending(o) /\ Goto(w, "claim") /\ NoFault
          /\ cur' = [cur EXCEPT ![w] = [op |-> o, status |-> "pending", attempts |-> 0, version |-> 0]]
       \/ (EnsurePending(o) \/ UNCHANGED entry) /\ UNCHANGED <<pc, cur>> /\ Fault
    /\ UNCHANGED <<resource, outcome, toldOk, mode, list, lost, stalls>>

(* Mutant: lockedUntil is not looked at. *)
ClaimableWhileLeased(o) ==
    /\ entry[o] # NoEntry /\ entry[o].attempts < MaxAttempts
    /\ entry[o].status \in Open

Claimable(o) ==
    /\ entry[o] # NoEntry /\ entry[o].attempts < MaxAttempts
    /\ entry[o].status = "pending" \/ (entry[o].status = "leased" /\ entry[o].lease = "expired")

Leased(o, lease) ==
    entry' = [entry EXCEPT ![o].status = "leased", ![o].lease = lease,
                           ![o].attempts = @ + 1, ![o].version = @ + 1]

(* A recovery counts the lease from its own start: after long executions    *)
(* the lease it takes may have run out already.                             *)
TakeLease(w, o) ==
    \/ Leased(o, "live") /\ UNCHANGED stalls
    \/ /\ mode[w] = "recovery" /\ stalls < MaxStalls /\ stalls' = stalls + 1
       /\ Leased(o, "expired")

(* A claim that throws ends the call, or the whole recovery.  Whether an    *)
(* entry can be read depends on the release of the process that claims it.  *)
Claim(w, o) ==
    /\ \/ /\ Claimable(o) /\ TakeLease(w, o) /\ NoFault
          /\ cur' = [cur EXCEPT ![w] = CopyOf(o)']
          /\ Goto(w, "check") \/ (o \in Unreadable /\ Goto(w, "reject"))
          /\ UNCHANGED <<mode, lost>>
       \/ /\ ~Claimable(o) /\ NoFault /\ UNCHANGED <<entry, mode, cur, lost, stalls>>
          /\ Goto(w, IF mode[w] = "call" THEN "read" ELSE "next")
       \/ /\ (Claimable(o) /\ Leased(o, "live")) \/ UNCHANGED entry
          /\ Leave(w, "idle") /\ Fault /\ UNCHANGED stalls
    /\ UNCHANGED <<resource, outcome, callers>>

ClaimCalled(w) == pc[w] = "claim" /\ (\E o \in Op : o = cur[w].op /\ Claim(w, o)) /\ UNCHANGED list

(* done and superseded are a success; failed, running elsewhere or a failed *)
(* read is an error.                                                        *)
Read(w) ==
    LET o == cur[w].op IN
    /\ pc[w] = "read" /\ Leave(w, "idle")
    /\ \/ /\ entry[o] # NoEntry /\ entry[o].status \in {"done", "superseded"} /\ NoFault
          /\ toldOk' = toldOk \cup {o}
       \/ /\ ~(entry[o] # NoEntry /\ entry[o].status \in {"done", "superseded"}) /\ NoFault
          /\ UNCHANGED toldOk
       \/ UNCHANGED toldOk /\ Fault
    /\ UNCHANGED <<entry, resource, outcome, calls, list, stalls>>

-----------------------------------------------------------------------------
(* recoverPending *)

(* Mutant: entries whose runner died are not listed. *)
StalePending == {o \in Op : entry[o] # NoEntry /\ entry[o].status = "pending" /\ entry[o].old}

Stale == {o \in Op : entry[o] # NoEntry /\ \/ entry[o].status = "pending" /\ entry[o].old
                                           \/ entry[o].status = "leased" /\ entry[o].lease = "expired"}

(* listStale *)
StartRecovery(w) ==
    /\ pc[w] = "idle"
    /\ mode' = [mode EXCEPT ![w] = "recovery"]
    /\ list' = [list EXCEPT ![w] = {CopyOf(o) : o \in Stale}]
    /\ Goto(w, "next")
    /\ UNCHANGED <<entry, resource, outcome, callers, cur, lost, faults, stalls>>

(* failUnclaimed: compares status and leaseVersion with the listed ones,    *)
(* not lockedUntil.                                                         *)
Unchanged(c) == entry[c.op] # NoEntry /\ entry[c.op].status = c.status /\ entry[c.op].version = c.version

FailUnclaimed(w, c) ==
    /\ \/ Unchanged(c) /\ SetFinal(c.op, "failed") /\ ((Leave(w, "next") /\ NoFault) \/ (Leave(w, "idle") /\ Fault))
       \/ ~Unchanged(c) /\ Leave(w, "next") /\ UNCHANGED <<entry, outcome>> /\ NoFault
       \/ Leave(w, "idle") /\ UNCHANGED <<entry, outcome>> /\ Fault
    /\ UNCHANGED <<resource, callers, stalls>>

NextCandidate(w) ==
    /\ pc[w] = "next"
    /\ \E c \in list[w] :
          /\ list' = [list EXCEPT ![w] = @ \ {c}]
          /\ \/ c.attempts >= MaxAttempts /\ FailUnclaimed(w, c)
             \/ c.attempts < MaxAttempts /\ Claim(w, c.op)

EndRecovery(w) ==
    /\ pc[w] = "next" /\ list[w] = {}
    /\ Leave(w, "idle")
    /\ UNCHANGED <<entry, resource, outcome, callers, list, faults, stalls>>

-----------------------------------------------------------------------------
(* executeClaimed *)

(* markTerminal: returns normally only when its compare-and-set matched. *)
MarkTerminal(w, status) == HoldsLease(cur[w]) /\ SetFinal(cur[w].op, status)
MarkFails(w, status) ==
    \/ ~HoldsLease(cur[w]) /\ UNCHANGED <<entry, outcome>> /\ NoFault
    \/ UNCHANGED <<entry, outcome>> /\ Fault
    \/ MarkTerminal(w, status) /\ Fault

ReturnOk(w) == Return(w) /\ toldOk' = IF mode[w] = "call" THEN toldOk \cup {cur[w].op} ELSE toldOk

(* rejectIncompatible, and the executor missing for an unknown kind: the    *)
(* mark that throws is caught in the first case and ends the recovery in    *)
(* the second.                                                              *)
Reject(w) ==
    /\ pc[w] = "reject"
    /\ \/ MarkTerminal(w, "failed") /\ NoFault /\ Return(w)
       \/ MarkFails(w, "failed") /\ (Return(w) \/ Leave(w, "idle"))
    /\ UNCHANGED <<resource, callers, list, stalls>>

(* resourceKey: the key of the operation itself when the caller gives none. *)
KeyOf(o) == IF o \in Keyed THEN 0 ELSE o

(* Mutant: only operations under way supersede. *)
NewerOpen(o) == {n \in Op : entry[n] # NoEntry /\ n > o /\ KeyOf(n) = KeyOf(o) /\ entry[n].status \in Open}

Newer(o) == {n \in Op : entry[n] # NoEntry /\ n > o /\ KeyOf(n) = KeyOf(o)}

(* supersededByNewerOperation; a read that throws leaves the entry leased. *)
Check(w) ==
    /\ pc[w] = "check"
    /\ \/ Newer(cur[w].op) # {} /\ Goto(w, "supersede") /\ UNCHANGED <<mode, cur, lost>> /\ NoFault
       \/ Newer(cur[w].op) = {} /\ Goto(w, "execute") /\ UNCHANGED <<mode, cur, lost>> /\ NoFault
       \/ Return(w) /\ Fault
    /\ UNCHANGED <<entry, resource, outcome, callers, list, stalls>>

Supersede(w) ==
    /\ pc[w] = "supersede"
    /\ \/ MarkTerminal(w, "superseded") /\ NoFault /\ ReturnOk(w)
       \/ MarkFails(w, "superseded") /\ Return(w) /\ UNCHANGED toldOk
    /\ UNCHANGED <<resource, calls, list, stalls>>

Apply(o) == written' = o /\ effects' = [effects EXCEPT ![o] = @ + 1]

(* The executor, which may fail after it has written; the heartbeat that    *)
(* lost the lease does not stop it.                                         *)
Execute(w) ==
    /\ pc[w] = "execute"
    /\ \/ Apply(cur[w].op) /\ Goto(w, "executed") /\ UNCHANGED <<mode, cur, lost>>
       \/ (Apply(cur[w].op) \/ UNCHANGED resource) /\ lost[w] /\ Return(w)
       \/ /\ Apply(cur[w].op) \/ UNCHANGED resource
          /\ ~lost[w] /\ Goto(w, "release") /\ UNCHANGED <<mode, cur, lost>>
    /\ UNCHANGED <<entry, outcome, callers, list, faults, stalls>>

(* Mutant: a compare-and-set that matches nothing is not noticed. *)
CompleteSilently(w) ==
    /\ pc[w] = "executed"
    /\ \/ MarkTerminal(w, "done") /\ NoFault
       \/ MarkFails(w, "done")
    /\ ReturnOk(w)
    /\ UNCHANGED <<resource, calls, list, stalls>>

(* An operation whose lease is known to be lost is not marked. *)
Complete(w) ==
    /\ pc[w] = "executed"
    /\ \/ lost[w] /\ Return(w) /\ UNCHANGED <<entry, outcome, toldOk>> /\ NoFault
       \/ ~lost[w] /\ MarkTerminal(w, "done") /\ ReturnOk(w) /\ NoFault
       \/ ~lost[w] /\ MarkFails(w, "done") /\ Goto(w, "release") /\ UNCHANGED <<toldOk, mode, cur, lost>>
    /\ UNCHANGED <<resource, calls, list, stalls>>

Released(c) ==
    IF c.attempts >= MaxAttempts THEN SetFinal(c.op, "failed") ELSE SetStatus(c.op, "pending") /\ UNCHANGED outcome

(* releaseAfterFailure *)
Release(w) ==
    /\ pc[w] = "release" /\ Return(w)
    /\ \/ HoldsLease(cur[w]) /\ Released(cur[w]) /\ (NoFault \/ Fault)
       \/ ~HoldsLease(cur[w]) /\ UNCHANGED <<entry, outcome>> /\ NoFault
       \/ UNCHANGED <<entry, outcome>> /\ Fault
    /\ UNCHANGED <<resource, callers, list, stalls>>

(* startHeartbeat: a renewal brings back a lease that ran out and was not   *)
(* taken; the first one that fails or matches nothing loses it.             *)
Renew(w) ==
    /\ pc[w] \in Executing
    /\ \/ /\ HoldsLease(cur[w]) /\ entry[cur[w].op].lease = "expired" /\ NoFault
          /\ entry' = [entry EXCEPT ![cur[w].op].lease = "live"] /\ UNCHANGED lost
       \/ /\ ~HoldsLease(cur[w]) /\ ~lost[w] /\ NoFault
          /\ lost' = [lost EXCEPT ![w] = TRUE] /\ UNCHANGED entry
       \/ ~lost[w] /\ lost' = [lost EXCEPT ![w] = TRUE] /\ UNCHANGED entry /\ Fault
    /\ UNCHANGED <<resource, outcome, callers, pc, run, stalls>>

-----------------------------------------------------------------------------
(* Crashes and time *)

Crash(w) ==
    /\ pc[w] # "idle" /\ Fault
    /\ Leave(w, "idle")
    /\ UNCHANGED <<entry, resource, outcome, callers, list, stalls>>

Held(o) == \E w \in Runner : pc[w] \in Busy /\ cur[w].op = o /\ HoldsLease(cur[w])
LeaseRunsOut(o) ==
    /\ entry[o] # NoEntry /\ entry[o].lease = "live"
    /\ entry' = [entry EXCEPT ![o].lease = "expired"]
    /\ \/ ~Held(o) /\ UNCHANGED stalls
       \/ Held(o) /\ stalls < MaxStalls /\ stalls' = stalls + 1
    /\ UNCHANGED <<resource, outcome, callers, pc, run, lost, faults>>

GrowOld(o) ==
    /\ entry[o] # NoEntry /\ entry[o].status = "pending" /\ ~entry[o].old
    /\ entry' = [entry EXCEPT ![o].old = TRUE]
    /\ UNCHANGED <<resource, outcome, callers, pc, run, lost, faults, stalls>>

(* The TTL index removes a finished entry after a day; nobody answers the   *)
(* same interaction again by then.                                          *)
Purge(o) ==
    /\ o \in Purgeable /\ entry[o] # NoEntry /\ entry[o].status \in Terminal
    /\ entry' = [entry EXCEPT ![o] = NoEntry]
    /\ calls' = [calls EXCEPT ![o] = MaxCalls]
    /\ UNCHANGED <<resource, outcome, toldOk, pc, run, lost, faults, stalls>>

-----------------------------------------------------------------------------
RunnerStep(w) ==
    \/ \E o \in Op : Call(w, o)
    \/ ClaimCalled(w) \/ Read(w) \/ StartRecovery(w) \/ NextCandidate(w) \/ EndRecovery(w)
    \/ Reject(w) \/ Check(w) \/ Supersede(w) \/ Execute(w) \/ Complete(w) \/ Release(w)

Next ==
    \/ \E w \in Runner : RunnerStep(w) \/ Renew(w) \/ Crash(w)
    \/ \E o \in Op : LeaseRunsOut(o) \/ GrowOld(o) \/ Purge(o)

Spec == Init /\ [][Next]_vars

(* Executors return, the recovery is run again and again, and time passes. *)
Fairness == /\ \A w \in Runner : WF_vars(RunnerStep(w))
            /\ \A o \in Op : WF_vars(LeaseRunsOut(o)) /\ WF_vars(GrowOld(o))
FairSpec == Spec /\ Fairness

-----------------------------------------------------------------------------
(* Properties *)

(* Two runners never execute one operation at once, unless a lease ran out *)
(* under its runner: neither a retry of the call, nor the recovery of       *)
(* another process, nor a heartbeat that gave up overlaps with a live one.  *)
OneExecutor ==
    stalls = 0 => \A v, w \in Runner :
        pc[v] \in Executing /\ pc[w] \in Executing /\ cur[v].op = cur[w].op => v = w

(* Whatever runs out, at most one runner can still mark or release an      *)
(* entry.                                                                  *)
OneLeaseHolder ==
    \A v, w \in Runner :
        pc[v] \in Busy /\ pc[w] \in Busy /\ cur[v].op = cur[w].op
            /\ HoldsLease(cur[v]) /\ HoldsLease(cur[w]) => v = w

(* A caller that was told of a success can rely on it: the operation was   *)
(* executed, or one that replaces it was recorded before it could run.     *)
OkMeansDone ==
    \A o \in toldOk : \/ outcome[o] = "done" /\ effects[o] > 0
                      \/ outcome[o] = "superseded" /\ \E n \in Op : n > o /\ calls[n] > 0

(* An operation is given up only after all its attempts, and none of them  *)
(* executes it twice.                                                      *)
AttemptsCounted ==
    \A o \in Op : entry[o] # NoEntry =>
        /\ effects[o] <= entry[o].attempts
        /\ entry[o].status = "failed" => entry[o].attempts = MaxAttempts \/ o \in Unreadable

(* A finished entry stays as it is until the TTL index removes it. *)
FinalIsFinal ==
    \A o \in Op : entry[o] # NoEntry /\ entry[o].status \in Terminal => entry'[o] \in {entry[o], NoEntry}
FinishedStaysFinished == [][FinalIsFinal]_vars

(* No operation starts to execute once a newer one on its resource is done: *)
(* what was left behind is not applied over it.                             *)
StartsNewest ==
    \A w \in Runner : pc[w] = "check" /\ pc'[w] = "execute" =>
        ~ \E n \in Op : n > cur[w].op /\ outcome[n] = "done"
NoRerunOverNewer == [][StartsNewest]_vars

(* Every recorded operation is eventually done, superseded or given up. *)
EveryOperationEnds ==
    \A o \in Op : (entry[o] # NoEntry /\ entry[o].status \in Open)
                      ~> ~(entry[o] # NoEntry /\ entry[o].status \in Open)

-----------------------------------------------------------------------------
(* The inductive invariant of the proofs *)

(* An entry has a lease while it is leased, and its version counts its     *)
(* attempts.                                                               *)
EntriesInv ==
    \A o \in Op : entry[o] # NoEntry =>
        /\ entry[o].version = entry[o].attempts
        /\ entry[o].lease # "none" <=> entry[o].status = "leased"

(* So do the copies; a recovery lists only what is not finished. *)
CopiesInv ==
    \A w \in Runner :
        /\ \A c \in list[w] : c.version = c.attempts /\ c.status \in Open
        /\ pc[w] \in Busy \cup {"claim", "read"} => cur[w] \in Copy
        /\ pc[w] \in Busy => cur[w].version = cur[w].attempts
        /\ pc[w] = "reject" => cur[w].op \in Unreadable
        /\ pc[w] = "next" => mode[w] = "recovery"

(* No version is issued twice: an entry that is gone is never recorded      *)
(* again, a copy is not newer than its entry, no two runners have the same. *)
VersionsInv ==
    /\ \A w \in Runner : pc[w] \in Busy =>
          IF entry[cur[w].op] = NoEntry THEN calls[cur[w].op] = MaxCalls
                                        ELSE cur[w].version <= entry[cur[w].op].version
    /\ \A v, w \in Runner :
          pc[v] \in Busy /\ pc[w] \in Busy /\ cur[v].op = cur[w].op /\ cur[v].version = cur[w].version => v = w

(* What the final status of an operation tells of its effects. *)
Known(o) == calls[o] > 0
OutcomesInv ==
    /\ \A o \in Op :
          /\ entry[o] # NoEntry => Known(o) /\ outcome[o] = IF entry[o].status \in Terminal THEN entry[o].status ELSE "none"
          /\ entry[o] = NoEntry /\ calls[o] < MaxCalls => outcome[o] = "none" /\ effects[o] = 0
          /\ outcome[o] = "done" => effects[o] > 0
          /\ outcome[o] = "superseded" => \E n \in Op : n > o /\ Known(n)
    /\ \A w \in Runner :
          /\ pc[w] = "executed" => effects[cur[w].op] > 0
          /\ pc[w] = "supersede" => \E n \in Op : n > cur[w].op /\ Known(n)

(* Every effect, and every execution to come, has an attempt of its own. *)
ToExecute(o) == {w \in Runner : pc[w] \in {"check", "execute"} /\ cur[w].op = o}
Attempts(o) == IF entry[o] = NoEntry THEN MaxAttempts ELSE entry[o].attempts
AttemptsInv ==
    \A o \in Op : IsFiniteSet(ToExecute(o)) /\ effects[o] + Cardinality(ToExecute(o)) <= Attempts(o)

(* Until a lease runs out under its runner, whoever acts on an operation is *)
(* alone and has its live lease, or the operation is finished.             *)
AloneInv ==
    stalls = 0 =>
        /\ \A v, w \in Runner : pc[v] \in Busy /\ pc[w] \in Busy /\ cur[v].op = cur[w].op => v = w
        /\ \A w \in Runner : pc[w] \in Busy /\ entry[cur[w].op] # NoEntry =>
              \/ HoldsLease(cur[w]) /\ entry[cur[w].op].lease = "live"
              \/ entry[cur[w].op].status \in Terminal

(* All of it together: leases, versions, outcomes and attempts agree with   *)
(* each other and with what every runner still has to do.                   *)
JournalInv == TypeOK /\ EntriesInv /\ CopiesInv /\ VersionsInv /\ OutcomesInv /\ AttemptsInv /\ AloneInv

-----------------------------------------------------------------------------
(* What the tests of the journal say (see the README). *)

(* The recovery takes a lease that ran out, never an active one. *)
LiveLeaseKept ==
    \A w \in Runner : \A o \in Op :
        list'[w] # list[w] /\ entry[o] # NoEntry /\ entry[o].lease = "live" => entry'[o] = entry[o]
ActiveLeaseKept == [][LiveLeaseKept]_vars

(* The recovery does not apply an operation over one that came after it on *)
(* the same resource and is done.                                          *)
RecoversNewest ==
    \A w \in Runner : pc[w] = "check" /\ pc'[w] = "execute" /\ mode[w] = "recovery" =>
        ~ \E n \in Op : n > cur[w].op /\ outcome[n] = "done"
RecoveryKeepsNewer == [][RecoversNewest]_vars
=============================================================================
