------------------------------- MODULE DbLock -------------------------------
(***************************************************************************)
(* The lease lock kept in MongoDB (infra/mongo/locks.ts) and the heartbeat *)
(* that renews it while a job runs (app/scheduler/lockHeartbeat.ts), used  *)
(* in the same way by the cron cycle, the outbox worker and the other      *)
(* scheduled jobs: acquire, start the heartbeat, work, stop the heartbeat, *)
(* release.                                                                *)
(*                                                                         *)
(* One lock name is modelled.  A call to the database is three steps: the  *)
(* process sends it, the server applies it, the process sees the reply or  *)
(* an error; an error may come after the server has applied the call.      *)
(* The processes' clocks are one variable, now.                            *)
(***************************************************************************)
EXTENDS Integers, FiniteSets

CONSTANTS Proc,       \* the processes that compete for the lock
          TTL,        \* lockTtlMs: how long a lease lasts after an acquire or a renewal
          Interval,   \* heartbeatIntervalMs
          Delay,      \* how late a timer or a reply may be (TimelySpec only)
          MaxTime,    \* bound on the clock
          MaxToken    \* bound on the tokens issued

ASSUME TimesAssumption == /\ TTL \in Nat /\ Interval \in Nat \ {0} /\ Delay \in Nat
                          /\ MaxTime \in Nat /\ MaxToken \in Nat

(* heartbeatIntervalMs is a third of lockTtlMs, so what is left of the     *)
(* lease after two ticks must cover five late timers and replies.          *)
ASSUME HeartbeatFits == 2 * Interval + 5 * Delay <= TTL

AbortAt == 2          \* abortAtConsecutiveErrors
NoToken == 0
Off == -1             \* no timer armed
NoDoc == [owner |-> NoToken, until |-> -1]   \* no document: free at any time

VARIABLES now,        \* Date.now() of every process
          doc,        \* the lock document: ownerToken and lockedUntil
          issued,     \* crypto.randomUUID(): every token is a new one
          pc,         \* where the job of a process is
          token,      \* the token the process acquired, or is acquiring, with
          call,       \* the acquire or release call in flight
          due,        \* when the heartbeat timer fires
          errs,       \* consecutiveErrors of the running heartbeat
          renewals,   \* the renewDbLock calls in flight
          lost,       \* lostLock, or the abort signal of the cycle
          down        \* lifecycle.isShuttingDown

vars == <<now, doc, issued, pc, token, call, due, errs, renewals, lost, down>>
heartbeat == <<due, errs, renewals, lost>>

Token == NoToken .. MaxToken
Time == 0 .. MaxTime
Reply == {"none", "yes", "no"}
Renewal == [proc : Proc, token : Token, at : Time, errs : 0 .. AbortAt - 1, reply : Reply]

TypeOK ==
    /\ now \in Time
    /\ doc \in [owner : Token, until : -1 .. (MaxTime + TTL)]
    /\ issued \in Token
    /\ pc \in [Proc -> {"idle", "acquiring", "working", "releasing"}]
    /\ token \in [Proc -> Token]
    /\ call \in [Proc -> [at : Time, reply : Reply]]
    /\ due \in [Proc -> {Off} \cup (0 .. (MaxTime + Interval))]
    /\ errs \in [Proc -> 0 .. AbortAt - 1]
    /\ renewals \subseteq Renewal
    /\ lost \in [Proc -> BOOLEAN]
    /\ down \in [Proc -> BOOLEAN]

(* The job of p runs and nothing has told it to stop. *)
Working(p) == pc[p] = "working" /\ ~lost[p] /\ ~down[p]

Init ==
    /\ now = 0
    /\ doc = NoDoc
    /\ issued = 0
    /\ pc = [p \in Proc |-> "idle"]
    /\ token = [p \in Proc |-> NoToken]
    /\ call = [p \in Proc |-> [at |-> 0, reply |-> "none"]]
    /\ due = [p \in Proc |-> Off]
    /\ errs = [p \in Proc |-> 0]
    /\ renewals = {}
    /\ lost = [p \in Proc |-> FALSE]
    /\ down = [p \in Proc |-> FALSE]

-----------------------------------------------------------------------------
(* acquireDbLock *)

(* now, expires and the token are computed before the call leaves. *)
AcquireSend(p) ==
    /\ pc[p] = "idle" /\ ~down[p] /\ issued < MaxToken
    /\ issued' = issued + 1
    /\ token' = [token EXCEPT ![p] = issued + 1]
    /\ call' = [call EXCEPT ![p] = [at |-> now, reply |-> "none"]]
    /\ pc' = [pc EXCEPT ![p] = "acquiring"]
    /\ UNCHANGED <<now, doc, heartbeat, down>>

(* The filter of findOneAndUpdate: no document, or its lease ended before *)
(* the caller's now.                                                      *)
CanTake(at) == doc = NoDoc \/ doc.until < at

(* The upsert of a document that is still leased is a duplicate key. *)
AcquireApply(p) ==
    /\ pc[p] = "acquiring" /\ call[p].reply = "none"
    /\ \/ /\ CanTake(call[p].at)
          /\ doc' = [owner |-> token[p], until |-> call[p].at + TTL]
          /\ call' = [call EXCEPT ![p].reply = "yes"]
       \/ /\ ~CanTake(call[p].at)
          /\ call' = [call EXCEPT ![p].reply = "no"]
          /\ UNCHANGED doc
    /\ UNCHANGED <<now, issued, pc, token, heartbeat, down>>

(* The caller starts its heartbeat with the token. *)
AcquireWon(p) ==
    /\ pc[p] = "acquiring" /\ call[p].reply = "yes"
    /\ pc' = [pc EXCEPT ![p] = "working"]
    /\ due' = [due EXCEPT ![p] = now + Interval]
    /\ errs' = [errs EXCEPT ![p] = 0]
    /\ lost' = [lost EXCEPT ![p] = FALSE]
    /\ UNCHANGED <<now, doc, issued, token, call, renewals, down>>

(* The lock is held by another process, or the call failed: applied or not, *)
(* the caller gives up and its token is forgotten.                          *)
AcquireLost(p) ==
    /\ pc[p] = "acquiring"
    /\ pc' = [pc EXCEPT ![p] = "idle"]
    /\ token' = [token EXCEPT ![p] = NoToken]
    /\ UNCHANGED <<now, doc, issued, call, heartbeat, down>>

-----------------------------------------------------------------------------
(* The heartbeat: tick, and the renewDbLock call it awaits *)

(* A tick of a process that shuts down returns without renewing. *)
Tick(p) ==
    /\ due[p] # Off /\ due[p] <= now
    /\ due' = [due EXCEPT ![p] = Off]
    /\ renewals' = IF down[p] THEN renewals
                   ELSE renewals \cup {[proc |-> p, token |-> token[p], at |-> now,
                                        errs |-> errs[p], reply |-> "none"]}
    /\ UNCHANGED <<now, doc, issued, pc, token, call, errs, lost, down>>

(* renewDbLock: only the owner's token matches; the lease restarts from the *)
(* time the call was made.                                                  *)
RenewApply(r) ==
    /\ r.reply = "none"
    /\ \/ /\ doc.owner = r.token
          /\ doc' = [doc EXCEPT !.until = r.at + TTL]
          /\ renewals' = (renewals \ {r}) \cup {[r EXCEPT !.reply = "yes"]}
       \/ /\ doc.owner # r.token
          /\ renewals' = (renewals \ {r}) \cup {[r EXCEPT !.reply = "no"]}
          /\ UNCHANGED doc
    /\ UNCHANGED <<now, issued, pc, token, call, due, errs, lost, down>>

(* activeToken === token: the heartbeat that sent r has not been stopped. *)
Current(r) == pc[r.proc] = "working" /\ token[r.proc] = r.token

(* setTimeout(tick, heartbeatIntervalMs) at the end of a tick, with the     *)
(* closure's error count.                                                   *)
Rearm(r, count) ==
    IF Current(r) /\ ~down[r.proc]
    THEN /\ due' = [due EXCEPT ![r.proc] = now + Interval]
         /\ errs' = [errs EXCEPT ![r.proc] = count]
    ELSE UNCHANGED <<due, errs>>

RenewYes(r) ==
    /\ r.reply = "yes"
    /\ renewals' = renewals \ {r}
    /\ Rearm(r, 0)
    /\ UNCHANGED <<now, doc, issued, pc, token, call, lost, down>>

(* onLost(), also when the heartbeat has been stopped meanwhile. *)
RenewNo(r) ==
    /\ r.reply = "no"
    /\ renewals' = renewals \ {r}
    /\ lost' = [lost EXCEPT ![r.proc] = TRUE]
    /\ UNCHANGED <<now, doc, issued, pc, token, call, due, errs, down>>

(* Mutant: consecutive errors are tolerated without end. *)
RenewErrorNeverAborts(r) ==
    /\ renewals' = renewals \ {r}
    /\ Rearm(r, r.errs + 1)
    /\ UNCHANGED <<now, doc, issued, pc, token, call, lost, down>>

(* Mutant: the timer is not armed again after the first error. *)
RenewErrorStops(r) ==
    /\ renewals' = renewals \ {r}
    /\ lost' = [lost EXCEPT ![r.proc] = @ \/ r.errs + 1 >= AbortAt]
    /\ UNCHANGED <<now, doc, issued, pc, token, call, due, errs, down>>

(* The call threw, before or after the server applied it. *)
RenewError(r) ==
    /\ renewals' = renewals \ {r}
    /\ \/ /\ r.errs + 1 >= AbortAt
          /\ lost' = [lost EXCEPT ![r.proc] = TRUE]
          /\ UNCHANGED <<due, errs>>
       \/ /\ r.errs + 1 < AbortAt
          /\ Rearm(r, r.errs + 1)
          /\ UNCHANGED lost
    /\ UNCHANGED <<now, doc, issued, pc, token, call, down>>

-----------------------------------------------------------------------------
(* The end of the job, and releaseDbLock *)

(* Mutant: the heartbeat is not stopped. *)
WorkDoneKeepsTimer(p) ==
    /\ pc[p] = "working"
    /\ pc' = [pc EXCEPT ![p] = "releasing"]
    /\ call' = [call EXCEPT ![p] = [at |-> now, reply |-> "none"]]
    /\ UNCHANGED <<now, doc, issued, token, heartbeat, down>>

(* The job ends, by itself or because it saw that it must abort: the        *)
(* heartbeat is stopped and the release is sent.                            *)
WorkDone(p) ==
    /\ pc[p] = "working"
    /\ pc' = [pc EXCEPT ![p] = "releasing"]
    /\ due' = [due EXCEPT ![p] = Off]
    /\ call' = [call EXCEPT ![p] = [at |-> now, reply |-> "none"]]
    /\ UNCHANGED <<now, doc, issued, token, errs, renewals, lost, down>>

(* Mutant: deleteOne by lock name only. *)
ReleaseApplyAnyOwner(p) ==
    /\ pc[p] = "releasing" /\ call[p].reply = "none"
    /\ doc' = NoDoc
    /\ call' = [call EXCEPT ![p].reply = "yes"]
    /\ UNCHANGED <<now, issued, pc, token, heartbeat, down>>

(* deleteOne by owner token. *)
ReleaseApply(p) ==
    /\ pc[p] = "releasing" /\ call[p].reply = "none"
    /\ doc' = IF doc.owner = token[p] THEN NoDoc ELSE doc
    /\ call' = [call EXCEPT ![p].reply = "yes"]
    /\ UNCHANGED <<now, issued, pc, token, heartbeat, down>>

(* A failed release is logged and forgotten: the lease runs out. *)
ReleaseEnd(p) ==
    /\ pc[p] = "releasing"
    /\ pc' = [pc EXCEPT ![p] = "idle"]
    /\ token' = [token EXCEPT ![p] = NoToken]
    /\ UNCHANGED <<now, doc, issued, call, heartbeat, down>>

-----------------------------------------------------------------------------
(* The process and the clock *)

BeginShutdown(p) ==
    /\ ~down[p]
    /\ down' = [down EXCEPT ![p] = TRUE]
    /\ UNCHANGED <<now, doc, issued, pc, token, call, heartbeat>>

(* A crash and a restart: what the process kept in memory is gone. *)
Crash(p) ==
    /\ pc' = [pc EXCEPT ![p] = "idle"]
    /\ token' = [token EXCEPT ![p] = NoToken]
    /\ due' = [due EXCEPT ![p] = Off]
    /\ renewals' = {r \in renewals : r.proc # p}
    /\ lost' = [lost EXCEPT ![p] = FALSE]
    /\ down' = [down EXCEPT ![p] = FALSE]
    /\ UNCHANGED <<now, doc, issued, call, errs>>

Advance == now < MaxTime /\ now' = now + 1 /\ UNCHANGED <<doc, issued, pc, token, call, heartbeat, down>>

(* No timer, and no call a job waits for, is later than Delay. *)
Timely ==
    /\ \A p \in Proc : /\ pc[p] = "acquiring" => now < call[p].at + Delay
                       /\ due[p] # Off => now < due[p] + Delay
    /\ \A r \in renewals : now < r.at + Delay

ProcessStep(p) ==
    \/ AcquireSend(p) \/ AcquireApply(p) \/ AcquireWon(p) \/ AcquireLost(p)
    \/ Tick(p) \/ WorkDone(p) \/ ReleaseApply(p) \/ ReleaseEnd(p)
    \/ BeginShutdown(p) \/ Crash(p)

RenewalStep(r) == RenewApply(r) \/ RenewYes(r) \/ RenewNo(r) \/ RenewError(r)

Step == (\E p \in Proc : ProcessStep(p)) \/ (\E r \in renewals : RenewalStep(r))

(* Timers and calls may be arbitrarily late: an event loop that stalls, a  *)
(* host that is suspended, a connection that hangs.                        *)
Next == Step \/ Advance
Spec == Init /\ [][Next]_vars

(* They are late by Delay at most. *)
TimelyNext == Step \/ (Timely /\ Advance)
TimelySpec == Init /\ [][TimelyNext]_vars

-----------------------------------------------------------------------------
(* Properties *)

(* Two processes never both work under the lock without one of them having *)
(* been told to stop: when timers and replies are late by Delay at most,   *)
(* the heartbeat's two consecutive errors come before the lease runs out.  *)
OneWorker == \A p, q \in Proc : Working(p) /\ Working(q) => p = q

(* The heartbeat never dies silently: a process that works without having  *)
(* been told to stop has a renewal ahead of it or in flight, whatever      *)
(* errors the renewals met.                                                *)
HeartbeatAlive ==
    \A p \in Proc : Working(p) =>
        due[p] # Off \/ \E r \in renewals : r.proc = p /\ r.token = token[p]

(* A lock leaves its owner only after its lease has run out, or by a       *)
(* release of the process that holds the owner's token: the late release   *)
(* or renewal of a former owner touches nobody else's lock.                *)
LockLeavesOwner ==
    doc # NoDoc /\ doc'.owner # doc.owner =>
        \/ doc.until < now
        \/ \E p \in Proc : pc[p] = "releasing" /\ token[p] = doc.owner
OwnerKeepsLock == [][LockLeavesOwner]_vars

(* The workers are the holders of an abstract mutual exclusion.            *)
Workers == {p \in Proc : Working(p)}
Exclusion == INSTANCE Mutex WITH holders <- Workers
ImplementsMutex == Exclusion!Spec

-----------------------------------------------------------------------------
(* The inductive invariant of TimelySpec *)

(* Tokens name one acquisition of one process. *)
TokensUnique ==
    /\ doc.owner <= issued
    /\ \A p \in Proc : token[p] <= issued /\ (pc[p] = "idle" <=> token[p] = NoToken)
    /\ \A p, q \in Proc : token[p] = token[q] /\ token[p] # NoToken => p = q
    /\ \A r \in renewals : /\ r.token <= issued /\ r.token # NoToken
                           /\ \A q \in Proc : token[q] = r.token => q = r.proc /\ pc[q] # "acquiring"

(* Nothing is later than Delay. *)
OnTime ==
    /\ \A p \in Proc : /\ pc[p] = "acquiring" => call[p].at <= now /\ now <= call[p].at + Delay
                       /\ due[p] # Off => now <= due[p] + Delay
    /\ \A r \in renewals : r.at <= now /\ now <= r.at + Delay

(* A heartbeat has its timer armed or one renewal in flight, never both. *)
OneHeartbeat ==
    /\ \A p \in Proc : due[p] # Off =>
           pc[p] = "working" /\ \A r \in renewals : r.token # token[p]
    /\ \A r, s \in renewals : r.token = s.token /\ Current(r) => r = s

(* What is left of the lease when the timer is armed, or a renewal sent,    *)
(* after the given number of consecutive errors.                            *)
TimerMargin(count) == IF count = 0 THEN Interval + 4 * Delay ELSE 2 * Delay
CallMargin(count) == IF count = 0 THEN Interval + 3 * Delay ELSE Delay

(* Whoever works, or is about to, owns the document, and its lease lasts    *)
(* until the process has either renewed it or given it up.                  *)
AcquiredCovered ==
    \A p \in Proc : pc[p] = "acquiring" /\ call[p].reply = "yes" =>
        doc.owner = token[p] /\ doc.until = call[p].at + TTL
WorkCovered ==
    \A p \in Proc : Working(p) =>
        /\ doc.owner = token[p]
        /\ due[p] # Off => due[p] + TimerMargin(errs[p]) <= doc.until
        /\ \A r \in renewals : r.token = token[p] =>
              /\ r.reply \in {"none", "yes"}
              /\ r.reply = "none" => r.at + CallMargin(r.errs) <= doc.until
              /\ r.reply = "yes" => r.at + TTL <= doc.until

LeaseInv ==
    /\ TypeOK /\ TokensUnique /\ OnTime /\ OneHeartbeat /\ HeartbeatAlive
    /\ AcquiredCovered /\ WorkCovered
=============================================================================
