---------------------------- MODULE MCDbLock_proofs ----------------------------
(***************************************************************************)
(* What the two halves of MCDbLock promise follows from the theorems about *)
(* the lock: those of the timely half from LeaseInvariant and              *)
(* DbLockImplementsMutex, those of the half without any timing from        *)
(* HeartbeatLives and OwnerIsSafe, which P states of its variables.        *)
(***************************************************************************)
EXTENDS MCDbLock, TLAPS

P == INSTANCE DbLock_proofs WITH
    TTL <- 2, Interval <- 1, Delay <- 0, MaxTime <- 4,
    now <- x_now, doc <- x_doc, issued <- x_issued, pc <- x_pc, token <- x_token, call <- x_call,
    due <- x_due, errs <- x_errs, renewals <- x_renewals, lost <- x_lost, down <- x_down

LEMMA LateTimes == P!TimesAssumption /\ P!HeartbeatFits
  BY TimesAssumption DEF P!TimesAssumption, P!HeartbeatFits

(* P and X instantiate the same definitions. *)
LEMMA SameStart == X!Init <=> P!Init
  BY DEF X!Init, P!Init, X!NoDoc, P!NoDoc, X!NoToken, P!NoToken, X!Off, P!Off

LEMMA SameSteps == X!Next <=> P!Next
  BY DEF X!Next, X!Step, X!ProcessStep, X!RenewalStep, X!AcquireSend, X!AcquireApply, X!AcquireWon, X!AcquireLost,
         X!Tick, X!WorkDone, X!ReleaseApply, X!ReleaseEnd, X!BeginShutdown, X!Crash, X!Advance, X!RenewApply, X!RenewYes,
         X!RenewNo, X!RenewError, X!Rearm, X!Current, X!CanTake, X!heartbeat, X!NoDoc, X!NoToken, X!Off, X!AbortAt,
         P!Next, P!Step, P!ProcessStep, P!RenewalStep, P!AcquireSend, P!AcquireApply, P!AcquireWon, P!AcquireLost,
         P!Tick, P!WorkDone, P!ReleaseApply, P!ReleaseEnd, P!BeginShutdown, P!Crash, P!Advance, P!RenewApply, P!RenewYes,
         P!RenewNo, P!RenewError, P!Rearm, P!Current, P!CanTake, P!heartbeat, P!NoDoc, P!NoToken, P!Off, P!AbortAt

(* The half without timing is the lock without timing. *)
LEMMA LateIsLock == BothSpec => P!Spec
<1>1. BothInit => P!Init
  BY SameStart DEF BothInit
<1>2. X!Next \/ UNCHANGED xVars => [P!Next]_(P!vars)
  BY SameSteps DEF xVars, P!vars, P!heartbeat
<1>3. [BothNext]_<<timely, vars, xVars>> => X!Next \/ UNCHANGED xVars
  BY DEF BothNext
<1> QED
  BY <1>1, <1>2, <1>3, PTL DEF BothSpec, P!Spec

(* However late its timers and replies are, a heartbeat never dies         *)
(* silently.                                                               *)
THEOREM AliveHoweverLate == BothSpec => []AliveWhenLate
<1>1. P!Spec => []P!HeartbeatAlive
  BY LateTimes, P!HeartbeatLives, PTL
<1>2. P!HeartbeatAlive => AliveWhenLate
  BY DEF AliveWhenLate, X!HeartbeatAlive, P!HeartbeatAlive, X!Working, P!Working, X!Off, P!Off
<1> QED
  BY <1>1, <1>2, LateIsLock, PTL

(* However late they are, a lock leaves its owner only when its lease has  *)
(* run out or its owner releases it.                                       *)
THEOREM OwnerKeepsLockHoweverLate == BothSpec => OwnerKeepsLockLate
<1>1. P!Spec => P!OwnerKeepsLock
  BY LateTimes, P!OwnerIsSafe, PTL
<1>2. [P!LockLeavesOwner]_(P!vars) => [X!LockLeavesOwner]_(X!vars)
  BY DEF P!LockLeavesOwner, X!LockLeavesOwner, X!vars, P!vars, X!heartbeat, P!heartbeat, X!NoDoc, P!NoDoc,
         X!NoToken, P!NoToken
<1> QED
  BY <1>1, <1>2, LateIsLock, PTL DEF OwnerKeepsLockLate, X!OwnerKeepsLock, P!OwnerKeepsLock
================================================================================
