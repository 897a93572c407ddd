------------------------------ MODULE MCDbLock ------------------------------
(***************************************************************************)
(* The lock for TLC, twice: with timers and calls that are late by Delay   *)
(* at most, and (in the variables x_...) with an event loop, a host or a   *)
(* connection that may stall, on short leases and a short clock.  A        *)
(* behaviour is one of one of the two.                                     *)
(***************************************************************************)
EXTENDS DbLock, TLC

VARIABLES timely,
          x_now, x_doc, x_issued, x_pc, x_token, x_call, x_due, x_errs, x_renewals, x_lost, x_down

xVars == <<x_now, x_doc, x_issued, x_pc, x_token, x_call, x_due, x_errs, x_renewals, x_lost, x_down>>

X == INSTANCE DbLock WITH
    TTL <- 2, Interval <- 1, Delay <- 0, MaxTime <- 4,
    now <- x_now, doc <- x_doc, issued <- x_issued, pc <- x_pc, token <- x_token, call <- x_call,
    due <- x_due, errs <- x_errs, renewals <- x_renewals, lost <- x_lost, down <- x_down

BothInit == timely \in BOOLEAN /\ Init /\ X!Init
BothNext ==
    \/ timely /\ TimelyNext /\ UNCHANGED <<timely, xVars>>
    \/ ~timely /\ X!Next /\ UNCHANGED <<timely, vars>>
BothSpec == BothInit /\ [][BothNext]_<<timely, vars, xVars>>

Symmetry == Permutations(Proc)

(* The heartbeat never dies silently, however late its timers and replies  *)
(* are.                                                                    *)
AliveWhenLate == X!HeartbeatAlive

(* A lock leaves its owner only when its lease has run out or by a release *)
(* of its owner, however late the timers and replies are.                  *)
OwnerKeepsLockLate == X!OwnerKeepsLock
=============================================================================
