---------------------------- MODULE DbLock_proofs ----------------------------
(***************************************************************************)
(* For every set of processes and every TTL, Interval and Delay with       *)
(* HeartbeatFits: LeaseInv is inductive for TimelySpec, hence two          *)
(* processes never both work under the lock (OneWorker), and DbLock        *)
(* implements Mutex.                                                       *)
(***************************************************************************)
EXTENDS DbLock, TLAPS

USE DEF AbortAt, NoToken, Off

-----------------------------------------------------------------------------
(* The type invariant, of both specifications *)

LEMMA InitType == Init => TypeOK
  BY TimesAssumption DEF Init, TypeOK, NoDoc, Time, Token, Reply

LEMMA ProcessStepType ==
    ASSUME TypeOK, NEW p \in Proc, ProcessStep(p) PROVE TypeOK'
  <1> USE TimesAssumption DEF TypeOK, heartbeat, Time, Token, Reply
  <1>1. CASE AcquireSend(p)
    BY <1>1 DEF AcquireSend
  <1>2. CASE AcquireApply(p)
    <2>1. call[p].at + TTL \in 0 .. (MaxTime + TTL)
      OBVIOUS
    <2>2. doc' \in [owner : Token, until : -1 .. (MaxTime + TTL)]
      BY <1>2, <2>1 DEF AcquireApply
    <2>3. call' \in [Proc -> [at : Time, reply : Reply]]
      BY <1>2 DEF AcquireApply
    <2> QED
      BY <1>2, <2>2, <2>3 DEF AcquireApply
  <1>3. CASE AcquireWon(p)
    BY <1>3 DEF AcquireWon
  <1>4. CASE AcquireLost(p)
    BY <1>4 DEF AcquireLost
  <1>5. CASE Tick(p)
    BY <1>5 DEF Tick, Renewal
  <1>6. CASE WorkDone(p)
    BY <1>6 DEF WorkDone
  <1>7. CASE ReleaseApply(p)
    BY <1>7 DEF ReleaseApply, NoDoc
  <1>8. CASE ReleaseEnd(p)
    BY <1>8 DEF ReleaseEnd
  <1>9. CASE BeginShutdown(p)
    BY <1>9 DEF BeginShutdown
  <1>10. CASE Crash(p)
    BY <1>10 DEF Crash
  <1> QED BY <1>1, <1>2, <1>3, <1>4, <1>5, <1>6, <1>7, <1>8, <1>9, <1>10 DEF ProcessStep

LEMMA RenewalStepType ==
    ASSUME TypeOK, NEW r \in renewals, RenewalStep(r) PROVE TypeOK'
  <1> USE TimesAssumption DEF TypeOK, Time, Token, Reply
  <1>1. CASE RenewApply(r)
    <2>1. r \in Renewal /\ r.at \in Time
      BY DEF Renewal
    <2>2. \A x \in {"yes", "no"} : [r EXCEPT !.reply = x] \in Renewal
      BY <2>1 DEF Renewal
    <2>3. renewals' \subseteq Renewal
      BY <1>1, <2>2 DEF RenewApply
    <2>4. doc' \in [owner : Token, until : -1 .. (MaxTime + TTL)]
      BY <1>1, <2>1 DEF RenewApply
    <2> QED BY <1>1, <2>3, <2>4 DEF RenewApply
  <1>2. CASE RenewYes(r)
    BY <1>2 DEF RenewYes, Rearm, Current, Renewal
  <1>3. CASE RenewNo(r)
    BY <1>3 DEF RenewNo, Renewal
  <1>4. CASE RenewError(r)
    <2>1. r.proc \in Proc /\ r.errs \in 0 .. 1
      BY DEF Renewal
    <2>2. lost' \in [Proc -> BOOLEAN]
      BY <1>4, <2>1 DEF RenewError
    <2>3. due' \in [Proc -> {Off} \cup (0 .. (MaxTime + Interval))]
      BY <1>4, <2>1 DEF RenewError, Rearm
    <2>4. errs' \in [Proc -> 0 .. AbortAt - 1]
      BY <1>4, <2>1 DEF RenewError, Rearm
    <2> QED BY <1>4, <2>2, <2>3, <2>4 DEF RenewError
  <1> QED BY <1>1, <1>2, <1>3, <1>4 DEF RenewalStep
-----------------------------------------------------------------------------
(* The conjuncts of LeaseInv, one lemma per action *)

(* The lease of a process that works, or has acquired, has not run out, so  *)
(* nobody can take the lock.                                               *)
LEMMA NotTaken ==
    ASSUME LeaseInv, NEW p \in Proc, NEW q \in Proc, pc[q] = "acquiring",
           Working(p) \/ (pc[p] = "acquiring" /\ call[p].reply = "yes")
    PROVE  ~CanTake(call[q].at)
  <1> USE TimesAssumption, HeartbeatFits DEF LeaseInv, TypeOK, Renewal, Token, Time, Reply
  <1>1. call[q].at <= now
    BY DEF OnTime
  <1>2. doc # NoDoc
    BY DEF WorkCovered, AcquiredCovered, Working, TokensUnique, NoDoc
  <1>3. now <= doc.until
    <2>1. CASE pc[p] = "acquiring"
      BY <2>1 DEF AcquiredCovered, OnTime, Working
    <2>2. CASE Working(p) /\ due[p] # Off
      BY <2>2 DEF WorkCovered, OnTime, TimerMargin
    <2>3. CASE Working(p) /\ due[p] = Off
      <3>1. PICK r \in renewals : r.proc = p /\ r.token = token[p]
        BY <2>3 DEF HeartbeatAlive
      <3>2. now <= r.at + Delay
        BY DEF OnTime
      <3>3. r.at + Delay <= doc.until
        BY <2>3, <3>1 DEF WorkCovered, CallMargin
      <3> QED BY <3>2, <3>3
    <2> QED BY <2>1, <2>2, <2>3
  <1> QED BY <1>1, <1>2, <1>3 DEF CanTake

LEMMA AcquireSendLease ==
    ASSUME LeaseInv, TypeOK', NEW p \in Proc, AcquireSend(p) PROVE LeaseInv'
  <1> USE TimesAssumption, HeartbeatFits DEF LeaseInv, TypeOK, Renewal, Token, Time, Reply, AcquireSend, heartbeat
  <1>1. TokensUnique'
    BY DEF TokensUnique
  <1>2. OnTime'
    BY DEF OnTime, TokensUnique
  <1>3. OneHeartbeat'
    BY DEF OneHeartbeat, TokensUnique, Current
  <1>4. HeartbeatAlive'
    BY DEF HeartbeatAlive, Working, OneHeartbeat, Current, TokensUnique
  <1>5. AcquiredCovered'
    BY DEF AcquiredCovered, TokensUnique, OnTime
  <1>6. WorkCovered'
    BY DEF WorkCovered, AcquiredCovered, Working, TokensUnique, OnTime, OneHeartbeat, HeartbeatAlive, TimerMargin, CallMargin
  <1> QED BY <1>1, <1>2, <1>3, <1>4, <1>5, <1>6

LEMMA AcquireApplyLease ==
    ASSUME LeaseInv, TypeOK', NEW p \in Proc, AcquireApply(p) PROVE LeaseInv'
  <1> USE TimesAssumption, HeartbeatFits DEF LeaseInv, TypeOK, Renewal, Token, Time, Reply, AcquireApply, heartbeat
  <1>1. TokensUnique'
    BY DEF TokensUnique
  <1>2. OnTime'
    <2>1. UNCHANGED <<now, pc, due, renewals>> /\ \A q \in Proc : call'[q].at = call[q].at
      OBVIOUS
    <2> HIDE DEF AcquireApply
    <2> QED BY <2>1 DEF OnTime
  <1>3. OneHeartbeat'
    BY DEF OneHeartbeat, TokensUnique, Current
  <1>4. HeartbeatAlive'
    BY DEF HeartbeatAlive, Working, OneHeartbeat, Current, TokensUnique
  <1>5. AcquiredCovered'
    <2> SUFFICES ASSUME NEW q \in Proc, (pc[q] = "acquiring" /\ call[q].reply = "yes")'
                 PROVE  (doc.owner = token[q] /\ doc.until = call[q].at + TTL)'
      BY DEF AcquiredCovered
    <2>1. CASE q = p
      BY <2>1 DEF AcquiredCovered
    <2>2. CASE q # p
      <3>1. pc[q] = "acquiring" /\ call[q].reply = "yes" /\ call'[q] = call[q]
        BY <2>2
      <3>2. ~CanTake(call[p].at)
        BY <3>1, NotTaken
      <3> QED BY <3>1, <3>2 DEF AcquiredCovered
    <2> QED BY <2>1, <2>2
  <1>6. WorkCovered'
    <2>1. CASE \E q \in Proc : Working(q)
      <3>1. ~CanTake(call[p].at)
        BY <2>1, NotTaken
      <3> QED BY <3>1 DEF WorkCovered, Working
    <2>2. CASE ~\E q \in Proc : Working(q)
      BY <2>2 DEF WorkCovered, Working
    <2> QED BY <2>1, <2>2
  <1> QED BY <1>1, <1>2, <1>3, <1>4, <1>5, <1>6

LEMMA AcquireWonLease ==
    ASSUME LeaseInv, TypeOK', NEW p \in Proc, AcquireWon(p) PROVE LeaseInv'
  <1> USE TimesAssumption, HeartbeatFits DEF LeaseInv, TypeOK, Renewal, Token, Time, Reply, AcquireWon, heartbeat
  <1>1. TokensUnique'
    BY DEF TokensUnique
  <1>2. OnTime'
    BY DEF OnTime, TokensUnique
  <1>3. OneHeartbeat'
    BY DEF OneHeartbeat, TokensUnique, Current
  <1>4. HeartbeatAlive'
    BY DEF HeartbeatAlive, Working, OneHeartbeat, Current, TokensUnique
  <1>5. AcquiredCovered'
    BY DEF AcquiredCovered, TokensUnique, OnTime
  <1>6. WorkCovered'
    BY DEF WorkCovered, AcquiredCovered, Working, TokensUnique, OnTime, OneHeartbeat, HeartbeatAlive, TimerMargin, CallMargin
  <1> QED BY <1>1, <1>2, <1>3, <1>4, <1>5, <1>6

LEMMA AcquireLostLease ==
    ASSUME LeaseInv, TypeOK', NEW p \in Proc, AcquireLost(p) PROVE LeaseInv'
  <1> USE TimesAssumption, HeartbeatFits DEF LeaseInv, TypeOK, Renewal, Token, Time, Reply, AcquireLost, heartbeat
  <1>1. TokensUnique'
    BY DEF TokensUnique
  <1>2. OnTime'
    BY DEF OnTime, TokensUnique
  <1>3. OneHeartbeat'
    BY DEF OneHeartbeat, TokensUnique, Current
  <1>4. HeartbeatAlive'
    BY DEF HeartbeatAlive, Working, OneHeartbeat, Current, TokensUnique
  <1>5. AcquiredCovered'
    BY DEF AcquiredCovered, TokensUnique, OnTime
  <1>6. WorkCovered'
    BY DEF WorkCovered, AcquiredCovered, Working, TokensUnique, OnTime, OneHeartbeat, HeartbeatAlive, TimerMargin, CallMargin
  <1> QED BY <1>1, <1>2, <1>3, <1>4, <1>5, <1>6

LEMMA TickLease ==
    ASSUME LeaseInv, TypeOK', NEW p \in Proc, Tick(p) PROVE LeaseInv'
  <1> USE TimesAssumption, HeartbeatFits DEF LeaseInv, TypeOK, Renewal, Token, Time, Reply, Tick, heartbeat
  <1>1. TokensUnique'
    BY DEF TokensUnique, OneHeartbeat
  <1>2. OnTime'
    BY DEF OnTime, TokensUnique
  <1>3. OneHeartbeat'
    BY DEF OneHeartbeat, TokensUnique, Current
  <1>4. HeartbeatAlive'
    <2> SUFFICES ASSUME NEW q \in Proc, Working(q)'
                 PROVE  (due[q] # Off \/ \E r \in renewals : r.proc = q /\ r.token = token[q])'
      BY DEF HeartbeatAlive
    <2>1. CASE q = p
      <3> DEFINE r == [proc |-> p, token |-> token[p], at |-> now, errs |-> errs[p], reply |-> "none"]
      <3>1. r \in renewals' /\ r.proc = q /\ r.token = token'[q]
        BY <2>1 DEF Working
      <3> QED BY <3>1
    <2>2. CASE q # p
      BY <2>2 DEF HeartbeatAlive, Working
    <2> QED BY <2>1, <2>2
  <1>5. AcquiredCovered'
    BY DEF AcquiredCovered, TokensUnique, OnTime
  <1>6. WorkCovered'
    BY DEF WorkCovered, AcquiredCovered, Working, TokensUnique, OnTime, OneHeartbeat, HeartbeatAlive, TimerMargin, CallMargin
  <1> QED BY <1>1, <1>2, <1>3, <1>4, <1>5, <1>6

LEMMA WorkDoneLease ==
    ASSUME LeaseInv, TypeOK', NEW p \in Proc, WorkDone(p) PROVE LeaseInv'
  <1> USE TimesAssumption, HeartbeatFits DEF LeaseInv, TypeOK, Renewal, Token, Time, Reply, WorkDone, heartbeat
  <1>1. TokensUnique'
    BY DEF TokensUnique
  <1>2. OnTime'
    BY DEF OnTime, TokensUnique
  <1>3. OneHeartbeat'
    BY DEF OneHeartbeat, TokensUnique, Current
  <1>4. HeartbeatAlive'
    BY DEF HeartbeatAlive, Working, OneHeartbeat, Current, TokensUnique
  <1>5. AcquiredCovered'
    BY DEF AcquiredCovered, TokensUnique, OnTime
  <1>6. WorkCovered'
    BY DEF WorkCovered, AcquiredCovered, Working, TokensUnique, OnTime, OneHeartbeat, HeartbeatAlive, TimerMargin, CallMargin
  <1> QED BY <1>1, <1>2, <1>3, <1>4, <1>5, <1>6

LEMMA ReleaseApplyLease ==
    ASSUME LeaseInv, TypeOK', NEW p \in Proc, ReleaseApply(p) PROVE LeaseInv'
  <1> USE TimesAssumption, HeartbeatFits DEF LeaseInv, TypeOK, Renewal, Token, Time, Reply, ReleaseApply, NoDoc, heartbeat
  <1>1. TokensUnique'
    BY DEF TokensUnique
  <1>2. OnTime'
    BY DEF OnTime, TokensUnique
  <1>3. OneHeartbeat'
    BY DEF OneHeartbeat, TokensUnique, Current
  <1>4. HeartbeatAlive'
    BY DEF HeartbeatAlive, Working, OneHeartbeat, Current, TokensUnique
  <1>5. AcquiredCovered'
    BY DEF AcquiredCovered, TokensUnique, OnTime
  <1>6. WorkCovered'
    BY DEF WorkCovered, AcquiredCovered, Working, TokensUnique, OnTime, OneHeartbeat, HeartbeatAlive, TimerMargin, CallMargin
  <1> QED BY <1>1, <1>2, <1>3, <1>4, <1>5, <1>6

LEMMA ReleaseEndLease ==
    ASSUME LeaseInv, TypeOK', NEW p \in Proc, ReleaseEnd(p) PROVE LeaseInv'
  <1> USE TimesAssumption, HeartbeatFits DEF LeaseInv, TypeOK, Renewal, Token, Time, Reply, ReleaseEnd, heartbeat
  <1>1. TokensUnique'
    BY DEF TokensUnique
  <1>2. OnTime'
    BY DEF OnTime, TokensUnique
  <1>3. OneHeartbeat'
    BY DEF OneHeartbeat, TokensUnique, Current
  <1>4. HeartbeatAlive'
    BY DEF HeartbeatAlive, Working, OneHeartbeat, Current, TokensUnique
  <1>5. AcquiredCovered'
    BY DEF AcquiredCovered, TokensUnique, OnTime
  <1>6. WorkCovered'
    BY DEF WorkCovered, AcquiredCovered, Working, TokensUnique, OnTime, OneHeartbeat, HeartbeatAlive, TimerMargin, CallMargin
  <1> QED BY <1>1, <1>2, <1>3, <1>4, <1>5, <1>6

LEMMA BeginShutdownLease ==
    ASSUME LeaseInv, TypeOK', NEW p \in Proc, BeginShutdown(p) PROVE LeaseInv'
  <1> USE TimesAssumption, HeartbeatFits DEF LeaseInv, TypeOK, Renewal, Token, Time, Reply, BeginShutdown, heartbeat
  <1>1. TokensUnique'
    BY DEF TokensUnique
  <1>2. OnTime'
    BY DEF OnTime, TokensUnique
  <1>3. OneHeartbeat'
    BY DEF OneHeartbeat, TokensUnique, Current
  <1>4. HeartbeatAlive'
    BY DEF HeartbeatAlive, Working, OneHeartbeat, Current, TokensUnique
  <1>5. AcquiredCovered'
    BY DEF AcquiredCovered, TokensUnique, OnTime
  <1>6. WorkCovered'
    BY DEF WorkCovered, AcquiredCovered, Working, TokensUnique, OnTime, OneHeartbeat, HeartbeatAlive, TimerMargin, CallMargin
  <1> QED BY <1>1, <1>2, <1>3, <1>4, <1>5, <1>6

LEMMA CrashLease ==
    ASSUME LeaseInv, TypeOK', NEW p \in Proc, Crash(p) PROVE LeaseInv'
  <1> USE TimesAssumption, HeartbeatFits DEF LeaseInv, TypeOK, Renewal, Token, Time, Reply, Crash, heartbeat
  <1>1. TokensUnique'
    BY DEF TokensUnique
  <1>2. OnTime'
    BY DEF OnTime, TokensUnique
  <1>3. OneHeartbeat'
    BY DEF OneHeartbeat, TokensUnique, Current
  <1>4. HeartbeatAlive'
    BY DEF HeartbeatAlive, Working, OneHeartbeat, Current, TokensUnique
  <1>5. AcquiredCovered'
    BY DEF AcquiredCovered, TokensUnique, OnTime
  <1>6. WorkCovered'
    BY DEF WorkCovered, AcquiredCovered, Working, TokensUnique, OnTime, OneHeartbeat, HeartbeatAlive, TimerMargin, CallMargin
  <1> QED BY <1>1, <1>2, <1>3, <1>4, <1>5, <1>6

LEMMA RenewApplyLease ==
    ASSUME LeaseInv, TypeOK', NEW r \in renewals, RenewApply(r) PROVE LeaseInv'
  <1> USE TimesAssumption, HeartbeatFits DEF LeaseInv, TypeOK, Token, Time, Reply
  <1>1. PICK s : /\ renewals' = (renewals \ {r}) \cup {s}
                 /\ s.proc = r.proc /\ s.token = r.token /\ s.at = r.at /\ s.errs = r.errs
                 /\ \/ s.reply = "yes" /\ doc.owner = r.token /\ doc'.owner = doc.owner
                       /\ doc'.until = r.at + TTL
                    \/ s.reply = "no" /\ doc.owner # r.token /\ doc' = doc
    <2>1. CASE doc.owner = r.token
      <3> DEFINE s == [r EXCEPT !.reply = "yes"]
      <3>1. s.proc = r.proc /\ s.token = r.token /\ s.at = r.at /\ s.errs = r.errs /\ s.reply = "yes"
        BY DEF Renewal
      <3>2. renewals' = (renewals \ {r}) \cup {s}
        BY <2>1 DEF RenewApply
      <3>3. doc'.owner = doc.owner /\ doc'.until = r.at + TTL
        BY <2>1 DEF RenewApply
      <3> HIDE DEF s
      <3> QED BY <2>1, <3>1, <3>2, <3>3
    <2>2. CASE doc.owner # r.token
      <3> DEFINE s == [r EXCEPT !.reply = "no"]
      <3>1. s.proc = r.proc /\ s.token = r.token /\ s.at = r.at /\ s.errs = r.errs /\ s.reply = "no"
        BY DEF Renewal
      <3>2. renewals' = (renewals \ {r}) \cup {s} /\ doc' = doc
        BY <2>2 DEF RenewApply
      <3> HIDE DEF s
      <3> QED BY <2>2, <3>1, <3>2
    <2> QED BY <2>1, <2>2
  <1>2. UNCHANGED <<now, issued, pc, token, call, due, errs, lost, down>>
    BY DEF RenewApply
  <1>3. \A t \in renewals : t.token \in Nat /\ t.at \in Nat /\ t.errs \in 0 .. 1
    BY DEF Renewal
  <1>4. TokensUnique'
    BY <1>1, <1>2 DEF TokensUnique
  <1>5. OnTime'
    BY <1>1, <1>2 DEF OnTime
  <1>6. OneHeartbeat'
    BY <1>1, <1>2 DEF OneHeartbeat, Current
  <1>7. HeartbeatAlive'
    BY <1>1, <1>2 DEF HeartbeatAlive, Working
  <1>8. AcquiredCovered'
    BY <1>1, <1>2 DEF AcquiredCovered, TokensUnique
  <1>9. WorkCovered'
    <2> SUFFICES ASSUME NEW p \in Proc, Working(p), Working(p)'
                 PROVE  (/\ doc.owner = token[p]
                         /\ due[p] # Off => due[p] + TimerMargin(errs[p]) <= doc.until
                         /\ \A t \in renewals : t.token = token[p] =>
                               /\ t.reply \in {"none", "yes"}
                               /\ t.reply = "none" => t.at + CallMargin(t.errs) <= doc.until
                               /\ t.reply = "yes" => t.at + TTL <= doc.until)'
      BY <1>2 DEF WorkCovered, Working
    <2>1. CASE token[p] # r.token
      BY <1>1, <1>2, <2>1 DEF WorkCovered, TimerMargin, CallMargin
    <2>2. CASE token[p] = r.token
      <3>1. doc.owner = token[p] /\ due[p] = Off
        BY <2>2 DEF WorkCovered, OneHeartbeat
      <3>2. \A t \in renewals : t.token = token[p] => t = r
        BY <2>2 DEF OneHeartbeat, Current, TokensUnique, Working
      <3> QED BY <1>1, <1>2, <1>3, <2>2, <3>1, <3>2
    <2> QED BY <2>1, <2>2
  <1> QED BY <1>4, <1>5, <1>6, <1>7, <1>8, <1>9

LEMMA RenewYesLease ==
    ASSUME LeaseInv, TypeOK', NEW r \in renewals, RenewYes(r) PROVE LeaseInv'
  <1> USE TimesAssumption, HeartbeatFits DEF LeaseInv, TypeOK, Renewal, Token, Time, Reply, RenewYes, Rearm, heartbeat
  <1>1. TokensUnique'
    BY DEF TokensUnique
  <1>2. OnTime'
    BY DEF OnTime, TokensUnique
  <1>3. OneHeartbeat'
    BY DEF OneHeartbeat, TokensUnique, Current
  <1>4. HeartbeatAlive'
    BY DEF HeartbeatAlive, Working, OneHeartbeat, Current, TokensUnique
  <1>5. AcquiredCovered'
    BY DEF AcquiredCovered, TokensUnique, OnTime
  <1>6. WorkCovered'
    <2> SUFFICES ASSUME NEW p \in Proc, Working(p)
                 PROVE  (/\ doc.owner = token[p]
                         /\ due[p] # Off => due[p] + TimerMargin(errs[p]) <= doc.until
                         /\ \A t \in renewals : t.token = token[p] =>
                               /\ t.reply \in {"none", "yes"}
                               /\ t.reply = "none" => t.at + CallMargin(t.errs) <= doc.until
                               /\ t.reply = "yes" => t.at + TTL <= doc.until)'
      BY DEF WorkCovered, Working
    <2>1. CASE r.token # token[p]
      <3>1. due'[p] = due[p] /\ errs'[p] = errs[p]
        BY <2>1 DEF Current
      <3> QED BY <3>1 DEF WorkCovered, TimerMargin
    <2>2. CASE r.token = token[p]
      <3>1. r.proc = p /\ Current(r)
        BY <2>2 DEF TokensUnique, Current, Working
      <3>2. r.at + TTL <= doc.until /\ now <= r.at + Delay /\ doc.owner = token[p]
        BY <2>2 DEF WorkCovered, OnTime
      <3>3. due'[p] = now + Interval /\ errs'[p] = 0
        BY <3>1 DEF Working
      <3>4. due'[p] + TimerMargin(errs'[p]) <= doc.until
        BY <3>2, <3>3 DEF TimerMargin
      <3>5. \A t \in renewals' : t.token # token[p]
        BY <2>2, <3>1 DEF OneHeartbeat
      <3> QED BY <3>2, <3>4, <3>5
    <2> QED BY <2>1, <2>2
  <1> QED BY <1>1, <1>2, <1>3, <1>4, <1>5, <1>6

LEMMA RenewNoLease ==
    ASSUME LeaseInv, TypeOK', NEW r \in renewals, RenewNo(r) PROVE LeaseInv'
  <1> USE TimesAssumption, HeartbeatFits DEF LeaseInv, TypeOK, Renewal, Token, Time, Reply, RenewNo, heartbeat
  <1>1. TokensUnique'
    BY DEF TokensUnique
  <1>2. OnTime'
    BY DEF OnTime, TokensUnique
  <1>3. OneHeartbeat'
    BY DEF OneHeartbeat, TokensUnique, Current
  <1>4. HeartbeatAlive'
    BY DEF HeartbeatAlive, Working, OneHeartbeat, Current, TokensUnique
  <1>5. AcquiredCovered'
    BY DEF AcquiredCovered, TokensUnique, OnTime
  <1>6. WorkCovered'
    BY DEF WorkCovered, AcquiredCovered, Working, TokensUnique, OnTime, OneHeartbeat, HeartbeatAlive, TimerMargin, CallMargin
  <1> QED BY <1>1, <1>2, <1>3, <1>4, <1>5, <1>6

LEMMA RenewErrorLease ==
    ASSUME LeaseInv, TypeOK', NEW r \in renewals, RenewError(r) PROVE LeaseInv'
  <1> USE TimesAssumption, HeartbeatFits DEF LeaseInv, TypeOK, Renewal, Token, Time, Reply, RenewError, Rearm, heartbeat
  <1>1. TokensUnique'
    BY DEF TokensUnique
  <1>2. OnTime'
    <2>1. UNCHANGED <<now, pc, call>> /\ renewals' \subseteq renewals
      OBVIOUS
    <2>2. \A q \in Proc : due'[q] = due[q] \/ due'[q] = now + Interval
      OBVIOUS
    <2>3. now <= now + Interval + Delay
      OBVIOUS
    <2> HIDE DEF RenewError
    <2> QED BY <2>1, <2>2, <2>3 DEF OnTime
  <1>3. OneHeartbeat'
    BY DEF OneHeartbeat, TokensUnique, Current
  <1>4. HeartbeatAlive'
    <2> SUFFICES ASSUME NEW q \in Proc, Working(q)'
                 PROVE  (due[q] # Off \/ \E s \in renewals : s.proc = q /\ s.token = token[q])'
      BY DEF HeartbeatAlive
    <2>1. Working(q) /\ token'[q] = token[q]
      BY DEF Working
    <2>2. CASE r.proc = q /\ r.token = token[q]
      <3>1. Current(r) /\ lost'[q] = FALSE
        BY <2>1, <2>2 DEF Current, Working
      <3>2. due'[q] = now + Interval
        BY <2>1, <2>2, <3>1 DEF Working
      <3> QED BY <3>2
    <2>3. CASE ~(r.proc = q /\ r.token = token[q])
      <3>1. due'[q] = due[q]
        BY <2>3 DEF Current
      <3>2. \A s \in renewals : s.proc = q /\ s.token = token[q] => s \in renewals'
        BY <2>3
      <3> QED BY <2>1, <3>1, <3>2 DEF HeartbeatAlive
    <2> QED BY <2>2, <2>3
  <1>5. AcquiredCovered'
    BY DEF AcquiredCovered, TokensUnique, OnTime
  <1>6. WorkCovered'
    <2> SUFFICES ASSUME NEW p \in Proc, Working(p), Working(p)'
                 PROVE  (/\ doc.owner = token[p]
                         /\ due[p] # Off => due[p] + TimerMargin(errs[p]) <= doc.until
                         /\ \A t \in renewals : t.token = token[p] =>
                               /\ t.reply \in {"none", "yes"}
                               /\ t.reply = "none" => t.at + CallMargin(t.errs) <= doc.until
                               /\ t.reply = "yes" => t.at + TTL <= doc.until)'
      BY DEF WorkCovered, Working
    <2>1. CASE r.token # token[p]
      <3>1. due'[p] = due[p] /\ errs'[p] = errs[p]
        BY <2>1 DEF Current
      <3> QED BY <3>1 DEF WorkCovered, TimerMargin
    <2>2. CASE r.token = token[p]
      <3>1. r.proc = p /\ Current(r)
        BY <2>2 DEF TokensUnique, Current, Working
      <3>2. r.errs = 0
        BY <3>1 DEF Working
      <3>3. /\ doc.owner = token[p] /\ now <= r.at + Delay
            /\ r.reply = "none" => r.at + Interval + 3 * Delay <= doc.until
            /\ r.reply = "yes" => r.at + TTL <= doc.until
            /\ r.reply \in {"none", "yes"}
        BY <2>2, <3>2 DEF WorkCovered, OnTime, CallMargin
      <3>4. due'[p] = now + Interval /\ errs'[p] = 1
        BY <3>1, <3>2 DEF Working
      <3>5. due'[p] + TimerMargin(errs'[p]) <= doc.until
        BY <3>3, <3>4 DEF TimerMargin
      <3>6. \A t \in renewals' : t.token # token[p]
        BY <2>2, <3>1 DEF OneHeartbeat
      <3> QED BY <3>3, <3>5, <3>6
    <2> QED BY <2>1, <2>2
  <1> QED BY <1>1, <1>2, <1>3, <1>4, <1>5, <1>6

LEMMA AdvanceLease ==
    ASSUME LeaseInv, TypeOK', Timely, Advance PROVE LeaseInv'
  <1> USE TimesAssumption DEF LeaseInv, TypeOK, Renewal, Time, Advance, heartbeat
  <1>1. TokensUnique'
    BY DEF TokensUnique
  <1>2. OnTime'
    BY DEF OnTime, Timely
  <1>3. OneHeartbeat' /\ HeartbeatAlive'
    BY DEF OneHeartbeat, HeartbeatAlive, Current, Working
  <1>4. AcquiredCovered' /\ WorkCovered'
    BY DEF AcquiredCovered, WorkCovered, Working, TimerMargin, CallMargin
  <1> QED BY <1>1, <1>2, <1>3, <1>4

-----------------------------------------------------------------------------
(* The theorems *)

LEMMA TypeStep == TypeOK /\ [Next]_vars => TypeOK'
  <1> SUFFICES ASSUME TypeOK, [Next]_vars PROVE TypeOK'
    OBVIOUS
  <1>1. ASSUME NEW p \in Proc, ProcessStep(p) PROVE TypeOK'
    BY <1>1, ProcessStepType
  <1>2. ASSUME NEW r \in renewals, RenewalStep(r) PROVE TypeOK'
    BY <1>2, RenewalStepType
  <1>3. CASE Advance
    BY <1>3, TimesAssumption DEF Advance, TypeOK, Time, heartbeat
  <1>4. CASE UNCHANGED vars
    BY <1>4 DEF vars, TypeOK
  <1> QED BY <1>1, <1>2, <1>3, <1>4 DEF Next, Step

(* Every variable keeps its type, however late timers and calls are. *)
THEOREM TypeCorrect == Spec => []TypeOK
  BY InitType, TypeStep, PTL DEF Spec

LEMMA InitLease == Init => LeaseInv
  BY InitType DEF Init, LeaseInv, TokensUnique, OnTime, OneHeartbeat, HeartbeatAlive,
     AcquiredCovered, WorkCovered, Working, NoDoc

LEMMA LeaseStep == LeaseInv /\ [TimelyNext]_vars => LeaseInv'
  <1> SUFFICES ASSUME LeaseInv, [TimelyNext]_vars PROVE LeaseInv'
    OBVIOUS
  <1>1. TypeOK'
    BY TypeStep DEF LeaseInv, TimelyNext, Next
  <1>2. ASSUME NEW p \in Proc, ProcessStep(p) PROVE LeaseInv'
    BY <1>1, <1>2, AcquireSendLease, AcquireApplyLease, AcquireWonLease, AcquireLostLease, TickLease,
       WorkDoneLease, ReleaseApplyLease, ReleaseEndLease, BeginShutdownLease, CrashLease DEF ProcessStep
  <1>3. ASSUME NEW r \in renewals, RenewalStep(r) PROVE LeaseInv'
    BY <1>1, <1>3, RenewApplyLease, RenewYesLease, RenewNoLease, RenewErrorLease DEF RenewalStep
  <1>4. CASE Timely /\ Advance
    BY <1>1, <1>4, AdvanceLease
  <1>5. CASE UNCHANGED vars
    BY <1>5 DEF vars, LeaseInv, TypeOK, TokensUnique, OnTime, OneHeartbeat, HeartbeatAlive,
       AcquiredCovered, WorkCovered, Working, Current
  <1> QED BY <1>2, <1>3, <1>4, <1>5 DEF TimelyNext, Step

(* The lease of a process that works covers its next renewals: LeaseInv is *)
(* an invariant when timers and replies are late by Delay at most.         *)
THEOREM LeaseInvariant == TimelySpec => []LeaseInv
  BY InitLease, LeaseStep, PTL DEF TimelySpec

LEMMA LeaseExcludes == LeaseInv => OneWorker
  <1> SUFFICES ASSUME LeaseInv, NEW p \in Proc, NEW q \in Proc, Working(p), Working(q) PROVE p = q
    BY DEF OneWorker
  <1>1. token[p] = token[q] /\ token[p] # NoToken
    BY DEF LeaseInv, WorkCovered, TokensUnique, Working
  <1> QED BY <1>1 DEF LeaseInv, TokensUnique

(* Two processes never both work under the lock without one of them having *)
(* been told to stop, for any lease length the heartbeat fits.             *)
THEOREM MutualExclusion == TimelySpec => []OneWorker
  BY LeaseInvariant, LeaseExcludes, PTL
-----------------------------------------------------------------------------
(* DbLock implements Mutex *)

(* A step lets one process in, or lets one out, or leaves the workers alone. *)
LEMMA OneAtATime ==
    ASSUME TypeOK, [TimelyNext]_vars
    PROVE  \/ Workers' = Workers
           \/ \E p \in Proc : Workers' = Workers \cup {p} \/ Workers' = Workers \ {p}
  <1> USE DEF Workers, Working, TypeOK, heartbeat
  <1>1. ASSUME NEW p \in Proc, ProcessStep(p)
        PROVE  \A q \in Proc \ {p} : Working(q)' <=> Working(q)
    <2>1. CASE AcquireSend(p) \/ AcquireApply(p) \/ AcquireWon(p) \/ AcquireLost(p)
      BY <2>1 DEF AcquireSend, AcquireApply, AcquireWon, AcquireLost
    <2>2. CASE Tick(p) \/ WorkDone(p) \/ ReleaseApply(p) \/ ReleaseEnd(p)
      BY <2>2 DEF Tick, WorkDone, ReleaseApply, ReleaseEnd
    <2>3. CASE BeginShutdown(p) \/ Crash(p)
      BY <2>3 DEF BeginShutdown, Crash
    <2> QED BY <1>1, <2>1, <2>2, <2>3 DEF ProcessStep
  <1>2. ASSUME NEW r \in renewals, RenewalStep(r)
        PROVE  r.proc \in Proc /\ \A q \in Proc \ {r.proc} : Working(q)' <=> Working(q)
    BY <1>2 DEF RenewalStep, RenewApply, RenewYes, RenewNo, RenewError, Renewal
  <1>3. ASSUME NEW p \in Proc, \A q \in Proc \ {p} : Working(q)' <=> Working(q)
        PROVE  Workers' = Workers \cup {p} \/ Workers' = Workers \ {p}
    BY <1>3
  <1>4. CASE Advance \/ UNCHANGED vars
    BY <1>4 DEF Advance, vars
  <1> QED BY <1>1, <1>2, <1>3, <1>4 DEF TimelyNext, Step

LEMMA MutexStep == LeaseInv /\ LeaseInv' /\ [TimelyNext]_vars => [Exclusion!Next]_Workers
  <1> SUFFICES ASSUME LeaseInv, LeaseInv', [TimelyNext]_vars, Workers' # Workers
               PROVE  Exclusion!Next
    OBVIOUS
  <1>1. PICK p \in Proc : Workers' = Workers \cup {p} \/ Workers' = Workers \ {p}
    BY OneAtATime DEF LeaseInv
  <1>2. \A q, r \in Workers' : q = r
    BY LeaseExcludes DEF OneWorker, Workers, LeaseInv, WorkCovered, TokensUnique, Working
  <1>3. CASE Workers' = Workers \cup {p}
    <2>1. p \notin Workers /\ Workers = {}
      BY <1>2, <1>3
    <2> QED BY <1>3, <2>1 DEF Exclusion!Next, Exclusion!Enter
  <1>4. CASE Workers' = Workers \ {p}
    BY <1>4 DEF Exclusion!Next, Exclusion!Leave
  <1> QED BY <1>1, <1>3, <1>4

(* The processes that work under the lock are the holders of a mutex.      *)
THEOREM DbLockImplementsMutex == TimelySpec => ImplementsMutex
  <1>1. Init => Exclusion!Init
    BY DEF Init, Exclusion!Init, Workers, Working
  <1> QED BY <1>1, MutexStep, LeaseInvariant, PTL DEF TimelySpec, ImplementsMutex, Exclusion!Spec

-----------------------------------------------------------------------------
(* What needs no timing *)

CallInPast == \A p \in Proc : pc[p] = "acquiring" => call[p].at <= now

LEMMA PastStep == TypeOK /\ CallInPast /\ [Next]_vars => CallInPast'
  <1> SUFFICES ASSUME TypeOK, CallInPast, [Next]_vars PROVE CallInPast'
    OBVIOUS
  <1> USE DEF TypeOK, CallInPast, Time, heartbeat
  <1>1. ASSUME NEW p \in Proc, ProcessStep(p) PROVE CallInPast'
    <2>1. CASE AcquireSend(p) \/ AcquireApply(p) \/ AcquireWon(p) \/ AcquireLost(p)
      BY <2>1 DEF AcquireSend, AcquireApply, AcquireWon, AcquireLost
    <2>2. CASE Tick(p) \/ WorkDone(p) \/ ReleaseApply(p) \/ ReleaseEnd(p)
      BY <2>2 DEF Tick, WorkDone, ReleaseApply, ReleaseEnd
    <2>3. CASE BeginShutdown(p) \/ Crash(p)
      BY <2>3 DEF BeginShutdown, Crash
    <2> QED BY <1>1, <2>1, <2>2, <2>3 DEF ProcessStep
  <1>2. ASSUME NEW r \in renewals, RenewalStep(r) PROVE CallInPast'
    BY <1>2 DEF RenewalStep, RenewApply, RenewYes, RenewNo, RenewError
  <1>3. CASE Advance \/ UNCHANGED vars
    BY <1>3 DEF Advance, vars
  <1> QED BY <1>1, <1>2, <1>3 DEF Next, Step

LEMMA StepLeavesOwner == TypeOK /\ CallInPast /\ [Next]_vars => [LockLeavesOwner]_vars
  <1> SUFFICES ASSUME TypeOK, CallInPast, Next, doc # NoDoc, doc'.owner # doc.owner
               PROVE  doc.until < now \/ \E p \in Proc : pc[p] = "releasing" /\ token[p] = doc.owner
    BY DEF LockLeavesOwner
  <1> USE DEF TypeOK, Time, heartbeat
  <1>1. ASSUME NEW p \in Proc, ProcessStep(p)
        PROVE  doc.until < now \/ (pc[p] = "releasing" /\ token[p] = doc.owner)
    <2>1. CASE AcquireApply(p)
      BY <2>1 DEF AcquireApply, CanTake, CallInPast
    <2>2. CASE ReleaseApply(p)
      BY <2>2 DEF ReleaseApply
    <2> QED BY <1>1, <2>1, <2>2 DEF ProcessStep, AcquireSend, AcquireWon, AcquireLost, Tick, WorkDone,
         ReleaseEnd, BeginShutdown, Crash
  <1>2. ASSUME NEW r \in renewals PROVE ~RenewalStep(r)
    BY DEF RenewalStep, RenewApply, RenewYes, RenewNo, RenewError
  <1>3. ~Advance
    BY DEF Advance
  <1> QED BY <1>1, <1>2, <1>3 DEF Next, Step

(* Whatever is late, a lock leaves its owner only when its lease has run   *)
(* out or its owner releases it.                                           *)
THEOREM OwnerIsSafe == Spec => OwnerKeepsLock
  <1>1. Init => CallInPast
    BY DEF Init, CallInPast
  <1> QED BY <1>1, PastStep, StepLeavesOwner, TypeCorrect, PTL DEF Spec, OwnerKeepsLock
-----------------------------------------------------------------------------
(* The heartbeat, whatever is late.  A process that works has its timer    *)
(* armed, or the renewal it sent: whoever ends the one starts the other,   *)
(* or tells the job to stop.                                               *)

LEMMA AliveStep == TypeOK /\ HeartbeatAlive /\ [Next]_vars => HeartbeatAlive'
  <1> SUFFICES ASSUME TypeOK, HeartbeatAlive, [Next]_vars, NEW q \in Proc, Working(q)'
               PROVE  due'[q] # Off \/ \E s \in renewals' : s.proc = q /\ s.token = token'[q]
    BY DEF HeartbeatAlive
  <1> DEFINE Sent(s) == s.proc = q /\ s.token = token[q]
  <1> USE DEF TypeOK, heartbeat, Working
  <1>1. Working(q) => due[q] # Off \/ \E s \in renewals : Sent(s)
    BY DEF HeartbeatAlive
  <1>2. ASSUME NEW p \in Proc, ProcessStep(p)
        PROVE  due'[q] # Off \/ \E s \in renewals' : s.proc = q /\ s.token = token'[q]
    <2>1. CASE AcquireSend(p) \/ AcquireApply(p) \/ AcquireLost(p)
      BY <1>1, <2>1 DEF AcquireSend, AcquireApply, AcquireLost
    <2>2. CASE AcquireWon(p)
      BY <1>1, <2>2, TimesAssumption DEF AcquireWon, Time
    <2>3. CASE Tick(p)
      <3>1. Working(q) /\ token' = token /\ (q # p => due'[q] = due[q])
        BY <2>3 DEF Tick
      <3>2. q = p => \E s \in renewals' : Sent(s)
        <4> SUFFICES ASSUME q = p PROVE \E s \in renewals' : Sent(s)
          OBVIOUS
        <4>1. [proc |-> p, token |-> token[p], at |-> now, errs |-> errs[p], reply |-> "none"] \in renewals'
          BY <2>3, <3>1 DEF Tick
        <4> QED BY <4>1
      <3>3. renewals \subseteq renewals'
        BY <2>3 DEF Tick
      <3> QED BY <1>1, <3>1, <3>2, <3>3
    <2>4. CASE WorkDone(p) \/ ReleaseApply(p) \/ ReleaseEnd(p) \/ BeginShutdown(p)
      BY <1>1, <2>4 DEF WorkDone, ReleaseApply, ReleaseEnd, BeginShutdown
    <2>5. CASE Crash(p)
      BY <1>1, <2>5 DEF Crash
    <2> QED BY <1>2, <2>1, <2>2, <2>3, <2>4, <2>5 DEF ProcessStep
  <1>3. ASSUME NEW r \in renewals, RenewalStep(r)
        PROVE  due'[q] # Off \/ \E s \in renewals' : s.proc = q /\ s.token = token'[q]
    <2>1. token' = token /\ pc' = pc /\ down' = down /\ r \in Renewal
      BY <1>3 DEF RenewalStep, RenewApply, RenewYes, RenewNo, RenewError
    <2>2. Working(q) /\ renewals \ {r} \subseteq renewals' /\ (Sent(r) => Current(r))
      BY <1>3, <2>1 DEF RenewalStep, RenewApply, RenewYes, RenewNo, RenewError, Current, Renewal
    <2>3. due[q] # Off => due'[q] # Off
      BY <1>3, TimesAssumption DEF RenewalStep, RenewApply, RenewYes, RenewNo, RenewError, Rearm, Time, Renewal
    <2>4. Sent(r) => due'[q] # Off \/ \E s \in renewals' : Sent(s)
      <3> SUFFICES ASSUME Sent(r) PROVE due'[q] # Off \/ \E s \in renewals' : Sent(s)
        OBVIOUS
      <3>1. ~lost'[q] /\ ~down[q] /\ r.proc = q
        BY <2>1
      <3>2. CASE RenewApply(r)
        <4>1. PICK answer \in {"yes", "no"} : [r EXCEPT !.reply = answer] \in renewals'
          BY <3>2 DEF RenewApply
        <4>2. Sent([r EXCEPT !.reply = answer])
          BY <2>1 DEF Renewal
        <4> QED BY <4>1, <4>2
      <3>3. CASE RenewYes(r) \/ RenewError(r)
        BY <2>2, <3>1, <3>3, TimesAssumption DEF RenewYes, RenewError, Rearm, Time
      <3>4. CASE RenewNo(r)
        BY <3>1, <3>4 DEF RenewNo
      <3> QED BY <1>3, <3>2, <3>3, <3>4 DEF RenewalStep
    <2> QED BY <1>1, <2>1, <2>2, <2>3, <2>4
  <1>4. CASE Advance \/ UNCHANGED vars
    BY <1>1, <1>4 DEF Advance, vars
  <1> QED BY <1>2, <1>3, <1>4 DEF Next, Step

(* The heartbeat never dies silently, however late timers and replies are   *)
(* and whatever errors the renewals meet.                                  *)
THEOREM HeartbeatLives == Spec => []HeartbeatAlive
  <1>1. Init => HeartbeatAlive
    BY DEF Init, HeartbeatAlive, Working
  <1> QED BY <1>1, AliveStep, TypeCorrect, PTL DEF Spec
=============================================================================
