------------------------ MODULE OperationJournal_proofs ------------------------
(* Proofs about the operation journal. *)
EXTENDS OperationJournal, FiniteSetTheorems, TLAPS

USE DEF Goto, Fault, NoFault, resource, callers, run

BaseInv == TypeOK /\ EntriesInv /\ CopiesInv

-----------------------------------------------------------------------------
(* What the writes make of an entry *)

LEMMA EntryWrites ==
    ASSUME BaseInv, NEW o \in Op, entry[o] # NoEntry
    PROVE  /\ entry[o] \in Entry
           /\ \A status \in Terminal \cup {"pending"} : SetStatus(o, status) =>
                 /\ entry'[o] # NoEntry
                 /\ entry' = [entry EXCEPT ![o] = entry'[o]]
                 /\ entry'[o] \in Entry /\ entry'[o].status = status /\ entry'[o].lease = "none"
                 /\ entry'[o].version = entry[o].version /\ entry'[o].attempts = entry[o].attempts
  <1> USE NoEntryAssumption DEF BaseInv, TypeOK
  <1>1. entry[o] \in Entry
    OBVIOUS
  <1>2. ASSUME NEW status \in Terminal \cup {"pending"}, SetStatus(o, status)
        PROVE  /\ entry' = [entry EXCEPT ![o] = entry'[o]]
               /\ entry'[o] \in Entry /\ entry'[o].status = status /\ entry'[o].lease = "none"
               /\ entry'[o].version = entry[o].version /\ entry'[o].attempts = entry[o].attempts
    BY <1>1, <1>2 DEF SetStatus, Entry, Open
  <1> QED BY <1>1, <1>2

LEMMA Claims ==
    ASSUME BaseInv, NEW o \in Op, Claimable(o), NEW lease \in {"live", "expired"}, Leased(o, lease)
    PROVE  /\ entry' = [entry EXCEPT ![o] = entry'[o]]
           /\ entry'[o] \in Entry /\ entry'[o] # NoEntry
           /\ entry'[o].status = "leased" /\ entry'[o].lease = lease
           /\ entry'[o].version = entry[o].version + 1 /\ entry'[o].attempts = entry[o].attempts + 1
           /\ CopyOf(o)' \in Copy
           /\ CopyOf(o)' = [op |-> o, status |-> "leased",
                            attempts |-> entry'[o].attempts, version |-> entry'[o].version]
  <1> USE NoEntryAssumption, JournalAssumption DEF BaseInv, TypeOK
  <1>1. entry[o] \in Entry /\ entry[o].attempts < MaxAttempts /\ entry[o].version = entry[o].attempts
    BY DEF Claimable, EntriesInv
  <1>2. entry[o].attempts + 1 \in 0 .. MaxAttempts /\ entry[o].version + 1 \in 0 .. MaxAttempts
    BY <1>1 DEF Entry
  <1>3. /\ entry' = [entry EXCEPT ![o] = entry'[o]]
        /\ entry'[o] \in Entry
        /\ entry'[o].status = "leased" /\ entry'[o].lease = lease
        /\ entry'[o].version = entry[o].version + 1 /\ entry'[o].attempts = entry[o].attempts + 1
    BY <1>1, <1>2 DEF Leased, Entry, Open
  <1> QED BY <1>3 DEF CopyOf, Copy, Entry

LEMMA Copies ==
    ASSUME BaseInv, NEW o \in Op, entry[o] # NoEntry
    PROVE  CopyOf(o) \in Copy /\ CopyOf(o).op = o /\ CopyOf(o).version = CopyOf(o).attempts
             /\ CopyOf(o).status = entry[o].status
  BY DEF BaseInv, TypeOK, CopyOf, Copy, Entry, EntriesInv

-----------------------------------------------------------------------------
(* Types, entries and copies *)

LEMMA NewEntryTyped == NewEntry \in Entry /\ NewEntry # NoEntry
  <1>1. NewEntry \in Entry
    BY JournalAssumption DEF NewEntry, Entry, Open
  <1> QED BY <1>1, NoEntryAssumption

LEMMA InitBase == Init => BaseInv
  <1> SUFFICES ASSUME Init PROVE BaseInv
    OBVIOUS
  <1>1. TypeOK
    BY NewEntryTyped, JournalAssumption DEF Init, TypeOK, Places
  <1>2. EntriesInv /\ CopiesInv
    BY DEF Init, EntriesInv, CopiesInv, NewEntry, Busy
  <1> QED BY <1>1, <1>2 DEF BaseInv

EntriesTyped == entry \in [Op -> Entry \cup {NoEntry}] /\ EntriesInv

LEMMA FaultsTyped == ASSUME BaseInv, Fault \/ NoFault PROVE faults' \in 0 .. MaxFaults
  BY JournalAssumption DEF BaseInv, TypeOK

LEMMA Claimed == ASSUME BaseInv, NEW w \in Runner, pc[w] \in Busy \cup {"claim", "read"}
                 PROVE  cur[w] \in Copy /\ cur[w].op \in Op
  BY DEF BaseInv, CopiesInv, Copy

(* The runners' own part of the base invariant. *)
RunnersTyped ==
    /\ pc \in [Runner -> Places] /\ mode \in [Runner -> {"call", "recovery"}]
    /\ cur \in [Runner -> Copy \cup {NoEntry}] /\ lost \in [Runner -> BOOLEAN]
    /\ \A w \in Runner :
          /\ pc[w] \in Busy \cup {"claim", "read"} => cur[w] \in Copy
          /\ pc[w] \in Busy => cur[w].version = cur[w].attempts
          /\ pc[w] = "reject" => cur[w].op \in Unreadable
          /\ pc[w] = "next" => mode[w] = "recovery"

LEMMA RunnersAre == ASSUME BaseInv PROVE RunnersTyped
  BY DEF BaseInv, TypeOK, CopiesInv, RunnersTyped

LEMMA LeaveTyped ==
    ASSUME RunnersTyped, NEW w \in Runner, NEW place \in {"idle", "next"},
           place = "next" => mode[w] = "recovery", Leave(w, place)
    PROVE  RunnersTyped'
  <1>1. pc' \in [Runner -> Places] /\ mode' \in [Runner -> {"call", "recovery"}]
    BY DEF Leave, RunnersTyped, Places
  <1>2. cur' \in [Runner -> Copy \cup {NoEntry}] /\ lost' \in [Runner -> BOOLEAN]
    BY DEF Leave, RunnersTyped
  <1>3. \A v \in Runner \ {w} : pc'[v] = pc[v] /\ mode'[v] = mode[v] /\ cur'[v] = cur[v]
    BY DEF Leave, RunnersTyped
  <1>4. pc'[w] = place /\ (place = "next" => mode'[w] = mode[w])
    BY DEF Leave, RunnersTyped
  <1> QED BY <1>1, <1>2, <1>3, <1>4 DEF RunnersTyped, Busy

LEMMA ReturnTyped == ASSUME RunnersTyped, NEW w \in Runner, Return(w) PROVE RunnersTyped'
  <1>1. mode[w] \in {"call", "recovery"}
    BY DEF RunnersTyped
  <1> QED BY <1>1, LeaveTyped DEF Return

LEMMA GoesTyped ==
    ASSUME RunnersTyped, NEW w \in Runner, NEW place \in Busy \ {"reject"}, pc[w] \in Busy, Goto(w, place),
           UNCHANGED <<mode, cur, lost>>
    PROVE  RunnersTyped'
  BY DEF RunnersTyped, Busy, Places

LEMMA OneEntry ==
    ASSUME BaseInv, NEW o \in Op, entry' = [entry EXCEPT ![o] = entry'[o]], entry'[o] \in Entry,
           entry'[o].version = entry'[o].attempts, entry'[o].lease # "none" <=> entry'[o].status = "leased"
    PROVE  EntriesTyped'
  BY DEF BaseInv, TypeOK, EntriesTyped, EntriesInv

LEMMA StatusBase ==
    ASSUME BaseInv, NEW o \in Op, entry[o] # NoEntry, NEW status \in Terminal \cup {"pending"},
           SetStatus(o, status)
    PROVE  EntriesTyped'
  BY EntryWrites, OneEntry DEF BaseInv, EntriesInv, Terminal

LEMMA FinalBase ==
    ASSUME BaseInv, NEW o \in Op, entry[o] # NoEntry, NEW status \in Terminal, SetFinal(o, status)
    PROVE  EntriesTyped' /\ outcome' \in [Op -> Terminal \cup {"none"}]
  BY StatusBase DEF BaseInv, TypeOK, SetFinal

LEMMA MarkBase ==
    ASSUME BaseInv, NEW w \in Runner, pc[w] \in Busy, NEW status \in Terminal,
           MarkTerminal(w, status) \/ MarkFails(w, status)
    PROVE  EntriesTyped' /\ outcome' \in [Op -> Terminal \cup {"none"}]
  <1>1. cur[w].op \in Op
    BY DEF BaseInv, CopiesInv, Copy
  <1>2. CASE MarkTerminal(w, status)
    BY <1>1, <1>2, FinalBase DEF MarkTerminal, HoldsLease
  <1>3. CASE UNCHANGED <<entry, outcome>>
    BY <1>3 DEF BaseInv, TypeOK, EntriesTyped, EntriesInv
  <1> QED BY <1>2, <1>3 DEF MarkFails

LEMMA ClaimBase ==
    ASSUME BaseInv, NEW w \in Runner, NEW o \in Op, Claim(w, o), list' \in [Runner -> SUBSET Copy],
           \A v \in Runner : list'[v] \subseteq list[v],
           pc[w] \in {"claim", "next"}
    PROVE  BaseInv'
  <1>0. faults' \in 0 .. MaxFaults
    BY FaultsTyped DEF Claim
  <1>1. CASE Claimable(o) /\ TakeLease(w, o) /\ NoFault /\ cur' = [cur EXCEPT ![w] = CopyOf(o)']
               /\ (Goto(w, "check") \/ (o \in Unreadable /\ Goto(w, "reject"))) /\ UNCHANGED <<mode, lost>>
    <2>1. PICK lease \in {"live", "expired"} : Leased(o, lease)
      BY <1>1 DEF TakeLease
    <2>2. EntriesTyped' /\ CopyOf(o)' \in Copy /\ (CopyOf(o)').op = o /\ (CopyOf(o)').version = (CopyOf(o)').attempts
      <3>1. entry[o] # NoEntry /\ entry[o].version = entry[o].attempts
        BY <1>1 DEF Claimable, BaseInv, EntriesInv
      <3> QED BY <1>1, <2>1, <3>1, Claims, OneEntry
    <2>3. stalls' \in 0 .. MaxStalls
      BY <1>1, JournalAssumption DEF TakeLease, BaseInv, TypeOK
    <2> HIDE DEF Copy, CopyOf
    <2>4. CopiesInv'
      BY <1>1, <2>2 DEF Claim, BaseInv, CopiesInv, TypeOK, Places, Busy
    <2> QED BY <1>0, <1>1, <2>2, <2>3, <2>4 DEF Claim, EntriesTyped, BaseInv, TypeOK, Places
  <1>2. CASE ~Claimable(o) /\ NoFault /\ UNCHANGED <<entry, mode, cur, lost, stalls>>
               /\ Goto(w, IF mode[w] = "call" THEN "read" ELSE "next")
    BY <1>0, <1>2 DEF Claim, EntriesInv, BaseInv, TypeOK, CopiesInv, Places, Busy
  <1>3. CASE /\ (Claimable(o) /\ Leased(o, "live")) \/ UNCHANGED entry
             /\ Leave(w, "idle") /\ Fault /\ UNCHANGED stalls
    <2>1. EntriesTyped'
      <3>1. CASE Claimable(o) /\ Leased(o, "live")
        <4>1. entry[o] # NoEntry /\ entry[o].version = entry[o].attempts
          BY <3>1 DEF Claimable, BaseInv, EntriesInv
        <4> QED BY <3>1, <4>1, Claims, OneEntry
      <3>2. CASE UNCHANGED entry
        BY <3>2 DEF EntriesTyped, EntriesInv, BaseInv, TypeOK
      <3> QED BY <1>3, <3>1, <3>2
    <2>2. RunnersTyped'
      BY <1>3, LeaveTyped, RunnersAre
    <2> QED BY <1>0, <1>3, <2>1, <2>2 DEF Claim, EntriesTyped, RunnersTyped, BaseInv, TypeOK, CopiesInv
  <1> HIDE DEF Goto
  <1> QED BY <1>1, <1>2, <1>3 DEF Claim

LEMMA BaseStep == BaseInv /\ [Next]_vars => BaseInv'
  <1> SUFFICES ASSUME BaseInv, [Next]_vars PROVE BaseInv'
    OBVIOUS
  <1> USE DEF BaseInv, TypeOK, CopiesInv, Busy, Places
  <1>1. ASSUME NEW w \in Runner, NEW o \in Op, Call(w, o) PROVE BaseInv'
    <2>1. EntriesTyped'
      <3>1. entry' = [entry EXCEPT ![o] = NewEntry] \/ UNCHANGED entry
        BY <1>1 DEF Call, EnsurePending
      <3>2. CASE entry' = [entry EXCEPT ![o] = NewEntry]
        <4>1. entry'[o] = NewEntry
          BY <3>2
        <4> QED BY NewEntryTyped, <3>2, <4>1, OneEntry DEF NewEntry
      <3> QED BY <3>1, <3>2 DEF EntriesTyped, EntriesInv
    <2>2. [op |-> o, status |-> "pending", attempts |-> 0, version |-> 0] \in Copy
      BY JournalAssumption DEF Copy, Open
    <2>3. faults' \in 0 .. MaxFaults /\ calls' \in [Op -> 0 .. MaxCalls]
      BY <1>1, JournalAssumption DEF Call
    <2>4. UNCHANGED <<mode, list, lost>> /\ (UNCHANGED <<pc, cur>> \/ (Goto(w, "claim") /\ cur'[w] \in Copy
            /\ cur' = [cur EXCEPT ![w] = cur'[w]]))
      BY <1>1, <2>2 DEF Call
    <2>5. CopiesInv'
      BY <2>4
    <2> QED BY <1>1, <2>1, <2>3, <2>4, <2>5 DEF Call, EntriesTyped
  <1>2. ASSUME NEW w \in Runner, ClaimCalled(w) PROVE BaseInv'
    BY <1>2, ClaimBase DEF ClaimCalled
  <1>3. ASSUME NEW w \in Runner, Read(w) PROVE BaseInv'
    <2>1. cur[w].op \in Op
      BY <1>3, Claimed DEF Read
    <2>2. faults' \in 0 .. MaxFaults
      BY <1>3, FaultsTyped DEF Read
    <2>3. RunnersTyped'
      BY <1>3, RunnersAre, LeaveTyped DEF Read
    <2> QED BY <1>3, <2>1, <2>2, <2>3 DEF Read, EntriesInv, RunnersTyped
  <1>4. ASSUME NEW w \in Runner, StartRecovery(w) PROVE BaseInv'
    <2>1. \A o \in Stale : CopyOf(o) \in Copy /\ CopyOf(o).version = CopyOf(o).attempts /\ CopyOf(o).status \in Open
      BY Copies DEF Stale, Open
    <2> HIDE DEF CopyOf
    <2> QED BY <1>4, <2>1 DEF StartRecovery, EntriesInv
  <1>5. ASSUME NEW w \in Runner, NextCandidate(w) PROVE BaseInv'
    <2>1. PICK c \in list[w] : /\ list' = [list EXCEPT ![w] = @ \ {c}]
                               /\ \/ FailUnclaimed(w, c)
                                  \/ Claim(w, c.op)
      BY <1>5 DEF NextCandidate
    <2>2. c \in Copy /\ c.op \in Op /\ list' \in [Runner -> SUBSET Copy] /\ \A v \in Runner : list'[v] \subseteq list[v]
      BY <2>1 DEF Copy
    <2>3. CASE FailUnclaimed(w, c)
      <3>1. EntriesTyped' /\ outcome' \in [Op -> Terminal \cup {"none"}]
        <4>1. CASE UNCHANGED <<entry, outcome>>
          BY <4>1 DEF EntriesTyped, EntriesInv
        <4> QED BY <2>2, <2>3, <4>1, FinalBase DEF FailUnclaimed, Unchanged, Terminal
      <3>2. faults' \in 0 .. MaxFaults
        BY <2>3, FaultsTyped DEF FailUnclaimed
      <3>3. pc[w] = "next" /\ mode[w] = "recovery"
        BY <1>5 DEF NextCandidate
      <3>4. RunnersTyped'
        BY <2>3, <3>3, RunnersAre, LeaveTyped DEF FailUnclaimed
      <3> QED BY <2>2, <2>3, <3>1, <3>2, <3>4 DEF FailUnclaimed, EntriesTyped, RunnersTyped
    <2>4. CASE Claim(w, c.op)
      BY <1>5, <2>2, <2>4, ClaimBase DEF NextCandidate
    <2> QED BY <2>1, <2>3, <2>4
  <1>6. ASSUME NEW w \in Runner, EndRecovery(w) PROVE BaseInv'
    <2>1. RunnersTyped'
      BY <1>6, RunnersAre, LeaveTyped DEF EndRecovery
    <2> QED BY <1>6, <2>1 DEF EndRecovery, EntriesInv, RunnersTyped
  <1>7. ASSUME NEW w \in Runner, Reject(w) PROVE BaseInv'
    <2>1. EntriesTyped' /\ outcome' \in [Op -> Terminal \cup {"none"}]
      BY <1>7, MarkBase DEF Reject, Terminal
    <2>2. faults' \in 0 .. MaxFaults
      BY <1>7, FaultsTyped DEF Reject, MarkFails
    <2>3. RunnersTyped'
      BY <1>7, RunnersAre, LeaveTyped, ReturnTyped DEF Reject
    <2> QED BY <1>7, <2>1, <2>2, <2>3 DEF Reject, EntriesTyped, RunnersTyped
  <1>8. ASSUME NEW w \in Runner, Check(w) PROVE BaseInv'
    <2>1. faults' \in 0 .. MaxFaults
      BY <1>8, FaultsTyped DEF Check
    <2>2. RunnersTyped'
      BY <1>8, RunnersAre, ReturnTyped, GoesTyped DEF Check
    <2> QED BY <1>8, <2>1, <2>2 DEF Check, EntriesInv, RunnersTyped
  <1>9. ASSUME NEW w \in Runner, Supersede(w) PROVE BaseInv'
    <2>1. EntriesTyped' /\ outcome' \in [Op -> Terminal \cup {"none"}]
      BY <1>9, MarkBase DEF Supersede, Terminal
    <2>2. faults' \in 0 .. MaxFaults
      BY <1>9, FaultsTyped DEF Supersede, MarkFails
    <2>3. toldOk' \subseteq Op
      BY <1>9, Claimed DEF Supersede, ReturnOk
    <2>4. RunnersTyped'
      BY <1>9, RunnersAre, ReturnTyped DEF Supersede, ReturnOk
    <2> QED BY <1>9, <2>1, <2>2, <2>3, <2>4 DEF Supersede, EntriesTyped, RunnersTyped
  <1>10. ASSUME NEW w \in Runner, Execute(w) PROVE BaseInv'
    <2>1. cur[w].op \in Op
      BY <1>10, Claimed DEF Execute
    <2>2. written' \in Op \cup {0} /\ effects' \in [Op -> Nat]
      BY <1>10, <2>1 DEF Execute, Apply
    <2>3. RunnersTyped'
      BY <1>10, RunnersAre, ReturnTyped, GoesTyped DEF Execute
    <2> QED BY <1>10, <2>2, <2>3 DEF Execute, EntriesInv, RunnersTyped
  <1>11. ASSUME NEW w \in Runner, Complete(w) PROVE BaseInv'
    <2>1. EntriesTyped' /\ outcome' \in [Op -> Terminal \cup {"none"}]
      <3>1. CASE UNCHANGED <<entry, outcome>>
        BY <3>1 DEF EntriesTyped, EntriesInv
      <3> QED BY <1>11, <3>1, MarkBase DEF Complete, Terminal
    <2>2. faults' \in 0 .. MaxFaults
      BY <1>11, FaultsTyped DEF Complete, MarkFails
    <2>3. toldOk' \subseteq Op
      BY <1>11, Claimed DEF Complete, ReturnOk
    <2>4. RunnersTyped'
      BY <1>11, RunnersAre, ReturnTyped, GoesTyped DEF Complete, ReturnOk
    <2> QED BY <1>11, <2>1, <2>2, <2>3, <2>4 DEF Complete, EntriesTyped, RunnersTyped
  <1>12. ASSUME NEW w \in Runner, Release(w) PROVE BaseInv'
    <2>1. EntriesTyped' /\ outcome' \in [Op -> Terminal \cup {"none"}]
      <3>1. CASE UNCHANGED <<entry, outcome>>
        BY <3>1 DEF EntriesTyped, EntriesInv
      <3>2. CASE HoldsLease(cur[w]) /\ Released(cur[w])
        <4>1. cur[w].op \in Op /\ entry[cur[w].op] # NoEntry
          BY <1>12, <3>2 DEF Release, HoldsLease, Copy
        <4> QED BY <3>2, <4>1, FinalBase, StatusBase DEF Released, Terminal
      <3> QED BY <1>12, <3>1, <3>2 DEF Release
    <2>2. faults' \in 0 .. MaxFaults
      BY <1>12, FaultsTyped DEF Release
    <2>3. RunnersTyped'
      BY <1>12, RunnersAre, ReturnTyped DEF Release
    <2> QED BY <1>12, <2>1, <2>2, <2>3 DEF Release, EntriesTyped, RunnersTyped
  <1>13. ASSUME NEW w \in Runner, Renew(w) PROVE BaseInv'
    <2>1. EntriesTyped'
      <3>1. CASE UNCHANGED entry
        BY <3>1 DEF EntriesTyped, EntriesInv
      <3>2. CASE HoldsLease(cur[w]) /\ entry' = [entry EXCEPT ![cur[w].op].lease = "live"]
        <4>1. cur[w].op \in Op /\ entry[cur[w].op] \in Entry
          BY <1>13, <3>2 DEF Renew, HoldsLease, Copy, Executing
        <4>2. [entry[cur[w].op] EXCEPT !.lease = "live"] \in Entry
          BY <4>1 DEF Entry
        <4> QED BY <3>2, <4>1, <4>2 DEF EntriesTyped, EntriesInv, HoldsLease, Entry
      <3> QED BY <1>13, <3>1, <3>2 DEF Renew
    <2>2. lost' \in [Runner -> BOOLEAN]
      BY <1>13 DEF Renew
    <2>3. faults' \in 0 .. MaxFaults
      BY <1>13, FaultsTyped DEF Renew
    <2> QED BY <1>13, <2>1, <2>2, <2>3 DEF Renew, EntriesTyped
  <1>14. ASSUME NEW w \in Runner, Crash(w) PROVE BaseInv'
    <2>1. RunnersTyped'
      BY <1>14, RunnersAre, LeaveTyped DEF Crash
    <2> QED BY <1>14, <2>1, FaultsTyped DEF Crash, EntriesInv, RunnersTyped
  <1>15. ASSUME NEW o \in Op, LeaseRunsOut(o) PROVE BaseInv'
    <2>1. [entry[o] EXCEPT !.lease = "expired"] \in Entry
      BY <1>15 DEF LeaseRunsOut, Entry
    <2>2. EntriesTyped'
      BY <1>15, <2>1 DEF LeaseRunsOut, EntriesTyped, EntriesInv, Entry
    <2>3. stalls' \in 0 .. MaxStalls
      BY <1>15, JournalAssumption DEF LeaseRunsOut
    <2> QED BY <1>15, <2>2, <2>3 DEF LeaseRunsOut, EntriesTyped
  <1>16. ASSUME NEW o \in Op, GrowOld(o) PROVE BaseInv'
    <2>1. [entry[o] EXCEPT !.old = TRUE] \in Entry
      <3>1. entry[o] \in Entry
        BY <1>16 DEF GrowOld
      <3> QED BY <3>1 DEF Entry
    <2>2. EntriesTyped'
      BY <1>16, <2>1 DEF GrowOld, EntriesTyped, EntriesInv, Entry
    <2> QED BY <1>16, <2>2 DEF GrowOld, EntriesTyped
  <1>17. ASSUME NEW o \in Op, Purge(o) PROVE BaseInv'
    BY <1>17, JournalAssumption DEF Purge, Entry, EntriesInv
  <1>18. CASE UNCHANGED vars
    BY <1>18 DEF vars, EntriesInv
  <1> QED
    BY <1>1, <1>2, <1>3, <1>4, <1>5, <1>6, <1>7, <1>8, <1>9, <1>10, <1>11, <1>12, <1>13, <1>14,
       <1>15, <1>16, <1>17, <1>18 DEF Next, RunnerStep

-----------------------------------------------------------------------------
(* What a step does to an entry, to a runner and to the effects *)

Same(o) == entry'[o] = entry[o] /\ outcome'[o] = outcome[o] /\ calls'[o] >= calls[o]

Recorded(o) ==
    /\ entry[o] = NoEntry /\ calls[o] < MaxCalls
    /\ entry'[o] = NewEntry /\ outcome'[o] = outcome[o] /\ calls'[o] > 0

(* Still the same lease, or the same waiting entry. *)
Kept(o) ==
    /\ entry[o] # NoEntry /\ entry'[o] # NoEntry
    /\ entry'[o].version = entry[o].version /\ entry'[o].attempts = entry[o].attempts
    /\ calls'[o] = calls[o]

Touched(o) ==
    /\ Kept(o) /\ entry'[o].status = entry[o].status /\ outcome'[o] = outcome[o]
    /\ entry[o].status \notin Terminal
    /\ entry[o].lease = "live" /\ entry'[o].lease # "live" => stalls' > 0 \/ ~Held(o)

Taken(o) ==
    /\ Claimable(o) /\ entry'[o] # NoEntry
    /\ entry'[o].status = "leased" /\ entry'[o].version = entry[o].version + 1
    /\ entry'[o].attempts = entry[o].attempts + 1
    /\ outcome'[o] = outcome[o] /\ calls'[o] = calls[o]

Ended(o) ==
    /\ Kept(o) /\ entry[o].status \in Open /\ entry'[o].status \in Terminal
    /\ outcome'[o] = entry'[o].status
    /\ entry'[o].status = "done" => \E w \in Runner : pc[w] = "executed" /\ cur[w].op = o
    /\ entry'[o].status = "superseded" => \E w \in Runner : pc[w] = "supersede" /\ cur[w].op = o
    /\ entry'[o].status = "failed" => entry[o].attempts = MaxAttempts \/ o \in Unreadable

GivenBack(o) ==
    /\ Kept(o) /\ entry[o].status = "leased" /\ entry'[o].status = "pending" /\ outcome'[o] = outcome[o]
    /\ \E w \in Runner : pc[w] = "release" /\ cur[w].op = o /\ pc'[w] \notin Busy

Purged(o) ==
    /\ o \in Purgeable /\ entry[o] # NoEntry /\ entry[o].status \in Terminal
    /\ entry'[o] = NoEntry /\ outcome'[o] = outcome[o] /\ calls'[o] = MaxCalls

EntryStep(o) ==
    Same(o) \/ Recorded(o) \/ Touched(o) \/ Taken(o) \/ Ended(o) \/ GivenBack(o) \/ Purged(o)

Stays(w) == pc'[w] = pc[w] /\ cur'[w] = cur[w]

Starts(w) ==
    /\ pc[w] \notin Busy /\ pc'[w] \in {"check", "reject"}
    /\ \A v \in Runner \ {w} : Stays(v)
    /\ \E o \in Op : /\ Taken(o) /\ cur'[w].op = o /\ cur'[w].version = entry'[o].version
                     /\ entry'[o].lease = "live" \/ stalls' > 0

GoesOn(w) ==
    /\ cur'[w] = cur[w]
    /\ \/ pc[w] = "check" /\ pc'[w] = "supersede" /\ Newer(cur[w].op) # {}
       \/ pc[w] = "check" /\ pc'[w] = "execute" /\ Newer(cur[w].op) = {}
       \/ pc[w] = "execute" /\ pc'[w] = "executed" /\ effects'[cur[w].op] > 0
       \/ pc[w] \in {"execute", "executed"} /\ pc'[w] = "release"

RunnerMoves(w) == Stays(w) \/ pc'[w] \notin Busy \/ Starts(w) \/ GoesOn(w)

EffectStep(o) ==
    \/ effects'[o] = effects[o]
    \/ effects'[o] = effects[o] + 1
          /\ \E w \in Runner : pc[w] = "execute" /\ cur[w].op = o /\ pc'[w] \notin {"check", "execute"}

LEMMA FinalEnds ==
    ASSUME BaseInv, NEW p \in Op, entry[p] # NoEntry, NEW status \in Terminal, SetFinal(p, status)
    PROVE  /\ \A o \in Op \ {p} : entry'[o] = entry[o] /\ outcome'[o] = outcome[o]
           /\ entry'[p] # NoEntry /\ entry'[p].status = status /\ entry'[p].lease = "none"
           /\ entry'[p].version = entry[p].version /\ entry'[p].attempts = entry[p].attempts
           /\ outcome'[p] = status
  <1>1. SetStatus(p, status)
    BY DEF SetFinal
  <1>2. /\ entry' = [entry EXCEPT ![p] = entry'[p]]
        /\ entry'[p] # NoEntry /\ entry'[p].status = status /\ entry'[p].lease = "none"
        /\ entry'[p].version = entry[p].version /\ entry'[p].attempts = entry[p].attempts
    BY <1>1, EntryWrites
  <1>3. outcome' = [outcome EXCEPT ![p] = status]
    BY DEF SetFinal
  <1> QED BY <1>2, <1>3 DEF BaseInv, TypeOK

LEMMA MarkEnds ==
    ASSUME BaseInv, NEW w \in Runner, pc[w] \in Busy, NEW status \in Terminal,
           MarkTerminal(w, status) \/ MarkFails(w, status), UNCHANGED calls,
           status = "done" => pc[w] = "executed", status = "superseded" => pc[w] = "supersede",
           status = "failed" => cur[w].op \in Unreadable,
           NEW o \in Op
    PROVE  EntryStep(o)
  <1>1. cur[w].op \in Op
    BY Claimed
  <1>2. calls'[o] >= calls[o]
    BY DEF BaseInv, TypeOK
  <1>3. CASE UNCHANGED <<entry, outcome>>
    BY <1>2, <1>3 DEF EntryStep, Same
  <1>4. CASE MarkTerminal(w, status)
    <2>1. entry[cur[w].op] # NoEntry /\ entry[cur[w].op].status = "leased"
      BY <1>4 DEF MarkTerminal, HoldsLease
    <2>2. SetFinal(cur[w].op, status)
      BY <1>4 DEF MarkTerminal
    <2>3. CASE o = cur[w].op
      BY <1>1, <2>1, <2>2, <2>3, FinalEnds DEF EntryStep, Ended, Kept, Open
    <2>4. CASE o # cur[w].op
      BY <1>1, <1>2, <2>1, <2>2, <2>4, FinalEnds DEF EntryStep, Same
    <2> QED BY <2>3, <2>4
  <1> QED BY <1>3, <1>4 DEF MarkFails

LEMMA ClaimTakes ==
    ASSUME BaseInv, NEW w \in Runner, NEW p \in Op, Claim(w, p), NEW o \in Op
    PROVE  EntryStep(o)
  <1>1. calls'[o] >= calls[o] /\ outcome'[o] = outcome[o] /\ calls'[o] = calls[o]
    BY DEF Claim, BaseInv, TypeOK
  <1>2. CASE UNCHANGED entry
    BY <1>1, <1>2 DEF EntryStep, Same
  <1>3. ASSUME Claimable(p), NEW lease \in {"live", "expired"}, Leased(p, lease) PROVE EntryStep(o)
    <2>1. CASE o = p
      BY <1>1, <1>3, <2>1, Claims DEF EntryStep, Taken
    <2>2. CASE o # p
      BY <1>1, <1>3, <2>2 DEF EntryStep, Same, Leased, BaseInv, TypeOK
    <2> QED BY <2>1, <2>2
  <1> QED BY <1>2, <1>3 DEF Claim, TakeLease

LEMMA EntrySteps == ASSUME BaseInv, Next, NEW o \in Op PROVE EntryStep(o)
  <1> USE DEF EntryStep
  <1>0. UNCHANGED <<entry, outcome, calls>> => Same(o)
    BY DEF Same, BaseInv, TypeOK
  <1>1. ASSUME NEW w \in Runner, NEW p \in Op, Call(w, p) PROVE EntryStep(o)
    <2>1. calls'[o] >= calls[o] /\ outcome'[o] = outcome[o]
      BY <1>1 DEF Call, BaseInv, TypeOK
    <2>2. CASE entry'[o] = entry[o]
      BY <2>1, <2>2 DEF Same
    <2>3. CASE o = p /\ entry[o] = NoEntry /\ entry' = [entry EXCEPT ![o] = NewEntry]
      BY <1>1, <2>1, <2>3 DEF Call, Recorded, BaseInv, TypeOK
    <2>4. (entry' = [entry EXCEPT ![p] = NewEntry] /\ entry[p] = NoEntry) \/ UNCHANGED entry
      BY <1>1 DEF Call, EnsurePending
    <2> QED BY <2>2, <2>3, <2>4 DEF BaseInv, TypeOK
  <1>2. ASSUME NEW w \in Runner, ClaimCalled(w) PROVE EntryStep(o)
    BY <1>2, ClaimTakes DEF ClaimCalled
  <1>3. ASSUME NEW w \in Runner, Read(w) PROVE EntryStep(o)
    BY <1>0, <1>3 DEF Read
  <1>4. ASSUME NEW w \in Runner, StartRecovery(w) PROVE EntryStep(o)
    BY <1>0, <1>4 DEF StartRecovery
  <1>5. ASSUME NEW w \in Runner, NextCandidate(w) PROVE EntryStep(o)
    <2>1. PICK c \in list[w] : \/ c.attempts >= MaxAttempts /\ FailUnclaimed(w, c)
                               \/ Claim(w, c.op)
      BY <1>5 DEF NextCandidate
    <2>2. c \in Copy /\ c.op \in Op /\ c.version = c.attempts /\ c.status \in Open
      BY DEF BaseInv, TypeOK, CopiesInv, Copy
    <2>3. CASE c.attempts >= MaxAttempts /\ FailUnclaimed(w, c)
      <3>1. UNCHANGED calls /\ calls'[o] >= calls[o]
        BY <2>3 DEF FailUnclaimed, BaseInv, TypeOK
      <3>2. CASE UNCHANGED <<entry, outcome>>
        BY <1>0, <3>1, <3>2
      <3>3. CASE Unchanged(c) /\ SetFinal(c.op, "failed")
        <4>1. entry[c.op] # NoEntry /\ entry[c.op].status \in Open
          BY <2>2, <3>3 DEF Unchanged
        <4>2. entry[c.op].attempts = MaxAttempts
          <5>1. entry[c.op].attempts = c.attempts
            BY <2>2, <3>3, <4>1 DEF Unchanged, BaseInv, EntriesInv
          <5>2. c.attempts \in 0 .. MaxAttempts
            BY <2>2 DEF Copy
          <5> QED BY <2>3, <5>1, <5>2, JournalAssumption
        <4>3. CASE o = c.op
          BY <2>2, <3>1, <3>3, <4>1, <4>2, <4>3, FinalEnds DEF Ended, Kept, Terminal
        <4>4. CASE o # c.op
          BY <2>2, <3>1, <3>3, <4>1, <4>4, FinalEnds DEF Same, Terminal
        <4> QED BY <4>3, <4>4
      <3> QED BY <2>3, <3>2, <3>3 DEF FailUnclaimed
    <2>4. CASE Claim(w, c.op)
      BY <2>2, <2>4, ClaimTakes
    <2> QED BY <2>1, <2>3, <2>4
  <1>6. ASSUME NEW w \in Runner, EndRecovery(w) PROVE EntryStep(o)
    BY <1>0, <1>6 DEF EndRecovery
  <1>7. ASSUME NEW w \in Runner, Reject(w) PROVE EntryStep(o)
    BY <1>7, MarkEnds DEF Reject, Terminal, Busy, BaseInv, CopiesInv
  <1>8. ASSUME NEW w \in Runner, Check(w) PROVE EntryStep(o)
    BY <1>0, <1>8 DEF Check
  <1>9. ASSUME NEW w \in Runner, Supersede(w) PROVE EntryStep(o)
    BY <1>9, MarkEnds DEF Supersede, Terminal, Busy
  <1>10. ASSUME NEW w \in Runner, Execute(w) PROVE EntryStep(o)
    BY <1>0, <1>10 DEF Execute
  <1>11. ASSUME NEW w \in Runner, Complete(w) PROVE EntryStep(o)
    <2>1. CASE UNCHANGED <<entry, outcome>>
      BY <1>0, <1>11, <2>1 DEF Complete
    <2>2. CASE MarkTerminal(w, "done") \/ MarkFails(w, "done")
      BY <1>11, <2>2, MarkEnds DEF Complete, Terminal, Busy
    <2> QED BY <1>11, <2>1, <2>2 DEF Complete
  <1>12. ASSUME NEW w \in Runner, Release(w) PROVE EntryStep(o)
    <2>1. UNCHANGED calls /\ pc[w] = "release" /\ pc'[w] \notin Busy
      BY <1>12 DEF Release, Return, Leave, Busy, BaseInv, TypeOK
    <2>2. cur[w] \in Copy /\ cur[w].op \in Op /\ cur[w].version = cur[w].attempts
      BY <2>1, Claimed DEF BaseInv, CopiesInv, Busy
    <2>3. CASE UNCHANGED <<entry, outcome>>
      BY <1>0, <2>1, <2>3
    <2>4. CASE HoldsLease(cur[w]) /\ Released(cur[w])
      <3>1. entry[cur[w].op] # NoEntry /\ entry[cur[w].op].status = "leased"
        BY <2>4 DEF HoldsLease
      <3>2. CASE cur[w].attempts >= MaxAttempts /\ SetFinal(cur[w].op, "failed")
        <4>1. entry[cur[w].op].attempts = MaxAttempts
          <5>1. entry[cur[w].op].attempts = cur[w].attempts
            BY <2>2, <2>4, <3>1 DEF HoldsLease, BaseInv, EntriesInv
          <5>2. cur[w].attempts \in 0 .. MaxAttempts
            BY <2>2 DEF Copy
          <5> QED BY <3>2, <5>1, <5>2, JournalAssumption
        <4>2. CASE o = cur[w].op
          BY <2>1, <2>2, <3>1, <3>2, <4>1, <4>2, FinalEnds DEF Ended, Kept, Terminal, Open
        <4>3. CASE o # cur[w].op
          BY <1>0, <2>1, <2>2, <3>1, <3>2, <4>3, FinalEnds DEF Same, Terminal, BaseInv, TypeOK
        <4> QED BY <4>2, <4>3
      <3>3. CASE SetStatus(cur[w].op, "pending") /\ UNCHANGED outcome
        <4>1. /\ entry' = [entry EXCEPT ![cur[w].op] = entry'[cur[w].op]] /\ entry'[cur[w].op] # NoEntry
              /\ entry'[cur[w].op].status = "pending"
              /\ entry'[cur[w].op].version = entry[cur[w].op].version
              /\ entry'[cur[w].op].attempts = entry[cur[w].op].attempts
          BY <2>2, <3>1, <3>3, EntryWrites
        <4>2. CASE o = cur[w].op
          BY <2>1, <3>1, <3>3, <4>1, <4>2 DEF GivenBack, Kept
        <4>3. CASE o # cur[w].op
          BY <2>1, <3>3, <4>1, <4>3 DEF Same, BaseInv, TypeOK
        <4> QED BY <4>2, <4>3
      <3> QED BY <2>4, <3>2, <3>3 DEF Released
    <2> QED BY <1>12, <2>3, <2>4 DEF Release
  <1>13. ASSUME NEW w \in Runner, Renew(w) PROVE EntryStep(o)
    <2>1. UNCHANGED <<outcome, calls>>
      BY <1>13 DEF Renew
    <2>2. CASE UNCHANGED entry
      BY <1>0, <2>1, <2>2
    <2>3. CASE HoldsLease(cur[w]) /\ entry' = [entry EXCEPT ![cur[w].op].lease = "live"]
      <3>1. cur[w].op \in Op /\ entry[cur[w].op] \in Entry /\ entry[cur[w].op].status = "leased"
        BY <1>13, <2>3, Claimed DEF Renew, HoldsLease, Executing, Busy, BaseInv, TypeOK
      <3>2. CASE o = cur[w].op
        <4>1. entry'[o] = [entry[o] EXCEPT !.lease = "live"] /\ entry[o] \in Entry /\ entry'[o] \in Entry
          BY <2>3, <3>1, <3>2 DEF BaseInv, TypeOK, Entry
        <4> QED BY <2>1, <3>1, <3>2, <4>1, NoEntryAssumption DEF Touched, Kept, Terminal, Entry
      <3>3. CASE o # cur[w].op
        BY <2>1, <2>3, <3>3 DEF Same, BaseInv, TypeOK
      <3> QED BY <3>2, <3>3
    <2> QED BY <1>13, <2>2, <2>3 DEF Renew
  <1>14. ASSUME NEW w \in Runner, Crash(w) PROVE EntryStep(o)
    BY <1>0, <1>14 DEF Crash
  <1>15. ASSUME NEW p \in Op, LeaseRunsOut(p) PROVE EntryStep(o)
    <2>1. UNCHANGED <<outcome, calls>>
      BY <1>15 DEF LeaseRunsOut
    <2>2. CASE o = p
      <3>1. entry'[o] = [entry[o] EXCEPT !.lease = "expired"] /\ entry[o] \in Entry /\ entry'[o] \in Entry
        BY <1>15, <2>2 DEF LeaseRunsOut, BaseInv, TypeOK, Entry
      <3>2. entry[o].status = "leased"
        BY <1>15, <2>2 DEF LeaseRunsOut, BaseInv, EntriesInv
      <3>3. ~Held(o) \/ stalls' > 0
        BY <1>15, <2>2 DEF LeaseRunsOut, BaseInv, TypeOK
      <3> QED BY <2>1, <3>1, <3>2, <3>3, NoEntryAssumption DEF Touched, Kept, Terminal, Entry
    <2>3. CASE o # p
      BY <1>15, <2>1, <2>3 DEF LeaseRunsOut, Same, BaseInv, TypeOK
    <2> QED BY <2>2, <2>3
  <1>16. ASSUME NEW p \in Op, GrowOld(p) PROVE EntryStep(o)
    <2>1. UNCHANGED <<outcome, calls>>
      BY <1>16 DEF GrowOld
    <2>2. CASE o = p
      <3>1. entry'[o] = [entry[o] EXCEPT !.old = TRUE] /\ entry[o] \in Entry
        BY <1>16, <2>2 DEF GrowOld, BaseInv, TypeOK
      <3>2. entry'[o] \in Entry
        BY <3>1 DEF Entry
      <3>3. entry[o].status = "pending" /\ entry[o] # NoEntry
        BY <1>16, <2>2 DEF GrowOld
      <3> QED BY <2>1, <3>1, <3>2, <3>3, NoEntryAssumption DEF Touched, Kept, Terminal, Entry
    <2>3. CASE o # p
      BY <1>16, <2>1, <2>3 DEF GrowOld, Same, BaseInv, TypeOK
    <2> QED BY <2>2, <2>3
  <1>17. ASSUME NEW p \in Op, Purge(p) PROVE EntryStep(o)
    <2>1. CASE o = p
      BY <1>17, <2>1 DEF Purge, Purged, BaseInv, TypeOK
    <2>2. CASE o # p
      BY <1>17, <2>2 DEF Purge, Same, BaseInv, TypeOK
    <2> QED BY <2>1, <2>2
  <1> HIDE DEF EntryStep
  <1> QED
    BY <1>1, <1>2, <1>3, <1>4, <1>5, <1>6, <1>7, <1>8, <1>9, <1>10, <1>11, <1>12, <1>13, <1>14,
       <1>15, <1>16, <1>17 DEF Next, RunnerStep

LEMMA LeaveMoves ==
    ASSUME BaseInv, NEW w \in Runner, NEW place \in {"idle", "next"}, Leave(w, place), NEW v \in Runner
    PROVE  RunnerMoves(v)
  BY DEF Leave, RunnerMoves, Stays, Busy, BaseInv, TypeOK

LEMMA ReturnMoves == ASSUME BaseInv, NEW w \in Runner, Return(w), NEW v \in Runner PROVE RunnerMoves(v)
  BY LeaveMoves DEF Return

LEMMA ClaimMoves ==
    ASSUME BaseInv, NEW w \in Runner, pc[w] \in {"claim", "next"}, NEW p \in Op, Claim(w, p),
           NEW v \in Runner
    PROVE  RunnerMoves(v)
  <1>1. ASSUME Claimable(p), TakeLease(w, p), cur' = [cur EXCEPT ![w] = CopyOf(p)'],
               Goto(w, "check") \/ (p \in Unreadable /\ Goto(w, "reject"))
        PROVE  RunnerMoves(v)
    <2>1. PICK lease \in {"live", "expired"} : Leased(p, lease) /\ (lease = "live" \/ stalls' > 0)
      BY <1>1 DEF TakeLease, BaseInv, TypeOK
    <2>2. Taken(p) /\ entry'[p].lease = lease /\ cur'[w].op = p /\ cur'[w].version = entry'[p].version
      <3>1. cur'[w] = CopyOf(p)'
        BY <1>1 DEF BaseInv, TypeOK
      <3> QED BY <1>1, <2>1, <3>1, Claims DEF Taken, Claim, BaseInv, TypeOK
    <2>3. \A u \in Runner \ {w} : Stays(u)
      BY <1>1 DEF Stays, BaseInv, TypeOK
    <2>4. pc[w] \notin Busy /\ pc'[w] \in {"check", "reject"}
      BY <1>1 DEF Busy, BaseInv, TypeOK
    <2> QED BY <2>1, <2>2, <2>3, <2>4 DEF RunnerMoves, Starts
  <1>2. ASSUME NEW place \in {"read", "next", "idle"}, Goto(w, place), UNCHANGED cur
        PROVE  RunnerMoves(v)
    BY <1>2 DEF RunnerMoves, Stays, Busy, BaseInv, TypeOK
  <1>3. CASE Leave(w, "idle")
    BY <1>3, LeaveMoves
  <1> HIDE DEF Goto
  <1> QED BY <1>1, <1>2, <1>3 DEF Claim

LEMMA RunnerSteps == ASSUME BaseInv, Next, NEW v \in Runner PROVE RunnerMoves(v)
  <1>0. ASSUME NEW w \in Runner, NEW place \in {"claim", "read", "next", "idle"}, Goto(w, place),
               \A u \in Runner \ {w} : cur'[u] = cur[u]
        PROVE  RunnerMoves(v)
    BY <1>0 DEF RunnerMoves, Stays, Busy, BaseInv, TypeOK
  <1>1. ASSUME NEW w \in Runner, NEW p \in Op, Call(w, p) PROVE RunnerMoves(v)
    <2>1. \A u \in Runner \ {w} : cur'[u] = cur[u]
      BY <1>1 DEF Call, BaseInv, TypeOK
    <2>2. Goto(w, "claim") \/ (UNCHANGED pc /\ pc[w] = "idle")
      BY <1>1 DEF Call
    <2> QED BY <1>0, <2>1, <2>2 DEF RunnerMoves, Stays, Busy
  <1>2. ASSUME NEW w \in Runner, ClaimCalled(w) PROVE RunnerMoves(v)
    BY <1>2, ClaimMoves DEF ClaimCalled
  <1>3. ASSUME NEW w \in Runner, Read(w) PROVE RunnerMoves(v)
    BY <1>3, LeaveMoves DEF Read
  <1>4. ASSUME NEW w \in Runner, StartRecovery(w) PROVE RunnerMoves(v)
    BY <1>0, <1>4 DEF StartRecovery
  <1>5. ASSUME NEW w \in Runner, NextCandidate(w) PROVE RunnerMoves(v)
    <2>1. PICK c \in list[w] : FailUnclaimed(w, c) \/ Claim(w, c.op)
      BY <1>5 DEF NextCandidate
    <2>2. c.op \in Op /\ pc[w] = "next"
      BY <1>5 DEF BaseInv, TypeOK, Copy, NextCandidate
    <2>3. CASE FailUnclaimed(w, c)
      BY <2>3, LeaveMoves DEF FailUnclaimed
    <2> QED BY <2>1, <2>2, <2>3, ClaimMoves
  <1>6. ASSUME NEW w \in Runner, EndRecovery(w) PROVE RunnerMoves(v)
    BY <1>6, LeaveMoves DEF EndRecovery
  <1>7. ASSUME NEW w \in Runner, Reject(w) PROVE RunnerMoves(v)
    BY <1>7, LeaveMoves, ReturnMoves DEF Reject
  <1>8. ASSUME NEW w \in Runner, Check(w) PROVE RunnerMoves(v)
    <2>1. CASE Newer(cur[w].op) # {} /\ Goto(w, "supersede") /\ UNCHANGED cur
      BY <1>8, <2>1 DEF Check, RunnerMoves, Stays, GoesOn, BaseInv, TypeOK
    <2>2. CASE Newer(cur[w].op) = {} /\ Goto(w, "execute") /\ UNCHANGED cur
      BY <1>8, <2>2 DEF Check, RunnerMoves, Stays, GoesOn, BaseInv, TypeOK
    <2>3. CASE Return(w)
      BY <2>3, ReturnMoves
    <2> QED BY <1>8, <2>1, <2>2, <2>3 DEF Check
  <1>9. ASSUME NEW w \in Runner, Supersede(w) PROVE RunnerMoves(v)
    BY <1>9, ReturnMoves DEF Supersede, ReturnOk
  <1>10. ASSUME NEW w \in Runner, Execute(w) PROVE RunnerMoves(v)
    <2>1. pc[w] = "execute"
      BY <1>10 DEF Execute
    <2>2. CASE Apply(cur[w].op) /\ Goto(w, "executed") /\ UNCHANGED cur
      <3>1. effects'[cur[w].op] > 0
        BY <2>1, <2>2, Claimed DEF Apply, Busy, BaseInv, TypeOK
      <3> QED BY <2>1, <2>2, <3>1 DEF RunnerMoves, Stays, GoesOn, BaseInv, TypeOK
    <2>3. CASE Goto(w, "release") /\ UNCHANGED cur
      BY <2>1, <2>3 DEF RunnerMoves, Stays, GoesOn, BaseInv, TypeOK
    <2>4. CASE Return(w)
      BY <2>4, ReturnMoves
    <2> QED BY <1>10, <2>2, <2>3, <2>4 DEF Execute
  <1>11. ASSUME NEW w \in Runner, Complete(w) PROVE RunnerMoves(v)
    <2>1. pc[w] = "executed"
      BY <1>11 DEF Complete
    <2>2. CASE Goto(w, "release") /\ UNCHANGED cur
      BY <2>1, <2>2 DEF RunnerMoves, Stays, GoesOn, BaseInv, TypeOK
    <2>3. CASE Return(w)
      BY <2>3, ReturnMoves
    <2> QED BY <1>11, <2>2, <2>3 DEF Complete, ReturnOk
  <1>12. ASSUME NEW w \in Runner, Release(w) PROVE RunnerMoves(v)
    BY <1>12, ReturnMoves DEF Release
  <1>13. ASSUME NEW w \in Runner, Renew(w) PROVE RunnerMoves(v)
    BY <1>13 DEF Renew, RunnerMoves, Stays
  <1>14. ASSUME NEW w \in Runner, Crash(w) PROVE RunnerMoves(v)
    BY <1>14, LeaveMoves DEF Crash
  <1>15. ASSUME NEW o \in Op, LeaseRunsOut(o) \/ GrowOld(o) \/ Purge(o) PROVE RunnerMoves(v)
    BY <1>15 DEF LeaseRunsOut, GrowOld, Purge, RunnerMoves, Stays
  <1> QED
    BY <1>1, <1>2, <1>3, <1>4, <1>5, <1>6, <1>7, <1>8, <1>9, <1>10, <1>11, <1>12, <1>13, <1>14,
       <1>15 DEF Next, RunnerStep

LEMMA EffectSteps == ASSUME BaseInv, Next, NEW o \in Op PROVE EffectStep(o)
  <1>1. ASSUME NEW w \in Runner, Execute(w) PROVE EffectStep(o)
    <2>1. cur[w].op \in Op /\ pc[w] = "execute"
      BY <1>1, Claimed DEF Execute, Busy
    <2>2. pc'[w] \notin {"check", "execute"}
      BY <1>1 DEF Execute, Return, Leave, BaseInv, TypeOK
    <2>3. UNCHANGED effects \/ effects' = [effects EXCEPT ![cur[w].op] = @ + 1]
      BY <1>1 DEF Execute, Apply
    <2> QED BY <2>1, <2>2, <2>3 DEF EffectStep, BaseInv, TypeOK
  <1>2. CASE UNCHANGED effects
    BY <1>2 DEF EffectStep
  <1>3. ASSUME NEW w \in Runner, NEW p \in Op, Claim(w, p) PROVE UNCHANGED effects
    BY <1>3 DEF Claim
  <1>4. ASSUME NEW w \in Runner, NextCandidate(w) PROVE UNCHANGED effects
    <2>1. PICK c \in list[w] : FailUnclaimed(w, c) \/ Claim(w, c.op)
      BY <1>4 DEF NextCandidate
    <2> QED BY <2>1 DEF FailUnclaimed, Claim
  <1> QED BY <1>1, <1>2, <1>3, <1>4 DEF Next, RunnerStep, Call, ClaimCalled, Read, StartRecovery, EndRecovery,
        Reject, Check, Supersede, Complete, Release, Renew, Crash, LeaseRunsOut, GrowOld, Purge

(* Leases that ran out are only counted up. *)
LEMMA StallSteps == ASSUME BaseInv, Next PROVE stalls' >= stalls
  <1>1. ASSUME NEW w \in Runner, NEW p \in Op, Claim(w, p) PROVE stalls' >= stalls
    BY <1>1 DEF Claim, TakeLease, BaseInv, TypeOK
  <1>2. ASSUME NEW w \in Runner, NextCandidate(w) PROVE stalls' >= stalls
    <2>1. PICK c \in list[w] : FailUnclaimed(w, c) \/ Claim(w, c.op)
      BY <1>2 DEF NextCandidate
    <2>2. c.op \in Op
      BY DEF BaseInv, TypeOK, Copy
    <2> QED BY <1>1, <2>1, <2>2 DEF FailUnclaimed, BaseInv, TypeOK
  <1>3. ASSUME NEW o \in Op, LeaseRunsOut(o) PROVE stalls' >= stalls
    BY <1>3 DEF LeaseRunsOut, BaseInv, TypeOK
  <1>4. CASE UNCHANGED stalls
    BY <1>4 DEF BaseInv, TypeOK
  <1> QED BY <1>1, <1>2, <1>3, <1>4 DEF Next, RunnerStep, Call, ClaimCalled, Read, StartRecovery, EndRecovery,
        Reject, Check, Supersede, Execute, Complete, Release, Renew, Crash, GrowOld, Purge

-----------------------------------------------------------------------------
(* The inductive invariant *)

LEMMA InitJournal == Init => JournalInv
  <1> SUFFICES ASSUME Init PROVE JournalInv
    OBVIOUS
  <1>1. BaseInv
    BY InitBase
  <1>2. VersionsInv /\ AloneInv
    BY DEF Init, VersionsInv, AloneInv, Busy
  <1>3. OutcomesInv
    BY JournalAssumption DEF Init, OutcomesInv, Known, NewEntry, Terminal
  <1>4. AttemptsInv
    <2>1. \A o \in Op : ToExecute(o) = {} /\ effects[o] = 0 /\ Attempts(o) >= 0
      BY JournalAssumption DEF Init, ToExecute, Attempts, NewEntry
    <2> QED BY <2>1, FS_EmptySet DEF AttemptsInv
  <1> QED BY <1>1, <1>2, <1>3, <1>4 DEF JournalInv, BaseInv

(* A runner that is at work was so before, on the same copy, or starts. *)
LEMMA AtWork ==
    ASSUME JournalInv, Next, NEW w \in Runner, pc'[w] \in Busy
    PROVE  Starts(w) \/ (pc[w] \in Busy /\ cur'[w] = cur[w] /\ cur[w].op \in Op /\ cur[w] \in Copy)
  <1>1. BaseInv
    BY DEF JournalInv, BaseInv
  <1>2. RunnerMoves(w)
    BY <1>1, RunnerSteps
  <1>3. ~Starts(w) => pc[w] \in Busy /\ cur'[w] = cur[w]
    BY <1>2 DEF RunnerMoves, Stays, GoesOn, Busy
  <1> QED BY <1>1, <1>3, Claimed

LEMMA VersionsStep == ASSUME JournalInv, BaseInv', Next PROVE VersionsInv'
  <1>1. BaseInv
    BY DEF JournalInv, BaseInv
  <1>2. \A o \in Op : EntryStep(o)
    BY <1>1, EntrySteps
  <1>3. ASSUME NEW w \in Runner, pc'[w] \in Busy
        PROVE  IF entry'[cur'[w].op] = NoEntry THEN calls'[cur'[w].op] = MaxCalls
                                               ELSE cur'[w].version <= entry'[cur'[w].op].version
    <2>1. CASE Starts(w)
      BY <1>3, <2>1 DEF Starts, Taken, BaseInv, TypeOK, Entry
    <2>2. CASE pc[w] \in Busy /\ cur'[w] = cur[w] /\ cur[w].op \in Op /\ cur[w] \in Copy
      <3> DEFINE o == cur[w].op
      <3>1. IF entry[o] = NoEntry THEN calls[o] = MaxCalls ELSE cur[w].version <= entry[o].version
        BY <2>2 DEF JournalInv, VersionsInv
      <3>2. /\ cur[w].version \in Nat /\ calls[o] \in 0 .. MaxCalls /\ calls'[o] \in 0 .. MaxCalls
            /\ entry[o] # NoEntry => entry[o].version \in Nat
            /\ entry'[o] # NoEntry => entry'[o].version \in Nat
        BY <1>1, <2>2 DEF BaseInv, TypeOK, Copy, Entry
      <3>3. EntryStep(o)
        BY <1>2, <2>2
      <3> QED BY <2>2, <3>1, <3>2, <3>3, JournalAssumption
              DEF EntryStep, Same, Recorded, Touched, Kept, Taken, Claimable, Ended, GivenBack, Purged
    <2> QED BY <1>3, <2>1, <2>2, AtWork
  <1>4. ASSUME NEW v \in Runner, NEW w \in Runner, Starts(w), v # w, pc'[v] \in Busy, cur'[v].op = cur'[w].op
        PROVE  cur'[v].version < cur'[w].version
    <2>1. pc[v] \in Busy /\ cur'[v] = cur[v]
      BY <1>4 DEF Starts, Stays
    <2>2. cur[v] \in Copy /\ cur[v].op \in Op
      BY <1>1, <2>1, Claimed
    <2>3. Taken(cur[v].op) /\ cur'[w].version = entry'[cur[v].op].version
      BY <1>4, <2>1 DEF Starts
    <2>4. cur[v].version <= entry[cur[v].op].version /\ entry[cur[v].op] \in Entry
      BY <1>1, <2>1, <2>2, <2>3 DEF JournalInv, VersionsInv, Taken, Claimable, BaseInv, TypeOK
    <2> QED BY <2>1, <2>2, <2>3, <2>4 DEF Taken, Entry, Copy
  <1>5. ASSUME NEW v \in Runner, NEW w \in Runner, pc'[v] \in Busy, pc'[w] \in Busy,
               cur'[v].op = cur'[w].op, cur'[v].version = cur'[w].version
        PROVE  v = w
    <2>1. (cur[v] \in Copy /\ cur'[v] = cur[v] => cur'[v].version \in Nat)
          /\ (cur[w] \in Copy /\ cur'[w] = cur[w] => cur'[w].version \in Nat)
      BY DEF Copy
    <2>2. cur'[v] \in Copy /\ cur'[w] \in Copy
      BY <1>5 DEF BaseInv, CopiesInv
    <2>3. cur'[v].version \in Nat /\ cur'[w].version \in Nat
      BY <2>2 DEF Copy
    <2>4. ~(cur'[v].version < cur'[w].version) /\ ~(cur'[w].version < cur'[v].version)
      BY <1>5, <2>3
    <2>5. CASE Starts(v) \/ Starts(w)
      BY <1>4, <1>5, <2>4, <2>5
    <2>6. CASE ~Starts(v) /\ ~Starts(w)
      BY <1>5, <2>6, AtWork DEF JournalInv, VersionsInv
    <2> QED BY <2>5, <2>6
  <1> QED BY <1>3, <1>5 DEF VersionsInv

LEMMA KnownStays == ASSUME JournalInv, BaseInv', Next, NEW o \in Op, Known(o) PROVE Known(o)'
  <1>1. EntryStep(o) /\ calls[o] \in Nat /\ calls'[o] \in Nat
    BY EntrySteps DEF JournalInv, BaseInv, TypeOK
  <1> QED BY <1>1, JournalAssumption
          DEF EntryStep, Same, Recorded, Touched, Kept, Taken, Ended, GivenBack, Purged, Known

(* An effect is applied by a runner at work, and none is taken back. *)
LEMMA EffectsGrow ==
    ASSUME JournalInv, BaseInv', Next, NEW o \in Op
    PROVE  /\ effects'[o] >= effects[o] /\ effects[o] \in Nat /\ effects'[o] \in Nat
           /\ entry[o] = NoEntry /\ calls[o] < MaxCalls => effects'[o] = effects[o]
  <1>1. EffectStep(o) /\ effects[o] \in Nat /\ effects'[o] \in Nat
    BY EffectSteps DEF JournalInv, BaseInv, TypeOK
  <1>2. ASSUME entry[o] = NoEntry, calls[o] < MaxCalls, NEW w \in Runner, pc[w] = "execute", cur[w].op = o
        PROVE  FALSE
    <2>1. calls[o] = MaxCalls
      BY <1>2 DEF JournalInv, VersionsInv, Busy
    <2> QED BY <1>2, <2>1, JournalAssumption
  <1> QED BY <1>1, <1>2 DEF EffectStep

LEMMA OutcomesStep == ASSUME JournalInv, BaseInv', Next PROVE OutcomesInv'
  <1>1. BaseInv /\ OutcomesInv
    BY DEF JournalInv, BaseInv
  <1>2. ASSUME NEW w \in Runner, pc'[w] \in {"executed", "supersede"}
        PROVE  /\ pc'[w] = "executed" => effects'[cur'[w].op] > 0
               /\ pc'[w] = "supersede" => \E n \in Op : n > cur'[w].op /\ Known(n)'
    <2>1. RunnerMoves(w) /\ pc'[w] \in Busy
      BY <1>1, <1>2, RunnerSteps DEF Busy
    <2>2. pc[w] \in Busy /\ cur'[w] = cur[w] /\ cur[w].op \in Op
      BY <1>2, <2>1, AtWork DEF Starts
    <2>3. CASE Stays(w)
      BY <1>1, <1>2, <2>2, <2>3, KnownStays, EffectsGrow DEF Stays, OutcomesInv
    <2>4. CASE GoesOn(w)
      <3>1. pc'[w] = "executed" => effects'[cur[w].op] > 0
        BY <2>4 DEF GoesOn
      <3>2. pc'[w] = "supersede" => \E n \in Op : n > cur[w].op /\ entry[n] # NoEntry
        BY <2>4 DEF GoesOn, Newer
      <3> QED BY <1>1, <2>2, <3>1, <3>2, KnownStays DEF OutcomesInv
    <2> QED BY <1>2, <2>1, <2>2, <2>3, <2>4 DEF RunnerMoves, Starts
  <1>3. ASSUME NEW o \in Op
        PROVE  /\ entry'[o] # NoEntry =>
                     Known(o)' /\ outcome'[o] = IF entry'[o].status \in Terminal THEN entry'[o].status ELSE "none"
               /\ entry'[o] = NoEntry /\ calls'[o] < MaxCalls => outcome'[o] = "none" /\ effects'[o] = 0
               /\ outcome'[o] = "done" => effects'[o] > 0
               /\ outcome'[o] = "superseded" => \E n \in Op : n > o /\ Known(n)'
    <2>1. EntryStep(o) /\ effects'[o] >= effects[o] /\ effects[o] \in Nat /\ effects'[o] \in Nat
          /\ (entry[o] = NoEntry /\ calls[o] < MaxCalls => effects'[o] = effects[o])
          /\ (Known(o) => Known(o)')
      BY <1>1, EntrySteps, EffectsGrow, KnownStays
    <2>2. entry'[o] # NoEntry =>
             Known(o)' /\ outcome'[o] = IF entry'[o].status \in Terminal THEN entry'[o].status ELSE "none"
      BY <1>1, <2>1 DEF OutcomesInv, EntryStep, Same, Recorded, Touched, Kept, Taken, Claimable, Ended, GivenBack,
         Purged, Known, NewEntry, Terminal, Open
    <2>3. entry'[o] = NoEntry /\ calls'[o] < MaxCalls => outcome'[o] = "none" /\ effects'[o] = 0
      <3>1. ASSUME entry'[o] = NoEntry, calls'[o] < MaxCalls PROVE Same(o) /\ entry[o] = NoEntry
        BY <2>1, <3>1, NewEntryTyped, JournalAssumption
           DEF EntryStep, Same, Recorded, Touched, Kept, Taken, Ended, GivenBack, Purged
      <3>2. calls[o] \in Nat /\ calls'[o] \in Nat /\ MaxCalls \in Nat
        BY <1>1, JournalAssumption DEF BaseInv, TypeOK
      <3> QED BY <1>1, <2>1, <3>1, <3>2 DEF OutcomesInv, Same
    <2>4. outcome'[o] = outcome[o] \/ Ended(o)
      BY <2>1 DEF EntryStep, Same, Recorded, Touched, Taken, GivenBack, Purged
    <2>5. outcome'[o] = "done" => effects'[o] > 0
      BY <1>1, <2>1, <2>4 DEF OutcomesInv, Ended
    <2>6. outcome'[o] = "superseded" => \E n \in Op : n > o /\ Known(n)'
      BY <1>1, <2>4, KnownStays DEF OutcomesInv, Ended
    <2> QED BY <2>2, <2>3, <2>5, <2>6
  <1> QED BY <1>2, <1>3 DEF OutcomesInv

LEMMA AloneStep == ASSUME JournalInv, BaseInv', Next PROVE AloneInv'
  <1>1. BaseInv /\ stalls' >= stalls /\ stalls \in Nat /\ stalls' \in Nat
    BY StallSteps DEF JournalInv, BaseInv, TypeOK
  <1> SUFFICES ASSUME stalls' = 0
               PROVE  /\ \A v, w \in Runner : pc'[v] \in Busy /\ pc'[w] \in Busy /\ cur'[v].op = cur'[w].op => v = w
                      /\ \A w \in Runner : pc'[w] \in Busy /\ entry'[cur'[w].op] # NoEntry =>
                            \/ HoldsLease(cur[w])' /\ entry'[cur'[w].op].lease = "live"
                            \/ entry'[cur'[w].op].status \in Terminal
    BY DEF AloneInv
  <1>2. /\ \A v, w \in Runner : pc[v] \in Busy /\ pc[w] \in Busy /\ cur[v].op = cur[w].op => v = w
        /\ \A w \in Runner : pc[w] \in Busy /\ entry[cur[w].op] # NoEntry =>
              \/ HoldsLease(cur[w]) /\ entry[cur[w].op].lease = "live"
              \/ entry[cur[w].op].status \in Terminal
    BY <1>1 DEF JournalInv, AloneInv
  <1>3. ASSUME NEW v \in Runner, pc[v] \in Busy, Taken(cur[v].op) PROVE FALSE
    BY <1>2, <1>3 DEF Taken, Claimable, HoldsLease, Terminal
  <1>4. ASSUME NEW v \in Runner, NEW w \in Runner, pc'[v] \in Busy, pc'[w] \in Busy, cur'[v].op = cur'[w].op
        PROVE  v = w
    <2>1. ASSUME NEW u \in Runner, NEW t \in Runner, Starts(u), t # u, pc'[t] \in Busy, cur'[t].op = cur'[u].op
          PROVE  FALSE
      BY <1>3, <2>1 DEF Starts, Stays
    <2> QED BY <1>2, <1>4, <2>1, AtWork
  <1>5. ASSUME NEW w \in Runner, pc'[w] \in Busy, entry'[cur'[w].op] # NoEntry
        PROVE  \/ HoldsLease(cur[w])' /\ entry'[cur'[w].op].lease = "live"
               \/ entry'[cur'[w].op].status \in Terminal
    <2>1. CASE Starts(w)
      <3>1. PICK o \in Op : /\ Taken(o) /\ cur'[w].op = o /\ cur'[w].version = entry'[o].version
                            /\ entry'[o].lease = "live" \/ stalls' > 0
        BY <2>1 DEF Starts
      <3> QED BY <3>1 DEF Taken, HoldsLease
    <2>2. CASE pc[w] \in Busy /\ cur'[w] = cur[w] /\ cur[w].op \in Op /\ cur[w] \in Copy
      <3> DEFINE o == cur[w].op
      <3>1. EntryStep(o)
        BY <1>1, <2>2, EntrySteps
      <3>2. ~Recorded(o) /\ ~Taken(o)
        <4>1. ~Recorded(o)
          BY <2>2, JournalAssumption DEF Recorded, JournalInv, VersionsInv
        <4> QED BY <1>3, <2>2, <4>1
      <3>3. ~GivenBack(o)
        BY <1>2, <1>5, <2>2 DEF GivenBack, Busy
      <3>4. ASSUME Touched(o) PROVE HoldsLease(cur[w])' /\ entry'[o].lease = "live"
        <4>1. HoldsLease(cur[w]) /\ entry[o].lease = "live"
          BY <1>2, <2>2, <3>4 DEF Touched, Kept
        <4>2. Held(o)
          BY <2>2, <4>1 DEF Held
        <4> QED BY <2>2, <3>4, <4>1, <4>2 DEF Touched, Kept, HoldsLease
      <3>5. ASSUME Same(o)
            PROVE  \/ HoldsLease(cur[w])' /\ entry'[o].lease = "live"
                   \/ entry'[o].status \in Terminal
        BY <1>2, <1>5, <2>2, <3>5 DEF Same, HoldsLease
      <3> QED BY <1>5, <2>2, <3>1, <3>2, <3>3, <3>4, <3>5 DEF EntryStep, Ended, Purged
    <2> QED BY <1>5, <2>1, <2>2, AtWork
  <1> QED BY <1>4, <1>5

LEMMA Counts ==
    ASSUME NEW S, IsFiniteSet(S), NEW T, NEW w
    PROVE  /\ Cardinality(S) \in Nat
           /\ T \subseteq S => IsFiniteSet(T) /\ Cardinality(T) \in Nat /\ Cardinality(T) <= Cardinality(S)
           /\ T \subseteq S \cup {w} => IsFiniteSet(T) /\ Cardinality(T) \in Nat /\ Cardinality(T) <= Cardinality(S) + 1
           /\ w \in S /\ T \subseteq S \ {w} => IsFiniteSet(T) /\ Cardinality(T) \in Nat /\ Cardinality(T) <= Cardinality(S) - 1
  <1>1. \A U, V : IsFiniteSet(V) /\ U \subseteq V => IsFiniteSet(U) /\ Cardinality(U) <= Cardinality(V)
    BY FS_Subset
  <1>2. \A U : IsFiniteSet(U) => Cardinality(U) \in Nat
    BY FS_CardinalityType
  <1>3. IsFiniteSet(S \cup {w}) /\ Cardinality(S \cup {w}) <= Cardinality(S) + 1
    <2>1. IsFiniteSet(S \cup {w})
             /\ Cardinality(S \cup {w}) = IF w \in S THEN Cardinality(S) ELSE Cardinality(S) + 1
      BY FS_AddElement
    <2> QED BY <1>2, <2>1
  <1>4. w \in S => IsFiniteSet(S \ {w}) /\ Cardinality(S \ {w}) = Cardinality(S) - 1
    BY FS_RemoveElement
  <1>5. Cardinality(S) \in Nat
    BY <1>2
  <1>6. T \subseteq S => IsFiniteSet(T) /\ Cardinality(T) \in Nat /\ Cardinality(T) <= Cardinality(S)
    BY <1>1, <1>2
  <1>7. T \subseteq S \cup {w} => IsFiniteSet(T) /\ Cardinality(T) \in Nat /\ Cardinality(T) <= Cardinality(S) + 1
    <2> SUFFICES ASSUME T \subseteq S \cup {w} PROVE IsFiniteSet(T) /\ Cardinality(T) <= Cardinality(S) + 1
      BY <1>2
    <2>1. IsFiniteSet(T) /\ Cardinality(T) <= Cardinality(S \cup {w})
      BY <1>1, <1>3
    <2> QED BY <1>2, <1>3, <1>5, <2>1
  <1>8. w \in S /\ T \subseteq S \ {w} =>
           IsFiniteSet(T) /\ Cardinality(T) \in Nat /\ Cardinality(T) <= Cardinality(S) - 1
    <2> SUFFICES ASSUME w \in S, T \subseteq S \ {w}
                 PROVE  IsFiniteSet(T) /\ Cardinality(T) \in Nat /\ Cardinality(T) <= Cardinality(S) - 1
      OBVIOUS
    <2>1. IsFiniteSet(T) /\ Cardinality(T) <= Cardinality(S \ {w})
      BY <1>1, <1>4
    <2> QED BY <1>2, <1>4, <2>1
  <1> QED BY <1>5, <1>6, <1>7, <1>8

LEMMA AttemptsStep == ASSUME JournalInv, BaseInv', Next PROVE AttemptsInv'
  <1> SUFFICES ASSUME NEW o \in Op
               PROVE  /\ IsFiniteSet(ToExecute(o)')
                      /\ effects'[o] + Cardinality(ToExecute(o)') <= Attempts(o)'
    BY DEF AttemptsInv
  <1> DEFINE S == ToExecute(o)
             T == {w \in Runner : pc'[w] \in {"check", "execute"} /\ cur'[w].op = o}
             A == Attempts(o)
             B == IF entry'[o] = NoEntry THEN MaxAttempts ELSE entry'[o].attempts
  <1>1. BaseInv /\ EntryStep(o) /\ EffectStep(o) /\ ToExecute(o)' = T /\ Attempts(o)' = B
    BY EntrySteps, EffectSteps DEF JournalInv, BaseInv, ToExecute, Attempts
  <1>2. IsFiniteSet(S) /\ Cardinality(S) \in Nat /\ effects[o] + Cardinality(S) <= A
    <2>1. IsFiniteSet(S) /\ effects[o] + Cardinality(S) <= A
      BY DEF JournalInv, AttemptsInv
    <2> QED BY <2>1, FS_CardinalityType
  <1>3. effects[o] \in Nat /\ effects'[o] \in Nat /\ A \in Nat /\ B \in Nat
    <2>1. effects[o] \in Nat /\ effects'[o] \in Nat
      BY <1>1 DEF BaseInv, TypeOK
    <2>2. A \in Nat
      BY <1>1, JournalAssumption DEF BaseInv, TypeOK, Attempts, Entry
    <2>3. B \in Nat
      BY JournalAssumption DEF BaseInv, TypeOK, Entry
    <2> QED BY <2>1, <2>2, <2>3
  <1>4. CASE Recorded(o)
    <2>1. T = {}
      <3> SUFFICES ASSUME NEW w \in T PROVE FALSE
        OBVIOUS
      <3>1. ~Starts(w)
        BY <1>4 DEF Starts, Taken, Claimable, Recorded
      <3>2. pc[w] \in Busy /\ cur[w].op = o
        BY <3>1, AtWork DEF Busy
      <3> QED BY <1>4, <3>2, JournalAssumption DEF Recorded, JournalInv, VersionsInv
    <2>2. effects'[o] = 0
      BY <1>4, EffectsGrow DEF Recorded, JournalInv, OutcomesInv
    <2>3. IsFiniteSet(T) /\ Cardinality(T) = 0
      BY <2>1, FS_EmptySet
    <2> HIDE DEF T, B
    <2> QED BY <1>1, <1>3, <2>2, <2>3
  <1>5. CASE ~Recorded(o)
    <2>1. B >= A /\ (Taken(o) => B = A + 1)
      <3>1. entry[o] # NoEntry => entry[o].attempts \in 0 .. MaxAttempts
        BY <1>1 DEF BaseInv, TypeOK, Entry
      <3> QED BY <1>1, <1>3, <1>5, <3>1, JournalAssumption
              DEF EntryStep, Same, Touched, Kept, Taken, Claimable, Ended, GivenBack, Purged, Attempts
    <2>2. ASSUME NEW w \in T, ~Starts(w) PROVE w \in S
      <3>1. RunnerMoves(w) /\ pc[w] \in Busy /\ cur'[w] = cur[w]
        BY <1>1, <2>2, RunnerSteps, AtWork DEF Busy
      <3> QED BY <2>2, <3>1 DEF RunnerMoves, Stays, GoesOn, ToExecute, Busy
    <2>3. CASE effects'[o] = effects[o] /\ \E w \in T : Starts(w)
      <3>1. PICK w \in T : Starts(w)
        BY <2>3
      <3>2. T \subseteq S \cup {w}
        BY <2>2, <3>1 DEF Starts, Stays, Busy
      <3>3. Taken(o)
        BY <3>1 DEF Starts
      <3> HIDE DEF S, T, A, B
      <3>4. IsFiniteSet(T) /\ Cardinality(T) \in Nat /\ Cardinality(T) <= Cardinality(S) + 1
        BY <1>2, <3>2, Counts
      <3> QED BY <1>1, <1>2, <1>3, <2>1, <2>3, <3>3, <3>4
    <2>4. CASE effects'[o] = effects[o] /\ ~ \E w \in T : Starts(w)
      <3>1. T \subseteq S
        BY <2>2, <2>4
      <3> HIDE DEF S, T, A, B
      <3>2. IsFiniteSet(T) /\ Cardinality(T) \in Nat /\ Cardinality(T) <= Cardinality(S)
        BY <1>2, <3>1, Counts
      <3> QED BY <1>1, <1>2, <1>3, <2>1, <2>4, <3>2
    <2>5. CASE effects'[o] # effects[o]
      <3>1. PICK u \in Runner : pc[u] = "execute" /\ cur[u].op = o /\ pc'[u] \notin {"check", "execute"}
        BY <1>1, <2>5 DEF EffectStep
      <3>2. \A w \in T : ~Starts(w)
        BY <3>1 DEF Starts, Stays, Busy
      <3>3. u \in S /\ T \subseteq S \ {u}
        BY <2>2, <3>1, <3>2 DEF ToExecute
      <3>4. effects'[o] = effects[o] + 1
        BY <1>1, <2>5 DEF EffectStep
      <3> HIDE DEF S, T, A, B
      <3>5. IsFiniteSet(T) /\ Cardinality(T) \in Nat /\ Cardinality(T) <= Cardinality(S) - 1
        BY <1>2, <3>3, Counts
      <3> QED BY <1>1, <1>2, <1>3, <2>1, <3>4, <3>5
    <2> QED BY <2>3, <2>4, <2>5
  <1> QED BY <1>4, <1>5

LEMMA StutterKeeps == ASSUME JournalInv, UNCHANGED vars PROVE JournalInv'
  <1> USE DEF JournalInv, vars
  <1>1. TypeOK' /\ EntriesInv' /\ CopiesInv'
    BY DEF TypeOK, EntriesInv, CopiesInv
  <1>2. VersionsInv' /\ OutcomesInv'
    BY DEF VersionsInv, OutcomesInv, Known
  <1>3. AttemptsInv'
    BY DEF AttemptsInv, ToExecute, Attempts
  <1>4. AloneInv'
    BY DEF AloneInv, HoldsLease
  <1> QED BY <1>1, <1>2, <1>3, <1>4

LEMMA JournalStep == JournalInv /\ [Next]_vars => JournalInv'
  <1>1. JournalInv /\ [Next]_vars => BaseInv'
    BY BaseStep DEF JournalInv, BaseInv
  <1> QED BY <1>1, StutterKeeps, VersionsStep, OutcomesStep, AttemptsStep, AloneStep DEF JournalInv, BaseInv

(* The journal's inductive invariant. *)
THEOREM JournalInvariant == Spec => []JournalInv
  BY InitJournal, JournalStep, PTL DEF Spec

-----------------------------------------------------------------------------
(* The theorems *)

(* Every variable keeps its type. *)
THEOREM TypeCorrect == Spec => []TypeOK
  <1>1. JournalInv => TypeOK
    BY DEF JournalInv
  <1> QED BY <1>1, JournalInvariant, PTL

(* At most one runner can still mark or release an entry, whatever runs    *)
(* out, crashes or fails.                                                   *)
THEOREM LeaseHolderUnique == Spec => []OneLeaseHolder
  <1>1. JournalInv => OneLeaseHolder
    BY DEF JournalInv, VersionsInv, OneLeaseHolder, HoldsLease
  <1> QED BY <1>1, JournalInvariant, PTL

(* Two runners execute one operation at once only after a lease ran out    *)
(* under its runner.                                                        *)
THEOREM ExecutorUnique == Spec => []OneExecutor
  <1>1. JournalInv => OneExecutor
    BY DEF JournalInv, AloneInv, OneExecutor, Executing, Busy
  <1> QED BY <1>1, JournalInvariant, PTL

LEMMA ToldSteps ==
    ASSUME JournalInv, Next, NEW o \in Op, o \in toldOk', o \notin toldOk
    PROVE  outcome'[o] \in {"done", "superseded"}
  <1>1. BaseInv
    BY DEF JournalInv, BaseInv
  <1>2. ASSUME NEW w \in Runner, Read(w) PROVE outcome'[o] \in {"done", "superseded"}
    <2>1. o = cur[w].op /\ entry[o] # NoEntry /\ entry[o].status \in {"done", "superseded"} /\ UNCHANGED outcome
      BY <1>2 DEF Read
    <2> QED BY <2>1 DEF JournalInv, OutcomesInv, Terminal
  <1>3. ASSUME NEW w \in Runner, pc[w] \in Busy, toldOk' \subseteq toldOk \cup {cur[w].op},
               NEW status \in {"done", "superseded"}, MarkTerminal(w, status)
        PROVE  outcome'[o] \in {"done", "superseded"}
    <2>1. o = cur[w].op /\ cur[w].op \in Op /\ entry[cur[w].op] # NoEntry /\ SetFinal(cur[w].op, status)
      BY <1>1, <1>3, Claimed DEF MarkTerminal, HoldsLease
    <2> QED BY <1>1, <1>3, <2>1, FinalEnds DEF Terminal
  <1>4. ASSUME NEW w \in Runner, Supersede(w) PROVE outcome'[o] \in {"done", "superseded"}
    BY <1>3, <1>4 DEF Supersede, ReturnOk, Busy
  <1>5. ASSUME NEW w \in Runner, Complete(w) PROVE outcome'[o] \in {"done", "superseded"}
    BY <1>3, <1>5 DEF Complete, ReturnOk, Busy
  <1>6. ASSUME NEW w \in Runner, NextCandidate(w) PROVE UNCHANGED toldOk
    <2>1. PICK c \in list[w] : FailUnclaimed(w, c) \/ Claim(w, c.op)
      BY <1>6 DEF NextCandidate
    <2> QED BY <2>1 DEF FailUnclaimed, Claim
  <1>7. ASSUME NEW w \in Runner, ClaimCalled(w) PROVE UNCHANGED toldOk
    BY <1>7 DEF ClaimCalled, Claim
  <1> QED BY <1>2, <1>4, <1>5, <1>6, <1>7 DEF Next, RunnerStep, Call, StartRecovery, EndRecovery,
        Reject, Check, Execute, Release, Renew, Crash, LeaseRunsOut, GrowOld, Purge

(* A caller that was told of a success can rely on it. *)
THEOREM OkIsDone == Spec => []OkMeansDone
  <1>1. Init => OkMeansDone
    BY DEF Init, OkMeansDone
  <1>2. ASSUME JournalInv, OkMeansDone, [Next]_vars, JournalInv' PROVE OkMeansDone'
    <2>1. CASE UNCHANGED vars
      BY <1>2, <2>1 DEF vars, OkMeansDone
    <2>2. CASE Next
      <3> SUFFICES ASSUME NEW o \in Op, o \in toldOk' PROVE outcome'[o] \in {"done", "superseded"}
        BY <1>2 DEF OkMeansDone, JournalInv, OutcomesInv, Known, TypeOK
      <3>1. CASE o \in toldOk
        <4>1. outcome[o] \in {"done", "superseded"}
          BY <1>2, <3>1 DEF OkMeansDone
        <4>2. EntryStep(o)
          BY <1>2, <2>2, EntrySteps DEF JournalInv, BaseInv
        <4>3. ~Ended(o)
          BY <1>2, <4>1 DEF Ended, Kept, Open, Terminal, JournalInv, OutcomesInv
        <4> QED BY <4>1, <4>2, <4>3 DEF EntryStep, Same, Recorded, Touched, Taken, GivenBack, Purged
      <3>2. CASE o \notin toldOk
        BY <1>2, <2>2, <3>2, ToldSteps
      <3> QED BY <3>1, <3>2
    <2> QED BY <1>2, <2>1, <2>2
  <1> QED BY <1>1, <1>2, JournalInvariant, PTL DEF Spec

(* An operation is given up only after all its attempts, and none of them  *)
(* executes it twice.                                                      *)
THEOREM AttemptsAreCounted == Spec => []AttemptsCounted
  <1> DEFINE GivenUp == \A o \in Op : entry[o] # NoEntry /\ entry[o].status = "failed" =>
                                          entry[o].attempts = MaxAttempts \/ o \in Unreadable
  <1>1. Init => GivenUp
    BY DEF Init, NewEntry
  <1>2. ASSUME JournalInv, GivenUp, [Next]_vars PROVE GivenUp'
    <2>1. CASE UNCHANGED vars
      BY <1>2, <2>1 DEF vars
    <2>2. CASE Next
      <3>1. \A o \in Op : EntryStep(o)
        BY <1>2, <2>2, EntrySteps DEF JournalInv, BaseInv
      <3> QED BY <1>2, <3>1 DEF EntryStep, Same, Recorded, NewEntry, Touched, Kept, Taken, Ended, GivenBack, Purged, Terminal
    <2> QED BY <1>2, <2>1, <2>2
  <1>3. ASSUME JournalInv, GivenUp PROVE AttemptsCounted
    <2> SUFFICES ASSUME NEW o \in Op, entry[o] # NoEntry PROVE effects[o] <= entry[o].attempts
      BY <1>3 DEF AttemptsCounted
    <2>1. IsFiniteSet(ToExecute(o)) /\ effects[o] + Cardinality(ToExecute(o)) <= entry[o].attempts
      BY <1>3 DEF JournalInv, AttemptsInv, Attempts
    <2>2. effects[o] \in Nat /\ entry[o].attempts \in Nat /\ Cardinality(ToExecute(o)) \in Nat
      BY <1>3, <2>1, FS_CardinalityType DEF JournalInv, TypeOK, Entry
    <2> QED BY <2>1, <2>2
  <1> QED BY <1>1, <1>2, <1>3, JournalInvariant, PTL DEF Spec

(* A finished entry stays as it is until it is purged. *)
THEOREM FinishedStays == Spec => FinishedStaysFinished
  <1>1. ASSUME JournalInv, [Next]_vars PROVE [FinalIsFinal]_vars
    <2>1. CASE Next
      <3>1. \A o \in Op : EntryStep(o)
        BY <1>1, <2>1, EntrySteps DEF JournalInv, BaseInv
      <3>2. FinalIsFinal
        BY <3>1 DEF FinalIsFinal, EntryStep, Same, Recorded, Touched, Taken, Claimable, Ended, GivenBack, Purged,
           Open, Terminal
      <3> QED BY <3>2
    <2> QED BY <1>1, <2>1
  <1> QED BY <1>1, JournalInvariant, PTL DEF Spec, FinishedStaysFinished

(* While the entries that supersede others are kept and every operation     *)
(* names its resource, nothing starts to execute over a newer operation     *)
(* that is done.                                                            *)
THEOREM NoRerun ==
    ASSUME Keyed = Op, \A n \in Purgeable, o \in Op : n <= o PROVE Spec => NoRerunOverNewer
  <1> DEFINE Remembered == \A o \in Op : outcome[o] # "none" => entry[o] # NoEntry \/ o \in Purgeable
  <1>1. Init => Remembered
    BY DEF Init
  <1>2. ASSUME JournalInv, Remembered, [Next]_vars PROVE Remembered'
    <2>1. CASE UNCHANGED vars
      BY <1>2, <2>1 DEF vars
    <2>2. CASE Next
      <3>1. \A o \in Op : EntryStep(o)
        BY <1>2, <2>2, EntrySteps DEF JournalInv, BaseInv
      <3> QED BY <1>2, <3>1, NewEntryTyped
              DEF EntryStep, Same, Recorded, Touched, Kept, Taken, Ended, GivenBack, Purged
    <2> QED BY <1>2, <2>1, <2>2
  <1>3. ASSUME JournalInv, Remembered, [Next]_vars PROVE [StartsNewest]_vars
    <2>1. ASSUME Next, NEW w \in Runner, pc[w] = "check", pc'[w] = "execute",
                 NEW n \in Op, n > cur[w].op, outcome[n] = "done"
          PROVE  FALSE
      <3>1. RunnerMoves(w)
        BY <1>3, <2>1, RunnerSteps DEF JournalInv, BaseInv
      <3>2. Newer(cur[w].op) = {}
        BY <2>1, <3>1 DEF RunnerMoves, Stays, Starts, GoesOn, Busy
      <3>3. cur[w].op \in Op
        BY <1>3, <2>1, Claimed DEF JournalInv, BaseInv, Busy
      <3>4. n \notin Purgeable
        <4>1. n \in Nat /\ cur[w].op \in Nat /\ n > cur[w].op
          BY <2>1, <3>3, JournalAssumption
        <4>2. ~(n <= cur[w].op)
          BY <4>1
        <4> QED BY <3>3, <4>2
      <3>5. n \in Newer(cur[w].op)
        BY <1>3, <2>1, <3>3, <3>4 DEF Newer, KeyOf
      <3> QED BY <3>2, <3>5
    <2> QED BY <1>3, <2>1 DEF StartsNewest
  <1> QED BY <1>1, <1>2, <1>3, JournalInvariant, PTL DEF Spec, NoRerunOverNewer
=============================================================================
