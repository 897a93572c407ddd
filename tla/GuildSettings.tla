----------------------------- MODULE GuildSettings -----------------------------
(***************************************************************************)
(* The settings of one guild (infra/mongo/guildSettings.ts, models.ts,     *)
(* infra/redis/guildSettingsInvalidationChannel.ts and the slice stores    *)
(* over shared/guildDomainSliceStore.ts).  One field stands for a domain   *)
(* slice, moved to a collection of its own (the copy); the other for what  *)
(* stays in the guild document.  A value is the number of the write that   *)
(* made it, 0 the default.                                                 *)
(*                                                                         *)
(* Each process has a cache, one read and one write under way.  An action  *)
(* is one awaited call; the two queries of a read are issued together and  *)
(* answered in any order.  Time passes in ticks, kept as ages.             *)
(***************************************************************************)
EXTENDS Integers, FiniteSets

CONSTANTS Process,
          TTL,          \* GUILD_CACHE_TTL_MS, in ticks
          MaxWrites,    \* bound on the values written
          MaxFaults     \* bound on crashes, failed repairs and lost messages

SettingsAssumption ==
    TTL \in Nat \ {0} /\ MaxWrites \in Nat /\ MaxFaults \in Nat

VARIABLES legacy,     \* the guild document; .s is the slice's value in it
          copy,       \* the slice in its own collection
          cache,      \* of each process: guildSettingsCache
          reading,    \* of each process: loadWithSlices or the store's findOne
          writing,    \* of each process: an update under way
          remote,     \* the processes an invalidation is on its way to
          last,       \* the number of writes begun
          shown,      \* ticks since each value was what the database said
          faults

db == <<legacy, copy, shown>>
vars == <<db, cache, reading, writing, remote, last, faults>>

None == -1
Value == {None} \cup 0 .. MaxWrites
Unread == -2
Age == 0 .. TTL
NoEntry == [there |-> FALSE, s |-> 0, r |-> 0, age |-> 0]
Entry == [there : BOOLEAN, s : 0 .. MaxWrites, r : 0 .. MaxWrites, age : Age]
NotReading == [pc |-> "idle", s |-> Unread, r |-> Unread, copy |-> Unread, age |-> 0]
Reading == [pc : {"idle", "load", "repair", "find", "find legacy", "backfill"},
            s : Value \cup {Unread}, r : 0 .. MaxWrites \cup {Unread},
            copy : Value \cup {Unread}, age : Age]
NotWriting == [pc |-> "idle", v |-> 0]
Writing == [pc : {"idle", "slice", "legacy", "hook"}, v : 0 .. MaxWrites]

TypeOK ==
    /\ legacy \in [there : BOOLEAN, s : Value, r : 0 .. MaxWrites] /\ copy \in Value
    /\ cache \in [Process -> Entry]
    /\ reading \in [Process -> Reading] /\ writing \in [Process -> Writing]
    /\ remote \in SUBSET Process
    /\ last \in 0 .. MaxWrites /\ faults \in 0 .. MaxFaults
    /\ shown \in [s : [0 .. MaxWrites -> Age], r : [0 .. MaxWrites -> Age]]

(* What a read of both collections at one moment makes of the guild: the   *)
(* copy wins, and a field that neither has reads as its default.           *)
Merge(s, c) == IF c # None THEN c ELSE IF s # None THEN s ELSE 0
Effective == Merge(legacy.s, copy)

(* A guild never written, or written before its slices were moved (with    *)
(* the schema's defaults in the document), or after.                       *)
Init ==
    /\ \E t \in BOOLEAN : \E s \in IF t THEN {None, 0} ELSE {None} :
         legacy = [there |-> t, s |-> s, r |-> 0]
    /\ LET first == [v \in 0 .. MaxWrites |-> IF v = 0 THEN 0 ELSE TTL]
       IN  shown = [s |-> first, r |-> first]
    /\ copy = None
    /\ cache = [p \in Process |-> NoEntry]
    /\ reading = [p \in Process |-> NotReading]
    /\ writing = [p \in Process |-> NotWriting]
    /\ remote = {} /\ last = 0 /\ faults = 0

Fault == faults < MaxFaults /\ faults' = faults + 1
Served(p) == cache[p].there /\ cache[p].age < TTL
(* An entry that has run out is never served: it is as good as none. *)
Kept(e) == IF e.age = TTL THEN NoEntry ELSE e

(* A step that writes the collections: what they now say is shown. *)
Stored(l, c) ==
    /\ legacy' = l /\ copy' = c
    /\ shown' = [s |-> [shown.s EXCEPT ![Merge(l.s, c)] = 0], r |-> [shown.r EXCEPT ![l.r] = 0]]

-----------------------------------------------------------------------------
(* getGuildSettings: a served entry is returned; otherwise the clock is    *)
(* read, both collections are queried and the answer is cached.            *)
BeginRead(p) ==
    /\ reading[p].pc = "idle" /\ ~Served(p)
    /\ reading' = [reading EXCEPT ![p] = [NotReading EXCEPT !.pc = "load"]]
    /\ UNCHANGED <<db, cache, writing, remote, last, faults>>

LoadLegacy(p) ==
    /\ reading[p].pc \in {"load", "find legacy"} /\ reading[p].r = Unread
    /\ LET pc == IF reading[p].pc = "load" THEN "load" ELSE IF legacy.s = None THEN "idle" ELSE "backfill"
       IN  reading' = [reading EXCEPT ![p].pc = pc, ![p].s = legacy.s, ![p].r = legacy.r]
    /\ UNCHANGED <<db, cache, writing, remote, last, faults>>

LoadCopy(p) ==
    /\ reading[p].pc = "load" /\ reading[p].copy = Unread
    /\ reading' = [reading EXCEPT ![p].copy = copy]
    /\ UNCHANGED <<db, cache, writing, remote, last, faults>>

Loaded(p) == reading[p].pc = "load" /\ reading[p].r # Unread /\ reading[p].copy # Unread
Missing(p) == reading[p].copy = None /\ reading[p].s # None

(* repairSliceCopy: a missing copy is written from the document, whatever  *)
(* the copy is by now; a repair that fails is reported and no more.        *)
Repair(p) ==
    /\ Loaded(p) /\ Missing(p)
    /\ reading' = [reading EXCEPT ![p].pc = "repair"]
    /\ \/ Stored(legacy, reading[p].s) /\ UNCHANGED faults
       \/ Fault /\ UNCHANGED db
    /\ UNCHANGED <<cache, writing, remote, last>>

(* Mutant: the lifetime of an entry counts from when it is stored. *)
Fill_FromNow(p) ==
    /\ reading[p].pc = "repair" \/ (Loaded(p) /\ ~Missing(p))
    /\ reading' = [reading EXCEPT ![p] = NotReading]
    /\ cache' = [cache EXCEPT ![p] = [there |-> TRUE, r |-> reading[p].r, age |-> 0,
                                      s |-> Merge(reading[p].s, reading[p].copy)]]
    /\ UNCHANGED <<db, writing, remote, last, faults>>

Fill(p) ==
    /\ reading[p].pc = "repair" \/ (Loaded(p) /\ ~Missing(p))
    /\ reading' = [reading EXCEPT ![p] = NotReading]
    /\ cache' = [cache EXCEPT ![p] = Kept([there |-> TRUE, r |-> reading[p].r, age |-> reading[p].age,
                                           s |-> Merge(reading[p].s, reading[p].copy)])]
    /\ UNCHANGED <<db, writing, remote, last, faults>>

-----------------------------------------------------------------------------
(* findOne of a slice store: the copy, or the document and a backfill. *)
BeginFind(p) ==
    /\ reading[p].pc = "idle" /\ copy = None
    /\ reading' = [reading EXCEPT ![p] = [NotReading EXCEPT !.pc = "find legacy"]]
    /\ UNCHANGED <<db, cache, writing, remote, last, faults>>

Backfill(p) ==
    /\ reading[p].pc = "backfill"
    /\ reading' = [reading EXCEPT ![p] = NotReading]
    /\ Stored(legacy, reading[p].s)
    /\ UNCHANGED <<cache, writing, remote, last, faults>>

-----------------------------------------------------------------------------
(* updateOne of a slice store: the slice's fields go to the copy, the rest *)
(* to the document, in that order.                                         *)
BeginWrite(p) ==
    /\ writing[p].pc = "idle" /\ last < MaxWrites /\ last' = last + 1
    /\ \E pc \in {"slice", "legacy"} :
         writing' = [writing EXCEPT ![p] = [pc |-> pc, v |-> last + 1]]
    /\ UNCHANGED <<db, cache, reading, remote, faults>>

(* The copy's model has no hook: nothing is published. *)
WriteSlice(p) ==
    /\ writing[p].pc = "slice"
    /\ Stored(legacy, writing[p].v)
    /\ writing' = [writing EXCEPT ![p] = NotWriting]
    /\ UNCHANGED <<cache, reading, remote, last, faults>>

WriteMixed(p) ==
    /\ writing[p].pc = "slice"
    /\ Stored(legacy, writing[p].v)
    /\ writing' = [writing EXCEPT ![p].pc = "legacy"]
    /\ UNCHANGED <<cache, reading, remote, last, faults>>

(* The document is created with the defaults of every field it declares. *)
WriteLegacy(p) ==
    /\ writing[p].pc = "legacy"
    /\ Stored([legacy EXCEPT !.there = TRUE, !.r = writing[p].v,
                             !.s = IF legacy.there THEN @ ELSE 0], copy)
    /\ writing' = [writing EXCEPT ![p].pc = "hook"]
    /\ UNCHANGED <<cache, reading, remote, last, faults>>

(* publishChange, bus.publish: the process drops its entry, the others are *)
(* told through Redis.                                                     *)
Publish(p) ==
    /\ writing[p].pc = "hook"
    /\ writing' = [writing EXCEPT ![p] = NotWriting]
    /\ cache' = [cache EXCEPT ![p] = NoEntry]
    /\ remote' = remote \cup (Process \ {p})
    /\ UNCHANGED <<db, reading, last, faults>>

Deliver(p) ==
    /\ p \in remote /\ remote' = remote \ {p}
    /\ cache' = [cache EXCEPT ![p] = NoEntry]
    /\ UNCHANGED <<db, reading, writing, last, faults>>

Lose(p) ==
    /\ Fault /\ p \in remote /\ remote' = remote \ {p}
    /\ UNCHANGED <<db, cache, reading, writing, last>>

Crash(p) ==
    /\ Fault /\ remote' = remote \ {p}
    /\ cache' = [cache EXCEPT ![p] = NoEntry]
    /\ reading' = [reading EXCEPT ![p] = NotReading]
    /\ writing' = [writing EXCEPT ![p] = NotWriting]
    /\ UNCHANGED <<db, last>>

-----------------------------------------------------------------------------
(* cleanGuildCache and the eviction of the oldest entry. *)
Evict(p) ==
    /\ cache[p].there
    /\ cache' = [cache EXCEPT ![p] = NoEntry]
    /\ UNCHANGED <<db, reading, writing, remote, last, faults>>

Older(a) == IF a < TTL THEN a + 1 ELSE a
Tick ==
    /\ cache' = [p \in Process |-> IF cache[p].there THEN Kept([cache[p] EXCEPT !.age = Older(@)])
                                                     ELSE cache[p]]
    /\ reading' = [p \in Process |-> [reading[p] EXCEPT !.age = IF reading[p].pc = "idle" THEN @ ELSE Older(@)]]
    /\ shown' = [s |-> [v \in 0 .. MaxWrites |-> IF v = Effective THEN 0 ELSE Older(shown.s[v])],
                 r |-> [v \in 0 .. MaxWrites |-> IF v = legacy.r THEN 0 ELSE Older(shown.r[v])]]
    /\ UNCHANGED <<legacy, copy, writing, remote, last, faults>>

Next ==
    \/ \E p \in Process :
         \/ BeginRead(p) \/ LoadLegacy(p) \/ LoadCopy(p) \/ Repair(p) \/ Fill(p)
         \/ BeginFind(p) \/ Backfill(p)
         \/ BeginWrite(p) \/ WriteSlice(p) \/ WriteMixed(p) \/ WriteLegacy(p) \/ Publish(p)
         \/ Deliver(p) \/ Lose(p) \/ Crash(p) \/ Evict(p)
    \/ Tick

Spec == Init /\ [][Next]_vars

-----------------------------------------------------------------------------
(* getGuildSettings reads the clock before it queries, so whatever the     *)
(* races of reads, writes, hooks and lost messages, what a process serves  *)
(* was what the database said within the last TTL, and no longer ago than  *)
(* the age of the entry.                                                   *)
StaleWithinTTL ==
    \A p \in Process : Served(p) =>
        shown.s[cache[p].s] <= cache[p].age /\ shown.r[cache[p].r] <= cache[p].age

(* The invalidation promised at the persistence layer: once a process's    *)
(* own update has returned, it does not serve an entry older than it.      *)
OwnWriteSeen ==
    [][\A p \in Process :
         (writing[p].pc # "idle" /\ writing'[p].pc = "idle" /\ faults' = faults)
            => (cache'[p].there => cache'[p].s = Merge(legacy.s, copy)')]_vars

(* A slice's copy is never put back to an older value: a missing copy is   *)
(* repaired from the document, and the copy wins from then on.             *)
CopyNotPutBack == [][copy' >= copy]_vars
=============================================================================
