-------------------------- MODULE NotificationCycle --------------------------
(***************************************************************************)
(* The notification cycle (features/notifications), for the updates of one *)
(* game in one guild: a cycle reads the guild's subscription and queue,    *)
(* claims updates by marking them as seen, sends the claimed ones in       *)
(* messages, rolls the claims of a failed send back and writes the queue   *)
(* that is left; the administrators start and stop the subscription        *)
(* meanwhile.                                                              *)
(*                                                                         *)
(* Updates are numbered in the order of their publication.  An action is   *)
(* one awaited call of a cycle or a command.  Several cycles may run at    *)
(* once: the cycle's lock (DbLock) excludes them only while its lease is   *)
(* renewed in time.                                                        *)
(***************************************************************************)
EXTENDS Integers, Sequences, FiniteSets

CONSTANTS Cycle,        \* the cycles that can be under way at once
          Command,      \* the commands that can be under way at once
          Channel, NoChannel,
          Published,    \* the updates that are published: 1 .. Published
          MaxAttempts,  \* PENDING_UPDATE_MAX_ATTEMPTS
          QueueLimit,   \* PENDING_UPDATES_PER_GAME_LIMIT
          PerCycle,     \* MAX_UPDATES_PER_CYCLE
          PerMessage,   \* DISCORD_EMBEDS_PER_MESSAGE
          MaxCommands,  \* bound on the starts
          MaxFaults     \* bound on failed calls and crashes

CycleAssumption ==
    /\ NoChannel \notin Channel
    /\ Published \in Nat /\ MaxCommands \in Nat /\ MaxFaults \in Nat
    /\ {MaxAttempts, QueueLimit, PerCycle, PerMessage} \subseteq Nat \ {0}

Update == 1 .. Published

VARIABLES sub,       \* the guild's subscription
          pending,   \* pendingUpdates of the game
          current,   \* whether seenHashVersionUpdates is the current HASH_VERSION
          seen,      \* guildSeenUpdates
          latest,    \* the update the source has, 0 for none
          snapshot,  \* the update in the last stored feed, 0 for none
          announced, \* in how many messages an update was sent
          recorded,  \* the updates in guildDeadLetters
          pc, cyc,   \* where a cycle is, and its data
          cpc, cmd,  \* where a command is, and its data
          commands, faults,
          baseline,  \* the updates marked as seen without being announced
          returned,  \* the updates a cycle has given back after a failure
          overlapped,\* whether two cycles ever ran at once
          excused    \* for each Excuses, the updates that have it

guild == <<sub, pending, current>>
feeds == <<latest, snapshot>>
out == <<announced, recorded>>
admin == <<cpc, cmd, commands>>
ghost == <<baseline, returned, overlapped, excused>>
vars == <<guild, seen, feeds, out, pc, cyc, admin, faults, ghost>>

(* The update of the last attempt is not queued again. *)
Item == [id : Update, attempts : 0 .. MaxAttempts - 1]
Subscription == [on : BOOLEAN, channel : Channel \cup {NoChannel}, initializing : BOOLEAN,
                 activation : 0 .. MaxCommands]
(* double: the answer to a send or a deletion was lost; leak: a claim was   *)
(* lost, or the cycle that had it; drop: the queue, or a message that      *)
(* failed for good, was given up.                                          *)
Excuses == {"double", "leak", "drop"}
(* hand: the update being claimed, or those of a failed send whose claims   *)
(* are not rolled back yet; failed: all of that send.                       *)
CycleData == [channel : Channel \cup {NoChannel}, current : BOOLEAN, feed : 0 .. Published,
              queue : Seq(Item), batch : Seq(Item), hand : Seq(Item), failed : Seq(Item),
              dead : SUBSET Update, permanent : BOOLEAN]

Off == [on |-> FALSE, channel |-> NoChannel, initializing |-> FALSE, activation |-> 0]
Ids(q) == {q[n].id : n \in DOMAIN q}

(* What q has at the positions in K, in its order. *)
Position(K, n) == CHOOSE k \in K : Cardinality({j \in K : j <= k}) = n
Picked(q, K) == [n \in 1 .. Cardinality(K) |-> q[Position(K, n)]]

Places == {"idle", "feed", "channel", "giveUp", "seed", "version", "claim", "upsert", "unclaim",
           "send", "undo", "disable", "persist", "deadLetter"}
CommandPlaces == {"idle", "fetch", "seed", "finalize", "rollback"}

TypeOK ==
    /\ sub \in Subscription /\ pending \in Seq(Item) /\ current \in BOOLEAN
    /\ seen \subseteq Update /\ recorded \subseteq Update
    /\ latest \in 0 .. Published /\ snapshot \in 0 .. latest
    /\ announced \in [Update -> Nat]
    /\ pc \in [Cycle -> Places] /\ cyc \in [Cycle -> CycleData]
    /\ cpc \in [Command -> CommandPlaces]
    /\ cmd \in [Command -> [channel : Channel \cup {NoChannel}, activation : 0 .. MaxCommands, base : 0 .. Published]]
    /\ commands \in 0 .. MaxCommands /\ faults \in 0 .. MaxFaults
    /\ baseline \subseteq Update /\ returned \subseteq Update /\ excused \in [Excuses -> SUBSET Update]
    /\ overlapped \in BOOLEAN

NoData == [channel |-> NoChannel, current |-> TRUE, feed |-> 0, queue |-> <<>>, batch |-> <<>>,
           hand |-> <<>>, failed |-> <<>>, dead |-> {}, permanent |-> FALSE]

(* The queue may hold an update that was left when other games filled a    *)
(* cycle's limit, or that a failed send gave back.                          *)
Init ==
    /\ sub \in {Off} \cup {[Off EXCEPT !.on = TRUE, !.channel = ch] : ch \in Channel}
    /\ current \in BOOLEAN /\ seen = {}
    /\ latest \in 0 .. (IF sub.on /\ Published > 0 THEN 1 ELSE 0) /\ snapshot = 0
    /\ pending \in [1 .. latest -> [id : {1}, attempts : 0 .. MaxAttempts - 1]]
    /\ announced = [i \in Update |-> 0] /\ recorded = {}
    /\ pc = [c \in Cycle |-> "idle"] /\ cyc = [c \in Cycle |-> NoData]
    /\ cpc = [k \in Command |-> "idle"]
    /\ cmd = [k \in Command |-> [channel |-> NoChannel, activation |-> 0, base |-> 0]]
    /\ commands = 0 /\ faults = 0
    /\ baseline = {} /\ returned = {} /\ overlapped = FALSE /\ excused = [why \in Excuses |-> {}]

Fault == faults < MaxFaults /\ faults' = faults + 1
NoFault == UNCHANGED faults
Goto(c, place) == pc' = [pc EXCEPT ![c] = place]
(* A cycle that returns or throws forgets what it had. *)
End(c) == Goto(c, "idle") /\ cyc' = [cyc EXCEPT ![c] = NoData]
Excuse(why, items) == excused' = [excused EXCEPT ![why] = @ \cup items]

InHand(c) == Ids(cyc[c].queue \o cyc[c].batch \o cyc[c].hand \o cyc[c].failed) \cup cyc[c].dead
(* What the end of a subscription, or its new start, may lose. *)
InFlight == Ids(pending) \cup UNION {InHand(c) : c \in Cycle}

-----------------------------------------------------------------------------
(* checkForUpdates, resolveOutboundChannel *)

Find(c) ==
    /\ pc[c] = "idle" /\ sub.on /\ ~sub.initializing
    /\ cyc' = [cyc EXCEPT ![c] = [NoData EXCEPT !.channel = sub.channel, !.current = current, !.queue = pending]]
    /\ Goto(c, "feed")
    /\ overlapped' = (overlapped \/ \E d \in Cycle : pc[d] # "idle")
    /\ UNCHANGED <<guild, seen, feeds, out, admin, faults, baseline, returned, excused>>

(* loadNotificationFeed: the stored feed replaces one that cannot be        *)
(* fetched; the fetch of this game alone may fail; the cycle may abort.     *)
LoadFeed(c) ==
    /\ pc[c] = "feed"
    /\ \/ /\ cyc' = [cyc EXCEPT ![c].feed = latest] /\ snapshot' \in {snapshot, latest}
          /\ Goto(c, "channel") /\ NoFault
       \/ cyc' = [cyc EXCEPT ![c].feed = snapshot] /\ UNCHANGED snapshot /\ Goto(c, "channel") /\ Fault
       \/ UNCHANGED <<cyc, snapshot>> /\ Goto(c, "channel") /\ Fault
       \/ End(c) /\ UNCHANGED snapshot /\ Fault
    /\ UNCHANGED <<guild, seen, latest, out, admin, ghost>>

Newest(q) == SubSeq(q, IF Len(q) > QueueLimit THEN Len(q) - QueueLimit + 1 ELSE 1, Len(q))
WithFeed(q, feed) == IF feed = 0 \/ feed \in Ids(q) THEN q ELSE Newest(Append(q, [id |-> feed, attempts |-> 0]))

(* buildPendingUpdatesQueue: the oldest updates may be older than          *)
(* PENDING_UPDATE_MAX_AGE_MS.                                              *)
Fresh(q, old) == Newest(Picked(q, {n \in old + 1 .. Len(q) : q[n].attempts < MaxAttempts}))

ResolveChannel(c) ==
    /\ pc[c] = "channel"
    /\ \/ /\ NoFault
          /\ Goto(c, IF cyc[c].current THEN "claim" ELSE "seed")
          /\ \E old \in 0 .. Len(cyc[c].queue) :
                LET q == WithFeed(Fresh(cyc[c].queue, old), cyc[c].feed) IN
                /\ cyc' = [cyc EXCEPT ![c].queue = q]
                /\ Excuse("drop", Ids(cyc[c].queue) \ Ids(q))
       \/ Goto(c, "giveUp") /\ Fault /\ UNCHANGED <<cyc, excused>>
       \/ End(c) /\ Fault /\ UNCHANGED excused
    /\ UNCHANGED <<guild, seen, feeds, out, admin, baseline, returned, overlapped>>

(* disableUpdatesForChannelError: whatever channel the guild has now; its  *)
(* errors are swallowed, and what a permanent error left unsent is given   *)
(* up all the same.                                                        *)
DisableForChannelError(c) ==
    \/ sub' = [Off EXCEPT !.activation = sub.activation] /\ Excuse("drop", InFlight) /\ NoFault
    \/ UNCHANGED sub /\ Excuse("drop", Ids(cyc[c].failed)) /\ Fault

GiveUp(c) ==
    /\ pc[c] = "giveUp" /\ DisableForChannelError(c) /\ End(c)
    /\ UNCHANGED <<pending, current, seen, feeds, out, admin, baseline, returned, overlapped>>

(* The rebaseline after a change of the hash. *)
Rebaseline(c) ==
    /\ pc[c] = "seed"
    /\ LET new == {cyc[c].feed} \cap Update IN
       /\ \/ seen' = seen \cup new /\ Goto(c, "version") /\ UNCHANGED cyc /\ NoFault
          \/ seen' \in {seen, seen \cup new} /\ End(c) /\ Fault
       /\ baseline' = baseline \cup (new \cap seen')
    /\ UNCHANGED <<guild, feeds, out, admin, returned, overlapped, excused>>

SetHashVersion(c) ==
    /\ pc[c] = "version" /\ End(c)
    /\ (current' = TRUE /\ NoFault) \/ (UNCHANGED current /\ Fault)
    /\ UNCHANGED <<sub, pending, seen, feeds, out, admin, ghost>>

-----------------------------------------------------------------------------
(* claimIntoBatch *)

EndClaims(c) ==
    /\ pc[c] = "claim" /\ (cyc[c].queue = <<>> \/ Len(cyc[c].batch) = PerCycle)
    /\ Goto(c, IF cyc[c].batch = <<>> THEN "persist" ELSE "send")
    /\ UNCHANGED <<guild, seen, feeds, out, cyc, admin, faults, ghost>>

(* requeueOrDeadLetter, for the updates of a failed claim or a failed send: *)
(* planPendingFailure counts the attempt, requeueFront keeps their order.   *)
LastAttempt(item) == item.attempts + 1 >= MaxAttempts
Last(items) == {n \in DOMAIN items : LastAttempt(items[n])}
DeadOf(items) == {items[n].id : n \in Last(items)}
(* Mutant: what is not dead-lettered is not queued again. *)
GivenBackToNobody(data, items) ==
    [data EXCEPT !.dead = @ \cup DeadOf(items), !.hand = <<>>, !.failed = <<>>]

GivenBack(data, items) ==
    LET again == Picked(items, DOMAIN items \ Last(items)) IN
    [data EXCEPT !.queue = [n \in DOMAIN again |-> [again[n] EXCEPT !.attempts = @ + 1]] \o @,
                 !.dead = @ \cup DeadOf(items), !.hand = <<>>, !.failed = <<>>]
GiveBack(c, data, items) ==
    /\ cyc' = [cyc EXCEPT ![c] = GivenBack(data, items)]
    /\ returned' = returned \cup Ids(items)

(* claimSeenUpdate, first call: is the guild still subscribed on this      *)
(* channel?  An update it is not claimed for leaves the queue.             *)
Subscribed(c) == sub.on /\ sub.channel = cyc[c].channel /\ ~sub.initializing
ClaimGuard(c) ==
    /\ pc[c] = "claim" /\ cyc[c].queue # <<>> /\ Len(cyc[c].batch) < PerCycle
    /\ LET item == Head(cyc[c].queue)
           rest == [cyc[c] EXCEPT !.queue = Tail(@)] IN
       \/ /\ Subscribed(c) /\ NoFault
          /\ cyc' = [cyc EXCEPT ![c] = [rest EXCEPT !.hand = <<item>>]] /\ Goto(c, "upsert")
          /\ UNCHANGED <<returned, excused>>
       \/ /\ ~Subscribed(c) /\ NoFault
          /\ cyc' = [cyc EXCEPT ![c] = rest] /\ Excuse("drop", {item.id}) /\ UNCHANGED <<pc, returned>>
       \/ GiveBack(c, rest, <<item>>) /\ UNCHANGED <<pc, excused>> /\ Fault
    /\ UNCHANGED <<guild, seen, feeds, out, admin, baseline, overlapped>>

(* Mutant: an update that cannot be claimed goes back to the queue. *)
UpsertRequeues(c) ==
    LET item == cyc[c].hand[1] IN
    /\ pc[c] = "upsert" /\ NoFault /\ Goto(c, "claim")
    /\ seen' = seen \cup {item.id}
    /\ cyc' = IF item.id \in seen THEN [cyc EXCEPT ![c].queue = <<item>> \o @, ![c].hand = <<>>]
                                  ELSE [cyc EXCEPT ![c].batch = Append(@, item), ![c].hand = <<>>]
    /\ UNCHANGED <<guild, feeds, out, admin, ghost>>

(* Second call: the upsert.  A claim that was applied and whose answer was *)
(* lost is retried by withMongoRetry and then finds its own document; one  *)
(* that throws is not rolled back.  A claimed update whose embed cannot be *)
(* built is.                                                               *)
Upsert(c) ==
    LET item == cyc[c].hand[1] IN
    /\ pc[c] = "upsert"
    /\ \/ /\ item.id \notin seen /\ seen' = seen \cup {item.id}
          /\ \/ /\ cyc' = [cyc EXCEPT ![c].batch = Append(@, item), ![c].hand = <<>>]
                /\ Goto(c, "claim") /\ NoFault
             \/ UNCHANGED cyc /\ Goto(c, "unclaim") /\ Fault
          /\ UNCHANGED <<returned, excused>>
       \/ /\ item.id \in seen /\ NoFault
          /\ cyc' = [cyc EXCEPT ![c].hand = <<>>] /\ Goto(c, "claim") /\ UNCHANGED <<seen, returned, excused>>
       \/ /\ item.id \notin seen /\ seen' = seen \cup {item.id} /\ Excuse("leak", {item.id}) /\ Fault
          /\ cyc' = [cyc EXCEPT ![c].hand = <<>>] /\ Goto(c, "claim") /\ UNCHANGED returned
       \/ /\ seen' \in {seen, seen \cup {item.id}} /\ Excuse("leak", {item.id} \cap (seen' \ seen)) /\ Fault
          /\ GiveBack(c, cyc[c], <<item>>) /\ Goto(c, "claim")
    /\ UNCHANGED <<guild, feeds, out, admin, baseline, overlapped>>

(* rollbackOrReport: its errors are swallowed; a deletion that was applied *)
(* and whose answer was lost is retried.                                   *)
RollBack(id) ==
    \/ seen' = seen \ {id} /\ NoFault /\ UNCHANGED excused
    \/ seen' \in {seen, seen \ {id}} /\ Excuse("leak", {id} \cap seen') /\ Fault

Unclaim(c) ==
    LET item == cyc[c].hand[1] IN
    /\ pc[c] = "unclaim"
    /\ \/ RollBack(item.id) /\ GiveBack(c, cyc[c], <<item>>) /\ Goto(c, "claim")
       \/ seen' = seen \ {item.id} /\ Excuse("double", {item.id}) /\ UNCHANGED <<cyc, pc, returned>> /\ Fault
    /\ UNCHANGED <<guild, feeds, out, admin, baseline, overlapped>>

-----------------------------------------------------------------------------
(* sendEmbedBatch *)

ChunkOf(c) == SubSeq(cyc[c].batch, 1, IF Len(cyc[c].batch) > PerMessage THEN PerMessage ELSE Len(cyc[c].batch))
AfterChunk(c) == SubSeq(cyc[c].batch, Len(ChunkOf(c)) + 1, Len(cyc[c].batch))
Post(ids) == announced' = [i \in Update |-> announced[i] + IF i \in ids THEN 1 ELSE 0]

(* Mutant: only the updates of the failed message are rolled back. *)
SendFailsAlone(c, permanent) ==
    /\ cyc' = [cyc EXCEPT ![c].hand = ChunkOf(c), ![c].failed = ChunkOf(c), ![c].batch = <<>>,
                          ![c].permanent = permanent]
    /\ Goto(c, "undo") /\ Fault

(* A send that fails, before or after Discord took the message, hands all  *)
(* the updates that are not sent to the rollback.                          *)
SendFails(c, permanent) ==
    /\ cyc' = [cyc EXCEPT ![c].hand = cyc[c].batch, ![c].failed = cyc[c].batch, ![c].batch = <<>>,
                          ![c].permanent = permanent]
    /\ Goto(c, "undo") /\ Fault

Send(c) ==
    /\ pc[c] = "send"
    /\ \/ /\ Post(Ids(ChunkOf(c))) /\ cyc' = [cyc EXCEPT ![c].batch = AfterChunk(c)]
          /\ Goto(c, IF AfterChunk(c) = <<>> THEN "persist" ELSE "send") /\ UNCHANGED excused /\ NoFault
       \/ \E permanent \in BOOLEAN : SendFails(c, permanent) /\ UNCHANGED <<announced, excused>>
       \/ Post(Ids(ChunkOf(c))) /\ Excuse("double", Ids(ChunkOf(c))) /\ SendFails(c, FALSE)
    /\ UNCHANGED <<guild, seen, feeds, recorded, admin, baseline, returned, overlapped>>

(* The rollback of one claim; after the last one the updates go back to the *)
(* queue, unless the channel is given up.                                   *)
Undo(c) ==
    LET id == cyc[c].hand[1].id
        rest == Tail(cyc[c].hand) IN
    /\ pc[c] = "undo"
    /\ \/ /\ RollBack(id)
          /\ \/ rest # <<>> /\ cyc' = [cyc EXCEPT ![c].hand = rest] /\ UNCHANGED <<pc, returned>>
             \/ /\ rest = <<>> /\ ~cyc[c].permanent
                /\ GiveBack(c, cyc[c], cyc[c].failed) /\ Goto(c, "persist")
             \/ /\ rest = <<>> /\ cyc[c].permanent
                /\ cyc' = [cyc EXCEPT ![c].hand = <<>>] /\ Goto(c, "disable") /\ UNCHANGED returned
       \/ seen' = seen \ {id} /\ Excuse("double", {id}) /\ UNCHANGED <<cyc, pc, returned>> /\ Fault
    /\ UNCHANGED <<guild, feeds, out, admin, baseline, overlapped>>

(* A permanent error of the send ends the subscription. *)
Disable(c) ==
    /\ pc[c] = "disable" /\ DisableForChannelError(c) /\ Goto(c, "persist")
    /\ UNCHANGED <<pending, current, seen, feeds, out, cyc, admin, baseline, returned, overlapped>>

(* persistGuildCycleState: the queue is written if the guild is subscribed *)
(* on the cycle's channel, the dead letters after it.                      *)
OnChannel(c) == sub.on /\ sub.channel = cyc[c].channel
Persist(c) ==
    /\ pc[c] = "persist"
    /\ \/ /\ OnChannel(c) /\ pending' = cyc[c].queue /\ UNCHANGED excused /\ NoFault
          /\ IF cyc[c].dead = {} THEN End(c) ELSE Goto(c, "deadLetter") /\ UNCHANGED cyc
       \/ ~OnChannel(c) /\ End(c) /\ Excuse("drop", InHand(c)) /\ UNCHANGED pending /\ NoFault
       \/ /\ UNCHANGED pending \/ (OnChannel(c) /\ pending' = cyc[c].queue)
          /\ End(c) /\ Excuse("drop", InHand(c)) /\ Fault
    /\ UNCHANGED <<sub, current, seen, feeds, out, admin, baseline, returned, overlapped>>

DeadLetter(c) ==
    /\ pc[c] = "deadLetter" /\ End(c)
    /\ \/ recorded' = recorded \cup cyc[c].dead /\ UNCHANGED excused /\ NoFault
       \/ recorded' \in {recorded, recorded \cup cyc[c].dead} /\ Excuse("drop", cyc[c].dead) /\ Fault
    /\ UNCHANGED <<guild, seen, feeds, announced, admin, baseline, returned, overlapped>>

-----------------------------------------------------------------------------
(* startUpdates, stopUpdates *)

GotoCommand(k, place) == cpc' = [cpc EXCEPT ![k] = place]

(* beginActivation *)
Start(k, ch) ==
    /\ cpc[k] = "idle" /\ commands < MaxCommands /\ commands' = commands + 1
    /\ sub' = [on |-> TRUE, channel |-> ch, initializing |-> TRUE, activation |-> commands']
    /\ pending' = <<>> /\ Excuse("drop", InFlight)
    /\ cmd' = [cmd EXCEPT ![k] = [channel |-> ch, activation |-> commands', base |-> 0]]
    /\ GotoCommand(k, "fetch")
    /\ UNCHANGED <<current, seen, feeds, out, pc, cyc, faults, baseline, returned, overlapped>>

(* seedBaseline: an update whose source cannot be fetched is left out. *)
FetchBaseline(k) ==
    /\ cpc[k] = "fetch"
    /\ \/ cmd' = [cmd EXCEPT ![k].base = latest] /\ GotoCommand(k, "seed") /\ NoFault
       \/ UNCHANGED cmd /\ (GotoCommand(k, "seed") \/ GotoCommand(k, "rollback")) /\ Fault
    /\ UNCHANGED <<guild, seen, feeds, out, pc, cyc, commands, ghost>>

SeedBaseline(k) ==
    /\ cpc[k] = "seed"
    /\ LET new == {cmd[k].base} \cap Update IN
       /\ \/ seen' = seen \cup new /\ GotoCommand(k, "finalize") /\ NoFault
          \/ seen' \in {seen, seen \cup new} /\ GotoCommand(k, "rollback") /\ Fault
       /\ baseline' = baseline \cup (new \cap seen')
    /\ UNCHANGED <<guild, feeds, out, pc, cyc, cmd, commands, returned, overlapped, excused>>

(* Mutant: the activation is not compared, only the channel. *)
IsOnChannel(k) == sub.channel = cmd[k].channel

IsActivation(k) == sub.activation = cmd[k].activation

(* finalizeActivation: one that finds another activation is superseded. *)
Finalized(k) == sub' = [sub EXCEPT !.initializing = FALSE, !.activation = 0] /\ current' = TRUE
FinalizeActivation(k) ==
    /\ cpc[k] = "finalize"
    /\ LET mine == IsActivation(k) /\ sub.on /\ sub.channel = cmd[k].channel IN
       \/ mine /\ Finalized(k) /\ ((GotoCommand(k, "idle") /\ NoFault) \/ (GotoCommand(k, "rollback") /\ Fault))
       \/ ~mine /\ GotoCommand(k, "idle") /\ UNCHANGED <<sub, current>> /\ NoFault
       \/ GotoCommand(k, "rollback") /\ UNCHANGED <<sub, current>> /\ Fault
    /\ UNCHANGED <<pending, seen, feeds, out, pc, cyc, cmd, commands, ghost>>

(* rollbackActivation *)
RollbackActivation(k) ==
    /\ cpc[k] = "rollback" /\ GotoCommand(k, "idle")
    /\ \/ IsActivation(k) /\ sub' = Off /\ Excuse("drop", InFlight) /\ NoFault
       \/ ~IsActivation(k) /\ UNCHANGED <<sub, excused>> /\ NoFault
       \/ UNCHANGED <<sub, excused>> /\ Fault
    /\ UNCHANGED <<pending, current, seen, feeds, out, pc, cyc, cmd, commands, baseline, returned, overlapped>>

Stop ==
    /\ sub' = Off /\ pending' = <<>> /\ Excuse("drop", InFlight)
    /\ UNCHANGED <<current, seen, feeds, out, pc, cyc, admin, faults, baseline, returned, overlapped>>

-----------------------------------------------------------------------------
(* The source and crashes *)

Publish ==
    /\ latest < Published /\ latest' = latest + 1
    /\ UNCHANGED <<guild, seen, snapshot, out, pc, cyc, admin, faults, ghost>>

Crash ==
    /\ Fault
    /\ \/ \E c \in Cycle : pc[c] # "idle" /\ End(c) /\ Excuse("leak", InHand(c)) /\ UNCHANGED cpc
       \/ \E k \in Command : cpc[k] # "idle" /\ GotoCommand(k, "idle") /\ UNCHANGED <<pc, cyc, excused>>
    /\ UNCHANGED <<guild, seen, feeds, out, cmd, commands, baseline, returned, overlapped>>

CycleStep(c) ==
    \/ Find(c) \/ LoadFeed(c) \/ ResolveChannel(c) \/ GiveUp(c) \/ Rebaseline(c) \/ SetHashVersion(c)
    \/ EndClaims(c) \/ ClaimGuard(c) \/ Upsert(c) \/ Unclaim(c)
    \/ Send(c) \/ Undo(c) \/ Disable(c) \/ Persist(c) \/ DeadLetter(c)

CommandStep(k) ==
    \/ \E ch \in Channel : Start(k, ch)
    \/ FetchBaseline(k) \/ SeedBaseline(k) \/ FinalizeActivation(k) \/ RollbackActivation(k)

Next ==
    \/ \E c \in Cycle : CycleStep(c)
    \/ \E k \in Command : CommandStep(k)
    \/ Stop \/ Publish \/ Crash

Spec == Init /\ [][Next]_vars

(* The cron timer starts a cycle after every cycle, and a cycle runs on. *)
FairSpec == Spec /\ \A c \in Cycle : WF_vars(CycleStep(c))

-----------------------------------------------------------------------------
(* Properties *)

Held(c) == Ids(cyc[c].batch \o cyc[c].hand \o cyc[c].failed)

(* No update is announced twice, however many cycles overlap and however    *)
(* the subscription is stopped and started, unless the answer to a send or *)
(* to a rollback was lost.                                                  *)
AnnouncedOnce == \A i \in Update : announced[i] > 1 => i \in excused["double"]

(* No claim leaks: an update that is marked as seen was announced or       *)
(* belongs to a baseline, or a cycle has it in hand, or a crash, a lost    *)
(* answer or a failed rollback left it claimed.  No stop or start leaks one. *)
ClaimsAccounted ==
    \A i \in seen : announced[i] > 0 \/ i \in baseline \/ i \in excused["leak"] \/ \E c \in Cycle : i \in Held(c)

(* What is marked as seen is announced, and once: neither of the two goes   *)
(* wrong without a failure that excuses it.                                 *)
AnnouncedExactlyOnce == AnnouncedOnce /\ ClaimsAccounted

(* An update whose claim or send failed is not forgotten: it is announced  *)
(* in the end, queued again, in the hands of a cycle or dead-lettered, as  *)
(* long as no two cycles overlap.                                          *)
FailuresKept ==
    overlapped \/ \A i \in returned :
        announced[i] > 0 \/ i \in Ids(pending) \/ i \in recorded \/ i \in baseline
            \/ i \in excused["leak"] \cup excused["drop"] \/ \E c \in Cycle : i \in InHand(c)

(* A start whose baseline takes long changes the subscription only while it *)
(* is its own: neither its end nor its failure activates or ends what a    *)
(* later start or stop has made of it.                                     *)
OwnActivation ==
    \A k \in Command : cpc[k] \in {"finalize", "rollback"} /\ cpc'[k] # cpc[k] /\ sub' # sub =>
        sub.activation = cmd[k].activation
StartsKeepToThemselves == [][OwnActivation]_vars

(* Every queued update leaves the queue, announced, dead-lettered or too   *)
(* old, as long as the subscription stays active.                          *)
Active == sub.on /\ ~sub.initializing
QueueSettles == \A i \in Update : (Active /\ i \in Ids(pending)) ~> ~(Active /\ i \in Ids(pending))
=============================================================================
