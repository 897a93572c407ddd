-------------------------------- MODULE YouTube --------------------------------
(***************************************************************************)
(* The new-video notifications of one guild (features/youtube:             *)
(* youtubeNotificationService.ts, youtubeDeliveryExecutor.ts,              *)
(* youtubeRollbackPolicy.ts and the claims of youtubeRepository.ts).       *)
(*                                                                         *)
(* A pass is a cron cycle or an administrator's manual command; passes     *)
(* overlap (two cycles when a lease ran out, a command at any time).  An   *)
(* action is one awaited call.  Metadata, filters and the age of a video   *)
(* are choices; a chunk of a delivery holds one video; a destination       *)
(* accepts a message when the outbox or Discord does.                      *)
(***************************************************************************)
EXTENDS Integers, FiniteSets

CONSTANTS Video, Destination,
          Cron, Manual,  \* the passes of each kind
          MaxFaults      \* bound on crashes and failed calls

YouTubeAssumption == MaxFaults \in Nat

Pass == Cron \cup Manual

VARIABLES seen,      \* the videos with a claim in guildSeenYoutube
          pass,      \* of each pass: its step and what it carries
          accepted,  \* <<video, destination>> taken by the outbox or Discord
          skipped,   \* claimed and not wanted: filtered, old, notifications off
          stranded,  \* claimed by a pass that a fault parted from them
          faults

vars == <<seen, pass, accepted, skipped, stranded, faults>>

(* left: feed not visited; mine: claimed; out: prepared; sends: to do;     *)
(* ok: done; undo: claims to roll back, then the step to go on with.       *)
Idle == [pc |-> "idle", force |-> FALSE, left |-> {}, mine |-> {}, out |-> {}, sends |-> {}, ok |-> {},
         undo |-> {}, then |-> "idle"]

Init ==
    /\ seen = {} /\ accepted = {} /\ skipped = {} /\ stranded = {} /\ faults = 0
    /\ pass = [p \in Pass |-> Idle]

Fault == faults < MaxFaults /\ faults' = faults + 1
Put(p, r) == pass' = [pass EXCEPT ![p] = r]

TypeOK ==
    /\ seen \in SUBSET Video /\ skipped \in SUBSET Video /\ stranded \in SUBSET Video
    /\ accepted \in SUBSET (Video \X Destination) /\ faults \in 0 .. MaxFaults
    /\ pass \in [Pass -> [pc : {"idle", "claim", "prepare", "deliver", "undo"},
                          force : BOOLEAN, left : SUBSET Video, mine : SUBSET Video, out : SUBSET Video,
                          sends : SUBSET (Video \X Destination), ok : SUBSET (Video \X Destination),
                          undo : SUBSET Video, then : {"idle", "claim"}]]

-----------------------------------------------------------------------------
(* checkForYouTube and the manual command: the feed has been read. *)
Begin(p) ==
    /\ pass[p].pc = "idle"
    /\ \E f \in IF p \in Manual THEN BOOLEAN ELSE {FALSE} :
         Put(p, [Idle EXCEPT !.pc = "claim", !.left = Video, !.force = f])
    /\ UNCHANGED <<seen, accepted, skipped, stranded, faults>>

(* A claim is a document made under a unique index.  The cron claims first *)
(* and prepares then, and only claims what is old or has its notifications *)
(* off.                                                                    *)
Claim(p) ==
    /\ p \in Cron /\ pass[p].pc = "claim"
    /\ \E v \in pass[p].left :
         LET next == [pass[p] EXCEPT !.left = @ \ {v}]
         IN  \/ v \in seen /\ Put(p, next) /\ UNCHANGED <<seen, skipped>>
             \/ v \notin seen /\ seen' = seen \cup {v} /\ UNCHANGED skipped
                /\ Put(p, [next EXCEPT !.pc = "prepare", !.mine = @ \cup {v}])
             \/ seen' = seen \cup {v} /\ Put(p, next)
                /\ skipped' = IF v \in seen THEN skipped ELSE skipped \cup {v}
    /\ UNCHANGED <<accepted, stranded, faults>>

(* The manual command prepares first; forced, it does not claim. *)
ClaimManual(p) ==
    /\ p \in Manual /\ pass[p].pc = "claim"
    /\ \E v \in pass[p].left :
         LET next == [pass[p] EXCEPT !.left = @ \ {v}]
         IN  \/ Put(p, next) /\ UNCHANGED seen
             \/ ~next.force /\ v \notin seen /\ seen' = seen \cup {v}
                /\ Put(p, [next EXCEPT !.mine = @ \cup {v}, !.out = @ \cup {v}])
             \/ next.force /\ Put(p, [next EXCEPT !.out = @ \cup {v}]) /\ UNCHANGED seen
    /\ UNCHANGED <<accepted, skipped, stranded, faults>>

(* The claim is made and not heard of: the retry finds it there and the    *)
(* video is passed over.  Or the claim fails, and with it the whole guild. *)
ClaimFails(p) ==
    /\ Fault /\ pass[p].pc = "claim" /\ ~pass[p].force
    /\ \E v \in pass[p].left \ seen :
         \/ seen' = seen \cup {v} /\ stranded' = stranded \cup {v}
            /\ Put(p, [pass[p] EXCEPT !.left = @ \ {v}])
         \/ stranded' = stranded \cup pass[p].mine /\ Put(p, Idle) /\ UNCHANGED seen
    /\ UNCHANGED <<accepted, skipped>>

Current(p) == pass[p].mine \ pass[p].out

(* prepareVideo: passed on, filtered, or failed and its claim rolled back. *)
Prepare(p) ==
    /\ pass[p].pc = "prepare"
    /\ \/ Put(p, [pass[p] EXCEPT !.pc = "claim", !.out = @ \cup Current(p)]) /\ UNCHANGED skipped
       \/ Put(p, [pass[p] EXCEPT !.pc = "claim", !.mine = @ \ Current(p)])
          /\ skipped' = skipped \cup Current(p)
       \/ Put(p, [pass[p] EXCEPT !.pc = "undo", !.undo = Current(p), !.then = "claim"])
          /\ UNCHANGED skipped
    /\ UNCHANGED <<seen, accepted, stranded, faults>>

(* shouldAbort before the delivery: every claim is rolled back. *)
Abort(p) ==
    /\ p \in Cron /\ pass[p].pc = "claim"
    /\ Put(p, [pass[p] EXCEPT !.pc = "undo", !.undo = pass[p].mine, !.then = "idle"])
    /\ UNCHANGED <<seen, accepted, skipped, stranded, faults>>

-----------------------------------------------------------------------------
(* deliverPrepared: by destination, then by chunk. *)
BeginDelivery(p) ==
    /\ pass[p].pc = "claim" /\ pass[p].left = {}
    /\ Put(p, [pass[p] EXCEPT !.pc = "deliver", !.sends = pass[p].out \X Destination])
    /\ UNCHANGED <<seen, accepted, skipped, stranded, faults>>

Send(p) ==
    /\ pass[p].pc = "deliver"
    /\ \E s \in pass[p].sends :
         /\ accepted' = accepted \cup {s}
         /\ Put(p, [pass[p] EXCEPT !.sends = @ \ {s}, !.ok = @ \cup {s}])
    /\ UNCHANGED <<seen, skipped, stranded, faults>>

(* A destination that does not resolve, a send that fails (heard or not by *)
(* the other side) or an abort leaves the rest of a destination undone.    *)
LeaveDestination(p) ==
    /\ Fault /\ pass[p].pc = "deliver"
    /\ \E s \in pass[p].sends :
         /\ accepted' \in {accepted, accepted \cup {s}}
         /\ Put(p, [pass[p] EXCEPT !.sends = {t \in @ : t[2] # s[2]}])
    /\ UNCHANGED <<seen, skipped, stranded>>

Undone(p) == {v \in pass[p].mine : \E d \in Destination : <<v, d>> \notin pass[p].ok}

(* Mutant: a video that some destination took is not rolled back. *)
EndDelivery_PartialIsDone(p) ==
    /\ pass[p].pc = "deliver" /\ pass[p].sends = {}
    /\ Put(p, [pass[p] EXCEPT !.pc = "undo", !.then = "idle",
                  !.undo = {v \in pass[p].mine : \A d \in Destination : <<v, d>> \notin pass[p].ok}])
    /\ UNCHANGED <<seen, accepted, skipped, stranded, faults>>

(* A video that missed one of its destinations is claimed no more. *)
EndDelivery(p) ==
    /\ pass[p].pc = "deliver" /\ pass[p].sends = {}
    /\ Put(p, [pass[p] EXCEPT !.pc = "undo", !.undo = Undone(p), !.then = "idle"])
    /\ UNCHANGED <<seen, accepted, skipped, stranded, faults>>

(* rollbackVideo; one that fails is reported, and its video stays claimed. *)
Rollback(p) ==
    /\ pass[p].pc = "undo"
    /\ \E v \in pass[p].undo :
         /\ Put(p, [pass[p] EXCEPT !.undo = @ \ {v}, !.mine = @ \ {v}])
         /\ \/ seen' = seen \ {v} /\ UNCHANGED <<stranded, faults>>
            \/ Fault /\ stranded' = stranded \cup {v} /\ UNCHANGED seen
    /\ UNCHANGED <<accepted, skipped>>

EndRollback(p) ==
    /\ pass[p].pc = "undo" /\ pass[p].undo = {}
    /\ Put(p, IF pass[p].then = "idle" THEN Idle ELSE [pass[p] EXCEPT !.pc = "claim"])
    /\ UNCHANGED <<seen, accepted, skipped, stranded, faults>>

Crash(p) ==
    /\ Fault /\ pass[p].pc # "idle"
    /\ stranded' = stranded \cup pass[p].mine /\ Put(p, Idle)
    /\ UNCHANGED <<seen, accepted, skipped>>

Next ==
    \E p \in Pass :
        \/ Begin(p) \/ Claim(p) \/ ClaimManual(p) \/ ClaimFails(p) \/ Prepare(p) \/ Abort(p)
        \/ BeginDelivery(p) \/ Send(p) \/ LeaveDestination(p) \/ EndDelivery(p)
        \/ Rollback(p) \/ EndRollback(p) \/ Crash(p)

Spec == Init /\ [][Next]_vars

-----------------------------------------------------------------------------
(* A claim hides a video from every later pass, so each claim is justified *)
(* while passes race and destinations fail: a pass still works on it, all  *)
(* destinations took the video, it is not wanted, or a fault that the code *)
(* cannot undo (a crash, a failed or unheard database call) stranded it.   *)
ClaimsAreJustified ==
    \A v \in seen :
        \/ v \in skipped \cup stranded
        \/ \E p \in Pass : v \in pass[p].mine
        \/ \A d \in Destination : <<v, d>> \in accepted
=============================================================================
