------------------------------ MODULE HttpClient ------------------------------
(***************************************************************************)
(* The requests to a source: the attempts of one request and what is tried *)
(* again (infra/http/client.ts, retryPolicy.ts), and the conditional       *)
(* requests with their cache (conditionalCache.ts).                        *)
(*                                                                         *)
(* The source serves versions 0, 1, ... of one address; the entity tag of  *)
(* a version is the version.  A POST has an effect at the source once it   *)
(* is taken.                                                               *)
(***************************************************************************)
EXTENDS Integers, FiniteSets

CONSTANTS Request,     \* the callers, each with one request at a time
          Retries,     \* of one request
          MaxVersion   \* bound: versions the source publishes

HttpAssumption == Retries \in Nat /\ MaxVersion \in Nat

VARIABLES server,      \* the version that is served
          cache,       \* the version in the cache: {} or one
          request,     \* the state of each caller
          taken        \* how often the source took the POST of each caller

vars == <<server, cache, request, taken>>

(* cached: the cache entry before the request; since: the version that was *)
(* served when the attempt was sent; got: the version of the answer.       *)
Idle == [pc |-> "idle", tries |-> 0, cached |-> {}, since |-> 0, got |-> 0]

Init ==
    /\ server = 0 /\ cache = {} /\ taken = [r \in Request |-> 0]
    /\ request = [r \in Request |-> Idle]

Version == 0 .. MaxVersion

TypeOK ==
    /\ server \in Version /\ cache \subseteq Version /\ Cardinality(cache) <= 1
    /\ request \in [Request -> [pc : {"idle", "get", "parse", "post", "answered", "failed"},
                                tries : 0 .. Retries, cached : SUBSET Version, since : Version,
                                got : Version]]
    /\ taken \in [Request -> Nat]

Put(r, q) == request' = [request EXCEPT ![r] = q]
At(r, pc) == request[r].pc = pc

-----------------------------------------------------------------------------
(* conditionalGet: the entry is looked up before the request. *)
Get(r) ==
    /\ At(r, "idle")
    /\ Put(r, [Idle EXCEPT !.pc = "get", !.cached = cache, !.since = server])
    /\ UNCHANGED <<server, cache, taken>>

Answered(r, version) == Put(r, [request[r] EXCEPT !.pc = "answered", !.got = version])

(* 304: the answer is the entry that was there before the request. *)
NotModified(r) ==
    /\ At(r, "get") /\ request[r].cached = {server}
    /\ \E v \in request[r].cached : Answered(r, v)
    /\ UNCHANGED <<server, cache, taken>>

(* 200: the body goes to parse, which may await. *)
Modified(r) ==
    /\ At(r, "get") /\ request[r].cached # {server}
    /\ Put(r, [request[r] EXCEPT !.pc = "parse", !.got = server])
    /\ UNCHANGED <<server, cache, taken>>

(* The result is kept if the answer had a tag; the older entry goes.  A    *)
(* body that does not parse leaves the cache as it is.                     *)
Parsed(r) ==
    /\ At(r, "parse") /\ Answered(r, request[r].got)
    /\ cache' \in {{}, {request[r].got}}
    /\ UNCHANGED <<server, taken>>

ParseFails(r) ==
    /\ At(r, "parse") /\ Put(r, [request[r] EXCEPT !.pc = "failed"])
    /\ UNCHANGED <<server, cache, taken>>

(* Entries of other addresses push this one out. *)
Evict ==
    /\ cache # {} /\ cache' = {}
    /\ UNCHANGED <<server, request, taken>>

Publish ==
    /\ server < MaxVersion /\ server' = server + 1
    /\ UNCHANGED <<cache, request, taken>>

-----------------------------------------------------------------------------
(* httpReq with a POST. *)
Post(r) ==
    /\ At(r, "idle") /\ Put(r, [Idle EXCEPT !.pc = "post"])
    /\ taken' = [taken EXCEPT ![r] = 0]
    /\ UNCHANGED <<server, cache>>

Take(r) == taken' = [taken EXCEPT ![r] = @ + 1]

PostAnswered(r) ==
    /\ At(r, "post") /\ Take(r) /\ Answered(r, server)
    /\ UNCHANGED <<server, cache>>

(* classifyHttpFailure.  429: the source did not take the request; no      *)
(* answer, a 5xx, a 408 or a 425: it may have; another 4xx: it did not.    *)
Failure == {"rateLimit", "noAnswer", "4xx"}

ShouldRetry(failure, isIdempotent) ==
    failure = "rateLimit" \/ (failure = "noAnswer" /\ isIdempotent)

(* An attempt fails: the next one is the same request, with its headers.   *)
AttemptFails(r) ==
    /\ At(r, "get") \/ At(r, "post")
    /\ \E failure \in Failure :
         /\ IF failure = "noAnswer" /\ At(r, "post")
            THEN Take(r) \/ UNCHANGED taken
            ELSE UNCHANGED taken
         /\ Put(r, IF ShouldRetry(failure, At(r, "get")) /\ request[r].tries < Retries
                   THEN [request[r] EXCEPT !.tries = @ + 1, !.since = server]
                   ELSE [request[r] EXCEPT !.pc = "failed"])
    /\ UNCHANGED <<server, cache>>

Return(r) ==
    /\ request[r].pc \in {"answered", "failed"} /\ Put(r, Idle)
    /\ UNCHANGED <<server, cache, taken>>

Next ==
    \/ \E r \in Request :
        \/ Get(r) \/ NotModified(r) \/ Modified(r) \/ Parsed(r) \/ ParseFails(r)
        \/ Post(r) \/ PostAnswered(r) \/ AttemptFails(r) \/ Return(r)
    \/ Evict \/ Publish

Spec == Init /\ [][Next]_vars

-----------------------------------------------------------------------------
(* A conditional request is never answered with what the source had        *)
(* already replaced when it was asked, although slower answers put older   *)
(* results into the cache and entries are evicted while a request that     *)
(* names their tag is under way; and whatever fails and is tried again, a  *)
(* POST has its effect once.                                               *)
AnswersAreCurrent ==
    \A r \in Request :
        /\ At(r, "answered") => request[r].got >= request[r].since
        /\ taken[r] <= 1
=============================================================================
