--------------------------- MODULE DiscordRateLimiter ---------------------------
(***************************************************************************)
(* The token bucket every Discord post goes through                        *)
(* (features/notifications/discordRateLimiter.ts).                         *)
(*                                                                         *)
(* Time is counted in the ticks of a clock, and tokens in the ticks they   *)
(* take to refill: a permit costs Period = intervalMs / refillPerInterval. *)
(* acquire() appends to the promise chain, so only the head of the queue   *)
(* is inside acquireOne; a timer may be late and never early.              *)
(***************************************************************************)
EXTENDS Integers, Sequences

CONSTANTS Caller,
          Capacity,    \* permits a full bucket holds
          Period,      \* ticks a permit takes to refill
          MaxWait,     \* the longest sleep
          MaxClock     \* bound on the clock

LimiterAssumption ==
    /\ Capacity \in Nat \ {0} /\ Period \in Nat \ {0} /\ MaxClock \in Nat
    /\ MaxWait \in Nat /\ MaxWait >= Period   \* 5 s and 200 ms by default

VARIABLES clock, tokens, lastRefill,
          chain,     \* the calls whose permit has not been given yet
          wake,      \* when the head of the chain wakes up, 0 if it does not sleep
          permits    \* the permits given (history)

vars == <<clock, tokens, lastRefill, chain, wake, permits>>

Cap == Capacity * Period

TypeOK ==
    /\ clock \in 0 .. MaxClock /\ lastRefill \in 0 .. clock
    /\ tokens \in 0 .. Cap
    /\ chain \in Seq(Caller)
    /\ wake \in Nat /\ permits \in Nat

Init ==
    /\ clock = 0 /\ lastRefill = 0 /\ tokens = Cap
    /\ chain = <<>> /\ wake = 0 /\ permits = 0

Lesser(a, b) == IF a <= b THEN a ELSE b

(* Mutant: the bucket is refilled past its capacity. *)
Refilled_Uncapped == tokens + (clock - lastRefill)

Refilled == Lesser(Cap, tokens + (clock - lastRefill))

-----------------------------------------------------------------------------
Tick ==
    /\ clock < MaxClock /\ clock' = clock + 1
    /\ UNCHANGED <<tokens, lastRefill, chain, wake, permits>>

(* acquire(): behind every call made before. *)
Acquire(c) ==
    /\ \A i \in 1 .. Len(chain) : chain[i] # c
    /\ chain' = Append(chain, c)
    /\ UNCHANGED <<clock, tokens, lastRefill, wake, permits>>

(* acquireOne up to its sleep: a permit if there is one. *)
Begin ==
    /\ chain # <<>> /\ wake = 0
    /\ lastRefill' = clock
    /\ IF Refilled >= Period
         THEN /\ tokens' = Refilled - Period
              /\ chain' = Tail(chain) /\ permits' = permits + 1 /\ wake' = wake
         ELSE /\ tokens' = Refilled
              /\ wake' = clock + Lesser(MaxWait, Period - Refilled)
              /\ UNCHANGED <<chain, permits>>
    /\ UNCHANGED clock

\* Mutant: two calls sleep on the same deficit, for want of the chain.
Wake_Unchained ==
    /\ wake # 0 /\ wake <= clock
    /\ lastRefill' = clock
    /\ tokens' = IF Refilled >= Period THEN Refilled - Period ELSE 0
    /\ \E n \in {1, 2} : /\ n <= Len(chain) /\ permits' = permits + n
                         /\ chain' = SubSeq(chain, n + 1, Len(chain))
    /\ wake' = 0
    /\ UNCHANGED clock

(* acquireOne after its sleep: the permit is given whatever was refilled. *)
Wake ==
    /\ wake # 0 /\ wake <= clock
    /\ lastRefill' = clock
    /\ tokens' = IF Refilled >= Period THEN Refilled - Period ELSE 0
    /\ chain' = Tail(chain) /\ permits' = permits + 1
    /\ wake' = 0
    /\ UNCHANGED clock

Next == Tick \/ Begin \/ Wake \/ \E c \in Caller : Acquire(c)

Spec == Init /\ [][Next]_vars

-----------------------------------------------------------------------------
(* The permits given never exceed a full bucket and what the clock has     *)
(* refilled since, although acquireOne hands one out after its sleep       *)
(* without looking at the bucket: the sleep covers the deficit, and only   *)
(* one call at a time can be sleeping on it.                               *)
RateKept == permits * Period <= Cap + clock
=============================================================================
