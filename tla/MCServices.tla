-------------------------- MODULE MCServices --------------------------
(***************************************************************************)
(* For TLC, side by side: the settings cache, the life of an instance, the *)
(* rate limiter, the videos, the price alerts, the sanctions and warnings, *)
(* the starts of a subscription, the native inspector, the HTTP client,    *)
(* the circuit breaker, the player counts and the alerts about new         *)
(* accounts.  A behaviour is one of one of them.                           *)
(***************************************************************************)
EXTENDS Lifecycle, TLC

CONSTANTS Caller, Thing, MaxCommands, MaxFaults,
          Capacity, Period, MaxWait, MaxTicks,          \* of the rate limiter
          TTL, MaxWrites,                               \* of the settings cache
          Cron, Manual, Rearm,                          \* of the videos and the price alerts
          Cycle, Channel, Published, MaxAttempts,
          QueueLimit, PerCycle, PerMessage,             \* of the starts of a subscription
          MaxInspectorFaults, Retries, MaxVersion,      \* of the inspector and the HTTP client
          Contexts, Sources, Threshold,                 \* of the circuit breaker
          Counts, Step, Cooldown, MaxClock,             \* of the player counts
          MaxAlertFaults                                \* of the alerts about new accounts

VARIABLES
    focus,
    settings_legacy, settings_copy, settings_cache, settings_reading, settings_writing,
    settings_remote, settings_last, settings_shown, settings_faults,
    limiter_clock, limiter_tokens, limiter_lastRefill, limiter_chain, limiter_wake,
    limiter_permits,
    video_seen, video_pass, video_accepted, video_skipped, video_stranded, video_faults,
    price_rule, price_pass, price_told, price_stranded, price_faults,
    member_discord, member_rec, member_past, member_present, member_warned, member_told,
    member_orphaned, member_unheard, member_cmd, member_recon, member_last, member_faults,
    starts_sub, starts_pending, starts_current, starts_seen, starts_latest,
    starts_snapshot, starts_announced, starts_recorded, starts_pc, starts_cyc,
    starts_cpc, starts_cmd, starts_commands, starts_faults, starts_baseline,
    starts_returned, starts_overlapped, starts_excused,
    inspector_made, inspector_idle, inspector_waiting, inspector_client, inspector_job,
    inspector_faults,
    http_server, http_cache, http_request, http_taken,
    breaker_breaker, breaker_quiet, breaker_shared, breaker_fetch, breaker_row,
    breaker_told, breaker_overlapped, breaker_lost, breaker_faults,
    counts_clock, counts_watch, counts_record, counts_refresh, counts_last,
    counts_crowded, counts_overlapped, counts_faults,
    alerts_on, alerts_row, alerts_worker, alerts_posted, alerts_lost, alerts_muted,
    alerts_faults

S == INSTANCE GuildSettings WITH
    Process <- Instance, TTL <- TTL, MaxWrites <- MaxWrites, MaxFaults <- MaxFaults,
    legacy <- settings_legacy, copy <- settings_copy, cache <- settings_cache,
    reading <- settings_reading, writing <- settings_writing, remote <- settings_remote,
    last <- settings_last, shown <- settings_shown, faults <- settings_faults

R == INSTANCE DiscordRateLimiter WITH
    Caller <- Caller, Capacity <- Capacity, Period <- Period, MaxWait <- MaxWait,
    MaxClock <- MaxTicks,
    clock <- limiter_clock, tokens <- limiter_tokens, lastRefill <- limiter_lastRefill,
    chain <- limiter_chain, wake <- limiter_wake, permits <- limiter_permits

V == INSTANCE YouTube WITH
    Video <- Thing, Destination <- Instance, Cron <- Cron, Manual <- Manual,
    MaxFaults <- MaxFaults, seen <- video_seen, pass <- video_pass, accepted <- video_accepted,
    skipped <- video_skipped, stranded <- video_stranded, faults <- video_faults

P == INSTANCE PriceAlerts WITH
    Rule <- Thing, Pass <- Instance, Rearm <- Rearm, MaxFaults <- MaxFaults, rule <- price_rule,
    pass <- price_pass, told <- price_told, stranded <- price_stranded,
    faults <- price_faults

M == INSTANCE Moderation WITH
    Handler <- Instance, MaxCommands <- MaxCommands, MaxFaults <- MaxFaults, discord <- member_discord,
    rec <- member_rec, past <- member_past, present <- member_present,
    warned <- member_warned, told <- member_told, orphaned <- member_orphaned,
    unheard <- member_unheard,
    cmd <- member_cmd, recon <- member_recon, last <- member_last,
    faults <- member_faults

N == INSTANCE NotificationCycle WITH
    Cycle <- Cycle, Command <- Instance, Channel <- Channel, NoChannel <- "none",
    Published <- Published, MaxAttempts <- MaxAttempts, QueueLimit <- QueueLimit,
    PerCycle <- PerCycle, PerMessage <- PerMessage,
    MaxCommands <- MaxCommands, MaxFaults <- MaxFaults, sub <- starts_sub, pending <- starts_pending,
    current <- starts_current, seen <- starts_seen, latest <- starts_latest,
    snapshot <- starts_snapshot, announced <- starts_announced,
    recorded <- starts_recorded, pc <- starts_pc, cyc <- starts_cyc, cpc <- starts_cpc,
    cmd <- starts_cmd, commands <- starts_commands, faults <- starts_faults,
    baseline <- starts_baseline, returned <- starts_returned,
    overlapped <- starts_overlapped, excused <- starts_excused

I == INSTANCE NativeInspector WITH
    Job <- Caller, Client <- Instance, NoJob <- "none", MaxFaults <- MaxInspectorFaults,
    made <- inspector_made, idle <- inspector_idle, waiting <- inspector_waiting,
    client <- inspector_client, job <- inspector_job, faults <- inspector_faults

H == INSTANCE HttpClient WITH
    Request <- Instance, Retries <- Retries, MaxVersion <- MaxVersion,
    server <- http_server, cache <- http_cache, request <- http_request,
    taken <- http_taken

B == INSTANCE CircuitBreaker WITH
    Fetch <- Instance, Contexts <- Contexts, Sources <- Sources, Threshold <- Threshold,
    MaxFaults <- MaxFaults,
    breaker <- breaker_breaker, quiet <- breaker_quiet, shared <- breaker_shared,
    fetch <- breaker_fetch, row <- breaker_row, told <- breaker_told,
    overlapped <- breaker_overlapped, lost <- breaker_lost, faults <- breaker_faults

C == INSTANCE PlayerCounts WITH
    Refresh <- Instance, Counts <- Counts, Step <- Step, Cooldown <- Cooldown, MaxClock <- MaxClock,
    MaxFaults <- MaxFaults,
    clock <- counts_clock, watch <- counts_watch, record <- counts_record,
    refresh <- counts_refresh, last <- counts_last, crowded <- counts_crowded,
    overlapped <- counts_overlapped, faults <- counts_faults

A == INSTANCE NewAccountAlerts WITH
    Member <- Thing, Worker <- Instance, None <- "none", MaxFaults <- MaxAlertFaults,
    on <- alerts_on, row <- alerts_row, worker <- alerts_worker, posted <- alerts_posted,
    lost <- alerts_lost, muted <- alerts_muted, faults <- alerts_faults

settingsVars == <<settings_legacy, settings_copy, settings_cache, settings_reading,
    settings_writing, settings_remote, settings_last, settings_shown, settings_faults>>
limiterVars == <<limiter_clock, limiter_tokens, limiter_lastRefill, limiter_chain,
    limiter_wake, limiter_permits>>
videoVars == <<video_seen, video_pass, video_accepted, video_skipped, video_stranded,
    video_faults>>
priceVars == <<price_rule, price_pass, price_told, price_stranded, price_faults>>
memberVars == <<member_discord, member_rec, member_past, member_present, member_warned,
    member_told, member_orphaned, member_unheard, member_cmd, member_recon, member_last,
    member_faults>>
startsVars == <<starts_sub, starts_pending, starts_current, starts_seen, starts_latest,
    starts_snapshot, starts_announced, starts_recorded, starts_pc, starts_cyc,
    starts_cpc, starts_cmd, starts_commands, starts_faults, starts_baseline,
    starts_returned, starts_overlapped, starts_excused>>
inspectorVars == <<inspector_made, inspector_idle, inspector_waiting, inspector_client,
    inspector_job, inspector_faults>>
httpVars == <<http_server, http_cache, http_request, http_taken>>
breakerVars == <<breaker_breaker, breaker_quiet, breaker_shared, breaker_fetch,
    breaker_row, breaker_told, breaker_overlapped, breaker_lost, breaker_faults>>
countsVars == <<counts_clock, counts_watch, counts_record, counts_refresh, counts_last,
    counts_crowded, counts_overlapped, counts_faults>>
alertsVars == <<alerts_on, alerts_row, alerts_worker, alerts_posted, alerts_lost,
    alerts_muted, alerts_faults>>
allVars == <<focus, settingsVars, vars, limiterVars, videoVars, priceVars, memberVars,
    startsVars, inspectorVars, httpVars, breakerVars, countsVars, alertsVars>>

ASSUME ServicesAssumption ==
    /\ S!SettingsAssumption /\ LifecycleAssumption /\ R!LimiterAssumption /\ V!YouTubeAssumption
    /\ P!PriceAssumption /\ M!ModerationAssumption /\ N!CycleAssumption /\ I!InspectorAssumption
    /\ H!HttpAssumption /\ B!BreakerAssumption /\ C!CountsAssumption /\ A!AlertsAssumption

(* The component whose steps a behaviour takes; the others stay as they    *)
(* begin, in one of their initial states.                                  *)
Component == {"settings", "life", "limiter", "video", "price", "member", "starts",
              "inspector", "http", "breaker", "counts", "alerts"}

AllInit ==
    /\ focus \in Component
    /\ S!Init /\ Init /\ R!Init /\ V!Init /\ P!Init /\ M!Init /\ N!Init
    /\ I!Init /\ H!Init /\ B!Init /\ C!Init /\ A!Init
    /\ focus # "settings" => settings_legacy.there = FALSE
    /\ focus # "member" => member_last = 0
    /\ focus # "starts" => ~starts_sub.on /\ starts_current

SettingsStep ==
    /\ focus = "settings" /\ S!Next
    /\ UNCHANGED <<focus, vars, limiterVars, videoVars, priceVars, memberVars,
                   startsVars, inspectorVars, httpVars, breakerVars, countsVars, alertsVars>>
LifeStep ==
    /\ focus = "life" /\ Next
    /\ UNCHANGED <<focus, settingsVars, limiterVars, videoVars, priceVars, memberVars,
                   startsVars, inspectorVars, httpVars, breakerVars, countsVars, alertsVars>>
LimiterStep ==
    /\ focus = "limiter" /\ R!Next
    /\ UNCHANGED <<focus, settingsVars, vars, videoVars, priceVars, memberVars,
                   startsVars, inspectorVars, httpVars, breakerVars, countsVars, alertsVars>>
VideoStep ==
    /\ focus = "video" /\ V!Next
    /\ UNCHANGED <<focus, settingsVars, vars, limiterVars, priceVars, memberVars,
                   startsVars, inspectorVars, httpVars, breakerVars, countsVars, alertsVars>>
PriceStep ==
    /\ focus = "price" /\ P!Next
    /\ UNCHANGED <<focus, settingsVars, vars, limiterVars, videoVars, memberVars,
                   startsVars, inspectorVars, httpVars, breakerVars, countsVars, alertsVars>>
MemberStep ==
    /\ focus = "member" /\ M!Next
    /\ UNCHANGED <<focus, settingsVars, vars, limiterVars, videoVars, priceVars,
                   startsVars, inspectorVars, httpVars, breakerVars, countsVars, alertsVars>>
StartsStep ==
    /\ focus = "starts" /\ N!Next
    /\ UNCHANGED <<focus, settingsVars, vars, limiterVars, videoVars, priceVars,
                   memberVars, inspectorVars, httpVars, breakerVars, countsVars, alertsVars>>
InspectorStep ==
    /\ focus = "inspector" /\ I!Next
    /\ UNCHANGED <<focus, settingsVars, vars, limiterVars, videoVars, priceVars,
                   memberVars, startsVars, httpVars, breakerVars, countsVars, alertsVars>>
HttpStep ==
    /\ focus = "http" /\ H!Next
    /\ UNCHANGED <<focus, settingsVars, vars, limiterVars, videoVars, priceVars,
                   memberVars, startsVars, inspectorVars, breakerVars, countsVars, alertsVars>>
BreakerStep ==
    /\ focus = "breaker" /\ B!Next
    /\ UNCHANGED <<focus, settingsVars, vars, limiterVars, videoVars, priceVars,
                   memberVars, startsVars, inspectorVars, httpVars, countsVars, alertsVars>>
CountsStep ==
    /\ focus = "counts" /\ C!Next
    /\ UNCHANGED <<focus, settingsVars, vars, limiterVars, videoVars, priceVars,
                   memberVars, startsVars, inspectorVars, httpVars, breakerVars, alertsVars>>
AlertsStep ==
    /\ focus = "alerts" /\ A!Next
    /\ UNCHANGED <<focus, settingsVars, vars, limiterVars, videoVars, priceVars,
                   memberVars, startsVars, inspectorVars, httpVars, breakerVars, countsVars>>
AllNext ==
    SettingsStep \/ LifeStep \/ LimiterStep \/ VideoStep \/ PriceStep \/ MemberStep \/
    StartsStep \/ InspectorStep \/ HttpStep \/ BreakerStep \/ CountsStep \/ AlertsStep

AllSpec == AllInit /\ [][AllNext]_allVars

Symmetry == Permutations(Instance) \cup Permutations(Thing)

-----------------------------------------------------------------------------
(* The types of the components' state.                                     *)
TypesOK ==
    /\ focus = "settings" => S!TypeOK
    /\ TypeOK
    /\ focus = "limiter" => R!TypeOK
    /\ focus = "video" => V!TypeOK
    /\ focus = "price" => P!TypeOK
    /\ focus = "member" => M!TypeOK
    /\ focus = "starts" => N!TypeOK
    /\ focus = "inspector" => I!TypeOK
    /\ focus = "http" => H!TypeOK
    /\ focus = "breaker" => B!TypeOK
    /\ focus = "counts" => C!TypeOK
    /\ focus = "alerts" => A!TypeOK

(* What a process serves was what the database said within the TTL.        *)
StaleWithinTTL == focus = "settings" => S!StaleWithinTTL

(* No more permits than the bucket and the refill rate allow.              *)
RateKept == focus = "limiter" => R!RateKept

(* What a claim takes from everyone else was told: the videos, the alerts  *)
(* of prices and of new accounts (these only once), and the changes of     *)
(* player counts.                                                          *)
ConsumedIsTold ==
    /\ focus = "video" => V!ClaimsAreJustified
    /\ focus = "price" => P!TriggersAreTold
    /\ focus = "counts" => C!CountsAreTold
    /\ focus = "alerts" => A!QuietMeansAlerted /\ A!AlertedOnce

(* Each stored warning was announced, is under way or was reported.        *)
WarningsAccounted == focus = "member" => M!WarningsAccounted

(* Who asks gets the answer to what was asked, and not an older one; no    *)
(* inspection waits beside a client that is idle.                          *)
AnswersAreOwn ==
    /\ focus = "inspector" => I!ReportsAreOwn /\ I!NobodyWaitsIdly
    /\ focus = "http" => H!AnswersAreCurrent

(* The circuit of a source is open when it fails, and that was told.       *)
OutagesAreTold == focus = "breaker" => B!OpenMeansFailing /\ B!OutageIsTold

(* A start changes its own subscription only.                              *)
StartsKeepToThemselves == N!StartsKeepToThemselves
=============================================================================
