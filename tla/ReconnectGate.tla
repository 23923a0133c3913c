--------------------------- MODULE ReconnectGate ---------------------------
(***************************************************************************)
(* The two limits a connecting device has to pass before its registration  *)
(* is worked on: the flap limiter, by the device's identity, and then, with *)
(* a valid token, the reconnect throttle.  On the other side one paired     *)
(* player, which tries again a fixed delay after it was turned away.        *)
(*                                                                          *)
(* Time is a number of ticks.  Every time stamp of the code is kept as how  *)
(* long ago it was, or how long it is still to come, as far as the code can *)
(* tell the difference; the clock itself is left out.                       *)
(*                                                                          *)
(* Code: lib/flap-limiter.js, lib/reconnect-throttle.js, ws/deviceSocket.js,*)
(* services/loop-lag.js, WebSocketService.kt.                               *)
(***************************************************************************)
EXTENDS Integers, FiniteSetsExt

CONSTANTS
    FlapOn,                         \* flapLimiterEnabled
    FlapWindow, FlapMax, Cooldown,  \* connectRateWindowMs, -Max, -CooldownMs
    Trips, Quarantine, FlapIdle,    \* connectRateQuarantineTrips, -QuarantineMs, -IdleMs
    Window, BaseMax, HardCeiling,   \* reconnectWindowMs, -BaseMax, -HardCeiling
    MaxBackoff, MaxLevel,           \* reconnectMaxBackoffMs, -MaxLevel; the base is one tick
    Release, IdleReset, Warmup,     \* reconnectReleaseMs, -IdleResetMs, -WarmupMs
    Multipliers,                    \* of the load bands, normal being 1
    Retry,                          \* RECONNECT_AFTER_EVICT_MS
    MaxDisturbances                 \* bound: drops, restarts, attempts without the token

ASSUME GateAssumption ==
    /\ FlapOn \in BOOLEAN
    /\ {FlapWindow, Cooldown, FlapIdle, Window, MaxBackoff, MaxLevel, Release, IdleReset}
         \subseteq Nat \ {0}
    /\ {FlapMax, Trips, Quarantine, BaseMax, HardCeiling, Warmup} \subseteq Nat
    /\ {Retry, MaxDisturbances} \subseteq Nat /\ Multipliers \subseteq Nat
    /\ 1 \in Multipliers /\ Window < IdleReset

VARIABLES
    flap,      \* the flap limiter's bucket of the identity
    throttle,  \* the throttle's bucket of the device
    warm,      \* how long the warm-up still lasts
    wait,      \* the player: how long until it tries, or Online
    admitted,  \* history: how many were let in, by how long ago
    disturbances

vars == <<flap, throttle, warm, wait, admitted, disturbances>>
Online == -1

Ages(n) == [0 .. n - 1 -> Nat]
None(n) == [a \in 0 .. n - 1 |-> 0]
\* The hits one by one, those of an age numbered from 1.
Each(f) == UNION {{a} \X (1 .. f[a]) : a \in DOMAIN f}
Total(f) == Cardinality(Each(f))
Hit(f) == [f EXCEPT ![0] = @ + 1]
Older(f) == [a \in DOMAIN f |-> IF a = 0 THEN 0 ELSE f[a - 1]]

\* `since` is the age of tripWinStart, `seen` the age of lastSeen.
NewFlap == [hits |-> None(FlapWindow), blocked |-> 0, trips |-> 0, since |-> 0,
            quarantined |-> 0, seen |-> 0]
\* `since` is the age of lastThrottleAt.
NewThrottle == [hits |-> None(Window), level |-> 0, blocked |-> 0, since |-> Release + 1, seen |-> 0]

TypeOK ==
    /\ flap \in [hits : Ages(FlapWindow), blocked : 0 .. Cooldown, trips : Nat,
                 since : 0 .. FlapWindow + 1, quarantined : 0 .. Quarantine, seen : 0 .. FlapIdle + 1]
    /\ Total(flap.hits) <= FlapMax
    /\ throttle \in [hits : Ages(Window), level : 0 .. MaxLevel, blocked : 0 .. MaxBackoff,
                     since : 0 .. Release + 1, seen : 0 .. IdleReset + 1]
    /\ throttle.blocked > 0 => throttle.level > 0
    /\ warm \in 0 .. Warmup /\ wait \in {Online} \cup 0 .. Retry
    /\ admitted \in Ages(Window) /\ disturbances \in 0 .. MaxDisturbances

Init ==
    /\ flap = NewFlap /\ throttle = NewThrottle /\ warm = Warmup
    /\ wait = 0 /\ admitted = None(Window) /\ disturbances = 0

-----------------------------------------------------------------------------
(* The flap limiter: flapLimiter.check.                                     *)

\* A paired device is let out of quarantine.
Released(paired) ==
    IF paired /\ flap.quarantined > 0
    THEN [flap EXCEPT !.quarantined = 0, !.trips = 0, !.seen = 0] ELSE [flap EXCEPT !.seen = 0]

\* The trip: the hits are forgotten, and for an unpaired device trips in one window add
\* up to a quarantine.
Tripped(b, paired) ==
    LET stale == b.since > FlapWindow
        trips == (IF stale THEN 0 ELSE b.trips) + 1
    IN  [b EXCEPT !.hits = None(FlapWindow), !.blocked = Cooldown, !.trips = trips,
                  !.since = IF stale THEN 0 ELSE @,
                  !.quarantined = IF ~paired /\ Trips > 0 /\ trips >= Trips THEN Quarantine ELSE @]

\* A faulty FlapCheck whose cooldown starts again with every attempt it turns away.
FlapCheckRenewing(paired) ==
    LET b == Released(paired) IN
    IF b.quarantined > 0 THEN [pass |-> FALSE, next |-> b]
    ELSE IF b.blocked > 0 THEN [pass |-> FALSE, next |-> [b EXCEPT !.blocked = Cooldown]]
    ELSE IF Total(b.hits) + 1 > FlapMax THEN [pass |-> FALSE, next |-> Tripped(b, paired)]
    ELSE [pass |-> TRUE, next |-> [b EXCEPT !.hits = Hit(@)]]

FlapCheck(paired) ==
    LET b == Released(paired) IN
    IF ~FlapOn THEN [pass |-> TRUE, next |-> flap]
    ELSE IF b.quarantined > 0 \/ b.blocked > 0 THEN [pass |-> FALSE, next |-> b]
    ELSE IF Total(b.hits) + 1 > FlapMax THEN [pass |-> FALSE, next |-> Tripped(b, paired)]
    ELSE [pass |-> TRUE, next |-> [b EXCEPT !.hits = Hit(@)]]

-----------------------------------------------------------------------------
(* The reconnect throttle: reconnectThrottle.check.                         *)

\* A faulty Rejected that forgets the attempts so far.
RejectedForgetting(b, mult) ==
    LET level == Min({b.level + 1, MaxLevel}) IN
    [pass |-> FALSE,
     next |-> [b EXCEPT !.level = level, !.since = 0, !.hits = None(Window),
                        !.blocked = Min({2 ^ (level - 1) * mult, MaxBackoff})]]

\* A faulty Rejected that escalates without end.
RejectedEndless(b, mult) ==
    LET level == b.level + 1 IN
    [pass |-> FALSE,
     next |-> [b EXCEPT !.level = level, !.since = 0,
                        !.blocked = Min({2 ^ (level - 1) * mult, MaxBackoff})]]

\* The level goes up, and the backoff starts again at the length of the new level.
Rejected(b, mult) ==
    LET level == Min({b.level + 1, MaxLevel}) IN
    [pass |-> FALSE,
     next |-> [b EXCEPT !.level = level, !.since = 0,
                        !.blocked = Min({2 ^ (level - 1) * mult, MaxBackoff})]]

\* After calm for `Release` the level goes down by one.
Allowed(b) ==
    [pass |-> TRUE,
     next |-> IF b.level > 0 /\ b.since > Release
              THEN [b EXCEPT !.level = @ - 1, !.since = 0] ELSE b]

\* A bucket that was idle for long starts afresh; the sweep that deletes it changes no more.
Bucket ==
    IF throttle.seen > IdleReset THEN NewThrottle ELSE [throttle EXCEPT !.seen = 0]

\* A faulty ThrottleCheck under which a loaded server lowers everyone's threshold.
ThrottleCheckLoaded(mult) ==
    LET b == [Bucket EXCEPT !.hits = Hit(@)]  observed == Total(b.hits) IN
    IF Bucket.blocked > 0 THEN Rejected(Bucket, mult)
    ELSE IF observed > HardCeiling THEN Rejected(b, mult)
    ELSE IF warm > 0 \/ observed * mult <= BaseMax THEN Allowed(b)
    ELSE Rejected(b, mult)

ThrottleCheck(mult) ==
    LET b == [Bucket EXCEPT !.hits = Hit(@)]  observed == Total(b.hits) IN
    IF Bucket.blocked > 0 THEN Rejected(Bucket, mult)
    ELSE IF observed > HardCeiling THEN Rejected(b, mult)
    ELSE IF warm > 0 \/ observed <= BaseMax THEN Allowed(b)
    ELSE Rejected(b, mult)

-----------------------------------------------------------------------------
(* The player and the server.                                               *)

\* During the warm-up the band counts as normal.
Band(mult) == mult \in Multipliers /\ (warm > 0 => mult = 1)

\* The player connects and registers.  What it is told when it is turned away it does not
\* look at: the server disconnects it, and it opens the next connection after its delay.
Attempt(mult) ==
    LET f == FlapCheck(TRUE)  t == ThrottleCheck(mult) IN
    /\ wait = 0 /\ Band(mult)
    /\ flap' = f.next
    /\ throttle' = IF f.pass THEN t.next ELSE throttle
    /\ wait' = IF f.pass /\ t.pass THEN Online ELSE Retry
    /\ admitted' = IF f.pass /\ t.pass THEN Hit(admitted) ELSE admitted
    /\ UNCHANGED <<warm, disturbances>>

Disturb == disturbances < MaxDisturbances /\ disturbances' = disturbances + 1

\* A connection for the same device without its token goes no further than the flap limiter.
Stranger ==
    /\ Disturb
    /\ flap' = FlapCheck(FALSE).next
    /\ UNCHANGED <<throttle, warm, wait, admitted>>

\* The connection breaks; the player connects again at once.
Drop ==
    /\ wait = Online /\ wait' = 0
    /\ Disturb
    /\ UNCHANGED <<flap, throttle, warm, admitted>>

\* Both limits are in memory.
Restart ==
    /\ Disturb
    /\ flap' = NewFlap /\ throttle' = NewThrottle /\ warm' = Warmup
    /\ wait' = IF wait = Online THEN 0 ELSE wait
    /\ admitted' = None(Window)

Down(n) == IF n > 0 THEN n - 1 ELSE n
Up(n, top) == Min({n + 1, top})

\* The player's timer is punctual: no time passes while a connection is due.
Tick ==
    /\ wait # 0
    /\ flap' = [flap EXCEPT !.hits = Older(@), !.blocked = Down(@), !.quarantined = Down(@),
                            !.since = Up(@, FlapWindow + 1), !.seen = Up(@, FlapIdle + 1)]
    /\ throttle' = [throttle EXCEPT !.hits = Older(@), !.blocked = Down(@),
                                    !.since = Up(@, Release + 1), !.seen = Up(@, IdleReset + 1)]
    /\ warm' = Down(warm) /\ wait' = Down(wait)
    /\ admitted' = Older(admitted)
    /\ UNCHANGED disturbances

\* The sweep of the flap limiter: a quarantine that lasts longer goes with the bucket.
Sweep ==
    /\ flap.seen > FlapIdle
    /\ flap' = NewFlap /\ flap' # flap
    /\ UNCHANGED <<throttle, warm, wait, admitted, disturbances>>

Next ==
    \/ \E mult \in Multipliers : Attempt(mult)
    \/ Stranger \/ Drop \/ Restart \/ Tick \/ Sweep

Spec == Init /\ [][Next]_vars

\* Time passes, and the player's timer fires.
FairSpec == Spec /\ WF_vars(Tick) /\ WF_vars(\E mult \in Multipliers : Attempt(mult))

-----------------------------------------------------------------------------
(* Properties.                                                              *)

\* "Absolute per-device ceiling, independent of band AND of warm-up" (config.js): between
\* two restarts no window sees more than HardCeiling registrations.
CeilingKept == Total(admitted) <= HardCeiling

\* "Global lag never flags a healthy device", and "never rate-throttle during warm-up": whatever
\* the load band, a device to which no level applies (any more) gets one only by more attempts
\* of its own within the window than it is allowed, and in the warm-up than the ceiling.
HealthyNeverFlagged ==
    [][Bucket.level = 0 /\ Bucket'.level > 0 =>
         LET observed == Total(throttle'.hits)
         IN  observed > HardCeiling \/ (warm = 0 /\ observed > BaseMax)]_vars

\* A player that does no more than to try again after its delay gets in, whatever storm
\* came before: the cooldown of the flap limiter, whose refusals never reach the throttle,
\* lasts long enough for the throttle's backoff to run out.
EventuallyAdmitted == wait # Online ~> wait = Online
=============================================================================
