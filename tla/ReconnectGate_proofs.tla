------------------------ MODULE ReconnectGate_proofs ------------------------
(***************************************************************************)
(* The bounds of the two limits, the ceiling on registrations, and who gets *)
(* flagged, for any windows, levels, loads and numbers of disturbances.     *)
(*                                                                          *)
(* The windows are counted by their hits one by one (Each): a hit is one    *)
(* element more, time is an injection into the hits there were, and a       *)
(* window with fewer hits at every age is a subset.  The ceiling follows    *)
(* because everyone let in is still among the throttle's hits (Counted),    *)
(* which the code forgets only when the bucket has been idle for longer     *)
(* than the window.                                                         *)
(***************************************************************************)
EXTENDS ReconnectGate, FiniteSetTheorems, TLAPS

-----------------------------------------------------------------------------
(* Numbers and windows.                                                     *)

\* The only thing `Min` is used for here.
LEMMA MinOfTwo ==
  ASSUME NEW a \in Int, NEW b \in Int
  PROVE  Min({a, b}) = IF a <= b THEN a ELSE b
<1>1. \E x \in {a, b} : \A y \in {a, b} : x <= y
  OBVIOUS
<1>2. Min({a, b}) \in {a, b} /\ \A y \in {a, b} : Min({a, b}) <= y
  BY <1>1 DEF Min
<1>. QED
  BY <1>2

\* A power of two is the number of subsets of an interval.
LEMMA PowerIsNat ==
  ASSUME NEW n \in Nat
  PROVE  2 ^ n \in Nat
<1>1. IsFiniteSet(1 .. n) /\ Cardinality(1 .. n) = n
  BY FS_Interval
<1>2. IsFiniteSet(SUBSET (1 .. n)) /\ Cardinality(SUBSET (1 .. n)) = 2 ^ n
  BY <1>1, FS_SUBSET
<1>. QED
  BY <1>2, FS_CardinalityType

LEMMA EachIs ==
  ASSUME NEW n \in Nat, NEW f \in Ages(n), NEW p
  PROVE  p \in Each(f) <=> p \in (0 .. n - 1) \X Nat /\ p[2] \in 1 .. f[p[1]]
BY DEF Each, Ages

LEMMA EachIsFinite ==
  ASSUME NEW n \in Nat, NEW f \in Ages(n)
  PROVE  IsFiniteSet(Each(f)) /\ Total(f) \in Nat
<1>. DEFINE Of(a) == {a} \X (1 .. f[a])
            S == {Of(a) : a \in 0 .. n - 1}
            g == [a \in 0 .. n - 1 |-> Of(a)]
<1>1. DOMAIN f = 0 .. n - 1 /\ \A a \in 0 .. n - 1 : f[a] \in Nat
  BY DEF Ages
<1>2. IsFiniteSet(S)
  <2>1. IsFiniteSet(0 .. n - 1)
    BY FS_Interval
  <2>2. g \in Surjection(0 .. n - 1, S)
    BY DEF Surjection
  <2>. QED
    BY <2>1, <2>2, FS_Surjection
<1>3. ASSUME NEW T \in S PROVE IsFiniteSet(T)
  <2>1. PICK a \in 0 .. n - 1 : T = Of(a)
    OBVIOUS
  <2>2. IsFiniteSet({a}) /\ IsFiniteSet(1 .. f[a])
    <3>1. 1 \in Int /\ f[a] \in Int
      BY <1>1
    <3>. QED
      BY <3>1, FS_Singleton, FS_Interval
  <2>. QED
    BY <2>1, <2>2, FS_Product
<1>4. IsFiniteSet(UNION S)
  BY <1>2, <1>3, FS_UNION
<1>5. Each(f) = UNION S
  BY <1>1 DEF Each
<1>. QED
  BY <1>4, <1>5, FS_CardinalityType DEF Total

LEMMA NoneIsNone ==
  ASSUME NEW n \in Nat
  PROVE  None(n) \in Ages(n) /\ Total(None(n)) = 0
<1>1. None(n) \in Ages(n)
  BY DEF None, Ages
<1>2. Each(None(n)) = {}
  BY <1>1, EachIs DEF None
<1>. QED
  BY <1>1, <1>2, FS_EmptySet DEF Total

LEMMA HitIsOneMore ==
  ASSUME NEW n \in Nat \ {0}, NEW f \in Ages(n)
  PROVE  Hit(f) \in Ages(n) /\ Total(Hit(f)) = Total(f) + 1
<1>. DEFINE new == <<0, f[0] + 1>>
<1>0. DOMAIN f = 0 .. n - 1 /\ 0 \in 0 .. n - 1 /\ \A a \in 0 .. n - 1 : f[a] \in Nat
  BY DEF Ages
<1>1. Hit(f) \in Ages(n)
  BY <1>0 DEF Ages, Hit
<1>2. /\ Hit(f)[0] = f[0] + 1
      /\ \A a \in 0 .. n - 1 : a # 0 => Hit(f)[a] = f[a]
  BY <1>0 DEF Hit
<1>3. Each(Hit(f)) = Each(f) \cup {new}
  <2>1. ASSUME NEW p PROVE p \in Each(Hit(f)) <=> p \in Each(f) \cup {new}
    <3>1. p \in Each(Hit(f)) <=> p \in (0 .. n - 1) \X Nat /\ p[2] \in 1 .. Hit(f)[p[1]]
      BY <1>1, EachIs
    <3>2. p \in Each(f) <=> p \in (0 .. n - 1) \X Nat /\ p[2] \in 1 .. f[p[1]]
      BY EachIs
    <3>3. CASE p \in (0 .. n - 1) \X Nat /\ p[1] = 0
      BY <1>0, <1>2, <3>1, <3>2, <3>3
    <3>4. CASE p \in (0 .. n - 1) \X Nat /\ p[1] # 0
      BY <1>0, <1>2, <3>1, <3>2, <3>4
    <3>5. CASE p \notin (0 .. n - 1) \X Nat
      BY <1>0, <3>1, <3>2, <3>5
    <3>. QED
      BY <3>3, <3>4, <3>5
  <2>. QED
    BY <2>1
<1>4. new \notin Each(f)
  BY <1>0, EachIs
<1>. QED
  BY <1>1, <1>3, <1>4, EachIsFinite, FS_AddElement DEF Total

LEMMA FewerIsLess ==
  ASSUME NEW n \in Nat, NEW f \in Ages(n), NEW g \in Ages(n),
         \A a \in 0 .. n - 1 : f[a] <= g[a]
  PROVE  Total(f) <= Total(g)
<1>1. \A a \in 0 .. n - 1 : f[a] \in Nat /\ g[a] \in Nat
  BY DEF Ages
<1>2. ASSUME NEW p \in Each(f) PROVE p \in Each(g)
  BY <1>1, EachIs
<1>. QED
  BY <1>2, EachIsFinite, FS_Subset DEF Total

\* What is left of a window a tick later was in it before, one age younger.
LEMMA OlderIsNoMore ==
  ASSUME NEW n \in Nat, NEW f \in Ages(n)
  PROVE  Older(f) \in Ages(n) /\ Total(Older(f)) <= Total(f)
<1>. DEFINE back == [p \in Each(Older(f)) |-> <<p[1] - 1, p[2]>>]
<1>0. DOMAIN f = 0 .. n - 1 /\ \A a \in 0 .. n - 1 : f[a] \in Nat
  BY DEF Ages
<1>1. Older(f) \in Ages(n)
  BY <1>0 DEF Ages, Older
<1>2. ASSUME NEW p \in Each(Older(f))
      PROVE  p = <<p[1], p[2]>> /\ p[1] \in 1 .. n - 1 /\ <<p[1] - 1, p[2]>> \in Each(f)
  <2>1. p \in (0 .. n - 1) \X Nat /\ p[2] \in 1 .. Older(f)[p[1]]
    BY <1>1, EachIs
  <2>2. p[1] # 0 /\ Older(f)[p[1]] = f[p[1] - 1]
    BY <1>0, <2>1 DEF Older
  <2>3. <<p[1] - 1, p[2]>> \in (0 .. n - 1) \X Nat
    BY <2>1, <2>2
  <2>. QED
    BY <2>1, <2>2, <2>3, EachIs
<1>3. back \in Injection(Each(Older(f)), Each(f))
  <2>1. back \in [Each(Older(f)) -> Each(f)]
    BY <1>2
  <2>2. ASSUME NEW p \in Each(Older(f)), NEW q \in Each(Older(f)), back[p] = back[q]
        PROVE  p = q
    <3>1. p[1] - 1 = q[1] - 1 /\ p[2] = q[2]
      BY <2>2
    <3>2. p = <<p[1], p[2]>> /\ p[1] \in 1 .. n - 1 /\ q = <<q[1], q[2]>> /\ q[1] \in 1 .. n - 1
      BY <1>2, Zenon
    <3>3. p[1] = q[1] /\ p[2] = q[2]
      BY <3>1, <3>2
    <3>. QED
      BY <3>2, <3>3, Zenon
  <2>. QED
    BY <2>1, <2>2 DEF Injection, IsInjective
<1>. QED
  BY <1>1, <1>3, EachIsFinite, FS_Injection DEF Total

-----------------------------------------------------------------------------
(* Types.                                                                   *)

FlapType == [hits : Ages(FlapWindow), blocked : 0 .. Cooldown, trips : Nat,
             since : 0 .. FlapWindow + 1, quarantined : 0 .. Quarantine, seen : 0 .. FlapIdle + 1]
FlapOK(b) == b \in FlapType /\ Total(b.hits) <= FlapMax

ThrottleType == [hits : Ages(Window), level : 0 .. MaxLevel, blocked : 0 .. MaxBackoff,
                 since : 0 .. Release + 1, seen : 0 .. IdleReset + 1]
ThrottleOK(b) == b \in ThrottleType /\ (b.blocked > 0 => b.level > 0)

RestOK ==
  /\ warm \in 0 .. Warmup /\ wait \in {Online} \cup 0 .. Retry
  /\ admitted \in Ages(Window) /\ disturbances \in 0 .. MaxDisturbances

LEMMA TypeIs == TypeOK <=> FlapOK(flap) /\ ThrottleOK(throttle) /\ RestOK
BY DEF TypeOK, FlapOK, FlapType, ThrottleOK, ThrottleType, RestOK

LEMMA Sizes ==
  /\ FlapWindow \in Nat \ {0} /\ Cooldown \in Nat \ {0} /\ FlapIdle \in Nat \ {0}
  /\ Window \in Nat \ {0} /\ MaxBackoff \in Nat \ {0} /\ MaxLevel \in Nat \ {0}
  /\ Release \in Nat \ {0} /\ IdleReset \in Nat \ {0}
  /\ FlapMax \in Nat /\ Quarantine \in Nat /\ HardCeiling \in Nat /\ Warmup \in Nat
  /\ BaseMax \in Nat /\ Trips \in Nat
  /\ Retry \in Nat /\ MaxDisturbances \in Nat /\ Multipliers \subseteq Nat /\ Window < IdleReset
BY GateAssumption

LEMMA NewIsOK == FlapOK(NewFlap) /\ ThrottleOK(NewThrottle)
<1>1. FlapOK(NewFlap)
  BY Sizes, NoneIsNone DEF FlapOK, FlapType, NewFlap
<1>2. ThrottleOK(NewThrottle)
  BY Sizes, NoneIsNone DEF ThrottleOK, ThrottleType, NewThrottle
<1>. QED
  BY <1>1, <1>2

LEMMA FlapCheckKeeps ==
  ASSUME FlapOK(flap), NEW paired \in BOOLEAN
  PROVE  FlapOK(FlapCheck(paired).next)
<1>. DEFINE b == Released(paired)
<1>1. FlapOK(b)
  <2>1. CASE paired /\ flap.quarantined > 0
    <3>1. b = [flap EXCEPT !.quarantined = 0, !.trips = 0, !.seen = 0]
      BY <2>1 DEF Released
    <3>2. PICK h \in Ages(FlapWindow), bl \in 0 .. Cooldown, tr \in Nat, si \in 0 .. FlapWindow + 1,
               q \in 0 .. Quarantine, se \in 0 .. FlapIdle + 1 :
            flap = [hits |-> h, blocked |-> bl, trips |-> tr, since |-> si,
                    quarantined |-> q, seen |-> se]
      BY DEF FlapOK, FlapType
    <3>3. b = [hits |-> h, blocked |-> bl, trips |-> 0, since |-> si, quarantined |-> 0, seen |-> 0]
      BY <3>1, <3>2
    <3>4. b \in FlapType /\ b.hits = h
      BY <3>3, Sizes DEF FlapType
    <3>. QED
      BY <3>2, <3>4 DEF FlapOK
  <2>2. CASE ~(paired /\ flap.quarantined > 0)
    <3>1. b = [flap EXCEPT !.seen = 0]
      BY <2>2 DEF Released
    <3>2. b \in FlapType /\ b.hits = flap.hits
      BY <3>1, Sizes DEF FlapOK, FlapType
    <3>. QED
      BY <3>2 DEF FlapOK
  <2>. QED
    BY <2>1, <2>2
<1>2. FlapOK(Tripped(b, paired))
  <2>1. None(FlapWindow) \in Ages(FlapWindow) /\ Total(None(FlapWindow)) = 0
    BY Sizes, NoneIsNone
  <2>2. Tripped(b, paired) \in FlapType /\ Tripped(b, paired).hits = None(FlapWindow)
    <3>. DEFINE stale == b.since > FlapWindow
                trips == (IF stale THEN 0 ELSE b.trips) + 1
                since == IF stale THEN 0 ELSE b.since
                long == IF ~paired /\ Trips > 0 /\ trips >= Trips
                        THEN Quarantine ELSE b.quarantined
    <3>. HIDE DEF b
    <3>1. trips \in Nat /\ since \in 0 .. FlapWindow + 1 /\ long \in 0 .. Quarantine
      BY <1>1, Sizes DEF FlapOK, FlapType
    <3>2. Tripped(b, paired) = [b EXCEPT !.hits = None(FlapWindow), !.blocked = Cooldown,
                                         !.trips = trips, !.since = since, !.quarantined = long]
      BY <1>1 DEF Tripped, FlapOK, FlapType
    <3>3. PICK se \in 0 .. FlapIdle + 1 : se = b.seen
      BY <1>1 DEF FlapOK, FlapType
    <3>4. Tripped(b, paired) = [hits |-> None(FlapWindow), blocked |-> Cooldown, trips |-> trips,
                                since |-> since, quarantined |-> long, seen |-> se]
      BY <1>1, <3>2, <3>3 DEF FlapOK, FlapType
    <3>. HIDE DEF stale, trips, since, long
    <3>. QED
      BY <2>1, <3>1, <3>4, Sizes DEF FlapType
  <2>. QED
    BY <2>1, <2>2, Sizes DEF FlapOK
<1>3. ASSUME ~(Total(b.hits) + 1 > FlapMax) PROVE FlapOK([b EXCEPT !.hits = Hit(@)])
  <2>1. b.hits \in Ages(FlapWindow)
    BY <1>1 DEF FlapOK, FlapType
  <2>2. Hit(b.hits) \in Ages(FlapWindow) /\ Total(Hit(b.hits)) = Total(b.hits) + 1
    BY <2>1, Sizes, HitIsOneMore
  <2>3. Total(b.hits) \in Nat
    BY <2>1, Sizes, EachIsFinite
  <2>. QED
    BY <1>1, <1>3, <2>2, <2>3, Sizes DEF FlapOK, FlapType
<1>. QED
  <2>. HIDE DEF b
  <2>1. FlapCheck(paired).next \in {flap, b, Tripped(b, paired)}
        \/ (~(Total(b.hits) + 1 > FlapMax) /\ FlapCheck(paired).next = [b EXCEPT !.hits = Hit(@)])
    BY DEF FlapCheck, b
  <2>. QED
    BY <1>1, <1>2, <1>3, <2>1

LEMMA RejectedIsOK ==
  ASSUME NEW b, ThrottleOK(b), NEW mult \in Multipliers
  PROVE  /\ ThrottleOK(Rejected(b, mult).next)
         /\ Rejected(b, mult).next.hits = b.hits /\ Rejected(b, mult).next.seen = b.seen
         /\ ~Rejected(b, mult).pass
<1>. DEFINE level == Min({b.level + 1, MaxLevel})
            blocked == Min({2 ^ (level - 1) * mult, MaxBackoff})
<1>1. b \in ThrottleType /\ b.level \in 0 .. MaxLevel
  BY DEF ThrottleOK, ThrottleType
<1>2. level \in 1 .. MaxLevel
  BY <1>1, Sizes, MinOfTwo
<1>3. blocked \in 0 .. MaxBackoff
  <2>. HIDE DEF level
  <2>1. 2 ^ (level - 1) \in Nat
    <3>1. level - 1 \in Nat
      BY <1>2, Sizes
    <3>. QED
      BY <3>1, PowerIsNat
  <2>. DEFINE p == 2 ^ (level - 1)
  <2>2. p \in Nat /\ mult \in Nat
    BY <2>1, Sizes
  <2>. HIDE DEF p
  <2>3. p * mult \in Nat
    BY <2>2
  <2>4. MaxBackoff \in Nat
    BY Sizes
  <2>. DEFINE q == p * mult
  <2>. HIDE DEF q
  <2>5. q \in Nat
    BY <2>3 DEF q
  <2>6. Min({q, MaxBackoff}) \in 0 .. MaxBackoff
    BY <2>4, <2>5, MinOfTwo
  <2>. QED
    BY <2>6 DEF q, p
<1>4. Rejected(b, mult) = [pass |-> FALSE, next |-> [b EXCEPT !.level = level, !.since = 0,
                                                              !.blocked = blocked]]
  BY DEF Rejected
<1>. HIDE DEF level, blocked
<1>5. PICK h \in Ages(Window), l \in 0 .. MaxLevel, bl \in 0 .. MaxBackoff,
           si \in 0 .. Release + 1, se \in 0 .. IdleReset + 1 :
        b = [hits |-> h, level |-> l, blocked |-> bl, since |-> si, seen |-> se]
  BY <1>1 DEF ThrottleType
<1>6. /\ Rejected(b, mult).next = [hits |-> h, level |-> level, blocked |-> blocked, since |-> 0,
                                   seen |-> se]
      /\ ~Rejected(b, mult).pass
  <2>1. PICK c : c = [b EXCEPT !.level = level, !.since = 0, !.blocked = blocked]
    OBVIOUS
  <2>2. c = [hits |-> h, level |-> level, blocked |-> blocked, since |-> 0, seen |-> se]
    BY <1>5, <2>1
  <2>3. Rejected(b, mult) = [pass |-> FALSE, next |-> c]
    BY <1>4, <2>1, Zenon
  <2>. QED
    BY <2>2, <2>3
<1>7. Rejected(b, mult).next \in ThrottleType
  BY <1>2, <1>3, <1>6, Sizes DEF ThrottleType
<1>. QED
  BY <1>2, <1>5, <1>6, <1>7, Sizes DEF ThrottleOK

LEMMA AllowedIsOK ==
  ASSUME NEW b, ThrottleOK(b), b.blocked = 0
  PROVE  /\ ThrottleOK(Allowed(b).next)
         /\ Allowed(b).next.hits = b.hits /\ Allowed(b).next.seen = b.seen
         /\ Allowed(b).pass
<1>1. b \in ThrottleType
  BY DEF ThrottleOK
<1>2. CASE b.level > 0 /\ b.since > Release
  <2>1. Allowed(b) = [pass |-> TRUE, next |-> [b EXCEPT !.level = @ - 1, !.since = 0]]
    BY <1>2 DEF Allowed
  <2>2. PICK h \in Ages(Window), l \in 0 .. MaxLevel, bl \in 0 .. MaxBackoff,
             si \in 0 .. Release + 1, se \in 0 .. IdleReset + 1 :
          b = [hits |-> h, level |-> l, blocked |-> bl, since |-> si, seen |-> se]
    BY <1>1 DEF ThrottleType
  <2>3. Allowed(b) = [pass |-> TRUE, next |-> [hits |-> h, level |-> l - 1, blocked |-> bl,
                                               since |-> 0, seen |-> se]]
    <3>1. PICK c : c = [b EXCEPT !.level = @ - 1, !.since = 0]
      OBVIOUS
    <3>2. c = [hits |-> h, level |-> l - 1, blocked |-> bl, since |-> 0, seen |-> se]
      BY <2>2, <3>1
    <3>. QED
      BY <2>1, <3>1, <3>2
  <2>4. l - 1 \in 0 .. MaxLevel /\ bl = 0
    BY <1>2, <2>2, Sizes
  <2>5. Allowed(b).next \in ThrottleType
    BY <2>3, <2>4, Sizes DEF ThrottleType
  <2>. QED
    BY <2>2, <2>3, <2>4, <2>5 DEF ThrottleOK
<1>3. CASE ~(b.level > 0 /\ b.since > Release)
  BY <1>3 DEF Allowed
<1>. QED
  BY <1>2, <1>3

LEMMA BucketIsOK ==
  ASSUME ThrottleOK(throttle)
  PROVE  /\ ThrottleOK(Bucket) /\ Bucket.seen = 0
         /\ Bucket.hits = IF throttle.seen > IdleReset THEN None(Window) ELSE throttle.hits
<1>1. CASE throttle.seen > IdleReset
  BY <1>1, NewIsOK DEF Bucket, NewThrottle
<1>2. CASE ~(throttle.seen > IdleReset)
  BY <1>2, Sizes DEF Bucket, ThrottleOK, ThrottleType
<1>. QED
  BY <1>1, <1>2

\* What the throttle answers: the attempt is turned away, or it is counted and the window
\* holds no more than the ceiling.
LEMMA ThrottleCheckIs ==
  ASSUME ThrottleOK(throttle), NEW mult \in Multipliers
  PROVE  LET t == ThrottleCheck(mult) IN
         /\ ThrottleOK(t.next) /\ t.next.seen = 0
         /\ t.next.hits \in {Bucket.hits, Hit(Bucket.hits)}
         /\ t.pass => t.next.hits = Hit(Bucket.hits) /\ Total(t.next.hits) <= HardCeiling
<1>. DEFINE b == [Bucket EXCEPT !.hits = Hit(@)]
<1>1. ThrottleOK(Bucket) /\ Bucket.seen = 0
  BY BucketIsOK
<1>2. b.hits = Hit(Bucket.hits) /\ b.seen = 0 /\ b.blocked = Bucket.blocked
  BY <1>1 DEF ThrottleOK, ThrottleType
<1>3. Hit(Bucket.hits) \in Ages(Window) /\ Total(Hit(Bucket.hits)) \in Nat
  <2>1. Bucket.hits \in Ages(Window)
    BY <1>1 DEF ThrottleOK, ThrottleType
  <2>2. Hit(Bucket.hits) \in Ages(Window)
    BY <2>1, Sizes, HitIsOneMore
  <2>. QED
    BY <2>2, Sizes, EachIsFinite
<1>4. ThrottleOK(b)
  BY <1>1, <1>3 DEF ThrottleOK, ThrottleType
<1>. HIDE DEF b
<1>5. CASE Bucket.blocked > 0
  <2>1. ThrottleCheck(mult) = Rejected(Bucket, mult)
    BY <1>5 DEF ThrottleCheck
  <2>. QED
    BY <1>1, <2>1, RejectedIsOK
<1>6. CASE ~(Bucket.blocked > 0)
  <2>0. b.blocked = 0
    BY <1>1, <1>2, <1>6, Sizes DEF ThrottleOK, ThrottleType
  <2>1. \/ ThrottleCheck(mult) = Rejected(b, mult)
        \/ ThrottleCheck(mult) = Allowed(b) /\ ~(Total(b.hits) > HardCeiling)
    BY <1>6 DEF ThrottleCheck, b
  <2>2. CASE ThrottleCheck(mult) = Rejected(b, mult)
    BY <1>2, <1>4, <2>2, RejectedIsOK
  <2>3. CASE ThrottleCheck(mult) = Allowed(b) /\ ~(Total(b.hits) > HardCeiling)
    <3>1. Total(b.hits) <= HardCeiling
      BY <1>2, <1>3, <2>3, Sizes
    <3>. QED
      BY <1>2, <1>4, <2>0, <2>3, <3>1, AllowedIsOK
  <2>. QED
    BY <2>1, <2>2, <2>3
<1>. QED
  BY <1>5, <1>6

-----------------------------------------------------------------------------
(* Type correctness.                                                        *)

LEMMA OlderFlapIsOK ==
  ASSUME FlapOK(flap)
  PROVE  FlapOK([flap EXCEPT !.hits = Older(@), !.blocked = Down(@), !.quarantined = Down(@),
                             !.since = Up(@, FlapWindow + 1), !.seen = Up(@, FlapIdle + 1)])
<1>1. PICK h \in Ages(FlapWindow), bl \in 0 .. Cooldown, tr \in Nat, si \in 0 .. FlapWindow + 1,
           q \in 0 .. Quarantine, se \in 0 .. FlapIdle + 1 :
        flap = [hits |-> h, blocked |-> bl, trips |-> tr, since |-> si,
                quarantined |-> q, seen |-> se]
  BY DEF FlapOK, FlapType
<1>2. PICK b : b = [flap EXCEPT !.hits = Older(@), !.blocked = Down(@), !.quarantined = Down(@),
                                !.since = Up(@, FlapWindow + 1), !.seen = Up(@, FlapIdle + 1)]
  OBVIOUS
<1>3. b = [hits |-> Older(h), blocked |-> Down(bl), trips |-> tr, since |-> Up(si, FlapWindow + 1),
           quarantined |-> Down(q), seen |-> Up(se, FlapIdle + 1)]
  BY <1>1, <1>2
<1>4. /\ Older(h) \in Ages(FlapWindow) /\ Total(Older(h)) <= Total(h)
      /\ Total(h) \in Nat /\ Total(Older(h)) \in Nat
  BY Sizes, OlderIsNoMore, EachIsFinite
<1>5. /\ Down(bl) \in 0 .. Cooldown /\ Down(q) \in 0 .. Quarantine
      /\ Up(si, FlapWindow + 1) \in 0 .. FlapWindow + 1 /\ Up(se, FlapIdle + 1) \in 0 .. FlapIdle + 1
  BY Sizes, MinOfTwo DEF Down, Up
<1>6. b \in FlapType
  BY <1>3, <1>4, <1>5 DEF FlapType
<1>7. Total(b.hits) <= FlapMax
  BY <1>1, <1>3, <1>4, Sizes DEF FlapOK
<1>. QED
  BY <1>2, <1>6, <1>7 DEF FlapOK

LEMMA OlderThrottleIsOK ==
  ASSUME ThrottleOK(throttle)
  PROVE  LET b == [throttle EXCEPT !.hits = Older(@), !.blocked = Down(@),
                                   !.since = Up(@, Release + 1), !.seen = Up(@, IdleReset + 1)]
         IN  ThrottleOK(b) /\ b.hits = Older(throttle.hits) /\ b.seen <= throttle.seen + 1
<1>1. PICK h \in Ages(Window), l \in 0 .. MaxLevel, bl \in 0 .. MaxBackoff,
           si \in 0 .. Release + 1, se \in 0 .. IdleReset + 1 :
        throttle = [hits |-> h, level |-> l, blocked |-> bl, since |-> si, seen |-> se]
  BY DEF ThrottleOK, ThrottleType
<1>2. PICK b : b = [throttle EXCEPT !.hits = Older(@), !.blocked = Down(@),
                                    !.since = Up(@, Release + 1), !.seen = Up(@, IdleReset + 1)]
  OBVIOUS
<1>3. b = [hits |-> Older(h), level |-> l, blocked |-> Down(bl), since |-> Up(si, Release + 1),
           seen |-> Up(se, IdleReset + 1)]
  BY <1>1, <1>2
<1>4. Older(h) \in Ages(Window)
  BY Sizes, OlderIsNoMore
<1>5. /\ Down(bl) \in 0 .. MaxBackoff /\ (Down(bl) > 0 => bl > 0)
      /\ Up(si, Release + 1) \in 0 .. Release + 1
      /\ Up(se, IdleReset + 1) \in 0 .. IdleReset + 1 /\ Up(se, IdleReset + 1) <= se + 1
  BY Sizes, MinOfTwo DEF Down, Up
<1>6. b \in ThrottleType
  BY <1>3, <1>4, <1>5 DEF ThrottleType
<1>7. /\ b.hits = Older(throttle.hits) /\ b.seen <= throttle.seen + 1
      /\ b.blocked > 0 => b.level > 0
  BY <1>1, <1>3, <1>5 DEF ThrottleOK
<1>. QED
  BY <1>2, <1>6, <1>7 DEF ThrottleOK

LEMMA TypeHolds == Init => TypeOK
<1>. SUFFICES ASSUME Init PROVE TypeOK
  OBVIOUS
<1>1. FlapOK(flap) /\ ThrottleOK(throttle)
  BY NewIsOK DEF Init
<1>2. RestOK
  BY Sizes, NoneIsNone DEF Init, RestOK
<1>. QED
  BY <1>1, <1>2, TypeIs

LEMMA TypeKeeps == TypeOK /\ [Next]_vars => TypeOK'
<1>. SUFFICES ASSUME TypeOK, [Next]_vars PROVE FlapOK(flap') /\ ThrottleOK(throttle') /\ RestOK'
  BY DEF TypeOK, FlapOK, FlapType, ThrottleOK, ThrottleType, RestOK
<1>0. FlapOK(flap) /\ ThrottleOK(throttle) /\ RestOK
  BY TypeIs
<1>1. ASSUME NEW mult \in Multipliers, Attempt(mult)
      PROVE  FlapOK(flap') /\ ThrottleOK(throttle') /\ RestOK'
  <2>1. FlapOK(flap')
    BY <1>0, <1>1, FlapCheckKeeps DEF Attempt
  <2>2. ThrottleOK(throttle')
    BY <1>0, <1>1, ThrottleCheckIs DEF Attempt
  <2>3. admitted' \in Ages(Window)
    <3>1. Hit(admitted) \in Ages(Window)
      BY <1>0, Sizes, HitIsOneMore DEF RestOK
    <3>. QED
      BY <1>0, <1>1, <3>1 DEF Attempt, RestOK
  <2>4. wait' \in {Online} \cup 0 .. Retry /\ warm' = warm /\ disturbances' = disturbances
    <3>1. wait' \in {Online, Retry}
      BY <1>1, Zenon DEF Attempt
    <3>2. warm' = warm /\ disturbances' = disturbances
      BY <1>1 DEF Attempt
    <3>. QED
      BY <3>1, <3>2, Sizes
  <2>. QED
    BY <1>0, <2>1, <2>2, <2>3, <2>4 DEF RestOK
<1>2. CASE Stranger
  <2>1. FlapOK(flap')
    BY <1>0, <1>2, FlapCheckKeeps DEF Stranger
  <2>. QED
    <3>1. /\ throttle' = throttle /\ warm' = warm /\ wait' = wait /\ admitted' = admitted
          /\ disturbances < MaxDisturbances /\ disturbances' = disturbances + 1
      BY <1>2 DEF Stranger, Disturb
    <3>. QED
      BY <1>0, <2>1, <3>1, Sizes DEF RestOK
<1>3. CASE Drop
  BY <1>0, <1>3, Sizes DEF Drop, Disturb, RestOK
<1>4. CASE Restart
  BY <1>0, <1>4, Sizes, NewIsOK, NoneIsNone DEF Restart, Disturb, RestOK
<1>5. CASE Tick
  <2>1. FlapOK(flap') /\ ThrottleOK(throttle')
    BY <1>0, <1>5, OlderFlapIsOK, OlderThrottleIsOK DEF Tick
  <2>2. admitted' \in Ages(Window)
    BY <1>0, <1>5, Sizes, OlderIsNoMore DEF Tick, RestOK
  <2>. QED
    BY <1>0, <1>5, <2>1, <2>2, Sizes DEF Tick, RestOK, Down, Online
<1>6. CASE Sweep
  BY <1>0, <1>6, NewIsOK DEF Sweep, RestOK
<1>7. CASE UNCHANGED vars
  BY <1>0, <1>7 DEF vars, RestOK
<1>. QED
  BY <1>1, <1>2, <1>3, <1>4, <1>5, <1>6, <1>7 DEF Next

\* The buckets of both limits stay within their bounds through any load, drop, restart and
\* sweep: the flap limiter never holds more hits than it lets through in a window, the
\* level and the backoff of the throttle end at their caps, and a backoff runs only at a
\* level (lib/flap-limiter.js, lib/reconnect-throttle.js).
THEOREM TypeIsOK == Spec => []TypeOK
BY TypeHolds, TypeKeeps, PTL DEF Spec

-----------------------------------------------------------------------------
(* The ceiling.                                                             *)

\* Everyone let in within the window is among the throttle's hits, and as long as there is
\* one the bucket has been seen too lately to start afresh.
Counted ==
  \A a \in 0 .. Window - 1 :
    /\ admitted[a] <= throttle.hits[a]
    /\ admitted[a] > 0 => throttle.seen <= a
CeilingInv == Counted /\ CeilingKept

LEMMA CeilingHolds == Init => CeilingInv
<1>. SUFFICES ASSUME Init PROVE CeilingInv
  OBVIOUS
<1>1. admitted = None(Window) /\ throttle.hits = None(Window)
  BY DEF Init, NewThrottle
<1>2. Counted
  BY <1>1, Sizes DEF Counted, None
<1>3. CeilingKept
  BY <1>1, Sizes, NoneIsNone DEF CeilingKept
<1>. QED
  BY <1>2, <1>3 DEF CeilingInv

LEMMA BucketCounts ==
  ASSUME TypeOK, Counted, NEW a \in 0 .. Window - 1
  PROVE  admitted[a] <= Bucket.hits[a]
<1>1. ThrottleOK(throttle) /\ admitted \in Ages(Window)
  BY TypeIs DEF RestOK
<1>2. throttle.seen \in Nat /\ admitted[a] \in Nat
  BY <1>1, Sizes DEF ThrottleOK, ThrottleType, Ages
<1>3. CASE throttle.seen > IdleReset
  <2>1. ~(admitted[a] > 0)
    BY <1>2, <1>3, Sizes DEF Counted
  <2>2. Bucket.hits[a] = 0
    BY <1>1, <1>3, BucketIsOK DEF None
  <2>. QED
    BY <1>2, <2>1, <2>2
<1>4. CASE ~(throttle.seen > IdleReset)
  BY <1>1, <1>4, BucketIsOK DEF Counted
<1>. QED
  BY <1>3, <1>4

LEMMA CeilingKeeps == TypeOK /\ TypeOK' /\ CeilingInv /\ [Next]_vars => CeilingInv'
<1>. SUFFICES ASSUME TypeOK, TypeOK', CeilingInv, [Next]_vars PROVE Counted' /\ CeilingKept'
  BY DEF CeilingInv
<1>0. Counted /\ CeilingKept
  BY DEF CeilingInv
<1>a. /\ FlapOK(flap) /\ ThrottleOK(throttle) /\ RestOK
      /\ throttle.hits \in Ages(Window) /\ admitted \in Ages(Window) /\ throttle.seen \in Nat
  <2>1. FlapOK(flap) /\ ThrottleOK(throttle) /\ RestOK
    BY TypeIs
  <2>. QED
    BY <2>1, Sizes DEF ThrottleOK, ThrottleType, RestOK
<1>b. /\ throttle'.hits \in Ages(Window) /\ admitted' \in Ages(Window)
  BY Sizes DEF TypeOK
<1>1. ASSUME NEW mult \in Multipliers, Attempt(mult) PROVE Counted' /\ CeilingKept'
  <2>. DEFINE f == FlapCheck(TRUE)
              t == ThrottleCheck(mult)
  <2>0. /\ throttle' = IF f.pass THEN t.next ELSE throttle
        /\ admitted' = IF f.pass /\ t.pass THEN Hit(admitted) ELSE admitted
    BY <1>1 DEF Attempt
  <2>1. /\ t.next.seen = 0 /\ t.next.hits \in {Bucket.hits, Hit(Bucket.hits)}
        /\ t.pass => t.next.hits = Hit(Bucket.hits) /\ Total(t.next.hits) <= HardCeiling
    BY <1>a, ThrottleCheckIs
  <2>. HIDE DEF f, t
  <2>2. Bucket.hits \in Ages(Window)
    BY <1>a, BucketIsOK DEF ThrottleOK, ThrottleType
  <2>3. \A a \in 0 .. Window - 1 : admitted[a] <= Bucket.hits[a]
    BY <1>0, BucketCounts
  <2>4. CASE ~f.pass
    BY <1>0, <2>0, <2>4 DEF Counted, CeilingKept
  <2>5. CASE f.pass /\ ~t.pass
    <3>1. throttle' = t.next /\ admitted' = admitted
      BY <2>0, <2>5
    <3>2. \A a \in 0 .. Window - 1 : Bucket.hits[a] <= Hit(Bucket.hits)[a] /\ Bucket.hits[a] \in Nat
      BY <2>2, Sizes DEF Ages, Hit
    <3>3. \A a \in 0 .. Window - 1 : t.next.hits[a] \in Nat
      BY <1>b, <3>1 DEF Ages
    <3>4. \A a \in 0 .. Window - 1 : admitted[a] \in Nat /\ admitted[a] <= t.next.hits[a]
      <4>. SUFFICES ASSUME NEW a \in 0 .. Window - 1
                    PROVE  admitted[a] \in Nat /\ admitted[a] <= t.next.hits[a]
        OBVIOUS
      <4>1. admitted[a] \in Nat
        BY <1>a DEF Ages
      <4>2. CASE t.next.hits = Bucket.hits
        BY <2>3, <4>1, <4>2
      <4>3. CASE t.next.hits = Hit(Bucket.hits)
        BY <2>3, <3>2, <3>3, <4>1, <4>3
      <4>. QED
        BY <2>1, <4>1, <4>2, <4>3
    <3>5. Counted'
      BY <2>1, <3>1, <3>4 DEF Counted
    <3>. QED
      BY <1>0, <3>1, <3>5 DEF CeilingKept
  <2>6. CASE f.pass /\ t.pass
    <3>1. throttle' = t.next /\ admitted' = Hit(admitted) /\ throttle'.hits = Hit(Bucket.hits)
      BY <2>0, <2>1, <2>6
    <3>2. \A a \in 0 .. Window - 1 : admitted'[a] <= throttle'.hits[a]
      BY <1>a, <2>2, <2>3, <3>1, Sizes DEF Ages, Hit
    <3>3. Counted'
      BY <2>1, <3>1, <3>2 DEF Counted
    <3>4. Total(admitted') <= Total(throttle'.hits)
      BY <1>b, <3>2, Sizes, FewerIsLess
    <3>5. Total(throttle'.hits) <= HardCeiling
      BY <2>1, <2>6, <3>1
    <3>6. Total(admitted') \in Nat /\ Total(throttle'.hits) \in Nat
      BY <1>b, Sizes, EachIsFinite
    <3>. QED
      BY <3>3, <3>4, <3>5, <3>6, Sizes DEF CeilingKept
  <2>. QED
    BY <2>4, <2>5, <2>6
<1>2. CASE Stranger \/ Drop \/ Sweep \/ UNCHANGED vars
  BY <1>0, <1>2 DEF Stranger, Drop, Sweep, vars, Counted, CeilingKept
<1>3. CASE Restart
  <2>1. admitted' = None(Window) /\ throttle'.hits = None(Window)
    BY <1>3 DEF Restart, NewThrottle
  <2>2. Counted'
    BY <2>1, Sizes DEF Counted, None
  <2>. QED
    BY <2>1, <2>2, Sizes, NoneIsNone DEF CeilingKept
<1>4. CASE Tick
  <2>1. /\ throttle'.hits = Older(throttle.hits) /\ throttle'.seen <= throttle.seen + 1
        /\ admitted' = Older(admitted)
    BY <1>4, <1>a, OlderThrottleIsOK DEF Tick
  <2>2. throttle'.seen \in Nat
    BY Sizes DEF TypeOK
  <2>3. Counted'
    <3>. SUFFICES ASSUME NEW a \in 0 .. Window - 1
                  PROVE  /\ admitted'[a] <= throttle'.hits[a]
                         /\ admitted'[a] > 0 => throttle'.seen <= a
      BY DEF Counted
    <3>1. DOMAIN admitted = 0 .. Window - 1 /\ DOMAIN throttle.hits = 0 .. Window - 1
      BY <1>a DEF Ages
    <3>2. CASE a = 0
      BY <2>1, <3>1, <3>2 DEF Older
    <3>3. CASE a # 0
      <4>1. a - 1 \in 0 .. Window - 1
        BY <3>3, Sizes
      <4>2. admitted'[a] = admitted[a - 1] /\ throttle'.hits[a] = throttle.hits[a - 1]
        BY <2>1, <3>1, <3>3 DEF Older
      <4>3. admitted[a - 1] <= throttle.hits[a - 1] /\ (admitted[a - 1] > 0 => throttle.seen <= a - 1)
        BY <1>0, <4>1 DEF Counted
      <4>. QED
        BY <1>a, <2>1, <2>2, <4>2, <4>3
    <3>. QED
      BY <3>2, <3>3
  <2>4. CeilingKept'
    <3>1. /\ Total(admitted') <= Total(admitted)
          /\ Total(admitted') \in Nat /\ Total(admitted) \in Nat
      BY <1>a, <1>b, <2>1, Sizes, OlderIsNoMore, EachIsFinite
    <3>. QED
      BY <1>0, <3>1, Sizes DEF CeilingKept
  <2>. QED
    BY <2>3, <2>4
<1>. QED
  BY <1>1, <1>2, <1>3, <1>4 DEF Next

\* Whatever the load, the warm-up, the retries, the strangers and the idle resets, between
\* two restarts no window of time sees more registrations of the device than the hard
\* ceiling (lib/reconnect-throttle.js, config.js).
THEOREM CeilingIsKept == Spec => []CeilingKept
<1>1. TypeOK /\ [Next]_vars => TypeOK'
  BY TypeKeeps
<1>2. CeilingInv => CeilingKept
  BY DEF CeilingInv
<1>. QED
  BY <1>1, <1>2, TypeHolds, CeilingHolds, CeilingKeeps, PTL DEF Spec

-----------------------------------------------------------------------------
(* The flag.                                                                *)

\* What the throttle answers a device to which no level applies.
LEMMA HealthyCheck ==
  ASSUME ThrottleOK(throttle), warm \in Nat, NEW mult \in Multipliers,
         Bucket.level = 0, ThrottleCheck(mult).next.level > 0
  PROVE  LET observed == Total(ThrottleCheck(mult).next.hits)
         IN  observed > HardCeiling \/ (warm = 0 /\ observed > BaseMax)
<1>. DEFINE b == [Bucket EXCEPT !.hits = Hit(@)]
<1>1. ThrottleOK(Bucket)
  BY BucketIsOK
<1>2. ~(Bucket.blocked > 0)
  BY <1>1 DEF ThrottleOK
<1>3. Hit(Bucket.hits) \in Ages(Window)
  <2>1. Bucket.hits \in Ages(Window)
    BY <1>1 DEF ThrottleOK, ThrottleType
  <2>. QED
    BY <2>1, Sizes, HitIsOneMore
<1>4. ThrottleOK(b) /\ b.level = 0 /\ Total(b.hits) \in Nat
  <2>1. b.level = Bucket.level /\ b.blocked = Bucket.blocked /\ b.hits = Hit(Bucket.hits)
    BY <1>1 DEF ThrottleOK, ThrottleType
  <2>2. b \in ThrottleType
    BY <1>1, <1>3 DEF ThrottleOK, ThrottleType
  <2>3. Total(Hit(Bucket.hits)) \in Nat
    BY <1>3, Sizes, EachIsFinite
  <2>. QED
    BY <1>2, <2>1, <2>2, <2>3 DEF ThrottleOK
<1>5. ThrottleCheck(mult) =
        IF Total(b.hits) > HardCeiling THEN Rejected(b, mult)
        ELSE IF warm > 0 \/ Total(b.hits) <= BaseMax THEN Allowed(b)
        ELSE Rejected(b, mult)
  BY <1>2 DEF ThrottleCheck
<1>. HIDE DEF b
<1>6. CASE ThrottleCheck(mult) = Allowed(b)
  <2>1. ~(b.level > 0)
    BY <1>4
  <2>2. Allowed(b).next = b
    BY <2>1 DEF Allowed
  <2>. QED
    BY <1>4, <1>6, <2>2
<1>7. CASE ThrottleCheck(mult) # Allowed(b)
  <2>1. ThrottleCheck(mult) = Rejected(b, mult)
    BY <1>5, <1>7
  <2>2. ThrottleCheck(mult).next.hits = b.hits
    BY <1>4, <2>1, RejectedIsOK
  <2>3. Total(b.hits) > HardCeiling \/ (~(warm > 0) /\ ~(Total(b.hits) <= BaseMax))
    BY <1>5, <1>7
  <2>. QED
    BY <1>4, <2>2, <2>3, Sizes
<1>. QED
  BY <1>6, <1>7

LEMMA FlagKeeps ==
  ASSUME TypeOK, TypeOK', [Next]_vars, Bucket.level = 0, Bucket'.level > 0
  PROVE  LET observed == Total(throttle'.hits)
         IN  observed > HardCeiling \/ (warm = 0 /\ observed > BaseMax)
<1>0. /\ ThrottleOK(throttle) /\ warm \in Nat
      /\ throttle.seen \in 0 .. IdleReset + 1 /\ throttle.level \in Nat
  <2>1. ThrottleOK(throttle) /\ RestOK
    BY TypeIs
  <2>. QED
    BY <2>1, Sizes DEF ThrottleOK, ThrottleType, RestOK
<1>1. throttle' # throttle
  BY DEF Bucket
<1>2. ASSUME NEW mult \in Multipliers, Attempt(mult)
      PROVE  LET observed == Total(throttle'.hits)
             IN  observed > HardCeiling \/ (warm = 0 /\ observed > BaseMax)
  <2>. DEFINE t == ThrottleCheck(mult)
  <2>1. throttle' = t.next
    BY <1>1, <1>2 DEF Attempt
  <2>2. t.next.level > 0
    <3>1. ThrottleOK(t.next) /\ t.next.seen = 0
      BY <1>0, ThrottleCheckIs
    <3>. HIDE DEF t
    <3>2. ~(throttle'.seen > IdleReset)
      BY <2>1, <3>1, Sizes
    <3>3. Bucket' = [t.next EXCEPT !.seen = 0]
      BY <2>1, <3>2 DEF Bucket
    <3>4. [t.next EXCEPT !.seen = 0].level = t.next.level
      BY <3>1 DEF ThrottleOK, ThrottleType
    <3>. QED
      BY <3>3, <3>4
  <2>3. LET observed == Total(t.next.hits)
        IN  observed > HardCeiling \/ (warm = 0 /\ observed > BaseMax)
    BY <1>0, <2>2, HealthyCheck
  <2>. QED
    BY <2>1, <2>3
<1>3. CASE Stranger \/ Drop \/ Sweep \/ UNCHANGED vars
  BY <1>1, <1>3 DEF Stranger, Drop, Sweep, vars
<1>4. CASE Restart
  <2>1. throttle' = NewThrottle
    BY <1>4 DEF Restart
  <2>2. Bucket'.level = 0
    BY <2>1 DEF Bucket, NewThrottle
  <2>. QED
    BY <2>2
<1>5. CASE Tick
  <2>1. PICK h \in Ages(Window), l \in 0 .. MaxLevel, bl \in 0 .. MaxBackoff,
             si \in 0 .. Release + 1, se \in 0 .. IdleReset + 1 :
          throttle = [hits |-> h, level |-> l, blocked |-> bl, since |-> si, seen |-> se]
    BY <1>0 DEF ThrottleOK, ThrottleType
  <2>2. throttle'.level = l /\ throttle'.seen = Up(se, IdleReset + 1)
    BY <1>5, <2>1 DEF Tick
  <2>3. l = 0 \/ se > IdleReset
    BY <2>1 DEF Bucket
  <2>4. CASE l = 0
    <3>1. throttle' \in ThrottleType
      BY DEF TypeOK, ThrottleType
    <3>2. [throttle' EXCEPT !.seen = 0].level = 0
      BY <2>2, <2>4, <3>1 DEF ThrottleType
    <3>3. Bucket'.level = 0
      BY <3>2 DEF Bucket, NewThrottle
    <3>. QED
      BY <3>3
  <2>5. CASE se > IdleReset
    <3>1. throttle'.seen > IdleReset
      BY <2>2, <2>5, Sizes, MinOfTwo DEF Up
    <3>2. Bucket'.level = 0
      BY <3>1 DEF Bucket, NewThrottle
    <3>. QED
      BY <3>2
  <2>. QED
    BY <2>3, <2>4, <2>5
<1>. QED
  BY <1>2, <1>3, <1>4, <1>5 DEF Next

\* A device to which no level applies gets one only by more attempts of its own within the
\* window than BaseMax, and during the warm-up by more than HardCeiling, whatever the load of
\* the server, the strangers, the drops and the idle resets (lib/reconnect-throttle.js,
\* config.js).
THEOREM HealthyIsNeverFlagged == Spec => HealthyNeverFlagged
<1>1. TypeOK /\ TypeOK' /\ [Next]_vars =>
        [Bucket.level = 0 /\ Bucket'.level > 0 =>
           LET observed == Total(throttle'.hits)
           IN  observed > HardCeiling \/ (warm = 0 /\ observed > BaseMax)]_vars
  BY FlagKeeps
<1>2. TypeOK /\ [Next]_vars => TypeOK'
  BY TypeKeeps
<1>. QED
  BY <1>1, <1>2, TypeHolds, PTL DEF Spec, HealthyNeverFlagged
=============================================================================
