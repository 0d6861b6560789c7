--------------------------- MODULE PoolSessionProofs ---------------------------
(* What is proved of PoolSession for every set of dialogs, requests and       *)
(* positions, every spacing and every bound of the ticks.                     *)
EXTENDS PoolSession, TLAPS

(* Dividing rounds down, whatever the divisor.                                *)
LEMMA DivBounds ==
  ASSUME NEW t \in Int, NEW s \in Nat \ {0}
  PROVE  /\ t \div s \in Int
         /\ s * (t \div s) <= t /\ t < s * (t \div s) + s
  OBVIOUS

LEMMA MultipleMod ==
  ASSUME NEW k \in Int, NEW s \in Nat \ {0}
  PROVE  (k * s) % s = 0
  OBVIOUS

LEMMA ModMultiple ==
  ASSUME NEW t \in Int, NEW s \in Nat \ {0}, t % s = 0
  PROVE  t = (t \div s) * s /\ t \div s \in Int
  OBVIOUS

(* Moving a multiple of the spacing by the spacing.                           *)
LEMMA NextMultiple ==
  ASSUME NEW t \in Int, NEW s \in Nat \ {0}, t % s = 0
  PROVE  (t + s) % s = 0 /\ (t - s) % s = 0
  <1> DEFINE k == t \div s
  <1>1. k \in Int /\ t = k * s  BY ModMultiple
  <1> HIDE DEF k
  <1>2. k + 1 \in Int /\ k - 1 \in Int  BY <1>1
  <1>3. t + s = (k + 1) * s /\ t - s = (k - 1) * s  BY <1>1
  <1>4. ((k + 1) * s) % s = 0 /\ ((k - 1) * s) % s = 0  BY <1>2, MultipleMod
  <1>5. QED  BY <1>3, <1>4

(* Rounding gives a multiple of the spacing at most half a spacing away.      *)
LEMMA Rounded ==
  ASSUME NEW t \in Int, NEW s \in Nat \ {0}
  PROVE  LET r == ((2 * t + s) \div (2 * s)) * s
         IN  /\ r \in Int /\ r % s = 0
             /\ 2 * r <= 2 * t + s /\ 2 * t < 2 * r + s
  <1> DEFINE d == (2 * t + s) \div (2 * s)
  <1>1. 2 * s \in Nat \ {0} /\ 2 * t + s \in Int  OBVIOUS
  <1>2. /\ d \in Int
        /\ (2 * s) * d <= 2 * t + s /\ 2 * t + s < (2 * s) * d + 2 * s
    BY <1>1, DivBounds
  <1> HIDE DEF d
  <1>3. (2 * s) * d = 2 * (d * s)  BY <1>2
  <1>4. d * s \in Int /\ (d * s) % s = 0  BY <1>2, MultipleMod
  <1>5. QED  BY <1>2, <1>3, <1>4 DEF d

(* A tick within the bounds has its nearest usable tick within them.          *)
LEMMA NearestUsableTick ==
  ASSUME NEW t \in Int
  PROVE  /\ NearestUsable(t) \in Int /\ IsUsable(NearestUsable(t))
         /\ t \in -MaxTick .. MaxTick =>
              -MaxTick <= NearestUsable(t) /\ NearestUsable(t) <= MaxTick
  <1> DEFINE r == ((2 * t + Spacing) \div (2 * Spacing)) * Spacing
  <1>1. Spacing \in Nat \ {0} /\ MaxTick \in Nat \ {0} /\ Spacing <= MaxTick
    BY PoolAssumption DEF PoolAssumption
  <1>2. /\ r \in Int /\ r % Spacing = 0
        /\ 2 * r <= 2 * t + Spacing /\ 2 * t < 2 * r + Spacing
    BY <1>1, Rounded
  <1>3. NearestUsable(t) = IF r < -MaxTick THEN r + Spacing
                           ELSE IF r > MaxTick THEN r - Spacing ELSE r
    BY DEF NearestUsable
  <1> HIDE DEF r
  <1>4. (r + Spacing) % Spacing = 0 /\ (r - Spacing) % Spacing = 0
    BY <1>1, <1>2, NextMultiple
  <1>5. NearestUsable(t) \in Int /\ NearestUsable(t) % Spacing = 0
    BY <1>1, <1>2, <1>3, <1>4
  <1>6. t \in -MaxTick .. MaxTick =>
          -MaxTick <= NearestUsable(t) /\ NearestUsable(t) <= MaxTick
    BY <1>1, <1>2, <1>3
  <1>7. QED  BY <1>5, <1>6 DEF IsUsable

(* A usable tick is its own nearest one.                                      *)
LEMMA UsableStays ==
  ASSUME NEW t \in -MaxTick .. MaxTick, IsUsable(t)
  PROVE  NearestUsable(t) = t
  <1> DEFINE d == (2 * t + Spacing) \div (2 * Spacing)
             k == t \div Spacing
  <1>1. /\ Spacing \in Nat \ {0} /\ MaxTick \in Nat \ {0} /\ t \in Int
    BY PoolAssumption DEF PoolAssumption
  <1>2. k \in Int /\ t = k * Spacing  BY <1>1, ModMultiple DEF IsUsable
  <1>3. 2 * Spacing \in Nat \ {0} /\ 2 * t + Spacing \in Int  BY <1>1
  <1>4. /\ d \in Int
        /\ (2 * Spacing) * d <= 2 * t + Spacing
        /\ 2 * t + Spacing < (2 * Spacing) * d + 2 * Spacing
    BY <1>3, DivBounds
  <1>5. NearestUsable(t) = IF d * Spacing < -MaxTick THEN d * Spacing + Spacing
                           ELSE IF d * Spacing > MaxTick THEN d * Spacing - Spacing
                           ELSE d * Spacing
    BY DEF NearestUsable
  <1> HIDE DEF d, k
  <1>6. d = k
    <2>1. (2 * Spacing) * d <= (2 * Spacing) * k + Spacing  BY <1>1, <1>2, <1>4
    <2>2. (2 * Spacing) * k < (2 * Spacing) * d + Spacing  BY <1>1, <1>2, <1>4
    <2>3. CASE d < k
      <3>1. d + 1 <= k  BY <1>2, <1>4, <2>3
      <3>2. (2 * Spacing) * (d + 1) <= (2 * Spacing) * k  BY <3>1, <1>1, <1>2, <1>4
      <3>3. (2 * Spacing) * (d + 1) = (2 * Spacing) * d + 2 * Spacing  BY <1>1, <1>4
      <3>4. QED  BY <3>2, <3>3, <2>2, <1>1, <1>2, <1>4
    <2>4. CASE k < d
      <3>1. k + 1 <= d  BY <1>2, <1>4, <2>4
      <3>2. (2 * Spacing) * (k + 1) <= (2 * Spacing) * d  BY <3>1, <1>1, <1>2, <1>4
      <3>3. (2 * Spacing) * (k + 1) = (2 * Spacing) * k + 2 * Spacing  BY <1>1, <1>2
      <3>4. QED  BY <3>2, <3>3, <2>1, <1>1, <1>2, <1>4
    <2>5. QED  BY <2>3, <2>4, <1>2, <1>4
  <1>7. d * Spacing = t  BY <1>6, <1>2
  <1>8. QED  BY <1>5, <1>7, <1>1

-------------------------------------------------------------------------------
(* The ticks of the code are usable.                                          *)

Pools == [tick : PoolTicks, reverse : BOOLEAN]

LEMMA SpacingType ==
  /\ Spacing \in Nat \ {0} /\ MaxTick \in Nat \ {0} /\ Span \in Nat \ {0}
  /\ Spacing <= MaxTick
  /\ PoolTicks \subseteq -MaxTick .. MaxTick
  BY PoolAssumption DEF PoolAssumption

LEMMA SliderType ==
  ASSUME NEW slider \in Sliders
  PROVE  slider[1] \in -MaxTick .. MaxTick /\ slider[2] \in -MaxTick .. MaxTick
  BY PoolAssumption DEF PoolAssumption

LEMMA RawLevels ==
  ASSUME NEW reverse \in BOOLEAN, NEW l \in -MaxTick .. MaxTick
  PROVE  /\ RawLevel[reverse][l] \in -MaxTick .. MaxTick
         /\ RawLevel[reverse][l] >= IF reverse THEN l ELSE l - 1
         /\ \A k \in -MaxTick .. MaxTick :
              l <= k => RawLevel[reverse][l] <= RawLevel[reverse][k]
  BY PoolAssumption DEF PoolAssumption

(* The tick that is rounded to a usable one.                                  *)
Unrounded(level) == IF pool.reverse THEN -RawLevel[TRUE][level]
                    ELSE RawLevel[FALSE][level]

LEMMA UnroundedInBounds ==
  ASSUME pool \in Pools, NEW level \in -MaxTick .. MaxTick
  PROVE  /\ Unrounded(level) \in -MaxTick .. MaxTick /\ Unrounded(level) \in Int
         /\ TickFromRange(level) = NearestUsable(Unrounded(level))
  <1>1. \A reverse \in BOOLEAN : RawLevel[reverse][level] \in -MaxTick .. MaxTick
    BY RawLevels
  <1>2. \A t \in -MaxTick .. MaxTick : -t \in -MaxTick .. MaxTick /\ t \in Int
    BY SpacingType
  <1>3. Unrounded(level) \in -MaxTick .. MaxTick  BY <1>1, <1>2 DEF Unrounded
  <1>4. QED  BY <1>2, <1>3 DEF TickFromRange, Unrounded

LEMMA TickInBounds ==
  ASSUME pool \in Pools, NEW level \in -MaxTick .. MaxTick
  PROVE  /\ TickFromRange(level) \in -MaxTick .. MaxTick
         /\ IsUsable(TickFromRange(level))
  <1> DEFINE t == Unrounded(level)
  <1>1. t \in -MaxTick .. MaxTick /\ t \in Int /\ TickFromRange(level) = NearestUsable(t)
    BY UnroundedInBounds
  <1> HIDE DEF t
  <1>2. /\ NearestUsable(t) \in Int /\ IsUsable(NearestUsable(t))
        /\ -MaxTick <= NearestUsable(t) /\ NearestUsable(t) <= MaxTick
    BY <1>1, NearestUsableTick
  <1>3. QED  BY <1>1, <1>2, SpacingType

LEMMA CorrectTicksUsable ==
  ASSUME pool \in Pools, NEW slider \in Sliders
  PROVE  CorrectTicks(slider) \in Ranges /\ UsableTicks(CorrectTicks(slider))
  <1> DEFINE lowerRange == IF pool.reverse THEN slider[2] ELSE slider[1]
             upperRange == IF pool.reverse THEN slider[1] ELSE slider[2]
             lower == TickFromRange(lowerRange)
             upper == TickFromRange(upperRange)
  <1>1. lowerRange \in -MaxTick .. MaxTick /\ upperRange \in -MaxTick .. MaxTick
    BY SliderType
  <1>2. /\ lower \in -MaxTick .. MaxTick /\ IsUsable(lower)
        /\ upper \in -MaxTick .. MaxTick /\ IsUsable(upper)
    BY <1>1, TickInBounds
  <1>3. CorrectTicks(slider) =
          IF lower <= upper THEN [lower |-> lower, upper |-> upper]
          ELSE IF pool.reverse THEN [lower |-> lower, upper |-> lower + Spacing]
          ELSE [lower |-> upper - Spacing, upper |-> upper]
    BY DEF CorrectTicks
  <1> HIDE DEF lower, upper
  <1>4. lower \in Int /\ upper \in Int /\ -MaxTick <= lower /\ lower <= MaxTick
        /\ -MaxTick <= upper /\ upper <= MaxTick
    BY <1>2, SpacingType
  <1>5. IsUsable(lower + Spacing) /\ IsUsable(upper - Spacing)
    BY <1>2, <1>4, SpacingType, NextMultiple DEF IsUsable
  <1>6. QED
    BY <1>2, <1>3, <1>4, <1>5, SpacingType DEF Ranges, UsableTicks, OnSpacing, InBounds

(* Two multiples of the spacing that differ are a spacing apart.              *)
LEMMA MultiplesApart ==
  ASSUME NEW s \in Nat \ {0}, NEW a \in Int, NEW b \in Int,
         a % s = 0, b % s = 0, a < b
  PROVE  a + s <= b
  <1> DEFINE i == a \div s
             j == b \div s
  <1>1. i \in Int /\ a = i * s /\ j \in Int /\ b = j * s  BY ModMultiple
  <1> HIDE DEF i, j
  <1>2. i < j
    <2> SUFFICES ASSUME j <= i PROVE FALSE  BY <1>1
    <2>1. j * s <= i * s  BY <1>1
    <2>2. QED  BY <1>1, <2>1
  <1>3. i + 1 <= j  BY <1>1, <1>2
  <1>4. (i + 1) * s <= j * s /\ (i + 1) * s = i * s + s  BY <1>1, <1>3
  <1>5. QED  BY <1>1, <1>4

(* A tick not above a usable one is rounded to one not above it; one that is  *)
(* not below it by more than the rounding of the digits stays above it, but   *)
(* where every tick is usable.                                                *)
LEMMA NearestKeepsOrder ==
  ASSUME NEW t \in -MaxTick .. MaxTick, NEW u \in -MaxTick .. MaxTick, IsUsable(u)
  PROVE  /\ t <= u => NearestUsable(t) <= u
         /\ t >= u - 1 => NearestUsable(t) >= u - Digits
  <1> DEFINE r == ((2 * t + Spacing) \div (2 * Spacing)) * Spacing
  <1>1. /\ t \in Int /\ u \in Int /\ Spacing \in Nat \ {0} /\ MaxTick \in Nat \ {0}
        /\ -MaxTick <= t /\ t <= MaxTick /\ -MaxTick <= u /\ u <= MaxTick
        /\ Spacing <= MaxTick
    BY SpacingType
  <1>2. /\ r \in Int /\ r % Spacing = 0
        /\ 2 * r <= 2 * t + Spacing /\ 2 * t < 2 * r + Spacing
    BY <1>1, Rounded
  <1>3. NearestUsable(t) = IF r < -MaxTick THEN r + Spacing
                           ELSE IF r > MaxTick THEN r - Spacing ELSE r
    BY DEF NearestUsable
  <1> HIDE DEF r
  <1>4. u % Spacing = 0  BY DEF IsUsable
  <1>5. /\ r < u => r + Spacing <= u
        /\ u < r => u + Spacing <= r
    BY <1>1, <1>2, <1>4, MultiplesApart
  <1>6. ASSUME t <= u PROVE NearestUsable(t) <= u
    <2>1. r <= u  BY <1>1, <1>2, <1>5, <1>6
    <2>2. r < -MaxTick => r + Spacing <= u  BY <1>1, <1>2, <1>5
    <2>3. QED  BY <1>1, <1>2, <1>3, <2>1, <2>2
  <1>7. ASSUME t >= u - 1 PROVE NearestUsable(t) >= u - Digits
    <2>1. CASE Spacing = 1
      <3>1. r = t
        <4>1. 2 * r <= 2 * t + 1 /\ 2 * t < 2 * r + 1  BY <1>2, <2>1
        <4>2. QED  BY <1>1, <1>2, <4>1
      <3>2. NearestUsable(t) = t  BY <1>1, <1>3, <3>1
      <3>3. QED  BY <1>1, <1>7, <2>1, <3>2 DEF Digits
    <2>2. CASE Spacing # 1
      <3>1. Spacing >= 2 /\ Digits = 0  BY <1>1, <2>2 DEF Digits
      <3>2. r >= u
        <4> SUFFICES ASSUME r < u PROVE FALSE  BY <1>1, <1>2
        <4>1. 2 * r + 2 * Spacing <= 2 * u  BY <1>1, <1>2, <1>5
        <4>2. 2 * u - 2 < 2 * r + Spacing  BY <1>1, <1>2, <1>7
        <4>3. QED  BY <1>1, <1>2, <3>1, <4>1, <4>2
      <3>3. r > MaxTick => r - Spacing >= u  BY <1>1, <1>2, <1>5
      <3>4. QED  BY <1>1, <1>2, <1>3, <3>1, <3>2, <3>3
    <2>3. QED  BY <2>1, <2>2
  <1>8. QED  BY <1>6, <1>7

LEMMA NearestMonotone ==
  ASSUME NEW t \in -MaxTick .. MaxTick, NEW u \in -MaxTick .. MaxTick, t <= u
  PROVE  NearestUsable(t) <= NearestUsable(u)
  <1> DEFINE d == (2 * t + Spacing) \div (2 * Spacing)
             e == (2 * u + Spacing) \div (2 * Spacing)
             r == d * Spacing
             v == e * Spacing
  <1>1. /\ t \in Int /\ u \in Int /\ Spacing \in Nat \ {0} /\ MaxTick \in Nat \ {0}
        /\ Spacing <= MaxTick
    BY SpacingType
  <1>2. /\ r \in Int /\ r % Spacing = 0 /\ v \in Int /\ v % Spacing = 0
        /\ 2 * r <= 2 * t + Spacing /\ 2 * u < 2 * v + Spacing
    BY <1>1, Rounded
  <1>3. r <= v
    <2>1. /\ d \in Int /\ e \in Int
          /\ (2 * Spacing) * d <= 2 * t + Spacing
          /\ 2 * u + Spacing < (2 * Spacing) * e + 2 * Spacing
      <3>1. 2 * Spacing \in Nat \ {0} /\ 2 * t + Spacing \in Int /\ 2 * u + Spacing \in Int
        BY <1>1
      <3>2. QED  BY <3>1, DivBounds
    <2> HIDE DEF d, e
    <2>2. (2 * Spacing) * d < (2 * Spacing) * (e + 1)
      <3>1. (2 * Spacing) * (e + 1) = (2 * Spacing) * e + 2 * Spacing  BY <1>1, <2>1
      <3>2. QED  BY <1>1, <2>1, <3>1
    <2>3. d < e + 1
      <3> SUFFICES ASSUME e + 1 <= d PROVE FALSE  BY <2>1
      <3>1. (2 * Spacing) * (e + 1) <= (2 * Spacing) * d  BY <1>1, <2>1
      <3>2. QED  BY <1>1, <2>1, <2>2, <3>1
    <2>4. d <= e  BY <2>1, <2>3
    <2>5. QED  BY <1>1, <2>1, <2>4
  <1>4. /\ NearestUsable(t) = IF r < -MaxTick THEN r + Spacing
                              ELSE IF r > MaxTick THEN r - Spacing ELSE r
        /\ NearestUsable(u) = IF v < -MaxTick THEN v + Spacing
                              ELSE IF v > MaxTick THEN v - Spacing ELSE v
    BY DEF NearestUsable
  <1> HIDE DEF d, e, r, v
  <1>5. r < v => r + Spacing <= v  BY <1>1, <1>2, MultiplesApart
  <1>6. QED  BY <1>1, <1>2, <1>3, <1>4, <1>5

(* Sliders that need no correction keep their place, but for the raw amounts. *)
LEMMA OrderedSliders ==
  ASSUME pool \in Pools, NEW slider \in Sliders,
         IsUsable(slider[1]), IsUsable(slider[2]), slider[1] <= slider[2]
  PROVE  /\ ShownFor(Shown(CorrectTicks(slider)).low, slider[1])
         /\ ShownFor(Shown(CorrectTicks(slider)).high, slider[2])
  <1> DEFINE a == slider[1]
             b == slider[2]
             s == TickFromRange(a)
             t == TickFromRange(b)
             x == Unrounded(a)
             y == Unrounded(b)
  <1>1. /\ a \in -MaxTick .. MaxTick /\ b \in -MaxTick .. MaxTick
        /\ a \in Int /\ b \in Int /\ a <= b /\ IsUsable(a) /\ IsUsable(b)
    BY SliderType, SpacingType
  <1>2. /\ x \in -MaxTick .. MaxTick /\ x \in Int /\ s = NearestUsable(x)
        /\ y \in -MaxTick .. MaxTick /\ y \in Int /\ t = NearestUsable(y)
    BY <1>1, UnroundedInBounds
  <1>3. s \in Int /\ t \in Int  BY <1>2, NearestUsableTick
  <1>4. Digits \in Int  BY DEF Digits
  <1>5. \A l \in {a, b} : -l \in -MaxTick .. MaxTick /\ IsUsable(-l)
    <2> SUFFICES ASSUME NEW l \in {a, b} PROVE -l \in -MaxTick .. MaxTick /\ IsUsable(-l)
      OBVIOUS
    <2> DEFINE k == l \div Spacing
    <2>1. l \in Int /\ l % Spacing = 0 /\ -l \in -MaxTick .. MaxTick
      BY <1>1, SpacingType DEF IsUsable
    <2>2. k \in Int /\ l = k * Spacing  BY <2>1, SpacingType, ModMultiple
    <2> HIDE DEF k
    <2>3. -k \in Int /\ -l = (-k) * Spacing  BY <2>2, SpacingType
    <2>4. ((-k) * Spacing) % Spacing = 0  BY <2>3, SpacingType, MultipleMod
    <2>5. QED  BY <2>1, <2>3, <2>4 DEF IsUsable
  <1>6. CASE pool.reverse
    <2> DEFINE u == RawLevel[TRUE][a]
               v == RawLevel[TRUE][b]
    <2>1. x = -u /\ y = -v  BY <1>6 DEF Unrounded
    <2>2. u \in Int /\ u >= a /\ v \in Int /\ v >= b /\ u <= v
      <3>1. u \in -MaxTick .. MaxTick /\ v \in -MaxTick .. MaxTick  BY <1>1, RawLevels
      <3>2. u >= a /\ v >= b  BY <1>1, RawLevels
      <3>3. u <= v  BY <1>1, RawLevels
      <3> HIDE DEF u, v
      <3>4. u \in Int /\ v \in Int  BY <3>1, SpacingType
      <3>5. QED  BY <3>2, <3>3, <3>4
    <2>3. (WholeRaw(a) => u \in {a, a + 1}) /\ (WholeRaw(b) => v \in {b, b + 1})
      BY <1>6 DEF WholeRaw, Pools
    <2> HIDE DEF a, b, x, y, s, t, u, v
    <2>4. y <= x /\ x <= -a /\ y <= -b  BY <1>1, <2>1, <2>2
    <2>5. t <= s  BY <1>2, <2>4, NearestMonotone
    <2>6. CorrectTicks(slider) = [lower |-> t, upper |-> s]
      BY <1>6, <2>5 DEF CorrectTicks, a, b, s, t
    <2>7. Shown(CorrectTicks(slider)).low = -s /\ Shown(CorrectTicks(slider)).high = -t
      BY <1>6, <2>6 DEF Shown
    <2>8. s <= -a /\ t <= -b  BY <1>2, <1>5, <2>4, NearestKeepsOrder
    <2>9. /\ WholeRaw(a) => x >= -a - 1
          /\ WholeRaw(b) => y >= -b - 1
      BY <1>1, <2>1, <2>2, <2>3
    <2>10. /\ WholeRaw(a) => s >= -a - Digits
           /\ WholeRaw(b) => t >= -b - Digits
      BY <1>2, <1>5, <2>9, NearestKeepsOrder
    <2>11. ShownFor(-s, a) /\ ShownFor(-t, b)
      <3>1. Digits >= 0  BY DEF Digits
      <3>2. -s >= a - Digits /\ -t >= b - Digits  BY <1>1, <1>3, <1>4, <2>8, <3>1
      <3>3. s >= -a - Digits => -s <= a + Digits  BY <1>1, <1>3, <1>4
      <3>4. t >= -b - Digits => -t <= b + Digits  BY <1>1, <1>3, <1>4
      <3>5. QED  BY <2>10, <3>2, <3>3, <3>4, Zenon DEF ShownFor
    <2>12. QED  BY <2>7, <2>11 DEF a, b
  <1>7. CASE ~pool.reverse
    <2>1. x = RawLevel[FALSE][a] /\ y = RawLevel[FALSE][b] /\ pool.reverse = FALSE
      BY <1>7 DEF Unrounded, Pools
    <2>2. /\ RawLevel[FALSE][a] >= a - 1 /\ RawLevel[FALSE][b] >= b - 1
          /\ RawLevel[FALSE][a] <= RawLevel[FALSE][b]
      BY <1>1, RawLevels
    <2>3. (WholeRaw(a) => x \in {a - 1, a}) /\ (WholeRaw(b) => y \in {b - 1, b})
      BY <1>7, <2>1 DEF WholeRaw
    <2> HIDE DEF a, b, x, y, s, t
    <2>4. x <= y /\ x >= a - 1 /\ y >= b - 1  BY <2>1, <2>2
    <2>5. s <= t  BY <1>2, <2>4, NearestMonotone
    <2>6. CorrectTicks(slider) = [lower |-> s, upper |-> t]
      BY <1>7, <2>5 DEF CorrectTicks, a, b, s, t
    <2>7. Shown(CorrectTicks(slider)).low = s /\ Shown(CorrectTicks(slider)).high = t
      BY <1>7, <2>6 DEF Shown
    <2>8. s >= a - Digits /\ t >= b - Digits  BY <1>1, <1>2, <2>4, NearestKeepsOrder
    <2>9. /\ WholeRaw(a) => x <= a
          /\ WholeRaw(b) => y <= b
      BY <1>1, <2>3
    <2>10. /\ WholeRaw(a) => s <= a
           /\ WholeRaw(b) => t <= b
      BY <1>1, <1>2, <2>9, NearestKeepsOrder
    <2>11. ShownFor(s, a) /\ ShownFor(t, b)
      <3>1. Digits >= 0  BY DEF Digits
      <3>2. s <= a => s <= a + Digits  BY <1>1, <1>3, <1>4, <3>1
      <3>3. t <= b => t <= b + Digits  BY <1>1, <1>3, <1>4, <3>1
      <3>4. QED  BY <2>8, <2>10, <3>2, <3>3, Zenon DEF ShownFor
    <2>12. QED  BY <2>7, <2>11 DEF a, b
  <1>8. QED  BY <1>6, <1>7

LEMMA DefaultTicksUsable ==
  ASSUME NEW tick \in PoolTicks, DefaultTicksExist(tick)
  PROVE  DefaultTicks(tick) \in Ranges /\ UsableTicks(DefaultTicks(tick))
  <1> DEFINE a == tick - Span * Spacing
             b == tick + Span * Spacing
  <1>1. tick \in Int /\ Span * Spacing \in Nat  BY SpacingType
  <1>2. a \in -MaxTick .. MaxTick /\ b \in -MaxTick .. MaxTick /\ a \in Int /\ b \in Int
    BY <1>1, SpacingType DEF DefaultTicksExist
  <1>3. DefaultTicks(tick) = [lower |-> NearestUsable(a), upper |-> NearestUsable(b)]
    BY DEF DefaultTicks
  <1>4. b - a >= 2 * Spacing
    <2>1. Span * Spacing >= Spacing  BY SpacingType
    <2>2. QED  BY <1>1, <2>1, SpacingType
  <1> HIDE DEF a, b
  <1>5. /\ NearestUsable(a) \in Int /\ IsUsable(NearestUsable(a))
        /\ NearestUsable(b) \in Int /\ IsUsable(NearestUsable(b))
        /\ -MaxTick <= NearestUsable(a) /\ NearestUsable(a) <= MaxTick
        /\ -MaxTick <= NearestUsable(b) /\ NearestUsable(b) <= MaxTick
    BY <1>2, NearestUsableTick
  <1>6. NearestUsable(a) <= NearestUsable(b)
    <2> DEFINE ra == ((2 * a + Spacing) \div (2 * Spacing)) * Spacing
               rb == ((2 * b + Spacing) \div (2 * Spacing)) * Spacing
    <2>1. /\ ra \in Int /\ 2 * ra <= 2 * a + Spacing
          /\ rb \in Int /\ 2 * b < 2 * rb + Spacing
      BY <1>2, SpacingType, Rounded
    <2>2. /\ NearestUsable(a) = IF ra < -MaxTick THEN ra + Spacing
                                ELSE IF ra > MaxTick THEN ra - Spacing ELSE ra
          /\ NearestUsable(b) = IF rb < -MaxTick THEN rb + Spacing
                                ELSE IF rb > MaxTick THEN rb - Spacing ELSE rb
      BY DEF NearestUsable
    <2> HIDE DEF ra, rb
    <2>3. ra + Spacing <= rb  BY <1>2, <1>4, <2>1, SpacingType
    <2>4. QED  BY <1>2, <2>1, <2>2, <2>3, SpacingType
  <1>7. QED
    BY <1>3, <1>5, <1>6, SpacingType DEF Ranges, UsableTicks, OnSpacing, InBounds

LEMMA PositionUsable ==
  ASSUME NEW p \in Positions
  PROVE  /\ RangeOf[p] \in Ranges /\ UsableTicks(RangeOf[p]) /\ InBounds(RangeOf[p])
         /\ p \in Purposes
  <1>1. /\ RangeOf[p] \in Ranges /\ OnSpacing(RangeOf[p]) /\ InBounds(RangeOf[p])
        /\ RangeOf[p].lower < RangeOf[p].upper
    BY PoolAssumption DEF PoolAssumption
  <1>2. QED  BY <1>1 DEF UsableTicks, Ranges, Purposes

-------------------------------------------------------------------------------
(* Every step keeps the types.                                                *)

LEMMA NoneDiffers ==
  /\ None \notin Purposes /\ None \notin UserWallets /\ None \notin Sessions
  /\ None \notin Levels /\ None \notin Sliders /\ None \notin Positions
  /\ None \notin Dialogs /\ None \notin RequestsIn
  BY PoolAssumption DEF PoolAssumption, Purposes

LEMMA ShownType ==
  ASSUME NEW range \in Ranges
  PROVE  Shown(range) \in Levels /\ Shown(range) # None
  BY NoneDiffers DEF Shown, Ranges, Levels

LEMMA InitTypes == Init => PoolTypeOK
  BY DEF Init, PoolTypeOK

(* What a request that is in progress looks like.                             *)
LEMMA RequestType ==
  ASSUME PoolTypeOK, NEW q \in Requests, req[q] # None
  PROVE  /\ req[q] \in RequestsIn /\ WellFormed(req[q])
         /\ req[q].by \in Modals /\ modal[req[q].by] \in Dialogs
  <1>1. req[q] \in RequestsIn /\ WellFormed(req[q])  BY DEF PoolTypeOK
  <1>2. req[q].by \in Modals  BY <1>1 DEF RequestsIn
  <1>3. QED  BY <1>1, <1>2 DEF PoolTypeOK, WellFormed

(* A step that moves one request on and keeps the dialogs keeps the types.    *)
LEMMA MoveTypes ==
  ASSUME PoolTypeOK, NEW q \in Requests, NEW r \in RequestsIn \union {None},
         req' = [req EXCEPT ![q] = r], UNCHANGED modal,
         r # None => WellFormed(r),
         pool' \in Pools, held' \subseteq Positions, session' \in Sessions \union {None}
  PROVE  PoolTypeOK'
  <1>1. req' \in [Requests -> RequestsIn \union {None}]  BY DEF PoolTypeOK
  <1>2. modal' \in [Modals -> Dialogs \union {None}]  BY DEF PoolTypeOK
  <1>3. ASSUME NEW x \in Requests, req'[x] # None PROVE WellFormed(req[x])'
    <2>1. WellFormed(req'[x])
      <3>1. CASE x = q  BY <1>3, <3>1 DEF PoolTypeOK
      <3>2. CASE x # q  BY <1>3, <3>2 DEF PoolTypeOK
      <3>3. QED  BY <3>1, <3>2
    <2>2. QED  BY <2>1 DEF WellFormed
  <1>4. QED  BY <1>1, <1>2, <1>3 DEF PoolTypeOK, Pools

(* So does one that ends a request and tells its dialog something.            *)
LEMMA AnswerTypes ==
  ASSUME PoolTypeOK, NEW q \in Requests, NEW m \in Modals, modal[m] # None,
         NEW d \in Dialogs, modal' = [modal EXCEPT ![m] = d],
         req' = [req EXCEPT ![q] = None], UNCHANGED <<pool, held, session>>
  PROVE  PoolTypeOK'
  <1>1. req' \in [Requests -> RequestsIn \union {None}]  BY DEF PoolTypeOK
  <1>2. modal' \in [Modals -> Dialogs \union {None}]  BY DEF PoolTypeOK
  <1>3. ASSUME NEW x \in Modals, modal[x] # None PROVE modal'[x] # None
    BY <1>3, NoneDiffers DEF PoolTypeOK
  <1>4. ASSUME NEW x \in Requests, req'[x] # None PROVE WellFormed(req[x])'
    <2>1. req'[x] = req[x] /\ req[x] # None  BY <1>4 DEF PoolTypeOK
    <2>2. WellFormed(req[x]) /\ req[x].by \in Modals  BY <2>1, RequestType
    <2>3. modal'[req[x].by] # None  BY <2>2, <1>3 DEF WellFormed
    <2>4. QED  BY <2>1, <2>2, <2>3 DEF WellFormed
  <1>5. QED  BY <1>1, <1>2, <1>4 DEF PoolTypeOK

(* And one that begins a request.                                             *)
LEMMA BeginTypes ==
  ASSUME PoolTypeOK, NEW q \in Requests, NEW r \in RequestsIn, WellFormed(r)',
         req' = [req EXCEPT ![q] = r],
         modal' \in [Modals -> Dialogs \union {None}],
         \A x \in Modals : modal[x] # None => modal'[x] # None,
         UNCHANGED <<pool, held, session>>
  PROVE  PoolTypeOK'
  <1>1. req' \in [Requests -> RequestsIn \union {None}]  BY DEF PoolTypeOK
  <1>2. ASSUME NEW x \in Requests, req'[x] # None PROVE WellFormed(req[x])'
    <2>1. CASE x = q  BY <2>1 DEF PoolTypeOK
    <2>2. CASE x # q
      <3>1. req'[x] = req[x] /\ req[x] # None  BY <1>2, <2>2 DEF PoolTypeOK
      <3>2. WellFormed(req[x]) /\ req[x].by \in Modals  BY <3>1, RequestType
      <3>3. modal'[req[x].by] # None  BY <3>2 DEF WellFormed
      <3>4. QED  BY <3>1, <3>2, <3>3 DEF WellFormed
    <2>3. QED  BY <2>1, <2>2
  <1>3. QED  BY <1>1, <1>2 DEF PoolTypeOK

LEMMA DisturbedType ==
  ASSUME PoolTypeOK, NEW m \in Modals, NEW own \in Dialogs \union {None}
  PROVE  /\ Disturbed(m, own) \in [Modals -> Dialogs \union {None}]
         /\ Disturbed(m, own)[m] = own
         /\ \A x \in Modals \ {m} :
              /\ modal[x] = None => Disturbed(m, own)[x] = None
              /\ modal[x] # None =>
                   /\ Disturbed(m, own)[x] # None
                   /\ Disturbed(m, own)[x] = [modal[x] EXCEPT !.alone = FALSE]
                   /\ ~Disturbed(m, own)[x].alone
  <1>1. \A x \in Modals : modal[x] # None =>
          /\ modal[x] \in Dialogs
          /\ [modal[x] EXCEPT !.alone = FALSE] \in Dialogs
          /\ ~[modal[x] EXCEPT !.alone = FALSE].alone
    BY DEF PoolTypeOK, Dialogs
  <1>2. QED  BY <1>1, NoneDiffers DEF Disturbed

LEMMA DisturbedStay ==
  ASSUME PoolTypeOK, NEW m \in Modals, NEW own, own \in Dialogs \/ own = None
  PROVE  /\ Disturbed(m, own) \in [Modals -> Dialogs \union {None}]
         /\ Disturbed(m, own)[m] = own
         /\ \A x \in Modals \ {m} : modal[x] # None => Disturbed(m, own)[x] # None
  <1>1. \A x \in Modals : modal[x] # None =>
          /\ modal[x] \in Dialogs
          /\ [modal[x] EXCEPT !.alone = FALSE] \in Dialogs
    BY DEF PoolTypeOK, Dialogs
  <1>2. QED  BY <1>1, NoneDiffers DEF Disturbed

LEMMA ReplacedType ==
  ASSUME PoolTypeOK, NEW q \in Requests, req[q] # None,
         NEW next, NEW new \in RequestsIn, new = [req[q] EXCEPT !.at = next],
         req' = Replaced(q, next)
  PROVE  /\ req' \in [Requests -> RequestsIn \union {None}]
         /\ req'[q] = new
         /\ \A x \in Requests \ {q} :
              /\ req[x] = None => req'[x] = None
              /\ req[x] # None =>
                   /\ req'[x] # None
                   /\ \/ /\ req[x].at \in {"read", "write"}
                         /\ req'[x] = [req[x] EXCEPT !.late = TRUE]
                      \/ /\ req[x].at \notin {"read", "write"}
                         /\ req'[x] = req[x]
  <1>1. \A x \in Requests : req[x] # None =>
          req[x] \in RequestsIn /\ [req[x] EXCEPT !.late = TRUE] \in RequestsIn
    BY DEF PoolTypeOK, RequestsIn
  <1>2. QED  BY <1>1, NoneDiffers DEF Replaced, PoolTypeOK

LEMMA AloneType ==
  ASSUME NEW d \in Dialogs, NEW b \in BOOLEAN
  PROVE  [d EXCEPT !.alone = d.alone /\ b] \in Dialogs
  BY DEF Dialogs

LEMMA RequestStepTypes ==
  ASSUME PoolTypeOK, NEW q \in Requests, RequestStep(q)
  PROVE  PoolTypeOK'
  <1> DEFINE r == req[q]
  <1>1. /\ r # None /\ r \in RequestsIn /\ WellFormed(r)
        /\ r.by \in Modals /\ modal[r.by] \in Dialogs /\ modal[r.by] # None
    <2>1. r # None
      BY DEF RequestStep, Fails, ReadPool, StoreSession, AnswerOpening, PassGuard,
             ReadSession, WriteSession, AnswerSlide, LoadSession, MatchPosition,
             FormApprovals, AnswerTransaction
    <2>2. QED  BY <2>1, RequestType DEF WellFormed
  <1>2. /\ pool \in Pools /\ held \subseteq Positions
        /\ session \in Sessions \union {None} /\ req \in [Requests -> RequestsIn \union {None}]
    BY DEF PoolTypeOK, Pools
  <1>3. ASSUME Ends(q), UNCHANGED <<pool, held, session, modal>> PROVE PoolTypeOK'
    BY <1>2, <1>3, MoveTypes DEF Ends
  <1>4. ASSUME NEW at \in Opening \union Sliding \union Forming
        PROVE  [r EXCEPT !.at = at] \in RequestsIn
    BY <1>1 DEF RequestsIn
  <1> HIDE DEF r
  <1>5. CASE Fails(q)
    <2>1. CASE r.at = "moved"
      <3>1. r.sess \in Sessions  BY <1>1, <2>1 DEF WellFormed
      <3>2. Shown(r.sess.range) \in Levels  BY <3>1, ShownType DEF Sessions
      <3> DEFINE d == [modal[r.by] EXCEPT !.missed = Shown(r.sess.range)]
      <3>3. d \in Dialogs  BY <1>1, <3>2 DEF Dialogs
      <3>4. modal' = [modal EXCEPT ![r.by] = d]  BY <1>5, <2>1 DEF Fails, Misses, r
      <3> HIDE DEF d
      <3>5. QED  BY <1>1, <1>5, <3>3, <3>4, AnswerTypes DEF Fails, Ends
    <2>2. CASE r.at # "moved"  BY <1>3, <1>5, <2>2 DEF Fails, r
    <2>3. QED  BY <2>1, <2>2
  <1>6. CASE ReadPool(q)
    <2> DEFINE range == IF r.opens \in Positions THEN RangeOf[r.opens]
                        ELSE DefaultTicks(pool.tick)
               sess == [position |-> r.opens \in Positions, range |-> range,
                        tick |-> pool.tick]
               new == [r EXCEPT !.at = "store", !.sess = sess]
    <2>1. CASE r.opens \in Positions \/ DefaultTicksExist(pool.tick)
      <3>1. pool.tick \in PoolTicks  BY <1>2 DEF Pools
      <3>2. range \in Ranges  BY <2>1, <3>1, DefaultTicksUsable, PositionUsable
      <3>3. sess \in Sessions  BY <3>1, <3>2 DEF Sessions
      <3> HIDE DEF sess
      <3>4. new \in RequestsIn  BY <1>1, <3>3 DEF RequestsIn, Opening
      <3>5. WellFormed(new)
        BY <1>1, <1>6, <3>3 DEF WellFormed, RequestsIn, ReadPool, r, Opening, Sliding, Forming
      <3>6. req' = [req EXCEPT ![q] = new]  BY <1>2, <1>6, <2>1 DEF ReadPool, r, sess
      <3> HIDE DEF new
      <3>7. QED  BY <1>2, <1>6, <3>4, <3>5, <3>6, MoveTypes DEF ReadPool
    <2>2. CASE ~(r.opens \in Positions \/ DefaultTicksExist(pool.tick))
      BY <1>3, <1>6, <2>2 DEF ReadPool, r
    <2>3. QED  BY <2>1, <2>2
  <1>7. CASE StoreSession(q)
    <2>1. r.at = "store" /\ session' = r.sess /\ r.sess \in Sessions
      BY <1>1, <1>7 DEF StoreSession, WellFormed, r
    <2>2. [r EXCEPT !.at = "details"] \in RequestsIn  BY <1>4 DEF Opening
    <2>3. /\ req' \in [Requests -> RequestsIn \union {None}]
          /\ req'[q] = [r EXCEPT !.at = "details"]
          /\ \A x \in Requests \ {q} :
               /\ req[x] = None => req'[x] = None
               /\ req[x] # None => req'[x] = req[x] \/ req'[x] = [req[x] EXCEPT !.late = TRUE]
      <3> DEFINE new == [r EXCEPT !.at = "details"]
      <3>1. new \in RequestsIn /\ new = [req[q] EXCEPT !.at = "details"]  BY <2>2 DEF r
      <3>2. req[q] # None /\ req' = Replaced(q, "details")  BY <1>7 DEF StoreSession
      <3> HIDE DEF new
      <3>3. QED  BY <3>1, <3>2, ReplacedType DEF new
    <2>4. ASSUME NEW x \in Requests, req'[x] # None PROVE WellFormed(req[x])'
      <3>1. modal' = modal  BY <1>7 DEF StoreSession
      <3>2. CASE x = q
        BY <1>1, <2>1, <2>3, <3>1, <3>2 DEF WellFormed, RequestsIn, Opening, Sliding, Forming
      <3>3. CASE x # q
        <4>1. req[x] # None  BY <2>3, <2>4, <3>3
        <4>2. req[x] \in RequestsIn /\ WellFormed(req[x])  BY <4>1, RequestType
        <4>3. QED  BY <2>3, <3>1, <3>3, <4>1, <4>2 DEF WellFormed, RequestsIn
      <3>4. QED  BY <3>2, <3>3
    <2>5. QED
      BY <1>2, <1>7, <2>1, <2>3, <2>4 DEF PoolTypeOK, StoreSession, Pools
  <1>8. CASE AnswerOpening(q)
    <2>1. CASE r.opens \in Positions => Owner[r.opens] \in UserWallets
      <3>1. r.sess \in Sessions  BY <1>1, <1>8 DEF AnswerOpening, WellFormed, r
      <3>2. Shown(r.sess.range) \in Levels  BY <3>1, ShownType DEF Sessions
      <3> DEFINE d == [modal[r.by] EXCEPT !.shows = Shown(r.sess.range), !.missed = None]
      <3>3. d \in Dialogs  BY <1>1, <3>2 DEF Dialogs
      <3>4. modal' = [modal EXCEPT ![r.by] = d]  BY <1>8, <2>1 DEF AnswerOpening, Told, r
      <3> HIDE DEF d
      <3>5. QED  BY <1>1, <1>8, <3>3, <3>4, AnswerTypes DEF AnswerOpening, Ends
    <2>2. CASE ~(r.opens \in Positions => Owner[r.opens] \in UserWallets)
      BY <1>3, <1>8, <2>2 DEF AnswerOpening, r
    <2>3. QED  BY <2>1, <2>2
  <1>9. CASE PassGuard(q)
    <2> DEFINE new == [r EXCEPT !.at = "read"]
    <2>1. CASE session # None /\ ~session.position
      <3>1. new \in RequestsIn  BY <1>4 DEF Sliding
      <3>2. WellFormed(new)
        BY <1>1, <1>9 DEF PassGuard, WellFormed, RequestsIn, r, Opening, Sliding, Forming
      <3>3. req' = [req EXCEPT ![q] = new]  BY <1>9, <2>1 DEF PassGuard, r
      <3> HIDE DEF new
      <3>4. QED  BY <1>2, <1>9, <3>1, <3>2, <3>3, MoveTypes DEF PassGuard
    <2>2. QED  BY <1>3, <1>9, <2>1 DEF PassGuard
  <1>10. CASE ReadSession(q)
    <2> DEFINE sess == [session EXCEPT !.range = CorrectTicks(r.slider)]
               new == [r EXCEPT !.at = "write", !.sess = sess]
    <2>1. CASE session # None
      <3>1. r.slider \in Sliders
        BY <1>1, <1>10 DEF ReadSession, WellFormed, Sliding, r
      <3>2. CorrectTicks(r.slider) \in Ranges  BY <1>2, <3>1, CorrectTicksUsable
      <3>3. sess \in Sessions  BY <1>2, <2>1, <3>2 DEF Sessions
      <3> HIDE DEF sess
      <3>4. new \in RequestsIn  BY <1>1, <3>3 DEF RequestsIn, Sliding
      <3>5. WellFormed(new)
        BY <1>1, <3>1, <3>3 DEF WellFormed, RequestsIn, Opening, Sliding, Forming
      <3>6. req' = [req EXCEPT ![q] = new]  BY <1>2, <1>10, <2>1 DEF ReadSession, r, sess
      <3> HIDE DEF new
      <3>7. QED  BY <1>2, <1>10, <3>4, <3>5, <3>6, MoveTypes DEF ReadSession
    <2>2. QED  BY <1>3, <1>10, <2>1 DEF ReadSession
  <1>11. CASE WriteSession(q)
    <2>1. r.at = "write" /\ session' = r.sess /\ r.sess \in Sessions
      BY <1>1, <1>11 DEF WriteSession, WellFormed, r
    <2> DEFINE new == [r EXCEPT !.at = "moved"]
    <2>2. new \in RequestsIn  BY <1>4 DEF Sliding
    <2>3. /\ req' \in [Requests -> RequestsIn \union {None}]
          /\ req'[q] = new
          /\ \A x \in Requests \ {q} :
               /\ req[x] = None => req'[x] = None
               /\ req[x] # None => req'[x] = req[x] \/ req'[x] = [req[x] EXCEPT !.late = TRUE]
      <3>1. CASE r.late
        <4>1. new \in RequestsIn /\ new = [req[q] EXCEPT !.at = "moved"]  BY <2>2 DEF r
        <4>2. req[q] # None /\ req' = Replaced(q, "moved")
          BY <1>11, <3>1 DEF WriteSession, r
        <4> HIDE DEF new
        <4>3. QED  BY <4>1, <4>2, ReplacedType
      <3>2. CASE ~r.late
        <4>1. req' = [req EXCEPT ![q] = new]  BY <1>11, <3>2 DEF WriteSession, r
        <4> HIDE DEF new
        <4>2. QED  BY <1>2, <2>2, <4>1
      <3>3. QED  BY <3>1, <3>2
    <2>4. ASSUME NEW x \in Requests, req'[x] # None PROVE WellFormed(req[x])'
      <3>1. modal' = modal  BY <1>11 DEF WriteSession
      <3>2. CASE x = q
        BY <1>1, <2>1, <2>3, <3>1, <3>2 DEF WellFormed, RequestsIn, Opening, Sliding, Forming
      <3>3. CASE x # q
        <4>1. req[x] # None  BY <2>3, <2>4, <3>3
        <4>2. req[x] \in RequestsIn /\ WellFormed(req[x])  BY <4>1, RequestType
        <4>3. QED  BY <2>3, <3>1, <3>3, <4>1, <4>2 DEF WellFormed, RequestsIn
      <3>4. QED  BY <3>2, <3>3
    <2>5. QED
      BY <1>2, <1>11, <2>1, <2>3, <2>4 DEF PoolTypeOK, WriteSession, Pools
  <1>12. CASE AnswerSlide(q)
    <2>1. CASE InBounds(r.sess.range)
      <3>1. r.sess \in Sessions  BY <1>1, <1>12 DEF AnswerSlide, WellFormed, r
      <3>2. Shown(r.sess.range) \in Levels  BY <3>1, ShownType DEF Sessions
      <3> DEFINE d == [modal[r.by] EXCEPT !.shows = Shown(r.sess.range), !.missed = None]
      <3>3. d \in Dialogs  BY <1>1, <3>2 DEF Dialogs
      <3>4. modal' = [modal EXCEPT ![r.by] = d]  BY <1>12, <2>1 DEF AnswerSlide, Told, r
      <3> HIDE DEF d
      <3>5. QED  BY <1>1, <1>12, <3>3, <3>4, AnswerTypes DEF AnswerSlide, Ends
    <2>2. CASE ~InBounds(r.sess.range)
      BY <1>3, <1>12, <2>2 DEF AnswerSlide, r
    <2>3. QED  BY <2>1, <2>2
  <1>13. CASE LoadSession(q)
    <2> DEFINE new == [r EXCEPT !.at = "match", !.sess = session]
    <2>1. CASE session # None
      <3>1. session \in Sessions  BY <1>2, <2>1
      <3>2. new \in RequestsIn  BY <1>1, <3>1 DEF RequestsIn, Forming
      <3>3. WellFormed(new)
        BY <1>1, <1>13, <3>1 DEF LoadSession, WellFormed, RequestsIn, r, Opening, Sliding, Forming
      <3>4. req' = [req EXCEPT ![q] = new]  BY <1>2, <1>13, <2>1 DEF LoadSession, r
      <3> HIDE DEF new
      <3>5. QED  BY <1>2, <1>13, <3>2, <3>3, <3>4, MoveTypes DEF LoadSession
    <2>2. QED  BY <1>3, <1>13, <2>1 DEF LoadSession
  <1>14. CASE MatchPosition(q)
    <2>1. CASE InBounds(r.sess.range) /\ r.sess.range.lower < r.sess.range.upper
      <3>1. PICK p \in IF Matching(r.wallet, r.sess.range) = {} THEN {None}
                       ELSE Matching(r.wallet, r.sess.range) :
              req' = [req EXCEPT ![q].at = "approve", ![q].target = p]
        BY <1>14, <2>1 DEF MatchPosition, r
      <3>2. p \in Positions \union {None}  BY <1>2, <3>1 DEF Matching
      <3> DEFINE new == [r EXCEPT !.at = "approve", !.target = p]
      <3>3. new \in RequestsIn  BY <1>1, <3>2 DEF RequestsIn, Forming
      <3>4. WellFormed(new)
        BY <1>1, <1>14 DEF MatchPosition, WellFormed, RequestsIn, r, Opening, Sliding, Forming
      <3>5. req' = [req EXCEPT ![q] = new]  BY <1>2, <3>1 DEF r
      <3> HIDE DEF new
      <3>6. QED  BY <1>2, <1>14, <3>3, <3>4, <3>5, MoveTypes DEF MatchPosition
    <2>2. CASE ~(InBounds(r.sess.range) /\ r.sess.range.lower < r.sess.range.upper)
      BY <1>3, <1>14, <2>2 DEF MatchPosition, r
    <2>3. QED  BY <2>1, <2>2
  <1>15. CASE FormApprovals(q)
    <2> DEFINE new == [r EXCEPT !.at = "formed"]
    <2>1. CASE session # None
      <3>1. new \in RequestsIn  BY <1>4 DEF Forming
      <3>2. WellFormed(new)
        BY <1>1, <1>15 DEF FormApprovals, WellFormed, RequestsIn, r, Opening, Sliding, Forming
      <3>3. req' = [req EXCEPT ![q] = new]  BY <1>15, <2>1 DEF FormApprovals, r
      <3> HIDE DEF new
      <3>4. QED  BY <1>2, <1>15, <3>1, <3>2, <3>3, MoveTypes DEF FormApprovals
    <2>2. QED  BY <1>3, <1>15, <2>1 DEF FormApprovals
  <1>16. CASE AnswerTransaction(q)  BY <1>3, <1>16 DEF AnswerTransaction
  <1>17. QED
    BY <1>5, <1>6, <1>7, <1>8, <1>9, <1>10, <1>11, <1>12, <1>13, <1>14, <1>15, <1>16
       DEF RequestStep

LEMMA UserStepTypes ==
  ASSUME PoolTypeOK, NEW q \in Requests, NEW m \in Modals, UserStep(m, q)
  PROVE  PoolTypeOK'
  <1>1. ASSUME NEW purpose \in Purposes, Open(m, q, purpose) PROVE PoolTypeOK'
    <2> DEFINE new == [Blank(m) EXCEPT !.at = "pool", !.opens = purpose]
               d == [opens |-> purpose, shows |-> None, missed |-> None, alone |-> AllIdle]
    <2>1. new \in RequestsIn  BY DEF Blank, RequestsIn, Opening
    <2>2. d \in Dialogs /\ d # None
      <3>1. AllIdle \in BOOLEAN  BY DEF AllIdle
      <3>2. d \in Dialogs  BY <3>1 DEF Dialogs
      <3>3. QED  BY <3>2, NoneDiffers
    <2>3. modal' = [Disturbed(m, None) EXCEPT ![m] = d]  BY <1>1 DEF Open
    <2> HIDE DEF d
    <2>4. /\ modal' \in [Modals -> Dialogs \union {None}] /\ modal'[m] # None
          /\ \A x \in Modals : modal[x] # None => modal'[x] # None
      <3> DEFINE f == Disturbed(m, None)
      <3>1. /\ f \in [Modals -> Dialogs \union {None}]
            /\ \A x \in Modals \ {m} : modal[x] # None => f[x] # None
        BY DisturbedStay
      <3>2. modal' = [f EXCEPT ![m] = d]  BY <2>3
      <3> HIDE DEF f
      <3>3. QED  BY <2>2, <3>1, <3>2
    <2>5. WellFormed(new)'
      BY <2>4 DEF WellFormed, Blank, Opening, Sliding, Forming
    <2>6. req' = [req EXCEPT ![q] = new]  BY <1>1 DEF Open
    <2> HIDE DEF new
    <2>7. QED  BY <1>1, <2>1, <2>4, <2>5, <2>6, BeginTypes DEF Open
  <1>2. ASSUME NEW slider \in Sliders, Slide(m, q, slider) PROVE PoolTypeOK'
    <2> DEFINE new == [Blank(m) EXCEPT !.at = "guard", !.slider = slider]
               d == [modal[m] EXCEPT !.alone = modal[m].alone /\ Idle(m)]
    <2>1. new \in RequestsIn  BY DEF Blank, RequestsIn, Sliding
    <2>2. modal[m] \in Dialogs  BY <1>2 DEF PoolTypeOK, Slide
    <2>3. d \in Dialogs /\ d # None
      <3>1. Idle(m) \in BOOLEAN  BY DEF Idle
      <3>2. d \in Dialogs  BY <2>2, <3>1, AloneType
      <3>3. QED  BY <3>2, NoneDiffers
    <2>4. modal' = Disturbed(m, d)  BY <1>2 DEF Slide
    <2> HIDE DEF d
    <2>5. /\ modal' \in [Modals -> Dialogs \union {None}] /\ modal'[m] # None
          /\ \A x \in Modals : modal[x] # None => modal'[x] # None
      BY <2>3, <2>4, DisturbedStay
    <2>6. WellFormed(new)'
      BY <2>5 DEF WellFormed, Blank, Opening, Sliding, Forming
    <2>7. req' = [req EXCEPT ![q] = new]  BY <1>2 DEF Slide
    <2> HIDE DEF new
    <2>8. QED  BY <1>2, <2>1, <2>5, <2>6, <2>7, BeginTypes DEF Slide
  <1>3. ASSUME NEW wallet \in UserWallets, Submit(m, q, wallet) PROVE PoolTypeOK'
    <2> DEFINE new == [Blank(m) EXCEPT !.at = "load", !.wallet = wallet]
               d == [modal[m] EXCEPT !.alone = modal[m].alone /\ Idle(m)]
    <2>1. new \in RequestsIn  BY DEF Blank, RequestsIn, Forming
    <2>2. modal[m] \in Dialogs  BY <1>3 DEF PoolTypeOK, Submit
    <2>3. d \in Dialogs /\ d # None
      <3>1. Idle(m) \in BOOLEAN  BY DEF Idle
      <3>2. d \in Dialogs  BY <2>2, <3>1, AloneType
      <3>3. QED  BY <3>2, NoneDiffers
    <2>4. modal' = [modal EXCEPT ![m] = d]  BY <1>3 DEF Submit
    <2> HIDE DEF d
    <2>5. /\ modal' \in [Modals -> Dialogs \union {None}] /\ modal'[m] # None
          /\ \A x \in Modals : modal[x] # None => modal'[x] # None
      BY <2>3, <2>4 DEF PoolTypeOK
    <2>6. WellFormed(new)'
      BY <2>5 DEF WellFormed, Blank, Opening, Sliding, Forming
    <2>7. req' = [req EXCEPT ![q] = new]  BY <1>3 DEF Submit
    <2> HIDE DEF new
    <2>8. QED  BY <1>3, <2>1, <2>5, <2>6, <2>7, BeginTypes DEF Submit
  <1>4. QED  BY <1>1, <1>2, <1>3 DEF UserStep

LEMMA StillTypes ==
  ASSUME PoolTypeOK, UNCHANGED <<modal, req>>, pool' \in Pools,
         held' \subseteq Positions, session' \in Sessions \union {None}
  PROVE  PoolTypeOK'
  BY DEF PoolTypeOK, WellFormed, Pools

LEMMA TypeStep ==
  ASSUME PoolTypeOK, [Next]_vars
  PROVE  PoolTypeOK'
  <1>1. /\ pool \in Pools /\ held \subseteq Positions /\ session \in Sessions \union {None}
    BY DEF PoolTypeOK, Pools
  <1>2. ASSUME NEW q \in Requests, RequestStep(q) PROVE PoolTypeOK'
    BY <1>2, RequestStepTypes
  <1>3. ASSUME NEW q \in Requests, NEW m \in Modals, UserStep(m, q) PROVE PoolTypeOK'
    BY <1>3, UserStepTypes
  <1>4. CASE SessionExpires  BY <1>1, <1>4, StillTypes DEF SessionExpires
  <1>5. CASE PoolMoves
    <2>1. pool' \in Pools  BY <1>1, <1>5 DEF PoolMoves, Pools
    <2>2. QED  BY <1>1, <1>5, <2>1, StillTypes DEF PoolMoves
  <1>6. CASE PositionMinted  BY <1>1, <1>6, StillTypes DEF PositionMinted
  <1>7. CASE UNCHANGED vars  BY <1>1, <1>7, StillTypes DEF vars
  <1>8. QED  BY <1>2, <1>3, <1>4, <1>5, <1>6, <1>7 DEF Next

-------------------------------------------------------------------------------
(* What each step does, as the other invariants need it.                      *)

Same(r, n) == /\ n # None
              /\ n.by = r.by /\ n.opens = r.opens /\ n.slider = r.slider
              /\ n.wallet = r.wallet

(* The other requests stay, but for being marked late.                        *)
OthersSame(q) ==
  \A x \in Requests \ {q} :
    /\ req[x] = None => req'[x] = None
    /\ req[x] # None =>
         /\ Same(req[x], req'[x])
         /\ req'[x].at = req[x].at /\ req'[x].sess = req[x].sess
         /\ req'[x].target = req[x].target
         /\ ~req'[x].late => ~req[x].late

(* The chain stays; the session and the dialogs stay.                         *)
SessionSame == session' = session
Calm == pool' = pool /\ held' = held

EndFacts(q) == /\ req[q].at # "moved"
               /\ req'[q] = None /\ SessionSame /\ modal' = modal

PoolFacts(q) ==
  /\ req[q].at = "pool" /\ req'[q].at = "store" /\ Same(req[q], req'[q])
  /\ req'[q].sess \in Sessions /\ UsableTicks(req'[q].sess.range)
  /\ req[q].opens \in Positions =>
       req'[q].sess.position /\ req'[q].sess.range = RangeOf[req[q].opens]
  /\ SessionSame /\ modal' = modal

StoreFacts(q) ==
  /\ req[q].at = "store" /\ req'[q].at = "details" /\ Same(req[q], req'[q])
  /\ req'[q].sess = req[q].sess
  /\ session' = req[q].sess /\ modal' = modal
  /\ \A x \in Requests \ {q} :
       req[x] # None /\ req[x].at \in {"read", "write"} => req'[x].late

Tells(q) == /\ modal' = Told(req[q].by, req[q].sess.range)
            /\ Shown(req[q].sess.range) # None

Loses(q) == /\ modal' = Misses(req[q].by, req[q].sess.range)
            /\ Shown(req[q].sess.range) # None

DetailsFacts(q) ==
  /\ req[q].at = "details" /\ req'[q] = None /\ SessionSame /\ Tells(q)

GuardFacts(q) ==
  /\ req[q].at = "guard" /\ req'[q].at = "read" /\ Same(req[q], req'[q])
  /\ req'[q].sess = req[q].sess /\ session # None /\ ~session.position
  /\ SessionSame /\ modal' = modal

ReadFacts(q) ==
  /\ req[q].at = "read" /\ req'[q].at = "write" /\ Same(req[q], req'[q])
  /\ session # None
  /\ req'[q].sess.position = session.position /\ req'[q].sess.tick = session.tick
  /\ req'[q].sess.range = CorrectTicks(req[q].slider)
  /\ UsableTicks(req'[q].sess.range)
  /\ req[q].slider \in Sliders /\ req'[q].late = req[q].late
  /\ SessionSame /\ modal' = modal

WriteFacts(q) ==
  /\ req[q].at = "write" /\ req'[q].at = "moved" /\ Same(req[q], req'[q])
  /\ req'[q].sess = req[q].sess /\ req[q].sess \in Sessions
  /\ session' = req[q].sess /\ modal' = modal
  /\ req[q].late => \A x \in Requests \ {q} :
       req[x] # None /\ req[x].at \in {"read", "write"} => req'[x].late

MovedFacts(q) ==
  /\ req[q].at = "moved" /\ req'[q] = None /\ SessionSame
  /\ \/ InBounds(req[q].sess.range) /\ Tells(q)
     \/ ~InBounds(req[q].sess.range) /\ modal' = modal
     \/ Loses(q)

LoadFacts(q) ==
  /\ req[q].at = "load" /\ req'[q].at = "match" /\ Same(req[q], req'[q])
  /\ session # None /\ req'[q].sess = session
  /\ SessionSame /\ modal' = modal

MatchFacts(q) ==
  /\ req[q].at = "match" /\ req'[q].at = "approve" /\ Same(req[q], req'[q])
  /\ req'[q].sess = req[q].sess /\ InBounds(req[q].sess.range)
  /\ Matching(req[q].wallet, req[q].sess.range) # {} =>
       req'[q].target \in Matching(req[q].wallet, req[q].sess.range)
  /\ SessionSame /\ modal' = modal

ApproveFacts(q) ==
  /\ req[q].at = "approve" /\ req'[q].at = "formed" /\ Same(req[q], req'[q])
  /\ req'[q].sess = req[q].sess /\ req'[q].target = req[q].target
  /\ SessionSame /\ modal' = modal

StepFacts(q) ==
  /\ req[q] # None /\ Calm /\ OthersSame(q)
  /\ \/ EndFacts(q) \/ PoolFacts(q) \/ StoreFacts(q) \/ DetailsFacts(q)
     \/ GuardFacts(q) \/ ReadFacts(q) \/ WriteFacts(q) \/ MovedFacts(q)
     \/ LoadFacts(q) \/ MatchFacts(q) \/ ApproveFacts(q)

LEMMA OnlyOneMoves ==
  ASSUME PoolTypeOK, NEW q \in Requests, NEW r, req' = [req EXCEPT ![q] = r]
  PROVE  OthersSame(q) /\ req'[q] = r
  <1>1. \A x \in Requests \ {q} : req'[x] = req[x]  BY DEF PoolTypeOK
  <1>2. req'[q] = r  BY DEF PoolTypeOK
  <1>3. QED  BY <1>1, <1>2 DEF OthersSame, Same

LEMMA OthersLate ==
  ASSUME PoolTypeOK, NEW q \in Requests, req[q] # None,
         NEW next \in Opening \union Sliding \union Forming, req' = Replaced(q, next)
  PROVE  /\ OthersSame(q)
         /\ Same(req[q], req'[q]) /\ req'[q].at = next /\ req'[q].sess = req[q].sess
         /\ \A x \in Requests \ {q} :
              req[x] # None /\ req[x].at \in {"read", "write"} => req'[x].late
  <1>1. \A x \in Requests : req[x] # None => req[x] \in RequestsIn  BY DEF PoolTypeOK
  <1>2. /\ [req[q] EXCEPT !.at = next] \in RequestsIn
        /\ Same(req[q], [req[q] EXCEPT !.at = next])
        /\ [req[q] EXCEPT !.at = next].at = next
        /\ [req[q] EXCEPT !.at = next].sess = req[q].sess
    BY <1>1, NoneDiffers DEF RequestsIn, Same
  <1>3. req'[q] = [req[q] EXCEPT !.at = next]  BY DEF Replaced
  <1>4. ASSUME NEW x \in Requests \ {q}
        PROVE  /\ req[x] = None => req'[x] = None
               /\ req[x] # None =>
                    /\ Same(req[x], req'[x])
                    /\ req'[x].at = req[x].at /\ req'[x].sess = req[x].sess
                    /\ req'[x].target = req[x].target
                    /\ ~req'[x].late => ~req[x].late
                    /\ req[x].at \in {"read", "write"} => req'[x].late
    <2>1. CASE req[x] # None /\ req[x].at \in {"read", "write"}
      <3>1. req'[x] = [req[x] EXCEPT !.late = TRUE]  BY <2>1 DEF Replaced
      <3>2. [req[x] EXCEPT !.late = TRUE] \in RequestsIn  BY <1>1, <2>1 DEF RequestsIn
      <3>3. QED  BY <1>1, <2>1, <3>1, <3>2, NoneDiffers DEF RequestsIn, Same
    <2>2. CASE ~(req[x] # None /\ req[x].at \in {"read", "write"})
      <3>1. req'[x] = req[x]  BY <2>2 DEF Replaced
      <3>2. QED  BY <2>2, <3>1 DEF Same
    <2>3. QED  BY <2>1, <2>2
  <1>5. QED  BY <1>2, <1>3, <1>4 DEF OthersSame

LEMMA RequestFacts ==
  ASSUME PoolTypeOK, NEW q \in Requests, RequestStep(q)
  PROVE  StepFacts(q)
  <1> DEFINE r == req[q]
  <1>1. r # None
    BY DEF RequestStep, Fails, ReadPool, StoreSession, AnswerOpening, PassGuard,
           ReadSession, WriteSession, AnswerSlide, LoadSession, MatchPosition,
           FormApprovals, AnswerTransaction
  <1>2. /\ r \in RequestsIn /\ WellFormed(r) /\ pool \in Pools
        /\ session \in Sessions \union {None} /\ req \in [Requests -> RequestsIn \union {None}]
    BY <1>1, RequestType DEF PoolTypeOK, Pools
  <1>3. Calm
    BY DEF Calm, RequestStep, Fails, ReadPool, StoreSession, AnswerOpening, PassGuard,
           ReadSession, WriteSession, AnswerSlide, LoadSession, MatchPosition,
           FormApprovals, AnswerTransaction
  <1>4. ASSUME Ends(q) PROVE OthersSame(q) /\ req'[q] = None
    BY <1>4, OnlyOneMoves DEF Ends
  <1>5. ASSUME Ends(q), r.at # "moved", UNCHANGED <<pool, held, session, modal>>
        PROVE  StepFacts(q)
    BY <1>1, <1>3, <1>4, <1>5 DEF StepFacts, EndFacts, SessionSame, r
  <1>6. ASSUME NEW at \in Opening \union Sliding \union Forming
        PROVE  /\ Same(r, [r EXCEPT !.at = at]) /\ [r EXCEPT !.at = at].at = at
               /\ [r EXCEPT !.at = at].sess = r.sess
               /\ [r EXCEPT !.at = at].target = r.target
    <2>1. [r EXCEPT !.at = at] \in RequestsIn  BY <1>2 DEF RequestsIn
    <2>2. QED  BY <1>2, <2>1, NoneDiffers DEF RequestsIn, Same
  <1>7. ASSUME NEW at \in Opening \union Sliding \union Forming, NEW sess \in Sessions
        PROVE  LET n == [r EXCEPT !.at = at, !.sess = sess]
               IN  Same(r, n) /\ n.at = at /\ n.sess = sess /\ n.late = r.late
    <2>1. [r EXCEPT !.at = at, !.sess = sess] \in RequestsIn  BY <1>2 DEF RequestsIn
    <2>2. QED  BY <1>2, <2>1, NoneDiffers DEF RequestsIn, Same
  <1>8. ASSUME NEW p \in Positions \union {None}
        PROVE  LET n == [r EXCEPT !.at = "approve", !.target = p]
               IN  Same(r, n) /\ n.at = "approve" /\ n.sess = r.sess /\ n.target = p
    <2>1. [r EXCEPT !.at = "approve", !.target = p] \in RequestsIn
      BY <1>2 DEF RequestsIn, Forming
    <2>2. QED  BY <1>2, <2>1, NoneDiffers DEF RequestsIn, Same
  <1> HIDE DEF r
  <1>9. CASE Fails(q)
    <2>1. CASE r.at = "moved"
      <3>1. r.sess \in Sessions  BY <1>2, <2>1 DEF WellFormed
      <3>2. Shown(r.sess.range) # None  BY <3>1, ShownType DEF Sessions
      <3>3. Loses(q)  BY <1>9, <2>1, <3>2 DEF Fails, Loses, r
      <3>4. OthersSame(q) /\ req'[q] = None  BY <1>4, <1>9 DEF Fails
      <3>5. MovedFacts(q)
        BY <1>9, <2>1, <3>3, <3>4 DEF MovedFacts, Fails, SessionSame, r
      <3>6. QED  BY <1>1, <1>3, <3>4, <3>5 DEF StepFacts, r
    <2>2. CASE r.at # "moved"  BY <1>5, <1>9, <2>2 DEF Fails, r
    <2>3. QED  BY <2>1, <2>2
  <1>10. CASE ReadPool(q)
    <2> DEFINE range == IF r.opens \in Positions THEN RangeOf[r.opens]
                        ELSE DefaultTicks(pool.tick)
               sess == [position |-> r.opens \in Positions, range |-> range,
                        tick |-> pool.tick]
               new == [r EXCEPT !.at = "store", !.sess = sess]
    <2>1. CASE r.opens \in Positions \/ DefaultTicksExist(pool.tick)
      <3>1. pool.tick \in PoolTicks  BY <1>2 DEF Pools
      <3>2. range \in Ranges /\ UsableTicks(range)
        BY <2>1, <3>1, DefaultTicksUsable, PositionUsable
      <3>3. r.opens \in Positions => range = RangeOf[r.opens]  OBVIOUS
      <3> HIDE DEF range
      <3>4. /\ sess \in Sessions /\ sess.range = range
            /\ r.opens \in Positions => sess.position
        <4>1. (r.opens \in Positions) \in BOOLEAN  OBVIOUS
        <4>2. sess \in Sessions  BY <3>1, <3>2, <4>1 DEF Sessions
        <4>3. sess.range = range  OBVIOUS
        <4>4. r.opens \in Positions => sess.position  OBVIOUS
        <4>5. QED  BY <4>2, <4>3, <4>4
      <3>5. req' = [req EXCEPT ![q] = new]
        BY <1>2, <1>10, <2>1 DEF ReadPool, r, range
      <3> HIDE DEF sess
      <3>6. "store" \in Opening \union Sliding \union Forming  BY DEF Opening
      <3>7. Same(r, new) /\ new.at = "store" /\ new.sess = sess
        BY <1>7, <3>4, <3>6
      <3> HIDE DEF new
      <3>8. OthersSame(q) /\ req'[q] = new  BY <3>5, OnlyOneMoves
      <3>9. PoolFacts(q)
        BY <1>10, <3>2, <3>3, <3>4, <3>7, <3>8 DEF PoolFacts, ReadPool, SessionSame, r
      <3>10. QED  BY <1>1, <1>3, <3>8, <3>9 DEF StepFacts, r
    <2>2. CASE ~(r.opens \in Positions \/ DefaultTicksExist(pool.tick))
      BY <1>5, <1>10, <2>2 DEF ReadPool, r
    <2>3. QED  BY <2>1, <2>2
  <1>11. CASE StoreSession(q)
    <2>1. "details" \in Opening \union Sliding \union Forming  BY DEF Opening
    <2>2. req' = Replaced(q, "details")  BY <1>11 DEF StoreSession
    <2>3. /\ OthersSame(q)
          /\ Same(req[q], req'[q]) /\ req'[q].at = "details" /\ req'[q].sess = req[q].sess
          /\ \A x \in Requests \ {q} :
               req[x] # None /\ req[x].at \in {"read", "write"} => req'[x].late
      BY <1>1, <2>1, <2>2, OthersLate DEF r
    <2>4. StoreFacts(q)  BY <1>11, <2>3 DEF StoreFacts, StoreSession
    <2>5. QED  BY <1>1, <1>3, <2>3, <2>4 DEF StepFacts, r
  <1>12. CASE AnswerOpening(q)
    <2>1. CASE r.opens \in Positions => Owner[r.opens] \in UserWallets
      <3>1. r.sess \in Sessions  BY <1>2, <1>12 DEF AnswerOpening, WellFormed, r
      <3>2. Shown(r.sess.range) # None  BY <3>1, ShownType DEF Sessions
      <3>3. Tells(q)  BY <1>12, <2>1, <3>2 DEF AnswerOpening, Tells, r
      <3>4. OthersSame(q) /\ req'[q] = None  BY <1>4, <1>12 DEF AnswerOpening
      <3>5. DetailsFacts(q)
        BY <1>12, <3>3, <3>4 DEF DetailsFacts, AnswerOpening, SessionSame
      <3>6. QED  BY <1>1, <1>3, <3>4, <3>5 DEF StepFacts, r
    <2>2. CASE ~(r.opens \in Positions => Owner[r.opens] \in UserWallets)
      BY <1>5, <1>12, <2>2 DEF AnswerOpening, r
    <2>3. QED  BY <2>1, <2>2
  <1>13. CASE PassGuard(q)
    <2> DEFINE new == [r EXCEPT !.at = "read"]
    <2>1. CASE session # None /\ ~session.position
      <3>1. req' = [req EXCEPT ![q] = new]  BY <1>13, <2>1 DEF PassGuard, r
      <3>2. "read" \in Opening \union Sliding \union Forming  BY DEF Sliding
      <3>3. Same(r, new) /\ new.at = "read" /\ new.sess = r.sess  BY <1>6, <3>2
      <3> HIDE DEF new
      <3>4. OthersSame(q) /\ req'[q] = new  BY <3>1, OnlyOneMoves
      <3>5. GuardFacts(q)
        BY <1>13, <2>1, <3>3, <3>4 DEF GuardFacts, PassGuard, SessionSame, r
      <3>6. QED  BY <1>1, <1>3, <3>4, <3>5 DEF StepFacts, r
    <2>2. QED  BY <1>5, <1>13, <2>1 DEF PassGuard, r
  <1>14. CASE ReadSession(q)
    <2> DEFINE range == CorrectTicks(r.slider)
               sess == [session EXCEPT !.range = range]
               new == [r EXCEPT !.at = "write", !.sess = sess]
    <2>1. CASE session # None
      <3>1. r.slider \in Sliders
        BY <1>2, <1>14 DEF ReadSession, WellFormed, Sliding, r
      <3>2. range \in Ranges /\ UsableTicks(range)  BY <1>2, <3>1, CorrectTicksUsable
      <3>3. range = CorrectTicks(r.slider)  OBVIOUS
      <3> HIDE DEF range
      <3>4. /\ sess \in Sessions /\ sess.range = range
            /\ sess.position = session.position /\ sess.tick = session.tick
        <4>1. session \in Sessions  BY <1>2, <2>1
        <4>2. sess \in Sessions  BY <4>1, <3>2 DEF Sessions
        <4>3. QED  BY <4>1, <4>2, <3>2 DEF Sessions
      <3>5. req' = [req EXCEPT ![q] = new]
        BY <1>2, <1>14, <2>1 DEF ReadSession, r, range
      <3> HIDE DEF sess
      <3>6. "write" \in Opening \union Sliding \union Forming  BY DEF Sliding
      <3>7. Same(r, new) /\ new.at = "write" /\ new.sess = sess /\ new.late = r.late
        BY <1>7, <3>4, <3>6
      <3> HIDE DEF new
      <3>8. OthersSame(q) /\ req'[q] = new  BY <3>5, OnlyOneMoves
      <3>9. ReadFacts(q)
        BY <1>14, <2>1, <3>1, <3>2, <3>3, <3>4, <3>7, <3>8
           DEF ReadFacts, ReadSession, SessionSame, r
      <3>10. QED  BY <1>1, <1>3, <3>8, <3>9 DEF StepFacts, r
    <2>2. QED  BY <1>5, <1>14, <2>1 DEF ReadSession, r
  <1>15. CASE WriteSession(q)
    <2>1. "moved" \in Opening \union Sliding \union Forming  BY DEF Sliding
    <2>2. r.sess \in Sessions  BY <1>2, <1>15 DEF WriteSession, WellFormed, r
    <2>3. CASE r.late
      <3>1. req' = Replaced(q, "moved")  BY <1>15, <2>3 DEF WriteSession, r
      <3>2. /\ OthersSame(q)
            /\ Same(req[q], req'[q]) /\ req'[q].at = "moved" /\ req'[q].sess = req[q].sess
            /\ \A x \in Requests \ {q} :
                 req[x] # None /\ req[x].at \in {"read", "write"} => req'[x].late
        BY <1>1, <2>1, <3>1, OthersLate DEF r
      <3>3. WriteFacts(q)  BY <1>15, <2>2, <3>2 DEF WriteFacts, WriteSession, r
      <3>4. QED  BY <1>1, <1>3, <3>2, <3>3 DEF StepFacts, r
    <2>4. CASE ~r.late
      <3> DEFINE new == [r EXCEPT !.at = "moved"]
      <3>1. req' = [req EXCEPT ![q] = new]  BY <1>15, <2>4 DEF WriteSession, r
      <3>2. Same(r, new) /\ new.at = "moved" /\ new.sess = r.sess  BY <1>6, <2>1
      <3> HIDE DEF new
      <3>3. OthersSame(q) /\ req'[q] = new  BY <3>1, OnlyOneMoves
      <3>4. WriteFacts(q)
        BY <1>15, <2>2, <2>4, <3>2, <3>3 DEF WriteFacts, WriteSession, r
      <3>5. QED  BY <1>1, <1>3, <3>3, <3>4 DEF StepFacts, r
    <2>5. QED  BY <2>3, <2>4
  <1>16. CASE AnswerSlide(q)
    <2>1. OthersSame(q) /\ req'[q] = None  BY <1>4, <1>16 DEF AnswerSlide
    <2>2. r.sess \in Sessions  BY <1>2, <1>16 DEF AnswerSlide, WellFormed, r
    <2>3. Shown(r.sess.range) # None  BY <2>2, ShownType DEF Sessions
    <2>4. CASE InBounds(r.sess.range)
      <3>1. Tells(q)  BY <1>16, <2>3, <2>4 DEF AnswerSlide, Tells, r
      <3>2. MovedFacts(q)
        BY <1>16, <2>1, <2>4, <3>1 DEF MovedFacts, AnswerSlide, SessionSame, r
      <3>3. QED  BY <1>1, <1>3, <2>1, <3>2 DEF StepFacts, r
    <2>5. CASE ~InBounds(r.sess.range)
      <3>1. MovedFacts(q)
        BY <1>16, <2>1, <2>5 DEF MovedFacts, AnswerSlide, SessionSame, r
      <3>2. QED  BY <1>1, <1>3, <2>1, <3>1 DEF StepFacts, r
    <2>6. QED  BY <2>4, <2>5
  <1>17. CASE LoadSession(q)
    <2> DEFINE new == [r EXCEPT !.at = "match", !.sess = session]
    <2>1. CASE session # None
      <3>1. req' = [req EXCEPT ![q] = new]  BY <1>2, <1>17, <2>1 DEF LoadSession, r
      <3>2. "match" \in Opening \union Sliding \union Forming  BY DEF Forming
      <3>3. session \in Sessions  BY <1>2, <2>1
      <3>4. Same(r, new) /\ new.at = "match" /\ new.sess = session  BY <1>7, <3>2, <3>3
      <3> HIDE DEF new
      <3>5. OthersSame(q) /\ req'[q] = new  BY <3>1, OnlyOneMoves
      <3>6. LoadFacts(q)
        BY <1>17, <2>1, <3>4, <3>5 DEF LoadFacts, LoadSession, SessionSame, r
      <3>7. QED  BY <1>1, <1>3, <3>5, <3>6 DEF StepFacts, r
    <2>2. QED  BY <1>5, <1>17, <2>1 DEF LoadSession, r
  <1>18. CASE MatchPosition(q)
    <2>1. CASE InBounds(r.sess.range) /\ r.sess.range.lower < r.sess.range.upper
      <3>1. PICK p \in IF Matching(r.wallet, r.sess.range) = {} THEN {None}
                       ELSE Matching(r.wallet, r.sess.range) :
              req' = [req EXCEPT ![q].at = "approve", ![q].target = p]
        BY <1>18, <2>1 DEF MatchPosition, r
      <3>2. /\ p \in Positions \union {None}
            /\ Matching(r.wallet, r.sess.range) # {} => p \in Matching(r.wallet, r.sess.range)
        BY <3>1 DEF Matching, PoolTypeOK
      <3> DEFINE new == [r EXCEPT !.at = "approve", !.target = p]
      <3>3. req' = [req EXCEPT ![q] = new]  BY <1>2, <3>1 DEF r
      <3>4. /\ Same(r, new) /\ new.at = "approve" /\ new.sess = r.sess /\ new.target = p
        BY <1>8, <3>2
      <3> HIDE DEF new
      <3>5. OthersSame(q) /\ req'[q] = new  BY <3>3, OnlyOneMoves
      <3>6. MatchFacts(q)
        BY <1>18, <2>1, <3>2, <3>4, <3>5 DEF MatchFacts, MatchPosition, SessionSame, r
      <3>7. QED  BY <1>1, <1>3, <3>5, <3>6 DEF StepFacts, r
    <2>2. CASE ~(InBounds(r.sess.range) /\ r.sess.range.lower < r.sess.range.upper)
      BY <1>5, <1>18, <2>2 DEF MatchPosition, r
    <2>3. QED  BY <2>1, <2>2
  <1>19. CASE FormApprovals(q)
    <2> DEFINE new == [r EXCEPT !.at = "formed"]
    <2>1. CASE session # None
      <3>1. req' = [req EXCEPT ![q] = new]  BY <1>19, <2>1 DEF FormApprovals, r
      <3>2. "formed" \in Opening \union Sliding \union Forming  BY DEF Forming
      <3>3. /\ Same(r, new) /\ new.at = "formed" /\ new.sess = r.sess
            /\ new.target = r.target
        BY <1>6, <3>2
      <3> HIDE DEF new
      <3>4. OthersSame(q) /\ req'[q] = new  BY <3>1, OnlyOneMoves
      <3>5. ApproveFacts(q)
        BY <1>19, <3>3, <3>4 DEF ApproveFacts, FormApprovals, SessionSame, r
      <3>6. QED  BY <1>1, <1>3, <3>4, <3>5 DEF StepFacts, r
    <2>2. QED  BY <1>5, <1>19, <2>1 DEF FormApprovals, r
  <1>20. CASE AnswerTransaction(q)  BY <1>5, <1>20 DEF AnswerTransaction, r
  <1>21. QED
    BY <1>9, <1>10, <1>11, <1>12, <1>13, <1>14, <1>15, <1>16, <1>17, <1>18, <1>19, <1>20
       DEF RequestStep

-------------------------------------------------------------------------------
(* What a user's action does.                                                 *)

BeginFacts(m, q) ==
  /\ req[q] = None /\ req'[q] # None /\ Calm /\ SessionSame
  /\ req'[q].by = m /\ req'[q].sess = None
  /\ \A x \in Requests \ {q} : req'[x] = req[x]
  /\ modal'[m] # None
  /\ \A x \in Modals \ {m} : modal'[x] # None =>
       /\ modal[x] # None /\ modal'[x].opens = modal[x].opens
       /\ modal'[x].shows = modal[x].shows /\ modal'[x].missed = modal[x].missed
       /\ modal'[x].alone => modal[x].alone

OpenFacts(m, q) ==
  /\ req'[q].at = "pool" /\ req'[q].opens = modal'[m].opens
  /\ modal'[m].opens \in Positions => modal'[m].opens \in held
  /\ modal'[m].shows = None /\ modal'[m].missed = None
  /\ modal'[m].alone => AllIdle
  /\ \A x \in Modals \ {m} : modal'[x] # None => ~modal'[x].alone

ContinueFacts(m, q) ==
  /\ modal[m] # None /\ modal[m].shows # None
  /\ modal'[m].opens = modal[m].opens /\ modal'[m].shows = modal[m].shows
  /\ modal'[m].missed = modal[m].missed
  /\ modal'[m].alone => modal[m].alone /\ Idle(m)

SlideFacts(m, q) ==
  /\ req'[q].at = "guard" /\ ContinueFacts(m, q)
  /\ \A x \in Modals \ {m} : modal'[x] # None => ~modal'[x].alone

SubmitFacts(m, q) == req'[q].at = "load" /\ ContinueFacts(m, q)

LEMMA UserFacts ==
  ASSUME PoolTypeOK, NEW q \in Requests, NEW m \in Modals, UserStep(m, q)
  PROVE  /\ BeginFacts(m, q)
         /\ OpenFacts(m, q) \/ SlideFacts(m, q) \/ SubmitFacts(m, q)
  <1>1. /\ modal \in [Modals -> Dialogs \union {None}]
        /\ req \in [Requests -> RequestsIn \union {None}]
    BY DEF PoolTypeOK
  <1>2. ASSUME NEW f, \/ f = Disturbed(m, f[m])
                     \/ f = [Disturbed(m, None) EXCEPT ![m] = f[m]]
        PROVE  \A x \in Modals \ {m} : f[x] # None =>
                 /\ modal[x] # None /\ f[x].opens = modal[x].opens
                 /\ f[x].shows = modal[x].shows /\ f[x].missed = modal[x].missed
                 /\ ~f[x].alone
    <2> TAKE x \in Modals \ {m}
    <2> HAVE f[x] # None
    <2>1. f[x] = IF modal[x] = None THEN None ELSE [modal[x] EXCEPT !.alone = FALSE]
      BY <1>2 DEF Disturbed
    <2>2. modal[x] # None  BY <2>1
    <2>3. modal[x] \in Dialogs  BY <1>1, <2>2
    <2>4. QED  BY <2>1, <2>2, <2>3 DEF Dialogs
  <1>3. ASSUME NEW purpose \in Purposes, Open(m, q, purpose)
        PROVE  BeginFacts(m, q) /\ OpenFacts(m, q)
    <2> DEFINE new == [Blank(m) EXCEPT !.at = "pool", !.opens = purpose]
               d == [opens |-> purpose, shows |-> None, missed |-> None, alone |-> AllIdle]
    <2>1. /\ new \in RequestsIn /\ new.by = m /\ new.sess = None
          /\ new.at = "pool" /\ new.opens = purpose
      BY DEF Blank, RequestsIn, Opening
    <2>2. /\ d \in Dialogs /\ d.opens = purpose
          /\ d.shows = None /\ d.missed = None
      <3>1. AllIdle \in BOOLEAN  BY DEF AllIdle
      <3>2. QED  BY <3>1 DEF Dialogs
    <2>3. d.alone = AllIdle  OBVIOUS
    <2>4. modal' = [Disturbed(m, None) EXCEPT ![m] = d]  BY <1>3 DEF Open
    <2>5. req' = [req EXCEPT ![q] = new]  BY <1>3 DEF Open
    <2> HIDE DEF new, d
    <2>6. modal'[m] = d  BY <2>4 DEF Disturbed
    <2>7. \A x \in Modals \ {m} : modal'[x] # None =>
            /\ modal[x] # None /\ modal'[x].opens = modal[x].opens
            /\ modal'[x].shows = modal[x].shows /\ modal'[x].missed = modal[x].missed
            /\ ~modal'[x].alone
      BY <1>2, <2>4, <2>6
    <2>8. req'[q] = new /\ \A x \in Requests \ {q} : req'[x] = req[x]
      BY <1>1, <2>5
    <2>9. BeginFacts(m, q)
      BY <1>3, <2>1, <2>2, <2>6, <2>7, <2>8, NoneDiffers
         DEF BeginFacts, Open, Calm, SessionSame
    <2>10. OpenFacts(m, q)
      <3>1. purpose \in Positions => purpose \in held
        BY <1>3, PoolAssumption DEF Open, PoolAssumption
      <3>2. /\ modal'[m].opens = purpose
            /\ modal'[m].shows = None /\ modal'[m].missed = None
        BY <2>2, <2>6
      <3>3. modal'[m].alone => AllIdle  BY <2>3, <2>6
      <3>4. req'[q].at = "pool" /\ req'[q].opens = purpose  BY <2>1, <2>8
      <3>5. \A x \in Modals \ {m} : modal'[x] # None => ~modal'[x].alone  BY <2>7
      <3>6. modal'[m].opens \in Positions => modal'[m].opens \in held  BY <3>1, <3>2
      <3>7. req'[q].opens = modal'[m].opens  BY <3>2, <3>4
      <3>8. QED  BY <3>2, <3>3, <3>4, <3>5, <3>6, <3>7 DEF OpenFacts
    <2>11. QED  BY <2>9, <2>10
  <1>4. modal[m] \in Dialogs /\ modal[m] # None =>
          LET d == [modal[m] EXCEPT !.alone = modal[m].alone /\ Idle(m)]
          IN  /\ d \in Dialogs /\ d.opens = modal[m].opens /\ d.shows = modal[m].shows
              /\ d.missed = modal[m].missed
              /\ d.alone => modal[m].alone /\ Idle(m)
    <2> HAVE modal[m] \in Dialogs /\ modal[m] # None
    <2> DEFINE a == modal[m].alone /\ Idle(m)
               d == [modal[m] EXCEPT !.alone = a]
    <2>1. a \in BOOLEAN  BY DEF Idle
    <2>2. a => modal[m].alone /\ Idle(m)  OBVIOUS
    <2> HIDE DEF a
    <2>3. /\ d \in Dialogs /\ d.opens = modal[m].opens /\ d.shows = modal[m].shows
          /\ d.missed = modal[m].missed /\ d.alone = a
      BY <2>1 DEF Dialogs
    <2>4. QED  BY <2>2, <2>3 DEF a
  <1>5. ASSUME NEW slider \in Sliders, Slide(m, q, slider)
        PROVE  BeginFacts(m, q) /\ SlideFacts(m, q)
    <2> DEFINE new == [Blank(m) EXCEPT !.at = "guard", !.slider = slider]
               d == [modal[m] EXCEPT !.alone = modal[m].alone /\ Idle(m)]
    <2>1. new \in RequestsIn /\ new.by = m /\ new.sess = None /\ new.at = "guard"
      BY DEF Blank, RequestsIn, Sliding
    <2>2. modal[m] # None /\ modal[m] \in Dialogs /\ modal[m].shows # None
      BY <1>1, <1>5 DEF Slide
    <2>3. /\ d \in Dialogs /\ d.opens = modal[m].opens /\ d.shows = modal[m].shows
          /\ d.missed = modal[m].missed
          /\ d.alone => modal[m].alone /\ Idle(m)
      BY <1>4, <2>2
    <2>4. modal' = Disturbed(m, d)  BY <1>5 DEF Slide
    <2>5. req' = [req EXCEPT ![q] = new]  BY <1>5 DEF Slide
    <2> HIDE DEF new, d
    <2>6. modal'[m] = d  BY <2>4 DEF Disturbed
    <2>7. \A x \in Modals \ {m} : modal'[x] # None =>
            /\ modal[x] # None /\ modal'[x].opens = modal[x].opens
            /\ modal'[x].shows = modal[x].shows /\ modal'[x].missed = modal[x].missed
            /\ ~modal'[x].alone
      BY <1>2, <2>4, <2>6
    <2>8. req'[q] = new /\ \A x \in Requests \ {q} : req'[x] = req[x]
      BY <1>1, <2>5
    <2>9. BeginFacts(m, q)
      <3>1. req[q] = None /\ Calm /\ SessionSame  BY <1>5 DEF Slide, Calm, SessionSame
      <3>2. modal'[m] # None /\ req'[q] # None  BY <2>1, <2>3, <2>6, <2>8, NoneDiffers
      <3>3. QED  BY <2>1, <2>7, <2>8, <3>1, <3>2 DEF BeginFacts
    <2>10. SlideFacts(m, q)
      BY <2>1, <2>2, <2>3, <2>6, <2>7, <2>8 DEF SlideFacts, ContinueFacts
    <2>11. QED  BY <2>9, <2>10
  <1>6. ASSUME NEW wallet \in UserWallets, Submit(m, q, wallet)
        PROVE  BeginFacts(m, q) /\ SubmitFacts(m, q)
    <2> DEFINE new == [Blank(m) EXCEPT !.at = "load", !.wallet = wallet]
               d == [modal[m] EXCEPT !.alone = modal[m].alone /\ Idle(m)]
    <2>1. new \in RequestsIn /\ new.by = m /\ new.sess = None /\ new.at = "load"
      BY DEF Blank, RequestsIn, Forming
    <2>2. modal[m] # None /\ modal[m] \in Dialogs /\ modal[m].shows # None
      BY <1>1, <1>6 DEF Submit
    <2>3. /\ d \in Dialogs /\ d.opens = modal[m].opens /\ d.shows = modal[m].shows
          /\ d.missed = modal[m].missed
          /\ d.alone => modal[m].alone /\ Idle(m)
      BY <1>4, <2>2
    <2>4. modal' = [modal EXCEPT ![m] = d]  BY <1>6 DEF Submit
    <2>5. req' = [req EXCEPT ![q] = new]  BY <1>6 DEF Submit
    <2> HIDE DEF new, d
    <2>6. modal'[m] = d /\ \A x \in Modals \ {m} : modal'[x] = modal[x]
      BY <1>1, <2>4
    <2>7. req'[q] = new /\ \A x \in Requests \ {q} : req'[x] = req[x]
      BY <1>1, <2>5
    <2>8. BeginFacts(m, q)
      BY <1>6, <2>1, <2>3, <2>6, <2>7, NoneDiffers
         DEF BeginFacts, Submit, Calm, SessionSame
    <2>9. SubmitFacts(m, q)
      BY <2>1, <2>2, <2>3, <2>6, <2>7 DEF SubmitFacts, ContinueFacts
    <2>10. QED  BY <2>8, <2>9
  <1>7. QED  BY <1>3, <1>5, <1>6 DEF UserStep

-------------------------------------------------------------------------------
(* Sessions keep usable ticks.                                                *)

LEMMA TicksStep ==
  ASSUME PoolTypeOK, TicksInv, [Next]_vars
  PROVE  TicksInv'
  <1>1. ASSUME NEW q \in Requests, RequestStep(q) PROVE TicksInv'
    <2>1. StepFacts(q)  BY <1>1, RequestFacts
    <2>2. /\ session' = session \/ (session' = req[q].sess /\ req[q].sess \in Sessions)
          /\ req'[q] # None => \/ req'[q].sess = req[q].sess
                               \/ UsableTicks(req'[q].sess.range)
                               \/ session # None /\ req'[q].sess = session
      <3>1. req[q].at = "store" => req[q].sess \in Sessions
        BY <2>1 DEF StepFacts, PoolTypeOK, WellFormed
      <3>2. QED
        BY <2>1, <3>1 DEF StepFacts, EndFacts, PoolFacts, StoreFacts, DetailsFacts,
             GuardFacts, ReadFacts, WriteFacts, MovedFacts, LoadFacts, MatchFacts,
             ApproveFacts, SessionSame
    <2>3. req[q] # None /\ OthersSame(q)  BY <2>1 DEF StepFacts
    <2>4. session' # None => UsableTicks(session'.range)
      <3>1. req[q].sess \in Sessions => UsableTicks(req[q].sess.range)
        BY <2>3, NoneDiffers DEF TicksInv
      <3>2. QED  BY <2>2, <3>1 DEF TicksInv
    <2>5. ASSUME NEW x \in Requests, req'[x] # None, req'[x].sess # None
          PROVE  UsableTicks(req'[x].sess.range)
      <3>1. CASE x = q  BY <2>2, <2>3, <2>5, <3>1 DEF TicksInv
      <3>2. CASE x # q  BY <2>3, <2>5, <3>2 DEF TicksInv, OthersSame
      <3>3. QED  BY <3>1, <3>2
    <2>6. QED  BY <2>4, <2>5 DEF TicksInv, UsableTicks, OnSpacing, IsUsable, InBounds
  <1>2. ASSUME NEW q \in Requests, NEW m \in Modals, UserStep(m, q) PROVE TicksInv'
    <2>1. BeginFacts(m, q)  BY <1>2, UserFacts
    <2>2. session' # None => UsableTicks(session'.range)
      BY <2>1 DEF TicksInv, BeginFacts, SessionSame
    <2>3. ASSUME NEW x \in Requests, req'[x] # None, req'[x].sess # None
          PROVE  UsableTicks(req'[x].sess.range)
      BY <2>1, <2>3 DEF TicksInv, BeginFacts
    <2>4. QED  BY <2>2, <2>3 DEF TicksInv, UsableTicks, OnSpacing, IsUsable, InBounds
  <1>3. ASSUME UNCHANGED req, session' = session \/ session' = None PROVE TicksInv'
    BY <1>3 DEF TicksInv, UsableTicks, OnSpacing, IsUsable, InBounds
  <1>4. QED
    BY <1>1, <1>2, <1>3 DEF Next, SessionExpires, PoolMoves, PositionMinted, vars

-------------------------------------------------------------------------------
(* Slider events in time know what is stored.                                 *)

LEMMA LateStep ==
  ASSUME PoolTypeOK, LateInv, [Next]_vars
  PROVE  LateInv'
  <1>1. ASSUME NEW q \in Requests, RequestStep(q) PROVE LateInv'
    <2>1. StepFacts(q)  BY <1>1, RequestFacts
    <2>2. ASSUME NEW x \in Requests, x # q, NEW at, Timely(x, at)'
          PROVE  Timely(x, at) /\ req'[x].sess = req[x].sess
      BY <2>1, <2>2 DEF Timely, StepFacts, OthersSame
    <2>3. Timely(q, "read")' => /\ session # None /\ ~session.position
                                /\ session' = session
      BY <2>1 DEF Timely, StepFacts, EndFacts, PoolFacts, StoreFacts, DetailsFacts,
           GuardFacts, ReadFacts, WriteFacts, MovedFacts, LoadFacts, MatchFacts,
           ApproveFacts, SessionSame
    <2>4. Timely(q, "write")' =>
            /\ Timely(q, "read") /\ session # None /\ session' = session
            /\ req'[q].sess.position = session.position
            /\ req'[q].sess.tick = session.tick
      BY <2>1 DEF Timely, StepFacts, EndFacts, PoolFacts, StoreFacts, DetailsFacts,
           GuardFacts, ReadFacts, WriteFacts, MovedFacts, LoadFacts, MatchFacts,
           ApproveFacts, SessionSame
    <2>5. ASSUME NEW x \in Requests, x # q, NEW at \in {"read", "write"}, Timely(x, at)'
          PROVE  session' = session \/ (Timely(q, "write") /\ session' = req[q].sess)
      <3>1. req[x] # None /\ req[x].at = at /\ ~req'[x].late
        BY <2>2, <2>5 DEF Timely
      <3>2. QED
        BY <2>1, <2>5, <3>1 DEF Timely, StepFacts, EndFacts, PoolFacts, StoreFacts,
           DetailsFacts, GuardFacts, ReadFacts, WriteFacts, MovedFacts, LoadFacts,
           MatchFacts, ApproveFacts, SessionSame
    <2>6. ASSUME NEW x \in Requests, Timely(x, "read")'
          PROVE  session' = None \/ ~session'.position
      <3>1. CASE x = q  BY <2>3, <2>6, <3>1
      <3>2. CASE x # q
        <4>1. Timely(x, "read")  BY <2>2, <2>6, <3>2
        <4>2. QED  BY <2>5, <2>6, <3>2, <4>1 DEF LateInv
      <3>3. QED  BY <3>1, <3>2
    <2>7. ASSUME NEW x \in Requests, Timely(x, "write")'
          PROVE  /\ ~req'[x].sess.position
                 /\ session' = None \/ (/\ ~session'.position
                                        /\ session'.tick = req'[x].sess.tick)
      <3>1. CASE x = q  BY <2>4, <2>7, <3>1 DEF LateInv
      <3>2. CASE x # q
        <4>1. Timely(x, "write") /\ req'[x].sess = req[x].sess  BY <2>2, <2>7, <3>2
        <4>2. QED  BY <2>5, <2>7, <3>2, <4>1 DEF LateInv
      <3>3. QED  BY <3>1, <3>2
    <2>8. ASSUME NEW x \in Requests, Timely(x, "write")',
                 NEW y \in Requests, Timely(y, "write")'
          PROVE  req'[x].sess.tick = req'[y].sess.tick
      <3>1. CASE x # q /\ y # q
        <4>1. /\ Timely(x, "write") /\ req'[x].sess = req[x].sess
              /\ Timely(y, "write") /\ req'[y].sess = req[y].sess
          BY <2>2, <2>8, <3>1
        <4>2. QED  BY <4>1 DEF LateInv
      <3>2. CASE x = q \/ y = q
        <4>1. session # None /\ session' = session  BY <2>4, <2>8, <3>2
        <4>2. QED  BY <2>7, <2>8, <4>1
      <3>3. QED  BY <3>1, <3>2
    <2>9. QED  BY <2>6, <2>7, <2>8 DEF LateInv
  <1>2. ASSUME NEW q \in Requests, NEW m \in Modals, UserStep(m, q) PROVE LateInv'
    <2>1. BeginFacts(m, q) /\ session' = session
      BY <1>2, UserFacts DEF BeginFacts, SessionSame
    <2>2. req'[q].at \notin {"read", "write"}
      BY <1>2, UserFacts DEF OpenFacts, SlideFacts, SubmitFacts
    <2>3. ASSUME NEW x \in Requests, NEW at \in {"read", "write"}, Timely(x, at)'
          PROVE  Timely(x, at) /\ req'[x] = req[x]
      BY <2>1, <2>2, <2>3 DEF Timely, BeginFacts
    <2>4. QED  BY <2>1, <2>3 DEF LateInv
  <1>3. ASSUME UNCHANGED req, session' = session \/ session' = None PROVE LateInv'
    BY <1>3 DEF LateInv, Timely
  <1>4. QED
    BY <1>1, <1>2, <1>3 DEF Next, SessionExpires, PoolMoves, PositionMinted, vars

-------------------------------------------------------------------------------
(* Undisturbed dialogs show what is stored.                                   *)

LEMMA LoneStill ==
  ASSUME LoneInv, UNCHANGED <<modal, req>>, pool'.reverse = pool.reverse,
         session' = session \/ session' = None
  PROVE  LoneInv'
  BY DEF LoneInv, IsLone, LoneDialog, LoneRequest, LastStored, Agrees, Shown, InBounds

(* A request of another dialog only forms a transaction.                      *)
LEMMA OthersForm ==
  ASSUME NEW q \in Requests, StepFacts(q), req[q].at \in Forming
  PROVE  /\ SessionSame /\ modal' = modal
         /\ req'[q] # None => req'[q].at \in Forming
  BY DEF StepFacts, EndFacts, PoolFacts, StoreFacts, DetailsFacts, GuardFacts,
         ReadFacts, WriteFacts, MovedFacts, LoadFacts, MatchFacts, ApproveFacts, Forming

(* The dialogs stay what they are, but for what the request's dialog shows.   *)
LEMMA DialogsStay ==
  ASSUME PoolTypeOK, NEW q \in Requests, StepFacts(q)
  PROVE  /\ \A x \in Modals : IsLone(x)' =>
              IsLone(x) /\ modal'[x].opens = modal[x].opens
         /\ \A x \in Modals : x # req[q].by => modal'[x] = modal[x]
         /\ req'[q] # None => req'[q].by = req[q].by
  <1>1. req[q].by \in Modals /\ modal[req[q].by] \in Dialogs
    BY DEF StepFacts, PoolTypeOK, WellFormed, RequestsIn
  <1>2. CASE modal' = modal
    BY <1>2 DEF IsLone, StepFacts, EndFacts, PoolFacts, StoreFacts, DetailsFacts, GuardFacts,
         ReadFacts, WriteFacts, MovedFacts, LoadFacts, MatchFacts, ApproveFacts, Same
  <1>3. CASE (Tells(q) \/ Loses(q)) /\ req'[q] = None
    <2>1. \A x \in Modals : x # req[q].by => modal'[x] = modal[x]
      BY <1>3 DEF Tells, Loses, Told, Misses, PoolTypeOK
    <2>2. /\ modal'[req[q].by].opens = modal[req[q].by].opens
          /\ modal'[req[q].by].alone = modal[req[q].by].alone
      <3> DEFINE d == modal[req[q].by]
                 shown == Shown(req[q].sess.range)
      <3>1. d \in Dialogs  BY <1>1
      <3>2. \/ modal'[req[q].by] = [d EXCEPT !.shows = shown, !.missed = None]
            \/ modal'[req[q].by] = [d EXCEPT !.missed = shown]
        BY <1>1, <1>3 DEF Tells, Loses, Told, Misses, PoolTypeOK
      <3> HIDE DEF d, shown
      <3>3. modal'[req[q].by].opens = d.opens /\ modal'[req[q].by].alone = d.alone
        BY <3>1, <3>2 DEF Dialogs
      <3>4. QED  BY <3>3 DEF d
    <2>3. modal[req[q].by] # None  BY DEF StepFacts, PoolTypeOK, WellFormed
    <2>4. QED  BY <1>3, <2>1, <2>2, <2>3 DEF IsLone
  <1>4. ((Tells(q) \/ Loses(q)) /\ req'[q] = None) \/ modal' = modal
    BY DEF StepFacts, EndFacts, PoolFacts, StoreFacts, DetailsFacts, GuardFacts,
           ReadFacts, WriteFacts, MovedFacts, LoadFacts, MatchFacts, ApproveFacts
  <1>5. QED  BY <1>2, <1>3, <1>4

(* Telling a dialog its prices, or losing the answer.                         *)
LEMMA TellsDialog ==
  ASSUME PoolTypeOK, NEW q \in Requests, req[q] # None, Tells(q)
  PROVE  /\ modal'[req[q].by].shows = Shown(req[q].sess.range)
         /\ modal'[req[q].by].missed = None
         /\ modal'[req[q].by].shows # None
  <1>1. req[q].by \in Modals /\ modal[req[q].by] \in Dialogs
    BY DEF PoolTypeOK, WellFormed, RequestsIn
  <1>2. modal'[req[q].by] = [modal[req[q].by] EXCEPT !.shows = Shown(req[q].sess.range),
                                                     !.missed = None]
    BY <1>1 DEF Tells, Told, PoolTypeOK
  <1>3. QED  BY <1>1, <1>2 DEF Tells, Dialogs

LEMMA LosesAnswer ==
  ASSUME PoolTypeOK, NEW q \in Requests, req[q] # None, Loses(q)
  PROVE  /\ modal'[req[q].by].shows = modal[req[q].by].shows
         /\ modal'[req[q].by].missed = Shown(req[q].sess.range)
         /\ modal'[req[q].by].missed # None
  <1>1. req[q].by \in Modals /\ modal[req[q].by] \in Dialogs
    BY DEF PoolTypeOK, WellFormed, RequestsIn
  <1>2. modal'[req[q].by] = [modal[req[q].by] EXCEPT !.missed = Shown(req[q].sess.range)]
    BY <1>1 DEF Loses, Misses, PoolTypeOK
  <1>3. QED  BY <1>1, <1>2 DEF Loses, Dialogs

LEMMA LoneRequestStep ==
  ASSUME PoolTypeOK, LoneInv, NEW q \in Requests, StepFacts(q)
  PROVE  LoneInv'
  <1> SUFFICES ASSUME NEW y \in Modals, IsLone(y)'
               PROVE  LoneDialog(y)'
    BY DEF LoneInv
  <1> DEFINE b == req[q].by
  <1>1. /\ req[q] # None /\ pool' = pool /\ OthersSame(q)
        /\ IsLone(y) /\ LoneDialog(y)
        /\ req'[q] # None => req'[q].by = b
        /\ modal'[y].opens = modal[y].opens
        /\ y # b => modal'[y] = modal[y]
    BY DialogsStay DEF StepFacts, Calm, LoneInv
  <1>2. ASSUME NEW x \in Requests, req'[x] # None
        PROVE  req[x] # None /\ req'[x].by = req[x].by
    BY <1>1, <1>2 DEF OthersSame, Same
  <1>3. CASE b # y
    <2>1. req[q].at \in Forming  BY <1>1, <1>3 DEF LoneDialog
    <2>2. /\ session' = session /\ modal' = modal
          /\ req'[q] # None => req'[q].at \in Forming
      BY <2>1, OthersForm DEF SessionSame
    <2>3. ASSUME NEW x \in Requests, req'[x] # None
          PROVE  IF req'[x].by # y THEN req'[x].at \in Forming
                 ELSE /\ LoneRequest(y, req[x])'
                      /\ \A z \in Requests \ {x} : req'[z] = None \/ req'[z].by # y
      <3>1. CASE req[x].by # y
        BY <1>1, <1>2, <2>2, <2>3, <3>1 DEF LoneDialog, OthersSame
      <3>2. CASE req[x].by = y
        <4>1. /\ x # q /\ req[x] # None /\ LoneRequest(y, req[x])
              /\ \A z \in Requests \ {x} : req[z] = None \/ req[z].by # y
          BY <1>1, <1>2, <1>3, <2>3, <3>2 DEF LoneDialog
        <4>2. /\ Same(req[x], req'[x])
              /\ req'[x].at = req[x].at /\ req'[x].sess = req[x].sess
          BY <1>1, <4>1 DEF OthersSame
        <4>3. LoneRequest(y, req[x])'
          BY <1>1, <2>2, <4>1, <4>2 DEF LoneRequest, Same, LastStored, Agrees, Shown, InBounds
        <4>4. \A z \in Requests \ {x} : req'[z] = None \/ req'[z].by # y
          BY <1>2, <4>1
        <4>5. QED  BY <1>2, <2>3, <3>2, <4>3, <4>4
      <3>3. QED  BY <3>1, <3>2
    <2>4. modal'[y].shows # None =>
            \/ Agrees(session, LastStored(modal[y]))'
            \/ \E x \in Requests : req'[x] # None /\ req'[x].by = y /\ req'[x].at = "moved"
      <3>1. ASSUME NEW x \in Requests, req[x] # None, req[x].by = y, req[x].at = "moved"
            PROVE  req'[x] # None /\ req'[x].by = y /\ req'[x].at = "moved"
        BY <1>1, <1>3, <3>1 DEF OthersSame, Same
      <3>2. modal[y].shows # None =>
            \/ Agrees(session, LastStored(modal[y]))
            \/ \E x \in Requests : req[x] # None /\ req[x].by = y /\ req[x].at = "moved"
        BY <1>1 DEF LoneDialog
      <3>3. Agrees(session, LastStored(modal[y])) => Agrees(session, LastStored(modal[y]))'
        BY <1>1, <2>2 DEF LastStored, Agrees, Shown, InBounds
      <3>4. QED  BY <2>2, <3>1, <3>2, <3>3
    <2>5. QED  BY <2>3, <2>4 DEF LoneDialog
  <1>4. CASE b = y
    <2>1. /\ LoneRequest(y, req[q])
          /\ \A x \in Requests \ {q} : req[x] = None \/ req[x].by # y
      BY <1>1, <1>4 DEF LoneDialog
    <2>2. req[q].at # "moved" /\ modal[y].shows # None => Agrees(session, LastStored(modal[y]))
      BY <1>1, <2>1 DEF LoneDialog
    <2>3. ASSUME NEW x \in Requests, x # q, req'[x] # None
          PROVE  req'[x].by # y /\ req'[x].at \in Forming
      BY <1>1, <1>2, <2>1, <2>3 DEF LoneDialog, OthersSame
    <2>4. /\ req'[q] # None => LoneRequest(y, req[q])'
          /\ modal'[y].shows # None =>
               \/ Agrees(session, LastStored(modal[y]))'
               \/ req'[q] # None /\ req'[q].at = "moved"
      <3> USE <1>1, <1>4, <2>1, <2>2
              DEF LoneRequest, LastStored, Agrees, Shown, InBounds, SessionSame, Same,
                  Opening, Forming
      <3>1. CASE EndFacts(q)  BY <3>1 DEF EndFacts
      <3>2. CASE PoolFacts(q)  BY <3>2 DEF PoolFacts
      <3>3. CASE StoreFacts(q)  BY <3>3 DEF StoreFacts
      <3>4. CASE DetailsFacts(q)  BY <3>4, TellsDialog DEF DetailsFacts
      <3>5. CASE GuardFacts(q)  BY <3>5 DEF GuardFacts
      <3>6. CASE ReadFacts(q)  BY <3>6 DEF ReadFacts
      <3>7. CASE WriteFacts(q)  BY <3>7 DEF WriteFacts
      <3>8. CASE MovedFacts(q)  BY <3>8, TellsDialog, LosesAnswer DEF MovedFacts
      <3>9. CASE LoadFacts(q)  BY <3>9 DEF LoadFacts
      <3>10. CASE MatchFacts(q)  BY <3>10 DEF MatchFacts
      <3>11. CASE ApproveFacts(q)  BY <3>11 DEF ApproveFacts
      <3>12. QED
        BY <3>1, <3>2, <3>3, <3>4, <3>5, <3>6, <3>7, <3>8, <3>9, <3>10, <3>11
           DEF StepFacts
    <2>5. QED  BY <1>1, <1>4, <2>3, <2>4 DEF LoneDialog
  <1>5. QED  BY <1>3, <1>4

LEMMA LoneUserStep ==
  ASSUME PoolTypeOK, LoneInv, NEW q \in Requests, NEW m \in Modals, UserStep(m, q)
  PROVE  LoneInv'
  <1> SUFFICES ASSUME NEW y \in Modals, IsLone(y)'
               PROVE  LoneDialog(y)'
    BY DEF LoneInv
  <1>1. /\ BeginFacts(m, q)
        /\ OpenFacts(m, q) \/ SlideFacts(m, q) \/ SubmitFacts(m, q)
    BY UserFacts
  <1>2. /\ pool' = pool /\ session' = session /\ req'[q] # None /\ req'[q].by = m
        /\ \A x \in Requests \ {q} : req'[x] = req[x]
    BY <1>1 DEF BeginFacts, Calm, SessionSame
  <1>3. CASE y # m
    <2>1. /\ IsLone(y) /\ SubmitFacts(m, q)
          /\ modal'[y].opens = modal[y].opens /\ modal'[y].shows = modal[y].shows
          /\ modal'[y].missed = modal[y].missed
      BY <1>1, <1>3 DEF IsLone, BeginFacts, OpenFacts, SlideFacts
    <2>2. LoneDialog(y) /\ req'[q].at \in Forming /\ req[q] = None
      BY <1>1, <2>1 DEF LoneInv, SubmitFacts, Forming, BeginFacts
    <2>3. ASSUME NEW x \in Requests, x # q, req[x] # None, req[x].by = y
          PROVE  LoneRequest(y, req[x])'
      <3>1. LoneRequest(y, req[x]) /\ req'[x] = req[x]  BY <1>2, <2>2, <2>3 DEF LoneDialog
      <3>2. QED  BY <1>2, <2>1, <3>1 DEF LoneRequest, LastStored, Agrees, Shown, InBounds
    <2>4. Agrees(session, LastStored(modal[y])) => Agrees(session, LastStored(modal[y]))'
      BY <1>2, <2>1 DEF LastStored, Agrees, Shown, InBounds
    <2>5. ASSUME NEW x \in Requests, req'[x] # None
          PROVE  IF req'[x].by # y THEN req'[x].at \in Forming
                 ELSE /\ LoneRequest(y, req[x])'
                      /\ \A z \in Requests \ {x} : req'[z] = None \/ req'[z].by # y
      BY <1>2, <1>3, <2>2, <2>3, <2>5 DEF LoneDialog
    <2>6. modal'[y].shows # None =>
            \/ Agrees(session, LastStored(modal[y]))'
            \/ \E x \in Requests : req'[x] # None /\ req'[x].by = y /\ req'[x].at = "moved"
      BY <1>2, <2>1, <2>2, <2>4 DEF LoneDialog
    <2>7. QED  BY <2>5, <2>6 DEF LoneDialog
  <1>4. CASE y = m /\ OpenFacts(m, q)
    <2>1. \A x \in Requests : req[x] = None
      BY <1>4 DEF IsLone, OpenFacts, AllIdle, Idle, PoolTypeOK, RequestsIn
    <2>2. \A x \in Requests \ {q} : req'[x] = None  BY <1>2, <2>1
    <2>3. LoneRequest(m, req[q])' /\ modal'[m].shows = None
      BY <1>4 DEF LoneRequest, OpenFacts, Opening
    <2>4. QED  BY <1>2, <1>4, <2>2, <2>3 DEF LoneDialog
  <1>5. CASE y = m /\ (SlideFacts(m, q) \/ SubmitFacts(m, q))
    <2>1. ContinueFacts(m, q) /\ req'[q].at \in {"guard", "load"}
      BY <1>5 DEF SlideFacts, SubmitFacts
    <2>2. /\ IsLone(m) /\ Idle(m) /\ modal[m].shows # None
          /\ modal'[m].shows = modal[m].shows /\ modal'[m].missed = modal[m].missed
      BY <1>5, <2>1 DEF IsLone, ContinueFacts
    <2>3. LoneDialog(m)  BY <2>2 DEF LoneInv
    <2>4. Agrees(session, LastStored(modal[m]))  BY <2>2, <2>3 DEF LoneDialog, Idle
    <2>5. Agrees(session, LastStored(modal[m]))'
      BY <1>2, <2>2, <2>4 DEF LastStored, Agrees, Shown, InBounds
    <2>6. LoneRequest(m, req[q])'  BY <2>1, <2>2 DEF LoneRequest, Opening
    <2>7. ASSUME NEW x \in Requests, x # q, req'[x] # None
          PROVE  req'[x].by # m /\ req'[x].at \in Forming
      BY <1>2, <2>2, <2>3, <2>7 DEF LoneDialog, Idle
    <2>8. QED  BY <1>2, <1>5, <2>5, <2>6, <2>7 DEF LoneDialog
  <1>6. QED  BY <1>1, <1>3, <1>4, <1>5

LEMMA LoneStep ==
  ASSUME PoolTypeOK, LoneInv, [Next]_vars
  PROVE  LoneInv'
  <1>1. ASSUME NEW q \in Requests, RequestStep(q) PROVE LoneInv'
    BY <1>1, RequestFacts, LoneRequestStep
  <1>2. ASSUME NEW q \in Requests, NEW m \in Modals, UserStep(m, q) PROVE LoneInv'
    BY <1>2, LoneUserStep
  <1>3. pool \in Pools  BY DEF PoolTypeOK, Pools
  <1>4. CASE PoolMoves
    <2>1. pool'.reverse = pool.reverse  BY <1>3, <1>4 DEF PoolMoves, Pools
    <2>2. QED  BY <1>4, <2>1, LoneStill DEF PoolMoves
  <1>5. CASE SessionExpires \/ PositionMinted \/ UNCHANGED vars
    BY <1>5, LoneStill DEF SessionExpires, PositionMinted, vars
  <1>6. QED  BY <1>1, <1>2, <1>4, <1>5 DEF Next

-------------------------------------------------------------------------------
(* Undisturbed increase dialogs have their position's session.                *)

LEMMA IncreaseStill ==
  ASSUME IncreaseInv, UNCHANGED <<modal, req>>, held \subseteq held',
         session' = session \/ session' = None
  PROVE  IncreaseInv'
  <1> SUFFICES ASSUME NEW y \in Modals, IsLone(y)', modal'[y].opens \in Positions
               PROVE  IncreaseDialog(y, modal[y].opens)'
    BY DEF IncreaseInv
  <1>1. IncreaseDialog(y, modal[y].opens)  BY DEF IncreaseInv, IsLone
  <1>2. QED  BY <1>1 DEF IncreaseDialog, IncreaseRequest, Matching

LEMMA IncreaseRequestStep ==
  ASSUME PoolTypeOK, LoneInv, IncreaseInv, NEW q \in Requests, StepFacts(q)
  PROVE  IncreaseInv'
  <1> SUFFICES ASSUME NEW y \in Modals, IsLone(y)', modal'[y].opens \in Positions
               PROVE  IncreaseDialog(y, modal[y].opens)'
    BY DEF IncreaseInv
  <1> DEFINE p == modal[y].opens
             b == req[q].by
  <1>1. /\ req[q] # None /\ held' = held /\ OthersSame(q) /\ IsLone(y)
        /\ modal'[y].opens = p /\ p \in Positions
        /\ req'[q] # None => req'[q].by = b
        /\ y # b => modal'[y] = modal[y]
    BY DialogsStay DEF StepFacts, Calm
  <1>2. LoneDialog(y) /\ IncreaseDialog(y, p)  BY <1>1 DEF LoneInv, IncreaseInv
  <1>3. ASSUME NEW x \in Requests, x # q, req'[x] # None, req'[x].by = y
        PROVE  IncreaseRequest(p, req[x])'
    <2>1. /\ req[x] # None /\ req[x].by = y
          /\ Same(req[x], req'[x])
          /\ req'[x].at = req[x].at /\ req'[x].sess = req[x].sess
          /\ req'[x].target = req[x].target
      BY <1>1, <1>3 DEF OthersSame, Same
    <2>2. IncreaseRequest(p, req[x])  BY <1>2, <2>1 DEF IncreaseDialog
    <2>3. QED  BY <1>1, <2>1, <2>2 DEF IncreaseRequest, Matching, Same
  <1>4. CASE b # y
    <2>1. req[q].at \in Forming  BY <1>1, <1>2, <1>4 DEF LoneDialog
    <2>2. session' = session /\ modal' = modal  BY <2>1, OthersForm DEF SessionSame
    <2>3. QED  BY <1>1, <1>2, <1>3, <1>4, <2>2 DEF IncreaseDialog
  <1>5. CASE b = y
    <2>1. LoneRequest(y, req[q]) /\ IncreaseRequest(p, req[q])
      BY <1>1, <1>2, <1>5 DEF LoneDialog, IncreaseDialog
    <2>2. modal[y].shows # None =>
            session = None \/ (session.position /\ session.range = RangeOf[p])
      BY <1>2 DEF IncreaseDialog
    <2>3. /\ req'[q] # None => IncreaseRequest(p, req[q])'
          /\ modal'[y].shows # None =>
               session' = None \/ (session'.position /\ session'.range = RangeOf[p])
      <3> USE <1>1, <1>5, <2>1, <2>2
              DEF LoneRequest, IncreaseRequest, SessionSame, Same, Opening
      <3>1. CASE EndFacts(q)  BY <3>1 DEF EndFacts
      <3>2. CASE PoolFacts(q)  BY <3>2 DEF PoolFacts
      <3>3. CASE StoreFacts(q)  BY <3>3 DEF StoreFacts
      <3>4. CASE DetailsFacts(q)  BY <3>4, TellsDialog DEF DetailsFacts
      <3>5. CASE GuardFacts(q)  BY <3>5 DEF GuardFacts
      <3>6. CASE ReadFacts(q) \/ WriteFacts(q) \/ MovedFacts(q)
        BY <3>6 DEF ReadFacts, WriteFacts, MovedFacts
      <3>7. CASE LoadFacts(q)  BY <3>7 DEF LoadFacts
      <3>8. CASE MatchFacts(q)
        <4>1. p \in held  BY <1>2 DEF IncreaseDialog
        <4>2. req[q].sess.range = RangeOf[p]  BY <3>8 DEF MatchFacts
        <4>3. req[q].wallet = Owner[p] => p \in Matching(req[q].wallet, RangeOf[p])
          BY <4>1 DEF Matching
        <4>4. req[q].wallet = Owner[p] =>
                req'[q].target \in Matching(req[q].wallet, RangeOf[p])
          BY <3>8, <4>2, <4>3 DEF MatchFacts
        <4>5. QED  BY <3>8, <4>2, <4>4 DEF MatchFacts, Matching
      <3>9. CASE ApproveFacts(q)  BY <3>9 DEF ApproveFacts, Matching
      <3>10. QED
        BY <3>1, <3>2, <3>3, <3>4, <3>5, <3>6, <3>7, <3>8, <3>9 DEF StepFacts
    <2>4. QED  BY <1>1, <1>2, <1>3, <1>5, <2>3 DEF IncreaseDialog
  <1>6. QED  BY <1>4, <1>5

LEMMA IncreaseUserStep ==
  ASSUME PoolTypeOK, IncreaseInv, NEW q \in Requests, NEW m \in Modals, UserStep(m, q)
  PROVE  IncreaseInv'
  <1> SUFFICES ASSUME NEW y \in Modals, IsLone(y)', modal'[y].opens \in Positions
               PROVE  IncreaseDialog(y, modal[y].opens)'
    BY DEF IncreaseInv
  <1> DEFINE p == modal'[y].opens
  <1>1. /\ BeginFacts(m, q)
        /\ OpenFacts(m, q) \/ SlideFacts(m, q) \/ SubmitFacts(m, q)
    BY UserFacts
  <1>2. /\ held' = held /\ session' = session /\ req'[q] # None /\ req'[q].by = m
        /\ \A x \in Requests \ {q} : req'[x] = req[x]
    BY <1>1 DEF BeginFacts, Calm, SessionSame
  <1>3. CASE y # m
    <2>1. /\ IsLone(y) /\ modal'[y].opens = modal[y].opens
          /\ modal'[y].shows = modal[y].shows
      BY <1>1, <1>3 DEF IsLone, BeginFacts
    <2>2. IncreaseDialog(y, p)  BY <2>1 DEF IncreaseInv
    <2>3. ASSUME NEW x \in Requests, req'[x] # None, req'[x].by = y
          PROVE  IncreaseRequest(modal[y].opens, req[x])'
      <3>1. req'[x] = req[x]  BY <1>2, <1>3, <2>3
      <3>2. IncreaseRequest(p, req[x])  BY <2>2, <2>3, <3>1 DEF IncreaseDialog
      <3>3. QED  BY <1>2, <3>1, <3>2 DEF IncreaseRequest, Matching
    <2>4. QED  BY <1>2, <2>1, <2>2, <2>3 DEF IncreaseDialog
  <1>4. CASE y = m /\ OpenFacts(m, q)
    <2>1. \A x \in Requests : req[x] = None
      BY <1>4 DEF IsLone, OpenFacts, AllIdle, Idle, PoolTypeOK, RequestsIn
    <2>2. IncreaseRequest(modal[y].opens, req[q])'
      BY <1>4 DEF OpenFacts, IncreaseRequest
    <2>3. QED  BY <1>2, <1>4, <2>1, <2>2 DEF IncreaseDialog, OpenFacts
  <1>5. CASE y = m /\ (SlideFacts(m, q) \/ SubmitFacts(m, q))
    <2>1. ContinueFacts(m, q) /\ req'[q].at \in {"guard", "load"}
      BY <1>5 DEF SlideFacts, SubmitFacts
    <2>2. /\ IsLone(m) /\ Idle(m) /\ p = modal[m].opens
          /\ modal'[m].shows = modal[m].shows
      BY <1>5, <2>1 DEF IsLone, ContinueFacts
    <2>3. IncreaseDialog(m, p)  BY <1>5, <2>2 DEF IncreaseInv
    <2>4. IncreaseRequest(modal[y].opens, req[q])'  BY <1>5, <2>1 DEF IncreaseRequest
    <2>5. \A x \in Requests : req'[x] # None /\ req'[x].by = m => x = q
      BY <1>2, <2>2 DEF Idle
    <2>6. QED  BY <1>2, <1>5, <2>2, <2>3, <2>4, <2>5 DEF IncreaseDialog
  <1>6. QED  BY <1>1, <1>3, <1>4, <1>5

LEMMA IncreaseStep ==
  ASSUME PoolTypeOK, LoneInv, IncreaseInv, [Next]_vars
  PROVE  IncreaseInv'
  <1>1. ASSUME NEW q \in Requests, RequestStep(q) PROVE IncreaseInv'
    BY <1>1, RequestFacts, IncreaseRequestStep
  <1>2. ASSUME NEW q \in Requests, NEW m \in Modals, UserStep(m, q) PROVE IncreaseInv'
    BY <1>2, IncreaseUserStep
  <1>3. CASE SessionExpires \/ PoolMoves \/ PositionMinted \/ UNCHANGED vars
    BY <1>3, IncreaseStill DEF SessionExpires, PoolMoves, PositionMinted, vars
  <1>4. QED  BY <1>1, <1>2, <1>3 DEF Next

-------------------------------------------------------------------------------
(* The theorems.                                                              *)

(* Types, and what a request in progress holds, whatever users and requests do. *)
THEOREM PoolTypeCorrect == PoolSpec => []PoolTypeOK
  <1>1. Init => PoolTypeOK  BY InitTypes
  <1>2. PoolTypeOK /\ [Next]_vars => PoolTypeOK'  BY TypeStep
  <1>3. QED  BY <1>1, <1>2, PTL DEF PoolSpec

(* Every session has usable ticks; a slider event in time knows what is       *)
(* stored; what is stored is what an undisturbed dialog had stored last, which *)
(* it shows unless that answer was lost, and an undisturbed increase dialog   *)
(* has its position's session.                                                *)
THEOREM PoolInductive == PoolSpec => []PoolIInv
  <1>1. Init => PoolIInv
    <2>1. ASSUME Init PROVE TicksInv /\ LateInv /\ LoneInv /\ IncreaseInv
      BY <2>1 DEF Init, TicksInv, LateInv, Timely, LoneInv, IncreaseInv, IsLone
    <2>2. QED  BY <2>1, InitTypes DEF PoolIInv
  <1>2. PoolIInv /\ [Next]_vars => PoolIInv'
    BY TypeStep, TicksStep, LateStep, LoneStep, IncreaseStep DEF PoolIInv
  <1>3. QED  BY <1>1, <1>2, PTL DEF PoolSpec

(* An undisturbed dialog forms its transaction for the range it shows, or for *)
(* the range of its last slider event, if that was cut off before its answer. *)
THEOREM TransactionsFormWhatIsShown == PoolSpec => []FormsWhatItShows
  <1>1. PoolIInv => FormsWhatItShows
    <2> SUFFICES ASSUME PoolIInv, NEW q \in Requests, req[q] # None,
                        req[q].at = "formed", modal[req[q].by].alone
                 PROVE  Shown(req[q].sess.range) = LastStored(modal[req[q].by])
      BY DEF FormsWhatItShows
    <2> DEFINE m == req[q].by
    <2>1. m \in Modals /\ IsLone(m) /\ req[q].sess \in Sessions
      BY DEF PoolIInv, PoolTypeOK, WellFormed, RequestsIn, IsLone
    <2>2. LoneRequest(m, req[q])  BY <2>1 DEF PoolIInv, LoneInv, LoneDialog
    <2>3. req[q].sess # None  BY <2>1, NoneDiffers
    <2>4. QED  BY <2>2, <2>3 DEF LoneRequest, Agrees
  <1>2. QED  BY <1>1, PoolInductive, PTL

(* An undisturbed increase dialog adds to its position, never to a new one.   *)
THEOREM IncreaseCorrect == PoolSpec => []IncreaseFindsItsPosition
  <1>1. PoolIInv => IncreaseFindsItsPosition
    <2> SUFFICES ASSUME PoolIInv, NEW q \in Requests, req[q] # None,
                        req[q].at \in {"approve", "formed"}, modal[req[q].by].alone,
                        modal[req[q].by].opens \in Positions,
                        Owner[modal[req[q].by].opens] = req[q].wallet
                 PROVE  /\ req[q].target \in held
                        /\ Owner[req[q].target] = Owner[modal[req[q].by].opens]
                        /\ RangeOf[req[q].target] = RangeOf[modal[req[q].by].opens]
      BY DEF IncreaseFindsItsPosition
    <2> DEFINE m == req[q].by
               p == modal[m].opens
    <2>1. m \in Modals /\ IsLone(m)
      BY DEF PoolIInv, PoolTypeOK, WellFormed, RequestsIn, IsLone
    <2>2. IncreaseRequest(p, req[q])  BY <2>1 DEF PoolIInv, IncreaseInv, IncreaseDialog
    <2>3. QED  BY <2>2 DEF IncreaseRequest, Matching
  <1>2. QED  BY <1>1, PoolInductive, PTL

(* Sliders in order on usable ticks are shown back where they were set, or    *)
(* higher if their prices are not whole raw amounts, in a pool of either order *)
(* of its tokens and with any spacing.                                        *)
THEOREM SlidersShown == PoolSpec => []SlidersShownAsSet
  <1> DEFINE AsSet(q) ==
        /\ req[q] # None /\ req[q].at \in {"write", "moved"}
        /\ IsUsable(req[q].slider[1]) /\ IsUsable(req[q].slider[2])
        /\ req[q].slider[1] <= req[q].slider[2]
        => /\ ShownFor(Shown(req[q].sess.range).low, req[q].slider[1])
           /\ ShownFor(Shown(req[q].sess.range).high, req[q].slider[2])
  <1>1. Init => SlidersShownAsSet  BY DEF Init, SlidersShownAsSet
  <1>2. ASSUME PoolTypeOK, SlidersShownAsSet, [Next]_vars PROVE SlidersShownAsSet'
    <2>1. pool \in Pools  BY <1>2 DEF PoolTypeOK, Pools
    <2>2. \A q \in Requests : AsSet(q)  BY <1>2 DEF SlidersShownAsSet
    <2>3. ASSUME NEW q \in Requests, pool'.reverse = pool.reverse,
                 req'[q] # None /\ req'[q].at \in {"write", "moved"} =>
                   /\ req[q] # None /\ req[q].at \in {"write", "moved"}
                   /\ req'[q].slider = req[q].slider /\ req'[q].sess = req[q].sess
          PROVE  AsSet(q)'
      <3>1. AsSet(q)  BY <2>2
      <3>2. QED  BY <2>3, <3>1 DEF Shown, ShownFor, WholeRaw, Digits, IsUsable
    <2>4. ASSUME NEW q \in Requests, RequestStep(q), NEW x \in Requests PROVE AsSet(x)'
      <3>1. StepFacts(q) /\ pool' = pool
        BY <1>2, <2>4, RequestFacts DEF StepFacts, Calm
      <3>2. CASE x # q  BY <2>3, <3>1, <3>2 DEF StepFacts, OthersSame, Same
      <3>3. CASE x = q /\ ReadFacts(q)
        <4>1. /\ req'[q].slider = req[q].slider /\ req[q].slider \in Sliders
              /\ req'[q].sess.range = CorrectTicks(req[q].slider)
          BY <3>3 DEF ReadFacts, Same
        <4>2. IsUsable(req[q].slider[1]) /\ IsUsable(req[q].slider[2])
              /\ req[q].slider[1] <= req[q].slider[2] =>
                /\ ShownFor(Shown(CorrectTicks(req[q].slider)).low, req[q].slider[1])
                /\ ShownFor(Shown(CorrectTicks(req[q].slider)).high, req[q].slider[2])
          BY <2>1, <4>1, OrderedSliders
        <4>3. QED  BY <3>1, <3>3, <4>1, <4>2 DEF Shown, ShownFor, WholeRaw, Digits, IsUsable
      <3>4. CASE x = q /\ ~ReadFacts(q)
        BY <2>3, <3>1, <3>4 DEF StepFacts, EndFacts, PoolFacts, StoreFacts, DetailsFacts,
             GuardFacts, WriteFacts, MovedFacts, LoadFacts, MatchFacts, ApproveFacts, Same
      <3>5. QED  BY <3>2, <3>3, <3>4
    <2>5. ASSUME NEW q \in Requests, NEW m \in Modals, UserStep(m, q),
                 NEW x \in Requests
          PROVE  AsSet(x)'
      <3>1. /\ pool' = pool /\ (x # q => req'[x] = req[x])
            /\ req'[q].at \notin {"write", "moved"}
        BY <1>2, <2>5, UserFacts
           DEF BeginFacts, Calm, OpenFacts, SlideFacts, SubmitFacts
      <3>2. QED  BY <2>3, <3>1
    <2>6. ASSUME PoolMoves, NEW x \in Requests PROVE AsSet(x)'
      BY <2>1, <2>3, <2>6 DEF PoolMoves, Pools
    <2>7. ASSUME SessionExpires \/ PositionMinted \/ UNCHANGED vars, NEW x \in Requests
          PROVE  AsSet(x)'
      BY <2>3, <2>7 DEF SessionExpires, PositionMinted, vars
    <2>8. \A x \in Requests : AsSet(x)'
      BY <1>2, <2>4, <2>5, <2>6, <2>7 DEF Next
    <2>9. QED  BY <2>8 DEF SlidersShownAsSet
  <1>3. QED  BY <1>1, <1>2, PoolTypeCorrect, PTL DEF PoolSpec

(* A slider event in time changes the ticks of a deposit session and nothing  *)
(* else, and never a position's session.                                      *)
THEOREM SlidersSpareSession == PoolSpec => SlidersKeepTheSession
  <1>1. ASSUME PoolIInv, NEW q \in Requests, WriteSession(q), ~req[q].late
        PROVE  /\ ~session'.position
               /\ session # None => session' = [session EXCEPT !.range = session'.range]
    <2>1. Timely(q, "write") /\ session' = req[q].sess
      BY <1>1 DEF Timely, WriteSession
    <2>2. /\ ~req[q].sess.position
          /\ session = None \/ (~session.position /\ session.tick = req[q].sess.tick)
      BY <1>1, <2>1 DEF PoolIInv, LateInv
    <2>3. req[q].sess \in Sessions
      BY <1>1 DEF PoolIInv, PoolTypeOK, WellFormed, WriteSession
    <2>4. ASSUME session # None
          PROVE  session' = [session EXCEPT !.range = session'.range]
      <3>1. session \in Sessions  BY <1>1, <2>4 DEF PoolIInv, PoolTypeOK
      <3>2. session.position = FALSE /\ session'.position = FALSE
        BY <2>1, <2>2, <2>3, <2>4, <3>1 DEF Sessions
      <3>3. QED  BY <2>1, <2>2, <2>3, <2>4, <3>1, <3>2 DEF Sessions
    <2>5. QED  BY <2>1, <2>2, <2>4
  <1>2. PoolIInv /\ [Next]_vars =>
          [\A q \in Requests :
             WriteSession(q) /\ ~req[q].late =>
               /\ ~session'.position
               /\ session # None =>
                    session' = [session EXCEPT !.range = session'.range]]_vars
    BY <1>1
  <1>3. QED  BY <1>2, PoolInductive, PTL DEF PoolSpec, SlidersKeepTheSession
===============================================================================
