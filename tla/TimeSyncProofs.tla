--------------------------- MODULE TimeSyncProofs ---------------------------
(***************************************************************************)
(* What rule 4 makes of the offset of one NTP exchange, for any times,     *)
(* skews and delays, any budget and any length of the era.                 *)
(***************************************************************************)
EXTENDS TimeSync, TLAPS

ClockTypeOK ==
    /\ now \in Nat /\ skew \in Skew /\ skews \subseteq Skew
    /\ at \in {"idle", "lookup", "out", "back", "done"}
    /\ start \in Nat /\ t1 \in Int /\ sent \in Nat /\ served \in Nat
    /\ synced \in BOOLEAN /\ stamp \in Int
    /\ offset \in Optional(Int)

\* The type of the estimate.
LEMMA Middle ==
    ASSUME NEW s \in Int, NEW u \in Int
    PROVE  (s + u) \div 2 \in Int
OBVIOUS

\* The variables of the exchange keep their types (time_sync.py:21-38).
THEOREM ClockTypes == ClockSpec => []ClockTypeOK
<1>1. ClockInit => ClockTypeOK
  <2> SUFFICES ASSUME ClockInit PROVE ClockTypeOK
    OBVIOUS
  <2>1. now \in Nat /\ skew \in Skew /\ at = "idle"
    BY ClockAssumption DEF ClockInit
  <2>2. offset \in Optional(Int) /\ skews = {}
    BY DEF ClockInit, Optional
  <2>3. start = 0 /\ t1 = 0 /\ sent = 0 /\ served = 0 /\ stamp = 0
    BY DEF ClockInit
  <2>4. synced \in BOOLEAN
    BY DEF ClockInit
  <2> QED BY <2>1, <2>2, <2>3, <2>4 DEF ClockTypeOK
<1>2. ClockTypeOK /\ [ClockNext]_clock => ClockTypeOK'
  <2> SUFFICES ASSUME ClockTypeOK, [ClockNext]_clock PROVE ClockTypeOK'
    OBVIOUS
  <2> USE ClockAssumption
  <2>1. CASE TakeT1
    BY <2>1 DEF TakeT1, ClockTypeOK
  <2>2. CASE LookUp
    BY <2>2 DEF LookUp, ClockTypeOK
  <2>3. CASE Serve
    <3>1. now' \in Nat /\ synced' \in BOOLEAN /\ stamp' \in Int
      <4>1. now' \in Nat /\ synced' \in BOOLEAN
        BY <2>3 DEF Serve, ClockTypeOK
      <4>2. now' % Era \in Int
        BY <4>1, EraAssumption, WaitAssumption
      <4> QED BY <2>3, <4>1, <4>2 DEF Serve
    <3> QED BY <2>3, <3>1 DEF Serve, ClockTypeOK
  <2>4. CASE Receive
    <3>1. now' \in Nat /\ skew \in Int
      BY <2>4 DEF Receive, ClockTypeOK
    <3>2. MidpointOffset(now' + skew) \in Int
      BY <3>1, Middle DEF MidpointOffset, ClockTypeOK
    <3>3. offset' \in Optional(Int)
      BY <2>4, <3>2 DEF Receive, Optional
    <3> QED BY <2>4, <3>1, <3>3 DEF Receive, ClockTypeOK
  <2>5. CASE Lose
    BY <2>5 DEF Lose, ClockTypeOK
  <2>6. CASE SetClock
    BY <2>6 DEF SetClock, ClockTypeOK
  <2>7. CASE Measured \/ UNCHANGED clock
    BY <2>7 DEF Measured, clock, ClockTypeOK
  <2> QED BY <2>1, <2>2, <2>3, <2>4, <2>5, <2>6, <2>7 DEF ClockNext
<1> QED BY <1>1, <1>2, PTL DEF ClockSpec

------------------------------------------------------------------------------
(* The timestamps of an exchange *)

\* The remainder of a time in the first or in the second era.
LEMMA Wrap ==
    ASSUME NEW m \in Nat, m > 0, NEW t \in Nat, t < 2 * m
    PROVE  t % m = IF t < m THEN t ELSE t - m
<1>1. CASE t < m
  BY <1>1
<1>2. CASE t >= m
  BY <1>2
<1> QED BY <1>1, <1>2

\* What the timestamps taken so far were taken of.
ClockInv ==
    /\ at = "idle" => now \in Now
    /\ at # "idle" => /\ start \in Now /\ start <= now /\ skew \in skews
                      /\ \E f \in skews : t1 = start + f
    /\ at = "back" => /\ start <= served /\ served <= now
                      /\ stamp = IF synced THEN served % Era ELSE 0
    /\ offset # {} => /\ at = "done" /\ start <= served /\ served <= now /\ now - start <= Budget
                      /\ stamp = IF synced THEN served % Era ELSE 0
                      /\ \E f, l \in skews : offset = {stamp - ((start + f) + (now + l)) \div 2}

LEMMA ClockStep == ClockTypeOK /\ ClockInv /\ [ClockNext]_clock => ClockInv'
<1> SUFFICES ASSUME ClockTypeOK, ClockInv, [ClockNext]_clock PROVE ClockInv'
  OBVIOUS
<1> USE ClockAssumption
<1>1. CASE TakeT1
  BY <1>1 DEF TakeT1, ClockTypeOK, ClockInv
<1>2. CASE LookUp
  BY <1>2 DEF LookUp, ClockTypeOK, ClockInv
<1>3. CASE Serve
  BY <1>3 DEF Serve, ClockTypeOK, ClockInv
<1>4. CASE Receive
  <2>1. PICK f \in skews : t1 = start + f
    BY <1>4 DEF Receive, ClockInv
  <2>2. UNCHANGED <<skew, skews, start, t1, served, synced, stamp>> /\ at = "back" /\ at' = "done"
    BY <1>4 DEF Receive
  <2>3. now' \in Nat /\ now <= now'
    BY <1>4 DEF Receive, ClockTypeOK
  <2>4. /\ start \in Now /\ start <= now /\ skew \in skews
        /\ start <= served /\ served <= now
        /\ stamp = IF synced THEN served % Era ELSE 0
    BY <2>2 DEF ClockInv
  <2>5. start <= now' /\ served <= now'
    BY <2>3, <2>4 DEF ClockTypeOK
  <2>6. offset' # {} => /\ now' - start <= Budget
                        /\ offset' = {stamp - ((start + f) + (now' + skew)) \div 2}
    BY <1>4, <2>1 DEF Receive, MidpointOffset
  <2> QED BY <2>1, <2>2, <2>4, <2>5, <2>6 DEF ClockInv
<1>5. CASE Lose
  BY <1>5 DEF Lose, ClockInv
<1>6. CASE SetClock
  BY <1>6 DEF SetClock, ClockInv
<1>7. CASE Measured \/ UNCHANGED clock
  BY <1>7 DEF Measured, clock, ClockInv
<1> QED BY <1>1, <1>2, <1>3, <1>4, <1>5, <1>6, <1>7 DEF ClockNext

LEMMA ClockCorrect == ClockSpec => []ClockInv
<1>1. ClockInit => ClockInv
  BY DEF ClockInit, ClockInv
<1> QED BY <1>1, ClockStep, ClockTypes, PTL DEF ClockSpec

------------------------------------------------------------------------------
(* The estimate *)

\* What the assumptions say of an answer, and the midpoint of its timestamps.
LEMMA Bounds ==
    ASSUME ClockTypeOK, ClockInv, offset # {}
    PROVE  \E f, l \in skews, mid \in Int :
             /\ offset = {stamp - mid} /\ f \in Int /\ l \in Int
             /\ 2 * mid <= start + f + now + l /\ 2 * mid >= start + f + now + l - 1
             /\ f > -500 /\ l > -500 /\ start > 1000 + 2 * Budget
<1>1. PICK f, l \in skews : offset = {stamp - ((start + f) + (now + l)) \div 2}
  BY DEF ClockInv
<1>2. f \in Int /\ l \in Int /\ f > -500 /\ l > -500 /\ start \in Nat /\ now \in Nat
  BY ClockAssumption, EraAssumption DEF ClockTypeOK
<1>3. start > 1000 + 2 * Budget
  BY EraAssumption DEF ClockInv
<1> DEFINE sum == (start + f) + (now + l)
           mid == sum \div 2
<1>4. sum \in Int /\ sum = start + f + now + l
  BY <1>2
<1> HIDE DEF sum
<1>5. mid \in Int /\ 2 * mid <= sum /\ 2 * mid >= sum - 1
  BY <1>4
<1>6. offset = {stamp - mid}
  BY <1>1 DEF sum
<1> HIDE DEF mid
<1>7. 2 * mid <= start + f + now + l /\ 2 * mid >= start + f + now + l - 1
  BY <1>2, <1>4, <1>5
<1> QED BY <1>2, <1>3, <1>5, <1>6, <1>7

\* Which offsets rule 4 stops.
LEMMA Stopping ==
    ASSUME NEW t
    PROVE  StoppedBy({t}) <=> t > 300 \/ t < -300
BY DEF StoppedBy, TimeOffset

\* An answer with the timestamp of another era, or with none, makes the clock wrong
\* by more than rule 4 lets pass, whichever way it is off (time_sync.py:35-38).
THEOREM WrongStamps == ClockSpec => []WrongStampStops
<1>1. ClockTypeOK /\ ClockInv => WrongStampStops
  <2> SUFFICES ASSUME ClockTypeOK, ClockInv, offset # {}, ~synced \/ served >= Era
               PROVE  StoppedBy(offset)
    BY DEF WrongStampStops
  <2>1. PICK f, l \in skews, mid \in Int :
             /\ offset = {stamp - mid} /\ f \in Int /\ l \in Int
             /\ 2 * mid <= start + f + now + l /\ 2 * mid >= start + f + now + l - 1
             /\ f > -500 /\ l > -500 /\ start > 1000 + 2 * Budget
    BY Bounds
  <2>2. /\ start \in Nat /\ now \in Nat /\ served \in Nat /\ Budget \in Nat /\ Era \in Nat
        /\ start <= served /\ served <= now /\ now - start <= Budget
        /\ Era > 1000 + 2 * Budget /\ start < 2 * Era - Budget
    BY WaitAssumption, EraAssumption DEF ClockTypeOK, ClockInv
  <2>3. stamp = 0 \/ stamp = served - Era
    <3>1. CASE ~synced
      BY <3>1 DEF ClockInv
    <3>2. CASE synced /\ served >= Era
      <4>1. served < 2 * Era /\ Era > 0
        BY <2>2
      <4>2. served % Era = served - Era
        BY <2>2, <3>2, <4>1, Wrap
      <4> QED BY <3>2, <4>2 DEF ClockInv
    <3> QED BY <3>1, <3>2
  <2>4. stamp - mid < -300
    <3>1. CASE stamp = 0
      BY <2>1, <2>2, <3>1
    <3>2. CASE stamp = served - Era
      BY <2>1, <2>2, <3>2
    <3> QED BY <2>3, <3>1, <3>2
  <2> QED BY <2>1, <2>4, Stopping
<1> QED BY <1>1, ClockTypes, ClockCorrect, PTL

\* Rule 4 stops the clocks it is to stop and no others, up to half of the budget
\* (hard_stops.py:116-133).
THEOREM RuleFour == ClockSpec => []RuleFourJudges
<1>1. ClockTypeOK /\ ClockInv => RuleFourJudges
  <2> DEFINE half == (Budget + 1) \div 2
  <2> SUFFICES ASSUME ClockTypeOK, ClockInv, offset # {}, synced, served < Era
               PROVE  /\ (\A s \in skews : s > 300 + half) => StoppedBy(offset)
                      /\ (\A s \in skews : s < -300 - half) => StoppedBy(offset)
                      /\ (\A s \in skews : s >= -300 + half /\ s <= 300 - half)
                         => ~StoppedBy(offset)
    BY DEF RuleFourJudges
  <2>1. half \in Nat /\ 2 * half >= Budget /\ 2 * half <= Budget + 1
    BY WaitAssumption
  <2> HIDE DEF half
  <2>2. PICK f, l \in skews, mid \in Int :
             /\ offset = {stamp - mid} /\ f \in Int /\ l \in Int
             /\ 2 * mid <= start + f + now + l /\ 2 * mid >= start + f + now + l - 1
             /\ f > -500 /\ l > -500 /\ start > 1000 + 2 * Budget
    BY Bounds
  <2>3. /\ start \in Nat /\ now \in Nat /\ served \in Nat /\ Budget \in Nat /\ Era \in Nat
        /\ start <= served /\ served <= now /\ now - start <= Budget
        /\ Era > 1000 + 2 * Budget
    BY WaitAssumption, EraAssumption DEF ClockTypeOK, ClockInv
  <2>4. stamp = served
    <3>1. served % Era = served
      BY <2>3, Wrap
    <3> QED BY <3>1 DEF ClockInv
  <2>5. /\ 2 * (stamp - mid) <= Budget + 1 - f - l
        /\ 2 * (stamp - mid) >= 0 - Budget - f - l
    BY <2>2, <2>3, <2>4
  <2>6. stamp - mid \in Int
    BY <2>2, <2>3, <2>4
  <2>7. f > 300 + half /\ l > 300 + half => stamp - mid < -300
    BY <2>1, <2>2, <2>3, <2>5, <2>6
  <2>8. f < -300 - half /\ l < -300 - half => stamp - mid > 300
    BY <2>1, <2>2, <2>3, <2>5, <2>6
  <2>9. f >= -300 + half /\ f <= 300 - half /\ l >= -300 + half /\ l <= 300 - half
        => stamp - mid >= -300 /\ stamp - mid <= 300
    BY <2>1, <2>2, <2>3, <2>5, <2>6
  <2>10. StoppedBy(offset) <=> stamp - mid > 300 \/ stamp - mid < -300
    BY <2>2, Stopping
  <2> QED BY <2>2, <2>6, <2>7, <2>8, <2>9, <2>10
<1> QED BY <1>1, ClockTypes, ClockCorrect, PTL
==============================================================================
