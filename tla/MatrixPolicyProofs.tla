-------------------------- MODULE MatrixPolicyProofs --------------------------
(***************************************************************************)
(* Proofs about the rate limiter for any limit, window and clock, and that *)
(* what is proved of it alone holds in MatrixPolicy, where the events of   *)
(* overlapping pushes drive it.                                            *)
(***************************************************************************)
EXTENDS MatrixPolicy, MatrixDeliveryProofs

(* The log is in the order of time. *)
InOrder ==
  \A i, j \in 1..Len(admitted): i <= j => admitted[i] <= admitted[j] /\ admitted[j] <= now

(* What was popped had expired, and has been expired since. *)
PoppedIsOld == \A i \in 1..(head - 1): Expired(i)

QueueBounded == ~ Unlimited => Len(admitted) + 1 - head <= Limit

LimiterInv == LimiterTypeOK /\ InOrder /\ PoppedIsOld /\ QueueBounded /\ WithinLimit

-----------------------------------------------------------------------------
(* The limiter starts with an empty queue. *)
LEMMA LimiterInitInv == LimiterInit => LimiterInv
BY LimiterAssumption
DEF LimiterInit, LimiterInv, LimiterTypeOK, InOrder, PoppedIsOld, QueueBounded, WithinLimit, Unlimited

(* What letting an event through does to the log and to the queue. *)
LEMMA AllowInv ==
  ASSUME LimiterInv, Allow
  PROVE  LimiterInv'
<1> DEFINE n == Len(admitted) + 1
<1>1. now \in 0..MaxTime /\ admitted \in Seq(0..MaxTime) /\ head \in 1..n /\ now' = now
  BY DEF LimiterInv, LimiterTypeOK, Allow
<1>2. CASE Unlimited /\ UNCHANGED <<admitted, head>>
  BY <1>1, <1>2
  DEF LimiterInv, LimiterTypeOK, InOrder, PoppedIsOld, Expired, QueueBounded, WithinLimit, Unlimited
<1>3. ASSUME ~ Unlimited,
             NEW front \in head..n, PopsTo(front), n - front < Limit,
             head' = front, admitted' = Append(admitted, now)
      PROVE  LimiterInv'
  <2>1. /\ admitted' \in Seq(0..MaxTime) /\ Len(admitted') = n /\ admitted'[n] = now
        /\ \A i \in 1..(n - 1): admitted'[i] = admitted[i]
    BY <1>1, <1>3
  <2>2. LimiterTypeOK'
    BY <1>1, <1>3, <2>1 DEF LimiterTypeOK
  <2>3. InOrder'
    BY <1>1, <2>1 DEF LimiterInv, InOrder
  <2>4. \A i \in 1..(front - 1): Expired(i)
    BY <1>1, <1>3 DEF LimiterInv, PoppedIsOld, PopsTo
  <2>5. PoppedIsOld'
    BY <1>1, <1>3, <2>1, <2>4 DEF PoppedIsOld, Expired
  <2>6. QueueBounded'
    BY <1>1, <1>3, <2>1, LimiterAssumption DEF QueueBounded, Unlimited
  <2>7. WithinLimit'
    <3> SUFFICES ASSUME NEW i \in 1..n, i + Limit <= n
                 PROVE  admitted'[i + Limit] - admitted'[i] > Window
      BY <2>1 DEF WithinLimit, Unlimited
    <3>1. Limit \in Nat \ {0} /\ Window \in Nat
      BY <1>3, LimiterAssumption DEF Unlimited
    <3>2. CASE i + Limit = n
      <4>1. i \in 1..(front - 1)
        BY <1>1, <1>3, <3>1, <3>2
      <4>2. now - admitted[i] > Window
        BY <2>4, <4>1 DEF Expired
      <4> QED BY <1>1, <1>3, <2>1, <3>2, <4>1, <4>2
    <3>3. CASE i + Limit < n
      <4>1. i \in 1..Len(admitted) /\ i + Limit \in 1..Len(admitted)
        BY <1>1, <3>1, <3>3
      <4>2. admitted[i + Limit] - admitted[i] > Window
        BY <1>3, <4>1 DEF LimiterInv, WithinLimit
      <4> QED BY <1>1, <2>1, <4>1, <4>2
    <3> QED BY <1>1, <3>1, <3>2, <3>3
  <2> QED BY <2>2, <2>3, <2>5, <2>6, <2>7 DEF LimiterInv
<1> QED BY <1>2, <1>3 DEF Allow

(* A refusal pops what has expired and nothing else. *)
LEMMA RefuseInv ==
  ASSUME LimiterInv, Refuse
  PROVE  LimiterInv'
<1>1. PICK front \in head..(Len(admitted) + 1): PopsTo(front) /\ head' = front
  BY DEF Refuse
<1>2. UNCHANGED <<now, admitted>>
  BY DEF Refuse
<1>3. now \in 0..MaxTime /\ admitted \in Seq(0..MaxTime) /\ head \in 1..(Len(admitted) + 1)
  BY DEF LimiterInv, LimiterTypeOK
<1>4. LimiterTypeOK' /\ InOrder' /\ WithinLimit'
  BY <1>1, <1>2, <1>3 DEF LimiterInv, LimiterTypeOK, InOrder, WithinLimit, Unlimited
<1>5. PoppedIsOld'
  BY <1>1, <1>2, <1>3 DEF LimiterInv, PoppedIsOld, PopsTo, Expired
<1>6. QueueBounded'
  BY <1>1, <1>2, <1>3, LimiterAssumption DEF LimiterInv, QueueBounded, Unlimited
<1> QED BY <1>4, <1>5, <1>6 DEF LimiterInv

(* Time only makes more events expire. *)
LEMMA TickInv ==
  ASSUME LimiterInv, Tick
  PROVE  LimiterInv'
<1>1. now \in 0..MaxTime /\ admitted \in Seq(0..MaxTime) /\ head \in 1..(Len(admitted) + 1)
  BY DEF LimiterInv, LimiterTypeOK
<1>2. now' = now + 1 /\ now < MaxTime /\ UNCHANGED <<admitted, head>>
  BY DEF Tick
<1>3. LimiterTypeOK' /\ QueueBounded' /\ WithinLimit'
  BY <1>1, <1>2, LimiterAssumption
  DEF LimiterInv, LimiterTypeOK, QueueBounded, WithinLimit, Unlimited
<1>4. \A i \in 1..Len(admitted): admitted[i] \in Nat
  BY <1>1, LimiterAssumption
<1>5. InOrder'
  BY <1>1, <1>2, <1>4 DEF LimiterInv, InOrder
<1>6. PoppedIsOld'
  <2> SUFFICES ASSUME NEW i \in 1..(head - 1)
               PROVE  (now + 1) - admitted[i] > Window
    BY <1>2 DEF PoppedIsOld, Expired
  <2>1. now - admitted[i] > Window /\ admitted[i] \in Nat
    BY <1>1, <1>4 DEF LimiterInv, PoppedIsOld, Expired
  <2> QED BY <1>1, <2>1, LimiterAssumption
<1> QED BY <1>3, <1>5, <1>6 DEF LimiterInv

(* Every step of the limiter preserves the invariant. *)
LEMMA LimiterStepInv == LimiterInv /\ [LimiterNext]_limiterVars => LimiterInv'
<1> SUFFICES ASSUME LimiterInv, [LimiterNext]_limiterVars
             PROVE  LimiterInv'
  OBVIOUS
<1>1. CASE Allow
  BY <1>1, AllowInv
<1>2. CASE Refuse
  BY <1>2, RefuseInv
<1>3. CASE Tick
  BY <1>3, TickInv
<1>4. CASE Forget
  BY <1>4, LimiterAssumption
  DEF Forget, LimiterInv, LimiterTypeOK, InOrder, PoppedIsOld, QueueBounded, WithinLimit, Unlimited
<1>5. CASE UNCHANGED limiterVars
  BY <1>5
  DEF limiterVars, LimiterInv, LimiterTypeOK, InOrder, PoppedIsOld, Expired, QueueBounded,
      WithinLimit, Unlimited
<1> QED BY <1>1, <1>2, <1>3, <1>4, <1>5 DEF LimiterNext

(* No window, wherever it begins, sees more events let through than the    *)
(* limit: RoomRateLimiter::allow, whatever the limit and the window.       *)
THEOREM LimitHolds == LimiterSpec => []WithinLimit
<1>1. LimiterInv => WithinLimit
  BY DEF LimiterInv
<1> QED BY <1>1, LimiterInitInv, LimiterStepInv, PTL DEF LimiterSpec

-----------------------------------------------------------------------------
(* In MatrixPolicy the limiter only ever takes steps of its own: what holds *)
(* of it alone holds of it there, with overlapping pushes and failures.     *)
THEOREM PolicyImplementsLimiter == PolicySpec => LimiterSpec
<1>1. PolicyInit => LimiterInit
  BY DEF PolicyInit
<1>2. [PolicyNext]_policyVars => [LimiterNext]_limiterVars
  BY DEF PolicyNext, PolicyPush, PolicyStep, PolicyAnswer, PolicyAnswerLost, Moves, Screened,
         RateLimited, Unroutable, Passed, PolicyFails, FailsElsewhere, ClockTicks, LimiterNext,
         policyVars
<1> QED BY <1>1, <1>2, PTL DEF PolicySpec, LimiterSpec

(* What the window ending now counts is finite. *)
LEMMA RecentFinite ==
  ASSUME LimiterInv
  PROVE  IsFiniteSet(Recent) /\ Cardinality(Recent) \in Nat
<1>1. IsFiniteSet(1..Len(admitted))
  BY FS_Interval DEF LimiterInv, LimiterTypeOK
<1>2. Recent \subseteq 1..Len(admitted)
  BY DEF Recent
<1> QED BY <1>1, <1>2, FS_Subset, FS_CardinalityType

(* When what expired is popped, the queue is what the window counts: what   *)
(* was popped before had expired too, and what is younger has not.          *)
LEMMA QueueIsRecent ==
  ASSUME LimiterInv, NEW front \in head..(Len(admitted) + 1), PopsTo(front)
  PROVE  /\ Recent = front..Len(admitted)
         /\ Cardinality(Recent) = Len(admitted) + 1 - front
<1>1. /\ now \in Nat /\ admitted \in Seq(0..MaxTime) /\ head \in 1..(Len(admitted) + 1)
      /\ front \in Nat \ {0} /\ front <= Len(admitted) + 1 /\ Window \in Nat
  BY LimiterAssumption DEF LimiterInv, LimiterTypeOK
<1>2. \A i \in 1..Len(admitted): admitted[i] \in Nat
  BY <1>1, LimiterAssumption
<1>3. ASSUME NEW i \in front..Len(admitted)
      PROVE  i \in Recent
  <2>1. ~ Expired(front) /\ front \in 1..Len(admitted) /\ i \in 1..Len(admitted) /\ front <= i
    BY <1>1 DEF PopsTo
  <2>2. admitted[front] <= admitted[i] /\ now - admitted[front] <= Window
    BY <1>1, <1>2, <2>1 DEF LimiterInv, InOrder, Expired
  <2> QED BY <1>1, <1>2, <2>1, <2>2 DEF Recent
<1>4. ASSUME NEW i \in Recent
      PROVE  i \in front..Len(admitted)
  <2>1. i \in 1..Len(admitted) /\ ~ Expired(i)
    BY <1>1, <1>2 DEF Recent, Expired
  <2>2. i \notin 1..(head - 1) /\ i \notin head..(front - 1)
    BY <2>1 DEF LimiterInv, PoppedIsOld, PopsTo
  <2> QED BY <1>1, <2>1, <2>2
<1>5. Recent = front..Len(admitted)
  BY <1>3, <1>4
<1>6. Cardinality(front..Len(admitted)) = Len(admitted) + 1 - front
  <2> DEFINE n == Len(admitted)
  <2>1. front \in Int /\ n \in Int /\ front <= n + 1
    BY <1>1
  <2> HIDE DEF n
  <2>2. Cardinality(front..n) = IF front > n THEN 0 ELSE n - front + 1
    BY <2>1, FS_Interval
  <2>3. Cardinality(front..n) = n + 1 - front
    BY <2>1, <2>2
  <2> QED BY <2>3 DEF n
<1> QED BY <1>5, <1>6

(* The queue decides as the window does. *)
LEMMA DecidesByWindow ==
  ASSUME LimiterInv
  PROVE  /\ Refuse => Cardinality(Recent) >= Limit
         /\ Allow => Unlimited \/ Cardinality(Recent) < Limit
BY QueueIsRecent DEF Refuse, Allow

(* The same of the whole: whether an event is dropped for the rate is a     *)
(* matter of what the room let through within the window, and only of that. *)
THEOREM WindowDecides == PolicySpec => DecidedByWindow
<1>1. LimiterInv /\ [PolicyNext]_policyVars
        => [\A h \in Handlers:
              /\ RateLimited(h) => Cardinality(Recent) >= Limit
              /\ Passed(h) \/ Unroutable(h) => Unlimited \/ Cardinality(Recent) < Limit]_policyVars
  BY DecidesByWindow DEF RateLimited, Passed, Unroutable
<1>2. LimiterSpec => []LimiterInv
  BY LimiterInitInv, LimiterStepInv, PTL DEF LimiterSpec
<1> QED BY <1>1, <1>2, PolicyImplementsLimiter, PTL DEF PolicySpec, DecidedByWindow

-----------------------------------------------------------------------------
(* The limiter takes nothing from the delivery but choices: every behaviour *)
(* of MatrixPolicy is one of MatrixDelivery, without a restart.             *)
THEOREM PolicyImplementsDelivery == PolicySpec => Spec
<1>1. PolicyInit => Init
  BY DEF PolicyInit
<1>2. [PolicyNext]_policyVars => [Next]_vars
  BY DEF PolicyNext, PolicyPush, PolicyStep, PolicyAnswer, PolicyAnswerLost, Moves, Screened,
         RateLimited, Unroutable, Passed, PolicyFails, FailsElsewhere, ClockTicks, Next, Handling, Step,
         policyVars
<1> QED BY <1>1, <1>2, PTL DEF PolicySpec, Spec

(* Edits that pass the limiter and meet no failure are shown, and a message *)
(* ends with its last one: handle_edit_message, behind RoomRateLimiter.     *)
THEOREM PolicyShowsEdits == PolicySpec => [](EditIsShown /\ LastEditStays)
BY PolicyImplementsDelivery, AlwaysEditIsShown, AlwaysLastEditStays, PTL

(* And what reaches the chat is fed in the order of the room, the rate and  *)
(* the message policies notwithstanding: they only keep messages away.      *)
THEOREM PolicyKeepsFeed == PolicySpec => FeedSpec
BY PolicyImplementsDelivery, ImplementsFeed, PTL
=============================================================================
