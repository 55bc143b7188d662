------------------------- MODULE Storefront_proofs -------------------------
(***************************************************************************)
(* What the customer is told before and after an order, for any schedule,  *)
(* catalog, coupons and carts: an announced opening is one, a paid cart is *)
(* honoured, and the invoice adds up to the rupees charged.                *)
(*                                                                         *)
(* The last is about folds over the lines of an order.  What a fold comes  *)
(* to is shown in three steps: a function with the fold's equation exists  *)
(* (FoldExists), so that the CHOOSE in the fold's definition is one; its   *)
(* values for the first 0, 1, 2, ... lines are a run of steps (FoldRuns);  *)
(* and two runs with the same steps are equal.  Induction is the least     *)
(* number that a set leaves out.                                           *)
(***************************************************************************)
EXTENDS StoreAvailability, Pricing, FiniteSetTheorems, WellFoundedInduction, TLAPS

-----------------------------------------------------------------------------
(* Numbers *)

\* A set of numbers has a smallest one.
LEMMA LeastMember ==
    ASSUME NEW T \in SUBSET Nat, T # {}
    PROVE  \E x \in T : \A y \in T : x <= y
<1> DEFINE below == {p \in Nat \X Nat : p[1] < p[2]}
<1>1. IsWellFoundedOn(below, Nat)
  BY NatLessThanWellFounded DEF OpToRel
<1>2. PICK x \in T : \A y \in T : ~(<<y, x>> \in below)
  <2> HIDE DEF below
  <2> QED
    BY <1>1, WFMin
<1>3. ASSUME NEW y \in T
      PROVE  x <= y
  <2>1. PICK p \in Nat \X Nat : p = <<y, x>>
    OBVIOUS
  <2>2. p[1] = y /\ p[2] = x
    BY <2>1
  <2>3. ~(p[1] < p[2])
    BY <1>2, <2>1
  <2> QED
    BY <2>2, <2>3
<1> QED
  BY <1>3

\* Induction, from the least number that a set leaves out.
LEMMA Induction ==
    ASSUME NEW S, 0 \in S, \A n \in Nat : n \in S => n + 1 \in S
    PROVE  \A n \in Nat : n \in S
<1> SUFFICES ASSUME NEW m \in Nat, m \notin S PROVE FALSE
  OBVIOUS
<1> DEFINE out == {n \in Nat : n \notin S}
<1>1. PICK x \in out : \A y \in out : x <= y
  <2>1. out \in SUBSET Nat /\ out # {}
    OBVIOUS
  <2> HIDE DEF out
  <2> QED
    BY <2>1, LeastMember
<1>2. x # 0 /\ x - 1 \in Nat
  OBVIOUS
<1>3. x - 1 \in S
  BY <1>1, <1>2
<1>4. x - 1 + 1 = x
  OBVIOUS
<1> QED
  BY <1>2, <1>3, <1>4

-----------------------------------------------------------------------------
(* When the store opens again *)

SettingsInv ==
    /\ weekly \in WeeklyHours /\ special \in SpecialDays
    /\ closure \in Closures /\ zones \in ZoneSets
    /\ clock \in Nat

LEMMA SettingsStart == AvailabilityInit => SettingsInv
BY DEF AvailabilityInit, SettingsInv

LEMMA SettingsStay == SettingsInv /\ [AvailabilityNext]_availabilityVars => SettingsInv'
BY DEF SettingsInv, AvailabilityNext, TimePasses, availabilityVars

LEMMA DayLengthNat == DayLength \in Nat \ {0} /\ WeekLength \in Nat \ {0} /\ LookAhead \in Nat
BY AvailabilityAssumption

\* An instant is on the day that began last.
LEMMA DayBegan ==
    ASSUME NEW at \in Int
    PROVE  /\ DayOf(at) \in Int
           /\ Instant(DayOf(at), 0) <= at /\ at < Instant(DayOf(at), DayLength)
<1>1. /\ at \div DayLength \in Int
      /\ (at \div DayLength) * DayLength <= at
      /\ at < (at \div DayLength) * DayLength + DayLength
  BY DayLengthNat
<1> QED
  BY <1>1, DayLengthNat DEF DayOf, Instant

LEMMA DaysFollow ==
    ASSUME NEW p \in Int, NEW q \in Int, p < q
    PROVE  Instant(p, DayLength) <= Instant(q, 0)
<1>1. p * DayLength + DayLength <= q * DayLength
  BY DayLengthNat
<1> QED
  BY <1>1, DayLengthNat DEF Instant

LEMMA InstantInt ==
    ASSUME NEW day \in Int, NEW time \in Int
    PROVE  /\ Instant(day, time) \in Int
           /\ time >= 0 => Instant(day, 0) <= Instant(day, time)
           /\ time < DayLength => Instant(day, time) < Instant(day, DayLength)
<1>1. day * DayLength \in Int
  BY DayLengthNat
<1> QED
  BY <1>1, DayLengthNat DEF Instant

LEMMA DayIs ==
    ASSUME NEW at \in Int, NEW day \in Int,
           Instant(day, 0) <= at, at < Instant(day, DayLength)
    PROVE  DayOf(at) = day
<1> DEFINE q == DayOf(at)
<1>1. q \in Int /\ Instant(q, 0) <= at /\ at < Instant(q, DayLength)
  BY DayBegan
<1> HIDE DEF q
<1>2. /\ Instant(q, 0) \in Int /\ Instant(q, DayLength) \in Int
      /\ Instant(day, 0) \in Int /\ Instant(day, DayLength) \in Int
  BY <1>1, InstantInt, DayLengthNat
<1>3. CASE q < day
  <2>1. Instant(q, DayLength) <= Instant(day, 0)
    BY <1>1, <1>3, DaysFollow
  <2> QED
    BY <1>1, <1>2, <2>1
<1>4. CASE day < q
  <2>1. Instant(day, DayLength) <= Instant(q, 0)
    BY <1>1, <1>4, DaysFollow
  <2> QED
    BY <1>1, <1>2, <2>1
<1> QED
  BY <1>1, <1>3, <1>4 DEF q

LEMMA DaysMonotone ==
    ASSUME NEW a \in Int, NEW b \in Int, a <= b
    PROVE  DayOf(a) <= DayOf(b)
<1> DEFINE p == DayOf(a)
           q == DayOf(b)
<1>1. /\ p \in Int /\ Instant(p, 0) <= a
      /\ q \in Int /\ b < Instant(q, DayLength)
  BY DayBegan
<1> HIDE DEF p, q
<1>2. Instant(q, DayLength) \in Int /\ Instant(p, 0) \in Int
  BY <1>1, InstantInt, DayLengthNat
<1>3. ASSUME q < p
      PROVE  FALSE
  <2>1. Instant(q, DayLength) <= Instant(p, 0)
    BY <1>1, <1>3, DaysFollow
  <2> QED
    BY <1>1, <1>2, <2>1
<1>4. p <= q
  BY <1>1, <1>3
<1> QED
  BY <1>4 DEF p, q

-----------------------------------------------------------------------------
\* The address has a zone that takes orders.
Served == ActiveZones # {} /\ (distance = NoDistance \/ ZonesReaching # {})

\* The store takes orders at this instant.
Open(at) ==
    LET day == DayOf(at) IN
    /\ ~ClosureActive(at) /\ ScheduleForDate(day).isOpen
    /\ Instant(day, ScheduleForDate(day).opensAt) <= at
    /\ at < Instant(day, ScheduleForDate(day).closesAt)
    /\ at < CutoffForDate(day)

LEMMA ScheduleTyped ==
    ASSUME SettingsInv, NEW day \in Int
    PROVE  ScheduleForDate(day) \in Schedule
<1>1. day % WeekLength \in 0..WeekLength - 1
  BY DayLengthNat
<1> QED
  BY <1>1, AvailabilityAssumption DEF SettingsInv, ScheduleForDate

LEMMA CutoffTyped ==
    ASSUME SettingsInv, Served, NEW day \in Int
    PROVE  /\ CutoffForDate(day) \in Int
           /\ CutoffForDate(day) <= Instant(day, ScheduleForDate(day).closesAt)
<1>1. \A z \in ActiveZones : z.limit \in Nat /\ z.cutoff \in 0..DayLength - 1
  BY AvailabilityAssumption DEF SettingsInv, ActiveZones, DeliveryZone
<1> DEFINE time == IF ZonesReaching # {} THEN Zone.cutoff
                   ELSE CHOOSE c \in {z.cutoff : z \in ActiveZones} :
                            \A z \in ActiveZones : z.cutoff <= c
<1>2. time \in Int
  <2>1. CASE ZonesReaching # {}
    <3> DEFINE limits == {z.limit : z \in ZonesReaching}
    <3>1. limits \in SUBSET Nat /\ limits # {}
      BY <1>1, <2>1 DEF ZonesReaching
    <3>2. PICK x \in limits : \A y \in limits : x <= y
      BY <3>1, LeastMember
    <3>3. \E z \in ZonesReaching : \A y \in ZonesReaching : z.limit <= y.limit
      BY <3>2
    <3>4. Zone \in ZonesReaching
      BY <3>3 DEF Zone
    <3>5. Zone \in ActiveZones
      BY <3>4 DEF ZonesReaching
    <3>6. PICK z \in ActiveZones : z = Zone
      BY <3>5
    <3> QED
      BY <1>1, <2>1, <3>6
  <2>2. CASE ZonesReaching = {}
    <3> DEFINE left == {DayLength - z.cutoff : z \in ActiveZones}
    <3>1. left \in SUBSET Nat /\ left # {}
      BY <1>1, DayLengthNat DEF Served
    <3>2. PICK x \in left : \A y \in left : x <= y
      BY <3>1, LeastMember
    <3>3. PICK z \in ActiveZones : x = DayLength - z.cutoff
      BY <3>2
    <3>4. \A y \in ActiveZones : y.cutoff <= z.cutoff
      <4>1. ASSUME NEW y \in ActiveZones
            PROVE  y.cutoff <= z.cutoff
        <5>1. DayLength - z.cutoff <= DayLength - y.cutoff
          BY <3>2, <3>3
        <5>2. PICK b \in Nat : b = y.cutoff
          BY <1>1
        <5>3. PICK a \in Nat : a = z.cutoff
          BY <1>1
        <5> QED
          BY <5>1, <5>2, <5>3, DayLengthNat
      <4> QED
        BY <4>1
    <3>5. \E c \in {y.cutoff : y \in ActiveZones} : \A y \in ActiveZones : y.cutoff <= c
      BY <3>4
    <3>6. (CHOOSE c \in {y.cutoff : y \in ActiveZones} : \A y \in ActiveZones : y.cutoff <= c)
             \in {y.cutoff : y \in ActiveZones}
      BY <3>5
    <3>7. time \in {y.cutoff : y \in ActiveZones}
      BY <2>2, <3>6
    <3>8. PICK y \in ActiveZones : time = y.cutoff
      BY <3>7
    <3> QED
      BY <1>1, <3>8
  <2> QED
    BY <2>1, <2>2
<1>3. PICK c \in Int : c = Instant(day, ScheduleForDate(day).closesAt)
  <2>1. ScheduleForDate(day).closesAt \in Int
    BY ScheduleTyped DEF Schedule
  <2> QED
    BY <2>1, InstantInt
<1>4. CutoffForDate(day) = Earlier(c, Instant(day, time))
  BY <1>3 DEF CutoffForDate
<1> HIDE DEF time
<1>5. PICK t \in Int : t = Instant(day, time)
  BY <1>2, InstantInt
<1> QED
  BY <1>3, <1>4, <1>5 DEF Earlier

\* What evaluateStoreAvailability answers, return by return.
LEMMA Answers ==
    ASSUME SettingsInv, NEW at \in Int
    PROVE  /\ ~Served => Evaluate(at).accepting = FALSE /\ Evaluate(at).next = Never
           /\ Served => \/ /\ Evaluate(at).accepting = FALSE /\ ~Open(at)
                           /\ Evaluate(at).next = NextOpening(at)
                        \/ /\ Evaluate(at).accepting = FALSE
                           /\ Evaluate(at).code = "BEFORE_OPENING"
                           /\ ~ClosureActive(at) /\ ScheduleForDate(DayOf(at)).isOpen
                           /\ at < Instant(DayOf(at), ScheduleForDate(DayOf(at)).opensAt)
                           /\ Evaluate(at).next =
                                 Instant(DayOf(at), ScheduleForDate(DayOf(at)).opensAt)
                        \/ /\ Evaluate(at).accepting = TRUE
                           /\ ~ClosureActive(at) /\ ScheduleForDate(DayOf(at)).isOpen
                           /\ ~(at < Instant(DayOf(at), ScheduleForDate(DayOf(at)).opensAt))
                           /\ ~(at >= Instant(DayOf(at), ScheduleForDate(DayOf(at)).closesAt))
                           /\ ~(at >= CutoffForDate(DayOf(at)))
<1> DEFINE opensAt == Instant(DayOf(at), ScheduleForDate(DayOf(at)).opensAt)
           closesAt == Instant(DayOf(at), ScheduleForDate(DayOf(at)).closesAt)
<1>1. CASE ~Served
  <2>1. \E code : Evaluate(at) = State(code, FALSE, Never)
    BY <1>1 DEF Evaluate, Served
  <2> QED
    BY <1>1, <2>1 DEF State
<1>2. CASE Served
  <2>1. Evaluate(at) =
           IF ClosureActive(at) THEN State("TEMPORARILY_CLOSED", FALSE, NextOpening(at))
           ELSE IF ~ScheduleForDate(DayOf(at)).isOpen THEN State("CLOSED_TODAY", FALSE, NextOpening(at))
           ELSE IF at < opensAt THEN State("BEFORE_OPENING", FALSE, opensAt)
           ELSE IF at >= closesAt THEN State("AFTER_CLOSING", FALSE, NextOpening(at))
           ELSE IF at >= CutoffForDate(DayOf(at))
                THEN State("ORDER_CUTOFF_PASSED", FALSE, NextOpening(at))
           ELSE State("OPEN", TRUE, Never)
    BY <1>2 DEF Evaluate, Served
  <2>2. DayOf(at) \in Int
    BY DayBegan
  <2>3. CutoffForDate(DayOf(at)) \in Int
    BY <1>2, <2>2, CutoffTyped
  <2>4. closesAt \in Int
    <3>1. ScheduleForDate(DayOf(at)).closesAt \in Int
      BY <2>2, ScheduleTyped DEF Schedule
    <3> QED
      BY <2>2, <3>1, InstantInt
  <2>5. CASE ClosureActive(at) \/ ~ScheduleForDate(DayOf(at)).isOpen
    <3>1. \E code : Evaluate(at) = State(code, FALSE, NextOpening(at))
      BY <2>1, <2>5
    <3> QED
      BY <1>2, <2>5, <3>1 DEF State, Open
  <2>6. CASE ~(ClosureActive(at) \/ ~ScheduleForDate(DayOf(at)).isOpen) /\ at < opensAt
    <3>1. Evaluate(at) = State("BEFORE_OPENING", FALSE, opensAt)
      BY <2>1, <2>6
    <3> QED
      BY <1>2, <2>6, <3>1 DEF State
  <2>7. CASE ~(ClosureActive(at) \/ ~ScheduleForDate(DayOf(at)).isOpen) /\ ~(at < opensAt)
    <3>1. CASE at >= closesAt \/ at >= CutoffForDate(DayOf(at))
      <4>1. \E code : Evaluate(at) = State(code, FALSE, NextOpening(at))
        BY <2>1, <2>7, <3>1
      <4>2. ~Open(at)
        BY <2>3, <2>4, <3>1 DEF Open
      <4> QED
        BY <1>2, <4>1, <4>2 DEF State
    <3>2. CASE ~(at >= closesAt \/ at >= CutoffForDate(DayOf(at)))
      <4>1. Evaluate(at) = State("OPEN", TRUE, Never)
        BY <2>1, <2>7, <3>2
      <4> QED
        BY <1>2, <2>7, <3>2, <4>1 DEF State
    <3> QED
      BY <3>1, <3>2
  <2> QED
    BY <2>5, <2>6, <2>7
<1> QED
  BY <1>1, <1>2

\* It accepts an order exactly when a zone serves the address and the store is open.
LEMMA AcceptsWhenOpen ==
    ASSUME SettingsInv, NEW at \in Int
    PROVE  Evaluate(at).accepting <=> Served /\ Open(at)
<1>1. CASE ~Served
  BY <1>1, Answers
<1>2. CASE Served
  <2>1. DayOf(at) \in Int
    BY DayBegan
  <2>2. PICK c \in Int : c = CutoffForDate(DayOf(at))
    BY <1>2, <2>1, CutoffTyped
  <2>3. ScheduleForDate(DayOf(at)).closesAt \in Int /\ ScheduleForDate(DayOf(at)).opensAt \in Int
    BY <2>1, ScheduleTyped DEF Schedule
  <2>4. PICK o \in Int : o = Instant(DayOf(at), ScheduleForDate(DayOf(at)).opensAt)
    BY <2>1, <2>3, InstantInt
  <2>5. PICK e \in Int : e = Instant(DayOf(at), ScheduleForDate(DayOf(at)).closesAt)
    BY <2>1, <2>3, InstantInt
  <2>6. Open(at) <=> /\ ~ClosureActive(at) /\ ScheduleForDate(DayOf(at)).isOpen
                     /\ o <= at /\ at < e /\ at < c
    BY <2>2, <2>4, <2>5 DEF Open
  <2>7. \/ Evaluate(at).accepting = FALSE /\ ~Open(at)
        \/ Evaluate(at).accepting = FALSE /\ at < o
        \/ /\ Evaluate(at).accepting = TRUE /\ ~ClosureActive(at) /\ ScheduleForDate(DayOf(at)).isOpen
           /\ ~(at < o) /\ ~(at >= e) /\ ~(at >= c)
    BY <1>2, <2>2, <2>4, <2>5, Answers
  <2>8. (Evaluate(at).accepting = TRUE /\ Open(at)) \/ (Evaluate(at).accepting = FALSE /\ ~Open(at))
    BY <2>6, <2>7
  <2> QED
    BY <1>2, <2>8
<1> QED
  BY <1>1, <1>2

LEMMA CandidateTyped ==
    ASSUME SettingsInv, NEW day \in Int
    PROVE  /\ Candidate(day, clock) \in Int /\ Candidate(day, clock) >= clock
           /\ Candidate(day, clock) >= Instant(day, ScheduleForDate(day).opensAt)
           /\ ClosureActive(clock) => Candidate(day, clock) >= closure.to
<1>1. ScheduleForDate(day).opensAt \in Int
  BY ScheduleTyped DEF Schedule
<1>2. PICK o \in Int : o = Instant(day, ScheduleForDate(day).opensAt)
  BY <1>1, InstantInt
<1>3. closure.to \in Int /\ clock \in Int
  BY AvailabilityAssumption DEF SettingsInv
<1> QED
  BY <1>2, <1>3 DEF Candidate

\* The candidate of a day that has one is on that day, and the store is open then.
LEMMA CandidateOpens ==
    ASSUME SettingsInv, Served, ~ClosureComes, NEW day \in Int,
           ScheduleForDate(day).isOpen, Candidate(day, clock) < CutoffForDate(day)
    PROVE  Open(Candidate(day, clock)) /\ DayOf(Candidate(day, clock)) = day
<1>1. PICK at \in Int : /\ at = Candidate(day, clock) /\ at >= clock
                        /\ at >= Instant(day, ScheduleForDate(day).opensAt)
                        /\ ClosureActive(clock) => at >= closure.to
  BY CandidateTyped
<1>2. PICK opensAt \in Int, closesAt \in Int :
         /\ opensAt = ScheduleForDate(day).opensAt /\ opensAt >= 0
         /\ closesAt = ScheduleForDate(day).closesAt /\ closesAt < DayLength
  BY ScheduleTyped, DayLengthNat DEF Schedule
<1>3. PICK o \in Int : o = Instant(day, opensAt) /\ o >= Instant(day, 0)
  <2>1. /\ Instant(day, opensAt) \in Int /\ Instant(day, 0) \in Int
        /\ Instant(day, 0) <= Instant(day, opensAt)
    BY <1>2, DayLengthNat DEF Instant
  <2> QED
    BY <2>1
<1>4. PICK e \in Int : e = Instant(day, closesAt) /\ e < Instant(day, DayLength)
  <2>1. Instant(day, closesAt) \in Int /\ Instant(day, closesAt) < Instant(day, DayLength)
    BY <1>2, InstantInt
  <2> QED
    BY <2>1
<1>5. PICK c \in Int : c = CutoffForDate(day) /\ c <= e
  BY <1>2, <1>4, CutoffTyped
<1>6. Instant(day, 0) \in Int /\ Instant(day, DayLength) \in Int
  BY DayLengthNat DEF Instant
<1>7. o <= at /\ at < c /\ at < e
  BY <1>1, <1>2, <1>3, <1>5
<1>8. DayOf(at) = day
  BY <1>3, <1>4, <1>6, <1>7, DayIs
<1>9. ~ClosureActive(at)
  <2>1. closure.to \in Int /\ closure.from \in Int /\ closure.isActive \in BOOLEAN /\ clock \in Int
    BY AvailabilityAssumption DEF SettingsInv
  <2> QED
    BY <1>1, <2>1 DEF ClosureActive, ClosureComes
<1> QED
  BY <1>1, <1>2, <1>3, <1>4, <1>5, <1>7, <1>8, <1>9 DEF Open

\* Whenever the store is open from now on, its day has a candidate by then.
LEMMA OpenHasCandidate ==
    ASSUME SettingsInv, Served, NEW at \in Int, clock <= at, Open(at)
    PROVE  /\ DayOf(at) \in Int /\ DayOf(at) >= DayOf(clock) /\ ScheduleForDate(DayOf(at)).isOpen
           /\ Candidate(DayOf(at), clock) <= at
           /\ Candidate(DayOf(at), clock) < CutoffForDate(DayOf(at))
<1>1. PICK day \in Int : day = DayOf(at)
  BY DayBegan
<1>2. clock \in Int /\ closure.to \in Int /\ closure.from \in Int /\ closure.isActive \in BOOLEAN
  BY AvailabilityAssumption DEF SettingsInv
<1>3. DayOf(clock) <= day
  BY <1>1, <1>2, DaysMonotone
<1>4. ScheduleForDate(day).opensAt \in Int
  BY ScheduleTyped DEF Schedule
<1>5. PICK o \in Int : o = Instant(day, ScheduleForDate(day).opensAt)
  BY <1>4, InstantInt
<1>6. PICK c \in Int : c = CutoffForDate(day)
  BY CutoffTyped
<1>7. ~ClosureActive(at) /\ ScheduleForDate(day).isOpen /\ o <= at /\ at < c
  BY <1>1, <1>5, <1>6 DEF Open
<1>8. ClosureActive(clock) => closure.to <= at
  BY <1>2, <1>7 DEF ClosureActive
<1>9. PICK x \in Int : x = Candidate(day, clock)
  BY CandidateTyped
<1>10. x <= at
  BY <1>2, <1>5, <1>7, <1>8, <1>9 DEF Candidate
<1>11. DayOf(clock) \in Int
  BY <1>2, DayBegan
<1> QED
  BY <1>1, <1>3, <1>6, <1>7, <1>9, <1>10, <1>11

\* The days that have a candidate.
OpenDays == {day \in DayOf(clock)..DayOf(clock) + LookAhead - 1 :
                ScheduleForDate(day).isOpen /\ Candidate(day, clock) < CutoffForDate(day)}

LEMMA NoOpening ==
    ASSUME SettingsInv, Served, OpenDays = {}
    PROVE  \A at \in clock..Instant(DayOf(clock) + LookAhead, 0) - 1 : ~Open(at)
<1>1. PICK now \in Int : now = DayOf(clock)
  BY DayBegan DEF SettingsInv
<1>2. PICK end \in Int : end = Instant(now + LookAhead, 0)
  BY InstantInt, DayLengthNat
<1>3. ASSUME NEW at \in Int, clock <= at, at <= end - 1, Open(at)
      PROVE  FALSE
  <2>1. PICK day \in Int : day = DayOf(at)
    BY DayBegan
  <2>2. /\ day >= now /\ ScheduleForDate(day).isOpen /\ Candidate(day, clock) < CutoffForDate(day)
    BY <1>1, <1>3, <2>1, OpenHasCandidate
  <2>3. PICK began \in Int : began = Instant(day, 0) /\ began <= at
    BY <2>1, DayBegan, InstantInt
  <2>4. day < now + LookAhead
    <3>1. ASSUME now + LookAhead <= day
          PROVE  end <= began
      <4>1. PICK last \in Int : last = now + LookAhead
        BY DayLengthNat
      <4>2. CASE last = day
        BY <1>2, <2>3, <4>1, <4>2
      <4>3. CASE last < day
        <5>1. Instant(last, DayLength) <= Instant(day, 0)
          BY <4>3, DaysFollow
        <5>2. Instant(last, 0) <= Instant(last, DayLength) /\ Instant(last, DayLength) \in Int
          BY InstantInt, DayLengthNat
        <5> QED
          BY <1>2, <2>3, <4>1, <5>1, <5>2
      <4> QED
        BY <3>1, <4>1, <4>2, <4>3
    <3> QED
      BY <1>2, <1>3, <2>3, <3>1, DayLengthNat
  <2>5. day \in now..now + LookAhead - 1
    BY <2>2, <2>4, DayLengthNat
  <2> QED
    BY <1>1, <2>2, <2>5 DEF OpenDays
<1>4. clock \in Int
  BY DEF SettingsInv
<1> QED
  BY <1>1, <1>2, <1>3, <1>4

LEMMA FirstOpening ==
    ASSUME SettingsInv, Served, ~ClosureComes, OpenDays # {}
    PROVE  /\ NextOpening(clock) \in Int
           /\ Open(NextOpening(clock))
           /\ \A at \in clock..NextOpening(clock) - 1 : ~Open(at)
<1>1. PICK now \in Int : now = DayOf(clock) /\ now >= 0
  <2>1. clock \in Int /\ clock >= 0
    BY DEF SettingsInv
  <2>2. DayOf(0) = 0
    BY DayIs, DayLengthNat DEF Instant
  <2>3. DayOf(0) <= DayOf(clock)
    BY <2>1, DaysMonotone
  <2> QED
    BY <2>1, <2>2, <2>3, DayBegan
<1>2. OpenDays \in SUBSET Nat
  BY <1>1, DayLengthNat DEF OpenDays
<1>3. \E day \in OpenDays : \A other \in OpenDays : day <= other
  BY <1>2, LeastMember
<1>4. PICK first : first = CHOOSE day \in OpenDays : \A other \in OpenDays : day <= other
  OBVIOUS
<1>5. first \in OpenDays /\ \A other \in OpenDays : first <= other
  BY <1>3, <1>4
<1>6. NextOpening(clock) = Candidate(first, clock)
  BY <1>4 DEF NextOpening, OpenDays
<1>7. first \in Int /\ ScheduleForDate(first).isOpen /\ Candidate(first, clock) < CutoffForDate(first)
      /\ first <= now + LookAhead - 1
  BY <1>1, <1>2, <1>5, DayLengthNat DEF OpenDays
<1>8. PICK next \in Int : next = Candidate(first, clock)
  BY <1>7, CandidateTyped
<1>9. Open(next) /\ DayOf(next) = first
  BY <1>7, <1>8, CandidateOpens
<1>10. ASSUME NEW at \in Int, clock <= at, at <= next - 1, Open(at)
       PROVE  FALSE
  <2>1. PICK day \in Int : day = DayOf(at)
    BY DayBegan
  <2>2. /\ day >= now /\ ScheduleForDate(day).isOpen /\ Candidate(day, clock) < CutoffForDate(day)
        /\ Candidate(day, clock) <= at
    BY <1>1, <1>10, <2>1, OpenHasCandidate
  <2>3. day <= first
    BY <1>9, <1>10, <2>1, DaysMonotone
  <2>4. day \in now..now + LookAhead - 1
    BY <1>7, <2>2, <2>3, DayLengthNat
  <2>5. day \in OpenDays
    BY <1>1, <2>2, <2>4 DEF OpenDays
  <2>6. day = first
    BY <1>5, <1>7, <2>3, <2>5
  <2> QED
    BY <1>8, <1>10, <2>2, <2>6
<1>11. clock \in Int
  BY DEF SettingsInv
<1> QED
  BY <1>6, <1>8, <1>9, <1>10, <1>11

\* Before the opening of an open day.
LEMMA OpensToday ==
    ASSUME SettingsInv, Served, ~ClosureComes, ~ClosureActive(clock), NEW next \in Int,
           ScheduleForDate(DayOf(clock)).isOpen, clock < next,
           next = Instant(DayOf(clock), ScheduleForDate(DayOf(clock)).opensAt),
           next < CutoffForDate(DayOf(clock))
    PROVE  Open(next) /\ \A at \in clock..next - 1 : ~Open(at)
<1>1. PICK now \in Int : now = DayOf(clock)
  BY DayBegan DEF SettingsInv
<1>2. /\ clock \in Int /\ closure.to \in Int /\ closure.from \in Int /\ closure.isActive \in BOOLEAN
  BY AvailabilityAssumption DEF SettingsInv
<1>3. Candidate(now, clock) = next
  BY <1>1, <1>2 DEF Candidate
<1>4. Open(next) /\ DayOf(next) = now
  BY <1>1, <1>3, CandidateOpens
<1>5. ASSUME NEW at \in Int, clock <= at, at <= next - 1, Open(at)
      PROVE  FALSE
  <2>1. now <= DayOf(at) /\ DayOf(at) <= now /\ DayOf(at) \in Int
    BY <1>1, <1>2, <1>4, <1>5, DaysMonotone, DayBegan
  <2>2. DayOf(at) = now
    BY <2>1
  <2>3. next <= at
    BY <1>1, <1>5, <2>2 DEF Open
  <2> QED
    BY <1>5, <2>3
<1> QED
  BY <1>2, <1>4, <1>5

\* A customer who is told when the store opens next can order at that moment and
\* at none before, and one who is told "never" on none of the days nextOpening
\* looks at: for every schedule, special date, running closure and set of zones
\* the validation admits.
THEOREM NextOpeningIsTrue == AvailabilitySpec => []NextOpeningIsOpen
<1>1. ASSUME SettingsInv, ~Evaluate(clock).accepting, ~ClosureComes, ~CutoffBeforeOpening
      PROVE  IF Evaluate(clock).next # Never
             THEN /\ Evaluate(Evaluate(clock).next).accepting
                  /\ \A at \in clock..Evaluate(clock).next - 1 : ~Evaluate(at).accepting
             ELSE \A at \in clock..Instant(DayOf(clock) + LookAhead, 0) - 1 : ~Evaluate(at).accepting
  <2>1. clock \in Int /\ DayOf(clock) \in Int
    BY <1>1, DayBegan DEF SettingsInv
  <2>2. PICK next : next = Evaluate(clock).next
    OBVIOUS
  <2>3. PICK end \in Int : end = Instant(DayOf(clock) + LookAhead, 0)
    <3>1. DayOf(clock) + LookAhead \in Int
      BY <2>1, DayLengthNat
    <3> QED
      BY <3>1, InstantInt
  <2>4. ASSUME NEW at \in Int
        PROVE  Evaluate(at).accepting <=> Served /\ Open(at)
    BY <1>1, AcceptsWhenOpen
  <2>5. ASSUME next \in Int, Open(next), Served, \A at \in clock..next - 1 : ~Open(at)
        PROVE  /\ next # Never /\ Evaluate(next).accepting
               /\ \A at \in clock..next - 1 : ~Evaluate(at).accepting
    BY <2>1, <2>4, <2>5, AvailabilityAssumption
  <2>6. CASE ~Served
    <3>1. next = Never
      BY <1>1, <2>1, <2>2, <2>6, Answers
    <3>2. \A at \in clock..end - 1 : ~Evaluate(at).accepting
      BY <2>1, <2>3, <2>4, <2>6
    <3> QED
      BY <2>2, <2>3, <3>1, <3>2
  <2>7. CASE Served /\ next = NextOpening(clock)
    <3>1. CASE OpenDays = {}
      <4>1. next = Never
        BY <2>7, <3>1 DEF NextOpening, OpenDays
      <4>2. \A at \in clock..end - 1 : ~Open(at)
        BY <1>1, <2>3, <2>7, <3>1, NoOpening
      <4>3. \A at \in clock..end - 1 : ~Evaluate(at).accepting
        BY <2>1, <2>3, <2>4, <4>2
      <4> QED
        BY <2>2, <2>3, <4>1, <4>3
    <3>2. CASE OpenDays # {}
      <4>1. next \in Int /\ Open(next) /\ \A at \in clock..next - 1 : ~Open(at)
        BY <1>1, <2>7, <3>2, FirstOpening
      <4> QED
        BY <2>2, <2>5, <2>7, <4>1
    <3> QED
      BY <3>1, <3>2
  <2>8. CASE /\ Served /\ Evaluate(clock).code = "BEFORE_OPENING" /\ ~ClosureActive(clock)
             /\ ScheduleForDate(DayOf(clock)).isOpen
             /\ clock < Instant(DayOf(clock), ScheduleForDate(DayOf(clock)).opensAt)
             /\ next = Instant(DayOf(clock), ScheduleForDate(DayOf(clock)).opensAt)
    <3>1. next \in Int
      <4>1. ScheduleForDate(DayOf(clock)).opensAt \in Int
        BY <1>1, <2>1, ScheduleTyped DEF Schedule
      <4> QED
        BY <2>1, <2>8, <4>1, InstantInt
    <3>2. PICK c \in Int : c = CutoffForDate(DayOf(clock))
      BY <1>1, <2>1, <2>8, CutoffTyped
    <3>3. next < c
      BY <1>1, <2>8, <3>1, <3>2 DEF CutoffBeforeOpening
    <3>4. Open(next) /\ \A at \in clock..next - 1 : ~Open(at)
      BY <1>1, <2>8, <3>1, <3>2, <3>3, OpensToday
    <3> QED
      BY <2>2, <2>5, <2>8, <3>1, <3>4
  <2> QED
    BY <1>1, <2>1, <2>2, <2>6, <2>7, <2>8, Answers
<1>2. SettingsInv => NextOpeningIsOpen
  BY <1>1 DEF NextOpeningIsOpen
<1> QED
  BY <1>2, SettingsStart, SettingsStay, PTL DEF AvailabilitySpec

-----------------------------------------------------------------------------
(* The paid cart *)

SnapshotKept ==
    paidCart # NoOrder => /\ "total" \in DOMAIN paidCart.totals
                          /\ paidCart.amount = paidCart.totals.total

PaidInv == SnapshotKept /\ PaidCartIsHonoured

LEMMA TotalsHaveTotal ==
    ASSUME NEW items, NEW discount, NEW fee
    PROVE  "total" \in DOMAIN CalculateCartTotals(items, discount, fee)
BY DEF CalculateCartTotals

LEMMA PayKeeps ==
    ASSUME PaidInv, NEW cart, NEW coupon, NEW charge, PayCart(cart, coupon, charge)
    PROVE  PaidInv'
<1>1. PICK items : items = Hydrated(cart)
  OBVIOUS
<1>2. PICK totals : totals = Quoted(items, coupon, charge)
  OBVIOUS
<1>3. "total" \in DOMAIN totals
  <2>1. PICK discount : discount = CalculateDiscount(coupon, Subtotal(items))
    OBVIOUS
  <2>2. PICK fee : fee = DeliveryFee(Subtotal(items), charge)
    OBVIOUS
  <2>3. totals = CalculateCartTotals(items, discount, fee)
    BY <1>2, <2>1, <2>2 DEF Quoted
  <2> QED
    BY <2>3, TotalsHaveTotal
<1>4. /\ paidCart' = [items |-> items, totals |-> totals, amount |-> totals.total]
      /\ placed' = placed /\ placed = NoOrder
  BY <1>1, <1>2 DEF PayCart
<1>5. SnapshotKept'
  BY <1>3, <1>4 DEF SnapshotKept
<1>6. PaidCartIsHonoured'
  BY <1>4 DEF PaidCartIsHonoured
<1> QED
  BY <1>5, <1>6 DEF PaidInv

\* applyCheckoutSnapshot finds the paid item of every item of the cart.
LEMMA SnapshotFound ==
    ASSUME NEW cart, NEW items, items = SnapshotItems(Hydrated(cart)),
           \A i \in DOMAIN cart : \E j \in DOMAIN paidCart.items :
              paidCart.items[j].product = cart[i].product
    PROVE  \A i \in DOMAIN items : \E j \in DOMAIN paidCart.items : items[i] = paidCart.items[j]
<1>1. PICK hydrated : hydrated = Hydrated(cart)
  OBVIOUS
<1>2. DOMAIN hydrated = DOMAIN cart /\ \A i \in DOMAIN cart : hydrated[i].product = cart[i].product
  BY <1>1 DEF Hydrated
<1>3. DOMAIN items = DOMAIN cart
  BY <1>1, <1>2 DEF SnapshotItems
<1>4. ASSUME NEW i \in DOMAIN cart
      PROVE  \E j \in DOMAIN paidCart.items : items[i] = paidCart.items[j]
  <2>1. PICK item : item = hydrated[i]
    OBVIOUS
  <2>2. item.product = cart[i].product
    BY <1>2, <2>1
  <2>3. \E j \in DOMAIN paidCart.items : paidCart.items[j].product = item.product
    BY <2>2
  <2>4. PICK j : j = Paid(item)
    OBVIOUS
  <2>5. j \in DOMAIN paidCart.items
    BY <2>3, <2>4 DEF Paid
  <2>6. items[i] = paidCart.items[j]
    BY <1>1, <1>2, <2>1, <2>4 DEF SnapshotItems
  <2> QED
    BY <2>5, <2>6
<1> QED
  BY <1>3, <1>4

LEMMA PlacePaidKeeps ==
    ASSUME PaidInv, NEW cart, PlacePaid(cart)
    PROVE  PaidInv'
<1>1. PICK items : items = SnapshotItems(Hydrated(cart))
  OBVIOUS
<1>2. PICK totals : totals = SnapshotTotals(items)
  OBVIOUS
<1>3. /\ paidCart # NoOrder
      /\ \A i \in DOMAIN cart : \E j \in DOMAIN paidCart.items :
            paidCart.items[j].product = cart[i].product
      /\ placed' = (IF totals.total = paidCart.amount THEN Placed(items, totals) ELSE Refused)
      /\ paidCart' = paidCart
  BY <1>1, <1>2 DEF PlacePaid
<1>4. totals.total = paidCart.amount
  <2>1. PICK lines : totals = [paidCart.totals EXCEPT !.gstLines = lines]
    BY <1>2 DEF SnapshotTotals
  <2>2. totals.total = paidCart.totals.total
    BY <1>3, <2>1 DEF PaidInv, SnapshotKept
  <2> QED
    BY <1>3, <2>2 DEF PaidInv, SnapshotKept
<1>5. PICK lines : placed' = [items |-> items, totals |-> totals, lines |-> lines]
  BY <1>3, <1>4 DEF Placed
<1>6. placed' # Refused
  <2>1. "items" \in DOMAIN placed'
    BY <1>5
  <2>2. "items" \notin DOMAIN Refused
    BY DEF Refused
  <2> QED
    BY <2>1, <2>2
<1>7. placed'.totals.total = paidCart.amount /\ placed'.items = items
  BY <1>4, <1>5
<1>8. \A i \in DOMAIN items : \E j \in DOMAIN paidCart.items : items[i] = paidCart.items[j]
  BY <1>1, <1>3, SnapshotFound
<1>9. PaidCartIsHonoured'
  BY <1>3, <1>6, <1>7, <1>8 DEF PaidCartIsHonoured
<1>10. SnapshotKept'
  BY <1>3 DEF PaidInv, SnapshotKept
<1> QED
  BY <1>9, <1>10 DEF PaidInv

LEMMA RepriceKeeps ==
    ASSUME PaidInv, NEW p, NEW price, NEW rate, RepriceProduct(p, price, rate)
    PROVE  PaidInv'
BY DEF PaidInv, SnapshotKept, PaidCartIsHonoured, RepriceProduct

LEMMA PlaceCodKeeps ==
    ASSUME PaidInv, NEW cart, NEW coupon, NEW charge, PlaceCod(cart, coupon, charge)
    PROVE  PaidInv'
<1>1. paidCart' = paidCart /\ paidCart = NoOrder
  BY DEF PlaceCod
<1> QED
  BY <1>1 DEF PaidInv, SnapshotKept, PaidCartIsHonoured

\* A captured session is honoured: the order placed from its snapshot is not
\* refused for its amount, costs what was paid and has the paid items at the paid
\* prices, whatever the catalog charges by then and in whatever sequence the
\* cart comes back.
THEOREM PaidCartsAreHonoured == PricingSpec => []PaidCartIsHonoured
<1>1. PricingInit => PaidInv
  BY DEF PricingInit, PaidInv, SnapshotKept, PaidCartIsHonoured
<1>2. PaidInv /\ [PricingNext]_pricingVars => PaidInv'
  <2> SUFFICES ASSUME PaidInv, [PricingNext]_pricingVars PROVE PaidInv'
    OBVIOUS
  <2>1. CASE UNCHANGED pricingVars
    BY <2>1 DEF PaidInv, SnapshotKept, PaidCartIsHonoured, pricingVars
  <2>2. CASE PricingNext
    BY <2>2, PayKeeps, PlaceCodKeeps, RepriceKeeps, PlacePaidKeeps DEF PricingNext
  <2> QED
    BY <2>1, <2>2
<1>3. PaidInv => PaidCartIsHonoured
  BY DEF PaidInv
<1> QED
  BY <1>1, <1>2, <1>3, PTL DEF PricingSpec

-----------------------------------------------------------------------------
(* Folds *)

\* A set of positions has a last one.
LEMMA LastPosition ==
    ASSUME NEW n \in Nat, NEW t \in SUBSET (1..n), t # {}
    PROVE  Max(t) \in t /\ \A y \in t : y <= Max(t)
<1> DEFINE above == {d \in Nat : \E x \in t : d = n - x}
<1>1. \A x \in t : x \in 1..n /\ n - x \in Nat
  OBVIOUS
<1>2. PICK d \in above : \A e \in above : d <= e
  <2>1. above \in SUBSET Nat
    OBVIOUS
  <2>2. above # {}
    BY <1>1
  <2> HIDE DEF above
  <2> QED
    BY <2>1, <2>2, LeastMember
<1>3. PICK x \in t : d = n - x
  OBVIOUS
<1>4. ASSUME NEW y \in t
      PROVE  x >= y
  <2>1. d <= n - y
    BY <1>1, <1>2
  <2> QED
    BY <1>1, <1>3, <2>1
<1>5. \A y \in t : x >= y
  BY <1>4
<1>6. Max(t) \in t /\ \A y \in t : Max(t) >= y
  BY <1>3, <1>5 DEF Max
<1> QED
  BY <1>1, <1>6

\* A fold over sets of positions: it takes the last position off each.
IsFold(h, n, base, step) ==
    \A t \in SUBSET (1..n) : h[t] = IF t = {} THEN base ELSE step[<<Max(t), h[t \ {Max(t)}]>>]

LEMMA FoldExists ==
    ASSUME NEW A, NEW base \in A, NEW n \in Nat, NEW step \in [(1..n) \X A -> A]
    PROVE  \E h \in [SUBSET (1..n) -> A] : IsFold(h, n, base, step)
<1> DEFINE Has(k) == \E h \in [SUBSET (1..k) -> A] : IsFold(h, k, base, step)
           S == {k \in Nat : k <= n => Has(k)}
<1>1. Has(0)
  <2>1. 1..0 = {} /\ SUBSET (1..0) = {{}}
    OBVIOUS
  <2> DEFINE h == [t \in SUBSET (1..0) |-> base]
  <2>2. h \in [SUBSET (1..0) -> A]
    OBVIOUS
  <2>3. IsFold(h, 0, base, step)
    BY <2>1 DEF IsFold
  <2> HIDE DEF h
  <2> QED
    BY <2>2, <2>3
<1>2. ASSUME NEW k \in Nat, k + 1 <= n, Has(k)
      PROVE  Has(k + 1)
  <2>1. PICK h \in [SUBSET (1..k) -> A] : IsFold(h, k, base, step)
    BY <1>2
  <2> DEFINE next == [t \in SUBSET (1..(k + 1)) |->
                        IF k + 1 \in t THEN step[<<k + 1, h[t \ {k + 1}]>>] ELSE h[t]]
  <2>2. ASSUME NEW t \in SUBSET (1..(k + 1)), k + 1 \in t
        PROVE  t \ {k + 1} \in SUBSET (1..k) /\ Max(t) = k + 1
    <3>1. k + 1 \in Nat /\ t # {}
      BY <2>2
    <3>2. Max(t) \in t /\ \A y \in t : y <= Max(t)
      BY <3>1, LastPosition
    <3>3. \A y \in t : y \in 1..(k + 1)
      OBVIOUS
    <3>4. Max(t) = k + 1
      <4>1. PICK m : m = Max(t)
        OBVIOUS
      <4>2. m \in 1..(k + 1) /\ k + 1 <= m
        BY <2>2, <3>2, <3>3, <4>1
      <4> QED
        BY <4>1, <4>2
    <3>5. \A y \in t \ {k + 1} : y \in 1..k
      BY <3>3
    <3> QED
      BY <3>4, <3>5
  <2>3. ASSUME NEW t \in SUBSET (1..(k + 1)), k + 1 \notin t
        PROVE  t \in SUBSET (1..k)
    BY <2>3
  <2>4. next \in [SUBSET (1..(k + 1)) -> A]
    <3>1. ASSUME NEW t \in SUBSET (1..(k + 1))
          PROVE  (IF k + 1 \in t THEN step[<<k + 1, h[t \ {k + 1}]>>] ELSE h[t]) \in A
      <4>1. CASE k + 1 \in t
        <5>1. t \ {k + 1} \in SUBSET (1..k)
          BY <2>2, <4>1
        <5>2. h[t \ {k + 1}] \in A /\ k + 1 \in 1..n
          BY <1>2, <2>1, <5>1
        <5>3. <<k + 1, h[t \ {k + 1}]>> \in (1..n) \X A
          BY <5>2
        <5> QED
          BY <4>1, <5>3
      <4>2. CASE k + 1 \notin t
        BY <2>3, <4>2
      <4> QED
        BY <4>1, <4>2
    <3> QED
      BY <3>1
  <2>5. \A t \in SUBSET (1..k) : t \in SUBSET (1..(k + 1)) /\ k + 1 \notin t
    OBVIOUS
  <2>6. \A t \in SUBSET (1..k) : next[t] = h[t]
    BY <2>5
  <2>7. ASSUME NEW t \in SUBSET (1..(k + 1))
        PROVE  next[t] = IF t = {} THEN base ELSE step[<<Max(t), next[t \ {Max(t)}]>>]
    <3>1. CASE k + 1 \in t
      <4>1. next[t] = step[<<k + 1, h[t \ {k + 1}]>>]
        BY <3>1
      <4> HIDE DEF next
      <4> QED
        BY <2>2, <2>6, <3>1, <4>1
    <3>2. CASE k + 1 \notin t
      <4>1. next[t] = h[t] /\ t \in SUBSET (1..k)
        BY <2>3, <3>2
      <4>2. t # {} => t \ {Max(t)} \in SUBSET (1..k)
        BY <4>1
      <4> HIDE DEF next
      <4> QED
        BY <2>1, <2>6, <4>1, <4>2 DEF IsFold
    <3> QED
      BY <3>1, <3>2
  <2> HIDE DEF next
  <2>8. IsFold(next, k + 1, base, step)
    BY <2>7 DEF IsFold
  <2> QED
    BY <2>4, <2>8
<1> HIDE DEF Has
<1>3. 0 \in S /\ \A k \in Nat : k \in S => k + 1 \in S
  BY <1>1, <1>2
<1>4. n \in S
  <2> HIDE DEF S
  <2> QED
    BY <1>3, Induction
<1>5. Has(n)
  BY <1>4
<1> QED
  BY <1>5 DEF Has

\* What it comes to, one position after another.
LEMMA Positions ==
    ASSUME NEW n \in Nat, NEW k \in 1..n
    PROVE  /\ Max(1..k) = k /\ (1..k) \ {Max(1..k)} = 1..(k - 1)
           /\ 1..k \in SUBSET (1..n) /\ 1..k # {}
<1>1. 1..k \in SUBSET (1..n) /\ 1..k # {} /\ k \in 1..k
  OBVIOUS
<1>2. Max(1..k) \in 1..k /\ \A y \in 1..k : y <= Max(1..k)
  BY <1>1, LastPosition
<1> QED
  BY <1>1, <1>2

\* So the fold over the first positions, one after another, takes one step each.
Follows(g, n, A, base, step) ==
    \A t \in SUBSET (1..n) :
        /\ t = {} => g[t] = base
        /\ t # {} /\ g[t \ {Max(t)}] \in A => g[t] = step[<<Max(t), g[t \ {Max(t)}]>>]

Runs(r, g, n, base, step) ==
    r[0] = base /\ r[n] = g[1..n] /\ \A k \in 1..n : r[k] = step[<<k, r[k - 1]>>]

LEMMA FoldRuns ==
    ASSUME NEW A, NEW base \in A, NEW n \in Nat, NEW step \in [(1..n) \X A -> A],
           NEW g, Follows(g, n, A, base, step)
    PROVE  \E r \in [0..n -> A] : Runs(r, g, n, base, step)
<1>1. g[1..0] = base
  <2>1. 1..0 = {} /\ {} \in SUBSET (1..n)
    OBVIOUS
  <2> QED
    BY <2>1 DEF Follows
<1>2. \A k \in 1..n : g[1..(k - 1)] \in A => g[1..k] = step[<<k, g[1..(k - 1)]>>]
  BY Positions DEF Follows
<1> DEFINE S == {k \in Nat : k <= n => g[1..k] \in A}
<1>4. \A k \in 0..n : g[1..k] \in A
  <2>1. \A k \in Nat : k \in S
    <3>1. 0 \in S
      BY <1>1
    <3>2. ASSUME NEW k \in Nat, k \in S PROVE k + 1 \in S
      <4> SUFFICES ASSUME k + 1 <= n PROVE g[1..(k + 1)] \in A
        OBVIOUS
      <4>1. k + 1 \in 1..n /\ k + 1 - 1 = k /\ g[1..k] \in A
        BY <3>2
      <4>2. g[1..(k + 1)] = step[<<k + 1, g[1..k]>>]
        BY <1>2, <4>1
      <4>3. <<k + 1, g[1..k]>> \in (1..n) \X A
        BY <4>1
      <4> QED
        BY <4>2, <4>3
    <3> HIDE DEF S
    <3> QED
      BY <3>1, <3>2, Induction
  <2> QED
    BY <2>1
<1> DEFINE r == [k \in 0..n |-> g[1..k]]
<1>5. r \in [0..n -> A] /\ r[0] = base /\ r[n] = g[1..n]
  BY <1>1, <1>4
<1>6. \A k \in 1..n : r[k] = step[<<k, r[k - 1]>>]
  <2> SUFFICES ASSUME NEW k \in 1..n PROVE r[k] = step[<<k, r[k - 1]>>]
    OBVIOUS
  <2>1. k \in 0..n /\ k - 1 \in 0..n
    OBVIOUS
  <2> QED
    BY <1>2, <1>4, <2>1
<1> HIDE DEF r
<1>7. Runs(r, g, n, base, step)
  BY <1>5, <1>6 DEF Runs
<1> QED
  BY <1>5, <1>7

\* A total is the last of the running totals ...
Amounts(s, n) == DOMAIN s = 1..n /\ \A i \in 1..n : s[i] \in Int
RunsTo(r, s, n) == r[0] = 0 /\ \A k \in 1..n : r[k] = r[k - 1] + s[k]

LEMMA TotalRuns ==
    ASSUME NEW s, NEW n \in Nat, Amounts(s, n)
    PROVE  \E r \in [0..n -> Int] : RunsTo(r, s, n) /\ r[n] = Total(s)
<1> USE DEF Amounts, RunsTo
<1> DEFINE Equation(g) == g = [t \in SUBSET (1..n) |->
                                 IF t = {} THEN 0 ELSE g[t \ {Max(t)}] + s[Max(t)]]
<1>1. PICK g : g = (CHOOSE f : Equation(f)) /\ Total(s) = g[1..n]
  BY DEF Total, FoldLeft, MapThenFoldSet
<1>2. PICK step \in [(1..n) \X Int -> Int] : \A i \in 1..n, a \in Int : step[<<i, a>>] = a + s[i]
  <2> DEFINE f == [p \in (1..n) \X Int |-> p[2] + s[p[1]]]
  <2>1. f \in [(1..n) \X Int -> Int]
    OBVIOUS
  <2>2. \A i \in 1..n, a \in Int : f[<<i, a>>] = a + s[i]
    OBVIOUS
  <2> QED
    BY <2>1, <2>2
<1>3. PICK zero \in Int : zero = 0
  OBVIOUS
<1>4. PICK h \in [SUBSET (1..n) -> Int] : IsFold(h, n, zero, step)
  BY ONLY n \in Nat, zero \in Int, step \in [(1..n) \X Int -> Int], FoldExists, Zenon
<1>5. \A t \in SUBSET (1..n) : t # {} => step[<<Max(t), h[t \ {Max(t)}]>>] = h[t \ {Max(t)}] + s[Max(t)]
  <2> SUFFICES ASSUME NEW t \in SUBSET (1..n), t # {}
               PROVE  step[<<Max(t), h[t \ {Max(t)}]>>] = h[t \ {Max(t)}] + s[Max(t)]
    OBVIOUS
  <2>1. Max(t) \in 1..n /\ h[t \ {Max(t)}] \in Int
    BY LastPosition
  <2> QED
    BY <1>2, <2>1
<1>6. Equation(h)
  BY <1>3, <1>4, <1>5 DEF IsFold
<1>7. Equation(g)
  <2> HIDE DEF Equation
  <2> QED
    BY <1>1, <1>6
<1>8. \A t \in SUBSET (1..n) : g[t] = IF t = {} THEN 0 ELSE g[t \ {Max(t)}] + s[Max(t)]
  BY <1>7, Zenon
<1> HIDE DEF Equation
<1>9. Follows(g, n, Int, zero, step)
  <2>1. ASSUME NEW t \in SUBSET (1..n), t # {}, g[t \ {Max(t)}] \in Int
        PROVE  g[t] = step[<<Max(t), g[t \ {Max(t)}]>>]
    <3>1. Max(t) \in 1..n
      BY <2>1, LastPosition
    <3> QED
      BY <1>2, <1>8, <2>1, <3>1
  <2>2. \A t \in SUBSET (1..n) : t = {} => g[t] = zero
    BY <1>3, <1>8
  <2> QED
    BY <2>1, <2>2 DEF Follows
<1>10. PICK r \in [0..n -> Int] : Runs(r, g, n, zero, step)
  BY ONLY n \in Nat, zero \in Int, step \in [(1..n) \X Int -> Int], <1>9, FoldRuns, Zenon
<1>11. \A k \in 1..n : r[k] = r[k - 1] + s[k]
  <2> SUFFICES ASSUME NEW k \in 1..n PROVE r[k] = r[k - 1] + s[k]
    OBVIOUS
  <2>1. r[k - 1] \in Int
    OBVIOUS
  <2> QED
    BY <1>2, <1>10, <2>1 DEF Runs
<1> QED
  BY <1>1, <1>3, <1>10, <1>11 DEF Runs

\* ... and any numbers that run so end at it.
LEMMA TotalIs ==
    ASSUME NEW s, NEW n \in Nat, Amounts(s, n), NEW r, RunsTo(r, s, n)
    PROVE  Total(s) = r[n]
<1>1. PICK q \in [0..n -> Int] : RunsTo(q, s, n) /\ q[n] = Total(s)
  BY TotalRuns
<1> USE DEF Amounts, RunsTo
<1> DEFINE S == {k \in Nat : k <= n => q[k] = r[k]}
<1>2. 0 \in S
  BY <1>1
<1>3. ASSUME NEW k \in Nat, k \in S PROVE k + 1 \in S
  <2> SUFFICES ASSUME k + 1 <= n PROVE q[k + 1] = r[k + 1]
    OBVIOUS
  <2>1. k + 1 \in 1..n /\ k + 1 - 1 = k /\ q[k] = r[k]
    BY <1>3
  <2> QED
    BY <1>1, <2>1
<1>4. n \in S
  <2> HIDE DEF S
  <2> QED
    BY <1>2, <1>3, Induction
<1> QED
  BY <1>1, <1>4

-----------------------------------------------------------------------------
\* Products of amounts, which the provers take one at a time.
LEMMA ProductLess ==
    ASSUME NEW a \in Nat, a > 0, NEW p \in Int, NEW q \in Int, a * p < a * q
    PROVE  p < q
<1> SUFFICES ASSUME q <= p PROVE FALSE
  OBVIOUS
<1>1. p - q \in Nat
  OBVIOUS
<1>2. a * (p - q) >= 0
  BY <1>1
<1>3. a * (p - q) = a * p - a * q
  OBVIOUS
<1> QED
  BY <1>2, <1>3

LEMMA ProductAtMost ==
    ASSUME NEW a \in Nat, NEW p \in Int, NEW q \in Int, p <= q
    PROVE  a * p <= a * q
<1>1. q - p \in Nat
  OBVIOUS
<1>2. a * (q - p) >= 0
  BY <1>1
<1>3. a * (q - p) = a * q - a * p
  OBVIOUS
<1> QED
  BY <1>2, <1>3

\* The nearest whole number, half up.
LEMMA RoundedIs ==
    ASSUME NEW n \in Int, NEW d \in Nat, d > 0
    PROVE  /\ Rounded(n, d) \in Int
           /\ 2 * (d * Rounded(n, d)) <= 2 * n + d
           /\ 2 * n + d < 2 * (d * (Rounded(n, d) + 1))
<1> DEFINE e == 2 * n + d
           f == 2 * d
<1>1. e \in Int /\ f \in Nat /\ f > 0
  OBVIOUS
<1> HIDE DEF e, f
<1>2. PICK q \in Int : q = e \div f /\ f * q <= e /\ e < f * q + f
  BY <1>1
<1>3. Rounded(n, d) = q
  BY <1>2 DEF Rounded, e, f
<1>4. f * q = 2 * (d * q) /\ f * q + f = 2 * (d * (q + 1))
  BY DEF f
<1> QED
  BY <1>2, <1>3, <1>4 DEF e

\* A part of an amount, rounded, is at most the amount.
LEMMA RoundedPart ==
    ASSUME NEW amount \in Nat, NEW n \in Nat, NEW d \in Nat, d > 0, n <= d
    PROVE  Rounded(amount * n, d) \in 0..amount
<1>1. PICK p \in Nat : p = amount * n
  OBVIOUS
<1>2. PICK q \in Int : q = Rounded(p, d) /\ 2 * (d * q) <= 2 * p + d /\ 2 * p + d < 2 * (d * (q + 1))
  <2>1. p \in Int
    OBVIOUS
  <2> QED
    BY <2>1, RoundedIs
<1>3. d * (q + 1) = d * q + d /\ d * (amount + 1) = d * amount + d
      /\ d * q \in Int /\ d * amount \in Int
  OBVIOUS
<1>4. 0 <= q
  <2>1. d * 0 < d * (q + 1)
    BY <1>2, <1>3
  <2>2. 0 < q + 1
    BY <2>1, ProductLess
  <2> QED
    BY <2>2
<1>5. q <= amount
  <2>1. p <= d * amount
    <3>1. amount * n <= amount * d
      BY ProductAtMost
    <3> QED
      BY <1>1, <3>1
  <2>2. d * q < d * (amount + 1)
    BY <1>2, <1>3, <2>1
  <2>3. q < amount + 1
    BY <2>2, ProductLess
  <2> QED
    BY <2>3
<1> QED
  BY <1>1, <1>2, <1>4, <1>5

\* A share by a part of the weight leaves at most the whole of the rest.
LEMMA RoundedShare ==
    ASSUME NEW left \in Nat, NEW weight \in Nat, NEW x \in Nat,
           weight > 0, left <= weight, x <= weight
    PROVE  /\ Rounded(left * x, weight) \in 0..x /\ Rounded(left * x, weight) <= left
           /\ left - Rounded(left * x, weight) <= weight - x
<1>1. left * x \in Int /\ left * x = x * left
  OBVIOUS
<1>2. PICK q \in Int : q = Rounded(left * x, weight) /\ 2 * (left * x) + weight < 2 * (weight * (q + 1))
  BY <1>1, RoundedIs
<1>3. q \in 0..left
  BY <1>2, RoundedPart
<1>4. q \in 0..x
  <2>1. Rounded(x * left, weight) \in 0..x
    BY RoundedPart
  <2> QED
    BY <1>1, <1>2, <2>1
<1>5. left + x - weight <= q
  <2>1. (weight - left) * (weight - x) >= 0
    <3>1. weight - left \in Nat /\ weight - x \in Nat
      OBVIOUS
    <3> QED
      BY <3>1
  <2>2. (weight - left) * (weight - x) = left * x - weight * (left + x - weight)
    OBVIOUS
  <2>3. weight * (left + x - weight) \in Int /\ weight * (q + 1) \in Int
    OBVIOUS
  <2>4. weight * (left + x - weight) < weight * (q + 1)
    BY <1>1, <1>2, <2>1, <2>2, <2>3
  <2>5. left + x - weight < q + 1
    BY <2>4, ProductLess
  <2> QED
    BY <2>5
<1> QED
  BY <1>2, <1>3, <1>4, <1>5

-----------------------------------------------------------------------------
\* What has been shared out after some of the weights.
Allotment == [left : Int, weight : Int, shares : Seq(Int)]

LEMMA ShareTyped ==
    ASSUME NEW acc \in Allotment, NEW weight \in Int
    PROVE  PartOf(acc, weight) \in Int /\ TakeShare(acc, weight) \in Allotment
<1>1. PartOf(acc, weight) \in Int
  <2>1. PICK left \in Int, whole \in Int : left = acc.left /\ whole = acc.weight
    BY DEF Allotment
  <2>2. left * weight \in Int
    OBVIOUS
  <2>3. whole > 0 => Rounded(left * weight, whole) \in Int
    BY <2>2, RoundedIs
  <2> QED
    BY <2>1, <2>3 DEF PartOf
<1>2. acc.left \in Int /\ acc.weight \in Int /\ acc.shares \in Seq(Int)
  BY DEF Allotment
<1>3. Append(acc.shares, PartOf(acc, weight)) \in Seq(Int)
  BY <1>1, <1>2
<1> QED
  BY <1>1, <1>2, <1>3 DEF Allotment, TakeShare

LEMMA SharesRun ==
    ASSUME NEW amount \in Int, NEW w, NEW n \in Nat, Amounts(w, n), Total(w) \in Int
    PROVE  \E r \in [0..n -> Allotment] :
              /\ r[0] = [left |-> amount, weight |-> Total(w), shares |-> <<>>]
              /\ r[n].shares = Shares(amount, w)
              /\ \A k \in 1..n : r[k] = TakeShare(r[k - 1], w[k])
<1> USE DEF Amounts
<1> DEFINE start == [left |-> amount, weight |-> Total(w), shares |-> <<>>]
           Equation(g) == g = [t \in SUBSET (1..n) |->
                                 IF t = {} THEN start ELSE TakeShare(g[t \ {Max(t)}], w[Max(t)])]
<1>1. PICK g : g = (CHOOSE f : Equation(f)) /\ Shares(amount, w) = g[1..n].shares
  BY DEF Shares, FoldLeft, MapThenFoldSet
<1>2. PICK step \in [(1..n) \X Allotment -> Allotment] :
         \A i \in 1..n, a \in Allotment : step[<<i, a>>] = TakeShare(a, w[i])
  <2> DEFINE f == [p \in (1..n) \X Allotment |-> TakeShare(p[2], w[p[1]])]
  <2>1. f \in [(1..n) \X Allotment -> Allotment]
    BY ShareTyped
  <2>2. \A i \in 1..n, a \in Allotment : f[<<i, a>>] = TakeShare(a, w[i])
    OBVIOUS
  <2> QED
    BY <2>1, <2>2
<1>3. PICK base \in Allotment : base = start
  <2>1. PICK whole \in Int : whole = Total(w)
    OBVIOUS
  <2>2. <<>> \in Seq(Int)
    OBVIOUS
  <2>3. [left |-> amount, weight |-> whole, shares |-> <<>>] \in Allotment
    BY <2>2 DEF Allotment
  <2> QED
    BY <2>1, <2>3
<1>4. PICK h \in [SUBSET (1..n) -> Allotment] : IsFold(h, n, base, step)
  BY ONLY n \in Nat, base \in Allotment, step \in [(1..n) \X Allotment -> Allotment], FoldExists, Zenon
<1>5. \A t \in SUBSET (1..n) : t # {} =>
         step[<<Max(t), h[t \ {Max(t)}]>>] = TakeShare(h[t \ {Max(t)}], w[Max(t)])
  <2> SUFFICES ASSUME NEW t \in SUBSET (1..n), t # {}
               PROVE  step[<<Max(t), h[t \ {Max(t)}]>>] = TakeShare(h[t \ {Max(t)}], w[Max(t)])
    OBVIOUS
  <2>1. Max(t) \in 1..n /\ h[t \ {Max(t)}] \in Allotment
    BY LastPosition
  <2> QED
    BY <1>2, <2>1
<1>6. Equation(h)
  BY <1>3, <1>4, <1>5 DEF IsFold
<1>7. Equation(g)
  <2> HIDE DEF Equation
  <2> QED
    BY <1>1, <1>6
<1>8. \A t \in SUBSET (1..n) :
         g[t] = IF t = {} THEN start ELSE TakeShare(g[t \ {Max(t)}], w[Max(t)])
  BY <1>7, Zenon
<1> HIDE DEF Equation, start
<1>9. Follows(g, n, Allotment, base, step)
  <2>1. ASSUME NEW t \in SUBSET (1..n), t # {}, g[t \ {Max(t)}] \in Allotment
        PROVE  g[t] = step[<<Max(t), g[t \ {Max(t)}]>>]
    <3>1. Max(t) \in 1..n
      BY <2>1, LastPosition
    <3> QED
      BY <1>2, <1>8, <2>1, <3>1
  <2>2. \A t \in SUBSET (1..n) : t = {} => g[t] = base
    BY <1>3, <1>8
  <2> QED
    BY <2>1, <2>2 DEF Follows
<1>10. PICK r \in [0..n -> Allotment] : Runs(r, g, n, base, step)
  BY ONLY n \in Nat, base \in Allotment, step \in [(1..n) \X Allotment -> Allotment], <1>9, FoldRuns, Zenon
<1>11. \A k \in 1..n : r[k] = TakeShare(r[k - 1], w[k])
  <2> SUFFICES ASSUME NEW k \in 1..n PROVE r[k] = TakeShare(r[k - 1], w[k])
    OBVIOUS
  <2>1. r[k - 1] \in Allotment
    OBVIOUS
  <2> QED
    BY <1>2, <1>10, <2>1 DEF Runs
<1> QED
  BY <1>1, <1>3, <1>10, <1>11 DEF Runs, start

\* Amounts that are not negative: their running totals only rise.
NatAmounts(s, n) == DOMAIN s = 1..n /\ \A i \in 1..n : s[i] \in Nat

LEMMA RunsUp ==
    ASSUME NEW s, NEW n \in Nat, NatAmounts(s, n)
    PROVE  \E r \in [0..n -> Nat] : /\ RunsTo(r, s, n) /\ r[n] = Total(s)
                                    /\ \A k \in 0..n : r[k] <= r[n]
<1>1. Amounts(s, n)
  BY DEF Amounts, NatAmounts
<1>2. PICK r \in [0..n -> Int] : RunsTo(r, s, n) /\ r[n] = Total(s)
  BY <1>1, TotalRuns
<1> USE DEF NatAmounts, RunsTo
<1> DEFINE up == {k \in Nat : k <= n => r[k] >= 0}
           down == {k \in Nat : k <= n => r[n - k] <= r[n]}
<1>3. \A k \in Nat : k \in up
  <2>1. 0 \in up
    BY <1>2
  <2>2. ASSUME NEW k \in Nat, k \in up PROVE k + 1 \in up
    <3> SUFFICES ASSUME k + 1 <= n PROVE r[k + 1] >= 0
      OBVIOUS
    <3>1. k + 1 \in 1..n /\ k + 1 - 1 = k /\ r[k] >= 0 /\ k \in 0..n
      BY <2>2
    <3> QED
      BY <1>2, <3>1
  <2> HIDE DEF up
  <2> QED
    BY <2>1, <2>2, Induction
<1>4. \A k \in Nat : k \in down
  <2>1. 0 \in down
    BY <1>2
  <2>2. ASSUME NEW k \in Nat, k \in down PROVE k + 1 \in down
    <3> SUFFICES ASSUME k + 1 <= n PROVE r[n - (k + 1)] <= r[n]
      OBVIOUS
    <3>1. n - k \in 1..n /\ n - k - 1 = n - (k + 1) /\ r[n - k] <= r[n] /\ n - (k + 1) \in 0..n
      BY <2>2
    <3>2. r[n - k] = r[n - k - 1] + s[n - k] /\ s[n - k] \in Nat
      BY <1>2, <3>1
    <3> QED
      BY <1>2, <3>1, <3>2
  <2> HIDE DEF down
  <2> QED
    BY <2>1, <2>2, Induction
<1>5. \A k \in 0..n : r[k] \in Nat
  BY <1>3
<1>6. \A k \in 0..n : r[k] <= r[n]
  <2> SUFFICES ASSUME NEW k \in 0..n PROVE r[k] <= r[n]
    OBVIOUS
  <2>1. n - k \in Nat /\ n - k <= n /\ n - (n - k) = k
    OBVIOUS
  <2>2. n - k \in down
    BY <1>4, <2>1
  <2> QED
    BY <2>1, <2>2
<1>7. r \in [0..n -> Nat]
  BY <1>5
<1> QED
  BY <1>2, <1>6, <1>7

LEMMA TotalNat ==
    ASSUME NEW s, NEW n \in Nat, NatAmounts(s, n)
    PROVE  Total(s) \in Nat
BY RunsUp

\* A share out of at most the whole gives each at most its own, and all of it.
LEMMA SharesAddUp ==
    ASSUME NEW w, NEW n \in Nat, NatAmounts(w, n), NEW amount \in Nat, amount <= Total(w)
    PROVE  /\ DOMAIN Shares(amount, w) = 1..n
           /\ \A i \in 1..n : Shares(amount, w)[i] \in 0..w[i] /\ Shares(amount, w)[i] <= amount
           /\ Total(Shares(amount, w)) = amount
<1> USE DEF NatAmounts
<1>1. PICK weights \in [0..n -> Nat] : /\ weights[0] = 0 /\ weights[n] = Total(w)
                                       /\ \A k \in 1..n : weights[k] = weights[k - 1] + w[k]
                                       /\ \A k \in 0..n : weights[k] <= weights[n]
  <2>1. PICK r \in [0..n -> Nat] : /\ RunsTo(r, w, n) /\ r[n] = Total(w)
                                   /\ \A k \in 0..n : r[k] <= r[n]
    <3> HIDE DEF NatAmounts
    <3> QED
      BY RunsUp
  <2> QED
    BY <2>1 DEF RunsTo
<1>2. PICK whole \in Nat : whole = Total(w) /\ whole = weights[n]
  BY <1>1
<1>3. Amounts(w, n)
  BY DEF Amounts
<1>4. PICK r \in [0..n -> Allotment] :
         /\ r[0] = [left |-> amount, weight |-> Total(w), shares |-> <<>>]
         /\ r[n].shares = Shares(amount, w)
         /\ \A k \in 1..n : r[k] = TakeShare(r[k - 1], w[k])
  <2>1. amount \in Int /\ Total(w) \in Int
    BY <1>2
  <2> QED
    BY ONLY n \in Nat, <1>3, <2>1, SharesRun, Zenon
<1> DEFINE share == [k \in 1..n |-> PartOf(r[k - 1], w[k])]
           S == {k \in Nat : k <= n => /\ r[k].left \in Nat /\ r[k].left <= amount
                                       /\ r[k].weight = whole - weights[k]
                                       /\ r[k].left <= r[k].weight
                                       /\ Len(r[k].shares) = k
                                       /\ \A i \in 1..k : r[k].shares[i] = share[i]}
<1>5. 0 \in S
  BY <1>1, <1>2, <1>4
<1>6. \A k \in 1..n : k - 1 \in 0..n /\ share[k] = PartOf(r[k - 1], w[k])
  OBVIOUS
<1>7. ASSUME NEW k \in 1..n, k - 1 \in S
      PROVE  /\ share[k] \in 0..w[k] /\ share[k] <= amount
             /\ r[k - 1].left \in Nat /\ r[k].left = r[k - 1].left - share[k] /\ k \in S
  <2>1. /\ r[k - 1].left \in Nat /\ r[k - 1].left <= amount
        /\ r[k - 1].weight = whole - weights[k - 1]
        /\ r[k - 1].left <= r[k - 1].weight
        /\ Len(r[k - 1].shares) = k - 1
        /\ \A i \in 1..(k - 1) : r[k - 1].shares[i] = share[i]
    <3> HIDE DEF share
    <3>1. k - 1 \in Nat /\ k - 1 <= n
      OBVIOUS
    <3> QED
      BY <1>7, <3>1
  <2> HIDE DEF S
  <2>2. PICK left \in Nat : left = r[k - 1].left
    BY <2>1
  <2>3. PICK x \in Nat : x = w[k]
    OBVIOUS
  <2>4. PICK a \in Nat, b \in Nat : a = weights[k - 1] /\ b = weights[k] /\ b = a + x /\ b <= whole
    BY <1>1, <1>2, <1>6, <2>3
  <2>5. PICK weight \in Nat : weight = r[k - 1].weight /\ weight = whole - a
    BY <2>1, <2>4
  <2>6. left <= weight /\ x <= weight /\ left <= amount
    BY <2>1, <2>2, <2>4, <2>5
  <2>7. PartOf(r[k - 1], w[k]) = IF weight > 0 THEN Rounded(left * x, weight) ELSE 0
    BY <2>2, <2>3, <2>5 DEF PartOf
  <2>8. PICK part \in 0..x : part = share[k] /\ part <= left /\ left - part <= weight - x
    <3>1. CASE weight > 0
      BY <1>6, <2>6, <2>7, <3>1, RoundedShare
    <3>2. CASE weight = 0
      <4>1. share[k] = 0
        BY <1>6, <2>7, <3>2
      <4> QED
        BY <2>6, <3>2, <4>1
    <3> QED
      BY <3>1, <3>2
  <2>9. r[k] = [left |-> left - part, weight |-> weight - x, shares |-> Append(r[k - 1].shares, part)]
    BY <1>4, <1>6, <2>2, <2>3, <2>5, <2>8 DEF TakeShare
  <2>10. /\ r[k].left = left - part /\ r[k].weight = weight - x
         /\ r[k].shares = Append(r[k - 1].shares, part)
    BY <2>9
  <2>11. PICK q \in Seq(Int) : q = r[k - 1].shares
    BY <1>6 DEF Allotment
  <2>12. Len(Append(q, part)) = k /\ \A i \in 1..k : Append(q, part)[i] = share[i]
    <3> HIDE DEF share
    <3>1. Len(q) = k - 1 /\ part \in Int
      BY <2>1, <2>11
    <3>2. \A i \in 1..k : Append(q, part)[i] = IF i = k THEN part ELSE q[i]
      BY <3>1
    <3>3. \A i \in 1..k : i = k \/ i \in 1..(k - 1)
      OBVIOUS
    <3>4. \A i \in 1..(k - 1) : q[i] = share[i]
      BY <2>1, <2>11
    <3>5. Len(Append(q, part)) = k
      BY <3>1
    <3> QED
      BY <2>8, <3>2, <3>3, <3>4, <3>5
  <2>13. k \in S
    <3> HIDE DEF share
    <3>1. r[k].left \in Nat /\ r[k].left <= amount /\ r[k].left <= r[k].weight
      BY <2>6, <2>8, <2>10
    <3>2. r[k].weight = whole - weights[k]
      BY <2>4, <2>5, <2>10
    <3>3. Len(r[k].shares) = k /\ \A i \in 1..k : r[k].shares[i] = share[i]
      BY <2>10, <2>11, <2>12
    <3>4. k \in Nat
      OBVIOUS
    <3> QED
      BY <3>1, <3>2, <3>3, <3>4 DEF S
  <2> HIDE DEF share
  <2> QED
    BY <2>2, <2>3, <2>6, <2>8, <2>10, <2>13
<1>8. \A k \in Nat : k <= n => k \in S
  <2> DEFINE T == {k \in Nat : k <= n => k \in S}
  <2>1. 0 \in T
    BY <1>5
  <2>2. ASSUME NEW k \in Nat, k \in T PROVE k + 1 \in T
    <3> HIDE DEF S
    <3> SUFFICES ASSUME k + 1 <= n PROVE k + 1 \in S
      OBVIOUS
    <3>1. k + 1 \in 1..n /\ k + 1 - 1 \in S
      BY <2>2
    <3> QED
      BY <1>7, <3>1
  <2>3. \A k \in Nat : k \in T
    <3> HIDE DEF T
    <3> QED
      BY <2>1, <2>2, Induction
  <2> QED
    BY <2>3
<1>9. \A k \in 1..n : /\ share[k] \in 0..w[k] /\ share[k] <= amount
                      /\ r[k - 1].left \in Nat /\ r[k].left = r[k - 1].left - share[k]
  <2> HIDE DEF share, S
  <2> SUFFICES ASSUME NEW k \in 1..n
               PROVE  /\ share[k] \in 0..w[k] /\ share[k] <= amount
                      /\ r[k - 1].left \in Nat /\ r[k].left = r[k - 1].left - share[k]
    OBVIOUS
  <2>1. k - 1 \in Nat /\ k - 1 <= n
    OBVIOUS
  <2> QED
    BY <1>7, <1>8, <2>1
<1>10. /\ r[n].left \in Nat /\ r[n].left <= whole - weights[n]
       /\ Len(r[n].shares) = n /\ \A i \in 1..n : r[n].shares[i] = share[i]
  <2>1. n \in S
    BY <1>8
  <2> QED
    BY <2>1
<1> HIDE DEF S
<1>11. PICK given \in Seq(Int) : given = Shares(amount, w) /\ given = r[n].shares
  <2>1. n \in 0..n
    OBVIOUS
  <2>2. r[n].shares \in Seq(Int)
    BY <2>1 DEF Allotment
  <2> QED
    BY <1>4, <2>2
<1>12. DOMAIN given = 1..n /\ \A i \in 1..n : given[i] = share[i]
  <2> HIDE DEF share
  <2> QED
    BY <1>10, <1>11
<1> HIDE DEF share
<1>13. \A i \in 1..n : given[i] \in 0..w[i] /\ given[i] <= amount
  BY <1>9, <1>12
<1>14. Total(given) = amount
  <2> DEFINE run == [k \in 0..n |-> amount - r[k].left]
  <2>1. run[0] = 0 /\ run[n] = amount
    BY <1>2, <1>4, <1>10
  <2>2. \A k \in 1..n : run[k] = run[k - 1] + given[k]
    <3> SUFFICES ASSUME NEW k \in 1..n PROVE run[k] = run[k - 1] + given[k]
      OBVIOUS
    <3>1. k \in 0..n /\ k - 1 \in 0..n
      OBVIOUS
    <3>2. run[k] = amount - r[k].left /\ run[k - 1] = amount - r[k - 1].left
      BY <3>1
    <3>3. PICK left \in Nat, part \in Int :
             left = r[k - 1].left /\ part = share[k] /\ r[k].left = left - part
      <4>1. w[k] \in Nat
        OBVIOUS
      <4>2. share[k] \in Int
        BY <1>9, <4>1
      <4> QED
        BY <1>9, <4>2
    <3> HIDE DEF run
    <3> QED
      BY <1>12, <3>2, <3>3
  <2> HIDE DEF run
  <2>3. Amounts(given, n) /\ RunsTo(run, given, n)
    BY <1>12, <2>1, <2>2 DEF Amounts, RunsTo
  <2>4. Total(given) = run[n]
    BY <2>3, TotalIs
  <2> QED
    BY <2>1, <2>4
<1> QED
  BY <1>11, <1>12, <1>13, <1>14

LEMMA TotalOfSums ==
    ASSUME NEW n \in Nat, NEW a, Amounts(a, n), NEW b, Amounts(b, n), NEW c, DOMAIN c = 1..n,
           \A i \in 1..n : c[i] = a[i] + b[i]
    PROVE  Total(c) = Total(a) + Total(b)
<1>1. PICK p \in [0..n -> Int] : RunsTo(p, a, n) /\ p[n] = Total(a)
  BY TotalRuns
<1>2. PICK q \in [0..n -> Int] : RunsTo(q, b, n) /\ q[n] = Total(b)
  BY TotalRuns
<1> DEFINE r == [k \in 0..n |-> p[k] + q[k]]
<1>3. r[0] = 0 /\ r[n] = p[n] + q[n]
  BY <1>1, <1>2 DEF RunsTo
<1>4. \A k \in 1..n : r[k] = r[k - 1] + c[k]
  <2> SUFFICES ASSUME NEW k \in 1..n PROVE r[k] = r[k - 1] + c[k]
    OBVIOUS
  <2>1. k \in 0..n /\ k - 1 \in 0..n
    OBVIOUS
  <2>2. p[k] = p[k - 1] + a[k] /\ q[k] = q[k - 1] + b[k]
    BY <1>1, <1>2 DEF RunsTo
  <2>3. p[k - 1] \in Int /\ q[k - 1] \in Int /\ a[k] \in Int /\ b[k] \in Int
    BY <2>1 DEF Amounts
  <2> QED
    BY <2>1, <2>2, <2>3
<1> HIDE DEF r
<1>5. Amounts(c, n) /\ RunsTo(r, c, n)
  BY <1>3, <1>4 DEF Amounts, RunsTo
<1>6. Total(c) = r[n]
  BY <1>5, TotalIs
<1> QED
  BY <1>1, <1>2, <1>3, <1>6

\* The total of the first amounts is the running total there.
LEMMA TotalOfFirst ==
    ASSUME NEW n \in Nat, NEW s, NEW r, RunsTo(r, s, n), NEW k \in 0..n,
           NEW t, Amounts(t, k), \A i \in 1..k : t[i] = s[i]
    PROVE  Total(t) = r[k]
<1>1. RunsTo(r, t, k)
  BY DEF RunsTo
<1>2. k \in Nat
  OBVIOUS
<1> QED
  BY <1>1, <1>2, TotalIs

LEMMA TotalOfNone ==
    ASSUME NEW n \in Nat, NEW s, DOMAIN s = 1..n, \A i \in 1..n : s[i] = 0
    PROVE  Total(s) = 0
<1> DEFINE r == [k \in 0..n |-> 0]
<1>1. Amounts(s, n) /\ RunsTo(r, s, n) /\ r[n] = 0
  BY DEF Amounts, RunsTo
<1> HIDE DEF r
<1> QED
  BY <1>1, TotalIs

\* One amount more.
LEMMA TotalOfOneMore ==
    ASSUME NEW n \in Nat, NEW s, Amounts(s, n + 1), NEW t, DOMAIN t = 1..n,
           \A i \in 1..n : t[i] = s[i]
    PROVE  Total(s) = Total(t) + s[n + 1]
<1>1. n + 1 \in Nat
  OBVIOUS
<1>2. PICK r \in [0..(n + 1) -> Int] : RunsTo(r, s, n + 1) /\ r[n + 1] = Total(s)
  BY <1>1, TotalRuns
<1>3. Amounts(t, n) /\ n \in 0..(n + 1)
  BY DEF Amounts
<1>4. Total(t) = r[n]
  BY <1>1, <1>2, <1>3, TotalOfFirst
<1>5. r[n + 1] = r[n] + s[n + 1]
  <2>1. n + 1 \in 1..(n + 1) /\ n + 1 - 1 = n
    OBVIOUS
  <2> QED
    BY <1>2, <2>1 DEF RunsTo
<1> QED
  BY <1>2, <1>4, <1>5

-----------------------------------------------------------------------------
\* The same amounts in another sequence have the same total: both count the
\* pairs of a position and a paisa of it.
Units(s, n) == {p \in (1..n) \X Nat : p[2] < s[p[1]]}

LEMMA UnitsOfOneMore ==
    ASSUME NEW n \in Nat, NEW s, NatAmounts(s, n), NEW k \in 1..n
    PROVE  /\ Units(s, k) = Units(s, k - 1) \union ({k} \X (0..s[k] - 1))
           /\ Units(s, k - 1) \intersect ({k} \X (0..s[k] - 1)) = {}
<1>1. PICK m \in Nat : m = s[k]
  BY DEF NatAmounts
<1>2. \A p : p \in Units(s, k) <=> p \in Units(s, k - 1) \/ p \in {k} \X (0..m - 1)
  <2> SUFFICES ASSUME NEW p PROVE p \in Units(s, k) <=> p \in Units(s, k - 1) \/ p \in {k} \X (0..m - 1)
    OBVIOUS
  <2>1. p \in Units(s, k) <=> p \in (1..k) \X Nat /\ p[2] < s[p[1]]
    BY DEF Units
  <2>2. p \in Units(s, k - 1) <=> p \in (1..(k - 1)) \X Nat /\ p[2] < s[p[1]]
    BY DEF Units
  <2>3. p \in {k} \X (0..m - 1) <=> p \in {k} \X Nat /\ p[2] < m
    OBVIOUS
  <2>4. p \in (1..k) \X Nat <=> p \in (1..(k - 1)) \X Nat \/ p \in {k} \X Nat
    OBVIOUS
  <2>5. p \in {k} \X Nat => p[1] = k
    OBVIOUS
  <2> QED
    BY <1>1, <2>1, <2>2, <2>3, <2>4, <2>5
<1>3. \A p : ~(p \in Units(s, k - 1) /\ p \in {k} \X (0..m - 1))
  BY DEF Units
<1> QED
  BY <1>1, <1>2, <1>3

LEMMA UnitsCount ==
    ASSUME NEW n \in Nat, NEW s, NatAmounts(s, n)
    PROVE  IsFiniteSet(Units(s, n)) /\ Cardinality(Units(s, n)) = Total(s)
<1> DEFINE r == [k \in 0..n |-> Cardinality(Units(s, k))]
           S == {k \in Nat : k <= n => IsFiniteSet(Units(s, k))}
<1>1. ASSUME NEW k \in 1..n, IsFiniteSet(Units(s, k - 1))
      PROVE  /\ IsFiniteSet(Units(s, k))
             /\ Cardinality(Units(s, k)) = Cardinality(Units(s, k - 1)) + s[k]
  <2>1. PICK m \in Nat : m = s[k]
    BY DEF NatAmounts
  <2>2. IsFiniteSet(0..m - 1) /\ Cardinality(0..m - 1) = m
    <3>1. 0 \in Int /\ m - 1 \in Int
      OBVIOUS
    <3>2. /\ IsFiniteSet(0..m - 1)
          /\ Cardinality(0..m - 1) = IF 0 > m - 1 THEN 0 ELSE m - 1 - 0 + 1
      BY <3>1, FS_Interval
    <3> QED
      BY <3>2
  <2>3. IsFiniteSet({k}) /\ Cardinality({k}) = 1
    BY FS_Singleton
  <2>4. IsFiniteSet({k} \X (0..m - 1)) /\ Cardinality({k} \X (0..m - 1)) = m
    <3>1. /\ IsFiniteSet({k} \X (0..m - 1))
          /\ Cardinality({k} \X (0..m - 1)) = Cardinality({k}) * Cardinality(0..m - 1)
      BY <2>2, <2>3, FS_Product
    <3> QED
      BY <2>2, <2>3, <3>1
  <2>5. /\ Units(s, k) = Units(s, k - 1) \union ({k} \X (0..m - 1))
        /\ Units(s, k - 1) \intersect ({k} \X (0..m - 1)) = {}
    BY <2>1, UnitsOfOneMore
  <2>6. PICK c \in Nat : c = Cardinality(Units(s, k - 1))
    BY <1>1, FS_CardinalityType
  <2>7. /\ IsFiniteSet(Units(s, k - 1) \union ({k} \X (0..m - 1)))
        /\ Cardinality(Units(s, k - 1) \union ({k} \X (0..m - 1))) =
              Cardinality(Units(s, k - 1)) + Cardinality({k} \X (0..m - 1))
                 - Cardinality(Units(s, k - 1) \intersect ({k} \X (0..m - 1)))
    BY <1>1, <2>4, FS_Union
  <2>8. Cardinality({}) = 0
    BY FS_EmptySet
  <2>9. Cardinality(Units(s, k)) = c + m - 0
    BY <2>4, <2>5, <2>6, <2>7, <2>8
  <2> QED
    BY <2>1, <2>5, <2>6, <2>7, <2>9
<1>2. IsFiniteSet(Units(s, 0)) /\ Cardinality(Units(s, 0)) = 0
  <2>1. Units(s, 0) = {}
    BY DEF Units
  <2> QED
    BY <2>1, FS_EmptySet
<1>3. \A k \in Nat : k \in S
  <2>1. 0 \in S
    BY <1>2
  <2>2. ASSUME NEW k \in Nat, k \in S PROVE k + 1 \in S
    <3> SUFFICES ASSUME k + 1 <= n PROVE IsFiniteSet(Units(s, k + 1))
      OBVIOUS
    <3>1. k + 1 \in 1..n /\ k + 1 - 1 = k /\ IsFiniteSet(Units(s, k))
      BY <2>2
    <3>2. IsFiniteSet(Units(s, k + 1 - 1))
      BY <3>1
    <3> QED
      BY <1>1, <3>1, <3>2
  <2> HIDE DEF S
  <2> QED
    BY <2>1, <2>2, Induction
<1>4. \A k \in 0..n : IsFiniteSet(Units(s, k))
  BY <1>3
<1>5. \A k \in 1..n : r[k] = r[k - 1] + s[k]
  <2> SUFFICES ASSUME NEW k \in 1..n PROVE r[k] = r[k - 1] + s[k]
    OBVIOUS
  <2>1. k \in 0..n /\ k - 1 \in 0..n
    OBVIOUS
  <2>2. IsFiniteSet(Units(s, k - 1))
    BY <1>4, <2>1
  <2>3. Cardinality(Units(s, k)) = Cardinality(Units(s, k - 1)) + s[k]
    BY <1>1, <2>2
  <2> QED
    BY <2>1, <2>3
<1>6. r[0] = 0 /\ r[n] = Cardinality(Units(s, n))
  BY <1>2
<1> HIDE DEF r
<1>7. Amounts(s, n) /\ RunsTo(r, s, n)
  BY <1>5, <1>6 DEF Amounts, NatAmounts, RunsTo
<1>8. Total(s) = r[n]
  BY <1>7, TotalIs
<1> QED
  BY <1>4, <1>6, <1>8

Rearranged(b, a, place, n) ==
    /\ place \in [1..n -> 1..n] /\ \A i, j \in 1..n : place[i] = place[j] => i = j
    /\ DOMAIN b = 1..n /\ \A i \in 1..n : b[i] = a[place[i]]

LEMMA TotalOfRearranged ==
    ASSUME NEW n \in Nat, NEW a, NatAmounts(a, n), NEW b, NEW place, Rearranged(b, a, place, n)
    PROVE  NatAmounts(b, n) /\ Total(b) = Total(a)
<1> USE DEF Rearranged
<1>1. NatAmounts(b, n)
  BY DEF NatAmounts
<1>2. \A j \in 1..n : \E i \in 1..n : place[i] = j
  <2>1. place \in Injection(1..n, 1..n)
    BY DEF Injection, IsInjective
  <2>2. IsFiniteSet(1..n)
    <3>1. 1 \in Int /\ n \in Int
      OBVIOUS
    <3> QED
      BY <3>1, FS_Interval
  <2>3. place \in Surjection(1..n, 1..n)
    BY <2>1, <2>2, FS_Injection
  <2> QED
    BY <2>3 DEF Surjection
<1> DEFINE f == [p \in Units(b, n) |-> <<place[p[1]], p[2]>>]
<1>3. \A p \in Units(b, n) : /\ p[1] \in 1..n /\ p[2] \in Nat /\ p = <<p[1], p[2]>>
                             /\ p[2] < b[p[1]]
  BY DEF Units
<1>4. \A p \in Units(b, n) : f[p] \in Units(a, n)
  <2> SUFFICES ASSUME NEW p \in Units(b, n) PROVE <<place[p[1]], p[2]>> \in Units(a, n)
    OBVIOUS
  <2>1. place[p[1]] \in 1..n /\ p[2] \in Nat /\ p[2] < a[place[p[1]]]
    BY <1>3
  <2> QED
    BY <2>1 DEF Units
<1>5. \A p, q \in Units(b, n) : f[p] = f[q] => p = q
  <2> SUFFICES ASSUME NEW p \in Units(b, n), NEW q \in Units(b, n), f[p] = f[q] PROVE p = q
    OBVIOUS
  <2>1. <<place[p[1]], p[2]>> = <<place[q[1]], q[2]>>
    OBVIOUS
  <2>2. place[p[1]] = place[q[1]] /\ p[2] = q[2]
    BY <2>1
  <2> QED
    BY <1>3, <2>2
<1>6. \A q \in Units(a, n) : \E p \in Units(b, n) : f[p] = q
  <2> SUFFICES ASSUME NEW q \in Units(a, n) PROVE \E p \in Units(b, n) : f[p] = q
    OBVIOUS
  <2>1. q[1] \in 1..n /\ q[2] \in Nat /\ q = <<q[1], q[2]>> /\ q[2] < a[q[1]]
    BY DEF Units
  <2>2. PICK i \in 1..n : place[i] = q[1]
    BY <1>2, <2>1
  <2>3. <<i, q[2]>> \in Units(b, n)
    BY <2>1, <2>2 DEF Units
  <2>4. f[<<i, q[2]>>] = q
    BY <2>1, <2>2, <2>3
  <2> HIDE DEF f
  <2> QED
    BY <2>3, <2>4
<1>7. f \in [Units(b, n) -> Units(a, n)]
  BY <1>4
<1> HIDE DEF f
<1>8. f \in Bijection(Units(b, n), Units(a, n))
  BY <1>5, <1>6, <1>7 DEF Bijection, Injection, IsInjective, Surjection
<1>9. ExistsBijection(Units(b, n), Units(a, n))
  BY <1>8 DEF ExistsBijection
<1>10. Cardinality(Units(a, n)) = Cardinality(Units(b, n))
  BY <1>1, <1>9, UnitsCount, FS_Bijection
<1> QED
  BY <1>1, <1>10, UnitsCount

-----------------------------------------------------------------------------
(* The invoice adds up *)

LEMMA GstPart ==
    ASSUME NEW amount \in Nat, NEW rate \in Nat
    PROVE  GstIn(amount, rate) \in 0..amount
<1>1. 100 + rate \in Nat /\ 100 + rate > 0 /\ rate <= 100 + rate
  OBVIOUS
<1>2. PICK d \in Nat : d = 100 + rate
  BY <1>1
<1>3. Rounded(amount * rate, d) \in 0..amount
  BY <1>1, <1>2, RoundedPart
<1> QED
  BY <1>2, <1>3 DEF GstIn

\* The halves of two amounts differ by at most what the amounts do.
LEMMA HalvesRise ==
    ASSUME NEW a \in Nat, NEW t \in Nat
    PROVE  Half(a) \in Int /\ Half(a + t) \in Int /\ Half(a + t) - Half(a) \in 0..t
<1>1. a \in Int /\ a + t \in Int /\ 2 \in Nat /\ 2 > 0
  OBVIOUS
<1>2. PICK p \in Int : p = Rounded(a, 2) /\ 2 * (2 * p) <= 2 * a + 2 /\ 2 * a + 2 < 2 * (2 * (p + 1))
  BY <1>1, RoundedIs
<1>3. PICK b \in Int : b = a + t
  BY <1>1
<1>4. PICK q \in Int : q = Rounded(b, 2) /\ 2 * (2 * q) <= 2 * b + 2 /\ 2 * b + 2 < 2 * (2 * (q + 1))
  BY <1>1, RoundedIs
<1>5. q - p \in 0..t
  BY <1>2, <1>3, <1>4
<1> QED
  BY <1>2, <1>3, <1>4, <1>5 DEF Half

LEMMA HalfOfNone == Half(0) = 0
<1>1. 2 \div 4 = 0
  OBVIOUS
<1> QED
  BY <1>1 DEF Half, Rounded

\* The columns of priced lines, and of the lines of an invoice.
NetOf(lines) == [i \in DOMAIN lines |-> lines[i].net]
TaxOf(lines) == [i \in DOMAIN lines |-> lines[i].tax]
WholeOf(lines) == [i \in DOMAIN lines |-> lines[i].taxable + lines[i].tax]

\* A line whose tax is that of its rate, inside its price.
LinePriced(item, line) ==
    /\ item.rate \in Nat /\ line.net \in Nat
    /\ line.tax = GstIn(line.net, item.rate) /\ line.taxable = line.net - line.tax

\* Totals that are those of the items: what calculateCartTotals hands out, and
\* what the snapshot of the checkout keeps.
Coherent(items, totals, n) ==
    /\ n \in Nat \ {0} /\ DOMAIN items = 1..n /\ DOMAIN totals.gstLines = 1..n
    /\ \A i \in 1..n : LinePriced(items[i], totals.gstLines[i])
    /\ totals.fee \in Nat /\ totals.deliveryRate \in Nat
    /\ totals.deliveryTax = GstIn(totals.fee, totals.deliveryRate)
    /\ totals.tax = Total(TaxOf(totals.gstLines)) + totals.deliveryTax
    /\ totals.total = Total(NetOf(totals.gstLines)) + totals.fee

\* The lines before the halves of the tax: the goods, then the delivery.
GoodsLines(items, totals) ==
    [i \in DOMAIN items |->
       [product |-> items[i].product, rate |-> items[i].rate, quantity |-> items[i].quantity,
        taxable |-> totals.gstLines[i].taxable, tax |-> totals.gstLines[i].tax]]
DeliveryLine(totals) ==
    [product |-> "delivery", rate |-> totals.deliveryRate, quantity |-> 0,
     taxable |-> totals.fee - totals.deliveryTax, tax |-> totals.deliveryTax]
ListedLines(items, totals) ==
    IF totals.fee = 0 THEN GoodsLines(items, totals)
    ELSE Append(GoodsLines(items, totals), DeliveryLine(totals))

IsLine(l) ==
    /\ l.rate \in Nat /\ l.taxable \in Nat /\ l.tax \in Nat
    /\ l.tax = GstIn(l.taxable + l.tax, l.rate)
    /\ \E p, q : l = [product |-> p, rate |-> l.rate, quantity |-> q,
                      taxable |-> l.taxable, tax |-> l.tax]

LinesAddUp(lines, m, totals) ==
    /\ m \in Nat \ {0} /\ lines \in Seq({lines[i] : i \in 1..m}) /\ Len(lines) = m
    /\ \A i \in 1..m : IsLine(lines[i])
    /\ Total(TaxOf(lines)) = totals.tax /\ Total(WholeOf(lines)) = totals.total

LEMMA PricedLineParts ==
    ASSUME NEW item, NEW line, LinePriced(item, line)
    PROVE  line.tax \in Nat /\ line.taxable \in Nat /\ line.taxable + line.tax = line.net
<1>1. PICK net \in Nat, rate \in Nat : net = line.net /\ rate = item.rate
  BY DEF LinePriced
<1>2. PICK tax \in 0..net : tax = line.tax
  BY <1>1, GstPart DEF LinePriced
<1> QED
  BY <1>1, <1>2 DEF LinePriced

LEMMA GoodsListed ==
    ASSUME NEW items, NEW totals, NEW n, Coherent(items, totals, n)
    PROVE  LET goods == GoodsLines(items, totals)
           IN /\ DOMAIN goods = 1..n /\ goods \in Seq({goods[i] : i \in 1..n}) /\ Len(goods) = n
              /\ \A i \in 1..n : IsLine(goods[i])
              /\ TaxOf(goods) = TaxOf(totals.gstLines) /\ WholeOf(goods) = NetOf(totals.gstLines)
<1>1. PICK goods : goods = GoodsLines(items, totals)
  OBVIOUS
<1>2. n \in Nat /\ DOMAIN items = 1..n /\ DOMAIN totals.gstLines = 1..n
      /\ \A i \in 1..n : LinePriced(items[i], totals.gstLines[i])
  BY DEF Coherent
<1>3. /\ goods = [i \in 1..n |-> goods[i]]
      /\ \A i \in 1..n :
            goods[i] = [product |-> items[i].product, rate |-> items[i].rate,
                        quantity |-> items[i].quantity,
                        taxable |-> totals.gstLines[i].taxable, tax |-> totals.gstLines[i].tax]
  BY <1>1, <1>2 DEF GoodsLines
<1>4. goods \in Seq({goods[i] : i \in 1..n}) /\ Len(goods) = n /\ DOMAIN goods = 1..n
  <2>1. goods \in [1..n -> {goods[i] : i \in 1..n}]
    BY <1>3
  <2> QED
    BY <1>2, <2>1
<1>5. ASSUME NEW i \in 1..n
      PROVE  /\ IsLine(goods[i]) /\ goods[i].tax = totals.gstLines[i].tax
             /\ goods[i].taxable + goods[i].tax = totals.gstLines[i].net
  <2>1. PICK line : line = totals.gstLines[i] /\ LinePriced(items[i], line)
    BY <1>2
  <2>2. line.tax \in Nat /\ line.taxable \in Nat /\ line.taxable + line.tax = line.net
    BY <2>1, PricedLineParts
  <2>3. /\ goods[i].rate = items[i].rate /\ goods[i].taxable = line.taxable
        /\ goods[i].tax = line.tax
    BY <1>3, <2>1
  <2>4. \E p, q : goods[i] = [product |-> p, rate |-> items[i].rate, quantity |-> q,
                              taxable |-> line.taxable, tax |-> line.tax]
    BY <1>3, <2>1
  <2>5. items[i].rate \in Nat /\ line.tax = GstIn(line.net, items[i].rate)
    BY <2>1 DEF LinePriced
  <2>6. IsLine(goods[i])
    BY <2>2, <2>3, <2>4, <2>5 DEF IsLine
  <2> QED
    BY <2>1, <2>2, <2>3, <2>6
<1>6. TaxOf(goods) = TaxOf(totals.gstLines) /\ WholeOf(goods) = NetOf(totals.gstLines)
  BY <1>2, <1>4, <1>5 DEF TaxOf, WholeOf, NetOf
<1> QED
  BY <1>1, <1>4, <1>5, <1>6

LEMMA CoherentColumns ==
    ASSUME NEW items, NEW totals, NEW n, Coherent(items, totals, n)
    PROVE  /\ NatAmounts(TaxOf(totals.gstLines), n) /\ NatAmounts(NetOf(totals.gstLines), n)
           /\ totals.deliveryTax \in 0..totals.fee
<1>1. /\ DOMAIN totals.gstLines = 1..n
      /\ \A i \in 1..n : LinePriced(items[i], totals.gstLines[i])
  BY DEF Coherent
<1>2. \A i \in 1..n : totals.gstLines[i].tax \in Nat /\ totals.gstLines[i].net \in Nat
  BY <1>1, PricedLineParts DEF LinePriced
<1>3. NatAmounts(TaxOf(totals.gstLines), n) /\ NatAmounts(NetOf(totals.gstLines), n)
  BY <1>1, <1>2 DEF NatAmounts, TaxOf, NetOf
<1>4. totals.deliveryTax \in 0..totals.fee
  BY GstPart DEF Coherent
<1> QED
  BY <1>3, <1>4

LEMMA LinesListed ==
    ASSUME NEW items, NEW totals, NEW n, Coherent(items, totals, n)
    PROVE  \E m : LinesAddUp(ListedLines(items, totals), m, totals)
<1>1. PICK goods : goods = GoodsLines(items, totals)
  OBVIOUS
<1>2. /\ DOMAIN goods = 1..n /\ goods \in Seq({goods[i] : i \in 1..n}) /\ Len(goods) = n
      /\ \A i \in 1..n : IsLine(goods[i])
      /\ TaxOf(goods) = TaxOf(totals.gstLines) /\ WholeOf(goods) = NetOf(totals.gstLines)
  BY <1>1, GoodsListed
<1>3. n \in Nat \ {0} /\ totals.fee \in Nat /\ totals.deliveryRate \in Nat
      /\ totals.deliveryTax = GstIn(totals.fee, totals.deliveryRate)
      /\ totals.tax = Total(TaxOf(totals.gstLines)) + totals.deliveryTax
      /\ totals.total = Total(NetOf(totals.gstLines)) + totals.fee
  BY DEF Coherent
<1>4. PICK taxes \in Nat, nets \in Nat :
         taxes = Total(TaxOf(totals.gstLines)) /\ nets = Total(NetOf(totals.gstLines))
  BY <1>3, CoherentColumns, TotalNat
<1>5. PICK fee \in Nat : fee = totals.fee
  BY <1>3
<1>6. PICK tax \in 0..fee : tax = totals.deliveryTax
  BY <1>5, CoherentColumns
<1>7. CASE fee = 0
  <2>1. ListedLines(items, totals) = goods
    BY <1>1, <1>5, <1>7 DEF ListedLines
  <2>2. totals.tax = taxes /\ totals.total = nets
    BY <1>3, <1>4, <1>5, <1>6, <1>7
  <2>3. LinesAddUp(goods, n, totals)
    BY <1>2, <1>3, <1>4, <2>2 DEF LinesAddUp
  <2> QED
    BY <2>1, <2>3
<1>8. CASE fee # 0
  <2>1. PICK line : line = DeliveryLine(totals)
    OBVIOUS
  <2>2. PICK lines : lines = Append(goods, line)
    OBVIOUS
  <2>3. ListedLines(items, totals) = lines
    BY <1>1, <1>5, <1>8, <2>1, <2>2 DEF ListedLines
  <2>4. /\ Len(lines) = n + 1 /\ DOMAIN lines = 1..(n + 1)
        /\ \A i \in 1..n : lines[i] = goods[i]
        /\ lines[n + 1] = line /\ lines = [i \in 1..(n + 1) |-> lines[i]]
    <3>1. PICK S : S = {goods[i] : i \in 1..n} \union {line}
      OBVIOUS
    <3>2. goods \in Seq(S) /\ line \in S
      <4>1. goods = [i \in 1..n |-> goods[i]]
        BY <1>2
      <4>2. goods \in [1..n -> S]
        BY <3>1, <4>1
      <4> QED
        BY <1>3, <3>1, <4>2
    <3>3. lines \in Seq(S) /\ Len(lines) = n + 1 /\ lines[n + 1] = line
          /\ \A i \in 1..n : lines[i] = goods[i]
      BY <1>2, <2>2, <3>2
    <3>4. DOMAIN lines = 1..(n + 1) /\ lines = [i \in 1..(n + 1) |-> lines[i]]
      BY <3>3
    <3> QED
      BY <3>3, <3>4
  <2>5. /\ line.rate = totals.deliveryRate /\ line.tax = tax /\ line.taxable = fee - tax
        /\ line = [product |-> "delivery", rate |-> line.rate, quantity |-> 0,
                   taxable |-> line.taxable, tax |-> line.tax]
    BY <1>5, <1>6, <2>1 DEF DeliveryLine
  <2>6. fee - tax \in Nat /\ tax \in Nat /\ fee - tax + tax = fee
    OBVIOUS
  <2>7. IsLine(line)
    BY <1>3, <1>5, <1>6, <2>5, <2>6 DEF IsLine
  <2>8. \A i \in 1..(n + 1) : i \in 1..n \/ i = n + 1
    BY <1>3
  <2>9. \A i \in 1..(n + 1) : IsLine(lines[i])
    BY <1>2, <2>4, <2>7, <2>8
  <2>10. lines \in Seq({lines[i] : i \in 1..(n + 1)})
    <3>1. lines \in [1..(n + 1) -> {lines[i] : i \in 1..(n + 1)}]
      BY <2>4
    <3>2. PICK m \in Nat : m = n + 1
      BY <1>3
    <3>3. PICK S : S = {lines[i] : i \in 1..m}
      OBVIOUS
    <3>4. lines \in [1..m -> S]
      BY <3>1, <3>2, <3>3
    <3>5. lines \in Seq(S)
      BY <3>4
    <3> QED
      BY <3>2, <3>3, <3>5
  <2>11. n \in Nat /\ \A i \in 1..n : i \in 1..(n + 1)
    BY <1>3
  <2>12. Total(TaxOf(lines)) = taxes + tax
    <3>1. Amounts(TaxOf(lines), n + 1)
      BY <2>4, <2>9 DEF Amounts, TaxOf, IsLine
    <3>2. DOMAIN TaxOf(goods) = 1..n /\ \A i \in 1..n : TaxOf(goods)[i] = TaxOf(lines)[i]
      BY <1>2, <2>4, <2>11 DEF TaxOf
    <3>3. Total(TaxOf(lines)) = Total(TaxOf(goods)) + TaxOf(lines)[n + 1]
      BY <2>11, <3>1, <3>2, TotalOfOneMore
    <3>4. TaxOf(lines)[n + 1] = tax
      BY <2>4, <2>5, <2>11 DEF TaxOf
    <3> QED
      BY <1>2, <1>4, <3>3, <3>4
  <2>13. Total(WholeOf(lines)) = nets + fee
    <3>1. Amounts(WholeOf(lines), n + 1)
      BY <2>4, <2>9 DEF Amounts, WholeOf, IsLine
    <3>2. DOMAIN WholeOf(goods) = 1..n /\ \A i \in 1..n : WholeOf(goods)[i] = WholeOf(lines)[i]
      BY <1>2, <2>4, <2>11 DEF WholeOf
    <3>3. Total(WholeOf(lines)) = Total(WholeOf(goods)) + WholeOf(lines)[n + 1]
      BY <2>11, <3>1, <3>2, TotalOfOneMore
    <3>4. WholeOf(lines)[n + 1] = fee
      BY <2>4, <2>5, <2>6, <2>11 DEF WholeOf
    <3> QED
      BY <1>2, <1>4, <3>3, <3>4
  <2>14. totals.tax = taxes + tax /\ totals.total = nets + fee
    BY <1>3, <1>4, <1>5, <1>6
  <2>15. n + 1 \in Nat \ {0}
    BY <2>11
  <2>16. LinesAddUp(lines, n + 1, totals)
    BY <2>4, <2>9, <2>10, <2>12, <2>13, <2>14, <2>15 DEF LinesAddUp
  <2> QED
    BY <2>3, <2>16
<1> QED
  BY <1>7, <1>8

\* The document: the tax of the totals put right on the last line, and halved.
TrustedLines(lines, tax) ==
    [lines EXCEPT ![Len(lines)].tax = @ + tax - Total(Column(lines, LAMBDA l : l.tax))]
TaxesUpTo(lines, i) == Total(Column(SubSeq(lines, 1, i), LAMBDA l : l.tax))
HalvedLines(lines) ==
    [i \in DOMAIN lines |->
       LET l == lines[i]
           cgst == Half(TaxesUpTo(lines, i)) - Half(TaxesUpTo(lines, i - 1))
       IN [product |-> l.product, rate |-> l.rate, quantity |-> l.quantity,
           taxable |-> l.taxable, tax |-> l.tax, cgst |-> cgst, sgst |-> l.tax - cgst,
           lineTotal |-> l.taxable + l.tax]]

LEMMA InvoiceLinesAre ==
    ASSUME NEW items, NEW totals
    PROVE  InvoiceLines(items, totals) =
              HalvedLines(TrustedLines(ListedLines(items, totals), totals.tax))
BY DEF InvoiceLines, HalvedLines, TrustedLines, TaxesUpTo, ListedLines, GoodsLines, DeliveryLine

\* The lines already give the tax of the totals: nothing is put right.
LEMMA TrustedAsListed ==
    ASSUME NEW lines, NEW m, NEW totals, LinesAddUp(lines, m, totals)
    PROVE  TrustedLines(lines, totals.tax) = lines
<1>1. /\ m \in Nat \ {0} /\ Len(lines) = m /\ lines \in Seq({lines[i] : i \in 1..m})
      /\ \A i \in 1..m : IsLine(lines[i])
      /\ Total(TaxOf(lines)) = totals.tax
  BY DEF LinesAddUp
<1>2. m \in 1..m /\ DOMAIN lines = 1..m /\ lines = [i \in 1..m |-> lines[i]]
  BY <1>1
<1>3. PICK whole \in Int : whole = totals.tax
  <2>1. NatAmounts(TaxOf(lines), m)
    BY <1>1, <1>2 DEF NatAmounts, TaxOf, IsLine
  <2>2. Total(TaxOf(lines)) \in Nat
    BY <1>1, <2>1, TotalNat
  <2> QED
    BY <1>1, <2>2
<1>4. PICK last : last = lines[m]
  OBVIOUS
<1>5. PICK p, q, rate, taxable, tax :
         /\ tax \in Nat
         /\ last = [product |-> p, rate |-> rate, quantity |-> q, taxable |-> taxable, tax |-> tax]
  BY <1>1, <1>2, <1>4 DEF IsLine
<1>6. Column(lines, LAMBDA l : l.tax) = TaxOf(lines)
  BY DEF Column, TaxOf
<1>7. TrustedLines(lines, totals.tax) = [lines EXCEPT ![m].tax = @ + whole - whole]
  BY <1>1, <1>3, <1>6 DEF TrustedLines
<1>8. [last EXCEPT !.tax = @ + whole - whole] = last
  <2>1. tax + whole - whole = tax
    BY <1>5
  <2>2. [last EXCEPT !.tax = tax] = last
    BY <1>5
  <2>3. last.tax = tax
    BY <1>5
  <2> QED
    BY <2>1, <2>2, <2>3
<1>9. [lines EXCEPT ![m].tax = @ + whole - whole] = [lines EXCEPT ![m] = last]
  BY <1>4, <1>8
<1>10. [lines EXCEPT ![m] = last] = lines
  BY <1>2, <1>4
<1> QED
  BY <1>7, <1>9, <1>10

LEMMA TaxesRun ==
    ASSUME NEW lines, NEW m, NEW totals, LinesAddUp(lines, m, totals)
    PROVE  \E u \in [0..m -> Nat] : /\ RunsTo(u, TaxOf(lines), m) /\ u[m] = totals.tax
                                    /\ \A i \in 0..m : TaxesUpTo(lines, i) = u[i]
<1>1. /\ m \in Nat \ {0} /\ Len(lines) = m /\ lines \in Seq({lines[i] : i \in 1..m})
      /\ \A i \in 1..m : IsLine(lines[i])
      /\ Total(TaxOf(lines)) = totals.tax
  BY DEF LinesAddUp
<1>2. m \in Nat /\ DOMAIN lines = 1..m
  BY <1>1
<1>3. NatAmounts(TaxOf(lines), m)
  BY <1>1, <1>2 DEF NatAmounts, TaxOf, IsLine
<1>4. PICK u \in [0..m -> Nat] : RunsTo(u, TaxOf(lines), m) /\ u[m] = totals.tax
  BY <1>1, <1>2, <1>3, RunsUp
<1>5. ASSUME NEW i \in 0..m
      PROVE  TaxesUpTo(lines, i) = u[i]
  <2>1. PICK S : lines \in Seq(S)
    BY <1>1
  <2>2. PICK first : first = SubSeq(lines, 1, i)
    OBVIOUS
  <2>3. i \in Nat /\ DOMAIN first = 1..i /\ \A k \in 1..i : first[k] = lines[k]
    BY <1>1, <1>2, <2>1, <2>2
  <2>4. PICK t : t = TaxOf(first)
    OBVIOUS
  <2>5. DOMAIN t = 1..i /\ \A k \in 1..i : t[k] = TaxOf(lines)[k] /\ t[k] \in Int
    BY <1>1, <1>2, <2>3, <2>4 DEF TaxOf, IsLine
  <2>6. Amounts(t, i)
    BY <2>5 DEF Amounts
  <2>7. Total(t) = u[i]
    BY <1>2, <1>4, <2>5, <2>6, TotalOfFirst
  <2>8. TaxesUpTo(lines, i) = Total(t)
    BY <2>2, <2>4 DEF TaxesUpTo, Column, TaxOf
  <2> QED
    BY <2>7, <2>8
<1> QED
  BY <1>4, <1>5

\* What InvoiceAddsUp says of the lines of an invoice.
AddsUp(lines, totals) ==
    /\ Total([i \in DOMAIN lines |-> lines[i].lineTotal]) = totals.total
    /\ Total([i \in DOMAIN lines |-> lines[i].tax]) = totals.tax
    /\ Total([i \in DOMAIN lines |-> lines[i].cgst]) = Half(totals.tax)
    /\ \A i \in DOMAIN lines :
          /\ lines[i].tax = GstIn(lines[i].lineTotal, lines[i].rate)
          /\ lines[i].taxable >= 0 /\ lines[i].cgst >= 0 /\ lines[i].sgst >= 0

LEMMA CoherentAddsUp ==
    ASSUME NEW items, NEW totals, NEW n, Coherent(items, totals, n)
    PROVE  AddsUp(InvoiceLines(items, totals), totals)
<1>1. PICK lines, m : lines = ListedLines(items, totals) /\ LinesAddUp(lines, m, totals)
  BY LinesListed
<1>2. PICK invoice : invoice = InvoiceLines(items, totals) /\ invoice = HalvedLines(lines)
  BY <1>1, InvoiceLinesAre, TrustedAsListed
<1>3. /\ m \in Nat /\ m # 0 /\ DOMAIN lines = 1..m /\ \A i \in 1..m : IsLine(lines[i])
      /\ Total(TaxOf(lines)) = totals.tax /\ Total(WholeOf(lines)) = totals.total
  BY <1>1 DEF LinesAddUp
<1>4. PICK u \in [0..m -> Nat] : /\ RunsTo(u, TaxOf(lines), m) /\ u[m] = totals.tax
                                /\ \A i \in 0..m : TaxesUpTo(lines, i) = u[i]
  BY <1>1, TaxesRun
<1>5. DOMAIN invoice = 1..m
  BY <1>2, <1>3 DEF HalvedLines
<1>6. ASSUME NEW i \in 1..m
      PROVE  /\ invoice[i].rate = lines[i].rate /\ invoice[i].taxable = lines[i].taxable
             /\ invoice[i].tax = lines[i].tax /\ invoice[i].lineTotal = lines[i].taxable + lines[i].tax
             /\ invoice[i].cgst = Half(u[i]) - Half(u[i - 1]) /\ invoice[i].cgst \in 0..lines[i].tax
             /\ invoice[i].sgst = lines[i].tax - invoice[i].cgst
  <2>1. i \in 0..m /\ i - 1 \in 0..m
    BY <1>3
  <2>2. PICK cgst : cgst = Half(u[i]) - Half(u[i - 1])
    OBVIOUS
  <2>3. invoice[i] = [product |-> lines[i].product, rate |-> lines[i].rate,
                      quantity |-> lines[i].quantity, taxable |-> lines[i].taxable,
                      tax |-> lines[i].tax, cgst |-> cgst, sgst |-> lines[i].tax - cgst,
                      lineTotal |-> lines[i].taxable + lines[i].tax]
    BY <1>2, <1>3, <1>4, <2>1, <2>2 DEF HalvedLines
  <2>4. PICK a \in Nat, t \in Nat : a = u[i - 1] /\ t = lines[i].tax
    BY <1>3, <2>1 DEF IsLine
  <2>5. u[i] = a + t
    BY <1>3, <1>4, <2>4 DEF RunsTo, TaxOf
  <2>6. cgst \in 0..t
    BY <2>2, <2>4, <2>5, HalvesRise
  <2> QED
    BY <2>2, <2>3, <2>4, <2>6
<1>7. [i \in DOMAIN invoice |-> invoice[i].lineTotal] = WholeOf(lines)
  BY <1>3, <1>5, <1>6 DEF WholeOf
<1>8. [i \in DOMAIN invoice |-> invoice[i].tax] = TaxOf(lines)
  BY <1>3, <1>5, <1>6 DEF TaxOf
<1>9. Total([i \in DOMAIN invoice |-> invoice[i].cgst]) = Half(totals.tax)
  <2> DEFINE halves == [i \in DOMAIN invoice |-> invoice[i].cgst]
             r == [k \in 0..m |-> Half(u[k])]
  <2>1. \A i \in 1..m : lines[i].tax \in Nat
    BY <1>3 DEF IsLine
  <2>2. Amounts(halves, m)
    <3> SUFFICES ASSUME NEW i \in 1..m PROVE invoice[i].cgst \in Int
      BY <1>5 DEF Amounts
    <3>1. PICK t \in Nat : t = lines[i].tax
      BY <2>1
    <3> QED
      BY <1>6, <3>1
  <2>3. r[0] = 0 /\ r[m] = Half(totals.tax)
    <3>1. u[0] = 0
      BY <1>4 DEF RunsTo
    <3> QED
      BY <1>3, <1>4, <3>1, HalfOfNone
  <2>4. \A k \in 1..m : r[k] = r[k - 1] + halves[k]
    <3> SUFFICES ASSUME NEW k \in 1..m PROVE r[k] = r[k - 1] + halves[k]
      OBVIOUS
    <3>1. k \in 0..m /\ k - 1 \in 0..m
      BY <1>3
    <3>2. halves[k] = Half(u[k]) - Half(u[k - 1])
      BY <1>5, <1>6
    <3>3. Half(u[k]) \in Int /\ Half(u[k - 1]) \in Int
      <4>1. PICK a \in Nat, b \in Nat : a = u[k] /\ b = u[k - 1]
        BY <3>1
      <4>2. Half(a) \in Int /\ Half(b) \in Int
        BY HalvesRise
      <4> QED
        BY <4>1, <4>2
    <3> HIDE DEF halves
    <3> QED
      BY <3>1, <3>2, <3>3
  <2> HIDE DEF r, halves
  <2>5. RunsTo(r, halves, m)
    BY <2>3, <2>4 DEF RunsTo
  <2>6. Total(halves) = r[m]
    BY <1>3, <2>2, <2>5, TotalIs
  <2> QED
    BY <2>3, <2>6 DEF halves
<1>10. ASSUME NEW i \in 1..m
       PROVE  /\ invoice[i].tax = GstIn(invoice[i].lineTotal, invoice[i].rate)
              /\ invoice[i].taxable >= 0 /\ invoice[i].cgst >= 0 /\ invoice[i].sgst >= 0
  <2>1. PICK t \in Nat : t = lines[i].tax
    BY <1>3 DEF IsLine
  <2>2. PICK c \in 0..t : c = invoice[i].cgst
    BY <1>6, <2>1
  <2>3. invoice[i].sgst = t - c
    BY <1>6, <2>1, <2>2
  <2>4. PICK b \in Nat : b = lines[i].taxable
    BY <1>3 DEF IsLine
  <2>5. t = GstIn(lines[i].taxable + lines[i].tax, lines[i].rate)
    BY <1>3, <2>1 DEF IsLine
  <2>6. invoice[i].tax = GstIn(invoice[i].lineTotal, invoice[i].rate)
    BY <1>6, <2>1, <2>5
  <2>7. invoice[i].taxable >= 0 /\ c >= 0 /\ t - c >= 0
    BY <1>6, <2>4
  <2> QED
    BY <2>2, <2>3, <2>6, <2>7
<1> QED
  BY <1>2, <1>3, <1>5, <1>7, <1>8, <1>9, <1>10 DEF AddsUp

-----------------------------------------------------------------------------
\* What an order is priced from.
ItemsTyped(items, n) ==
    /\ n \in Nat \ {0} /\ DOMAIN items = 1..n
    /\ \A i \in 1..n : items[i].price \in Nat /\ items[i].rate \in Nat /\ items[i].quantity \in Nat

CatalogTyped == catalog \in [Goods -> [price : GoodsPrices, rate : GoodsRates]]

LEMMA HydratedTyped ==
    ASSUME CatalogTyped, NEW cart \in Carts
    PROVE  /\ ItemsTyped(Hydrated(cart), Len(cart)) /\ DOMAIN cart = 1..Len(cart)
           /\ \A i \in DOMAIN cart : Hydrated(cart)[i].product = cart[i].product
<1>1. PICK n : n = Len(cart)
  OBVIOUS
<1>2. cart \in Seq([product : Goods, quantity : Nat]) /\ cart # <<>>
  BY PricingAssumption
<1>3. n \in Nat \ {0} /\ DOMAIN cart = 1..n
      /\ \A i \in 1..n : cart[i].product \in Goods /\ cart[i].quantity \in Nat
  <2>1. PICK S : S = [product : Goods, quantity : Nat]
    OBVIOUS
  <2>2. cart \in Seq(S) /\ cart # <<>>
    BY <1>2, <2>1
  <2>3. n \in Nat \ {0} /\ DOMAIN cart = 1..n /\ \A i \in 1..n : cart[i] \in S
    BY <1>1, <2>2
  <2> QED
    BY <2>1, <2>3
<1>4. PICK items : items = Hydrated(cart)
  OBVIOUS
<1>5. DOMAIN items = 1..n
  BY <1>3, <1>4 DEF Hydrated
<1>6. ASSUME NEW i \in 1..n
      PROVE  /\ items[i].price \in Nat /\ items[i].rate \in Nat /\ items[i].quantity \in Nat
             /\ items[i].product = cart[i].product
  <2>1. PICK p \in Goods : p = cart[i].product
    BY <1>3
  <2>2. items[i] = [product |-> p, quantity |-> cart[i].quantity,
                    price |-> catalog[p].price, rate |-> catalog[p].rate]
    BY <1>3, <1>4, <2>1 DEF Hydrated
  <2>3. catalog[p].price \in Nat /\ catalog[p].rate \in Nat
    BY PricingAssumption DEF CatalogTyped
  <2> QED
    BY <1>3, <2>1, <2>2, <2>3
<1> QED
  BY <1>1, <1>3, <1>4, <1>5, <1>6 DEF ItemsTyped

LEMMA DiscountNat ==
    ASSUME NEW coupon \in Coupons \union {NoCoupon}, NEW subtotal \in Nat
    PROVE  CalculateDiscount(coupon, subtotal) \in Nat
<1>1. PICK value \in Nat, max \in Nat : value = coupon.value /\ max = coupon.max
  <2>1. CASE coupon \in Coupons
    BY <2>1, PricingAssumption
  <2>2. CASE coupon = NoCoupon
    BY <2>2 DEF NoCoupon
  <2> QED
    BY <2>1, <2>2
<1>2. PICK part \in Nat : part = Rounded(subtotal * value, 100)
  <2>1. PICK p \in Nat : p = subtotal * value
    OBVIOUS
  <2>2. PICK d \in Nat : d = 100
    OBVIOUS
  <2>3. p \in Int /\ d > 0
    BY <2>2
  <2>4. PICK q \in Int : q = Rounded(p, d) /\ 2 * p + d < 2 * (d * (q + 1))
    BY <2>3, RoundedIs
  <2>5. q >= 0
    BY <2>2, <2>4
  <2> QED
    BY <2>1, <2>2, <2>4, <2>5
<1> QED
  BY <1>1, <1>2 DEF CalculateDiscount, LeastOf

\* The discount of an order is shared out exactly (allocate): all of it, and to no
\* line more than the line's own amount, in whatever way the shares round.
THEOREM AllocationAddsUp ==
    ASSUME NEW w, NEW n \in Nat, NatAmounts(w, n), NEW amount \in Nat, amount <= Total(w)
    PROVE  /\ DOMAIN Allocate(amount, w) = 1..n
           /\ \A i \in 1..n : Allocate(amount, w)[i] \in 0..w[i]
           /\ Total(Allocate(amount, w)) = amount
<1>1. DOMAIN w = 1..n
  BY DEF NatAmounts
<1>2. CASE \A i \in DOMAIN w : w[i] = 0
  <2>1. amount = 0
    BY <1>1, <1>2, TotalOfNone
  <2>2. PICK ones : ones = [i \in DOMAIN w |-> 1]
    OBVIOUS
  <2>3. Allocate(amount, w) = Shares(amount, ones)
    BY <1>2, <2>2 DEF Allocate
  <2>4. NatAmounts(ones, n) /\ \A i \in 1..n : ones[i] = 1
    BY <1>1, <2>2 DEF NatAmounts
  <2>5. Total(ones) \in Nat
    BY <2>4, TotalNat
  <2>6. amount <= Total(ones)
    BY <2>1, <2>5
  <2>7. /\ DOMAIN Shares(amount, ones) = 1..n
        /\ \A i \in 1..n : Shares(amount, ones)[i] \in 0..ones[i] /\ Shares(amount, ones)[i] <= amount
        /\ Total(Shares(amount, ones)) = amount
    BY <2>4, <2>6, SharesAddUp
  <2>8. \A i \in 1..n : Shares(amount, ones)[i] = 0
    <3> SUFFICES ASSUME NEW i \in 1..n PROVE Shares(amount, ones)[i] = 0
      OBVIOUS
    <3>1. PICK share \in 0..1 : share = Shares(amount, ones)[i] /\ share <= 0
      BY <2>1, <2>4, <2>7
    <3> QED
      BY <3>1
  <2> QED
    BY <1>1, <1>2, <2>3, <2>7, <2>8
<1>3. CASE ~\A i \in DOMAIN w : w[i] = 0
  <2>1. Allocate(amount, w) = Shares(amount, w)
    BY <1>3 DEF Allocate
  <2> QED
    BY <2>1, SharesAddUp
<1> QED
  BY <1>2, <1>3

\* One of finitely many rates is the highest.
LEMMA HighestRate ==
    ASSUME NEW items, NEW n, ItemsTyped(items, n)
    PROVE  \E r \in {items[i].rate : i \in DOMAIN items} :
              /\ r \in Nat /\ \A i \in DOMAIN items : items[i].rate <= r
<1>1. n \in Nat /\ n # 0 /\ DOMAIN items = 1..n /\ \A i \in 1..n : items[i].rate \in Nat
  BY DEF ItemsTyped
<1> DEFINE S == {k \in Nat : k < n => \E j \in 1..(k + 1) : \A i \in 1..(k + 1) :
                                         items[i].rate <= items[j].rate}
<1>2. 0 \in S
  <2>1. 1 \in 1..n /\ 1..(0 + 1) = {1}
    BY <1>1
  <2>2. PICK rate \in Nat : rate = items[1].rate
    BY <1>1, <2>1
  <2>3. items[1].rate <= items[1].rate
    BY <2>2
  <2> QED
    BY <2>1, <2>3
<1>3. ASSUME NEW k \in Nat, k \in S PROVE k + 1 \in S
  <2> SUFFICES ASSUME k + 1 < n
               PROVE  \E j \in 1..(k + 2) : \A i \in 1..(k + 2) : items[i].rate <= items[j].rate
    OBVIOUS
  <2>1. PICK j \in 1..(k + 1) : \A i \in 1..(k + 1) : items[i].rate <= items[j].rate
    BY <1>1, <1>3
  <2>2. /\ j \in 1..n /\ k + 2 \in 1..n /\ j \in 1..(k + 2) /\ k + 2 \in 1..(k + 2)
        /\ \A i \in 1..(k + 2) : i \in 1..n /\ (i \in 1..(k + 1) \/ i = k + 2)
    BY <1>1
  <2>3. PICK a \in Nat, b \in Nat : a = items[j].rate /\ b = items[k + 2].rate
    BY <1>1, <2>2
  <2>4. CASE b <= a
    <3>1. \A i \in 1..(k + 2) : items[i].rate <= items[j].rate
      BY <2>1, <2>2, <2>3, <2>4
    <3> QED
      BY <2>2, <3>1
  <2>5. CASE a <= b
    <3>1. ASSUME NEW i \in 1..(k + 2) PROVE items[i].rate <= b
      <4>1. PICK c \in Nat : c = items[i].rate
        BY <1>1, <2>2
      <4>2. i \in 1..(k + 1) => c <= a
        BY <2>1, <2>3, <4>1
      <4>3. i = k + 2 => c = b
        BY <2>3, <4>1
      <4> QED
        BY <2>2, <2>5, <4>1, <4>2, <4>3
    <3> QED
      BY <2>2, <2>3, <3>1
  <2> QED
    BY <2>4, <2>5
<1>4. n - 1 \in S
  <2>1. n - 1 \in Nat
    BY <1>1
  <2> HIDE DEF S
  <2> QED
    BY <1>2, <1>3, <2>1, Induction
<1>5. n - 1 \in Nat /\ n - 1 < n /\ n - 1 + 1 = n
  BY <1>1
<1>6. PICK j \in 1..n : \A i \in 1..n : items[i].rate <= items[j].rate
  BY <1>4, <1>5
<1> QED
  BY <1>1, <1>6

\* calculateCartTotals: the discount, shared out over the lines, leaves each its
\* net price, and the total is theirs.
LEMMA TotalsCoherent ==
    ASSUME NEW items, NEW n, ItemsTyped(items, n), NEW couponDiscount \in Nat, NEW fee \in Nat
    PROVE  Coherent(items, CalculateCartTotals(items, couponDiscount, fee), n)
<1>1. n \in Nat /\ n # 0 /\ DOMAIN items = 1..n
      /\ \A i \in 1..n : /\ items[i].price \in Nat /\ items[i].rate \in Nat
                         /\ items[i].quantity \in Nat
  BY DEF ItemsTyped
<1>2. PICK gross : gross = Column(items, LAMBDA it : it.price * it.quantity)
  OBVIOUS
<1>3. NatAmounts(gross, n)
  <2>1. DOMAIN gross = 1..n /\ \A i \in 1..n : gross[i] = items[i].price * items[i].quantity
    BY <1>1, <1>2 DEF Column
  <2>2. ASSUME NEW i \in 1..n PROVE gross[i] \in Nat
    <3>1. PICK a \in Nat, b \in Nat : a = items[i].price /\ b = items[i].quantity
      BY <1>1
    <3>2. a * b \in Nat
      OBVIOUS
    <3> QED
      BY <2>1, <3>1, <3>2
  <2> QED
    BY <2>1, <2>2 DEF NatAmounts
<1>4. PICK whole \in Nat : whole = Total(gross)
  BY <1>1, <1>3, TotalNat
<1>5. PICK discount \in Nat : discount = LeastOf(couponDiscount, whole) /\ discount <= whole
  BY DEF LeastOf
<1>6. PICK discounts : discounts = Allocate(discount, gross)
  OBVIOUS
<1>7. /\ DOMAIN discounts = 1..n /\ \A i \in 1..n : discounts[i] \in 0..gross[i]
      /\ Total(discounts) = discount
  BY <1>1, <1>3, <1>4, <1>5, <1>6, AllocationAddsUp
<1>8. PICK highest \in Nat :
         highest = CHOOSE r \in {items[i].rate : i \in DOMAIN items} :
                      \A i \in DOMAIN items : items[i].rate <= r
  <2>1. \E r \in {items[i].rate : i \in DOMAIN items} : \A i \in DOMAIN items : items[i].rate <= r
    BY HighestRate
  <2>2. (CHOOSE r \in {items[i].rate : i \in DOMAIN items} :
            \A i \in DOMAIN items : items[i].rate <= r) \in {items[i].rate : i \in DOMAIN items}
    BY <2>1
  <2> QED
    BY <1>1, <2>2
<1>9. PICK lines :
         lines = [i \in DOMAIN items |->
                    LET net == gross[i] - discounts[i]
                    IN [product |-> items[i].product, rate |-> items[i].rate, net |-> net,
                        tax |-> GstIn(net, items[i].rate),
                        taxable |-> net - GstIn(net, items[i].rate)]]
  OBVIOUS
<1>10. PICK totals : totals = CalculateCartTotals(items, couponDiscount, fee)
  OBVIOUS
<1>11. totals = [subtotal |-> whole, discount |-> discount, gstLines |-> lines,
                 fee |-> fee, deliveryRate |-> highest, deliveryTax |-> GstIn(fee, highest),
                 tax |-> Total(Column(lines, LAMBDA l : l.tax)) + GstIn(fee, highest),
                 total |-> whole + fee - discount]
  BY <1>2, <1>4, <1>5, <1>6, <1>8, <1>9, <1>10 DEF CalculateCartTotals
<1>12. /\ totals.gstLines = lines /\ totals.fee = fee /\ totals.deliveryRate = highest
       /\ totals.deliveryTax = GstIn(fee, highest)
       /\ totals.tax = Total(Column(lines, LAMBDA l : l.tax)) + GstIn(fee, highest)
       /\ totals.total = whole + fee - discount
  BY <1>11
<1>13. Column(lines, LAMBDA l : l.tax) = TaxOf(lines)
  BY DEF Column, TaxOf
<1>14. DOMAIN lines = 1..n
  BY <1>1, <1>9
<1>15. ASSUME NEW i \in 1..n
       PROVE  /\ lines[i].net \in Nat /\ LinePriced(items[i], lines[i])
              /\ gross[i] \in Nat /\ discounts[i] \in Nat /\ gross[i] = lines[i].net + discounts[i]
  <2>1. PICK a \in Nat : a = gross[i]
    BY <1>3 DEF NatAmounts
  <2>2. PICK b \in 0..a : b = discounts[i]
    BY <1>7, <2>1
  <2>3. PICK net \in Nat : net = gross[i] - discounts[i] /\ a = net + b
    BY <2>1, <2>2
  <2>4. lines[i] = [product |-> items[i].product, rate |-> items[i].rate, net |-> net,
                    tax |-> GstIn(net, items[i].rate), taxable |-> net - GstIn(net, items[i].rate)]
    BY <1>1, <1>9, <2>3
  <2>5. LinePriced(items[i], lines[i]) /\ lines[i].net = net
    BY <1>1, <2>4 DEF LinePriced
  <2>6. b \in Nat
    OBVIOUS
  <2> QED
    BY ONLY <2>1, <2>2, <2>3, <2>5, <2>6, net \in Nat, a \in Nat
<1>16. whole = Total(NetOf(lines)) + discount
  <2>1. Amounts(NetOf(lines), n) /\ \A i \in 1..n : NetOf(lines)[i] = lines[i].net
    BY <1>14, <1>15 DEF Amounts, NetOf
  <2>2. Amounts(discounts, n)
    BY <1>7, <1>15 DEF Amounts
  <2>3. DOMAIN gross = 1..n /\ \A i \in 1..n : gross[i] = NetOf(lines)[i] + discounts[i]
    BY <1>3, <1>15, <2>1 DEF NatAmounts
  <2>4. Total(gross) = Total(NetOf(lines)) + Total(discounts)
    BY <1>1, <2>1, <2>2, <2>3, TotalOfSums
  <2> QED
    BY <1>4, <1>7, <2>4
<1>17. Total(NetOf(lines)) \in Nat
  <2>1. NatAmounts(NetOf(lines), n)
    BY <1>14, <1>15 DEF NatAmounts, NetOf
  <2> QED
    BY <1>1, <2>1, TotalNat
<1>18. totals.total = Total(NetOf(lines)) + fee
  <2>1. PICK nets \in Nat : nets = Total(NetOf(lines))
    BY <1>17
  <2> QED
    BY <1>12, <1>16, <2>1
<1>19. Coherent(items, totals, n)
  BY <1>1, <1>12, <1>13, <1>14, <1>15, <1>18 DEF Coherent
<1> QED
  BY <1>10, <1>19

\* Both kinds of checkout quote coherent totals.
LEMMA QuotedCoherent ==
    ASSUME CatalogTyped, NEW cart \in Carts, NEW coupon \in Coupons \union {NoCoupon},
           NEW charge \in ZoneCharges
    PROVE  Coherent(Hydrated(cart), Quoted(Hydrated(cart), coupon, charge), Len(cart))
<1>1. PICK items, n : items = Hydrated(cart) /\ n = Len(cart) /\ ItemsTyped(items, n)
  BY HydratedTyped
<1>2. n \in Nat /\ DOMAIN items = 1..n
      /\ \A i \in 1..n : items[i].price \in Nat /\ items[i].quantity \in Nat
  BY <1>1 DEF ItemsTyped
<1>3. PICK subtotal \in Nat : subtotal = Subtotal(items)
  <2>1. PICK gross : gross = Column(items, LAMBDA it : it.price * it.quantity)
    OBVIOUS
  <2>2. DOMAIN gross = 1..n /\ \A i \in 1..n : gross[i] = items[i].price * items[i].quantity
    BY <1>2, <2>1 DEF Column
  <2>3. ASSUME NEW i \in 1..n PROVE gross[i] \in Nat
    <3>1. PICK a \in Nat, b \in Nat : a = items[i].price /\ b = items[i].quantity
      BY <1>2
    <3>2. a * b \in Nat
      OBVIOUS
    <3> QED
      BY <2>2, <3>1, <3>2
  <2>4. NatAmounts(gross, n)
    BY <2>2, <2>3 DEF NatAmounts
  <2>5. Total(gross) \in Nat
    BY <1>2, <2>4, TotalNat
  <2> QED
    BY <2>1, <2>5 DEF Subtotal
<1>4. PICK discount \in Nat : discount = CalculateDiscount(coupon, Subtotal(items))
  BY <1>3, DiscountNat
<1>5. PICK fee \in Nat : fee = DeliveryFee(Subtotal(items), charge)
  BY PricingAssumption DEF DeliveryFee
<1>6. Coherent(items, CalculateCartTotals(items, discount, fee), n)
  BY <1>1, TotalsCoherent
<1> QED
  BY <1>1, <1>4, <1>5, <1>6 DEF Quoted

-----------------------------------------------------------------------------
\* The fields of the totals of the snapshot that are charged and documented.
Charged == {"gstLines", "fee", "deliveryRate", "deliveryTax", "tax", "total"}

\* The paid cart keeps coherent totals, and the invoice adds up.
PaidCoherent ==
    paidCart # NoOrder => /\ \E n : Coherent(paidCart.items, paidCart.totals, n)
                          /\ Charged \subseteq DOMAIN paidCart.totals
OrderAddsUp ==
    placed \notin {NoOrder, Refused} => AddsUp(placed.lines, placed.totals)
InvoiceInv == CatalogTyped /\ PaidCoherent /\ OrderAddsUp

LEMMA TotalsCharged ==
    ASSUME NEW items, NEW couponDiscount, NEW fee
    PROVE  Charged \subseteq DOMAIN CalculateCartTotals(items, couponDiscount, fee)
BY DEF CalculateCartTotals, Charged

LEMMA PlacedAddsUp ==
    ASSUME NEW items, NEW totals, NEW n, Coherent(items, totals, n),
           placed' = Placed(items, totals)
    PROVE  OrderAddsUp'
<1>1. PICK lines : lines = InvoiceLines(items, totals)
  OBVIOUS
<1>2. AddsUp(lines, totals)
  BY <1>1, CoherentAddsUp
<1>3. placed'.lines = lines /\ placed'.totals = totals
  BY <1>1 DEF Placed
<1> QED
  BY <1>2, <1>3 DEF OrderAddsUp

LEMMA PayCartCoherent ==
    ASSUME InvoiceInv, NEW cart \in Carts, NEW coupon \in Coupons \union {NoCoupon},
           NEW charge \in ZoneCharges, PayCart(cart, coupon, charge)
    PROVE  InvoiceInv'
<1>1. PICK items : items = Hydrated(cart)
  OBVIOUS
<1>2. PICK totals : totals = Quoted(items, coupon, charge)
  OBVIOUS
<1>3. CatalogTyped
  BY DEF InvoiceInv
<1>4. \E n : Coherent(items, totals, n)
  BY <1>1, <1>2, <1>3, QuotedCoherent
<1>5. Charged \subseteq DOMAIN totals
  <2>1. PICK discount, fee : totals = CalculateCartTotals(items, discount, fee)
    BY <1>2 DEF Quoted
  <2> QED
    BY <2>1, TotalsCharged
<1>6. /\ paidCart' = [items |-> items, totals |-> totals, amount |-> totals.total]
      /\ catalog' = catalog /\ placed' = placed
  BY <1>1, <1>2 DEF PayCart
<1>7. paidCart'.items = items /\ paidCart'.totals = totals
  BY <1>6
<1>8. PaidCoherent'
  BY <1>4, <1>5, <1>7 DEF PaidCoherent
<1> QED
  BY <1>6, <1>8 DEF InvoiceInv, CatalogTyped, OrderAddsUp

LEMMA PlaceCodCoherent ==
    ASSUME InvoiceInv, NEW cart \in Carts, NEW coupon \in Coupons \union {NoCoupon},
           NEW charge \in ZoneCharges, PlaceCod(cart, coupon, charge)
    PROVE  InvoiceInv'
<1>1. PICK items : items = Hydrated(cart)
  OBVIOUS
<1>2. PICK totals : totals = Quoted(items, coupon, charge)
  OBVIOUS
<1>3. CatalogTyped
  BY DEF InvoiceInv
<1>4. PICK n : Coherent(items, totals, n)
  BY <1>1, <1>2, <1>3, QuotedCoherent
<1>5. placed' = Placed(items, totals) /\ catalog' = catalog /\ paidCart' = paidCart
  BY <1>1, <1>2 DEF PlaceCod
<1>6. OrderAddsUp'
  BY <1>4, <1>5, PlacedAddsUp
<1> QED
  BY <1>5, <1>6 DEF InvoiceInv, CatalogTyped, PaidCoherent

\* The totals of the snapshot, in the sequence of the cart: each line goes with
\* its item, and the sums are those that were paid.
LEMMA SnapshotCoherent ==
    ASSUME InvoiceInv, paidCart # NoOrder, NEW cart \in Carts,
           Len(cart) = Len(paidCart.items),
           \A i \in DOMAIN cart : \E j \in DOMAIN paidCart.items :
              paidCart.items[j].product = cart[i].product
    PROVE  LET items == SnapshotItems(Hydrated(cart))
           IN \E n : Coherent(items, SnapshotTotals(items), n)
<1>1. PICK bought, paid, n : /\ bought = paidCart.items /\ paid = paidCart.totals
                             /\ Coherent(bought, paid, n)
  BY DEF InvoiceInv, PaidCoherent
<1>2. /\ n \in Nat /\ n # 0 /\ DOMAIN bought = 1..n /\ DOMAIN paid.gstLines = 1..n
      /\ \A i \in 1..n : LinePriced(bought[i], paid.gstLines[i])
  BY <1>1 DEF Coherent
<1>3. PICK hydrated : hydrated = Hydrated(cart)
  OBVIOUS
<1>4. DOMAIN hydrated = DOMAIN cart /\ \A i \in DOMAIN cart : hydrated[i].product = cart[i].product
  BY <1>3 DEF Hydrated
<1>5. DOMAIN cart = 1..n
  <2>1. cart \in Seq([product : Goods, quantity : Nat])
    BY PricingAssumption
  <2>2. Len(bought) = n
    BY <1>2
  <2> QED
    BY <1>1, <2>1, <2>2
<1> DEFINE place == [i \in 1..n |-> Paid(hydrated[i])]
<1>6. \A i \in 1..n : place[i] \in 1..n /\ bought[place[i]].product = cart[i].product
  <2> SUFFICES ASSUME NEW i \in 1..n
               PROVE  place[i] \in 1..n /\ bought[place[i]].product = cart[i].product
    OBVIOUS
  <2>1. PICK item : item = hydrated[i] /\ item.product = cart[i].product
    BY <1>4, <1>5
  <2>2. \E j \in DOMAIN bought : bought[j].product = item.product
    BY <1>1, <1>5, <2>1
  <2>3. PICK j : j = Paid(item)
    OBVIOUS
  <2>4. j \in DOMAIN bought /\ bought[j].product = item.product
    BY <1>1, <2>2, <2>3 DEF Paid
  <2> QED
    BY <1>2, <2>1, <2>3, <2>4
<1>7. place \in [1..n -> 1..n]
  BY <1>6
<1>8. PICK items : items = SnapshotItems(hydrated)
  OBVIOUS
<1>9. DOMAIN items = 1..n /\ \A i \in 1..n : items[i] = bought[place[i]]
  BY <1>1, <1>4, <1>5, <1>8 DEF SnapshotItems
<1>10. \A i \in 1..n : Paid(items[i]) = place[i]
  <2> SUFFICES ASSUME NEW i \in 1..n PROVE Paid(items[i]) = Paid(hydrated[i])
    OBVIOUS
  <2>1. items[i].product = hydrated[i].product
    BY <1>4, <1>5, <1>6, <1>9
  <2> QED
    BY <2>1 DEF Paid
<1>11. PICK lines : lines = [i \in 1..n |-> paid.gstLines[place[i]]]
  OBVIOUS
<1>12. PICK totals : totals = SnapshotTotals(items)
  OBVIOUS
<1>13. totals = [paid EXCEPT !.gstLines = lines]
  <2>1. [i \in DOMAIN items |-> paid.gstLines[Paid(items[i])]] = lines
    BY <1>9, <1>10, <1>11
  <2> QED
    BY <1>1, <1>12, <2>1 DEF SnapshotTotals
<1> HIDE DEF place
<1>14. \A i, j \in 1..n : place[i] = place[j] => i = j
  <2>1. \A i, j \in 1..n : cart[i].product = cart[j].product => i = j
    BY <1>5, PricingAssumption
  <2>2. ASSUME NEW i \in 1..n, NEW j \in 1..n, place[i] = place[j]
        PROVE  cart[i].product = cart[j].product
    <3>1. bought[place[i]].product = cart[i].product /\ bought[place[j]].product = cart[j].product
      BY <1>6
    <3> QED
      BY <2>2, <3>1
  <2> QED
    BY <2>1, <2>2
<1>15. /\ totals.gstLines = lines /\ totals.fee = paid.fee
       /\ totals.deliveryRate = paid.deliveryRate /\ totals.deliveryTax = paid.deliveryTax
       /\ totals.tax = paid.tax /\ totals.total = paid.total
  <2>1. Charged \subseteq DOMAIN paid
    BY <1>1 DEF InvoiceInv, PaidCoherent
  <2> QED
    BY <1>13, <2>1 DEF Charged
<1>16. DOMAIN lines = 1..n /\ \A i \in 1..n : lines[i] = paid.gstLines[place[i]]
  BY <1>11
<1>17. Total(TaxOf(lines)) = Total(TaxOf(paid.gstLines))
  <2>1. PICK a, b : a = TaxOf(paid.gstLines) /\ b = TaxOf(lines)
    OBVIOUS
  <2>2. NatAmounts(a, n)
    BY <1>1, <2>1, CoherentColumns
  <2>3. Rearranged(b, a, place, n)
    BY <1>2, <1>7, <1>14, <1>16, <2>1 DEF TaxOf, Rearranged
  <2>4. Total(b) = Total(a)
    BY <1>2, <2>2, <2>3, TotalOfRearranged
  <2> QED
    BY <2>1, <2>4
<1>18. Total(NetOf(lines)) = Total(NetOf(paid.gstLines))
  <2>1. PICK a, b : a = NetOf(paid.gstLines) /\ b = NetOf(lines)
    OBVIOUS
  <2>2. NatAmounts(a, n)
    BY <1>1, <2>1, CoherentColumns
  <2>3. Rearranged(b, a, place, n)
    BY <1>2, <1>7, <1>14, <1>16, <2>1 DEF NetOf, Rearranged
  <2>4. Total(b) = Total(a)
    BY <1>2, <2>2, <2>3, TotalOfRearranged
  <2> QED
    BY <2>1, <2>4
<1>19. \A i \in 1..n : LinePriced(items[i], lines[i])
  BY <1>2, <1>6, <1>9, <1>16
<1>20. Coherent(items, totals, n)
  BY <1>1, <1>2, <1>9, <1>15, <1>16, <1>17, <1>18, <1>19 DEF Coherent
<1> QED
  BY <1>3, <1>8, <1>12, <1>20

LEMMA PlacePaidCoherent ==
    ASSUME InvoiceInv, NEW cart \in Carts, PlacePaid(cart)
    PROVE  InvoiceInv'
<1>1. PICK items : items = SnapshotItems(Hydrated(cart))
  OBVIOUS
<1>2. PICK totals : totals = SnapshotTotals(items)
  OBVIOUS
<1>3. /\ paidCart # NoOrder /\ Len(cart) = Len(paidCart.items)
      /\ \A i \in DOMAIN cart : \E j \in DOMAIN paidCart.items :
            paidCart.items[j].product = cart[i].product
      /\ placed' = Placed(items, totals) \/ placed' = Refused
      /\ paidCart' = paidCart /\ catalog' = catalog
  BY <1>1, <1>2 DEF PlacePaid
<1>4. PICK n : Coherent(items, totals, n)
  BY <1>1, <1>2, <1>3, SnapshotCoherent
<1>5. OrderAddsUp'
  <2>1. CASE placed' = Placed(items, totals)
    BY <1>4, <2>1, PlacedAddsUp
  <2>2. CASE placed' = Refused
    BY <2>2 DEF OrderAddsUp
  <2> QED
    BY <1>3, <2>1, <2>2
<1> QED
  BY <1>3, <1>5 DEF InvoiceInv, CatalogTyped, PaidCoherent

LEMMA RepriceCoherent ==
    ASSUME InvoiceInv, NEW p \in Goods, NEW price \in GoodsPrices, NEW rate \in GoodsRates,
           RepriceProduct(p, price, rate)
    PROVE  InvoiceInv'
<1>1. catalog' = [catalog EXCEPT ![p] = [price |-> price, rate |-> rate]]
      /\ paidCart' = paidCart /\ placed' = placed
  BY DEF RepriceProduct
<1>2. CatalogTyped'
  BY <1>1 DEF InvoiceInv, CatalogTyped
<1> QED
  BY <1>1, <1>2 DEF InvoiceInv, PaidCoherent, OrderAddsUp

\* The invoice of every order adds up to the rupees charged, for any catalog,
\* coupons, zones and carts: with a coupon or without, paid before or on
\* delivery, repriced meanwhile or not, and in whatever sequence the paid cart
\* came back.
THEOREM InvoicesAddUp == PricingSpec => []InvoiceAddsUp
<1>1. PricingInit => InvoiceInv
  BY DEF PricingInit, InvoiceInv, CatalogTyped, PaidCoherent, OrderAddsUp
<1>2. InvoiceInv /\ [PricingNext]_pricingVars => InvoiceInv'
  <2> SUFFICES ASSUME InvoiceInv, [PricingNext]_pricingVars PROVE InvoiceInv'
    OBVIOUS
  <2>1. CASE UNCHANGED pricingVars
    BY <2>1 DEF InvoiceInv, CatalogTyped, PaidCoherent, OrderAddsUp, pricingVars
  <2>2. CASE PricingNext
    BY <2>2, PayCartCoherent, PlaceCodCoherent, RepriceCoherent, PlacePaidCoherent DEF PricingNext
  <2> QED
    BY <2>1, <2>2
<1>3. OrderAddsUp => InvoiceAddsUp
  BY DEF OrderAddsUp, AddsUp, InvoiceAddsUp, Column
<1>4. InvoiceInv => OrderAddsUp
  BY DEF InvoiceInv
<1> QED
  BY <1>1, <1>2, <1>3, <1>4, PTL DEF PricingSpec
=============================================================================
