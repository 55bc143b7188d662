------------------------- MODULE StoreAvailability --------------------------
(***************************************************************************)
(* Whether the store takes orders now, and when it will again              *)
(* (settings/storeAvailability.service): weekly hours, special dates, a    *)
(* temporary closure and the cutoffs of the delivery zones.                *)
(*                                                                         *)
(* A time of day is one of 0..DayLength-1, an instant counts them from the *)
(* first day.  The settings are chosen at the start among those the        *)
(* validation admits, and the clock runs.                                  *)
(***************************************************************************)
EXTENDS Integers

CONSTANTS
    DayLength,   \* times of a day
    WeekLength,  \* days of a week
    LookAhead,   \* days nextOpening looks at: 15 in the code
    LastInstant, \* bounds the clock
    WeeklyHours, \* the weekly schedules considered: functions of the day of the week
    SpecialDays, \* the special dates considered: partial functions of the day
    Closures,    \* the temporary closures considered
    ZoneSets,    \* the sets of delivery zones considered
    Distances,   \* distances of an address
    NoDistance,
    Never

\* The validation of the settings: times are times of a day, limits are counted in
\* a unit that makes them whole.
Schedule == [isOpen : BOOLEAN, opensAt : 0..DayLength - 1, closesAt : 0..DayLength - 1]
DeliveryZone == [limit : Nat, cutoff : 0..DayLength - 1, isActive : BOOLEAN]

ASSUME AvailabilityAssumption ==
    /\ {DayLength, WeekLength} \subseteq Nat \ {0} /\ {LookAhead, LastInstant} \subseteq Nat
    /\ \A hours \in WeeklyHours : \A day \in 0..WeekLength - 1 : hours[day] \in Schedule
    /\ \A days \in SpecialDays : \A day \in DOMAIN days : days[day] \in Schedule
    /\ Closures \subseteq [isActive : BOOLEAN, from : Int, to : Int]
    /\ \A z \in UNION ZoneSets : z \in DeliveryZone
    /\ Never \notin Int

VARIABLES weekly, special, closure, zones, distance, clock

availabilityVars == <<weekly, special, closure, zones, distance, clock>>

Earlier(a, b) == IF a < b THEN a ELSE b
DayOf(at) == at \div DayLength
Instant(day, time) == day * DayLength + time

\* scheduleForDate: a special date replaces the day of the week.
ScheduleForDate(day) ==
    IF day \in DOMAIN special THEN special[day] ELSE weekly[day % WeekLength]

ClosureActive(at) == closure.isActive /\ closure.from <= at /\ at < closure.to

ActiveZones == {z \in zones : z.isActive}

\* selectZone: the nearest active zone that reaches the address.
ZonesReaching == {z \in ActiveZones : distance # NoDistance /\ distance <= z.limit}
Zone == CHOOSE z \in ZonesReaching : \A y \in ZonesReaching : z.limit <= y.limit

\* cutoffForDate: of the zone of the address, or else the latest there is.
CutoffForDate(day) ==
    LET time == IF ZonesReaching # {} THEN Zone.cutoff
                ELSE CHOOSE c \in {z.cutoff : z \in ActiveZones} :
                         \A z \in ActiveZones : z.cutoff <= c
    IN Earlier(Instant(day, ScheduleForDate(day).closesAt), Instant(day, time))

\* Mutant: the closure is forgotten.
CandidateInClosure(day, at) ==
    LET opensAt == Instant(day, ScheduleForDate(day).opensAt)
    IN IF opensAt > at THEN opensAt ELSE at

\* nextOpening: the first moment of a day when orders could be taken.
Candidate(day, at) ==
    LET opensAt == Instant(day, ScheduleForDate(day).opensAt)
        first == IF opensAt > at THEN opensAt ELSE at
    IN IF ClosureActive(at) /\ first < closure.to THEN closure.to ELSE first

NextOpening(at) ==
    LET open == {day \in DayOf(at)..DayOf(at) + LookAhead - 1 :
                    ScheduleForDate(day).isOpen /\ Candidate(day, at) < CutoffForDate(day)}
    IN IF open = {} THEN Never
       ELSE Candidate(CHOOSE day \in open : \A other \in open : day <= other, at)

State(code, accepting, next) == [code |-> code, accepting |-> accepting, next |-> next]

\* evaluateStoreAvailability, in the order of its returns.
Evaluate(at) ==
    LET today == ScheduleForDate(DayOf(at))
        opensAt == Instant(DayOf(at), today.opensAt)
        closesAt == Instant(DayOf(at), today.closesAt)
    IN CASE distance # NoDistance /\ ZonesReaching = {} ->
              State("OUT_OF_DELIVERY_ZONE", FALSE, Never)
         [] ActiveZones = {} /\ (distance = NoDistance \/ ZonesReaching # {}) ->
              State("NO_ACTIVE_DELIVERY_ZONE", FALSE, Never)
         [] OTHER ->
              IF ClosureActive(at) THEN State("TEMPORARILY_CLOSED", FALSE, NextOpening(at))
              ELSE IF ~today.isOpen THEN State("CLOSED_TODAY", FALSE, NextOpening(at))
              ELSE IF at < opensAt THEN State("BEFORE_OPENING", FALSE, opensAt)
              ELSE IF at >= closesAt THEN State("AFTER_CLOSING", FALSE, NextOpening(at))
              ELSE IF at >= CutoffForDate(DayOf(at))
                   THEN State("ORDER_CUTOFF_PASSED", FALSE, NextOpening(at))
              ELSE State("OPEN", TRUE, Never)

AvailabilityInit ==
    /\ weekly \in WeeklyHours /\ special \in SpecialDays
    /\ closure \in Closures /\ zones \in ZoneSets
    /\ distance \in Distances \union {NoDistance}
    /\ clock = 0

TimePasses ==
    /\ clock < LastInstant
    /\ clock' = clock + 1
    /\ UNCHANGED <<weekly, special, closure, zones, distance>>

AvailabilityNext == TimePasses

AvailabilitySpec == AvailabilityInit /\ [][AvailabilityNext]_availabilityVars

-----------------------------------------------------------------------------
\* What nextOpening does not look at: a closure that has not begun yet, and a
\* cutoff that comes before the opening of the same day.
ClosureComes == closure.isActive /\ clock < closure.from
CutoffBeforeOpening == LET today == DayOf(clock) IN
    /\ Evaluate(clock).code = "BEFORE_OPENING"
    /\ CutoffForDate(today) <= Instant(today, ScheduleForDate(today).opensAt)

\* A customer told when the store opens again can order at that moment and at
\* no moment before, across closed days, special dates, a closure that is
\* running and the cutoff of his zone; a customer told "never" cannot order on
\* any day looked at.
NextOpeningIsOpen ==
    LET now == Evaluate(clock) IN
    (~now.accepting /\ ~ClosureComes /\ ~CutoffBeforeOpening) =>
        IF now.next # Never
        THEN Evaluate(now.next).accepting
             /\ \A at \in clock..now.next - 1 : ~Evaluate(at).accepting
        ELSE \A at \in clock..Instant(DayOf(clock) + LookAhead, 0) - 1 : ~Evaluate(at).accepting
=============================================================================
