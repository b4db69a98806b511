--------------------------- MODULE SchedulerProofs ---------------------------
(***************************************************************************)
(* Proofs about parse_natural_time and the events table of module         *)
(* Scheduler, for every set of clock readings, hours and numbers and every *)
(* datetime.max the assumption allows.                                     *)
(*                                                                         *)
(* Both invariants follow from one fact about the parser alone: for every  *)
(* phrase and every now, the outcome is a time between 0 and datetime.max *)
(* or an outcome without a time, and a time it returns is the one spec 4.5 *)
(* gives.  Each rule of the parser is a step of that proof.                *)
(***************************************************************************)
EXTENDS Scheduler, TLAPS

(* What parse_natural_time may return, or raise. *)
Results == [kind : {"ok", "none", "ValueError", "OverflowError"}, t : 0..MaxMinute]

-----------------------------------------------------------------------------
(* The bounds SchedulerAssumption sets, one constant at a time. *)
LEMMA MaxMinuteBound == MaxMinute \in Nat /\ MaxMinute >= 2879
  BY SchedulerAssumption DEF Day

LEMMA HoursNat == Hours \subseteq Nat
  BY SchedulerAssumption

LEMMA NumsNat == Nums \subseteq Nat
  BY SchedulerAssumption

LEMMA MaxEventsNat == MaxEvents \in Nat
  BY SchedulerAssumption

(* Every clock reading is a time up to datetime.max. *)
LEMMA NowBound ==
  ASSUME NEW now \in Nows
  PROVE  now \in 0..MaxMinute
  BY SchedulerAssumption

(* datetime.max ends a day: it is 23:59 of day (MaxMinute + 1) \div 1440 - 1. *)
LEMMA DayEnd == MaxMinute + 1 = ((MaxMinute + 1) \div 1440) * 1440
  BY SchedulerAssumption DEF Day

(* The shape of a phrase: which matches it has, and what they hold. *)
LEMMA PhraseType ==
  ASSUME NEW p \in Phrases
  PROVE  /\ p.inx = NoMatch \/ p.inx \in [num : Nums, unit : {"minute", "hour"}]
         /\ p.tomorrow \in BOOLEAN
         /\ p.ampm = NoMatch \/ p.ampm \in [hour : {8, 12}, ampm : {"am", "pm"}]
         /\ p.hhmm = NoMatch \/ p.hhmm \in [h : Hours, mi : Mins]
         /\ p.dt = NoMatch \/ p.dt \in DateTimes
  BY DEF Phrases, InXs, AmPms, DateTimes, Mins

(* The time of day a phrase mentions is a whole number of hours and minutes. *)
LEMMA WallType ==
  ASSUME NEW p \in Phrases, HasTime(p)
  PROVE  WallTime(p).h \in Nat /\ WallTime(p).mi \in Nat
  <1>1. CASE p.ampm # NoMatch
    BY <1>1, PhraseType DEF WallTime, ApplyAmPm
  <1>2. CASE p.ampm = NoMatch
    <2>1. p.hhmm \in [h : Hours, mi : Mins]
      BY <1>2, PhraseType DEF HasTime
    <2>2. WallTime(p) = [h |-> p.hhmm.h, mi |-> p.hhmm.mi]
      BY <1>2, Zenon DEF WallTime
    <2>3. p.hhmm.h \in Nat
      BY <2>1, HoursNat DEF Mins
    <2>4. p.hhmm.mi \in Nat
      BY <2>1 DEF Mins
    <2> QED
      BY <2>2, <2>3, <2>4
  <1> QED
    BY <1>1, <1>2

(***************************************************************************)
(* _apply_ampm agrees with the 12-hour clock of spec 4.5: an hour that     *)
(* replace() accepts is the minute of the day SpecWall names.              *)
(***************************************************************************)
LEMMA WallSpec ==
  ASSUME NEW p \in Phrases, HasTime(p)
  PROVE  WallTime(p).h * 60 + WallTime(p).mi = SpecWall(p)
  <1>1. CASE p.ampm # NoMatch
    <2>1. p.ampm \in [hour : {8, 12}, ampm : {"am", "pm"}]
      BY <1>1, PhraseType
    <2> QED
      BY <1>1, <2>1 DEF WallTime, ApplyAmPm, SpecWall
  <1>2. CASE p.ampm = NoMatch
    BY <1>2 DEF WallTime, SpecWall
  <1> QED
    BY <1>1, <1>2

(* timedelta addition: a time up to datetime.max, or OverflowError. *)
LEMMA ShiftType ==
  ASSUME NEW t \in 0..MaxMinute, NEW m \in Nat
  PROVE  /\ Shift(t, m) \in Results
         /\ Shift(t, m).kind = "ok" => Shift(t, m).t = t + m
  BY MaxMinuteBound DEF Shift, Results, Ok, Raise

(***************************************************************************)
(* replace(hour, minute) keeps the day: datetime.max ends a day, so any    *)
(* valid time of a day up to datetime.max is itself up to datetime.max.    *)
(***************************************************************************)
LEMMA ReplaceType ==
  ASSUME NEW t \in 0..MaxMinute, NEW h \in Nat, NEW mi \in Nat
  PROVE  /\ Replace(t, h, mi) \in Results
         /\ Replace(t, h, mi).kind = "ok" =>
              /\ h <= 23 /\ mi <= 59
              /\ Replace(t, h, mi).t = (t \div Day) * Day + h * 60 + mi
  <1>1. ASSUME h <= 23, mi <= 59
        PROVE  (t \div Day) * Day + h * 60 + mi \in 0..MaxMinute
    <2> DEFINE K == (MaxMinute + 1) \div Day
    <2>2. MaxMinute + 1 = K * Day
      BY DayEnd DEF Day
    <2>3. (t \div Day) * Day <= t
      BY DEF Day
    <2>4. t \div Day <= K - 1
      BY <2>2, <2>3, MaxMinuteBound DEF Day
    <2>1. (t \div Day) * Day <= MaxMinute + 1 - Day
      BY <2>2, <2>4, MaxMinuteBound DEF Day
    <2>5. t \div Day \in Nat
      BY DEF Day
    <2> QED
      BY <1>1, <2>1, <2>5, MaxMinuteBound DEF Day
  <1> QED
    BY <1>1, MaxMinuteBound DEF Replace, Results, Ok, Raise

(* The earliest candidate after now is the one CHOOSE picks in SpecTime. *)
LEMMA ChooseEarliest ==
  ASSUME NEW S \in SUBSET Int, NEW now \in Int, NEW x \in S, x > now,
         \A u \in S : u > now => x <= u
  PROVE  (CHOOSE t \in S : t > now /\ \A u \in S : u > now => t <= u) = x
  <1>1. \E t \in S : t > now /\ \A u \in S : u > now => t <= u
    OBVIOUS
  <1> DEFINE c == CHOOSE t \in S : t > now /\ \A u \in S : u > now => t <= u
  <1>2. c \in S /\ c > now /\ \A u \in S : u > now => c <= u
    BY <1>1, Zenon
  <1>3. ASSUME NEW y \in S, y > now, \A u \in S : u > now => y <= u PROVE y = x
    BY <1>3
  <1> QED
    BY <1>2, <1>3, Zenon

(***************************************************************************)
(* parse_natural_time, for every phrase and every now: the outcome is one  *)
(* parse_natural_time can have, with a time up to datetime.max, and the    *)
(* time of an "ok" outcome is the one spec 4.5's ordered rules give.       *)
(***************************************************************************)
LEMMA ParseResult ==
  ASSUME NEW p \in Phrases, NEW now \in Nows
  PROVE  /\ ParseNaturalTime(p, now) \in Results
         /\ ParseNaturalTime(p, now).kind = "ok" =>
              ParseNaturalTime(p, now).t = SpecTime(p, now)
  <1> DEFINE r == ParseNaturalTime(p, now)
             d == now \div Day
             Goal == r \in Results /\ (r.kind = "ok" => r.t = SpecTime(p, now))
  <1>0. now \in 0..MaxMinute /\ d \in Nat /\ d * Day <= now /\ now < (d + 1) * Day
    <2>1. now \in 0..MaxMinute
      BY NowBound
    <2> QED
      BY <2>1, MaxMinuteBound DEF Day
  <1>1. CASE p.dt # NoMatch /\ IsoOk(p.dt)
    <2> DEFINE t == p.dt.day * Day + p.dt.h * 60 + p.dt.mi
    <2>1. p.dt \in DateTimes
      BY <1>1, PhraseType
    <2>2. r = Ok(t)
      BY <1>1, Zenon DEF ParseNaturalTime
    <2>3. t \in 0..MaxMinute
      <3>1. p.dt.day = 1 /\ p.dt.h \in Hours /\ p.dt.mi \in Mins
        BY <2>1 DEF DateTimes
      <3>2. p.dt.h <= 23 /\ p.dt.mi <= 59
        BY <1>1, Zenon DEF IsoOk
      <3>4. p.dt.h \in Nat
        BY <3>1, HoursNat DEF Mins
      <3>5. p.dt.mi \in Nat
        BY <3>1 DEF Mins
      <3>3. MaxMinute \in Nat /\ MaxMinute >= 2879
        BY MaxMinuteBound DEF Day
      <3> QED
        BY <3>1, <3>2, <3>3, <3>4, <3>5 DEF Day
    <2>4. SpecTime(p, now) = t
      BY <1>1, Zenon DEF SpecTime
    <2> QED
      BY <2>2, <2>3, <2>4 DEF Ok, Results
  <1>2. CASE ~(p.dt # NoMatch /\ IsoOk(p.dt)) /\ p.inx # NoMatch
    <2> DEFINE m == IF p.inx.unit = "minute" THEN p.inx.num ELSE p.inx.num * 60
    <2>1. p.inx \in [num : Nums, unit : {"minute", "hour"}]
      BY <1>2, PhraseType
    <2>5. p.inx.num \in Nat
      BY <2>1, NumsNat
    <2>6. p.inx.unit \in {"minute", "hour"}
      BY <2>1
    <2>2. m \in Nat /\ m = p.inx.num * (IF p.inx.unit = "hour" THEN 60 ELSE 1)
      BY <2>5, <2>6
    <2>3. r = Shift(now, m)
      BY <1>2 DEF ParseNaturalTime
    <2>4. SpecTime(p, now) = now + p.inx.num * (IF p.inx.unit = "hour" THEN 60 ELSE 1)
      BY <1>2 DEF SpecTime
    <2> QED
      BY <1>0, <2>2, <2>3, <2>4, ShiftType
  <1>3. CASE ~(p.dt # NoMatch /\ IsoOk(p.dt)) /\ p.inx = NoMatch /\ p.tomorrow
    <2> DEFINE base == Shift(now, Day)
    <2>1. base \in Results /\ (base.kind = "ok" => base.t = now + Day)
      BY <1>0, ShiftType DEF Day
    <2>2. CASE base.kind # "ok"
      <3>1. r = base
        BY <1>3, <2>2 DEF ParseNaturalTime
      <3> QED
        BY <2>1, <2>2, <3>1
    <2>3. CASE base.kind = "ok"
      <3> DEFINE h == IF HasTime(p) THEN WallTime(p).h ELSE 9
                 mi == IF HasTime(p) THEN WallTime(p).mi ELSE 0
      <3>1. r = Replace(base.t, h, mi)
        BY <1>3, <2>3 DEF ParseNaturalTime
      <3>2. h \in Nat /\ mi \in Nat /\ base.t \in 0..MaxMinute
        BY <2>1, <2>3, WallType DEF Results
      <3>3. (base.t \div Day) * Day = (d + 1) * Day
        BY <1>0, <2>1, <2>3 DEF Day
      <3>4. h * 60 + mi = IF HasTime(p) THEN SpecWall(p) ELSE 9 * 60
        BY WallSpec
      <3>5. SpecTime(p, now) = (d + 1) * Day + (IF HasTime(p) THEN SpecWall(p) ELSE 9 * 60)
        BY <1>3 DEF SpecTime
      <3>6. /\ Replace(base.t, h, mi) \in Results
            /\ Replace(base.t, h, mi).kind = "ok" =>
                 Replace(base.t, h, mi).t = (base.t \div Day) * Day + h * 60 + mi
        BY <3>2, ReplaceType
      <3> HIDE DEF h, mi
      <3>7. (base.t \div Day) * Day + h * 60 + mi = SpecTime(p, now)
        BY <3>2, <3>3, <3>4, <3>5 DEF Day
      <3> QED
        BY <3>1, <3>6, <3>7, Zenon
    <2> QED
      BY <2>2, <2>3
  <1>4. CASE ~(p.dt # NoMatch /\ IsoOk(p.dt)) /\ p.inx = NoMatch /\ ~p.tomorrow /\ HasTime(p)
    <2> DEFINE W == SpecWall(p)
               dt == Replace(now, WallTime(p).h, WallTime(p).mi)
               Cands == {d * Day + W, (d + 1) * Day + W}
    <2>1. r = IF dt.kind # "ok" \/ dt.t > now THEN dt ELSE Shift(dt.t, Day)
      BY <1>4 DEF ParseNaturalTime, NextOccurrence
    <2>2. dt \in Results /\ (dt.kind = "ok" => dt.t = d * Day + W)
      <3>1. HasTime(p)
        BY <1>4
      <3>2. WallTime(p).h \in Nat /\ WallTime(p).mi \in Nat
        BY <3>1, WallType
      <3>3. WallTime(p).h * 60 + WallTime(p).mi = W
        BY <3>1, WallSpec
      <3>4. /\ dt \in Results
            /\ dt.kind = "ok" => dt.t = (now \div Day) * Day + WallTime(p).h * 60 + WallTime(p).mi
        BY <1>0, <3>2, ReplaceType
      <3> QED
        BY <1>0, <3>2, <3>3, <3>4 DEF Day
    <2>3. SpecTime(p, now) = CHOOSE t \in Cands : t > now /\ \A u \in Cands : u > now => t <= u
      BY <1>4 DEF SpecTime
    <2>4. W \in Nat
      <3>1. HasTime(p)
        BY <1>4
      <3>2. WallTime(p).h \in Nat /\ WallTime(p).mi \in Nat
        BY <3>1, WallType
      <3>3. WallTime(p).h * 60 + WallTime(p).mi = W
        BY <3>1, WallSpec
      <3> QED
        BY <3>2, <3>3
    <2>5. CASE dt.kind # "ok"
      BY <2>1, <2>2, <2>5
    <2>6. CASE dt.kind = "ok" /\ dt.t > now
      <3>1. SpecTime(p, now) = d * Day + W
        BY <1>0, <2>2, <2>3, <2>4, <2>6, ChooseEarliest DEF Day
      <3> QED
        BY <2>1, <2>2, <2>6, <3>1
    <2>7. CASE dt.kind = "ok" /\ ~(dt.t > now)
      <3>1. r = Shift(dt.t, Day)
        BY <2>1, <2>7
      <3>4. dt.t \in 0..MaxMinute
        BY <2>2, <2>7 DEF Results
      <3>5. Shift(dt.t, Day) \in Results /\ (Shift(dt.t, Day).kind = "ok" => Shift(dt.t, Day).t = dt.t + Day)
        BY <3>4, ShiftType DEF Day
      <3>2. r \in Results /\ (r.kind = "ok" => r.t = (d + 1) * Day + W)
        BY <1>0, <2>2, <2>4, <2>7, <3>1, <3>4, <3>5 DEF Day
      <3>3. SpecTime(p, now) = (d + 1) * Day + W
        BY <1>0, <2>2, <2>3, <2>4, <2>7, ChooseEarliest DEF Day
      <3> QED
        BY <3>2, <3>3
    <2> QED
      BY <2>5, <2>6, <2>7
  <1>5. CASE ~(p.dt # NoMatch /\ IsoOk(p.dt)) /\ p.inx = NoMatch /\ ~p.tomorrow /\ ~HasTime(p)
    <2>1. r = NoneResult
      BY <1>5 DEF ParseNaturalTime
    <2> QED
      BY <2>1, MaxMinuteBound DEF NoneResult, Results
  <1> QED
    BY <1>1, <1>2, <1>3, <1>4, <1>5
-----------------------------------------------------------------------------
(* add_event and remove_event keep the events table and the history typed. *)
LEMMA TypeStep == TypeOK /\ [Next]_vars => TypeOK'
  <1> SUFFICES ASSUME TypeOK, [Next]_vars PROVE TypeOK'
    OBVIOUS
  <1>1. CASE AddEvent
    <2>1. PICK p \in Phrases, now \in Nows :
            LET r == ParseNaturalTime(p, now)
            IN  /\ last' = [phrase |-> p, now |-> now, kind |-> r.kind, when |-> r.t]
                /\ IF r.kind = "ok"
                   THEN events' = events \cup {[id |-> nextId, when |-> r.t]}
                        /\ nextId' = nextId + 1
                   ELSE UNCHANGED <<events, nextId>>
      BY <1>1 DEF AddEvent
    <2> DEFINE r == ParseNaturalTime(p, now)
    <2>2. r \in Results
      BY ParseResult
    <2>3. nextId \in 1..MaxEvents
      BY <1>1 DEF AddEvent, TypeOK
    <2>4. r.kind \in {"ok", "none", "ValueError", "OverflowError"} /\ r.t \in 0..MaxMinute
      BY <2>2 DEF Results
    <2>5. last' \in {NoMatch} \cup [phrase : Phrases, now : Nows,
                                    kind : {"ok", "none", "ValueError", "OverflowError"},
                                    when : 0..MaxMinute]
      BY <2>1, <2>4
    <2>6. CASE r.kind = "ok"
      <3>1. events' = events \cup {[id |-> nextId, when |-> r.t]} /\ nextId' = nextId + 1
        BY <2>1, <2>6
      <3>2. [id |-> nextId, when |-> r.t] \in [id : 1..MaxEvents, when : 0..MaxMinute]
        BY <2>3, <2>4
      <3>3. events' \subseteq [id : 1..MaxEvents, when : 0..MaxMinute]
        BY <1>1, <3>1, <3>2 DEF TypeOK
      <3>4. nextId' \in 1..(MaxEvents + 1)
        BY <2>3, <3>1, MaxEventsNat
      <3> QED
        BY <2>5, <3>3, <3>4, Zenon DEF TypeOK
    <2>7. CASE r.kind # "ok"
      <3>1. events' = events /\ nextId' = nextId
        BY <2>1, <2>7
      <3> QED
        BY <1>1, <2>5, <3>1, Zenon DEF TypeOK
    <2> QED
      BY <2>6, <2>7
  <1>2. CASE RemoveEvent
    BY <1>2 DEF RemoveEvent, TypeOK
  <1>3. CASE UNCHANGED vars
    BY <1>3 DEF vars, TypeOK
  <1> QED
    BY <1>1, <1>2, <1>3 DEF Next

(* The events table holds typed rows in every reachable state. *)
THEOREM SchedulerTypeCorrect == Spec => []TypeOK
  <1>1. Init => TypeOK
    BY MaxEventsNat DEF Init, TypeOK
  <1> QED
    BY <1>1, TypeStep, PTL DEF Spec

(***************************************************************************)
(* Whatever phrase add_event is given and whatever datetime.now() reads,   *)
(* the time it stores is the one spec 4.5's ordered rules give: rule       *)
(* precedence, the 12am/12pm conversion, the 09:00 default of "tomorrow"   *)
(* and the roll-over of a time not after now.  TypeOK is the strengthening *)
(* it needs: the last phrase and clock reading are ones the parser takes.  *)
(***************************************************************************)
THEOREM ParseFollowsSpecHolds == Spec => []ParseFollowsSpec
  <1>1. TypeOK /\ ParseFollowsSpec /\ [Next]_vars => ParseFollowsSpec'
    <2> SUFFICES ASSUME TypeOK, ParseFollowsSpec, [Next]_vars PROVE ParseFollowsSpec'
      OBVIOUS
    <2>1. CASE AddEvent
      <3>1. PICK p \in Phrases, now \in Nows :
              last' = [phrase |-> p, now |-> now, kind |-> ParseNaturalTime(p, now).kind,
                       when |-> ParseNaturalTime(p, now).t]
        BY <2>1 DEF AddEvent
      <3> QED
        BY <3>1, ParseResult DEF ParseFollowsSpec, NoMatch
    <2>2. CASE RemoveEvent \/ UNCHANGED vars
      BY <2>2 DEF RemoveEvent, vars, ParseFollowsSpec
    <2> QED
      BY <2>1, <2>2 DEF Next
  <1>2. Init => ParseFollowsSpec
    BY DEF Init, ParseFollowsSpec
  <1> QED
    BY <1>1, <1>2, SchedulerTypeCorrect, PTL DEF Spec
=============================================================================
