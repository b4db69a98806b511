------------------------------ MODULE Scheduler ------------------------------
(***************************************************************************)
(* SchedulingAgent (src/bantu_os/agents/scheduling_agent.py): the events   *)
(* table and parse_natural_time, driven through add_event and             *)
(* remove_event.                                                           *)
(*                                                                         *)
(* A phrase is abstracted to what the regular expressions find in it: the  *)
(* first DATE_TIME match, IN_X match, AMPM match and HHMM match, and       *)
(* whether it contains "tomorrow".  Module import fails on the HHMM       *)
(* pattern as written (Python's re has no lookahead conditional); HHMM is  *)
(* taken as the hour:minute mention the docstring and the split(":") of   *)
(* its match mean.                                                         *)
(*                                                                         *)
(* A datetime is counted in minutes from midnight of day 0.  Every        *)
(* candidate time the parser compares with now has zero seconds, so       *)
(* dt > now holds exactly when dt's minute is after now's minute: now's    *)
(* seconds never change an answer, and add_event stores minutes only       *)
(* (isoformat(timespec="minutes")).                                        *)
(***************************************************************************)
EXTENDS Naturals, Integers, FiniteSets

CONSTANTS
    Nows,          \* the values datetime.now() may have, in minutes
    MaxMinute,     \* datetime.max, in minutes
    Hours,         \* the numbers written before a ':'
    Nums,          \* the numbers written in "in <N> minutes|hours"
    MaxEvents      \* bound on the rows add_event inserts

Day == 1440

(* datetime.max is 23:59 of its day, a day after the dates phrases name (day 1). *)
ASSUME SchedulerAssumption ==
    /\ MaxMinute \in Nat /\ Nows \subseteq 0..MaxMinute
    /\ (MaxMinute + 1) % Day = 0 /\ MaxMinute >= 2 * Day - 1
    /\ Hours \subseteq Nat /\ Nums \subseteq Nat /\ MaxEvents \in Nat
NoMatch == [match |-> FALSE]   \* no match (None)
Mins == {0, 60}

(* DATE_TIME: \d{4}-\d{2}-\d{2}\s+\d{1,2}:\d{2}; day 1 stands for a valid date. *)
DateTimes == [day : {1}, dateOk : BOOLEAN, h : Hours, hd : {1, 2}, mi : Mins]
AmPms == {NoMatch} \cup [hour : {8, 12}, ampm : {"am", "pm"}]
InXs == {NoMatch} \cup [num : Nums, unit : {"minute", "hour"}]

(* A phrase with a date-time match has an HHMM match too: its own time. *)
Phrases ==
    [inx : InXs, tomorrow : BOOLEAN, ampm : AmPms, dt : {NoMatch},
     hhmm : {NoMatch} \cup [h : Hours, mi : Mins]]
    \cup
    { [inx |-> x, tomorrow |-> tm, ampm |-> a, dt |-> d, hhmm |-> [h |-> d.h, mi |-> d.mi]] :
        x \in InXs, tm \in BOOLEAN, a \in AmPms,
        d \in {e \in DateTimes : e.hd = 1 => e.h < 10} }

(* The parser's outcome: a time, None, or the exception it raises. *)
Ok(t) == [kind |-> "ok", t |-> t]
Raise(e) == [kind |-> e, t |-> 0]
NoneResult == [kind |-> "none", t |-> 0]

VARIABLES
    events,    \* the rows of the events table: [id, when]
    nextId,    \* AUTOINCREMENT: the id of the next row
    last       \* history: the last add_event: phrase, now, what the parser did

vars == <<events, nextId, last>>

TypeOK ==
    /\ events \subseteq [id : 1..MaxEvents, when : 0..MaxMinute]
    /\ nextId \in 1..(MaxEvents + 1)
    /\ last \in {NoMatch} \cup [phrase : Phrases, now : Nows,
                                kind : {"ok", "none", "ValueError", "OverflowError"},
                                when : 0..MaxMinute]

-----------------------------------------------------------------------------
(* datetime.fromisoformat: a two-digit hour and valid fields. *)
IsoOk(d) == d.dateOk /\ d.hd = 2 /\ d.h <= 23 /\ d.mi <= 59

(* t + timedelta(minutes=m): OverflowError past datetime.max. *)
Shift(t, m) == IF t + m > MaxMinute THEN Raise("OverflowError") ELSE Ok(t + m)

(* t.replace(hour=h, minute=mi): ValueError outside 0..23 and 0..59. *)
Replace(t, h, mi) ==
    IF h > 23 \/ mi > 59 THEN Raise("ValueError") ELSE Ok((t \div Day) * Day + h * 60 + mi)

(* Mutant: 12am read as hour 12. *)
ApplyAmPmNoMidnight(hour, ampm) ==
    IF ampm = "am" THEN hour ELSE IF hour = 12 THEN hour ELSE hour + 12

(* _apply_ampm: 12am is 0, 12pm is 12, other pm hours add 12. *)
ApplyAmPm(hour, ampm) ==
    IF ampm = "am" THEN (IF hour = 12 THEN 0 ELSE hour)
    ELSE (IF hour = 12 THEN hour ELSE hour + 12)

HasTime(p) == p.ampm # NoMatch \/ p.hhmm # NoMatch

(* The AMPM match is tried before the HHMM match; am/pm times are on the hour. *)
WallTime(p) ==
    IF p.ampm # NoMatch THEN [h |-> ApplyAmPm(p.ampm.hour, p.ampm.ampm), mi |-> 0]
    ELSE [h |-> p.hhmm.h, mi |-> p.hhmm.mi]

(* Mutant: a time not after now moved a day back, timedelta's sign flipped. *)
NextOccurrenceBack(now, p) ==
    LET dt == Replace(now, WallTime(p).h, WallTime(p).mi)
    IN  IF dt.kind # "ok" \/ dt.t > now THEN dt ELSE Ok(dt.t - Day)

(* Mutant: dt >= now, a time equal to now kept. *)
NextOccurrenceGe(now, p) ==
    LET dt == Replace(now, WallTime(p).h, WallTime(p).mi)
    IN  IF dt.kind # "ok" \/ dt.t >= now THEN dt ELSE Shift(dt.t, Day)

(* today's occurrence of the mentioned time, or tomorrow's if not after now *)
NextOccurrence(now, p) ==
    LET dt == Replace(now, WallTime(p).h, WallTime(p).mi)
    IN  IF dt.kind # "ok" \/ dt.t > now THEN dt ELSE Shift(dt.t, Day)

(***************************************************************************)
(* parse_natural_time: the first rule that applies wins.  The "today" /   *)
(* "at" rule and the bare-time fallback compute the same time from the    *)
(* same matches, so whether the phrase says "today" or "at" is left out.  *)
(***************************************************************************)
ParseNaturalTime(p, now) ==
    IF p.dt # NoMatch /\ IsoOk(p.dt) THEN Ok(p.dt.day * Day + p.dt.h * 60 + p.dt.mi)
    ELSE IF p.inx # NoMatch
    THEN Shift(now, IF p.inx.unit = "minute" THEN p.inx.num ELSE p.inx.num * 60)
    ELSE IF p.tomorrow
    THEN LET base == Shift(now, Day)
         IN  IF base.kind # "ok" THEN base
             ELSE IF HasTime(p) THEN Replace(base.t, WallTime(p).h, WallTime(p).mi)
             ELSE Replace(base.t, 9, 0)
    ELSE IF HasTime(p) THEN NextOccurrence(now, p)
    ELSE NoneResult

-----------------------------------------------------------------------------
(* _ensure_db: an empty events table. *)
Init ==
    /\ events = {}
    /\ nextId = 1
    /\ last = NoMatch

(***************************************************************************)
(* add_event(title, when_str): parse; None raises ValueError and so does  *)
(* an exception of the parser; otherwise one row is inserted with the next *)
(* AUTOINCREMENT id.                                                       *)
(***************************************************************************)
AddEvent ==
    /\ nextId <= MaxEvents
    /\ \E p \in Phrases, now \in Nows :
         LET r == ParseNaturalTime(p, now)
         IN  /\ last' = [phrase |-> p, now |-> now, kind |-> r.kind, when |-> r.t]
             /\ IF r.kind = "ok"
                THEN events' = events \cup {[id |-> nextId, when |-> r.t]}
                     /\ nextId' = nextId + 1
                ELSE UNCHANGED <<events, nextId>>

(* remove_event(event_id): DELETE by id; AUTOINCREMENT never reuses it. *)
RemoveEvent ==
    /\ \E id \in 1..MaxEvents :
         events' = {e \in events : e.id # id}
    /\ UNCHANGED <<nextId, last>>

Next == AddEvent \/ RemoveEvent

Spec == Init /\ [][Next]_vars

-----------------------------------------------------------------------------
(***************************************************************************)
(* Spec 4.5, read independently: a valid absolute YYYY-MM-DD HH:MM is      *)
(* that instant whatever now is; "in N minutes|hours" is now plus N; a     *)
(* "tomorrow" phrase is tomorrow's date at the mentioned time (12-hour     *)
(* clock: h mod 12, plus 12 for pm), 09:00 by default; any other mentioned *)
(* time is its earliest occurrence strictly after now.                     *)
(***************************************************************************)
SpecWall(p) ==
    IF p.ampm # NoMatch
    THEN (p.ampm.hour % 12) * 60 + (IF p.ampm.ampm = "pm" THEN 720 ELSE 0)
    ELSE p.hhmm.h * 60 + p.hhmm.mi

SpecTime(p, now) ==
    LET d == now \div Day
    IN  IF p.dt # NoMatch /\ IsoOk(p.dt) THEN p.dt.day * Day + p.dt.h * 60 + p.dt.mi
        ELSE IF p.inx # NoMatch
        THEN now + p.inx.num * (IF p.inx.unit = "hour" THEN 60 ELSE 1)
        ELSE IF p.tomorrow
        THEN (d + 1) * Day + (IF HasTime(p) THEN SpecWall(p) ELSE 9 * 60)
        ELSE CHOOSE t \in {d * Day + SpecWall(p), (d + 1) * Day + SpecWall(p)} :
                 /\ t > now
                 /\ \A u \in {d * Day + SpecWall(p), (d + 1) * Day + SpecWall(p)} :
                        u > now => t <= u

(***************************************************************************)
(* Every event add_event stored is at the time spec 4.5's ordered rules    *)
(* give its phrase: rule precedence, the 12am/12pm conversion, the         *)
(* tomorrow default and the roll-over of a time not strictly after now.    *)
(***************************************************************************)
ParseFollowsSpec ==
    last # NoMatch /\ last.kind = "ok" => last.when = SpecTime(last.phrase, last.now)

(***************************************************************************)
(* Spec 4.5's contract: parse returns a timestamp or none, so that the     *)
(* caller reports "Could not parse".  replace() and timedelta arithmetic   *)
(* raise instead for an hour past 23 or a date past datetime.max.          *)
(***************************************************************************)
ParseTotal == last # NoMatch => last.kind \in {"ok", "none"}
=============================================================================
