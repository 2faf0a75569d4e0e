-------------------------------- MODULE Recur --------------------------------
(***************************************************************************)
(* Repeating schedules (src/recur): the rule and its expansion into        *)
(* periods, the walk over them, the three questions asked of a schedule    *)
(* and its wire form.                                                      *)
(*                                                                         *)
(* Instants are integers.  A day has 96 of them: 48 readings of the clock, *)
(* half an hour apart, which stand for whole seconds, and an instant after *)
(* each, which stands for the fraction of a second that at() drops.  Dates *)
(* are the real calendar's.                                                *)
(***************************************************************************)
EXTENDS Integers, Sequences, SequencesExt, FiniteSets

CONSTANTS
    Wires,      \* wire forms that arrive
    Moments,    \* instants that questions are about
    MaxEmpty,   \* maxEmptyPeriods
    Horizon,    \* bound: the days the reference looks at
    Nil,        \* the zero time, a nil rule or zone
    Invalid     \* an error

\* A zone: the instants of its changes, in order, and its offsets before, between
\* and after them, whole seconds all of them.
Zones ==
    LET Whole == {x \in Int : x % 2 = 0}
    IN  {z \in [at : Seq(Whole), offset : Seq(Whole)] : Len(z.offset) = Len(z.at) + 1}

ASSUME RecurAssumption ==
    /\ MaxEmpty \in Nat \ {0}
    /\ Horizon \subseteq Int
    /\ Nil \notin Int /\ Invalid \notin Int \cup {Nil}
    /\ \A w \in Wires :
        /\ w.start \in Int \cup {Invalid}
        /\ w.end \in Int \cup {Nil, Invalid}
        /\ w.zone \in Zones \cup {Nil, Invalid}
        /\ \A i \in DOMAIN w.rule :
            w.rule[i].key = "INTERVAL" => w.rule[i].value \in Int \cup {Invalid}

VARIABLES
    schedule,   \* the schedule in hand, or Nil
    walk,       \* the walk under way, or Nil
    answer,     \* the last question and its answer, or Nil
    occurs      \* history: the occurrences the reference gives the schedule

recurVars == <<schedule, walk, answer, occurs>>
-----------------------------------------------------------------------------
(* Package time. *)

Tick == 96
Floor(t) == t - (t % 2)

Date(y, m, d) == [y |-> y, m |-> m, d |-> d]

IsLeap(y) == y % 4 = 0 /\ (y % 100 # 0 \/ y % 400 = 0)

daysIn(y, m) ==
    CASE m = 2 -> IF IsLeap(y) THEN 29 ELSE 28
      [] m \in {4, 6, 9, 11} -> 30
      [] OTHER -> 31

\* Days since 1 March 2000.
DayNo(c) ==
    LET mo == (c.m + 9) % 12
        yr == c.y - (IF c.m <= 2 THEN 1 ELSE 0) - 2000
    IN  yr * 365 + yr \div 4 - yr \div 100 + yr \div 400 + (153 * mo + 2) \div 5 + c.d - 1

CivilOf(n) ==
    LET yr == (n - n \div 1460 + n \div 36524 - n \div 146096) \div 365
        rest == n - (365 * yr + yr \div 4 - yr \div 100 + yr \div 400)
        mo == (5 * rest + 2) \div 153
        m == ((mo + 2) % 12) + 1
    IN  Date(2000 + yr + (IF m <= 2 THEN 1 ELSE 0), m, rest - (153 * mo + 2) \div 5 + 1)

\* Sunday is 0; 1 March 2000 was a Wednesday.
WeekdayOf(n) == (n + 3) % 7

\* How many of a zone's changes are past.
Changes(z, t) == Cardinality({i \in DOMAIN z.at : z.at[i] <= t})

Offset(z, t) == z.offset[Changes(z, t) + 1]

\* t.In(zone), as the day and the clock reading.
LocalDay(z, t) == (t + Offset(z, t)) \div Tick
LocalClock(z, t) == (t + Offset(z, t)) % Tick

\* time.Date: the offset is looked up as if the reading were an instant, and
\* again where the instant it gives lies on the other side of a change.
DateIn(z, n, clock) ==
    LET reading == n * Tick + clock
        guess == reading - Offset(z, reading)
    IN  IF Changes(z, guess) = Changes(z, reading) THEN guess
        ELSE reading - Offset(z, guess)
-----------------------------------------------------------------------------
(* Rules: rule.go. *)

\* A set of numbers in ascending order.
Sorted(S) ==
    [i \in 1..Cardinality(S) |-> CHOOSE x \in S : Cardinality({y \in S : y < x}) = i - 1]

Freqs == {"DAILY", "WEEKLY", "MONTHLY", "YEARLY"}
LastNth == -1

ValidRule(r) ==
    /\ r.freq \in Freqs
    /\ r.interval >= 1
    /\ \A w \in r.byDay :
        /\ w.nth \in {0, LastNth} \cup 1..4
        /\ w.nth # 0 => r.freq \in {"MONTHLY", "YEARLY"}
    /\ \A d \in r.byMonthDay : d # 0 /\ d \in -31..31
    /\ r.byMonth \subseteq 1..12
    /\ r.freq = "YEARLY" /\ r.byMonth = {} => r.byDay = {} /\ r.byMonthDay = {}

\* A rule as text is a sequence of parts, each a key and a value that was
\* read, or Invalid where it did not read.
RuleKeys == {"FREQ", "INTERVAL", "BYDAY", "BYMONTHDAY", "BYMONTH"}

Given(parts, key, default) ==
    IF \E i \in DOMAIN parts : parts[i].key = key
    THEN parts[CHOOSE i \in DOMAIN parts : parts[i].key = key].value ELSE default

ParseRule(parts) ==
    LET Known(p) == p.key \in RuleKeys \/ (p.key = "WKST" /\ p.value = "MO")
        r == [freq |-> Given(parts, "FREQ", Nil),
              interval |-> Given(parts, "INTERVAL", 1),
              byDay |-> Given(parts, "BYDAY", {}),
              byMonthDay |-> Given(parts, "BYMONTHDAY", {}),
              byMonth |-> Given(parts, "BYMONTH", {})]
    IN  IF /\ \A i \in DOMAIN parts : Known(parts[i]) /\ parts[i].value # Invalid
           /\ \A i, j \in DOMAIN parts : parts[i].key = parts[j].key => i = j
           /\ ValidRule(r)
        THEN r ELSE Invalid

\* Mutant: an interval of two is taken for the default.
RuleStringShort(r) ==
    <<[key |-> "FREQ", value |-> r.freq]>>
    \o IF r.interval > 2 THEN <<[key |-> "INTERVAL", value |-> r.interval]>> ELSE <<>>

RuleString(r) ==
    LET Part(k, v, given) == IF given THEN <<[key |-> k, value |-> v]>> ELSE <<>>
    IN  Part("FREQ", r.freq, TRUE)
        \o Part("INTERVAL", r.interval, r.interval > 1)
        \o Part("BYDAY", r.byDay, r.byDay # {})
        \o Part("BYMONTHDAY", r.byMonthDay, r.byMonthDay # {})
        \o Part("BYMONTH", r.byMonth, r.byMonth # {})

\* The days of a month that fall on a weekday, or on one at its position.
NthDays(y, m, w) ==
    LET days == {d \in 1..daysIn(y, m) : WeekdayOf(DayNo(Date(y, m, d))) = w.day}
        ordered == Sorted(days)
    IN  CASE w.nth = 0 -> days
          [] w.nth = LastNth -> {Last(ordered)}
          [] w.nth \in DOMAIN ordered -> {ordered[w.nth]}
          [] OTHER -> {}

\* Mutant: a day counted from the month's end is one too early.
daysInMonthEarly(r, y, m, fallback) ==
    IF r.byMonthDay = {} THEN {fallback} \cap 1..daysIn(y, m)
    ELSE {IF d < 0 THEN daysIn(y, m) + d ELSE d : d \in r.byMonthDay} \cap 1..daysIn(y, m)

daysInMonth(r, y, m, fallback) ==
    LET n == daysIn(y, m)
        md == {IF d < 0 THEN n + 1 + d ELSE d : d \in r.byMonthDay} \cap 1..n
        wd == UNION {NthDays(y, m, w) : w \in r.byDay}
    IN  CASE r.byMonthDay # {} /\ r.byDay # {} -> md \cap wd
          [] r.byMonthDay # {} -> md
          [] r.byDay # {} -> wd
          [] OTHER -> {fallback} \cap 1..n

monthAllowed(r, m) == r.byMonth = {} \/ m \in r.byMonth

dayAllowed(r, c) ==
    /\ monthAllowed(r, c.m)
    /\ r.byMonthDay # {} \/ r.byDay # {} => c.d \in daysInMonth(r, c.y, c.m, 0)

mondayOffset(w) == (w + 6) % 7
MondayOf(n) == n - mondayOffset(WeekdayOf(n))

\* The dates of the k-th period, as a set of day numbers.
PeriodDays(r, first, k) ==
    LET n == DayNo(first)
    IN  CASE r.freq = "DAILY" ->
                {x \in {n + k * r.interval} : dayAllowed(r, CivilOf(x))}
          [] r.freq = "WEEKLY" ->
                LET days == IF r.byDay = {} THEN {WeekdayOf(n)} ELSE {w.day : w \in r.byDay}
                    monday == MondayOf(n) + 7 * k * r.interval
                IN  {x \in {monday + mondayOffset(wd) : wd \in days} :
                        monthAllowed(r, CivilOf(x).m)}
          [] r.freq = "MONTHLY" ->
                LET month == first.m - 1 + k * r.interval
                    y == first.y + month \div 12
                    m == (month % 12) + 1
                IN  {DayNo(Date(y, m, d)) :
                        d \in IF monthAllowed(r, m)
                              THEN daysInMonth(r, y, m, first.d) ELSE {}}
          [] r.freq = "YEARLY" ->
                LET y == first.y + k * r.interval
                    months == IF r.byMonth = {} THEN {first.m} ELSE r.byMonth
                IN  UNION {{DayNo(Date(y, m, d)) : d \in daysInMonth(r, y, m, first.d)} :
                            m \in months}

\* sort.Slice and dedupe
period(r, first, k) == Sorted(PeriodDays(r, first, k))

\* How many whole periods of one interval lie between two dates.
PeriodsApart(r, first, at) ==
    CASE r.freq = "DAILY" -> DayNo(at) - DayNo(first)
      [] r.freq = "WEEKLY" -> (MondayOf(DayNo(at)) - MondayOf(DayNo(first))) \div 7
      [] r.freq = "MONTHLY" -> (at.y - first.y) * 12 + at.m - first.m
      [] r.freq = "YEARLY" -> at.y - first.y

periodsBetween(r, first, at) ==
    LET n == PeriodsApart(r, first, at) IN IF n < 0 THEN 0 ELSE n \div r.interval
-----------------------------------------------------------------------------
(* Schedules: schedule.go. *)

IsCalendarDate(d) == d # Invalid /\ d.m \in 1..12 /\ d.d \in 1..daysIn(d.y, d.m)

ValidSchedule(s) ==
    /\ s.zone # Nil
    /\ (s.rule = Nil) # (s.dates = <<>>)
    /\ s.openDays >= 0
    /\ s.end # Nil => s.end >= s.start
    /\ s.rule # Nil => ValidRule(s.rule)
    /\ \A i \in DOMAIN s.dates : IsCalendarDate(s.dates[i])

\* The start's time of day on a date, to the second.
at(s, n) == DateIn(s.zone, n, Floor(LocalClock(s.zone, s.start)))

FirstDate(s) == CivilOf(LocalDay(s.zone, s.start))
DateOf(t) == CivilOf(LocalDay(schedule.zone, t))

inRange(s, t) == t >= s.start /\ (s.end # Nil => t <= s.end)

-----------------------------------------------------------------------------
(* The wire form: wire.go.  RFC 3339 is written to the second and read with
   the fraction there is.  The text of no rule has no part. *)

Schedule(w) ==
    LET rule == IF w.rule = <<>> THEN Nil ELSE ParseRule(w.rule)
        s == [start |-> w.start, end |-> w.end, zone |-> w.zone, rule |-> rule,
              dates |-> w.dates, openDays |-> w.openDays]
    IN  IF \/ w.start = Invalid \/ w.end = Invalid \/ w.zone = Invalid \/ rule = Invalid
           \/ \E i \in DOMAIN w.dates : w.dates[i] = Invalid
           \/ w.dates # <<>> /\ w.end = Nil
        THEN Invalid
        ELSE IF ValidSchedule(s) THEN s ELSE Invalid

WireOf(s) ==
    [start |-> Floor(s.start), end |-> IF s.end = Nil THEN Nil ELSE Floor(s.end),
     zone |-> s.zone, rule |-> IF s.rule = Nil THEN <<>> ELSE RuleString(s.rule),
     dates |-> s.dates, openDays |-> s.openDays]
-----------------------------------------------------------------------------
(* The reference: which days a rule describes, as RFC 5545 says it of a day. *)

NumberedDay(r, c) ==
    c.d \in r.byMonthDay \/ c.d - daysIn(c.y, c.m) - 1 \in r.byMonthDay

NamedDay(r, c) ==
    \E w \in r.byDay :
        /\ w.day = WeekdayOf(DayNo(c))
        /\ \/ w.nth \in {0, (c.d - 1) \div 7 + 1}
           \/ w.nth = LastNth /\ c.d + 7 > daysIn(c.y, c.m)

Describes(r, first, c) ==
    /\ PeriodsApart(r, first, c) >= 0 /\ PeriodsApart(r, first, c) % r.interval = 0
    /\ r.byMonth # {} => c.m \in r.byMonth
    /\ r.freq = "YEARLY" /\ r.byMonth = {} => c.m = first.m
    /\ r.byDay # {} => NamedDay(r, c)
    /\ r.byMonthDay # {} /\ r.freq # "WEEKLY" => NumberedDay(r, c)
    /\ r.freq = "WEEKLY" /\ r.byDay = {} => WeekdayOf(DayNo(c)) = WeekdayOf(DayNo(first))
    /\ r.freq \in {"MONTHLY", "YEARLY"} /\ r.byDay = {} /\ r.byMonthDay = {} => c.d = first.d

Occurrences(s) ==
    LET days == {n \in Horizon :
            IF s.rule = Nil THEN \E i \in DOMAIN s.dates : DayNo(s.dates[i]) = n
            ELSE Describes(s.rule, FirstDate(s), CivilOf(n))}
    IN  {t \in {at(s, n) : n \in days} : inRange(s, t)}
-----------------------------------------------------------------------------
(* A consumer reads a schedule, asks questions of it, and stores and rereads it. *)

RecurInit == schedule = Nil /\ walk = Nil /\ answer = Nil /\ occurs = {}

ReadSchedule(w) ==
    /\ schedule = Nil
    /\ Schedule(w) # Invalid
    /\ schedule' = Schedule(w)
    /\ occurs' = Occurrences(schedule')
    /\ UNCHANGED <<walk, answer>>

WriteBack ==
    /\ schedule # Nil /\ walk = Nil
    /\ schedule' = Schedule(WireOf(schedule))
    /\ occurs' = Occurrences(schedule')
    /\ answer' = Nil
    /\ UNCHANGED walk

\* Mutant: the walk starts at the period its date is in.
FirstPeriodOwn(from) ==
    IF schedule.rule # Nil /\ from > schedule.start
    THEN periodsBetween(schedule.rule, FirstDate(schedule), DateOf(from)) ELSE 0

\* A walk that starts later than the schedule goes to one period before the one
\* its date is in.
FirstPeriod(from) ==
    LET k == IF schedule.rule # Nil /\ from > schedule.start
             THEN periodsBetween(schedule.rule, FirstDate(schedule), DateOf(from)) ELSE 0
    IN  IF k > 0 THEN k - 1 ELSE k

\* The visitor takes the times before stop and ends the walk at the first one
\* from there on.
Ask(kind, from, to, stop) ==
    /\ schedule # Nil /\ walk = Nil
    /\ walk' = [kind |-> kind, from |-> from, to |-> to, stop |-> stop,
                k |-> FirstPeriod(from), empty |-> 0, seen |-> <<>>]
    /\ answer' = Nil
    /\ UNCHANGED <<schedule, occurs>>

AskNext(m) == Ask("next", m, m, m + 1)
AskBetween(a, b) == Ask("between", a, b, b)
AskPeriod(m) == Ask("period", schedule.start, m, m + 1)

\* What of an ascending list of times the visitor is shown.
Due(ts) ==
    SelectSeq(ts, LAMBDA t : inRange(schedule, t) /\ t >= walk.from)

Taken(ts) == SelectSeq(Due(ts), LAMBDA t : t < walk.stop)
Stopping(ts) == SelectSeq(Due(ts), LAMBDA t : t >= walk.stop)

NextAnswer(seen, hit) == hit

BetweenAnswer(seen, hit) == seen

\* Mutant: a period that closes is open for its days though the next one comes.
PeriodAnswerOverlaps(seen, hit) ==
    LET z == schedule.zone
    IN  IF seen = <<>> THEN Nil
        ELSE [start |-> Last(seen),
              end |-> IF schedule.openDays > 0
                      THEN DateIn(z, LocalDay(z, Last(seen)) + schedule.openDays,
                                  LocalClock(z, Last(seen)))
                      ELSE IF hit = Nil THEN schedule.end ELSE hit]

PeriodAnswer(seen, hit) ==
    LET z == schedule.zone
        start == Last(seen)
        end == IF hit = Nil THEN schedule.end ELSE hit
        closes == DateIn(z, LocalDay(z, start) + schedule.openDays, LocalClock(z, start))
    IN  IF seen = <<>> THEN Nil
        ELSE [start |-> start,
              end |-> IF schedule.openDays > 0 /\ (end = Nil \/ closes < end)
                      THEN closes ELSE end]

Reply(seen, hit) ==
    /\ answer' = [kind |-> walk.kind, from |-> walk.from, to |-> walk.to,
                  is |-> CASE walk.kind = "next" -> NextAnswer(seen, hit)
                           [] walk.kind = "between" -> BetweenAnswer(seen, hit)
                           [] walk.kind = "period" -> PeriodAnswer(seen, hit)]
    /\ walk' = Nil
    /\ UNCHANGED <<schedule, occurs>>

FirstOf(ts) == IF ts = <<>> THEN Nil ELSE Head(ts)

WalkDates ==
    /\ walk # Nil /\ schedule.rule = Nil
    /\ LET ts == Sorted({at(schedule, DayNo(schedule.dates[i])) : i \in DOMAIN schedule.dates})
       IN  Reply(Taken(ts), FirstOf(Stopping(ts)))

\* One period.  The walk ends at a date past the end, or when the visitor says.
WalkPeriod ==
    /\ walk # Nil /\ schedule.rule # Nil /\ walk.empty < MaxEmpty
    /\ LET days == period(schedule.rule, FirstDate(schedule), walk.k)
           ts == [i \in DOMAIN days |-> at(schedule, days[i])]
           seen == walk.seen \o Taken(ts)
           ended == schedule.end # Nil /\ \E i \in DOMAIN ts : ts[i] > schedule.end
       IN  IF Stopping(ts) # <<>> \/ ended
           THEN Reply(seen, FirstOf(Stopping(ts)))
           ELSE /\ walk' = [walk EXCEPT !.k = @ + 1, !.seen = seen,
                                !.empty = IF Taken(ts) = <<>> THEN @ + 1 ELSE 0]
                /\ UNCHANGED <<schedule, answer, occurs>>

GiveUp ==
    /\ walk # Nil /\ schedule.rule # Nil /\ walk.empty >= MaxEmpty
    /\ Reply(walk.seen, Nil)

RecurNext ==
    \/ \E w \in Wires : ReadSchedule(w)
    \/ WriteBack
    \/ \E m \in Moments : AskNext(m) \/ AskPeriod(m)
    \/ \E a, b \in Moments : AskBetween(a, b)
    \/ WalkDates \/ WalkPeriod \/ GiveUp

RecurSpec == RecurInit /\ [][RecurNext]_recurVars
-----------------------------------------------------------------------------
Asked(kind) == IF answer = Nil THEN FALSE ELSE answer.kind = kind

Earliest(S) == CHOOSE t \in S : \A u \in S : t <= u
Latest(S) == CHOOSE t \in S : \A u \in S : u <= t

\* The period of the rule an instant's date is in.
IndexOf(t) == periodsBetween(schedule.rule, FirstDate(schedule), DateOf(t))

\* No two occurrences in a row, nor the start and the first, are so far apart
\* that the walk gives up between them.
Dense ==
    schedule.rule # Nil =>
        \A t \in occurs \cup {schedule.start} :
            LET later == {u \in occurs : u > t}
            IN  later # {} => IndexOf(Earliest(later)) - IndexOf(t) < MaxEmpty - 1

\* RecurNext answers the first occurrence strictly after a moment, across months
\* without the day, leap years and clock changes that move an occurrence into
\* the next date; and it answers none only if the next occurrence, if there is
\* one, is MaxEmpty - 1 periods or more past the moment's own.
NextIsFirst ==
    Asked("next") =>
        LET later == {t \in occurs : t > answer.from}
        IN  IF answer.is # Nil
            THEN IF later # {} THEN answer.is = Earliest(later)
                 ELSE LocalDay(schedule.zone, answer.is) \notin Horizon
            ELSE \A t \in later : IndexOf(t) - IndexOf(answer.from) >= MaxEmpty - 1

\* The dates that a zone does not have: its clocks jump over the whole day.
SkippedDates(z) ==
    UNION {LocalDay(z, z.at[i] - 1) + 1 .. LocalDay(z, z.at[i]) - 1 : i \in DOMAIN z.at}

\* Between answers every occurrence from one moment up to another in order, though
\* its walk starts at the period before the first moment, and each once: only the
\* instant that a rule's date the zone skips is moved to, which is its neighbour's
\* as well, is answered for both.
BetweenIsExact ==
    Asked("between") /\ Dense =>
        /\ Range(answer.is) = {t \in occurs : answer.from <= t /\ t < answer.to}
        /\ \A i \in 1..Len(answer.is) - 1 :
            \/ answer.is[i] < answer.is[i + 1]
            \/ /\ answer.is[i] = answer.is[i + 1] /\ schedule.rule # Nil
               /\ answer.is[i] \in {at(schedule, n) : n \in SkippedDates(schedule.zone)}

\* Period answers the occurrence at or before a moment, and as its end the next
\* occurrence, the schedule's end or the close of its open days, whichever
\* comes first; no moment before the first occurrence has a period.
PeriodIsExact ==
    Asked("period") /\ Dense =>
        LET begun == {t \in occurs : t <= answer.to}
            z == schedule.zone
            ends == {t \in occurs : t > answer.to} \cup ({schedule.end} \ {Nil})
                \cup IF schedule.openDays = 0 THEN {}
                     ELSE {DateIn(z, LocalDay(z, Latest(begun)) + schedule.openDays,
                                  LocalClock(z, Latest(begun)))}
        IN  IF begun = {} THEN answer.is = Nil
            ELSE /\ answer.is.start = Latest(begun)
                 /\ IF ends # {} THEN answer.is.end = Earliest(ends)
                    ELSE answer.is.end # Nil => LocalDay(z, answer.is.end) \notin Horizon

\* Storing a schedule in its wire form and reading it back loses no occurrence
\* and brings none but the one at the start itself, which a start with a
\* fraction of a second does not have.
WireKeepsOccurrences ==
    [][schedule # Nil =>
        /\ occurs \subseteq occurs'
        /\ occurs' \ occurs \subseteq {Floor(schedule.start)}]_recurVars
=============================================================================
