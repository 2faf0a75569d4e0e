------------------------------- MODULE MCRecur -------------------------------
(* Schedules from early 2024 to 2028, two leap years, in zones that do and do not
   change their clocks. *)
EXTENDS Recur

RulePart(k, v) == [key |-> k, value |-> v]
On(day, nth) == [day |-> day, nth |-> nth]

\* Instants: a date and a clock reading in quarters of an hour, UTC.
Utc(y, m, d, clock) == DayNo(Date(y, m, d)) * Tick + clock

\* Spring forward on 31 March 2024: Lisbon's as it was in the 1960s, from 23:00
\* to 24:00, where time.Date moves 23:30 into the next date, and Asuncion's from
\* 0:00 to 1:00, where it moves 0:30 into the date before.  Lisbon's clocks go back
\* on 26 October from 24:00, so 23:30 comes twice.  Apia's go from the end of 30
\* March to the start of 1 April, as they did from 29 to 31 December 2011: a
\* reading of the date between them is moved to a neighbour.
Zone(changes, offsets) == [at |-> changes, offset |-> offsets]
Fixed == Zone(<<>>, <<12>>)
Lisbon == Zone(<<Utc(2024, 3, 31, 92), Utc(2024, 10, 26, 92)>>, <<0, 4, 0>>)
Asuncion == Zone(<<Utc(2024, 3, 31, 16)>>, <<-16, -12>>)
Apia == Zone(<<Utc(2024, 3, 31, 40)>>, <<-40, 56>>)

Rules == {
    <<RulePart("FREQ", "DAILY"), RulePart("INTERVAL", 3)>>,
    <<RulePart("FREQ", "DAILY"), RulePart("BYDAY", {On(0, 0), On(6, 0)}), RulePart("BYMONTH", {3, 4})>>,
    <<RulePart("FREQ", "WEEKLY"), RulePart("INTERVAL", 2), RulePart("BYDAY", {On(0, 0), On(1, 0), On(3, 0)})>>,
    <<RulePart("FREQ", "WEEKLY"), RulePart("WKST", "MO")>>,
    <<RulePart("FREQ", "MONTHLY")>>,
    <<RulePart("FREQ", "MONTHLY"), RulePart("INTERVAL", 2), RulePart("BYMONTHDAY", {31, -1, -30})>>,
    <<RulePart("FREQ", "MONTHLY"), RulePart("BYDAY", {On(5, LastNth), On(2, 1)})>>,
    <<RulePart("FREQ", "MONTHLY"), RulePart("BYDAY", {On(5, 0)}), RulePart("BYMONTHDAY", {13})>>,
    <<RulePart("FREQ", "YEARLY")>>,
    <<RulePart("FREQ", "YEARLY"), RulePart("BYMONTH", {2, 12}), RulePart("BYDAY", {On(4, 4)})>>,
    <<RulePart("FREQ", "YEARLY"), RulePart("BYMONTH", {2}), RulePart("BYMONTHDAY", {30})>> }

Wire(start, end, zone, rule, dates, open) ==
    [start |-> start, end |-> end, zone |-> zone, rule |-> rule, dates |-> dates, openDays |-> open]

MCWires ==
    {Wire(c[1], c[2], c[3], r, <<>>, c[4]) : r \in Rules, c \in {
        <<Utc(2024, 1, 31, 37), Nil, Fixed, 0>>,
        <<Utc(2024, 2, 29, 94), Nil, Lisbon, 4>>,
        <<Utc(2024, 2, 29, 94), Utc(2024, 4, 29, 93), Lisbon, 0>>,
        <<Utc(2024, 1, 31, 19), Utc(2025, 1, 31, 17), Asuncion, 40>>,
        <<Utc(2024, 1, 31, 76), Utc(2024, 6, 30, 20), Apia, 3>>,
        <<Utc(2024, 1, 31, 20), Nil, Apia, 0>>}}
    \cup {Wire(Utc(2024, 3, 1, 18), e, Asuncion, <<>>,
               <<Date(2024, 5, 31), Date(2024, 3, 31), Date(2024, 2, 1), Date(2024, 3, 31)>>, 0) :
            e \in {Nil, Utc(2024, 5, 31, 18)}}

MCMoments ==
    {Utc(2024, 2, 29, 94), Utc(2024, 3, 31, 14), Utc(2024, 3, 31, 93), Utc(2025, 2, 28, 0)}

MCHorizon == DayNo(Date(2024, 1, 1))..DayNo(Date(2028, 12, 31))
=============================================================================
