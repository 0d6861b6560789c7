-------------------------------- MODULE Charts --------------------------------
(* A chart of a token's price: the dates of its points are made first, from    *)
(* the start of the period on, and the price of each is then looked up, one    *)
(* after the other. Time is counted in ticks, some to the hour; the calendar   *)
(* has days of some hours and months of different lengths.                     *)
EXTENDS Integers, FiniteSets, Sequences

CONSTANTS
  TicksPerHour, HoursPerDay,
  MonthStarts,   \* the first days of the months, counted from day 0; the last
                 \* entry ends the calendar
  YearMonths,    \* months in a year
  Nows,          \* moments at which charts are asked for
  MaxSnapshots,  \* bound: snapshots of the user's assets in all
  Recorded,      \* sets of moments: what was recorded before
  NoPrice

Day == TicksPerHour * HoursPerDay

(* No month is longer than the next two. The charts are asked for within the   *)
(* calendar, when it has gone on for a year, and what was recorded is past.    *)
ChartAssumption ==
  /\ TicksPerHour \in Nat \ {0} /\ HoursPerDay \in Nat \ {0}
  /\ YearMonths \in Nat \ {0}
  /\ MonthStarts \in Seq(Nat) /\ Len(MonthStarts) > 1 /\ MonthStarts[1] = 0
  /\ \A i, j \in DOMAIN MonthStarts : i < j => MonthStarts[i] < MonthStarts[j]
  /\ \A i \in 1..(Len(MonthStarts) - 3) :
       MonthStarts[i + 1] - MonthStarts[i] <= MonthStarts[i + 3] - MonthStarts[i + 1]
  /\ Nows \subseteq Nat
  /\ \A t \in Nows :
       /\ t >= 7 * Day /\ t + 1 < MonthStarts[Len(MonthStarts)] * Day
       /\ \E i \in DOMAIN MonthStarts :
            i > YearMonths /\ i > 3 /\ MonthStarts[i] * Day <= t
  /\ \A moments \in Recorded : moments \subseteq Nat /\ \A t \in moments, u \in Nows : t <= u
ASSUME ChartAssumption

VARIABLES
  now,        \* the clock, at which the chart is asked for
  snapshots,  \* external: the moments at which the user's assets were recorded
  chart       \* the request

chartVars == <<now, snapshots, chart>>

Routes == {"token", "user"}
ChartModes == {"ytd", "year", "threeMonth", "month", "week", "day", "all"}

-------------------------------------------------------------------------------
(* The calendar: the month of a moment, and a date in a month. A day past the  *)
(* end of its month is a day of the next.                                      *)
MonthOf(t) == CHOOSE i \in 1..(Len(MonthStarts) - 1) :
                MonthStarts[i] <= t \div Day /\ t \div Day < MonthStarts[i + 1]
InMonth(m, t) == MonthStarts[m] * Day + (t - MonthStarts[MonthOf(t)] * Day)

FloorHour(t) == (t \div TicksPerHour) * TicksPerHour

Step(splitter, t) ==
  CASE splitter = "hour" -> t + TicksPerHour
    [] splitter = "day" -> t + Day
    [] OTHER -> InMonth(MonthOf(t) + 1, t)

Ago(years, months, days) ==
  InMonth(MonthOf(now) - years * YearMonths - months, now) - days * Day
FirstDayOfYear == MonthStarts[((MonthOf(now) - 1) \div YearMonths) * YearMonths + 1] * Day

StartOf(mode) ==
  CASE mode = "ytd" -> FirstDayOfYear
    [] mode = "year" -> Ago(1, 0, 0)
    [] mode = "threeMonth" -> Ago(0, 3, 0)
    [] mode = "month" -> Ago(0, 1, 0)
    [] mode = "week" -> Ago(0, 0, 7)
    [] mode = "day" -> Ago(0, 0, 1)
SplitterOf(mode) ==
  CASE mode \in {"ytd", "year"} -> "month"
    [] mode \in {"threeMonth", "month", "week"} -> "day"
    [] mode = "day" -> "hour"

-------------------------------------------------------------------------------
(* A request, of the route of the token's price or of the user's average one.  *)
(* The two ends of the period read the clock one after the other.              *)
ChartInit ==
  /\ now \in Nows /\ snapshots \in Recorded
  /\ \E route \in Routes, mode \in ChartModes, coingecko, known \in BOOLEAN, late \in 0..1 :
       /\ coingecko \/ ~known => route = "token"
       /\ chart = [route |-> route, mode |-> mode, coingecko |-> coingecko,
                   known |-> known, at |-> "begin", splitter |-> NoPrice, start |-> NoPrice,
                   end |-> now + late, dates |-> <<>>, points |-> <<>>]

Earliest(moments) == CHOOSE t \in moments : \A u \in moments : t <= u
Latest(moments) == CHOOSE t \in moments : \A u \in moments : u <= t

To(next) == chart' = next /\ UNCHANGED <<now, snapshots>>
Begin(start, splitter) ==
  To([chart EXCEPT !.at = IF chart.coingecko THEN "coingecko" ELSE "dates",
        !.start = start, !.splitter = splitter, !.dates = <<start>>])
Period == Begin(StartOf(chart.mode), SplitterOf(chart.mode))
Total(splitter) == IF snapshots = {} THEN To([chart EXCEPT !.at = "notFound"])
                   ELSE Begin(Earliest(snapshots), splitter)

Begins(route, whole) ==
  chart.at = "begin" /\ chart.route = route /\ (chart.mode = "all" <=> whole)
FormTokenChart == Begins("token", FALSE) /\ Period
FormTokenChartForTotalUserInterval == Begins("token", TRUE) /\ Total("month")
FormTokenAvgChartForUser == Begins("user", FALSE) /\ Period
FormTokenAvgChartForTotalUserInterval == Begins("user", TRUE) /\ Total("day")

(* Coingecko has dates of its own, or none, and the dates are made after all.  *)
(* A coin that is not in the database fails the request.                       *)
AskCoingecko ==
  /\ chart.at = "coingecko"
  /\ IF ~chart.known THEN To([chart EXCEPT !.at = "failed"])
     ELSE \/ To([chart EXCEPT !.at = "external"])
          \/ To([chart EXCEPT !.at = "dates"])

(* A mutant of Closed: the end, too, is put on the hour.                       *)
ClosedOnTheHour(dates) == Append(dates, FloorHour(chart.end))
Closed(dates) == Append(dates, chart.end)

(* One date after the other, on the hour from the second on, while they do not *)
(* go past the end. It is the date before rounding that is compared.           *)
NextDate == Step(chart.splitter, chart.dates[Len(chart.dates)])
Extend ==
  /\ chart.at = "dates" /\ NextDate <= chart.end
  /\ To([chart EXCEPT !.dates = Append(@, FloorHour(NextDate))])
Close ==
  /\ chart.at = "dates" /\ NextDate > chart.end
  /\ To([chart EXCEPT !.dates = Closed(@), !.at = "prices"])

(* The price of a date: that of its block, or the user's own average in the    *)
(* last snapshot before it, nothing when there is none.                        *)
Upto(date) == {t \in snapshots : t <= date}
Asked == chart.dates[Len(chart.points) + 1]
Point(price) ==
  To([chart EXCEPT !.points = Append(@, price),
        !.at = IF Len(chart.points) + 1 = Len(chart.dates) THEN "answered" ELSE "prices"])
AttachPrice == chart.at = "prices" /\ chart.route = "token" /\ Point(Asked)
AttachAsset ==
  /\ chart.at = "prices" /\ chart.route = "user"
  /\ Point(IF Upto(Asked) = {} THEN NoPrice ELSE Latest(Upto(Asked)))

(* ms-balances records the user's assets meanwhile.                            *)
Record(t) ==
  /\ chart.at = "prices" /\ chart.route = "user" /\ t >= now
  /\ Cardinality(snapshots) < MaxSnapshots
  /\ snapshots' = snapshots \union {t} /\ UNCHANGED <<now, chart>>

ChartNext ==
  \/ FormTokenChart \/ FormTokenChartForTotalUserInterval
  \/ FormTokenAvgChartForUser \/ FormTokenAvgChartForTotalUserInterval
  \/ AskCoingecko \/ Extend \/ Close \/ AttachPrice \/ AttachAsset
  \/ \E t \in now..(now + 1) : Record(t)

ChartSpec == ChartInit /\ [][ChartNext]_chartVars

-------------------------------------------------------------------------------
(* Properties.                                                                 *)

MonthLength(m) == MonthStarts[m + 1] - MonthStarts[m]
DayInMonth(t) == t \div Day - MonthStarts[MonthOf(t)]
(* From one point to the next there is at most a step; a month is passed over  *)
(* when it has no day of that number.                                          *)
NoGap(splitter, t, u) ==
  CASE splitter = "hour" -> u - t <= TicksPerHour
    [] splitter = "day" -> u - t <= Day
    [] OTHER -> \/ MonthOf(u) <= MonthOf(t) + 1
                \/ /\ MonthOf(u) = MonthOf(t) + 2
                   /\ DayInMonth(t) >= MonthLength(MonthOf(t) + 1)

(* A chart goes from the start of its period to its end, forwards, on the hour *)
(* in between, and leaves no stretch out; the last two points may be one, when *)
(* a step ends where the period does. Each has the price of its own date,      *)
(* whatever is recorded while the prices are looked up.                        *)
ChartCoversItsPeriod ==
  chart.at = "answered" =>
    LET d == chart.dates
        n == Len(d)
    IN
    /\ n >= 2 /\ d[1] = chart.start /\ d[n] = chart.end
    /\ \A i \in 1..(n - 1) :
         /\ d[i] < d[i + 1] \/ (i = n - 1 /\ d[i] = d[i + 1])
         /\ NoGap(chart.splitter, d[i], d[i + 1])
         /\ i > 1 => d[i] % TicksPerHour = 0
    /\ Len(chart.points) = n
    /\ \A i \in 1..n :
         IF chart.route = "token" THEN chart.points[i] = d[i]
         ELSE LET past == {t \in snapshots : t <= d[i]} IN
              \/ past = {} /\ chart.points[i] = NoPrice
              \/ past # {} /\ chart.points[i] = Latest(past)
              \/ d[i] >= now /\ Latest(past) >= now
===============================================================================
