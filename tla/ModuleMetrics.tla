----------------------------- MODULE ModuleMetrics -----------------------------
(***************************************************************************)
(* The figures the Inspector shows of a module (mockModuleMetrics.ts) and  *)
(* the shares of its two charts.  A module id is known by whether it is    *)
(* the core's and by its hashes, one per figure that asks for one.         *)
(***************************************************************************)
EXTENDS Integers, Sequences, SequencesExt

ModuleId(core, hash) == [core |-> core, hash |-> hash]

\* What the page starts with; an empty id counts as this one.
DEFAULT_MODULE_ID == ModuleId(TRUE, 0)

getMockMetrics(m) ==
  LET h == m.hash
  IN  IF m.core THEN [activeJobs |-> 847, modules |-> 12408, orgs |-> 892, users |-> 45120,
                      validators |-> 156, providersSubscribed |-> 12408]
      ELSE [activeJobs |-> 210 + (h % 920), modules |-> 3200 + (h % 9800), orgs |-> 48 + (h % 510),
            users |-> 1800 + (h % 42000), validators |-> 18 + (h % 134),
            providersSubscribed |-> 120 + (h % 2400)]

\* Math.round of a percentage of a total.
Percent(total, percent) == (total * percent + 50) \div 100

Shares(first, second, third) == <<first, second, third>>

\* A third share that would be negative is taken from the second.
Split(total, first, second) ==
  IF first + second <= total THEN Shares(first, second, total - first - second)
  ELSE Shares(first, IF first <= total THEN total - first ELSE 0, 0)

\* Clients, validator users, providers; h is the hash of the id with ":userMix".
getMockUserTypeMix(core, total, h) ==
  IF core THEN Split(total, Percent(total, 71), Percent(total, 8))
  ELSE Split(total, Percent(total, 52 + (h % 28)), Percent(total, 18 + ((h \div 16) % 22)))

\* Active, passive, offline; h is the hash of the id with ":valStatus".
getMockValidatorStatusMix(core, total, h) ==
  IF core THEN Split(total, Percent(total, 58), Percent(total, 26))
  ELSE Split(total, Percent(total, 45 + (h % 35)), Percent(total, 15 + ((h \div 8) % 28)))

Total(shares) == shares[1] + shares[2] + shares[3]

--------------------------------------------------------------------------------
(* The two charts: MockDonutChart and MockHealthActivityChart *)

\* An empty share is not drawn.
Drawn(shares) == SelectSeq(shares, LAMBDA count : count > 0)

\* buildPaths: each slice starts where the one before it ends; angles are in units
\* of the total, so that a slice is as long as its share.
Arcs(shares) ==
  LET d == Drawn(shares)
      UpTo(i) == FoldLeft(LAMBDA sum, count : sum + count, 0, SubSeq(d, 1, i))
  IN  [i \in DOMAIN d |-> [from |-> UpTo(i - 1), to |-> UpTo(i)]]

\* Columns of the line chart, one for each 24 / (Columns - 1) hours; its edges in pixels.
Columns == 56
ChartLeft == 48
ChartRight == 784

Spike(i, every, at, height) == IF i % every = at THEN height ELSE 0

\* errorSeries in column i; h is the hash of the id with ":err".
errorsIn(h, i) ==
  LET v == 3 + (h % 5) + ((h \div 2^(i % 9)) % 8)
             + Spike(i, 19, 4, 38 + (h % 22)) + Spike(i, 27, 10, 24 + ((h \div 8) % 18))
             + Spike(i, 31, 17, 52 + (h % 30)) + Spike(i, 41, 6, 15)
  IN  IF v <= 130 THEN v ELSE 130

\* updateHover: the column next to the pointer, none outside of the chart.
ColumnsAt(x) ==
  IF x < ChartLeft \/ x > ChartRight THEN {}
  ELSE {(2 * (x - ChartLeft) * (Columns - 1) + (ChartRight - ChartLeft)) \div (2 * (ChartRight - ChartLeft))}

\* hoursAgoLabel, in minutes.
MinutesAgo(i) == 24 * 60 - (24 * 60 * i) \div (Columns - 1)

--------------------------------------------------------------------------------
(* CountUpNumber: a figure that runs from what is displayed to its value *)

Count(start, display, running) == [start |-> start, display |-> display, running |-> running]

CountMounted == Count(0, 0, TRUE)

\* The effect on [value]: the frame asked for is cancelled and the run starts over.
CountRestarted(c, value) == Count(c.display, c.display, TRUE)

\* One frame: somewhere between the two, here half-way, or at the end.
Frames(c, value) ==
  {Count(c.start, c.start + ((value - c.start) \div 2), TRUE), Count(c.start, value, FALSE)}
================================================================================
