---------------------------- MODULE StockStore -----------------------------
(***************************************************************************)
(* The daily store (Python/get_parse.py with db_test.py): a run reads the  *)
(* date, then the day of the week, visits the stocks of its list one after *)
(* the other, inserts a row for each whose page it can fetch and parse, and*)
(* adds a line to a log.  A page that does not come, a page without the    *)
(* expected elements and a refused connection cost that stock only; an     *)
(* insert that fails is rolled back and printed.  A run may be killed      *)
(* anywhere, and the next one starts from the first stock again.           *)
(***************************************************************************)
EXTENDS Integers, Sequences

CONSTANTS
  List,       \* the stocks in the order of get_stock_list
  Tables,     \* those that sql_db.sql makes a table for
  WorkDays,   \* the days that are neither a Saturday nor a Sunday
  LastDay,    \* bound: the calendar stops there
  MaxRuns     \* bound: the times the script is started

Stocks == {List[i] : i \in 1 .. Len(List)}
Days == 0 .. LastDay
None == -1

ASSUME StockStoreAssumption ==
  /\ LastDay \in Nat /\ MaxRuns \in Nat /\ WorkDays \subseteq Days
  /\ List \in Seq(Stocks) /\ Len(List) > 0 /\ Tables \subseteq Stocks

VARIABLES
  today,      \* the clock's day
  step, date, \* the run: what it does next, and the date it has read
  at,         \* its place in the list
  shown,      \* the day whose figures are on the page it has fetched
  rows,       \* MySQL: for every stock and date, the day whose figures are stored
  log,        \* the lines of the log, each with the stocks its run gave up
  lost,       \* history: the stocks this run gave up
  split,      \* history: the dates of runs with midnight between the two readings
  runs

storeVars == <<today, step, date, at, shown, rows, log, lost, split, runs>>

StoreTypeOK ==
  /\ today \in Days /\ date \in Days /\ shown \in Days /\ runs \in 0 .. MaxRuns
  /\ step \in {"off", "weekday", "fetch", "store", "workLine", "restLine"}
  /\ at \in 1 .. Len(List)
  /\ rows \in [Stocks -> [Days -> Days \cup {None}]]
  /\ log \subseteq [date : Days, work : BOOLEAN, lost : SUBSET Stocks]
  /\ lost \subseteq Stocks /\ split \subseteq Days

StoreInit ==
  /\ today = 0 /\ date = 0 /\ shown = 0 /\ runs = 0 /\ step = "off" /\ at = 1
  /\ rows = [s \in Stocks |-> [d \in Days |-> None]]
  /\ log = {} /\ lost = {} /\ split = {}

Goes(from, to) == step = from /\ step' = to

Midnight ==
  /\ today < LastDay
  /\ today' = today + 1
  /\ UNCHANGED <<step, date, at, shown, rows, log, lost, split, runs>>

\* The first reading of the clock.
Start ==
  /\ Goes("off", "weekday")
  /\ runs < MaxRuns /\ runs' = runs + 1
  /\ date' = today /\ at' = 1 /\ lost' = {}
  /\ UNCHANGED <<today, shown, rows, log, split>>

\* The second, which decides whether the stocks are visited at all.
Weekday ==
  /\ Goes("weekday", IF today \in WorkDays THEN "fetch" ELSE "restLine")
  /\ split' = IF today = date THEN split ELSE split \cup {date}
  /\ UNCHANGED <<today, date, at, shown, rows, log, lost, runs>>

\* On to the next stock or, after the last, to the line of the log.
NextStock ==
  \/ at < Len(List) /\ at' = at + 1 /\ step' = "fetch"
  \/ at = Len(List) /\ at' = at /\ step' = "workLine"

\* The page shows the figures of today or, before the market opens, of the day
\* before; which of them, the script does not look at.
Fetch ==
  /\ Goes("fetch", "store")
  /\ shown' \in {today, today - 1} \cap Days
  /\ UNCHANGED <<today, date, at, rows, log, lost, split, runs>>

\* Mutant: break in place of continue.
AbandonRun ==
  /\ step \in {"fetch", "store"}
  /\ lost' = lost \cup {List[at]} /\ step' = "workLine" /\ at' = at
  /\ UNCHANGED <<today, date, shown, rows, log, split, runs>>

\* getHTMLText returns "", an element that is looked for is not there, connect
\* raises, or the insert fails and is rolled back: continue.
GiveUp ==
  /\ step \in {"fetch", "store"}
  /\ lost' = lost \cup {List[at]}
  /\ NextStock
  /\ UNCHANGED <<today, date, shown, rows, log, split, runs>>

\* The insert takes place if the table is there and has no row of this date.  If
\* the connection is lost at the commit, the run gives the stock up all the same.
Insert ==
  /\ step = "store" /\ List[at] \in Tables /\ rows[List[at]][date] = None
  /\ rows' = [rows EXCEPT ![List[at]][date] = shown]
  /\ lost' \in {lost, lost \cup {List[at]}}
  /\ NextStock
  /\ UNCHANGED <<today, date, shown, log, split, runs>>

Lines == [workLine |-> TRUE, restLine |-> FALSE]

WriteLine ==
  /\ step \in DOMAIN Lines /\ step' = "off"
  /\ log' = log \cup {[date |-> date, work |-> Lines[step], lost |-> lost]}
  /\ UNCHANGED <<today, date, at, shown, rows, lost, split, runs>>

Killed ==
  /\ step # "off" /\ step' = "off"
  /\ UNCHANGED <<today, date, at, shown, rows, log, lost, split, runs>>

StoreNext ==
  Midnight \/ Start \/ Weekday \/ Fetch \/ GiveUp \/ Insert \/ WriteLine \/ Killed

StoreSpec == StoreInit /\ [][StoreNext]_storeVars

-----------------------------------------------------------------------------
(* Properties.                                                             *)

\* A line that says "work date" vouches for every stock: it has its row of that
\* date unless that very run gave it up.  No stock pays for another one, a
\* killed run leaves no line, and a second run of the day makes up for the first.
LogVouches ==
  \A line \in log : line.work => \A s \in Stocks \ line.lost : rows[s][line.date] # None

\* Days are mistaken only when midnight falls between the two readings of the
\* clock: otherwise no weekend gets rows and no working day passes for a weekend.
CalendarKept ==
  /\ \A s \in Stocks, d \in Days \ WorkDays : rows[s][d] # None => d \in split
  /\ \A line \in log : (line.work <=> line.date \in WorkDays) \/ line.date \in split

\* A row never holds figures older than those of the day before its date.
FiguresNotOld ==
  \A s \in Stocks, d \in Days : rows[s][d] # None => rows[s][d] >= d - 1

\* What the daily store promises of its tables and of its log.
StoreSound == LogVouches /\ CalendarKept /\ FiguresNotOld

\* What is stored stays: a second run, which may see other figures, replaces none.
StoredStays ==
  [][\A s \in Stocks, d \in Days : rows[s][d] # None => rows'[s][d] = rows[s][d]]_storeVars
=============================================================================
