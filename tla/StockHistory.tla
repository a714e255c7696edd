--------------------------- MODULE StockHistory ----------------------------
(***************************************************************************)
(* The history store (Python/History_stock): for every stock and quarter a *)
(* run fetches the table of the quarter, drops its two header rows, turns  *)
(* it round so that the oldest day comes first, and inserts row by row.  An*)
(* insert that the database refuses is rolled back and the next row is     *)
(* tried; whatever raises ends the quarter: a row that cannot be parsed (or*)
(* with a volume of zero), a refused connection, or a connection lost in   *)
(* the insert, because then the rollback raises as well.                   *)
(***************************************************************************)
EXTENDS Integers, Sequences, SequencesExt, FiniteSets

CONSTANTS
  Quarters,     \* pairs of stock and season, in the order of the nested loops
  QuarterDays,  \* the trading days of a quarter
  MaxFetches    \* bound: the tables fetched, in one run or several

ASSUME StockHistoryAssumption ==
  /\ QuarterDays \in Nat /\ MaxFetches \in Nat
  /\ Quarters \in Seq(Range(Quarters)) /\ Len(Quarters) > 0

VARIABLES
  quarter,      \* the place in Quarters, 0 before a run
  table,        \* what is left to do of the fetched table, oldest row first
  stored,       \* MySQL: the days stored for each quarter
  refused,      \* history: the days whose insert the database refused
  fetches

historyVars == <<quarter, table, stored, refused, fetches>>

Trading == 1 .. QuarterDays
DayRows == [day : Trading, ok : BOOLEAN]

HistoryTypeOK ==
  /\ quarter \in 0 .. Len(Quarters) /\ fetches \in 0 .. MaxFetches
  /\ table \in Seq(DayRows) /\ Len(table) <= QuarterDays
  /\ stored \in [Range(Quarters) -> SUBSET Trading]
  /\ refused \in [Range(Quarters) -> SUBSET Trading]

HistoryInit ==
  /\ quarter = 0 /\ table = << >> /\ fetches = 0
  /\ stored = [q \in Range(Quarters) |-> {}]
  /\ refused = [q \in Range(Quarters) |-> {}]

\* The page: two header rows, then the days so far, the newest first.
Html(n, bad) ==
  <<"title", "columns">> \o [k \in 1 .. n |-> [day |-> n + 1 - k, ok |-> n + 1 - k \notin bad]]

\* Mutant: the rows are taken in the order of the page.
NewestFirst(html) == SubSeq(html, 3, Len(html))

OldestFirst(html) == Reverse(SubSeq(html, 3, Len(html)))

\* The next quarter, or the first one of a new run.  getHTMLText may return "",
\* and a page without the table or its header rows is as good as none.
FetchTable ==
  /\ table = << >> /\ fetches < MaxFetches
  /\ fetches' = fetches + 1
  /\ quarter' = (quarter % Len(Quarters)) + 1
  /\ \E n \in 0 .. QuarterDays, bad \in SUBSET Trading :
       table' = OldestFirst(Html(n, bad))
  /\ UNCHANGED <<stored, refused>>

\* The handler around the loop: the rest of the quarter is dropped.
Raise == table' = << >> /\ UNCHANGED <<quarter, stored, refused, fetches>>

\* A row that cannot be parsed, or a connection that is refused.
RowRaises == table # << >> /\ Raise

Adds(log, q, d) == [log EXCEPT ![q] = @ \cup {d}]

\* The row goes in, unless unique(code, date) or the database refuses it.  If
\* the connection is lost it may have gone in or not, and the rollback raises.
StoreRow ==
  /\ table # << >> /\ Head(table).ok
  /\ LET q == Quarters[quarter]  d == Head(table).day IN
     \/ table' \in {Tail(table), << >>} /\ stored' = Adds(stored, q, d) /\ UNCHANGED refused
     \/ table' = Tail(table) /\ refused' = Adds(refused, q, d) /\ UNCHANGED stored
  /\ UNCHANGED <<quarter, fetches>>

\* Killed: the next run starts at the first quarter.
HistoryKilled ==
  /\ quarter # 0
  /\ quarter' = 0 /\ table' = << >> /\ UNCHANGED <<stored, refused, fetches>>

HistoryNext == FetchTable \/ RowRaises \/ StoreRow \/ HistoryKilled

HistorySpec == HistoryInit /\ [][HistoryNext]_historyVars

\* The days of a quarter are stored from its first one on: what is missing
\* before a stored day is what the database itself refused.  An unreadable row
\* or a lost connection holds up the days after it, and never leaves a hole.
NoHoles ==
  \A q \in Range(Quarters) : \A d \in stored[q] : 1 .. d - 1 \subseteq stored[q] \cup refused[q]
=============================================================================
