---------------------------- MODULE StockScraper ---------------------------
(***************************************************************************)
(* getStockInfo (Python/Stock/test.py, and unused in get_parse.py): for    *)
(* every pair of a stock's page the file is opened anew with 'w' and gets  *)
(* the dictionary as far as it has grown.                                  *)
(***************************************************************************)
EXTENDS Integers, Sequences, SequencesExt, FiniteSets

CONSTANTS
  ScrapeList,   \* the stocks found on the list page, and sh600175
  MaxPairs      \* bound: the elements of a page

ASSUME StockScraperAssumption == MaxPairs \in Nat /\ Len(ScrapeList) \in Nat

VARIABLES
  pages,        \* the pages so far; a stock without a usable page has none of its elements
  pairs,        \* the pairs of the last one that are in the dictionary
  open,         \* the file is open: truncated and not yet written
  file          \* the stock and the number of pairs that the file shows

scrapeVars == <<pages, pairs, open, file>>

Pages == [name : BOOLEAN, dt : 0 .. MaxPairs, dd : 0 .. MaxPairs]
NoPage == [name |-> FALSE, dt |-> 0, dd |-> 0]
Nothing == [stock |-> 0, pairs |-> 0]

ScrapeTypeOK ==
  /\ pages \in Seq(Pages) /\ Len(pages) <= Len(ScrapeList)
  /\ pairs \in 0 .. MaxPairs /\ open \in BOOLEAN
  /\ file \in [stock : 0 .. Len(ScrapeList), pairs : 0 .. MaxPairs]

ScrapeInit == pages = << >> /\ pairs = 0 /\ open = FALSE /\ file = Nothing

\* The elements are taken as long as both lists have one; a name has to be
\* there, and valueList[i] raises if there are more keys than values.
Usable(p) == IF p.name THEN IF p.dt <= p.dd THEN p.dt ELSE p.dd ELSE 0

Busy == pages # << >> /\ pairs < Usable(Last(pages))

FetchPage ==
  /\ ~Busy /\ Len(pages) < Len(ScrapeList)
  /\ \E p \in Pages \cup {NoPage} : pages' = Append(pages, p)
  /\ pairs' = 0 /\ UNCHANGED <<open, file>>

OpenFile == Busy /\ ~open /\ open' = TRUE /\ file' = Nothing /\ UNCHANGED <<pages, pairs>>

\* Mutant: the pair is appended to what the file had.
WritePairAppend ==
  /\ open /\ open' = FALSE /\ pairs' = pairs + 1
  /\ file' = [stock |-> Len(pages), pairs |-> 1]
  /\ UNCHANGED pages

WritePair ==
  /\ open /\ open' = FALSE
  /\ pairs' = pairs + 1
  /\ file' = [stock |-> Len(pages), pairs |-> pairs + 1]
  /\ UNCHANGED pages

ScrapeNext == FetchPage \/ OpenFile \/ WritePair

ScrapeSpec == ScrapeInit /\ [][ScrapeNext]_scrapeVars

\* Between two stocks the file shows one stock only, the last one that had a
\* pair at all, with all the pairs that could be read: one without a usable page
\* leaves the file of its predecessor as it is.
FileShowsLast ==
  LET full == {i \in 1 .. Len(pages) : Usable(pages[i]) > 0} IN
  ~Busy => file = IF full = {} THEN Nothing
                  ELSE LET i == CHOOSE i \in full : \A j \in full : j <= i
                       IN [stock |-> i, pairs |-> Usable(pages[i])]
=============================================================================
