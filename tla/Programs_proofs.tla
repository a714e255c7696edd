--------------------------- MODULE Programs_proofs ---------------------------
(***************************************************************************)
(* Proofs about the programs that share nothing, for every value of their  *)
(* constants: find_number, the two stock stores, the scraper, the two      *)
(* FreeSWITCH programs and the multicast test, each by itself and, at the  *)
(* end, in the module that runs them side by side.                         *)
(***************************************************************************)
EXTENDS MCPrograms, FiniteSetTheorems, SequenceTheorems, TLAPS

-----------------------------------------------------------------------------
(* find_number.  TypeOK is inductive by itself.  Answers needs NoPairSkipped:*)
(* that every solution still lies between the two indices is what makes "the*)
(* indices have met and nothing was printed" mean "there is no solution".  *)

\* A step changes neither the array nor what is known of its order.
LEMMA ArgsKept ==
  ASSUME TypeOK, UNCHANGED args
  PROVE  /\ length' \in Nat
         /\ a' \in [0..(length' - 1) -> Int]
         /\ Ascending(a, length)'
         /\ target' \in Int
  BY DEF TypeOK, args, Ascending

\* What Spec says without the fairness, which no safety property needs.
FindSteps == Init /\ [][Next]_vars

\* Type correctness: the indices stay in the array as long as they are used.
THEOREM FindTyping == FindSteps => []TypeOK
<1>1. Init => TypeOK
  <2> SUFFICES ASSUME Init PROVE TypeOK
    OBVIOUS
  <2>1. /\ length \in Nat
        /\ Values \subseteq Int
        /\ a \in [0..(length - 1) -> Values]
    BY FindAssumption DEF Init
  <2>2. a \in [0..(length - 1) -> Int]
    BY <2>1
  <2> QED
    BY FindAssumption, <2>1, <2>2 DEF Init, TypeOK
<1>2. TypeOK /\ [Next]_vars => TypeOK'
  <2> SUFFICES ASSUME TypeOK, [Next]_vars PROVE TypeOK'
    OBVIOUS
  <2>0. UNCHANGED args
    BY DEF Next, Hit, High, Low, Exit, vars, args
  <2>1. CASE Hit
    <3>1. i \in Nat /\ j \in Nat
      BY <2>1 DEF Hit, TypeOK
    <3>2. printed' \subseteq Nat \X Nat
      BY <2>1, <3>1 DEF Hit, TypeOK
    <3> QED
      BY <2>0, <2>1, <3>2, ArgsKept DEF TypeOK, Hit, args
  <2>2. CASE High
    BY <2>0, <2>2, ArgsKept DEF TypeOK, High, args
  <2>3. CASE Low
    BY <2>0, <2>3, ArgsKept DEF TypeOK, Low, args
  <2>4. CASE Exit
    BY <2>0, <2>4, ArgsKept DEF TypeOK, Exit, args
  <2>5. CASE UNCHANGED vars
    BY <2>0, <2>5, ArgsKept DEF TypeOK, vars, args
  <2> QED
    BY <2>1, <2>2, <2>3, <2>4, <2>5 DEF Next
<1> QED
  BY <1>1, <1>2, PTL DEF FindSteps

-----------------------------------------------------------------------------

LEMMA PairsKept ==
  ASSUME UNCHANGED args
  PROVE  Pairs' = Pairs
  BY DEF Pairs, args

\* What a solution is, component by component.
LEMMA PairParts ==
  ASSUME NEW pq \in Pairs
  PROVE  /\ pq[1] \in 0..(length - 1) /\ pq[2] \in 0..(length - 1)
         /\ pq[1] < pq[2] /\ a[pq[1]] + a[pq[2]] = target
  BY DEF Pairs

\* The sum is too big: with the right index no partner is small enough.
LEMMA HighSkipsNone ==
  ASSUME TypeOK, High, NEW pq \in Pairs, i =< pq[1], pq[2] =< j
  PROVE  pq[2] =< j - 1
<1> DEFINE p == pq[1]
           q == pq[2]
<1>1. p \in 0..(length - 1) /\ q \in 0..(length - 1) /\ a[p] + a[q] = target
  BY PairParts
<1>2. i \in 0..(length - 1) /\ j \in 0..(length - 1) /\ a[i] + a[j] > target
  BY DEF TypeOK, High, sum
<1>3. a[i] \in Int /\ a[j] \in Int /\ a[p] \in Int /\ target \in Int
  BY <1>1, <1>2 DEF TypeOK
<1>4. i =< p /\ q =< j
  OBVIOUS
<1> HIDE DEF p, q
<1>5. a[i] =< a[p]
  BY <1>1, <1>2, <1>3, <1>4 DEF TypeOK, Ascending
<1>6. q # j
  BY <1>1, <1>2, <1>3, <1>5
<1> QED
  BY <1>1, <1>2, <1>4, <1>6 DEF q

\* The sum is too small: with the left index no partner is big enough.
LEMMA LowSkipsNone ==
  ASSUME TypeOK, Low, NEW pq \in Pairs, i =< pq[1], pq[2] =< j
  PROVE  i + 1 =< pq[1]
<1> DEFINE p == pq[1]
           q == pq[2]
<1>1. p \in 0..(length - 1) /\ q \in 0..(length - 1) /\ a[p] + a[q] = target
  BY PairParts
<1>2. i \in 0..(length - 1) /\ j \in 0..(length - 1) /\ a[i] + a[j] < target
  BY DEF TypeOK, Low, sum
<1>3. a[i] \in Int /\ a[j] \in Int /\ a[q] \in Int /\ target \in Int
  BY <1>1, <1>2 DEF TypeOK
<1>4. i =< p /\ q =< j
  OBVIOUS
<1> HIDE DEF p, q
<1>5. a[q] =< a[j]
  BY <1>1, <1>2, <1>3, <1>4 DEF TypeOK, Ascending
<1>6. p # i
  BY <1>1, <1>2, <1>3, <1>5
<1> QED
  BY <1>1, <1>2, <1>4, <1>6 DEF p

\* A pair is printed only where it is a solution.
LEMMA HitIsPair ==
  ASSUME TypeOK, Hit
  PROVE  <<i, j>> \in Pairs
<1>1. i \in 0..(length - 1) /\ j \in 0..(length - 1) /\ i < j /\ a[i] + a[j] = target
  BY DEF TypeOK, Hit, sum
<1> QED
  BY <1>1 DEF Pairs

\* find_number walks past no solution, and when it returns it has printed one if
\* there is one, and nothing else.
THEOREM FindCorrect == FindSteps => [](NoPairSkipped /\ Answers)
<1> DEFINE Inv == NoPairSkipped /\ Answers
<1>1. Init => Inv
  <2> SUFFICES ASSUME Init PROVE Inv
    OBVIOUS
  <2>1. NoPairSkipped
    <3>1. i = 0 /\ j = length - 1 /\ length \in Nat
      BY FindAssumption DEF Init
    <3>2. ASSUME NEW pq \in Pairs PROVE i =< pq[1] /\ pq[2] =< j
      <4>1. pq[1] \in 0..(length - 1) /\ pq[2] \in 0..(length - 1)
        BY PairParts
      <4> QED
        BY <3>1, <4>1
    <3> QED
      BY <3>2 DEF NoPairSkipped
  <2> QED
    BY <2>1 DEF Init, Answers
<1>2. TypeOK /\ Inv /\ [Next]_vars => Inv'
  <2> SUFFICES ASSUME TypeOK, Inv, [Next]_vars PROVE Inv'
    OBVIOUS
  <2>1. Pairs' = Pairs
    BY PairsKept DEF Next, Hit, High, Low, Exit, vars, args
  <2>2. CASE Hit
    <3>1. printed' \subseteq Pairs /\ printed' # {} /\ Pairs # {}
      BY <2>2, HitIsPair DEF Hit, Answers
    <3> QED
      BY <2>1, <3>1 DEF NoPairSkipped, Answers
  <2>3. CASE High
    <3>1. UNCHANGED <<i, printed, running>> /\ j' = j - 1 /\ running
      BY <2>3 DEF High
    <3>2. printed = {} => \A pq \in Pairs : i =< pq[1] /\ pq[2] =< j - 1
      BY <2>3, HighSkipsNone DEF NoPairSkipped
    <3> QED
      BY <2>1, <3>1, <3>2 DEF NoPairSkipped, Answers
  <2>4. CASE Low
    <3>1. UNCHANGED <<j, printed, running>> /\ i' = i + 1 /\ running
      BY <2>4 DEF Low
    <3>2. printed = {} => \A pq \in Pairs : i + 1 =< pq[1] /\ pq[2] =< j
      BY <2>4, LowSkipsNone DEF NoPairSkipped
    <3> QED
      BY <2>1, <3>1, <3>2 DEF NoPairSkipped, Answers
  <2>5. CASE Exit
    <3>1. UNCHANGED <<i, j, printed>> /\ i >= j /\ i \in Int /\ j \in Int
      BY <2>5 DEF Exit, TypeOK
    <3>2. ASSUME printed = {}, NEW pq \in Pairs PROVE FALSE
      <4>1. i =< pq[1] /\ pq[2] =< j
        BY <3>2 DEF NoPairSkipped
      <4>2. pq[1] \in Int /\ pq[2] \in Int /\ pq[1] < pq[2]
        BY PairParts DEF TypeOK
      <4> QED
        BY <3>1, <4>1, <4>2
    <3>3. printed = {} <=> Pairs = {}
      BY <3>2 DEF Answers
    <3> QED
      BY <2>1, <3>1, <3>3 DEF NoPairSkipped, Answers
  <2>6. CASE UNCHANGED vars
    BY <2>1, <2>6 DEF vars, NoPairSkipped, Answers
  <2> QED
    BY <2>2, <2>3, <2>4, <2>5, <2>6 DEF Next
<1> QED
  BY <1>1, <1>2, FindTyping, PTL DEF FindSteps

-----------------------------------------------------------------------------
(* The daily store.                                                        *)

Visited == {List[u] : u \in 1 .. at - 1}

\* The stocks behind the run have their row or were given up, and the run visits
\* stocks only on a date that the calendar, or a midnight, allows.
RunInv ==
  /\ date <= today
  /\ step = "weekday" => at = 1
  /\ step \in {"fetch", "store"} => \A s \in Visited \ lost : rows[s][date] # None
  /\ step = "workLine" => \A s \in Stocks \ lost : rows[s][date] # None
  /\ step \in {"fetch", "store", "workLine"} => date \in WorkDays \cup split
  /\ step = "restLine" => date \notin WorkDays \/ date \in split
  /\ step = "store" => shown >= date - 1

StoreInv == StoreTypeOK /\ RunInv /\ StoreSound

-----------------------------------------------------------------------------

LEMMA StocksFacts ==
  /\ List \in Seq(Stocks) /\ Len(List) \in Nat \ {0} /\ LastDay \in Nat
  /\ WorkDays \subseteq Days /\ Days \subseteq Nat /\ None \notin Days /\ Tables \subseteq Stocks
  /\ \A u \in 1 .. Len(List) : List[u] \in Stocks
  BY StockStoreAssumption DEF StockStoreAssumption, Days, None, Stocks

\* A row that is there stays as it is: nothing writes over it or takes it away.
LEMMA RowsStay ==
  ASSUME StoreTypeOK, StoreNext, NEW s \in Stocks, NEW d \in Days, rows[s][d] # None
  PROVE  rows'[s][d] = rows[s][d]
<1>1. ASSUME Insert PROVE rows'[s][d] = rows[s][d]
  BY <1>1, StocksFacts DEF Insert, StoreTypeOK
<1> QED
  BY <1>1 DEF StoreNext, Midnight, Start, Weekday, Fetch, GiveUp, WriteLine, Killed

LEMMA StoreTyping ==
  ASSUME StoreTypeOK, StoreNext
  PROVE  StoreTypeOK'
<1> USE StocksFacts DEF StoreTypeOK
<1>1. CASE Midnight
  BY <1>1 DEF Midnight, Days
<1>2. CASE Start
  BY <1>2, StockStoreAssumption DEF Start, Goes
<1>3. CASE Weekday
  BY <1>3 DEF Weekday, Goes
<1>4. CASE Fetch
  BY <1>4 DEF Fetch, Goes
<1>5. CASE GiveUp
  BY <1>5 DEF GiveUp, NextStock
<1>6. CASE Insert
  <2>1. rows' \in [Stocks -> [Days -> Days \cup {None}]]
    BY <1>6 DEF Insert
  <2>2. lost' \subseteq Stocks
    BY <1>6 DEF Insert
  <2> QED
    BY <1>6, <2>1, <2>2 DEF Insert, NextStock
<1>7. CASE WriteLine
  <2>1. [date |-> date, work |-> Lines[step], lost |-> lost]
          \in [date : Days, work : BOOLEAN, lost : SUBSET Stocks]
    <3>1. step \in {"workLine", "restLine"}
      BY <1>7 DEF WriteLine, Lines
    <3>2. CASE step = "workLine"
      BY <3>2 DEF Lines
    <3>3. CASE step = "restLine"
      BY <3>3 DEF Lines
    <3> QED
      BY <3>1, <3>2, <3>3
  <2> QED
    BY <1>7, <2>1 DEF WriteLine
<1>8. CASE Killed
  BY <1>8 DEF Killed
<1> QED
  BY <1>1, <1>2, <1>3, <1>4, <1>5, <1>6, <1>7, <1>8 DEF StoreNext

\* On to the next stock: if the one just visited is settled, all behind the run are.
LEMMA VisitedGrows ==
  ASSUME StoreTypeOK, NextStock, NEW S, \A s \in Visited : s \in S, List[at] \in S
  PROVE  /\ step' = "fetch" => \A s \in Visited' : s \in S
         /\ step' = "workLine" => \A s \in Stocks : s \in S
<1>1. at \in 1 .. Len(List) /\ Len(List) \in Nat /\ (at' = at + 1 \/ at = Len(List))
  BY StocksFacts DEF StoreTypeOK, NextStock
<1>2. ASSUME NEW u \in 1 .. at PROVE List[u] \in S
  <2>1. u = at \/ u \in 1 .. at - 1
    BY <1>1
  <2> QED
    BY <2>1 DEF Visited
<1>3. step' = "fetch" => at' = at + 1
  BY DEF NextStock
<1>4. step' = "workLine" => at = Len(List)
  BY DEF NextStock
<1> QED
  BY <1>1, <1>2, <1>3, <1>4 DEF Visited, Stocks

LEMMA RunKept ==
  ASSUME StoreInv, StoreNext
  PROVE  RunInv'
<1> USE StocksFacts
<1>t. StoreTypeOK /\ StoreTypeOK' /\ RunInv
  BY StoreTyping DEF StoreInv
<1>s. step \in {"fetch", "store"} /\ GiveUp => \A s \in Visited \ lost : rows[s][date] # None
  BY <1>t DEF RunInv
<1>1. CASE Midnight
  BY <1>1, <1>t DEF Midnight, RunInv, StoreTypeOK, Visited, Days
<1>2. CASE Start
  BY <1>2, <1>t DEF Start, Goes, RunInv, StoreTypeOK, Days
<1>3. CASE Weekday
  <2>1. date' = date /\ today' = today /\ rows' = rows /\ lost' = lost /\ at' = at
    BY <1>3 DEF Weekday
  <2>2. date' <= today'
    BY <2>1, <1>t DEF RunInv
  <2>3. step' = "fetch" \/ step' = "restLine"
    BY <1>3 DEF Weekday, Goes
  <2>4. at' = 1
    BY <1>3, <1>t, <2>1 DEF Weekday, Goes, RunInv
  <2>5. Visited' = {}
    BY <2>4 DEF Visited
  <2>6. step' = "fetch" => date' \in WorkDays \cup split'
    BY <1>3, <2>1 DEF Weekday, Goes
  <2>7. step' = "restLine" => date' \notin WorkDays \/ date' \in split'
    BY <1>3, <2>1 DEF Weekday, Goes
  <2> QED
    BY <2>2, <2>3, <2>5, <2>6, <2>7 DEF RunInv
<1>4. CASE Fetch
  BY <1>4, <1>t DEF Fetch, Goes, RunInv, StoreTypeOK, Visited, Days
<1>5. CASE GiveUp
  <2> DEFINE S == {s \in Stocks : s \in lost' \/ rows'[s][date'] # None}
  <2>1. /\ date' = date /\ today' = today /\ rows' = rows /\ shown' = shown /\ split' = split
        /\ lost' = lost \cup {List[at]} /\ step \in {"fetch", "store"} /\ NextStock
    BY <1>5 DEF GiveUp
  <2>2. at \in 1 .. Len(List)
    BY <1>t DEF StoreTypeOK
  <2>3. \A s \in Visited : s \in S
    BY <2>1, <2>2, <1>t DEF RunInv, Visited
  <2>4. List[at] \in S
    BY <2>1, <2>2
  <2>5. /\ step' = "fetch" => \A s \in Visited' : s \in S
        /\ step' = "workLine" => \A s \in Stocks : s \in S
    BY <1>t, <2>1, <2>3, <2>4, VisitedGrows
  <2>6. step' \in {"fetch", "workLine"}
    BY <2>1 DEF NextStock
  <2> QED
    BY <1>t, <2>1, <2>5, <2>6 DEF RunInv
<1>6. CASE Insert
  <2> DEFINE S == {s \in Stocks : s \in lost' \/ rows'[s][date'] # None}
  <2>1. /\ date' = date /\ today' = today /\ shown' = shown /\ split' = split
        /\ lost \subseteq lost' /\ step = "store" /\ NextStock
    BY <1>6 DEF Insert
  <2>2. at \in 1 .. Len(List) /\ date \in Days /\ shown \in Days
    BY <1>t DEF StoreTypeOK
  <2>3. \A s \in Visited : s \in S
    <3>1. ASSUME NEW s \in Visited PROVE s \in Stocks
      BY <2>2 DEF Visited
    <3>2. ASSUME NEW s \in Visited \ lost PROVE rows'[s][date] # None
      BY <1>t, <2>1, <2>2, <3>1, RowsStay DEF RunInv
    <3> QED
      BY <2>1, <3>1, <3>2
  <2>4. List[at] \in S
    BY <1>6, <1>t, <2>2 DEF Insert, StoreTypeOK
  <2>5. /\ step' = "fetch" => \A s \in Visited' : s \in S
        /\ step' = "workLine" => \A s \in Stocks : s \in S
    BY <1>t, <2>1, <2>3, <2>4, VisitedGrows
  <2>6. step' \in {"fetch", "workLine"}
    BY <2>1 DEF NextStock
  <2> QED
    BY <1>t, <2>1, <2>5, <2>6 DEF RunInv
<1>7. CASE WriteLine
  BY <1>7, <1>t DEF WriteLine, RunInv, StoreTypeOK
<1>8. CASE Killed
  BY <1>8, <1>t DEF Killed, RunInv, StoreTypeOK
<1> QED
  BY <1>1, <1>2, <1>3, <1>4, <1>5, <1>6, <1>7, <1>8 DEF StoreNext

LEMMA LogKept ==
  ASSUME StoreInv, StoreNext
  PROVE  LogVouches'
<1> SUFFICES ASSUME NEW line \in log', line.work, NEW s \in Stocks \ line.lost
             PROVE  rows'[s][line.date] # None
  BY DEF LogVouches
<1>t. StoreTypeOK /\ StoreTypeOK' /\ RunInv
  BY StoreTyping DEF StoreInv
<1>1. line \in [date : Days, work : BOOLEAN, lost : SUBSET Stocks]
  BY <1>t DEF StoreTypeOK
<1>2. CASE line \in log
  <2>1. rows[s][line.date] # None
    BY <1>2 DEF StoreInv, StoreSound, LogVouches
  <2> QED
    BY <1>1, <1>t, <2>1, RowsStay
<1>3. CASE line \notin log
  <2>1. WriteLine
    BY <1>3 DEF StoreNext, Midnight, Start, Weekday, Fetch, GiveUp, Insert, Killed
  <2>2. line = [date |-> date, work |-> Lines[step], lost |-> lost]
    BY <1>3, <2>1 DEF WriteLine
  <2>3. step = "workLine"
    BY <2>1, <2>2 DEF WriteLine, Lines
  <2> QED
    BY <2>1, <2>2, <2>3, <1>t DEF WriteLine, RunInv
<1> QED
  BY <1>2, <1>3

LEMMA CalendarStays ==
  ASSUME StoreInv, StoreNext
  PROVE  CalendarKept'
<1>t. StoreTypeOK /\ StoreTypeOK' /\ RunInv
  BY StoreTyping DEF StoreInv
<1>1. split \subseteq split'
  BY DEF StoreNext, Midnight, Start, Weekday, Fetch, GiveUp, Insert, WriteLine, Killed
<1>2. ASSUME NEW s \in Stocks, NEW d \in Days \ WorkDays, rows'[s][d] # None
      PROVE  d \in split'
  <2>1. CASE rows[s][d] # None
    BY <1>1, <1>2, <2>1 DEF StoreInv, StoreSound, CalendarKept
  <2>2. CASE rows[s][d] = None
    <3>1. Insert
      BY <1>2, <2>2 DEF StoreNext, Midnight, Start, Weekday, Fetch, GiveUp, WriteLine, Killed
    <3>2. d = date
      BY <1>2, <1>t, <2>2, <3>1, StocksFacts DEF Insert, StoreTypeOK
    <3> QED
      BY <1>2, <1>t, <1>1, <3>1, <3>2 DEF Insert, RunInv
  <2> QED
    BY <2>1, <2>2
<1>3. ASSUME NEW line \in log', ~(line.work <=> line.date \in WorkDays)
      PROVE  line.date \in split'
  <2>1. CASE line \in log
    BY <1>1, <1>3, <2>1 DEF StoreInv, StoreSound, CalendarKept
  <2>2. CASE line \notin log
    <3>1. WriteLine
      BY <1>3, <2>2 DEF StoreNext, Midnight, Start, Weekday, Fetch, GiveUp, Insert, Killed
    <3>2. line = [date |-> date, work |-> Lines[step], lost |-> lost]
      BY <1>3, <2>2, <3>1 DEF WriteLine
    <3>3. CASE step = "workLine"
      BY <1>1, <1>3, <1>t, <3>2, <3>3 DEF RunInv, Lines
    <3>4. CASE step = "restLine"
      <4>1. line.work = FALSE /\ line.date = date
        BY <3>2, <3>4 DEF Lines
      <4>2. date \in WorkDays
        BY <1>3, <4>1
      <4> QED
        BY <1>1, <1>t, <3>4, <4>1, <4>2 DEF RunInv
    <3> QED
      BY <3>1, <3>3, <3>4 DEF WriteLine, Lines
  <2> QED
    BY <2>1, <2>2
<1> QED
  BY <1>2, <1>3 DEF CalendarKept

LEMMA FiguresKept ==
  ASSUME StoreInv, StoreNext
  PROVE  FiguresNotOld'
<1> SUFFICES ASSUME NEW s \in Stocks, NEW d \in Days, rows'[s][d] # None
             PROVE  rows'[s][d] >= d - 1
  BY DEF FiguresNotOld
<1>t. StoreTypeOK /\ RunInv
  BY DEF StoreInv
<1>1. CASE rows[s][d] # None
  BY <1>1, <1>t, RowsStay DEF StoreInv, StoreSound, FiguresNotOld
<1>2. CASE rows[s][d] = None
  <2>1. Insert
    BY <1>2 DEF StoreNext, Midnight, Start, Weekday, Fetch, GiveUp, WriteLine, Killed
  <2>2. d = date /\ rows'[s][d] = shown
    BY <1>2, <1>t, <2>1, StocksFacts DEF Insert, StoreTypeOK
  <2> QED
    BY <1>t, <2>1, <2>2 DEF Insert, RunInv
<1> QED
  BY <1>1, <1>2

-----------------------------------------------------------------------------

\* The inductive invariant of the daily store (get_parse.py and db_test.py).
THEOREM StoreInvariant == StoreSpec => []StoreInv
<1>1. StoreInit => StoreInv
  BY StocksFacts, StockStoreAssumption
  DEF StoreInit, StoreInv, StoreTypeOK, RunInv, StoreSound, LogVouches, CalendarKept,
      FiguresNotOld, Days, Visited
<1>2. StoreInv /\ [StoreNext]_storeVars => StoreInv'
  <2> SUFFICES ASSUME StoreInv, [StoreNext]_storeVars PROVE StoreInv'
    OBVIOUS
  <2>1. CASE StoreNext
    BY <2>1, StoreTyping, RunKept, LogKept, CalendarStays, FiguresKept DEF StoreInv, StoreSound
  <2>2. CASE UNCHANGED storeVars
    BY <2>2 DEF storeVars, StoreInv, StoreTypeOK, RunInv, Visited, StoreSound, LogVouches,
      CalendarKept, FiguresNotOld
  <2> QED
    BY <2>1, <2>2
<1> QED
  BY <1>1, <1>2, PTL DEF StoreSpec

\* What the daily store promises of its tables and its log holds for every list of
\* stocks and every calendar: a line vouches for its stocks, days are mistaken only
\* across a midnight, and no figures are older than the day before.
THEOREM StoreIsSound == StoreSpec => []StoreSound
<1>1. StoreInv => StoreSound
  BY DEF StoreInv
<1> QED
  BY <1>1, StoreInvariant, PTL

\* What is stored stays: a second run of the day replaces no row.
THEOREM RowsAreNeverReplaced == StoreSpec => StoredStays
<1>1. StoreInv /\ [StoreNext]_storeVars =>
        [\A s \in Stocks, d \in Days : rows[s][d] # None => rows'[s][d] = rows[s][d]]_storeVars
  BY RowsStay DEF StoreInv
<1> QED
  BY <1>1, StoreInvariant, PTL DEF StoreSpec, StoredStays

-----------------------------------------------------------------------------
(* The history store.  What is left of the fetched table is a run of days  *)
(* without a gap, and the days before it are stored or were refused.       *)

HistoryInv ==
  /\ HistoryTypeOK /\ NoHoles
  /\ table # << >> => quarter \in 1 .. Len(Quarters)
  /\ \A k \in 1 .. Len(table) : table[k].day = table[1].day + k - 1
  /\ table # << >> =>
       LET q == Quarters[quarter] IN 1 .. table[1].day - 1 \subseteq stored[q] \cup refused[q]

\* The page turned round starts with the first day and has no gap.
LEMMA PageTurned ==
  ASSUME NEW n \in Nat, NEW bad
  PROVE  OldestFirst(Html(n, bad)) = [k \in 1 .. n |-> [day |-> k, ok |-> k \notin bad]]
<1> DEFINE f == [k \in 1 .. n |-> [day |-> n + 1 - k, ok |-> n + 1 - k \notin bad]]
           R == {f[k] : k \in 1 .. n} \cup {"title", "columns"}
           h == <<"title", "columns">>
<1>1. f \in Seq(R) /\ Len(f) = n /\ h \in Seq(R) /\ Len(h) = 2
  <2>1. f \in [1 .. n -> R]
    OBVIOUS
  <2>2. h \in Seq(R) /\ Len(h) = 2
    <3>1. "title" \in R /\ "columns" \in R
      OBVIOUS
    <3> HIDE DEF R
    <3> QED
      BY <3>1
  <2> HIDE DEF f, R, h
  <2> QED
    BY <2>1, <2>2
<1> HIDE DEF R
<1>2. Html(n, bad) = h \o f
  BY DEF Html
<1>3. Len(h \o f) = n + 2 /\ h \o f \in Seq(R)
  BY <1>1
<1>4. \A k \in 1 .. n : (h \o f)[k + 2] = f[k]
  <2> HIDE DEF h, f
  <2>1. \A k \in 1 .. Len(h) + Len(f) : (h \o f)[k] = IF k <= Len(h) THEN h[k] ELSE f[k - Len(h)]
    BY <1>1, ConcatProperties
  <2> TAKE k \in 1 .. n
  <2>2. k + 2 \in 1 .. Len(h) + Len(f) /\ ~ (k + 2 <= Len(h)) /\ (k + 2) - Len(h) = k
    BY <1>1
  <2>3. (h \o f)[k + 2] = f[(k + 2) - Len(h)]
    BY <2>1, <2>2
  <2> QED
    BY <2>2, <2>3
<1> DEFINE s == SubSeq(h \o f, 3, n + 2)
<1>5. Len(s) = n /\ s \in Seq(R) /\ \A k \in 1 .. n : s[k] = f[k]
  <2> HIDE DEF h, f
  <2> QED
    BY <1>1, <1>3, <1>4
<1>6. Reverse(s) = [k \in 1 .. n |-> s[(n - k) + 1]]
  BY <1>5 DEF Reverse
<1>7. ASSUME NEW k \in 1 .. n PROVE s[(n - k) + 1] = [day |-> k, ok |-> k \notin bad]
  <2>1. (n - k) + 1 \in 1 .. n /\ n + 1 - ((n - k) + 1) = k
    OBVIOUS
  <2>2. s[(n - k) + 1] = f[(n - k) + 1]
    BY <1>5, <2>1
  <2> HIDE DEF s
  <2> QED
    BY <2>1, <2>2
<1>8. OldestFirst(Html(n, bad)) = Reverse(s)
  BY <1>2, <1>3 DEF OldestFirst
<1> HIDE DEF s, f, h
<1> QED
  BY <1>6, <1>7, <1>8

LEMMA HistoryFacts ==
  /\ QuarterDays \in Nat /\ MaxFetches \in Nat /\ Len(Quarters) \in Nat \ {0}
  /\ \A k \in 1 .. Len(Quarters) : Quarters[k] \in Range(Quarters)
<1>1. Quarters \in Seq(Range(Quarters)) /\ Len(Quarters) > 0 /\ QuarterDays \in Nat /\ MaxFetches \in Nat
  BY StockHistoryAssumption DEF StockHistoryAssumption
<1> QED
  BY <1>1

LEMMA FetchKept ==
  ASSUME HistoryInv, FetchTable
  PROVE  HistoryInv'
<1> USE HistoryFacts DEF HistoryInv, HistoryTypeOK
<1>1. UNCHANGED <<stored, refused>> /\ fetches' \in 0 .. MaxFetches
  BY DEF FetchTable
<1>2. quarter' \in 1 .. Len(Quarters)
  BY DEF FetchTable
<1>3. PICK n \in 0 .. QuarterDays, bad \in SUBSET Trading : table' = OldestFirst(Html(n, bad))
  BY DEF FetchTable
<1>4. table' = [k \in 1 .. n |-> [day |-> k, ok |-> k \notin bad]]
  BY <1>3, PageTurned
<1>5. \A k \in 1 .. n : k \in Trading
  BY DEF Trading
<1>6. \A k \in 1 .. n : [day |-> k, ok |-> k \notin bad] \in DayRows
  BY <1>5 DEF DayRows
<1>7. table' \in Seq(DayRows) /\ Len(table') = n
  BY <1>4, <1>6
<1>8. \A k \in 1 .. Len(table') : table'[k].day = table'[1].day + k - 1
  BY <1>4, <1>7
<1>9. table' # << >> => table'[1].day = 1
  BY <1>4, <1>7
<1> QED
  BY <1>1, <1>2, <1>7, <1>8, <1>9 DEF NoHoles

LEMMA DropKept ==
  ASSUME HistoryInv, table' = << >>, quarter' \in 0 .. Len(Quarters),
         UNCHANGED <<stored, refused, fetches>>
  PROVE  HistoryInv'
<1>1. << >> \in Seq(DayRows) /\ Len(<< >>) = 0 /\ QuarterDays \in Nat
  BY HistoryFacts
<1>2. HistoryTypeOK'
  BY <1>1 DEF HistoryInv, HistoryTypeOK
<1>3. 1 .. Len(table') = {}
  BY <1>1
<1> QED
  BY <1>2, <1>3 DEF HistoryInv, NoHoles

LEMMA StoreRowKept ==
  ASSUME HistoryInv, StoreRow
  PROVE  HistoryInv'
<1> USE HistoryFacts DEF HistoryInv, HistoryTypeOK
<1> DEFINE q == Quarters[quarter]
           d == Head(table).day
<1>1. /\ table \in Seq(DayRows) /\ table # << >> /\ quarter \in 1 .. Len(Quarters)
      /\ q \in Range(Quarters) /\ d = table[1].day /\ Len(table) \in Nat \ {0}
  BY DEF StoreRow
<1>2. d \in Trading
  <2>1. table[1] \in DayRows
    BY <1>1
  <2>2. table[1].day \in Trading
    BY <2>1 DEF DayRows
  <2> QED
    BY <1>1, <2>2
<1>3. /\ table' \in {Tail(table), << >>} /\ UNCHANGED <<quarter, fetches>>
      /\ \/ stored' = Adds(stored, q, d) /\ UNCHANGED refused
         \/ refused' = Adds(refused, q, d) /\ UNCHANGED stored
  BY DEF StoreRow
<1>4. /\ table' \in Seq(DayRows) /\ Len(table') <= QuarterDays
      /\ \A k \in 1 .. Len(table') : table'[k] = table[k + 1] /\ k + 1 \in 1 .. Len(table)
  <2>1. CASE table' = << >>
    BY <2>1
  <2>2. CASE table' = Tail(table)
    <3> HIDE DEF d
    <3>1. table' \in Seq(DayRows) /\ Len(table') = Len(table) - 1
      BY <1>1, <2>2
    <3>2. \A k \in 1 .. Len(table') : table'[k] = table[k + 1]
      BY <1>1, <2>2, <3>1
    <3> QED
      BY <1>1, <3>1, <3>2
  <2> QED
    BY <1>3, <2>1, <2>2
<1>5. /\ \A k \in 1 .. Len(table') : table'[k].day = d + k
      /\ \A k \in 1 .. Len(table') : table'[k].day = table'[1].day + k - 1
  <2>1. \A k \in 1 .. Len(table') : table'[k].day = d + k
    BY <1>1, <1>4
  <2>2. d \in Int /\ \A k \in 1 .. Len(table') : 1 \in 1 .. Len(table')
    BY <1>2, <1>4 DEF Trading
  <2> HIDE DEF d
  <2> QED
    BY <2>1, <2>2
<1>6. /\ stored' \in [Range(Quarters) -> SUBSET Trading]
      /\ refused' \in [Range(Quarters) -> SUBSET Trading]
      /\ \A p \in Range(Quarters) : /\ stored[p] \subseteq stored'[p] /\ refused[p] \subseteq refused'[p]
                                    /\ stored'[p] \subseteq stored[p] \cup {d}
                                    /\ p # q => stored'[p] = stored[p]
      /\ d \in stored'[q] \cup refused'[q]
  <2> HIDE DEF q, d
  <2> QED
    BY <1>1, <1>2, <1>3 DEF Adds
<1>7. 1 .. d - 1 \subseteq stored[q] \cup refused[q]
  BY <1>1
<1> HIDE DEF q, d
<1>8. NoHoles'
  <2> SUFFICES ASSUME NEW p \in Range(Quarters), NEW e \in stored'[p]
               PROVE  1 .. e - 1 \subseteq stored'[p] \cup refused'[p]
    BY DEF NoHoles
  <2>1. CASE e \in stored[p]
    BY <1>6, <2>1 DEF NoHoles
  <2>2. CASE e \notin stored[p]
    BY <1>6, <1>7, <2>2
  <2> QED
    BY <2>1, <2>2
<1>9. table' # << >> => 1 .. table'[1].day - 1 \subseteq stored'[q] \cup refused'[q]
  <2> SUFFICES ASSUME table' # << >>, NEW e \in 1 .. table'[1].day - 1
               PROVE  e \in stored'[q] \cup refused'[q]
    OBVIOUS
  <2>1. table'[1].day = d + 1 /\ d \in Int
    BY <1>2, <1>4, <1>5 DEF Trading
  <2>2. e \in 1 .. d - 1 \/ e = d
    BY <2>1
  <2> QED
    BY <1>1, <1>6, <1>7, <2>2
<1>10. q' = q /\ Quarters[quarter'] = q
  BY <1>3 DEF q
<1> QED
  BY <1>1, <1>3, <1>4, <1>5, <1>6, <1>8, <1>9, <1>10

LEMMA HistoryStart == HistoryInit => HistoryInv
  BY HistoryFacts DEF HistoryInit, HistoryInv, HistoryTypeOK, NoHoles

LEMMA HistoryStep ==
  ASSUME HistoryInv, HistoryNext
  PROVE  HistoryInv'
<1>1. CASE RowRaises \/ HistoryKilled
  BY <1>1, DropKept, HistoryFacts DEF RowRaises, Raise, HistoryKilled, HistoryInv, HistoryTypeOK
<1> QED
  BY <1>1, FetchKept, StoreRowKept DEF HistoryNext

LEMMA HistoryStays ==
  ASSUME HistoryInv, UNCHANGED historyVars
  PROVE  HistoryInv'
  BY DEF HistoryInv, HistoryTypeOK, NoHoles, historyVars

\* The days of a quarter are stored from its first one on, whatever the pages and the
\* database do: what is missing before a stored day is what the database refused
\* (Python/History_stock/history_stock.py).
THEOREM HistoryHasNoHoles == HistorySpec => [](HistoryTypeOK /\ NoHoles)
<1>1. HistoryInv /\ [HistoryNext]_historyVars => HistoryInv'
  BY HistoryStep, HistoryStays
<1>2. HistoryInv => HistoryTypeOK /\ NoHoles
  BY DEF HistoryInv
<1> QED
  BY <1>1, <1>2, HistoryStart, PTL DEF HistorySpec

-----------------------------------------------------------------------------
(* The scraper.  The file is the one of the last page that had a pair, or  *)
(* it shows the page under way as far as it has been read.                 *)

\* Among the first n pages, the last one that has a pair is p.
LastFull(p, n) ==
  /\ p \in 1 .. n /\ Usable(pages[p]) > 0
  /\ \A k \in 1 .. n : Usable(pages[k]) > 0 => k <= p

\* The file is that of the last of the first n pages that has a pair.
FileUpTo(n) ==
  IF \E k \in 1 .. n : Usable(pages[k]) > 0
  THEN \E p \in 1 .. n : LastFull(p, n) /\ file = [stock |-> p, pairs |-> Usable(pages[p])]
  ELSE file = Nothing

ScrapeInv ==
  /\ ScrapeTypeOK
  /\ pages = << >> => pairs = 0 /\ ~open /\ file = Nothing
  /\ pages # << >> =>
       /\ pairs <= Usable(pages[Len(pages)])
       /\ open => pairs < Usable(pages[Len(pages)])
       /\ ~open /\ pairs > 0 => file = [stock |-> Len(pages), pairs |-> pairs]
       /\ ~open /\ pairs = 0 => FileUpTo(Len(pages) - 1)

LEMMA UsableType ==
  ASSUME NEW p \in Pages
  PROVE  Usable(p) \in 0 .. MaxPairs
  BY StockScraperAssumption DEF StockScraperAssumption, Usable, Pages

LEMMA PagesType ==
  ASSUME ScrapeInv
  PROVE  /\ pages \in Seq(Pages) /\ Len(pages) \in Nat /\ MaxPairs \in Nat
         /\ \A k \in 1 .. Len(pages) : Usable(pages[k]) \in 0 .. MaxPairs
         /\ pages # << >> => Last(pages) = pages[Len(pages)] /\ Len(pages) \in 1 .. Len(pages)
<1>1. pages \in Seq(Pages)
  BY DEF ScrapeInv, ScrapeTypeOK
<1>2. \A k \in 1 .. Len(pages) : pages[k] \in Pages
  BY <1>1
<1> QED
  BY <1>1, <1>2, UsableType, StockScraperAssumption DEF StockScraperAssumption, Last

\* While no pair is under way, the file is that of the last page that has one.
LEMMA SettledFile ==
  ASSUME ScrapeInv, ~Busy
  PROVE  FileUpTo(Len(pages)) /\ ~open
<1> USE PagesType
<1> DEFINE n == Len(pages)
<1>1. CASE pages = << >>
  BY <1>1 DEF ScrapeInv, FileUpTo
<1>2. CASE pages # << >>
  <2>1. pairs = Usable(pages[n]) /\ ~open /\ n \in 1 .. n
    BY <1>2 DEF ScrapeInv, ScrapeTypeOK, Busy
  <2>2. CASE pairs > 0
    <3>1. file = [stock |-> n, pairs |-> Usable(pages[n])]
      BY <1>2, <2>1, <2>2 DEF ScrapeInv
    <3>2. LastFull(n, n)
      BY <2>1, <2>2 DEF LastFull
    <3> QED
      BY <2>1, <2>2, <3>1, <3>2 DEF FileUpTo
  <2>3. CASE pairs = 0
    <3>1. FileUpTo(n - 1) /\ Usable(pages[n]) = 0
      BY <1>2, <2>1, <2>3 DEF ScrapeInv
    <3>2. \A k \in 1 .. n : Usable(pages[k]) > 0 => k \in 1 .. n - 1
      BY <3>1
    <3>3. CASE \E k \in 1 .. n - 1 : Usable(pages[k]) > 0
      <4>1. PICK p \in 1 .. n - 1 :
              LastFull(p, n - 1) /\ file = [stock |-> p, pairs |-> Usable(pages[p])]
        BY <3>1, <3>3 DEF FileUpTo
      <4>2. p \in 1 .. n /\ LastFull(p, n)
        BY <3>2, <4>1 DEF LastFull
      <4> QED
        BY <2>1, <4>1, <4>2 DEF FileUpTo, LastFull
    <3>4. CASE ~ \E k \in 1 .. n - 1 : Usable(pages[k]) > 0
      BY <2>1, <3>1, <3>2, <3>4 DEF FileUpTo
    <3> QED
      BY <3>3, <3>4
  <2> QED
    BY <2>1, <2>2, <2>3 DEF ScrapeInv, ScrapeTypeOK
<1> QED
  BY <1>1, <1>2

LEMMA ScrapeFetchKept ==
  ASSUME ScrapeInv, FetchPage
  PROVE  ScrapeInv'
<1> USE PagesType
<1>0. NoPage \in Pages
  <2>1. 0 \in 0 .. MaxPairs
    BY PagesType
  <2> QED
    BY <2>1 DEF NoPage, Pages
<1>1. PICK p \in Pages : pages' = Append(pages, p)
  BY <1>0 DEF FetchPage
<1>2. /\ pairs' = 0 /\ UNCHANGED <<open, file>> /\ ~open /\ FileUpTo(Len(pages))
      /\ Len(pages) < Len(ScrapeList)
  BY SettledFile DEF FetchPage
<1>3. /\ pages' \in Seq(Pages) /\ Len(pages') = Len(pages) + 1 /\ pages' # << >>
      /\ pages'[Len(pages')] = p
      /\ \A k \in 1 .. Len(pages) : pages'[k] = pages[k]
  <2>1. pages \in Seq(Pages)
    BY DEF ScrapeInv, ScrapeTypeOK
  <2> QED
    BY <1>1, <2>1, AppendProperties
<1>4. Usable(p) \in 0 .. MaxPairs
  BY UsableType
<1>5. FileUpTo(Len(pages) - 1)'
  <2>1. /\ Len(pages') - 1 = Len(pages) /\ file' = file
        /\ \A k \in 1 .. Len(pages) : Usable(pages'[k]) = Usable(pages[k])
    BY <1>2, <1>3
  <2> HIDE PagesType
  <2> QED
    BY <1>2, <2>1, SMTT(30) DEF FileUpTo, LastFull
<1>6. ScrapeTypeOK'
  BY <1>2, <1>3 DEF ScrapeInv, ScrapeTypeOK
<1> QED
  BY <1>2, <1>3, <1>4, <1>5, <1>6 DEF ScrapeInv

LEMMA ScrapeStep ==
  ASSUME ScrapeInv, ScrapeNext
  PROVE  ScrapeInv'
<1> USE PagesType
<1>1. CASE OpenFile
  <2>1. /\ pages # << >> /\ pairs < Usable(pages[Len(pages)]) /\ open' = TRUE /\ file' = Nothing
        /\ UNCHANGED <<pages, pairs>>
    BY <1>1 DEF OpenFile, Busy
  <2>2. Nothing \in [stock : 0 .. Len(ScrapeList), pairs : 0 .. MaxPairs]
    BY DEF Nothing, ScrapeInv, ScrapeTypeOK
  <2>3. ScrapeTypeOK'
    BY <2>1, <2>2 DEF ScrapeInv, ScrapeTypeOK
  <2> QED
    BY <2>1, <2>3 DEF ScrapeInv
<1>2. CASE WritePair
  <2>1. /\ open /\ open' = FALSE /\ pairs' = pairs + 1 /\ pages' = pages
        /\ file' = [stock |-> Len(pages), pairs |-> pairs + 1]
    BY <1>2 DEF WritePair
  <2>2. pages # << >> /\ pairs < Usable(pages[Len(pages)]) /\ pairs \in 0 .. MaxPairs
        /\ Len(pages) <= Len(ScrapeList)
    BY <2>1 DEF ScrapeInv, ScrapeTypeOK
  <2>3. pairs' \in 1 .. MaxPairs /\ pairs' <= Usable(pages[Len(pages)])
    BY <2>1, <2>2
  <2>4. file' \in [stock : 0 .. Len(ScrapeList), pairs : 0 .. MaxPairs]
    <3>1. Len(pages) \in 0 .. Len(ScrapeList) /\ pairs + 1 \in 0 .. MaxPairs
      BY <2>1, <2>2, <2>3, StockScraperAssumption DEF StockScraperAssumption
    <3> QED
      BY <2>1, <3>1
  <2>5. ScrapeTypeOK'
    BY <2>1, <2>2, <2>3, <2>4 DEF ScrapeInv, ScrapeTypeOK
  <2> QED
    BY <2>1, <2>2, <2>3, <2>5 DEF ScrapeInv
<1> QED
  BY <1>1, <1>2, ScrapeFetchKept DEF ScrapeNext

LEMMA ScrapeStart == ScrapeInit => ScrapeInv
<1> SUFFICES ASSUME ScrapeInit
             PROVE  ScrapeInv
  OBVIOUS
<1>1. MaxPairs \in Nat /\ Len(ScrapeList) \in Nat
  BY StockScraperAssumption DEF StockScraperAssumption
<1>2. 0 \in 0 .. Len(ScrapeList) /\ 0 \in 0 .. MaxPairs
  BY <1>1
<1>3. Nothing \in [stock : 0 .. Len(ScrapeList), pairs : 0 .. MaxPairs]
  BY <1>2 DEF Nothing
<1>4. pages \in Seq(Pages) /\ Len(pages) = 0 /\ Len(pages) <= Len(ScrapeList)
  BY <1>1 DEF ScrapeInit
<1>5. pairs \in 0 .. MaxPairs /\ open \in BOOLEAN
  BY <1>2 DEF ScrapeInit
<1>6. file \in [stock : 0 .. Len(ScrapeList), pairs : 0 .. MaxPairs]
  BY <1>3 DEF ScrapeInit
<1>7. ScrapeTypeOK
  BY <1>4, <1>5, <1>6 DEF ScrapeTypeOK
<1> QED
  BY <1>7 DEF ScrapeInit, ScrapeInv

LEMMA ScrapeStays ==
  ASSUME ScrapeInv, UNCHANGED scrapeVars
  PROVE  ScrapeInv'
  BY DEF ScrapeInv, ScrapeTypeOK, FileUpTo, LastFull, scrapeVars

LEMMA ScrapeShows ==
  ASSUME ScrapeInv
  PROVE  FileShowsLast
<1> DEFINE full == {k \in 1 .. Len(pages) : Usable(pages[k]) > 0}
           last == CHOOSE k \in full : \A m \in full : m <= k
<1> SUFFICES ASSUME ~Busy
             PROVE  file = IF full = {} THEN Nothing ELSE [stock |-> last, pairs |-> Usable(pages[last])]
  BY DEF FileShowsLast
<1>1. FileUpTo(Len(pages))
  BY SettledFile
<1>2. CASE full = {}
  BY <1>1, <1>2 DEF FileUpTo
<1>3. CASE full # {}
  <2>1. PICK p \in 1 .. Len(pages) :
          LastFull(p, Len(pages)) /\ file = [stock |-> p, pairs |-> Usable(pages[p])]
    BY <1>1, <1>3 DEF FileUpTo
  <2>2. p \in full /\ \A m \in full : m <= p
    BY <2>1 DEF LastFull
  <2>3. last \in full /\ \A m \in full : m <= last
    BY <2>2
  <2>4. last = p
    <3> HIDE DEF last
    <3> QED
      BY <2>2, <2>3, PagesType
  <2> QED
    BY <1>3, <2>1, <2>4
<1> QED
  BY <1>2, <1>3

\* Between two stocks the file shows the last stock that had a pair, with all of its
\* pairs: open(..., 'w') loses only what a later stock replaces (Python/Stock/test.py).
THEOREM ScrapeKeepsLast == ScrapeSpec => [](ScrapeTypeOK /\ FileShowsLast)
<1>1. ScrapeInv /\ [ScrapeNext]_scrapeVars => ScrapeInv'
  BY ScrapeStep, ScrapeStays
<1>2. ScrapeInv => ScrapeTypeOK /\ FileShowsLast
  BY ScrapeShows DEF ScrapeInv
<1> QED
  BY <1>1, <1>2, ScrapeStart, PTL DEF ScrapeSpec

-----------------------------------------------------------------------------
(* The multicast test.                                                     *)

\* How many of the first k elements of s are not empty: Heard, for any sequence.
NonEmpty(s, k) == {v \in 1 .. k : s[v] # << >>}

LEMMA NonEmptyCount ==
  ASSUME NEW s, NEW n \in Nat, NEW k \in 0 .. n
  PROVE  /\ IsFiniteSet(NonEmpty(s, k)) /\ Cardinality(NonEmpty(s, k)) \in Nat
         /\ Cardinality(NonEmpty(s, k)) <= Cardinality(NonEmpty(s, n))
         /\ k > 0 /\ s[k] # << >> => Cardinality(NonEmpty(s, k)) > 0
<1>1. IsFiniteSet(1 .. n) /\ IsFiniteSet(1 .. k)
  BY FS_Interval
<1>2. IsFiniteSet(NonEmpty(s, n))
  BY <1>1, FS_Subset DEF NonEmpty
<1>3. NonEmpty(s, k) \subseteq NonEmpty(s, n)
  BY DEF NonEmpty
<1>4. /\ IsFiniteSet(NonEmpty(s, k)) /\ Cardinality(NonEmpty(s, k)) \in Nat
      /\ Cardinality(NonEmpty(s, k)) <= Cardinality(NonEmpty(s, n))
  BY <1>2, <1>3, FS_Subset, FS_CardinalityType
<1>5. ASSUME k > 0, s[k] # << >>
      PROVE  Cardinality(NonEmpty(s, k)) > 0
  <2>1. k \in NonEmpty(s, k)
    BY <1>5 DEF NonEmpty
  <2>2. Cardinality(NonEmpty(s, k)) # 0
    BY <1>4, <2>1, FS_EmptySet
  <2> QED
    BY <1>4, <2>2
<1> QED
  BY <1>4, <1>5

LEMMA NonEmptyAppend ==
  ASSUME NEW S, NEW s \in Seq(S), NEW x
  PROVE  LET t == Append(s, x)
             n == Len(s)
         IN  /\ \A k \in 0 .. n : NonEmpty(t, k) = NonEmpty(s, k)
             /\ Cardinality(NonEmpty(t, n + 1)) =
                  Cardinality(NonEmpty(s, n)) + (IF x = << >> THEN 0 ELSE 1)
<1> DEFINE t == Append(s, x)
           n == Len(s)
<1>1. /\ n \in Nat /\ t[n + 1] = x /\ \A v \in 1 .. n : t[v] = s[v]
  BY AppendProperties, LenProperties
<1> HIDE DEF t, n
<1>2. \A k \in 0 .. n : NonEmpty(t, k) = NonEmpty(s, k)
  BY <1>1 DEF NonEmpty
<1>3. IsFiniteSet(NonEmpty(s, n)) /\ Cardinality(NonEmpty(s, n)) \in Nat
  BY <1>1, NonEmptyCount
<1>4. CASE x = << >>
  <2>1. NonEmpty(t, n + 1) = NonEmpty(s, n)
    BY <1>1, <1>4 DEF NonEmpty
  <2> QED
    BY <1>2, <1>3, <1>4, <2>1 DEF t, n
<1>5. CASE x # << >>
  <2>1. NonEmpty(t, n + 1) = NonEmpty(s, n) \cup {n + 1} /\ n + 1 \notin NonEmpty(s, n)
    BY <1>1, <1>5 DEF NonEmpty
  <2>2. Cardinality(NonEmpty(t, n + 1)) = Cardinality(NonEmpty(s, n)) + 1
    BY <1>3, <2>1, FS_AddElement
  <2> QED
    BY <1>2, <1>5, <2>2 DEF t, n
<1> QED
  BY <1>4, <1>5

McastInv ==
  /\ buffer \in Seq(Senders) /\ delivered \in Seq(Senders) /\ lines \in Seq(Senders \cup {<< >>})
  /\ times = Len(lines) /\ times <= Receives
  /\ receiver \in {"new", "bound"} => times = 0
  /\ receiver = "joined" => times < Receives
  /\ McastSound

\* Heard, in terms of the set that the lemmas are about.
LEMMA HeardIs ==
  ASSUME McastInv
  PROVE  LET n == Len(lines) IN
         /\ n \in Nat
         /\ \A k \in 0 .. n :
              /\ Heard(k) = Cardinality(NonEmpty(lines, k)) /\ Heard(k) \in Nat
              /\ Heard(k) <= Heard(n)
              /\ k > 0 /\ lines[k] # << >> => Heard(k) > 0
<1>1. Len(lines) \in Nat
  BY LenProperties DEF McastInv
<1>2. \A k \in 0 .. Len(lines) : Heard(k) = Cardinality(NonEmpty(lines, k))
  BY DEF Heard, NonEmpty
<1> QED
  BY <1>1, <1>2, NonEmptyCount

\* What is printed next: the end of a datagram's way, or an empty line.
LEMMA HeardNext ==
  ASSUME McastInv, NEW x, lines' = Append(lines, x)
  PROVE  LET n == Len(lines) IN
         /\ Len(lines') = n + 1 /\ lines'[n + 1] = x
         /\ \A k \in 1 .. n : lines'[k] = lines[k] /\ Heard(k)' = Heard(k)
         /\ \A k \in {n + 1} : Heard(k)' = Heard(n) + (IF x = << >> THEN 0 ELSE 1)
         /\ Heard(Len(lines))' = Heard(n) + (IF x = << >> THEN 0 ELSE 1)
<1> DEFINE n == Len(lines)
<1>1. lines \in Seq(Senders \cup {<< >>}) /\ n \in Nat
  BY HeardIs DEF McastInv
<1>2. /\ Len(lines') = n + 1 /\ lines'[n + 1] = x
      /\ \A k \in 1 .. n : lines'[k] = lines[k]
  BY <1>1
<1>3. \A k \in 0 .. n : Heard(k) = Cardinality(NonEmpty(lines, k))
  BY HeardIs
<1>4. \A k \in 0 .. n + 1 : Heard(k)' = Cardinality(NonEmpty(lines', k))
  BY DEF Heard, NonEmpty
<1>5. /\ \A k \in 0 .. n : NonEmpty(lines', k) = NonEmpty(lines, k)
      /\ Cardinality(NonEmpty(lines', n + 1)) =
           Cardinality(NonEmpty(lines, n)) + (IF x = << >> THEN 0 ELSE 1)
  BY <1>1, NonEmptyAppend
<1> HIDE DEF n
<1>6. \A k \in 1 .. n : k \in 0 .. n /\ k \in 0 .. n + 1
  BY <1>1 DEF n
<1>7. n \in 0 .. n /\ n + 1 \in 0 .. n + 1 /\ n \in 0 .. n + 1
  BY <1>1 DEF n
<1>8. \A k \in 1 .. n : Heard(k)' = Heard(k)
  BY <1>3, <1>4, <1>5, <1>6
<1>9. \A k \in {n + 1} : Heard(k)' = Heard(n) + (IF x = << >> THEN 0 ELSE 1)
  BY <1>3, <1>4, <1>5, <1>7
<1>10. Heard(Len(lines))' = Heard(n) + (IF x = << >> THEN 0 ELSE 1)
  <2>1. Heard(Len(lines))' = Cardinality(NonEmpty(lines', n + 1))
    BY <1>2 DEF Heard, NonEmpty, n
  <2> QED
    BY <1>3, <1>5, <1>7, <2>1
<1> QED
  BY <1>2, <1>8, <1>9, <1>10 DEF n

LEMMA McastSendKept ==
  ASSUME McastInv, NEW s \in Senders, Send(s)
  PROVE  McastInv'
<1> DEFINE n == Len(lines)
<1>1. UNCHANGED <<receiver, times, lines>>
  BY DEF Send
<1>2. \A k \in 0 .. n : Heard(k)' = Heard(k)
  BY <1>1 DEF Heard
<1>3. n \in Nat /\ \A k \in 0 .. n : Heard(k) \in Nat /\ Heard(k) <= Heard(n)
      /\ (k > 0 /\ lines[k] # << >> => Heard(k) > 0)
  BY HeardIs
<1>4. CASE UNCHANGED <<buffer, delivered>>
  BY <1>1, <1>2, <1>3, <1>4 DEF McastInv, McastSound, Heard
<1>5. CASE buffer' = Append(buffer, s) /\ delivered' = Append(delivered, s)
  <2>1. /\ Len(delivered) = Heard(n) + Len(buffer)
        /\ \A k \in 1 .. n : lines[k] # << >> => lines[k] = delivered[Heard(k)]
        /\ \A k \in 1 .. Len(buffer) : buffer[k] = delivered[Heard(n) + k]
        /\ receiver = "done" => n = Receives
        /\ buffer \in Seq(Senders) /\ delivered \in Seq(Senders)
    BY DEF McastInv, McastSound
  <2>2. /\ Len(buffer) \in Nat /\ Len(buffer') = Len(buffer) + 1
        /\ \A k \in 1 .. Len(buffer) : buffer'[k] = buffer[k]
        /\ buffer'[Len(buffer) + 1] = s /\ buffer' \in Seq(Senders)
    BY <1>5, <2>1
  <2>3. /\ Len(delivered) \in Nat /\ Len(delivered') = Len(delivered) + 1
        /\ \A k \in 1 .. Len(delivered) : delivered'[k] = delivered[k]
        /\ delivered'[Len(delivered) + 1] = s /\ delivered' \in Seq(Senders)
    BY <1>5, <2>1
  <2> DEFINE h == Heard(n)
  <2>4. h \in Nat /\ h = Heard(n)' /\ n = Len(lines')
    BY <1>1, <1>2, <1>3
  <2> HIDE DEF h
  <2>5. Len(delivered') = h + Len(buffer')
    BY <2>1, <2>2, <2>3, <2>4 DEF h
  <2>6. \A k \in 1 .. n : lines'[k] # << >> => lines'[k] = delivered'[Heard(k)']
    <3> SUFFICES ASSUME NEW k \in 1 .. n, lines[k] # << >>
                 PROVE  lines[k] = delivered'[Heard(k)]
      BY <1>1, <1>2, <1>3
    <3>1. Heard(k) \in 1 .. Len(delivered)
      BY <1>3, <2>1, <2>2, <2>3, <2>4, SMTT(30) DEF h
    <3> QED
      BY <2>1, <2>3, <3>1
  <2>7. \A k \in 1 .. Len(buffer') : buffer'[k] = delivered'[h + k]
    BY <2>1, <2>2, <2>3, <2>4, SMTT(30) DEF h
  <2>8. McastSound'
    BY <1>1, <2>1, <2>4, <2>5, <2>6, <2>7 DEF McastSound
  <2> QED
    BY <1>1, <2>2, <2>3, <2>8 DEF McastInv
<1> QED
  BY <1>4, <1>5 DEF Send

LEMMA McastReceiveKept ==
  ASSUME McastInv, Receive
  PROVE  McastInv'
<1> DEFINE n == Len(lines)
           x == Head(buffer)
           h == Heard(n)
<1>1. /\ receiver = "joined" /\ receiver' = "paused" /\ lines' = Append(lines, x)
      /\ UNCHANGED delivered /\ times' = times + 1 /\ buffer' = Tail(buffer) /\ buffer # << >>
  BY DEF Receive, PrintLine, Counted
<1>2. /\ Len(delivered) = h + Len(buffer)
      /\ \A k \in 1 .. n : lines[k] # << >> => lines[k] = delivered[Heard(k)]
      /\ \A k \in 1 .. Len(buffer) : buffer[k] = delivered[h + k]
      /\ buffer \in Seq(Senders) /\ delivered \in Seq(Senders) /\ times = n /\ times < Receives
      /\ lines \in Seq(Senders \cup {<< >>})
  BY <1>1 DEF McastInv, McastSound
<1>3. /\ Len(buffer) \in Nat \ {0} /\ x = buffer[1] /\ x \in Senders /\ x # << >>
      /\ Len(buffer') = Len(buffer) - 1 /\ buffer' \in Seq(Senders)
      /\ \A k \in 1 .. Len(buffer') : buffer'[k] = buffer[k + 1]
  BY <1>1, <1>2, McastAssumption DEF McastAssumption
<1>4. /\ n \in Nat /\ h \in Nat /\ Len(lines') = n + 1 /\ lines'[n + 1] = x
      /\ \A k \in 1 .. n : lines'[k] = lines[k] /\ Heard(k)' = Heard(k)
      /\ Heard(Len(lines))' = h + 1 /\ \A k \in {n + 1} : Heard(k)' = h + 1
  BY <1>1, <1>3, HeardIs, HeardNext
<1> HIDE DEF n, x, h
<1>5. Len(delivered') = h + 1 + Len(buffer')
  BY <1>1, <1>2, <1>3, <1>4
<1>6. \A k \in 1 .. n + 1 : lines'[k] # << >> => lines'[k] = delivered'[Heard(k)']
  <2>1. x = delivered[h + 1]
    BY <1>2, <1>3
  <2>2. \A k \in 1 .. n : lines'[k] # << >> => lines'[k] = delivered'[Heard(k)']
    BY <1>1, <1>2, <1>4
  <2>3. \A k \in {n + 1} : lines'[k] = delivered'[Heard(k)']
    BY <1>1, <1>4, <2>1
  <2> QED
    BY <1>4, <2>2, <2>3
<1>7. \A k \in 1 .. Len(buffer') : buffer'[k] = delivered'[h + 1 + k]
  BY <1>1, <1>2, <1>3, <1>4
<1>8. McastSound'
  BY <1>1, <1>4, <1>5, <1>6, <1>7 DEF McastSound
<1>9. lines' \in Seq(Senders \cup {<< >>})
  BY <1>1, <1>2, <1>3
<1> QED
  BY <1>1, <1>2, <1>3, <1>4, <1>8, <1>9, McastAssumption DEF McastInv, McastAssumption

LEMMA McastErrorKept ==
  ASSUME McastInv, ReceiveError
  PROVE  McastInv'
<1> DEFINE n == Len(lines)
           h == Heard(n)
<1>1. /\ receiver = "joined" /\ receiver' = "paused" /\ lines' = Append(lines, << >>)
      /\ UNCHANGED <<buffer, delivered>> /\ times' = times + 1
  BY DEF ReceiveError, PrintLine, Counted
<1>2. /\ Len(delivered) = h + Len(buffer)
      /\ \A k \in 1 .. n : lines[k] # << >> => lines[k] = delivered[Heard(k)]
      /\ \A k \in 1 .. Len(buffer) : buffer[k] = delivered[h + k]
      /\ buffer \in Seq(Senders) /\ delivered \in Seq(Senders) /\ times = n /\ times < Receives
      /\ lines \in Seq(Senders \cup {<< >>})
  BY <1>1 DEF McastInv, McastSound
<1>3. /\ n \in Nat /\ h \in Nat /\ Len(lines') = n + 1 /\ lines'[n + 1] = << >>
      /\ \A k \in 1 .. n : lines'[k] = lines[k] /\ Heard(k)' = Heard(k)
      /\ Heard(Len(lines))' = h /\ \A k \in {n + 1} : Heard(k)' = h
  BY <1>1, HeardIs, HeardNext
<1> HIDE DEF n, h
<1>4. \A k \in 1 .. n + 1 : lines'[k] # << >> => lines'[k] = delivered'[Heard(k)']
  BY <1>1, <1>2, <1>3
<1>5. McastSound'
  BY <1>1, <1>2, <1>3, <1>4 DEF McastSound
<1>6. lines' \in Seq(Senders \cup {<< >>})
  BY <1>1, <1>2
<1> QED
  BY <1>1, <1>2, <1>3, <1>5, <1>6, McastAssumption DEF McastInv, McastAssumption

LEMMA McastStep ==
  ASSUME McastInv, McastNext
  PROVE  McastInv'
<1>1. CASE Prepare
  BY <1>1, McastAssumption, SMTT(30)
  DEF Prepare, McastInv, McastSound, Heard, McastAssumption
<1>2. CASE Pause
  <2>1. times = Receives \/ times < Receives
    BY McastAssumption, HeardIs DEF McastInv, McastAssumption
  <2> QED
    BY <1>2, <2>1, McastAssumption, ZenonT(60)
    DEF Pause, McastInv, McastSound, Heard, McastAssumption
<1> QED
  BY <1>1, <1>2, McastSendKept, McastReceiveKept, McastErrorKept DEF McastNext

LEMMA McastStart == McastInit => McastInv
<1> SUFFICES ASSUME McastInit
             PROVE  McastInv
  OBVIOUS
<1>1. Heard(0) = 0
  <2>1. {k \in 1 .. 0 : lines[k] # << >>} = {}
    OBVIOUS
  <2> QED
    BY <2>1, FS_EmptySet DEF Heard
<1>2. McastSound
  BY <1>1 DEF McastInit, McastSound
<1> QED
  BY <1>2, McastAssumption DEF McastInit, McastInv, McastAssumption

LEMMA McastStays ==
  ASSUME McastInv, UNCHANGED mcastVars
  PROVE  McastInv'
  BY DEF McastInv, McastSound, Heard, mcastVars

\* Between the socket's buffer and the output nothing is lost, repeated or put out of
\* order, and the receiver ends only after its receives (Linux-c/Mcast_test/mul_server.c).
THEOREM McastPrintsWhatArrives == McastSpec => []McastSound
<1>1. McastInv /\ [McastNext]_mcastVars => McastInv'
  BY McastStep, McastStays
<1>2. McastInv => McastSound
  BY DEF McastInv
<1> QED
  BY <1>1, <1>2, McastStart, PTL DEF McastSpec

-----------------------------------------------------------------------------
(* The outbound session.                                                   *)

LEMMA MoreTimes ==
  ASSUME NEW p \in Int, NEW q \in Int, p > q
  PROVE  p * Second >= q * Second + Second
<1>1. Second \in Nat /\ Second > 0
  BY EslSessionAssumption DEF EslSessionAssumption
<1> HIDE DEF EslSessionAssumption
<1>2. (p - q - 1) * Second >= 0
  BY <1>1
<1>3. (p - q - 1) * Second = p * Second - q * Second - Second
  BY <1>1
<1> QED
  BY <1>1, <1>2, <1>3

LEMMA WholeSeconds ==
  ASSUME NEW t \in Nat
  PROVE  /\ Seconds(t) \in Nat
         /\ Seconds(t) * Second <= t /\ t < Seconds(t) * Second + Second
<1>1. Second \in Nat /\ Second > 0
  BY EslSessionAssumption DEF EslSessionAssumption
<1>2. t \div Second \in Nat
  BY <1>1
<1>3. \E q \in Int : q = t \div Second /\ q * Second <= t /\ t < q * Second + Second
  BY <1>1
<1> QED
  BY <1>2, <1>3 DEF Seconds

LEMMA SecondsGrow ==
  ASSUME NEW s \in Nat, NEW t \in Nat, s <= t
  PROVE  Seconds(s) <= Seconds(t)
<1>1. Second \in Nat
  BY EslSessionAssumption DEF EslSessionAssumption
<1>2. /\ Seconds(s) \in Nat /\ Seconds(t) \in Nat
      /\ Seconds(s) * Second <= s /\ t < Seconds(t) * Second + Second
  BY WholeSeconds
<1>3. ASSUME Seconds(s) > Seconds(t)
      PROVE  FALSE
  <2>1. Seconds(s) * Second >= Seconds(t) * Second + Second
    BY <1>2, <1>3, MoreTimes
  <2>2. Seconds(s) * Second \in Int /\ Seconds(t) * Second \in Int
    BY <1>1, <1>2
  <2> QED
    BY <1>1, <1>2, <2>1, <2>2
<1> QED
  BY <1>2, <1>3

SessionInv ==
  /\ SessionTypeOK
  /\ todo # << >> => session = "on" /\ ~done
  /\ todo = << >> => clock - called <= Second
  /\ done => exp = Seconds(noticed) + 5
  /\ done /\ session = "on" => Seconds(called) < exp
  /\ session = "lingered" => done /\ Seconds(clock) >= exp

LEMMA TimesType ==
  ASSUME SessionInv
  PROVE  /\ clock \in Nat /\ called \in Nat /\ noticed \in Nat /\ exp \in Nat
         /\ clock <= MaxTime /\ called <= clock /\ noticed <= clock
         /\ Second \in Nat /\ Second > 0 /\ MaxTime \in Nat
  BY EslSessionAssumption DEF SessionInv, SessionTypeOK, EslSessionAssumption

\* One command less of the setup is left.
LEMMA TodoType ==
  ASSUME SessionInv, todo # << >>
  PROVE  Tail(todo) \in {SubSeq(Setup, u, Len(Setup)) : u \in 1 .. Len(Setup) + 1}
<1> DEFINE n == Len(Setup)
<1>1. n \in Nat /\ Setup \in Seq(STRING)
  BY EslSessionAssumption DEF EslSessionAssumption
<1>2. PICK u \in 1 .. n + 1 : todo = SubSeq(Setup, u, n)
  BY DEF SessionInv, SessionTypeOK
<1>3. u \in 1 .. n
  BY <1>1, <1>2, SubSeqEmpty
<1>4. /\ todo \in Seq(STRING) /\ Len(todo) = n - u + 1
      /\ \A k \in 1 .. n - u + 1 : todo[k] = Setup[u + k - 1]
  BY <1>1, <1>2, <1>3, SubSeqProperties
<1> DEFINE rest == SubSeq(Setup, u + 1, n)
<1>5. /\ rest \in Seq(STRING) /\ Len(rest) = n - u
      /\ \A k \in 1 .. n - u : rest[k] = Setup[u + 1 + k - 1]
  BY <1>1, <1>3, SubSeqProperties
<1>6. /\ Tail(todo) \in Seq(STRING) /\ Len(Tail(todo)) = n - u
      /\ \A k \in 1 .. n - u : Tail(todo)[k] = todo[k + 1]
  BY <1>1, <1>3, <1>4, HeadTailProperties
<1> HIDE DEF n
<1>7. \A k \in 1 .. n - u : Tail(todo)[k] = rest[k]
  <2> SUFFICES ASSUME NEW k \in 1 .. n - u
               PROVE  Tail(todo)[k] = rest[k]
    OBVIOUS
  <2>1. k + 1 \in 1 .. n - u + 1 /\ u + (k + 1) - 1 = u + 1 + k - 1
    BY <1>1, <1>3
  <2>2. Tail(todo)[k] = Setup[u + (k + 1) - 1]
    BY <1>4, <1>6, <2>1
  <2> QED
    BY <1>5, <2>1, <2>2
<1> HIDE DEF rest
<1>8. Tail(todo) = rest
  BY <1>5, <1>6, <1>7, SeqEqual
<1>9. u + 1 \in 1 .. n + 1
  BY <1>1, <1>3
<1> QED
  BY <1>8, <1>9 DEF rest, n

\* A receive returns: what it may do to the call's time and to the program's.
LEMMA ReceivedKept ==
  ASSUME SessionInv, NEW st, Received(st), UNCHANGED <<done, exp, noticed>>,
         session' \in {"on", "lingered"},
         done => session' = IF Seconds(clock) >= exp THEN "lingered" ELSE "on",
         ~done => session' = "on"
  PROVE  SessionInv'
<1> USE TimesType
<1>1. /\ todo = << >> /\ called' = clock /\ UNCHANGED <<clock, todo, socket>> /\ session = "on"
  BY DEF Received, Receiving
<1>2. Seconds(clock) \in Nat
  BY WholeSeconds
<1>3. SessionTypeOK'
  <2>1. called' \in 0 .. clock' /\ noticed' \in 0 .. clock' /\ clock' \in 0 .. MaxTime
    BY <1>1
  <2>2. session' \in {"on", "lingered", "failed"}
    OBVIOUS
  <2>3. SessionTypeOK
    BY DEF SessionInv
  <2> QED
    BY <1>1, <2>1, <2>2, <2>3 DEF SessionTypeOK
<1> QED
  BY <1>1, <1>2, <1>3 DEF SessionInv, Seconds

LEMMA NoticeKept ==
  ASSUME SessionInv, Notice
  PROVE  SessionInv'
<1> USE TimesType
<1>1. /\ todo = << >> /\ called' = clock /\ UNCHANGED <<clock, todo, socket, session>>
      /\ session = "on" /\ done' = TRUE /\ exp' = Seconds(clock) + 5 /\ noticed' = clock
  BY DEF Notice, Received, Receiving
<1>2. Seconds(clock) \in Nat /\ Seconds(clock) <= Seconds(MaxTime) /\ Seconds(MaxTime) \in Nat
  BY WholeSeconds, SecondsGrow
<1>3. exp' \in 0 .. (MaxTime \div Second) + 5
  BY <1>1, <1>2, SMTT(30) DEF Seconds
<1>4. SessionTypeOK'
  BY <1>1, <1>3 DEF SessionInv, SessionTypeOK
<1> QED
  BY <1>1, <1>2, <1>4 DEF SessionInv, Seconds

LEMMA SessionStep ==
  ASSUME SessionInv, SessionNext
  PROVE  SessionInv'
<1> USE TimesType
<1>1. CASE Tick
  <2>1. /\ clock < MaxTime /\ session = "on" /\ (todo # << >> \/ clock - called < Second)
        /\ clock' = clock + 1 /\ UNCHANGED <<todo, session, socket, called, done, exp, noticed>>
    BY <1>1 DEF Tick, TimedOut
  <2>2. SessionTypeOK'
    BY <2>1 DEF SessionInv, SessionTypeOK
  <2> QED
    BY <2>1, <2>2 DEF SessionInv, Seconds
<1>2. CASE SendCommand
  <2>1. /\ todo # << >> /\ todo' = Tail(todo) /\ called' = clock /\ session = "on" /\ ~done
        /\ UNCHANGED <<clock, session, socket, done, exp, noticed>>
    BY <1>2 DEF SendCommand, SessionInv
  <2>2. todo' \in {SubSeq(Setup, u, Len(Setup)) : u \in 1 .. Len(Setup) + 1}
    BY <2>1, TodoType
  <2>3. SessionTypeOK'
    BY <2>1, <2>2 DEF SessionInv, SessionTypeOK
  <2> QED
    BY <2>1, <2>3 DEF SessionInv
<1>3. CASE SocketFails
  BY <1>3 DEF SocketFails, SessionInv, SessionTypeOK, Seconds
<1>4. CASE Notice
  BY <1>4, NoticeKept
<1>5. CASE ReceiveFails
  BY <1>5 DEF ReceiveFails, Receiving, SessionInv, SessionTypeOK, Seconds
<1>6. ASSUME NEW st \in {"event", "break"}, AfterNotice(st) \/ OtherEvent(st)
      PROVE  SessionInv'
  <2>1. CASE AfterNotice(st)
    BY <2>1, ReceivedKept DEF AfterNotice, Expired
  <2>2. CASE OtherEvent(st)
    <3>1. session' = "on" /\ ~done /\ Received(st) /\ UNCHANGED <<done, exp, noticed>>
      BY <2>2 DEF OtherEvent, Received, Receiving
    <3> QED
      BY <3>1, ReceivedKept
  <2> QED
    BY <1>6, <2>1, <2>2
<1> QED
  BY <1>1, <1>2, <1>3, <1>4, <1>5, <1>6 DEF SessionNext, ReceiveReturns

LEMMA SessionStart == SessionInit => SessionInv
<1> SUFFICES ASSUME SessionInit
             PROVE  SessionInv
  OBVIOUS
<1>1. /\ Second \in Nat /\ Second > 0 /\ MaxTime \in Nat /\ Setup \in Seq(STRING)
      /\ Len(Setup) \in Nat
  BY EslSessionAssumption DEF EslSessionAssumption
<1>2. todo \in {SubSeq(Setup, u, Len(Setup)) : u \in 1 .. Len(Setup) + 1}
  <2>1. SubSeq(Setup, 1, Len(Setup)) = Setup
    BY <1>1, SubSeqFull
  <2>2. 1 \in 1 .. Len(Setup) + 1
    BY <1>1
  <2> QED
    BY <2>1, <2>2 DEF SessionInit
<1>3. exp \in 0 .. (MaxTime \div Second) + 5
  BY <1>1, WholeSeconds DEF Seconds, SessionInit
<1>4. SessionTypeOK
  <2>1. clock \in 0 .. MaxTime /\ called \in 0 .. clock /\ noticed \in 0 .. clock
    BY <1>1 DEF SessionInit
  <2>2. session \in {"on", "lingered", "failed"} /\ socket \in BOOLEAN /\ done \in BOOLEAN
    BY DEF SessionInit
  <2> QED
    BY <1>2, <1>3, <2>1, <2>2 DEF SessionTypeOK
<1> QED
  BY <1>1, <1>4 DEF SessionInit, SessionInv

LEMMA SessionStays ==
  ASSUME SessionInv, UNCHANGED sessionVars
  PROVE  SessionInv'
  BY DEF SessionInv, SessionTypeOK, Seconds, sessionVars

LEMMA SessionLingers ==
  ASSUME SessionInv
  PROVE  LingersFive
<1> USE TimesType
<1> DEFINE c == Seconds(clock)
           n == Seconds(noticed)
           k == Seconds(called)
<1>1. /\ c \in Nat /\ n \in Nat /\ k \in Nat
      /\ c * Second <= clock /\ n * Second <= noticed /\ noticed < n * Second + Second
      /\ called < k * Second + Second
  BY WholeSeconds
<1> HIDE DEF c, n, k
<1>2. /\ c * Second \in Nat /\ k * Second \in Nat /\ n * Second \in Nat
      /\ (n + 4) * Second = n * Second + 4 * Second
  BY <1>1
<1>3. ASSUME session = "lingered"
      PROVE  clock - noticed > 4 * Second
  <2>1. c > n + 4
    BY <1>1, <1>3, SMTT(30) DEF SessionInv, c, n
  <2>2. c * Second >= (n + 4) * Second + Second
    BY <1>1, <2>1, MoreTimes
  <2> QED
    BY <1>1, <1>2, <2>2
<1>4. ASSUME done, session = "on"
      PROVE  clock - noticed <= 6 * Second
  <2>1. n + 5 > k /\ clock - called <= Second
    BY <1>1, <1>4 DEF SessionInv, k, n
  <2>2. (n + 5) * Second >= k * Second + Second /\ (n + 5) * Second = n * Second + 5 * Second
    BY <1>1, <2>1, MoreTimes
  <2> QED
    BY <1>1, <1>2, <2>1, <2>2
<1> QED
  BY <1>3, <1>4 DEF LingersFive

\* A session ends between four and six seconds after the notice, whatever events keep
\* coming, unless its socket fails (FreeSwitch/testserver.c, testcharge.c).
THEOREM SessionLingersFive == SessionSpec => [](SessionTypeOK /\ LingersFive)
<1>1. SessionInv /\ [SessionNext]_sessionVars => SessionInv'
  BY SessionStep, SessionStays
<1>2. SessionInv => SessionTypeOK /\ LingersFive
  BY SessionLingers DEF SessionInv
<1> QED
  BY <1>1, <1>2, SessionStart, PTL DEF SessionSpec

-----------------------------------------------------------------------------
(* The registration watcher.                                               *)

AllEvents == Events \cup {Goodbye}

\* A registration that has all that the program takes for granted.
Complete(e) == e.subclass = Register /\ e.contact /\ e.user

\* The parts of AnswersRegistrations: which events are answered, in which order, with
\* what, and how the program ends.
AnsweredComplete ==
  {messages[k].event : k \in 1 .. Len(messages)} = {u \in 1 .. Len(handled) : Complete(handled[u])}
AnsweredInOrder ==
  \A v, k \in 1 .. Len(messages) : v < k => messages[v].event < messages[k].event
AnsweredAddress ==
  \A k \in 1 .. Len(messages) :
    LET width == handled[messages[k].event].width IN
    messages[k].width \in {width, Room} /\ messages[k].width <= Room
EndedForAReason ==
  /\ watcher = "crashed" => ~(Last(handled).inner /\ Last(handled).user)
  /\ watcher = "ended" => ~link /\ inbox = << >>

RegisterInv ==
  /\ RegisterTypeOK /\ Len(inbox) + Len(handled) <= MaxEvents
  /\ AnsweredComplete /\ AnsweredInOrder /\ AnsweredAddress /\ EndedForAReason

LEMMA SubclassMatches ==
  ASSUME NEW s \in Subclasses
  PROVE  Matches(s) <=> s = Register
<1> DEFINE parts == {"sofia", "re", "gister", "unre", "ex", "pire"}
<1>1. Register \in Seq(parts) /\ Len(Register) = 3
  BY DEF Register
<1>2. s \in Seq(parts) /\ Len(s) = 3
  <2>1. CASE s = <<"sofia", "unre", "gister">>
    BY <2>1
  <2>2. CASE s = <<"sofia", "ex", "pire">>
    BY <2>2
  <2> QED
    BY <1>1, <2>1, <2>2 DEF Subclasses
<1>3. SubSeq(s, 1, Len(s)) = s /\ SubSeq(Register, 1, Len(s)) = Register
  BY <1>1, <1>2, SubSeqFull
<1> QED
  BY <1>1, <1>2, <1>3 DEF Matches, IsPrefix

\* A message is sent for the complete registrations, and the program goes on after
\* every event that has what it needs.
LEMMA EventKinds ==
  ASSUME NEW e \in AllEvents
  PROVE  /\ Answered(e) /\ ~Fatal(e) <=> Complete(e)
         /\ Fatal(e) => ~(e.inner /\ e.user)
         /\ e.width \in Nat
<1>1. CASE e \in Events
  <2>1. /\ e.inner = TRUE /\ e.subclass \in Subclasses /\ e.contact \in BOOLEAN
        /\ e.user \in BOOLEAN /\ e.width \in Nat
    BY <1>1, EslRegisterAssumption DEF Events, EslRegisterAssumption
  <2>2. Matches(e.subclass) <=> e.subclass = Register
    BY <2>1, SubclassMatches
  <2> QED
    BY <2>1, <2>2 DEF Answered, Fatal, Complete
<1>2. CASE e = Goodbye
  <2>1. e.inner = FALSE /\ e.contact = FALSE /\ e.user = FALSE /\ e.width = 0
    BY <1>2 DEF Goodbye
  <2> QED
    BY <2>1 DEF Answered, Fatal, Complete
<1> QED
  BY <1>1, <1>2 DEF AllEvents

LEMMA RegisterTypes ==
  ASSUME RegisterInv
  PROVE  /\ inbox \in Seq(AllEvents) /\ handled \in Seq(AllEvents)
         /\ messages \in Seq([event : 1 .. MaxEvents, width : 0 .. Room])
         /\ Len(inbox) \in Nat /\ Len(handled) \in Nat /\ Len(messages) \in Nat
         /\ Room \in Nat /\ MaxEvents \in Nat
<1>1. /\ inbox \in Seq(AllEvents) /\ handled \in Seq(AllEvents)
      /\ messages \in Seq([event : 1 .. MaxEvents, width : 0 .. Room])
  BY DEF RegisterInv, RegisterTypeOK, AllEvents
<1> QED
  BY <1>1, LenProperties, EslRegisterAssumption DEF EslRegisterAssumption

LEMMA PollTypes ==
  ASSUME RegisterInv, Poll
  PROVE  LET e == Head(inbox)
             n == Len(handled)
         IN  /\ e \in AllEvents /\ n + 1 <= MaxEvents
             /\ handled' = Append(handled, e) /\ inbox' = Tail(inbox) /\ UNCHANGED link
             /\ watcher = "polling" /\ watcher' = IF Fatal(e) THEN "crashed" ELSE "polling"
             /\ messages' = IF Complete(e) THEN Append(messages, Message(e)) ELSE messages
             /\ handled' \in Seq(AllEvents) /\ Len(handled') = n + 1 /\ handled'[n + 1] = e
             /\ \A k \in 1 .. n : handled'[k] = handled[k]
             /\ inbox' \in Seq(AllEvents) /\ Len(inbox') + Len(handled') <= MaxEvents
             /\ Message(e) \in [event : 1 .. MaxEvents, width : 0 .. Room]
             /\ Message(e).event = n + 1 /\ Message(e).width \in {e.width, Room}
             /\ Message(e).width <= Room
<1> DEFINE e == Head(inbox)
           n == Len(handled)
<1> USE RegisterTypes
<1>1. /\ watcher = "polling" /\ inbox # << >> /\ inbox' = Tail(inbox) /\ UNCHANGED link
      /\ handled' = Append(handled, e)
      /\ watcher' = IF Fatal(e) THEN "crashed" ELSE "polling"
      /\ messages' = IF Answered(e) /\ ~Fatal(e) THEN Append(messages, Message(e)) ELSE messages
  BY DEF Poll
<1>2. /\ e \in AllEvents /\ inbox' \in Seq(AllEvents) /\ Len(inbox') = Len(inbox) - 1
      /\ Len(inbox) > 0
  BY <1>1
<1> HIDE DEF e
<1>3. /\ handled' \in Seq(AllEvents) /\ Len(handled') = n + 1 /\ handled'[n + 1] = e
      /\ \A k \in 1 .. n : handled'[k] = handled[k]
  BY <1>1, <1>2
<1>4. n + 1 <= MaxEvents /\ Len(inbox') + Len(handled') <= MaxEvents
  BY <1>2, <1>3 DEF RegisterInv
<1>5. (Answered(e) /\ ~Fatal(e) <=> Complete(e)) /\ e.width \in Nat
  BY <1>2, EventKinds
<1>6. /\ Message(e) \in [event : 1 .. MaxEvents, width : 0 .. Room]
      /\ Message(e).event = n + 1 /\ Message(e).width \in {e.width, Room}
      /\ Message(e).width <= Room
  <2>1. n + 1 \in 1 .. MaxEvents
    BY <1>4
  <2>2. (IF e.width <= Room THEN e.width ELSE Room) \in 0 .. Room
    BY <1>5
  <2> QED
    BY <1>5, <2>1, <2>2 DEF Message
<1> QED
  BY <1>1, <1>2, <1>3, <1>4, <1>5, <1>6 DEF e

\* A complete registration: its number is larger than all that were answered.
LEMMA PollAnswers ==
  ASSUME RegisterInv, Poll, Complete(Head(inbox))
  PROVE  RegisterInv'
<1> DEFINE e == Head(inbox)
           n == Len(handled)
           m == Len(messages)
           x == Message(e)
<1> USE RegisterTypes
<1>1. /\ e \in AllEvents /\ n + 1 <= MaxEvents /\ n \in Nat /\ m \in Nat
      /\ handled' = Append(handled, e) /\ UNCHANGED link
      /\ watcher' = IF Fatal(e) THEN "crashed" ELSE "polling"
      /\ messages' = Append(messages, x)
      /\ handled' \in Seq(AllEvents) /\ Len(handled') = n + 1 /\ handled'[n + 1] = e
      /\ \A k \in 1 .. n : handled'[k] = handled[k]
      /\ inbox' \in Seq(AllEvents) /\ Len(inbox') + Len(handled') <= MaxEvents
      /\ x \in [event : 1 .. MaxEvents, width : 0 .. Room]
      /\ x.event = n + 1 /\ x.width \in {e.width, Room} /\ x.width <= Room
  BY PollTypes
<1>2. Complete(e) /\ ~Fatal(e)
  BY <1>1, EventKinds
<1> HIDE DEF x, e
<1>3. /\ messages' \in Seq([event : 1 .. MaxEvents, width : 0 .. Room])
      /\ Len(messages') = m + 1 /\ messages'[m + 1] = x
      /\ \A k \in 1 .. m : messages'[k] = messages[k]
  BY <1>1
<1>4. RegisterTypeOK'
  BY <1>1, <1>2, <1>3 DEF RegisterInv, RegisterTypeOK, AllEvents
<1>5. {messages[k].event : k \in 1 .. m} = {u \in 1 .. n : Complete(handled[u])}
  BY DEF RegisterInv, AnsweredComplete
<1>6. \A k \in 1 .. m : messages[k].event \in 1 .. n
  BY <1>5
<1> HIDE DEF n, m
<1>7. messages'[m + 1].event = n + 1
  BY <1>1, <1>3
<1>8. {messages'[k].event : k \in 1 .. m + 1} = {messages[k].event : k \in 1 .. m} \cup {n + 1}
  <2>1. \A k \in 1 .. m + 1 : k \in 1 .. m \/ k = m + 1
    BY <1>1
  <2>2. \A k \in 1 .. m : k \in 1 .. m + 1
    BY <1>1
  <2>3. m + 1 \in 1 .. m + 1
    BY <1>1
  <2>4. \A k \in 1 .. m : messages'[k].event = messages[k].event
    BY <1>3
  <2> QED
    BY <1>7, <2>1, <2>2, <2>3, <2>4
<1>9. {u \in 1 .. n + 1 : Complete(handled'[u])} = {u \in 1 .. n : Complete(handled[u])} \cup {n + 1}
  <2>1. \A u \in 1 .. n + 1 : u \in 1 .. n \/ u = n + 1
    BY <1>1, SMTT(30)
  <2>2. \A u \in 1 .. n : u \in 1 .. n + 1 /\ (Complete(handled'[u]) <=> Complete(handled[u]))
    BY <1>1
  <2>3. n + 1 \in 1 .. n + 1 /\ Complete(handled'[n + 1])
    BY <1>1, <1>2
  <2> QED
    BY <2>1, <2>2, <2>3
<1>10. AnsweredComplete'
  BY <1>1, <1>3, <1>5, <1>8, <1>9 DEF AnsweredComplete, Complete
<1>11. AnsweredInOrder'
  <2> SUFFICES ASSUME NEW v \in 1 .. m + 1, NEW k \in 1 .. m + 1, v < k
               PROVE  messages'[v].event < messages'[k].event
    BY <1>3 DEF AnsweredInOrder
  <2>0. m \in Nat /\ n \in Nat
    BY <1>1
  <2>1. v \in 1 .. m /\ (k = m + 1 \/ k \in 1 .. m)
    BY <2>0
  <2>2. messages'[v] = messages[v] /\ messages[v].event \in 1 .. n
    BY <1>3, <1>6, <2>1
  <2>3. CASE k = m + 1
    <3> HIDE RegisterTypes
    <3>1. \A u \in 1 .. n : u < n + 1
      BY <2>0
    <3>2. messages'[v].event < n + 1
      BY <2>2, <3>1
    <3> QED
      BY <1>7, <2>3, <3>2
  <2>4. CASE k \in 1 .. m
    <3>1. messages'[k] = messages[k]
      BY <1>3, <2>4
    <3>2. \A b, c \in 1 .. m : b < c => messages[b].event < messages[c].event
      BY DEF RegisterInv, AnsweredInOrder, m
    <3> QED
      BY <2>1, <2>2, <2>4, <3>1, <3>2
  <2> QED
    BY <2>1, <2>3, <2>4
<1>12. AnsweredAddress'
  <2> SUFFICES ASSUME NEW k \in 1 .. m + 1
               PROVE  /\ messages'[k].width \in {handled'[messages'[k].event].width, Room}
                      /\ messages'[k].width <= Room
    BY <1>3 DEF AnsweredAddress
  <2>1. CASE k = m + 1
    BY <1>1, <1>3, <2>1
  <2>2. CASE k \in 1 .. m
    <3>1. messages'[k] = messages[k] /\ handled'[messages[k].event] = handled[messages[k].event]
      BY <1>1, <1>3, <1>6, <2>2
    <3> QED
      BY <2>2, <3>1 DEF RegisterInv, AnsweredAddress, m
  <2>3. m \in Nat
    BY <1>1
  <2> QED
    BY <2>1, <2>2, <2>3
<1> QED
  BY <1>1, <1>2, <1>4, <1>10, <1>11, <1>12 DEF RegisterInv, EndedForAReason

LEMMA PollPasses ==
  ASSUME RegisterInv, Poll, ~Complete(Head(inbox))
  PROVE  RegisterInv'
<1> DEFINE e == Head(inbox)
           n == Len(handled)
           m == Len(messages)
<1> USE RegisterTypes
<1>1. /\ e \in AllEvents /\ n \in Nat /\ m \in Nat
      /\ handled' = Append(handled, e) /\ UNCHANGED <<link, messages>>
      /\ watcher' = IF Fatal(e) THEN "crashed" ELSE "polling"
      /\ handled' \in Seq(AllEvents) /\ Len(handled') = n + 1 /\ handled'[n + 1] = e
      /\ \A k \in 1 .. n : handled'[k] = handled[k]
      /\ inbox' \in Seq(AllEvents) /\ Len(inbox') + Len(handled') <= MaxEvents
  BY PollTypes
<1>2. Fatal(e) => ~(e.inner /\ e.user)
  BY <1>1, EventKinds
<1>3. Last(handled') = e
  BY <1>1 DEF Last
<1>4. ~Complete(e)
  OBVIOUS
<1> HIDE DEF e
<1>5. RegisterTypeOK'
  BY <1>1 DEF RegisterInv, RegisterTypeOK, AllEvents
<1>6. {messages[k].event : k \in 1 .. m} = {u \in 1 .. n : Complete(handled[u])}
  BY DEF RegisterInv, AnsweredComplete
<1>7. \A k \in 1 .. m : messages[k].event \in 1 .. n
  BY <1>6
<1> HIDE DEF n, m
<1>8. {u \in 1 .. n + 1 : Complete(handled'[u])} = {u \in 1 .. n : Complete(handled[u])}
  <2>1. \A u \in 1 .. n + 1 : u \in 1 .. n \/ u = n + 1
    BY <1>1
  <2>2. \A u \in 1 .. n : u \in 1 .. n + 1 /\ (Complete(handled'[u]) <=> Complete(handled[u]))
    BY <1>1
  <2>3. ~Complete(handled'[n + 1])
    BY <1>1, <1>4
  <2> QED
    BY <2>1, <2>2, <2>3
<1>9. AnsweredComplete'
  <2>1. messages' = messages /\ Len(handled') = n + 1
    BY <1>1
  <2> QED
    BY <1>6, <1>8, <2>1 DEF AnsweredComplete, Complete, m
<1>10. AnsweredAddress'
  <2> SUFFICES ASSUME NEW k \in 1 .. m
               PROVE  /\ messages[k].width \in {handled'[messages[k].event].width, Room}
                      /\ messages[k].width <= Room
    BY <1>1 DEF AnsweredAddress, m
  <2>1. handled'[messages[k].event] = handled[messages[k].event]
    BY <1>1, <1>7
  <2> QED
    BY <2>1 DEF RegisterInv, AnsweredAddress, m
<1>11. AnsweredInOrder'
  BY <1>1 DEF RegisterInv, AnsweredInOrder
<1>12. EndedForAReason'
  BY <1>1, <1>2, <1>3 DEF EndedForAReason
<1> QED
  BY <1>1, <1>5, <1>9, <1>10, <1>11, <1>12 DEF RegisterInv

LEMMA RegisterArrives ==
  ASSUME RegisterInv, NEW e \in AllEvents, Arrives(e)
  PROVE  RegisterInv'
<1> USE RegisterTypes
<1>1. /\ link /\ Len(inbox) + Len(handled) < MaxEvents /\ inbox' = Append(inbox, e)
      /\ UNCHANGED <<watcher, link, handled, messages>>
  BY DEF Arrives
<1>2. inbox' \in Seq(AllEvents) /\ Len(inbox') = Len(inbox) + 1
  <2>1. inbox \in Seq(AllEvents)
    BY DEF RegisterInv, RegisterTypeOK
  <2> QED
    BY <1>1, <2>1, AppendProperties
<1>3. RegisterTypeOK'
  BY <1>1, <1>2 DEF RegisterInv, RegisterTypeOK, AllEvents
<1>4. Len(inbox') + Len(handled') <= MaxEvents
  BY <1>1, <1>2
<1> HIDE RegisterTypes
<1>5. AnsweredComplete' /\ AnsweredInOrder' /\ AnsweredAddress'
  BY <1>1 DEF RegisterInv, AnsweredComplete, AnsweredInOrder, AnsweredAddress, Complete
<1>6. EndedForAReason'
  BY <1>1 DEF RegisterInv, EndedForAReason, Complete
<1> QED
  BY <1>3, <1>4, <1>5, <1>6 DEF RegisterInv

LEMMA RegisterStepKept ==
  ASSUME RegisterInv, RegisterNext
  PROVE  RegisterInv'
<1>1. CASE Subscribe \/ PollNothing \/ Wake \/ LinkFails
  <2>1. UNCHANGED <<inbox, handled, messages>>
    BY <1>1 DEF Subscribe, PollNothing, Wake, LinkFails
  <2>2. AnsweredComplete' /\ AnsweredInOrder' /\ AnsweredAddress'
    BY <2>1 DEF RegisterInv, AnsweredComplete, AnsweredInOrder, AnsweredAddress, Complete
  <2>3. CASE Subscribe \/ Wake
    BY <2>1, <2>2, <2>3 DEF Subscribe, Wake, RegisterInv, RegisterTypeOK, EndedForAReason
  <2>4. CASE PollNothing
    BY <2>1, <2>2, <2>4 DEF PollNothing, RegisterInv, RegisterTypeOK, EndedForAReason
  <2>5. CASE LinkFails
    BY <2>1, <2>2, <2>5 DEF LinkFails, RegisterInv, RegisterTypeOK, EndedForAReason
  <2> QED
    BY <1>1, <2>3, <2>4, <2>5
<1>2. CASE Poll
  BY <1>2, PollAnswers, PollPasses
<1> QED
  BY <1>1, <1>2, RegisterArrives DEF RegisterNext, RegisterStep, AllEvents

LEMMA RegisterStart == RegisterInit => RegisterInv
<1> SUFFICES ASSUME RegisterInit
             PROVE  RegisterInv
  OBVIOUS
<1>1. RegisterTypeOK
  BY DEF RegisterInit, RegisterTypeOK
<1> QED
  BY <1>1, EslRegisterAssumption
  DEF EslRegisterAssumption, RegisterInit, RegisterInv, AnsweredComplete, AnsweredInOrder,
      AnsweredAddress, EndedForAReason

LEMMA RegisterStays ==
  ASSUME RegisterInv, UNCHANGED registerVars
  PROVE  RegisterInv'
  BY DEF RegisterInv, RegisterTypeOK, AnsweredComplete, AnsweredInOrder, AnsweredAddress,
         EndedForAReason, Complete, registerVars

LEMMA RegisterAnswers ==
  ASSUME RegisterInv
  PROVE  AnswersRegistrations
  BY DEF RegisterInv, AnsweredComplete, AnsweredInOrder, AnsweredAddress, EndedForAReason,
         Complete, AnswersRegistrations

\* Every complete registration that was polled for is answered once and in order, and no
\* other event is (FreeSwitch/Inbond_test/testclient.c).
THEOREM RegistrationsAnswered == RegisterSpec => [](RegisterTypeOK /\ AnswersRegistrations)
<1>1. RegisterInv /\ [RegisterNext]_registerVars => RegisterInv'
  BY RegisterStepKept, RegisterStays
<1>2. RegisterInv => RegisterTypeOK /\ AnswersRegistrations
  BY RegisterAnswers DEF RegisterInv
<1> QED
  BY <1>1, <1>2, RegisterStart, PTL DEF RegisterSpec

-----------------------------------------------------------------------------
(* Side by side: a step of the seven programs is a step of one of them, and *)
(* leaves the others as they are.                                          *)

LEMMA StepsApart ==
  ASSUME [ProgramsNext]_<<program, programVars>>
  PROVE  /\ [Next]_vars /\ [StoreNext]_storeVars /\ [HistoryNext]_historyVars
         /\ [ScrapeNext]_scrapeVars /\ [SessionNext]_sessionVars
         /\ [RegisterNext]_registerVars /\ [McastNext]_mcastVars
<1>1. CASE UNCHANGED <<program, programVars>>
  BY <1>1 DEF programVars
<1>2. CASE ProgramsNext
  BY <1>2 DEF ProgramsNext, Others
<1> QED
  BY <1>1, <1>2

\* Side by side every program does what it does by itself.
THEOREM EachByItself ==
  ProgramsSpec => /\ FindSteps /\ StoreSpec /\ HistorySpec /\ ScrapeSpec
                  /\ SessionSpec /\ RegisterSpec /\ McastSpec
<1>1. ProgramsInit => /\ Init /\ StoreInit /\ HistoryInit /\ ScrapeInit /\ SessionInit
                      /\ RegisterInit /\ McastInit
  BY DEF ProgramsInit
<1> QED
  BY <1>1, StepsApart, PTL
  DEF ProgramsSpec, FindSteps, StoreSpec, HistorySpec, ScrapeSpec, SessionSpec, RegisterSpec, McastSpec

\* The history store's tables have no hole, the scraper's file shows one stock as far as
\* it could be read, and the multicast receiver prints what its socket took up.
THEOREM ScriptsAreSound == ProgramsSpec => []ScriptsSound
<1>1. StoreInv => StoreTypeOK
  BY DEF StoreInv
<1>2. /\ StoreTypeOK /\ HistoryTypeOK /\ NoHoles /\ ScrapeTypeOK /\ FileShowsLast
      /\ SessionTypeOK /\ RegisterTypeOK /\ McastSound
      => ScriptsSound
  BY DEF ScriptsSound, ProgramsTypeOK
<1> QED
  BY <1>1, <1>2, EachByItself, StoreInvariant, HistoryHasNoHoles, ScrapeKeepsLast,
     SessionLingersFive, RegistrationsAnswered, McastPrintsWhatArrives, PTL

\* Side by side, too, find_number prints the pairs that are there, a second run of the
\* store spoils nothing, a session lingers its five seconds and the watcher answers the
\* registrations.
THEOREM ProgramsAreRight ==
  ProgramsSpec => [](Answers /\ StoreSound /\ LingersFive /\ AnswersRegistrations)
  BY EachByItself, FindCorrect, StoreIsSound, SessionLingersFive, RegistrationsAnswered, PTL
=============================================================================
