---------------------------- MODULE MCPrograms -----------------------------
(***************************************************************************)
(* Small instances of seven programs that share nothing: find_number, the  *)
(* two stock stores and the scraper, the two FreeSWITCH programs and the   *)
(* multicast test.                                                         *)
(* What holds of each in every run of its own holds of it beside the       *)
(* others, so that every behaviour here follows only one of them.          *)
(***************************************************************************)
EXTENDS FindNumber, StockStore, StockHistory, StockScraper, EslSession, EslRegister, Mcast

CONSTANTS s1, s2, m1, m2, m3

VARIABLE program

MCList == <<s1, s2>>
MCTables == {s1}
MCQuarters == <<"q1", "q2">>
MCSenders == {m1, m2, m3}
MCValues == {1, 2, 3, 5, 9}
MCTargets == 0 .. 13

programVars ==
  <<vars, storeVars, historyVars, scrapeVars, sessionVars, registerVars, mcastVars>>

ProgramsInit ==
  /\ program \in {"find", "store", "history", "scraper", "session", "register", "mcast"}
  /\ Init /\ (program # "find" => length = 0 /\ target = 0)
  /\ StoreInit /\ HistoryInit /\ ScrapeInit /\ SessionInit /\ RegisterInit /\ McastInit

Others(p) ==
  /\ p # "find" => UNCHANGED vars
  /\ p # "store" => UNCHANGED storeVars
  /\ p # "history" => UNCHANGED historyVars
  /\ p # "scraper" => UNCHANGED scrapeVars
  /\ p # "session" => UNCHANGED sessionVars
  /\ p # "register" => UNCHANGED registerVars
  /\ p # "mcast" => UNCHANGED mcastVars

ProgramsNext ==
  /\ UNCHANGED program
  /\ \/ program = "find" /\ Next
     \/ program = "store" /\ StoreNext
     \/ program = "history" /\ HistoryNext
     \/ program = "scraper" /\ ScrapeNext
     \/ program = "session" /\ SessionNext
     \/ program = "register" /\ RegisterNext
     \/ program = "mcast" /\ McastNext
  /\ Others(program)

\* find_number and the watcher's thread are scheduled.
ProgramsSpec ==
  /\ ProgramsInit /\ [][ProgramsNext]_<<program, programVars>>
  /\ WF_programVars(program = "register" /\ RegisterStep /\ UNCHANGED program /\ Others("register"))
  /\ WF_programVars(program = "find" /\ Next /\ UNCHANGED program /\ Others("find"))

\* Type correctness of the programs.
ProgramsTypeOK ==
  /\ StoreTypeOK /\ HistoryTypeOK /\ ScrapeTypeOK /\ SessionTypeOK /\ RegisterTypeOK

\* What the history store leaves in its tables has no hole, the scraper's file shows
\* one stock as far as it could be read, and the multicast receiver prints what its
\* socket took up: none of them mixes up, repeats or skips what it was given.
ScriptsSound == ProgramsTypeOK /\ NoHoles /\ FileShowsLast /\ McastSound

\* find_number returns: on every call one of the indices moves or the loop ends.  The
\* watcher gets to every event.
ProgramsReturn == (program = "find" => Returns) /\ EventsHandled
=============================================================================
