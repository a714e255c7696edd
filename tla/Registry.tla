------------------------------- MODULE Registry -----------------------------
(***************************************************************************)
(* The registry of spdlog (details/registry-inl.h, spdlog-inl.h, with the  *)
(* factories of details/synchronous_factory.h and async.h): the loggers by *)
(* their names, the default logger, the settings that new loggers get and  *)
(* the thread pool.  Every operation holds a mutex, but shutdown is three  *)
(* operations.  A setting stands for each of level, flush level, error     *)
(* handler and (if no two loggers share a sink, where it is kept)          *)
(* formatter, which are all handed on in the same way.                     *)
(***************************************************************************)
EXTENDS Integers, FiniteSets, Functions

CONSTANTS
  Names,        \* without that of the default logger
  Settings,
  MaxLoggers    \* bound: the loggers and pools ever made

default_logger_name == ""

ASSUME RegistryAssumption == default_logger_name \notin Names /\ Settings # {} /\ MaxLoggers \in Nat

VARIABLES
  loggers_,     \* name to logger
  default_logger_,
  setting_,     \* level_, flush_level_, formatter_, err_handler_
  automatic_registration_,
  tp_,          \* the pool, by number
  stopping,     \* shutdown has called drop_all and not yet reset the pool
  made,         \* the loggers ever made, each with its name, setting and pool
  pools,        \* the pools ever made
  byHand,       \* history: the loggers whose setting was last their own affair
  orphans       \* history: the loggers whose pool was replaced, or that were made or
                \* registered while stopping or after the pool had gone

registryVars ==
  <<loggers_, default_logger_, setting_, automatic_registration_, tp_, stopping, made, pools, byHand, orphans>>

Nothing_ == 0

RegistryTypeOK ==
  /\ DOMAIN loggers_ \subseteq Names \cup {default_logger_name} /\ Range(loggers_) \subseteq DOMAIN made
  /\ default_logger_ \in DOMAIN made \cup {Nothing_} /\ setting_ \in Settings
  /\ automatic_registration_ \in BOOLEAN /\ stopping \in BOOLEAN
  /\ tp_ \in 0 .. pools /\ pools \in 0 .. MaxLoggers
  /\ DOMAIN made \subseteq 1 .. MaxLoggers + 1
  /\ \A g \in DOMAIN made :
       made[g] \in [name : Names \cup {default_logger_name}, setting : Settings, pool : 0 .. pools]
  /\ byHand \cup orphans \subseteq DOMAIN made

\* The constructor, with the default logger.
RegistryInit ==
  /\ setting_ \in Settings
  /\ made = [g \in {1} |-> [name |-> default_logger_name, setting |-> setting_, pool |-> Nothing_]]
  /\ loggers_ = [n \in {default_logger_name} |-> 1] /\ default_logger_ = 1
  /\ automatic_registration_ = TRUE /\ tp_ = Nothing_ /\ pools = 0 /\ stopping = FALSE
  /\ byHand = {} /\ orphans = {}

Fresh == Cardinality(DOMAIN made) + 1
Make(name, setting, pool) ==
  /\ Fresh <= MaxLoggers + 1
  /\ made' = [g \in DOMAIN made \cup {Fresh} |->
                IF g = Fresh THEN [name |-> name, setting |-> setting, pool |-> pool] ELSE made[g]]

\* loggers_[name] = g.
Enter(name, g) == [n \in DOMAIN loggers_ \cup {name} |-> IF n = name THEN g ELSE loggers_[n]]
Leave_(names) == [n \in DOMAIN loggers_ \ names |-> loggers_[n]]
Users(pool) == {g \in DOMAIN made : made[g].pool = pool /\ pool # Nothing_}
Stranded(g) ==
  IF g # Nothing_ /\ made[g].pool # Nothing_ /\ (made[g].pool # tp_ \/ stopping) THEN {g} ELSE {}

\* get_tp, and set_tp if there is none.
EnsurePool(async) ==
  IF async /\ tp_ = Nothing_ THEN pools < MaxLoggers /\ pools' = pools + 1 /\ tp_' = pools + 1
  ELSE UNCHANGED <<tp_, pools>>

\* create of either factory: the sink, the logger, and initialize_logger, which
\* throws if the name is taken; the logger is then destroyed with the exception.
Create(name, async) ==
  /\ EnsurePool(async)
  /\ IF automatic_registration_ /\ name \in DOMAIN loggers_ THEN UNCHANGED <<made, loggers_, orphans>>
     ELSE /\ Make(name, setting_, IF async THEN tp_' ELSE Nothing_)
          /\ loggers_' = IF automatic_registration_ THEN Enter(name, Fresh) ELSE loggers_
          /\ orphans' = IF async /\ stopping THEN orphans \cup {Fresh} ELSE orphans
  /\ UNCHANGED <<default_logger_, setting_, automatic_registration_, stopping, byHand>>

\* A logger the user has made, with a setting of its own.
Construct(name, setting) ==
  /\ Make(name, setting, Nothing_) /\ byHand' = byHand \cup {Fresh}
  /\ UNCHANGED <<loggers_, default_logger_, setting_, automatic_registration_, tp_, stopping, pools, orphans>>

\* register_logger, for any logger the user still has; it throws if the name is taken.
Register_(g) ==
  /\ made[g].name \notin DOMAIN loggers_
  /\ loggers_' = Enter(made[g].name, g)
  /\ byHand' = byHand \cup {g} /\ orphans' = orphans \cup Stranded(g)
  /\ UNCHANGED <<default_logger_, setting_, automatic_registration_, tp_, stopping, made, pools>>

\* set_default_logger, with a null pointer too.
SetDefault(g) ==
  /\ LET left == IF default_logger_ = Nothing_ THEN loggers_
                 ELSE Leave_({made[default_logger_].name})
     IN  loggers_' = IF g = Nothing_ THEN left
                     ELSE [n \in DOMAIN left \cup {made[g].name} |->
                             IF n = made[g].name THEN g ELSE left[n]]
  /\ default_logger_' = g
  /\ byHand' = byHand \cup ({g} \ {Nothing_}) /\ orphans' = orphans \cup Stranded(g)
  /\ UNCHANGED <<setting_, automatic_registration_, tp_, stopping, made, pools>>

\* Mutant: the default logger is kept when it is dropped from the map.
DropKeepsDefault(name) ==
  /\ loggers_' = Leave_({name})
  /\ UNCHANGED <<default_logger_, setting_, automatic_registration_, tp_, stopping, made, pools, byHand, orphans>>

Drop(name) ==
  /\ loggers_' = Leave_({name})
  /\ default_logger_' = IF default_logger_ # Nothing_ /\ made[default_logger_].name = name
                        THEN Nothing_ ELSE default_logger_
  /\ UNCHANGED <<setting_, automatic_registration_, tp_, stopping, made, pools, byHand, orphans>>

ClearLoggers == loggers_' = Leave_(DOMAIN loggers_) /\ default_logger_' = Nothing_

DropAll_ ==
  /\ ClearLoggers
  /\ UNCHANGED <<setting_, automatic_registration_, tp_, stopping, made, pools, byHand, orphans>>

\* set_level, flush_on, set_formatter and set_error_handler.
SetSetting(setting) ==
  /\ setting_' = setting
  /\ made' = [g \in DOMAIN made |->
                IF g \in Range(loggers_) THEN [made[g] EXCEPT !.setting = setting] ELSE made[g]]
  /\ byHand' = byHand \ Range(loggers_)
  /\ UNCHANGED <<loggers_, default_logger_, automatic_registration_, tp_, stopping, pools, orphans>>

\* set_level and so on of a logger.
SetOwn(g, setting) ==
  /\ made' = [made EXCEPT ![g].setting = setting] /\ byHand' = byHand \cup {g}
  /\ UNCHANGED <<loggers_, default_logger_, setting_, automatic_registration_, tp_, stopping, pools, orphans>>

SetAutomaticRegistration ==
  /\ automatic_registration_' = ~automatic_registration_
  /\ UNCHANGED <<loggers_, default_logger_, setting_, tp_, stopping, made, pools, byHand, orphans>>

\* init_thread_pool: the former pool, if any, is destroyed.
InitThreadPool ==
  /\ pools < MaxLoggers /\ pools' = pools + 1 /\ tp_' = pools + 1
  /\ orphans' = orphans \cup Users(tp_)
  /\ UNCHANGED <<loggers_, default_logger_, setting_, automatic_registration_, stopping, made, byHand>>

\* shutdown, once the flusher has stopped: drop_all ...
ShutdownDrops ==
  /\ ~stopping /\ stopping' = TRUE /\ ClearLoggers
  /\ UNCHANGED <<setting_, automatic_registration_, tp_, made, pools, byHand, orphans>>

\* ... and then, in a critical section of its own, tp_.reset().
ShutdownResets ==
  /\ stopping /\ stopping' = FALSE /\ tp_' = Nothing_
  /\ UNCHANGED <<loggers_, default_logger_, setting_, automatic_registration_, made, pools, byHand, orphans>>

RegistryNext ==
  \/ \E name \in Names : (\E b \in BOOLEAN : Create(name, b)) \/ \E s \in Settings : Construct(name, s)
  \/ \E name \in Names \cup {default_logger_name} : Drop(name)
  \/ \E g \in DOMAIN made : Register_(g) \/ SetDefault(g) \/ \E s \in Settings : SetOwn(g, s)
  \/ SetDefault(Nothing_) \/ DropAll_ \/ (\E s \in Settings : SetSetting(s))
  \/ SetAutomaticRegistration \/ InitThreadPool \/ ShutdownDrops \/ ShutdownResets

RegistrySpec == RegistryInit /\ [][RegistryNext]_registryVars

-----------------------------------------------------------------------------
(* Properties.                                                             *)

\* A logger is found under its own name, and the default logger, if there is one,
\* is what its name finds: whatever is dropped, replaced or registered meanwhile,
\* nobody logs through a default logger that the registry no longer owns.
NamesTrue ==
  /\ \A n \in DOMAIN loggers_ : made[loggers_[n]].name = n
  /\ default_logger_ # Nothing_ =>
       LET name == made[default_logger_].name IN
       name \in DOMAIN loggers_ /\ loggers_[name] = default_logger_

\* A registered logger has the registry's setting, unless it was registered by hand
\* or set by itself after that.
SettingsFollow ==
  \A g \in Range(loggers_) : made[g].setting = setting_ \/ g \in byHand

\* A registered asynchronous logger has a thread pool, unless it was made between
\* two steps of shutdown, registered again after one, or had its pool replaced.
PoolsLive ==
  \A g \in Range(loggers_) : made[g].pool \in {Nothing_, tp_} \/ g \in orphans
=============================================================================
