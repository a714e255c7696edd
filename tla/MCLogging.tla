------------------------------- MODULE MCLogging ----------------------------
(***************************************************************************)
(* Small instances of the parts of spdlog that share no state in these     *)
(* models: the two file sinks, the duplicate filter, the loggers and the   *)
(* registry.  Every behaviour follows one of them.                         *)
(***************************************************************************)
EXTENDS RotatingFile, DailyFile, DupFilter, Logger, Registry

VARIABLE part

MCSinkList == <<"x", "y">>

loggingVars == <<rotVars, dailyVars, dupVars, loggerVars, registryVars>>

LoggingInit ==
  /\ part \in {"rotating", "daily", "filter", "logger", "registry"}
  /\ RotInit /\ DailyInit /\ DupInit /\ LoggerInit /\ RegistryInit
  /\ part # "daily" => hour = 0 /\ ~wipes
  /\ part # "logger" => levels.flush = {Off}
  /\ part # "registry" => setting_ = 1

LoggingNext ==
  /\ UNCHANGED part
  /\ \/ part = "rotating" /\ RotNext
     \/ part = "daily" /\ DailyNext
     \/ part = "filter" /\ DupNext
     \/ part = "logger" /\ LoggerNext
     \/ part = "registry" /\ RegistryNext
  /\ part # "rotating" => UNCHANGED rotVars
  /\ part # "daily" => UNCHANGED dailyVars
  /\ part # "filter" => UNCHANGED dupVars
  /\ part # "logger" => UNCHANGED loggerVars
  /\ part # "registry" => UNCHANGED registryVars

LoggingSpec == LoggingInit /\ [][LoggingNext]_<<part, loggingVars>>

\* What the file sinks leave on disk is in order and complete, but for messages that
\* were the oldest or were reported lost, no file outgrows its size or holds another
\* day's messages, and a failed rotation does not make them write to a closed file,
\* unless messages come out of order.
FilesSound ==
  RotTypeOK /\ DailyTypeOK /\ OldestGoFirst /\ SizeLimited /\ DaysKept /\ NullNeedsDisorder

\* Sinks get and flush what their loggers and the duplicate filter owe them, whatever
\* other sinks throw and other threads set, and failures are counted and reported.
SinksSound ==
  LoggerTypeOK /\ DupTypeOK /\ SinksServed /\ FlushedAfter /\ ErrorsCounted
    /\ SkippedForAnEqual /\ SkipsReported

\* The registry's names, its default logger and its settings fit its loggers, and
\* these have a thread pool, whatever is dropped, replaced and shut down.
RegistrySound == RegistryTypeOK /\ NamesTrue /\ SettingsFollow /\ PoolsLive
=============================================================================
