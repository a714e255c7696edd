--------------------------- MODULE Logging_proofs ---------------------------
(***************************************************************************)
(* Proofs about the parts of spdlog that share no state in these models,   *)
(* for every value of their constants, each by itself and, at the end, in  *)
(* the module that runs them side by side.                                 *)
(***************************************************************************)
EXTENDS MCLogging, Totals_proofs, FiniteSetTheorems, SequenceTheorems, TLAPS

-----------------------------------------------------------------------------
(* The registry.  PoolsLive needs to know that what is registered between  *)
(* the two steps of a shutdown is known to be an orphan, for the second one*)
(* takes the pool away from whoever is registered then.                    *)

Numbered == DOMAIN made = 1 .. Cardinality(DOMAIN made)

OrphansKnown ==
  stopping => \A g \in Range(loggers_) : made[g].pool = Nothing_ \/ g \in orphans

RegistryInv ==
  /\ RegistryTypeOK /\ Numbered /\ OrphansKnown
  /\ NamesTrue /\ SettingsFollow /\ PoolsLive

LEMMA NumberedFacts ==
  ASSUME RegistryInv
  PROVE  LET n == Cardinality(DOMAIN made) IN
         /\ n \in Nat /\ DOMAIN made = 1 .. n /\ Fresh = n + 1 /\ Fresh \notin DOMAIN made
         /\ Nothing_ \notin DOMAIN made
<1> DEFINE n == Cardinality(DOMAIN made)
<1>1. DOMAIN made = 1 .. n
  BY DEF RegistryInv, Numbered
<1>2. DOMAIN made \subseteq 1 .. MaxLoggers + 1 /\ MaxLoggers + 1 \in Nat
  BY RegistryAssumption DEF RegistryInv, RegistryTypeOK, RegistryAssumption
<1>3. IsFiniteSet(DOMAIN made)
  <2>1. IsFiniteSet(1 .. MaxLoggers + 1)
    BY <1>2, FS_Interval
  <2> QED
    BY <1>2, <2>1, FS_Subset
<1>4. n \in Nat
  BY <1>3, FS_CardinalityType
<1> HIDE DEF n
<1> QED
  BY <1>1, <1>4 DEF Fresh, n, Nothing_

\* A new logger takes the next number.
LEMMA MakeKept ==
  ASSUME RegistryInv, NEW name \in Names \cup {default_logger_name}, NEW setting \in Settings,
         NEW pool \in 0 .. pools', pools' \in 0 .. MaxLoggers, pools <= pools',
         Make(name, setting, pool)
  PROVE  /\ DOMAIN made' = DOMAIN made \cup {Fresh} /\ Numbered'
         /\ DOMAIN made' \subseteq 1 .. MaxLoggers + 1
         /\ \A g \in DOMAIN made : made'[g] = made[g]
         /\ made'[Fresh] = [name |-> name, setting |-> setting, pool |-> pool]
         /\ \A g \in DOMAIN made' :
              made'[g] \in [name : Names \cup {default_logger_name}, setting : Settings, pool : 0 .. pools']
<1> DEFINE n == Cardinality(DOMAIN made)
<1>1. n \in Nat /\ DOMAIN made = 1 .. n /\ Fresh = n + 1 /\ Fresh \notin DOMAIN made
  BY NumberedFacts
<1>2. /\ Fresh <= MaxLoggers + 1
      /\ made' = [g \in DOMAIN made \cup {Fresh} |->
                    IF g = Fresh THEN [name |-> name, setting |-> setting, pool |-> pool]
                    ELSE made[g]]
  BY DEF Make
<1> HIDE DEF n
<1>3. /\ DOMAIN made' = DOMAIN made \cup {Fresh}
      /\ \A g \in DOMAIN made : made'[g] = made[g]
      /\ made'[Fresh] = [name |-> name, setting |-> setting, pool |-> pool]
  BY <1>1, <1>2
<1>4. DOMAIN made' = 1 .. n + 1
  BY <1>1, <1>3
<1>5. Numbered'
  <2>1. Cardinality(1 .. n + 1) = n + 1
    BY <1>1, FS_Interval
  <2> QED
    BY <1>4, <2>1 DEF Numbered
<1>6. \A g \in DOMAIN made :
        made[g] \in [name : Names \cup {default_logger_name}, setting : Settings, pool : 0 .. pools']
  <2>1. pools \in Nat /\ 0 .. pools \subseteq 0 .. pools'
    BY RegistryAssumption DEF RegistryInv, RegistryTypeOK, RegistryAssumption
  <2> QED
    BY <2>1 DEF RegistryInv, RegistryTypeOK
<1>7. DOMAIN made' \subseteq 1 .. MaxLoggers + 1
  BY <1>1, <1>2, <1>4, RegistryAssumption DEF RegistryAssumption
<1> QED
  BY <1>3, <1>5, <1>6, <1>7

LEMMA RegistryTypes ==
  ASSUME RegistryInv
  PROVE  /\ RegistryTypeOK /\ NamesTrue /\ SettingsFollow /\ PoolsLive /\ OrphansKnown /\ Numbered
         /\ MaxLoggers \in Nat /\ pools \in Nat /\ tp_ \in Nat
         /\ default_logger_name \notin Names
         /\ \A n \in DOMAIN loggers_ :
              loggers_[n] \in DOMAIN made /\ loggers_[n] \in Range(loggers_)
         /\ \A g \in DOMAIN made :
              /\ g # Nothing_
              /\ made[g] \in [name : Names \cup {default_logger_name}, setting : Settings, pool : 0 .. pools]
<1>1. RegistryTypeOK
  BY DEF RegistryInv
<1>2. MaxLoggers \in Nat /\ default_logger_name \notin Names
  BY RegistryAssumption DEF RegistryAssumption
<1>3. pools \in Nat /\ tp_ \in Nat
  BY <1>1, <1>2 DEF RegistryTypeOK
<1>4. \A n \in DOMAIN loggers_ :
        loggers_[n] \in DOMAIN made /\ loggers_[n] \in Range(loggers_)
  BY <1>1 DEF RegistryTypeOK, Range
<1>5. \A g \in DOMAIN made : g # Nothing_
  BY NumberedFacts
<1> QED
  BY <1>1, <1>2, <1>3, <1>4, <1>5 DEF RegistryInv, RegistryTypeOK

\* What the map is after a logger is entered under a name, and after names have left.
LEMMA EnterFacts ==
  ASSUME NEW name, NEW g
  PROVE  /\ DOMAIN Enter(name, g) = DOMAIN loggers_ \cup {name}
         /\ Enter(name, g)[name] = g
         /\ \A n \in DOMAIN loggers_ : n # name => Enter(name, g)[n] = loggers_[n]
         /\ Range(Enter(name, g)) \subseteq Range(loggers_) \cup {g}
  BY DEF Enter, Range

LEMMA LeaveFacts ==
  ASSUME NEW names
  PROVE  /\ DOMAIN Leave_(names) = DOMAIN loggers_ \ names
         /\ \A n \in DOMAIN loggers_ \ names : Leave_(names)[n] = loggers_[n]
         /\ Range(Leave_(names)) \subseteq Range(loggers_)
  BY DEF Leave_, Range

LEMMA CreateKept ==
  ASSUME RegistryInv, NEW name \in Names, NEW async \in BOOLEAN, Create(name, async)
  PROVE  RegistryInv'
<1> USE RegistryTypes
<1>1. /\ UNCHANGED <<default_logger_, setting_, automatic_registration_, stopping, byHand>>
      /\ tp_' \in 0 .. pools' /\ pools' \in 0 .. MaxLoggers /\ pools <= pools'
      /\ tp_' = tp_ \/ tp_ = Nothing_
      /\ async => tp_' # Nothing_
  BY DEF Create, EnsurePool, RegistryTypeOK, Nothing_
<1>2. CASE UNCHANGED <<made, loggers_, orphans>>
  <2>1. \A g \in DOMAIN made :
          made[g] \in [name : Names \cup {default_logger_name}, setting : Settings, pool : 0 .. pools']
    BY <1>1
  <2>2. RegistryTypeOK'
    BY <1>1, <1>2, <2>1 DEF RegistryTypeOK
  <2> QED
    BY <1>1, <1>2, <2>2
    DEF RegistryInv, Numbered, OrphansKnown, NamesTrue, SettingsFollow, PoolsLive
<1>3. CASE ~ UNCHANGED <<made, loggers_, orphans>>
  <2> DEFINE pool == IF async THEN tp_' ELSE Nothing_
  <2>1. /\ Make(name, setting_, pool)
        /\ automatic_registration_ => name \notin DOMAIN loggers_
        /\ loggers_' = IF automatic_registration_ THEN Enter(name, Fresh) ELSE loggers_
        /\ orphans' = IF async /\ stopping THEN orphans \cup {Fresh} ELSE orphans
    BY <1>3 DEF Create
  <2>2. pool \in 0 .. pools' /\ pool \in {Nothing_, tp_'}
    BY <1>1 DEF Nothing_
  <2>3. setting_ \in Settings /\ name \in Names \cup {default_logger_name}
    BY DEF RegistryTypeOK
  <2> HIDE DEF pool
  <2>4. /\ DOMAIN made' = DOMAIN made \cup {Fresh} /\ Numbered'
        /\ DOMAIN made' \subseteq 1 .. MaxLoggers + 1
        /\ \A g \in DOMAIN made : made'[g] = made[g]
        /\ made'[Fresh] = [name |-> name, setting |-> setting_, pool |-> pool]
        /\ \A g \in DOMAIN made' :
             made'[g] \in [name : Names \cup {default_logger_name}, setting : Settings, pool : 0 .. pools']
    BY <1>1, <2>1, <2>2, <2>3, MakeKept
  <2> DEFINE F == Fresh
  <2>5. F \notin DOMAIN made /\ F \notin Range(loggers_)
    BY NumberedFacts DEF RegistryTypeOK
  <2>6. /\ DOMAIN loggers_' \subseteq DOMAIN loggers_ \cup {name}
        /\ Range(loggers_') \subseteq Range(loggers_) \cup {F}
        /\ DOMAIN loggers_ \subseteq DOMAIN loggers_'
        /\ \A n \in DOMAIN loggers_ : loggers_'[n] = loggers_[n]
        /\ \A n \in DOMAIN loggers_' : n \in DOMAIN loggers_ \/ (n = name /\ loggers_'[n] = F)
    <3>1. CASE automatic_registration_
      <4>1. loggers_' = Enter(name, F) /\ \A n \in DOMAIN loggers_ : n # name
        BY <2>1, <3>1
      <4> HIDE DEF F
      <4>2. /\ DOMAIN Enter(name, F) = DOMAIN loggers_ \cup {name}
            /\ Enter(name, F)[name] = F
            /\ \A n \in DOMAIN loggers_ : n # name => Enter(name, F)[n] = loggers_[n]
            /\ Range(Enter(name, F)) \subseteq Range(loggers_) \cup {F}
        BY EnterFacts
      <4> QED
        BY <4>1, <4>2
    <3>2. CASE ~automatic_registration_
      BY <2>1, <3>2
    <3> QED
      BY <3>1, <3>2
  <2>7. made'[F].name = name /\ made'[F].setting = setting_ /\ made'[F].pool = pool
    BY <2>4
  <2> HIDE DEF F
  <2>8. RegistryTypeOK'
    BY <1>1, <2>1, <2>3, <2>4, <2>6 DEF RegistryTypeOK, F
  <2>9. NamesTrue'
    BY <1>1, <2>4, <2>5, <2>6, <2>7 DEF NamesTrue, RegistryTypeOK
  <2>10. SettingsFollow'
    BY <1>1, <2>4, <2>6, <2>7 DEF SettingsFollow, RegistryTypeOK
  <2>11. PoolsLive'
    BY <1>1, <2>1, <2>2, <2>4, <2>6, <2>7 DEF PoolsLive, RegistryTypeOK, F
  <2>12. OrphansKnown'
    BY <1>1, <2>1, <2>2, <2>4, <2>6, <2>7 DEF OrphansKnown, RegistryTypeOK, F, pool
  <2> QED
    BY <2>4, <2>8, <2>9, <2>10, <2>11, <2>12 DEF RegistryInv
<1> QED
  BY <1>2, <1>3

LEMMA ConstructKept ==
  ASSUME RegistryInv, NEW name \in Names, NEW setting \in Settings, Construct(name, setting)
  PROVE  RegistryInv'
<1> USE RegistryTypes
<1>1. /\ Make(name, setting, Nothing_) /\ byHand' = byHand \cup {Fresh}
      /\ UNCHANGED <<loggers_, default_logger_, setting_, automatic_registration_, tp_, stopping,
                     pools, orphans>>
  BY DEF Construct
<1>2. Nothing_ \in 0 .. pools' /\ pools' \in 0 .. MaxLoggers /\ pools <= pools'
  BY <1>1 DEF RegistryTypeOK, Nothing_
<1>3. /\ DOMAIN made' = DOMAIN made \cup {Fresh} /\ Numbered'
      /\ DOMAIN made' \subseteq 1 .. MaxLoggers + 1
      /\ \A g \in DOMAIN made : made'[g] = made[g]
      /\ \A g \in DOMAIN made' :
           made'[g] \in [name : Names \cup {default_logger_name}, setting : Settings, pool : 0 .. pools']
  BY <1>1, <1>2, MakeKept
<1>4. RegistryTypeOK'
  BY <1>1, <1>3 DEF RegistryTypeOK
<1>5. \A g \in Range(loggers_) : g \in DOMAIN made
  BY DEF RegistryTypeOK
<1> QED
  BY <1>1, <1>3, <1>4, <1>5
  DEF RegistryInv, NamesTrue, SettingsFollow, PoolsLive, OrphansKnown, RegistryTypeOK

LEMMA RegisterKept ==
  ASSUME RegistryInv, NEW g \in DOMAIN made, Register_(g)
  PROVE  RegistryInv'
<1> USE RegistryTypes
<1> DEFINE name == made[g].name
<1>1. /\ name \notin DOMAIN loggers_ /\ loggers_' = Enter(name, g)
      /\ byHand' = byHand \cup {g} /\ orphans' = orphans \cup Stranded(g)
      /\ UNCHANGED <<default_logger_, setting_, automatic_registration_, tp_, stopping, made, pools>>
  BY DEF Register_
<1>2. /\ DOMAIN loggers_' = DOMAIN loggers_ \cup {name} /\ loggers_'[name] = g
      /\ \A n \in DOMAIN loggers_ : loggers_'[n] = loggers_[n]
      /\ Range(loggers_') \subseteq Range(loggers_) \cup {g}
  <2>1. \A n \in DOMAIN loggers_ : n # name
    BY <1>1
  <2> HIDE DEF name
  <2>2. /\ DOMAIN Enter(name, g) = DOMAIN loggers_ \cup {name}
        /\ Enter(name, g)[name] = g
        /\ \A n \in DOMAIN loggers_ : n # name => Enter(name, g)[n] = loggers_[n]
        /\ Range(Enter(name, g)) \subseteq Range(loggers_) \cup {g}
    BY EnterFacts
  <2> QED
    BY <1>1, <2>1, <2>2 DEF name
<1>3. name \in Names \cup {default_logger_name} /\ Stranded(g) \subseteq {g}
  BY DEF Stranded
<1>4. \/ made[g].pool = Nothing_
      \/ made[g].pool = tp_ /\ ~stopping
      \/ g \in Stranded(g)
  BY DEF Stranded
<1> HIDE DEF name
<1>5. RegistryTypeOK'
  BY <1>1, <1>2, <1>3 DEF RegistryTypeOK
<1>6. NamesTrue'
  BY <1>1, <1>2 DEF NamesTrue, name
<1>7. SettingsFollow' /\ PoolsLive' /\ OrphansKnown'
  BY <1>1, <1>2, <1>4 DEF SettingsFollow, PoolsLive, OrphansKnown
<1> QED
  BY <1>1, <1>5, <1>6, <1>7 DEF RegistryInv, Numbered

\* The former default logger leaves under its name; the new one, if any, replaces
\* whoever has its name.
LEMMA SetDefaultKept ==
  ASSUME RegistryInv, NEW g \in DOMAIN made \cup {Nothing_}, SetDefault(g)
  PROVE  RegistryInv'
<1> USE RegistryTypes
<1> DEFINE left == IF default_logger_ = Nothing_ THEN loggers_
                   ELSE Leave_({made[default_logger_].name})
<1>1. /\ loggers_' = IF g = Nothing_ THEN left
                     ELSE [n \in DOMAIN left \cup {made[g].name} |->
                             IF n = made[g].name THEN g ELSE left[n]]
      /\ default_logger_' = g
      /\ byHand' = byHand \cup ({g} \ {Nothing_}) /\ orphans' = orphans \cup Stranded(g)
      /\ UNCHANGED <<setting_, automatic_registration_, tp_, stopping, made, pools>>
  BY DEF SetDefault
<1>2. /\ DOMAIN left \subseteq DOMAIN loggers_ /\ Range(left) \subseteq Range(loggers_)
      /\ \A n \in DOMAIN left : left[n] = loggers_[n] /\ left[n] \in Range(loggers_)
  BY LeaveFacts, ZenonT(60)
<1> HIDE DEF left
<1>3. CASE g = Nothing_
  <2>1. /\ loggers_' = left /\ byHand' = byHand /\ orphans' = orphans /\ default_logger_' = Nothing_
    BY <1>1, <1>3 DEF Stranded
  <2>2. RegistryTypeOK'
    BY <1>1, <1>2, <2>1 DEF RegistryTypeOK
  <2> QED
    BY <1>1, <1>2, <2>1, <2>2
    DEF RegistryInv, Numbered, NamesTrue, SettingsFollow, PoolsLive, OrphansKnown
<1>4. CASE g \in DOMAIN made
  <2> DEFINE name == made[g].name
  <2>1. /\ DOMAIN loggers_' = DOMAIN left \cup {name} /\ loggers_'[name] = g
        /\ \A n \in DOMAIN left : n # name => loggers_'[n] = left[n]
    BY <1>1, <1>4
  <2>2. Range(loggers_') \subseteq Range(loggers_) \cup {g}
    BY <1>2, <2>1 DEF Range
  <2>3. name \in Names \cup {default_logger_name} /\ Stranded(g) \subseteq {g}
    BY <1>4 DEF Stranded
  <2>4. \/ made[g].pool = Nothing_
        \/ made[g].pool = tp_ /\ ~stopping
        \/ g \in Stranded(g)
    BY <1>4 DEF Stranded
  <2>5. byHand' = byHand \cup {g}
    BY <1>1, <1>4
  <2> HIDE DEF name
  <2>6. RegistryTypeOK'
    BY <1>1, <1>2, <1>4, <2>1, <2>2, <2>3, <2>5, ZenonT(60) DEF RegistryTypeOK
  <2>7. NamesTrue'
    BY <1>1, <1>2, <2>1 DEF NamesTrue, name
  <2>8. SettingsFollow' /\ PoolsLive' /\ OrphansKnown'
    BY <1>1, <2>2, <2>4, <2>5 DEF SettingsFollow, PoolsLive, OrphansKnown
  <2> QED
    BY <1>1, <2>6, <2>7, <2>8 DEF RegistryInv, Numbered
<1> QED
  BY <1>3, <1>4

LEMMA DropKept ==
  ASSUME RegistryInv, NEW name, Drop(name)
  PROVE  RegistryInv'
<1> USE RegistryTypes
<1>1. /\ loggers_' = Leave_({name})
      /\ default_logger_' = IF default_logger_ # Nothing_ /\ made[default_logger_].name = name
                            THEN Nothing_ ELSE default_logger_
      /\ UNCHANGED <<setting_, automatic_registration_, tp_, stopping, made, pools, byHand, orphans>>
  BY DEF Drop
<1>2. /\ DOMAIN loggers_' = DOMAIN loggers_ \ {name}
      /\ \A n \in DOMAIN loggers_ \ {name} : loggers_'[n] = loggers_[n]
      /\ Range(loggers_') \subseteq Range(loggers_)
  BY <1>1, LeaveFacts
<1>3. RegistryTypeOK'
  BY <1>1, <1>2 DEF RegistryTypeOK
<1>4. NamesTrue'
  BY <1>1, <1>2 DEF NamesTrue
<1> QED
  BY <1>1, <1>2, <1>3, <1>4 DEF RegistryInv, Numbered, SettingsFollow, PoolsLive, OrphansKnown

LEMMA ClearKept ==
  ASSUME RegistryInv, ClearLoggers, stopping' \in BOOLEAN,
         UNCHANGED <<setting_, automatic_registration_, tp_, made, pools, byHand, orphans>>
  PROVE  RegistryInv'
<1> USE RegistryTypes
<1>1. default_logger_' = Nothing_ /\ DOMAIN loggers_' = {} /\ Range(loggers_') = {}
  BY LeaveFacts, ZenonT(60) DEF ClearLoggers, Range
<1>2. RegistryTypeOK'
  BY <1>1 DEF RegistryTypeOK
<1> QED
  BY <1>1, <1>2 DEF RegistryInv, Numbered, NamesTrue, SettingsFollow, PoolsLive, OrphansKnown

\* A setting goes to all that are registered, or to one logger.
LEMMA SetSettingKept ==
  ASSUME RegistryInv, NEW setting \in Settings, SetSetting(setting)
  PROVE  RegistryInv'
<1> USE RegistryTypes
<1>1. /\ setting_' = setting /\ byHand' = byHand \ Range(loggers_)
      /\ made' = [g \in DOMAIN made |->
                    IF g \in Range(loggers_) THEN [made[g] EXCEPT !.setting = setting] ELSE made[g]]
      /\ UNCHANGED <<loggers_, default_logger_, automatic_registration_, tp_, stopping, pools, orphans>>
  BY DEF SetSetting
<1>2. /\ DOMAIN made' = DOMAIN made
      /\ \A g \in DOMAIN made :
           /\ made'[g].name = made[g].name /\ made'[g].pool = made[g].pool
           /\ made'[g] \in [name : Names \cup {default_logger_name}, setting : Settings, pool : 0 .. pools]
           /\ g \in Range(loggers_) => made'[g].setting = setting
  BY <1>1
<1>3. RegistryTypeOK'
  BY <1>1, <1>2 DEF RegistryTypeOK
<1>4. \A g \in Range(loggers_) : g \in DOMAIN made
  BY DEF RegistryTypeOK
<1>5. NamesTrue'
  BY <1>1, <1>2 DEF NamesTrue, RegistryTypeOK
<1> QED
  BY <1>1, <1>2, <1>3, <1>4, <1>5
  DEF RegistryInv, Numbered, SettingsFollow, PoolsLive, OrphansKnown

LEMMA SetOwnKept ==
  ASSUME RegistryInv, NEW g \in DOMAIN made, NEW setting \in Settings, SetOwn(g, setting)
  PROVE  RegistryInv'
<1> USE RegistryTypes
<1>1. /\ made' = [made EXCEPT ![g].setting = setting] /\ byHand' = byHand \cup {g}
      /\ UNCHANGED <<loggers_, default_logger_, setting_, automatic_registration_, tp_, stopping,
                     pools, orphans>>
  BY DEF SetOwn
<1>2. /\ DOMAIN made' = DOMAIN made
      /\ \A h \in DOMAIN made :
           /\ made'[h].name = made[h].name /\ made'[h].pool = made[h].pool
           /\ made'[h] \in [name : Names \cup {default_logger_name}, setting : Settings, pool : 0 .. pools]
           /\ h # g => made'[h] = made[h]
  BY <1>1
<1>3. RegistryTypeOK'
  BY <1>1, <1>2 DEF RegistryTypeOK
<1>4. \A h \in Range(loggers_) : h \in DOMAIN made
  BY DEF RegistryTypeOK
<1>5. NamesTrue'
  BY <1>1, <1>2 DEF NamesTrue, RegistryTypeOK
<1> QED
  BY <1>1, <1>2, <1>3, <1>4, <1>5
  DEF RegistryInv, Numbered, SettingsFollow, PoolsLive, OrphansKnown

LEMMA InitThreadPoolKept ==
  ASSUME RegistryInv, InitThreadPool
  PROVE  RegistryInv'
<1> USE RegistryTypes
<1>1. /\ pools < MaxLoggers /\ pools' = pools + 1 /\ tp_' = pools + 1
      /\ orphans' = orphans \cup Users(tp_)
      /\ UNCHANGED <<loggers_, default_logger_, setting_, automatic_registration_, stopping, made, byHand>>
  BY DEF InitThreadPool
<1>2. \A g \in DOMAIN made :
        made[g] \in [name : Names \cup {default_logger_name}, setting : Settings, pool : 0 .. pools']
  BY <1>1
<1>3. RegistryTypeOK'
  BY <1>1, <1>2 DEF RegistryTypeOK, Users
<1>4. \A g \in Range(loggers_) : g \in DOMAIN made
  BY DEF RegistryTypeOK
<1>5. NamesTrue' /\ SettingsFollow' /\ OrphansKnown'
  BY <1>1 DEF NamesTrue, SettingsFollow, OrphansKnown
<1>6. PoolsLive'
  BY <1>1, <1>4 DEF PoolsLive, Users
<1> QED
  BY <1>1, <1>3, <1>5, <1>6 DEF RegistryInv, Numbered

LEMMA ShutdownResetsKept ==
  ASSUME RegistryInv, ShutdownResets
  PROVE  RegistryInv'
<1> USE RegistryTypes
<1>1. /\ stopping /\ stopping' = FALSE /\ tp_' = Nothing_
      /\ UNCHANGED <<loggers_, default_logger_, setting_, automatic_registration_, made, pools,
                     byHand, orphans>>
  BY DEF ShutdownResets
<1>2. tp_' \in 0 .. pools'
  BY <1>1 DEF Nothing_
<1>3. RegistryTypeOK'
  BY <1>1, <1>2 DEF RegistryTypeOK
<1> QED
  BY <1>1, <1>3
  DEF RegistryInv, Numbered, NamesTrue, SettingsFollow, PoolsLive, OrphansKnown

LEMMA RegistryStep ==
  ASSUME RegistryInv, RegistryNext
  PROVE  RegistryInv'
<1>1. CASE SetAutomaticRegistration
  BY <1>1, RegistryTypes
  DEF SetAutomaticRegistration, RegistryInv, RegistryTypeOK, Numbered, NamesTrue, SettingsFollow,
      PoolsLive, OrphansKnown
<1>2. CASE DropAll_
  BY <1>2, ClearKept, RegistryTypes DEF DropAll_, RegistryTypeOK
<1>3. CASE ShutdownDrops
  BY <1>3, ClearKept DEF ShutdownDrops
<1>4. CASE \E name \in Names :
             (\E b \in BOOLEAN : Create(name, b)) \/ \E s \in Settings : Construct(name, s)
  BY <1>4, CreateKept, ConstructKept
<1>5. CASE \E g \in DOMAIN made : Register_(g) \/ SetDefault(g) \/ \E s \in Settings : SetOwn(g, s)
  BY <1>5, RegisterKept, SetDefaultKept, SetOwnKept
<1>6. CASE SetDefault(Nothing_)
  BY <1>6, SetDefaultKept
<1> QED
  BY <1>1, <1>2, <1>3, <1>4, <1>5, <1>6, DropKept, SetSettingKept, InitThreadPoolKept,
     ShutdownResetsKept
  DEF RegistryNext

LEMMA RegistryStart == RegistryInit => RegistryInv
<1> SUFFICES ASSUME RegistryInit
             PROVE  RegistryInv
  OBVIOUS
<1>1. MaxLoggers \in Nat /\ default_logger_name \notin Names
  BY RegistryAssumption DEF RegistryAssumption
<1>2. /\ DOMAIN made = {1} /\ made[1] = [name |-> default_logger_name, setting |-> setting_, pool |-> 0]
      /\ DOMAIN loggers_ = {default_logger_name} /\ loggers_[default_logger_name] = 1
      /\ setting_ \in Settings /\ default_logger_ = 1
  BY DEF RegistryInit, Nothing_
<1>3. Range(loggers_) = {1}
  BY <1>2 DEF Range
<1>4. RegistryTypeOK
  <2>1. /\ tp_ \in 0 .. pools /\ pools \in 0 .. MaxLoggers /\ 1 \in 1 .. MaxLoggers + 1
        /\ 0 \in 0 .. pools
    BY <1>1 DEF RegistryInit, Nothing_
  <2>2. made[1] \in [name : Names \cup {default_logger_name}, setting : Settings, pool : 0 .. pools]
    BY <1>2, <2>1
  <2>3. /\ automatic_registration_ \in BOOLEAN /\ stopping \in BOOLEAN /\ byHand = {}
        /\ orphans = {}
    BY DEF RegistryInit
  <2> QED
    BY <1>2, <1>3, <2>1, <2>2, <2>3 DEF RegistryTypeOK
<1>5. Numbered
  <2>1. {1} = 1 .. 1 /\ Cardinality({1}) = 1
    BY FS_Singleton
  <2> QED
    BY <1>2, <2>1 DEF Numbered
<1> QED
  BY <1>2, <1>3, <1>4, <1>5
  DEF RegistryInit, RegistryInv, NamesTrue, SettingsFollow, PoolsLive, OrphansKnown, Nothing_

LEMMA RegistryStays ==
  ASSUME RegistryInv, UNCHANGED registryVars
  PROVE  RegistryInv'
  BY DEF RegistryInv, RegistryTypeOK, Numbered, NamesTrue, SettingsFollow, PoolsLive, OrphansKnown,
         registryVars

\* Whatever is made, registered, replaced, dropped, set and shut down in whatever order,
\* the registry finds every logger under its own name, its default logger among them, its
\* settings reach all that nobody has set by hand, and no registered logger posts to a pool
\* that has gone, but for the orphans (details/registry-inl.h).
THEOREM RegistryKeepsItsWord == RegistrySpec => []RegistrySound
<1>1. RegistryInv /\ [RegistryNext]_registryVars => RegistryInv'
  BY RegistryStep, RegistryStays
<1>2. RegistryInv => RegistrySound
  BY DEF RegistryInv, RegistrySound
<1> QED
  BY <1>1, <1>2, RegistryStart, PTL DEF RegistrySpec

-----------------------------------------------------------------------------
(* The daily sink.  That a message which is not due belongs into the open  *)
(* file follows from where rotation_tp_ lies, a day and the rotation time  *)
(* after the file's day at most; that a message which is due never goes to *)
(* a day whose file is there already, from where it lies with respect to   *)
(* all the files.                                                          *)

LEMMA Multiples ==
  ASSUME NEW p \in Int, NEW q \in Int, NEW d \in Nat
  PROVE  /\ p * d \in Int /\ q * d \in Int
         /\ p > q => p * d >= q * d + d
<1>1. p * d \in Int /\ q * d \in Int
  OBVIOUS
<1>2. ASSUME p > q
      PROVE  p * d >= q * d + d
  <2>1. (p - q - 1) * d >= 0
    BY <1>2
  <2>2. (p - q - 1) * d = p * d - q * d - d
    OBVIOUS
  <2> QED
    BY <1>1, <2>1, <2>2
<1> QED
  BY <1>1, <1>2

LEMMA DayFacts ==
  ASSUME NEW t \in Nat
  PROVE  /\ DayLength \in Nat /\ DayLength > 0
         /\ Day(t) \in Nat /\ Day(t) * DayLength \in Int
         /\ Day(t) * DayLength <= t /\ t < Day(t) * DayLength + DayLength
<1>1. DayLength \in Nat /\ DayLength > 0
  BY DailyFileAssumption DEF DailyFileAssumption
<1>2. t \div DayLength \in Nat
  BY <1>1
<1>3. \E q \in Int : q = t \div DayLength /\ q * DayLength <= t /\ t < q * DayLength + DayLength
  BY <1>1
<1> QED
  BY <1>1, <1>2, <1>3, Multiples DEF Day

\* A day is where the multiples of its length are.
LEMMA DayBounds ==
  ASSUME NEW t \in Nat, NEW k \in Int
  PROVE  /\ k * DayLength \in Int
         /\ t < k * DayLength + DayLength => Day(t) <= k
         /\ t >= k * DayLength => Day(t) >= k
         /\ Day(t) < k => Day(t) * DayLength + DayLength <= k * DayLength
<1>1. /\ DayLength \in Nat /\ DayLength > 0 /\ Day(t) \in Nat /\ Day(t) * DayLength \in Int
      /\ Day(t) * DayLength <= t /\ t < Day(t) * DayLength + DayLength
  BY DayFacts
<1> DEFINE p == Day(t) * DayLength
           q == k * DayLength
<1>2. /\ p \in Int /\ q \in Int
      /\ Day(t) > k => p >= q + DayLength
      /\ k > Day(t) => q >= p + DayLength
  BY <1>1, Multiples
<1>3. p <= t /\ t < p + DayLength
  BY <1>1
<1> HIDE DEF p, q
<1>4. /\ t < q + DayLength => Day(t) <= k
      /\ t >= q => Day(t) >= k
      /\ Day(t) < k => p + DayLength <= q
  BY <1>1, <1>2, <1>3
<1> QED
  BY <1>2, <1>4 DEF p, q

LEMMA DaysGrow ==
  ASSUME NEW s \in Nat, NEW t \in Nat, s <= t
  PROVE  Day(s) <= Day(t)
<1>1. Day(s) \in Nat /\ Day(s) * DayLength \in Int /\ Day(s) * DayLength <= s
  BY DayFacts
<1>2. t >= Day(s) * DayLength
  BY <1>1
<1> QED
  BY <1>1, <1>2, DayBounds

LEMMA NextRotationFacts ==
  ASSUME NEW t \in Nat, hour \in 0 .. DayLength - 1
  PROVE  LET next == NextRotation(t) IN
         /\ next \in Nat /\ t < next /\ next <= t + DayLength
         /\ next <= Day(t) * DayLength + DayLength + hour
         /\ hour = 0 => next = Day(t) * DayLength + DayLength
<1> DEFINE day == Day(t) * DayLength
<1>1. /\ DayLength \in Nat /\ DayLength > 0 /\ day \in Int /\ Day(t) \in Nat
      /\ day <= t /\ t < day + DayLength
  BY DayFacts
<1>2. NextRotation(t) = IF day + hour > t THEN day + hour ELSE day + hour + DayLength
  BY DEF NextRotation
<1> HIDE DEF day
<1>3. hour \in Int /\ 0 <= hour /\ hour < DayLength
  BY <1>1
<1>4. day >= 0
  <2>1. 0 * DayLength = 0
    BY <1>1
  <2>2. CASE Day(t) = 0
    BY <2>1, <2>2 DEF day
  <2>3. CASE Day(t) > 0
    BY <1>1, <2>1, <2>3, Multiples DEF day
  <2> QED
    BY <1>1, <2>2, <2>3
<1> QED
  BY <1>1, <1>2, <1>3, <1>4 DEF day

\* Where the sink and its files are, whatever the order of the messages.
SinkPlaced ==
  /\ label = Closed => waiting = {} /\ ~opened
  /\ label <= Day(now) /\ \A w \in written : w[1] <= Day(now)
  /\ \A o \in waiting : o[2] <= now
  /\ label # Closed /\ ~opened => failed
  /\ hour = 0 => \E r \in Nat : rotation = r * DayLength

\* What is true as long as messages are sunk in time.
InTime ==
  ~late /\ label # Closed =>
    /\ \A o \in waiting : Day(o[2]) >= label
    /\ rotation <= label * DayLength + DayLength + hour
    /\ ~opened => rotation <= now /\ \A o \in waiting : rotation <= o[2]
    /\ hour = 0 =>
         /\ opened => label * DayLength < rotation
         /\ \A w \in written : w[1] * DayLength < rotation

DailyInv == DailyTypeOK /\ SinkPlaced /\ InTime /\ DaysKept /\ NullNeedsDisorder

LEMMA DailyTypes ==
  ASSUME DailyInv
  PROVE  /\ DailyTypeOK /\ SinkPlaced /\ InTime /\ DaysKept /\ NullNeedsDisorder
         /\ DayLength \in Nat /\ DayLength > 0 /\ LastTick \in Nat /\ MaxStamped \in Nat
         /\ now \in Nat /\ now <= LastTick /\ hour \in Nat /\ hour < DayLength /\ rotation \in Nat
         /\ label \in Int /\ Closed \in Int /\ (label # Closed => label \in Nat)
         /\ \A o \in waiting : o[1] \in 1 .. MaxStamped /\ o[2] \in 0 .. LastTick /\ o[2] \in Nat
         /\ \A w \in written : w[1] \in 0 .. Day(LastTick) /\ w[1] \in Nat /\ w[3] \in Nat
         /\ Day(now) \in Nat /\ Day(now) \in 0 .. Day(LastTick) /\ Day(LastTick) \in Nat
<1>1. /\ DayLength \in Nat /\ DayLength > 0 /\ LastTick \in Nat /\ MaxStamped \in Nat
  BY DailyFileAssumption DEF DailyFileAssumption
<1>2. DailyTypeOK
  BY DEF DailyInv
<1>3. now \in Nat /\ now <= LastTick
  BY <1>1, <1>2 DEF DailyTypeOK
<1>4. Day(now) \in Nat /\ Day(LastTick) \in Nat /\ Day(now) <= Day(LastTick)
  BY <1>1, <1>3, DayFacts, DaysGrow
<1>5. hour \in Nat /\ hour < DayLength /\ rotation \in Nat
  BY <1>1, <1>2 DEF DailyTypeOK
<1>6. label \in Int /\ Closed \in Int /\ (label # Closed => label \in Nat)
  BY <1>2, <1>4 DEF DailyTypeOK, Closed
<1>7. \A o \in waiting : o[1] \in 1 .. MaxStamped /\ o[2] \in 0 .. LastTick /\ o[2] \in Nat
  BY <1>1, <1>2 DEF DailyTypeOK
<1>8. \A w \in written : w[1] \in 0 .. Day(LastTick) /\ w[1] \in Nat /\ w[3] \in Nat
  BY <1>1, <1>2, <1>4 DEF DailyTypeOK
<1> QED
  BY <1>1, <1>2, <1>3, <1>4, <1>5, <1>6, <1>7, <1>8 DEF DailyInv

LEMMA DailyTickKept ==
  ASSUME DailyInv, Tick
  PROVE  DailyInv'
<1> USE DailyTypes
<1>1. /\ now < LastTick /\ now' = now + 1
      /\ UNCHANGED <<hour, wipes, label, opened, rotation, stamped, waiting, written, failed,
                     late, crashed, gone>>
  BY DEF Tick
<1>2. Day(now) <= Day(now') /\ Day(now') \in Nat
  BY <1>1, DaysGrow, DayFacts
<1>3. DailyTypeOK'
  BY <1>1 DEF DailyTypeOK, Day
<1>4. SinkPlaced'
  <2>1. label' <= Day(now') /\ \A w \in written' : w[1] <= Day(now')
    BY <1>1, <1>2 DEF SinkPlaced
  <2>2. \A o \in waiting' : o[2] <= now'
    BY <1>1 DEF SinkPlaced
  <2> QED
    BY <1>1, <2>1, <2>2 DEF SinkPlaced, Day
<1>5. InTime'
  BY <1>1 DEF InTime, Day
<1> QED
  BY <1>1, <1>3, <1>4, <1>5 DEF DailyInv, DaysKept, NullNeedsDisorder, Day

LEMMA NewDailyKept ==
  ASSUME DailyInv, NewDaily
  PROVE  DailyInv'
<1> USE DailyTypes
<1> DEFINE next == NextRotation(now)
           today == Day(now)
<1>1. /\ label = Closed /\ label' = today /\ opened' = TRUE
      /\ rotation' = next /\ written' \subseteq written
      /\ UNCHANGED <<now, hour, wipes, stamped, waiting, failed, late, crashed, gone>>
  BY DEF NewDaily, Kept
<1>2. waiting = {} /\ \A w \in written : w[1] <= today
  BY <1>1 DEF SinkPlaced
<1>3. /\ next \in Nat /\ now < next /\ next <= now + DayLength
      /\ next <= today * DayLength + DayLength + hour
      /\ hour = 0 => next = today * DayLength + DayLength
  BY NextRotationFacts DEF DailyTypeOK
<1>4. today \in Nat /\ today * DayLength \in Int /\ today * DayLength <= now
  BY DayFacts
<1>5. (today + 1) * DayLength = today * DayLength + DayLength
  BY <1>4
<1>6. \A w \in written : w[1] * DayLength \in Int /\ w[1] * DayLength <= today * DayLength
  <2> SUFFICES ASSUME NEW w \in written
               PROVE  w[1] * DayLength \in Int /\ w[1] * DayLength <= today * DayLength
    OBVIOUS
  <2>1. w[1] \in Nat /\ w[1] <= today
    BY <1>2
  <2>2. w[1] = today \/ w[1] < today
    BY <1>4, <2>1
  <2>3. w[1] * DayLength \in Int /\ (today > w[1] => today * DayLength >= w[1] * DayLength + DayLength)
    BY <1>4, <2>1, Multiples
  <2> QED
    BY <1>4, <2>1, <2>2, <2>3
<1> HIDE DEF next, today
<1>7. hour' = 0 => \E r \in Nat : rotation' = r * DayLength
  <2>1. today + 1 \in Nat
    BY <1>4
  <2> QED
    BY <1>1, <1>3, <1>5, <2>1
<1>8. DailyTypeOK'
  <2>1. label' \in {Closed} \cup 0 .. Day(LastTick)
    BY <1>1 DEF today
  <2>2. rotation' \in 0 .. LastTick + DayLength
    BY <1>1, <1>3
  <2> QED
    BY <1>1, <2>1, <2>2 DEF DailyTypeOK, Day
<1>9. SinkPlaced'
  <2>1. label' # Closed
    BY <1>1, <1>4 DEF Closed
  <2>2. label' <= Day(now)' /\ \A w \in written' : w[1] <= Day(now)'
    BY <1>1, <1>2, <1>4 DEF today, Day
  <2> QED
    BY <1>1, <1>2, <1>7, <2>1, <2>2 DEF SinkPlaced
<1>10. InTime'
  <2>1. \A w \in written' : w[1] * DayLength < rotation' \/ hour # 0
    BY <1>1, <1>3, <1>4, <1>6
  <2>2. hour = 0 => label' * DayLength < rotation'
    BY <1>1, <1>3, <1>4
  <2> QED
    BY <1>1, <1>2, <1>3, <2>1, <2>2 DEF InTime
<1> QED
  BY <1>1, <1>8, <1>9, <1>10 DEF DailyInv, DaysKept, NullNeedsDisorder, Day

LEMMA StampKept ==
  ASSUME DailyInv, Stamp
  PROVE  DailyInv'
<1> USE DailyTypes
<1>1. /\ label # Closed /\ stamped < MaxStamped /\ stamped' = stamped + 1
      /\ waiting' = waiting \cup {<<stamped + 1, now>>}
      /\ UNCHANGED <<now, hour, wipes, label, opened, rotation, written, failed, late, crashed, gone>>
  BY DEF Stamp
<1>2. stamped \in Nat /\ stamped' \in 0 .. MaxStamped
  BY <1>1 DEF DailyTypeOK
<1>3. <<stamped + 1, now>> \in (1 .. MaxStamped) \X (0 .. LastTick)
  BY <1>1, <1>2 DEF DailyTypeOK
<1>4. DailyTypeOK'
  BY <1>1, <1>2, <1>3 DEF DailyTypeOK, Day
<1>5. SinkPlaced'
  BY <1>1 DEF SinkPlaced, Day
<1>6. InTime'
  <2>1. \A o \in waiting' : o \in waiting \/ o[2] = now
    BY <1>1
  <2>2. label <= Day(now)
    BY DEF SinkPlaced
  <2> QED
    BY <1>1, <2>1, <2>2 DEF InTime, Day
<1> QED
  BY <1>1, <1>4, <1>5, <1>6 DEF DailyInv, DaysKept, NullNeedsDisorder, Day

LEMMA EndDailyKept ==
  ASSUME DailyInv, EndDaily
  PROVE  DailyInv'
<1> USE DailyTypes
<1>1. /\ label' = Closed /\ opened' = FALSE /\ waiting' = {}
      /\ UNCHANGED <<now, hour, wipes, rotation, stamped, written, failed, late, crashed, gone>>
  BY DEF EndDaily
<1>2. DailyTypeOK'
  BY <1>1 DEF DailyTypeOK, Day
<1>3. Closed <= Day(now)
  BY DEF Closed
<1>4. SinkPlaced'
  BY <1>1, <1>3 DEF SinkPlaced, Day
<1> QED
  BY <1>1, <1>2, <1>4 DEF DailyInv, InTime, DaysKept, NullNeedsDisorder, Day

\* What a message says of itself and, if it is sunk in time, of the others.
LEMMA MessageFacts ==
  ASSUME DailyInv, NEW m \in waiting, SinkDaily(m)
  PROVE  /\ m[1] \in 1 .. MaxStamped /\ m[2] \in Nat /\ m[2] <= now /\ m[2] \in 0 .. LastTick
         /\ Day(m[2]) \in Nat /\ Day(m[2]) <= Day(now) /\ Day(m[2]) \in 0 .. Day(LastTick)
         /\ label # Closed /\ waiting' = waiting \ {m} /\ late \in BOOLEAN
         /\ UNCHANGED <<now, hour, wipes, stamped>>
         /\ ~late' => ~late /\ Day(m[2]) = Day(now) /\ \A o \in waiting : m[2] <= o[2]
<1> USE DailyTypes
<1>1. /\ waiting' = waiting \ {m} /\ UNCHANGED <<now, hour, wipes, stamped>>
      /\ late' = (late \/ Day(m[2]) # Day(now) \/ \E o \in waiting : o[2] < m[2])
  BY DEF SinkDaily
<1>2. m[2] <= now /\ label # Closed
  BY DEF SinkPlaced
<1>3. Day(m[2]) \in Nat /\ Day(m[2]) <= Day(now)
  BY <1>2, DaysGrow, DayFacts
<1>4. late \in BOOLEAN
  BY DEF DailyTypeOK
<1>5. ASSUME ~late'
      PROVE  ~late /\ Day(m[2]) = Day(now) /\ \A o \in waiting : m[2] <= o[2]
  <2>1. ~late /\ Day(m[2]) = Day(now) /\ \A o \in waiting : ~(o[2] < m[2])
    BY <1>1, <1>5
  <2>2. \A o \in waiting : o[2] \in Nat /\ m[2] \in Nat
    OBVIOUS
  <2>3. \A o \in waiting : m[2] <= o[2]
    BY <2>1, <2>2
  <2> QED
    BY <2>1, <2>3
<1>6. m[1] \in 1 .. MaxStamped /\ m[2] \in Nat /\ m[2] \in 0 .. LastTick
  OBVIOUS
<1>7. Day(m[2]) \in 0 .. Day(LastTick)
  BY <1>3
<1> QED
  BY <1>1, <1>2, <1>3, <1>4, <1>5, <1>6, <1>7

\* The message that is due: the file of its day is opened, and no file of that day is
\* there if messages are sunk in time and the sink rotates at midnight.
LEMMA DueIsNew ==
  ASSUME DailyInv, NEW m \in waiting, SinkDaily(m), ~late', hour = 0, m[2] >= rotation
  PROVE  \A w \in written : w[1] # Day(m[2])
<1> USE DailyTypes, MessageFacts
<1>1. PICK r \in Nat : rotation = r * DayLength
  BY DEF SinkPlaced
<1>2. Day(m[2]) >= r
  BY <1>1, DayBounds
<1>3. \A w \in written : w[1] * DayLength < rotation
  BY DEF InTime
<1> SUFFICES ASSUME NEW w \in written, w[1] = Day(m[2])
             PROVE  FALSE
  OBVIOUS
<1> DEFINE d == Day(m[2])
<1>4. d * DayLength \in Int /\ r * DayLength \in Int /\ (d > r => d * DayLength >= r * DayLength + DayLength)
  BY Multiples
<1>5. d * DayLength >= r * DayLength
  <2>1. d = r \/ d > r
    BY <1>2
  <2> QED
    BY <1>4, <2>1
<1>6. d * DayLength < r * DayLength
  BY <1>1, <1>3
<1> HIDE DEF d
<1> QED
  BY <1>4, <1>5, <1>6

\* The file of a due message's day is opened, and the message written to it.
LEMMA SinkDueKept ==
  ASSUME DailyInv, NEW m \in waiting, SinkDaily(m), m[2] >= rotation,
         label' = Day(m[2]), opened' = TRUE, rotation' = NextRotation(now),
         written' = Kept(Day(m[2])) \cup {<<label', m[1], m[2]>>},
         gone' = IF Kept(Day(m[2])) = written THEN gone ELSE gone \cup {Day(m[2])},
         UNCHANGED <<crashed, failed>>
  PROVE  DailyInv'
<1> USE DailyTypes, MessageFacts
<1> DEFINE next == NextRotation(now)
           today == Day(now)
           day == Day(m[2])
           new == <<day, m[1], m[2]>>
<1>1. /\ next \in Nat /\ now < next /\ next <= now + DayLength
      /\ next <= today * DayLength + DayLength + hour
      /\ hour = 0 => next = today * DayLength + DayLength
  BY NextRotationFacts DEF DailyTypeOK
<1>2. today \in Nat /\ today * DayLength \in Int /\ today * DayLength <= now
  BY DayFacts
<1>3. /\ label' = day /\ rotation' = next /\ day \in 0 .. Day(LastTick) /\ day <= today
      /\ \A w \in written' : w \in written \/ w = new
      /\ new[1] = day /\ new[3] = m[2]
  BY DEF Kept
<1>4. hour' = 0 => \E r \in Nat : rotation' = r * DayLength
  <2>1. (today + 1) * DayLength = today * DayLength + DayLength /\ today + 1 \in Nat
    BY <1>2
  <2> QED
    BY <1>1, <1>3, <2>1
<1>5. DailyTypeOK'
  <2>1. rotation' \in 0 .. LastTick + DayLength
    BY <1>1
  <2>2. new \in (0 .. Day(LastTick)) \X (1 .. MaxStamped) \X (0 .. LastTick)
    BY <1>3
  <2>3. written' \subseteq (0 .. Day(LastTick)) \X (1 .. MaxStamped) \X (0 .. LastTick)
    BY <1>3, <2>2 DEF DailyTypeOK
  <2>4. waiting' \subseteq waiting /\ gone' \subseteq 0 .. Day(LastTick) /\ late' \in BOOLEAN
    <3>1. late' \in BOOLEAN
      BY DEF SinkDaily
    <3> QED
      BY <1>3, <3>1 DEF DailyTypeOK
  <2> QED
    BY <1>3, <2>1, <2>3, <2>4 DEF DailyTypeOK, Day
<1>6. SinkPlaced'
  <2>1. label' # Closed
    BY <1>3 DEF Closed
  <2>2. label' <= today /\ \A w \in written' : w[1] <= today
    BY <1>3 DEF SinkPlaced
  <2>3. Day(now)' = today
    BY DEF Day
  <2>4. \A o \in waiting' : o[2] <= now'
    BY DEF SinkPlaced
  <2> QED
    BY <1>4, <2>1, <2>2, <2>3, <2>4 DEF SinkPlaced
<1>7. ASSUME ~late'
      PROVE  day = today /\ \A o \in waiting : Day(o[2]) >= day
  <2>1. day = today /\ \A o \in waiting : m[2] <= o[2]
    BY <1>7
  <2> QED
    BY <2>1, DaysGrow, DayFacts
<1>8. InTime'
  <2> SUFFICES ASSUME ~late'
               PROVE  /\ \A o \in waiting' : Day(o[2]) >= label'
                      /\ rotation' <= label' * DayLength + DayLength + hour
                      /\ hour = 0 =>
                           /\ label' * DayLength < rotation'
                           /\ \A w \in written' : w[1] * DayLength < rotation'
    BY DEF InTime, Day
  <2>1. day = today /\ \A o \in waiting' : Day(o[2]) >= label'
    BY <1>3, <1>7
  <2>2. ASSUME hour = 0, NEW w \in written
        PROVE  w[1] * DayLength < next
    <3>1. w[1] * DayLength < rotation /\ w[1] * DayLength \in Int
      BY <2>2, Multiples DEF InTime
    <3>2. rotation <= now /\ now < next /\ next \in Nat
      BY <1>1
    <3> DEFINE x == w[1] * DayLength
    <3>3. x < rotation /\ x \in Int
      BY <3>1
    <3> HIDE DEF x, next
    <3>4. x < next
      BY <3>2, <3>3
    <3> QED
      BY <3>4 DEF x
  <2>3. hour = 0 => day * DayLength < next
    BY <1>1, <1>2, <2>1
  <2>4. ASSUME hour = 0, NEW w \in written'
        PROVE  w[1] * DayLength < rotation'
    BY <1>3, <2>2, <2>3, <2>4
  <2> HIDE DEF day, today, next
  <2> QED
    BY <1>1, <1>3, <2>1, <2>3, <2>4
<1>9. DaysKept'
  <2> SUFFICES ASSUME ~late'
               PROVE  /\ \A w \in written' :
                           Day(w[3]) - w[1] \in (IF hour = 0 THEN {0} ELSE {0, 1})
                      /\ hour = 0 => gone' = {}
    BY DEF DaysKept, Day
  <2>1. hour = 0 => Kept(day) = written
    BY DueIsNew DEF Kept
  <2>2. Day(new[3]) - new[1] = 0
    BY <1>3
  <2> QED
    BY <1>3, <2>1, <2>2 DEF DaysKept
<1>10. NullNeedsDisorder'
  BY DEF NullNeedsDisorder, SinkDaily
<1> QED
  BY <1>5, <1>6, <1>8, <1>9, <1>10 DEF DailyInv

\* A due message whose file cannot be opened.
LEMMA SinkFailsKept ==
  ASSUME DailyInv, NEW m \in waiting, SinkDaily(m), m[2] >= rotation,
         label' = Day(m[2]), opened' = FALSE, failed' = TRUE,
         UNCHANGED <<rotation, written, crashed, gone>>
  PROVE  DailyInv'
<1> USE DailyTypes, MessageFacts
<1> DEFINE day == Day(m[2])
<1>1. label' = day /\ day \in 0 .. Day(LastTick) /\ day <= Day(now) /\ day # Closed /\ day \in Nat
  BY DEF Closed
<1>2. late' \in BOOLEAN
  BY DEF SinkDaily
<1>3. DailyTypeOK'
  BY <1>1, <1>2 DEF DailyTypeOK, Day
<1>4. SinkPlaced'
  BY <1>1 DEF SinkPlaced, Day
<1>5. InTime'
  <2> SUFFICES ASSUME ~late'
               PROVE  /\ \A o \in waiting' : Day(o[2]) >= label'
                      /\ rotation <= label' * DayLength + DayLength + hour
                      /\ rotation <= now /\ \A o \in waiting' : rotation <= o[2]
                      /\ hour = 0 => \A w \in written : w[1] * DayLength < rotation
    BY DEF InTime, Day
  <2>1. \A o \in waiting : m[2] <= o[2]
    OBVIOUS
  <2>2. \A o \in waiting : Day(o[2]) >= day
    BY <2>1, DaysGrow, DayFacts
  <2>3. day * DayLength \in Int /\ m[2] < day * DayLength + DayLength
    BY DayFacts
  <2>4. hour = 0 => \A w \in written : w[1] * DayLength < rotation
    BY DEF InTime
  <2>5. rotation <= now /\ \A o \in waiting' : rotation <= o[2]
    BY <2>1
  <2> HIDE DEF day
  <2>6. rotation <= day * DayLength + DayLength + hour
    BY <2>3
  <2> QED
    BY <1>1, <2>2, <2>4, <2>5, <2>6
<1>6. DaysKept' /\ NullNeedsDisorder'
  BY DEF DaysKept, NullNeedsDisorder, Day, SinkDaily
<1> QED
  BY <1>3, <1>4, <1>5, <1>6 DEF DailyInv

\* A message that is not due goes to the open file, or to a null pointer.
LEMMA SinkOpenKept ==
  ASSUME DailyInv, NEW m \in waiting, SinkDaily(m), m[2] < rotation,
         UNCHANGED <<label, opened, rotation, gone, failed>>,
         written' = IF opened THEN written \cup {<<label, m[1], m[2]>>} ELSE written,
         crashed' = (crashed \/ ~opened)
  PROVE  DailyInv'
<1> USE DailyTypes, MessageFacts
<1> DEFINE new == <<label, m[1], m[2]>>
<1>1. /\ new[1] = label /\ new[3] = m[2] /\ label \in Nat /\ label \in 0 .. Day(LastTick)
      /\ \A w \in written' : w \in written \/ (w = new /\ opened)
  BY DEF DailyTypeOK, Closed
<1>2. late' \in BOOLEAN /\ (late => late')
  BY DEF SinkDaily
<1>3. DailyTypeOK'
  <2>1. new \in (0 .. Day(LastTick)) \X (1 .. MaxStamped) \X (0 .. LastTick)
    BY <1>1
  <2>2. written' \subseteq (0 .. Day(LastTick)) \X (1 .. MaxStamped) \X (0 .. LastTick)
    BY <1>1, <2>1 DEF DailyTypeOK
  <2>3. crashed' \in BOOLEAN
    BY DEF DailyTypeOK
  <2> QED
    BY <1>2, <2>2, <2>3 DEF DailyTypeOK, Day
<1>4. SinkPlaced'
  <2>1. \A w \in written' : w[1] <= Day(now)
    BY <1>1 DEF SinkPlaced
  <2> QED
    BY <2>1 DEF SinkPlaced, Day
<1>5. ASSUME ~late'
      PROVE  opened /\ Day(m[2]) >= label /\ rotation <= label * DayLength + DayLength + hour
  BY <1>5 DEF InTime
<1>6. InTime'
  <2> SUFFICES ASSUME ~late'
               PROVE  hour = 0 => \A w \in written' : w[1] * DayLength < rotation
    BY DEF InTime, Day
  <2> QED
    BY <1>1 DEF InTime
<1>7. DaysKept'
  <2> SUFFICES ASSUME ~late', NEW w \in written'
               PROVE  Day(w[3]) - w[1] \in (IF hour = 0 THEN {0} ELSE {0, 1})
    BY DEF DaysKept, Day
  <2>1. CASE w \in written
    BY <2>1 DEF DaysKept
  <2>2. CASE w = new
    <3>1. (label + 1) * DayLength = label * DayLength + DayLength /\ label * DayLength \in Int
      BY <1>1
    <3>2. Day(m[2]) >= label /\ m[2] < label * DayLength + DayLength + hour
      BY <1>5, <3>1
    <3>3. hour = 0 => Day(m[2]) <= label
      <4>1. hour = 0 => m[2] < label * DayLength + DayLength
        BY <3>1, <3>2
      <4>2. label \in Int
        BY <1>1
      <4> QED
        BY <4>1, <4>2, DayBounds
    <3>4. Day(m[2]) <= label + 1
      <4>1. m[2] < (label + 1) * DayLength + DayLength
        BY <3>1, <3>2
      <4>2. label + 1 \in Int
        BY <1>1
      <4> QED
        BY <4>1, <4>2, DayBounds
    <3> QED
      BY <1>1, <2>2, <3>2, <3>3, <3>4
  <2> QED
    BY <1>1, <2>1, <2>2
<1>8. NullNeedsDisorder'
  <2>1. ASSUME crashed'
        PROVE  failed' /\ late'
    <3>1. CASE crashed
      BY <1>2, <3>1 DEF NullNeedsDisorder
    <3>2. CASE ~opened
      BY <1>5, <3>2 DEF SinkPlaced
    <3> QED
      BY <2>1, <3>1, <3>2
  <2> QED
    BY <2>1 DEF NullNeedsDisorder
<1> QED
  BY <1>3, <1>4, <1>6, <1>7, <1>8 DEF DailyInv

LEMMA SinkDailyKept ==
  ASSUME DailyInv, NEW m \in waiting, SinkDaily(m)
  PROVE  DailyInv'
<1> USE DailyTypes
<1>1. CASE m[2] >= rotation
  <2>1. \/ /\ label' = Day(m[2]) /\ opened' = TRUE /\ rotation' = NextRotation(now)
           /\ written' = Kept(Day(m[2])) \cup {<<label', m[1], m[2]>>}
           /\ gone' = IF Kept(Day(m[2])) = written THEN gone ELSE gone \cup {Day(m[2])}
           /\ UNCHANGED <<crashed, failed>>
        \/ /\ label' = Day(m[2]) /\ opened' = FALSE /\ failed' = TRUE
           /\ UNCHANGED <<rotation, written, crashed, gone>>
    BY <1>1 DEF SinkDaily, DailyTypeOK
  <2> QED
    BY <1>1, <2>1, SinkDueKept, SinkFailsKept
<1>2. CASE ~(m[2] >= rotation)
  <2>1. /\ UNCHANGED <<label, opened, rotation, gone, failed>>
        /\ written' = IF opened THEN written \cup {<<label, m[1], m[2]>>} ELSE written
        /\ crashed' = (crashed \/ ~opened)
    BY <1>2 DEF SinkDaily
  <2>2. m[2] < rotation
    BY <1>2
  <2> QED
    BY <2>1, <2>2, SinkOpenKept
<1> QED
  BY <1>1, <1>2

LEMMA DailyStart == DailyInit => DailyInv
<1> SUFFICES ASSUME DailyInit
             PROVE  DailyInv
  OBVIOUS
<1>1. /\ DayLength \in Nat /\ DayLength > 0 /\ LastTick \in Nat /\ MaxStamped \in Nat
      /\ Day(LastTick) \in Nat /\ Day(0) \in Nat /\ 0 * DayLength = 0
  BY DailyFileAssumption, DayFacts DEF DailyFileAssumption
<1>2. DailyTypeOK
  <2>1. /\ now \in 0 .. LastTick /\ rotation \in 0 .. LastTick + DayLength
        /\ stamped \in 0 .. MaxStamped
    BY <1>1 DEF DailyInit
  <2> QED
    BY <2>1 DEF DailyInit, DailyTypeOK
<1>3. SinkPlaced
  BY <1>1 DEF DailyInit, SinkPlaced, Closed
<1> QED
  BY <1>2, <1>3 DEF DailyInit, DailyInv, InTime, DaysKept, NullNeedsDisorder

LEMMA DailyStays ==
  ASSUME DailyInv, UNCHANGED dailyVars
  PROVE  DailyInv'
  BY DEF DailyInv, DailyTypeOK, SinkPlaced, InTime, DaysKept, NullNeedsDisorder, Day, dailyVars

\* As long as messages are sunk in time, a file holds the messages of its own day, or of
\* the day from its rotation time on, and none is truncated that is still written to; and
\* no null pointer is written through unless messages come out of order
\* (sinks/daily_file_sink.h).
THEOREM DaysAreKept == DailySpec => [](DailyTypeOK /\ DaysKept /\ NullNeedsDisorder)
<1>1. DailyInv /\ [DailyNext]_dailyVars => DailyInv'
  BY DailyTickKept, NewDailyKept, StampKept, SinkDailyKept, EndDailyKept, DailyStays DEF DailyNext
<1>2. DailyInv => DailyTypeOK /\ DaysKept /\ NullNeedsDisorder
  BY DEF DailyInv
<1> QED
  BY <1>1, <1>2, DailyStart, PTL DEF DailySpec

-----------------------------------------------------------------------------
(* The duplicate filter.  SkippedForAnEqual needs to know that the last    *)
(* message and its time are those of a message that was passed on.         *)

LastPassed ==
  lastPayload # NoPayload =>
    \E j \in 1 .. Len(inputs) :
      inputs[j].fate = "passed" /\ inputs[j].payload = lastPayload /\ inputs[j].time = lastTime

DupInv ==
  DupTypeOK /\ skipped <= Len(inputs) /\ LastPassed /\ SkippedForAnEqual /\ SkipsReported

DupRecord == [report : 0 .. MaxInputs, payload : Payloads \cup {NoPayload}]
DupInput == [payload : Payloads, time : 0 .. MaxStamp, fate : {"passed", "skipped", "error"}]
ReportsOf(w) == TotalOf([k \in 1 .. Len(w) |-> w[k].report])

LEMMA ReportsAreNumbers ==
  ASSUME NEW w \in Seq(DupRecord)
  PROVE  /\ [k \in 1 .. Len(w) |-> w[k].report] \in Seq(Nat)
         /\ Len([k \in 1 .. Len(w) |-> w[k].report]) = Len(w) /\ Len(w) \in Nat
         /\ ReportsOf(w) \in Nat
<1> DEFINE v == [k \in 1 .. Len(w) |-> w[k].report]
           n == Len(w)
<1>1. n \in Nat
  BY LenProperties
<1>2. \A k \in 1 .. n : w[k].report \in Nat
  <2> TAKE k \in 1 .. n
  <2>1. w[k] \in DupRecord
    BY ElementOfSeq
  <2> QED
    BY <2>1, DupFilterAssumption DEF DupRecord, DupFilterAssumption
<1>3. v \in [1 .. n -> Nat]
  BY <1>2
<1> HIDE DEF n
<1>4. v \in Seq(Nat) /\ Len(v) = n
  <2>1. v = [k \in 1 .. n |-> w[k].report]
    BY DEF n
  <2> HIDE DEF v
  <2> QED
    BY <1>1, <1>3, <2>1
<1>5. TotalOf(v) \in Nat
  BY <1>4, TotalOfNumbers
<1> QED
  BY <1>1, <1>4, <1>5 DEF ReportsOf, n

LEMMA ReportsOfOneMore ==
  ASSUME NEW w \in Seq(DupRecord), NEW u \in Seq(DupRecord), Len(u) = Len(w) + 1,
         \A k \in 1 .. Len(w) : u[k] = w[k]
  PROVE  ReportsOf(u) = ReportsOf(w) + u[Len(u)].report
<1> DEFINE v == [k \in 1 .. Len(w) |-> w[k].report]
           x == [k \in 1 .. Len(u) |-> u[k].report]
<1>1. /\ v \in Seq(Nat) /\ Len(v) = Len(w) /\ x \in Seq(Nat) /\ Len(x) = Len(u)
      /\ Len(w) \in Nat /\ Len(u) \in Nat
  BY ReportsAreNumbers
<1>2. \A k \in 1 .. Len(v) : x[k] = v[k]
  BY <1>1
<1>3. x[Len(x)] = u[Len(u)].report
  BY <1>1
<1> HIDE DEF v, x
<1>4. TotalOf(x) = TotalOf(v) + x[Len(x)]
  BY <1>1, <1>2, TotalOfMore
<1> QED
  BY <1>3, <1>4 DEF ReportsOf, v, x

\* What a sink reports after the first n of at most two messages more.
LEMMA ReportsOfMore ==
  ASSUME NEW w \in Seq(DupRecord), NEW msgs \in Seq(DupRecord), Len(msgs) \in {1, 2},
         NEW n \in 0 .. Len(msgs)
  PROVE  LET u == w \o SubSeq(msgs, 1, n) IN
         /\ u \in Seq(DupRecord)
         /\ ReportsOf(u) = ReportsOf(w) + (IF n >= 1 THEN msgs[1].report ELSE 0)
                                        + (IF n >= 2 THEN msgs[2].report ELSE 0)
<1> DEFINE U(i) == w \o SubSeq(msgs, 1, i)
<1>1. Len(w) \in Nat
  BY LenProperties
<1>2. ASSUME NEW i \in 0 .. Len(msgs)
      PROVE  /\ U(i) \in Seq(DupRecord) /\ Len(U(i)) = Len(w) + i
             /\ \A k \in 1 .. Len(w) : U(i)[k] = w[k]
             /\ \A k \in 1 .. i : U(i)[Len(w) + k] = msgs[k]
  <2> DEFINE p == SubSeq(msgs, 1, i)
  <2>1. \A k \in 1 .. i : msgs[k] \in DupRecord
    BY ElementOfSeq
  <2>2. p \in Seq(DupRecord) /\ Len(p) = i /\ \A k \in 1 .. i : p[k] = msgs[k]
    <3>1. 1 \in Int /\ i \in Int /\ (1 <= i \/ i = 0)
      OBVIOUS
    <3>2. /\ p \in Seq(DupRecord) /\ Len(p) = IF 1 <= i THEN i - 1 + 1 ELSE 0
          /\ \A k \in 1 .. i - 1 + 1 : p[k] = msgs[1 + k - 1]
      BY <2>1, <3>1, SubSeqProperties
    <3> QED
      BY <3>1, <3>2
  <2> HIDE DEF p
  <2>3. /\ w \o p \in Seq(DupRecord) /\ Len(w \o p) = Len(w) + Len(p)
        /\ \A k \in 1 .. Len(w) + Len(p) : (w \o p)[k] = IF k <= Len(w) THEN w[k] ELSE p[k - Len(w)]
    BY <2>2, ConcatProperties
  <2>4. \A k \in 1 .. Len(w) : (w \o p)[k] = w[k]
    BY <1>1, <2>2, <2>3
  <2>5. ASSUME NEW k \in 1 .. i
        PROVE  (w \o p)[Len(w) + k] = msgs[k]
    <3>1. Len(w) + k \in 1 .. Len(w) + Len(p) /\ ~(Len(w) + k <= Len(w)) /\ (Len(w) + k) - Len(w) = k
      BY <1>1, <2>2
    <3> QED
      BY <2>2, <2>3, <3>1
  <2> QED
    BY <2>2, <2>3, <2>4, <2>5 DEF p
<1>3. ReportsOf(U(0)) = ReportsOf(w)
  <2>1. U(0) = w
    <3>1. U(0) \in Seq(DupRecord) /\ Len(U(0)) = Len(w) /\ \A k \in 1 .. Len(w) : U(0)[k] = w[k]
      BY <1>1, <1>2
    <3> HIDE DEF U
    <3> QED
      BY <3>1, SeqEqual
  <2> QED
    BY <2>1
<1>4. ASSUME NEW i \in 0 .. Len(msgs), NEW j \in 0 .. Len(msgs), j = i + 1
      PROVE  ReportsOf(U(j)) = ReportsOf(U(i)) + msgs[j].report
  <2>1. /\ U(i) \in Seq(DupRecord) /\ Len(U(i)) = Len(w) + i
        /\ \A k \in 1 .. Len(w) : U(i)[k] = w[k]
        /\ \A k \in 1 .. i : U(i)[Len(w) + k] = msgs[k]
    BY <1>2
  <2>2. /\ U(j) \in Seq(DupRecord) /\ Len(U(j)) = Len(w) + j
        /\ \A k \in 1 .. Len(w) : U(j)[k] = w[k]
        /\ \A k \in 1 .. j : U(j)[Len(w) + k] = msgs[k]
    BY <1>2
  <2> HIDE DEF U
  <2>3. ASSUME NEW k \in 1 .. Len(U(i))
        PROVE  U(j)[k] = U(i)[k]
    <3>1. CASE k <= Len(w)
      <4>1. k \in 1 .. Len(w)
        BY <1>1, <2>1, <3>1
      <4> QED
        BY <2>1, <2>2, <4>1
    <3>2. CASE ~(k <= Len(w))
      <4> DEFINE l == k - Len(w)
      <4>1. l \in 1 .. i /\ l \in 1 .. j /\ Len(w) + l = k
        BY <1>1, <1>4, <2>1, <3>2
      <4> HIDE DEF l
      <4>2. U(j)[Len(w) + l] = msgs[l] /\ U(i)[Len(w) + l] = msgs[l]
        BY <2>1, <2>2, <4>1
      <4> QED
        BY <4>1, <4>2
    <3> QED
      BY <3>1, <3>2
  <2>4. j \in 1 .. j /\ Len(U(j)) = Len(U(i)) + 1
    BY <1>1, <1>4, <2>1, <2>2
  <2>5. U(j)[Len(U(j))] = msgs[j]
    BY <2>2, <2>4
  <2>6. ReportsOf(U(j)) = ReportsOf(U(i)) + U(j)[Len(U(j))].report
    BY <2>1, <2>2, <2>3, <2>4, ReportsOfOneMore
  <2> QED
    BY <2>5, <2>6
<1>5. U(n) \in Seq(DupRecord)
  BY <1>2
<1>6. ReportsOf(w) \in Nat /\ \A k \in 1 .. Len(msgs) : msgs[k].report \in Nat
  <2>1. \A k \in 1 .. Len(msgs) : msgs[k] \in DupRecord
    BY ElementOfSeq
  <2>2. \A x \in DupRecord : x.report \in Nat
    BY DupFilterAssumption DEF DupRecord, DupFilterAssumption
  <2>3. ReportsOf(w) \in Nat
    BY ReportsAreNumbers
  <2> QED
    BY <2>1, <2>2, <2>3
<1> HIDE DEF U
<1>7. 0 \in 0 .. Len(msgs) /\ 1 \in 0 .. Len(msgs) /\ 1 \in 1 .. Len(msgs)
  <2>1. Len(msgs) \in Nat /\ (Len(msgs) = 1 \/ Len(msgs) = 2)
    BY LenProperties
  <2> QED
    BY <2>1
<1>8. ReportsOf(U(1)) = ReportsOf(w) + msgs[1].report
  BY <1>3, <1>4, <1>7
<1>9. ReportsOf(U(n)) = ReportsOf(w) + (IF n >= 1 THEN msgs[1].report ELSE 0)
                                     + (IF n >= 2 THEN msgs[2].report ELSE 0)
  <2>1. CASE n = 0
    BY <1>3, <1>6, <2>1
  <2>2. CASE n = 1
    BY <1>6, <1>7, <1>8, <2>2
  <2>3. CASE n = 2
    <3>1. 2 \in 0 .. Len(msgs) /\ 2 \in 1 .. Len(msgs)
      BY <2>3
    <3>2. ReportsOf(U(2)) = ReportsOf(U(1)) + msgs[2].report
      BY <1>4, <1>7, <3>1
    <3>3. ReportsOf(U(n)) = ReportsOf(w) + msgs[1].report + msgs[2].report
      BY <1>8, <2>3, <3>2
    <3> QED
      BY <2>3, <3>3
  <2>4. n = 0 \/ n = 1 \/ n = 2
    <3>1. CASE Len(msgs) = 1
      BY <3>1
    <3>2. CASE Len(msgs) = 2
      BY <3>2
    <3> QED
      BY <3>1, <3>2
  <2> QED
    BY <2>1, <2>2, <2>3, <2>4
<1> QED
  BY <1>5, <1>9 DEF U

LEMMA DupTypes ==
  ASSUME DupInv
  PROVE  /\ lastTime \in Int /\ lastPayload \in Payloads \cup {NoPayload}
         /\ skipped \in Nat /\ skipped <= Len(inputs) /\ Len(inputs) \in Nat
         /\ MaxInputs \in Nat /\ MaxStamp \in Nat /\ MaxSkip \in Nat
         /\ \A s \in Sinks : out[s] \in Seq(DupRecord)
         /\ inputs \in Seq(DupInput)
         /\ \A k \in 1 .. Len(inputs) : inputs[k] \in DupInput
         /\ NoPayload \notin Payloads
<1>1. inputs \in Seq(DupInput)
  BY DEF DupInv, DupTypeOK, DupInput
<1>2. Len(inputs) \in Nat /\ \A k \in 1 .. Len(inputs) : inputs[k] \in DupInput
  BY <1>1, LenProperties, ElementOfSeq
<1>3. MaxInputs \in Nat /\ MaxStamp \in Nat /\ MaxSkip \in Nat /\ NoPayload \notin Payloads
  BY DupFilterAssumption DEF DupFilterAssumption, NoPayload
<1>4. lastTime \in Int /\ skipped \in Nat
  <2>1. lastTime \in Longago .. MaxStamp /\ skipped \in 0 .. MaxInputs
    BY DEF DupInv, DupTypeOK
  <2> QED
    BY <1>3, <2>1 DEF Longago
<1>5. \A s \in Sinks : out[s] \in Seq(DupRecord)
  BY DEF DupInv, DupTypeOK, DupRecord
<1> QED
  BY <1>1, <1>2, <1>3, <1>4, <1>5 DEF DupInv, DupTypeOK

\* A message that arrives is one more of its fate, and of no other.
LEMMA ArriveFacts ==
  ASSUME DupInv, NEW payload \in Payloads, NEW time \in 0 .. MaxStamp,
         NEW fate \in {"passed", "skipped", "error"}, Arrive(payload, time, fate)
  PROVE  /\ inputs' \in Seq(DupInput) /\ Len(inputs') = Len(inputs) + 1
         /\ \A k \in 1 .. Len(inputs) : inputs'[k] = inputs[k]
         /\ inputs'[Len(inputs) + 1] = [payload |-> payload, time |-> time, fate |-> fate]
         /\ CountOf("skipped") \in Nat
         /\ CountOf("skipped")' = CountOf("skipped") + (IF fate = "skipped" THEN 1 ELSE 0)
<1> DEFINE x == [payload |-> payload, time |-> time, fate |-> fate]
           n == Len(inputs)
           A == {i \in 1 .. n : inputs[i].fate = "skipped"}
           B == {i \in 1 .. Len(inputs') : inputs'[i].fate = "skipped"}
<1>1. inputs \in Seq(DupInput) /\ n \in Nat
  BY DupTypes
<1>2. x \in DupInput
  BY DEF DupInput
<1>3. inputs' = Append(inputs, x)
  BY DEF Arrive
<1> HIDE DEF x
<1>4. /\ inputs' \in Seq(DupInput) /\ Len(inputs') = n + 1
      /\ \A k \in 1 .. n : inputs'[k] = inputs[k]
      /\ inputs'[n + 1] = x
  BY <1>1, <1>2, <1>3, AppendProperties
<1>5. x.fate = fate
  BY DEF x
<1>6. IsFiniteSet(A) /\ Cardinality(A) \in Nat
  <2>1. A \subseteq 1 .. n /\ IsFiniteSet(1 .. n)
    BY <1>1, FS_Interval
  <2> QED
    BY <2>1, FS_Subset, FS_CardinalityType
<1>7. n + 1 \notin A
  BY <1>1
<1>8. B = IF fate = "skipped" THEN A \cup {n + 1} ELSE A
  <2>1. \A i : i \in 1 .. Len(inputs') <=> i \in 1 .. n \/ i = n + 1
    BY <1>1, <1>4
  <2> QED
    BY <1>1, <1>4, <1>5, <2>1
<1>9. Cardinality(B) = Cardinality(A) + (IF fate = "skipped" THEN 1 ELSE 0)
  <2> HIDE DEF A, B
  <2>1. CASE fate = "skipped"
    BY <1>6, <1>7, <1>8, <2>1, FS_AddElement
  <2>2. CASE fate # "skipped"
    BY <1>6, <1>8, <2>2
  <2> QED
    BY <2>1, <2>2
<1>10. CountOf("skipped") = Cardinality(A) /\ CountOf("skipped")' = Cardinality(B)
  BY DEF CountOf
<1> HIDE DEF A, B
<1> QED
  BY <1>4, <1>6, <1>9, <1>10 DEF x

\* What was skipped before stays skipped for an equal one.
LEMMA FatesKept ==
  ASSUME DupInv, NEW payload \in Payloads, NEW time \in 0 .. MaxStamp,
         NEW fate \in {"passed", "skipped", "error"}, Arrive(payload, time, fate),
         fate = "skipped" => ~Passes(payload, time)
  PROVE  SkippedForAnEqual'
<1> DEFINE n == Len(inputs)
           x == [payload |-> payload, time |-> time, fate |-> fate]
<1>1. /\ inputs' \in Seq(DupInput) /\ Len(inputs') = n + 1 /\ n \in Nat
      /\ \A k \in 1 .. n : inputs'[k] = inputs[k]
      /\ inputs'[n + 1] = x
  BY ArriveFacts, DupTypes
<1>2. DOMAIN inputs' = 1 .. n + 1 /\ DOMAIN inputs = 1 .. n
  BY <1>1, DupTypes, LenProperties
<1> SUFFICES ASSUME NEW i \in 1 .. n + 1, inputs'[i].fate = "skipped"
             PROVE  \E j \in 1 .. i - 1 :
                      /\ inputs'[j].fate = "passed" /\ inputs'[j].payload = inputs'[i].payload
                      /\ inputs'[i].time - inputs'[j].time <= MaxSkip
  BY <1>2 DEF SkippedForAnEqual
<1>3. CASE i \in 1 .. n
  <2>1. inputs[i].fate = "skipped" /\ inputs'[i] = inputs[i]
    BY <1>1, <1>3
  <2>2. PICK j \in 1 .. i - 1 :
          /\ inputs[j].fate = "passed" /\ inputs[j].payload = inputs[i].payload
          /\ inputs[i].time - inputs[j].time <= MaxSkip
    BY <1>2, <1>3, <2>1 DEF DupInv, SkippedForAnEqual
  <2>3. j \in 1 .. n
    BY <1>1, <1>3
  <2>4. inputs'[j] = inputs[j]
    BY <1>1, <2>3
  <2> QED
    BY <2>1, <2>2, <2>4
<1>4. CASE i = n + 1
  <2>1. fate = "skipped" /\ inputs'[i].payload = payload /\ inputs'[i].time = time
    BY <1>1, <1>4
  <2>2. ~(time - lastTime > MaxSkip) /\ payload = lastPayload
    BY <2>1 DEF Passes
  <2>3. lastPayload # NoPayload
    BY <2>2, DupTypes
  <2>4. PICK j \in 1 .. n :
          inputs[j].fate = "passed" /\ inputs[j].payload = lastPayload /\ inputs[j].time = lastTime
    BY <2>3 DEF DupInv, LastPassed
  <2>5. inputs'[j] = inputs[j] /\ j \in 1 .. i - 1
    BY <1>1, <1>4
  <2>6. time - lastTime <= MaxSkip
    BY <2>2, DupTypes
  <2> QED
    BY <2>1, <2>2, <2>4, <2>5, <2>6
<1> QED
  BY <1>1, <1>3, <1>4

LEMMA SkipKept ==
  ASSUME DupInv, NEW payload \in Payloads, NEW time \in 0 .. MaxStamp,
         Len(inputs) < MaxInputs, Skip(payload, time)
  PROVE  DupInv'
<1>1. Arrive(payload, time, "skipped") /\ ~Passes(payload, time)
  BY DEF Skip
<1>2. /\ inputs' \in Seq(DupInput) /\ Len(inputs') = Len(inputs) + 1
      /\ \A k \in 1 .. Len(inputs) : inputs'[k] = inputs[k]
      /\ CountOf("skipped") \in Nat /\ CountOf("skipped")' = CountOf("skipped") + 1
  BY <1>1, ArriveFacts
<1>3. skipped' = skipped + 1 /\ UNCHANGED <<lastTime, lastPayload, out, threw>>
  BY DEF Skip
<1>4. DupTypeOK'
  <2>1. skipped' \in 0 .. MaxInputs
    BY <1>3, DupTypes
  <2> QED
    BY <1>2, <1>3, <2>1 DEF DupInv, DupTypeOK, DupInput
<1>5. (skipped <= Len(inputs))'
  BY <1>2, <1>3, DupTypes
<1>6. LastPassed'
  <2>1. ASSUME lastPayload # NoPayload
        PROVE  \E j \in 1 .. Len(inputs') :
                 inputs'[j].fate = "passed" /\ inputs'[j].payload = lastPayload /\ inputs'[j].time = lastTime
    <3>1. PICK j \in 1 .. Len(inputs) :
            inputs[j].fate = "passed" /\ inputs[j].payload = lastPayload /\ inputs[j].time = lastTime
      BY <2>1 DEF DupInv, LastPassed
    <3>2. inputs'[j] = inputs[j] /\ j \in 1 .. Len(inputs')
      BY <1>2, DupTypes
    <3> QED
      BY <3>1, <3>2
  <2> QED
    BY <1>3, <2>1 DEF LastPassed
<1>7. SkippedForAnEqual'
  BY <1>1, FatesKept
<1>8. SkipsReported'
  <2> SUFFICES ASSUME NEW s \in Sinks
               PROVE  /\ Reported(s) + (skipped + 1) >= CountOf("skipped") + 1
                      /\ ~threw => Reported(s) + (skipped + 1) = CountOf("skipped") + 1
    BY <1>2, <1>3 DEF SkipsReported, Reported, Sinks
  <2>1. Reported(s) \in Nat
    BY DupTypes, ReportsAreNumbers DEF Reported, ReportsOf
  <2>2. /\ Reported(s) + skipped >= CountOf("skipped")
        /\ ~threw => Reported(s) + skipped = CountOf("skipped")
    BY DEF DupInv, SkipsReported
  <2>3. skipped \in Nat
    BY DupTypes
  <2>4. Reported(s) + (skipped + 1) >= CountOf("skipped") + 1
    BY <1>2, <2>1, <2>2, <2>3
  <2>5. ASSUME ~threw PROVE Reported(s) + (skipped + 1) = CountOf("skipped") + 1
    BY <1>2, <2>1, <2>2, <2>3, <2>5
  <2> QED
    BY <2>4, <2>5
<1> QED
  BY <1>4, <1>5, <1>6, <1>7, <1>8 DEF DupInv

\* The messages that a message passed on makes: their reports come to what was
\* skipped, and the first one carries it.
LEMMA PassMessages ==
  ASSUME DupInv, NEW payload \in Payloads
  PROVE  LET msgs == (IF skipped > 0 THEN <<[report |-> skipped, payload |-> NoPayload]>> ELSE << >>)
                       \o <<[report |-> 0, payload |-> payload]>>
         IN  /\ msgs \in Seq(DupRecord) /\ Len(msgs) \in {1, 2} /\ msgs[1].report = skipped
             /\ Len(msgs) = 2 => msgs[2].report = 0
<1> DEFINE r == [report |-> skipped, payload |-> NoPayload]
           x == [report |-> 0, payload |-> payload]
<1>1. r \in DupRecord /\ x \in DupRecord /\ skipped \in Nat
  <2>1. skipped \in 0 .. MaxInputs /\ MaxInputs \in Nat
    BY DupTypes DEF DupInv, DupTypeOK
  <2> QED
    BY <2>1 DEF DupRecord
<1>2. x.report = 0 /\ r.report = skipped
  OBVIOUS
<1> HIDE DEF r, x
<1>3. /\ << >> \o <<x>> \in Seq(DupRecord) /\ Len(<< >> \o <<x>>) = 1 /\ (<< >> \o <<x>>)[1] = x
  BY <1>1
<1>4. /\ <<r>> \o <<x>> \in Seq(DupRecord) /\ Len(<<r>> \o <<x>>) = 2
      /\ (<<r>> \o <<x>>)[1] = r /\ (<<r>> \o <<x>>)[2] = x
  BY <1>1
<1>5. CASE skipped > 0
  BY <1>2, <1>4, <1>5 DEF r, x
<1>6. CASE ~(skipped > 0)
  <2>1. skipped = 0
    BY <1>1, <1>6
  <2> QED
    BY <1>2, <1>3, <1>6, <2>1 DEF r, x
<1> QED
  BY <1>5, <1>6

LEMMA PassKept ==
  ASSUME DupInv, NEW payload \in Payloads, NEW time \in 0 .. MaxStamp,
         Len(inputs) < MaxInputs, Pass(payload, time)
  PROVE  DupInv'
<1> DEFINE msgs == (IF skipped > 0 THEN <<[report |-> skipped, payload |-> NoPayload]>> ELSE << >>)
                     \o <<[report |-> 0, payload |-> payload]>>
<1>1. /\ msgs \in Seq(DupRecord) /\ (Len(msgs) = 1 \/ Len(msgs) = 2) /\ Len(msgs) \in {1, 2}
      /\ msgs[1].report = skipped /\ (Len(msgs) = 2 => msgs[2].report = 0)
  <2>1. /\ msgs \in Seq(DupRecord) /\ Len(msgs) \in {1, 2}
        /\ msgs[1].report = skipped /\ (Len(msgs) = 2 => msgs[2].report = 0)
    BY PassMessages
  <2> QED
    BY <2>1
<1>2. Passes(payload, time)
      /\ \/ /\ out' = [t \in Sinks |-> out[t] \o msgs]
            /\ lastTime' = time /\ lastPayload' = payload /\ skipped' = 0
            /\ Arrive(payload, time, "passed") /\ UNCHANGED threw
         \/ /\ \E k \in 1 .. Len(msgs), s \in Sinks : out' = Distribute(msgs, k, s)
            /\ Arrive(payload, time, "error") /\ threw' = TRUE
            /\ UNCHANGED <<lastTime, lastPayload, skipped>>
  BY DEF Pass
<1> HIDE DEF msgs
<1>3. skipped \in Nat
  BY DupTypes
<1>4. ASSUME NEW t \in Sinks, NEW n \in 0 .. Len(msgs)
      PROVE  /\ out[t] \o SubSeq(msgs, 1, n) \in Seq(DupRecord) /\ Reported(t) \in Nat
             /\ ReportsOf(out[t] \o SubSeq(msgs, 1, n)) = Reported(t) + (IF n >= 1 THEN skipped ELSE 0)
  <2> DEFINE u == out[t] \o SubSeq(msgs, 1, n)
  <2>1. out[t] \in Seq(DupRecord)
    BY DupTypes
  <2>2. /\ u \in Seq(DupRecord)
        /\ ReportsOf(u) = ReportsOf(out[t]) + (IF n >= 1 THEN msgs[1].report ELSE 0)
                                            + (IF n >= 2 THEN msgs[2].report ELSE 0)
    BY <1>1, <2>1, ReportsOfMore
  <2>3. ReportsOf(out[t]) = Reported(t) /\ Reported(t) \in Nat
    BY <2>1, ReportsAreNumbers DEF ReportsOf, Reported
  <2> HIDE DEF u
  <2>4. n >= 2 => Len(msgs) = 2
    <3>1. CASE Len(msgs) = 1
      BY <3>1
    <3>2. CASE Len(msgs) = 2
      BY <3>2
    <3> QED
      BY <1>1, <3>1, <3>2
  <2>5. ReportsOf(u) = Reported(t) + (IF n >= 1 THEN skipped ELSE 0)
    BY <1>1, <1>3, <2>2, <2>3, <2>4
  <2> QED
    BY <2>2, <2>3, <2>5 DEF u
<1>5. \A s \in Sinks :
        /\ Reported(s) + skipped >= CountOf("skipped")
        /\ ~threw => Reported(s) + skipped = CountOf("skipped")
  BY DEF DupInv, SkipsReported
<1>6. CASE /\ out' = [t \in Sinks |-> out[t] \o msgs]
           /\ lastTime' = time /\ lastPayload' = payload /\ skipped' = 0
           /\ Arrive(payload, time, "passed") /\ UNCHANGED threw
  <2>1. /\ inputs' \in Seq(DupInput) /\ Len(inputs') = Len(inputs) + 1
        /\ inputs'[Len(inputs) + 1] = [payload |-> payload, time |-> time, fate |-> "passed"]
        /\ CountOf("skipped") \in Nat /\ CountOf("skipped")' = CountOf("skipped")
    <3> DEFINE fate == "passed"
    <3>1. fate \in {"passed", "skipped", "error"} /\ fate # "skipped" /\ Arrive(payload, time, fate)
      BY <1>6
    <3> HIDE DEF fate
    <3>2. /\ inputs' \in Seq(DupInput) /\ Len(inputs') = Len(inputs) + 1
          /\ inputs'[Len(inputs) + 1] = [payload |-> payload, time |-> time, fate |-> fate]
          /\ CountOf("skipped") \in Nat /\ CountOf("skipped")' = CountOf("skipped") + 0
      BY <3>1, ArriveFacts
    <3> QED
      BY <3>2 DEF fate
  <2>2. \A t \in Sinks : /\ out'[t] \in Seq(DupRecord)
                         /\ ReportsOf(out'[t]) = Reported(t) + skipped
    <3> TAKE t \in Sinks
    <3>1. SubSeq(msgs, 1, Len(msgs)) = msgs
      BY <1>1, SubSeqFull
    <3>2. Len(msgs) \in 0 .. Len(msgs) /\ Len(msgs) >= 1
      BY <1>1
    <3>3. out'[t] = out[t] \o msgs
      BY <1>6
    <3> QED
      BY <1>4, <3>1, <3>2, <3>3
  <2>3. DupTypeOK'
    <3>1. lastTime' \in Longago .. MaxStamp
      BY <1>6, DupTypes DEF Longago
    <3>2. skipped' \in 0 .. MaxInputs
      BY <1>6, DupTypes
    <3>3. out' \in [Sinks -> Seq(DupRecord)]
      BY <1>6, <2>2
    <3> QED
      BY <1>6, <2>1, <3>1, <3>2, <3>3 DEF DupInv, DupTypeOK, DupInput, DupRecord, Sinks
  <2>4. (skipped <= Len(inputs))'
    BY <1>6, <2>1, DupTypes
  <2>5. LastPassed'
    <3>1. Len(inputs) + 1 \in 1 .. Len(inputs')
      BY <2>1, DupTypes
    <3> QED
      BY <1>6, <2>1, <3>1 DEF LastPassed
  <2>6. SkippedForAnEqual'
    BY <1>6, FatesKept
  <2>7. SkipsReported'
    <3>1. ASSUME NEW s \in Sinks
          PROVE  /\ ReportsOf(out'[s]) + 0 >= CountOf("skipped")
                 /\ ~threw => ReportsOf(out'[s]) + 0 = CountOf("skipped")
      <4>1. Reported(s) \in Nat
        BY DupTypes, ReportsAreNumbers DEF Reported, ReportsOf
      <4>2. ReportsOf(out'[s]) = Reported(s) + skipped /\ Reported(s) + skipped \in Nat
        BY <1>3, <2>2, <4>1
      <4>3. ReportsOf(out'[s]) + 0 = Reported(s) + skipped
        BY <4>2
      <4> QED
        BY <1>5, <4>3
    <3> QED
      BY <1>6, <2>1, <3>1 DEF SkipsReported, Reported, ReportsOf, Sinks
  <2> QED
    BY <2>3, <2>4, <2>5, <2>6, <2>7 DEF DupInv
<1>7. CASE /\ \E k \in 1 .. Len(msgs), s \in Sinks : out' = Distribute(msgs, k, s)
           /\ Arrive(payload, time, "error") /\ threw' = TRUE
           /\ UNCHANGED <<lastTime, lastPayload, skipped>>
  <2>1. /\ inputs' \in Seq(DupInput) /\ Len(inputs') = Len(inputs) + 1
        /\ \A k \in 1 .. Len(inputs) : inputs'[k] = inputs[k]
        /\ CountOf("skipped") \in Nat /\ CountOf("skipped")' = CountOf("skipped")
    <3> DEFINE fate == "error"
    <3>1. fate \in {"passed", "skipped", "error"} /\ fate # "skipped" /\ Arrive(payload, time, fate)
      BY <1>7
    <3> HIDE DEF fate
    <3>2. /\ inputs' \in Seq(DupInput) /\ Len(inputs') = Len(inputs) + 1
          /\ \A k \in 1 .. Len(inputs) : inputs'[k] = inputs[k]
          /\ CountOf("skipped") \in Nat /\ CountOf("skipped")' = CountOf("skipped") + 0
      BY <3>1, ArriveFacts
    <3> QED
      BY <3>2
  <2>2. PICK k \in 1 .. Len(msgs), s \in Sinks : out' = Distribute(msgs, k, s)
    BY <1>7
  <2>3. \A t \in Sinks : /\ out'[t] \in Seq(DupRecord)
                         /\ ReportsOf(out'[t]) >= Reported(t) /\ ReportsOf(out'[t]) \in Nat
    <3> TAKE t \in Sinks
    <3> DEFINE n == IF k <= Len(msgs) /\ t >= s THEN k - 1 ELSE k
    <3>1. n \in 0 .. Len(msgs)
      BY <1>1
    <3>2. out'[t] = out[t] \o SubSeq(msgs, 1, n)
      BY <2>2 DEF Distribute
    <3> HIDE DEF n
    <3>3. /\ out'[t] \in Seq(DupRecord) /\ Reported(t) \in Nat
          /\ ReportsOf(out'[t]) = Reported(t) + (IF n >= 1 THEN skipped ELSE 0)
      BY <1>4, <3>1, <3>2
    <3>4. ReportsOf(out'[t]) >= Reported(t) /\ ReportsOf(out'[t]) \in Nat
      BY <1>3, <3>3
    <3> QED
      BY <3>3, <3>4
  <2>4. DupTypeOK'
    <3>1. out' \in [Sinks -> Seq(DupRecord)]
      BY <2>2, <2>3 DEF Distribute
    <3> QED
      BY <1>7, <2>1, <3>1 DEF DupInv, DupTypeOK, DupInput, DupRecord, Sinks
  <2>5. (skipped <= Len(inputs))'
    BY <1>7, <2>1, DupTypes
  <2>6. LastPassed'
    <3>1. ASSUME lastPayload # NoPayload
          PROVE  \E j \in 1 .. Len(inputs') :
                   inputs'[j].fate = "passed" /\ inputs'[j].payload = lastPayload /\ inputs'[j].time = lastTime
      <4>1. PICK j \in 1 .. Len(inputs) :
              inputs[j].fate = "passed" /\ inputs[j].payload = lastPayload /\ inputs[j].time = lastTime
        BY <3>1 DEF DupInv, LastPassed
      <4>2. inputs'[j] = inputs[j] /\ j \in 1 .. Len(inputs')
        BY <2>1, DupTypes
      <4> QED
        BY <4>1, <4>2
    <3> QED
      BY <1>7, <3>1 DEF LastPassed
  <2>7. SkippedForAnEqual'
    BY <1>7, FatesKept
  <2>8. SkipsReported'
    <3>1. ASSUME NEW t \in Sinks
          PROVE  ReportsOf(out'[t]) + skipped >= CountOf("skipped")
      <4>1. Reported(t) \in Nat
        BY DupTypes, ReportsAreNumbers DEF Reported, ReportsOf
      <4> QED
        BY <1>3, <1>5, <2>1, <2>3, <4>1
    <3> QED
      BY <1>7, <2>1, <3>1 DEF SkipsReported, Reported, ReportsOf, Sinks
  <2> QED
    BY <2>4, <2>5, <2>6, <2>7, <2>8 DEF DupInv
<1> QED
  BY <1>2, <1>6, <1>7

LEMMA DupStart == DupInit => DupInv
<1> SUFFICES ASSUME DupInit
             PROVE  DupInv
  OBVIOUS
<1>1. inputs = << >> /\ skipped = 0 /\ lastPayload = NoPayload /\ ~threw /\ out = [s \in Sinks |-> << >>]
  BY DEF DupInit
<1>2. \A s \in Sinks : out[s] \in Seq(DupRecord) /\ Reported(s) = 0
  <2> TAKE s \in Sinks
  <2>1. out[s] = << >> /\ << >> \in Seq(DupRecord) /\ Len(out[s]) = 0
    BY <1>1
  <2> DEFINE v == [k \in 1 .. Len(out[s]) |-> out[s][k].report]
  <2>2. v \in Seq(Nat) /\ Len(v) = 0
    BY <2>1, ReportsAreNumbers
  <2> HIDE DEF v
  <2>3. TotalOf(v) = 0
    BY <2>2, TotalOfNumbers
  <2> QED
    BY <2>1, <2>3 DEF Reported, v
<1>3. CountOf("skipped") = 0
  <2>1. {i \in 1 .. Len(inputs) : inputs[i].fate = "skipped"} = {}
    BY <1>1
  <2> QED
    BY <2>1, FS_EmptySet DEF CountOf
<1>4. DupTypeOK
  <2>1. Longago \in Longago .. MaxStamp
    BY DupFilterAssumption DEF DupFilterAssumption, Longago
  <2>2. 0 \in 0 .. MaxInputs
    BY DupFilterAssumption DEF DupFilterAssumption
  <2>3. out \in [Sinks -> Seq(DupRecord)]
    BY <1>1, <1>2
  <2>4. /\ lastTime = Longago /\ lastPayload \in Payloads \cup {NoPayload} /\ skipped = 0
        /\ threw \in BOOLEAN
    BY DEF DupInit
  <2>5. inputs \in Seq(DupInput)
    BY <1>1, EmptySeq
  <2> QED
    BY <2>1, <2>2, <2>3, <2>4, <2>5 DEF DupTypeOK, DupRecord, DupInput
<1>5. skipped <= Len(inputs) /\ LastPassed /\ SkippedForAnEqual
  BY <1>1 DEF LastPassed, SkippedForAnEqual
<1>6. SkipsReported
  BY <1>1, <1>2, <1>3 DEF SkipsReported
<1> QED
  BY <1>4, <1>5, <1>6 DEF DupInv

LEMMA DupStays == DupInv /\ UNCHANGED dupVars => DupInv'
<1> SUFFICES ASSUME DupInv, UNCHANGED dupVars
             PROVE  DupInv'
  OBVIOUS
<1>1. UNCHANGED <<lastTime, lastPayload, skipped, out, inputs, threw>>
  BY DEF dupVars
<1>2. DupTypeOK' /\ (skipped <= Len(inputs))' /\ LastPassed' /\ SkippedForAnEqual'
  BY <1>1 DEF DupInv, DupTypeOK, LastPassed, SkippedForAnEqual
<1>3. SkipsReported'
  BY <1>1 DEF DupInv, SkipsReported, Reported, CountOf
<1> QED
  BY <1>1, <1>2, <1>3 DEF DupInv

\* The duplicate filter: a message is dropped only for an equal one that all sinks
\* got shortly before, and no sink misses a report of what was skipped, whichever
\* sink throws in the middle of one.
THEOREM SkipsAreTold == DupSpec => [](DupTypeOK /\ SkippedForAnEqual /\ SkipsReported)
<1>1. DupInv /\ [DupNext]_dupVars => DupInv'
  BY SkipKept, PassKept, DupStays DEF DupNext
<1>2. DupInv => DupTypeOK /\ SkippedForAnEqual /\ SkipsReported
  BY DEF DupInv
<1> QED
  BY <1>1, <1>2, DupStart, PTL DEF DupSpec

-----------------------------------------------------------------------------
(* The loggers.  Three properties speak of calls that are over: of the     *)
(* others, what a sink has still to do for a call is Ahead of it.  A call  *)
(* is at one place only, and its loop goes forward, so that a sink gets or *)
(* throws for it once.                                                     *)

CallRecord == [logger : Loggers, level : Levels, fate : {"refused", "taken", "bad", "flush"}]
HeldRecord == [id : 0 .. MaxCalls, turn : 0 .. Len(SinkList) + 2, loop : {"log", "flush"}]

Receives(s, c) == \E k \in 1 .. Len(got[s]) : got[s][k] = c

\* Sink i has still to get call c, or to be flushed for it.
Ahead(c, i, loop) ==
  \/ \E t \in Threads :
       /\ call[t].id = c
       /\ (call[t].loop = loop /\ call[t].turn <= i) \/ (call[t].loop = "log" /\ loop = "flush")
  \/ \E k \in 1 .. Len(posted) : posted[k].id = c

\* A call that goes through the sinks, or waits to.
Running(h) ==
  /\ h.id \in 1 .. Len(calls) /\ h.turn \in 1 .. Len(SinkList) + 1 /\ h.loop \in {"log", "flush"}
  /\ calls[h.id].fate \in {"taken", "flush"} /\ (calls[h.id].fate = "flush" => h.loop = "flush")

CallsPlaced ==
  /\ \A t \in Threads : call[t] = Idle \/ Running(call[t])
  /\ \A k \in 1 .. Len(posted) :
       /\ Running(posted[k]) /\ posted[k].turn = 1
       /\ calls[posted[k].id].fate = "taken" => posted[k].loop = "log"
  /\ \A t, u \in Threads : call[t].id = call[u].id /\ call[t].id # 0 => t = u
  /\ \A j, k \in 1 .. Len(posted) : posted[j].id = posted[k].id => j = k
  /\ \A t \in Threads, k \in 1 .. Len(posted) : call[t].id # posted[k].id

LoggerTyping ==
  /\ LoggerTypeOK
  /\ config \in [Loggers -> [level : Levels, flush : Levels, sinks : {SinkList}]]
  /\ posted \in Seq(HeldRecord)
  /\ calls \in Seq(CallRecord)
  /\ unflushed \in [LogSinks -> SUBSET (1 .. Len(calls))]
  /\ thrown \subseteq LogSinks \X (1 .. Len(calls)) \X {"log", "flush"} /\ IsFiniteSet(thrown)
  /\ levels \in [log : SUBSET Levels, flush : SUBSET Levels, sink : SUBSET Levels]
  /\ clock \in Nat /\ last_report \in Int /\ Len(calls) <= MaxCalls

LevelsSeen ==
  /\ \A l \in Loggers : config[l].level \in levels.log /\ config[l].flush \in levels.flush
  /\ \A s \in LogSinks : sinkLevel[s] \in levels.sink
  /\ \A c \in 1 .. Len(calls) :
       /\ calls[c].fate = "taken" => \E v \in levels.log : v <= calls[c].level
       /\ calls[c].fate = "refused" => \E v \in levels.log : v > calls[c].level

GotOnce ==
  \A s \in LogSinks :
    /\ \A k \in 1 .. Len(got[s]) :
         /\ got[s][k] \in 1 .. Len(calls) /\ calls[got[s][k]].fate = "taken"
         /\ \E v \in levels.sink : v <= calls[got[s][k]].level
    /\ \A j, k \in 1 .. Len(got[s]) : got[s][j] = got[s][k] => j = k

NothingAhead ==
  \A i \in 1 .. Len(SinkList), c \in 1 .. Len(calls), loop \in {"log", "flush"} :
    Ahead(c, i, loop) =>
      <<SinkList[i], c, loop>> \notin thrown /\ (loop = "log" => ~Receives(SinkList[i], c))

ServedSoFar ==
  \A i \in 1 .. Len(SinkList), c \in 1 .. Len(calls) :
    /\ calls[c].fate = "taken" /\ ~Ahead(c, i, "log")
    /\ \A v \in levels.sink : v <= calls[c].level
    => Receives(SinkList[i], c) \/ Excused(SinkList[i], c, "log")

FlushedSoFar ==
  \A i \in 1 .. Len(SinkList), c \in 1 .. Len(calls) :
    /\ c \in unflushed[SinkList[i]] /\ ~Ahead(c, i, "flush")
    /\ calls[c].level # Off /\ \A v \in levels.flush : v <= calls[c].level
    => Excused(SinkList[i], c, "flush")

ReportsTimed ==
  /\ ErrorsCounted
  /\ err_counter = 0 => last_report = -Second
  /\ Second * printed <= last_report + Second /\ last_report <= clock

LogInv ==
  /\ LoggerTyping /\ LevelsSeen /\ CallsPlaced /\ GotOnce
  /\ NothingAhead /\ ServedSoFar /\ FlushedSoFar /\ ReportsTimed

LEMMA SinkFacts ==
  /\ SinkList \in Seq(LogSinks) /\ Len(SinkList) \in Nat /\ DOMAIN SinkList = 1 .. Len(SinkList)
  /\ \A i \in 1 .. Len(SinkList) : SinkList[i] \in LogSinks
  /\ \A s \in LogSinks : \E i \in 1 .. Len(SinkList) : SinkList[i] = s
  /\ \A i, j \in 1 .. Len(SinkList) : SinkList[i] = SinkList[j] => i = j
  /\ Off \in Nat \ {0} /\ MaxCalls \in Nat /\ MaxChanges \in Nat /\ MaxClock \in Nat
<1>1. SinkList \in Seq(LogSinks) /\ IsInjective(SinkList)
  BY LoggerAssumption DEF LoggerAssumption, LogSinks
<1>2. Len(SinkList) \in Nat /\ DOMAIN SinkList = 1 .. Len(SinkList)
  BY <1>1, LenProperties
<1>3. \A i \in 1 .. Len(SinkList) : SinkList[i] \in LogSinks
  BY <1>1, ElementOfSeq
<1>4. \A s \in LogSinks : \E i \in 1 .. Len(SinkList) : SinkList[i] = s
  BY <1>2 DEF LogSinks, ToSet
<1>5. \A i, j \in 1 .. Len(SinkList) : SinkList[i] = SinkList[j] => i = j
  BY <1>1, <1>2 DEF IsInjective
<1>6. Off \in Nat \ {0} /\ MaxCalls \in Nat /\ MaxChanges \in Nat /\ MaxClock \in Nat
  BY LoggerAssumption DEF LoggerAssumption
<1> QED
  BY <1>1, <1>2, <1>3, <1>4, <1>5, <1>6

LEMMA LoggerTypes ==
  ASSUME LogInv
  PROVE  /\ calls \in Seq(CallRecord) /\ Len(calls) \in Nat /\ DOMAIN calls = 1 .. Len(calls)
         /\ \A c \in 1 .. Len(calls) : calls[c] \in CallRecord
         /\ posted \in Seq(HeldRecord) /\ Len(posted) \in Nat /\ DOMAIN posted = 1 .. Len(posted)
         /\ \A k \in 1 .. Len(posted) : posted[k] \in HeldRecord
         /\ \A t \in Threads : call[t] \in HeldRecord
         /\ \A s \in LogSinks : got[s] \in Seq(1 .. MaxCalls) /\ Len(got[s]) \in Nat
                               /\ DOMAIN got[s] = 1 .. Len(got[s])
         /\ \A l \in Loggers : config[l].sinks = SinkList
<1>1. calls \in Seq(CallRecord) /\ posted \in Seq(HeldRecord)
  BY DEF LogInv, LoggerTyping
<1>2. Len(calls) \in Nat /\ DOMAIN calls = 1 .. Len(calls) /\ Len(posted) \in Nat /\ DOMAIN posted = 1 .. Len(posted)
  BY <1>1, LenProperties
<1>3. \A c \in 1 .. Len(calls) : calls[c] \in CallRecord
  BY <1>1, ElementOfSeq
<1>4. \A k \in 1 .. Len(posted) : posted[k] \in HeldRecord
  BY <1>1, ElementOfSeq
<1>5. \A t \in Threads : call[t] \in HeldRecord
  BY DEF LogInv, LoggerTyping, LoggerTypeOK, HeldRecord
<1>6. \A s \in LogSinks : got[s] \in Seq(1 .. MaxCalls)
  BY DEF LogInv, LoggerTyping, LoggerTypeOK
<1>7. \A s \in LogSinks : Len(got[s]) \in Nat /\ DOMAIN got[s] = 1 .. Len(got[s])
  BY <1>6, LenProperties
<1>8. \A l \in Loggers : config[l].sinks = SinkList
  BY DEF LogInv, LoggerTyping
<1> QED
  BY <1>1, <1>2, <1>3, <1>4, <1>5, <1>6, <1>7, <1>8

\* A call whose turn it is at a sink.
LEMMA TurnFacts ==
  ASSUME LogInv, NEW t \in Threads, NEW loop, AtSink(t, loop)
  PROVE  /\ Running(call[t]) /\ call[t].loop = loop /\ call[t].id \in 1 .. Len(calls)
         /\ call[t].turn \in 1 .. Len(SinkList) /\ SinksOf(t) = SinkList
         /\ Of(t) = calls[call[t].id] /\ Of(t) \in CallRecord
<1>1. Running(call[t]) /\ call[t].loop = loop
  BY DEF LogInv, CallsPlaced, AtSink
<1>2. call[t].id \in 1 .. Len(calls) /\ call[t].turn \in 1 .. Len(SinkList) + 1
  BY <1>1 DEF Running
<1>3. Of(t) \in CallRecord /\ Of(t) = calls[call[t].id]
  BY <1>2, LoggerTypes DEF Of
<1>4. SinksOf(t) = SinkList
  <2>1. Of(t).logger \in Loggers
    BY <1>3 DEF CallRecord
  <2> QED
    BY <2>1, LoggerTypes DEF SinksOf
<1>5. call[t].turn \in 1 .. Len(SinkList)
  BY <1>2, <1>4, SinkFacts DEF AtSink
<1> QED
  BY <1>1, <1>2, <1>3, <1>4, <1>5

\* What is ahead of a call that is at a sink, and of no other place.
LEMMA AheadOfTurn ==
  ASSUME LogInv, NEW t \in Threads, NEW loop \in {"log", "flush"}, AtSink(t, loop),
         NEW c, c = call[t].id
  PROVE  /\ \A i \in 1 .. Len(SinkList) : Ahead(c, i, loop) <=> call[t].turn <= i
         /\ \A i : loop = "log" => Ahead(c, i, "flush")
         /\ \A i : loop = "flush" => ~Ahead(c, i, "log")
<1>1. /\ call[t].loop = loop /\ c \in 1 .. Len(calls)
  BY TurnFacts
<1>2. \A u \in Threads : call[u].id = c => u = t
  BY <1>1 DEF LogInv, CallsPlaced
<1>3. \A k \in 1 .. Len(posted) : posted[k].id # c
  BY <1>1 DEF LogInv, CallsPlaced
<1>4. \A i, lp : Ahead(c, i, lp) <=> (loop = lp /\ call[t].turn <= i) \/ (loop = "log" /\ lp = "flush")
  BY <1>1, <1>2, <1>3 DEF Ahead
<1> QED
  BY <1>4

\* It moves on to a later turn.
MovesTo(t, n) == call' = [call EXCEPT ![t].turn = n]

TurnTaken(c, n, loop) ==
  /\ CallsPlaced' /\ call' \in [Threads -> HeldRecord]
  /\ \A d, i, lp : d # c => (Ahead(d, i, lp)' <=> Ahead(d, i, lp))
  /\ \A i \in 1 .. Len(SinkList) : Ahead(c, i, loop)' <=> n <= i
  /\ \A i : loop = "log" => Ahead(c, i, "flush")'
  /\ \A i : loop = "flush" => ~Ahead(c, i, "log")'

LEMMA TurnMoves ==
  ASSUME LogInv, NEW t \in Threads, NEW loop \in {"log", "flush"}, AtSink(t, loop),
         NEW c, c = call[t].id, NEW n \in 1 .. Len(SinkList) + 1, n > call[t].turn,
         MovesTo(t, n), UNCHANGED <<posted, calls>>
  PROVE  TurnTaken(c, n, loop)
<1>1. /\ call[t].loop = loop /\ c \in 1 .. Len(calls) /\ Running(call[t])
  BY TurnFacts
<1>2. call \in [Threads -> HeldRecord]
  BY DEF LogInv, LoggerTyping, LoggerTypeOK, HeldRecord
<1>3. /\ call'[t].id = c /\ call'[t].turn = n /\ call'[t].loop = loop /\ call'[t] \in HeldRecord
      /\ \A u \in Threads : u # t => call'[u] = call[u]
  <2>1. call[t] \in HeldRecord /\ n \in 0 .. Len(SinkList) + 2
    BY <1>2, SinkFacts
  <2>2. call'[t] = [call[t] EXCEPT !.turn = n] /\ \A u \in Threads : u # t => call'[u] = call[u]
    BY <1>2 DEF MovesTo
  <2> QED
    BY <1>1, <2>1, <2>2 DEF HeldRecord
<1>4. call' \in [Threads -> HeldRecord]
  BY <1>2, <1>3 DEF MovesTo
<1>5. \A u \in Threads : call'[u].id = call[u].id
  BY <1>3
<1>6. CallsPlaced'
  <2>1. \A u \in Threads : (call[u] = Idle \/ Running(call[u]))'
    <3> TAKE u \in Threads
    <3>1. CASE u = t
      <4>1. Running(call[t])'
        BY <1>1, <1>3 DEF Running
      <4> QED
        BY <3>1, <4>1
    <3>2. CASE u # t
      <4>1. call[u] = Idle \/ Running(call[u])
        BY DEF LogInv, CallsPlaced
      <4> QED
        BY <1>3, <3>2, <4>1 DEF Running, Idle
    <3> QED
      BY <3>1, <3>2
  <2>2. \A k \in 1 .. Len(posted') :
          /\ Running(posted[k])' /\ posted'[k].turn = 1
          /\ calls'[posted'[k].id].fate = "taken" => posted'[k].loop = "log"
    BY DEF LogInv, CallsPlaced, Running
  <2>3. /\ \A r, u \in Threads : call'[r].id = call'[u].id /\ call'[r].id # 0 => r = u
        /\ \A r \in Threads, k \in 1 .. Len(posted') : call'[r].id # posted'[k].id
        /\ \A j, k \in 1 .. Len(posted') : posted'[j].id = posted'[k].id => j = k
    BY <1>5 DEF LogInv, CallsPlaced
  <2> QED
    BY <2>1, <2>2, <2>3 DEF CallsPlaced, Threads
<1>7. \A u \in Threads : call[u].id = c => u = t
  BY <1>1 DEF LogInv, CallsPlaced
<1>8. \A k \in 1 .. Len(posted) : posted[k].id # c
  BY <1>1 DEF LogInv, CallsPlaced
<1>9. \A d, i, lp : d # c => (Ahead(d, i, lp)' <=> Ahead(d, i, lp))
  BY <1>3, <1>5 DEF Ahead, Threads
<1>10. \A i, lp : Ahead(c, i, lp)' <=> (loop = lp /\ n <= i) \/ (loop = "log" /\ lp = "flush")
  BY <1>3, <1>5, <1>7, <1>8 DEF Ahead, Threads
<1> QED
  BY <1>4, <1>6, <1>9, <1>10 DEF TurnTaken

\* The failures that have been reported.
BadCalls == {c \in DOMAIN calls : calls[c].fate = "bad"}

LEMMA FailuresAreFinite ==
  ASSUME LogInv
  PROVE  /\ IsFiniteSet(thrown) /\ Cardinality(thrown) \in Nat
         /\ IsFiniteSet(BadCalls) /\ Cardinality(BadCalls) \in Nat
<1>1. IsFiniteSet(thrown)
  BY DEF LogInv, LoggerTyping
<1>2. IsFiniteSet(BadCalls)
  <2>1. BadCalls \subseteq 1 .. Len(calls) /\ IsFiniteSet(1 .. Len(calls))
    BY LoggerTypes, FS_Interval DEF BadCalls
  <2> QED
    BY <2>1, FS_Subset
<1> QED
  BY <1>1, <1>2, FS_CardinalityType

\* One failure more, reported by the default handler.
LEMMA ErrHandlerKept ==
  ASSUME LogInv, ErrHandler, UNCHANGED clock,
         Cardinality(thrown') + Cardinality(BadCalls') = Cardinality(thrown) + Cardinality(BadCalls) + 1
  PROVE  ReportsTimed' /\ err_counter' \in Nat /\ printed' \in 0 .. err_counter' /\ last_report' \in Int
<1>1. /\ err_counter \in Nat /\ printed \in 0 .. err_counter /\ clock \in Nat /\ last_report \in Int
  BY DEF LogInv, LoggerTyping, LoggerTypeOK
<1>2. /\ err_counter = Cardinality(thrown) + Cardinality(BadCalls) /\ (err_counter > 0 => printed > 0)
      /\ (err_counter = 0 => last_report = -Second)
      /\ Second * printed <= last_report + Second /\ last_report <= clock
  BY DEF LogInv, ReportsTimed, ErrorsCounted, BadCalls
<1>3. err_counter' = err_counter + 1 /\ clock' = clock
  BY DEF ErrHandler
<1>4. err_counter' = Cardinality(thrown') + Cardinality(BadCalls')
  BY <1>2, <1>3
<1>5. CASE clock - last_report < Second
  <2>1. last_report' = last_report /\ printed' = printed
    BY <1>5 DEF ErrHandler
  <2>2. err_counter > 0 /\ printed > 0
    BY <1>1, <1>2, <1>5 DEF Second
  <2>3. /\ err_counter' > 0 /\ err_counter' # 0 /\ err_counter' \in Nat /\ printed' \in 0 .. err_counter'
    BY <1>1, <1>3, <2>1
  <2>4. Second * printed <= clock + Second
    BY <1>1, <1>2 DEF Second
  <2> QED
    BY <1>1, <1>2, <1>3, <1>4, <2>1, <2>2, <2>3, <2>4 DEF ReportsTimed, ErrorsCounted, BadCalls
<1>6. CASE ~(clock - last_report < Second)
  <2>1. last_report' = clock /\ printed' = printed + 1
    BY <1>6 DEF ErrHandler
  <2>2. /\ err_counter' > 0 /\ err_counter' # 0 /\ err_counter' \in Nat /\ printed' \in 0 .. err_counter'
        /\ printed' > 0 /\ last_report' \in Int /\ last_report' <= clock'
    BY <1>1, <1>3, <2>1
  <2>3. Second * printed' <= clock + Second
    BY <1>1, <1>2, <1>6, <2>1 DEF Second
  <2> QED
    BY <1>3, <1>4, <2>1, <2>2, <2>3 DEF ReportsTimed, ErrorsCounted, BadCalls
<1> QED
  BY <1>5, <1>6

\* No failure more.
LEMMA NoErrorKept ==
  ASSUME LogInv, NoError, clock' \in Nat, clock' >= clock, UNCHANGED thrown,
         Cardinality(BadCalls') = Cardinality(BadCalls)
  PROVE  ReportsTimed' /\ err_counter' \in Nat /\ printed' \in 0 .. err_counter' /\ last_report' \in Int
<1>1. /\ err_counter \in Nat /\ printed \in 0 .. err_counter /\ clock \in Nat /\ last_report \in Int
  BY DEF LogInv, LoggerTyping, LoggerTypeOK
<1>2. /\ err_counter = Cardinality(thrown) + Cardinality(BadCalls) /\ (err_counter > 0 => printed > 0)
      /\ (err_counter = 0 => last_report = -Second)
      /\ Second * printed <= last_report + Second /\ last_report <= clock
  BY DEF LogInv, ReportsTimed, ErrorsCounted, BadCalls
<1>3. err_counter' = err_counter /\ last_report' = last_report /\ printed' = printed
  BY DEF NoError
<1>4. /\ Second * printed <= clock' + Second /\ last_report <= clock'
  <2>1. printed \in Nat /\ clock' \in Nat /\ clock \in Nat /\ clock' >= clock
    BY <1>1
  <2>2. Second * printed <= last_report + Second /\ last_report <= clock
    BY <1>2
  <2>3. last_report \in Int /\ last_report <= clock'
    BY <1>1, <2>1, <2>2
  <2> DEFINE m == Second * printed
  <2>4. m \in Int
    BY <2>1 DEF Second
  <2>5. m <= last_report + 2
    BY <2>2 DEF Second
  <2> HIDE DEF m
  <2>6. m <= clock' + 2
    <3>1. \A x, y, z \in Int : x <= y + 2 /\ y <= z => x <= z + 2
      OBVIOUS
    <3>2. clock' \in Int /\ last_report \in Int /\ m \in Int
      BY <2>1, <2>3, <2>4
    <3> QED
      BY <2>3, <2>5, <3>1, <3>2
  <2> QED
    BY <2>3, <2>6 DEF m, Second
<1> QED
  BY <1>1, <1>2, <1>3, <1>4 DEF ReportsTimed, ErrorsCounted, BadCalls

\* A sink throws, for a message or for a flush.
LEMMA ThrowsKept ==
  ASSUME LogInv, NEW t \in Threads, NEW loop \in {"log", "flush"}, AtSink(t, loop),
         Throws(t, SinksOf(t)[call[t].turn]),
         UNCHANGED <<config, sinkLevel, posted, calls, levels, changes, clock>>
  PROVE  LogInv'
<1> DEFINE i0 == call[t].turn
           s0 == SinkList[call[t].turn]
           n0 == IF Of(t).logger \in AsyncLoggers THEN Len(SinkList) + 1 ELSE call[t].turn + 1
<1> SUFFICES ASSUME NEW c, c = call[t].id,
                    NEW i, i = i0,
                    NEW s, s = s0,
                    NEW n, n = n0
             PROVE  LogInv'
  OBVIOUS
<1>1. /\ Running(call[t]) /\ call[t].loop = loop /\ c \in 1 .. Len(calls) /\ i \in 1 .. Len(SinkList)
      /\ SinksOf(t) = SinkList /\ Of(t) = calls[c]
  BY TurnFacts
<1>2. /\ thrown' = thrown \cup {<<s, c, loop>>} /\ ErrHandler
      /\ UNCHANGED <<got, unflushed>>
      /\ call' = [call EXCEPT ![t].turn = n]
  BY <1>1 DEF Throws, Caught
<1>3. n \in 1 .. Len(SinkList) + 1 /\ n > i /\ i = call[t].turn /\ Len(SinkList) \in Nat
  BY <1>1, SinkFacts
<1>4. /\ CallsPlaced' /\ call' \in [Threads -> HeldRecord]
      /\ \A d, j, lp : d # c => (Ahead(d, j, lp)' <=> Ahead(d, j, lp))
      /\ \A j \in 1 .. Len(SinkList) : Ahead(c, j, loop)' <=> n <= j
      /\ \A j : loop = "log" => Ahead(c, j, "flush")'
      /\ \A j : loop = "flush" => ~Ahead(c, j, "log")'
  <2>1. n > call[t].turn /\ MovesTo(t, n)
    BY <1>2, <1>3 DEF MovesTo
  <2>2. c = call[t].id /\ UNCHANGED <<posted, calls>> /\ n \in 1 .. Len(SinkList) + 1
    BY <1>3
  <2> HIDE DEF i0, s0, n0
  <2>3. TurnTaken(c, n, loop)
    BY <2>1, <2>2, TurnMoves
  <2> QED
    BY <2>3 DEF TurnTaken
<1>5. /\ \A j \in 1 .. Len(SinkList) : Ahead(c, j, loop) <=> i <= j
      /\ \A j : loop = "log" => Ahead(c, j, "flush")
      /\ \A j : loop = "flush" => ~Ahead(c, j, "log")
  BY <1>3, AheadOfTurn
<1>6. s \in LogSinks /\ \A j \in 1 .. Len(SinkList) : SinkList[j] = s => j = i
  BY <1>1, SinkFacts
<1>7. <<s, c, loop>> \notin thrown
  <2>1. Ahead(c, i, loop)
    BY <1>1, <1>3, <1>5
  <2> QED
    BY <1>1, <2>1 DEF LogInv, NothingAhead
<1>8. ReportsTimed' /\ err_counter' \in Nat /\ printed' \in 0 .. err_counter' /\ last_report' \in Int
  <2>1. BadCalls' = BadCalls
    BY DEF BadCalls
  <2>2. Cardinality(thrown') = Cardinality(thrown) + 1
    BY <1>2, <1>7, FailuresAreFinite, FS_AddElement
  <2>3. Cardinality(thrown') + Cardinality(BadCalls') = Cardinality(thrown) + Cardinality(BadCalls) + 1
    BY <2>1, <2>2, FailuresAreFinite
  <2> QED
    BY <1>2, <2>3, ErrHandlerKept
<1>9. LoggerTyping'
  <2>1. IsFiniteSet(thrown')
    BY <1>2, FailuresAreFinite, FS_AddElement
  <2>2. thrown' \subseteq LogSinks \X (1 .. Len(calls)) \X {"log", "flush"}
    <3>1. thrown \subseteq LogSinks \X (1 .. Len(calls)) \X {"log", "flush"}
      BY DEF LogInv, LoggerTyping
    <3> QED
      BY <1>1, <1>2, <1>6, <3>1
  <2>3. LoggerTypeOK'
    BY <1>2, <1>4, <1>8 DEF LogInv, LoggerTyping, LoggerTypeOK, HeldRecord, Threads, LogSinks, Levels
  <2> QED
    BY <1>2, <1>8, <2>1, <2>2, <2>3
    DEF LogInv, LoggerTyping, CallRecord, HeldRecord, Threads, LogSinks, Levels
<1>10. LevelsSeen'
  BY DEF LogInv, LevelsSeen, LogSinks
<1>11. GotOnce'
  BY <1>2 DEF LogInv, GotOnce, LogSinks
<1>12. NothingAhead'
  <2> SUFFICES ASSUME NEW j \in 1 .. Len(SinkList), NEW d \in 1 .. Len(calls), NEW lp \in {"log", "flush"},
                      Ahead(d, j, lp)'
               PROVE  <<SinkList[j], d, lp>> \notin thrown' /\ (lp = "log" => ~Receives(SinkList[j], d)')
    BY DEF NothingAhead
  <2>1. Ahead(d, j, lp)
    <3>1. CASE d # c
      BY <1>4, <3>1
    <3>2. CASE d = c /\ lp = loop
      <4>1. n <= j
        BY <1>4, <3>2
      <4>2. i <= j
        BY <1>1, <1>3, <4>1
      <4> QED
        BY <1>5, <3>2, <4>2
    <3>3. CASE d = c /\ lp # loop
      BY <1>4, <1>5, <3>3
    <3> QED
      BY <3>1, <3>2, <3>3
  <2>2. <<SinkList[j], d, lp>> \notin thrown /\ (lp = "log" => ~Receives(SinkList[j], d))
    BY <2>1 DEF LogInv, NothingAhead
  <2>3. <<SinkList[j], d, lp>> # <<s, c, loop>>
    <3>1. ASSUME <<SinkList[j], d, lp>> = <<s, c, loop>>
          PROVE  FALSE
      <4>1. j = i /\ d = c /\ lp = loop
        BY <1>6, <3>1
      <4> QED
        BY <1>1, <1>3, <1>4, <4>1
    <3> QED
      BY <3>1
  <2>4. Receives(SinkList[j], d)' <=> Receives(SinkList[j], d)
    BY <1>2 DEF Receives
  <2> QED
    BY <1>2, <2>2, <2>3, <2>4
<1>13. \A r \in LogSinks : \A d, lp : Excused(r, d, lp) => Excused(r, d, lp)'
  BY <1>2 DEF Excused, LogSinks
<1>14. \A j \in 1 .. Len(SinkList) : Ahead(c, j, loop) /\ ~Ahead(c, j, loop)' => Excused(SinkList[j], c, loop)'
  <2> TAKE j \in 1 .. Len(SinkList)
  <2> HAVE Ahead(c, j, loop) /\ ~Ahead(c, j, loop)'
  <2>1. i <= j /\ ~(n <= j)
    BY <1>4, <1>5
  <2>2. CASE Of(t).logger \in AsyncLoggers
    BY <1>1, <1>2, <1>6, <2>2 DEF Excused, LogSinks
  <2>3. CASE Of(t).logger \notin AsyncLoggers
    <3>1. j = i
      BY <1>1, <1>3, <2>1, <2>3
    <3> QED
      BY <1>2, <1>3, <3>1 DEF Excused
  <2> QED
    BY <2>2, <2>3
<1>15. ServedSoFar'
  <2> SUFFICES ASSUME NEW j \in 1 .. Len(SinkList), NEW d \in 1 .. Len(calls),
                      calls[d].fate = "taken", ~Ahead(d, j, "log")',
                      \A v \in levels.sink : v <= calls[d].level
               PROVE  Receives(SinkList[j], d)' \/ Excused(SinkList[j], d, "log")'
    BY DEF ServedSoFar
  <2>1. Receives(SinkList[j], d)' <=> Receives(SinkList[j], d)
    BY <1>2 DEF Receives
  <2>2. CASE ~Ahead(d, j, "log")
    <3>1. Receives(SinkList[j], d) \/ Excused(SinkList[j], d, "log")
      BY <2>2 DEF LogInv, ServedSoFar
    <3> QED
      BY <1>13, <2>1, <3>1, SinkFacts
  <2>3. CASE Ahead(d, j, "log")
    <3>1. d = c /\ loop = "log"
      BY <1>4, <1>5, <2>3
    <3> QED
      BY <1>14, <2>3, <3>1
  <2> QED
    BY <2>2, <2>3
<1>16. FlushedSoFar'
  <2> SUFFICES ASSUME NEW j \in 1 .. Len(SinkList), NEW d \in 1 .. Len(calls),
                      d \in unflushed[SinkList[j]], ~Ahead(d, j, "flush")',
                      calls[d].level # Off, \A v \in levels.flush : v <= calls[d].level
               PROVE  Excused(SinkList[j], d, "flush")'
    BY <1>2 DEF FlushedSoFar
  <2>1. CASE ~Ahead(d, j, "flush")
    <3>1. Excused(SinkList[j], d, "flush")
      BY <2>1 DEF LogInv, FlushedSoFar
    <3> QED
      BY <1>13, <3>1, SinkFacts
  <2>2. CASE Ahead(d, j, "flush")
    <3>1. d = c /\ loop = "flush"
      BY <1>4, <1>5, <2>2
    <3> QED
      BY <1>14, <2>2, <3>1
  <2> QED
    BY <2>1, <2>2
<1> QED
  BY <1>4, <1>8, <1>9, <1>10, <1>11, <1>12, <1>15, <1>16 DEF LogInv

LEMMA LevelsAreNumbers ==
  ASSUME LogInv
  PROVE  /\ \A s \in LogSinks : sinkLevel[s] \in Nat
         /\ \A c \in 1 .. Len(calls) : calls[c].level \in Nat
         /\ \A l \in Loggers : config[l].level \in Nat /\ config[l].flush \in Nat
<1>1. Levels \subseteq Nat
  BY SinkFacts DEF Levels
<1>2. \A s \in LogSinks : sinkLevel[s] \in Levels
  BY DEF LogInv, LoggerTyping, LoggerTypeOK
<1>3. \A c \in 1 .. Len(calls) : calls[c].level \in Levels
  BY LoggerTypes DEF CallRecord
<1>4. \A l \in Loggers : config[l].level \in Levels /\ config[l].flush \in Levels
  BY DEF LogInv, LoggerTyping, LoggerTypeOK
<1> QED
  BY <1>1, <1>2, <1>3, <1>4

\* Errors aside, what stays as it is when no sink throws and no call is new.
LEMMA QuietKept ==
  ASSUME LogInv, NoError, UNCHANGED <<calls, thrown, clock>>
  PROVE  ReportsTimed' /\ err_counter' \in Nat /\ printed' \in 0 .. err_counter' /\ last_report' \in Int
<1>1. clock' \in Nat /\ clock' >= clock
  BY DEF LogInv, LoggerTyping
<1>2. Cardinality(BadCalls') = Cardinality(BadCalls)
  BY ZenonT(60) DEF BadCalls
<1> QED
  BY <1>1, <1>2, NoErrorKept

\* A sink gets a message, or is above its level.
LEMMA LogToSinkKept ==
  ASSUME LogInv, NEW t \in Threads, LogToSink(t)
  PROVE  LogInv'
<1>0. SUFFICES ASSUME NEW c, c = call[t].id,
                      NEW i, i = call[t].turn,
                      NEW s, s = SinkList[call[t].turn],
                      NEW n, n = call[t].turn + 1,
                      NEW loop, loop = "log"
               PROVE  LogInv'
  OBVIOUS
<1>1. AtSink(t, "log") /\ UNCHANGED <<config, sinkLevel, posted, calls, levels, changes, clock>>
  BY DEF LogToSink
<1>2. /\ Running(call[t]) /\ call[t].loop = "log" /\ c \in 1 .. Len(calls) /\ i \in 1 .. Len(SinkList)
      /\ SinksOf(t) = SinkList /\ Of(t) = calls[c] /\ Of(t) \in CallRecord
  BY <1>0, <1>1, TurnFacts
<1>3. s \in LogSinks /\ s = SinkList[i] /\ \A j \in 1 .. Len(SinkList) : SinkList[j] = s => j = i
  BY <1>0, <1>2, SinkFacts
<1>4. CASE Throws(t, s)
  BY <1>0, <1>1, <1>2, <1>4, ThrowsKept
<1>5. CASE /\ Next_(t) /\ NoError /\ UNCHANGED thrown
           /\ \/ Of(t).level < sinkLevel[s] /\ UNCHANGED <<got, unflushed>>
              \/ /\ Of(t).level >= sinkLevel[s]
                 /\ got' = [got EXCEPT ![s] = Append(@, c)]
                 /\ unflushed' = [unflushed EXCEPT ![s] = @ \cup {c}]
  <2>1. n \in 1 .. Len(SinkList) + 1 /\ n > call[t].turn /\ MovesTo(t, n)
    <3>1. MovesTo(t, n)
      BY <1>0, <1>5 DEF Next_, MovesTo
    <3> QED
      BY <1>0, <1>2, <3>1, SinkFacts, SMTT(30)
  <2>2. /\ CallsPlaced' /\ call' \in [Threads -> HeldRecord]
        /\ \A d, j, lp : d # c => (Ahead(d, j, lp)' <=> Ahead(d, j, lp))
        /\ \A j \in 1 .. Len(SinkList) : Ahead(c, j, "log")' <=> n <= j
        /\ \A j : Ahead(c, j, "flush")'
    <3>1. /\ AtSink(t, loop) /\ loop \in {"log", "flush"} /\ c = call[t].id
          /\ UNCHANGED <<posted, calls>>
      BY <1>0, <1>1
    <3>2. TurnTaken(c, n, loop)
      BY <2>1, <3>1, TurnMoves
    <3> QED
      BY <1>0, <3>2 DEF TurnTaken
  <2>3. /\ \A j \in 1 .. Len(SinkList) : Ahead(c, j, "log") <=> i <= j
        /\ \A j : Ahead(c, j, "flush")
    BY <1>0, <1>1, AheadOfTurn
  <2>4. ReportsTimed' /\ err_counter' \in Nat /\ printed' \in 0 .. err_counter' /\ last_report' \in Int
    BY <1>1, <1>5, QuietKept
  <2>5. /\ \A r \in LogSinks : r # s => got'[r] = got[r] /\ unflushed'[r] = unflushed[r]
        /\ \/ got'[s] = got[s] /\ unflushed'[s] = unflushed[s]
           \/ got'[s] = Append(got[s], c) /\ unflushed'[s] = unflushed[s] \cup {c}
        /\ got' \in [LogSinks -> Seq(1 .. MaxCalls)]
        /\ unflushed' \in [LogSinks -> SUBSET (1 .. Len(calls))]
    <3>1. /\ got \in [LogSinks -> Seq(1 .. MaxCalls)]
          /\ unflushed \in [LogSinks -> SUBSET (1 .. Len(calls))]
      BY DEF LogInv, LoggerTyping, LoggerTypeOK
    <3>2. c \in 1 .. MaxCalls
      BY <1>2, SinkFacts, LoggerTypes DEF LogInv, LoggerTyping
    <3>3. CASE UNCHANGED <<got, unflushed>>
      BY <3>1, <3>3
    <3>4. CASE /\ got' = [got EXCEPT ![s] = Append(@, c)]
               /\ unflushed' = [unflushed EXCEPT ![s] = @ \cup {c}]
      <4>1. Append(got[s], c) \in Seq(1 .. MaxCalls)
        BY <1>3, <3>1, <3>2, AppendProperties
      <4>2. unflushed[s] \cup {c} \in SUBSET (1 .. Len(calls))
        BY <1>2, <1>3, <3>1
      <4> QED
        BY <1>3, <3>1, <3>4, <4>1, <4>2
    <3> QED
      BY <1>5, <3>3, <3>4
  <2>6. ~Receives(s, c)
    <3>1. Ahead(c, i, "log")
      BY <1>2, <2>3, SinkFacts
    <3> QED
      BY <1>2, <1>3, <3>1 DEF LogInv, NothingAhead
  <2>7. /\ \A r \in LogSinks : \A d : Receives(r, d) => Receives(r, d)'
        /\ \A r \in LogSinks : \A d : Receives(r, d)' => Receives(r, d) \/ (r = s /\ d = c)
        /\ Receives(s, c)' \/ Of(t).level < sinkLevel[s]
    <3>1. got[s] \in Seq(1 .. MaxCalls) /\ Len(got[s]) \in Nat
      BY <1>3, LoggerTypes
    <3>2. CASE got'[s] = Append(got[s], c)
      <4>1. /\ Len(got'[s]) = Len(got[s]) + 1 /\ got'[s][Len(got[s]) + 1] = c
            /\ \A k \in 1 .. Len(got[s]) : got'[s][k] = got[s][k]
        BY <3>1, <3>2, AppendProperties
      <4>2. \A k : k \in 1 .. Len(got[s]) + 1 <=> k \in 1 .. Len(got[s]) \/ k = Len(got[s]) + 1
        BY <3>1
      <4>3. \A d : Receives(s, d)' <=> Receives(s, d) \/ d = c
        BY <4>1, <4>2 DEF Receives
      <4>4. \A r \in LogSinks : \A d : r # s => (Receives(r, d)' <=> Receives(r, d))
        BY <2>5 DEF Receives
      <4> QED
        BY <4>3, <4>4
    <3>3. CASE got'[s] = got[s]
      <4>1. \A r \in LogSinks : \A d : Receives(r, d)' <=> Receives(r, d)
        BY <2>5, <3>3 DEF Receives
      <4>2. Of(t).level < sinkLevel[s]
        <5>1. CASE got' = [got EXCEPT ![s] = Append(@, c)]
          <6>1. got'[s] = Append(got[s], c)
            BY <1>3, <5>1 DEF LogInv, LoggerTyping, LoggerTypeOK
          <6>2. Len(got'[s]) = Len(got[s]) + 1
            BY <3>1, <6>1, AppendProperties
          <6> QED
            BY <3>1, <3>3, <6>2
        <5> QED
          BY <1>5, <5>1
      <4> QED
        BY <4>1, <4>2
    <3> QED
      BY <2>5, <3>2, <3>3
  <2>8. LoggerTyping'
    <3>1. LoggerTypeOK'
      BY <1>1, <2>2, <2>4, <2>5 DEF LogInv, LoggerTyping, LoggerTypeOK, HeldRecord, Threads, LogSinks, Levels
    <3>2. thrown' \subseteq LogSinks \X (1 .. Len(calls')) \X {"log", "flush"} /\ IsFiniteSet(thrown')
      BY <1>1, <1>5 DEF LogInv, LoggerTyping
    <3> QED
      BY <1>1, <2>4, <2>5, <3>1, <3>2
      DEF LogInv, LoggerTyping, CallRecord, HeldRecord, Threads, LogSinks, Levels
  <2>9. LevelsSeen'
    BY <1>1 DEF LogInv, LevelsSeen, LogSinks
  <2>10. GotOnce'
    <3>1. ASSUME NEW r \in LogSinks, NEW k \in 1 .. Len(got'[r])
          PROVE  /\ got'[r][k] \in 1 .. Len(calls) /\ calls[got'[r][k]].fate = "taken"
                 /\ \E v \in levels.sink : v <= calls[got'[r][k]].level
      <4>1. CASE got'[r][k] = c /\ r = s /\ ~(Of(t).level < sinkLevel[s])
        <5>1. calls[c].fate = "taken"
          BY <1>0, <1>2 DEF Running
        <5>2. sinkLevel[s] \in levels.sink
          BY <1>3 DEF LogInv, LevelsSeen
        <5>3. sinkLevel[s] <= calls[c].level
          <6>1. sinkLevel[s] \in Nat /\ calls[c].level \in Nat
            BY <1>2, <1>3, LevelsAreNumbers
          <6> QED
            BY <1>2, <4>1, <6>1
        <5> QED
          BY <1>2, <4>1, <5>1, <5>2, <5>3
      <4>2. CASE got'[r] = got[r]
        BY <3>1, <4>2 DEF LogInv, GotOnce
      <4>3. CASE r = s /\ got'[s] = Append(got[s], c) /\ got'[s] # got[s]
        <5>1. got[s] \in Seq(1 .. MaxCalls) /\ Len(got[s]) \in Nat
          BY <1>3, LoggerTypes
        <5>2. /\ Len(got'[s]) = Len(got[s]) + 1 /\ got'[s][Len(got[s]) + 1] = c
              /\ \A l \in 1 .. Len(got[s]) : got'[s][l] = got[s][l]
          BY <4>3, <5>1, AppendProperties
        <5>3. ~(Of(t).level < sinkLevel[s])
          <6>1. sinkLevel[s] \in Nat /\ Of(t).level \in Nat
            BY <1>2, <1>3, LevelsAreNumbers
          <6>2. Of(t).level >= sinkLevel[s]
            BY <1>5, <4>3
          <6> QED
            BY <6>1, <6>2
        <5>4. CASE k = Len(got[s]) + 1
          BY <4>1, <4>3, <5>2, <5>3, <5>4
        <5>5. CASE k \in 1 .. Len(got[s])
          BY <1>3, <4>3, <5>2, <5>5, SMTT(30) DEF LogInv, GotOnce
        <5>6. k \in 1 .. Len(got[s]) \/ k = Len(got[s]) + 1
          BY <4>3, <5>1, <5>2
        <5> QED
          BY <5>4, <5>5, <5>6
      <4> QED
        BY <2>5, <4>2, <4>3
    <3>2. ASSUME NEW r \in LogSinks, NEW j \in 1 .. Len(got'[r]), NEW k \in 1 .. Len(got'[r]),
                 got'[r][j] = got'[r][k]
          PROVE  j = k
      <4>1. CASE got'[r] = got[r]
        BY <3>2, <4>1 DEF LogInv, GotOnce
      <4>2. CASE r = s /\ got'[s] = Append(got[s], c)
        <5>1. got[s] \in Seq(1 .. MaxCalls) /\ Len(got[s]) \in Nat
          BY <1>3, LoggerTypes
        <5>2. /\ Len(got'[s]) = Len(got[s]) + 1 /\ got'[s][Len(got[s]) + 1] = c
              /\ \A l \in 1 .. Len(got[s]) : got'[s][l] = got[s][l]
          BY <4>2, <5>1, AppendProperties
        <5>3. \A l \in 1 .. Len(got[s]) : got[s][l] # c
          BY <2>6 DEF Receives
        <5>4. /\ j \in 1 .. Len(got[s]) \/ j = Len(got[s]) + 1
              /\ k \in 1 .. Len(got[s]) \/ k = Len(got[s]) + 1
          <6>1. j \in 1 .. Len(got[s]) + 1 /\ k \in 1 .. Len(got[s]) + 1
            BY <3>2, <4>2, <5>2
          <6> QED
            BY <5>1, <6>1
        <5>5. CASE j \in 1 .. Len(got[s]) /\ k \in 1 .. Len(got[s])
          <6>1. got[s][j] = got[s][k]
            BY <3>2, <4>2, <5>2, <5>5
          <6> QED
            BY <1>3, <5>5, <6>1 DEF LogInv, GotOnce
        <5> QED
          BY <3>2, <4>2, <5>2, <5>3, <5>4, <5>5
      <4> QED
        BY <2>5, <4>1, <4>2
    <3> QED
      BY <1>1, <3>1, <3>2 DEF GotOnce, LogSinks
  <2>11. NothingAhead'
    <3> SUFFICES ASSUME NEW j \in 1 .. Len(SinkList), NEW d \in 1 .. Len(calls),
                        NEW lp \in {"log", "flush"}, Ahead(d, j, lp)'
                 PROVE  <<SinkList[j], d, lp>> \notin thrown /\ (lp = "log" => ~Receives(SinkList[j], d)')
      BY <1>1, <1>5 DEF NothingAhead
    <3>1. Ahead(d, j, lp) /\ ~(d = c /\ j = i /\ lp = "log")
      <4>1. CASE d # c
        BY <2>2, <4>1
      <4>2. CASE d = c /\ lp = "log"
        <5>1. n <= j
          BY <2>2, <4>2
        <5>2. i <= j /\ j # i
          BY <1>0, <1>2, <5>1, SinkFacts, SMTT(30)
        <5> QED
          BY <2>3, <4>2, <5>2
      <4>3. CASE d = c /\ lp = "flush"
        BY <2>3, <4>3
      <4> QED
        BY <4>1, <4>2, <4>3
    <3>2. <<SinkList[j], d, lp>> \notin thrown /\ (lp = "log" => ~Receives(SinkList[j], d))
      BY <3>1 DEF LogInv, NothingAhead
    <3>3. SinkList[j] \in LogSinks
      BY SinkFacts
    <3> QED
      BY <1>3, <2>7, <3>1, <3>2, <3>3
  <2>12. \A r, d, lp : Excused(r, d, lp)' <=> Excused(r, d, lp)
    BY <1>1, <1>5 DEF Excused, LogSinks
  <2>13. ServedSoFar'
    <3> SUFFICES ASSUME NEW j \in 1 .. Len(SinkList), NEW d \in 1 .. Len(calls),
                        calls[d].fate = "taken", ~Ahead(d, j, "log")',
                        \A v \in levels.sink : v <= calls[d].level
                 PROVE  Receives(SinkList[j], d)' \/ Excused(SinkList[j], d, "log")'
      BY <1>1 DEF ServedSoFar
    <3>1. SinkList[j] \in LogSinks
      BY SinkFacts
    <3>2. CASE ~Ahead(d, j, "log")
      <4>1. Receives(SinkList[j], d) \/ Excused(SinkList[j], d, "log")
        BY <3>2 DEF LogInv, ServedSoFar
      <4> QED
        BY <2>7, <2>12, <3>1, <4>1
    <3>3. CASE Ahead(d, j, "log")
      <4>1. d = c /\ i <= j /\ ~(n <= j)
        BY <2>2, <2>3, <3>3
      <4>2. j = i
        BY <1>0, <1>2, <4>1, SinkFacts
      <4>3. sinkLevel[s] <= calls[c].level
        BY <1>3, <4>1 DEF LogInv, LevelsSeen
      <4>4. sinkLevel[s] \in Nat /\ calls[c].level \in Nat
        BY <1>2, <1>3, LevelsAreNumbers
      <4>5. ~(Of(t).level < sinkLevel[s])
        BY <1>2, <4>3, <4>4
      <4> QED
        BY <1>3, <2>7, <4>1, <4>2, <4>5
    <3> QED
      BY <3>2, <3>3
  <2>14. FlushedSoFar'
    <3> SUFFICES ASSUME NEW j \in 1 .. Len(SinkList), NEW d \in 1 .. Len(calls),
                        d \in unflushed'[SinkList[j]], ~Ahead(d, j, "flush")',
                        calls[d].level # Off, \A v \in levels.flush : v <= calls[d].level
                 PROVE  Excused(SinkList[j], d, "flush")'
      BY <1>1 DEF FlushedSoFar
    <3>1. d # c /\ SinkList[j] \in LogSinks
      BY <2>2, SinkFacts
    <3>2. d \in unflushed[SinkList[j]] /\ ~Ahead(d, j, "flush")
      BY <2>2, <2>5, <3>1
    <3>3. Excused(SinkList[j], d, "flush")
      BY <3>2 DEF LogInv, FlushedSoFar
    <3> QED
      BY <2>12, <3>3
  <2> QED
    BY <2>2, <2>4, <2>8, <2>9, <2>10, <2>11, <2>13, <2>14 DEF LogInv
<1>6. s = SinksOf(t)[call[t].turn]
  BY <1>0, <1>2
<1> QED
  BY <1>0, <1>4, <1>5, <1>6 DEF LogToSink

\* Nothing reaches a sink, and nothing throws.  What is no longer ahead of a call is
\* not owed to it, or done.
Owed(c, i, loop) ==
  IF loop = "log" THEN calls[c].fate = "taken"
  ELSE /\ c \in unflushed[SinkList[i]] /\ calls[c].level # Off
       /\ \A v \in levels.flush : v <= calls[c].level

LEMMA HistoryKept ==
  ASSUME LogInv, UNCHANGED <<got, thrown>>,
         calls' \in Seq(CallRecord), Len(calls') >= Len(calls),
         \A d \in 1 .. Len(calls) : calls'[d] = calls[d],
         \A s \in LogSinks : unflushed'[s] \subseteq unflushed[s],
         \A kind \in {"log", "flush", "sink"} : levels[kind] \subseteq levels'[kind],
         \A d \in 1 .. Len(calls), j \in 1 .. Len(SinkList), lp \in {"log", "flush"} :
           /\ Ahead(d, j, lp)' => Ahead(d, j, lp)
           /\ Ahead(d, j, lp) /\ ~Ahead(d, j, lp)' => ~Owed(d, j, lp)',
         \A d \in 1 .. Len(calls'), j \in 1 .. Len(SinkList) :
           d > Len(calls) /\ calls'[d].fate = "taken" => Ahead(d, j, "log")'
  PROVE  GotOnce' /\ NothingAhead' /\ ServedSoFar' /\ FlushedSoFar'
<1>1. Len(calls) \in Nat /\ Len(calls') \in Nat /\ \A d \in 1 .. Len(calls) : d \in 1 .. Len(calls')
  BY LoggerTypes, LenProperties
<1>2. \A d \in 1 .. Len(calls') : d \in 1 .. Len(calls) \/ d > Len(calls)
  BY <1>1
<1>3. \A r \in LogSinks : \A d : Receives(r, d)' <=> Receives(r, d)
  BY DEF Receives
<1>4. \A r, lp, d : d \in 1 .. Len(calls) => (Excused(r, d, lp)' <=> Excused(r, d, lp))
  BY DEF Excused, LogSinks
<1>5. levels.log \subseteq levels'.log /\ levels.flush \subseteq levels'.flush /\ levels.sink \subseteq levels'.sink
  OBVIOUS
<1>6. \A d : d > Len(calls) /\ d \in Nat =>
        \A s \in LogSinks : ~Receives(s, d) /\ d \notin unflushed[s] /\ \A lp : <<s, d, lp>> \notin thrown
  <2> SUFFICES ASSUME NEW d \in Nat, d > Len(calls), NEW s \in LogSinks
               PROVE  ~Receives(s, d) /\ d \notin unflushed[s] /\ \A lp : <<s, d, lp>> \notin thrown
    OBVIOUS
  <2>1. d \notin 1 .. Len(calls)
    BY <1>1
  <2>2. ~Receives(s, d)
    BY <2>1 DEF LogInv, GotOnce, Receives
  <2>3. d \notin unflushed[s] /\ \A lp : <<s, d, lp>> \notin thrown
    BY <2>1 DEF LogInv, LoggerTyping
  <2> QED
    BY <2>2, <2>3
<1>7. GotOnce'
  BY <1>1, <1>5, ZenonT(60) DEF LogInv, GotOnce, LogSinks
<1>8. NothingAhead'
  <2> SUFFICES ASSUME NEW j \in 1 .. Len(SinkList), NEW d \in 1 .. Len(calls'),
                      NEW lp \in {"log", "flush"}, Ahead(d, j, lp)'
               PROVE  <<SinkList[j], d, lp>> \notin thrown /\ (lp = "log" => ~Receives(SinkList[j], d)')
    BY DEF NothingAhead
  <2>1. SinkList[j] \in LogSinks
    BY SinkFacts
  <2>2. CASE d \in 1 .. Len(calls)
    <3>1. Ahead(d, j, lp)
      BY <2>2
    <3>2. <<SinkList[j], d, lp>> \notin thrown /\ (lp = "log" => ~Receives(SinkList[j], d))
      BY <2>2, <3>1 DEF LogInv, NothingAhead
    <3> QED
      BY <1>3, <2>1, <3>2
  <2>3. CASE d > Len(calls)
    <3>1. d \in Nat
      BY <1>1
    <3> QED
      BY <1>3, <1>6, <2>1, <2>3, <3>1
  <2> QED
    BY <1>2, <2>2, <2>3
<1>9. ServedSoFar'
  <2> SUFFICES ASSUME NEW j \in 1 .. Len(SinkList), NEW d \in 1 .. Len(calls'),
                      calls'[d].fate = "taken", ~Ahead(d, j, "log")',
                      \A v \in levels'.sink : v <= calls'[d].level
               PROVE  Receives(SinkList[j], d)' \/ Excused(SinkList[j], d, "log")'
    BY DEF ServedSoFar
  <2>1. d \in 1 .. Len(calls)
    BY <1>2
  <2>2. calls'[d] = calls[d]
    BY <2>1
  <2>3. ~Ahead(d, j, "log")
    <3> DEFINE lp == "log"
    <3>1. lp \in {"log", "flush"} /\ Owed(d, j, lp)' /\ ~Ahead(d, j, lp)'
      BY DEF Owed
    <3> HIDE DEF lp
    <3>2. ~Ahead(d, j, lp)
      BY <2>1, <3>1
    <3> QED
      BY <3>2 DEF lp
  <2>4. Receives(SinkList[j], d) \/ Excused(SinkList[j], d, "log")
    BY <1>5, <2>1, <2>2, <2>3 DEF LogInv, ServedSoFar
  <2> QED
    BY <1>3, <1>4, <2>1, <2>4, SinkFacts
<1>10. FlushedSoFar'
  <2> SUFFICES ASSUME NEW j \in 1 .. Len(SinkList), NEW d \in 1 .. Len(calls'),
                      d \in unflushed'[SinkList[j]], ~Ahead(d, j, "flush")',
                      calls'[d].level # Off, \A v \in levels'.flush : v <= calls'[d].level
               PROVE  Excused(SinkList[j], d, "flush")'
    BY DEF FlushedSoFar
  <2>1. SinkList[j] \in LogSinks
    BY SinkFacts
  <2>2. d \in unflushed[SinkList[j]]
    BY <2>1
  <2>3. d \in 1 .. Len(calls)
    BY <2>1, <2>2 DEF LogInv, LoggerTyping
  <2>4. calls'[d] = calls[d]
    BY <2>3
  <2>5. ~Ahead(d, j, "flush")
    <3> DEFINE lp == "flush"
    <3>1. lp \in {"log", "flush"} /\ Owed(d, j, lp)' /\ ~Ahead(d, j, lp)'
      BY DEF Owed
    <3> HIDE DEF lp
    <3>2. ~Ahead(d, j, lp)
      BY <2>3, <3>1
    <3> QED
      BY <3>2 DEF lp
  <2>6. Excused(SinkList[j], d, "flush")
    BY <1>5, <2>2, <2>3, <2>4, <2>5 DEF LogInv, FlushedSoFar
  <2> QED
    BY <1>4, <2>3, <2>6
<1> QED
  BY <1>7, <1>8, <1>9, <1>10

\* Where what is ahead of calls stays as it is.
LEMMA AheadStays ==
  ASSUME UNCHANGED <<call, posted>>
  PROVE  \A d, j, lp : Ahead(d, j, lp)' <=> Ahead(d, j, lp)
BY DEF Ahead, Threads

LEMMA FlushSinkKept ==
  ASSUME LogInv, NEW t \in Threads, FlushSink(t)
  PROVE  LogInv'
<1> SUFFICES ASSUME NEW c, c = call[t].id,
                    NEW i, i = call[t].turn,
                    NEW s, s = SinkList[call[t].turn],
                    NEW n, n = call[t].turn + 1,
                    NEW loop, loop = "flush"
             PROVE  LogInv'
  OBVIOUS
<1>1. /\ AtSink(t, loop) /\ loop \in {"log", "flush"} /\ c = call[t].id
      /\ UNCHANGED <<config, sinkLevel, posted, calls, levels, changes, clock>>
  BY DEF FlushSink
<1>2. c \in 1 .. Len(calls) /\ i \in 1 .. Len(SinkList) /\ SinksOf(t) = SinkList
  BY <1>1, TurnFacts
<1>3. s \in LogSinks /\ s = SinkList[i]
  BY <1>2, SinkFacts
<1>4. CASE Throws(t, s)
  <2>1. Throws(t, SinksOf(t)[call[t].turn])
    BY <1>2, <1>4
  <2> QED
    BY <1>1, <2>1, ThrowsKept
<1>5. CASE /\ unflushed' = [unflushed EXCEPT ![s] = {}] /\ Next_(t) /\ NoError
           /\ UNCHANGED <<got, thrown>>
  <2>1. n \in 1 .. Len(SinkList) + 1 /\ n > call[t].turn /\ MovesTo(t, n)
    <3>1. MovesTo(t, n)
      BY <1>5 DEF Next_, MovesTo
    <3> QED
      BY <1>2, <3>1, SinkFacts
  <2>2. /\ CallsPlaced' /\ call' \in [Threads -> HeldRecord]
        /\ \A d, j, lp : d # c => (Ahead(d, j, lp)' <=> Ahead(d, j, lp))
        /\ \A j \in 1 .. Len(SinkList) : Ahead(c, j, loop)' <=> n <= j
        /\ \A j : loop = "flush" => ~Ahead(c, j, "log")'
    <3>1. UNCHANGED <<posted, calls>>
      BY <1>1
    <3>2. TurnTaken(c, n, loop)
      BY <1>1, <2>1, <3>1, TurnMoves
    <3> QED
      BY <3>2 DEF TurnTaken
  <2>3. /\ \A j \in 1 .. Len(SinkList) : Ahead(c, j, loop) <=> i <= j
        /\ \A j : loop = "flush" => ~Ahead(c, j, "log")
    BY <1>1, AheadOfTurn
  <2>4. ReportsTimed' /\ err_counter' \in Nat /\ printed' \in 0 .. err_counter' /\ last_report' \in Int
    BY <1>1, <1>5, QuietKept
  <2>5. /\ unflushed' \in [LogSinks -> SUBSET (1 .. Len(calls))] /\ unflushed'[s] = {}
        /\ \A r \in LogSinks : unflushed'[r] \subseteq unflushed[r]
    BY <1>3, <1>5 DEF LogInv, LoggerTyping
  <2>6. LoggerTyping'
    <3>1. LoggerTypeOK'
      BY <1>1, <1>5, <2>2, <2>4 DEF LogInv, LoggerTyping, LoggerTypeOK, HeldRecord, Threads, LogSinks, Levels
    <3> QED
      BY <1>1, <1>5, <2>4, <2>5, <3>1
      DEF LogInv, LoggerTyping, CallRecord, HeldRecord, Threads, LogSinks, Levels
  <2>7. LevelsSeen'
    BY <1>1 DEF LogInv, LevelsSeen, LogSinks
  <2>8. ASSUME NEW d \in 1 .. Len(calls), NEW j \in 1 .. Len(SinkList), NEW lp \in {"log", "flush"}
        PROVE  /\ Ahead(d, j, lp)' => Ahead(d, j, lp)
               /\ Ahead(d, j, lp) /\ ~Ahead(d, j, lp)' => ~Owed(d, j, lp)'
    <3>1. CASE d # c \/ lp = "log"
      BY <1>1, <2>2, <2>3, <3>1
    <3>2. CASE d = c /\ lp = "flush"
      <4>1. (Ahead(d, j, lp) <=> i <= j) /\ (Ahead(d, j, lp)' <=> n <= j)
        BY <2>2, <2>3, <3>2
      <4>2. n <= j => i <= j
        BY <1>2, SinkFacts
      <4>3. i <= j /\ ~(n <= j) => j = i
        BY <1>2, SinkFacts
      <4>4. ~Owed(d, i, lp)'
        BY <1>3, <2>5, <3>2 DEF Owed
      <4> QED
        BY <4>1, <4>2, <4>3, <4>4
    <3> QED
      BY <3>1, <3>2
  <2>9. GotOnce' /\ NothingAhead' /\ ServedSoFar' /\ FlushedSoFar'
    <3>1. /\ calls' \in Seq(CallRecord) /\ Len(calls') >= Len(calls)
          /\ \A d \in 1 .. Len(calls) : calls'[d] = calls[d]
          /\ \A d \in 1 .. Len(calls') : ~(d > Len(calls))
          /\ \A kind \in {"log", "flush", "sink"} : levels[kind] \subseteq levels'[kind]
      BY <1>1, LoggerTypes
    <3> QED
      BY <1>5, <2>5, <2>8, <3>1, HistoryKept
  <2> QED
    BY <2>2, <2>4, <2>6, <2>7, <2>9 DEF LogInv
<1>6. s = SinksOf(t)[call[t].turn]
  BY <1>2
<1> QED
  BY <1>4, <1>5, <1>6 DEF FlushSink

\* The same, where no call is new.
LEMMA NoNewCallKept ==
  ASSUME LogInv, UNCHANGED <<got, unflushed, calls, thrown>>,
         \A kind \in {"log", "flush", "sink"} : levels[kind] \subseteq levels'[kind],
         \A d \in 1 .. Len(calls), j \in 1 .. Len(SinkList), lp \in {"log", "flush"} :
           /\ Ahead(d, j, lp)' => Ahead(d, j, lp)
           /\ Ahead(d, j, lp) /\ ~Ahead(d, j, lp)' => ~Owed(d, j, lp)'
  PROVE  GotOnce' /\ NothingAhead' /\ ServedSoFar' /\ FlushedSoFar'
<1>1. /\ calls' \in Seq(CallRecord) /\ Len(calls') >= Len(calls)
      /\ \A d \in 1 .. Len(calls) : calls'[d] = calls[d]
      /\ \A d \in 1 .. Len(calls') : ~(d > Len(calls))
  BY LoggerTypes
<1>2. \A s \in LogSinks : unflushed'[s] \subseteq unflushed[s]
  OBVIOUS
<1> QED
  BY <1>1, <1>2, HistoryKept

\* The end of a loop: it is followed by the loop that flushes, or the call is over.
LEMMA EndLoopKept ==
  ASSUME LogInv, NEW t \in Threads, EndLoop(t)
  PROVE  LogInv'
<1> SUFFICES ASSUME NEW c, c = call[t].id,
                    NEW h, h = call'[t]
             PROVE  LogInv'
  OBVIOUS
<1>1. /\ call[t] # Idle /\ call[t].turn > Len(SinksOf(t)) /\ NoError
      /\ UNCHANGED <<config, sinkLevel, posted, got, unflushed, calls, thrown, levels, changes, clock>>
  BY DEF EndLoop
<1>2. call \in [Threads -> HeldRecord]
  BY DEF LogInv, LoggerTyping, LoggerTypeOK, HeldRecord
<1>3. Running(call[t]) /\ c \in 1 .. Len(calls)
  BY <1>1 DEF LogInv, CallsPlaced, Running
<1>4. Of(t) = calls[c] /\ Of(t) \in CallRecord /\ SinksOf(t) = SinkList /\ Of(t).logger \in Loggers
  <2>1. Of(t) = calls[c] /\ Of(t) \in CallRecord
    BY <1>3, LoggerTypes DEF Of
  <2>2. Of(t).logger \in Loggers
    BY <2>1 DEF CallRecord
  <2> QED
    BY <2>1, <2>2, LoggerTypes DEF SinksOf
<1>5. /\ \A u \in Threads : u # t => call'[u] = call[u]
      /\ h = IF call[t].loop = "log" /\ ShouldFlush(t) THEN [call[t] EXCEPT !.turn = 1, !.loop = "flush"] ELSE Idle
  BY <1>2 DEF EndLoop
<1>6. /\ call[t].loop = "log" /\ ShouldFlush(t) =>
           /\ h \in HeldRecord /\ h.id = c /\ h.turn = 1 /\ h.loop = "flush"
      /\ ~(call[t].loop = "log" /\ ShouldFlush(t)) => h = Idle
  <2>1. call[t] \in HeldRecord
    BY <1>2
  <2>2. 1 \in 0 .. Len(SinkList) + 2
    BY SinkFacts
  <2> QED
    BY <1>5, <2>1, <2>2 DEF HeldRecord
<1>7. h \in HeldRecord /\ (h = Idle \/ h.id = c) /\ (h = Idle \/ Running(h)')
  <2>1. Idle \in HeldRecord
    BY SinkFacts DEF Idle, HeldRecord
  <2>2. CASE h = Idle
    BY <2>1, <2>2
  <2>3. CASE call[t].loop = "log" /\ ShouldFlush(t)
    <3>1. 1 \in 1 .. Len(SinkList) + 1
      BY SinkFacts
    <3> QED
      BY <1>1, <1>3, <1>6, <2>3, <3>1 DEF Running
  <2> QED
    BY <1>6, <2>2, <2>3
<1>8. call' \in [Threads -> HeldRecord]
  <2>1. call' = [u \in Threads |-> call'[u]]
    BY <1>2 DEF EndLoop
  <2>2. \A u \in Threads : call'[u] \in HeldRecord
    BY <1>2, <1>5, <1>7
  <2> QED
    BY <2>1, <2>2
<1>9. \A u \in Threads : call'[u].id = call[u].id \/ (u = t /\ call'[u].id = 0)
  <2>1. h.id = c \/ h.id = 0
    BY <1>7 DEF Idle
  <2> TAKE u \in Threads
  <2>2. CASE u = t
    BY <2>1, <2>2
  <2>3. CASE u # t
    BY <1>5, <2>3
  <2> QED
    BY <2>2, <2>3
<1>10. CallsPlaced'
  <2>1. \A u \in Threads : (call[u] = Idle \/ Running(call[u]))'
    <3> TAKE u \in Threads
    <3>1. CASE u = t
      <4>1. h = Idle \/ Running(call[t])'
        BY <1>7 DEF Running
      <4> QED
        BY <3>1, <4>1 DEF Idle
    <3>2. CASE u # t
      <4>1. call[u] = Idle \/ Running(call[u])
        BY DEF LogInv, CallsPlaced
      <4> QED
        BY <1>1, <1>5, <3>2, <4>1 DEF Running, Idle
    <3> QED
      BY <3>1, <3>2
  <2>2. \A k \in 1 .. Len(posted') :
          /\ Running(posted[k])' /\ posted'[k].turn = 1
          /\ calls'[posted'[k].id].fate = "taken" => posted'[k].loop = "log"
    BY <1>1 DEF LogInv, CallsPlaced, Running
  <2>3. \A r, u \in Threads : call'[r].id = call'[u].id /\ call'[r].id # 0 => r = u
    BY <1>9 DEF LogInv, CallsPlaced
  <2>4. \A j, k \in 1 .. Len(posted') : posted'[j].id = posted'[k].id => j = k
    BY <1>1 DEF LogInv, CallsPlaced
  <2>5. \A r \in Threads, k \in 1 .. Len(posted') : call'[r].id # posted'[k].id
    <3> TAKE r \in Threads, k \in 1 .. Len(posted')
    <3>1. posted[k].id # 0 /\ call[r].id # posted[k].id /\ posted' = posted
      BY <1>1 DEF LogInv, CallsPlaced, Running
    <3> QED
      BY <1>9, <3>1
  <2> QED
    BY <2>1, <2>2, <2>3, <2>4, <2>5 DEF CallsPlaced, Threads
<1>11. \A u \in Threads : call[u].id = c => u = t
  BY <1>3 DEF LogInv, CallsPlaced
<1>12. \A k \in 1 .. Len(posted) : posted[k].id # c
  BY <1>3 DEF LogInv, CallsPlaced
<1>13. \A d, j, lp : d # c /\ d # 0 => (Ahead(d, j, lp)' <=> Ahead(d, j, lp))
  <2> SUFFICES ASSUME NEW d, NEW j, NEW lp, d # c, d # 0
               PROVE  Ahead(d, j, lp)' <=> Ahead(d, j, lp)
    OBVIOUS
  <2>1. h.id = c \/ h.id = 0
    BY <1>7 DEF Idle
  <2>2. \A u \in Threads : call'[u].id = d \/ call[u].id = d => call'[u] = call[u]
    BY <1>5, <2>1
  <2>3. posted' = posted /\ Threads' = Threads
    BY <1>1 DEF Threads
  <2> QED
    BY <2>2, <2>3 DEF Ahead
<1>14. \A j, lp : Ahead(c, j, lp) <=>
         (call[t].loop = lp /\ call[t].turn <= j) \/ (call[t].loop = "log" /\ lp = "flush")
  BY <1>11, <1>12 DEF Ahead
<1>15. \A j, lp : Ahead(c, j, lp)' <=> h.id = c /\ h.loop = lp /\ h.turn <= j
  <2>1. \A u \in Threads : call'[u].id = c => u = t
    BY <1>5, <1>11
  <2>2. h.id = c => h.loop = "flush"
    BY <1>3, <1>6 DEF Idle
  <2> QED
    BY <1>1, <1>12, <2>1, <2>2 DEF Ahead, Threads
<1>16. ASSUME NEW d \in 1 .. Len(calls), NEW j \in 1 .. Len(SinkList), NEW lp \in {"log", "flush"}
       PROVE  /\ Ahead(d, j, lp)' => Ahead(d, j, lp)
              /\ Ahead(d, j, lp) /\ ~Ahead(d, j, lp)' => ~Owed(d, j, lp)'
  <2>1. CASE d # c
    <3>1. d # 0
      BY LoggerTypes
    <3> QED
      BY <1>13, <2>1, <3>1
  <2>2. ~(call[t].turn <= j)
    <3>1. call[t].turn > Len(SinkList) /\ call[t].turn \in Nat
      BY <1>1, <1>3, <1>4, SinkFacts DEF Running
    <3> QED
      BY <3>1, SinkFacts
  <2>3. CASE d = c /\ lp = "log"
    <3>1. ~Ahead(d, j, lp)
      BY <1>14, <2>2, <2>3
    <3>2. ~Ahead(d, j, lp)'
      BY <1>3, <1>6, <1>15, <2>3 DEF Idle
    <3> QED
      BY <3>1, <3>2
  <2>4. CASE d = c /\ lp = "flush"
    <3>1. CASE call[t].loop = "log" /\ ShouldFlush(t)
      <4>1. Ahead(d, j, lp)
        BY <1>14, <2>4, <3>1
      <4>2. 1 <= j
        BY SinkFacts
      <4>3. Ahead(d, j, lp)'
        BY <1>6, <1>15, <2>4, <3>1, <4>2
      <4> QED
        BY <4>1, <4>3
    <3>2. CASE call[t].loop = "log" /\ ~ShouldFlush(t)
      <4>1. Ahead(d, j, lp)
        BY <1>14, <2>4, <3>2
      <4>2. config[calls[c].logger].flush \in levels.flush
        BY <1>4 DEF LogInv, LevelsSeen
      <4>3. config[calls[c].logger].flush \in Nat /\ calls[c].level \in Nat
        BY <1>3, <1>4, LevelsAreNumbers
      <4>4. ~(calls[c].level >= config[calls[c].logger].flush /\ calls[c].level # Off)
        BY <1>4, <3>2 DEF ShouldFlush
      <4>5. calls[c].level # Off => ~(config[calls[c].logger].flush <= calls[c].level)
        BY <4>3, <4>4
      <4>6. ~Owed(d, j, lp)'
        BY <1>1, <2>4, <4>2, <4>5 DEF Owed
      <4> QED
        BY <4>1, <4>6
    <3>3. CASE call[t].loop # "log"
      <4>1. ~Ahead(d, j, lp)
        BY <1>14, <2>2, <2>4, <3>3
      <4>2. h = Idle
        BY <1>6, <3>3
      <4>3. ~Ahead(d, j, lp)'
        BY <1>3, <1>15, <2>4, <4>2 DEF Idle
      <4> QED
        BY <4>1, <4>3
    <3> QED
      BY <3>1, <3>2, <3>3
  <2> QED
    BY <2>1, <2>3, <2>4
<1>17. GotOnce' /\ NothingAhead' /\ ServedSoFar' /\ FlushedSoFar'
  <2>1. \A kind \in {"log", "flush", "sink"} : levels[kind] \subseteq levels'[kind]
    BY <1>1
  <2> QED
    BY <1>1, <1>16, <2>1, NoNewCallKept
<1>18. ReportsTimed' /\ err_counter' \in Nat /\ printed' \in 0 .. err_counter' /\ last_report' \in Int
  BY <1>1, QuietKept
<1>19. LoggerTyping'
  <2>1. LoggerTypeOK'
    BY <1>1, <1>8, <1>18 DEF LogInv, LoggerTyping, LoggerTypeOK, HeldRecord, Threads, LogSinks, Levels
  <2> QED
    BY <1>1, <1>18, <2>1 DEF LogInv, LoggerTyping, CallRecord, HeldRecord, Threads, LogSinks, Levels
<1>20. LevelsSeen'
  BY <1>1 DEF LogInv, LevelsSeen, LogSinks
<1> QED
  BY <1>10, <1>17, <1>18, <1>19, <1>20 DEF LogInv

\* The pool's thread takes a call from the queue.
LEMMA TakePostedKept ==
  ASSUME LogInv, TakePosted
  PROVE  LogInv'
<1> SUFFICES ASSUME NEW h, h = posted[1],
                    NEW c, c = h.id
             PROVE  LogInv'
  OBVIOUS
<1>1. /\ call[Worker] = Idle /\ posted # << >> /\ NoError
      /\ call' = [call EXCEPT ![Worker] = Head(posted)] /\ posted' = Tail(posted)
      /\ UNCHANGED <<config, sinkLevel, got, unflushed, calls, thrown, levels, changes, clock>>
  BY DEF TakePosted
<1>2. call \in [Threads -> HeldRecord] /\ posted \in Seq(HeldRecord) /\ Worker \in Threads
  BY DEF LogInv, LoggerTyping, LoggerTypeOK, HeldRecord, Threads
<1>3. /\ Head(posted) = h /\ h \in HeldRecord /\ 1 \in 1 .. Len(posted) /\ Len(posted) \in Nat
      /\ posted' \in Seq(HeldRecord) /\ Len(posted') = Len(posted) - 1
      /\ \A k \in 1 .. Len(posted') : posted'[k] = posted[k + 1]
  BY <1>1, <1>2, HeadTailProperties
<1>4. /\ \A u \in Threads : u # Worker => call'[u] = call[u]
      /\ call'[Worker] = h /\ call' \in [Threads -> HeldRecord]
  BY <1>1, <1>2, <1>3
<1>5. /\ Running(h) /\ h.turn = 1 /\ c \in 1 .. Len(calls)
      /\ calls[c].fate = "taken" => h.loop = "log"
      /\ calls[c].fate = "flush" => h.loop = "flush"
  BY <1>3 DEF LogInv, CallsPlaced, Running
<1>6. \A k \in 1 .. Len(posted') : k + 1 \in 1 .. Len(posted) /\ k + 1 # 1 /\ posted'[k] = posted[k + 1]
  BY <1>3
<1>7. \A u \in Threads : u # Worker => call[u].id # c
  BY <1>3 DEF LogInv, CallsPlaced
<1>8. \A k \in 1 .. Len(posted) : k # 1 => posted[k].id # c
  BY <1>3 DEF LogInv, CallsPlaced
<1>9. CallsPlaced'
  <2>1. \A u \in Threads : (call[u] = Idle \/ Running(call[u]))'
    <3> TAKE u \in Threads
    <3>1. CASE u = Worker
      <4>1. Running(call[Worker])'
        BY <1>1, <1>4, <1>5 DEF Running
      <4> QED
        BY <3>1, <4>1
    <3>2. CASE u # Worker
      <4>1. call[u] = Idle \/ Running(call[u])
        BY DEF LogInv, CallsPlaced
      <4> QED
        BY <1>1, <1>4, <3>2, <4>1 DEF Running, Idle
    <3> QED
      BY <3>1, <3>2
  <2>2. \A k \in 1 .. Len(posted') :
          /\ Running(posted[k])' /\ posted'[k].turn = 1
          /\ calls'[posted'[k].id].fate = "taken" => posted'[k].loop = "log"
    BY <1>1, <1>6 DEF LogInv, CallsPlaced, Running
  <2>3. \A r, u \in Threads : call'[r].id = call'[u].id /\ call'[r].id # 0 => r = u
    <3> TAKE r, u \in Threads
    <3>1. CASE r # Worker /\ u # Worker
      BY <1>4, <3>1 DEF LogInv, CallsPlaced
    <3>2. CASE r = Worker /\ u # Worker
      BY <1>4, <1>7, <3>2
    <3>3. CASE r # Worker /\ u = Worker
      BY <1>4, <1>7, <3>3
    <3> QED
      BY <3>1, <3>2, <3>3
  <2>4. \A j, k \in 1 .. Len(posted') : posted'[j].id = posted'[k].id => j = k
    <3> TAKE j, k \in 1 .. Len(posted')
    <3> HAVE posted'[j].id = posted'[k].id
    <3>1. j + 1 = k + 1
      BY <1>6, SMTT(30) DEF LogInv, CallsPlaced
    <3>2. j \in Nat /\ k \in Nat
      BY <1>3
    <3> QED
      BY <3>1, <3>2
  <2>5. \A r \in Threads, k \in 1 .. Len(posted') : call'[r].id # posted'[k].id
    <3> TAKE r \in Threads, k \in 1 .. Len(posted')
    <3>1. CASE r = Worker
      BY <1>4, <1>6, <1>8, <3>1
    <3>2. CASE r # Worker
      BY <1>4, <1>6, <3>2 DEF LogInv, CallsPlaced
    <3> QED
      BY <3>1, <3>2
  <2> QED
    BY <2>1, <2>2, <2>3, <2>4, <2>5 DEF CallsPlaced, Threads
<1>10. \A d, j, lp : d # 0 /\ d # c => (Ahead(d, j, lp)' <=> Ahead(d, j, lp))
  <2> TAKE d, j, lp
  <2> HAVE d # 0 /\ d # c
  <2> DEFINE Has(u) == /\ call[u].id = d
                       /\ (call[u].loop = lp /\ call[u].turn <= j) \/ (call[u].loop = "log" /\ lp = "flush")
             Has1(u) == /\ call'[u].id = d
                        /\ (call'[u].loop = lp /\ call'[u].turn <= j) \/ (call'[u].loop = "log" /\ lp = "flush")
  <2>1. \A u \in Threads : Has1(u) <=> Has(u)
    <3> TAKE u \in Threads
    <3>1. CASE u = Worker
      <4>1. call[u].id = 0 /\ call'[u].id = c
        BY <1>1, <1>4, <3>1 DEF Idle
      <4> QED
        BY <4>1
    <3>2. CASE u # Worker
      BY <1>4, <3>2
    <3> QED
      BY <3>1, <3>2
  <2>2. (\E k \in 1 .. Len(posted') : posted'[k].id = d) <=> (\E k \in 1 .. Len(posted) : posted[k].id = d)
    <3>1. ASSUME NEW k \in 1 .. Len(posted), posted[k].id = d
          PROVE  \E l \in 1 .. Len(posted') : posted'[l].id = d
      <4>1. k # 1
        BY <3>1
      <4> DEFINE l == k - 1
      <4>2. l \in 1 .. Len(posted') /\ l + 1 = k
        BY <1>3, <4>1
      <4> HIDE DEF l
      <4>3. posted'[l] = posted[l + 1]
        BY <1>6, <4>2
      <4> QED
        BY <3>1, <4>2, <4>3
    <3>2. ASSUME NEW k \in 1 .. Len(posted'), posted'[k].id = d
          PROVE  \E l \in 1 .. Len(posted) : posted[l].id = d
      BY <1>6, <3>2
    <3> QED
      BY <3>1, <3>2
  <2>3. (\E u \in Threads : Has1(u)) <=> (\E u \in Threads : Has(u))
    BY <2>1
  <2> QED
    BY <2>2, <2>3 DEF Ahead, Threads
<1>11. \A j \in 1 .. Len(SinkList), lp \in {"log", "flush"} :
         ~Ahead(c, j, lp)' => lp = "log" /\ calls[c].fate # "taken"
  <2> TAKE j \in 1 .. Len(SinkList), lp \in {"log", "flush"}
  <2>1. 1 <= j
    BY SinkFacts
  <2>2. (h.loop = lp \/ (h.loop = "log" /\ lp = "flush")) => Ahead(c, j, lp)'
    BY <1>2, <1>4, <1>5, <2>1 DEF Ahead, Threads
  <2>3. h.loop \in {"log", "flush"}
    BY <1>5 DEF Running
  <2> QED
    BY <1>5, <2>2, <2>3
<1>12. \A j, lp : Ahead(c, j, lp)
  BY <1>3 DEF Ahead
<1>13. ASSUME NEW d \in 1 .. Len(calls), NEW j \in 1 .. Len(SinkList), NEW lp \in {"log", "flush"}
       PROVE  /\ Ahead(d, j, lp)' => Ahead(d, j, lp)
              /\ Ahead(d, j, lp) /\ ~Ahead(d, j, lp)' => ~Owed(d, j, lp)'
  <2>1. CASE d # c
    <3>1. d # 0
      BY LoggerTypes
    <3> QED
      BY <1>10, <2>1, <3>1
  <2>2. CASE d = c
    BY <1>1, <1>11, <1>12, <2>2 DEF Owed
  <2> QED
    BY <2>1, <2>2
<1>14. GotOnce' /\ NothingAhead' /\ ServedSoFar' /\ FlushedSoFar'
  <2>1. \A kind \in {"log", "flush", "sink"} : levels[kind] \subseteq levels'[kind]
    BY <1>1
  <2> QED
    BY <1>1, <1>13, <2>1, NoNewCallKept
<1>15. ReportsTimed' /\ err_counter' \in Nat /\ printed' \in 0 .. err_counter' /\ last_report' \in Int
  BY <1>1, QuietKept
<1>16. LoggerTyping'
  <2>1. LoggerTypeOK'
    BY <1>1, <1>4, <1>15 DEF LogInv, LoggerTyping, LoggerTypeOK, HeldRecord, Threads, LogSinks, Levels
  <2> QED
    BY <1>1, <1>3, <1>15, <2>1 DEF LogInv, LoggerTyping, CallRecord, HeldRecord, Threads, LogSinks, Levels
<1>17. LevelsSeen'
  BY <1>1 DEF LogInv, LevelsSeen, LogSinks
<1> QED
  BY <1>9, <1>14, <1>15, <1>16, <1>17 DEF LogInv

\* A setting of a logger or a sink changes, or two loggers change places.
LEMMA SettingKept ==
  ASSUME LogInv, NoError, UNCHANGED <<call, posted, got, unflushed, calls, thrown, clock>>,
         config' \in [Loggers -> [level : Levels, flush : Levels, sinks : {SinkList}]],
         sinkLevel' \in [LogSinks -> Levels],
         levels' \in [log : SUBSET Levels, flush : SUBSET Levels, sink : SUBSET Levels],
         \A kind \in {"log", "flush", "sink"} : levels[kind] \subseteq levels'[kind],
         \A l \in Loggers : config'[l].level \in levels'.log /\ config'[l].flush \in levels'.flush,
         \A s \in LogSinks : sinkLevel'[s] \in levels'.sink
  PROVE  LogInv'
<1>1. \A d, j, lp : Ahead(d, j, lp)' <=> Ahead(d, j, lp)
  BY AheadStays
<1>2. GotOnce' /\ NothingAhead' /\ ServedSoFar' /\ FlushedSoFar'
  BY <1>1, NoNewCallKept
<1>3. ReportsTimed' /\ err_counter' \in Nat /\ printed' \in 0 .. err_counter' /\ last_report' \in Int
  BY QuietKept
<1>4. LoggerTyping'
  <2>1. LoggerTypeOK'
    BY <1>3 DEF LogInv, LoggerTyping, LoggerTypeOK, HeldRecord, Threads, LogSinks, Levels
  <2> QED
    BY <1>3, <2>1 DEF LogInv, LoggerTyping, CallRecord, HeldRecord, Threads, LogSinks, Levels
<1>5. LevelsSeen'
  <2>1. levels.log \subseteq levels'.log
    OBVIOUS
  <2> QED
    BY <2>1 DEF LogInv, LevelsSeen, LogSinks
<1>6. CallsPlaced'
  BY DEF LogInv, CallsPlaced, Running, Threads, Idle
<1> QED
  BY <1>2, <1>3, <1>4, <1>5, <1>6 DEF LogInv

LEMMA SetLevelKept ==
  ASSUME LogInv, NEW l \in Loggers, NEW level \in Levels, SetLevel(l, level) \/ FlushOn(l, level)
  PROVE  LogInv'
<1>1. /\ config \in [Loggers -> [level : Levels, flush : Levels, sinks : {SinkList}]]
      /\ sinkLevel \in [LogSinks -> Levels]
      /\ levels \in [log : SUBSET Levels, flush : SUBSET Levels, sink : SUBSET Levels]
      /\ \A k \in Loggers : config[k].level \in levels.log /\ config[k].flush \in levels.flush
      /\ \A s \in LogSinks : sinkLevel[s] \in levels.sink
  BY DEF LogInv, LoggerTyping, LoggerTypeOK, LevelsSeen
<1>2. /\ NoError /\ UNCHANGED <<call, posted, got, unflushed, calls, thrown, clock>>
      /\ UNCHANGED sinkLevel
  BY DEF SetLevel, FlushOn, Change
<1>3. config' \in [Loggers -> [level : Levels, flush : Levels, sinks : {SinkList}]]
  BY <1>1 DEF SetLevel, FlushOn
<1>4. levels' \in [log : SUBSET Levels, flush : SUBSET Levels, sink : SUBSET Levels]
  BY <1>1 DEF SetLevel, FlushOn, Change
<1>5. levels.log \subseteq levels'.log /\ levels.flush \subseteq levels'.flush /\ levels.sink \subseteq levels'.sink
  BY <1>1 DEF SetLevel, FlushOn, Change
<1>6. \A k \in Loggers : config'[k].level \in levels'.log /\ config'[k].flush \in levels'.flush
  <2>1. CASE SetLevel(l, level)
    <3>1. levels'.log = levels.log \cup {level} /\ levels'.flush = levels.flush
      BY <1>1, <2>1 DEF SetLevel, Change
    <3>2. \A k \in Loggers : /\ config'[k].level = config[k].level \/ config'[k].level = level
                             /\ config'[k].flush = config[k].flush
      BY <1>1, <2>1 DEF SetLevel
    <3> QED
      BY <1>1, <3>1, <3>2
  <2>2. CASE FlushOn(l, level)
    <3>1. levels'.log = levels.log /\ levels'.flush = levels.flush \cup {level}
      BY <1>1, <2>2 DEF FlushOn, Change
    <3>2. \A k \in Loggers : /\ config'[k].flush = config[k].flush \/ config'[k].flush = level
                             /\ config'[k].level = config[k].level
      BY <1>1, <2>2 DEF FlushOn
    <3> QED
      BY <1>1, <3>1, <3>2
  <2> QED
    BY <2>1, <2>2
<1>7. \A kind \in {"log", "flush", "sink"} : levels[kind] \subseteq levels'[kind]
  BY <1>5
<1>8. \A s \in LogSinks : sinkLevel'[s] \in levels'.sink
  BY <1>1, <1>2, <1>5
<1> QED
  BY <1>1, <1>2, <1>3, <1>4, <1>6, <1>7, <1>8, SettingKept

LEMMA SetSinkLevelKept ==
  ASSUME LogInv, NEW r \in LogSinks, NEW level \in Levels, SetSinkLevel(r, level)
  PROVE  LogInv'
<1>1. /\ config \in [Loggers -> [level : Levels, flush : Levels, sinks : {SinkList}]]
      /\ sinkLevel \in [LogSinks -> Levels]
      /\ levels \in [log : SUBSET Levels, flush : SUBSET Levels, sink : SUBSET Levels]
      /\ \A k \in Loggers : config[k].level \in levels.log /\ config[k].flush \in levels.flush
      /\ \A s \in LogSinks : sinkLevel[s] \in levels.sink
  BY DEF LogInv, LoggerTyping, LoggerTypeOK, LevelsSeen
<1>2. /\ NoError /\ UNCHANGED <<call, posted, got, unflushed, calls, thrown, clock>>
      /\ UNCHANGED config
  BY DEF SetSinkLevel, Change
<1>3. sinkLevel' \in [LogSinks -> Levels]
  BY <1>1 DEF SetSinkLevel
<1>4. /\ levels' \in [log : SUBSET Levels, flush : SUBSET Levels, sink : SUBSET Levels]
      /\ levels'.log = levels.log /\ levels'.flush = levels.flush
      /\ levels'.sink = levels.sink \cup {level}
  BY <1>1 DEF SetSinkLevel, Change
<1>5. \A kind \in {"log", "flush", "sink"} : levels[kind] \subseteq levels'[kind]
  BY <1>4
<1>6. \A s \in LogSinks : sinkLevel'[s] \in levels'.sink
  BY <1>1, <1>4 DEF SetSinkLevel
<1>7. \A k \in Loggers : config'[k].level \in levels'.log /\ config'[k].flush \in levels'.flush
  BY <1>1, <1>2, <1>4
<1> QED
  BY <1>1, <1>2, <1>3, <1>4, <1>5, <1>6, <1>7, SettingKept

LEMMA CloneOrSwapKept ==
  ASSUME LogInv, NEW l \in Loggers, NEW k \in Loggers, CloneOrSwap(l, k)
  PROVE  LogInv'
<1>1. /\ config \in [Loggers -> [level : Levels, flush : Levels, sinks : {SinkList}]]
      /\ sinkLevel \in [LogSinks -> Levels]
      /\ levels \in [log : SUBSET Levels, flush : SUBSET Levels, sink : SUBSET Levels]
      /\ \A m \in Loggers : config[m].level \in levels.log /\ config[m].flush \in levels.flush
      /\ \A s \in LogSinks : sinkLevel[s] \in levels.sink
  BY DEF LogInv, LoggerTyping, LoggerTypeOK, LevelsSeen
<1>2. /\ NoError /\ UNCHANGED <<sinkLevel, call, posted, got, unflushed, calls, thrown, levels, clock>>
  BY DEF CloneOrSwap
<1>3. /\ config' \in [Loggers -> [level : Levels, flush : Levels, sinks : {SinkList}]]
      /\ \A m \in Loggers : \E o \in Loggers : config'[m] = config[o]
  <2>1. CASE config' = [config EXCEPT ![k] = config[l]]
    BY <1>1, <2>1
  <2>2. CASE config' = [config EXCEPT ![k] = config[l], ![l] = config[k]]
    BY <1>1, <2>2
  <2> QED
    BY <2>1, <2>2 DEF CloneOrSwap
<1>4. \A kind \in {"log", "flush", "sink"} : levels[kind] \subseteq levels'[kind]
  BY <1>2
<1>5. \A m \in Loggers : config'[m].level \in levels'.log /\ config'[m].flush \in levels'.flush
  BY <1>1, <1>2, <1>3
<1> QED
  BY <1>1, <1>2, <1>3, <1>4, <1>5, SettingKept

LEMMA HalfSecondKept ==
  ASSUME LogInv, HalfSecond
  PROVE  LogInv'
<1>1. /\ clock' = clock + 1 /\ NoError
      /\ UNCHANGED <<config, sinkLevel, call, posted, got, unflushed, calls, thrown, levels, changes>>
  BY DEF HalfSecond
<1>2. clock \in Nat /\ clock' \in Nat /\ clock' >= clock
  BY <1>1 DEF LogInv, LoggerTyping
<1>3. ReportsTimed' /\ err_counter' \in Nat /\ printed' \in 0 .. err_counter' /\ last_report' \in Int
  <2>1. Cardinality(BadCalls') = Cardinality(BadCalls)
    BY <1>1 DEF BadCalls
  <2> QED
    BY <1>1, <1>2, <2>1, NoErrorKept
<1>4. \A d, j, lp : Ahead(d, j, lp)' <=> Ahead(d, j, lp)
  BY <1>1, AheadStays
<1>5. GotOnce' /\ NothingAhead' /\ ServedSoFar' /\ FlushedSoFar'
  <2>1. \A kind \in {"log", "flush", "sink"} : levels[kind] \subseteq levels'[kind]
    BY <1>1
  <2> QED
    BY <1>1, <1>4, <2>1, NoNewCallKept
<1>6. LoggerTyping'
  <2>1. LoggerTypeOK'
    BY <1>1, <1>3 DEF LogInv, LoggerTyping, LoggerTypeOK, HeldRecord, Threads, LogSinks, Levels
  <2> QED
    BY <1>1, <1>2, <1>3, <2>1 DEF LogInv, LoggerTyping, CallRecord, HeldRecord, Threads, LogSinks, Levels
<1>7. LevelsSeen' /\ CallsPlaced'
  BY <1>1 DEF LogInv, LevelsSeen, LogSinks, CallsPlaced, Running, Threads, Idle
<1> QED
  BY <1>3, <1>5, <1>6, <1>7 DEF LogInv

\* A call is new: what there was stays, and what is counted is counted once.
LEMMA NewCallFacts ==
  ASSUME LogInv, NEW l \in Loggers, NEW level \in Levels,
         NEW fate \in {"refused", "taken", "bad", "flush"}, NewCall(l, level, fate)
  PROVE  /\ calls' \in Seq(CallRecord) /\ Len(calls') = Len(calls) + 1 /\ Len(calls') <= MaxCalls
         /\ \A d \in 1 .. Len(calls) : calls'[d] = calls[d] /\ d \in 1 .. Len(calls')
         /\ calls'[Len(calls) + 1] = [logger |-> l, level |-> level, fate |-> fate]
         /\ \A d \in 1 .. Len(calls') : d \in 1 .. Len(calls) \/ d = Len(calls) + 1
         /\ fate # "bad" => Cardinality(BadCalls') = Cardinality(BadCalls)
         /\ fate = "bad" => Cardinality(BadCalls') = Cardinality(BadCalls) + 1
<1> DEFINE x == [logger |-> l, level |-> level, fate |-> fate]
           n == Len(calls)
<1>1. calls \in Seq(CallRecord) /\ n \in Nat
  BY LoggerTypes
<1>2. x \in CallRecord
  BY DEF CallRecord
<1>3. calls' = Append(calls, x) /\ n < MaxCalls
  BY DEF NewCall
<1>4. x.fate = fate
  OBVIOUS
<1> HIDE DEF x
<1>5. /\ calls' \in Seq(CallRecord) /\ Len(calls') = n + 1
      /\ \A k \in 1 .. n : calls'[k] = calls[k]
      /\ calls'[n + 1] = x
  BY <1>1, <1>2, <1>3, AppendProperties
<1> HIDE DEF n
<1>6. \A d : d \in 1 .. Len(calls') <=> d \in 1 .. n \/ d = n + 1
  BY <1>1, <1>5
<1>7. DOMAIN calls = 1 .. n /\ DOMAIN calls' = 1 .. Len(calls')
  <2>1. DOMAIN calls = 1 .. n
    BY LoggerTypes DEF n
  <2> QED
    BY <1>5, <2>1, LenProperties
<1>8. /\ fate # "bad" => BadCalls' = BadCalls
      /\ fate = "bad" => BadCalls' = BadCalls \cup {n + 1}
  BY <1>4, <1>5, <1>6, <1>7 DEF BadCalls
<1>9. n + 1 \notin BadCalls
  BY <1>1, <1>7 DEF BadCalls
<1>10. n + 1 <= MaxCalls
  BY <1>1, <1>3, SinkFacts
<1>11. fate = "bad" => Cardinality(BadCalls') = Cardinality(BadCalls) + 1
  BY <1>8, <1>9, FailuresAreFinite, FS_AddElement
<1> QED
  BY <1>5, <1>6, <1>8, <1>10, <1>11 DEF x, n

\* Where a new call goes.
LEMMA EnterKept ==
  ASSUME LogInv, NEW t \in Callers, NEW l \in Loggers, NEW level \in Levels,
         NEW fate \in {"taken", "flush"}, NEW loop \in {"log", "flush"}, fate = "taken" <=> loop = "log",
         call[t] = Idle, NewCall(l, level, fate), Enter_(t, l, loop)
  PROVE  /\ CallsPlaced' /\ call' \in [Threads -> HeldRecord] /\ posted' \in Seq(HeldRecord)
         /\ \A d \in 1 .. Len(calls) : \A j, lp : Ahead(d, j, lp)' <=> Ahead(d, j, lp)
         /\ \A d : \A j \in 1 .. Len(SinkList) : d = Len(calls) + 1 => Ahead(d, j, loop)'
<1> DEFINE m == Len(calls) + 1
           h == [id |-> Len(calls) + 1, turn |-> 1, loop |-> loop]
<1> SUFFICES ASSUME NEW c, c = m, NEW first, first = h
             PROVE  /\ CallsPlaced' /\ call' \in [Threads -> HeldRecord] /\ posted' \in Seq(HeldRecord)
                    /\ \A d \in 1 .. Len(calls) : \A j, lp : Ahead(d, j, lp)' <=> Ahead(d, j, lp)
                    /\ \A j \in 1 .. Len(SinkList) : Ahead(c, j, loop)'
  OBVIOUS
<1>1. /\ calls' \in Seq(CallRecord) /\ Len(calls') = c /\ c <= MaxCalls
      /\ \A d \in 1 .. Len(calls) : calls'[d] = calls[d] /\ d \in 1 .. Len(calls')
      /\ calls'[c].fate = fate
  <2>1. fate \in {"refused", "taken", "bad", "flush"}
    OBVIOUS
  <2>2. /\ calls' \in Seq(CallRecord) /\ Len(calls') = Len(calls) + 1 /\ Len(calls') <= MaxCalls
        /\ \A d \in 1 .. Len(calls) : calls'[d] = calls[d] /\ d \in 1 .. Len(calls')
        /\ calls'[Len(calls) + 1] = [logger |-> l, level |-> level, fate |-> fate]
    BY <2>1, NewCallFacts
  <2> QED
    BY <2>2
<1>2. c \in Nat /\ c # 0 /\ c \notin 1 .. Len(calls) /\ c \in 1 .. Len(calls')
  BY <1>1, LoggerTypes
<1>3. /\ first.id = c /\ first.turn = 1 /\ first.loop = loop /\ first \in HeldRecord
  <2>1. c \in 0 .. MaxCalls /\ 1 \in 0 .. Len(SinkList) + 2
    BY <1>1, <1>2, SinkFacts
  <2> QED
    BY <2>1 DEF HeldRecord
<1>4. Running(first)'
  <2>1. 1 \in 1 .. Len(SinkList) + 1
    BY SinkFacts
  <2> QED
    BY <1>1, <1>2, <1>3, <2>1 DEF Running
<1>5. /\ call \in [Threads -> HeldRecord] /\ posted \in Seq(HeldRecord) /\ t \in Threads
      /\ Len(posted) \in Nat
  BY LoggerTypes DEF LogInv, LoggerTyping, LoggerTypeOK, HeldRecord, Threads
<1> HIDE DEF m, h
<1>6. \A u \in Threads : call[u] = Idle \/ (Running(call[u]) /\ call[u].id \in 1 .. Len(calls))
  BY DEF LogInv, CallsPlaced, Running
<1>7. \A u \in Threads : call[u].id # c
  BY <1>2, <1>6 DEF Idle
<1>8. \A k \in 1 .. Len(posted) : Running(posted[k]) /\ posted[k].id \in 1 .. Len(calls) /\ posted[k].id # c
  BY <1>2 DEF LogInv, CallsPlaced, Running
<1>9. \A u \in Threads : Running(call[u]) => Running(call[u]) /\ call[u].id \in 1 .. Len(calls')
  BY <1>1 DEF Running
<1>10. ASSUME NEW r, Running(r)
       PROVE  /\ r.id \in 1 .. Len(calls') /\ r.turn \in 1 .. Len(SinkList) + 1 /\ r.loop \in {"log", "flush"}
              /\ calls'[r.id] = calls[r.id]
              /\ calls'[r.id].fate \in {"taken", "flush"} /\ (calls'[r.id].fate = "flush" => r.loop = "flush")
  <2>1. r.id \in 1 .. Len(calls)
    BY <1>10 DEF Running
  <2>2. calls'[r.id] = calls[r.id] /\ r.id \in 1 .. Len(calls')
    BY <1>1, <2>1
  <2> QED
    BY <1>10, <2>2 DEF Running
<1>11. CASE l \in AsyncLoggers
  <2>1. posted' = Append(posted, first) /\ call' = call
    BY <1>11 DEF Enter_, h
  <2>2. /\ posted' \in Seq(HeldRecord) /\ Len(posted') = Len(posted) + 1
        /\ \A k \in 1 .. Len(posted) : posted'[k] = posted[k]
        /\ posted'[Len(posted) + 1] = first
    BY <1>3, <1>5, <2>1, AppendProperties
  <2>3. \A k : k \in 1 .. Len(posted') <=> k \in 1 .. Len(posted) \/ k = Len(posted) + 1
    BY <1>5, <2>2
  <2>4. CallsPlaced'
    <3>1. \A u \in Threads : (call[u] = Idle \/ Running(call[u]))'
      BY <1>6, <1>10, <2>1 DEF Running, Idle
    <3>2. ASSUME NEW k \in 1 .. Len(posted')
          PROVE  /\ Running(posted[k])' /\ posted'[k].turn = 1
                 /\ calls'[posted'[k].id].fate = "taken" => posted'[k].loop = "log"
      <4>1. CASE k \in 1 .. Len(posted)
        <5>1. /\ Running(posted[k]) /\ posted[k].turn = 1
              /\ calls[posted[k].id].fate = "taken" => posted[k].loop = "log"
          BY <4>1 DEF LogInv, CallsPlaced
        <5> QED
          BY <1>10, <2>2, <4>1, <5>1 DEF Running
      <4>2. CASE k = Len(posted) + 1
        <5>1. posted'[k] = first
          BY <2>2, <4>2
        <5>2. Running(posted[k])'
          BY <1>4, <5>1 DEF Running
        <5> QED
          BY <1>1, <1>3, <5>1, <5>2
      <4> QED
        BY <2>3, <4>1, <4>2
    <3>3. \A r, u \in Threads : call'[r].id = call'[u].id /\ call'[r].id # 0 => r = u
      BY <2>1 DEF LogInv, CallsPlaced
    <3>4. \A j, k \in 1 .. Len(posted') : posted'[j].id = posted'[k].id => j = k
      <4>1. \A j, k \in 1 .. Len(posted) : posted'[j].id = posted'[k].id => j = k
        BY <2>2 DEF LogInv, CallsPlaced
      <4>2. \A j \in 1 .. Len(posted) : posted'[j].id # posted'[Len(posted) + 1].id
        BY <1>3, <1>8, <2>2
      <4> QED
        BY <2>3, <4>1, <4>2
    <3>5. \A r \in Threads, k \in 1 .. Len(posted') : call'[r].id # posted'[k].id
      BY <1>3, <1>7, <2>1, <2>2, <2>3 DEF LogInv, CallsPlaced
    <3> QED
      BY <3>1, <3>2, <3>3, <3>4, <3>5 DEF CallsPlaced, Threads
  <2>5. \A d, j, lp : d # c => (Ahead(d, j, lp)' <=> Ahead(d, j, lp))
    <3> TAKE d, j, lp
    <3> HAVE d # c
    <3>1. (\E k \in 1 .. Len(posted') : posted'[k].id = d) <=> (\E k \in 1 .. Len(posted) : posted[k].id = d)
      BY <1>3, <2>2, <2>3
    <3> QED
      BY <2>1, <3>1 DEF Ahead, Threads
  <2>6. \A j \in 1 .. Len(SinkList) : Ahead(c, j, loop)'
    <3>1. Len(posted) + 1 \in 1 .. Len(posted') /\ posted'[Len(posted) + 1].id = c
      BY <1>3, <2>2, <2>3
    <3> QED
      BY <3>1 DEF Ahead
  <2> QED
    BY <1>2, <1>5, <2>1, <2>2, <2>4, <2>5, <2>6
<1>12. CASE l \notin AsyncLoggers
  <2>1. call' = [call EXCEPT ![t] = first] /\ posted' = posted
    BY <1>12 DEF Enter_, h
  <2>2. /\ \A u \in Threads : u # t => call'[u] = call[u]
        /\ call'[t] = first /\ call' \in [Threads -> HeldRecord]
    BY <1>3, <1>5, <2>1
  <2>3. CallsPlaced'
    <3>1. \A u \in Threads : (call[u] = Idle \/ Running(call[u]))'
      <4> TAKE u \in Threads
      <4>1. CASE u = t
        <5>1. Running(call[t])'
          BY <1>4, <2>2 DEF Running
        <5> QED
          BY <4>1, <5>1
      <4>2. CASE u # t
        BY <1>6, <1>10, <2>2, <4>2 DEF Running, Idle
      <4> QED
        BY <4>1, <4>2
    <3>2. ASSUME NEW k \in 1 .. Len(posted')
          PROVE  /\ Running(posted[k])' /\ posted'[k].turn = 1
                 /\ calls'[posted'[k].id].fate = "taken" => posted'[k].loop = "log"
      <4>1. /\ Running(posted[k]) /\ posted[k].turn = 1
            /\ calls[posted[k].id].fate = "taken" => posted[k].loop = "log"
        BY <2>1 DEF LogInv, CallsPlaced
      <4> QED
        BY <1>10, <2>1, <4>1 DEF Running
    <3>3. \A r, u \in Threads : call'[r].id = call'[u].id /\ call'[r].id # 0 => r = u
      BY <1>3, <1>7, <2>2 DEF LogInv, CallsPlaced
    <3>4. \A j, k \in 1 .. Len(posted') : posted'[j].id = posted'[k].id => j = k
      BY <2>1 DEF LogInv, CallsPlaced
    <3>5. \A r \in Threads, k \in 1 .. Len(posted') : call'[r].id # posted'[k].id
      BY <1>3, <1>8, <2>1, <2>2 DEF LogInv, CallsPlaced
    <3> QED
      BY <3>1, <3>2, <3>3, <3>4, <3>5 DEF CallsPlaced, Threads
  <2>4. \A d, j, lp : d # c /\ d # 0 => (Ahead(d, j, lp)' <=> Ahead(d, j, lp))
    <3>1. call[t].id = 0
      BY DEF Idle
    <3> QED
      BY <1>3, <2>1, <2>2, <3>1 DEF Ahead, Threads
  <2>5. \A j \in 1 .. Len(SinkList) : Ahead(c, j, loop)'
    <3>1. \A j \in 1 .. Len(SinkList) : 1 <= j
      BY SinkFacts
    <3> QED
      BY <1>3, <1>5, <2>2, <3>1 DEF Ahead, Threads
  <2>6. \A d \in 1 .. Len(calls) : d # c /\ d # 0
    BY <1>2, LoggerTypes
  <2> QED
    BY <1>5, <2>1, <2>2, <2>3, <2>4, <2>5, <2>6
<1> QED
  BY <1>11, <1>12

\* Everything but the calls' places, for a new call.
LEMMA NewCallKept ==
  ASSUME LogInv, NEW l \in Loggers, NEW level \in Levels,
         NEW fate \in {"refused", "taken", "bad", "flush"}, NewCall(l, level, fate),
         fate = "taken" => level >= config[l].level, fate = "refused" => level < config[l].level,
         IF fate = "bad" THEN ErrHandler ELSE NoError,
         UNCHANGED <<config, sinkLevel, got, unflushed, thrown, levels, changes, clock>>,
         CallsPlaced', call' \in [Threads -> HeldRecord], posted' \in Seq(HeldRecord),
         \A d \in 1 .. Len(calls) : \A j, lp : Ahead(d, j, lp)' <=> Ahead(d, j, lp),
         \A d : \A j \in 1 .. Len(SinkList) : d = Len(calls) + 1 /\ fate = "taken" => Ahead(d, j, "log")'
  PROVE  LogInv'
<1>1. /\ calls' \in Seq(CallRecord) /\ Len(calls') = Len(calls) + 1 /\ Len(calls') <= MaxCalls
      /\ \A d \in 1 .. Len(calls) : calls'[d] = calls[d] /\ d \in 1 .. Len(calls')
      /\ calls'[Len(calls) + 1] = [logger |-> l, level |-> level, fate |-> fate]
      /\ \A d \in 1 .. Len(calls') : d \in 1 .. Len(calls) \/ d = Len(calls) + 1
      /\ fate # "bad" => Cardinality(BadCalls') = Cardinality(BadCalls)
      /\ fate = "bad" => Cardinality(BadCalls') = Cardinality(BadCalls) + 1
  BY NewCallFacts
<1>2. Len(calls) \in Nat /\ Len(calls') >= Len(calls)
  BY <1>1, LoggerTypes
<1>3. ReportsTimed' /\ err_counter' \in Nat /\ printed' \in 0 .. err_counter' /\ last_report' \in Int
  <2>1. CASE fate = "bad"
    <3>1. Cardinality(thrown') + Cardinality(BadCalls') = Cardinality(thrown) + Cardinality(BadCalls) + 1
      BY <1>1, <2>1, FailuresAreFinite
    <3> QED
      BY <2>1, <3>1, ErrHandlerKept
  <2>2. CASE fate # "bad"
    <3>1. clock' \in Nat /\ clock' >= clock
      BY DEF LogInv, LoggerTyping
    <3> QED
      BY <1>1, <2>2, <3>1, NoErrorKept
  <2> QED
    BY <2>1, <2>2
<1>4. GotOnce' /\ NothingAhead' /\ ServedSoFar' /\ FlushedSoFar'
  <2>1. ASSUME NEW d \in 1 .. Len(calls'), NEW j \in 1 .. Len(SinkList),
               d > Len(calls), calls'[d].fate = "taken"
        PROVE  Ahead(d, j, "log")'
    <3>1. d = Len(calls) + 1
      BY <1>1, <1>2, <2>1
    <3>2. fate = "taken"
      BY <1>1, <2>1, <3>1
    <3> QED
      BY <3>1, <3>2
  <2>2. /\ \A s \in LogSinks : unflushed'[s] \subseteq unflushed[s]
        /\ \A kind \in {"log", "flush", "sink"} : levels[kind] \subseteq levels'[kind]
    OBVIOUS
  <2> QED
    BY <1>1, <1>2, <2>1, <2>2, HistoryKept
<1>5. LoggerTyping'
  <2>1. LoggerTypeOK'
    BY <1>3 DEF LogInv, LoggerTyping, LoggerTypeOK, HeldRecord, Threads, LogSinks, Levels
  <2>2. /\ unflushed' \in [LogSinks -> SUBSET (1 .. Len(calls'))]
        /\ thrown' \subseteq LogSinks \X (1 .. Len(calls')) \X {"log", "flush"} /\ IsFiniteSet(thrown')
    <3>1. 1 .. Len(calls) \subseteq 1 .. Len(calls')
      BY <1>1
    <3> QED
      BY <3>1 DEF LogInv, LoggerTyping
  <2> QED
    BY <1>1, <1>3, <2>1, <2>2 DEF LogInv, LoggerTyping, CallRecord, HeldRecord, Threads, LogSinks, Levels
<1>6. LevelsSeen'
  <2>1. ASSUME NEW d \in 1 .. Len(calls')
        PROVE  /\ calls'[d].fate = "taken" => \E v \in levels.log : v <= calls'[d].level
               /\ calls'[d].fate = "refused" => \E v \in levels.log : v > calls'[d].level
    <3>1. CASE d \in 1 .. Len(calls)
      BY <1>1, <3>1 DEF LogInv, LevelsSeen
    <3>2. CASE d = Len(calls) + 1
      <4>1. config[l].level \in levels.log /\ config[l].level \in Nat /\ level \in Nat
        BY LevelsAreNumbers, SinkFacts DEF LogInv, LevelsSeen, Levels
      <4>2. calls'[d].fate = fate /\ calls'[d].level = level
        BY <1>1, <3>2
      <4>3. /\ fate = "taken" => config[l].level <= level
            /\ fate = "refused" => config[l].level > level
        BY <4>1
      <4> QED
        BY <4>1, <4>2, <4>3
    <3> QED
      BY <1>1, <3>1, <3>2
  <2> QED
    BY <2>1 DEF LogInv, LevelsSeen, LogSinks
<1> QED
  BY <1>3, <1>4, <1>5, <1>6 DEF LogInv

\* A call that goes no further: refused, or with arguments that do not fit.
LEMMA StayKept ==
  ASSUME LogInv, NEW l \in Loggers, NEW level \in Levels,
         NEW fate \in {"refused", "bad"}, NewCall(l, level, fate),
         fate = "refused" => level < config[l].level,
         IF fate = "bad" THEN ErrHandler ELSE NoError,
         UNCHANGED <<call, posted, config, sinkLevel, got, unflushed, thrown, levels, changes, clock>>
  PROVE  LogInv'
<1>1. fate \in {"refused", "taken", "bad", "flush"} /\ fate # "taken"
  OBVIOUS
<1>2. /\ Len(calls') = Len(calls) + 1
      /\ \A d \in 1 .. Len(calls) : calls'[d] = calls[d] /\ d \in 1 .. Len(calls')
  BY <1>1, NewCallFacts
<1>3. call' \in [Threads -> HeldRecord] /\ posted' \in Seq(HeldRecord)
  BY LoggerTypes DEF LogInv, LoggerTyping, LoggerTypeOK, HeldRecord, Threads
<1>4. CallsPlaced'
  <2>1. ASSUME NEW r, Running(r)
        PROVE  /\ r.id \in 1 .. Len(calls') /\ r.turn \in 1 .. Len(SinkList) + 1 /\ r.loop \in {"log", "flush"}
               /\ calls'[r.id] = calls[r.id]
               /\ calls'[r.id].fate \in {"taken", "flush"} /\ (calls'[r.id].fate = "flush" => r.loop = "flush")
    <3>1. r.id \in 1 .. Len(calls)
      BY <2>1 DEF Running
    <3>2. calls'[r.id] = calls[r.id] /\ r.id \in 1 .. Len(calls')
      BY <1>2, <3>1
    <3> QED
      BY <2>1, <3>2 DEF Running
  <2>2. \A u \in Threads : (call[u] = Idle \/ Running(call[u]))'
    <3>1. \A u \in Threads : call[u] = Idle \/ Running(call[u])
      BY DEF LogInv, CallsPlaced
    <3> QED
      BY <2>1, <3>1 DEF Running, Idle
  <2>3. ASSUME NEW k \in 1 .. Len(posted')
        PROVE  /\ Running(posted[k])' /\ posted'[k].turn = 1
               /\ calls'[posted'[k].id].fate = "taken" => posted'[k].loop = "log"
    <3>1. /\ Running(posted[k]) /\ posted[k].turn = 1
          /\ calls[posted[k].id].fate = "taken" => posted[k].loop = "log"
      BY DEF LogInv, CallsPlaced
    <3> QED
      BY <2>1, <3>1 DEF Running
  <2>4. /\ \A r, u \in Threads : call'[r].id = call'[u].id /\ call'[r].id # 0 => r = u
        /\ \A r \in Threads, k \in 1 .. Len(posted') : call'[r].id # posted'[k].id
        /\ \A j, k \in 1 .. Len(posted') : posted'[j].id = posted'[k].id => j = k
    BY DEF LogInv, CallsPlaced
  <2> QED
    BY <2>2, <2>3, <2>4 DEF CallsPlaced, Threads
<1>5. \A d, j, lp : Ahead(d, j, lp)' <=> Ahead(d, j, lp)
  BY AheadStays
<1> QED
  BY <1>1, <1>3, <1>4, <1>5, NewCallKept

LEMMA LogKept ==
  ASSUME LogInv, NEW t \in Callers, NEW l \in Loggers, NEW level \in Levels, Log(t, l, level)
  PROVE  LogInv'
<1>1. call[t] = Idle /\ UNCHANGED <<config, sinkLevel, got, unflushed, thrown, levels, changes, clock>>
  BY DEF Log
<1>2. CASE level < config[l].level /\ NewCall(l, level, "refused") /\ NoError /\ UNCHANGED <<call, posted>>
  <2> DEFINE fate == "refused"
  <2>1. /\ fate \in {"refused", "bad"} /\ NewCall(l, level, fate) /\ fate # "bad"
        /\ fate = "refused" => level < config[l].level
    BY <1>2
  <2> HIDE DEF fate
  <2> QED
    BY <1>1, <1>2, <2>1, StayKept
<1>3. CASE level >= config[l].level /\ NewCall(l, level, "bad") /\ ErrHandler /\ UNCHANGED <<call, posted>>
  <2> DEFINE fate == "bad"
  <2>1. fate \in {"refused", "bad"} /\ NewCall(l, level, fate) /\ fate # "refused" /\ fate = "bad"
    BY <1>3
  <2> HIDE DEF fate
  <2> QED
    BY <1>1, <1>3, <2>1, StayKept
<1>4. CASE level >= config[l].level /\ NewCall(l, level, "taken") /\ NoError /\ Enter_(t, l, "log")
  <2> DEFINE fate == "taken"
             loop == "log"
  <2>1. /\ fate \in {"taken", "flush"} /\ fate \in {"refused", "taken", "bad", "flush"}
        /\ loop \in {"log", "flush"} /\ (fate = "taken" <=> loop = "log")
        /\ fate = "taken" /\ fate # "bad" /\ fate # "refused"
        /\ NewCall(l, level, fate) /\ Enter_(t, l, loop)
    BY <1>4
  <2>2. loop = "log"
    OBVIOUS
  <2> HIDE DEF fate, loop
  <2>3. /\ CallsPlaced' /\ call' \in [Threads -> HeldRecord] /\ posted' \in Seq(HeldRecord)
        /\ \A d \in 1 .. Len(calls) : \A j, lp : Ahead(d, j, lp)' <=> Ahead(d, j, lp)
        /\ \A d : \A j \in 1 .. Len(SinkList) : d = Len(calls) + 1 => Ahead(d, j, loop)'
    BY <1>1, <2>1, EnterKept
  <2>4. \A d : \A j \in 1 .. Len(SinkList) : d = Len(calls) + 1 => Ahead(d, j, "log")'
    BY <2>2, <2>3
  <2> QED
    BY <1>1, <1>4, <2>1, <2>3, <2>4, NewCallKept
<1> QED
  BY <1>2, <1>3, <1>4 DEF Log

LEMMA FlushKept ==
  ASSUME LogInv, NEW t \in Callers, NEW l \in Loggers, Flush(t, l)
  PROVE  LogInv'
<1> DEFINE fate == "flush"
           loop == "flush"
<1>1. /\ call[t] = Idle /\ NewCall(l, Off, fate) /\ Enter_(t, l, loop) /\ NoError
      /\ UNCHANGED <<config, sinkLevel, got, unflushed, thrown, levels, changes, clock>>
  BY DEF Flush
<1>2. /\ fate \in {"taken", "flush"} /\ fate \in {"refused", "taken", "bad", "flush"}
      /\ loop \in {"log", "flush"} /\ (fate = "taken" <=> loop = "log")
      /\ fate # "taken" /\ fate # "bad" /\ fate # "refused"
  OBVIOUS
<1>3. Off \in Levels
  BY SinkFacts DEF Levels
<1> HIDE DEF fate, loop
<1>4. /\ CallsPlaced' /\ call' \in [Threads -> HeldRecord] /\ posted' \in Seq(HeldRecord)
      /\ \A d \in 1 .. Len(calls) : \A j, lp : Ahead(d, j, lp)' <=> Ahead(d, j, lp)
  BY <1>1, <1>2, <1>3, EnterKept
<1> QED
  BY <1>1, <1>2, <1>3, <1>4, NewCallKept

LEMMA LoggerStart == LoggerInit => LogInv
<1> SUFFICES ASSUME LoggerInit
             PROVE  LogInv
  OBVIOUS
<1>1. PICK flush \in Levels :
        /\ config = [l \in Loggers |-> [level |-> 1, flush |-> flush, sinks |-> SinkList]]
        /\ levels = [log |-> {1}, flush |-> {flush}, sink |-> {1}]
  BY DEF LoggerInit
<1>2. /\ sinkLevel = [s \in LogSinks |-> 1] /\ call = [t \in Threads |-> Idle] /\ posted = << >>
      /\ got = [s \in LogSinks |-> << >>] /\ unflushed = [s \in LogSinks |-> {}]
      /\ calls = << >> /\ thrown = {} /\ clock = 0
      /\ err_counter = 0 /\ last_report = -Second /\ printed = 0
  BY DEF LoggerInit
<1>3. 1 \in Levels /\ Levels \subseteq Nat
  BY SinkFacts DEF Levels
<1>4. Idle \in HeldRecord /\ Idle.id = 0
  BY SinkFacts DEF Idle, HeldRecord
<1>5. Len(calls) = 0 /\ Len(posted) = 0 /\ DOMAIN calls = {}
  BY <1>2
<1>6. \A s \in LogSinks : got[s] = << >> /\ << >> \in Seq(1 .. MaxCalls) /\ Len(got[s]) = 0
  BY <1>2
<1>7. LoggerTypeOK
  <2>1. call \in [Threads -> HeldRecord]
    BY <1>2, <1>4
  <2>2. got \in [LogSinks -> Seq(1 .. MaxCalls)]
    BY <1>2, <1>6
  <2>3. \A l \in Loggers : config[l].level \in Levels /\ config[l].flush \in Levels
    BY <1>1, <1>3
  <2> QED
    BY <1>2, <1>3, <2>1, <2>2, <2>3 DEF LoggerTypeOK, HeldRecord
<1>8. LoggerTyping
  <2>1. config \in [Loggers -> [level : Levels, flush : Levels, sinks : {SinkList}]]
    BY <1>1, <1>3
  <2>2. posted \in Seq(HeldRecord) /\ calls \in Seq(CallRecord)
    BY <1>2, EmptySeq
  <2>3. unflushed \in [LogSinks -> SUBSET (1 .. Len(calls))]
    BY <1>2
  <2>4. thrown \subseteq LogSinks \X (1 .. Len(calls)) \X {"log", "flush"} /\ IsFiniteSet(thrown)
    BY <1>2, FS_EmptySet
  <2>5. levels \in [log : SUBSET Levels, flush : SUBSET Levels, sink : SUBSET Levels]
    BY <1>1, <1>3
  <2>6. clock \in Nat /\ last_report \in Int /\ Len(calls) <= MaxCalls
    BY <1>2, <1>5, SinkFacts DEF Second
  <2> QED
    BY <1>7, <2>1, <2>2, <2>3, <2>4, <2>5, <2>6 DEF LoggerTyping
<1>9. LevelsSeen
  BY <1>1, <1>2, <1>5 DEF LevelsSeen
<1>10. CallsPlaced
  BY <1>2, <1>4, <1>5 DEF CallsPlaced
<1>11. GotOnce
  BY <1>6 DEF GotOnce
<1>12. NothingAhead /\ ServedSoFar /\ FlushedSoFar
  BY <1>5 DEF NothingAhead, ServedSoFar, FlushedSoFar
<1>13. ReportsTimed
  <2>1. Cardinality(thrown) = 0 /\ Cardinality({c \in DOMAIN calls : calls[c].fate = "bad"}) = 0
    <3>1. {c \in DOMAIN calls : calls[c].fate = "bad"} = {}
      BY <1>5
    <3> QED
      BY <1>2, <3>1, FS_EmptySet
  <2> QED
    BY <1>2, <2>1 DEF ReportsTimed, ErrorsCounted, Second
<1> QED
  BY <1>8, <1>9, <1>10, <1>11, <1>12, <1>13 DEF LogInv

LEMMA LoggerStays == LogInv /\ UNCHANGED loggerVars => LogInv'
<1> SUFFICES ASSUME LogInv, UNCHANGED loggerVars
             PROVE  LogInv'
  OBVIOUS
<1>1. /\ NoError /\ UNCHANGED <<config, sinkLevel, levels, call, posted, got, unflushed, calls, thrown, clock>>
  BY DEF loggerVars, NoError
<1>2. /\ config' \in [Loggers -> [level : Levels, flush : Levels, sinks : {SinkList}]]
      /\ sinkLevel' \in [LogSinks -> Levels]
      /\ levels' \in [log : SUBSET Levels, flush : SUBSET Levels, sink : SUBSET Levels]
  BY <1>1 DEF LogInv, LoggerTyping, LoggerTypeOK
<1>3. /\ \A kind \in {"log", "flush", "sink"} : levels[kind] \subseteq levels'[kind]
      /\ \A l \in Loggers : config'[l].level \in levels'.log /\ config'[l].flush \in levels'.flush
      /\ \A s \in LogSinks : sinkLevel'[s] \in levels'.sink
  BY <1>1 DEF LogInv, LevelsSeen
<1> QED
  BY <1>1, <1>2, <1>3, SettingKept

LEMMA LoggerStep == LogInv /\ [LoggerNext]_loggerVars => LogInv'
BY FlushKept, LogKept, TakePostedKept, HalfSecondKept, LogToSinkKept, FlushSinkKept, EndLoopKept,
   SetLevelKept, SetSinkLevelKept, CloneOrSwapKept, LoggerStays
DEF LoggerNext

\* For calls that are over nothing is ahead any more: sinks got once what they should.
LEMMA ServedWhenOver == LogInv => SinksServed
<1> SUFFICES ASSUME LogInv, NEW s \in LogSinks, NEW c \in DOMAIN calls
             PROVE  LET level == calls[c].level
                        times == Cardinality({i \in DOMAIN got[s] : got[s][i] = c})
                    IN /\ times <= 1
                       /\ times = 1 => calls[c].fate = "taken" /\ \A kind \in {"log", "sink"} : \E v \in levels[kind] : v <= level
                       /\ times = 0 /\ Over(c) /\ calls[c].fate # "flush"
                            /\ (\A kind \in {"log", "sink"} : \A v \in levels[kind] : v <= level)
                            => calls[c].fate = "bad" \/ Excused(s, c, "log")
  BY DEF SinksServed
<1> DEFINE A == {i \in DOMAIN got[s] : got[s][i] = c}
           times == Cardinality(A)
<1>1. c \in 1 .. Len(calls) /\ calls[c] \in CallRecord /\ DOMAIN got[s] = 1 .. Len(got[s])
  BY LoggerTypes
<1>2. A = {} \/ \E k \in 1 .. Len(got[s]) : A = {k} /\ got[s][k] = c
  <2>1. \A j, k \in A : j = k
    BY <1>1 DEF LogInv, GotOnce
  <2>2. ASSUME NEW k \in A
        PROVE  A = {k} /\ k \in 1 .. Len(got[s]) /\ got[s][k] = c
    BY <1>1, <2>1
  <2> QED
    BY <2>2
<1>3. /\ A = {} => times = 0
      /\ A # {} => times = 1
  <2> HIDE DEF A
  <2> QED
    BY <1>2, FS_EmptySet, FS_Singleton
<1>4. times <= 1
  BY <1>3
<1>5. ASSUME times = 1
      PROVE  calls[c].fate = "taken" /\ \A kind \in {"log", "sink"} : \E v \in levels[kind] : v <= calls[c].level
  <2>1. PICK k \in 1 .. Len(got[s]) : got[s][k] = c
    BY <1>2, <1>3, <1>5
  <2>2. calls[c].fate = "taken" /\ \E v \in levels.sink : v <= calls[c].level
    BY <2>1 DEF LogInv, GotOnce
  <2>3. \E v \in levels.log : v <= calls[c].level
    BY <1>1, <2>2 DEF LogInv, LevelsSeen
  <2> QED
    BY <2>2, <2>3
<1>6. ASSUME times = 0, Over(c), calls[c].fate # "flush",
             \A kind \in {"log", "sink"} : \A v \in levels[kind] : v <= calls[c].level
      PROVE  calls[c].fate = "bad" \/ Excused(s, c, "log")
  <2>1. (\A v \in levels.log : v <= calls[c].level) /\ (\A v \in levels.sink : v <= calls[c].level)
    BY <1>6
  <2>2. PICK i \in 1 .. Len(SinkList) : SinkList[i] = s
    BY SinkFacts
  <2>3. ~Ahead(c, i, "log")
    BY <1>6, LoggerTypes DEF Over, Ahead
  <2>4. ~Receives(s, c)
    <3>1. A = {}
      BY <1>3, <1>6
    <3> QED
      BY <1>1, <3>1 DEF Receives
  <2>5. CASE calls[c].fate = "taken"
    BY <1>1, <2>1, <2>2, <2>3, <2>4, <2>5 DEF LogInv, ServedSoFar
  <2>6. CASE calls[c].fate = "refused"
    <3>1. PICK v \in levels.log : v > calls[c].level
      BY <1>1, <2>6 DEF LogInv, LevelsSeen
    <3>2. v \in Nat /\ calls[c].level \in Nat /\ v <= calls[c].level
      <4>1. levels.log \subseteq Levels /\ Levels \subseteq Nat
        BY SinkFacts DEF LogInv, LoggerTyping, Levels
      <4> QED
        BY <1>1, <2>1, <4>1, LevelsAreNumbers
    <3> QED
      BY <3>1, <3>2
  <2> QED
    BY <1>1, <1>6, <2>5, <2>6 DEF CallRecord
<1> QED
  BY <1>4, <1>5, <1>6

LEMMA FlushedWhenOver == LogInv => FlushedAfter
<1> SUFFICES ASSUME LogInv, NEW s \in LogSinks, NEW c \in DOMAIN calls, Over(c), c \in unflushed[s],
                    calls[c].level # Off, \A v \in levels.flush : v <= calls[c].level
             PROVE  Excused(s, c, "flush")
  BY DEF FlushedAfter
<1>1. PICK i \in 1 .. Len(SinkList) : SinkList[i] = s
  BY SinkFacts
<1>2. ~Ahead(c, i, "flush") /\ c \in 1 .. Len(calls)
  BY LoggerTypes DEF Over, Ahead
<1> QED
  BY <1>1, <1>2 DEF LogInv, FlushedSoFar

\* Loggers: every sink gets once what its levels let through, and is flushed for it,
\* whatever the other sinks throw and whoever changes levels meanwhile, and every
\* failure is counted and the first one of a second printed.
THEOREM SinksAreServed == LoggerSpec => [](LoggerTypeOK /\ SinksServed /\ FlushedAfter /\ ErrorsCounted)
<1>1. LogInv => LoggerTypeOK /\ SinksServed /\ FlushedAfter /\ ErrorsCounted
  BY ServedWhenOver, FlushedWhenOver DEF LogInv, LoggerTyping, ReportsTimed
<1> QED
  BY <1>1, LoggerStart, LoggerStep, PTL DEF LoggerSpec

-----------------------------------------------------------------------------
(* The rotating sink.  d is the files of a disk, each under its number.    *)
(* That a file is only overwritten or removed when it is the oldest, needs *)
(* to know that the loop of rotate_ leaves a gap at its index; that a file *)
(* stays within its size, what current_size_ is worth in each state: after *)
(* a rotation that failed it is past max_size, for a message that is then  *)
(* logged has to rotate again, to have a file to write to at all.          *)

LEMMA BytesAreNumbers ==
  ASSUME NEW file \in Seq(Msgs)
  PROVE  Bytes(file) \in Nat /\ (Len(file) = 0 => Bytes(file) = 0)
<1> DEFINE w == [k \in 1 .. Len(file) |-> file[k][2]]
<1>1. Len(file) \in Nat /\ \A k \in 1 .. Len(file) : file[k] \in Msgs
  BY LenProperties, ElementOfSeq
<1>2. \A k \in 1 .. Len(file) : file[k][2] \in Nat
  BY <1>1, RotatingFileAssumption DEF RotatingFileAssumption, Msgs
<1>3. w \in Seq(Nat) /\ Len(w) = Len(file)
  BY <1>1, <1>2
<1> HIDE DEF w
<1> QED
  BY <1>3, TotalOfNumbers DEF Bytes, w

LEMMA BytesOfMore ==
  ASSUME NEW file \in Seq(Msgs), NEW m \in Msgs
  PROVE  Bytes(Append(file, m)) = Bytes(file) + m[2]
<1> DEFINE more == Append(file, m)
           v == [k \in 1 .. Len(file) |-> file[k][2]]
           w == [k \in 1 .. Len(more) |-> more[k][2]]
<1>1. /\ Len(file) \in Nat /\ Len(more) = Len(file) + 1 /\ more \in Seq(Msgs)
      /\ more[Len(more)] = m /\ \A k \in 1 .. Len(file) : more[k] = file[k]
  BY AppendProperties, LenProperties
<1> HIDE DEF more
<1>2. /\ \A k \in 1 .. Len(file) : file[k][2] \in Nat
      /\ \A k \in 1 .. Len(more) : more[k][2] \in Nat
  <2>1. \A x \in Msgs : x[2] \in Nat
    BY RotatingFileAssumption DEF RotatingFileAssumption, Msgs
  <2> QED
    BY <1>1, <2>1, ElementOfSeq
<1>3. /\ v \in Seq(Nat) /\ w \in Seq(Nat) /\ Len(v) = Len(file) /\ Len(w) = Len(file) + 1
      /\ w[Len(w)] = m[2] /\ \A k \in 1 .. Len(file) : w[k] = v[k]
  BY <1>1, <1>2
<1> HIDE DEF v, w
<1>4. TotalOf(w) = TotalOf(v) + w[Len(w)]
  BY <1>3, TotalOfMore, ZenonT(60)
<1> QED
  BY <1>3, <1>4 DEF Bytes, v, w, more

LEMMA BytesOfPrefix ==
  ASSUME NEW file \in Seq(Msgs), NEW longer \in Seq(Msgs), Len(file) <= Len(longer),
         Agree(file, longer, Len(file))
  PROVE  Bytes(file) <= Bytes(longer)
<1> DEFINE v == [k \in 1 .. Len(file) |-> file[k][2]]
           w == [k \in 1 .. Len(longer) |-> longer[k][2]]
<1>1. Len(file) \in Nat /\ Len(longer) \in Nat
  BY LenProperties
<1>2. /\ \A k \in 1 .. Len(file) : file[k][2] \in Nat
      /\ \A k \in 1 .. Len(longer) : longer[k][2] \in Nat
  <2>1. \A x \in Msgs : x[2] \in Nat
    BY RotatingFileAssumption DEF RotatingFileAssumption, Msgs
  <2> QED
    BY <1>1, <2>1, ElementOfSeq
<1>3. /\ v \in Seq(Nat) /\ w \in Seq(Nat) /\ Len(v) = Len(file) /\ Len(w) = Len(longer)
      /\ \A k \in 1 .. Len(file) : v[k] = w[k]
  BY <1>1, <1>2 DEF Agree
<1> HIDE DEF v, w
<1>4. Agree(v, w, Len(v)) /\ Len(v) <= Len(w)
  BY <1>3 DEF Agree
<1> QED
  BY <1>3, <1>4, TotalOfPrefix DEF Bytes, v, w

Placed(d) == DOMAIN d \subseteq 0 .. MaxFiles /\ \A i \in DOMAIN d : d[i] \in Seq(Msgs)

InOrder(d) ==
  /\ \A i \in DOMAIN d : \A j, k \in 1 .. Len(d[i]) : j < k => d[i][j][1] < d[i][k][1]
  /\ \A i, j \in DOMAIN d :
       i > j => \A k \in 1 .. Len(d[i]), l \in 1 .. Len(d[j]) : d[i][k][1] < d[j][l][1]

Sized(d) == \A i \in DOMAIN d : Bytes(d[i]) <= MaxSize \/ Len(d[i]) = 1

UpTo(d, n) == \A i \in DOMAIN d : \A k \in 1 .. Len(d[i]) : d[i][k][1] <= n

FilesOK(d, n) == Placed(d) /\ InOrder(d) /\ Sized(d) /\ UpTo(d, n)

\* Each file of new that is not empty has the first messages of file p[i] of old.
Moved(old, new, p) ==
  /\ \A i \in DOMAIN new :
       /\ new[i] \in Seq(Msgs)
       /\ Len(new[i]) # 0 => /\ p[i] \in DOMAIN old /\ Len(new[i]) <= Len(old[p[i]])
                             /\ Agree(new[i], old[p[i]], Len(new[i]))
  /\ \A i, j \in DOMAIN new :
       i > j /\ Len(new[i]) # 0 /\ Len(new[j]) # 0 => p[i] > p[j]

IdsOf(d) == UNION {Ids(d[i]) : i \in DOMAIN d}

LEMMA IdFacts ==
  ASSUME NEW d, Placed(d), NEW x
  PROVE  /\ x \in IdsOf(d) <=> \E i \in DOMAIN d : \E k \in 1 .. Len(d[i]) : x = d[i][k][1]
         /\ \A i \in DOMAIN d : x \in Ids(d[i]) <=> \E k \in 1 .. Len(d[i]) : x = d[i][k][1]
<1>1. ASSUME NEW i \in DOMAIN d
      PROVE  x \in Ids(d[i]) <=> \E k \in 1 .. Len(d[i]) : x = d[i][k][1]
  <2> DEFINE file == d[i]
  <2>1. file \in Seq(Msgs)
    BY DEF Placed
  <2> HIDE DEF file
  <2>2. DOMAIN file = 1 .. Len(file)
    BY <2>1, LenProperties
  <2>3. x \in Ids(file) <=> \E k \in 1 .. Len(file) : x = file[k][1]
    BY <2>2 DEF Ids, Range
  <2> QED
    BY <2>3 DEF file
<1> QED
  BY <1>1 DEF IdsOf

LEMMA MovedFiles ==
  ASSUME NEW old, NEW new, NEW p, NEW n \in Int, FilesOK(old, n), DOMAIN new \subseteq 0 .. MaxFiles,
         Moved(old, new, p)
  PROVE  FilesOK(new, n) /\ \A x \in IdsOf(new) : x \in IdsOf(old)
<1>1. Placed(new) /\ Placed(old)
  BY DEF Moved, Placed, FilesOK
<1>2. ASSUME NEW i \in DOMAIN new, NEW k \in 1 .. Len(new[i])
      PROVE  /\ p[i] \in DOMAIN old /\ k \in 1 .. Len(old[p[i]]) /\ new[i][k] = old[p[i]][k]
             /\ Len(new[i]) # 0
  <2>1. new[i] \in Seq(Msgs) /\ Len(new[i]) \in Nat
    BY DEF Moved
  <2>2. Len(new[i]) # 0
    BY <2>1
  <2>3. /\ p[i] \in DOMAIN old /\ Len(new[i]) <= Len(old[p[i]])
        /\ new[i][k] = old[p[i]][k]
    BY <2>2 DEF Moved, Agree
  <2>4. Len(old[p[i]]) \in Nat
    BY <1>1, <2>3, LenProperties DEF Placed
  <2> QED
    BY <2>1, <2>2, <2>3, <2>4
<1>3. UpTo(new, n)
  BY <1>2 DEF FilesOK, UpTo
<1>4. ASSUME NEW i \in DOMAIN new, NEW j \in 1 .. Len(new[i]), NEW k \in 1 .. Len(new[i]), j < k
      PROVE  new[i][j][1] < new[i][k][1]
  BY <1>2, <1>4 DEF FilesOK, InOrder
<1>5. ASSUME NEW i \in DOMAIN new, NEW j \in DOMAIN new, i > j,
             NEW k \in 1 .. Len(new[i]), NEW l \in 1 .. Len(new[j])
      PROVE  new[i][k][1] < new[j][l][1]
  <2>1. p[i] > p[j]
    BY <1>2, <1>5 DEF Moved
  <2> QED
    BY <1>2, <2>1 DEF FilesOK, InOrder
<1>6. ASSUME NEW i \in DOMAIN new
      PROVE  Bytes(new[i]) <= MaxSize \/ Len(new[i]) = 1
  <2>1. new[i] \in Seq(Msgs) /\ Len(new[i]) \in Nat /\ Bytes(new[i]) \in Nat /\ MaxSize \in Nat
    BY <1>1, BytesAreNumbers, LenProperties, RotatingFileAssumption
    DEF Placed, RotatingFileAssumption
  <2>2. CASE Len(new[i]) = 0
    <3>1. Bytes(new[i]) = 0
      BY <2>1, <2>2, BytesAreNumbers
    <3> QED
      BY <2>1, <3>1
  <2>3. CASE Len(new[i]) # 0
    <3> DEFINE file == old[p[i]]
    <3>1. /\ p[i] \in DOMAIN old /\ Len(new[i]) <= Len(file) /\ Agree(new[i], file, Len(new[i]))
      BY <2>3 DEF Moved
    <3>2. file \in Seq(Msgs) /\ Len(file) \in Nat /\ Bytes(file) \in Nat
      BY <1>1, <3>1, BytesAreNumbers, LenProperties DEF Placed
    <3>3. Bytes(file) <= MaxSize \/ Len(file) = 1
      BY <3>1 DEF FilesOK, Sized
    <3> HIDE DEF file
    <3>4. Bytes(new[i]) <= Bytes(file)
      BY <2>1, <3>1, <3>2, BytesOfPrefix
    <3> QED
      BY <2>1, <2>3, <3>1, <3>2, <3>3, <3>4
  <2> QED
    BY <2>2, <2>3
<1>7. ASSUME NEW x \in IdsOf(new)
      PROVE  x \in IdsOf(old)
  <2>1. PICK i \in DOMAIN new : \E k \in 1 .. Len(new[i]) : x = new[i][k][1]
    BY <1>1, IdFacts
  <2>2. PICK k \in 1 .. Len(new[i]) : x = new[i][k][1]
    BY <2>1
  <2> QED
    BY <1>1, <1>2, <2>2, IdFacts
<1> QED
  BY <1>1, <1>3, <1>4, <1>5, <1>6, <1>7 DEF FilesOK, InOrder, Sized

\* Every message that goes from the disk is in taken, or was older than all that stay.
Gone(new, old, taken) ==
  \A x \in IdsOf(old) : x \in IdsOf(new) \/ x \in taken \/ \A y \in IdsOf(new) : x < y

\* File i of old is overwritten or removed, and the others are kept.
LosesAtMost(old, new, p, i) ==
  /\ \A j \in DOMAIN old \ {i} : \E k \in DOMAIN new : new[k] = old[j]
  /\ \A k \in DOMAIN new : Len(new[k]) # 0 => p[k] # i

LEMMA OldestGoes ==
  ASSUME NEW old, NEW new, NEW p, NEW n \in Int, NEW i \in 0 .. MaxFiles, NEW taken,
         FilesOK(old, n), DOMAIN new \subseteq 0 .. MaxFiles, Moved(old, new, p),
         LosesAtMost(old, new, p, i), i = MaxFiles \/ i \notin DOMAIN old
  PROVE  Gone(new, old, taken)
<1>1. Placed(old) /\ Placed(new)
  BY DEF FilesOK, Placed, Moved
<1> SUFFICES ASSUME NEW x \in IdsOf(old), x \notin IdsOf(new), NEW y \in IdsOf(new)
             PROVE  x < y
  BY DEF Gone
<1>2. PICK j \in DOMAIN old : \E k \in 1 .. Len(old[j]) : x = old[j][k][1]
  BY <1>1, IdFacts
<1>3. j = i
  <2> SUFFICES ASSUME j # i
               PROVE  FALSE
    OBVIOUS
  <2>1. PICK k \in DOMAIN new : new[k] = old[j]
    BY DEF LosesAtMost
  <2> QED
    BY <1>1, <1>2, <2>1, IdFacts
<1>4. i = MaxFiles
  BY <1>3
<1>5. PICK k \in DOMAIN new : \E l \in 1 .. Len(new[k]) : y = new[k][l][1]
  BY <1>1, IdFacts
<1>6. PICK l \in 1 .. Len(new[k]) : y = new[k][l][1]
  BY <1>5
<1>7. Len(new[k]) \in Nat /\ Len(new[k]) # 0
  <2>1. new[k] \in Seq(Msgs)
    BY <1>1 DEF Placed
  <2>2. Len(new[k]) \in Nat
    BY <2>1, LenProperties
  <2> QED
    BY <1>6, <2>2
<1>8. /\ p[k] \in DOMAIN old /\ p[k] # MaxFiles /\ new[k][l] = old[p[k]][l]
      /\ Len(new[k]) <= Len(old[p[k]])
  BY <1>4, <1>6, <1>7 DEF Moved, Agree, LosesAtMost
<1>9. p[k] < MaxFiles /\ l \in 1 .. Len(old[p[k]])
  <2>1. p[k] \in 0 .. MaxFiles /\ MaxFiles \in Nat /\ old[p[k]] \in Seq(Msgs)
    BY <1>1, <1>8, RotatingFileAssumption DEF Placed, RotatingFileAssumption
  <2>2. Len(old[p[k]]) \in Nat
    BY <2>1, LenProperties
  <2> QED
    BY <1>7, <1>8, <2>1, <2>2
<1>10. PICK m \in 1 .. Len(old[j]) : x = old[j][m][1]
  BY <1>2
<1>11. j > p[k]
  BY <1>3, <1>4, <1>9, RotatingFileAssumption DEF RotatingFileAssumption
<1>12. old[j][m][1] < old[p[k]][l][1]
  BY <1>8, <1>9, <1>11 DEF FilesOK, InOrder
<1> QED
  BY <1>6, <1>8, <1>10, <1>12

Same == [i \in 0 .. MaxFiles |-> i]

LEMMA NothingMoves ==
  ASSUME NEW d, NEW taken, Placed(d)
  PROVE  Moved(d, d, Same) /\ Gone(d, d, taken)
<1>1. \A i \in DOMAIN d : d[i] \in Seq(Msgs) /\ Len(d[i]) \in Nat /\ i \in 0 .. MaxFiles /\ Same[i] = i
  BY LenProperties DEF Placed, Same
<1> QED
  BY <1>1 DEF Moved, Gone, Agree

Held == IF item = << >> THEN {} ELSE {item[1]}
Newest == IF item = << >> THEN logged ELSE logged - 1

AllThere ==
  \A id \in 1 .. logged :
    id \in IdsOf(disk) \cup lost \cup Held \/ \A other \in IdsOf(disk) : id < other

\* What the sink does when, and what current_size_ is good for.
SinkSteady ==
  /\ item # << >> => item \in Msgs /\ item[1] = logged
  /\ sink \in {"down", "ready"} => item = << >>
  /\ sink = "writing" => item # << >> /\ fd
  /\ sink \in {"rotating", "abandoning"} => ~ fd
  /\ sink = "rotating" /\ index < MaxFiles => index \notin DOMAIN disk
  /\ fd => 0 \in DOMAIN disk
  /\ sink = "ready" /\ fd => current >= Bytes(disk[0])
  /\ sink = "ready" /\ ~ fd => current > MaxSize
  /\ sink \in {"rotating", "abandoning"} /\ item # << >> => current > MaxSize
  /\ sink = "writing" =>
       /\ current >= Bytes(disk[0]) + item[2]
       /\ current <= MaxSize \/ Len(disk[0]) = 0

RotInv == RotTypeOK /\ FilesOK(disk, Newest) /\ AllThere /\ SinkSteady

LEMMA RotFacts ==
  ASSUME RotInv
  PROVE  /\ MaxFiles \in Nat /\ MaxSize \in Nat /\ MaxLogged \in Nat /\ MaxFaults \in Nat
         /\ Lengths \subseteq Nat \ {0} /\ logged \in Nat /\ Newest \in Int /\ current \in Nat
         /\ index \in 0 .. MaxFiles /\ Placed(disk)
         /\ item # << >> => /\ item \in Msgs /\ item[1] = logged /\ item[2] \in Nat
                            /\ item[1] \in 1 .. MaxLogged
         /\ \A i \in DOMAIN disk : /\ i \in 0 .. MaxFiles /\ disk[i] \in Seq(Msgs)
                                   /\ Len(disk[i]) \in Nat /\ Bytes(disk[i]) \in Nat
<1>1. /\ MaxFiles \in Nat /\ MaxSize \in Nat /\ MaxLogged \in Nat /\ MaxFaults \in Nat
      /\ Lengths \subseteq Nat \ {0}
  BY RotatingFileAssumption DEF RotatingFileAssumption
<1>2. /\ logged \in Nat /\ Newest \in Int /\ current \in Nat /\ index \in 0 .. MaxFiles
      /\ Placed(disk)
  BY <1>1 DEF RotInv, RotTypeOK, FilesOK, Newest
<1>3. item # << >> => item \in Msgs /\ item[1] = logged
  BY DEF RotInv, SinkSteady
<1>4. \A m \in Msgs : m[2] \in Nat /\ m[1] \in 1 .. MaxLogged
  BY <1>1 DEF Msgs
<1>5. \A i \in DOMAIN disk : i \in 0 .. MaxFiles /\ disk[i] \in Seq(Msgs)
  BY <1>2 DEF Placed
<1> QED
  BY <1>1, <1>2, <1>3, <1>4, <1>5, LenProperties, BytesAreNumbers

\* What every action that adds nothing to the files has to show.
LEMMA FilesKept ==
  ASSUME RotInv, NEW p, Moved(disk, disk', p), DOMAIN disk' \subseteq 0 .. MaxFiles,
         Gone(disk', disk, lost'), lost \subseteq lost', Held \subseteq lost' \cup Held',
         1 .. logged' \subseteq 1 .. logged \cup Held', Newest' \in Int, Newest <= Newest'
  PROVE  FilesOK(disk', Newest') /\ AllThere' /\ Placed(disk')
<1>1. FilesOK(disk, Newest) /\ Newest \in Int /\ AllThere
  BY RotFacts DEF RotInv
<1>2. FilesOK(disk', Newest) /\ \A x \in IdsOf(disk') : x \in IdsOf(disk)
  BY <1>1, MovedFiles
<1>3. FilesOK(disk', Newest')
  <2>1. UpTo(disk', Newest')
    <3> SUFFICES ASSUME NEW i \in DOMAIN disk', NEW k \in 1 .. Len(disk'[i])
                 PROVE  disk'[i][k][1] <= Newest'
      BY DEF UpTo
    <3>1. disk'[i][k][1] <= Newest
      BY <1>2 DEF FilesOK, UpTo
    <3>2. disk'[i][k][1] \in Int
      <4>1. disk'[i] \in Seq(Msgs)
        BY <1>2 DEF FilesOK, Placed
      <4>2. disk'[i][k] \in Msgs
        BY <4>1, ElementOfSeq
      <4> QED
        BY <4>2 DEF Msgs
    <3> QED
      BY <1>1, <3>1, <3>2
  <2> QED
    BY <1>2, <2>1 DEF FilesOK
<1>4. AllThere'
  <2> SUFFICES ASSUME NEW id \in 1 .. logged'
               PROVE  \/ id \in IdsOf(disk') \cup lost' \cup Held'
                      \/ \A other \in IdsOf(disk') : id < other
    BY DEF AllThere
  <2>1. CASE id \in Held'
    BY <2>1
  <2>2. CASE id \in IdsOf(disk)
    BY <2>2 DEF Gone
  <2>3. CASE id \notin Held' /\ id \notin IdsOf(disk)
    <3>1. id \in lost \cup Held \/ \A other \in IdsOf(disk) : id < other
      BY <1>1, <2>3 DEF AllThere
    <3> QED
      BY <1>2, <2>3, <3>1
  <2> QED
    BY <2>1, <2>2, <2>3
<1> QED
  BY <1>3, <1>4 DEF FilesOK

\* The same when no file changes.
LEMMA FilesStay ==
  ASSUME RotInv, UNCHANGED disk, lost \subseteq lost', Held \subseteq lost' \cup Held',
         1 .. logged' \subseteq 1 .. logged \cup Held', Newest' \in Int, Newest <= Newest'
  PROVE  FilesOK(disk', Newest') /\ AllThere'
<1>1. Placed(disk)
  BY RotFacts
<1>2. Moved(disk, disk', Same) /\ Gone(disk', disk, lost')
  BY <1>1, NothingMoves
<1>3. DOMAIN disk' \subseteq 0 .. MaxFiles
  BY <1>1 DEF Placed
<1> QED
  BY <1>2, <1>3, FilesKept

LEMMA OpenSinkKept ==
  ASSUME RotInv, NEW rotate_on_open \in BOOLEAN, OpenSink(rotate_on_open)
  PROVE  RotInv'
<1> DEFINE file == IF 0 \in DOMAIN disk THEN disk[0] ELSE << >>
<1>1. /\ sink = "down" /\ item = << >> /\ item' = << >> /\ disk' = With(0, file)
      /\ flushed' = Len(file) /\ current' = Bytes(file)
      /\ logged' = logged /\ lost' = lost /\ faults' = faults
  BY DEF OpenSink, RotInv, SinkSteady
<1>2. \/ sink' = "rotating" /\ index' = MaxFiles /\ fd' = FALSE
      \/ sink' = "ready" /\ fd' = TRUE /\ index' = index
  BY DEF OpenSink, Rotate
<1>3. file \in Seq(Msgs) /\ Len(file) \in Nat /\ Bytes(file) \in Nat /\ (0 \notin DOMAIN disk => Len(file) = 0)
  <2>1. CASE 0 \in DOMAIN disk
    BY <2>1, RotFacts
  <2>2. CASE 0 \notin DOMAIN disk
    <3>1. file = << >> /\ << >> \in Seq(Msgs) /\ Len(<< >>) = 0
      BY <2>2
    <3> QED
      BY <2>2, <3>1, BytesAreNumbers
  <2> QED
    BY <2>1, <2>2
<1>4. /\ DOMAIN disk' = DOMAIN disk \cup {0} /\ disk'[0] = file
      /\ \A i \in DOMAIN disk : disk'[i] = disk[i]
  BY <1>1 DEF With
<1> HIDE DEF file
<1>5. \A i \in 0 .. MaxFiles : Same[i] = i
  BY DEF Same
<1>6. \A i \in DOMAIN disk' : i \in 0 .. MaxFiles /\ (i \in DOMAIN disk \/ i = 0)
  BY <1>4, RotFacts
<1>7. Moved(disk, disk', Same)
  <2>1. ASSUME NEW i \in DOMAIN disk'
        PROVE  /\ disk'[i] \in Seq(Msgs) /\ Len(disk'[i]) \in Nat /\ Same[i] = i
               /\ Len(disk'[i]) # 0 => i \in DOMAIN disk /\ disk'[i] = disk[i]
    <3>1. CASE i \in DOMAIN disk
      BY <1>4, <1>5, <1>6, <3>1, RotFacts
    <3>2. CASE i \notin DOMAIN disk
      BY <1>3, <1>4, <1>5, <1>6, <3>2
    <3> QED
      BY <3>1, <3>2
  <2> QED
    BY <2>1 DEF Moved, Agree
<1>8. Gone(disk', disk, lost')
  <2>1. Placed(disk) /\ Placed(disk')
    BY <1>3, <1>4, <1>6, RotFacts DEF Placed
  <2> QED
    BY <1>4, <2>1, IdFacts DEF Gone
<1>9. FilesOK(disk', Newest') /\ AllThere' /\ Placed(disk')
  <2>1. /\ DOMAIN disk' \subseteq 0 .. MaxFiles /\ lost \subseteq lost' /\ Held \subseteq lost' \cup Held'
        /\ 1 .. logged' \subseteq 1 .. logged \cup Held'
    BY <1>1, <1>6 DEF Held
  <2>2. Newest' \in Int /\ Newest <= Newest'
    BY <1>1, RotFacts DEF Newest
  <2> QED
    BY <1>7, <1>8, <2>1, <2>2, FilesKept
<1>10. RotTypeOK'
  <2>1. DOMAIN disk' \subseteq 0 .. MaxFiles /\ \A i \in DOMAIN disk' : disk'[i] \in Seq(Msgs)
    BY <1>9 DEF Placed
  <2>2. flushed' \in Nat /\ fd' \in BOOLEAN /\ current' \in Nat
    BY <1>1, <1>2, <1>3
  <2>3. index' \in 0 .. MaxFiles
    BY <1>2, RotFacts
  <2>4. sink' \in {"down", "ready", "rotating", "abandoning", "writing"}
    BY <1>2
  <2>5. /\ item' \in Msgs \cup {<< >>} /\ logged' \in 0 .. MaxLogged
        /\ lost' \subseteq 1 .. MaxLogged /\ faults' \in 0 .. MaxFaults
    BY <1>1 DEF RotInv, RotTypeOK
  <2> QED
    BY <2>1, <2>2, <2>3, <2>4, <2>5 DEF RotTypeOK
<1>11. SinkSteady'
  BY <1>1, <1>2, <1>3, <1>4, RotFacts DEF SinkSteady
<1> QED
  BY <1>9, <1>10, <1>11 DEF RotInv

LEMMA LogMessageKept ==
  ASSUME RotInv, NEW length \in Lengths, LogMessage(length)
  PROVE  RotInv'
<1>1. /\ sink = "ready" /\ item = << >> /\ logged < MaxLogged /\ logged' = logged + 1
      /\ item' = <<logged + 1, length>> /\ current' = current + length
      /\ disk' = disk /\ flushed' = flushed /\ lost' = lost /\ faults' = faults
  BY DEF LogMessage, RotInv, SinkSteady
<1>2. \/ current' > MaxSize /\ sink' = "rotating" /\ index' = MaxFiles /\ fd' = FALSE
      \/ ~ (current' > MaxSize) /\ sink' = "writing" /\ index' = index /\ fd' = fd
  BY DEF LogMessage, Rotate
<1>3. /\ item' \in Msgs /\ item'[1] = logged + 1 /\ item'[2] = length /\ item' # << >>
      /\ length \in Nat /\ length > 0 /\ current' \in Nat
  BY <1>1, RotFacts DEF Msgs
<1>4. FilesOK(disk', Newest') /\ AllThere'
  <2>1. Held' = {logged + 1} /\ Held = {} /\ Newest = logged /\ Newest' = (logged + 1) - 1
    BY <1>1, <1>3 DEF Held, Newest
  <2>2. 1 .. logged' \subseteq 1 .. logged \cup Held' /\ Newest' = logged /\ logged \in Nat
    BY <1>1, <2>1, RotFacts, SMTT(30)
  <2>3. /\ UNCHANGED disk /\ lost \subseteq lost' /\ Held \subseteq lost' \cup Held'
        /\ Newest' \in Int /\ Newest <= Newest'
    BY <1>1, <2>1, <2>2
  <2> QED
    BY <2>2, <2>3, FilesStay
<1>5. RotTypeOK'
  <2>1. /\ DOMAIN disk' \subseteq 0 .. MaxFiles /\ \A i \in DOMAIN disk' : disk'[i] \in Seq(Msgs)
        /\ flushed' \in Nat /\ fd \in BOOLEAN /\ faults' \in 0 .. MaxFaults
        /\ lost' \subseteq 1 .. MaxLogged
    BY <1>1 DEF RotInv, RotTypeOK
  <2>2. index' \in 0 .. MaxFiles /\ logged' \in 0 .. MaxLogged
    BY <1>1, <1>2, RotFacts, SMTT(30)
  <2>3. sink' \in {"down", "ready", "rotating", "abandoning", "writing"} /\ fd' \in BOOLEAN
    BY <1>2, <2>1
  <2> QED
    BY <1>3, <2>1, <2>2, <2>3 DEF RotTypeOK
<1>6. SinkSteady'
  <2>1. \A a, b, c \in Nat : ~ (a + b > c) => ~ (a > c) /\ a + b <= c
    OBVIOUS
  <2>2. sink' = "writing" => ~ (current > MaxSize) /\ current' <= MaxSize
    BY <1>1, <1>2, <1>3, <2>1, RotFacts
  <2>3. sink' = "writing" => fd /\ current >= Bytes(disk[0]) /\ 0 \in DOMAIN disk
    BY <1>1, <1>2, <2>2 DEF RotInv, SinkSteady
  <2>4. sink' = "writing" => current' >= Bytes(disk[0]) + length
    BY <1>1, <1>3, <2>3, RotFacts, SMTT(30)
  <2> QED
    BY <1>1, <1>2, <1>3, <2>2, <2>3, <2>4, SMTT(30) DEF SinkSteady
<1> QED
  BY <1>4, <1>5, <1>6 DEF RotInv

LEMMA IdsAreNumbers ==
  ASSUME NEW file \in Seq(Msgs)
  PROVE  /\ Ids(file) \subseteq 1 .. MaxLogged
         /\ \A x : x \in Ids(file) <=> \E k \in 1 .. Len(file) : x = file[k][1]
<1>1. DOMAIN file = 1 .. Len(file) /\ \A k \in 1 .. Len(file) : file[k] \in Msgs
  BY LenProperties, ElementOfSeq
<1>2. \A m \in Msgs : m[1] \in 1 .. MaxLogged
  BY DEF Msgs
<1>3. \A x : x \in Ids(file) <=> \E k \in 1 .. Len(file) : x = file[k][1]
  BY <1>1 DEF Ids, Range
<1> QED
  BY <1>1, <1>2, <1>3

\* A file that may go, does.
LEMMA RemovedFile ==
  ASSUME NEW i \in 0 .. MaxFiles, NEW n \in Int, FilesOK(disk, n), disk' = Without(i), NEW gone_,
         i = MaxFiles \/ i \notin DOMAIN disk
  PROVE  /\ Moved(disk, disk', Same) /\ Gone(disk', disk, gone_)
         /\ DOMAIN disk' \subseteq 0 .. MaxFiles
<1>1. /\ DOMAIN disk' = DOMAIN disk \ {i} /\ \A j \in DOMAIN disk' : disk'[j] = disk[j]
  BY DEF Without
<1>2. Placed(disk)
  BY DEF FilesOK
<1>3. \A j \in DOMAIN disk' :
        /\ j \in 0 .. MaxFiles /\ j \in DOMAIN disk /\ j # i /\ Same[j] = j /\ disk'[j] = disk[j]
        /\ disk'[j] \in Seq(Msgs) /\ Len(disk'[j]) \in Nat
  BY <1>1, <1>2, LenProperties DEF Placed, Same
<1>4. Moved(disk, disk', Same)
  BY <1>3 DEF Moved, Agree
<1>5. LosesAtMost(disk, disk', Same, i)
  BY <1>1, <1>3 DEF LosesAtMost
<1>6. DOMAIN disk' \subseteq 0 .. MaxFiles
  BY <1>3
<1> QED
  BY <1>4, <1>5, <1>6, OldestGoes

\* File 0 is created, or cut after its first messages.
CutTo(d, e, file) ==
  /\ DOMAIN e = DOMAIN d \cup {0} /\ e[0] = file /\ \A i \in DOMAIN d \ {0} : e[i] = d[i]
  /\ file \in Seq(Msgs)
  /\ Len(file) # 0 => 0 \in DOMAIN d /\ Len(file) <= Len(d[0]) /\ Agree(file, d[0], Len(file))

LEMMA CutFile ==
  ASSUME NEW file, Placed(disk), CutTo(disk, disk', file)
  PROVE  Moved(disk, disk', Same) /\ Placed(disk')
<1>1. MaxFiles \in Nat
  BY RotatingFileAssumption DEF RotatingFileAssumption
<1>2. ASSUME NEW i \in DOMAIN disk'
      PROVE  /\ disk'[i] \in Seq(Msgs) /\ Len(disk'[i]) \in Nat /\ Same[i] = i /\ i \in 0 .. MaxFiles
             /\ Len(disk'[i]) # 0 => /\ i \in DOMAIN disk /\ Len(disk'[i]) <= Len(disk[i])
                                     /\ Agree(disk'[i], disk[i], Len(disk'[i]))
  <2>1. CASE i = 0
    <3>1. disk'[i] = file /\ file \in Seq(Msgs) /\ Len(file) \in Nat
      BY <2>1, LenProperties DEF CutTo
    <3> QED
      BY <1>1, <2>1, <3>1 DEF CutTo, Same
  <2>2. CASE i # 0
    <3>1. i \in DOMAIN disk /\ disk'[i] = disk[i]
      BY <2>2 DEF CutTo
    <3>2. disk[i] \in Seq(Msgs) /\ Len(disk[i]) \in Nat /\ i \in 0 .. MaxFiles
      BY <3>1, LenProperties DEF Placed
    <3> QED
      BY <3>1, <3>2 DEF Same, Agree
  <2> QED
    BY <2>1, <2>2
<1>3. Moved(disk, disk', Same)
  BY <1>2 DEF Moved
<1> QED
  BY <1>2, <1>3 DEF Placed

LEMMA CutAway ==
  ASSUME NEW file, NEW gone_, Placed(disk), CutTo(disk, disk', file),
         0 \in DOMAIN disk => Ids(disk[0]) \subseteq Ids(file) \cup gone_
  PROVE  Gone(disk', disk, gone_)
<1>1. Placed(disk')
  BY CutFile
<1> SUFFICES ASSUME NEW x \in IdsOf(disk), x \notin gone_
             PROVE  x \in IdsOf(disk')
  BY DEF Gone
<1>2. PICK i \in DOMAIN disk : \E k \in 1 .. Len(disk[i]) : x = disk[i][k][1]
  BY IdFacts
<1>3. CASE i = 0
  <2>1. x \in Ids(disk[0])
    BY <1>2, <1>3, IdFacts
  <2>2. x \in Ids(file) /\ 0 \in DOMAIN disk' /\ disk'[0] = file
    BY <1>3, <2>1 DEF CutTo
  <2> QED
    BY <2>2 DEF IdsOf
<1>4. CASE i # 0
  <2>1. i \in DOMAIN disk' /\ disk'[i] = disk[i]
    BY <1>4 DEF CutTo
  <2> QED
    BY <1>1, <1>2, <2>1, IdFacts
<1> QED
  BY <1>3, <1>4

LEMMA ShiftFileKept ==
  ASSUME RotInv, ShiftFile
  PROVE  RotInv'
<1> DEFINE p == [i \in 0 .. MaxFiles |-> IF i = index THEN index - 1 ELSE i]
<1>1. /\ sink = "rotating" /\ index > 0 /\ index' = index - 1
      /\ UNCHANGED <<flushed, fd, current, sink, item, logged, lost, faults>>
  BY DEF ShiftFile
<1>2. /\ index \in 0 .. MaxFiles /\ MaxFiles \in Nat /\ index - 1 \in 0 .. MaxFiles /\ Placed(disk)
      /\ Newest \in Int /\ FilesOK(disk, Newest)
      /\ index = MaxFiles \/ index \notin DOMAIN disk
  <2>1. index \in 0 .. MaxFiles /\ MaxFiles \in Nat
    BY RotFacts
  <2>2. index < MaxFiles => index \notin DOMAIN disk
    BY <1>1 DEF RotInv, SinkSteady
  <2> QED
    BY <1>1, <2>1, <2>2, RotFacts DEF RotInv
<1>3. /\ UNCHANGED <<item, logged>> /\ lost \subseteq lost' /\ Held \subseteq lost' \cup Held'
      /\ 1 .. logged' \subseteq 1 .. logged \cup Held' /\ Newest' \in Int /\ Newest <= Newest'
  BY <1>1, <1>2 DEF Held, Newest
<1>4. FilesOK(disk', Newest') /\ AllThere' /\ Placed(disk') /\ index - 1 \notin DOMAIN disk'
      /\ (fd' => 0 \in DOMAIN disk')
  <2>0. ~ fd'
    BY <1>1 DEF RotInv, SinkSteady
  <2>1. CASE index - 1 \notin DOMAIN disk
    <3>1. disk' = disk
      BY <2>1 DEF ShiftFile
    <3> QED
      BY <1>2, <1>3, <2>0, <2>1, <3>1, FilesStay
  <2>2. CASE index - 1 \in DOMAIN disk
    <3>1. /\ DOMAIN disk' = (DOMAIN disk \cup {index}) \ {index - 1}
          /\ disk'[index] = disk[index - 1]
          /\ \A j \in DOMAIN disk' : j # index => j \in DOMAIN disk /\ disk'[j] = disk[j]
      <4>1. disk' = [j \in (DOMAIN disk \cup {index}) \ {index - 1} |->
                       IF j = index THEN disk[index - 1] ELSE disk[j]]
        BY <2>2 DEF ShiftFile
      <4>2. index \in (DOMAIN disk \cup {index}) \ {index - 1}
        BY <1>2
      <4> QED
        BY <4>1, <4>2
    <3>2. ASSUME NEW j \in DOMAIN disk'
          PROVE  /\ j \in 0 .. MaxFiles /\ j # index - 1 /\ p[j] = (IF j = index THEN index - 1 ELSE j)
                 /\ p[j] \in DOMAIN disk /\ disk'[j] = disk[p[j]]
                 /\ disk'[j] \in Seq(Msgs) /\ Len(disk'[j]) \in Nat
      <4>1. j \in 0 .. MaxFiles
        BY <1>2, <3>1 DEF Placed
      <4>2. p[j] = (IF j = index THEN index - 1 ELSE j)
        BY <4>1
      <4> HIDE DEF p
      <4>3. p[j] \in DOMAIN disk /\ disk'[j] = disk[p[j]]
        BY <2>2, <3>1, <4>2
      <4>4. disk[p[j]] \in Seq(Msgs) /\ Len(disk[p[j]]) \in Nat
        BY <1>2, <4>3, LenProperties DEF Placed
      <4> QED
        BY <3>1, <4>1, <4>2, <4>3, <4>4
    <3> HIDE DEF p
    <3>3. Moved(disk, disk', p)
      <4>1. ASSUME NEW i \in DOMAIN disk', NEW j \in DOMAIN disk', i > j
            PROVE  p[i] > p[j]
        <5>1. i \in Int /\ j \in Int /\ index \in Int
          BY <1>2, <3>2
        <5> QED
          BY <3>2, <4>1, <5>1
      <4> QED
        BY <3>2, <4>1 DEF Moved, Agree
    <3>4. LosesAtMost(disk, disk', p, index)
      <4>1. ASSUME NEW j \in DOMAIN disk \ {index}
            PROVE  \E k \in DOMAIN disk' : disk'[k] = disk[j]
        <5>1. CASE j = index - 1
          <6>1. index \in DOMAIN disk'
            BY <1>2, <3>1
          <6> QED
            BY <3>1, <5>1, <6>1
        <5>2. CASE j # index - 1
          <6>1. j \in DOMAIN disk' /\ j # index
            BY <3>1, <5>2
          <6> QED
            BY <3>1, <6>1
        <5> QED
          BY <5>1, <5>2
      <4>2. \A k \in DOMAIN disk' : p[k] # index
        BY <1>2, <3>2
      <4> QED
        BY <4>1, <4>2 DEF LosesAtMost
    <3>5. DOMAIN disk' \subseteq 0 .. MaxFiles
      BY <3>2
    <3>6. Gone(disk', disk, lost')
      BY <1>2, <3>3, <3>4, <3>5, OldestGoes
    <3> QED
      BY <1>3, <2>0, <3>1, <3>3, <3>5, <3>6, FilesKept
  <2> QED
    BY <2>1, <2>2
<1> HIDE DEF p
<1>5. RotTypeOK'
  <2>1. DOMAIN disk' \subseteq 0 .. MaxFiles /\ \A i \in DOMAIN disk' : disk'[i] \in Seq(Msgs)
    BY <1>4 DEF Placed
  <2>2. index' \in 0 .. MaxFiles
    BY <1>1, <1>2
  <2> QED
    BY <1>1, <2>1, <2>2 DEF RotInv, RotTypeOK
<1>6. SinkSteady'
  BY <1>1, <1>4 DEF RotInv, SinkSteady
<1> QED
  BY <1>4, <1>5, <1>6 DEF RotInv

LEMMA ShiftFailsKept ==
  ASSUME RotInv, ShiftFails
  PROVE  RotInv'
<1>1. /\ sink = "rotating" /\ index > 0 /\ sink' = "abandoning" /\ faults' \in 0 .. MaxFaults
      /\ UNCHANGED <<flushed, fd, current, index, item, logged, lost>>
      /\ disk' = disk \/ disk' = Without(index)
  <2>1. faults \in 0 .. MaxFaults /\ faults < MaxFaults /\ faults' = faults + 1 /\ MaxFaults \in Nat
    BY RotFacts DEF ShiftFails, Fault, RotInv, RotTypeOK
  <2>2. faults' \in 0 .. MaxFaults
    BY <2>1
  <2> QED
    BY <2>2 DEF ShiftFails
<1>2. /\ index \in 0 .. MaxFiles /\ MaxFiles \in Nat /\ Newest \in Int /\ FilesOK(disk, Newest)
      /\ index = MaxFiles \/ index \notin DOMAIN disk
  <2>1. index \in 0 .. MaxFiles /\ MaxFiles \in Nat
    BY RotFacts
  <2>2. index < MaxFiles => index \notin DOMAIN disk
    BY <1>1 DEF RotInv, SinkSteady
  <2> QED
    BY <2>1, <2>2, RotFacts DEF RotInv
<1>3. /\ UNCHANGED <<item, logged>> /\ lost \subseteq lost' /\ Held \subseteq lost' \cup Held'
      /\ 1 .. logged' \subseteq 1 .. logged \cup Held' /\ Newest' \in Int /\ Newest <= Newest'
  BY <1>1, <1>2 DEF Held, Newest
<1>4. FilesOK(disk', Newest') /\ AllThere' /\ Placed(disk')
  <2>1. CASE disk' = disk
    <3>1. FilesOK(disk', Newest') /\ AllThere'
      BY <1>3, <2>1, FilesStay
    <3> QED
      BY <3>1 DEF FilesOK
  <2>2. CASE disk' = Without(index)
    <3>1. Moved(disk, disk', Same) /\ Gone(disk', disk, lost') /\ DOMAIN disk' \subseteq 0 .. MaxFiles
      BY <1>2, <2>2, RemovedFile
    <3> QED
      BY <1>3, <3>1, FilesKept
  <2> QED
    BY <1>1, <2>1, <2>2
<1>5. RotTypeOK'
  BY <1>1, <1>4 DEF RotInv, RotTypeOK, Placed
<1>6. SinkSteady'
  BY <1>1 DEF RotInv, SinkSteady
<1> QED
  BY <1>4, <1>5, <1>6 DEF RotInv

LEMMA TruncateFacts ==
  ASSUME RotInv, Truncate
  PROVE  /\ CutTo(disk, disk', << >>) /\ Moved(disk, disk', Same) /\ Placed(disk') /\ fd'
         /\ 0 \in DOMAIN disk' /\ Bytes(disk'[0]) = 0 /\ Len(disk'[0]) = 0 /\ flushed' = 0
<1>1. Placed(disk)
  BY RotFacts
<1>2. << >> \in Seq(Msgs) /\ Len(<< >>) = 0
  OBVIOUS
<1>3. /\ DOMAIN disk' = DOMAIN disk \cup {0} /\ disk'[0] = << >>
      /\ \A i \in DOMAIN disk \ {0} : disk'[i] = disk[i]
  BY DEF Truncate, With
<1>4. CutTo(disk, disk', << >>)
  BY <1>2, <1>3 DEF CutTo
<1>5. Bytes(<< >>) = 0
  BY <1>2, BytesAreNumbers
<1> QED
  BY <1>1, <1>2, <1>3, <1>4, <1>5, CutFile DEF Truncate

LEMMA ReopenKept ==
  ASSUME RotInv, Reopen
  PROVE  RotInv'
<1>1. /\ sink = "rotating" /\ index = 0
      /\ sink' = (IF item = << >> THEN "ready" ELSE "writing")
      /\ current' = (IF item = << >> THEN current ELSE item[2])
      /\ UNCHANGED <<index, item, logged, lost, faults>>
  BY DEF Reopen
<1>2. /\ CutTo(disk, disk', << >>) /\ Moved(disk, disk', Same) /\ Placed(disk') /\ fd'
      /\ 0 \in DOMAIN disk' /\ Bytes(disk'[0]) = 0 /\ Len(disk'[0]) = 0 /\ flushed' = 0
  BY TruncateFacts DEF Reopen
<1>3. /\ UNCHANGED <<item, logged>> /\ lost \subseteq lost' /\ Held \subseteq lost' \cup Held'
      /\ 1 .. logged' \subseteq 1 .. logged \cup Held' /\ Newest' \in Int /\ Newest <= Newest'
  BY <1>1, RotFacts DEF Held, Newest
<1>4. Gone(disk', disk, lost')
  <2>1. Placed(disk) /\ MaxFiles \in Nat
    BY RotFacts
  <2>2. CASE MaxFiles = 0
    <3>1. \A i \in DOMAIN disk' : i = 0
      BY <1>2, <2>2 DEF Placed
    <3>2. \A y : y \notin IdsOf(disk')
      BY <1>2, <3>1, IdFacts
    <3> QED
      BY <3>2 DEF Gone
  <2>3. CASE MaxFiles # 0
    <3>1. 0 \notin DOMAIN disk
      BY <1>1, <2>1, <2>3 DEF RotInv, SinkSteady
    <3> QED
      BY <1>2, <2>1, <3>1, CutAway
  <2> QED
    BY <2>2, <2>3
<1>5. FilesOK(disk', Newest') /\ AllThere'
  <2>1. DOMAIN disk' \subseteq 0 .. MaxFiles
    BY <1>2 DEF Placed
  <2> QED
    BY <1>2, <1>3, <1>4, <2>1, FilesKept
<1>6. item # << >> => item \in Msgs /\ item[2] \in Nat /\ item[1] = logged
  BY RotFacts
<1>7. RotTypeOK'
  <2>1. current' \in Nat /\ flushed' \in Nat /\ fd' \in BOOLEAN
    BY <1>1, <1>2, <1>6, RotFacts DEF Reopen, Truncate
  <2>2. sink' \in {"down", "ready", "rotating", "abandoning", "writing"}
    BY <1>1
  <2> QED
    BY <1>1, <1>2, <2>1, <2>2 DEF RotInv, RotTypeOK, Placed
<1>8. SinkSteady'
  <2>1. current \in Nat /\ Bytes(disk'[0]) = 0
    BY <1>2, RotFacts
  <2>2. CASE item = << >>
    BY <1>1, <1>2, <2>1, <2>2 DEF SinkSteady
  <2>3. CASE item # << >>
    <3>1. current' >= Bytes(disk'[0]) + item'[2]
      BY <1>1, <1>6, <2>1, <2>3
    <3> QED
      BY <1>1, <1>2, <1>6, <2>3, <3>1 DEF SinkSteady
  <2> QED
    BY <2>2, <2>3
<1> QED
  BY <1>5, <1>7, <1>8 DEF RotInv

\* A message that is given up is reported lost.
LEMMA GivenUp ==
  ASSUME RotInv, item' = << >>, logged' = logged, LoseItem \subseteq lost'
  PROVE  /\ lost \subseteq lost' /\ Held \subseteq lost' \cup Held'
         /\ 1 .. logged' \subseteq 1 .. logged \cup Held' /\ Newest' \in Int /\ Newest <= Newest'
         /\ LoseItem \subseteq 1 .. MaxLogged
<1>1. item # << >> => item[1] \in 1 .. MaxLogged
  BY RotFacts
<1>2. lost \subseteq 1 .. MaxLogged
  BY DEF RotInv, RotTypeOK
<1>3. LoseItem = lost \cup Held /\ Held \subseteq 1 .. MaxLogged
  BY <1>1 DEF LoseItem, Held
<1>4. Newest \in Int /\ logged \in Nat
  BY RotFacts
<1>5. Newest' = logged /\ Newest <= logged
  BY <1>4 DEF Newest
<1> QED
  BY <1>2, <1>3, <1>4, <1>5

LEMMA FaultKept ==
  ASSUME RotInv, Fault
  PROVE  faults' \in 0 .. MaxFaults
<1>1. faults \in 0 .. MaxFaults /\ faults < MaxFaults /\ faults' = faults + 1 /\ MaxFaults \in Nat
  BY RotFacts DEF Fault, RotInv, RotTypeOK
<1> QED
  BY <1>1

LEMMA AbandonKept ==
  ASSUME RotInv, Abandon
  PROVE  RotInv'
<1> DEFINE file == IF 0 \in DOMAIN disk THEN disk[0] ELSE << >>
<1>1. /\ sink = "abandoning" /\ current' = 0 /\ lost' = LoseItem \cup Ids(file)
      /\ sink' = (IF item = << >> THEN "down" ELSE "ready") /\ item' = << >>
      /\ UNCHANGED <<index, logged, faults>>
  BY DEF Abandon, Throw
<1>2. /\ CutTo(disk, disk', << >>) /\ Moved(disk, disk', Same) /\ Placed(disk') /\ fd'
      /\ 0 \in DOMAIN disk' /\ Bytes(disk'[0]) = 0 /\ Len(disk'[0]) = 0 /\ flushed' = 0
  BY TruncateFacts DEF Abandon
<1>3. Ids(file) \subseteq 1 .. MaxLogged
  <2>1. file \in Seq(Msgs)
    <3>1. << >> \in Seq(Msgs)
      OBVIOUS
    <3> QED
      BY <3>1, RotFacts
  <2> QED
    BY <2>1, IdsAreNumbers
<1>4. 0 \in DOMAIN disk => Ids(disk[0]) \subseteq lost'
  BY <1>1
<1> HIDE DEF file
<1>5. LoseItem \subseteq lost' /\ logged' = logged
  BY <1>1
<1>6. /\ lost \subseteq lost' /\ Held \subseteq lost' \cup Held'
      /\ 1 .. logged' \subseteq 1 .. logged \cup Held' /\ Newest' \in Int /\ Newest <= Newest'
      /\ lost' \subseteq 1 .. MaxLogged
  BY <1>1, <1>3, <1>5, GivenUp
<1>7. Gone(disk', disk, lost')
  BY <1>2, <1>4, CutAway, RotFacts
<1>8. FilesOK(disk', Newest') /\ AllThere'
  <2>1. DOMAIN disk' \subseteq 0 .. MaxFiles
    BY <1>2 DEF Placed
  <2> QED
    BY <1>2, <1>6, <1>7, <2>1, FilesKept
<1>9. RotTypeOK'
  <2>1. sink' \in {"down", "ready", "rotating", "abandoning", "writing"} /\ fd' \in BOOLEAN
        /\ flushed' \in Nat /\ current' \in Nat
    BY <1>1, <1>2 DEF Abandon, Truncate
  <2> QED
    BY <1>1, <1>2, <1>6, <2>1 DEF RotInv, RotTypeOK, Placed
<1>10. SinkSteady'
  BY <1>1, <1>2 DEF SinkSteady
<1> QED
  BY <1>8, <1>9, <1>10 DEF RotInv

LEMMA ReopenFailsKept ==
  ASSUME RotInv, ReopenFails
  PROVE  RotInv'
<1>1. /\ sink \in {"rotating", "abandoning"} /\ lost' = LoseItem /\ faults' \in 0 .. MaxFaults
      /\ sink' = (IF item = << >> THEN "down" ELSE "ready") /\ item' = << >>
      /\ UNCHANGED <<disk, flushed, fd, current, index, logged>>
  BY FaultKept DEF ReopenFails, Throw
<1>2. LoseItem \subseteq lost' /\ logged' = logged /\ UNCHANGED disk
  BY <1>1
<1>3. /\ lost \subseteq lost' /\ Held \subseteq lost' \cup Held'
      /\ 1 .. logged' \subseteq 1 .. logged \cup Held' /\ Newest' \in Int /\ Newest <= Newest'
      /\ lost' \subseteq 1 .. MaxLogged
  BY <1>1, <1>2, GivenUp
<1>4. FilesOK(disk', Newest') /\ AllThere'
  BY <1>2, <1>3, FilesStay
<1>5. RotTypeOK'
  <2>1. sink' \in {"down", "ready", "rotating", "abandoning", "writing"}
    BY <1>1
  <2> QED
    BY <1>1, <1>3, <2>1 DEF RotInv, RotTypeOK
<1>6. SinkSteady'
  BY <1>1 DEF RotInv, SinkSteady
<1> QED
  BY <1>4, <1>5, <1>6 DEF RotInv

LEMMA WriteFailsKept ==
  ASSUME RotInv, WriteFails
  PROVE  RotInv'
<1>1. /\ sink = "writing" /\ lost' = LoseItem /\ faults' \in 0 .. MaxFaults
      /\ item # << >> /\ fd /\ 0 \in DOMAIN disk /\ sink' = "ready" /\ item' = << >>
      /\ UNCHANGED <<disk, flushed, fd, current, index, logged>>
  BY FaultKept DEF WriteFails, Throw, RotInv, SinkSteady
<1>2. LoseItem \subseteq lost' /\ logged' = logged /\ UNCHANGED disk
  BY <1>1
<1>3. /\ lost \subseteq lost' /\ Held \subseteq lost' \cup Held'
      /\ 1 .. logged' \subseteq 1 .. logged \cup Held' /\ Newest' \in Int /\ Newest <= Newest'
      /\ lost' \subseteq 1 .. MaxLogged
  BY <1>1, <1>2, GivenUp
<1>4. FilesOK(disk', Newest') /\ AllThere'
  BY <1>2, <1>3, FilesStay
<1>5. RotTypeOK'
  <2>1. sink' \in {"down", "ready", "rotating", "abandoning", "writing"}
    BY <1>1
  <2> QED
    BY <1>1, <1>3, <2>1 DEF RotInv, RotTypeOK
<1>6. SinkSteady'
  <2>1. current >= Bytes(disk[0]) + item[2]
    BY <1>1 DEF RotInv, SinkSteady
  <2>2. current \in Nat /\ Bytes(disk[0]) \in Nat /\ item[2] \in Nat
    BY <1>1, RotFacts
  <2>3. current >= Bytes(disk[0])
    BY <2>1, <2>2
  <2> QED
    BY <1>1, <2>3 DEF SinkSteady
<1> QED
  BY <1>4, <1>5, <1>6 DEF RotInv

LEMMA FlushFileKept ==
  ASSUME RotInv, FlushFile
  PROVE  RotInv'
<1>1. /\ sink = "ready" /\ fd /\ 0 \in DOMAIN disk /\ flushed' = Len(disk[0])
      /\ UNCHANGED <<disk, fd, current, sink, index, item, logged, lost, faults>>
  BY DEF FlushFile, RotInv, SinkSteady
<1>2. flushed' \in Nat
  BY <1>1, RotFacts
<1>3. RotTypeOK'
  BY <1>1, <1>2 DEF RotInv, RotTypeOK
<1>4. FilesOK(disk', Newest') /\ AllThere' /\ SinkSteady'
  BY <1>1 DEF RotInv, SinkSteady, AllThere, Held, Newest
<1> QED
  BY <1>3, <1>4 DEF RotInv

LEMMA WriteItemKept ==
  ASSUME RotInv, WriteItem
  PROVE  RotInv'
<1> DEFINE file == disk[0]
           more == Append(disk[0], item)
<1>1. /\ sink = "writing" /\ sink' = "ready" /\ item' = << >> /\ item # << >> /\ fd
      /\ UNCHANGED <<flushed, fd, current, index, logged, lost, faults>>
      /\ disk' = With(0, more) /\ 0 \in DOMAIN disk
      /\ current >= Bytes(file) + item[2] /\ (current <= MaxSize \/ Len(file) = 0)
  BY DEF WriteItem, RotInv, SinkSteady
<1>2. /\ item \in Msgs /\ item[1] = logged /\ item[2] \in Nat /\ logged \in Nat /\ current \in Nat
      /\ file \in Seq(Msgs) /\ Len(file) \in Nat /\ Bytes(file) \in Nat /\ MaxSize \in Nat
      /\ MaxFiles \in Nat /\ Placed(disk)
  BY <1>1, RotFacts
<1>3. /\ more \in Seq(Msgs) /\ Len(more) = Len(file) + 1 /\ more[Len(file) + 1] = item
      /\ \A k \in 1 .. Len(file) : more[k] = file[k]
  BY <1>2, AppendProperties
<1>4. Bytes(more) = Bytes(file) + item[2]
  BY <1>2, BytesOfMore
<1>5. /\ DOMAIN disk' = DOMAIN disk /\ disk'[0] = more
      /\ \A i \in DOMAIN disk : i # 0 => disk'[i] = disk[i]
  BY <1>1 DEF With
<1> HIDE DEF more
<1>6. /\ \A i \in DOMAIN disk : i \in 0 .. MaxFiles /\ disk[i] \in Seq(Msgs) /\ Len(disk[i]) \in Nat
      /\ Newest = logged - 1 /\ Newest' = logged
  BY <1>1, <1>2, LenProperties DEF Placed, Newest
<1>7. /\ InOrder(disk) /\ Sized(disk) /\ \A i \in DOMAIN disk : \A k \in 1 .. Len(disk[i]) :
                             disk[i][k][1] <= logged - 1 /\ disk[i][k][1] \in Int
  <2>1. FilesOK(disk, Newest)
    BY DEF RotInv
  <2>2. \A i \in DOMAIN disk : \A k \in 1 .. Len(disk[i]) : disk[i][k] \in Msgs
    BY <1>6, ElementOfSeq
  <2>3. \A m \in Msgs : m[1] \in Int
    BY DEF Msgs
  <2> QED
    BY <1>6, <2>1, <2>2, <2>3 DEF FilesOK, UpTo
\* Where a message of disk' lies.
<1>8. ASSUME NEW i \in DOMAIN disk', NEW k \in 1 .. Len(disk'[i])
      PROVE  \/ i = 0 /\ k = Len(file) + 1 /\ disk'[i][k][1] = logged
             \/ /\ k \in 1 .. Len(disk[i]) /\ disk'[i][k] = disk[i][k]
                /\ disk'[i][k][1] <= logged - 1 /\ disk'[i][k][1] \in Int
  <2>1. CASE i # 0
    <3>1. disk'[i] = disk[i] /\ i \in DOMAIN disk
      BY <1>5, <2>1
    <3> QED
      BY <1>7, <3>1
  <2>2. CASE i = 0
    <3>1. disk'[i] = more /\ k \in 1 .. Len(file) + 1
      BY <1>3, <1>5, <2>2
    <3>2. CASE k = Len(file) + 1
      BY <1>2, <1>3, <2>2, <3>1, <3>2
    <3>3. CASE k # Len(file) + 1
      <4>1. k \in 1 .. Len(file) /\ more[k] = file[k]
        BY <1>2, <1>3, <3>1, <3>3
      <4> QED
        BY <1>1, <1>7, <2>2, <3>1, <4>1
    <3> QED
      BY <3>2, <3>3
  <2> QED
    BY <2>1, <2>2
<1>9. Placed(disk')
  BY <1>3, <1>5, <1>6 DEF Placed
<1>10. InOrder(disk')
  <2>1. ASSUME NEW i \in DOMAIN disk', NEW j \in 1 .. Len(disk'[i]), NEW k \in 1 .. Len(disk'[i]), j < k
        PROVE  disk'[i][j][1] < disk'[i][k][1]
    <3>1. CASE k \in 1 .. Len(disk[i]) /\ disk'[i][k] = disk[i][k]
      <4>1. Len(disk[i]) \in Nat /\ i \in DOMAIN disk
        BY <1>5, <1>6
      <4>2. j \in 1 .. Len(disk[i])
        BY <2>1, <3>1, <4>1
      <4>3. disk'[i][j] = disk[i][j]
        <5>1. CASE i # 0
          BY <1>5, <4>1, <5>1
        <5>2. CASE i = 0
          BY <1>3, <1>5, <4>2, <5>2
        <5> QED
          BY <5>1, <5>2
      <4>4. disk[i][j][1] < disk[i][k][1]
        BY <1>7, <2>1, <3>1, <4>1, <4>2 DEF InOrder
      <4> QED
        BY <3>1, <4>3, <4>4
    <3>2. CASE i = 0 /\ k = Len(file) + 1 /\ disk'[i][k][1] = logged
      <4>1. j # Len(file) + 1
        BY <1>2, <2>1, <3>2
      <4>2. disk'[i][j][1] <= logged - 1 /\ disk'[i][j][1] \in Int
        BY <1>8, <4>1
      <4> QED
        BY <1>2, <3>2, <4>2
    <3> QED
      BY <1>8, <3>1, <3>2
  <2>2. ASSUME NEW i \in DOMAIN disk', NEW j \in DOMAIN disk', i > j,
               NEW k \in 1 .. Len(disk'[i]), NEW l \in 1 .. Len(disk'[j])
        PROVE  disk'[i][k][1] < disk'[j][l][1]
    <3>1. /\ i # 0 /\ k \in 1 .. Len(disk[i]) /\ disk'[i][k] = disk[i][k]
          /\ disk'[i][k][1] <= logged - 1 /\ disk'[i][k][1] \in Int /\ i \in DOMAIN disk
          /\ j \in DOMAIN disk
      <4>1. i \in 0 .. MaxFiles /\ j \in 0 .. MaxFiles
        BY <1>5, <1>6
      <4>2. i # 0
        BY <2>2, <4>1
      <4> QED
        BY <1>5, <1>8, <4>2
    <3>2. CASE l \in 1 .. Len(disk[j]) /\ disk'[j][l] = disk[j][l]
      <4>1. disk[i][k][1] < disk[j][l][1]
        BY <1>7, <2>2, <3>1, <3>2 DEF InOrder
      <4> QED
        BY <3>1, <3>2, <4>1
    <3>3. CASE disk'[j][l][1] = logged
      BY <1>2, <3>1, <3>3
    <3> QED
      BY <1>8, <3>2, <3>3
  <2> QED
    BY <2>1, <2>2 DEF InOrder
<1>11. Sized(disk')
  <2> SUFFICES ASSUME NEW i \in DOMAIN disk'
               PROVE  Bytes(disk'[i]) <= MaxSize \/ Len(disk'[i]) = 1
    BY DEF Sized
  <2>1. CASE i # 0
    BY <1>5, <1>7, <2>1 DEF Sized
  <2>2. CASE i = 0
    <3>1. disk'[i] = more
      BY <1>5, <2>2
    <3> HIDE DEF file
    <3>2. Bytes(more) <= MaxSize \/ Len(more) = 1
      BY <1>1, <1>2, <1>3, <1>4
    <3> QED
      BY <3>1, <3>2
  <2> QED
    BY <2>1, <2>2
<1>12. UpTo(disk', Newest')
  <2>1. ASSUME NEW i \in DOMAIN disk', NEW k \in 1 .. Len(disk'[i])
        PROVE  disk'[i][k][1] <= logged
    BY <1>2, <1>8
  <2> QED
    BY <1>6, <2>1 DEF UpTo
<1>13. AllThere'
  <2>1. \A x : x \in IdsOf(disk') <=> x \in IdsOf(disk) \/ x = logged
    <3>1. ASSUME NEW x \in IdsOf(disk')
          PROVE  x \in IdsOf(disk) \/ x = logged
      <4>1. PICK i \in DOMAIN disk' : \E k \in 1 .. Len(disk'[i]) : x = disk'[i][k][1]
        BY <1>9, IdFacts
      <4>2. PICK k \in 1 .. Len(disk'[i]) : x = disk'[i][k][1]
        BY <4>1
      <4>3. CASE k \in 1 .. Len(disk[i]) /\ disk'[i][k] = disk[i][k]
        BY <1>2, <1>5, <4>2, <4>3, IdFacts
      <4>4. CASE disk'[i][k][1] = logged
        BY <4>2, <4>4
      <4> QED
        BY <1>8, <4>3, <4>4
    <3>2. ASSUME NEW x \in IdsOf(disk)
          PROVE  x \in IdsOf(disk')
      <4>1. PICK i \in DOMAIN disk : \E k \in 1 .. Len(disk[i]) : x = disk[i][k][1]
        BY <1>2, IdFacts
      <4>2. PICK k \in 1 .. Len(disk[i]) : x = disk[i][k][1]
        BY <4>1
      <4>3. k \in 1 .. Len(disk'[i]) /\ disk'[i][k] = disk[i][k]
        <5>1. CASE i # 0
          BY <1>5, <4>2, <5>1
        <5>2. CASE i = 0
          BY <1>2, <1>3, <1>5, <4>2, <5>2
        <5> QED
          BY <5>1, <5>2
      <4> QED
        BY <1>5, <1>9, <4>2, <4>3, IdFacts
    <3>3. logged \in IdsOf(disk')
      <4>1. 0 \in DOMAIN disk' /\ Len(file) + 1 \in 1 .. Len(disk'[0])
            /\ logged = disk'[0][Len(file) + 1][1]
        BY <1>1, <1>2, <1>3, <1>5
      <4> QED
        BY <1>9, <4>1, IdFacts
    <3> QED
      BY <3>1, <3>2, <3>3
  <2>2. Held = {logged}
    BY <1>1, <1>2 DEF Held
  <2> SUFFICES ASSUME NEW id \in 1 .. logged, id \notin IdsOf(disk'), id \notin lost
               PROVE  \A other \in IdsOf(disk') : id < other
    BY <1>1 DEF AllThere
  <2>3. id # logged /\ id \notin IdsOf(disk)
    BY <2>1
  <2>4. \A other \in IdsOf(disk) : id < other
    BY <2>2, <2>3 DEF RotInv, AllThere
  <2>5. id < logged
    BY <1>2, <2>3
  <2> QED
    BY <2>1, <2>4, <2>5
<1>14. RotTypeOK'
  BY <1>1, <1>9 DEF RotInv, RotTypeOK, Placed
<1>15. SinkSteady'
  <2>1. current >= Bytes(more)
    BY <1>1, <1>4
  <2> QED
    BY <1>1, <1>5, <2>1 DEF SinkSteady
<1> QED
  BY <1>9, <1>10, <1>11, <1>12, <1>13, <1>14, <1>15 DEF RotInv, FilesOK

LEMMA KillSinkKept ==
  ASSUME RotInv, KillSink
  PROVE  RotInv'
<1>1. /\ sink # "down" /\ faults' \in 0 .. MaxFaults /\ sink' = "down" /\ fd' = FALSE
      /\ item' = << >> /\ UNCHANGED <<flushed, current, index, logged>>
  BY FaultKept DEF KillSink
<1>2. /\ Placed(disk) /\ Newest \in Int /\ FilesOK(disk, Newest) /\ MaxFiles \in Nat
      /\ index \in 0 .. MaxFiles /\ flushed \in Nat
  BY RotFacts DEF RotInv, RotTypeOK
<1>3. LoseItem \subseteq 1 .. MaxLogged
  <2>1. item # << >> => item[1] \in 1 .. MaxLogged
    BY RotFacts
  <2>2. lost \subseteq 1 .. MaxLogged
    BY DEF RotInv, RotTypeOK
  <2> QED
    BY <2>1, <2>2 DEF LoseItem
<1>4. \E p : /\ Moved(disk, disk', p) /\ Gone(disk', disk, lost') /\ DOMAIN disk' \subseteq 0 .. MaxFiles
             /\ LoseItem \subseteq lost' /\ lost' \subseteq 1 .. MaxLogged
  <2>1. ASSUME fd, NEW n \in flushed .. Len(disk[0]), disk' = With(0, SubSeq(disk[0], 1, n)),
               lost' = LoseItem \cup Ids(SubSeq(disk[0], n + 1, Len(disk[0])))
        PROVE  /\ Moved(disk, disk', Same) /\ Gone(disk', disk, lost') /\ DOMAIN disk' \subseteq 0 .. MaxFiles
               /\ LoseItem \subseteq lost' /\ lost' \subseteq 1 .. MaxLogged
    <3> DEFINE file == disk[0]
               kept == SubSeq(file, 1, n)
               rest == SubSeq(file, n + 1, Len(file))
    <3>1. 0 \in DOMAIN disk /\ file \in Seq(Msgs) /\ Len(file) \in Nat /\ n \in Nat /\ n <= Len(file)
      <4>1. 0 \in DOMAIN disk
        BY <2>1 DEF RotInv, SinkSteady
      <4>2. disk[0] \in Seq(Msgs) /\ Len(disk[0]) \in Nat
        BY <4>1, RotFacts
      <4> QED
        BY <1>2, <4>1, <4>2
    <3>2. /\ DOMAIN disk' = DOMAIN disk \cup {0} /\ disk'[0] = kept
          /\ \A i \in DOMAIN disk \ {0} : disk'[i] = disk[i]
      BY <2>1 DEF With
    <3>3. lost' = LoseItem \cup Ids(rest)
      BY <2>1
    <3> HIDE DEF file, kept, rest
    <3>4. /\ kept \in Seq(Msgs) /\ Len(kept) = n /\ \A k \in 1 .. n : kept[k] = file[k]
      <4>1. \A k \in 1 .. n : file[k] \in Msgs
        BY <3>1, ElementOfSeq
      <4>2. kept = [k \in 1 .. n |-> file[k]]
        BY <3>1, SubSeqProperties DEF kept
      <4> QED
        BY <3>1, <4>1, <4>2
    <3>5. /\ rest \in Seq(Msgs) /\ Len(rest) = Len(file) - n
          /\ \A k \in 1 .. Len(file) - n : rest[k] = file[n + k]
      <4>1. \A k \in 1 .. Len(file) : file[k] \in Msgs
        BY <3>1, ElementOfSeq
      <4>2. rest = [k \in 1 .. Len(file) - n |-> file[n + k]]
        <5>1. Len(rest) = Len(file) - n /\ \A k \in 1 .. Len(rest) : rest[k] = file[n + k]
          BY <3>1 DEF rest
        <5>2. rest = [k \in 1 .. Len(rest) |-> rest[k]]
          BY <3>1, LenProperties DEF rest
        <5> QED
          BY <5>1, <5>2
      <4>3. \A k \in 1 .. Len(file) - n : n + k \in 1 .. Len(file)
        BY <3>1
      <4> QED
        BY <3>1, <4>1, <4>2, <4>3
    <3>6. CutTo(disk, disk', kept)
      BY <3>1, <3>2, <3>4 DEF CutTo, Agree, file
    <3>7. Ids(disk[0]) \subseteq Ids(kept) \cup lost'
      <4> SUFFICES ASSUME NEW x \in Ids(file), x \notin Ids(kept)
                   PROVE  x \in Ids(rest)
        BY <3>3 DEF file
      <4>1. PICK k \in 1 .. Len(file) : x = file[k][1]
        BY <3>1, IdsAreNumbers
      <4>2. k > n
        <5> SUFFICES ASSUME ~ (k > n)
                     PROVE  FALSE
          OBVIOUS
        <5>1. k \in 1 .. Len(kept) /\ x = kept[k][1]
          BY <3>1, <3>4, <4>1
        <5> QED
          BY <3>4, <5>1, IdsAreNumbers
      <4>3. k - n \in 1 .. Len(file) - n /\ n + (k - n) = k
        BY <3>1, <4>2
      <4>4. k - n \in 1 .. Len(rest) /\ x = rest[k - n][1]
        BY <3>5, <4>1, <4>3
      <4> QED
        BY <3>5, <4>4, IdsAreNumbers
    <3>8. Moved(disk, disk', Same) /\ Placed(disk') /\ Gone(disk', disk, lost')
      BY <1>2, <3>6, <3>7, CutFile, CutAway
    <3>9. Ids(rest) \subseteq 1 .. MaxLogged
      BY <3>5, IdsAreNumbers
    <3> QED
      BY <1>3, <3>3, <3>8, <3>9 DEF Placed
  <2>2. CASE lost' = LoseItem /\ disk' = disk
    <3>1. Moved(disk, disk', Same) /\ Gone(disk', disk, lost')
      BY <1>2, <2>2, NothingMoves
    <3> QED
      BY <1>2, <1>3, <2>2, <3>1 DEF Placed
  <2>3. ASSUME lost' = LoseItem, disk' = Without(index), sink = "rotating"
        PROVE  /\ Moved(disk, disk', Same) /\ Gone(disk', disk, lost') /\ DOMAIN disk' \subseteq 0 .. MaxFiles
               /\ LoseItem \subseteq lost' /\ lost' \subseteq 1 .. MaxLogged
    <3>1. index = MaxFiles \/ index \notin DOMAIN disk
      BY <1>2, <2>3 DEF RotInv, SinkSteady
    <3>2. Moved(disk, disk', Same) /\ Gone(disk', disk, lost') /\ DOMAIN disk' \subseteq 0 .. MaxFiles
      BY <1>2, <2>3, <3>1, RemovedFile
    <3> QED
      BY <1>3, <2>3, <3>2
  <2> QED
    BY <2>1, <2>2, <2>3 DEF KillSink
<1>5. PICK p : /\ Moved(disk, disk', p) /\ Gone(disk', disk, lost') /\ DOMAIN disk' \subseteq 0 .. MaxFiles
               /\ LoseItem \subseteq lost' /\ lost' \subseteq 1 .. MaxLogged
  BY <1>4
<1>6. /\ lost \subseteq lost' /\ Held \subseteq lost' \cup Held'
      /\ 1 .. logged' \subseteq 1 .. logged \cup Held' /\ Newest' \in Int /\ Newest <= Newest'
  BY <1>1, <1>5, GivenUp
<1>7. FilesOK(disk', Newest') /\ AllThere' /\ Placed(disk')
  BY <1>5, <1>6, FilesKept
<1>8. RotTypeOK'
  <2>1. sink' \in {"down", "ready", "rotating", "abandoning", "writing"}
    BY <1>1
  <2> QED
    BY <1>1, <1>5, <1>7, <2>1 DEF RotInv, RotTypeOK, Placed
<1>9. SinkSteady'
  BY <1>1 DEF SinkSteady
<1> QED
  BY <1>7, <1>8, <1>9 DEF RotInv

LEMMA RotStart == RotInit => RotInv
<1> SUFFICES ASSUME RotInit
             PROVE  RotInv
  OBVIOUS
<1>1. DOMAIN disk = {} /\ \A x : x \notin IdsOf(disk)
  BY DEF RotInit, IdsOf
<1>2. FilesOK(disk, Newest)
  BY <1>1 DEF FilesOK, Placed, InOrder, Sized, UpTo
<1>3. RotTypeOK
  <2>1. MaxFiles \in Nat /\ MaxLogged \in Nat /\ MaxFaults \in Nat
    BY RotatingFileAssumption DEF RotatingFileAssumption
  <2>2. /\ index \in 0 .. MaxFiles /\ logged \in 0 .. MaxLogged /\ faults \in 0 .. MaxFaults
        /\ lost \subseteq 1 .. MaxLogged
    BY <2>1 DEF RotInit
  <2>3. DOMAIN disk \subseteq 0 .. MaxFiles /\ \A i \in DOMAIN disk : disk[i] \in Seq(Msgs)
    BY <1>1
  <2>4. flushed \in Nat /\ fd \in BOOLEAN /\ current \in Nat /\ item \in Msgs \cup {<< >>}
    BY DEF RotInit
  <2>5. sink \in {"down", "ready", "rotating", "abandoning", "writing"}
    BY DEF RotInit
  <2> QED
    BY <2>2, <2>3, <2>4, <2>5 DEF RotTypeOK
<1>4. AllThere /\ SinkSteady
  BY <1>1 DEF RotInit, AllThere, SinkSteady
<1> QED
  BY <1>2, <1>3, <1>4 DEF RotInv

LEMMA RotStays ==
  ASSUME RotInv, UNCHANGED rotVars
  PROVE  RotInv'
  BY DEF RotInv, RotTypeOK, AllThere, SinkSteady, Held, Newest, rotVars

\* Whatever fails, is cut short or killed in a rotation, a reopening or a write, the files
\* hold the messages in their order, and what is missing was reported lost or was older
\* than all that is left; no file outgrows its size, but by a single message, and none is
\* written to that could not be opened (sinks/rotating_file_sink-inl.h).
THEOREM RotationsDropTheOldest == RotSpec => [](RotTypeOK /\ OldestGoFirst /\ SizeLimited)
<1>1. RotInv /\ [RotNext]_rotVars => RotInv'
  BY OpenSinkKept, LogMessageKept, ShiftFileKept, ShiftFailsKept, ReopenKept, AbandonKept,
     ReopenFailsKept, WriteItemKept, WriteFailsKept, FlushFileKept, KillSinkKept, RotStays
  DEF RotNext
<1>2. ASSUME RotInv
      PROVE  OldestGoFirst
  <2>1. OnDisk = IdsOf(disk) /\ Placed(disk) /\ InOrder(disk) /\ AllThere
    BY <1>2, RotFacts DEF OnDisk, IdsOf, RotInv, FilesOK
  <2>2. ASSUME NEW i \in DOMAIN disk, NEW j \in DOMAIN disk, i > j,
               NEW older \in Ids(disk[i]), NEW newer \in Ids(disk[j])
        PROVE  older < newer
    <3>1. disk[i] \in Seq(Msgs) /\ disk[j] \in Seq(Msgs)
      BY <2>1 DEF Placed
    <3>2. PICK k \in 1 .. Len(disk[i]) : older = disk[i][k][1]
      BY <3>1, IdsAreNumbers
    <3>3. PICK l \in 1 .. Len(disk[j]) : newer = disk[j][l][1]
      BY <3>1, IdsAreNumbers
    <3> QED
      BY <2>1, <2>2, <3>2, <3>3 DEF InOrder
  <2> QED
    BY <2>1, <2>2 DEF OldestGoFirst, InOrder, AllThere, Held
<1>3. ASSUME RotInv
      PROVE  SizeLimited
  <2>1. ASSUME sink = "writing"
        PROVE  fd /\ current >= Bytes(Append(disk[0], item))
    <3>1. /\ fd /\ 0 \in DOMAIN disk /\ item # << >> /\ current >= Bytes(disk[0]) + item[2]
      BY <1>3, <2>1 DEF RotInv, SinkSteady
    <3>2. disk[0] \in Seq(Msgs) /\ item \in Msgs
      BY <1>3, <3>1, RotFacts
    <3> QED
      BY <3>1, <3>2, BytesOfMore
  <2> QED
    BY <1>3, <2>1 DEF SizeLimited, RotInv, FilesOK, Sized
<1>4. RotInv => RotTypeOK /\ OldestGoFirst /\ SizeLimited
  BY <1>2, <1>3 DEF RotInv
<1> QED
  BY <1>1, <1>4, RotStart, PTL DEF RotSpec

-----------------------------------------------------------------------------
(* Side by side.                                                           *)

LEMMA PartsApart ==
  ASSUME [LoggingNext]_<<part, loggingVars>>
  PROVE  /\ [RotNext]_rotVars /\ [DailyNext]_dailyVars /\ [DupNext]_dupVars
         /\ [LoggerNext]_loggerVars /\ [RegistryNext]_registryVars
<1>1. CASE LoggingNext
  <2>1. /\ UNCHANGED rotVars \/ part = "rotating"
        /\ UNCHANGED dailyVars \/ part = "daily"
        /\ UNCHANGED dupVars \/ part = "filter"
        /\ UNCHANGED loggerVars \/ part = "logger"
        /\ UNCHANGED registryVars \/ part = "registry"
    BY <1>1 DEF LoggingNext
  <2>2. \/ part = "rotating" /\ RotNext
        \/ part = "daily" /\ DailyNext
        \/ part = "filter" /\ DupNext
        \/ part = "logger" /\ LoggerNext
        \/ part = "registry" /\ RegistryNext
    BY <1>1 DEF LoggingNext
  <2> QED
    BY <2>1, <2>2
<1>2. CASE UNCHANGED <<part, loggingVars>>
  BY <1>2 DEF loggingVars
<1> QED
  BY <1>1, <1>2

\* A behaviour of the module that runs the parts side by side is one of each of them.
THEOREM EachPartByItself ==
  LoggingSpec => RotSpec /\ DailySpec /\ DupSpec /\ LoggerSpec /\ RegistrySpec
<1>1. LoggingInit => RotInit /\ DailyInit /\ DupInit /\ LoggerInit /\ RegistryInit
  BY DEF LoggingInit
<1> QED
  BY <1>1, PartsApart, PTL DEF LoggingSpec, RotSpec, DailySpec, DupSpec, LoggerSpec, RegistrySpec

\* What the two file sinks leave on disk is what they promise, side by side too.
THEOREM FilesAreSound == LoggingSpec => []FilesSound
<1>1. /\ RotTypeOK /\ OldestGoFirst /\ SizeLimited
      /\ DailyTypeOK /\ DaysKept /\ NullNeedsDisorder
      => FilesSound
  BY DEF FilesSound
<1> QED
  BY <1>1, EachPartByItself, RotationsDropTheOldest, DaysAreKept, PTL

\* So is what loggers and the duplicate filter owe their sinks.
THEOREM SinksAreSound == LoggingSpec => []SinksSound
<1>1. /\ LoggerTypeOK /\ SinksServed /\ FlushedAfter /\ ErrorsCounted
      /\ DupTypeOK /\ SkippedForAnEqual /\ SkipsReported
      => SinksSound
  BY DEF SinksSound
<1> QED
  BY <1>1, EachPartByItself, SinksAreServed, SkipsAreTold, PTL

\* And the registry's word.
THEOREM RegistryIsSound == LoggingSpec => []RegistrySound
  BY EachPartByItself, RegistryKeepsItsWord, PTL
=============================================================================
