-------------------------- MODULE UserQuery_proofs --------------------------
(***************************************************************************)
(* Proofs about the user query, for any number of requests and users and   *)
(* any sharing of the Lua globals.                                         *)
(*                                                                         *)
(* QueryInv is one induction.  There is a lemma for each of its parts, with*)
(* a step for every action that can disturb it; that nothing a request has *)
(* done is ever undone (Onward) is used in all of them.                    *)
(***************************************************************************)
EXTENDS UserQuery, FiniteSetTheorems, TLAPS

Change ==
  \/ \E r \in Requests : Step(r) \/ CallFails(r) \/ Killed(r)
  \/ \E u \in Users : Expires(u)

-----------------------------------------------------------------------------
(* Commands to redis.                                                      *)

\* What a command may change: the asker's hash, if anything, and the link, which
\* does not come back; and if the hash is not what it should be, redis is lost.
Commanded(r, h) ==
  /\ cache' \in [Users -> Hashes]
  /\ link' \in [Requests -> BOOLEAN]
  /\ \A u \in Users : cache'[u] = cache[u] \/ (u = asks[r] /\ cache'[u] = h)
  /\ cache'[asks[r]] = h \/ ~link'[r]
  /\ \A q \in Requests : ~link[q] => ~link'[q]

\* A command either has its effect or loses redis.
LEMMA CommandEffect ==
  ASSUME TypeOK, NEW r \in Requests, NEW h \in Hashes, asks[r] \in Users, Command(r, h)
  PROVE  Commanded(r, h)
<1>1. cache \in [Users -> Hashes] /\ link \in [Requests -> BOOLEAN]
  BY DEF TypeOK
<1>2. link' = link \/ link' = [link EXCEPT ![r] = FALSE]
  BY DEF Command
<1>3. cache' = cache \/ cache' = [cache EXCEPT ![asks[r]] = h]
  BY DEF Command
<1>4. link' = [link EXCEPT ![r] = FALSE] \/ cache' = [cache EXCEPT ![asks[r]] = h]
  BY DEF Command
<1>5. cache' \in [Users -> Hashes] /\ link' \in [Requests -> BOOLEAN]
  BY <1>1, <1>2, <1>3
<1>6. \A u \in Users : cache'[u] = cache[u] \/ (u = asks[r] /\ cache'[u] = h)
  BY <1>1, <1>3
<1>7. cache'[asks[r]] = h \/ ~link'[r]
  BY <1>1, <1>4
<1>8. \A q \in Requests : ~link[q] => ~link'[q]
  BY <1>1, <1>2
<1> QED
  BY <1>5, <1>6, <1>7, <1>8 DEF Commanded

\* The hash that hmset makes: it keeps its places and its time to live.
Written(r, made, n) ==
  [made |-> IF Absent(Hash(r)) THEN made ELSE Hash(r).made,
   times |-> n, ttl |-> Hash(r).ttl]
\* The hash that expire makes: it keeps its fields.
Expiring(r) == IF Absent(Hash(r)) THEN NoHash ELSE [Hash(r) EXCEPT !.ttl = TRUE]

LEMMA HmsetEffect ==
  ASSUME TypeOK, NEW r \in Requests, NEW made \in {"miss", "hit"}, NEW n \in Nat,
         asks[r] \in Users, Hmset(r, made, n)
  PROVE  Commanded(r, Written(r, made, n)) /\ Written(r, made, n) \in Hashes
<1>1. Hash(r) \in Hashes
  BY DEF TypeOK, Hash
<1>2. Written(r, made, n) \in Hashes
  BY <1>1 DEF Written, Hashes
<1>3. Command(r, Written(r, made, n))
  BY DEF Hmset, Written
<1> QED
  BY <1>2, <1>3, CommandEffect

LEMMA ExpireEffect ==
  ASSUME TypeOK, NEW r \in Requests, asks[r] \in Users, ExpireKey(r)
  PROVE  Commanded(r, Expiring(r)) /\ Expiring(r) \in Hashes
<1>1. Hash(r) \in Hashes
  BY DEF TypeOK, Hash
<1>2. Expiring(r) \in Hashes
  BY <1>1 DEF Expiring, NoHash, Hashes
<1>3. Command(r, Expiring(r))
  BY DEF ExpireKey, Expiring
<1> QED
  BY <1>2, <1>3, CommandEffect

-----------------------------------------------------------------------------
(* Types.                                                                  *)

\* A request that has started and not ended asks for a user.
LEMMA Asker ==
  ASSUME TypeOK, AsksInv, NEW r \in Requests, pc[r] \notin {"new", "failed", "killed"}
  PROVE  asks[r] \in Users
  BY DEF TypeOK, AsksInv

LEMMA StepTyping ==
  ASSUME TypeOK, AsksInv, KnownInv, NEW r \in Requests, Step(r)
  PROVE  TypeOK'
<1> USE UserQueryAssumption
<1>1. CASE Start(r)
  BY <1>1 DEF Start, Goes, TypeOK
<1>2. CASE Hit(r)
  <2>1. Hash(r).times \in Nat
    BY <1>2, Asker DEF Hit, Goes, TypeOK, Hash, Hashes
  <2> QED
    BY <1>2, <2>1 DEF Hit, Goes, TypeOK
<1>3. CASE Miss(r)
  BY <1>3 DEF Miss, Goes, TypeOK
<1>4. CASE Select(r)
  <2>1. (IF asks[r] \in Known THEN times[asks[r]] ELSE 0) \in Nat
    BY DEF TypeOK
  <2> QED
    BY <1>4, <2>1 DEF Select, Goes, TypeOK
<1>5. CASE Row(r)
  BY <1>5 DEF Row, Goes, Fails, Ended, TypeOK
<1>6. CASE Fill(r)
  <2>1. cache' \in [Users -> Hashes] /\ link' \in [Requests -> BOOLEAN]
    BY <1>6, Asker, HmsetEffect DEF Fill, Goes, TypeOK, Commanded
  <2> QED
    BY <1>6, <2>1 DEF Fill, Goes, TypeOK
<1>7. CASE FillTtl(r)
  <2>1. cache' \in [Users -> Hashes] /\ link' \in [Requests -> BOOLEAN]
    BY <1>7, Asker, ExpireEffect DEF FillTtl, Goes, Commanded
  <2> QED
    BY <1>7, <2>1 DEF FillTtl, Goes, TypeOK
<1>8. CASE Aim(r)
  <2>1. res[Env[r]] \in Known \cup {Nobody}
    BY DEF TypeOK
  <2> QED
    BY <1>8, <2>1 DEF Aim, Goes, Fails, Ended, TypeOK
<1>9. CASE Bump(r)
  <2>1. seen[r] + 1 \in Nat
    BY DEF TypeOK
  <2>2. cache' \in [Users -> Hashes] /\ link' \in [Requests -> BOOLEAN]
    BY <1>9, <2>1, Asker, HmsetEffect DEF Bump, Goes, Commanded
  <2> QED
    BY <1>9, <2>2 DEF Bump, Goes, TypeOK
<1>10. CASE BumpTtl(r)
  <2>1. cache' \in [Users -> Hashes] /\ link' \in [Requests -> BOOLEAN]
    BY <1>10, Asker, ExpireEffect DEF BumpTtl, Goes, Commanded
  <2> QED
    BY <1>10, <2>1 DEF BumpTtl, Goes, TypeOK
<1>11. CASE Reread(r)
  <2>1. (IF Hash(r).made = "miss" THEN asks[r] ELSE Nobody) \in Known \cup {Nobody}
    BY <1>11, Asker DEF Reread, Goes, Hash, KnownInv
  <2> QED
    BY <1>11, <2>1 DEF Reread, Goes, TypeOK
<1>12. CASE RereadNothing(r)
  BY <1>12 DEF RereadNothing, Goes, Fails, Ended, TypeOK
<1>13. CASE Update(r)
  <2>1. times' \in [Known -> Nat]
    BY <1>13 DEF Update, TypeOK
  <2> QED
    BY <1>13, <2>1 DEF Update, Goes, TypeOK
<1>14. CASE Reply(r)
  BY <1>14 DEF Reply, Goes, Fails, Ended, TypeOK
<1> QED
  BY <1>1, <1>2, <1>3, <1>4, <1>5, <1>6, <1>7, <1>8, <1>9, <1>10, <1>11, <1>12,
     <1>13, <1>14 DEF Step

LEMMA NextTyping ==
  ASSUME TypeOK, AsksInv, KnownInv, Change
  PROVE  TypeOK'
<1>1. CASE \E r \in Requests : Step(r)
  BY <1>1, StepTyping
<1>2. CASE \E r \in Requests : CallFails(r)
  BY <1>2, ZenonT(60) DEF CallFails, Goes, Fails, Ended, TypeOK
<1>3. CASE \E r \in Requests : Killed(r)
  BY <1>3 DEF Killed, Ended, TypeOK
<1>4. CASE \E u \in Users : Expires(u)
  BY <1>4 DEF Expires, TypeOK, NoHash, Hashes
<1> QED
  BY <1>1, <1>2, <1>3, <1>4 DEF Change

-----------------------------------------------------------------------------
(* What stays.                                                             *)

\* Nothing that has been settled or counted is taken back.
Onward ==
  /\ \A q \in Requests : asks[q] # Nobody => asks'[q] = asks[q]
  /\ \A q \in Requests : raised[q] # Nobody => raised'[q] = raised[q]
  /\ raced \subseteq raced' /\ raced' \subseteq Requests
  /\ \A q \in Requests : pc[q] \in PastBump => pc'[q] \in PastBump
  /\ \A q \in Requests : ~link[q] => ~link'[q]

LEMMA StepOnward ==
  ASSUME TypeOK, AsksInv, RaisedInv, NEW r \in Requests, Step(r)
  PROVE  Onward
<1> USE DEF TypeOK, Onward, PastBump, Ended, Goes
<1>1. CASE Start(r)
  BY <1>1 DEF Start, AsksInv
<1>2. CASE Hit(r) \/ Miss(r) \/ Select(r) \/ Row(r) \/ Aim(r) \/ Reread(r) \/ RereadNothing(r) \/ Reply(r)
  BY <1>2 DEF Hit, Miss, Select, Row, Aim, Reread, RereadNothing, Reply, Fails
<1>3. CASE Fill(r)
  BY <1>3, Asker, HmsetEffect DEF Fill, Commanded
<1>4. CASE FillTtl(r) \/ BumpTtl(r)
  BY <1>4, Asker, ExpireEffect DEF FillTtl, BumpTtl, Commanded
<1>5. CASE Bump(r)
  <2>1. seen[r] + 1 \in Nat
    OBVIOUS
  <2> QED
    BY <1>5, <2>1, Asker, HmsetEffect DEF Bump, Commanded
<1>6. CASE Update(r)
  <2>1. raised[r] = Nobody
    BY <1>6 DEF Update, RaisedInv
  <2> QED
    BY <1>6, <2>1 DEF Update
<1> QED
  BY <1>1, <1>2, <1>3, <1>4, <1>5, <1>6 DEF Step

LEMMA NextOnward ==
  ASSUME TypeOK, AsksInv, RaisedInv, Change
  PROVE  Onward
<1>1. CASE \E r \in Requests : Step(r)
  BY <1>1, StepOnward
<1>2. CASE \E r \in Requests : CallFails(r)
  BY <1>2 DEF CallFails, Goes, Fails, TypeOK, Onward, PastBump, Ended
<1>3. CASE \E r \in Requests : Killed(r)
  BY <1>3 DEF Killed, TypeOK, Onward, PastBump, Ended
<1>4. CASE \E u \in Users : Expires(u)
  BY <1>4 DEF Expires, TypeOK, Onward
<1> QED
  BY <1>1, <1>2, <1>3, <1>4 DEF Change

-----------------------------------------------------------------------------
(* Who asks, and for whom.                                                 *)

LEMMA NextAsks ==
  ASSUME TypeOK, AsksInv, Change
  PROVE  AsksInv'
<1> USE DEF TypeOK, AsksInv, Goes, Fails, Ended
<1>1. CASE \E r \in Requests : Start(r)
  BY <1>1, UserQueryAssumption DEF Start
<1>2. CASE \E r \in Requests : Step(r) /\ ~Start(r)
  <2> PICK r \in Requests : Step(r) /\ ~Start(r)
    BY <1>2
  <2>1. UNCHANGED asks /\ pc[r] # "new" /\ pc[r] \notin Ended
    BY DEF Step, Hit, Miss, Select, Row, Fill, FillTtl, Aim, Bump, BumpTtl, Reread,
           RereadNothing, Update, Reply
  <2>2. \E p \in {"lookup", "select", "row", "fill", "fillTtl", "aim", "bump", "bumpTtl",
                  "reread", "update", "reply", "done", "failed"} : pc' = [pc EXCEPT ![r] = p]
    BY DEF Step, Hit, Miss, Select, Row, Fill, FillTtl, Aim, Bump, BumpTtl, Reread,
           RereadNothing, Update, Reply
  <2> QED
    BY <2>1, <2>2
<1>3. CASE \E r \in Requests : CallFails(r)
  BY <1>3 DEF CallFails
<1>4. CASE \E r \in Requests : Killed(r)
  BY <1>4 DEF Killed
<1>5. CASE \E u \in Users : Expires(u)
  BY <1>5 DEF Expires
<1> QED
  BY <1>1, <1>2, <1>3, <1>4, <1>5 DEF Change

LEMMA NextRaised ==
  ASSUME TypeOK, AsksInv, RaisedInv, Change
  PROVE  RaisedInv'
<1> USE DEF TypeOK, AsksInv, RaisedInv, Goes, Fails, Ended
<1>1. CASE \E r \in Requests : Start(r)
  BY <1>1, UserQueryAssumption DEF Start
<1>2. CASE \E r \in Requests : Aim(r) \/ Reread(r)
  <2> PICK r \in Requests : Aim(r) \/ Reread(r)
    BY <1>2
  <2>1. pc'[r] \in {"update", "failed"} /\ raised[r] = Nobody /\ UNCHANGED <<raised, asks>>
    BY DEF Aim, Reread
  <2>2. \A q \in Requests : q # r => pc'[q] = pc[q] /\ target'[q] = target[q]
    BY DEF Aim, Reread
  <2> QED
    BY <2>1, <2>2
<1>3. CASE \E r \in Requests : Update(r)
  BY <1>3 DEF Update
<1>4. CASE \E r \in Requests : Step(r) /\ pc[r] \notin {"new", "aim", "reread", "update"}
  <2> PICK r \in Requests : Step(r) /\ pc[r] \notin {"new", "aim", "reread", "update"}
    BY <1>4
  <2>1. UNCHANGED <<asks, target, raised>>
    BY DEF Step, Start, Hit, Miss, Select, Row, Fill, FillTtl, Aim, Bump, BumpTtl,
           Reread, RereadNothing, Update, Reply
  <2>2. \/ pc[r] = "reply" /\ (pc' = [pc EXCEPT ![r] = "done"] \/ pc' = [pc EXCEPT ![r] = "failed"])
        \/ pc[r] \notin {"reply"} \cup Ended
           /\ \E p \in {"lookup", "select", "row", "fill", "fillTtl", "aim", "bump", "bumpTtl",
                        "reread", "update", "failed"} : pc' = [pc EXCEPT ![r] = p]
    BY DEF Step, Start, Hit, Miss, Select, Row, Fill, FillTtl, Aim, Bump, BumpTtl,
           Reread, RereadNothing, Update, Reply
  <2> QED
    BY <2>1, <2>2
<1>5. CASE \E r \in Requests : RereadNothing(r)
  BY <1>5 DEF RereadNothing
<1>6. CASE \E r \in Requests : CallFails(r)
  BY <1>6 DEF CallFails
<1>7. CASE \E r \in Requests : Killed(r)
  BY <1>7 DEF Killed
<1>8. CASE \E u \in Users : Expires(u)
  BY <1>8 DEF Expires
<1>9. ASSUME NEW r \in Requests, Step(r), ~Start(r), ~Aim(r), ~Reread(r), ~Update(r), ~RereadNothing(r)
      PROVE  pc[r] \notin {"new", "aim", "reread", "update"}
  BY <1>9 DEF Step, Hit, Miss, Select, Row, Fill, FillTtl, Bump, BumpTtl, Reply
<1> QED
  BY <1>1, <1>2, <1>3, <1>4, <1>5, <1>6, <1>7, <1>8, <1>9 DEF Change

\* What a step can make of a hash: leave it, drop it, or write it for its asker.
LEMMA HashChanges ==
  ASSUME TypeOK, AsksInv, Change, NEW u \in Users
  PROVE  \/ cache'[u] = cache[u]
         \/ cache'[u] = NoHash
         \/ \E r \in Requests :
              /\ asks[r] = u
              /\ \/ Fill(r) /\ cache'[u] = Written(r, "miss", seen[r])
                 \/ Bump(r) /\ cache'[u] = Written(r, "hit", seen[r] + 1)
                 \/ (FillTtl(r) \/ BumpTtl(r)) /\ cache'[u] = Expiring(r)
<1>1. CASE \E v \in Users : Expires(v)
  BY <1>1 DEF Expires, TypeOK
<1>2. CASE \E r \in Requests : Fill(r)
  <2> PICK r \in Requests : Fill(r)
    BY <1>2
  <2>1. asks[r] \in Users /\ seen[r] \in Nat
    BY Asker DEF Fill, Goes, TypeOK
  <2>2. Commanded(r, Written(r, "miss", seen[r]))
    BY <2>1, HmsetEffect DEF Fill
  <2>3. cache'[u] = cache[u] \/ (u = asks[r] /\ cache'[u] = Written(r, "miss", seen[r]))
    BY <2>2 DEF Commanded
  <2> QED
    BY <2>3
<1>3. CASE \E r \in Requests : Bump(r)
  <2> PICK r \in Requests : Bump(r)
    BY <1>3
  <2>1. asks[r] \in Users /\ seen[r] + 1 \in Nat
    BY Asker DEF Bump, Goes, TypeOK
  <2>2. Commanded(r, Written(r, "hit", seen[r] + 1))
    BY <2>1, HmsetEffect DEF Bump
  <2>3. cache'[u] = cache[u] \/ (u = asks[r] /\ cache'[u] = Written(r, "hit", seen[r] + 1))
    BY <2>2 DEF Commanded
  <2> QED
    BY <2>3
<1>4. CASE \E r \in Requests : FillTtl(r) \/ BumpTtl(r)
  <2> PICK r \in Requests : FillTtl(r) \/ BumpTtl(r)
    BY <1>4
  <2>1. asks[r] \in Users /\ ExpireKey(r)
    BY Asker DEF FillTtl, BumpTtl, Goes
  <2>2. Commanded(r, Expiring(r))
    BY <2>1, ExpireEffect
  <2>3. cache'[u] = cache[u] \/ (u = asks[r] /\ cache'[u] = Expiring(r))
    BY <2>2 DEF Commanded
  <2> QED
    BY <2>3
<1>5. CASE UNCHANGED cache
  BY <1>5
<1> QED
  BY <1>1, <1>2, <1>3, <1>4, <1>5
     DEF Change, Step, CallFails, Killed, Start, Hit, Miss, Select, Row, Aim, Reread,
         RereadNothing, Update, Reply

LEMMA NextKnown ==
  ASSUME TypeOK, AsksInv, KnownInv, RaisedInv, Change
  PROVE  KnownInv'
<1>1. ASSUME NEW r \in Requests, pc'[r] = "fill" PROVE asks'[r] \in Known
  <2>1. CASE pc[r] = "fill"
    <3>1. asks[r] \in Known /\ asks[r] # Nobody
      BY <2>1 DEF KnownInv, AsksInv
    <3> QED
      BY <3>1, NextOnward DEF Onward
  <2>2. CASE pc[r] # "fill"
    <3>1. Row(r) /\ asks[r] \in Known
      BY <1>1, <2>2
         DEF TypeOK, Change, Step, CallFails, Killed, Expires, Start, Hit, Miss, Select, Row,
             Fill, FillTtl, Aim, Bump, BumpTtl, Reread, RereadNothing, Update, Reply,
             Goes, Fails
    <3> QED
      BY <3>1 DEF Row
  <2> QED
    BY <2>1, <2>2
<1>2. ASSUME NEW u \in Users, cache'[u].made = "miss" PROVE u \in Known
  <2>1. CASE cache'[u] = cache[u]
    BY <1>2, <2>1 DEF KnownInv
  <2>2. CASE cache'[u] = NoHash
    BY <1>2, <2>2 DEF NoHash
  <2>3. ASSUME NEW r \in Requests, asks[r] = u, Fill(r)
        PROVE  u \in Known
    BY <2>3 DEF Fill, Goes, KnownInv
  <2>4. ASSUME NEW r \in Requests, asks[r] = u, cache'[u] = Written(r, "hit", seen[r] + 1)
        PROVE  u \in Known
    BY <1>2, <2>4 DEF Written, Hash, KnownInv
  <2>5. ASSUME NEW r \in Requests, asks[r] = u, cache'[u] = Expiring(r)
        PROVE  u \in Known
    BY <1>2, <2>5 DEF Expiring, Hash, KnownInv, NoHash, TypeOK, Hashes
  <2> QED
    BY <2>1, <2>2, <2>3, <2>4, <2>5, HashChanges
<1> QED
  BY <1>1, <1>2 DEF KnownInv

LEMMA NextNamed ==
  ASSUME TypeOK, AsksInv, RaisedInv, NamedInv, Change
  PROVE  NamedInv'
<1> USE NextOnward
<1>1. ASSUME NEW e \in Envs, res'[e] # Nobody
      PROVE  \E q \in Requests : Env[q] = e /\ asks'[q] = res'[e]
  <2>1. CASE res'[e] = res[e]
    BY <1>1, <2>1 DEF NamedInv, Onward
  <2>2. CASE res'[e] # res[e]
    <3>1. PICK r \in Requests : Row(r) /\ Env[r] = e /\ res'[e] = asks[r]
      BY <1>1, <2>2, UserQueryAssumption
         DEF TypeOK, Change, Step, CallFails, Killed, Expires, Start, Hit, Miss, Select, Row,
             Fill, FillTtl, Aim, Bump, BumpTtl, Reread, RereadNothing, Update, Reply
    <3> QED
      BY <1>1, <3>1 DEF Row
  <2> QED
    BY <2>1, <2>2
<1>2. ASSUME NEW r \in Requests, target'[r] # Nobody
      PROVE  \E q \in Requests : Env[q] = Env[r] /\ asks'[q] = target'[r]
  <2>1. CASE target'[r] = target[r]
    BY <1>2, <2>1 DEF NamedInv, Onward
  <2>2. CASE target'[r] # target[r]
    <3>1. Aim(r) \/ Reread(r)
      BY <2>2
         DEF TypeOK, Change, Step, CallFails, Killed, Expires, Start, Hit, Miss, Select, Row,
             Fill, FillTtl, Aim, Bump, BumpTtl, Reread, RereadNothing, Update, Reply
    <3>2. target'[r] = res[Env[r]] \/ target'[r] = asks[r]
      BY <1>2, <3>1 DEF TypeOK, Aim, Reread
    <3>3. UNCHANGED asks /\ Env[r] \in Envs
      BY <3>1, UserQueryAssumption DEF Aim, Reread
    <3> QED
      BY <1>2, <3>2, <3>3 DEF NamedInv
  <2> QED
    BY <2>1, <2>2
<1> QED
  BY <1>1, <1>2 DEF NamedInv

LEMMA NextRaises ==
  ASSUME TypeOK, AsksInv, RaisedInv, NamedInv, RaisesItsUser, Change
  PROVE  RaisesItsUser'
<1> USE NextOnward
<1> SUFFICES ASSUME NEW r \in Requests, raised'[r] # Nobody
             PROVE  \E q \in Requests : Env[q] = Env[r] /\ asks'[q] = raised'[r]
  BY DEF RaisesItsUser
<1>1. CASE raised'[r] = raised[r]
  BY <1>1 DEF RaisesItsUser, Onward
<1>2. CASE raised'[r] # raised[r]
  <2>1. Update(r)
    BY <1>2
       DEF TypeOK, Change, Step, CallFails, Killed, Expires, Start, Hit, Miss, Select, Row,
           Fill, FillTtl, Aim, Bump, BumpTtl, Reread, RereadNothing, Update, Reply
  <2> QED
    BY <2>1 DEF Update, NamedInv, TypeOK
<1> QED
  BY <1>1, <1>2

-----------------------------------------------------------------------------
(* The time to live.                                                       *)

\* A request that is to give a key its time to live gives it, loses redis, or is
\* killed.
LEMMA OweStays ==
  ASSUME TypeOK, AsksInv, RaisedInv, Change, NEW r \in Requests, asks[r] # Nobody,
         pc[r] \in {"fillTtl", "bumpTtl", "killed"} \/ ~link[r]
  PROVE  \/ pc'[r] \in {"fillTtl", "bumpTtl", "killed"}
         \/ ~link'[r]
         \/ cache'[asks[r]] = Expiring(r)
<1>1. CASE ~link[r]
  BY <1>1, NextOnward DEF Onward
<1>2. CASE FillTtl(r) \/ BumpTtl(r)
  <2>1. asks[r] \in Users /\ ExpireKey(r)
    BY <1>2, Asker DEF FillTtl, BumpTtl, Goes
  <2> QED
    BY <2>1, ExpireEffect DEF Commanded
<1>3. CASE pc[r] \in {"fillTtl", "bumpTtl", "killed"} /\ ~FillTtl(r) /\ ~BumpTtl(r)
  BY <1>3
     DEF TypeOK, Change, Step, CallFails, Killed, Expires, Start, Hit, Miss, Select, Row,
         Fill, FillTtl, Aim, Bump, BumpTtl, Reread, RereadNothing, Update, Reply,
         Goes, Fails, Ended
<1> QED
  BY <1>1, <1>2, <1>3

\* expire leaves no hash without a time to live.
LEMMA ExpiringExpires ==
  ASSUME TypeOK, NEW r \in Requests, asks[r] \in Users
  PROVE  Absent(Expiring(r)) \/ Expiring(r).ttl
  BY DEF Expiring, Absent, NoHash, Hash, TypeOK, Hashes

LEMMA NextExpires ==
  ASSUME TypeOK, AsksInv, RaisedInv, EntryExpires, Change
  PROVE  EntryExpires'
<1> SUFFICES ASSUME NEW u \in Users, ~Absent(cache'[u]), ~cache'[u].ttl
             PROVE  \E r \in Requests :
                      /\ asks'[r] = u
                      /\ pc'[r] \in {"fillTtl", "bumpTtl", "killed"} \/ ~link'[r]
  BY DEF EntryExpires, Absent
<1> u # Nobody
  BY UserQueryAssumption
<1>1. CASE cache'[u] = cache[u]
  <2>1. PICK r \in Requests :
          /\ asks[r] = u
          /\ pc[r] \in {"fillTtl", "bumpTtl", "killed"} \/ ~link[r]
    BY <1>1 DEF EntryExpires
  <2>2. cache'[u] # Expiring(r)
    BY <2>1, ExpiringExpires
  <2>3. asks'[r] = u
    BY <2>1, NextOnward DEF Onward
  <2> QED
    BY <2>1, <2>2, <2>3, OweStays
<1>2. CASE cache'[u] = NoHash
  BY <1>2 DEF Absent, NoHash
<1>3. ASSUME NEW r \in Requests, asks[r] = u, Fill(r) \/ Bump(r)
      PROVE  asks'[r] = u /\ pc'[r] \in {"fillTtl", "bumpTtl"}
  BY <1>3 DEF Fill, Bump, Goes, TypeOK
<1>4. ASSUME NEW r \in Requests, asks[r] = u, cache'[u] = Expiring(r)
      PROVE  FALSE
  BY <1>4, ExpiringExpires
<1> QED
  BY <1>1, <1>2, <1>3, <1>4, HashChanges

-----------------------------------------------------------------------------
(* Updates that raise nobody's count.                                      *)

LEMMA NextUnnamed ==
  ASSUME TypeOK, AsksInv, RaisedInv, UnnamedInv, Change
  PROVE  UnnamedInv'
<1>1. ASSUME NEW v \in Users, NEW q \in raced, asks[q] = v
      PROVE  q \in raced' /\ asks'[q] = v
  BY <1>1, NextOnward, UserQueryAssumption DEF Onward, TypeOK
<1>2. ASSUME NEW u \in Users, cache'[u].made = "hit"
      PROVE  \E q \in raced' : asks'[q] = u
  <2>1. CASE cache[u].made = "hit"
    BY <1>1, <2>1 DEF UnnamedInv
  <2>2. CASE cache[u].made # "hit"
    <3>1. ASSUME NEW r \in Requests, asks[r] = u, Bump(r),
                 cache'[u] = Written(r, "hit", seen[r] + 1)
          PROVE  r \in raced' /\ asks'[r] = u
      BY <1>2, <2>2, <3>1 DEF Bump, Written, Hash
    <3>2. ASSUME NEW r \in Requests, asks[r] = u, cache'[u] = Written(r, "miss", seen[r])
          PROVE  FALSE
      BY <1>2, <2>2, <3>2 DEF Written, Hash
    <3>3. ASSUME NEW r \in Requests, asks[r] = u, cache'[u] = Expiring(r)
          PROVE  FALSE
      BY <1>2, <2>2, <3>3 DEF Expiring, Hash, NoHash, TypeOK, Hashes
    <3>4. cache'[u] # NoHash
      BY <1>2 DEF NoHash
    <3> QED
      BY <1>2, <2>2, <3>1, <3>2, <3>3, <3>4, HashChanges
  <2> QED
    BY <2>1, <2>2
<1>3. ASSUME NEW r \in Requests, pc'[r] \in {"update", "reply", "done"}, target'[r] = Nobody
      PROVE  \E q \in raced' : asks'[q] = asks'[r]
  <2>1. CASE Aim(r)
    BY <1>3, <2>1 DEF Aim, Goes, Fails, TypeOK
  <2>2. CASE Reread(r)
    <3>1. asks[r] \in Users /\ asks'[r] = asks[r]
      BY <2>2, Asker DEF Reread, Goes
    <3>2. cache[asks[r]].made = "hit"
      BY <1>3, <2>2, <3>1, UserQueryAssumption
         DEF Reread, Hash, Absent, TypeOK, Hashes
    <3> QED
      BY <1>1, <3>1, <3>2 DEF UnnamedInv
  <2>3. CASE ~Aim(r) /\ ~Reread(r)
    <3>1. pc[r] \in {"update", "reply", "done"} /\ target[r] = Nobody
      BY <1>3, <2>3
         DEF TypeOK, Change, Step, CallFails, Killed, Expires, Start, Hit, Miss, Select, Row,
             Fill, FillTtl, Aim, Bump, BumpTtl, Reread, RereadNothing, Update, Reply,
             Goes, Fails
    <3>2. asks[r] \in Users /\ asks'[r] = asks[r]
      BY <3>1, Asker, NextOnward, UserQueryAssumption DEF Onward
    <3> QED
      BY <1>1, <3>1, <3>2 DEF UnnamedInv
  <2> QED
    BY <2>1, <2>2, <2>3
<1> QED
  BY <1>2, <1>3 DEF UnnamedInv

-----------------------------------------------------------------------------
(* The counts.                                                             *)

LEMMA Finite ==
  ASSUME NEW u
  PROVE  /\ IsFiniteSet(Raisers(u)) /\ IsFiniteSet(Charged(u))
         /\ Cardinality(Raisers(u)) \in Nat /\ Cardinality(Charged(u)) \in Nat
         /\ Cardinality(Raisers(u)) =< Cardinality(Charged(u))
<1>1. Charged(u) \subseteq Requests /\ Raisers(u) \subseteq Charged(u)
  BY DEF Charged, Raisers
<1>2. IsFiniteSet(Charged(u))
  BY <1>1, FS_Subset, UserQueryAssumption
<1> QED
  BY <1>1, <1>2, FS_Subset, FS_CardinalityType

\* Who has been charged stays charged.
LEMMA ChargedGrows ==
  ASSUME TypeOK, AsksInv, RaisedInv, Change, NEW u \in Users
  PROVE  /\ Charged(u) \subseteq Charged(u)'
         /\ IsFiniteSet(Charged(u)')
         /\ Cardinality(Charged(u)') \in Nat
         /\ Cardinality(Charged(u)) =< Cardinality(Charged(u)')
<1>1. Charged(u) \subseteq Charged(u)'
  BY NextOnward, UserQueryAssumption DEF Onward, Charged, Raisers
<1>2. IsFiniteSet(Charged(u)')
  <2>1. Charged(u)' \subseteq Requests
    BY DEF Charged, Raisers
  <2> QED
    BY <2>1, FS_Subset, UserQueryAssumption
<1> QED
  BY <1>1, <1>2, FS_Subset, FS_CardinalityType

\* An update adds its request to those that have raised the count.
LEMMA NextTimes ==
  ASSUME TypeOK, AsksInv, RaisedInv, CountInv, Change, NEW u \in Known
  PROVE  times'[u] = Cardinality(Raisers(u)')
<1> u # Nobody /\ times[u] = Cardinality(Raisers(u))
  BY UserQueryAssumption DEF CountInv
<1>1. CASE \E r \in Requests : Update(r) /\ target[r] = u
  <2> PICK r \in Requests : Update(r) /\ target[r] = u
    BY <1>1
  <2>1. raised[r] = Nobody
    BY DEF Update, Goes, RaisedInv, Ended
  <2>2. Raisers(u)' = Raisers(u) \cup {r} /\ r \notin Raisers(u)
    BY <2>1 DEF Update, Raisers, TypeOK
  <2>3. Cardinality(Raisers(u)') = Cardinality(Raisers(u)) + 1
    BY <2>2, Finite, FS_AddElement, ZenonT(60)
  <2>4. times'[u] = times[u] + 1
    BY DEF Update, TypeOK
  <2> QED
    BY <2>3, <2>4
<1>2. CASE \E r \in Requests : Update(r) /\ target[r] # u
  <2> PICK r \in Requests : Update(r) /\ target[r] # u
    BY <1>2
  <2>1. raised[r] = Nobody
    BY DEF Update, Goes, RaisedInv, Ended
  <2>2. Raisers(u)' = Raisers(u)
    BY <2>1 DEF Update, Raisers, TypeOK
  <2>3. times'[u] = times[u]
    BY DEF Update, TypeOK
  <2> QED
    BY <2>2, <2>3
<1>3. CASE UNCHANGED <<raised, times>>
  BY <1>3 DEF Raisers
<1> QED
  BY <1>1, <1>2, <1>3
     DEF Change, Step, CallFails, Killed, Expires, Start, Hit, Miss, Select, Row, Fill,
         FillTtl, Aim, Bump, BumpTtl, Reread, RereadNothing, Reply

\* What is written to redis is covered: by those charged when it was read, and,
\* for a hit, by the request itself, which is charged by this very step.
LEMMA NextCached ==
  ASSUME TypeOK, AsksInv, RaisedInv, CountInv, Change, NEW u \in Users
  PROVE  cache'[u].times =< Cardinality(Charged(u)')
<1> /\ cache[u].times \in Nat /\ cache[u].times =< Cardinality(Charged(u))
    /\ Cardinality(Charged(u)) \in Nat
  BY Finite DEF CountInv, TypeOK, Hashes
<1>1. CASE cache'[u].times = cache[u].times
  BY <1>1, ChargedGrows
<1>2. CASE cache'[u].times = 0
  BY <1>2, ChargedGrows
<1>3. ASSUME NEW r \in Requests, asks[r] = u, Fill(r), cache'[u] = Written(r, "miss", seen[r])
      PROVE  cache'[u].times =< Cardinality(Charged(u)')
  <2>1. cache'[u].times = seen[r] /\ seen[r] \in Nat /\ seen[r] =< Cardinality(Charged(u))
    BY <1>3 DEF Fill, Goes, Written, CountInv, TypeOK
  <2> QED
    BY <2>1, ChargedGrows
<1>4. ASSUME NEW r \in Requests, asks[r] = u, Bump(r),
             cache'[u] = Written(r, "hit", seen[r] + 1)
      PROVE  cache'[u].times =< Cardinality(Charged(u)')
  <2>1. cache'[u].times = seen[r] + 1 /\ seen[r] \in Nat /\ seen[r] =< Cardinality(Charged(u))
    BY <1>4 DEF Bump, Goes, Written, CountInv, TypeOK
  <2>2. r \notin Charged(u)
    BY <1>4, UserQueryAssumption DEF Bump, Goes, Charged, Raisers, RaisedInv, PastBump, Ended
  <2>3. r \in Charged(u)'
    BY <1>4 DEF Bump, Goes, Charged, PastBump, TypeOK
  <2>4. Cardinality(Charged(u) \cup {r}) = Cardinality(Charged(u)) + 1
    BY <2>2, Finite, FS_AddElement
  <2>5. Cardinality(Charged(u) \cup {r}) =< Cardinality(Charged(u)')
    BY <2>3, ChargedGrows, FS_Subset
  <2> QED
    BY <2>1, <2>4, <2>5, ChargedGrows
<1>5. ASSUME NEW r \in Requests, asks[r] = u, cache'[u] = Expiring(r)
      PROVE  cache'[u].times = cache[u].times \/ cache'[u].times = 0
  BY <1>5 DEF Expiring, NoHash, Hash, TypeOK, Hashes
<1>6. NoHash.times = 0
  BY DEF NoHash
<1> QED
  BY <1>1, <1>2, <1>3, <1>4, <1>5, <1>6, HashChanges

\* What is read is covered: the count in MySQL by those that have raised it, the
\* one in redis by those charged.
LEMMA NextSeen ==
  ASSUME TypeOK, AsksInv, RaisedInv, CountInv, Change, NEW r \in Requests,
         pc'[r] \in {"row", "fill", "bump"}, NEW u \in Users, asks'[r] = u
  PROVE  seen'[r] =< Cardinality(Charged(u)')
<1>1. CASE Select(r)
  <2>1. asks[r] = u
    BY <1>1 DEF Select
  <2>2. CASE u \in Known
    <3>1. seen'[r] = Cardinality(Raisers(u))
      BY <1>1, <2>1, <2>2 DEF Select, CountInv, TypeOK
    <3> QED
      BY <3>1, Finite, ChargedGrows
  <2>3. CASE u \notin Known
    <3>1. seen'[r] = 0
      BY <1>1, <2>1, <2>3 DEF Select, TypeOK
    <3> QED
      BY <3>1, ChargedGrows
  <2> QED
    BY <2>2, <2>3
<1>2. CASE Hit(r)
  <2>1. asks[r] = u
    BY <1>2 DEF Hit
  <2>2. seen'[r] = cache[u].times /\ seen'[r] \in Nat
    BY <1>2, <2>1 DEF Hit, Hash, TypeOK, Hashes
  <2>3. seen'[r] =< Cardinality(Charged(u))
    BY <2>2 DEF CountInv
  <2> QED
    BY <2>2, <2>3, Finite, ChargedGrows
<1>3. CASE ~Select(r) /\ ~Hit(r)
  <2>1. pc[r] \in {"row", "fill", "bump"} /\ seen'[r] = seen[r] /\ seen[r] \in Nat
    BY <1>3
       DEF TypeOK, Change, Step, CallFails, Killed, Expires, Start, Hit, Miss, Select, Row,
           Fill, FillTtl, Aim, Bump, BumpTtl, Reread, RereadNothing, Update, Reply,
           Goes, Fails
  <2>2. asks[r] = u
    BY <2>1, Asker, NextOnward, UserQueryAssumption DEF Onward
  <2>3. seen[r] =< Cardinality(Charged(u))
    BY <2>1, <2>2 DEF CountInv
  <2> QED
    BY <2>1, <2>3, Finite, ChargedGrows
<1> QED
  BY <1>1, <1>2, <1>3

LEMMA NextCount ==
  ASSUME TypeOK, AsksInv, KnownInv, RaisedInv, CountInv, Change
  PROVE  CountInv'
<1>1. \A u \in Known : times'[u] = Cardinality(Raisers(u)')
  BY NextTimes
<1>2. \A u \in Users : cache'[u].times =< Cardinality(Charged(u)')
  BY NextCached
<1>3. ASSUME NEW r \in Requests, pc'[r] \in {"row", "fill", "bump"}
      PROVE  seen'[r] =< Cardinality(Charged(asks[r]))'
  <2>1. asks'[r] \in Users
    BY <1>3, NextTyping, NextAsks DEF TypeOK, AsksInv
  <2>2. PICK u \in Users : asks'[r] = u
    BY <2>1
  <2>3. Charged(asks[r])' = Charged(u)'
    BY <2>2 DEF Charged, Raisers
  <2>4. seen'[r] =< Cardinality(Charged(u)')
    BY <1>3, <2>2, NextSeen
  <2> QED
    BY <2>3, <2>4
<1> QED
  BY <1>1, <1>2, <1>3 DEF CountInv

-----------------------------------------------------------------------------
(* The theorems.                                                           *)

LEMMA InitQuery ==
  ASSUME Init
  PROVE  QueryInv
<1> USE UserQueryAssumption DEF Init, NoHash
<1>1. TypeOK /\ AsksInv /\ KnownInv /\ RaisedInv /\ NamedInv /\ RaisesItsUser
  BY DEF TypeOK, Hashes, Ended, AsksInv, KnownInv, RaisedInv, NamedInv, RaisesItsUser
<1>2. EntryExpires /\ UnnamedInv
  BY DEF EntryExpires, Absent, UnnamedInv
<1>3. CountInv
  <2>1. ASSUME NEW u \in Known PROVE times[u] = Cardinality(Raisers(u))
    <3>1. Raisers(u) = {}
      BY DEF Raisers
    <3> QED
      BY <3>1, FS_EmptySet
  <2>2. ASSUME NEW u \in Users PROVE cache[u].times =< Cardinality(Charged(u))
    BY Finite
  <2> QED
    BY <2>1, <2>2 DEF CountInv
<1> QED
  BY <1>1, <1>2, <1>3 DEF QueryInv

LEMMA StutterQuery ==
  ASSUME QueryInv, UNCHANGED vars
  PROVE  QueryInv'
<1> USE DEF vars, QueryInv
<1>1. TypeOK' /\ AsksInv' /\ KnownInv' /\ RaisedInv' /\ NamedInv' /\ RaisesItsUser'
  BY DEF TypeOK, AsksInv, KnownInv, RaisedInv, NamedInv, RaisesItsUser
<1>2. EntryExpires' /\ UnnamedInv'
  BY DEF EntryExpires, Absent, UnnamedInv
<1>3. CountInv'
  BY DEF CountInv, Charged, Raisers
<1> QED
  BY <1>1, <1>2, <1>3

\* The inductive invariant: who asks and is named, what is counted and what expires,
\* for all calls of Lua/userquery.lua in any order.
THEOREM QueryInvariant == Spec => []QueryInv
<1>1. Init => QueryInv
  BY InitQuery
<1>2. QueryInv /\ [Next]_vars => QueryInv'
  <2> SUFFICES ASSUME QueryInv, Change PROVE QueryInv'
    BY StutterQuery DEF Next, Change
  <2> QED
    BY NextTyping, NextAsks, NextKnown, NextRaised, NextNamed, NextRaises, NextExpires,
       NextUnnamed, NextCount DEF QueryInv
<1> QED
  BY <1>1, <1>2, PTL DEF Spec

\* Type correctness of the user query.
THEOREM QueryTyping == Spec => []TypeOK
<1>1. QueryInv => TypeOK
  BY DEF QueryInv
<1> QED
  BY <1>1, QueryInvariant, PTL

\* A request raises only the count of a user that a request with the same globals
\* was asked for, so with globals of its own its own user's (lines 65 and 85).
THEOREM RightUserRaised == Spec => []RaisesItsUser
<1>1. QueryInv => RaisesItsUser
  BY DEF QueryInv
<1> QED
  BY <1>1, QueryInvariant, PTL

\* The count in redis is never ahead of the requests, for any overlap of hits,
\* misses and expiries (lines 63 and 78-80).
THEOREM CacheBounded == Spec => []CacheNeverAhead
<1>1. QueryInv => CacheNeverAhead
  <2> SUFFICES ASSUME QueryInv, NEW u \in Users
               PROVE  cache[u].times =< Cardinality(Chargeable(u))
    BY DEF CacheNeverAhead
  <2>1. Charged(u) \subseteq Chargeable(u)
    <3> SUFFICES ASSUME NEW r \in Charged(u) PROVE r \in Chargeable(u)
      OBVIOUS
    <3>1. CASE raised[r] = u
      BY <3>1, UserQueryAssumption
         DEF Charged, Raisers, Chargeable, QueryInv, RaisedInv, RaisesItsUser
    <3>2. CASE raised[r] # u
      BY <3>2, UserQueryAssumption DEF Charged, Raisers, Chargeable
    <3> QED
      BY <3>1, <3>2
  <2>2. Chargeable(u) \subseteq Requests
    BY DEF Chargeable
  <2>3. IsFiniteSet(Chargeable(u))
    BY <2>2, FS_Subset, UserQueryAssumption
  <2>4. Cardinality(Charged(u)) =< Cardinality(Chargeable(u))
    BY <2>1, <2>3, FS_Subset
  <2>5. /\ cache[u].times \in Nat /\ Cardinality(Charged(u)) \in Nat
        /\ Cardinality(Chargeable(u)) \in Nat
    BY <2>3, Finite, FS_CardinalityType DEF QueryInv, TypeOK, Hashes
  <2> QED
    BY <2>4, <2>5 DEF QueryInv, CountInv
<1> QED
  BY <1>1, QueryInvariant, PTL

\* A hash without a time to live has a request that is about to give it one or
\* was cut off before it could (lines 64 and 81).
THEOREM KeysExpire == Spec => []EntryExpires
<1>1. QueryInv => EntryExpires
  BY DEF QueryInv
<1> QED
  BY <1>1, QueryInvariant, PTL

\* A request that ran to its end is counted in MySQL unless a key expired between
\* somebody's lookup and hmset (lines 47, 80 and 85).
THEOREM DoneMeansCounted == Spec => []DoneIsCounted
<1>1. QueryInv => DoneIsCounted
  BY DEF QueryInv, DoneIsCounted, RaisedInv, UnnamedInv
<1> QED
  BY <1>1, QueryInvariant, PTL
=============================================================================
