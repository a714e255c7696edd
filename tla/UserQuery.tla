----------------------------- MODULE UserQuery -----------------------------
(***************************************************************************)
(* The user query (Lua/userquery.lua): a request looks its user up in redis*)
(* and, if there is no hash for that name, in MySQL, puts the row into     *)
(* redis for a while, and raises the user's query_times in both.           *)
(*                                                                         *)
(* Every call to redis and MySQL suspends the request, and others run.  The*)
(* script's variables are local, except sql and res: which requests share  *)
(* the globals depends on how nginx runs the script, and is a parameter.   *)
(* sql is set and used without a suspension in between; res is not.        *)
(*                                                                         *)
(* redis keeps the fields of a small hash in the order in which they were  *)
(* made, and the script goes by their places: result[4] is query_times     *)
(* whoever makes the hash, result[2] is the id only if a miss made it.     *)
(***************************************************************************)
EXTENDS Integers, FiniteSets

CONSTANTS
  Requests,
  Users,      \* the names asked for
  Known,      \* those with a row in table student
  Envs,       \* the tables of Lua globals
  Env         \* the one that each request runs in

Nobody == "nobody"

ASSUME UserQueryAssumption ==
  /\ IsFiniteSet(Requests)
  /\ Known \subseteq Users
  /\ Nobody \notin Users
  /\ Env \in [Requests -> Envs]

VARIABLES
  pc,         \* where each request is
  asks,       \* ngx.var.arg_name
  link,       \* whether its redis connection still works
  seen,       \* the query_times it has read
  target,     \* the user whose row its update names
  res,        \* the user whose row the global res holds
  cache,      \* redis: the hash of every name
  times,      \* MySQL: query_times of every user
  raised,     \* history: the user whose query_times in MySQL a request raised
  raced       \* history: the requests whose hash was gone when they wrote to it

vars == <<pc, asks, link, seen, target, res, cache, times, raised, raced>>

NoHash == [made |-> "never", times |-> 0, ttl |-> FALSE]
Hashes == [made : {"never", "miss", "hit"}, times : Nat, ttl : BOOLEAN]

Ended == {"done", "failed", "killed"}

TypeOK ==
  /\ pc \in [Requests -> {"new", "lookup", "select", "row", "fill", "fillTtl", "aim",
                          "bump", "bumpTtl", "reread", "update", "reply"} \cup Ended]
  /\ asks \in [Requests -> Users \cup {Nobody}]
  /\ link \in [Requests -> BOOLEAN]
  /\ seen \in [Requests -> Nat]
  /\ target \in [Requests -> Known \cup {Nobody}]
  /\ res \in [Envs -> Known \cup {Nobody}]
  /\ cache \in [Users -> Hashes]
  /\ times \in [Known -> Nat]
  /\ raised \in [Requests -> Known \cup {Nobody}]
  /\ raced \subseteq Requests

Init ==
  /\ pc = [r \in Requests |-> "new"]
  /\ asks = [r \in Requests |-> Nobody]
  /\ link = [r \in Requests |-> TRUE]
  /\ seen = [r \in Requests |-> 0]
  /\ target = [r \in Requests |-> Nobody]
  /\ res = [e \in Envs |-> Nobody]
  /\ cache = [u \in Users |-> NoHash]
  /\ times = [u \in Known |-> 0]
  /\ raised = [r \in Requests |-> Nobody]
  /\ raced = {}

Goes(r, from, to) == pc[r] = from /\ pc' = [pc EXCEPT ![r] = to]
Fails(r, from) == Goes(r, from, "failed")

Hash(r) == cache[asks[r]]
Absent(h) == h.made = "never"

-----------------------------------------------------------------------------
(* The calls to redis.                                                     *)

\* A command with an effect on the hash, whose result is not looked at: it may
\* be carried out or not, and once the connection has failed nothing more is.
Command(r, effect) ==
  \/ /\ link[r]
     /\ cache' = [cache EXCEPT ![asks[r]] = effect]
     /\ link' = link \/ link' = [link EXCEPT ![r] = FALSE]
  \/ /\ link' = [link EXCEPT ![r] = FALSE]
     /\ UNCHANGED cache

\* hmset: the fields of a hash that is there keep their places.
Hmset(r, made, n) ==
  Command(r, [made |-> IF Absent(Hash(r)) THEN made ELSE Hash(r).made,
              times |-> n, ttl |-> Hash(r).ttl])

\* expire: does nothing to a key that is not there.
ExpireKey(r) == Command(r, IF Absent(Hash(r)) THEN NoHash ELSE [Hash(r) EXCEPT !.ttl = TRUE])

\* A key with a time to live is gone when the time is over.
Expires(u) ==
  /\ cache[u].ttl
  /\ cache' = [cache EXCEPT ![u] = NoHash]
  /\ UNCHANGED <<pc, asks, link, seen, target, res, times, raised, raced>>

-----------------------------------------------------------------------------
(* A request.                                                              *)

\* Both connections are made.
Start(r) ==
  /\ Goes(r, "new", "lookup")
  /\ \E u \in Users : asks' = [asks EXCEPT ![r] = u]
  /\ UNCHANGED <<link, seen, target, res, cache, times, raised, raced>>

\* hgetall.
Hit(r) ==
  /\ Goes(r, "lookup", "bump")
  /\ ~Absent(Hash(r))
  /\ seen' = [seen EXCEPT ![r] = Hash(r).times]
  /\ UNCHANGED <<asks, link, target, res, cache, times, raised, raced>>

Miss(r) ==
  /\ Goes(r, "lookup", "select")
  /\ Absent(Hash(r))
  /\ UNCHANGED <<asks, link, seen, target, res, cache, times, raised, raced>>

\* The select is carried out, and later its result arrives.
Select(r) ==
  /\ Goes(r, "select", "row")
  /\ seen' = [seen EXCEPT ![r] = IF asks[r] \in Known THEN times[asks[r]] ELSE 0]
  /\ UNCHANGED <<asks, link, target, res, cache, times, raised, raced>>

\* Mutant: whether there is a row is not noticed.
RowUnchecked(r) ==
  /\ Goes(r, "row", "fill")
  /\ res' = [res EXCEPT ![Env[r]] = asks[r]]
  /\ UNCHANGED <<asks, link, seen, target, cache, times, raised, raced>>

\* Mutant: res is one variable for all requests.
RowShared(r) ==
  /\ res' = [e \in Envs |-> IF asks[r] \in Known THEN asks[r] ELSE Nobody]
  /\ IF asks[r] \in Known THEN Goes(r, "row", "fill") ELSE Fails(r, "row")
  /\ UNCHANGED <<asks, link, seen, target, cache, times, raised, raced>>

\* res is assigned; without a row, res[1].id is an error.
Row(r) ==
  /\ res' = [res EXCEPT ![Env[r]] = IF asks[r] \in Known THEN asks[r] ELSE Nobody]
  /\ IF asks[r] \in Known THEN Goes(r, "row", "fill") ELSE Fails(r, "row")
  /\ UNCHANGED <<asks, link, seen, target, cache, times, raised, raced>>

\* Mutant: the key is not given a time to live.
FillForever(r) ==
  /\ Goes(r, "fill", "aim")
  /\ Hmset(r, "miss", seen[r])
  /\ UNCHANGED <<asks, seen, target, res, times, raised, raced>>

\* Mutant: query_times goes in before id.
FillSwapped(r) ==
  /\ Goes(r, "fill", "fillTtl")
  /\ Hmset(r, "hit", seen[r])
  /\ UNCHANGED <<asks, seen, target, res, times, raised, raced>>

\* hmset with the fields of the row, id first.
Fill(r) ==
  /\ Goes(r, "fill", "fillTtl")
  /\ Hmset(r, "miss", seen[r])
  /\ UNCHANGED <<asks, seen, target, res, times, raised, raced>>

FillTtl(r) ==
  /\ Goes(r, "fillTtl", "aim")
  /\ ExpireKey(r)
  /\ UNCHANGED <<asks, seen, target, res, times, raised, raced>>

\* The request resumes and looks at the global res again: for res[1].id.
Aim(r) ==
  /\ IF res[Env[r]] = Nobody THEN Fails(r, "aim") ELSE Goes(r, "aim", "update")
  /\ target' = [target EXCEPT ![r] = res[Env[r]]]
  /\ UNCHANGED <<asks, link, seen, res, cache, times, raised, raced>>

\* hmset with count + 1.
Bump(r) ==
  /\ Goes(r, "bump", "bumpTtl")
  /\ Hmset(r, "hit", seen[r] + 1)
  /\ raced' = IF Absent(Hash(r)) THEN raced \cup {r} ELSE raced
  /\ UNCHANGED <<asks, seen, target, res, times, raised>>

BumpTtl(r) ==
  /\ Goes(r, "bumpTtl", "reread")
  /\ ExpireKey(r)
  /\ UNCHANGED <<asks, seen, target, res, times, raised, raced>>

\* The second hgetall, and result[2]: the id, or a time stamp that is no id.
Reread(r) ==
  /\ Goes(r, "reread", "update")
  /\ link[r] /\ ~Absent(Hash(r))
  /\ target' = [target EXCEPT ![r] = IF Hash(r).made = "miss" THEN asks[r] ELSE Nobody]
  /\ UNCHANGED <<asks, link, seen, res, cache, times, raised, raced>>

\* Without a hash, or without redis, there is no result[2]: an error.
RereadNothing(r) ==
  /\ Fails(r, "reread")
  /\ ~link[r] \/ Absent(Hash(r))
  /\ UNCHANGED <<asks, link, seen, target, res, cache, times, raised, raced>>

\* update ... set query_times=query_times+1 where id=...
Update(r) ==
  /\ Goes(r, "update", "reply")
  /\ raised' = [raised EXCEPT ![r] = target[r]]
  /\ IF target[r] = Nobody THEN UNCHANGED times
                           ELSE times' = [times EXCEPT ![target[r]] = @ + 1]
  /\ UNCHANGED <<asks, link, seen, target, res, cache, raced>>

\* Mutant: an update without an answer is tried again.
ReplyRetries(r) ==
  /\ Goes(r, "reply", "done") \/ Goes(r, "reply", "update")
  /\ res' = [res EXCEPT ![Env[r]] = Nobody]
  /\ UNCHANGED <<asks, link, seen, target, cache, times, raised, raced>>

\* Its result is assigned to res as well: it has no res[1].
Reply(r) ==
  /\ Goes(r, "reply", "done") \/ Fails(r, "reply")
  /\ res' = [res EXCEPT ![Env[r]] = Nobody]
  /\ UNCHANGED <<asks, link, seen, target, cache, times, raised, raced>>

\* A connection cannot be made, hgetall returns nil, or a query fails that was
\* not carried out: the request ends, with res assigned after a query.
CallFails(r) ==
  /\ \E p \in {"new", "lookup", "select", "row", "reread", "update"} : Fails(r, p)
  /\ res' = IF pc[r] \in {"select", "row", "update"}
              THEN [res EXCEPT ![Env[r]] = Nobody] ELSE res
  /\ UNCHANGED <<asks, link, seen, target, cache, times, raised, raced>>

\* The worker process ends in the middle of it.
Killed(r) ==
  /\ pc[r] \notin Ended
  /\ pc' = [pc EXCEPT ![r] = "killed"]
  /\ UNCHANGED <<asks, link, seen, target, res, cache, times, raised, raced>>

Step(r) ==
  \/ Start(r) \/ Hit(r) \/ Miss(r)
  \/ Select(r) \/ Row(r) \/ Fill(r) \/ FillTtl(r) \/ Aim(r)
  \/ Bump(r) \/ BumpTtl(r) \/ Reread(r) \/ RereadNothing(r)
  \/ Update(r) \/ Reply(r)

Next ==
  \/ \E r \in Requests : Step(r) \/ CallFails(r) \/ Killed(r)
  \/ \E u \in Users : Expires(u)

Spec == Init /\ [][Next]_vars

-----------------------------------------------------------------------------
(* Properties *)

\* A request raises the count of the user it was asked for, or of one that a
\* request with the same Lua globals was asked for: with globals of its own, no
\* query is ever put down to somebody else, whatever ran between the select and
\* the update.
RaisesItsUser ==
  \A r \in Requests : raised[r] # Nobody =>
    \E q \in Requests : Env[q] = Env[r] /\ asks[q] = raised[r]

\* The requests that may raise the count of u.
Chargeable(u) ==
  {r \in Requests : /\ asks[r] # Nobody
                    /\ \E q \in Requests : Env[q] = Env[r] /\ asks[q] = u}

\* However hits, misses and expiries overlap, the count in redis never exceeds
\* the number of requests: no query is counted twice by way of MySQL and redis.
CacheNeverAhead == \A u \in Users : cache[u].times =< Cardinality(Chargeable(u))

\* A hash without a time to live is one that a request is about to give one, or
\* that a request has left behind when it lost redis or was killed.
EntryExpires ==
  \A u \in Users : ~Absent(cache[u]) /\ ~cache[u].ttl =>
    \E r \in Requests : /\ asks[r] = u
                        /\ \/ pc[r] \in {"fillTtl", "bumpTtl", "killed"}
                           \/ ~link[r]

\* A request that ran to its end is counted in MySQL, unless the key had expired
\* between some request's lookup and its hmset: the hash made anew then has no
\* id, and the updates of all who find it raise nobody's count.
DoneIsCounted ==
  \A r \in Requests : pc[r] = "done" /\ raised[r] = Nobody =>
    \E q \in raced : asks[q] = asks[r]
-----------------------------------------------------------------------------
(* The inductive invariant                                                 *)

\* Who a request asks for is settled when it starts.
AsksInv ==
  \A r \in Requests :
    /\ pc[r] = "new" => asks[r] = Nobody
    /\ pc[r] \notin {"new", "failed", "killed"} => asks[r] # Nobody

\* An id in the script or in redis is that of a row there is.
KnownInv ==
  /\ \A r \in Requests : pc[r] = "fill" => asks[r] \in Known
  /\ \A u \in Users : cache[u].made = "miss" => u \in Known

\* A request raises one count, that of its target.
RaisedInv ==
  \A r \in Requests :
    /\ pc[r] \in {"reply", "done"} => raised[r] = target[r]
    /\ raised[r] # Nobody => pc[r] \in {"reply"} \cup Ended /\ asks[r] # Nobody

\* An id is that of a user whom a request with these globals was asked for.
NamedInv ==
  /\ \A e \in Envs : res[e] # Nobody =>
       \E q \in Requests : Env[q] = e /\ asks[q] = res[e]
  /\ \A r \in Requests : target[r] # Nobody =>
       \E q \in Requests : Env[q] = Env[r] /\ asks[q] = target[r]

\* A hash without an id, and an update without one, are due to a race.
UnnamedInv ==
  /\ \A u \in Users : cache[u].made = "hit" => \E q \in raced : asks[q] = u
  /\ \A r \in Requests : pc[r] \in {"update", "reply", "done"} /\ target[r] = Nobody =>
       \E q \in raced : asks[q] = asks[r]

\* The requests that have raised the count of u in MySQL, and those that cannot
\* raise it in redis any more.
Raisers(u) == {r \in Requests : raised[r] = u}
PastBump == {"bumpTtl", "reread", "update", "reply"} \cup Ended
Charged(u) == Raisers(u) \cup {r \in Requests : asks[r] = u /\ pc[r] \in PastBump}

\* MySQL counts exactly; what is in redis, or read and about to be written to
\* it, is covered by requests other than the one that will add to it.
CountInv ==
  /\ \A u \in Known : times[u] = Cardinality(Raisers(u))
  /\ \A u \in Users : cache[u].times =< Cardinality(Charged(u))
  /\ \A r \in Requests : pc[r] \in {"row", "fill", "bump"} =>
       seen[r] =< Cardinality(Charged(asks[r]))

\* The inductive invariant: the types, the five relations above, and the two
\* properties that are preserved with their help (UserQuery_proofs).
QueryInv ==
  /\ TypeOK
  /\ AsksInv
  /\ KnownInv
  /\ RaisedInv
  /\ NamedInv
  /\ RaisesItsUser
  /\ EntryExpires
  /\ UnnamedInv
  /\ CountInv
=============================================================================
