------------------------------ MODULE AsyncLog ------------------------------
(***************************************************************************)
(* Asynchronous logging in spdlog: loggers (async_logger-inl.h) hand their *)
(* messages to a thread pool (details/thread_pool-inl.h) through a blocking*)
(* queue (details/mpmc_blocking_q.h), the pool's workers hand them to the  *)
(* sinks, a periodic worker (details/periodic_worker-inl.h) flushes all    *)
(* loggers, and registry::shutdown (details/registry-inl.h) stops it all.  *)
(*                                                                         *)
(* A logger has a weak pointer to the pool and holds on to it only while it*)
(* posts.  Whoever gives up the last reference runs the destructor, which  *)
(* posts a terminate message for every worker and joins them.              *)
(***************************************************************************)
EXTENDS CircularQ, FiniteSets

CONSTANTS
  Producers,    \* the user's threads that log
  Pools,        \* the sets of workers that a pool may have
  Rooms,        \* the values of q_max_items
  Policies,     \* the sets of senders whose logger has the policy overrun_oldest
  Bursts        \* bound: how often each producer logs and the flusher flushes

main == "main"
flusher == "flusher"
registry == "registry"
Nobody == "nobody"
Senders == Producers \cup {flusher}
Workers == UNION Pools

ASSUME AsyncLogAssumption ==
  /\ Rooms \subseteq Nat \ {0} /\ Policies \subseteq SUBSET Senders /\ IsFiniteSet(Senders) /\ Bursts \in [Senders -> Nat]
  /\ \A pool \in Pools : IsFiniteSet(pool) /\ pool # {}
  /\ main \notin Senders \cup Workers /\ Senders \cap Workers = {}
  /\ {registry, Nobody} \cap Senders = {}

VARIABLES
  room, workers,   \* the arguments of thread_pool()
  nowait,          \* the senders that overrun
  q,               \* the queue
  pc,              \* where each thread is
  count,           \* the messages each sender has made
  refs,            \* who holds a reference to the pool
  killer,          \* the thread that runs ~thread_pool
  told,            \* the terminate messages it has posted
  holds,           \* the message each worker has taken
  delivered,       \* history: the messages that have reached the sinks
  refused          \* history: those whose logger found no pool

asyncVars == <<room, workers, nowait, q, pc, count, refs, killer, told, holds, delivered, refused>>
settings == <<room, workers, nowait>>

Terminate == <<"terminate", 0>>
Logged == UNION {{s} \X (1 .. Bursts[s]) : s \in Senders}
Messages == Logged \cup {Terminate}

AsyncTypeOK ==
  /\ room \in Rooms /\ workers \in Pools /\ nowait \in Policies
  /\ IsRing(q, Messages) /\ q.max = room + 1
  /\ pc \in [Senders \cup Workers \cup {main} ->
       {"idle", "post", "blocked", "notify", "leave", "join", "gone",
        "ready", "asleep", "popped", "deliver", "drop", "down"}]
  /\ count \in [Senders -> Nat] /\ refs \subseteq Senders \cup {registry}
  /\ killer \in Senders \cup {main, Nobody} /\ told \in Nat
  /\ holds \in [Workers -> Messages \cup {Moved}]
  /\ delivered \subseteq Logged /\ refused \subseteq Logged

AsyncInit ==
  /\ room \in Rooms /\ workers \in Pools /\ nowait \in Policies
  /\ q = NewQ(room)
  /\ pc = [t \in Senders \cup Workers \cup {main} |-> IF t \in Workers THEN "ready" ELSE "idle"]
  /\ count = [s \in Senders |-> 0]
  /\ refs = {registry} /\ killer = Nobody /\ told = 0
  /\ holds = [w \in Workers |-> Moved] /\ delivered = {} /\ refused = {}

Goes(t, from, to) == pc[t] = from /\ pc' = [pc EXCEPT ![t] = to]

-----------------------------------------------------------------------------
(* Posting a message.                                                      *)

\* sink_it_ and flush_ of async_logger: thread_pool_.lock(), or an exception, which
\* the logger reports to its error handler.
Post(s) ==
  /\ pc[s] = "idle" /\ count[s] < Bursts[s]
  /\ count' = [count EXCEPT ![s] = @ + 1]
  /\ IF refs # {}
     THEN Goes(s, "idle", "post") /\ refs' = refs \cup {s} /\ UNCHANGED refused
     ELSE refused' = refused \cup {<<s, count[s] + 1>>} /\ UNCHANGED <<pc, refs>>
  /\ UNCHANGED <<settings, q, killer, told, holds, delivered>>

Item(t) == IF t = killer THEN Terminate ELSE <<t, count[t]>>

\* The policy of the post: the destructor's is block.
Waits(t) == t = killer \/ t \notin nowait

\* enqueue and enqueue_nowait: under the mutex, the check and the push.
Enqueue(t) ==
  /\ pc[t] = "post"
  /\ IF Waits(t) /\ FullQ(q)
     THEN Goes(t, "post", "blocked") /\ UNCHANGED q
     ELSE Goes(t, "post", "notify") /\ q' = PushBack(q, Item(t))
  /\ UNCHANGED <<settings, count, refs, killer, told, holds, delivered, refused>>

\* notify_one: one of those asleep on the condition variable is woken, if any is.
NotifyOne(t, to, sleeping, woken) ==
  LET asleep == {u \in DOMAIN pc : pc[u] = sleeping} IN
  IF asleep = {} THEN pc' = [pc EXCEPT ![t] = to]
  ELSE \E u \in asleep : pc' = [pc EXCEPT ![t] = to, ![u] = woken]

\* Mutant: a worker is woken only for a queue that was empty.
NotifyPushIfOne(t) ==
  /\ pc[t] = "notify"
  /\ IF Size(q) = 1 THEN NotifyOne(t, "leave", "asleep", "ready") ELSE Goes(t, "notify", "leave")
  /\ UNCHANGED <<settings, q, count, refs, killer, told, holds, delivered, refused>>

\* push_cv_.notify_one(), after the mutex was released.
NotifyPush(t) ==
  /\ pc[t] = "notify" /\ NotifyOne(t, "leave", "asleep", "ready")
  /\ UNCHANGED <<settings, q, count, refs, killer, told, holds, delivered, refused>>

\* pool_ptr goes out of scope.  The last one to hold the pool destroys it.
Release(t, owner, to) ==
  /\ refs' = refs \ {owner}
  /\ IF refs' = {} THEN killer' = t /\ pc' = [pc EXCEPT ![t] = "post"]
     ELSE pc' = [pc EXCEPT ![t] = to] /\ UNCHANGED killer

Leave(s) ==
  /\ pc[s] = "leave" /\ s # killer /\ Release(s, s, "idle")
  /\ UNCHANGED <<settings, q, count, told, holds, delivered, refused>>

\* ~thread_pool: the next terminate message, or on to the joins.
LeaveTerminate(t) ==
  /\ t = killer /\ pc[t] = "leave" /\ told' = told + 1
  /\ pc' = [pc EXCEPT ![t] = IF told' < Cardinality(workers) THEN "post" ELSE "join"]
  /\ UNCHANGED <<settings, q, count, refs, killer, holds, delivered, refused>>

\* Mutant: the workers are detached.
JoinNobody(t) ==
  /\ pc[t] = "join"
  /\ pc' = [pc EXCEPT ![t] = IF t = main THEN "down" ELSE "idle"]
  /\ UNCHANGED <<settings, q, count, refs, killer, told, holds, delivered, refused>>

Join(t) ==
  /\ pc[t] = "join" /\ \A w \in workers : pc[w] = "gone"
  /\ pc' = [pc EXCEPT ![t] = IF t = main THEN "down" ELSE "idle"]
  /\ UNCHANGED <<settings, q, count, refs, killer, told, holds, delivered, refused>>

-----------------------------------------------------------------------------
(* The workers.                                                            *)

\* dequeue_for: under the mutex, the check and the pop.
Dequeue(w) ==
  /\ w \in workers /\ pc[w] = "ready"
  /\ IF EmptyQ(q) THEN Goes(w, "ready", "asleep") /\ UNCHANGED <<q, holds>>
     ELSE /\ Goes(w, "ready", "popped")
          /\ q' = PopFront(q) /\ holds' = [holds EXCEPT ![w] = Front(q)]
  /\ UNCHANGED <<settings, count, refs, killer, told, delivered, refused>>

\* Ten seconds have passed: process_next_msg_ returns, and is called again.
DequeueTimesOut(w) ==
  /\ Goes(w, "asleep", "ready")
  /\ UNCHANGED <<settings, q, count, refs, killer, told, holds, delivered, refused>>

\* Mutant: the space made by a worker is not announced.
NotifyNobody(w) ==
  /\ Goes(w, "popped", "deliver")
  /\ UNCHANGED <<settings, q, count, refs, killer, told, holds, delivered, refused>>

\* pop_cv_.notify_one().
NotifyPop(w) ==
  /\ pc[w] = "popped" /\ NotifyOne(w, "deliver", "blocked", "post")
  /\ UNCHANGED <<settings, q, count, refs, killer, told, holds, delivered, refused>>

\* backend_log_ or backend_flush_; a terminate message ends the worker's loop.
Process(w) ==
  /\ pc[w] = "deliver"
  /\ Goes(w, "deliver", IF holds[w] = Terminate THEN "gone" ELSE "ready")
  /\ delivered' = delivered \cup ({holds[w]} \ {Terminate})
  /\ holds' = [holds EXCEPT ![w] = Moved]
  /\ UNCHANGED <<settings, q, count, refs, killer, told, refused>>

-----------------------------------------------------------------------------
(* registry::shutdown, in the main thread.                                 *)

\* ~periodic_worker needs the mutex that the callback holds, and joins the thread.
StopFlusher ==
  /\ pc[main] = "idle" /\ pc[flusher] = "idle"
  /\ pc' = [pc EXCEPT ![main] = "drop", ![flusher] = "gone"]
  /\ UNCHANGED <<settings, q, count, refs, killer, told, holds, delivered, refused>>

\* drop_all: the registry forgets its loggers, but whoever logs has a pointer of
\* its own; then tp_.reset().
ResetPool ==
  /\ pc[main] = "drop" /\ Release(main, registry, "down")
  /\ UNCHANGED <<settings, q, count, told, holds, delivered, refused>>

Shutdown == StopFlusher \/ ResetPool

PostStep(t) == Enqueue(t) \/ NotifyPush(t) \/ LeaveTerminate(t) \/ Join(t)
SenderStep(s) == PostStep(s) \/ Leave(s)
MainStep == Shutdown \/ PostStep(main)
WorkerStep(w) == Dequeue(w) \/ DequeueTimesOut(w) \/ NotifyPop(w) \/ Process(w)

AsyncNext ==
  \/ \E s \in Senders : Post(s) \/ SenderStep(s)
  \/ \E w \in Workers : WorkerStep(w)
  \/ MainStep

\* Threads are scheduled; nothing makes the user log, and nothing shuts down.
AsyncFairness ==
  /\ \A s \in Senders : WF_asyncVars(SenderStep(s))
  /\ \A w \in Workers : WF_asyncVars(WorkerStep(w))
  /\ WF_asyncVars(ResetPool \/ PostStep(main))

AsyncSpec == AsyncInit /\ [][AsyncNext]_asyncVars
AsyncFairSpec == AsyncSpec /\ AsyncFairness

-----------------------------------------------------------------------------
(* Properties.                                                             *)

Queued == {Contents(q)[k] : k \in 1 .. Size(q)} \ {Terminate}
Held == {holds[w] : w \in Workers} \ {Terminate, Moved}
InHand == {<<s, count[s]>> : s \in {s \in Senders : s # killer /\ pc[s] \in {"post", "blocked"}}}
Made == UNION {{s} \X (1 .. count[s]) : s \in Senders}

\* Every message is in one place, and overrun_counter says exactly how many are in
\* none: nothing is lost unseen, delivered twice or delivered after it was refused,
\* and no terminate message is ever overrun.
Accounted ==
  LET places == <<refused, delivered, Queued, Held, InHand>>
      cards == [i \in 1 .. 5 |-> Cardinality(places[i])]
  IN  /\ \A i, j \in 1 .. 5 : i < j => places[i] \cap places[j] = {}
      /\ UNION {places[i] : i \in 1 .. 5} \subseteq Made
      /\ Cardinality(Made) = cards[1] + cards[2] + cards[3] + cards[4] + cards[5] + q.overrun

\* When shutdown is over and nobody is posting any more, every message that was
\* accepted has reached the sinks, but for those overrun, and the workers are
\* gone: whoever was the last to hold the pool, it drained the queue.
ShutdownDrains ==
  pc[main] = "down" /\ (\A s \in Senders : pc[s] \in {"idle", "gone"}) =>
    Queued \cup Held = {} /\ \A w \in workers : pc[w] = "gone"

\* With one worker the messages of a sender reach the sinks in their order.
InOrder ==
  Cardinality(workers) = 1 =>
    \A m \in delivered : \A k \in 1 .. m[2] - 1 : <<m[1], k>> \notin Queued \cup Held

\* What becomes of the messages: none is lost unseen and none overtakes another.
Delivery == AsyncTypeOK /\ Accounted /\ InOrder

\* No message lies in the queue while all workers sleep out their ten seconds:
\* somebody is about to wake one.
SomebodyAwake ==
  ~EmptyQ(q) /\ (\A w \in workers : pc[w] \in {"asleep", "gone"}) =>
    \E t \in Senders \cup {main} : pc[t] = "notify"

\* The queue, as the threads use it, is a bounded first-in first-out queue that
\* loses only the oldest message and counts what it loses.
Queue == INSTANCE LogQueue WITH room <- room, items <- Contents(q), dropped <- q.overrun
QueueSpec == Queue!Spec

\* A thread that waits for space gets its message into the queue, and shutdown
\* ends, however the policies, the flusher and late loggers fall out.
Progress ==
  /\ \A s \in Senders : pc[s] = "blocked" ~> pc[s] \in {"idle", "gone"}
  /\ pc[main] = "drop" ~> pc[main] = "down"
=============================================================================
