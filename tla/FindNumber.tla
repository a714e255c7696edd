---------------------------- MODULE FindNumber ----------------------------
(***************************************************************************)
(* find_number (Linux-c/Test/main.c): looks for two elements of a sorted   *)
(* array that add up to a target, with one index walking up from the left  *)
(* end and one walking down from the right end.                            *)
(*                                                                         *)
(* The C array a[0 .. length-1] is a function on 0 .. length-1.  main      *)
(* calls find_number on one fixed array in ascending order; the module     *)
(* takes every ascending array of up to MaxLength elements of Values, as   *)
(* the signature (int *a, int length, int target) allows.                  *)
(***************************************************************************)
EXTENDS Integers

CONSTANTS
  MaxLength,  \* the longest array passed
  Values,     \* the values an element may have
  Targets     \* the targets asked for (atoi(argv[1]))

ASSUME FindAssumption ==
  /\ MaxLength \in Nat
  /\ Values \subseteq Int
  /\ Targets \subseteq Int

VARIABLES
  a, length, target,   \* the arguments
  i, j,                \* the two indices
  printed,             \* the index pairs the printf of line 18 has shown
  running              \* whether the while loop is still going

args == <<a, length, target>>
vars == <<a, length, target, i, j, printed, running>>

Ascending(x, n) == \A p, q \in 0..(n - 1) : p < q => x[p] =< x[q]

\* The call: an ascending array, a target, the indices at the two ends.
Init ==
  /\ length \in 0..MaxLength
  /\ a \in [0..(length - 1) -> Values]
  /\ Ascending(a, length)
  /\ target \in Targets
  /\ i = 0
  /\ j = length - 1
  /\ printed = {}
  /\ running = TRUE

sum == a[i] + a[j]

\* sum == target: print the pair and break.
Hit ==
  /\ running /\ i < j /\ sum = target
  /\ printed' = printed \cup {<<i, j>>}
  /\ running' = FALSE
  /\ UNCHANGED <<args, i, j>>

\* sum > target: the right index gives way.
High ==
  /\ running /\ i < j /\ sum > target
  /\ j' = j - 1
  /\ UNCHANGED <<args, i, printed, running>>

\* Mutant: both indices give way at once.
LowBoth ==
  /\ running /\ i < j /\ sum < target
  /\ i' = i + 1
  /\ j' = j - 1
  /\ UNCHANGED <<args, printed, running>>

\* sum < target: the left index gives way.
Low ==
  /\ running /\ i < j /\ sum < target
  /\ i' = i + 1
  /\ UNCHANGED <<args, j, printed, running>>

\* The loop condition fails and the function returns.
Exit ==
  /\ running /\ i >= j
  /\ running' = FALSE
  /\ UNCHANGED <<args, i, j, printed>>

Next == Hit \/ High \/ Low \/ Exit

Spec == Init /\ [][Next]_vars /\ WF_vars(Next)

-----------------------------------------------------------------------------
(* Properties                                                              *)

TypeOK ==
  /\ length \in Nat
  /\ a \in [0..(length - 1) -> Int]
  /\ Ascending(a, length)
  /\ target \in Int
  /\ i \in Int /\ 0 =< i
  /\ j \in Int /\ j < length
  /\ i =< j + 1
  /\ printed \subseteq (Nat \X Nat)
  /\ running \in BOOLEAN

Pairs == {pq \in (0..(length - 1)) \X (0..(length - 1)) :
             pq[1] < pq[2] /\ a[pq[1]] + a[pq[2]] = target}

\* An index that find_number has walked past belongs to no solution that does
\* not also lie outside the window: while it is looking, every solution still
\* lies between the two indices, so that giving one index way never skips one.
NoPairSkipped == (printed = {}) => \A pq \in Pairs : i =< pq[1] /\ pq[2] =< j

\* When find_number returns, it has printed a solution if there is one, and it
\* has printed nothing but solutions.
Answers ==
  /\ printed \subseteq Pairs
  /\ ~running => ((printed = {}) <=> (Pairs = {}))

\* find_number returns: on every call one of the indices moves or the loop ends.
Returns == <>(~running)
=============================================================================
