---------------------------- MODULE OddEvenSort -----------------------------
(***************************************************************************)
(* The parallel odd-even transposition sort of src/ex20_sort/main.c. Main  *)
(* runs iterations; in each it creates a thread for every pair of the      *)
(* iteration's parity, joins them, and stops when the array is sorted or   *)
(* after too many iterations. A thread is named by the left index of its   *)
(* pair. swap_mutex protects total_swaps, flag_mutex the iteration's       *)
(* swapped flag; nothing protects arr.                                     *)
(***************************************************************************)
EXTENDS Integers, FiniteSets

CONSTANTS
  ARRAY_SIZE,
  Values  \* the values on the command line

ASSUME SortAssumption ==
  /\ ARRAY_SIZE \in Nat /\ ARRAY_SIZE >= 2
  /\ Values \subseteq Int

Index == 0..(ARRAY_SIZE - 1)
Lefts == 0..(ARRAY_SIZE - 2)
Free == -1

VARIABLES
  initial,      \* the array main starts with
  arr,          \* the shared array
  total_swaps,  \* the global count of swaps
  swap_mutex,   \* the thread that holds swap_mutex
  flag_mutex,   \* the thread that holds flag_mutex
  swapped,      \* iterate's local flag
  pc,           \* pc[l]: where thread l is
  tmp,          \* tmp[l]: the local variable of thread l
  reg,          \* reg[l]: the register thread l changes total_swaps through
  iteration,    \* the iterations started
  paire,        \* the parity of the iteration
  next,         \* the left index of the next thread to create or join
  main          \* where main is

dataVars == <<initial, arr>>
swapVars == <<total_swaps, swap_mutex>>
flagVars == <<swapped, flag_mutex>>
mainVars == <<iteration, paire, next, main>>
vars == <<dataVars, swapVars, flagVars, pc, tmp, reg, mainVars>>

Labels == {"none", "compare", "left", "right", "lock_swap", "load", "store",
           "unlock_swap", "lock_flag", "flag", "unlock_flag", "done"}

TypeOK ==
  /\ initial \in [Index -> Values]
  /\ arr \in [Index -> Values]
  /\ total_swaps \in Nat
  /\ swap_mutex \in Lefts \union {Free}
  /\ flag_mutex \in Lefts \union {Free}
  /\ swapped \in BOOLEAN
  /\ pc \in [Lefts -> Labels]
  /\ tmp \in [Lefts -> Values \union {0}]
  /\ reg \in [Lefts -> Nat]
  /\ iteration \in 0..(2 * ARRAY_SIZE + 1)
  /\ paire \in BOOLEAN
  /\ next \in 0..(ARRAY_SIZE + 1)
  /\ main \in {"iterate", "create", "join", "check", "sorted", "error"}

\* main has filled the array from its arguments.
Init ==
  /\ initial \in [Index -> Values]
  /\ arr = initial
  /\ total_swaps = 0
  /\ swap_mutex = Free
  /\ flag_mutex = Free
  /\ swapped = FALSE
  /\ pc = [l \in Lefts |-> "none"]
  /\ tmp = [l \in Lefts |-> 0]
  /\ reg = [l \in Lefts |-> 0]
  /\ iteration = 0
  /\ paire = TRUE
  /\ next = 0
  /\ main = "iterate"

-----------------------------------------------------------------------------
(* main() and iterate().                                                   *)

Debut == IF paire THEN 0 ELSE 1
Step(l, from, to) == pc[l] = from /\ pc' = [pc EXCEPT ![l] = to]

\* The loop's iteration++, and the locals of iterate().
StartIteration ==
  /\ main = "iterate"
  /\ iteration' = iteration + 1
  /\ swapped' = FALSE /\ flag_mutex' = Free
  /\ next' = Debut
  /\ main' = "create"
  /\ UNCHANGED <<dataVars, swapVars, pc, tmp, reg, paire>>

\* pthread_create of one pair's thread, or the end of that loop.
CreateThread ==
  /\ main = "create"
  /\ \/ /\ next \in Lefts
        /\ pc' = [pc EXCEPT ![next] = "compare"]
        /\ next' = next + 2
        /\ UNCHANGED main
     \/ /\ next \notin Lefts
        /\ next' = Debut
        /\ main' = "join"
        /\ UNCHANGED pc
  /\ UNCHANGED <<dataVars, swapVars, flagVars, tmp, reg, iteration, paire>>

\* Mutant: iterate returns without waiting for its threads.
JoinThread_NoWait ==
  /\ main = "join"
  /\ main' = "check"
  /\ UNCHANGED <<dataVars, swapVars, flagVars, pc, tmp, reg, iteration, paire,
                 next>>

\* pthread_join of one thread, or the end of iterate().
JoinThread ==
  /\ main = "join"
  /\ \/ /\ next \in Lefts
        /\ Step(next, "done", "none")
        /\ next' = next + 2
        /\ UNCHANGED main
     \/ /\ next \notin Lefts
        /\ main' = "check"
        /\ UNCHANGED <<pc, next>>
  /\ UNCHANGED <<dataVars, swapVars, flagVars, tmp, reg, iteration, paire>>

Sorted(a) == \A l \in Lefts : a[l] <= a[l + 1]

\* Mutant: the parity is not alternated.
CheckSorted_SameParity ==
  /\ main = "check"
  /\ main' = IF Sorted(arr) THEN "sorted"
             ELSE IF iteration > 2 * ARRAY_SIZE THEN "error" ELSE "iterate"
  /\ UNCHANGED <<dataVars, swapVars, flagVars, pc, tmp, reg, iteration, paire,
                 next>>

\* is_sorted(), paire = !paire, and the guard against endless iteration.
CheckSorted ==
  /\ main = "check"
  /\ \/ /\ Sorted(arr)
        /\ main' = "sorted"
        /\ UNCHANGED paire
     \/ /\ ~Sorted(arr)
        /\ main' = IF iteration > 2 * ARRAY_SIZE THEN "error" ELSE "iterate"
        /\ paire' = ~paire
  /\ UNCHANGED <<dataVars, swapVars, flagVars, pc, tmp, reg, iteration, next>>

-----------------------------------------------------------------------------
(* compare_pair.                                                           *)

\* Mutant: the left value is not saved before it is overwritten.
Compare_TmpUnset(l) ==
  /\ Step(l, "compare", IF arr[l] > arr[l + 1] THEN "left" ELSE "done")
  /\ UNCHANGED <<dataVars, swapVars, flagVars, tmp, reg, mainVars>>

\* if (arr[i] > arr[i + 1]) and tmp = arr[i]
Compare(l) ==
  /\ \/ /\ arr[l] > arr[l + 1]
        /\ Step(l, "compare", "left")
        /\ tmp' = [tmp EXCEPT ![l] = arr[l]]
     \/ /\ arr[l] <= arr[l + 1]
        /\ Step(l, "compare", "done")
        /\ UNCHANGED tmp
  /\ UNCHANGED <<dataVars, swapVars, flagVars, reg, mainVars>>

\* arr[i] = arr[i + 1]
WriteLeft(l) ==
  /\ Step(l, "left", "right")
  /\ arr' = [arr EXCEPT ![l] = arr[l + 1]]
  /\ UNCHANGED <<initial, swapVars, flagVars, tmp, reg, mainVars>>

\* Mutant: the old value is read back from the array, not from tmp.
WriteRight_NoTmp(l) ==
  /\ Step(l, "right", "lock_swap")
  /\ arr' = [arr EXCEPT ![l + 1] = arr[l]]
  /\ UNCHANGED <<initial, swapVars, flagVars, tmp, reg, mainVars>>

\* arr[i + 1] = tmp
WriteRight(l) ==
  /\ Step(l, "right", "lock_swap")
  /\ arr' = [arr EXCEPT ![l + 1] = tmp[l]]
  /\ UNCHANGED <<initial, swapVars, flagVars, tmp, reg, mainVars>>

\* Mutant: swap_mutex is not used.
LockSwap_NoWait(l) ==
  /\ Step(l, "lock_swap", "load")
  /\ swap_mutex' = l
  /\ UNCHANGED <<dataVars, total_swaps, flagVars, tmp, reg, mainVars>>

LockSwap(l) ==
  /\ Step(l, "lock_swap", "load")
  /\ swap_mutex = Free /\ swap_mutex' = l
  /\ UNCHANGED <<dataVars, total_swaps, flagVars, tmp, reg, mainVars>>

\* total_swaps++ is a load and a store.
LoadSwaps(l) ==
  /\ Step(l, "load", "store")
  /\ reg' = [reg EXCEPT ![l] = total_swaps]
  /\ UNCHANGED <<dataVars, swapVars, flagVars, tmp, mainVars>>

StoreSwaps(l) ==
  /\ Step(l, "store", "unlock_swap")
  /\ total_swaps' = reg[l] + 1
  /\ UNCHANGED <<dataVars, swap_mutex, flagVars, tmp, reg, mainVars>>

\* Mutant: the unlock is forgotten.
UnlockSwap_Forgotten(l) ==
  /\ Step(l, "unlock_swap", "lock_flag")
  /\ UNCHANGED <<dataVars, swapVars, flagVars, tmp, reg, mainVars>>

UnlockSwap(l) ==
  /\ Step(l, "unlock_swap", "lock_flag")
  /\ swap_mutex' = Free
  /\ UNCHANGED <<dataVars, total_swaps, flagVars, tmp, reg, mainVars>>

LockFlag(l) ==
  /\ Step(l, "lock_flag", "flag")
  /\ flag_mutex = Free /\ flag_mutex' = l
  /\ UNCHANGED <<dataVars, swapVars, swapped, tmp, reg, mainVars>>

SetFlag(l) ==
  /\ Step(l, "flag", "unlock_flag")
  /\ swapped' = TRUE
  /\ UNCHANGED <<dataVars, swapVars, flag_mutex, tmp, reg, mainVars>>

UnlockFlag(l) ==
  /\ Step(l, "unlock_flag", "done")
  /\ flag_mutex' = Free
  /\ UNCHANGED <<dataVars, swapVars, swapped, tmp, reg, mainVars>>

ComparePair(l) ==
  \/ Compare(l) \/ WriteLeft(l) \/ WriteRight(l)
  \/ LockSwap(l) \/ LoadSwaps(l) \/ StoreSwaps(l) \/ UnlockSwap(l)
  \/ LockFlag(l) \/ SetFlag(l) \/ UnlockFlag(l)

Main == StartIteration \/ CreateThread \/ JoinThread \/ CheckSorted
Finished == main \in {"sorted", "error"} /\ UNCHANGED vars

Next == Main \/ (\E l \in Lefts : ComparePair(l)) \/ Finished

Spec == Init /\ [][Next]_vars

\* Main and its threads keep running; each mutex is taken at most once by
\* each of the threads of an iteration.
FairSpec ==
  Spec /\ WF_vars(Main) /\ \A l \in Lefts : WF_vars(ComparePair(l))

-----------------------------------------------------------------------------
Live(l) == pc[l] \notin {"none", "done"}

\* arr is not locked because no two live threads have a cell in common.
NoSharedCell ==
  \A l, r \in Lefts : l # r /\ Live(l) /\ Live(r) => {l, l + 1} \intersect {r, r + 1} = {}

\* The flag and the arguments of iterate() are used by threads only while
\* iterate() is running.
ThreadsEndFirst == main \notin {"create", "join"} => \A l \in Lefts : pc[l] = "none"

\* arr once the swaps under way are finished.
Settled ==
  [x \in Index |-> IF x - 1 \in Lefts /\ pc[x - 1] = "right" THEN tmp[x - 1] ELSE arr[x]]

\* The array is a rearrangement of what main was given, at every step but
\* for the values in the threads' hands.
Rearranged ==
  \A v \in Values :
    Cardinality({x \in Index : Settled[x] = v}) = Cardinality({x \in Index : initial[x] = v})

Inversions(a) == Cardinality({p \in Index \X Index : p[1] < p[2] /\ a[p[1]] > a[p[2]]})

\* "Nombre de swaps": after each iteration, and so when it is printed, the
\* total is the number of inversions that are gone, so no increment is lost
\* and no swap is useless.
CountsSwaps ==
  main = "check" => total_swaps + Inversions(arr) = Inversions(initial)

\* "converge en au plus N iterations" (line 163): the guard is never needed.
Converges ==
  /\ iteration <= ARRAY_SIZE
  /\ main # "error"
  /\ main = "sorted" => Sorted(arr)

\* The program ends.
Terminates == <>(main \in {"sorted", "error"})
=============================================================================
