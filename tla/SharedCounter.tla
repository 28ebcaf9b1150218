---------------------------- MODULE SharedCounter ---------------------------
(***************************************************************************)
(* The thread exercises that create threads, join them in turn and end:    *)
(* the counter of src/ex18_incr, incremented by nb_threads threads with or *)
(* without the mutex; src/ex15_mutex, the same with two threads and always *)
(* the mutex; src/ex17_deadlock, where two threads take two mutexes in     *)
(* opposite orders; and src/ex14_threads, where they share nothing. Only   *)
(* ex18 looks whether pthread_create failed.                               *)
(***************************************************************************)
EXTENDS Integers

CONSTANTS
  nb_threads,             \* argv[1] of ex18
  increments_per_thread   \* argv[2] of ex18, 100000 in ex15

ASSUME CounterAssumption ==
  nb_threads \in Nat \ {0} /\ increments_per_thread \in Nat \ {0}

Threads == 1..nb_threads \union {1, 2}
Unowned == 0
\* The mutexes of ex17; the others use the first one.
Mutexes == {"A", "B"}

VARIABLES
  program,    \* the exercise that runs
  use_mutex,  \* TRUE with --mutex
  counter,    \* the shared counter
  mutex,      \* mutex[m]: the thread that holds m
  pc,         \* pc[t]: where thread t is
  i,          \* i[t]: the increments thread t has finished
  reg,        \* reg[t]: the register thread t increments
  created,    \* the threads main has created
  joined,     \* the threads main has joined
  main        \* where main is

options == <<program, use_mutex>>
threadVars == <<counter, mutex, i, reg>>
mainVars == <<created, joined, main>>
vars == <<options, threadVars, pc, mainVars>>

Created == IF program = "ex18" THEN nb_threads ELSE 2
Increments == IF program \in {"ex15", "ex18"} THEN increments_per_thread ELSE 0

TypeOK ==
  /\ program \in {"ex14", "ex15", "ex17", "ex18"}
  /\ use_mutex \in BOOLEAN
  /\ counter \in 0..(Created * Increments)
  /\ mutex \in [Mutexes -> Threads \union {Unowned}]
  /\ pc \in [Threads -> {"none", "for", "load", "store", "unlock", "second", "both",
                        "one", "end"}]
  /\ i \in [Threads -> 0..increments_per_thread]
  /\ reg \in [Threads -> 0..(Created * Increments)]
  /\ created \in 0..Created
  /\ joined \in 0..Created
  /\ main \in {"create", "join", "end", "failed"}

Init ==
  /\ program \in {"ex14", "ex15", "ex17", "ex18"}
  /\ use_mutex \in IF program = "ex18" THEN BOOLEAN ELSE {TRUE}
  /\ counter = 0
  /\ mutex = [m \in Mutexes |-> Unowned]
  /\ pc = [t \in Threads |-> "none"]
  /\ i = [t \in Threads |-> 0]
  /\ reg = [t \in Threads |-> 0]
  /\ created = 0
  /\ joined = 0
  /\ main = "create"

-----------------------------------------------------------------------------
\* The process runs until main returns.
Running == main \in {"create", "join"}
Step(t, from, to) == Running /\ pc[t] = from /\ pc' = [pc EXCEPT ![t] = to]

\* pthread_create; when it fails main of ex18 returns, and the process ends.
CreateThread ==
  /\ main = "create"
  /\ \/ /\ created < Created
        /\ created' = created + 1
        /\ pc' = [pc EXCEPT ![created'] = "for"]
        /\ UNCHANGED main
     \/ /\ program = "ex18" /\ created < Created
        /\ main' = "failed"
        /\ UNCHANGED <<created, pc>>
     \/ /\ created = Created
        /\ main' = "join"
        /\ UNCHANGED <<created, pc>>
  /\ UNCHANGED <<options, threadVars, joined>>

\* Mutant: only the last thread is joined.
JoinThread_LastOnly ==
  /\ main = "join" /\ pc[Created] = "end"
  /\ joined' = Created
  /\ main' = "end"
  /\ UNCHANGED <<options, threadVars, pc, created>>

\* pthread_join of the threads in turn, then the result.
JoinThread ==
  /\ main = "join"
  /\ \/ /\ joined < Created /\ pc[joined + 1] = "end"
        /\ joined' = joined + 1
        /\ UNCHANGED main
     \/ /\ joined = Created
        /\ main' = "end"
        /\ UNCHANGED joined
  /\ UNCHANGED <<options, threadVars, pc, created>>

Take(t, m) == mutex[m] = Unowned /\ mutex' = [mutex EXCEPT ![m] = t]
Release(m) == mutex' = [mutex EXCEPT ![m] = Unowned]

\* Mutant: the mutex is taken whoever holds it.
Lock_NoWait(t) ==
  /\ i[t] < Increments /\ Step(t, "for", "load")
  /\ mutex' = [mutex EXCEPT !["A"] = t]
  /\ UNCHANGED <<options, counter, i, reg, mainVars>>

\* Mutant: the loop turns once more (i <= increments_per_thread).
Lock_OneMore(t) ==
  /\ Step(t, "for", "load")
  /\ IF use_mutex THEN Take(t, "A") ELSE UNCHANGED mutex
  /\ UNCHANGED <<options, counter, i, reg, mainVars>>

\* The for loop's test, then pthread_mutex_lock.
Lock(t) ==
  /\ i[t] < Increments /\ Step(t, "for", "load")
  /\ IF use_mutex THEN Take(t, "A") ELSE UNCHANGED mutex
  /\ UNCHANGED <<options, counter, i, reg, mainVars>>

\* counter++ : "lire counter dans un registre" ...
Load(t) ==
  /\ Step(t, "load", "store")
  /\ reg' = [reg EXCEPT ![t] = counter]
  /\ UNCHANGED <<options, counter, mutex, i, mainVars>>

\* ... "ajouter 1, ecrire le resultat dans counter".
Store(t) ==
  /\ Step(t, "store", "unlock")
  /\ counter' = reg[t] + 1
  /\ UNCHANGED <<options, mutex, i, reg, mainVars>>

\* Mutant: the unlock is forgotten.
Unlock_Forgotten(t) ==
  /\ Step(t, "unlock", "for")
  /\ i' = [i EXCEPT ![t] = @ + 1]
  /\ UNCHANGED <<options, counter, mutex, reg, mainVars>>

\* pthread_mutex_unlock and i++.
Unlock(t) ==
  /\ Step(t, "unlock", "for")
  /\ IF use_mutex THEN Release("A") ELSE UNCHANGED mutex
  /\ i' = [i EXCEPT ![t] = @ + 1]
  /\ UNCHANGED <<options, counter, reg, mainVars>>

EndLoop(t) ==
  /\ program # "ex17" /\ i[t] = Increments /\ Step(t, "for", "end")
  /\ UNCHANGED <<options, threadVars, mainVars>>

\* ex17: thread1 takes A and then B, thread2 B and then A.
First(t) == IF t = 1 THEN "A" ELSE "B"
Second(t) == IF t = 1 THEN "B" ELSE "A"

LockInTurn(t) ==
  /\ program = "ex17"
  /\ \/ Step(t, "for", "second") /\ Take(t, First(t))
     \/ Step(t, "second", "both") /\ Take(t, Second(t))
     \/ Step(t, "both", "one") /\ Release(Second(t))
     \/ Step(t, "one", "end") /\ Release(First(t))
  /\ UNCHANGED <<options, counter, i, reg, mainVars>>

Increment(t) == Lock(t) \/ Load(t) \/ Store(t) \/ Unlock(t) \/ EndLoop(t) \/ LockInTurn(t)
Main == CreateThread \/ JoinThread
\* "BLOQUE": each thread of ex17 holds the mutex the other waits for.
Deadlocked ==
  \A t \in {1, 2} : pc[t] = "second" /\ mutex[First(t)] = t
Finished == (~Running \/ Deadlocked) /\ UNCHANGED vars

Next == Main \/ (\E t \in Threads : Increment(t)) \/ Finished

Spec == Init /\ [][Next]_vars

\* Main and the threads keep running; the mutex is taken finitely often.
FairSpec ==
  Spec /\ WF_vars(Main) /\ \A t \in Threads : WF_vars(Increment(t))

-----------------------------------------------------------------------------
attendu == nb_threads * increments_per_thread

\* "--mutex -> toujours correct" (line 8): main prints CORRECT.
CorrectWithMutex ==
  main = "end" /\ use_mutex => counter = Created * Increments

\* What the race can do to the result without the mutex: increments are
\* lost, never invented, and two of them always remain, since each thread's
\* last store is after a load that is after all but one of its own stores.
RaceBounds ==
  main = "end" /\ program = "ex18" =>
    /\ counter <= attendu
    /\ counter >= IF nb_threads = 1 \/ increments_per_thread = 1
                    THEN increments_per_thread ELSE 2

\* The programs end, but for ex17 when both threads have taken their first
\* mutex: nothing else keeps a thread or main waiting for ever.
Terminates == <>(~Running \/ Deadlocked)
=============================================================================
