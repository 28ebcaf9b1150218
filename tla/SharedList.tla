----------------------------- MODULE SharedList -----------------------------
(***************************************************************************)
(* The linked list of src/ex19_linkedList/main.c: a producer thread adds   *)
(* NB_AJOUTS nodes behind the one main puts in, a consumer thread polls    *)
(* the size and displays the new nodes, and main joins both and displays   *)
(* the list. With --no-mutex the list's mutex is not used.                 *)
(*                                                                         *)
(* The list is the sequence of the values reachable from head; only the    *)
(* producer changes it and only at its end, so a walk along it reads what  *)
(* one look at its last step reads.                                        *)
(***************************************************************************)
EXTENDS Integers, Sequences

CONSTANTS
  NB_AJOUTS,  \* the nodes the producer adds
  Values      \* the octets /dev/urandom may give

ASSUME ListAssumption ==
  /\ NB_AJOUTS \in Nat \ {0}
  /\ Values \subseteq Nat /\ 0 \in Values

P == "producteur"
C == "consommateur"
Threads == {P, C}
Unowned == "unowned"

VARIABLES
  use_mutex,   \* FALSE with --no-mutex
  nodes,       \* the values in the list, from head on
  tail,        \* Liste.tail, which counts the nodes
  mutex,       \* the thread that holds Liste.mutex
  pc,          \* pc[t]: where thread t is
  nouveau,     \* the value of the node list_add was called with
  ajouts,      \* the nodes the producer has added
  dernier_lu,  \* the nodes the consumer has displayed
  taille_lue,  \* the consumer's local copy of tail
  got,         \* the values the consumer has displayed, -1 for no node
  main,        \* where main is
  shown        \* the values main has displayed at the end

listVars == <<nodes, tail>>
prodVars == <<nouveau, ajouts>>
consVars == <<dernier_lu, taille_lue, got>>
mainVars == <<main, shown>>
vars == <<use_mutex, listVars, mutex, pc, prodVars, consVars, mainVars>>

ProdLabels == {"fopen", "fread", "lock", "append", "link", "count", "unlock",
               "size", "sized", "usleep", "end", "failed"}
ConsLabels == {"while", "size", "read", "sized", "next", "get", "value",
               "got", "end"}

TypeOK ==
  /\ use_mutex \in BOOLEAN
  /\ nodes \in Seq(Values)
  /\ tail \in 0..(NB_AJOUTS + 1)
  /\ mutex \in Threads \union {Unowned}
  /\ pc[P] \in ProdLabels /\ pc[C] \in ConsLabels
  /\ nouveau \in Values
  /\ ajouts \in 0..NB_AJOUTS
  /\ dernier_lu \in 0..(NB_AJOUTS + 1)
  /\ taille_lue \in 0..(NB_AJOUTS + 1)
  /\ got \in Seq(Values \union {-1})
  /\ main \in {"join_prod", "join_cons", "show", "end"}
  /\ shown \in Seq(Values \union {-1})

\* main has parsed its arguments, added the first node and created both threads.
Init ==
  /\ use_mutex \in BOOLEAN
  /\ nodes = <<0>>
  /\ tail = 1
  /\ mutex = Unowned
  /\ pc = [t \in Threads |-> IF t = P THEN "fopen" ELSE "while"]
  /\ nouveau = 0
  /\ ajouts = 0
  /\ dernier_lu = 0
  /\ taille_lue = 0
  /\ got = <<>>
  /\ main = "join_prod"
  /\ shown = <<>>

-----------------------------------------------------------------------------
Step(t, from, to) == pc[t] = from /\ pc' = [pc EXCEPT ![t] = to]

\* if (use_mutex) pthread_mutex_lock / pthread_mutex_unlock
Lock(t) ==
  IF use_mutex THEN mutex = Unowned /\ mutex' = t ELSE UNCHANGED mutex
\* Mutant: the section is left without the unlock.
Unlock_Forgotten(t) == UNCHANGED mutex
Unlock(t) ==
  IF use_mutex THEN mutex' = Unowned ELSE UNCHANGED mutex

\* The value liste_get returns for an index.
\* Mutant: the walk goes one node too far (i <= index).
Node_OffByOne(index) == IF index + 1 < Len(nodes) THEN nodes[index + 2] ELSE -1
Node(index) == IF index < Len(nodes) THEN nodes[index + 1] ELSE -1

-----------------------------------------------------------------------------
(* The producer.                                                           *)

\* fopen("/dev/urandom"): on failure the thread returns.
OpenUrandom ==
  /\ Step(P, "fopen", "fread") \/ Step(P, "fopen", "failed")
  /\ UNCHANGED <<use_mutex, listVars, mutex, prodVars, consVars, mainVars>>

ReadUrandom ==
  /\ Step(P, "fread", "lock")
  /\ nouveau' \in Values
  /\ UNCHANGED <<use_mutex, listVars, mutex, ajouts, consVars, mainVars>>

ListAddLock ==
  /\ Step(P, "lock", "append")
  /\ Lock(P)
  /\ UNCHANGED <<use_mutex, listVars, prodVars, consVars, mainVars>>

\* Mutant: the mutex only covers the first of the two writes.
LinkNode_EarlyUnlock ==
  /\ Step(P, "append", "count") \/ Step(P, "link", "unlock")
  /\ nodes' = Append(nodes, nouveau)
  /\ mutex' = Unowned
  /\ UNCHANGED <<use_mutex, tail, prodVars, consVars, mainVars>>

\* courant->next = nouveau ...
LinkNode ==
  /\ Step(P, "append", "count") \/ Step(P, "link", "unlock")
  /\ nodes' = Append(nodes, nouveau)
  /\ UNCHANGED <<use_mutex, tail, mutex, prodVars, consVars, mainVars>>

\* ... and l->tail++. Without the mutex the two writes race with the
\* consumer's reads, and it may see the second one first.
CountNode ==
  /\ Step(P, "count", "unlock") \/ (~use_mutex /\ Step(P, "append", "link"))
  /\ tail' = tail + 1
  /\ UNCHANGED <<use_mutex, nodes, mutex, prodVars, consVars, mainVars>>

ListAddUnlock ==
  /\ Step(P, "unlock", "size")
  /\ Unlock(P)
  /\ UNCHANGED <<use_mutex, listVars, prodVars, consVars, mainVars>>

\* list_size for the message.
ProdSizeLock ==
  /\ Step(P, "size", "sized")
  /\ Lock(P)
  /\ UNCHANGED <<use_mutex, listVars, prodVars, consVars, mainVars>>

ProdSizeUnlock ==
  /\ Step(P, "sized", "usleep")
  /\ Unlock(P)
  /\ UNCHANGED <<use_mutex, listVars, prodVars, consVars, mainVars>>

\* usleep, and the for loop's i++ and test.
ProdSleep ==
  /\ Step(P, "usleep", IF ajouts + 1 < NB_AJOUTS THEN "fread" ELSE "end")
  /\ ajouts' = ajouts + 1
  /\ UNCHANGED <<use_mutex, listVars, mutex, nouveau, consVars, mainVars>>

-----------------------------------------------------------------------------
(* The consumer.                                                           *)

\* while (dernier_lu < NB_AJOUTS), after the usleep that ends each pass.
ConsWhile ==
  /\ Step(C, "while", IF dernier_lu < NB_AJOUTS THEN "size" ELSE "end")
  /\ UNCHANGED <<use_mutex, listVars, mutex, prodVars, consVars, mainVars>>

\* tail = list_size(liste)
ConsSizeLock ==
  /\ Step(C, "size", "read")
  /\ Lock(C)
  /\ UNCHANGED <<use_mutex, listVars, prodVars, consVars, mainVars>>

ConsSizeRead ==
  /\ Step(C, "read", "sized")
  /\ taille_lue' = tail
  /\ UNCHANGED <<use_mutex, listVars, mutex, prodVars, dernier_lu, got, mainVars>>

ConsSizeUnlock ==
  /\ Step(C, "sized", "next")
  /\ Unlock(C)
  /\ UNCHANGED <<use_mutex, listVars, prodVars, consVars, mainVars>>

\* Mutant: the loop takes the size for the last index.
ConsNext_OneMore ==
  /\ Step(C, "next", IF dernier_lu <= taille_lue THEN "get" ELSE "while")
  /\ UNCHANGED <<use_mutex, listVars, mutex, prodVars, consVars, mainVars>>

\* while (dernier_lu < tail)
ConsNext ==
  /\ Step(C, "next", IF dernier_lu < taille_lue THEN "get" ELSE "while")
  /\ UNCHANGED <<use_mutex, listVars, mutex, prodVars, consVars, mainVars>>

\* val = liste_get(liste, dernier_lu), its display, and dernier_lu++
ConsGetLock ==
  /\ Step(C, "get", "value")
  /\ Lock(C)
  /\ UNCHANGED <<use_mutex, listVars, prodVars, consVars, mainVars>>

ConsGetValue ==
  /\ Step(C, "value", "got")
  /\ got' = Append(got, Node(dernier_lu))
  /\ dernier_lu' = dernier_lu + 1
  /\ UNCHANGED <<use_mutex, listVars, mutex, prodVars, taille_lue, mainVars>>

ConsGetUnlock ==
  /\ Step(C, "got", "next")
  /\ Unlock(C)
  /\ UNCHANGED <<use_mutex, listVars, prodVars, consVars, mainVars>>

-----------------------------------------------------------------------------
(* main.                                                                   *)

\* Mutant: main does not wait for the producer.
JoinProducer_Detached ==
  /\ main = "join_prod"
  /\ main' = "join_cons"
  /\ UNCHANGED <<use_mutex, listVars, mutex, pc, prodVars, consVars, shown>>

JoinProducer ==
  /\ main = "join_prod" /\ pc[P] \in {"end", "failed"}
  /\ main' = "join_cons"
  /\ UNCHANGED <<use_mutex, listVars, mutex, pc, prodVars, consVars, shown>>

JoinConsumer ==
  /\ main = "join_cons" /\ pc[C] = "end"
  /\ main' = "show"
  /\ UNCHANGED <<use_mutex, listVars, mutex, pc, prodVars, consVars, shown>>

\* for (i = 0; i < list_size(liste); i++) liste_get(liste, i), then
\* list_destroy: the threads are gone, nobody contends.
ShowList ==
  /\ main = "show" /\ mutex = Unowned
  /\ shown' = [n \in 1..tail |-> Node(n - 1)]
  /\ main' = "end"
  /\ UNCHANGED <<use_mutex, listVars, mutex, pc, prodVars, consVars>>

Producer ==
  \/ OpenUrandom \/ ReadUrandom \/ ListAddLock \/ LinkNode \/ CountNode
  \/ ListAddUnlock \/ ProdSizeLock \/ ProdSizeUnlock \/ ProdSleep
Consumer ==
  \/ ConsWhile \/ ConsSizeLock \/ ConsSizeRead \/ ConsSizeUnlock \/ ConsNext
  \/ ConsGetLock \/ ConsGetValue \/ ConsGetUnlock
Main == JoinProducer \/ JoinConsumer \/ ShowList
Finished == main = "end" /\ UNCHANGED vars

Next == Producer \/ Consumer \/ Main \/ Finished

Spec == Init /\ [][Next]_vars

\* All threads keep running. The consumer polls for ever, so weak fairness
\* would let it take the mutex ahead of the producer each time; it sleeps
\* for SLEEP_CONS_US outside of the mutex on every pass, which gives the
\* producer its turn: strong fairness.
FairSpec == Spec /\ SF_vars(Producer) /\ SF_vars(Consumer) /\ WF_vars(Main)

-----------------------------------------------------------------------------
\* With the mutex the consumer displays the nodes of the list, all of them,
\* in order: list_add's "tail DOIT etre atomique" (line 51) keeps it from
\* asking for a node that is not linked yet.
ReadsInOrder ==
  use_mutex => got = SubSeq(nodes, 1, dernier_lu)

\* Whoever takes the mutex finds as many nodes as tail counts.
TailMatches == use_mutex /\ mutex = Unowned => tail = Len(nodes)

\* With the mutex main's last display is the whole list, each node once, and
\* what the consumer had displayed is the same, but for the last node at most.
ShowsAll ==
  use_mutex /\ main = "end" =>
    /\ shown = nodes
    /\ Len(nodes) = IF pc[P] = "failed" THEN 1 ELSE NB_AJOUTS + 1
    /\ got = shown \/ got = SubSeq(shown, 1, NB_AJOUTS)

\* The program ends unless the producer could not open /dev/urandom, in
\* either mode; then the consumer polls for ever.
Stops == <>(pc[P] = "failed") \/ <>(main = "end")

\* "Le consommateur tourne jusqu'a avoir lu tous les noeuds" (line 146).
ConsumerReadsAll == main = "end" => dernier_lu = Len(nodes)
=============================================================================
