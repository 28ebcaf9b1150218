-------------------------- MODULE SharedListProofs ---------------------------
(***************************************************************************)
(* What holds of SharedList for every number of nodes the producer adds.   *)
(***************************************************************************)
EXTENDS SharedList, SequenceTheorems, TLAPS

-----------------------------------------------------------------------------
(* The inductive invariant, in named parts.                                *)

\* Where the producer is tells how many nodes are linked and counted: each
\* once per turn of its loop, in either order.
Linked == pc[P] \in {"count", "unlock", "size", "sized", "usleep"}
Counted == pc[P] \in {"link", "unlock", "size", "sized", "usleep"}
ProdInv ==
  /\ Len(nodes) = ajouts + 1 + IF Linked THEN 1 ELSE 0
  /\ tail = ajouts + 1 + IF Counted THEN 1 ELSE 0
  /\ pc[P] \in {"fopen", "failed"} => ajouts = 0
  /\ IF pc[P] = "end" THEN ajouts = NB_AJOUTS ELSE ajouts < NB_AJOUTS

\* The consumer never asks for a node beyond the size it was told.
ConsInv ==
  /\ dernier_lu <= taille_lue /\ taille_lue <= tail
  /\ pc[C] \in {"get", "value"} => dernier_lu < taille_lue
  /\ pc[C] = "end" => dernier_lu >= NB_AJOUTS

\* A thread holds the mutex in its critical sections and nowhere else, and
\* with the mutex list_add links before it counts.
MutexInv ==
  use_mutex =>
    /\ pc[P] # "link"
    /\ mutex = P <=> pc[P] \in {"append", "count", "unlock", "sized"}
    /\ mutex = C <=> pc[C] \in {"read", "sized", "value", "got"}

\* With the mutex the consumer was told of linked nodes only.
LookInv ==
  use_mutex => /\ taille_lue <= Len(nodes)
               /\ got = SubSeq(nodes, 1, dernier_lu)

\* main's display comes after both threads.
MainInv ==
  /\ main # "join_prod" => pc[P] \in {"end", "failed"}
  /\ main \in {"show", "end"} => pc[C] = "end"
  /\ main = "end" => shown = nodes

ListInv == TypeOK /\ ProdInv /\ ConsInv /\ MutexInv /\ LookInv /\ MainInv

\* pc is only ever changed with EXCEPT.
PcInv == pc = [t \in Threads |-> pc[t]]

LEMMA InitListInv == Init => ListInv /\ PcInv
<1> SUFFICES ASSUME Init PROVE ListInv /\ PcInv
  OBVIOUS
<1>1. nodes \in Seq(Values) /\ Len(nodes) = 1 /\ <<>> \in Seq(Values \union {-1})
  BY ListAssumption DEF ListAssumption, Init
<1>2. SubSeq(nodes, 1, 0) = <<>>
  BY <1>1, SubSeqProperties DEF Init
<1> QED
  BY <1>1, <1>2, ListAssumption
  DEF ListAssumption, Init, ListInv, PcInv, TypeOK, ProdInv, ConsInv, MutexInv, LookInv,
      MainInv, Linked, Counted, Threads, P, C, Unowned, ProdLabels, ConsLabels

\* A step moves one thread.
LEMMA StepMoves ==
  ASSUME PcInv, NEW t \in Threads, NEW from, NEW to, Step(t, from, to)
  PROVE  /\ PcInv' /\ pc[t] = from /\ pc'[t] = to
         /\ \A s \in Threads : s # t => pc'[s] = pc[s]
BY DEF PcInv, Step

\* A longer list keeps what was read of it.
LEMMA SubSeqAppend ==
  ASSUME NEW S, NEW s \in Seq(S), NEW v \in S, NEW n \in Nat, n <= Len(s)
  PROVE  SubSeq(Append(s, v), 1, n) = SubSeq(s, 1, n)
<1>1. /\ Append(s, v) \in Seq(S) /\ Len(Append(s, v)) = Len(s) + 1 /\ Len(s) \in Nat
      /\ \A i \in 1..Len(s) : Append(s, v)[i] = s[i]
  BY AppendProperties, LenProperties
<1> QED
  BY <1>1

\* One more element.
LEMMA SubSeqNext ==
  ASSUME NEW S, NEW s \in Seq(S), NEW n \in Nat, n < Len(s)
  PROVE  Append(SubSeq(s, 1, n), s[n + 1]) = SubSeq(s, 1, n + 1)
<1>1. Len(s) \in Nat
  BY LenProperties
<1>2. \A i \in 1..(n + 1) : s[i] \in S
  BY <1>1, ElementOfSeq
<1>3. /\ SubSeq(s, 1, n) \in Seq(S) /\ Len(SubSeq(s, 1, n)) = n
      /\ \A i \in 1..n : SubSeq(s, 1, n)[i] = s[i]
  BY <1>2, SubSeqProperties
<1>4. /\ SubSeq(s, 1, n + 1) \in Seq(S) /\ Len(SubSeq(s, 1, n + 1)) = n + 1
      /\ \A i \in 1..(n + 1) : SubSeq(s, 1, n + 1)[i] = s[i]
  BY <1>2, SubSeqProperties
<1>5. s[n + 1] \in S
  BY <1>2
<1>6. /\ Append(SubSeq(s, 1, n), s[n + 1]) \in Seq(S)
      /\ Len(Append(SubSeq(s, 1, n), s[n + 1])) = n + 1
      /\ \A i \in 1..n : Append(SubSeq(s, 1, n), s[n + 1])[i] = s[i]
      /\ Append(SubSeq(s, 1, n), s[n + 1])[n + 1] = s[n + 1]
  BY <1>3, <1>5, AppendProperties
<1>7. \A i \in 1..(n + 1) : Append(SubSeq(s, 1, n), s[n + 1])[i] = SubSeq(s, 1, n + 1)[i]
  BY <1>4, <1>6
<1> QED
  BY <1>4, <1>6, <1>7, SeqEqual

LEMMA ProducerStep ==
  ASSUME ListInv, PcInv, Producer
  PROVE  ListInv' /\ PcInv'
<1>0. /\ use_mutex \in BOOLEAN /\ nodes \in Seq(Values) /\ nouveau \in Values
      /\ NB_AJOUTS \in Nat \ {0} /\ Len(nodes) \in Nat
      /\ P \in Threads /\ C \in Threads /\ P # C /\ Unowned \notin Threads
      /\ ajouts \in Nat /\ tail \in Nat /\ dernier_lu \in Nat /\ taille_lue \in Nat
  BY ListAssumption, LenProperties
  DEF ListAssumption, ListInv, TypeOK, Threads, P, C, Unowned
<1>1. \E from, to : Step(P, from, to) /\ from \notin {"end", "failed"}
  BY DEF Producer, OpenUrandom, ReadUrandom, ListAddLock, LinkNode, CountNode,
     ListAddUnlock, ProdSizeLock, ProdSizeUnlock, ProdSleep
<1>2. PcInv' /\ pc'[C] = pc[C] /\ pc[P] \notin {"end", "failed"}
  BY <1>0, <1>1, StepMoves DEF Step
<1>3. UNCHANGED <<use_mutex, consVars, mainVars>>
  BY DEF Producer, OpenUrandom, ReadUrandom, ListAddLock, LinkNode, CountNode,
     ListAddUnlock, ProdSizeLock, ProdSizeUnlock, ProdSleep
<1>4. main = "join_prod" /\ MainInv'
  BY <1>2, <1>3 DEF ListInv, MainInv, mainVars
<1>5. CASE OpenUrandom
  <2>1. pc[P] = "fopen" /\ pc'[P] \in {"fread", "failed"}
    BY <1>0, <1>5, StepMoves DEF OpenUrandom
  <2>2. UNCHANGED <<nodes, tail, mutex, nouveau, ajouts>>
    BY <1>5 DEF OpenUrandom, listVars, prodVars
  <2>3. ProdInv' /\ ConsInv' /\ MutexInv' /\ LookInv'
    BY <1>0, <1>2, <1>3, <2>1, <2>2 DEF ListInv, ProdInv, ConsInv, MutexInv, LookInv, Linked,
       Counted, consVars
  <2> QED
    BY <1>2, <1>3, <1>4, <2>1, <2>2, <2>3 DEF ListInv, TypeOK, ProdLabels, consVars, mainVars
<1>6. CASE ReadUrandom
  <2>1. pc[P] = "fread" /\ pc'[P] = "lock"
    BY <1>0, <1>6, StepMoves DEF ReadUrandom
  <2> QED
    BY <1>0, <1>2, <1>3, <1>4, <1>6, <2>1 DEF ReadUrandom, ListInv, TypeOK, ProdInv, ConsInv,
       MutexInv, LookInv, Linked, Counted, ProdLabels, listVars, prodVars, consVars, mainVars
<1>7. CASE ListAddLock \/ ProdSizeLock
  <2>1. \/ pc[P] = "lock" /\ pc'[P] = "append"
        \/ pc[P] = "size" /\ pc'[P] = "sized"
    BY <1>0, <1>7, StepMoves DEF ListAddLock, ProdSizeLock
  <2>2. mutex' \in Threads \union {Unowned}
        /\ (use_mutex => mutex = Unowned /\ mutex' = P)
    BY <1>0, <1>7 DEF ListAddLock, ProdSizeLock, Lock, ListInv, TypeOK
  <2>3. MutexInv'
    BY <1>0, <1>2, <1>3, <2>1, <2>2 DEF ListInv, MutexInv
  <2> QED
    BY <1>0, <1>2, <1>3, <1>4, <1>7, <2>1, <2>2, <2>3 DEF ListAddLock, ProdSizeLock, ListInv,
       TypeOK, ProdInv, ConsInv, LookInv, Linked, Counted, ProdLabels, listVars, prodVars,
       consVars, mainVars
<1>8. CASE ListAddUnlock \/ ProdSizeUnlock
  <2>1. \/ pc[P] = "unlock" /\ pc'[P] = "size"
        \/ pc[P] = "sized" /\ pc'[P] = "usleep"
    BY <1>0, <1>8, StepMoves DEF ListAddUnlock, ProdSizeUnlock
  <2>2. mutex' \in Threads \union {Unowned} /\ (use_mutex => mutex' = Unowned)
    BY <1>0, <1>8 DEF ListAddUnlock, ProdSizeUnlock, Unlock, ListInv, TypeOK
  <2>3. MutexInv'
    BY <1>0, <1>2, <1>3, <2>1, <2>2 DEF ListInv, MutexInv
  <2> QED
    BY <1>0, <1>2, <1>3, <1>4, <1>8, <2>1, <2>2, <2>3 DEF ListAddUnlock, ProdSizeUnlock, ListInv,
       TypeOK, ProdInv, ConsInv, LookInv, Linked, Counted, ProdLabels, listVars, prodVars,
       consVars, mainVars
<1>9. CASE LinkNode
  <2>1. \/ pc[P] = "append" /\ pc'[P] = "count"
        \/ pc[P] = "link" /\ pc'[P] = "unlock"
    BY <1>0, <1>9, StepMoves DEF LinkNode
  <2>2. /\ nodes' = Append(nodes, nouveau) /\ nodes' \in Seq(Values)
        /\ Len(nodes') = Len(nodes) + 1
        /\ UNCHANGED <<tail, mutex, nouveau, ajouts>>
    BY <1>0, <1>9, AppendProperties DEF LinkNode, prodVars
  <2>3. LookInv'
    <3>1. use_mutex => dernier_lu <= Len(nodes)
      BY <1>0 DEF ListInv, LookInv, ConsInv
    <3> QED
      BY <1>0, <1>3, <2>2, <3>1, SubSeqAppend DEF ListInv, LookInv, consVars
  <2> QED
    BY <1>0, <1>2, <1>3, <1>4, <2>1, <2>2, <2>3 DEF ListInv, TypeOK, ProdInv, ConsInv,
       MutexInv, Linked, Counted, ProdLabels, consVars, mainVars
<1>10. CASE CountNode
  <2>1. \/ pc[P] = "count" /\ pc'[P] = "unlock"
        \/ pc[P] = "append" /\ pc'[P] = "link" /\ ~use_mutex
    BY <1>0, <1>10, StepMoves DEF CountNode
  <2>2. tail' = tail + 1 /\ UNCHANGED <<nodes, mutex, nouveau, ajouts>>
    BY <1>10 DEF CountNode, prodVars
  <2>3. ProdInv'
    BY <1>0, <1>2, <2>1, <2>2 DEF ListInv, TypeOK, ProdInv, Linked, Counted
  <2>4. MutexInv'
    BY <1>0, <1>2, <1>3, <2>1, <2>2 DEF ListInv, MutexInv
  <2>5. TypeOK'
    <3>1. tail' \in 0..(NB_AJOUTS + 1)
      BY <1>0, <2>1, <2>2 DEF ListInv, TypeOK, ProdInv, Counted
    <3>2. pc'[P] \in ProdLabels
      BY <2>1 DEF ProdLabels
    <3> QED
      BY <1>2, <1>3, <2>2, <3>1, <3>2 DEF ListInv, TypeOK, consVars, mainVars
  <2>6. ConsInv' /\ LookInv'
    BY <1>0, <1>2, <1>3, <2>2 DEF ListInv, ConsInv, LookInv, consVars
  <2> QED
    BY <1>2, <1>4, <2>3, <2>4, <2>5, <2>6 DEF ListInv
<1>11. CASE ProdSleep
  <2>1. /\ pc[P] = "usleep"
        /\ pc'[P] = IF ajouts + 1 < NB_AJOUTS THEN "fread" ELSE "end"
    BY <1>0, <1>11, StepMoves DEF ProdSleep
  <2>2. ajouts' = ajouts + 1 /\ UNCHANGED <<nodes, tail, mutex, nouveau>>
    BY <1>11 DEF ProdSleep, listVars
  <2> QED
    BY <1>0, <1>2, <1>3, <1>4, <2>1, <2>2 DEF ListInv, TypeOK, ProdInv, ConsInv,
       MutexInv, LookInv, Linked, Counted, ProdLabels, consVars, mainVars
<1> QED
  BY <1>5, <1>6, <1>7, <1>8, <1>9, <1>10, <1>11 DEF Producer

LEMMA ConsumerStep ==
  ASSUME ListInv, PcInv, Consumer
  PROVE  ListInv' /\ PcInv'
<1>0. /\ use_mutex \in BOOLEAN /\ nodes \in Seq(Values)
      /\ NB_AJOUTS \in Nat \ {0} /\ Len(nodes) \in Nat
      /\ P \in Threads /\ C \in Threads /\ P # C /\ Unowned \notin Threads
      /\ ajouts \in Nat /\ tail \in Nat /\ dernier_lu \in Nat /\ taille_lue \in Nat
  BY ListAssumption, LenProperties
  DEF ListAssumption, ListInv, TypeOK, Threads, P, C, Unowned
<1>1. \E from, to : Step(C, from, to) /\ from # "end"
  BY DEF Consumer, ConsWhile, ConsSizeLock, ConsSizeRead, ConsSizeUnlock, ConsNext,
     ConsGetLock, ConsGetValue, ConsGetUnlock
<1>2. PcInv' /\ pc'[P] = pc[P] /\ pc[C] # "end"
  BY <1>0, <1>1, StepMoves
<1>3. UNCHANGED <<use_mutex, listVars, prodVars, mainVars>>
  BY DEF Consumer, ConsWhile, ConsSizeLock, ConsSizeRead, ConsSizeUnlock, ConsNext,
     ConsGetLock, ConsGetValue, ConsGetUnlock
<1>4. MainInv' /\ ProdInv'
  <2>1. main \notin {"show", "end"}
    BY <1>2 DEF ListInv, MainInv
  <2> QED
    BY <1>2, <1>3, <2>1 DEF ListInv, MainInv, ProdInv, Linked, Counted, listVars, prodVars,
       mainVars
<1>5. CASE ConsWhile \/ ConsNext
  <2>1. \/ pc[C] = "while" /\ pc'[C] = "size"
        \/ pc[C] = "while" /\ pc'[C] = "end" /\ dernier_lu >= NB_AJOUTS
        \/ pc[C] = "next" /\ pc'[C] = "get" /\ dernier_lu < taille_lue
        \/ pc[C] = "next" /\ pc'[C] = "while"
    BY <1>0, <1>5, StepMoves DEF ConsWhile, ConsNext
  <2>2. UNCHANGED <<mutex, consVars>>
    BY <1>5 DEF ConsWhile, ConsNext
  <2> QED
    BY <1>0, <1>2, <1>3, <1>4, <2>1, <2>2 DEF ListInv, TypeOK, ConsInv, MutexInv, LookInv,
       ConsLabels, listVars, prodVars, consVars, mainVars
<1>6. CASE ConsSizeLock \/ ConsGetLock
  <2>1. \/ pc[C] = "size" /\ pc'[C] = "read"
        \/ pc[C] = "get" /\ pc'[C] = "value"
    BY <1>0, <1>6, StepMoves DEF ConsSizeLock, ConsGetLock
  <2>2. /\ mutex' \in Threads \union {Unowned}
        /\ use_mutex => mutex = Unowned /\ mutex' = C
        /\ UNCHANGED consVars
    BY <1>0, <1>6 DEF ConsSizeLock, ConsGetLock, Lock, ListInv, TypeOK
  <2>3. MutexInv'
    BY <1>0, <1>2, <1>3, <2>1, <2>2 DEF ListInv, MutexInv
  <2> QED
    BY <1>0, <1>2, <1>3, <1>4, <2>1, <2>2, <2>3 DEF ListInv, TypeOK, ConsInv, LookInv,
       ConsLabels, listVars, prodVars, consVars, mainVars
<1>7. CASE ConsSizeUnlock \/ ConsGetUnlock
  <2>1. pc[C] \in {"sized", "got"} /\ pc'[C] = "next"
    BY <1>0, <1>7, StepMoves DEF ConsSizeUnlock, ConsGetUnlock
  <2>2. /\ mutex' \in Threads \union {Unowned} /\ (use_mutex => mutex' = Unowned)
        /\ UNCHANGED consVars
    BY <1>0, <1>7 DEF ConsSizeUnlock, ConsGetUnlock, Unlock, ListInv, TypeOK
  <2>3. MutexInv'
    BY <1>0, <1>2, <1>3, <2>1, <2>2 DEF ListInv, MutexInv
  <2> QED
    BY <1>0, <1>2, <1>3, <1>4, <2>1, <2>2, <2>3 DEF ListInv, TypeOK, ConsInv, LookInv,
       ConsLabels, listVars, prodVars, consVars, mainVars
<1>8. CASE ConsSizeRead
  <2>1. pc[C] = "read" /\ pc'[C] = "sized"
    BY <1>0, <1>8, StepMoves DEF ConsSizeRead
  <2>2. taille_lue' = tail /\ UNCHANGED <<mutex, dernier_lu, got>>
    BY <1>8 DEF ConsSizeRead
  <2>3. use_mutex => tail = Len(nodes)
    BY <1>0, <2>1 DEF ListInv, MutexInv, ProdInv, Linked, Counted
  <2>4. LookInv'
    BY <1>0, <1>3, <2>2, <2>3 DEF ListInv, LookInv, listVars
  <2> QED
    BY <1>0, <1>2, <1>3, <1>4, <2>1, <2>2, <2>4 DEF ListInv, TypeOK, ConsInv, MutexInv,
       ConsLabels, listVars, prodVars, mainVars
<1>9. CASE ConsGetValue
  <2>1. pc[C] = "value" /\ pc'[C] = "got"
    BY <1>0, <1>9, StepMoves DEF ConsGetValue
  <2>2. /\ got' = Append(got, Node(dernier_lu)) /\ dernier_lu' = dernier_lu + 1
        /\ UNCHANGED <<mutex, taille_lue>>
    BY <1>9 DEF ConsGetValue
  <2>3. Node(dernier_lu) \in Values \union {-1}
    BY <1>0, ElementOfSeq DEF Node
  <2>4. got' \in Seq(Values \union {-1})
    BY <2>2, <2>3, AppendProperties DEF ListInv, TypeOK
  <2>5. LookInv'
    <3>1. use_mutex => dernier_lu < Len(nodes) /\ Node(dernier_lu) = nodes[dernier_lu + 1]
      BY <1>0, <2>1 DEF ListInv, LookInv, ConsInv, Node
    <3> QED
      BY <1>0, <1>3, <2>2, <3>1, SubSeqNext DEF ListInv, LookInv, listVars
  <2>6. dernier_lu' <= taille_lue /\ dernier_lu' \in 0..(NB_AJOUTS + 1)
    BY <1>0, <2>1, <2>2 DEF ListInv, TypeOK, ConsInv
  <2> QED
    BY <1>0, <1>2, <1>3, <1>4, <2>1, <2>2, <2>4, <2>5, <2>6 DEF ListInv, TypeOK, ConsInv,
       MutexInv, ConsLabels, listVars, prodVars, mainVars
<1> QED
  BY <1>5, <1>6, <1>7, <1>8, <1>9 DEF Consumer

LEMMA MainStep ==
  ASSUME ListInv, PcInv, Main
  PROVE  ListInv' /\ PcInv'
<1>0. UNCHANGED <<use_mutex, listVars, mutex, pc, prodVars, consVars>>
  BY DEF Main, JoinProducer, JoinConsumer, ShowList
<1>1. ProdInv' /\ ConsInv' /\ MutexInv' /\ LookInv' /\ PcInv'
  BY <1>0 DEF ListInv, PcInv, ProdInv, ConsInv, MutexInv, LookInv, Linked, Counted,
     listVars, prodVars, consVars
<1>2. CASE JoinProducer \/ JoinConsumer
  <2>1. /\ main' = "join_cons" \/ (main' = "show" /\ pc[C] = "end")
        /\ shown' = shown /\ pc[P] \in {"end", "failed"}
    BY <1>2 DEF JoinProducer, JoinConsumer, ListInv, MainInv
  <2> QED
    BY <1>0, <1>1, <2>1 DEF ListInv, TypeOK, MainInv, listVars, prodVars, consVars
<1>3. CASE ShowList
  <2>1. /\ main = "show" /\ main' = "end" /\ shown' = [n \in 1..tail |-> Node(n - 1)]
        /\ nodes \in Seq(Values) /\ Len(nodes) \in Nat /\ ajouts \in Nat
    BY <1>3, LenProperties DEF ShowList, ListInv, TypeOK
  <2>2. pc[P] \in {"end", "failed"} /\ tail = Len(nodes)
    BY <2>1 DEF ListInv, MainInv, ProdInv, Linked, Counted
  <2>3. \A n \in 1..tail : Node(n - 1) = nodes[n]
    BY <2>1, <2>2 DEF Node
  <2>4. nodes = [n \in 1..Len(nodes) |-> nodes[n]]
    BY <2>1, LenProperties
  <2>5. shown' = nodes
    BY <2>1, <2>2, <2>3, <2>4
  <2>6. nodes \in Seq(Values \union {-1})
    BY <2>1
  <2> QED
    BY <1>0, <1>1, <2>1, <2>2, <2>5, <2>6 DEF ListInv, TypeOK, MainInv, listVars, prodVars, consVars
<1> QED
  BY <1>2, <1>3 DEF Main

LEMMA NextListInv == ListInv /\ PcInv /\ [Next]_vars => ListInv' /\ PcInv'
<1> SUFFICES ASSUME ListInv, PcInv, [Next]_vars PROVE ListInv' /\ PcInv'
  OBVIOUS
<1>1. CASE UNCHANGED vars
  BY <1>1 DEF ListInv, PcInv, TypeOK, ProdInv, ConsInv, MutexInv, LookInv, MainInv, Linked,
     Counted, vars, listVars, prodVars, consVars, mainVars
<1> QED
  BY <1>1, ProducerStep, ConsumerStep, MainStep DEF Next, Finished

-----------------------------------------------------------------------------
\* The counters of nodes and of lines stay in their ranges, whatever the
\* interleaving, with and without the mutex.
THEOREM TypeCorrect == Spec => []TypeOK
<1> QED
  BY InitListInv, NextListInv, PTL DEF Spec, ListInv

\* With the mutex, the consumer displays the nodes of the list in order and
\* never asks for one that is not linked.
THEOREM OrderCorrect == Spec => []ReadsInOrder
<1>1. ListInv => ReadsInOrder
  BY DEF ListInv, LookInv, ReadsInOrder
<1> QED
  BY <1>1, InitListInv, NextListInv, PTL DEF Spec

\* With the mutex, tail counts the linked nodes whenever the mutex is free.
THEOREM TailCorrect == Spec => []TailMatches
<1>1. ListInv => TailMatches
  BY LenProperties DEF ListInv, TypeOK, ProdInv, MutexInv, TailMatches,
     Linked, Counted, P, C, Unowned
<1> QED
  BY <1>1, InitListInv, NextListInv, PTL DEF Spec

\* With the mutex, main's last display is the whole list, and the consumer's
\* display is its beginning, with one node less at most.
THEOREM DisplayCorrect == Spec => []ShowsAll
<1>1. ListInv => ShowsAll
  <2> SUFFICES ASSUME ListInv, use_mutex, main = "end"
               PROVE  /\ shown = nodes
                      /\ Len(nodes) = IF pc[P] = "failed" THEN 1 ELSE NB_AJOUTS + 1
                      /\ got = shown \/ got = SubSeq(shown, 1, NB_AJOUTS)
    BY DEF ShowsAll
  <2>1. /\ pc[P] \in {"end", "failed"} /\ shown = nodes /\ ajouts \in Nat
        /\ NB_AJOUTS \in Nat \ {0} /\ nodes \in Seq(Values)
    BY ListAssumption DEF ListAssumption, ListInv, MainInv, TypeOK
  <2>2. Len(nodes) = IF pc[P] = "failed" THEN 1 ELSE NB_AJOUTS + 1
    BY <2>1 DEF ListInv, ProdInv, Linked
  <2>3. /\ dernier_lu \in NB_AJOUTS..(NB_AJOUTS + 1) /\ dernier_lu <= Len(nodes)
        /\ got = SubSeq(nodes, 1, dernier_lu)
    BY <2>1, <2>2 DEF ListInv, TypeOK, MainInv, ConsInv, LookInv
  <2>4. CASE dernier_lu = NB_AJOUTS
    BY <2>1, <2>2, <2>3, <2>4
  <2>5. CASE dernier_lu = NB_AJOUTS + 1
    <3>1. dernier_lu = Len(nodes)
      BY <2>1, <2>2, <2>3, <2>5
    <3>2. got = nodes
      BY <2>1, <2>3, <3>1
    <3> QED
      BY <2>1, <2>2, <3>2
  <2> QED
    BY <2>1, <2>3, <2>4, <2>5
<1> QED
  BY <1>1, InitListInv, NextListInv, PTL DEF Spec
=============================================================================
