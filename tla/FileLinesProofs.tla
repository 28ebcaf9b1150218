--------------------------- MODULE FileLinesProofs ---------------------------
(***************************************************************************)
(* What the file service makes of its files and tells its clients, for     *)
(* every number of clients, commands, files and deaths of the server: the  *)
(* lines are whole but for one per death, a file is created once, lines    *)
(* answered OK stay, and READ returns the beginning of the file. Then, a   *)
(* server nobody kills survives its clients, and every server implements   *)
(* one atomic store, across its deaths and restarts.                       *)
(***************************************************************************)
EXTENDS FileServiceProofs, FiniteSetTheorems, FunctionTheorems

\* No path is longer than FileLock.path.
PathsFit == \A f \in Files : Stored[f] = f

LEMMA FileMutexInv == TypeInv /\ LockInv /\ PathsFit => FileMutex
<1> SUFFICES ASSUME TypeInv, LockInv, PathsFit,
                    NEW j \in Conns, NEW k \in Conns, j # k,
                    Accessing(j), Accessing(k), Path(j) = Path(k)
             PROVE  FALSE
  BY DEF FileMutex
<1>1. slot[j] \in Slots /\ slot[k] \in Slots
  BY DEF TypeInv, TypeOK, ServerTypeOK, LockInv, OwnInv, HasEntry, Accessing
<1>2. file_locks[slot[j]] = Stored[Path(j)] /\ file_locks[slot[k]] = Stored[Path(j)]
  BY <1>1, ServerAssumption DEF ServerAssumption, Slots, LockInv, EntryInv, Accessing
<1>3. Stored[Path(j)] # Free
  BY ConstantTypes, ServerAssumption DEF ServerAssumption
<1>4. slot[j] = slot[k]
  BY <1>1, <1>2, <1>3 DEF LockInv, OneEntryPerFile, PathsFit
<1>5. lock[slot[j]] = j /\ lock[slot[k]] = k
  BY DEF LockInv, HeldInv, HoldsLock, Accessing
<1> QED
  BY <1>4, <1>5

-----------------------------------------------------------------------------
(* Lines. Appending data adds one position without a line end; appending NL *)
(* after data ends the line it follows.                                     *)

Open(s) == {p \in 1..Len(s) : s[p] # NL /\ (p < Len(s) => s[p + 1] # NL)}

LEMMA OpenFinite ==
  ASSUME NEW s \in Seq(Token)
  PROVE  IsFiniteSet(Open(s)) /\ Cardinality(Open(s)) \in Nat
<1>1. IsFiniteSet(1..Len(s))
  BY LenProperties, FS_Interval
<1>2. Open(s) \in SUBSET (1..Len(s))
  BY DEF Open
<1> QED
  BY <1>1, <1>2, FS_Subset, FS_CardinalityType

LEMMA OpenData ==
  ASSUME NEW s \in Seq(Token), NEW d \in Token, d # NL
  PROVE  Cardinality(Open(Append(s, d))) <= Cardinality(Open(s)) + 1
<1>1. /\ Len(s) \in Nat /\ Len(Append(s, d)) = Len(s) + 1
      /\ Append(s, d)[Len(s) + 1] = d
      /\ \A p \in 1..Len(s) : Append(s, d)[p] = s[p]
  BY AppendProperties, LenProperties
<1>2. Open(Append(s, d)) \in SUBSET (Open(s) \union {Len(s) + 1})
  <2> SUFFICES ASSUME NEW p \in Open(Append(s, d)), p # Len(s) + 1
               PROVE  p \in Open(s)
    OBVIOUS
  <2>1. p \in 1..Len(s) /\ s[p] # NL /\ Append(s, d)[p + 1] # NL
    BY <1>1 DEF Open
  <2> QED
    BY <1>1, <2>1 DEF Open
<1>3. IsFiniteSet(Open(s)) /\ Cardinality(Open(s)) \in Nat
  BY OpenFinite
<1>4. /\ IsFiniteSet(Open(s) \union {Len(s) + 1})
      /\ \/ Cardinality(Open(s) \union {Len(s) + 1}) = Cardinality(Open(s))
         \/ Cardinality(Open(s) \union {Len(s) + 1}) = Cardinality(Open(s)) + 1
  BY <1>3, FS_AddElement, Zenon
<1>5. Cardinality(Open(Append(s, d))) \in Nat
  BY AppendProperties, OpenFinite
<1>6. Cardinality(Open(Append(s, d))) <= Cardinality(Open(s) \union {Len(s) + 1})
  BY <1>2, <1>4, FS_Subset, Zenon
<1> QED
  BY <1>3, <1>4, <1>5, <1>6

LEMMA OpenNewline ==
  ASSUME NEW s \in Seq(Token), s # <<>>, s[Len(s)] # NL
  PROVE  Cardinality(Open(Append(s, NL))) <= Cardinality(Open(s)) - 1
<1>0. NL \in Token
  BY DEF Token
<1>1. /\ Len(s) \in Nat /\ Len(s) > 0 /\ Len(Append(s, NL)) = Len(s) + 1
      /\ Append(s, NL)[Len(s) + 1] = NL
      /\ \A p \in 1..Len(s) : Append(s, NL)[p] = s[p]
  BY <1>0, AppendProperties, LenProperties, EmptySeq
<1>2. Open(Append(s, NL)) \in SUBSET (Open(s) \ {Len(s)})
  <2> SUFFICES ASSUME NEW p \in Open(Append(s, NL))
               PROVE  p \in Open(s) /\ p # Len(s)
    OBVIOUS
  <2>1. p \in 1..Len(s) /\ s[p] # NL /\ Append(s, NL)[p + 1] # NL
    BY <1>1 DEF Open
  <2> QED
    BY <1>1, <2>1 DEF Open
<1>3. IsFiniteSet(Open(s)) /\ Cardinality(Open(s)) \in Nat /\ Len(s) \in Open(s)
  BY <1>1, OpenFinite DEF Open
<1>4. /\ IsFiniteSet(Open(s) \ {Len(s)})
      /\ Cardinality(Open(s) \ {Len(s)}) = Cardinality(Open(s)) - 1
  BY <1>3, FS_RemoveElement
<1> QED
  BY <1>2, <1>4, FS_Subset

-----------------------------------------------------------------------------
(* Beside WholeLines: what a thread about to write the line end finds at    *)
(* the end of its file is data, so the line end it writes is its own.       *)

AtEnd(f) == \E k \in Conns : At(k, "nl") /\ Path(k) = f
Ended(s) == \A p \in 1..Len(s) : s[p] = NL => p > 1 /\ s[p - 1] # NL

LineInv(f) ==
  disk[f] # Absent =>
    /\ Ended(disk[f])
    /\ AtEnd(f) => disk[f] # <<>> /\ disk[f][Len(disk[f])] # NL
    /\ Cardinality(Open(disk[f])) <= deaths + (IF AtEnd(f) THEN 1 ELSE 0)

LinesInv == PathsFit => \A f \in Files \ FullFiles : LineInv(f)

LEMMA InitLinesInv == Init => LinesInv
<1> SUFFICES ASSUME Init, NEW f \in Files, disk[f] # Absent PROVE LineInv(f)
  BY DEF LinesInv, LineInv
<1>1. disk[f] = <<>> /\ deaths = 0 /\ ~AtEnd(f)
  BY DEF Init, ServerInit, AtEnd, At
<1>2. Open(disk[f]) = {} /\ Ended(disk[f])
  BY <1>1 DEF Open, Ended
<1>3. Cardinality(Open(disk[f])) = 0
  BY <1>2, FS_EmptySet
<1> QED
  BY <1>1, <1>2, <1>3 DEF LineInv

\* A step that leaves a file alone keeps its lines, unless a thread enters
\* or leaves "nl" on it without a death.
LEMMA LinesAlone ==
  ASSUME NEW f \in Files, LineInv(f), disk[f] \in Seq(Token) \union {Absent},
         deaths \in Nat, disk'[f] = disk[f],
         \/ deaths' = deaths /\ AtEnd(f)' = AtEnd(f)
         \/ deaths' = deaths + 1 /\ ~AtEnd(f)'
  PROVE  LineInv(f)'
<1>1. CASE disk[f] = Absent
  BY <1>1 DEF LineInv
<1>2. CASE disk[f] # Absent
  <2>1. Cardinality(Open(disk[f])) \in Nat
    BY <1>2, OpenFinite
  <2> QED
    BY <1>2, <2>1 DEF LineInv
<1> QED
  BY <1>1, <1>2

\* The two write() of op_append and the open() of op_create.
LEMMA LinesCreate ==
  ASSUME TypeInv, NEW k \in Conns, NEW f \in Files, LineInv(f), OpCreate(k)
  PROVE  LineInv(f)'
<1>0. /\ disk \in [Files -> Seq(Token) \union {Absent}] /\ pc \in [Conns -> Labels]
      /\ deaths \in Nat /\ Path(k) \in Files
  BY ConstantTypes DEF TypeInv, TypeOK, ServerTypeOK
<1>1. deaths' = deaths /\ AtEnd(f)' = AtEnd(f)
  BY <1>0 DEF OpCreate, AtEnd, At, Goto, Path, procVars
<1>2. CASE disk'[f] = disk[f]
  BY <1>0, <1>1, <1>2, LinesAlone
<1>3. CASE disk'[f] # disk[f]
  <2>1. f = Path(k) /\ disk'[f] = <<>> /\ disk[f] = Absent /\ pc[k] = "open"
    BY <1>0, <1>3 DEF OpCreate, Exists, At
  <2>2. ~AtEnd(f)
    BY <2>1 DEF TypeInv, OpenInv, AtEnd, At
  <2>3. Open(disk'[f]) = {} /\ Ended(disk'[f])
    BY <2>1 DEF Open, Ended
  <2>4. Cardinality(Open(disk'[f])) = 0
    BY <2>3, FS_EmptySet
  <2> QED
    BY <1>0, <1>1, <2>1, <2>2, <2>3, <2>4 DEF LineInv
<1> QED
  BY <1>2, <1>3

LEMMA LinesData ==
  ASSUME TypeInv, FileMutex, NEW k \in Conns, NEW f \in Files \ FullFiles, LineInv(f),
         OpAppendData(k)
  PROVE  LineInv(f)'
<1>0. /\ disk \in [Files -> Seq(Token) \union {Absent}] /\ pc \in [Conns -> Labels]
      /\ deaths \in Nat /\ Path(k) \in Files /\ Cmd[k].data \in Token
      /\ deaths' = deaths /\ up /\ up' = up
  BY ConstantTypes DEF TypeInv, TypeOK, ServerTypeOK, OpAppendData, procVars, At
<1>1. pc[k] = "data" /\ pc' = [pc EXCEPT ![k] = "nl"] /\ disk[Path(k)] # Absent
  BY DEF OpAppendData, At, Goto, TypeInv, OpenInv
<1>2. CASE Path(k) # f
  <2>1. disk'[f] = disk[f]
    BY <1>0, <1>2 DEF OpAppendData, AppendToken
  <2>2. AtEnd(f)' = AtEnd(f)
    BY <1>0, <1>1, <1>2 DEF AtEnd, At, Path
  <2> QED
    BY <1>0, <2>1, <2>2, LinesAlone
<1>3. CASE Path(k) = f
  <2> DEFINE s == disk[f]
             d == Cmd[k].data
  <2>1. disk'[f] = Append(s, d) /\ s \in Seq(Token) /\ s # Absent
    BY <1>0, <1>1, <1>3 DEF OpAppendData, AppendToken
  <2>2. d # NL /\ d \in Token
    BY <1>0, ServerAssumption DEF ServerAssumption, Command
  <2>3. AtEnd(f)'
    BY <1>0, <1>1, <1>3 DEF AtEnd, At, Path
  <2>4. ~AtEnd(f)
    BY <1>0, <1>1, <1>3 DEF AtEnd, At, FileMutex, Accessing
  <2>5. Ended(s) /\ Cardinality(Open(s)) <= deaths
    BY <1>0, <2>1, <2>4 DEF LineInv
  <2>6. Append(s, d) \in Seq(Token) /\ Append(s, d) # <<>> /\ Append(s, d) # Absent
    <3>1. Append(s, d) \in Seq(Token) /\ Append(s, d) # <<>>
      BY <2>1, <2>2, AppendProperties
    <3> QED
      BY <3>1, ServerAssumption DEF ServerAssumption
  <2>7. /\ Len(s) \in Nat /\ Len(Append(s, d)) = Len(s) + 1
        /\ Append(s, d)[Len(s) + 1] = d
        /\ \A p \in 1..Len(s) : Append(s, d)[p] = s[p]
    BY <2>1, <2>2, AppendProperties, LenProperties
  <2> HIDE DEF s, d
  <2>8. Ended(Append(s, d))
    BY <2>2, <2>5, <2>7 DEF Ended
  <2>9. Cardinality(Open(Append(s, d))) <= deaths + 1
    <3>1. Cardinality(Open(Append(s, d))) <= Cardinality(Open(s)) + 1
      BY <2>1, <2>2, OpenData
    <3>2. Cardinality(Open(s)) \in Nat /\ Cardinality(Open(Append(s, d))) \in Nat
      BY <2>1, <2>6, OpenFinite
    <3> QED
      BY <3>1, <3>2, <2>5, <1>0
  <2> QED
    BY <1>0, <2>1, <2>2, <2>3, <2>6, <2>7, <2>8, <2>9 DEF LineInv
<1> QED
  BY <1>2, <1>3

LEMMA LinesNewline ==
  ASSUME TypeInv, FileMutex, NEW k \in Conns, NEW f \in Files \ FullFiles, LineInv(f),
         OpAppendNewline(k)
  PROVE  LineInv(f)'
<1>0. /\ disk \in [Files -> Seq(Token) \union {Absent}] /\ pc \in [Conns -> Labels]
      /\ deaths \in Nat /\ Path(k) \in Files /\ NL \in Token
      /\ deaths' = deaths /\ up /\ up' = up
  BY ConstantTypes DEF TypeInv, TypeOK, ServerTypeOK, OpAppendNewline, procVars, At
<1>1. pc[k] = "nl" /\ pc' = [pc EXCEPT ![k] = "ok"] /\ disk[Path(k)] # Absent
  BY DEF OpAppendNewline, At, Goto, TypeInv, OpenInv
<1>2. CASE Path(k) # f
  <2>1. disk'[f] = disk[f]
    BY <1>0, <1>2 DEF OpAppendNewline, AppendToken
  <2>2. AtEnd(f)' = AtEnd(f)
    BY <1>0, <1>1, <1>2 DEF AtEnd, At, Path
  <2> QED
    BY <1>0, <2>1, <2>2, LinesAlone
<1>3. CASE Path(k) = f
  <2> DEFINE s == disk[f]
  <2>1. disk'[f] = Append(s, NL) /\ s \in Seq(Token) /\ s # Absent
    BY <1>0, <1>1, <1>3 DEF OpAppendNewline, AppendToken
  <2>3. AtEnd(f)
    BY <1>0, <1>1, <1>3 DEF AtEnd, At
  <2>4. ~AtEnd(f)'
    BY <1>0, <1>1, <1>3 DEF AtEnd, At, FileMutex, Accessing, Path
  <2>5. Ended(s) /\ s # <<>> /\ s[Len(s)] # NL /\ Cardinality(Open(s)) <= deaths + 1
    BY <1>0, <2>1, <2>3 DEF LineInv
  <2>7. /\ Len(s) \in Nat /\ Len(s) > 0 /\ Len(Append(s, NL)) = Len(s) + 1
        /\ Append(s, NL)[Len(s) + 1] = NL /\ Append(s, NL) \in Seq(Token)
        /\ \A p \in 1..Len(s) : Append(s, NL)[p] = s[p]
    BY <1>0, <2>1, <2>5, AppendProperties, LenProperties, EmptySeq
  <2> HIDE DEF s
  <2>8. Ended(Append(s, NL))
    BY <2>5, <2>7 DEF Ended
  <2>9. Cardinality(Open(Append(s, NL))) <= deaths
    <3>1. Cardinality(Open(Append(s, NL))) <= Cardinality(Open(s)) - 1
      BY <2>1, <2>5, OpenNewline
    <3>2. Cardinality(Open(s)) \in Nat /\ Cardinality(Open(Append(s, NL))) \in Nat
      BY <2>1, <2>7, OpenFinite
    <3> QED
      BY <3>1, <3>2, <2>5, <1>0
  <2> QED
    BY <1>0, <2>1, <2>4, <2>8, <2>9 DEF LineInv
<1> QED
  BY <1>2, <1>3

\* The other steps of a thread change no file, and "nl" is entered and left
\* only by the steps above.
LEMMA StepsElsewhere ==
  ASSUME TypeInv, NEW k \in Conns, Thread(k), ~SigPipe(k),
         ~OpCreate(k), ~OpAppendData(k), ~OpAppendNewline(k)
  PROVE  /\ UNCHANGED <<up, deaths, disk>>
         /\ \A j \in Conns : At(j, "nl")' = At(j, "nl")
<1>0. pc \in [Conns -> Labels]
  BY DEF TypeInv, TypeOK, ServerTypeOK
<1>1. UNCHANGED <<up, deaths, disk>>
  BY DEF Thread, GererClient, GetFileLock, LockTable, SearchTable,
     InsertEntry, LockFile, OpOpen, OpAppend, OpRead, OpReadBlock, OpReadEnd,
     SendOk, SendError, WriteClient, UnlockFile, CloseClient, procVars
<1>2. /\ pc[k] # "nl" /\ pc'[k] # "nl"
      /\ \A j \in Conns : j # k => pc'[j] = pc[j]
  BY <1>0 DEF Thread, GererClient, GetFileLock, LockTable, SearchTable,
     InsertEntry, LockFile, OpOpen, OpAppend, OpRead, OpReadBlock, OpReadEnd,
     SendOk, SendError, UnlockFile, CloseClient, Goto, At
<1> QED
  BY <1>1, <1>2 DEF At

LEMMA NextLinesInv == TypeInv /\ QueueInv /\ LockInv /\ LinesInv /\ [Next]_vars => LinesInv'
<1> SUFFICES ASSUME TypeInv, QueueInv, LockInv, LinesInv, [Next]_vars, PathsFit,
                    NEW f \in Files \ FullFiles
             PROVE  LineInv(f)'
  BY DEF LinesInv, PathsFit
<1>0. /\ LineInv(f) /\ FileMutex
      /\ disk[f] \in Seq(Token) \union {Absent} /\ deaths \in Nat
      /\ pc \in [Conns -> Labels] /\ queue \in Seq(Conns)
      /\ \A j \in Conns : OwnInv(j)
  BY FileMutexInv DEF LinesInv, TypeInv, TypeOK, ServerTypeOK, LockInv
<1>1. ASSUME NEW k \in Conns, Thread(k), ~SigPipe(k)
      PROVE  LineInv(f)'
  <2>1. CASE OpCreate(k)
    BY <1>0, <2>1, LinesCreate
  <2>2. CASE OpAppendData(k)
    BY <1>0, <2>2, LinesData
  <2>3. CASE OpAppendNewline(k)
    BY <1>0, <2>3, LinesNewline
  <2>4. CASE ~OpCreate(k) /\ ~OpAppendData(k) /\ ~OpAppendNewline(k)
    <3>1. AtEnd(f)' = AtEnd(f) /\ disk' = disk /\ deaths' = deaths
      BY <1>1, <2>4, StepsElsewhere DEF AtEnd, Path
    <3> QED
      BY <1>0, <3>1, LinesAlone
  <2> QED
    BY <2>1, <2>2, <2>3, <2>4
<1>2. CASE Accept
  <2>1. queue # <<>> /\ Head(queue) = queue[1] /\ 1 \in 1..Len(queue) /\ Head(queue) \in Conns
    BY <1>0, <1>2, HeadTailProperties, EmptySeq DEF Accept
  <2>2. pc[Head(queue)] = "none"
    BY <2>1 DEF QueueInv
  <2>3. AtEnd(f)' = AtEnd(f)
    BY <1>0, <1>2, <2>1, <2>2 DEF Accept, AtEnd, At, Path
  <2> QED
    BY <1>0, <1>2, <2>3, LinesAlone DEF Accept
<1>3. CASE Die
  <2>1. ~AtEnd(f)' /\ deaths' = deaths + 1 /\ disk' = disk
    BY <1>3 DEF Die, AtEnd, At
  <2> QED
    BY <1>0, <2>1, LinesAlone
<1>4. CASE Boot
  <2>1. AtEnd(f)' = AtEnd(f) /\ deaths' = deaths /\ disk' = disk
    BY <1>0, <1>4 DEF Boot, AtEnd, At, OwnInv, threadVars
  <2> QED
    BY <1>0, <2>1, LinesAlone
<1>5. ASSUME NEW c \in Clients, Client(c) \/ Interrupt(c)
      PROVE  LineInv(f)'
  <2>1. UNCHANGED <<up, deaths, disk, threadVars>>
    BY <1>5 DEF Client, Connect, SendCommand, ReadReply, ReadClosed, Interrupt, procVars
  <2>2. AtEnd(f)' = AtEnd(f)
    BY <2>1 DEF AtEnd, At, Path, threadVars
  <2> QED
    BY <1>0, <2>1, <2>2, LinesAlone
<1>6. CASE UNCHANGED vars
  <2>1. AtEnd(f)' = AtEnd(f) /\ disk' = disk /\ deaths' = deaths
    BY <1>6 DEF vars, serverVars, procVars, threadVars, AtEnd, At, Path
  <2> QED
    BY <1>0, <2>1, LinesAlone
<1> QED
  BY <1>1, <1>2, <1>3, <1>4, <1>5, <1>6 DEF Next, Idle, ServerNext, Kill, AcceptFails, SigPipe

\* If no path is too long for FileLock.path, the lines of a file are whole,
\* but for at most one torn line per death of the server and the append under
\* way, on every file on which write() works.
THEOREM LinesCorrect == Spec => [](PathsFit => WholeLines)
<1>1. TypeInv /\ LinesInv => (PathsFit => WholeLines)
  <2> SUFFICES ASSUME TypeInv, LinesInv, PathsFit, NEW f \in Files \ FullFiles, disk[f] # Absent
               PROVE  /\ Ended(disk[f])
                      /\ Cardinality(Unended(f)) <= deaths + (IF AtEnd(f) THEN 1 ELSE 0)
    BY DEF WholeLines, Ended, AtEnd
  <2>1. Unended(f) = Open(disk[f])
    BY DEF Unended, Open
  <2> QED
    BY <2>1 DEF LinesInv, LineInv
<1> QED
  BY <1>1, InitTypeInv, InitQueueInv, InitLockInv, InitLinesInv,
     NextTypeInv, NextQueueInv, NextLockInv, NextLinesInv, PTL DEF Spec

-----------------------------------------------------------------------------
(* Creation. A CREATE about to be answered OK, or answered so, found no file *)
(* and left one; files are never removed, so there is one per file.         *)

Has(s, token) == \E n \in 1..Len(s) : s[n] = token
Made(k) == Cmd[k].op = "CREATE" /\ (pc[k] = "ok" \/ Has(wire[k], "OK"))

\* Where a thread is tells its command.
OpInv ==
  \A k \in Conns : /\ pc[k] = "block" => Cmd[k].op = "READ"
                   /\ pc[k] \in {"data", "nl"} => Cmd[k].op = "APPEND"

ReadInv == \A k \in Conns : nread[k] <= Len(wire[k])

CreateInv ==
  /\ OpInv /\ ReadInv
  /\ \A k \in Conns : Made(k) => disk[Path(k)] # Absent
  /\ \A j, k \in Conns : Made(j) /\ Made(k) /\ Path(j) = Path(k) => j = k

LEMMA InitCreateInv == Init => CreateInv
  BY DEF Init, ServerInit, CreateInv, OpInv, ReadInv, Made, Has

LEMMA DiskGrows ==
  ASSUME TypeInv, NEW k \in Conns, OpCreate(k) \/ OpAppendData(k) \/ OpAppendNewline(k)
  PROVE  \A f \in Files : disk[f] # Absent => disk'[f] # Absent
<1>0. /\ disk \in [Files -> Seq(Token) \union {Absent}]
      /\ Path(k) \in Files /\ Cmd[k].data \in Token /\ NL \in Token
      /\ Absent \notin Seq(Token)
  BY ConstantTypes, ServerAssumption DEF ServerAssumption, TypeInv, TypeOK, ServerTypeOK
<1>1. CASE OpCreate(k)
  BY <1>0, <1>1 DEF OpCreate, Exists
<1>2. ASSUME NEW token \in Token, AppendToken(k, token), disk[Path(k)] # Absent
      PROVE  \A f \in Files : disk[f] # Absent => disk'[f] # Absent
  <2>1. Append(disk[Path(k)], token) \in Seq(Token)
    BY <1>0, <1>2, AppendProperties
  <2> QED
    BY <1>0, <1>2, <2>1 DEF AppendToken
<1>3. CASE OpAppendData(k) \/ OpAppendNewline(k)
  BY <1>0, <1>2, <1>3 DEF OpAppendData, OpAppendNewline, TypeInv, OpenInv, At
<1> QED
  BY <1>1, <1>3

LEMMA HasConcat ==
  ASSUME NEW s \in Seq(Token), NEW t \in Token, NEW u \in Token
  PROVE  /\ Has(s \o <<t>>, u) <=> (Has(s, u) \/ t = u)
         /\ Len(s \o <<t>>) = Len(s) + 1
<1>1. /\ Len(s) \in Nat /\ Len(s \o <<t>>) = Len(s) + 1
      /\ \A n \in 1..Len(s) : (s \o <<t>>)[n] = s[n]
      /\ (s \o <<t>>)[Len(s) + 1] = t
  <2>1. <<t>> \in Seq(Token) /\ Len(<<t>>) = 1 /\ <<t>>[1] = t
    OBVIOUS
  <2>2. /\ Len(s \o <<t>>) = Len(s) + Len(<<t>>)
        /\ \A n \in 1..(Len(s) + Len(<<t>>)) :
             (s \o <<t>>)[n] = IF n <= Len(s) THEN s[n] ELSE <<t>>[n - Len(s)]
    BY <2>1, ConcatProperties
  <2> QED
    BY <2>1, <2>2, LenProperties
<1> QED
  BY <1>1 DEF Has

\* What a thread writes to its client is a sequence of tokens.
LEMMA Writes ==
  ASSUME TypeInv, NEW k \in Conns,
         OpReadBlock(k) \/ OpReadEnd(k) \/ SendOk(k) \/ SendError(k)
  PROVE  \E tokens \in Seq(Token) : WriteClient(k, tokens)
<1>0. /\ off \in [Conns -> Nat]
      /\ disk \in [Files -> Seq(Token) \union {Absent}]
      /\ {"OK", "ERROR", "EOF"} \subseteq Token
  BY ConstantTypes DEF TypeInv, TypeOK, ServerTypeOK
<1>1. CASE OpReadBlock(k)
  <2> DEFINE text == disk[Path(k)]
             rest == Len(text) - off[k]
             n == IF rest < BLOCK THEN rest ELSE BLOCK
  <2>1. text \in Seq(Token)
    BY <1>1, <1>0, ConstantTypes DEF OpReadBlock, TypeInv, OpenInv, At
  <2>2. rest \in Int /\ rest > 0 /\ BLOCK \in Nat \ {0}
    BY <1>1, <1>0, <2>1, LenProperties, ConstantTypes DEF OpReadBlock
  <2>3. n \in Nat /\ off[k] + n \in Nat /\ off[k] + n <= Len(text)
    BY <2>1, <2>2, <1>0, LenProperties
  <2>4. \A p \in (off[k] + 1)..(off[k] + n) : text[p] \in Token
    BY <2>1, <2>3, <1>0, ElementOfSeq, LenProperties
  <2>5. WriteClient(k, SubSeq(text, off[k] + 1, off[k] + n))
    BY <1>1 DEF OpReadBlock
  <2> HIDE DEF n, rest, text
  <2>6. SubSeq(text, off[k] + 1, off[k] + n) \in Seq(Token)
    <3>1. off[k] + 1 \in Int /\ off[k] + n \in Int
      BY <1>0, <2>3
    <3> QED
      BY <3>1, <2>4, SubSeqProperties
  <2> QED
    BY <2>5, <2>6
<1>2. CASE OpReadEnd(k) \/ SendOk(k) \/ SendError(k)
  <2>1. <<"EOF">> \in Seq(Token) /\ <<"OK">> \in Seq(Token) /\ <<"ERROR">> \in Seq(Token)
    BY <1>0
  <2> QED
    BY <1>2, <2>1 DEF OpReadEnd, SendOk, SendError
<1> QED
  BY <1>1, <1>2

\* A thread's steps that write to its client.
LEMMA CreateWrite ==
  ASSUME TypeInv, CreateInv, NEW k \in Conns,
         OpReadBlock(k) \/ OpReadEnd(k) \/ SendOk(k) \/ SendError(k)
  PROVE  CreateInv'
<1>0. /\ pc \in [Conns -> Labels] /\ wire \in [Conns -> Seq(Token)]
      /\ nread \in [Conns -> Nat] /\ off \in [Conns -> Nat]
      /\ disk \in [Files -> Seq(Token) \union {Absent}]
      /\ {"OK", "ERROR", "EOF"} \subseteq Token
  BY ConstantTypes DEF TypeInv, TypeOK, ServerTypeOK
<1>1. /\ disk' = disk /\ nread' = nread
      /\ \A j \in Conns : j # k => pc'[j] = pc[j] /\ wire'[j] = wire[j]
      /\ pc'[k] \in {"block", "unlock", "close"} /\ (pc'[k] = "block" => pc[k] = "block")
  BY <1>0 DEF OpReadBlock, OpReadEnd, SendOk, SendError, WriteClient, Goto, At
<1>2. ASSUME NEW tokens \in Seq(Token), WriteClient(k, tokens)
      PROVE  wire'[k] = wire[k] \o tokens /\ wire' \in [Conns -> Seq(Token)]
  BY <1>0, <1>2, ConcatProperties DEF WriteClient
<1>3. Len(wire'[k]) >= Len(wire[k])
  <2>1. \E tokens \in Seq(Token) : WriteClient(k, tokens)
    BY Writes
  <2>2. PICK tokens \in Seq(Token) : WriteClient(k, tokens)
    BY <2>1
  <2>3. wire'[k] = wire[k] \o tokens
    BY <1>2, <2>2
  <2>4. Len(wire[k] \o tokens) = Len(wire[k]) + Len(tokens) /\ wire[k] \in Seq(Token)
    BY <1>0, ConcatProperties
  <2> QED
    BY <2>3, <2>4, LenProperties
<1>4. Made(k)' => Made(k)
  <2>1. CASE OpReadBlock(k) \/ OpReadEnd(k)
    BY <2>1 DEF OpReadBlock, OpReadEnd, At, CreateInv, OpInv, Made
  <2>2. CASE SendOk(k)
    BY <2>2 DEF SendOk, At, Made
  <2>3. CASE SendError(k)
    <3>1. wire'[k] = wire[k] \o <<"ERROR">> /\ wire[k] \in Seq(Token) /\ "ERROR" # "OK"
      BY <1>0, <2>3 DEF SendError, WriteClient
    <3>2. Has(wire'[k], "OK") <=> Has(wire[k], "OK")
      BY <1>0, <3>1, HasConcat
    <3> QED
      BY <1>1, <3>2 DEF Made
  <2> QED
    BY <2>1, <2>2, <2>3
<1>5. \A j \in Conns : Made(j)' => Made(j)
  BY <1>1, <1>4 DEF Made
<1>6. OpInv'
  BY <1>1 DEF CreateInv, OpInv
<1>7. ReadInv'
  <2> SUFFICES ASSUME NEW j \in Conns PROVE nread'[j] <= Len(wire'[j])
    BY DEF ReadInv
  <2>1. nread'[j] = nread[j] /\ nread[j] <= Len(wire[j]) /\ nread[j] \in Nat
    BY <1>0, <1>1 DEF CreateInv, ReadInv
  <2>2. Len(wire[k]) \in Nat
    BY <1>0, LenProperties
  <2>3. CASE j = k
    <3>1. Len(wire'[k]) \in Nat
      BY <1>0, <1>2, Writes, LenProperties
    <3> QED
      BY <1>3, <2>1, <2>2, <2>3, <3>1
  <2> QED
    BY <1>1, <2>1, <2>3
<1> QED
  BY <1>1, <1>5, <1>6, <1>7 DEF CreateInv, Path

\* The other steps of a thread and the steps that start and end threads.
LEMMA CreateOther ==
  ASSUME TypeInv, CreateInv, NEW k \in Conns,
         \/ GererClient(k) \/ GetFileLock(k) \/ LockFile(k) \/ OpOpen(k) \/ OpAppend(k)
         \/ UnlockFile(k) \/ CloseClient(k)
  PROVE  CreateInv'
<1>0. pc \in [Conns -> Labels] /\ disk \in [Files -> Seq(Token) \union {Absent}]
  BY DEF TypeInv, TypeOK, ServerTypeOK
<1>1. /\ wire' = wire /\ nread' = nread
      /\ \A j \in Conns : j # k => pc'[j] = pc[j]
  BY <1>0 DEF GererClient, GetFileLock, LockTable, SearchTable, InsertEntry, LockFile,
     OpOpen, OpAppend, OpAppendData, OpAppendNewline, UnlockFile, CloseClient, sockVars, Goto
<1>2. \A f \in Files : disk[f] # Absent => disk'[f] # Absent
  <2>1. CASE OpAppend(k)
    BY <2>1, DiskGrows DEF OpAppend
  <2>2. CASE ~OpAppend(k)
    BY <2>2 DEF GererClient, GetFileLock, LockTable, SearchTable, InsertEntry, LockFile,
       OpOpen, UnlockFile, CloseClient
  <2> QED
    BY <2>1, <2>2
<1>3. /\ pc'[k] = "ok" => pc[k] = "nl"
      /\ pc'[k] = "block" => Cmd[k].op = "READ"
      /\ pc'[k] = "data" => Cmd[k].op = "APPEND"
      /\ pc'[k] = "nl" => pc[k] = "data"
  BY <1>0 DEF GererClient, GetFileLock, LockTable, SearchTable, InsertEntry, LockFile,
     OpOpen, OpAppend, OpAppendData, OpAppendNewline, UnlockFile, CloseClient, Goto, At
<1>4. OpInv' /\ ReadInv'
  BY <1>1, <1>3 DEF CreateInv, OpInv, ReadInv
<1>5. \A j \in Conns : Made(j)' => Made(j)
  BY <1>1, <1>3 DEF CreateInv, OpInv, Made
<1>6. \A j \in Conns : Path(j) \in Files
  BY ConstantTypes
<1> QED
  BY <1>2, <1>4, <1>5, <1>6 DEF CreateInv, Path

LEMMA CreateCreate ==
  ASSUME TypeInv, CreateInv, NEW k \in Conns, OpCreate(k)
  PROVE  CreateInv'
<1>0. /\ pc \in [Conns -> Labels] /\ disk \in [Files -> Seq(Token) \union {Absent}]
      /\ \A j \in Conns : Path(j) \in Files
      /\ Absent \notin Seq(Token) /\ <<>> \in Seq(Token)
  BY ConstantTypes, ServerAssumption DEF ServerAssumption, TypeInv, TypeOK, ServerTypeOK
<1>1. /\ wire' = wire /\ nread' = nread /\ pc'[k] \in {"ok", "err"}
      /\ \A j \in Conns : j # k => pc'[j] = pc[j]
  BY <1>0 DEF OpCreate, sockVars, Goto
<1>2. \A f \in Files : disk[f] # Absent => disk'[f] # Absent
  BY DiskGrows
<1>3. OpInv' /\ ReadInv'
  BY <1>1 DEF CreateInv, OpInv, ReadInv
<1>4. \A j \in Conns : j # k => (Made(j)' <=> Made(j))
  BY <1>1 DEF Made
<1>5. CASE pc'[k] = "err"
  <2>1. Made(k)' => Made(k)
    BY <1>1, <1>5 DEF Made
  <2> QED
    BY <1>0, <1>2, <1>3, <1>4, <2>1 DEF CreateInv, Path
<1>6. CASE pc'[k] = "ok"
  <2>1. disk[Path(k)] = Absent /\ disk'[Path(k)] # Absent
    BY <1>0, <1>6 DEF OpCreate, Exists, Goto
  <2>2. \A j \in Conns : Made(j) => Path(j) # Path(k)
    BY <2>1 DEF CreateInv
  <2> QED
    BY <1>0, <1>2, <1>3, <1>4, <2>1, <2>2 DEF CreateInv, Path
<1> QED
  BY <1>1, <1>5, <1>6

LEMMA NextCreateInv == TypeInv /\ QueueInv /\ CreateInv /\ [Next]_vars => CreateInv'
<1> SUFFICES ASSUME TypeInv, QueueInv, CreateInv, [Next]_vars PROVE CreateInv'
  OBVIOUS
<1>0. /\ queue \in Seq(Conns) /\ pc \in [Conns -> Labels]
      /\ nread \in [Conns -> Nat] /\ wire \in [Conns -> Seq(Token)]
  BY DEF TypeInv, TypeOK, ServerTypeOK
<1>1. ASSUME NEW k \in Conns, Thread(k), ~SigPipe(k)
      PROVE  CreateInv'
  BY <1>1, CreateWrite, CreateOther, CreateCreate DEF Thread, OpRead
<1>2. CASE UNCHANGED <<disk, wire, nread>> /\ \A j \in Conns : pc'[j] = pc[j] \/ pc'[j] \in {"none", "read", "done"}
  <2>1. OpInv' /\ ReadInv'
    BY <1>2 DEF CreateInv, OpInv, ReadInv
  <2>2. \A j \in Conns : Made(j)' => Made(j)
    BY <1>2 DEF Made
  <2> QED
    BY <1>2, <2>1, <2>2 DEF CreateInv, Path
<1>3. CASE Accept
  <2>1. queue # <<>> /\ Head(queue) \in Conns
    BY <1>0, <1>3, HeadTailProperties DEF Accept
  <2> QED
    BY <1>0, <1>2, <1>3, <2>1 DEF Accept, sockVars
<1>4. CASE Die
  BY <1>2, <1>4 DEF Die, sockVars
<1>5. CASE Boot
  BY <1>2, <1>5 DEF Boot, sockVars, threadVars
<1>6. ASSUME NEW c \in Clients, Client(c) \/ Interrupt(c)
      PROVE  CreateInv'
  <2>1. disk' = disk /\ wire' = wire /\ pc' = pc
    BY <1>6 DEF Client, Connect, SendCommand, ReadReply, ReadClosed, Interrupt, threadVars, sockVars
  <2>2. ReadInv'
    <3>1. CASE ReadReply(c)
      <4> DEFINE k == Conn(c)
      <4>1. k \in Conns /\ nread[k] \in Nat /\ wire[k] \in Seq(Token) /\ Len(wire[k]) \in Nat
            /\ nread[k] <= Len(wire[k])
        BY <1>0, LenProperties DEF TypeInv, ConnInv, CreateInv, ReadInv
      <4>2. PICK n \in 1..Len(Unread(k)) : nread' = [nread EXCEPT ![k] = @ + n]
        BY <3>1 DEF ReadReply
      <4>3. Len(Unread(k)) = Len(wire[k]) - nread[k]
        <5>1. \A i \in (nread[k] + 1)..Len(wire[k]) : wire[k][i] \in Token
          BY <4>1, ElementOfSeq
        <5>2. Len(SubSeq(wire[k], nread[k] + 1, Len(wire[k])))
                = IF nread[k] + 1 <= Len(wire[k]) THEN Len(wire[k]) - (nread[k] + 1) + 1 ELSE 0
          <6> HIDE DEF k
          <6>1. nread[k] + 1 \in Int /\ Len(wire[k]) \in Int
            BY <4>1
          <6> QED
            BY <5>1, <6>1, SubSeqProperties
        <5> HIDE DEF k
        <5> QED
          BY <4>1, <5>2 DEF Unread
      <4> HIDE DEF k
      <4>4. nread'[k] <= Len(wire[k]) /\ \A j \in Conns : j # k => nread'[j] = nread[j]
        BY <1>0, <4>1, <4>2, <4>3
      <4> QED
        BY <2>1, <4>4 DEF CreateInv, ReadInv
    <3>2. CASE ~ReadReply(c)
      <4>1. nread' = nread
        BY <1>6, <3>2 DEF Client, Connect, SendCommand, ReadClosed, Interrupt, sockVars
      <4> QED
        BY <2>1, <4>1 DEF CreateInv, ReadInv
    <3> QED
      BY <3>1, <3>2
  <2> QED
    BY <2>1, <2>2 DEF CreateInv, OpInv, Made, Path
<1>7. CASE UNCHANGED vars
  BY <1>2, <1>7 DEF vars, serverVars, threadVars, sockVars
<1> QED
  BY <1>1, <1>3, <1>4, <1>5, <1>6, <1>7 DEF Next, Idle, ServerNext, Kill, AcceptFails, SigPipe

\* At most one CREATE of a file is ever answered OK, whatever the number of
\* clients, of deaths of the server and of files, and whether or not the
\* paths fit: it is O_EXCL and the file that do it, not the mutex.
THEOREM CreateCorrect == Spec => []CreateOnce
<1>1. TypeInv /\ CreateInv => CreateOnce
  <2> SUFFICES ASSUME TypeInv, CreateInv, NEW j \in Conns, NEW k \in Conns,
                      Cmd[j].op = "CREATE", Cmd[k].op = "CREATE", Path(j) = Path(k),
                      Acked(j), Acked(k)
               PROVE  j = k
    BY DEF CreateOnce
  <2>1. \A h \in Conns : Acked(h) => Has(wire[h], "OK")
    <3>1. \A h \in Conns : nread[h] \in Nat /\ Len(wire[h]) \in Nat /\ nread[h] <= Len(wire[h])
      BY LenProperties DEF TypeInv, TypeOK, ServerTypeOK, CreateInv, ReadInv
    <3> QED
      BY <3>1 DEF Acked, Has
  <2> QED
    BY <2>1 DEF CreateInv, Made
<1> QED
  BY <1>1, InitTypeInv, InitQueueInv, InitCreateInv, NextTypeInv, NextQueueInv,
     NextCreateInv, PTL DEF Spec

-----------------------------------------------------------------------------
(* Acknowledged lines. Each APPEND that is about to be answered OK, or was, *)
(* has a line of its own in the file: the line end its thread wrote follows *)
(* the data the same thread wrote, for the mutex was held in between.       *)

Told(f, d) ==
  {k \in Conns : /\ Cmd[k].op = "APPEND" /\ Path(k) = f /\ Cmd[k].data = d
                 /\ pc[k] = "ok" \/ Has(wire[k], "OK")}

LinesOf(s, d) == {p \in 1..(Len(s) - 1) : s[p] = d /\ s[p + 1] = NL}

KeptInv(f) ==
  /\ \A k \in Conns : At(k, "nl") /\ Path(k) = f =>
       disk[f] # <<>> /\ disk[f][Len(disk[f])] = Cmd[k].data
  /\ \A d \in Data :
       /\ IsFiniteSet(Told(f, d))
       /\ Told(f, d) # {} => disk[f] # Absent
       /\ disk[f] # Absent => Cardinality(Told(f, d)) <= Cardinality(LinesOf(disk[f], d))

AllKeptInv == PathsFit => \A f \in Files \ FullFiles : KeptInv(f)

LEMMA LinesOfFinite ==
  ASSUME NEW s \in Seq(Token), NEW d
  PROVE  IsFiniteSet(LinesOf(s, d)) /\ Cardinality(LinesOf(s, d)) \in Nat
<1>1. Len(s) - 1 \in Int
  BY LenProperties
<1>2. IsFiniteSet(1..(Len(s) - 1))
  BY <1>1, FS_Interval
<1>3. LinesOf(s, d) \in SUBSET (1..(Len(s) - 1))
  BY DEF LinesOf
<1> QED
  BY <1>2, <1>3, FS_Subset, FS_CardinalityType

\* A token more takes no line away; NL after d adds one.
LEMMA LinesOfAppend ==
  ASSUME NEW s \in Seq(Token), NEW t \in Token, NEW d
  PROVE  /\ Cardinality(LinesOf(s, d)) <= Cardinality(LinesOf(Append(s, t), d))
         /\ s # <<>> /\ s[Len(s)] = d /\ t = NL
              => Cardinality(LinesOf(s, d)) + 1 <= Cardinality(LinesOf(Append(s, t), d))
<1>1. /\ Len(s) \in Nat /\ Len(Append(s, t)) = Len(s) + 1
      /\ Append(s, t)[Len(s) + 1] = t /\ Append(s, t) \in Seq(Token)
      /\ \A p \in 1..Len(s) : Append(s, t)[p] = s[p]
  BY AppendProperties, LenProperties
<1>2. /\ IsFiniteSet(LinesOf(s, d)) /\ Cardinality(LinesOf(s, d)) \in Nat
      /\ IsFiniteSet(LinesOf(Append(s, t), d))
  BY <1>1, LinesOfFinite
<1>3. LinesOf(s, d) \in SUBSET LinesOf(Append(s, t), d)
  BY <1>1 DEF LinesOf
<1>4. Cardinality(LinesOf(s, d)) <= Cardinality(LinesOf(Append(s, t), d))
  BY <1>2, <1>3, FS_Subset, Zenon
<1>5. ASSUME s # <<>>, s[Len(s)] = d, t = NL
      PROVE  Cardinality(LinesOf(s, d)) + 1 <= Cardinality(LinesOf(Append(s, t), d))
  <2>1. Len(s) > 0
    BY <1>1, <1>5, EmptySeq
  <2>2. Len(s) \notin LinesOf(s, d) /\ Len(s) \in LinesOf(Append(s, t), d)
    BY <1>1, <1>5, <2>1 DEF LinesOf
  <2>3. LinesOf(s, d) \union {Len(s)} \in SUBSET LinesOf(Append(s, t), d)
    BY <1>3, <2>2
  <2>4. Cardinality(LinesOf(s, d) \union {Len(s)}) = Cardinality(LinesOf(s, d)) + 1
    BY <1>2, <2>2, FS_AddElement, Zenon
  <2>5. Cardinality(LinesOf(s, d) \union {Len(s)}) <= Cardinality(LinesOf(Append(s, t), d))
    BY <1>2, <2>3, FS_Subset, Zenon
  <2> QED
    BY <2>4, <2>5
<1> QED
  BY <1>4, <1>5

LEMMA InitKeptInv == Init => AllKeptInv
<1> SUFFICES ASSUME Init, NEW f \in Files PROVE KeptInv(f)
  BY DEF AllKeptInv
<1>1. /\ \A d : Told(f, d) = {}
      /\ \A k \in Conns : ~At(k, "nl")
      /\ disk[f] # Absent => disk[f] = <<>>
  BY DEF Init, ServerInit, Told, Has, At
<1>2. \A d : LinesOf(<<>>, d) = {}
  BY DEF LinesOf
<1>3. IsFiniteSet({}) /\ Cardinality({}) = 0
  BY FS_EmptySet
<1>4. \A k \in Conns : At(k, "nl") /\ Path(k) = f =>
        disk[f] # <<>> /\ disk[f][Len(disk[f])] = Cmd[k].data
  BY <1>1
<1>5. ASSUME NEW d \in Data
      PROVE  /\ IsFiniteSet(Told(f, d)) /\ Told(f, d) = {}
             /\ disk[f] # Absent => Cardinality(Told(f, d)) <= Cardinality(LinesOf(disk[f], d))
  <2>1. Told(f, d) = {}
    BY <1>1
  <2>2. disk[f] # Absent => LinesOf(disk[f], d) = {}
    BY <1>1, <1>2
  <2> QED
    BY <1>3, <2>1, <2>2
<1> QED
  BY <1>4, <1>5 DEF KeptInv

\* A step that leaves the file alone, tells nobody OK and lets no thread of
\* the file enter "nl".
LEMMA KeptAlone ==
  ASSUME NEW f \in Files, KeptInv(f), disk'[f] = disk[f],
         disk[f] \in Seq(Token) \union {Absent},
         \A d \in Data : Told(f, d)' \subseteq Told(f, d),
         \A k \in Conns : At(k, "nl")' /\ Path(k) = f => At(k, "nl")
  PROVE  KeptInv(f)'
<1>1. ASSUME NEW k \in Conns, At(k, "nl")', Path(k)' = f
      PROVE  disk'[f] # <<>> /\ disk'[f][Len(disk'[f])] = Cmd[k].data
  BY <1>1 DEF KeptInv, Path
<1>2. ASSUME NEW d \in Data
      PROVE  /\ IsFiniteSet(Told(f, d)')
             /\ Told(f, d)' # {} => disk'[f] # Absent
             /\ disk'[f] # Absent
                  => Cardinality(Told(f, d)') <= Cardinality(LinesOf(disk'[f], d))
  <2>1. IsFiniteSet(Told(f, d)) /\ Told(f, d)' \in SUBSET Told(f, d)
    BY <1>2 DEF KeptInv
  <2>2. /\ IsFiniteSet(Told(f, d)') /\ Cardinality(Told(f, d)') <= Cardinality(Told(f, d))
        /\ Cardinality(Told(f, d)') \in Nat /\ Cardinality(Told(f, d)) \in Nat
    BY <2>1, FS_Subset, FS_CardinalityType, Zenon
  <2>3. ASSUME disk[f] # Absent
        PROVE  Cardinality(Told(f, d)') <= Cardinality(LinesOf(disk[f], d))
    <3>1. Cardinality(LinesOf(disk[f], d)) \in Nat
      BY <2>3, LinesOfFinite
    <3>2. Cardinality(Told(f, d)) <= Cardinality(LinesOf(disk[f], d))
      BY <1>2, <2>3 DEF KeptInv
    <3> QED
      BY <2>2, <3>1, <3>2
  <2> QED
    BY <1>2, <2>1, <2>2, <2>3 DEF KeptInv
<1> QED
  BY <1>1, <1>2 DEF KeptInv

\* A write() that worked; told is the thread it makes answer OK, if any.
LEMMA KeptAppend ==
  ASSUME NEW f \in Files, KeptInv(f), NEW k \in Conns, NEW t \in Token,
         disk[f] \in Seq(Token), disk'[f] = Append(disk[f], t),
         \A d \in Data : Told(f, d)' \subseteq Told(f, d) \union {k},
         \A d \in Data : (k \in Told(f, d)' /\ k \notin Told(f, d))
           => t = NL /\ disk[f] # <<>> /\ disk[f][Len(disk[f])] = d,
         \A j \in Conns : At(j, "nl")' /\ Path(j) = f => Cmd[j].data = t
  PROVE  KeptInv(f)'
<1>1. /\ disk'[f] \in Seq(Token) /\ disk'[f] # <<>> /\ disk'[f] # Absent
      /\ disk'[f][Len(disk'[f])] = t
  <2>1. /\ Append(disk[f], t) \in Seq(Token) /\ Append(disk[f], t) # <<>>
        /\ Append(disk[f], t)[Len(Append(disk[f], t))] = t
    BY AppendProperties, LenProperties
  <2> QED
    BY <2>1, ServerAssumption DEF ServerAssumption
<1>2. disk[f] # Absent
  BY ServerAssumption DEF ServerAssumption
<1>3. ASSUME NEW d \in Data
      PROVE  /\ IsFiniteSet(Told(f, d)')
             /\ Cardinality(Told(f, d)') <= Cardinality(LinesOf(disk'[f], d))
  <2>1. /\ IsFiniteSet(Told(f, d))
        /\ Cardinality(Told(f, d)) <= Cardinality(LinesOf(disk[f], d))
        /\ Cardinality(Told(f, d)) \in Nat
    BY <1>2, <1>3, FS_CardinalityType DEF KeptInv
  <2>2. /\ Cardinality(LinesOf(disk[f], d)) \in Nat
        /\ Cardinality(LinesOf(disk'[f], d)) \in Nat
    BY <1>1, LinesOfFinite
  <2>3. Cardinality(LinesOf(disk[f], d)) <= Cardinality(LinesOf(disk'[f], d))
    BY LinesOfAppend
  <2>4. CASE k \in Told(f, d)' /\ k \notin Told(f, d)
    <3>1. Cardinality(LinesOf(disk[f], d)) + 1 <= Cardinality(LinesOf(disk'[f], d))
      BY <1>3, <2>4, LinesOfAppend
    <3>2. /\ IsFiniteSet(Told(f, d) \union {k})
          /\ Cardinality(Told(f, d) \union {k}) = Cardinality(Told(f, d)) + 1
      BY <2>1, <2>4, FS_AddElement, Zenon
    <3>3. Told(f, d)' \in SUBSET (Told(f, d) \union {k})
      BY <1>3
    <3>4. /\ IsFiniteSet(Told(f, d)') /\ Cardinality(Told(f, d)') \in Nat
          /\ Cardinality(Told(f, d)') <= Cardinality(Told(f, d) \union {k})
      BY <3>2, <3>3, FS_Subset, FS_CardinalityType, Zenon
    <3> QED
      BY <2>1, <2>2, <3>1, <3>2, <3>4
  <2>5. CASE ~(k \in Told(f, d)' /\ k \notin Told(f, d))
    <3>1. Told(f, d)' \in SUBSET Told(f, d)
      BY <1>3, <2>5
    <3>2. /\ IsFiniteSet(Told(f, d)') /\ Cardinality(Told(f, d)') \in Nat
          /\ Cardinality(Told(f, d)') <= Cardinality(Told(f, d))
      BY <2>1, <3>1, FS_Subset, FS_CardinalityType, Zenon
    <3> QED
      BY <2>1, <2>2, <2>3, <3>2
  <2> QED
    BY <2>4, <2>5
<1>4. \A j \in Conns : At(j, "nl")' /\ Path(j)' = f
        => disk'[f] # <<>> /\ disk'[f][Len(disk'[f])] = Cmd[j].data
  BY <1>1 DEF Path
<1> QED
  BY <1>1, <1>3, <1>4 DEF KeptInv

\* What the thread of a step that is no append changes of Told and of "nl".
LEMMA KeptThread ==
  ASSUME TypeInv, CreateInv, NEW k \in Conns, Thread(k), ~SigPipe(k),
         ~OpAppendData(k), ~OpAppendNewline(k)
  PROVE  /\ up' = up /\ \A j \in Conns : j # k => pc'[j] = pc[j] /\ wire'[j] = wire[j]
         /\ pc'[k] # "nl"
         /\ Cmd[k].op = "APPEND" => pc'[k] # "ok"
         /\ Cmd[k].op = "APPEND" /\ Has(wire'[k], "OK") => Has(wire[k], "OK") \/ pc[k] = "ok"
<1>0. /\ pc \in [Conns -> Labels] /\ wire \in [Conns -> Seq(Token)]
      /\ {"OK", "ERROR", "EOF"} \subseteq Token
  BY ConstantTypes DEF TypeInv, TypeOK, ServerTypeOK
<1>1. CASE GererClient(k) \/ GetFileLock(k) \/ LockFile(k) \/ OpCreate(k) \/ OpOpen(k)
           \/ UnlockFile(k) \/ CloseClient(k)
  <2>1. wire' = wire /\ up' = up /\ \A j \in Conns : j # k => pc'[j] = pc[j]
    BY <1>0, <1>1 DEF GererClient, GetFileLock, LockTable, SearchTable, InsertEntry,
       LockFile, OpCreate, OpOpen, UnlockFile, CloseClient, sockVars, procVars, Goto
  <2>2. pc'[k] # "nl" /\ (pc'[k] = "ok" => Cmd[k].op = "CREATE")
    BY <1>0, <1>1 DEF GererClient, GetFileLock, LockTable, SearchTable, InsertEntry,
       LockFile, OpCreate, OpOpen, UnlockFile, CloseClient, Goto
  <2> QED
    BY <2>1, <2>2
<1>2. CASE OpRead(k) \/ SendOk(k) \/ SendError(k)
  <2>1. /\ up' = up /\ pc'[k] \in {"block", "unlock", "close"}
        /\ \A j \in Conns : j # k => pc'[j] = pc[j] /\ wire'[j] = wire[j]
    BY <1>0, <1>2 DEF OpRead, OpReadBlock, OpReadEnd, SendOk, SendError, WriteClient,
       procVars, Goto, At
  <2>2. CASE OpRead(k)
    BY <2>1, <2>2 DEF OpRead, OpReadBlock, OpReadEnd, At, CreateInv, OpInv
  <2>3. CASE SendOk(k)
    BY <2>1, <2>3 DEF SendOk, At
  <2>4. CASE SendError(k)
    <3>1. wire'[k] = wire[k] \o <<"ERROR">> /\ wire[k] \in Seq(Token) /\ "ERROR" # "OK"
      BY <1>0, <2>4 DEF SendError, WriteClient
    <3>2. Has(wire'[k], "OK") <=> Has(wire[k], "OK")
      BY <1>0, <3>1, HasConcat
    <3> QED
      BY <2>1, <3>2
  <2> QED
    BY <1>2, <2>1, <2>2, <2>3, <2>4
<1> QED
  BY <1>1, <1>2 DEF Thread, OpAppend

LEMMA KeptCreate ==
  ASSUME TypeInv, CreateInv, NEW f \in Files, KeptInv(f), NEW k \in Conns, OpCreate(k),
         Path(k) = f
  PROVE  KeptInv(f)'
<1>0. /\ pc \in [Conns -> Labels] /\ disk \in [Files -> Seq(Token) \union {Absent}]
  BY DEF TypeInv, TypeOK, ServerTypeOK
<1>1. /\ \A d \in Data : Told(f, d)' \subseteq Told(f, d)
      /\ \A j \in Conns : At(j, "nl")' => At(j, "nl")
  <2>1. /\ wire' = wire /\ up' = up /\ Cmd[k].op = "CREATE" /\ pc'[k] # "nl"
        /\ \A j \in Conns : j # k => pc'[j] = pc[j]
    BY <1>0 DEF OpCreate, sockVars, procVars, Goto
  <2> QED
    BY <2>1 DEF Told, At, Path
<1>2. CASE disk' = disk
  BY <1>0, <1>1, <1>2, KeptAlone
<1>3. CASE disk' # disk
  <2>1. disk[f] = Absent /\ disk'[f] = <<>> /\ disk'[f] # Absent
    BY <1>0, <1>3, ServerAssumption DEF ServerAssumption, OpCreate, Exists
  <2>2. \A d \in Data : Told(f, d)' = {}
    BY <1>1, <2>1 DEF KeptInv
  <2>3. \A j \in Conns : Path(j) = f => ~At(j, "nl")'
    BY <1>1, <2>1 DEF TypeInv, OpenInv, At
  <2>4. IsFiniteSet({}) /\ Cardinality({}) = 0
    BY FS_EmptySet
  <2>5. ASSUME NEW d \in Data
        PROVE  /\ IsFiniteSet(Told(f, d)') /\ Told(f, d)' = {}
               /\ Cardinality(Told(f, d)') <= Cardinality(LinesOf(disk'[f], d))
    <3>1. LinesOf(<<>>, d) = {}
      BY DEF LinesOf
    <3>2. LinesOf(disk'[f], d) = {}
      BY <2>1, <3>1
    <3> QED
      BY <2>2, <2>4, <3>2
  <2>6. \A j \in Conns : ~(At(j, "nl")' /\ Path(j)' = f)
    BY <2>3 DEF Path
  <2> QED
    BY <2>5, <2>6 DEF KeptInv
<1> QED
  BY <1>2, <1>3

LEMMA KeptData ==
  ASSUME TypeInv, FileMutex, NEW f \in Files \ FullFiles, KeptInv(f), NEW k \in Conns,
         OpAppendData(k) \/ OpAppendNewline(k), Path(k) = f
  PROVE  KeptInv(f)'
<1>0. /\ pc \in [Conns -> Labels] /\ disk \in [Files -> Seq(Token) \union {Absent}]
      /\ Cmd[k].data \in Token /\ NL \in Token
      /\ \A j \in Conns : Path(j) \in Files
  BY ConstantTypes DEF TypeInv, TypeOK, ServerTypeOK
<1>1. /\ disk[f] # Absent /\ disk[f] \in Seq(Token)
      /\ wire' = wire /\ up' = up /\ up
      /\ \A j \in Conns : j # k => pc'[j] = pc[j]
      /\ pc[k] \in {"data", "nl"}
  BY <1>0 DEF OpAppendData, OpAppendNewline, At, Goto, TypeInv, OpenInv, sockVars, procVars
<1>2. \A j \in Conns : j # k /\ Path(j) = f => ~At(j, "nl")'
  BY <1>1 DEF FileMutex, Accessing, At
<1>3. \A d \in Data : Told(f, d)' \subseteq Told(f, d) \union {k}
  BY <1>1 DEF Told, Path
<1>4. CASE OpAppendData(k)
  <2>1. disk'[f] = Append(disk[f], Cmd[k].data) /\ pc'[k] = "nl"
    BY <1>0, <1>4 DEF OpAppendData, AppendToken, Goto
  <2>2. \A d \in Data : ~(k \in Told(f, d)' /\ k \notin Told(f, d))
    BY <1>1, <2>1 DEF Told, Path
  <2>3. \A j \in Conns : At(j, "nl")' /\ Path(j) = f => Cmd[j].data = Cmd[k].data
    BY <1>2
  <2> QED
    BY <1>0, <1>1, <1>3, <2>1, <2>2, <2>3, KeptAppend
<1>5. CASE OpAppendNewline(k)
  <2>1. disk'[f] = Append(disk[f], NL) /\ pc'[k] = "ok" /\ At(k, "nl")
    BY <1>0, <1>5 DEF OpAppendNewline, AppendToken, Goto
  <2>2. disk[f] # <<>> /\ disk[f][Len(disk[f])] = Cmd[k].data
    BY <2>1 DEF KeptInv
  <2>3. \A d \in Data : k \in Told(f, d)' => d = Cmd[k].data
    BY DEF Told
  <2>4. \A j \in Conns : ~(At(j, "nl")' /\ Path(j) = f)
    <3>1. ~At(k, "nl")'
      BY <2>1 DEF At
    <3> QED
      BY <1>2, <3>1
  <2> QED
    BY <1>0, <1>1, <1>3, <2>1, <2>2, <2>3, <2>4, KeptAppend
<1> QED
  BY <1>4, <1>5

LEMMA NextKeptInv ==
  TypeInv /\ QueueInv /\ LockInv /\ CreateInv /\ AllKeptInv /\ [Next]_vars => AllKeptInv'
<1> SUFFICES ASSUME TypeInv, QueueInv, LockInv, CreateInv, AllKeptInv, [Next]_vars, PathsFit,
                    NEW f \in Files \ FullFiles
             PROVE  KeptInv(f)'
  BY DEF AllKeptInv, PathsFit
<1>0. /\ KeptInv(f) /\ FileMutex
      /\ disk \in [Files -> Seq(Token) \union {Absent}]
      /\ pc \in [Conns -> Labels] /\ queue \in Seq(Conns)
      /\ \A j \in Conns : OwnInv(j)
  BY FileMutexInv DEF AllKeptInv, TypeInv, TypeOK, ServerTypeOK, LockInv
<1>1. disk[f] \in Seq(Token) \union {Absent}
  BY <1>0
<1>2. CASE /\ disk' = disk /\ wire' = wire
           /\ \A j \in Conns : \/ pc'[j] \in {"none", "read", "done"}
                               \/ pc'[j] = pc[j] /\ (up' => up)
  <2>1. \A d \in Data : Told(f, d)' \subseteq Told(f, d)
    BY <1>2 DEF Told, Path
  <2>2. \A j \in Conns : At(j, "nl")' /\ Path(j) = f => At(j, "nl")
    BY <1>2 DEF At
  <2> QED
    BY <1>0, <1>1, <1>2, <2>1, <2>2, KeptAlone
<1>3. ASSUME NEW k \in Conns, Thread(k), ~SigPipe(k)
      PROVE  KeptInv(f)'
  <2>1. CASE OpCreate(k) /\ Path(k) = f
    BY <1>0, <2>1, KeptCreate
  <2>2. CASE (OpAppendData(k) \/ OpAppendNewline(k)) /\ Path(k) = f
    BY <1>0, <2>2, KeptData
  <2>3. CASE (OpAppendData(k) \/ OpAppendNewline(k)) /\ Path(k) # f
    <3>1. disk'[f] = disk[f]
      BY <1>0, <2>3 DEF OpAppendData, OpAppendNewline, AppendToken
    <3>2. wire' = wire /\ up' = up /\ \A j \in Conns : j # k => pc'[j] = pc[j]
      BY <1>0, <2>3 DEF OpAppendData, OpAppendNewline, Goto, sockVars, procVars
    <3>3. \A d \in Data : Told(f, d)' \subseteq Told(f, d)
      BY <2>3, <3>2 DEF Told, Path
    <3>4. \A j \in Conns : At(j, "nl")' /\ Path(j) = f => At(j, "nl")
      BY <2>3, <3>2 DEF At
    <3> QED
      BY <1>0, <1>1, <3>1, <3>3, <3>4, KeptAlone
  <2>4. CASE ~OpAppendData(k) /\ ~OpAppendNewline(k) /\ ~(OpCreate(k) /\ Path(k) = f)
    <3>1. disk'[f] = disk[f]
      <4>1. CASE OpCreate(k)
        BY <1>0, <2>4, <4>1 DEF OpCreate
      <4>2. CASE ~OpCreate(k)
        BY <1>3, <2>4, <4>2, StepsElsewhere
      <4> QED
        BY <4>1, <4>2
    <3>2. /\ up' = up /\ \A j \in Conns : j # k => pc'[j] = pc[j] /\ wire'[j] = wire[j]
          /\ pc'[k] # "nl"
          /\ Cmd[k].op = "APPEND" => pc'[k] # "ok"
          /\ Cmd[k].op = "APPEND" /\ Has(wire'[k], "OK") => Has(wire[k], "OK") \/ pc[k] = "ok"
      BY <1>3, <2>4, KeptThread
    <3>3. \A d \in Data : Told(f, d)' \subseteq Told(f, d)
      BY <3>2 DEF Told, Path
    <3>4. \A j \in Conns : At(j, "nl")' /\ Path(j) = f => At(j, "nl")
      BY <3>2 DEF At
    <3> QED
      BY <1>0, <1>1, <3>1, <3>3, <3>4, KeptAlone
  <2> QED
    BY <2>1, <2>2, <2>3, <2>4
<1>4. CASE Accept
  <2>1. queue # <<>> /\ Head(queue) \in Conns
    BY <1>0, <1>4, HeadTailProperties DEF Accept
  <2> QED
    BY <1>0, <1>2, <1>4, <2>1 DEF Accept, sockVars
<1>5. CASE Die
  BY <1>2, <1>5 DEF Die, sockVars
<1>6. CASE Boot
  <2>1. \A j \in Conns : pc'[j] \in {"none", "read", "done"}
    BY <1>0, <1>6 DEF Boot, OwnInv, threadVars
  <2> QED
    BY <1>2, <1>6, <2>1 DEF Boot, sockVars
<1>7. ASSUME NEW c \in Clients, Client(c) \/ Interrupt(c)
      PROVE  KeptInv(f)'
  <2>1. disk' = disk /\ wire' = wire /\ pc' = pc /\ up' = up
    BY <1>7 DEF Client, Connect, SendCommand, ReadReply, ReadClosed, Interrupt,
       procVars, threadVars, sockVars
  <2> QED
    BY <1>2, <2>1
<1>8. CASE UNCHANGED vars
  BY <1>2, <1>8 DEF vars, serverVars, procVars, threadVars, sockVars
<1> QED
  BY <1>3, <1>4, <1>5, <1>6, <1>7, <1>8 DEF Next, Idle, ServerNext, Kill, AcceptFails, SigPipe

\* If no path is too long for FileLock.path, every APPEND whose client was
\* shown "OK" has a whole line of its own in the file, across any number of
\* deaths of the server and whatever the other clients do, on every file on
\* which write() works.
THEOREM AckedCorrect == Spec => [](PathsFit => AckedKept)
<1>1. TypeInv /\ CreateInv /\ AllKeptInv => (PathsFit => AckedKept)
  <2> SUFFICES ASSUME TypeInv, CreateInv, AllKeptInv, PathsFit,
                      NEW f \in Files \ FullFiles, NEW d \in Data
               PROVE  LET acked == {k \in Conns : /\ Cmd[k] = [op |-> "APPEND", file |-> f, data |-> d]
                                                  /\ Acked(k)}
                      IN  acked # {} =>
                            /\ disk[f] # Absent
                            /\ Cardinality(acked) <= Cardinality(LinesOf(disk[f], d))
    BY DEF AckedKept, LinesKept, LinesOf
  <2> DEFINE acked == {k \in Conns : /\ Cmd[k] = [op |-> "APPEND", file |-> f, data |-> d]
                                     /\ Acked(k)}
  <2>1. acked \in SUBSET Told(f, d)
    <3>1. \A h \in Conns : Acked(h) => Has(wire[h], "OK")
      <4>1. \A h \in Conns : nread[h] \in Nat /\ Len(wire[h]) \in Nat /\ nread[h] <= Len(wire[h])
        BY LenProperties DEF TypeInv, TypeOK, ServerTypeOK, CreateInv, ReadInv
      <4> QED
        BY <4>1 DEF Acked, Has
    <3> QED
      BY <3>1 DEF Told, Path
  <2> HIDE DEF acked
  <2>2. /\ IsFiniteSet(Told(f, d)) /\ (Told(f, d) # {} => disk[f] # Absent)
        /\ disk[f] # Absent => Cardinality(Told(f, d)) <= Cardinality(LinesOf(disk[f], d))
    BY DEF AllKeptInv, KeptInv
  <2>3. /\ Cardinality(acked) \in Nat /\ Cardinality(Told(f, d)) \in Nat
        /\ Cardinality(acked) <= Cardinality(Told(f, d))
    BY <2>1, <2>2, FS_Subset, FS_CardinalityType, Zenon
  <2>4. ASSUME acked # {}
        PROVE  disk[f] # Absent /\ Cardinality(acked) <= Cardinality(LinesOf(disk[f], d))
    <3>1. disk[f] # Absent
      BY <2>1, <2>2, <2>4
    <3>2. disk[f] \in Seq(Token)
      BY <3>1 DEF TypeInv, TypeOK, ServerTypeOK
    <3>3. Cardinality(LinesOf(disk[f], d)) \in Nat
      BY <3>2, LinesOfFinite
    <3> QED
      BY <2>2, <2>3, <3>1, <3>3
  <2> QED
    BY <2>4 DEF acked
<1> QED
  BY <1>1, InitTypeInv, InitQueueInv, InitLockInv, InitCreateInv, InitKeptInv,
     NextTypeInv, NextQueueInv, NextLockInv, NextCreateInv, NextKeptInv, PTL DEF Spec

-----------------------------------------------------------------------------
(* READ. What a thread has written to its client is the beginning of the    *)
(* file, and for files only grow it remains so; a marker is the last thing  *)
(* written.                                                                 *)

Plain == Data \union {NL}
Marks == {"OK", "ERROR", "EOF"}

Copied(k) ==
  \A p \in 1..Len(wire[k]) :
    \/ disk[Path(k)] # Absent /\ p <= Len(disk[Path(k)]) /\ wire[k][p] = disk[Path(k)][p]
    \/ /\ p = Len(wire[k]) /\ pc[k] # "block" /\ wire[k][p] \in Marks
       /\ wire[k][p] = "EOF" => disk[Path(k)] # Absent

WireInv(k) ==
  /\ pc[k] \in {"block", "unlock", "close", "done"} \/ wire[k] = <<>>
  /\ pc[k] = "block" => Len(wire[k]) = off[k] /\ off[k] <= Len(disk[Path(k)])
  /\ Copied(k)

PlainInv ==
  \A f \in Files : disk[f] # Absent => \A p \in 1..Len(disk[f]) : disk[f][p] \in Plain

CopyInv == PlainInv /\ \A k \in Conns : WireInv(k)

LEMMA InitCopyInv == Init => CopyInv
<1> SUFFICES ASSUME Init PROVE CopyInv
  OBVIOUS
<1>1. PlainInv
  BY DEF Init, ServerInit, PlainInv
<1>2. ASSUME NEW k \in Conns PROVE WireInv(k)
  BY DEF Init, ServerInit, WireInv, Copied
<1> QED
  BY <1>1, <1>2 DEF CopyInv

LEMMA PlainTokens ==
  /\ Plain \subseteq Token /\ Marks \subseteq Token /\ Plain \intersect Marks = {}
  /\ \A k \in Conns : Cmd[k].data \in Plain
  /\ NL \in Plain
  BY ServerAssumption DEF ServerAssumption, Plain, Marks, Token, NL, Command

\* File f keeps what it holds.
Grew(f) ==
  disk[f] # Absent =>
    /\ disk'[f] # Absent /\ Len(disk[f]) <= Len(disk'[f])
    /\ \A p \in 1..Len(disk[f]) : disk'[f][p] = disk[f][p]

\* What an operation does to the files.
LEMMA DiskSteps ==
  ASSUME TypeInv, PlainInv, NEW k \in Conns,
         OpCreate(k) \/ OpAppendData(k) \/ OpAppendNewline(k)
  PROVE  PlainInv' /\ \A f \in Files : Grew(f)
<1>0. /\ disk \in [Files -> Seq(Token) \union {Absent}]
      /\ Path(k) \in Files /\ Absent \notin Seq(Token) /\ <<>> \in Seq(Token)
  BY ConstantTypes, ServerAssumption DEF ServerAssumption, TypeInv, TypeOK, ServerTypeOK
<1>1. \A f \in Files : disk[f] # Absent => disk[f] \in Seq(Token) /\ Len(disk[f]) \in Nat
  BY <1>0, LenProperties
<1>2. CASE disk' = disk
  BY <1>1, <1>2 DEF PlainInv, Grew
<1>3. CASE disk[Path(k)] = Absent /\ disk' = [disk EXCEPT ![Path(k)] = <<>>]
  <2>1. disk'[Path(k)] = <<>> /\ \A f \in Files : f # Path(k) => disk'[f] = disk[f]
    BY <1>0, <1>3
  <2> QED
    BY <1>1, <1>3, <2>1 DEF PlainInv, Grew
<1>4. ASSUME NEW t \in Plain, disk[Path(k)] # Absent,
             disk' = [disk EXCEPT ![Path(k)] = Append(@, t)]
      PROVE  PlainInv' /\ \A f \in Files : Grew(f)
  <2>1. /\ disk'[Path(k)] = Append(disk[Path(k)], t)
        /\ \A f \in Files : f # Path(k) => disk'[f] = disk[f]
    BY <1>0, <1>4
  <2>2. disk[Path(k)] \in Seq(Token) /\ t \in Token /\ Len(disk[Path(k)]) \in Nat
    BY <1>1, <1>0, <1>4, PlainTokens
  <2>3. /\ disk'[Path(k)] \in Seq(Token)
        /\ Len(disk'[Path(k)]) = Len(disk[Path(k)]) + 1
        /\ disk'[Path(k)][Len(disk[Path(k)]) + 1] = t
        /\ \A p \in 1..Len(disk[Path(k)]) : disk'[Path(k)][p] = disk[Path(k)][p]
    BY <2>1, <2>2, AppendProperties
  <2>4. Grew(Path(k)) /\ \A p \in 1..Len(disk'[Path(k)]) : disk'[Path(k)][p] \in Plain
    BY <1>0, <1>4, <2>2, <2>3 DEF Grew, PlainInv
  <2>5. PlainInv'
    BY <2>1, <2>4 DEF PlainInv
  <2>6. ASSUME NEW f \in Files, f # Path(k) PROVE Grew(f)
    BY <1>1, <2>1, <2>6 DEF Grew
  <2> QED
    BY <2>4, <2>5, <2>6
<1>5. CASE OpCreate(k)
  BY <1>2, <1>3, <1>5 DEF OpCreate, Exists
<1>6. CASE OpAppendData(k) \/ OpAppendNewline(k)
  <2>1. disk[Path(k)] # Absent
    BY <1>6 DEF OpAppendData, OpAppendNewline, At, TypeInv, OpenInv
  <2>2. PICK t \in Plain : AppendToken(k, t)
    BY <1>6, PlainTokens DEF OpAppendData, OpAppendNewline
  <2> QED
    BY <1>2, <1>4, <2>1, <2>2 DEF AppendToken
<1> QED
  BY <1>5, <1>6

\* A step that writes nothing to k, and does not start its loop in op_read
\* unless nothing was written.
LEMMA WireAlone ==
  ASSUME NEW k \in Conns, WireInv(k), wire'[k] = wire[k], Grew(Path(k)),
         wire[k] = <<>> \/ Len(wire[k]) \in Nat,
         disk[Path(k)] # Absent => Len(disk[Path(k)]) \in Nat,
         disk'[Path(k)] # Absent => Len(disk'[Path(k)]) \in Nat,
         off[k] \in Nat, pc[k] = "block" => disk[Path(k)] # Absent,
         \/ pc'[k] = pc[k] /\ (pc[k] = "block" => off'[k] = off[k])
         \/ pc'[k] \in {"unlock", "close", "done"}
         \/ wire[k] = <<>> /\ pc'[k] # "block"
         \/ wire[k] = <<>> /\ pc'[k] = "block" /\ off'[k] = 0 /\ disk'[Path(k)] # Absent
  PROVE  WireInv(k)'
<1>1. Path(k)' = Path(k)
  BY DEF Path
<1>2. Copied(k)'
  <2>1. CASE wire[k] = <<>>
    BY <2>1 DEF Copied
  <2>2. CASE wire[k] # <<>>
    BY <1>1, <2>2 DEF Copied, WireInv, Grew
  <2> QED
    BY <2>1, <2>2
<1>3. pc'[k] \in {"block", "unlock", "close", "done"} \/ wire'[k] = <<>>
  BY DEF WireInv
<1>4. pc'[k] = "block" => Len(wire'[k]) = off'[k] /\ off'[k] <= Len(disk'[Path(k)])
  <2>1. CASE pc'[k] = pc[k] /\ (pc[k] = "block" => off'[k] = off[k])
    BY <2>1 DEF WireInv, Grew
  <2>2. CASE wire[k] = <<>> /\ pc'[k] = "block" /\ off'[k] = 0 /\ disk'[Path(k)] # Absent
    BY <2>2
  <2> QED
    BY <2>1, <2>2
<1> QED
  BY <1>1, <1>2, <1>3, <1>4 DEF WireInv

LEMMA BlockFacts ==
  ASSUME NEW s \in Seq(Token), NEW w \in Seq(Token), NEW n \in Nat \ {0},
         Len(w) + n <= Len(s), \A p \in 1..Len(w) : w[p] = s[p]
  PROVE  LET v == w \o SubSeq(s, Len(w) + 1, Len(w) + n)
         IN  Len(v) = Len(w) + n /\ \A p \in 1..Len(v) : v[p] = s[p]
<1> DEFINE t == SubSeq(s, Len(w) + 1, Len(w) + n)
<1>1. /\ Len(s) \in Nat /\ Len(w) \in Nat
      /\ Len(w) + 1 \in Int /\ Len(w) + n \in Int
  BY LenProperties
<1>2. \A p \in (Len(w) + 1)..(Len(w) + n) : s[p] \in Token
  BY <1>1, ElementOfSeq
<1>3. /\ t \in Seq(Token)
      /\ Len(t) = IF Len(w) + 1 <= Len(w) + n THEN Len(w) + n - (Len(w) + 1) + 1 ELSE 0
      /\ \A p \in 1..(Len(w) + n - (Len(w) + 1) + 1) : t[p] = s[Len(w) + 1 + p - 1]
  BY <1>1, <1>2, SubSeqProperties
<1> HIDE DEF t
<1>4. Len(t) = n
  BY <1>1, <1>3
<1>5. ASSUME NEW p \in 1..n PROVE t[p] = s[Len(w) + p]
  <2>1. p \in 1..(Len(w) + n - (Len(w) + 1) + 1) /\ Len(w) + 1 + p - 1 = Len(w) + p
    BY <1>1
  <2> QED
    BY <1>3, <2>1
<1>6. /\ Len(w \o t) = Len(w) + n
      /\ \A p \in 1..(Len(w) + n) : (w \o t)[p] = IF p <= Len(w) THEN w[p] ELSE t[p - Len(w)]
  <2>1. /\ Len(w \o t) = Len(w) + Len(t)
        /\ \A p \in 1..(Len(w) + Len(t)) :
             (w \o t)[p] = IF p <= Len(w) THEN w[p] ELSE t[p - Len(w)]
    BY <1>3, ConcatProperties
  <2> QED
    BY <1>4, <2>1
<1>7. ASSUME NEW p \in 1..(Len(w) + n) PROVE (w \o t)[p] = s[p]
  <2>1. CASE p <= Len(w)
    BY <1>1, <1>6, <2>1
  <2>2. CASE ~(p <= Len(w))
    <3>1. p - Len(w) \in 1..n /\ Len(w) + (p - Len(w)) = p
      BY <1>1, <2>2
    <3> QED
      BY <1>5, <1>6, <2>2, <3>1
  <2> QED
    BY <2>1, <2>2
<1> QED
  BY <1>6, <1>7 DEF t

\* A block of the file follows what was written before.
LEMMA WireBlock ==
  ASSUME TypeInv, NEW k \in Conns, WireInv(k), OpReadBlock(k)
  PROVE  /\ WireInv(k)'
         /\ Len(wire[k]) <= Len(wire'[k])
         /\ \A p \in 1..Len(wire'[k]) : wire'[k][p] = disk[Path(k)][p]
         /\ \A p \in 1..Len(wire[k]) : wire'[k][p] = wire[k][p]
         /\ Len(wire'[k]) <= Len(disk[Path(k)])
<1> DEFINE text == disk[Path(k)]
           rest == Len(text) - off[k]
           n == IF rest < BLOCK THEN rest ELSE BLOCK
           block == SubSeq(text, off[k] + 1, off[k] + n)
<1>0. /\ wire \in [Conns -> Seq(Token)] /\ off \in [Conns -> Nat]
      /\ BLOCK \in Nat \ {0} /\ pc[k] = "block" /\ text # Absent /\ text \in Seq(Token)
  BY ConstantTypes DEF TypeInv, TypeOK, ServerTypeOK, OpenInv, OpReadBlock, At
<1>1. /\ rest > 0 /\ disk' = disk /\ pc' = pc
      /\ wire' = [wire EXCEPT ![k] = @ \o block]
      /\ off' = [off EXCEPT ![k] = @ + n]
  BY DEF OpReadBlock, WriteClient
<1>2. /\ Len(text) \in Nat /\ Len(wire[k]) = off[k] /\ off[k] \in Nat /\ off[k] <= Len(text)
      /\ wire[k] \in Seq(Token)
  BY <1>0, LenProperties DEF WireInv
<1>3. n \in Nat \ {0} /\ off[k] + n <= Len(text)
  BY <1>0, <1>1, <1>2
<1>4. wire'[k] = wire[k] \o block /\ off'[k] = off[k] + n
  BY <1>0, <1>1
<1>5. \A p \in 1..Len(wire[k]) : wire[k][p] = text[p]
  BY <1>0 DEF WireInv, Copied
<1>6. Path(k)' = Path(k) /\ disk'[Path(k)] = text /\ pc'[k] = "block"
  BY <1>0, <1>1 DEF Path
<1>7. block = SubSeq(text, Len(wire[k]) + 1, Len(wire[k]) + n)
  BY <1>2
<1> HIDE DEF n, rest, text, block
<1>8. Len(wire'[k]) = off[k] + n /\ \A p \in 1..Len(wire'[k]) : wire'[k][p] = text[p]
  <2> DEFINE w == wire[k]
  <2>1. /\ text \in Seq(Token) /\ w \in Seq(Token) /\ n \in Nat \ {0}
        /\ Len(w) + n <= Len(text) /\ \A p \in 1..Len(w) : w[p] = text[p]
    BY <1>0, <1>2, <1>3, <1>5
  <2>2. wire'[k] = w \o SubSeq(text, Len(w) + 1, Len(w) + n) /\ Len(w) = off[k]
    BY <1>2, <1>4, <1>7
  <2> HIDE DEF w
  <2>3. LET v == w \o SubSeq(text, Len(w) + 1, Len(w) + n)
        IN  Len(v) = Len(w) + n /\ \A p \in 1..Len(v) : v[p] = text[p]
    BY <2>1, BlockFacts
  <2> QED
    BY <2>2, <2>3
<1>9. Copied(k)'
  <2>1. \A p \in 1..Len(wire'[k]) : p <= Len(text)
    BY <1>2, <1>3, <1>8
  <2> QED
    BY <1>0, <1>6, <1>8, <2>1 DEF Copied
<1>10. WireInv(k)'
  <2>1. Len(wire'[k]) = off'[k] /\ off'[k] <= Len(disk[Path(k)]') /\ Path(k)' = Path(k)
    BY <1>3, <1>4, <1>6, <1>8
  <2>2. pc'[k] \in {"block", "unlock", "close", "done"}
    BY <1>6
  <2> QED
    BY <1>9, <2>1, <2>2 DEF WireInv
<1>11. ASSUME NEW p \in 1..Len(wire[k]) PROVE wire'[k][p] = wire[k][p]
  <2>1. p \in 1..Len(wire'[k])
    BY <1>2, <1>3, <1>8
  <2> QED
    BY <1>5, <1>8, <2>1
<1> QED
  BY <1>2, <1>3, <1>8, <1>10, <1>11 DEF text

\* A marker follows it and nothing follows the marker.
LEMMA WireMark ==
  ASSUME TypeInv, NEW k \in Conns, WireInv(k), OpReadEnd(k) \/ SendOk(k) \/ SendError(k)
  PROVE  /\ WireInv(k)'
         /\ Len(wire'[k]) = Len(wire[k]) + 1
         /\ \A p \in 1..Len(wire[k]) : wire'[k][p] = wire[k][p]
         /\ ~OpReadEnd(k) => wire'[k][Len(wire[k]) + 1] # "EOF"
<1>0. /\ wire \in [Conns -> Seq(Token)] /\ pc \in [Conns -> Labels]
      /\ Len(wire[k]) \in Nat /\ wire[k] \in Seq(Token)
      /\ pc[k] = "block" => disk[Path(k)] # Absent
  BY LenProperties DEF TypeInv, TypeOK, ServerTypeOK, OpenInv
<1>1. PICK m \in Marks : /\ WriteClient(k, <<m>>)
                         /\ m = "EOF" <=> OpReadEnd(k)
                         /\ OpReadEnd(k) => pc[k] = "block"
  <2>1. CASE OpReadEnd(k)
    BY <2>1 DEF OpReadEnd, Marks, At
  <2>2. CASE SendOk(k)
    BY <2>2 DEF SendOk, OpReadEnd, Marks, At
  <2>3. CASE SendError(k)
    BY <2>3 DEF SendError, OpReadEnd, Marks, At
  <2> QED
    BY <2>1, <2>2, <2>3
<1>2. pc[k] \in {"block", "ok", "err"} /\ pc'[k] \in {"unlock", "close"}
  BY <1>0 DEF OpReadEnd, SendOk, SendError, At, Goto
<1>3. wire'[k] = wire[k] \o <<m>> /\ disk' = disk
  BY <1>0, <1>1 DEF WriteClient
<1>4. /\ Len(wire'[k]) = Len(wire[k]) + 1
      /\ wire'[k][Len(wire[k]) + 1] = m
      /\ \A p \in 1..Len(wire[k]) : wire'[k][p] = wire[k][p]
  <2>1. <<m>> \in Seq(Token) /\ Len(<<m>>) = 1 /\ <<m>>[1] = m
    BY PlainTokens
  <2>2. /\ Len(wire[k] \o <<m>>) = Len(wire[k]) + Len(<<m>>)
        /\ \A p \in 1..(Len(wire[k]) + Len(<<m>>)) :
             (wire[k] \o <<m>>)[p] = IF p <= Len(wire[k]) THEN wire[k][p] ELSE <<m>>[p - Len(wire[k])]
    BY <1>0, <2>1, ConcatProperties
  <2> QED
    BY <1>0, <1>3, <2>1, <2>2
<1>5. Copied(k)'
  <2> SUFFICES ASSUME NEW p \in 1..(Len(wire[k]) + 1)
               PROVE  \/ /\ disk[Path(k)] # Absent /\ p <= Len(disk[Path(k)])
                         /\ wire'[k][p] = disk[Path(k)][p]
                      \/ /\ p = Len(wire[k]) + 1 /\ wire'[k][p] \in Marks
                         /\ wire'[k][p] = "EOF" => disk[Path(k)] # Absent
    BY <1>2, <1>3, <1>4 DEF Copied, Path
  <2>1. CASE p = Len(wire[k]) + 1
    BY <1>0, <1>1, <1>4, <2>1
  <2>2. CASE p \in 1..Len(wire[k])
    <3>1. pc[k] = "block"
      BY <1>0, <1>2, <2>2 DEF WireInv
    <3> QED
      BY <1>4, <2>2, <3>1 DEF WireInv, Copied
  <2> QED
    BY <1>0, <2>1, <2>2
<1>6. WireInv(k)'
  BY <1>2, <1>5 DEF WireInv
<1> QED
  BY <1>1, <1>4, <1>6

LEMMA ThreadSteps ==
  ASSUME TypeInv, CopyInv, NEW h \in Conns, Thread(h), ~SigPipe(h)
  PROVE  /\ \A j \in Conns : j # h => /\ wire'[j] = wire[j] /\ pc'[j] = pc[j]
                                     /\ off'[j] = off[j]
         /\ \/ OpReadBlock(h) \/ OpReadEnd(h) \/ SendOk(h) \/ SendError(h)
            \/ /\ wire' = wire
               /\ \/ pc'[h] \in {"close", "done"}
                  \/ wire[h] = <<>> /\ pc'[h] # "block"
                  \/ /\ wire[h] = <<>> /\ pc'[h] = "block" /\ off'[h] = 0
                     /\ disk' = disk /\ disk[Path(h)] # Absent
         /\ \/ disk' = disk
            \/ OpCreate(h) \/ OpAppendData(h) \/ OpAppendNewline(h)
<1>0. /\ pc \in [Conns -> Labels] /\ wire \in [Conns -> Seq(Token)]
      /\ off \in [Conns -> Nat]
      /\ pc[h] \in {"block", "unlock", "close", "done"} \/ wire[h] = <<>>
  BY DEF TypeInv, TypeOK, ServerTypeOK, CopyInv, WireInv
<1>1. CASE OpReadBlock(h) \/ OpReadEnd(h) \/ SendOk(h) \/ SendError(h)
  BY <1>0, <1>1 DEF OpReadBlock, OpReadEnd, SendOk, SendError, WriteClient, Goto
<1>2. CASE OpOpen(h)
  BY <1>0, <1>2 DEF OpOpen, At, Goto, Exists, sockVars
<1>3. CASE OpCreate(h) \/ OpAppend(h)
  BY <1>0, <1>3 DEF OpCreate, OpAppend, OpAppendData, OpAppendNewline, At, Goto, sockVars
<1>4. CASE GererClient(h) \/ GetFileLock(h) \/ LockFile(h)
  BY <1>0, <1>4 DEF GererClient, GetFileLock, LockTable, SearchTable, InsertEntry, LockFile,
     At, Goto, sockVars
<1>5. CASE UnlockFile(h) \/ CloseClient(h)
  BY <1>0, <1>5 DEF UnlockFile, CloseClient, At, Goto, sockVars
<1> QED
  BY <1>1, <1>2, <1>3, <1>4, <1>5 DEF Thread, OpRead

LEMMA NextCopyInv == TypeInv /\ QueueInv /\ CopyInv /\ [Next]_vars => CopyInv'
<1> SUFFICES ASSUME TypeInv, QueueInv, CopyInv, [Next]_vars PROVE CopyInv'
  OBVIOUS
<1>0. /\ queue \in Seq(Conns) /\ pc \in [Conns -> Labels]
      /\ off \in [Conns -> Nat] /\ wire \in [Conns -> Seq(Token)]
      /\ disk \in [Files -> Seq(Token) \union {Absent}]
      /\ disk' \in [Files -> Seq(Token) \union {Absent}]
      /\ \A k \in Conns : Path(k) \in Files
  BY NextTypeInv, ConstantTypes DEF TypeInv, TypeOK, ServerTypeOK
<1>1. \A k \in Conns :
        /\ Len(wire[k]) \in Nat /\ off[k] \in Nat
        /\ disk[Path(k)] # Absent => Len(disk[Path(k)]) \in Nat
        /\ disk'[Path(k)] # Absent => Len(disk'[Path(k)]) \in Nat
        /\ pc[k] = "block" => disk[Path(k)] # Absent
        /\ WireInv(k)
  BY <1>0, LenProperties DEF TypeInv, OpenInv, CopyInv
<1>2. CASE /\ disk' = disk /\ wire' = wire /\ off' = off
           /\ \A k \in Conns : \/ pc'[k] = pc[k] \/ pc'[k] = "done"
                               \/ pc[k] = "none" /\ pc'[k] = "read"
  <2>1. \A f \in Files : Grew(f)
    BY <1>0, <1>2, LenProperties DEF Grew
  <2>2. ASSUME NEW k \in Conns PROVE WireInv(k)'
    <3>1. pc[k] = "none" => wire[k] = <<>>
      BY <1>1 DEF WireInv
    <3> QED
      BY <1>0, <1>1, <1>2, <2>1, <3>1, WireAlone
  <2> QED
    BY <1>2, <2>2 DEF CopyInv, PlainInv
<1>3. ASSUME NEW h \in Conns, Thread(h), ~SigPipe(h)
      PROVE  CopyInv'
  <2>1. PlainInv' /\ \A f \in Files : Grew(f)
    <3>1. CASE disk' = disk
      BY <1>0, <3>1, LenProperties DEF CopyInv, PlainInv, Grew
    <3>2. CASE OpCreate(h) \/ OpAppendData(h) \/ OpAppendNewline(h)
      BY <3>2, DiskSteps DEF CopyInv
    <3> QED
      BY <1>3, <3>1, <3>2, ThreadSteps
  <2>2. ASSUME NEW k \in Conns, k # h PROVE WireInv(k)'
    <3>1. wire'[k] = wire[k] /\ pc'[k] = pc[k] /\ off'[k] = off[k]
      BY <1>3, <2>2, ThreadSteps
    <3> QED
      BY <1>0, <1>1, <2>1, <3>1, WireAlone
  <2>3. WireInv(h)'
    <3>1. CASE OpReadBlock(h)
      BY <1>1, <3>1, WireBlock
    <3>2. CASE OpReadEnd(h) \/ SendOk(h) \/ SendError(h)
      BY <1>1, <3>2, WireMark
    <3>3. CASE ~OpReadBlock(h) /\ ~OpReadEnd(h) /\ ~SendOk(h) /\ ~SendError(h)
      <4>1. /\ wire'[h] = wire[h]
            /\ \/ pc'[h] \in {"unlock", "close", "done"}
               \/ wire[h] = <<>> /\ pc'[h] # "block"
               \/ wire[h] = <<>> /\ pc'[h] = "block" /\ off'[h] = 0 /\ disk'[Path(h)] # Absent
        BY <1>3, <3>3, ThreadSteps
      <4> QED
        BY <1>0, <1>1, <2>1, <4>1, WireAlone
    <3> QED
      BY <3>1, <3>2, <3>3
  <2> QED
    BY <2>1, <2>2, <2>3 DEF CopyInv
<1>4. CASE Accept
  <2>1. queue # <<>> /\ Head(queue) \in Conns /\ pc[Head(queue)] = "none"
    <3>1. queue # <<>> /\ Len(queue) \in Nat \ {0}
      BY <1>0, <1>4, EmptySeq DEF Accept
    <3>2. Head(queue) = queue[1] /\ Head(queue) \in Conns
      BY <1>0, <3>1, HeadTailProperties
    <3> QED
      BY <3>1, <3>2 DEF QueueInv
  <2> QED
    BY <1>0, <1>2, <1>4, <2>1 DEF Accept, sockVars
<1>5. CASE Die
  BY <1>2, <1>5 DEF Die, sockVars
<1>6. CASE Boot
  BY <1>2, <1>6 DEF Boot, sockVars, threadVars
<1>7. ASSUME NEW c \in Clients, Client(c) \/ Interrupt(c)
      PROVE  CopyInv'
  <2>1. disk' = disk /\ wire' = wire /\ pc' = pc /\ off' = off
    BY <1>7 DEF Client, Connect, SendCommand, ReadReply, ReadClosed, Interrupt,
       threadVars, sockVars
  <2> QED
    BY <1>2, <2>1
<1>8. CASE UNCHANGED vars
  BY <1>2, <1>8 DEF vars, serverVars, threadVars, sockVars
<1> QED
  BY <1>3, <1>4, <1>5, <1>6, <1>7, <1>8 DEF Next, Idle, ServerNext, Kill, AcceptFails, SigPipe

-----------------------------------------------------------------------------
(* A complete response holds every line the same client was told is in the  *)
(* file before: the end of the file came after it, and "OK" earlier still.  *)

Earlier(j, k) ==
  /\ Cmd[j].op = "APPEND" /\ Cmd[k].op = "READ"
  /\ Path(j) = Path(k) /\ Path(k) \notin FullFiles
  /\ j[1] = k[1] /\ j[2] < k[2]

FoundInv ==
  PathsFit =>
    \A j, k \in Conns :
      Earlier(j, k) /\ Acked(j) /\ Has(wire[k], "EOF") =>
        \E p \in 1..(Len(wire[k]) - 1) : wire[k][p] = Cmd[j].data

LEMMA InitFoundInv == Init => FoundInv
<1> SUFFICES ASSUME Init, NEW k \in Conns PROVE ~Has(wire[k], "EOF")
  BY DEF FoundInv
<1> QED
  BY DEF Init, ServerInit, Has

\* What was written stays; the end marker is written by op_read only.
LEMMA WireGrows ==
  ASSUME TypeInv, CopyInv, [Next]_vars, NEW k \in Conns
  PROVE  /\ Len(wire[k]) <= Len(wire'[k])
         /\ \A p \in 1..Len(wire[k]) : wire'[k][p] = wire[k][p]
         /\ Has(wire'[k], "EOF") => Has(wire[k], "EOF") \/ OpReadEnd(k)
<1>0. /\ wire \in [Conns -> Seq(Token)] /\ Len(wire[k]) \in Nat /\ WireInv(k)
      /\ disk \in [Files -> Seq(Token) \union {Absent}] /\ Path(k) \in Files
  BY ConstantTypes, LenProperties DEF TypeInv, TypeOK, ServerTypeOK, CopyInv
<1>1. CASE wire'[k] = wire[k]
  BY <1>0, <1>1
<1>2. CASE OpReadBlock(k)
  <2>1. /\ Len(wire[k]) <= Len(wire'[k]) /\ Len(wire'[k]) <= Len(disk[Path(k)])
        /\ \A p \in 1..Len(wire'[k]) : wire'[k][p] = disk[Path(k)][p]
        /\ \A p \in 1..Len(wire[k]) : wire'[k][p] = wire[k][p]
    BY <1>0, <1>2, WireBlock
  <2>2. disk[Path(k)] # Absent
    BY <1>2 DEF OpReadBlock, At, TypeInv, OpenInv
  <2>3. Len(disk[Path(k)]) \in Nat /\ \A p \in 1..Len(disk[Path(k)]) : disk[Path(k)][p] \in Plain
    BY <1>0, <2>2, LenProperties DEF CopyInv, PlainInv
  <2>4. wire'[k] \in Seq(Token)
    BY NextTypeInv DEF TypeInv, TypeOK, ServerTypeOK
  <2>5. \A p \in 1..Len(wire'[k]) : wire'[k][p] \in Plain
    <3>1. Len(wire'[k]) \in Nat
      BY <2>4, LenProperties
    <3> QED
      BY <2>1, <2>3, <3>1
  <2>6. ~Has(wire'[k], "EOF")
    BY <2>5, PlainTokens DEF Has, Marks
  <2> QED
    BY <2>1, <2>6
<1>3. CASE OpReadEnd(k) \/ SendOk(k) \/ SendError(k)
  <2>1. /\ Len(wire'[k]) = Len(wire[k]) + 1
        /\ \A p \in 1..Len(wire[k]) : wire'[k][p] = wire[k][p]
        /\ ~OpReadEnd(k) => wire'[k][Len(wire[k]) + 1] # "EOF"
    BY <1>0, <1>3, WireMark
  <2>2. ASSUME ~OpReadEnd(k), Has(wire'[k], "EOF")
        PROVE  Has(wire[k], "EOF")
    <3>1. PICK p \in 1..(Len(wire[k]) + 1) : wire'[k][p] = "EOF"
      BY <2>1, <2>2 DEF Has
    <3>2. p \in 1..Len(wire[k])
      BY <1>0, <2>1, <2>2, <3>1
    <3> QED
      BY <2>1, <3>1, <3>2 DEF Has
  <2> QED
    BY <1>0, <2>1, <2>2
<1>4. ASSUME NEW h \in Conns, Thread(h), ~SigPipe(h)
      PROVE  \/ wire'[k] = wire[k]
             \/ OpReadBlock(k) \/ OpReadEnd(k) \/ SendOk(k) \/ SendError(k)
  BY <1>4, ThreadSteps
<1>5. ASSUME NEW c \in Clients, Client(c) \/ Interrupt(c)
      PROVE  wire'[k] = wire[k]
  BY <1>5 DEF Client, Connect, SendCommand, ReadReply, ReadClosed, Interrupt, sockVars
<1>6. CASE Accept \/ Die \/ Boot \/ UNCHANGED vars
  BY <1>1, <1>6 DEF Accept, Die, Boot, vars, serverVars, sockVars
<1> QED
  BY <1>1, <1>2, <1>3, <1>4, <1>5, <1>6
     DEF Next, Idle, ServerNext, Kill, AcceptFails, SigPipe

\* A client is shown nothing more of a command once a later one is served.
LEMMA AckedBefore ==
  ASSUME TypeInv, QueueInv, CreateInv, CopyInv, [Next]_vars,
         NEW j \in Conns, NEW k \in Conns, j[1] = k[1], j[2] < k[2], pc[k] # "none"
  PROVE  Acked(j)' => Acked(j)
<1>0. /\ nread \in [Conns -> Nat] /\ wire[j] \in Seq(Token) /\ Len(wire[j]) \in Nat
      /\ nread[j] \in Nat /\ nread[j] <= Len(wire[j])
      /\ idx \in [Clients -> Nat \ {0}]
  BY LenProperties DEF TypeInv, TypeOK, ServerTypeOK, CreateInv, ReadInv
<1>1. nread'[j] = nread[j]
  <2>1. ASSUME NEW c \in Clients, ReadReply(c)
        PROVE  nread'[j] = nread[j]
    <3>1. Conn(c) # j
      <4> SUFFICES ASSUME Conn(c) = j PROVE FALSE
        OBVIOUS
      <4>1. k[1] = c /\ k[2] > idx[k[1]]
        BY DEF Conn
      <4> QED
        BY <4>1 DEF QueueInv, Fresh
    <3>2. Conn(c) \in Conns
      BY DEF TypeInv, ConnInv
    <3>3. PICK n \in 1..Len(Unread(Conn(c))) : nread' = [nread EXCEPT ![Conn(c)] = @ + n]
      BY <2>1 DEF ReadReply
    <3> QED
      BY <1>0, <3>1, <3>2, <3>3
  <2>2. ASSUME NEW c \in Clients, Client(c) \/ Interrupt(c), ~ReadReply(c)
        PROVE  nread' = nread
    BY <2>2 DEF Client, Connect, SendCommand, ReadClosed, Interrupt, sockVars
  <2>3. ASSUME NEW h \in Conns, Thread(h), ~SigPipe(h)
        PROVE  nread' = nread
    BY <2>3 DEF Thread, GererClient, GetFileLock, LockTable, SearchTable, InsertEntry,
       LockFile, OpCreate, OpOpen, OpAppend, OpAppendData, OpAppendNewline, OpRead,
       OpReadBlock, OpReadEnd, SendOk, SendError, WriteClient, UnlockFile, CloseClient, sockVars
  <2>4. CASE Accept \/ Die \/ Boot \/ UNCHANGED vars
    BY <2>4 DEF Accept, Die, Boot, vars, serverVars, sockVars
  <2> QED
    BY <2>1, <2>2, <2>3, <2>4 DEF Next, Idle, ServerNext, Kill, AcceptFails, SigPipe
<1>2. \A p \in 1..Len(wire[j]) : wire'[j][p] = wire[j][p]
  BY WireGrows
<1>3. ASSUME NEW p \in 1..nread'[j], wire'[j][p] = "OK"
      PROVE  p \in 1..nread[j] /\ wire[j][p] = "OK"
  BY <1>0, <1>1, <1>2, <1>3
<1> QED
  BY <1>3 DEF Acked

LEMMA NextFoundInv ==
  TypeInv /\ QueueInv /\ CreateInv /\ AllKeptInv /\ CopyInv /\ FoundInv /\ [Next]_vars => FoundInv'
<1> SUFFICES ASSUME TypeInv, QueueInv, CreateInv, AllKeptInv, CopyInv, FoundInv, [Next]_vars,
                    PathsFit, NEW j \in Conns, NEW k \in Conns, Earlier(j, k),
                    Acked(j)', Has(wire'[k], "EOF")
             PROVE  \E p \in 1..(Len(wire'[k]) - 1) : wire'[k][p] = Cmd[j].data
  BY DEF FoundInv, PathsFit, Earlier, Path
<1>0. /\ wire[k] \in Seq(Token) /\ Len(wire[k]) \in Nat /\ WireInv(k)
      /\ wire'[k] \in Seq(Token) /\ Len(wire'[k]) \in Nat
  BY LenProperties, NextTypeInv DEF TypeInv, TypeOK, ServerTypeOK, CopyInv
<1>1. /\ Len(wire[k]) <= Len(wire'[k])
      /\ \A p \in 1..Len(wire[k]) : wire'[k][p] = wire[k][p]
      /\ Has(wire[k], "EOF") \/ OpReadEnd(k)
  BY WireGrows
<1>2. pc[k] # "none"
  <2>1. CASE OpReadEnd(k)
    BY <2>1 DEF OpReadEnd, At
  <2>2. CASE Has(wire[k], "EOF")
    <3>1. wire[k] # <<>>
      BY <2>2 DEF Has
    <3> QED
      BY <1>0, <3>1 DEF WireInv
  <2> QED
    BY <1>1, <2>1, <2>2
<1>3. Acked(j)
  BY <1>2, AckedBefore DEF Earlier
<1>4. CASE Has(wire[k], "EOF")
  <2>1. PICK p \in 1..(Len(wire[k]) - 1) : wire[k][p] = Cmd[j].data
    BY <1>3, <1>4 DEF FoundInv
  <2>2. p \in 1..Len(wire[k]) /\ p \in 1..(Len(wire'[k]) - 1)
    BY <1>0, <1>1, <2>1
  <2> QED
    BY <1>1, <2>1, <2>2
<1>5. CASE OpReadEnd(k)
  <2> DEFINE text == disk[Path(k)]
  <2>1. text # Absent /\ text \in Seq(Token) /\ Len(text) \in Nat /\ pc[k] = "block"
    <3>1. pc[k] = "block" /\ text # Absent
      BY <1>5 DEF OpReadEnd, At, TypeInv, OpenInv
    <3>2. text \in Seq(Token)
      BY <3>1, ConstantTypes DEF TypeInv, TypeOK, ServerTypeOK
    <3> QED
      BY <3>1, <3>2, LenProperties
  <2>2. Len(wire[k]) = Len(text) /\ \A p \in 1..Len(text) : wire[k][p] = text[p]
    BY <1>0, <1>5, <2>1 DEF OpReadEnd, WireInv, Copied
  <2>3. Len(wire'[k]) = Len(wire[k]) + 1
    BY <1>0, <1>5, WireMark
  <2>4. j \in Told(Path(k), Cmd[j].data)
    <3>1. nread[j] \in Nat /\ Len(wire[j]) \in Nat /\ nread[j] <= Len(wire[j])
      BY LenProperties DEF TypeInv, TypeOK, ServerTypeOK, CreateInv, ReadInv
    <3>2. Has(wire[j], "OK")
      BY <1>3, <3>1 DEF Acked, Has
    <3> QED
      BY <3>2 DEF Told, Earlier
  <2>5. LinesOf(text, Cmd[j].data) # {}
    <3>1. Cmd[j].data \in Data /\ Path(k) \in Files \ FullFiles
      BY ServerAssumption, ConstantTypes DEF ServerAssumption, Command, Earlier
    <3>2. /\ IsFiniteSet(Told(Path(k), Cmd[j].data))
          /\ Cardinality(Told(Path(k), Cmd[j].data)) <= Cardinality(LinesOf(text, Cmd[j].data))
      BY <2>1, <3>1 DEF AllKeptInv, KeptInv
    <3>3. Cardinality(Told(Path(k), Cmd[j].data)) \in Nat \ {0}
      BY <2>4, <3>2, FS_CardinalityType, FS_EmptySet, Zenon
    <3> QED
      BY <3>2, <3>3, FS_EmptySet
  <2>6. PICK p \in 1..(Len(text) - 1) : text[p] = Cmd[j].data
    BY <2>5 DEF LinesOf
  <2> HIDE DEF text
  <2>7. p \in 1..Len(text) /\ p \in 1..Len(wire[k]) /\ p \in 1..(Len(wire'[k]) - 1)
    BY <2>1, <2>2, <2>3, <2>6
  <2> QED
    BY <1>1, <2>2, <2>6, <2>7
<1> QED
  BY <1>1, <1>4, <1>5

\* If no path is too long for FileLock.path, a response to READ that ends with
\* the end marker is a prefix of the file, and holds every line that the same
\* client was told is in it before, on every file on which write() works,
\* whatever the other clients append in the meantime and however often the
\* server died.
THEOREM ReadsCorrect == Spec => [](PathsFit => ReadConsistent)
<1>1. TypeInv /\ CreateInv /\ CopyInv /\ FoundInv => (PathsFit => ReadConsistent)
  <2> SUFFICES ASSUME TypeInv, CreateInv, CopyInv, FoundInv, PathsFit, NEW k \in Conns,
                      Cmd[k].op = "READ", nread[k] - 1 >= 0, wire[k][nread[k]] = "EOF"
               PROVE  LET n == nread[k] - 1
                      IN  /\ n <= Len(disk[Path(k)])
                          /\ SubSeq(wire[k], 1, n) = SubSeq(disk[Path(k)], 1, n)
                          /\ \A j \in Conns : Earlier(j, k) /\ Acked(j) =>
                               \E p \in 1..n : wire[k][p] = Cmd[j].data
    <3>1. TypeInv => \A h \in Conns : nread[h] \in Nat /\ nread[h] - 1 + 1 = nread[h]
      BY DEF TypeInv, TypeOK, ServerTypeOK
    <3> QED
      BY <3>1 DEF ReadConsistent, Earlier
  <2> DEFINE n == nread[k] - 1
             text == disk[Path(k)]
  <2>1. /\ nread[k] \in Nat \ {0} /\ n \in Nat /\ nread[k] <= Len(wire[k])
        /\ Len(wire[k]) \in Nat /\ wire[k] \in Seq(Token) /\ nread[k] \in 1..Len(wire[k])
    BY LenProperties DEF TypeInv, TypeOK, ServerTypeOK, CreateInv, ReadInv
  <2>2. nread[k] = Len(wire[k]) /\ text # Absent
    <3>1. \/ text # Absent /\ nread[k] <= Len(text) /\ wire[k][nread[k]] = text[nread[k]]
          \/ nread[k] = Len(wire[k]) /\ text # Absent
      BY <2>1 DEF CopyInv, WireInv, Copied
    <3>2. ASSUME text # Absent, nread[k] <= Len(text), wire[k][nread[k]] = text[nread[k]]
          PROVE  FALSE
      <4>1. text \in Seq(Token) /\ Len(text) \in Nat /\ Path(k) \in Files
        <5>1. Path(k) \in Files /\ text \in Seq(Token)
          BY <3>2, ConstantTypes DEF TypeInv, TypeOK, ServerTypeOK
        <5> QED
          BY <5>1, LenProperties
      <4>2. text[nread[k]] \in Plain
        BY <2>1, <3>2, <4>1 DEF CopyInv, PlainInv
      <4> QED
        BY <3>2, <4>2, PlainTokens DEF Marks
    <3> QED
      BY <3>1, <3>2
  <2>3. text \in Seq(Token) /\ Len(text) \in Nat
    <3>1. text \in Seq(Token)
      BY <2>2, ConstantTypes DEF TypeInv, TypeOK, ServerTypeOK
    <3> QED
      BY <3>1, LenProperties
  <2>4. \A p \in 1..n : p <= Len(text) /\ wire[k][p] = text[p]
    BY <2>1, <2>2 DEF CopyInv, WireInv, Copied
  <2> HIDE DEF n, text
  <2>5. n <= Len(text)
    BY <2>1, <2>3, <2>4
  <2>6. SubSeq(wire[k], 1, n) = SubSeq(text, 1, n)
    <3>1. 1 \in Int /\ n \in Int /\ n <= Len(wire[k])
      BY <2>1, <2>2 DEF n
    <3>2. /\ \A p \in 1..n : wire[k][p] \in Token
          /\ \A p \in 1..n : text[p] \in Token
      BY <2>1, <2>3, <2>5, <3>1, ElementOfSeq
    <3>3. /\ SubSeq(wire[k], 1, n) \in Seq(Token)
          /\ Len(SubSeq(wire[k], 1, n)) = IF 1 <= n THEN n - 1 + 1 ELSE 0
          /\ \A p \in 1..(n - 1 + 1) : SubSeq(wire[k], 1, n)[p] = wire[k][1 + p - 1]
      BY <3>1, <3>2, SubSeqProperties
    <3>4. /\ SubSeq(text, 1, n) \in Seq(Token)
          /\ Len(SubSeq(text, 1, n)) = IF 1 <= n THEN n - 1 + 1 ELSE 0
          /\ \A p \in 1..(n - 1 + 1) : SubSeq(text, 1, n)[p] = text[1 + p - 1]
      BY <3>1, <3>2, SubSeqProperties
    <3>5. Len(SubSeq(wire[k], 1, n)) = n /\ Len(SubSeq(text, 1, n)) = n
      BY <2>1, <3>3, <3>4
    <3>6. ASSUME NEW p \in 1..n
          PROVE  SubSeq(wire[k], 1, n)[p] = SubSeq(text, 1, n)[p]
      <4>1. p \in 1..(n - 1 + 1) /\ 1 + p - 1 = p
        BY <2>1
      <4> QED
        BY <2>4, <3>3, <3>4, <4>1
    <3> QED
      BY <3>3, <3>4, <3>5, <3>6, SeqEqual
  <2>7. ASSUME NEW j \in Conns, Earlier(j, k), Acked(j)
        PROVE  \E p \in 1..n : wire[k][p] = Cmd[j].data
    <3>1. Has(wire[k], "EOF")
      BY <2>1 DEF Has
    <3>2. n = Len(wire[k]) - 1
      BY <2>2 DEF n
    <3> QED
      BY <2>7, <3>1, <3>2 DEF FoundInv
  <2> QED
    BY <2>5, <2>6, <2>7 DEF n, text
<1> QED
  BY <1>1, InitTypeInv, InitQueueInv, InitLockInv, InitCreateInv, InitKeptInv, InitCopyInv,
     InitFoundInv, NextTypeInv, NextQueueInv, NextLockInv, NextCreateInv, NextKeptInv,
     NextCopyInv, NextFoundInv, PTL DEF Spec

-----------------------------------------------------------------------------
(* Survival. A client closes its end once it has read a marker, and a       *)
(* marker is the last thing its thread writes: nobody raises SIGPIPE.       *)

\* Nobody kills the server or a client, accept() works, and no data looks
\* like a marker.
Peaceful == MAX_DEATHS = 0 /\ Mortal = {} /\ Marked = {}

Over(k) == pc[k] \in {"unlock", "close", "done"}

SurviveInv == Peaceful => up /\ \A k \in Conns : hung[k] => Over(k)

LEMMA InitSurviveInv == Init => SurviveInv
  BY DEF Init, ServerInit, SurviveInv

LEMMA NextSurviveInv == TypeInv /\ QueueInv /\ CopyInv /\ SurviveInv /\ [Next]_vars => SurviveInv'
<1> SUFFICES ASSUME TypeInv, QueueInv, CopyInv, SurviveInv, [Next]_vars, Peaceful
             PROVE  up' /\ \A k \in Conns : hung'[k] => Over(k)'
  BY DEF SurviveInv, Peaceful
<1>0. /\ up /\ (\A k \in Conns : hung[k] => Over(k))
      /\ pc \in [Conns -> Labels] /\ queue \in Seq(Conns) /\ deaths \in Nat
      /\ hung \in [Conns -> BOOLEAN] /\ \A c \in Clients : Conn(c) \in Conns
  BY DEF SurviveInv, TypeInv, TypeOK, ServerTypeOK, ConnInv
<1>1. ASSUME NEW h \in Conns, Thread(h), ~SigPipe(h)
      PROVE  up' /\ \A k \in Conns : hung'[k] => Over(k)'
  <2>1. up' = up /\ hung' = hung
    BY <1>1 DEF Thread, GererClient, GetFileLock, LockTable, SearchTable, InsertEntry,
       LockFile, OpCreate, OpOpen, OpAppend, OpAppendData, OpAppendNewline, OpRead,
       OpReadBlock, OpReadEnd, SendOk, SendError, WriteClient, UnlockFile, CloseClient,
       procVars, sockVars
  <2>2. \A k \in Conns : k # h => pc'[k] = pc[k]
    BY <1>1, ThreadSteps
  <2>3. Over(h) => Over(h)'
    BY <1>0, <1>1 DEF Thread, GererClient, GetFileLock, LockTable, SearchTable, InsertEntry,
       LockFile, OpCreate, OpOpen, OpAppend, OpAppendData, OpAppendNewline, OpRead,
       OpReadBlock, OpReadEnd, SendOk, SendError, UnlockFile, CloseClient, At, Goto, Over
  <2> QED
    BY <1>0, <2>1, <2>2, <2>3 DEF Over
<1>2. ASSUME NEW k \in Conns PROVE ~SigPipe(k)
  BY <1>0 DEF SigPipe, Over
<1>3. CASE Accept
  <2>1. queue # <<>> /\ Head(queue) \in Conns /\ ~Over(Head(queue))
    <3>1. queue # <<>> /\ Len(queue) \in Nat \ {0}
      BY <1>0, <1>3, EmptySeq DEF Accept
    <3>2. Head(queue) = queue[1] /\ Head(queue) \in Conns
      BY <1>0, <3>1, HeadTailProperties
    <3> QED
      BY <3>1, <3>2 DEF QueueInv, Over
  <2>2. up' = up /\ hung' = hung /\ \A k \in Conns : k # Head(queue) => pc'[k] = pc[k]
    BY <1>0, <1>3, <2>1 DEF Accept, sockVars
  <2> QED
    BY <1>0, <2>1, <2>2 DEF Over
<1>4. ~(deaths < MAX_DEATHS)
  BY <1>0 DEF Peaceful
<1>5. ASSUME NEW c \in Clients, Client(c) \/ Interrupt(c)
      PROVE  up' /\ \A k \in Conns : hung'[k] => Over(k)'
  <2>1. up' = up /\ pc' = pc
    BY <1>5 DEF Client, Connect, SendCommand, ReadReply, ReadClosed, Interrupt,
       procVars, threadVars
  <2>2. hung' = hung \/ (hung' = [hung EXCEPT ![Conn(c)] = TRUE] /\ Over(Conn(c)))
    <3>1. CASE Connect(c)
      BY <3>1 DEF Connect, sockVars
    <3>2. CASE SendCommand(c)
      BY <3>2 DEF SendCommand, Over
    <3>3. CASE ReadClosed(c)
      BY <3>3 DEF ReadClosed, Finish, Over
    <3>4. CASE ReadReply(c)
      <4> DEFINE k == Conn(c)
      <4>1. PICK n \in 1..Len(Unread(k)) :
              IF EndsReply(SubSeq(Unread(k), 1, n)) THEN Finish(c) ELSE UNCHANGED <<hung, clientVars>>
        BY <3>4 DEF ReadReply
      <4>2. ASSUME EndsReply(SubSeq(Unread(k), 1, n)) PROVE Over(k)
        <5>1. /\ k \in Conns /\ wire[k] \in Seq(Token) /\ Len(wire[k]) \in Nat /\ nread[k] \in Nat
              /\ disk \in [Files -> Seq(Token) \union {Absent}]
          BY <1>0, LenProperties DEF TypeInv, TypeOK, ServerTypeOK
        <5> HIDE DEF k
        <5>2. \E q \in 1..Len(wire[k]) : wire[k][q] \in Marks
          <6>1. /\ Unread(k) \in Seq(Token) /\ Len(Unread(k)) \in Nat
                /\ Len(Unread(k)) = IF nread[k] + 1 <= Len(wire[k])
                                      THEN Len(wire[k]) - (nread[k] + 1) + 1 ELSE 0
                /\ \A i \in 1..(Len(wire[k]) - (nread[k] + 1) + 1) :
                     Unread(k)[i] = wire[k][nread[k] + 1 + i - 1]
            <7>1. /\ nread[k] + 1 \in Int /\ Len(wire[k]) \in Int
                  /\ \A i \in (nread[k] + 1)..Len(wire[k]) : wire[k][i] \in Token
              BY <5>1, ElementOfSeq
            <7> QED
              BY <7>1, SubSeqProperties, LenProperties DEF Unread
          <6>2. /\ Len(SubSeq(Unread(k), 1, n)) = n
                /\ \A i \in 1..n : SubSeq(Unread(k), 1, n)[i] = Unread(k)[i]
            <7>1. n \in Int /\ 1 \in Int /\ \A i \in 1..n : Unread(k)[i] \in Token
              BY <6>1, ElementOfSeq
            <7>2. /\ Len(SubSeq(Unread(k), 1, n)) = IF 1 <= n THEN n - 1 + 1 ELSE 0
                  /\ \A i \in 1..(n - 1 + 1) : SubSeq(Unread(k), 1, n)[i] = Unread(k)[1 + i - 1]
              BY <7>1, SubSeqProperties
            <7>3. n \in Nat \ {0} /\ \A i \in 1..n : i \in 1..(n - 1 + 1) /\ 1 + i - 1 = i
              BY <6>1
            <7> QED
              BY <7>2, <7>3
          <6>3. PICK i \in 1..n : Unread(k)[i] \in Marks
            BY <4>2, <6>2 DEF EndsReply, Marks, Peaceful
          <6>4. Unread(k)[i] = wire[k][nread[k] + i] /\ nread[k] + i \in 1..Len(wire[k])
            <7>1. i \in Nat \ {0} /\ i <= Len(Unread(k)) /\ Len(Unread(k)) > 0
              BY <6>1
            <7>2. /\ i \in 1..(Len(wire[k]) - (nread[k] + 1) + 1)
                  /\ nread[k] + 1 + i - 1 = nread[k] + i
                  /\ nread[k] + i \in 1..Len(wire[k])
              <8>1. Len(Unread(k)) = Len(wire[k]) - nread[k]
                BY <5>1, <6>1, <7>1
              <8>2. /\ i \in Nat \ {0} /\ i <= Len(wire[k]) - nread[k]
                    /\ Len(wire[k]) \in Nat /\ nread[k] \in Nat
                BY <5>1, <7>1, <8>1
              <8>3. \A w, r \in Nat : \A j \in Nat \ {0} : j <= w - r =>
                      j \in 1..(w - (r + 1) + 1) /\ r + 1 + j - 1 = r + j /\ r + j \in 1..w
                OBVIOUS
              <8> QED
                BY <8>2, <8>3, Zenon
            <7>3. Unread(k)[i] = wire[k][nread[k] + 1 + i - 1]
              BY <6>1, <7>2
            <7> QED
              BY <7>2, <7>3
          <6> QED
            BY <6>3, <6>4
        <5>3. PICK q \in 1..Len(wire[k]) : wire[k][q] \in Marks
          BY <5>2
        <5>4. WireInv(k) /\ wire[k] # <<>> /\ Path(k) \in Files
          BY <5>1, <5>3, ConstantTypes DEF CopyInv
        <5>5. pc[k] # "block"
          <6>1. ASSUME disk[Path(k)] # Absent, q <= Len(disk[Path(k)]), wire[k][q] = disk[Path(k)][q]
                PROVE  FALSE
            <7>1. Len(disk[Path(k)]) \in Nat
              BY <5>1, <5>4, <6>1, LenProperties
            <7>2. disk[Path(k)][q] \in Plain
              BY <5>1, <5>4, <6>1, <7>1 DEF CopyInv, PlainInv
            <7> QED
              BY <5>3, <6>1, <7>2, PlainTokens
          <6> QED
            BY <5>3, <5>4, <6>1 DEF WireInv, Copied
        <5> QED
          BY <5>4, <5>5 DEF WireInv, Over
      <4> QED
        BY <4>1, <4>2 DEF Finish
    <3>5. ~Interrupt(c)
      BY DEF Interrupt, Peaceful
    <3> QED
      BY <1>5, <3>1, <3>2, <3>3, <3>4, <3>5 DEF Client
  <2> QED
    BY <1>0, <2>1, <2>2 DEF Over
<1>6. CASE UNCHANGED vars
  BY <1>0, <1>6 DEF vars, serverVars, procVars, threadVars, sockVars, Over
<1>7. ~Boot
  BY <1>0 DEF Boot
<1> QED
  BY <1>1, <1>2, <1>3, <1>4, <1>5, <1>6, <1>7 DEF Next, Idle, ServerNext, Kill, AcceptFails

\* While nobody kills the server or a client, accept() works and no data holds
\* a marker, no client makes the server stop: none closes its end while
\* the server still writes to it. The early_stop run shows a client that does,
\* on data that holds a marker.
THEOREM SurvivalCorrect == Spec => [](Peaceful => ServerSurvives)
<1>1. SurviveInv => (Peaceful => ServerSurvives)
  BY DEF SurviveInv, ServerSurvives
<1> QED
  BY <1>1, InitTypeInv, InitQueueInv, InitCopyInv, InitSurviveInv, NextTypeInv,
     NextQueueInv, NextCopyInv, NextSurviveInv, PTL DEF Spec

-----------------------------------------------------------------------------
(* One atomic store. Every command takes effect at one step of its thread,  *)
(* with the file's mutex held: Lines and Response show what the store and   *)
(* the responses are. When the server ends, a half line shows and the       *)
(* responses under way are what was written of them.                        *)

\* No path is cut.
Ample == PathsFit /\ IsFiniteSet(Conns)

\* A thread that knows its command was sent it, once; the paths in the table
\* are those of commands.
Busy(k) == pc[k] \in {"table", "search", "insert", "lock", "open", "block", "data", "nl",
                      "ok", "err"}
AskInv ==
  \A k \in Conns :
    /\ Busy(k) => request[k]
    /\ request[k] => ~Fresh(k) /\ ~(k = Conn(k[1]) /\ cpc[k[1]] = "send")

NamedInv ==
  PathsFit => \A s \in Slots : file_locks[s] # Free => \E k \in Conns : file_locks[s] = Path(k)

LEMMA InitAskInv == Init => AskInv /\ NamedInv
  BY DEF Init, ServerInit, AskInv, NamedInv, Busy

LEMMA NextAskInv == TypeInv /\ QueueInv /\ AskInv /\ [Next]_vars => AskInv'
<1> SUFFICES ASSUME TypeInv, QueueInv, AskInv, [Next]_vars PROVE AskInv'
  OBVIOUS
<1>0. /\ pc \in [Conns -> Labels] /\ queue \in Seq(Conns)
      /\ request \in [Conns -> BOOLEAN]
      /\ cpc \in [Clients -> ClientLabels] /\ idx \in [Clients -> Nat \ {0}]
      /\ \A c \in Clients : Conn(c) \in Conns
      /\ \A k \in Conns : k = <<k[1], k[2]>> /\ k[1] \in Clients /\ k[2] \in Nat
  <2>1. \A k \in Conns : k = <<k[1], k[2]>> /\ k[1] \in Clients /\ k[2] \in Nat
    BY ClientAssumption DEF ClientAssumption
  <2> QED
    BY <2>1 DEF TypeInv, TypeOK, ServerTypeOK, ConnInv
<1>1. CASE /\ request' = request /\ cpc' = cpc /\ idx' = idx
           /\ \A k \in Conns : Busy(k)' => Busy(k) \/ request[k]
  <2>1. \A k \in Conns : Busy(k)' => request'[k]
    BY <1>1 DEF AskInv
  <2>2. \A k \in Conns : Fresh(k)' = Fresh(k) /\ Conn(k[1])' = Conn(k[1])
    BY <1>1 DEF Fresh, Conn
  <2>3. \A k \in Conns :
          request'[k] => ~Fresh(k)' /\ ~(k = Conn(k[1])' /\ cpc'[k[1]] = "send")
    BY <1>1, <2>2 DEF AskInv
  <2> QED
    BY <2>1, <2>3 DEF AskInv
<1>2. ASSUME NEW h \in Conns, Thread(h), ~SigPipe(h), UNCHANGED clientVars
      PROVE  AskInv'
  <2>1. request' = request
    BY <1>2 DEF Thread, GererClient, GetFileLock, LockTable, SearchTable, InsertEntry,
       LockFile, OpCreate, OpOpen, OpAppend, OpAppendData, OpAppendNewline, OpRead,
       OpReadBlock, OpReadEnd, SendOk, SendError, WriteClient, UnlockFile, CloseClient, sockVars
  <2>2. /\ \A k \in Conns : k # h => pc'[k] = pc[k]
        /\ Busy(h)' => Busy(h) \/ request[h]
    BY <1>0, <1>2 DEF Thread, GererClient, GetFileLock, LockTable, SearchTable, InsertEntry,
       LockFile, OpCreate, OpOpen, OpAppend, OpAppendData, OpAppendNewline, OpRead,
       OpReadBlock, OpReadEnd, SendOk, SendError, UnlockFile, CloseClient, At, Goto, Busy
  <2> QED
    BY <1>1, <1>2, <2>1, <2>2 DEF clientVars, Busy
<1>3. CASE Accept /\ UNCHANGED clientVars
  <2>1. queue # <<>> /\ Head(queue) \in Conns
    BY <1>0, <1>3, HeadTailProperties DEF Accept
  <2>2. \A k \in Conns : pc'[k] = pc[k] \/ pc'[k] \in {"read", "done"}
    BY <1>0, <1>3, <2>1 DEF Accept
  <2> QED
    BY <1>1, <1>3, <2>2 DEF Accept, sockVars, clientVars, Busy
<1>4. CASE Die /\ UNCHANGED clientVars
  <2>1. \A k \in Conns : pc'[k] \in {"none", "done"}
    BY <1>4 DEF Die
  <2> QED
    BY <1>1, <1>4, <2>1 DEF Die, sockVars, clientVars, Busy
<1>5. CASE Boot /\ UNCHANGED clientVars
  BY <1>1, <1>5 DEF Boot, sockVars, threadVars, clientVars, Busy
<1>6. ASSUME NEW c \in Clients, Client(c) \/ Interrupt(c)
      PROVE  AskInv'
  <2>1. pc' = pc /\ \A d \in Clients : d # c => cpc'[d] = cpc[d] /\ idx'[d] = idx[d]
    BY <1>0, <1>6 DEF Client, Connect, SendCommand, ReadReply, ReadClosed, Interrupt, Finish,
       ClientGoto, threadVars, clientVars
  <2>2. \/ request' = request
           /\ \/ cpc'[c] = "send" /\ cpc[c] = "connect" /\ idx'[c] = idx[c]
              \/ cpc'[c] \notin {"connect", "send"} /\ idx'[c] = idx[c]
              \/ cpc'[c] = "connect" /\ idx'[c] = idx[c] + 1
              \/ cpc'[c] = cpc[c] /\ idx'[c] = idx[c]
        \/ /\ request' = [request EXCEPT ![Conn(c)] = TRUE]
           /\ cpc'[c] = "recv" /\ idx'[c] = idx[c]
    BY <1>0, <1>6 DEF Client, Connect, SendCommand, ReadReply, ReadClosed, Interrupt, Finish,
       ClientGoto, sockVars, clientVars
  <2>3. \A k \in Conns : Busy(k)' => request'[k]
    <3>1. \A k \in Conns : request[k] => request'[k]
      BY <1>0, <2>2
    <3> QED
      BY <2>1, <3>1 DEF AskInv, Busy
  <2>4. ASSUME NEW k \in Conns, request'[k]
        PROVE  ~Fresh(k)' /\ ~(k = Conn(k[1])' /\ cpc'[k[1]] = "send")
    <3>1. /\ k = <<k[1], k[2]>> /\ k[1] \in Clients /\ k[2] \in Nat
          /\ idx[k[1]] \in Nat
      BY <1>0
    <3>2. request[k] => /\ ~(k[2] > idx[k[1]])
                        /\ ~(k[2] = idx[k[1]] /\ cpc[k[1]] \in {"connect", "send"})
      BY <3>1 DEF AskInv, Fresh, Conn
    <3>3. ~(k[2] > idx'[k[1]]) /\ ~(k[2] = idx'[k[1]] /\ cpc'[k[1]] \in {"connect", "send"})
      <4>1. CASE k[1] # c
        <5>1. request[k]
          BY <1>0, <2>2, <2>4, <4>1 DEF Conn
        <5> QED
          BY <2>1, <3>1, <3>2, <4>1, <5>1
      <4>2. CASE k[1] = c /\ request[k]
        BY <2>2, <3>1, <3>2, <4>2
      <4>3. CASE k[1] = c /\ ~request[k]
        <5>1. /\ k = Conn(c) /\ cpc'[c] = "recv" /\ idx'[c] = idx[c]
          BY <1>0, <2>2, <2>4, <4>3
        <5> QED
          BY <3>1, <4>3, <5>1 DEF Conn
      <4> QED
        BY <4>1, <4>2, <4>3
    <3> QED
      BY <3>1, <3>3 DEF Fresh, Conn
  <2> QED
    BY <2>3, <2>4 DEF AskInv
<1>7. CASE UNCHANGED vars
  BY <1>1, <1>7 DEF vars, serverVars, threadVars, sockVars, clientVars, Busy
<1> QED
  BY <1>2, <1>3, <1>4, <1>5, <1>6, <1>7 DEF Next, Idle, ServerNext, Kill, AcceptFails, SigPipe

LEMMA NextNamedInv == TypeInv /\ NamedInv /\ [Next]_vars => NamedInv'
<1> SUFFICES ASSUME TypeInv, NamedInv, [Next]_vars, PathsFit,
                    NEW s \in Slots, file_locks'[s] # Free
             PROVE  \E k \in Conns : file_locks'[s] = Path(k)
  BY DEF NamedInv, PathsFit, Path
<1>0. file_locks \in [Slots -> Names]
  BY DEF TypeInv, TypeOK, ServerTypeOK
<1>1. CASE file_locks' = file_locks
  BY <1>1 DEF NamedInv
<1>2. ASSUME NEW h \in Conns, InsertEntry(h)
      PROVE  \E k \in Conns : file_locks'[s] = Path(k)
  <2>1. Stored[Path(h)] = Path(h)
    BY ConstantTypes DEF PathsFit
  <2>2. file_locks'[s] = file_locks[s] \/ file_locks'[s] = Path(h)
    BY <1>0, <1>2, <2>1 DEF InsertEntry
  <2> QED
    BY <2>2 DEF NamedInv
<1>3. CASE Boot
  BY <1>3 DEF Boot
<1>4. ASSUME NEW h \in Conns, Thread(h), ~SigPipe(h), ~InsertEntry(h)
      PROVE  file_locks' = file_locks
  BY <1>4 DEF Thread, GererClient, GetFileLock, LockTable, SearchTable,
     LockFile, OpCreate, OpOpen, OpAppend, OpAppendData, OpAppendNewline, OpRead,
     OpReadBlock, OpReadEnd, SendOk, SendError, WriteClient, UnlockFile, CloseClient, tableVars
<1>5. ASSUME NEW c \in Clients, Client(c) \/ Interrupt(c)
      PROVE  file_locks' = file_locks
  BY <1>5 DEF Client, Connect, SendCommand, ReadReply, ReadClosed, Interrupt, tableVars
<1>6. CASE Accept \/ Die \/ UNCHANGED vars
  BY <1>1, <1>6 DEF Accept, Die, vars, serverVars, tableVars
<1> QED
  BY <1>1, <1>2, <1>3, <1>4, <1>5, <1>6 DEF Next, Idle, ServerNext, Kill, AcceptFails, SigPipe

\* A connection whose client has made it, and whose command may be there, is
\* in the queue until a thread takes it. A client that has closed its end is
\* through with the connection. A thread closes a connection without an answer
\* only when its client closed it without sending a command.
Sent(k) == request[k] \/ (k = Conn(k[1]) /\ cpc[k[1]] = "send")

SentInv ==
  /\ ~up => queue = <<>>
  /\ \A k \in Conns : Sent(k) /\ pc[k] = "none" => Waiting(k)

HungInv ==
  \A k \in Conns :
    hung[k] => ~Fresh(k) /\ ~(k = Conn(k[1]) /\ cpc[k[1]] \in {"send", "recv"})

ReplyInv ==
  \A k \in Conns :
    pc[k] \in {"unlock", "close"} => wire[k] # <<>> \/ (hung[k] /\ ~request[k])

LEMMA InitReplyInv == Init => SentInv /\ HungInv /\ ReplyInv
<1> SUFFICES ASSUME Init PROVE SentInv /\ HungInv /\ ReplyInv
  OBVIOUS
<1>1. \A k \in Conns : k[1] \in Clients
  BY ClientAssumption DEF ClientAssumption
<1> QED
  BY <1>1 DEF Init, ServerInit, SentInv, Sent, HungInv, ReplyInv

\* What a step of a client does to the connections.
LEMMA ClientSteps ==
  ASSUME TypeInv, NEW c \in Clients, Client(c) \/ Interrupt(c)
  PROVE  /\ UNCHANGED <<up, pc, wire>>
         /\ \A d \in Clients : d # c => cpc'[d] = cpc[d] /\ idx'[d] = idx[d]
         /\ \/ queue' = queue /\ cpc'[c] # "send"
            \/ queue' = queue /\ cpc'[c] = cpc[c] /\ idx'[c] = idx[c]
            \/ queue' = Append(queue, Conn(c)) /\ idx'[c] = idx[c] /\ up
         /\ \/ request' = request
            \/ request' = [request EXCEPT ![Conn(c)] = TRUE] /\ cpc[c] = "send"
         /\ \/ /\ hung' = [hung EXCEPT ![Conn(c)] = TRUE]
               /\ cpc[c] \in {"send", "recv"}
               /\ \/ cpc'[c] \in {"stop", "failed"} /\ idx'[c] = idx[c]
                  \/ cpc'[c] = "connect" /\ idx'[c] = idx[c] + 1
            \/ /\ hung' = hung /\ idx'[c] = idx[c]
               /\ cpc'[c] \in {"send", "recv"} => cpc[c] \in {"connect", "send", "recv"}
               /\ cpc'[c] # "connect"
<1>0. /\ cpc \in [Clients -> ClientLabels] /\ idx \in [Clients -> Nat \ {0}]
  BY DEF TypeInv, TypeOK
<1>1. CASE Connect(c)
  BY <1>0, <1>1 DEF Connect, ClientGoto, threadVars, sockVars
<1>2. CASE SendCommand(c)
  BY <1>0, <1>2 DEF SendCommand, ClientGoto, threadVars, procVars
<1>3. CASE ReadReply(c)
  BY <1>0, <1>3 DEF ReadReply, Finish, ClientGoto, threadVars, procVars, clientVars
<1>4. CASE ReadClosed(c)
  BY <1>0, <1>4 DEF ReadClosed, Finish, ClientGoto, threadVars, procVars
<1>5. CASE Interrupt(c)
  BY <1>0, <1>5 DEF Interrupt, ClientGoto, threadVars, procVars
<1> QED
  BY <1>1, <1>2, <1>3, <1>4, <1>5 DEF Client

LEMMA NextSentInv == TypeInv /\ SentInv /\ [Next]_vars => SentInv'
<1> SUFFICES ASSUME TypeInv, SentInv, [Next]_vars PROVE SentInv'
  OBVIOUS
<1>0. /\ pc \in [Conns -> Labels] /\ queue \in Seq(Conns) /\ Len(queue) \in Nat
      /\ request \in [Conns -> BOOLEAN]
      /\ \A c \in Clients : Conn(c) \in Conns
      /\ \A k \in Conns : k[1] \in Clients
  <2>1. queue \in Seq(Conns)
    BY DEF TypeInv, TypeOK, ServerTypeOK
  <2> QED
    BY <2>1, LenProperties, ClientAssumption
       DEF ClientAssumption, TypeInv, TypeOK, ServerTypeOK, ConnInv
<1>1. ASSUME UNCHANGED <<request, clientVars>>
      PROVE  \A k \in Conns : Sent(k)' => Sent(k)
  BY <1>1 DEF Sent, Conn, clientVars
<1>2. ASSUME NEW h \in Conns, Thread(h), ~SigPipe(h), UNCHANGED clientVars
      PROVE  SentInv'
  <2>1. up' = up /\ queue' = queue /\ request' = request
    BY <1>2 DEF Thread, GererClient, GetFileLock, LockTable, SearchTable, InsertEntry,
       LockFile, OpCreate, OpOpen, OpAppend, OpAppendData, OpAppendNewline, OpRead,
       OpReadBlock, OpReadEnd, SendOk, SendError, WriteClient, UnlockFile, CloseClient,
       procVars, sockVars
  <2>2. \A k \in Conns : pc'[k] = "none" => pc[k] = "none"
    BY <1>0, <1>2 DEF Thread, GererClient, GetFileLock, LockTable, SearchTable, InsertEntry,
       LockFile, OpCreate, OpOpen, OpAppend, OpAppendData, OpAppendNewline, OpRead,
       OpReadBlock, OpReadEnd, SendOk, SendError, UnlockFile, CloseClient, At, Goto
  <2> QED
    BY <1>1, <1>2, <2>1, <2>2 DEF SentInv, Waiting
<1>3. CASE Accept /\ UNCHANGED clientVars
  <2>1. /\ up /\ up' = up /\ request' = request /\ queue # <<>> /\ queue' = Tail(queue)
    BY <1>3 DEF Accept, sockVars
  <2>2. /\ Head(queue) = queue[1] /\ Head(queue) \in Conns
        /\ Len(queue') = Len(queue) - 1
        /\ \A n \in 1..Len(queue') : queue'[n] = queue[n + 1]
    BY <1>0, <2>1, HeadTailProperties
  <2>3. pc'[Head(queue)] # "none" /\ \A k \in Conns : k # Head(queue) => pc'[k] = pc[k]
    BY <1>0, <1>3, <2>2 DEF Accept
  <2>4. ASSUME NEW k \in Conns, Sent(k)', pc'[k] = "none"
        PROVE  Waiting(k)'
    <3>1. PICK n \in 1..Len(queue) : queue[n] = k
      BY <1>1, <1>3, <2>1, <2>3, <2>4 DEF SentInv, Waiting
    <3>2. n # 1
      BY <2>2, <2>3, <2>4, <3>1
    <3>3. n - 1 \in 1..Len(queue') /\ n - 1 + 1 = n
      BY <1>0, <2>2, <3>2
    <3>4. queue'[n - 1] = k
      BY <2>2, <3>1, <3>3
    <3> QED
      BY <3>3, <3>4 DEF Waiting
  <2> QED
    BY <2>1, <2>4 DEF SentInv
<1>4. CASE Die /\ UNCHANGED clientVars
  <2>1. queue' = <<>> /\ request' = request
    BY <1>4 DEF Die, sockVars
  <2>2. \A k \in Conns : pc'[k] = "none" => pc[k] = "none" /\ ~Waiting(k)
    BY <1>4 DEF Die, Waiting
  <2> QED
    BY <1>1, <1>4, <2>1, <2>2 DEF SentInv
<1>5. CASE Boot /\ UNCHANGED clientVars
  <2>1. queue' = queue /\ up' /\ pc' = pc /\ request' = request
    BY <1>5 DEF Boot, SentInv, sockVars, threadVars
  <2> QED
    BY <1>1, <1>5, <2>1 DEF SentInv, Waiting
<1>6. ASSUME NEW c \in Clients, Client(c) \/ Interrupt(c)
      PROVE  SentInv'
  <2>1. ~up' => queue' = <<>>
    BY <1>6, ClientSteps DEF SentInv
  <2>2. ASSUME NEW k \in Conns, Sent(k)', pc'[k] = "none"
        PROVE  Waiting(k)'
    <3>1. pc[k] = "none"
      BY <1>6, <2>2, ClientSteps
    <3>2. CASE queue' = Append(queue, Conn(c)) /\ idx'[c] = idx[c]
      <4>1. /\ Len(queue') = Len(queue) + 1 /\ queue'[Len(queue) + 1] = Conn(c)
            /\ \A n \in 1..Len(queue) : queue'[n] = queue[n]
        BY <1>0, <3>2, AppendProperties
      <4>2. Waiting(Conn(c))'
        <5>1. Len(queue) + 1 \in 1..Len(queue')
          BY <1>0, <4>1
        <5> QED
          BY <1>0, <3>2, <4>1, <5>1 DEF Waiting, Conn
      <4>3. Waiting(k) => Waiting(k)'
        <5>1. \A n \in 1..Len(queue) : n \in 1..Len(queue')
          BY <1>0, <4>1
        <5> QED
          BY <4>1, <5>1 DEF Waiting
      <4>4. k # Conn(c) => Sent(k)
        <5>1. k # Conn(c) /\ request'[k] => request[k]
          BY <1>0, <1>6, ClientSteps
        <5>2. k # Conn(c) /\ k = Conn(k[1])' => k[1] # c
          BY <3>2 DEF Conn
        <5>3. k[1] # c => Conn(k[1])' = Conn(k[1]) /\ cpc'[k[1]] = cpc[k[1]]
          BY <1>0, <1>6, ClientSteps DEF Conn
        <5> QED
          BY <2>2, <5>1, <5>2, <5>3 DEF Sent
      <4>5. k = Conn(c) => Waiting(k)'
        BY <4>2, <3>2 DEF Waiting, Conn
      <4> QED
        BY <3>1, <4>3, <4>4, <4>5 DEF SentInv
    <3>3. CASE /\ queue' = queue
               /\ cpc'[c] # "send" \/ (cpc'[c] = cpc[c] /\ idx'[c] = idx[c])
      <4>1. Sent(k)
        <5>1. request'[k] => Sent(k)
          <6>1. request'[k] => request[k] \/ (k = Conn(c) /\ cpc[c] = "send")
            BY <1>0, <1>6, ClientSteps
          <6>2. k = Conn(c) => k[1] = c
            BY DEF Conn
          <6> QED
            BY <6>1, <6>2 DEF Sent
        <5>2. k = Conn(k[1])' /\ cpc'[k[1]] = "send" => Sent(k)
          <6>1. k[1] # c => Conn(k[1])' = Conn(k[1]) /\ cpc'[k[1]] = cpc[k[1]]
            BY <1>0, <1>6, ClientSteps DEF Conn
          <6>2. k[1] = c /\ cpc'[c] = "send" => Conn(k[1])' = Conn(k[1]) /\ cpc'[k[1]] = cpc[k[1]]
            BY <3>3 DEF Conn
          <6> QED
            BY <6>1, <6>2 DEF Sent
        <5> QED
          BY <2>2, <5>1, <5>2 DEF Sent
      <4> QED
        BY <3>1, <3>3, <4>1 DEF SentInv, Waiting
    <3> QED
      BY <1>6, <3>2, <3>3, ClientSteps
  <2> QED
    BY <2>1, <2>2 DEF SentInv
<1>7. CASE UNCHANGED vars
  BY <1>1, <1>7 DEF vars, serverVars, procVars, threadVars, sockVars, clientVars, SentInv, Waiting
<1> QED
  BY <1>2, <1>3, <1>4, <1>5, <1>6, <1>7 DEF Next, Idle, ServerNext, Kill, AcceptFails, SigPipe

LEMMA NextHungInv == TypeInv /\ HungInv /\ [Next]_vars => HungInv'
<1> SUFFICES ASSUME TypeInv, HungInv, [Next]_vars, NEW k \in Conns, hung'[k]
             PROVE  ~Fresh(k)' /\ ~(k = Conn(k[1])' /\ cpc'[k[1]] \in {"send", "recv"})
  BY DEF HungInv
<1>0. /\ hung \in [Conns -> BOOLEAN] /\ idx \in [Clients -> Nat \ {0}]
      /\ cpc \in [Clients -> ClientLabels]
      /\ k = <<k[1], k[2]>> /\ k[1] \in Clients /\ k[2] \in Nat
  <2>1. k \in Clients \X (Nat \ {0})
    BY ClientAssumption DEF ClientAssumption
  <2>2. k = <<k[1], k[2]>> /\ k[1] \in Clients /\ k[2] \in Nat
    BY <2>1
  <2>3. hung \in [Conns -> BOOLEAN]
    BY DEF TypeInv, TypeOK, ServerTypeOK
  <2>4. idx \in [Clients -> Nat \ {0}] /\ cpc \in [Clients -> ClientLabels]
    BY DEF TypeInv, TypeOK
  <2> QED
    BY <2>2, <2>3, <2>4
<1>1. CASE hung' = hung /\ UNCHANGED clientVars
  BY <1>1 DEF HungInv, Fresh, Conn, clientVars
<1>2. ASSUME NEW h \in Conns, Thread(h), UNCHANGED clientVars
      PROVE  hung' = hung
  BY <1>2 DEF Thread, GererClient, GetFileLock, LockTable, SearchTable, InsertEntry,
     LockFile, OpCreate, OpOpen, OpAppend, OpAppendData, OpAppendNewline, OpRead,
     OpReadBlock, OpReadEnd, SendOk, SendError, WriteClient, SigPipe, Die, UnlockFile,
     CloseClient, sockVars
<1>3. CASE (Accept \/ Die \/ Boot) /\ UNCHANGED clientVars
  BY <1>1, <1>3 DEF Accept, Die, Boot, sockVars
<1>4. ASSUME NEW c \in Clients, Client(c) \/ Interrupt(c)
      PROVE  ~Fresh(k)' /\ ~(k = Conn(k[1])' /\ cpc'[k[1]] \in {"send", "recv"})
  <2>1. hung[k] => /\ ~(k[2] > idx[k[1]])
                   /\ ~(k[2] = idx[k[1]] /\ cpc[k[1]] \in {"connect", "send", "recv"})
    BY <1>0 DEF HungInv, Fresh, Conn
  <2>2. ~(k[2] > idx'[k[1]]) /\ ~(k[2] = idx'[k[1]] /\ cpc'[k[1]] \in {"connect", "send", "recv"})
    <3>1. CASE k[1] # c
      <4>1. cpc'[k[1]] = cpc[k[1]] /\ idx'[k[1]] = idx[k[1]]
        BY <1>0, <1>4, <3>1, ClientSteps
      <4>2. k # Conn(c)
        BY <3>1 DEF Conn
      <4>3. hung' = hung \/ hung' = [hung EXCEPT ![Conn(c)] = TRUE]
        BY <1>4, ClientSteps
      <4>4. hung[k]
        BY <1>0, <4>2, <4>3
      <4> QED
        BY <2>1, <4>1, <4>4
    <3>2. CASE k[1] = c /\ hung[k]
      <4>1. \/ idx'[c] = idx[c] + 1
            \/ idx'[c] = idx[c] /\ cpc'[c] \in {"stop", "failed"}
            \/ /\ idx'[c] = idx[c] /\ cpc'[c] # "connect"
               /\ cpc'[c] \in {"send", "recv"} => cpc[c] \in {"connect", "send", "recv"}
        BY <1>4, ClientSteps
      <4> QED
        BY <1>0, <2>1, <3>2, <4>1
    <3>3. CASE k[1] = c /\ ~hung[k]
      <4>1. /\ k = Conn(c)
            /\ \/ cpc'[c] \in {"stop", "failed"} /\ idx'[c] = idx[c]
               \/ idx'[c] = idx[c] + 1
        BY <1>0, <1>4, <3>3, ClientSteps
      <4> QED
        BY <1>0, <3>3, <4>1 DEF Conn
    <3> QED
      BY <3>1, <3>2, <3>3
  <2> QED
    BY <1>0, <2>2 DEF Fresh, Conn
<1>5. CASE UNCHANGED vars
  BY <1>1, <1>5 DEF vars, serverVars, sockVars
<1> QED
  BY <1>1, <1>2, <1>3, <1>4, <1>5 DEF Next, Idle, ServerNext, Kill, AcceptFails

LEMMA NextReplyInv ==
  TypeInv /\ QueueInv /\ CopyInv /\ HungInv /\ ReplyInv /\ [Next]_vars => ReplyInv'
<1> SUFFICES ASSUME TypeInv, QueueInv, CopyInv, HungInv, ReplyInv, [Next]_vars
             PROVE  ReplyInv'
  OBVIOUS
<1>0. /\ pc \in [Conns -> Labels] /\ queue \in Seq(Conns)
      /\ wire \in [Conns -> Seq(Token)]
      /\ request \in [Conns -> BOOLEAN] /\ hung \in [Conns -> BOOLEAN]
      /\ \A c \in Clients : Conn(c) \in Conns
  BY DEF TypeInv, TypeOK, ServerTypeOK, ConnInv
<1>1. CASE /\ UNCHANGED <<wire, hung, request>>
           /\ \A k \in Conns : pc'[k] \in {"unlock", "close"} => pc'[k] = pc[k]
  BY <1>1 DEF ReplyInv
<1>2. ASSUME NEW h \in Conns, Thread(h), ~SigPipe(h)
      PROVE  ReplyInv'
  <2>1. request' = request /\ hung' = hung
    BY <1>2 DEF Thread, GererClient, GetFileLock, LockTable, SearchTable, InsertEntry,
       LockFile, OpCreate, OpOpen, OpAppend, OpAppendData, OpAppendNewline, OpRead,
       OpReadBlock, OpReadEnd, SendOk, SendError, WriteClient, UnlockFile, CloseClient, sockVars
  <2>2. \A k \in Conns : k # h => wire'[k] = wire[k] /\ pc'[k] = pc[k]
    BY <1>2, ThreadSteps
  <2>3. ASSUME pc'[h] \in {"unlock", "close"}
        PROVE  wire'[h] # <<>> \/ (hung[h] /\ ~request[h])
    <3>1. ASSUME NEW m \in {"OK", "ERROR", "EOF"}, wire'[h] = wire[h] \o <<m>>
          PROVE  wire'[h] # <<>>
      <4>1. wire[h] \in Seq(Token) /\ <<m>> \in Seq(Token) /\ Len(<<m>>) = 1
        BY <1>0, ConstantTypes
      <4>2. Len(wire'[h]) = Len(wire[h]) + 1 /\ Len(wire[h]) \in Nat
        BY <3>1, <4>1, ConcatProperties, LenProperties
      <4>3. \A n \in Nat : n + 1 # 0
        OBVIOUS
      <4> QED
        BY <4>2, <4>3, EmptySeq
    <3>2. CASE OpReadBlock(h) \/ OpReadEnd(h) \/ SendOk(h) \/ SendError(h)
      <4>1. \E m \in {"OK", "ERROR", "EOF"} : wire'[h] = wire[h] \o <<m>>
        BY <1>0, <2>3, <3>2 DEF OpReadBlock, OpReadEnd, SendOk, SendError, WriteClient, At, Goto
      <4> QED
        BY <3>1, <4>1
    <3>3. CASE GererClient(h)
      BY <1>0, <2>3, <3>3 DEF GererClient, Goto
    <3>4. CASE UnlockFile(h) \/ CloseClient(h)
      BY <1>0, <2>3, <3>4 DEF UnlockFile, CloseClient, At, Goto, ReplyInv, sockVars
    <3>5. CASE GetFileLock(h) \/ LockFile(h) \/ OpCreate(h) \/ OpOpen(h) \/ OpAppend(h)
      BY <1>0, <2>3, <3>5 DEF GetFileLock, LockTable, SearchTable, InsertEntry, LockFile,
         OpCreate, OpOpen, OpAppend, OpAppendData, OpAppendNewline, Goto
    <3> QED
      BY <1>2, <3>2, <3>3, <3>4, <3>5 DEF Thread, OpRead
  <2> QED
    BY <2>1, <2>2, <2>3 DEF ReplyInv
<1>3. CASE Accept
  <2>1. queue # <<>> /\ Head(queue) \in Conns
    BY <1>0, <1>3, HeadTailProperties DEF Accept
  <2>2. \A k \in Conns : pc'[k] = pc[k] \/ pc'[k] \in {"read", "done"}
    BY <1>0, <1>3, <2>1 DEF Accept
  <2> QED
    BY <1>1, <1>3, <2>2 DEF Accept, sockVars
<1>4. CASE Die
  <2>1. \A k \in Conns : pc'[k] \in {"none", "done"}
    BY <1>4 DEF Die
  <2> QED
    BY <1>1, <1>4, <2>1 DEF Die, sockVars
<1>5. CASE Boot
  BY <1>1, <1>5 DEF Boot, sockVars, threadVars
<1>6. ASSUME NEW c \in Clients, Client(c) \/ Interrupt(c)
      PROVE  ReplyInv'
  <2>1. pc' = pc /\ wire' = wire
    BY <1>6, ClientSteps
  <2>2. \A k \in Conns : hung[k] => hung'[k] /\ (request'[k] => request[k])
    <3>1. \A k \in Conns : hung[k] => hung'[k]
      BY <1>0, <1>6, ClientSteps
    <3>2. hung[Conn(c)] => cpc[c] # "send"
      BY <1>0 DEF HungInv, Conn
    <3> QED
      BY <1>0, <1>6, <3>1, <3>2, ClientSteps
  <2> QED
    BY <2>1, <2>2 DEF ReplyInv
<1>7. CASE UNCHANGED vars
  BY <1>1, <1>7 DEF vars, serverVars, threadVars, sockVars
<1> QED
  BY <1>2, <1>3, <1>4, <1>5, <1>6, <1>7 DEF Next, Idle, ServerNext, Kill, AcceptFails, SigPipe

\* The table is full only when there are more files than entries: its entries
\* stand for as many files, and for none of a thread that finds no entry.
LEMMA FullTable ==
  ASSUME TypeInv, LockInv, NamedInv, Ample, NEW h \in Conns, pc[h] = "insert",
         \A s \in Slots : file_locks[s] # Free
  PROVE  TableTooSmall
<1> DEFINE paths == {Path(k) : k \in Conns}
           named == {file_locks[s] : s \in Slots}
<1>1. IsFiniteSet(paths)
  <2> DEFINE path == [k \in Conns |-> Path(k)]
  <2>1. path \in Surjection(Conns, paths)
    BY Fun_IsSurj
  <2> QED
    BY <2>1, FS_Surjection DEF Ample
<1>2. /\ named \subseteq paths /\ Path(h) \in paths /\ Path(h) \notin named
  BY DEF NamedInv, Ample, LockInv, TableInv, Matches
<1>3. IsFiniteSet(named) /\ Cardinality(named) = MAX_FILES
  <2>1. MAX_FILES \in Nat /\ IsFiniteSet(Slots) /\ Cardinality(Slots) = MAX_FILES
    BY ServerAssumption, FS_Interval DEF ServerAssumption, Slots
  <2>2. OneEntryPerFile
    BY DEF LockInv, Ample, PathsFit
  <2>3. file_locks \in Bijection(Slots, named)
    <3>1. file_locks \in [Slots -> named]
      BY DEF TypeInv, TypeOK, ServerTypeOK
    <3>2. \A i, j \in Slots : file_locks[i] = file_locks[j] => i = j
      BY <2>2 DEF OneEntryPerFile
    <3> QED
      BY <3>1, <3>2, Fun_IsBij
  <2>4. ExistsBijection(Slots, named)
    BY <2>3 DEF ExistsBijection
  <2> QED
    BY <2>1, <2>4, FS_Bijection
<1> HIDE DEF paths, named
<1>4. Cardinality(named \union {Path(h)}) = MAX_FILES + 1
  BY <1>2, <1>3, FS_AddElement
<1>5. named \union {Path(h)} \subseteq paths
  BY <1>2
<1>6. Cardinality(named \union {Path(h)}) <= Cardinality(paths) /\ Cardinality(paths) \in Nat
  BY <1>1, <1>5, FS_Subset, FS_CardinalityType, Zenon
<1>7. MAX_FILES \in Nat
  BY ServerAssumption DEF ServerAssumption
<1>8. Cardinality(paths) > MAX_FILES
  BY <1>4, <1>6, <1>7
<1> QED
  BY <1>8 DEF TableTooSmall, paths

\* A step of thread h leaves the other threads' responses and the other files
\* alone: a file that is being read is not written.
LEMMA ThreadFrame ==
  ASSUME TypeInv, LockInv, CopyInv, Ample, NEW h \in Conns, Thread(h), ~SigPipe(h)
  PROVE  /\ UNCHANGED <<up, request, nread>>
         /\ \A k \in Conns : k # h => /\ Response(k)' = Response(k)
                                     /\ At(k, "nl")' = At(k, "nl")
         /\ \A f \in Files : f # Path(h) => Lines(f)' = Lines(f)
<1>0. /\ FileMutex /\ pc \in [Conns -> Labels]
      /\ disk \in [Files -> Seq(Token) \union {Absent}]
      /\ \A k \in Conns : Path(k) \in Files
  BY FileMutexInv, ConstantTypes DEF TypeInv, TypeOK, ServerTypeOK, Ample
<1>1. UNCHANGED <<up, request, nread>> /\ up
  BY DEF Thread, GererClient, GetFileLock, LockTable, SearchTable, InsertEntry,
     LockFile, OpCreate, OpOpen, OpAppend, OpAppendData, OpAppendNewline, OpRead,
     OpReadBlock, OpReadEnd, SendOk, SendError, WriteClient, UnlockFile, CloseClient,
     procVars, sockVars, At
<1>2. \A k \in Conns : k # h => wire'[k] = wire[k] /\ pc'[k] = pc[k]
  BY ThreadSteps
<1>3. \/ disk' = disk
      \/ Accessing(h) /\ \A f \in Files : f # Path(h) => disk'[f] = disk[f]
  <2>1. CASE OpCreate(h) \/ OpAppendData(h) \/ OpAppendNewline(h)
    BY <1>0, <2>1 DEF OpCreate, OpAppendData, OpAppendNewline, AppendToken, At, Accessing
  <2> QED
    BY <2>1, ThreadSteps
<1>4. ASSUME NEW k \in Conns, k # h
      PROVE  Response(k)' = Response(k) /\ At(k, "nl")' = At(k, "nl")
  <2>1. pc[k] = "block" => disk'[Path(k)] = disk[Path(k)]
    BY <1>0, <1>1, <1>3, <1>4 DEF FileMutex, Accessing
  <2>2. pc'[k] = pc[k] /\ wire'[k] = wire[k] /\ Path(k)' = Path(k)
    BY <1>2, <1>4 DEF Path
  <2>3. Response(k)' = Response(k)
    BY <2>1, <2>2 DEF Response
  <2> QED
    BY <1>1, <2>2, <2>3 DEF At
<1>5. ASSUME NEW f \in Files, f # Path(h)
      PROVE  Lines(f)' = Lines(f)
  <2>1. disk'[f] = disk[f]
    BY <1>3, <1>5
  <2>2. AtEnd(f)' = AtEnd(f)
    BY <1>4, <1>5 DEF AtEnd, Path
  <2>3. Lines(f) = (IF AtEnd(f) THEN SubSeq(disk[f], 1, Len(disk[f]) - 1) ELSE disk[f])
    BY DEF Lines, AtEnd
  <2>4. Lines(f)' = (IF AtEnd(f)' THEN SubSeq(disk'[f], 1, Len(disk'[f]) - 1) ELSE disk'[f])
    BY DEF Lines, AtEnd
  <2> QED
    BY <2>1, <2>2, <2>3, <2>4
<1> QED
  BY <1>1, <1>4, <1>5

\* So the store sees of it what becomes of its own file and response.
LEMMA StoreChange ==
  ASSUME TypeInv, LockInv, CopyInv, Ample, NEW h \in Conns, Thread(h), ~SigPipe(h)
  PROVE  /\ [f \in SoundFiles |-> Lines(f)]'
              = [[f \in SoundFiles |-> Lines(f)] EXCEPT ![Path(h)] = Lines(Path(h))']
         /\ [k \in SoundConns |-> Response(k)]'
              = [[k \in SoundConns |-> Response(k)] EXCEPT ![h] = Response(h)']
         /\ request' = request /\ nread' = nread
         /\ pc[h] # "done"
         /\ ~CloseClient(h) \/ h \notin SoundConns =>
              [k \in SoundConns |-> pc[k] # "done"]' = [k \in SoundConns |-> pc[k] # "done"]
<1>0. pc[h] # "done" /\ (~CloseClient(h) => pc'[h] # "done")
  <2>0. pc \in [Conns -> Labels]
    BY DEF TypeInv, TypeOK, ServerTypeOK
  <2>1. CASE OpReadBlock(h) \/ OpReadEnd(h) \/ SendOk(h) \/ SendError(h)
    BY <2>0, <2>1 DEF OpReadBlock, OpReadEnd, SendOk, SendError, At, Goto
  <2>2. CASE OpCreate(h) \/ OpOpen(h) \/ OpAppend(h)
    BY <2>0, <2>2 DEF OpCreate, OpOpen, OpAppend, OpAppendData, OpAppendNewline, At, Goto
  <2>3. CASE GererClient(h) \/ GetFileLock(h) \/ LockFile(h) \/ UnlockFile(h)
    BY <2>0, <2>3 DEF GererClient, GetFileLock, LockTable, SearchTable, InsertEntry,
       LockFile, UnlockFile, At, Goto
  <2>4. CASE CloseClient(h)
    BY <2>4 DEF CloseClient, At
  <2> QED
    BY <2>1, <2>2, <2>3, <2>4 DEF Thread, OpRead
<1>1. Path(h)' = Path(h) /\ Path(h) \in Files
  BY ConstantTypes DEF Path
<1>2. \A f \in SoundFiles : Lines(f)' = IF f = Path(h) THEN Lines(Path(h))' ELSE Lines(f)
  BY <1>1, ThreadFrame DEF SoundFiles
<1>3. \A k \in SoundConns : Response(k)' = IF k = h THEN Response(h)' ELSE Response(k)
  BY ThreadFrame DEF SoundConns
<1>4. ~CloseClient(h) \/ h \notin SoundConns =>
        \A k \in SoundConns : pc'[k] # "done" <=> pc[k] # "done"
  BY <1>0, ThreadSteps DEF SoundConns
<1>5. SoundFiles' = SoundFiles /\ SoundConns' = SoundConns
  BY DEF SoundFiles, SoundConns, Path
<1> QED
  BY <1>0, <1>1, <1>2, <1>3, <1>4, <1>5, ThreadFrame

\* Nobody else has half a line in a file that h is at work on.
LEMMA NotAtEnd ==
  ASSUME TypeInv, LockInv, Ample, NEW h \in Conns, Accessing(h), pc[h] # "nl"
  PROVE  ~AtEnd(Path(h)) /\ Lines(Path(h)) = disk[Path(h)]
<1>1. ~AtEnd(Path(h))
  BY FileMutexInv DEF Ample, FileMutex, AtEnd, At, Accessing
<1> QED
  BY <1>1 DEF Lines, AtEnd

\* Where a thread's response is decided, nothing has been written yet.
LEMMA Undecided ==
  ASSUME CopyInv, NEW h \in Conns,
         pc[h] \in {"read", "table", "search", "insert", "lock", "open", "data", "nl"}
  PROVE  wire[h] = <<>> /\ Response(h) = <<>>
BY DEF CopyInv, WireInv, Response

\* Steps on the way to the file.
LEMMA QuietSteps ==
  ASSUME TypeInv, LockInv, CopyInv, Ample, NEW h \in Conns, Thread(h), ~SigPipe(h),
         disk' = disk, wire' = wire,
         pc[h] \notin {"block", "ok", "err", "nl"}, pc'[h] \notin {"block", "ok", "err", "nl"}
  PROVE  Lines(Path(h))' = Lines(Path(h)) /\ Response(h)' = Response(h)
<1>1. Response(h)' = Response(h)
  BY DEF Response
<1>2. AtEnd(Path(h))' = AtEnd(Path(h))
  BY ThreadFrame DEF AtEnd, At, Path
<1>3. Lines(Path(h)) = (IF AtEnd(Path(h)) THEN SubSeq(disk[Path(h)], 1, Len(disk[Path(h)]) - 1)
                                          ELSE disk[Path(h)])
  BY DEF Lines, AtEnd
<1>4. Lines(Path(h))' = (IF AtEnd(Path(h))' THEN SubSeq(disk[Path(h)], 1, Len(disk[Path(h)]) - 1)
                                            ELSE disk[Path(h)])
  BY DEF Lines, AtEnd, Path
<1> QED
  BY <1>1, <1>2, <1>3, <1>4

\* Steps that write a response, which was decided before.
LEMMA WriteSteps ==
  ASSUME TypeInv, LockInv, CopyInv, Ample, NEW h \in Conns, Thread(h), ~SigPipe(h),
         OpReadBlock(h) \/ OpReadEnd(h) \/ SendOk(h) \/ SendError(h)
  PROVE  Lines(Path(h))' = Lines(Path(h)) /\ Response(h)' = Response(h)
<1>0. /\ pc \in [Conns -> Labels] /\ wire \in [Conns -> Seq(Token)]
      /\ wire[h] \in Seq(Token) /\ WireInv(h) /\ Path(h)' = Path(h)
  BY DEF TypeInv, TypeOK, ServerTypeOK, CopyInv, Path
<1>1. disk' = disk /\ pc[h] # "nl" /\ pc'[h] # "nl"
  BY <1>0 DEF OpReadBlock, OpReadEnd, SendOk, SendError, WriteClient, At, Goto
<1>2. Lines(Path(h))' = Lines(Path(h))
  <2>1. AtEnd(Path(h))' = AtEnd(Path(h))
    BY <1>1, ThreadFrame DEF AtEnd, At, Path
  <2>2. Lines(Path(h)) = (IF AtEnd(Path(h)) THEN SubSeq(disk[Path(h)], 1, Len(disk[Path(h)]) - 1)
                                            ELSE disk[Path(h)])
    BY DEF Lines, AtEnd
  <2>3. Lines(Path(h))' = (IF AtEnd(Path(h))' THEN SubSeq(disk[Path(h)], 1, Len(disk[Path(h)]) - 1)
                                              ELSE disk[Path(h)])
    BY <1>1 DEF Lines, AtEnd, Path
  <2> QED
    BY <2>1, <2>2, <2>3
<1>3. Response(h)' = Response(h)
  <2>1. CASE OpReadBlock(h)
    BY <1>0, <1>1, <2>1 DEF OpReadBlock, At, Response
  <2>2. CASE OpReadEnd(h)
    <3>1. /\ pc[h] = "block" /\ pc'[h] = "unlock" /\ off[h] = Len(disk[Path(h)])
          /\ wire'[h] = wire[h] \o <<"EOF">>
      BY <1>0, <2>2 DEF OpReadEnd, At, Goto, WriteClient
    <3>2. wire[h] = disk[Path(h)]
      <4>1. disk[Path(h)] \in Seq(Token)
        BY <3>1, ConstantTypes DEF TypeInv, TypeOK, ServerTypeOK, OpenInv
      <4>2. Len(wire[h]) = Len(disk[Path(h)])
        BY <1>0, <3>1 DEF WireInv
      <4>3. \A p \in 1..Len(wire[h]) : wire[h][p] = disk[Path(h)][p]
        BY <1>0, <3>1 DEF WireInv, Copied
      <4> QED
        BY <1>0, <4>1, <4>2, <4>3, SeqEqual
    <3>3. Response(h) = disk[Path(h)] \o <<"EOF">> /\ Response(h)' = wire'[h]
      BY <3>1 DEF Response
    <3> QED
      BY <3>1, <3>2, <3>3
  <2>3. ASSUME NEW m \in {"OK", "ERROR"}, wire'[h] = wire[h] \o <<m>>, wire[h] = <<>>,
               Response(h) = <<m>>, pc'[h] \in {"unlock", "close"}
        PROVE  Response(h)' = Response(h)
    <3>1. wire'[h] = <<m>>
      <4>1. <<m>> \in Seq(Token)
        BY ConstantTypes
      <4> QED
        BY <2>3, <4>1, ConcatEmptySeq
    <3> QED
      BY <2>3, <3>1 DEF Response
  <2>4. CASE SendOk(h)
    <3>1. pc[h] = "ok" /\ pc'[h] = "unlock" /\ wire'[h] = wire[h] \o <<"OK">>
      BY <1>0, <2>4 DEF SendOk, At, Goto, WriteClient
    <3>2. wire[h] = <<>> /\ Response(h) = <<"OK">>
      BY <1>0, <3>1 DEF WireInv, Response
    <3> QED
      BY <2>3, <3>1, <3>2
  <2>5. CASE SendError(h)
    <3>1. /\ pc[h] = "err" /\ pc'[h] \in {"unlock", "close"}
          /\ wire'[h] = wire[h] \o <<"ERROR">>
      BY <1>0, <2>5 DEF SendError, At, Goto, WriteClient
    <3>2. wire[h] = <<>> /\ Response(h) = <<"ERROR">>
      BY <1>0, <3>1 DEF WireInv, Response
    <3> QED
      BY <2>3, <3>1, <3>2
  <2> QED
    BY <2>1, <2>2, <2>4, <2>5
<1> QED
  BY <1>2, <1>3

\* The two halves of an append: nothing is seen of the first, and the whole
\* line of the second.
LEMMA HalfLine ==
  ASSUME NEW s \in Seq(Token), NEW d \in Token
  PROVE  /\ SubSeq(Append(s, d), 1, Len(Append(s, d)) - 1) = s
         /\ s # <<>> => Append(s, d) = SubSeq(s, 1, Len(s) - 1) \o <<s[Len(s)], d>>
<1>1. /\ Len(s) \in Nat /\ Append(s, d) \in Seq(Token) /\ Len(Append(s, d)) = Len(s) + 1
      /\ Append(s, d)[Len(s) + 1] = d
      /\ \A p \in 1..Len(s) : Append(s, d)[p] = s[p] /\ s[p] \in Token
  BY LenProperties, AppendProperties, ElementOfSeq
<1>2. SubSeq(Append(s, d), 1, Len(Append(s, d)) - 1) = s
  <2> DEFINE t == SubSeq(Append(s, d), 1, Len(s))
  <2>1. Len(Append(s, d)) - 1 = Len(s)
    BY <1>1
  <2>2. /\ t \in Seq(Token) /\ Len(t) = IF 1 <= Len(s) THEN Len(s) - 1 + 1 ELSE 0
        /\ \A p \in 1..(Len(s) - 1 + 1) : t[p] = Append(s, d)[1 + p - 1]
    <3>1. 1 \in Int /\ Len(s) \in Int /\ \A p \in 1..Len(s) : Append(s, d)[p] \in Token
      BY <1>1
    <3> QED
      BY <3>1, SubSeqProperties
  <2>3. Len(t) = Len(s)
    BY <1>1, <2>2
  <2>4. ASSUME NEW p \in 1..Len(t) PROVE t[p] = s[p]
    <3>1. p \in 1..(Len(s) - 1 + 1) /\ 1 + p - 1 = p /\ p \in 1..Len(s)
      BY <1>1, <2>3
    <3> QED
      BY <1>1, <2>2, <3>1
  <2> HIDE DEF t
  <2>5. t = s
    BY <2>2, <2>3, <2>4, SeqEqual
  <2> QED
    BY <2>1, <2>5 DEF t
<1>3. ASSUME s # <<>>
      PROVE  Append(s, d) = SubSeq(s, 1, Len(s) - 1) \o <<s[Len(s)], d>>
  <2> DEFINE u == SubSeq(s, 1, Len(s) - 1)
             v == <<s[Len(s)], d>>
  <2>1. Len(s) \in Nat \ {0}
    BY <1>1, <1>3, EmptySeq
  <2>2. /\ u \in Seq(Token) /\ Len(u) = IF 1 <= Len(s) - 1 THEN Len(s) - 1 - 1 + 1 ELSE 0
        /\ \A p \in 1..(Len(s) - 1 - 1 + 1) : u[p] = s[1 + p - 1]
    <3>1. /\ 1 \in Int /\ Len(s) - 1 \in Int
          /\ \A p \in 1..(Len(s) - 1) : s[p] \in Token
      BY <1>1, <2>1
    <3> QED
      BY <3>1, SubSeqProperties
  <2>3. v \in Seq(Token) /\ Len(v) = 2 /\ v[1] = s[Len(s)] /\ v[2] = d
    BY <1>1, <2>1
  <2> HIDE DEF u, v
  <2>4. Len(u) = Len(s) - 1
    <3>1. \A n \in Nat \ {0} : (IF 1 <= n - 1 THEN n - 1 - 1 + 1 ELSE 0) = n - 1
      OBVIOUS
    <3> QED
      BY <2>1, <2>2, <3>1, Zenon
  <2>5. /\ u \o v \in Seq(Token) /\ Len(u \o v) = Len(u) + Len(v)
        /\ \A p \in 1..(Len(u) + Len(v)) :
             (u \o v)[p] = IF p <= Len(u) THEN u[p] ELSE v[p - Len(u)]
    BY <2>2, <2>3, ConcatProperties
  <2>6. Len(u \o v) = Len(s) + 1
    BY <2>1, <2>3, <2>4, <2>5
  <2>7. ASSUME NEW p \in 1..(Len(s) + 1) PROVE Append(s, d)[p] = (u \o v)[p]
    <3>0. (u \o v)[p] = IF p <= Len(s) - 1 THEN u[p] ELSE v[p - (Len(s) - 1)]
      BY <2>1, <2>3, <2>4, <2>5
    <3>1. CASE p <= Len(s) - 1
      <4>1. p \in 1..(Len(s) - 1 - 1 + 1) /\ 1 + p - 1 = p /\ p \in 1..Len(s)
        BY <2>1, <3>1
      <4> QED
        BY <1>1, <2>2, <3>0, <3>1, <4>1
    <3>2. CASE p = Len(s)
      <4>1. ~(p <= Len(s) - 1) /\ p - (Len(s) - 1) = 1 /\ p \in 1..Len(s)
        BY <2>1, <3>2
      <4>2. Append(s, d)[p] = s[Len(s)]
        BY <1>1, <3>2, <4>1
      <4>3. (u \o v)[p] = s[Len(s)]
        BY <2>3, <3>0, <4>1
      <4> QED
        BY <4>2, <4>3
    <3>3. CASE p = Len(s) + 1
      <4>1. ~(p <= Len(s) - 1) /\ p - (Len(s) - 1) = 2
        BY <2>1, <3>3
      <4>2. Append(s, d)[p] = d
        BY <1>1, <3>3
      <4>3. (u \o v)[p] = d
        BY <2>3, <3>0, <4>1
      <4> QED
        BY <4>2, <4>3
    <3>4. \A n \in Nat \ {0} : \A q \in 1..(n + 1) : q <= n - 1 \/ q = n \/ q = n + 1
      OBVIOUS
    <3>5. p <= Len(s) - 1 \/ p = Len(s) \/ p = Len(s) + 1
      BY <2>1, <2>7, <3>4, Zenon
    <3> QED
      BY <3>1, <3>2, <3>3, <3>5, Zenon
  <2>8. Append(s, d) = u \o v
    BY <1>1, <2>5, <2>6, <2>7, SeqEqual
  <2> QED
    BY <2>8 DEF u, v
<1> QED
  BY <1>2, <1>3

LEMMA AppendSteps ==
  ASSUME TypeInv, LockInv, CopyInv, CreateInv, AllKeptInv, Ample,
         NEW h \in Conns, h \in SoundConns, Thread(h), ~SigPipe(h)
  PROVE  /\ OpAppendData(h) =>
              Lines(Path(h))' = Lines(Path(h)) /\ Response(h)' = Response(h)
         /\ OpAppendNewline(h) =>
              /\ Lines(Path(h))' = Lines(Path(h)) \o <<Cmd[h].data, NL>>
              /\ Lines(Path(h)) # Absent
              /\ Response(h)' = <<"OK">>
<1>0. /\ pc \in [Conns -> Labels] /\ disk \in [Files -> Seq(Token) \union {Absent}]
      /\ Path(h) \in Files /\ Path(h) \notin FullFiles /\ Path(h)' = Path(h)
      /\ Cmd[h].data \in Token /\ NL \in Token /\ Absent \notin Seq(Token)
  BY ConstantTypes, ServerAssumption
     DEF ServerAssumption, TypeInv, TypeOK, ServerTypeOK, SoundConns, Path
<1>1. ASSUME OpAppendData(h)
      PROVE  Lines(Path(h))' = Lines(Path(h)) /\ Response(h)' = Response(h)
  <2>1. /\ up /\ up' = up /\ pc[h] = "data" /\ pc'[h] = "nl" /\ wire' = wire
        /\ disk[Path(h)] \in Seq(Token)
        /\ disk'[Path(h)] = Append(disk[Path(h)], Cmd[h].data)
    <3>1. disk[Path(h)] \in Seq(Token)
      BY <1>0, <1>1 DEF OpAppendData, At, TypeInv, OpenInv
    <3> QED
      BY <1>0, <1>1, <3>1 DEF OpAppendData, At, Goto, AppendToken, procVars, sockVars
  <2>2. Lines(Path(h)) = disk[Path(h)]
    BY <2>1, NotAtEnd DEF Accessing
  <2>3. Lines(Path(h))' = SubSeq(disk'[Path(h)], 1, Len(disk'[Path(h)]) - 1)
    <3>1. AtEnd(Path(h))'
      BY <1>0, <2>1 DEF AtEnd, At, Path
    <3>2. Lines(Path(h))' = (IF AtEnd(Path(h))' THEN SubSeq(disk'[Path(h)], 1, Len(disk'[Path(h)]) - 1)
                                                ELSE disk'[Path(h)])
      BY DEF Lines, AtEnd, Path
    <3> QED
      BY <3>1, <3>2
  <2>4. Lines(Path(h))' = Lines(Path(h))
    BY <1>0, <2>1, <2>2, <2>3, HalfLine
  <2> QED
    BY <2>1, <2>4 DEF Response
<1>2. ASSUME OpAppendNewline(h)
      PROVE  /\ Lines(Path(h))' = Lines(Path(h)) \o <<Cmd[h].data, NL>>
             /\ Lines(Path(h)) # Absent
             /\ Response(h)' = <<"OK">>
  <2>1. /\ up /\ up' = up /\ pc[h] = "nl" /\ pc'[h] = "ok" /\ wire' = wire
        /\ disk[Path(h)] \in Seq(Token)
        /\ disk'[Path(h)] = Append(disk[Path(h)], NL)
    <3>1. disk[Path(h)] \in Seq(Token)
      BY <1>0, <1>2 DEF OpAppendNewline, At, TypeInv, OpenInv
    <3> QED
      BY <1>0, <1>2, <3>1 DEF OpAppendNewline, At, Goto, AppendToken, procVars, sockVars
  <2>2. disk[Path(h)] # <<>> /\ disk[Path(h)][Len(disk[Path(h)])] = Cmd[h].data
    BY <1>0, <2>1 DEF AllKeptInv, KeptInv, Ample, At
  <2>3. Lines(Path(h)) = SubSeq(disk[Path(h)], 1, Len(disk[Path(h)]) - 1)
    BY <2>1 DEF Lines, At
  <2>4. Lines(Path(h))' = disk'[Path(h)]
    <3>1. ~AtEnd(Path(h))'
      <4>1. \A k \in Conns : k # h /\ At(k, "nl") => Path(k) # Path(h)
        BY <2>1, FileMutexInv DEF FileMutex, Accessing, At, Ample
      <4> QED
        BY <2>1, <4>1, ThreadFrame DEF AtEnd, At, Path
    <3>2. Lines(Path(h))' = (IF AtEnd(Path(h))' THEN SubSeq(disk'[Path(h)], 1, Len(disk'[Path(h)]) - 1)
                                                ELSE disk'[Path(h)])
      BY DEF Lines, AtEnd, Path
    <3> QED
      BY <3>1, <3>2
  <2>5. Append(disk[Path(h)], NL)
          = SubSeq(disk[Path(h)], 1, Len(disk[Path(h)]) - 1) \o <<disk[Path(h)][Len(disk[Path(h)])], NL>>
    BY <1>0, <2>1, <2>2, HalfLine
  <2>6. Lines(Path(h))' = Lines(Path(h)) \o <<Cmd[h].data, NL>>
    BY <2>1, <2>2, <2>3, <2>4, <2>5
  <2>7. Lines(Path(h)) # Absent
    <3>1. Len(disk[Path(h)]) \in Nat \ {0}
      BY <2>1, <2>2, EmptySeq
    <3>2. /\ 1 \in Int /\ Len(disk[Path(h)]) - 1 \in Int
          /\ \A p \in 1..(Len(disk[Path(h)]) - 1) : disk[Path(h)][p] \in Token
      BY <2>1, <3>1, ElementOfSeq
    <3>3. SubSeq(disk[Path(h)], 1, Len(disk[Path(h)]) - 1) \in Seq(Token)
      BY <3>2, SubSeqProperties
    <3> QED
      BY <1>0, <2>3, <3>3
  <2>8. Response(h)' = <<"OK">>
    BY <2>1 DEF Response
  <2> QED
    BY <2>6, <2>7, <2>8
<1> QED
  BY <1>1, <1>2

\* Steps that leave the files alone and have no half line to show.
LEMMA LinesQuiet ==
  ASSUME TypeInv, LockInv, CopyInv, Ample, NEW h \in Conns, Thread(h), ~SigPipe(h),
         disk' = disk, pc[h] # "nl", pc'[h] # "nl"
  PROVE  Lines(Path(h))' = Lines(Path(h))
<1>1. AtEnd(Path(h))' = AtEnd(Path(h))
  BY ThreadFrame DEF AtEnd, At, Path
<1>2. Lines(Path(h)) = (IF AtEnd(Path(h)) THEN SubSeq(disk[Path(h)], 1, Len(disk[Path(h)]) - 1)
                                          ELSE disk[Path(h)])
  BY DEF Lines, AtEnd
<1>3. Lines(Path(h))' = (IF AtEnd(Path(h))' THEN SubSeq(disk[Path(h)], 1, Len(disk[Path(h)]) - 1)
                                            ELSE disk[Path(h)])
  BY DEF Lines, AtEnd, Path
<1> QED
  BY <1>1, <1>2, <1>3

\* What the store sees of a step, from what becomes of the file and response.
LEMMA StoreSteps ==
  ASSUME TypeInv, LockInv, CopyInv, Ample, NEW h \in Conns, h \in SoundConns,
         Thread(h), ~SigPipe(h), ~CloseClient(h)
  PROVE  /\ Lines(Path(h))' = Lines(Path(h)) /\ Response(h)' = Response(h)
              => UNCHANGED Store!vars
         /\ request[h] /\ Response(h) = <<>> =>
              /\ /\ Cmd[h].op = "CREATE" /\ Lines(Path(h)) = Absent
                 /\ Lines(Path(h))' = <<>> /\ Response(h)' = <<"OK">>
                 => Store!Create(h)
              /\ /\ Cmd[h].op = "APPEND" /\ Lines(Path(h)) # Absent
                 /\ Lines(Path(h))' = Lines(Path(h)) \o <<Cmd[h].data, NL>>
                 /\ Response(h)' = <<"OK">>
                 => Store!AppendLine(h)
              /\ /\ Cmd[h].op = "READ" /\ Lines(Path(h)) # Absent
                 /\ Lines(Path(h))' = Lines(Path(h))
                 /\ Response(h)' = Lines(Path(h)) \o <<"EOF">>
                 => Store!Read(h)
              /\ /\ \/ Cmd[h].op = "CREATE" /\ Lines(Path(h)) # Absent
                    \/ Cmd[h].op \in {"READ", "APPEND"} /\ Lines(Path(h)) = Absent
                    \/ Cmd[h].op \in {"NODATA", "OTHER"}
                    \/ TableTooSmall \/ "open_fails" \in Faults
                 /\ Lines(Path(h))' = Lines(Path(h)) /\ Response(h)' = <<"ERROR">>
                 => Store!Reject(h)
<1> DEFINE store == [f \in SoundFiles |-> Lines(f)]
           result == [k \in SoundConns |-> Response(k)]
           open == [k \in SoundConns |-> pc[k] # "done"]
           asked == [k \in SoundConns |-> request[k]]
           seen == [k \in SoundConns |-> nread[k]]
<1>1. /\ open' = open /\ open[h]
      /\ store' = [store EXCEPT ![Path(h)] = Lines(Path(h))']
      /\ result' = [result EXCEPT ![h] = Response(h)']
      /\ asked' = asked /\ seen' = seen
  <2>1. SoundConns' = SoundConns
    BY DEF SoundConns, Path
  <2> QED
    BY <2>1, StoreChange
<1>2. /\ Path(h) \in SoundFiles /\ Path(h) = Cmd[h].file
      /\ store[Path(h)] = Lines(Path(h)) /\ result[h] = Response(h)
      /\ asked[h] = request[h]
  BY ConstantTypes DEF SoundFiles, SoundConns, Path
<1>3. /\ Lines(Path(h))' = Lines(Path(h)) => store' = store
      /\ Response(h)' = Response(h) => result' = result
  <2>1. [store EXCEPT ![Path(h)] = store[Path(h)]] = store
    OBVIOUS
  <2>2. [result EXCEPT ![h] = result[h]] = result
    OBVIOUS
  <2> QED
    BY <1>1, <1>2, <2>1, <2>2
<1>4. ASSUME Lines(Path(h))' = Lines(Path(h)), Response(h)' = Response(h)
      PROVE  UNCHANGED Store!vars
  BY <1>1, <1>3, <1>4 DEF Store!vars
<1>5. ASSUME request[h], Response(h) = <<>>
      PROVE  \A response : Response(h)' = response => Store!Answer(h, response)
  <2> HIDE DEF store
  <2> QED
    BY <1>1, <1>2, <1>5 DEF Store!Answer, Store!Pending
<1>6. ASSUME request[h], Response(h) = <<>>, Cmd[h].op = "CREATE", Lines(Path(h)) = Absent,
             Lines(Path(h))' = <<>>, Response(h)' = <<"OK">>
      PROVE  Store!Create(h)
  BY <1>1, <1>2, <1>5, <1>6 DEF Store!Create
<1>7. ASSUME request[h], Response(h) = <<>>, Cmd[h].op = "APPEND", Lines(Path(h)) # Absent,
             Lines(Path(h))' = Lines(Path(h)) \o <<Cmd[h].data, NL>>, Response(h)' = <<"OK">>
      PROVE  Store!AppendLine(h)
  BY <1>1, <1>2, <1>5, <1>7 DEF Store!AppendLine
<1>8. ASSUME request[h], Response(h) = <<>>, Cmd[h].op = "READ", Lines(Path(h)) # Absent,
             Lines(Path(h))' = Lines(Path(h)), Response(h)' = Lines(Path(h)) \o <<"EOF">>
      PROVE  Store!Read(h)
  BY <1>2, <1>3, <1>5, <1>8 DEF Store!Read
<1>9. ASSUME request[h], Response(h) = <<>>,
             \/ Cmd[h].op = "CREATE" /\ Lines(Path(h)) # Absent
             \/ Cmd[h].op \in {"READ", "APPEND"} /\ Lines(Path(h)) = Absent
             \/ Cmd[h].op \in {"NODATA", "OTHER"}
             \/ TableTooSmall \/ "open_fails" \in Faults,
             Lines(Path(h))' = Lines(Path(h)), Response(h)' = <<"ERROR">>
      PROVE  Store!Reject(h)
  BY <1>2, <1>3, <1>5, <1>9 DEF Store!Reject
<1> QED
  BY <1>4, <1>6, <1>7, <1>8, <1>9, Zenon

LEMMA ThreadStore ==
  ASSUME TypeInv, LockInv, CopyInv, CreateInv, AllKeptInv, AskInv, NamedInv, Ample,
         NEW h \in Conns, h \in SoundConns, Thread(h), ~SigPipe(h), ~CloseClient(h)
  PROVE  Store!Decide(h) \/ UNCHANGED Store!vars
<1>0. /\ pc \in [Conns -> Labels] /\ disk \in [Files -> Seq(Token) \union {Absent}]
      /\ Path(h) \in Files /\ Path(h)' = Path(h)
      /\ Cmd[h].op \in {"CREATE", "READ", "APPEND", "NODATA", "OTHER"}
      /\ wire[h] \in Seq(Token)
  BY ConstantTypes, ServerAssumption
     DEF ServerAssumption, Command, TypeInv, TypeOK, ServerTypeOK, Ample, Path
<1>1. Busy(h) => request[h]
  BY DEF AskInv
<1>2. ASSUME disk' = disk, wire' = wire,
             pc[h] \notin {"block", "ok", "err", "nl"}, pc'[h] \notin {"block", "ok", "err", "nl"}
      PROVE  UNCHANGED Store!vars
  BY <1>2, QuietSteps, StoreSteps
<1>3. ASSUME disk' = disk, pc'[h] = "err", request[h],
             pc[h] \in {"read", "table", "search", "insert", "lock", "open", "data"},
             \/ Cmd[h].op = "CREATE" /\ Lines(Path(h)) # Absent
             \/ Cmd[h].op \in {"READ", "APPEND"} /\ Lines(Path(h)) = Absent
             \/ Cmd[h].op \in {"NODATA", "OTHER"}
             \/ TableTooSmall \/ "open_fails" \in Faults
      PROVE  Store!Decide(h)
  <2>1. Response(h) = <<>> /\ Lines(Path(h))' = Lines(Path(h))
    BY <1>3, Undecided, LinesQuiet
  <2>2. Response(h)' = <<"ERROR">>
    BY <1>3 DEF Response
  <2>3. Store!Reject(h)
    BY <1>3, <2>1, <2>2, StoreSteps
  <2> QED
    BY <2>3 DEF Store!Decide
<1>4. CASE GererClient(h)
  <2>1. disk' = disk /\ wire' = wire /\ pc[h] = "read"
    BY <1>4 DEF GererClient, At, sockVars
  <2>2. \/ pc'[h] \in {"table", "close"}
        \/ /\ pc'[h] = "err" /\ request[h]
           /\ Cmd[h].op \in {"NODATA", "OTHER"}
    BY <1>0, <1>4 DEF GererClient, Goto
  <2> QED
    BY <1>2, <1>3, <2>1, <2>2
<1>5. CASE LockTable(h) \/ SearchTable(h) \/ LockFile(h) \/ UnlockFile(h)
  <2>1. /\ disk' = disk /\ wire' = wire
        /\ pc[h] \in {"table", "search", "lock", "unlock"}
    BY <1>5 DEF LockTable, SearchTable, LockFile, UnlockFile, At, sockVars
  <2>2. pc'[h] \in {"search", "lock", "insert", "open", "close"}
    BY <1>0, <1>5 DEF LockTable, SearchTable, LockFile, UnlockFile, Goto
  <2> QED
    BY <1>2, <2>1, <2>2
<1>6. CASE InsertEntry(h)
  <2>1. disk' = disk /\ wire' = wire /\ pc[h] = "insert"
    BY <1>6 DEF InsertEntry, At, sockVars
  <2>2. \/ pc'[h] = "lock"
        \/ pc'[h] = "err" /\ \A s \in Slots : file_locks[s] # Free
    BY <1>0, <1>6 DEF InsertEntry, Goto
  <2>3. (\A s \in Slots : file_locks[s] # Free) => TableTooSmall
    BY <2>1, FullTable
  <2> QED
    BY <1>1, <1>2, <1>3, <2>1, <2>2, <2>3 DEF Busy
<1>7. ASSUME pc[h] = "open"
      PROVE  /\ Lines(Path(h)) = disk[Path(h)] /\ request[h] /\ Response(h) = <<>>
  <2>1. up
    BY DEF Thread, GererClient, GetFileLock, LockTable, SearchTable, InsertEntry,
       LockFile, OpCreate, OpOpen, OpAppend, OpAppendData, OpAppendNewline, OpRead,
       OpReadBlock, OpReadEnd, SendOk, SendError, WriteClient, UnlockFile, CloseClient, At
  <2> QED
    BY <1>1, <1>7, <2>1, NotAtEnd, Undecided DEF Accessing, Busy
<1>8. CASE OpCreate(h)
  <2>1. pc[h] = "open" /\ Cmd[h].op = "CREATE"
    BY <1>8 DEF OpCreate, At
  <2>2. CASE disk[Path(h)] = Absent /\ pc'[h] # "err"
    <3>1. pc'[h] = "ok" /\ disk'[Path(h)] = <<>>
      BY <1>0, <1>8, <2>2 DEF OpCreate, Goto, Exists
    <3>2. Lines(Path(h))' = <<>>
      <4>1. ~AtEnd(Path(h))'
        <5>1. ~AtEnd(Path(h)) /\ up
          BY <1>8, <2>1, NotAtEnd DEF Accessing, OpCreate, At
        <5> QED
          BY <3>1, <5>1, ThreadFrame DEF AtEnd, At, Path
      <4>2. Lines(Path(h))' = (IF AtEnd(Path(h))' THEN SubSeq(disk'[Path(h)], 1, Len(disk'[Path(h)]) - 1)
                                                  ELSE disk'[Path(h)])
        BY DEF Lines, AtEnd, Path
      <4> QED
        BY <3>1, <4>1, <4>2
    <3>3. Response(h)' = <<"OK">>
      BY <3>1 DEF Response
    <3>4. Store!Create(h)
      BY <1>7, <2>1, <2>2, <3>2, <3>3, StoreSteps
    <3> QED
      BY <3>4 DEF Store!Decide
  <2>3. CASE disk[Path(h)] # Absent \/ pc'[h] = "err"
    <3>1. /\ pc'[h] = "err" /\ disk' = disk
          /\ disk[Path(h)] # Absent \/ "open_fails" \in Faults
      BY <1>0, <1>8, <2>3 DEF OpCreate, Goto, Exists
    <3> QED
      BY <1>3, <1>7, <2>1, <3>1
  <2> QED
    BY <2>2, <2>3
<1>9. CASE OpOpen(h)
  <2>1. pc[h] = "open" /\ Cmd[h].op \in {"READ", "APPEND"} /\ disk' = disk /\ wire' = wire
    BY <1>9 DEF OpOpen, At, sockVars
  <2>2. CASE disk[Path(h)] = Absent \/ pc'[h] = "err"
    <3>1. pc'[h] = "err" /\ (disk[Path(h)] = Absent \/ "open_fails" \in Faults)
      BY <1>0, <1>9, <2>2 DEF OpOpen, Goto, Exists
    <3> QED
      BY <1>3, <1>7, <2>1, <3>1
  <2>3. CASE disk[Path(h)] # Absent /\ pc'[h] # "err" /\ Cmd[h].op = "READ"
    <3>1. pc'[h] = "block"
      BY <1>0, <1>9, <2>3 DEF OpOpen, Goto, Exists
    <3>2. Response(h)' = disk[Path(h)] \o <<"EOF">>
      BY <2>1, <3>1 DEF Response, Path
    <3>3. Lines(Path(h))' = Lines(Path(h))
      BY <2>1, <3>1, LinesQuiet
    <3>4. Store!Read(h)
      BY <1>7, <2>1, <2>3, <3>2, <3>3, StoreSteps
    <3> QED
      BY <3>4 DEF Store!Decide
  <2>4. CASE disk[Path(h)] # Absent /\ pc'[h] # "err" /\ Cmd[h].op = "APPEND"
    <3>1. pc'[h] = "data"
      BY <1>0, <1>9, <2>4 DEF OpOpen, Goto, Exists
    <3> QED
      BY <1>2, <2>1, <3>1
  <2> QED
    BY <2>1, <2>2, <2>3, <2>4
<1>10. CASE OpAppendData(h)
  BY <1>10, AppendSteps, StoreSteps
<1>11. CASE OpAppendNewline(h)
  <2>1. pc[h] = "nl" /\ Cmd[h].op = "APPEND"
    BY <1>11 DEF OpAppendNewline, At, CreateInv, OpInv
  <2>2. request[h] /\ Response(h) = <<>>
    BY <1>1, <2>1, Undecided DEF Busy
  <2>3. Store!AppendLine(h)
    BY <1>11, <2>1, <2>2, AppendSteps, StoreSteps
  <2> QED
    BY <2>3 DEF Store!Decide
<1>12. CASE OpReadBlock(h) \/ OpReadEnd(h) \/ SendOk(h) \/ SendError(h)
  BY <1>12, WriteSteps, StoreSteps
<1> QED
  BY <1>4, <1>5, <1>6, <1>8, <1>9, <1>10, <1>11, <1>12
     DEF Thread, GetFileLock, OpAppend, OpRead

\* The store has nothing of the files on a full disk.
LEMMA FullStore ==
  ASSUME TypeInv, LockInv, CopyInv, Ample, NEW h \in Conns, h \notin SoundConns,
         Thread(h), ~SigPipe(h)
  PROVE  UNCHANGED Store!vars
<1>1. Path(h) \notin SoundFiles
  BY DEF SoundFiles, SoundConns
<1>2. /\ [f \in SoundFiles |-> Lines(f)]' = [f \in SoundFiles |-> Lines(f)]
      /\ [k \in SoundConns |-> Response(k)]' = [k \in SoundConns |-> Response(k)]
      /\ [k \in SoundConns |-> pc[k] # "done"]' = [k \in SoundConns |-> pc[k] # "done"]
      /\ request' = request /\ nread' = nread
  BY <1>1, StoreChange
<1>3. SoundConns' = SoundConns
  BY DEF SoundConns, Path
<1> QED
  BY <1>2, <1>3 DEF Store!vars

\* Steps of others leave the store alone.
LEMMA StoreAlone ==
  ASSUME UNCHANGED <<disk, wire, request, nread>>,
         up' = up \/ (pc' = pc /\ \A k \in Conns : pc[k] # "nl"),
         \A k \in Conns : pc'[k] = pc[k]
                         \/ {pc[k], pc'[k]} \subseteq {"none", "read"}
  PROVE  UNCHANGED Store!vars
<1>1. ASSUME NEW k \in Conns
      PROVE  /\ Response(k)' = Response(k) /\ At(k, "nl")' = At(k, "nl")
             /\ pc'[k] # "done" <=> pc[k] # "done"
  <2>1. CASE pc'[k] = pc[k]
    BY <2>1 DEF Response, At, Path
  <2>2. CASE {pc[k], pc'[k]} \subseteq {"none", "read"}
    <3>1. pc[k] \in {"none", "read"} /\ pc'[k] \in {"none", "read"}
      BY <2>2
    <3> QED
      BY <3>1 DEF Response, At
  <2> QED
    BY <2>1, <2>2
<1>2. ASSUME NEW f \in Files
      PROVE  Lines(f)' = Lines(f)
  <2>1. AtEnd(f)' = AtEnd(f)
    BY <1>1 DEF AtEnd, Path
  <2>2. Lines(f) = (IF AtEnd(f) THEN SubSeq(disk[f], 1, Len(disk[f]) - 1) ELSE disk[f])
    BY DEF Lines, AtEnd
  <2>3. Lines(f)' = (IF AtEnd(f)' THEN SubSeq(disk'[f], 1, Len(disk'[f]) - 1) ELSE disk'[f])
    BY DEF Lines, AtEnd
  <2> QED
    BY <2>1, <2>2, <2>3
<1> QED
  BY <1>1, <1>2 DEF Store!vars, SoundFiles, SoundConns, Path

LEMMA Beginning ==
  ASSUME NEW s \in Seq(Token), NEW t \in Seq(Token), Len(s) <= Len(t),
         \A p \in 1..Len(s) : s[p] = t[p]
  PROVE  SubSeq(t, 1, Len(s)) = s
<1> DEFINE u == SubSeq(t, 1, Len(s))
<1>1. Len(s) \in Nat /\ Len(t) \in Nat
  BY LenProperties
<1>2. /\ u \in Seq(Token) /\ Len(u) = IF 1 <= Len(s) THEN Len(s) - 1 + 1 ELSE 0
      /\ \A p \in 1..(Len(s) - 1 + 1) : u[p] = t[1 + p - 1]
  <2>1. 1 \in Int /\ Len(s) \in Int /\ \A p \in 1..Len(s) : t[p] \in Token
    BY <1>1, ElementOfSeq
  <2> QED
    BY <2>1, SubSeqProperties
<1> HIDE DEF u
<1>3. Len(u) = Len(s)
  BY <1>1, <1>2
<1>4. ASSUME NEW p \in 1..Len(u) PROVE u[p] = s[p]
  <2>1. p \in 1..(Len(s) - 1 + 1) /\ 1 + p - 1 = p /\ p \in 1..Len(s)
    BY <1>1, <1>3
  <2> QED
    BY <1>2, <2>1
<1>5. u = s
  BY <1>2, <1>3, <1>4, SeqEqual
<1> QED
  BY <1>5 DEF u

LEMMA FrontAndLast ==
  ASSUME NEW s \in Seq(Token), s # <<>>
  PROVE  /\ SubSeq(s, 1, Len(s) - 1) \in Seq(Token)
         /\ s = Append(SubSeq(s, 1, Len(s) - 1), s[Len(s)])
<1> DEFINE u == SubSeq(s, 1, Len(s) - 1)
<1>1. Len(s) \in Nat \ {0} /\ \A p \in 1..Len(s) : s[p] \in Token
  BY LenProperties, EmptySeq, ElementOfSeq
<1>2. /\ u \in Seq(Token) /\ Len(u) = IF 1 <= Len(s) - 1 THEN Len(s) - 1 - 1 + 1 ELSE 0
      /\ \A p \in 1..(Len(s) - 1 - 1 + 1) : u[p] = s[1 + p - 1]
  <2>1. 1 \in Int /\ Len(s) - 1 \in Int /\ \A p \in 1..(Len(s) - 1) : s[p] \in Token
    BY <1>1
  <2> QED
    BY <2>1, SubSeqProperties
<1> HIDE DEF u
<1>3. Len(u) = Len(s) - 1
  <2>1. \A n \in Nat \ {0} : (IF 1 <= n - 1 THEN n - 1 - 1 + 1 ELSE 0) = n - 1
    OBVIOUS
  <2> QED
    BY <1>1, <1>2, <2>1, Zenon
<1>4. /\ Append(u, s[Len(s)]) \in Seq(Token) /\ Len(Append(u, s[Len(s)])) = Len(s)
      /\ Append(u, s[Len(s)])[Len(s)] = s[Len(s)]
      /\ \A p \in 1..(Len(s) - 1) : Append(u, s[Len(s)])[p] = u[p]
  <2>1. Len(s) \in 1..Len(s) /\ Len(s) - 1 + 1 = Len(s)
    BY <1>1
  <2>2. s[Len(s)] \in Token
    BY <1>1, <2>1
  <2>3. /\ Append(u, s[Len(s)]) \in Seq(Token) /\ Len(Append(u, s[Len(s)])) = Len(u) + 1
        /\ Append(u, s[Len(s)])[Len(u) + 1] = s[Len(s)]
        /\ \A p \in 1..Len(u) : Append(u, s[Len(s)])[p] = u[p]
    BY <1>2, <2>2, AppendProperties
  <2> QED
    BY <1>3, <2>1, <2>3
<1>5. ASSUME NEW p \in 1..Len(s) PROVE s[p] = Append(u, s[Len(s)])[p]
  <2>1. CASE p \in 1..(Len(s) - 1)
    <3>1. p \in 1..(Len(s) - 1 - 1 + 1) /\ 1 + p - 1 = p
      BY <1>1, <2>1
    <3> QED
      BY <1>2, <1>4, <2>1, <3>1
  <2>2. CASE p = Len(s)
    BY <1>4, <2>2
  <2>3. p \in 1..(Len(s) - 1) \/ p = Len(s)
    BY <1>1
  <2> QED
    BY <2>1, <2>2, <2>3
<1>6. s = Append(u, s[Len(s)])
  BY <1>4, <1>5, SeqEqual
<1> QED
  BY <1>2, <1>6 DEF u

\* What was written to a client is the beginning of its response.
LEMMA WirePart ==
  ASSUME TypeInv, CopyInv, NEW k \in Conns
  PROVE  /\ Len(wire[k]) \in Nat /\ Len(Response(k)) \in Nat
         /\ Len(wire[k]) <= Len(Response(k))
         /\ SubSeq(Response(k), 1, Len(wire[k])) = wire[k]
<1>0. wire[k] \in Seq(Token) /\ Len(wire[k]) \in Nat /\ WireInv(k)
  <2>1. wire[k] \in Seq(Token)
    BY DEF TypeInv, TypeOK, ServerTypeOK
  <2> QED
    BY <2>1, LenProperties DEF CopyInv
<1>1. /\ Response(k) \in Seq(Token) /\ Len(wire[k]) <= Len(Response(k))
      /\ \A p \in 1..Len(wire[k]) : wire[k][p] = Response(k)[p]
  <2>1. CASE pc[k] = "block"
    <3>1. /\ disk[Path(k)] \in Seq(Token) /\ <<"EOF">> \in Seq(Token)
          /\ Len(<<"EOF">>) = 1
      BY <2>1, ConstantTypes DEF TypeInv, TypeOK, ServerTypeOK, OpenInv
    <3>2. /\ Response(k) \in Seq(Token)
          /\ Len(Response(k)) = Len(disk[Path(k)]) + 1
          /\ Len(disk[Path(k)]) \in Nat
          /\ \A p \in 1..(Len(disk[Path(k)]) + 1) :
               Response(k)[p] = IF p <= Len(disk[Path(k)]) THEN disk[Path(k)][p] ELSE "EOF"
      BY <2>1, <3>1, ConcatProperties, LenProperties DEF Response
    <3>3. Len(wire[k]) <= Len(disk[Path(k)])
      BY <1>0, <2>1 DEF WireInv
    <3>4. \A p \in 1..Len(wire[k]) : wire[k][p] = disk[Path(k)][p]
      BY <1>0, <2>1 DEF WireInv, Copied
    <3>5. \A p \in 1..Len(wire[k]) : p <= Len(disk[Path(k)]) /\ p \in 1..(Len(disk[Path(k)]) + 1)
      BY <1>0, <3>2, <3>3
    <3> QED
      BY <1>0, <3>2, <3>3, <3>4, <3>5
  <2>2. CASE pc[k] \in {"ok", "err"}
    <3>1. /\ wire[k] = <<>> /\ Len(wire[k]) = 0 /\ Len(Response(k)) = 1
          /\ Response(k) \in Seq(Token)
      BY <1>0, <2>2, EmptySeq, ConstantTypes DEF WireInv, Response
    <3> QED
      BY <3>1
  <2>3. CASE pc[k] \notin {"block", "ok", "err"}
    BY <1>0, <2>3 DEF Response
  <2> QED
    BY <2>1, <2>2, <2>3
<1>2. Len(Response(k)) \in Nat
  BY <1>1, LenProperties
<1> QED
  BY <1>0, <1>1, <1>2, Beginning

\* What the client has read is part of the response.
LEMMA ReadPart ==
  ASSUME TypeInv, CopyInv, CreateInv, NEW k \in Conns, NEW n \in 1..Len(Unread(k))
  PROVE  nread[k] + n \in (nread[k] + 1)..Len(Response(k))
<1>0. /\ wire[k] \in Seq(Token) /\ Len(wire[k]) \in Nat /\ nread[k] \in Nat
      /\ nread[k] <= Len(wire[k]) /\ WireInv(k)
  <2>1. wire[k] \in Seq(Token) /\ nread[k] \in Nat
    BY DEF TypeInv, TypeOK, ServerTypeOK
  <2> QED
    BY <2>1, LenProperties DEF CreateInv, ReadInv, CopyInv
<1>1. Len(Unread(k)) = Len(wire[k]) - nread[k]
  <2>1. /\ nread[k] + 1 \in Int /\ Len(wire[k]) \in Int
        /\ \A p \in (nread[k] + 1)..Len(wire[k]) : wire[k][p] \in Token
    BY <1>0, ElementOfSeq
  <2>2. Len(Unread(k)) = IF nread[k] + 1 <= Len(wire[k])
                           THEN Len(wire[k]) - (nread[k] + 1) + 1 ELSE 0
    BY <2>1, SubSeqProperties DEF Unread
  <2> QED
    BY <1>0, <2>2
<1>2. n \in Nat /\ n >= 1 /\ nread[k] + n <= Len(wire[k])
  BY <1>0, <1>1
<1>3. Len(Response(k)) \in Nat /\ Len(wire[k]) <= Len(Response(k))
  BY WirePart
<1> QED
  BY <1>0, <1>2, <1>3

LEMMA ClientStore ==
  ASSUME TypeInv, CopyInv, CreateInv, AskInv, NEW c \in Clients, Client(c) \/ Interrupt(c)
  PROVE  Store!Next \/ UNCHANGED Store!vars
<1>0. Conn(c) \in Conns /\ request \in [Conns -> BOOLEAN] /\ nread \in [Conns -> Nat]
  BY DEF TypeInv, TypeOK, ServerTypeOK, ConnInv
<1>1. ASSUME UNCHANGED <<disk, wire, pc>>, up' = up
      PROVE  /\ [f \in SoundFiles |-> Lines(f)]' = [f \in SoundFiles |-> Lines(f)]
             /\ [k \in SoundConns |-> Response(k)]' = [k \in SoundConns |-> Response(k)]
             /\ [k \in SoundConns |-> pc[k] # "done"]' = [k \in SoundConns |-> pc[k] # "done"]
             /\ SoundConns' = SoundConns
  BY <1>1 DEF Lines, Response, At, Path, SoundFiles, SoundConns
<1>2. CASE Connect(c) \/ ReadClosed(c) \/ Interrupt(c)
  BY <1>2, StoreAlone DEF Connect, ReadClosed, Interrupt, sockVars, procVars, threadVars
<1>3. CASE SendCommand(c)
  <2>1. UNCHANGED <<disk, wire, pc, nread>> /\ up' = up
    BY <1>3 DEF SendCommand, procVars, threadVars
  <2>2. CASE request' = request
    BY <2>1, <2>2, StoreAlone
  <2>3. CASE request' = [request EXCEPT ![Conn(c)] = TRUE]
    <3>1. ~request[Conn(c)]
      BY <1>0, <1>3 DEF AskInv, Conn, SendCommand
    <3>2. pc[Conn(c)] # "done"
      BY <1>0, <1>3, <2>3, <3>1 DEF SendCommand
    <3>3. ASSUME NEW h \in SoundConns, h = Conn(c)
          PROVE  Store!Next
      <4>1. [k \in SoundConns |-> request[k]]'
              = [[k \in SoundConns |-> request[k]] EXCEPT ![h] = TRUE]
        BY <1>0, <1>1, <2>1, <2>3, <3>3 DEF SoundConns
      <4>2. [k \in SoundConns |-> nread[k]]' = [k \in SoundConns |-> nread[k]]
        BY <1>1, <2>1
      <4>3. Store!Ask(h)
        BY <1>1, <2>1, <3>1, <3>2, <3>3, <4>1, <4>2 DEF Store!Ask
      <4> QED
        BY <4>3 DEF Store!Next
    <3>4. CASE Conn(c) \notin SoundConns
      <4>1. [k \in SoundConns |-> request[k]]' = [k \in SoundConns |-> request[k]]
        BY <1>0, <1>1, <2>1, <2>3, <3>4 DEF SoundConns
      <4> QED
        BY <1>1, <2>1, <4>1 DEF Store!vars
    <3> QED
      BY <3>3, <3>4
  <2> QED
    BY <1>3, <2>2, <2>3 DEF SendCommand
<1>4. CASE ReadReply(c)
  <2>1. UNCHANGED <<disk, wire, pc, request>> /\ up' = up
    BY <1>4 DEF ReadReply, procVars, threadVars
  <2>2. PICK n \in 1..Len(Unread(Conn(c))) :
          nread' = [nread EXCEPT ![Conn(c)] = nread[Conn(c)] + n]
    BY <1>4 DEF ReadReply
  <2>3. nread[Conn(c)] + n \in (nread[Conn(c)] + 1)..Len(Response(Conn(c)))
    BY <1>0, <2>2, ReadPart
  <2>4. [k \in SoundConns |-> request[k]]' = [k \in SoundConns |-> request[k]]
    BY <1>1, <2>1
  <2>5. ASSUME NEW h \in SoundConns, h = Conn(c)
        PROVE  Store!Next
    <3>1. [k \in SoundConns |-> nread[k]]'
            = [[k \in SoundConns |-> nread[k]] EXCEPT ![h] = nread[h] + n]
      BY <1>0, <1>1, <2>1, <2>2, <2>5 DEF SoundConns
    <3>2. Store!Show(h)
      BY <1>1, <2>1, <2>3, <2>4, <2>5, <3>1 DEF Store!Show
    <3> QED
      BY <3>2 DEF Store!Next
  <2>6. CASE Conn(c) \notin SoundConns
    <3>1. [k \in SoundConns |-> nread[k]]' = [k \in SoundConns |-> nread[k]]
      BY <1>0, <1>1, <2>1, <2>2, <2>6 DEF SoundConns
    <3> QED
      BY <1>1, <2>1, <2>4, <3>1 DEF Store!vars
  <2> QED
    BY <2>5, <2>6
<1> QED
  BY <1>2, <1>3, <1>4 DEF Client

\* A thread closes a connection whose command was answered, or never came.
LEMMA CloseStore ==
  ASSUME TypeInv, LockInv, CopyInv, ReplyInv, Ample, NEW h \in Conns,
         h \in SoundConns, CloseClient(h)
  PROVE  Store!Close(h)
<1>0. /\ pc \in [Conns -> Labels] /\ pc[h] = "close" /\ pc' = [pc EXCEPT ![h] = "done"]
      /\ disk' = disk /\ wire' = wire /\ request' = request /\ nread' = nread
  BY DEF TypeInv, TypeOK, ServerTypeOK, CloseClient, At, Goto, sockVars
<1>1. Thread(h) /\ ~SigPipe(h)
  BY <1>0 DEF Thread, SigPipe
<1>2. /\ [f \in SoundFiles |-> Lines(f)]'
           = [[f \in SoundFiles |-> Lines(f)] EXCEPT ![Path(h)] = Lines(Path(h))']
      /\ [k \in SoundConns |-> Response(k)]'
           = [[k \in SoundConns |-> Response(k)] EXCEPT ![h] = Response(h)']
  BY <1>1, StoreChange
<1>3. Lines(Path(h))' = Lines(Path(h)) /\ Response(h)' = Response(h)
  BY <1>0, <1>1, QuietSteps
<1>4. Path(h) \in SoundFiles /\ SoundConns' = SoundConns
  BY ConstantTypes DEF Path, SoundFiles, SoundConns
<1>5. /\ [f \in SoundFiles |-> Lines(f)]' = [f \in SoundFiles |-> Lines(f)]
      /\ [k \in SoundConns |-> Response(k)]' = [k \in SoundConns |-> Response(k)]
  BY <1>2, <1>3, <1>4
<1>6. [k \in SoundConns |-> pc[k] # "done"]'
        = [[k \in SoundConns |-> pc[k] # "done"] EXCEPT ![h] = FALSE]
  BY <1>0, <1>4 DEF SoundConns
<1>7. request[h] => Response(h) # <<>>
  <2>1. wire[h] # <<>> \/ ~request[h]
    BY <1>0 DEF ReplyInv
  <2>2. Response(h) = wire[h]
    BY <1>0 DEF Response
  <2> QED
    BY <2>1, <2>2
<1>8. /\ [k \in SoundConns |-> request[k]]' = [k \in SoundConns |-> request[k]]
      /\ [k \in SoundConns |-> nread[k]]' = [k \in SoundConns |-> nread[k]]
  BY <1>0, <1>4
<1> QED
  BY <1>0, <1>5, <1>6, <1>7, <1>8 DEF Store!Close, Store!Pending

\* accept() starts a thread, or fails to and closes the connection.
LEMMA AcceptStore ==
  ASSUME TypeInv, QueueInv, Accept
  PROVE  Store!Next \/ UNCHANGED Store!vars
<1>0. /\ pc \in [Conns -> Labels] /\ queue \in Seq(Conns) /\ queue # <<>>
      /\ disk' = disk /\ wire' = wire /\ request' = request /\ nread' = nread /\ up' = up
  BY DEF TypeInv, TypeOK, ServerTypeOK, Accept, sockVars
<1>1. PICK h \in Conns : h = Head(queue) /\ pc[h] = "none"
  <2>1. 1 \in 1..Len(queue) /\ Head(queue) = queue[1]
    BY <1>0, EmptySeq, LenProperties, HeadTailProperties
  <2> QED
    BY <1>0, <2>1, ElementOfSeq DEF QueueInv
<1>2. \/ pc' = [pc EXCEPT ![h] = "read"]
      \/ "thread_fails" \in Faults /\ pc' = [pc EXCEPT ![h] = "done"]
  BY <1>1 DEF Accept
<1>3. CASE pc' = [pc EXCEPT ![h] = "read"]
  <2>1. \A k \in Conns : pc'[k] = pc[k] \/ {pc[k], pc'[k]} \subseteq {"none", "read"}
    BY <1>0, <1>1, <1>3
  <2> QED
    BY <1>0, <2>1, StoreAlone
<1>4. CASE "thread_fails" \in Faults /\ pc' = [pc EXCEPT ![h] = "done"]
  <2>1. \A k \in Conns : Response(k)' = Response(k) /\ At(k, "nl")' = At(k, "nl")
    <3> SUFFICES ASSUME NEW k \in Conns
                 PROVE  Response(k)' = Response(k) /\ At(k, "nl")' = At(k, "nl")
      OBVIOUS
    <3>1. CASE k # h
      BY <1>0, <1>4, <3>1 DEF Response, At, Path
    <3>2. CASE k = h
      BY <1>0, <1>1, <1>4, <3>2 DEF Response, At
    <3> QED
      BY <3>1, <3>2
  <2>2. ASSUME NEW f \in Files PROVE Lines(f)' = Lines(f)
    <3>1. AtEnd(f)' = AtEnd(f)
      BY <2>1 DEF AtEnd, Path
    <3>2. Lines(f) = (IF AtEnd(f) THEN SubSeq(disk[f], 1, Len(disk[f]) - 1) ELSE disk[f])
      BY DEF Lines, AtEnd
    <3>3. Lines(f)' = (IF AtEnd(f)' THEN SubSeq(disk'[f], 1, Len(disk'[f]) - 1) ELSE disk'[f])
      BY DEF Lines, AtEnd
    <3> QED
      BY <1>0, <3>1, <3>2, <3>3
  <2>3. SoundFiles' = SoundFiles /\ SoundConns' = SoundConns
    BY DEF SoundFiles, SoundConns, Path
  <2>4. /\ [f \in SoundFiles |-> Lines(f)]' = [f \in SoundFiles |-> Lines(f)]
        /\ [k \in SoundConns |-> Response(k)]' = [k \in SoundConns |-> Response(k)]
        /\ [k \in SoundConns |-> request[k]]' = [k \in SoundConns |-> request[k]]
        /\ [k \in SoundConns |-> nread[k]]' = [k \in SoundConns |-> nread[k]]
    BY <1>0, <2>1, <2>2, <2>3 DEF SoundFiles, SoundConns
  <2>5. CASE h \in SoundConns
    <3>1. [k \in SoundConns |-> pc[k] # "done"]'
            = [[k \in SoundConns |-> pc[k] # "done"] EXCEPT ![h] = FALSE]
      BY <1>0, <1>4, <2>3 DEF SoundConns
    <3>2. Store!Close(h)
      BY <1>1, <1>4, <2>4, <2>5, <3>1 DEF Store!Close
    <3> QED
      BY <2>5, <3>2 DEF Store!Next
  <2>6. CASE h \notin SoundConns
    <3>1. [k \in SoundConns |-> pc[k] # "done"]' = [k \in SoundConns |-> pc[k] # "done"]
      BY <1>0, <1>4, <2>3, <2>6 DEF SoundConns
    <3> QED
      BY <2>4, <3>1 DEF Store!vars
  <2> QED
    BY <2>5, <2>6
<1> QED
  BY <1>2, <1>3, <1>4

\* The end of the server shows the half of an append, and cuts the responses.
LEMMA CrashStore ==
  ASSUME TypeInv, QueueInv, LockInv, CreateInv, AllKeptInv, CopyInv, AskInv, SentInv, Ample,
         MAX_DEATHS > 0 \/ Mortal # {} \/ Marked # {}, Die
  PROVE  Store!Crash
<1>0. /\ pc \in [Conns -> Labels] /\ disk \in [Files -> Seq(Token) \union {Absent}]
      /\ disk' = disk /\ wire' = wire /\ request' = request /\ nread' = nread
      /\ \A k \in Conns : /\ pc'[k] \in {"none", "done"}
                          /\ pc'[k] = "none" => pc[k] = "none" /\ ~Waiting(k)
                          /\ Path(k) \in Files /\ Cmd[k].data \in Token
      /\ SoundFiles \subseteq Files /\ SoundConns \subseteq Conns
      /\ SoundFiles' = SoundFiles /\ SoundConns' = SoundConns
      /\ Absent \notin Seq(Token)
  BY ConstantTypes, ServerAssumption
     DEF ServerAssumption, TypeInv, TypeOK, ServerTypeOK, Die, Waiting, sockVars, Path,
         SoundFiles, SoundConns
<1>1. ASSUME NEW f \in SoundFiles
      PROVE  \/ Lines(f)' = Lines(f)
             \/ \E k \in SoundConns :
                  /\ pc[k] # "done" /\ request[k] /\ Response(k) = <<>>
                  /\ Cmd[k].op = "APPEND" /\ Cmd[k].file = f
                  /\ Lines(f) # Absent /\ Lines(f)' = Append(Lines(f), Cmd[k].data)
  <2>1. Lines(f)' = disk[f]
    <3>1. \A k \in Conns : ~At(k, "nl")'
      BY <1>0 DEF At
    <3> QED
      BY <1>0, <3>1 DEF Lines, Path
  <2>2. CASE AtEnd(f)
    <3>1. PICK k \in Conns : k \in SoundConns /\ At(k, "nl") /\ Path(k) = f
      BY <2>2 DEF AtEnd, SoundFiles, SoundConns
    <3>2. /\ pc[k] = "nl" /\ request[k] /\ Cmd[k].op = "APPEND" /\ Cmd[k].file = f
          /\ Response(k) = <<>>
      BY <3>1, Undecided DEF At, AskInv, Busy, CreateInv, OpInv, Path
    <3>3. disk[f] # <<>> /\ disk[f][Len(disk[f])] = Cmd[k].data
      BY <3>1 DEF AllKeptInv, KeptInv, Ample, SoundFiles
    <3>4. disk[f] \in Seq(Token)
      BY <1>0, <3>2, <3>1 DEF TypeInv, OpenInv
    <3>5. Lines(f) = SubSeq(disk[f], 1, Len(disk[f]) - 1)
      BY <2>2 DEF Lines, AtEnd
    <3>6. Lines(f) \in Seq(Token) /\ disk[f] = Append(Lines(f), Cmd[k].data)
      BY <3>3, <3>4, <3>5, FrontAndLast
    <3> QED
      BY <1>0, <2>1, <3>1, <3>2, <3>6
  <2>3. CASE ~AtEnd(f)
    BY <2>1, <2>3 DEF Lines, AtEnd
  <2> QED
    BY <2>2, <2>3
<1>2. ASSUME NEW k \in Conns
      PROVE  IF pc[k] # "done"
               THEN \E n \in nread[k]..Len(Response(k)) :
                      Response(k)' = SubSeq(Response(k), 1, n)
               ELSE Response(k)' = Response(k)
  <2>1. Response(k)' = wire[k]
    BY <1>0 DEF Response
  <2>2. CASE pc[k] = "done"
    BY <2>1, <2>2 DEF Response
  <2>3. /\ nread[k] \in Nat /\ nread[k] <= Len(wire[k])
        /\ Len(wire[k]) \in Nat /\ Len(Response(k)) \in Nat
        /\ Len(wire[k]) <= Len(Response(k))
        /\ SubSeq(Response(k), 1, Len(wire[k])) = wire[k]
    BY WirePart DEF CreateInv, ReadInv, TypeInv, TypeOK, ServerTypeOK
  <2>4. Len(wire[k]) \in nread[k]..Len(Response(k))
    BY <2>3
  <2> QED
    BY <2>1, <2>2, <2>3, <2>4
<1>3. /\ \A k \in Conns : pc'[k] # "done" => pc[k] # "done" /\ ~request[k]
  <2> SUFFICES ASSUME NEW k \in Conns, pc'[k] # "done"
               PROVE  pc[k] # "done" /\ ~request[k]
    OBVIOUS
  <2>1. pc[k] = "none" /\ ~Waiting(k)
    BY <1>0
  <2> QED
    BY <2>1 DEF SentInv, Sent
<1> DEFINE store == [f \in SoundFiles |-> Lines(f)]
           result == [k \in SoundConns |-> Response(k)]
           open == [k \in SoundConns |-> pc[k] # "done"]
           asked == [k \in SoundConns |-> request[k]]
           seen == [k \in SoundConns |-> nread[k]]
<1>4. /\ \A f \in SoundFiles : store[f] = Lines(f) /\ store'[f] = Lines(f)'
      /\ \A k \in SoundConns : /\ result[k] = Response(k) /\ result'[k] = Response(k)'
                               /\ open[k] <=> pc[k] # "done"
                               /\ open'[k] <=> pc'[k] # "done"
                               /\ asked[k] = request[k] /\ seen[k] = nread[k]
      /\ store' = [f \in SoundFiles |-> store'[f]]
      /\ result' = [k \in SoundConns |-> result'[k]]
      /\ open' = [k \in SoundConns |-> open'[k]]
      /\ asked' = asked /\ seen' = seen
  BY <1>0
<1>5. \A k \in SoundConns : open'[k] => open[k] /\ ~asked[k]
  BY <1>0, <1>3, <1>4
<1> HIDE DEF store, result, open, asked, seen
<1>6. \A f \in SoundFiles : Store!Torn(f)
  <2> SUFFICES ASSUME NEW f \in SoundFiles PROVE Store!Torn(f)
    OBVIOUS
  <2> QED
    BY <1>1, <1>4 DEF Store!Torn, Store!Pending, store, result, open, asked
<1>7. \A k \in SoundConns : Store!Cut(k)
  <2> SUFFICES ASSUME NEW k \in SoundConns PROVE Store!Cut(k)
    OBVIOUS
  <2> QED
    BY <1>0, <1>2, <1>4 DEF Store!Cut, result, open, seen
<1> QED
  BY <1>4, <1>5, <1>6, <1>7 DEF Store!Crash, store, result, open, asked, seen

LEMMA InitStore == Init => Store!Init
<1> SUFFICES ASSUME Init PROVE Store!Init
  OBVIOUS
<1>1. ASSUME NEW f \in Files PROVE Lines(f) = disk[f]
  BY DEF Init, ServerInit, Lines, At
<1>2. ASSUME NEW k \in Conns PROVE Response(k) = <<>>
  BY DEF Init, ServerInit, Response
<1>3. SoundFiles \subseteq Files /\ SoundConns \subseteq Conns
  BY DEF SoundFiles, SoundConns
<1> QED
  BY <1>1, <1>2, <1>3 DEF Init, ServerInit, Store!Init

AllInv ==
  /\ TypeInv /\ QueueInv /\ LockInv /\ CreateInv /\ AllKeptInv /\ CopyInv /\ SurviveInv
  /\ AskInv /\ NamedInv /\ SentInv /\ HungInv /\ ReplyInv

LEMMA NextStore == Ample /\ AllInv /\ [Next]_vars => [Store!Next]_(Store!vars)
<1> SUFFICES ASSUME Ample, AllInv, [Next]_vars
             PROVE  Store!Next \/ UNCHANGED Store!vars
  OBVIOUS
<1> USE DEF AllInv
<1>0. MAX_DEATHS \in Nat /\ deaths \in Nat
  BY ServerAssumption DEF ServerAssumption, TypeInv, TypeOK, ServerTypeOK
<1>1. ASSUME NEW h \in Conns, Thread(h)
      PROVE  Store!Next \/ UNCHANGED Store!vars
  <2>1. CASE SigPipe(h)
    <3>1. ~Peaceful
      BY <2>1 DEF SigPipe, SurviveInv, Over
    <3>2. MAX_DEATHS > 0 \/ Mortal # {} \/ Marked # {}
      BY <1>0, <3>1 DEF Peaceful
    <3>3. Store!Crash
      BY <2>1, <3>2, CrashStore DEF SigPipe
    <3> QED
      BY <3>3 DEF Store!Next
  <2>2. CASE CloseClient(h) /\ h \in SoundConns
    BY <2>2, CloseStore DEF Store!Next
  <2>3. CASE ~SigPipe(h) /\ ~CloseClient(h) /\ h \in SoundConns
    BY <1>1, <2>3, ThreadStore DEF Store!Next
  <2>4. CASE ~SigPipe(h) /\ h \notin SoundConns
    BY <1>1, <2>4, FullStore
  <2> QED
    BY <2>1, <2>2, <2>3, <2>4
<1>2. CASE Accept
  BY <1>2, AcceptStore
<1>3. CASE Kill \/ AcceptFails
  <2>1. Die /\ MAX_DEATHS > 0
    BY <1>0, <1>3 DEF Kill, AcceptFails
  <2>2. Store!Crash
    BY <2>1, CrashStore
  <2> QED
    BY <2>2 DEF Store!Next
<1>4. CASE Boot
  <2>1. \A k \in Conns : pc[k] # "nl"
    BY <1>4 DEF Boot, LockInv, OwnInv
  <2> QED
    BY <1>4, <2>1, StoreAlone DEF Boot, sockVars, threadVars
<1>5. ASSUME NEW c \in Clients, Client(c) \/ Interrupt(c)
      PROVE  Store!Next \/ UNCHANGED Store!vars
  BY <1>5, ClientStore
<1>6. CASE UNCHANGED vars
  BY <1>6, StoreAlone DEF vars, serverVars, procVars, threadVars, sockVars
<1> QED
  BY <1>1, <1>2, <1>3, <1>4, <1>5, <1>6 DEF Next, Idle, ServerNext

\* While the paths fit, on the files whose write()s succeed the threads, locks
\* and partial writes implement one store on which every command takes effect at once, or
\* never: however often the server is killed or ended by SIGPIPE and started
\* again, whatever threads and open()s fail and clients are interrupted.
THEOREM StoreCorrect == ASSUME Ample PROVE Spec => Durable
<1>1. AllInv /\ [Next]_vars => [Store!Next]_(Store!vars)
  BY NextStore
<1>2. Spec => []AllInv
  BY InitTypeInv, InitQueueInv, InitLockInv, InitCreateInv, InitKeptInv, InitCopyInv,
     InitSurviveInv, InitAskInv, InitReplyInv, NextTypeInv, NextQueueInv, NextLockInv,
     NextCreateInv, NextKeptInv, NextCopyInv, NextSurviveInv, NextAskInv, NextNamedInv,
     NextSentInv, NextHungInv, NextReplyInv, PTL
     DEF Spec, AllInv
<1> QED
  BY <1>1, <1>2, InitStore, PTL DEF Spec, Durable, Store!Spec
==============================================================================
