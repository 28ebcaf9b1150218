-------------------------- MODULE FileServiceProofs --------------------------
(***************************************************************************)
(* What holds of FileService for every number of clients, commands, files  *)
(* and table entries.                                                      *)
(***************************************************************************)
EXTENDS FileService, SequenceTheorems, TLAPS

-----------------------------------------------------------------------------
(* Types. Two facts are needed beside TypeOK: a thread that reads or writes *)
(* its file has found it, and files are never removed; and a client is at a *)
(* command it has.                                                          *)

OpenInv ==
  \A k \in Conns : pc[k] \in {"block", "data", "nl"} => disk[Path(k)] # Absent

ConnInv == \A c \in Clients : Conn(c) \in Conns

TypeInv == TypeOK /\ OpenInv /\ ConnInv

LEMMA ConstantTypes ==
  /\ \A k \in Conns : Path(k) \in Files /\ Cmd[k].data \in Token
  /\ \A k \in Conns : Stored[Path(k)] \in Names
  /\ {NL, "OK", "ERROR", "EOF"} \subseteq Token
  /\ BLOCK \in Nat \ {0}
<1>1. \A k \in Conns : Path(k) \in Files /\ Cmd[k].data \in Data
  BY ServerAssumption DEF ServerAssumption, Path, Command
<1> QED
  BY <1>1, ServerAssumption DEF ServerAssumption, Names, Token

LEMMA InitTypeInv == Init => TypeInv
<1> SUFFICES ASSUME Init PROVE TypeInv
  OBVIOUS
<1> USE DEF Init, ServerInit
<1>1. TypeOK
  BY ConstantTypes DEF Names, TypeOK, ServerTypeOK, Labels, ClientLabels
<1>2. OpenInv
  BY DEF OpenInv
<1>3. ConnInv
  BY ClientAssumption DEF ClientAssumption, ConnInv, Conn
<1> QED
  BY <1>1, <1>2, <1>3 DEF TypeInv

\* Steps of a thread that touch neither files nor sockets.
LEMMA TypeLocal ==
  ASSUME TypeInv, NEW k \in Conns,
         \/ GererClient(k) \/ LockTable(k) \/ SearchTable(k) \/ InsertEntry(k)
         \/ LockFile(k) \/ UnlockFile(k) \/ CloseClient(k) \/ OpOpen(k),
         UNCHANGED clientVars
  PROVE  TypeInv'
<1>0. /\ file_locks \in [Slots -> Names]
      /\ table_mutex \in Conns \union {NoThread}
      /\ lock \in [Slots -> Conns \union {NoThread}]
      /\ pc \in [Conns -> Labels]
      /\ slot \in [Conns -> Slots \union {0}]
      /\ off \in [Conns -> Nat]
  BY DEF TypeInv, TypeOK, ServerTypeOK
<1>1. CASE GererClient(k)
  <2>1. pc' \in [Conns -> Labels]
    BY <1>0, <1>1, ConstantTypes DEF GererClient, At, Goto, Labels
  <2>2. UNCHANGED <<up, deaths, queue, file_locks, table_mutex, lock, disk, slot, off, request, wire, nread, hung>>
    BY <1>1 DEF GererClient, procVars, tableVars, sockVars
  <2>3. OpenInv'
    BY <1>1, <1>0, <2>2 DEF GererClient, TypeInv, OpenInv, At, Goto, Exists, Path
  <2> QED
    BY <2>1, <2>2, <2>3 DEF TypeInv, TypeOK, ServerTypeOK, ConnInv, Conn, clientVars
<1>2. CASE LockTable(k)
  <2>1. table_mutex' \in Conns \union {NoThread}
    BY <1>0, <1>2, ConstantTypes DEF LockTable, At, Goto
  <2>2. pc' \in [Conns -> Labels]
    BY <1>0, <1>2, ConstantTypes DEF LockTable, At, Goto, Labels
  <2>3. UNCHANGED <<up, deaths, queue, file_locks, lock, disk, slot, off, request, wire, nread, hung>>
    BY <1>2 DEF LockTable, procVars, tableVars, sockVars
  <2>4. OpenInv'
    BY <1>2, <1>0, <2>3 DEF LockTable, TypeInv, OpenInv, At, Goto, Exists, Path
  <2> QED
    BY <2>1, <2>2, <2>3, <2>4 DEF TypeInv, TypeOK, ServerTypeOK, ConnInv, Conn, clientVars
<1>3. CASE SearchTable(k)
  <2>1. table_mutex' \in Conns \union {NoThread}
    BY <1>0, <1>3, ConstantTypes DEF SearchTable, At, Goto
  <2>2. slot' \in [Conns -> Slots \union {0}]
    BY <1>0, <1>3, ConstantTypes DEF SearchTable, At, Goto
  <2>3. pc' \in [Conns -> Labels]
    BY <1>0, <1>3, ConstantTypes DEF SearchTable, At, Goto, Labels
  <2>4. UNCHANGED <<up, deaths, queue, file_locks, lock, disk, off, request, wire, nread, hung>>
    BY <1>3 DEF SearchTable, procVars, tableVars, sockVars
  <2>5. OpenInv'
    BY <1>3, <1>0, <2>4 DEF SearchTable, TypeInv, OpenInv, At, Goto, Exists, Path
  <2> QED
    BY <2>1, <2>2, <2>3, <2>4, <2>5 DEF TypeInv, TypeOK, ServerTypeOK, ConnInv, Conn, clientVars
<1>4. CASE InsertEntry(k)
  <2>1. file_locks' \in [Slots -> Names]
    BY <1>0, <1>4, ConstantTypes DEF InsertEntry, At, Goto
  <2>2. table_mutex' \in Conns \union {NoThread}
    BY <1>0, <1>4, ConstantTypes DEF InsertEntry, At, Goto
  <2>3. slot' \in [Conns -> Slots \union {0}]
    BY <1>0, <1>4, ConstantTypes DEF InsertEntry, At, Goto
  <2>4. pc' \in [Conns -> Labels]
    BY <1>0, <1>4, ConstantTypes DEF InsertEntry, At, Goto, Labels
  <2>5. UNCHANGED <<up, deaths, queue, lock, disk, off, request, wire, nread, hung>>
    BY <1>4 DEF InsertEntry, procVars, tableVars, sockVars
  <2>6. OpenInv'
    BY <1>4, <1>0, <2>5 DEF InsertEntry, TypeInv, OpenInv, At, Goto, Exists, Path
  <2> QED
    BY <2>1, <2>2, <2>3, <2>4, <2>5, <2>6 DEF TypeInv, TypeOK, ServerTypeOK, ConnInv, Conn, clientVars
<1>5. CASE LockFile(k)
  <2>1. lock' \in [Slots -> Conns \union {NoThread}]
    BY <1>0, <1>5, ConstantTypes DEF LockFile, At, Goto
  <2>2. pc' \in [Conns -> Labels]
    BY <1>0, <1>5, ConstantTypes DEF LockFile, At, Goto, Labels
  <2>3. UNCHANGED <<up, deaths, queue, file_locks, table_mutex, disk, slot, off, request, wire, nread, hung>>
    BY <1>5 DEF LockFile, procVars, tableVars, sockVars
  <2>4. OpenInv'
    BY <1>5, <1>0, <2>3 DEF LockFile, TypeInv, OpenInv, At, Goto, Exists, Path
  <2> QED
    BY <2>1, <2>2, <2>3, <2>4 DEF TypeInv, TypeOK, ServerTypeOK, ConnInv, Conn, clientVars
<1>6. CASE UnlockFile(k)
  <2>1. lock' \in [Slots -> Conns \union {NoThread}]
    BY <1>0, <1>6, ConstantTypes DEF UnlockFile, At, Goto
  <2>2. pc' \in [Conns -> Labels]
    BY <1>0, <1>6, ConstantTypes DEF UnlockFile, At, Goto, Labels
  <2>3. UNCHANGED <<up, deaths, queue, file_locks, table_mutex, disk, slot, off, request, wire, nread, hung>>
    BY <1>6 DEF UnlockFile, procVars, tableVars, sockVars
  <2>4. OpenInv'
    BY <1>6, <1>0, <2>3 DEF UnlockFile, TypeInv, OpenInv, At, Goto, Exists, Path
  <2> QED
    BY <2>1, <2>2, <2>3, <2>4 DEF TypeInv, TypeOK, ServerTypeOK, ConnInv, Conn, clientVars
<1>7. CASE CloseClient(k)
  <2>1. pc' \in [Conns -> Labels]
    BY <1>0, <1>7, ConstantTypes DEF CloseClient, At, Goto, Labels
  <2>2. UNCHANGED <<up, deaths, queue, file_locks, table_mutex, lock, disk, slot, off, request, wire, nread, hung>>
    BY <1>7 DEF CloseClient, procVars, tableVars, sockVars
  <2>3. OpenInv'
    BY <1>7, <1>0, <2>2 DEF CloseClient, TypeInv, OpenInv, At, Goto, Exists, Path
  <2> QED
    BY <2>1, <2>2, <2>3 DEF TypeInv, TypeOK, ServerTypeOK, ConnInv, Conn, clientVars
<1>8. CASE OpOpen(k)
  <2>1. off' \in [Conns -> Nat]
    BY <1>0, <1>8, ConstantTypes DEF OpOpen, At, Goto
  <2>2. pc' \in [Conns -> Labels]
    BY <1>0, <1>8, ConstantTypes DEF OpOpen, At, Goto, Labels
  <2>3. UNCHANGED <<up, deaths, queue, file_locks, table_mutex, lock, disk, slot, request, wire, nread, hung>>
    BY <1>8 DEF OpOpen, procVars, tableVars, sockVars
  <2>4. OpenInv'
    BY <1>8, <1>0, <2>3 DEF OpOpen, TypeInv, OpenInv, At, Goto, Exists, Path
  <2> QED
    BY <2>1, <2>2, <2>3, <2>4 DEF TypeInv, TypeOK, ServerTypeOK, ConnInv, Conn, clientVars
<1> QED
  BY <1>1, <1>2, <1>3, <1>4, <1>5, <1>6, <1>7, <1>8

\* Steps of a thread that change a file.
LEMMA TypeDisk ==
  ASSUME TypeInv, NEW k \in Conns,
         OpCreate(k) \/ OpAppendData(k) \/ OpAppendNewline(k),
         UNCHANGED clientVars
  PROVE  TypeInv'
<1>0. /\ disk \in [Files -> Seq(Token) \union {Absent}]
      /\ pc \in [Conns -> Labels]
      /\ Path(k) \in Files
  BY ConstantTypes DEF TypeInv, TypeOK, ServerTypeOK
<1>1. Absent \notin Seq(Token) /\ <<>> \in Seq(Token)
  BY ServerAssumption DEF ServerAssumption
<1>2. ASSUME NEW token \in Token, AppendToken(k, token), disk[Path(k)] # Absent
      PROVE  /\ disk' \in [Files -> Seq(Token) \union {Absent}]
             /\ \A f \in Files : disk[f] # Absent => disk'[f] # Absent
  <2>1. disk[Path(k)] \in Seq(Token)
    BY <1>0, <1>2
  <2>2. Append(disk[Path(k)], token) \in Seq(Token)
    BY <1>2, <2>1, AppendProperties
  <2> QED
    BY <1>0, <1>1, <1>2, <2>2 DEF AppendToken
<1>3. /\ disk' \in [Files -> Seq(Token) \union {Absent}]
      /\ \A f \in Files : disk[f] # Absent => disk'[f] # Absent
  <2>1. CASE OpCreate(k)
    BY <2>1, <1>0, <1>1 DEF OpCreate, Exists
  <2>2. CASE OpAppendData(k)
    BY <2>2, <1>2, ConstantTypes DEF OpAppendData, TypeInv, OpenInv, At
  <2>3. CASE OpAppendNewline(k)
    BY <2>3, <1>2, ConstantTypes DEF OpAppendNewline, TypeInv, OpenInv, At
  <2> QED
    BY <2>1, <2>2, <2>3
<1>4. pc' \in [Conns -> Labels]
  BY <1>0 DEF OpCreate, OpAppendData, OpAppendNewline, Goto, Labels
<1>5. UNCHANGED <<procVars, tableVars, slot, off, sockVars>>
  BY DEF OpCreate, OpAppendData, OpAppendNewline
<1>6. OpenInv'
  <2> SUFFICES ASSUME NEW j \in Conns, pc'[j] \in {"block", "data", "nl"}
               PROVE  disk'[Path(j)] # Absent
    BY DEF OpenInv, Path
  <2>1. pc[j] \in {"block", "data", "nl"}
    BY <1>0 DEF OpCreate, OpAppendData, OpAppendNewline, At, Goto
  <2> QED
    BY <2>1, <1>3, ConstantTypes DEF TypeInv, OpenInv
<1> QED
  BY <1>3, <1>4, <1>5, <1>6 DEF TypeInv, TypeOK, ServerTypeOK, ConnInv, Conn,
     procVars, tableVars, sockVars, clientVars

\* Steps of a thread that write to its client.
LEMMA TypeWrite ==
  ASSUME TypeInv, NEW k \in Conns,
         OpReadBlock(k) \/ OpReadEnd(k) \/ SendOk(k) \/ SendError(k),
         UNCHANGED clientVars
  PROVE  TypeInv'
<1>0. /\ wire \in [Conns -> Seq(Token)]
      /\ off \in [Conns -> Nat]
      /\ pc \in [Conns -> Labels]
      /\ disk \in [Files -> Seq(Token) \union {Absent}]
  BY DEF TypeInv, TypeOK, ServerTypeOK
<1>1. ASSUME NEW tokens \in Seq(Token), WriteClient(k, tokens)
      PROVE  wire' \in [Conns -> Seq(Token)]
  <2>1. wire[k] \o tokens \in Seq(Token)
    BY <1>0, <1>1, ConcatProperties
  <2> QED
    BY <1>0, <1>1, <2>1 DEF WriteClient
<1>2. /\ wire' \in [Conns -> Seq(Token)]
      /\ off' \in [Conns -> Nat]
  <2>1. CASE OpReadBlock(k)
    <3> DEFINE text == disk[Path(k)]
               rest == Len(text) - off[k]
               n == IF rest < BLOCK THEN rest ELSE BLOCK
    <3>1. text \in Seq(Token)
      BY <2>1, <1>0, ConstantTypes DEF OpReadBlock, TypeInv, OpenInv, At
    <3>2. rest \in Int /\ rest > 0 /\ BLOCK \in Nat \ {0}
      BY <2>1, <1>0, <3>1, LenProperties, ConstantTypes DEF OpReadBlock
    <3>3. n \in Nat /\ off[k] + n \in Nat /\ off[k] + n <= Len(text)
      BY <3>1, <3>2, <1>0, LenProperties
    <3>4. \A p \in (off[k] + 1)..(off[k] + n) : text[p] \in Token
      BY <3>1, <3>3, <1>0, ElementOfSeq, LenProperties
    <3>5. SubSeq(text, off[k] + 1, off[k] + n) \in Seq(Token)
      <4> HIDE DEF n, rest, text
      <4>1. off[k] + 1 \in Int /\ off[k] + n \in Int
        BY <1>0, <3>3
      <4> QED
        BY <4>1, <3>4, SubSeqProperties
    <3>6. WriteClient(k, SubSeq(text, off[k] + 1, off[k] + n)) /\ off' = [off EXCEPT ![k] = @ + n]
      BY <2>1 DEF OpReadBlock
    <3> QED
      <4> HIDE DEF n, rest, text
      <4> QED BY <3>3, <3>5, <3>6, <1>0, <1>1
  <2>2. CASE OpReadEnd(k)
    <3>1. <<"EOF">> \in Seq(Token)
      BY ConstantTypes
    <3> QED
      BY <2>2, <3>1, <1>0, <1>1 DEF OpReadEnd
  <2>3. CASE SendOk(k)
    <3>1. <<"OK">> \in Seq(Token)
      BY ConstantTypes
    <3> QED
      BY <2>3, <3>1, <1>0, <1>1 DEF SendOk
  <2>4. CASE SendError(k)
    <3>1. <<"ERROR">> \in Seq(Token)
      BY ConstantTypes
    <3> QED
      BY <2>4, <3>1, <1>0, <1>1 DEF SendError
  <2> QED
    BY <2>1, <2>2, <2>3, <2>4
<1>3. pc' \in [Conns -> Labels]
  BY <1>0 DEF OpReadBlock, OpReadEnd, SendOk, SendError, Goto, Labels
<1>4. UNCHANGED <<procVars, tableVars, disk, slot, request, nread, hung>>
  BY DEF OpReadBlock, OpReadEnd, SendOk, SendError, WriteClient
<1>5. OpenInv'
  BY <1>0, <1>4 DEF OpReadBlock, OpReadEnd, SendOk, SendError, Goto, TypeInv,
     OpenInv, Path
<1> QED
  BY <1>2, <1>3, <1>4, <1>5 DEF TypeInv, TypeOK, ServerTypeOK, ConnInv, Conn,
     procVars, tableVars, clientVars

\* Steps of the process: accept(), its end and its start.
LEMMA TypeProcess ==
  ASSUME TypeInv, UNCHANGED clientVars,
         Accept \/ AcceptFails \/ Kill \/ Boot \/ \E k \in Conns : SigPipe(k)
  PROVE  TypeInv'
<1>0. /\ queue \in Seq(Conns)
      /\ pc \in [Conns -> Labels]
      /\ deaths \in Nat
      /\ <<>> \in Seq(Conns)
  BY ConstantTypes DEF TypeInv, TypeOK, ServerTypeOK
<1>1. CASE Accept
  <2>1. Head(queue) \in Conns /\ queue' \in Seq(Conns)
    BY <1>0, <1>1, HeadTailProperties DEF Accept
  <2>2. pc' \in [Conns -> Labels]
    BY <1>0, <1>1, <2>1 DEF Accept, Labels
  <2>3. UNCHANGED <<up, deaths, tableVars, disk, slot, off, sockVars>>
    BY <1>1 DEF Accept
  <2>4. OpenInv'
    BY <1>0, <1>1, <2>3 DEF Accept, TypeInv, OpenInv, Path
  <2> QED
    BY <2>1, <2>2, <2>3, <2>4 DEF TypeInv, TypeOK, ServerTypeOK, ConnInv, Conn,
       tableVars, sockVars, clientVars
<1>2. CASE Kill \/ AcceptFails \/ \E k \in Conns : SigPipe(k)
  <2>1. Die /\ deaths' \in Nat
    BY <1>0, <1>2 DEF Kill, AcceptFails, SigPipe, Die
  <2>2. /\ up' \in BOOLEAN /\ queue' \in Seq(Conns)
        /\ pc' \in [Conns -> Labels]
        /\ \A k \in Conns : pc'[k] \in {"none", "done"}
    BY <1>0, <2>1 DEF Die, Labels
  <2>3. UNCHANGED <<tableVars, disk, slot, off, sockVars>>
    BY <2>1 DEF Die
  <2>4. OpenInv'
    BY <2>2 DEF OpenInv
  <2> QED
    BY <2>1, <2>2, <2>3, <2>4 DEF TypeInv, TypeOK, ServerTypeOK, ConnInv, Conn,
       tableVars, sockVars, clientVars
<1>3. CASE Boot
  <2>1. /\ up' \in BOOLEAN /\ queue' \in Seq(Conns)
        /\ file_locks' \in [Slots -> Names]
        /\ table_mutex' \in Conns \union {NoThread}
        /\ lock' \in [Slots -> Conns \union {NoThread}]
    BY <1>0, <1>3 DEF Boot, Names
  <2>2. UNCHANGED <<deaths, disk, threadVars, sockVars>>
    BY <1>3 DEF Boot
  <2> QED
    BY <2>1, <2>2 DEF TypeInv, TypeOK, ServerTypeOK, ConnInv, Conn, OpenInv, Path,
       threadVars, sockVars, clientVars
<1> QED
  BY <1>1, <1>2, <1>3

\* Steps of a client.
LEMMA TypeClient ==
  ASSUME TypeInv, NEW c \in Clients, Client(c) \/ Interrupt(c)
  PROVE  TypeInv'
<1>0. /\ queue \in Seq(Conns)
      /\ cpc \in [Clients -> ClientLabels]
      /\ idx \in [Clients -> Nat \ {0}]
      /\ nread \in [Conns -> Nat]
      /\ hung \in [Conns -> BOOLEAN]
      /\ request \in [Conns -> BOOLEAN]
      /\ \A d \in Clients : Conn(d) \in Conns
  BY DEF TypeInv, TypeOK, ServerTypeOK, ConnInv
<1>1. ASSUME Finish(c) \/ UNCHANGED <<hung, clientVars>>
      PROVE  /\ hung' \in [Conns -> BOOLEAN]
             /\ cpc' \in [Clients -> ClientLabels]
             /\ idx' \in [Clients -> Nat \ {0}]
             /\ ConnInv'
  <2>1. CASE Finish(c)
    <3>1. hung' \in [Conns -> BOOLEAN] /\ cpc' \in [Clients -> ClientLabels]
      BY <1>0, <2>1 DEF Finish, ClientGoto, ClientLabels
    <3>2. idx' \in [Clients -> Nat \ {0}]
      BY <1>0, <2>1 DEF Finish
    <3>3. \A d \in Clients : idx'[d] = idx[d] \/ (d = c /\ <<d, idx'[d]>> \in Conns)
      BY <1>0, <2>1 DEF Finish
    <3> QED
      BY <1>0, <3>1, <3>2, <3>3 DEF Conn, ConnInv
  <2>2. CASE UNCHANGED <<hung, clientVars>>
    BY <1>0, <2>2 DEF Conn, ConnInv, clientVars
  <2> QED
    BY <1>1, <2>1, <2>2
<1> DEFINE Rest == UNCHANGED <<up, deaths, tableVars, disk, threadVars, wire>>
           Changed == /\ queue' \in Seq(Conns)
                      /\ request' \in [Conns -> BOOLEAN]
                      /\ nread' \in [Conns -> Nat]
                      /\ hung' \in [Conns -> BOOLEAN]
                      /\ cpc' \in [Clients -> ClientLabels]
                      /\ idx' \in [Clients -> Nat \ {0}]
                      /\ ConnInv'
<1> SUFFICES Rest /\ Changed
  BY DEF TypeInv, TypeOK, ServerTypeOK, OpenInv, Path, tableVars, threadVars
<1>2. CASE Connect(c)
  <2>1. Append(queue, Conn(c)) \in Seq(Conns)
    BY <1>0, AppendProperties
  <2> QED
    BY <1>0, <1>2, <2>1 DEF Connect, ClientGoto, ClientLabels, ConnInv, Conn, sockVars
<1>3. CASE SendCommand(c)
  BY <1>0, <1>3 DEF SendCommand, ClientGoto, ClientLabels, ConnInv, Conn, procVars
<1>4. CASE ReadReply(c)
  <2>1. PICK n \in 1..Len(Unread(Conn(c))) :
          /\ nread' = [nread EXCEPT ![Conn(c)] = @ + n]
          /\ IF EndsReply(SubSeq(Unread(Conn(c)), 1, n))
               THEN Finish(c)
               ELSE UNCHANGED <<hung, clientVars>>
    BY <1>4 DEF ReadReply
  <2>2. nread' \in [Conns -> Nat]
    BY <1>0, <2>1
  <2>3. Finish(c) \/ UNCHANGED <<hung, clientVars>>
    BY <2>1
  <2> QED
    BY <1>0, <1>1, <1>4, <2>2, <2>3 DEF ReadReply, procVars
<1>5. CASE ReadClosed(c)
  BY <1>0, <1>1, <1>5 DEF ReadClosed, procVars
<1>6. CASE Interrupt(c)
  BY <1>0, <1>6 DEF Interrupt, ClientGoto, ClientLabels, ConnInv, Conn, procVars
<1> QED
  BY <1>2, <1>3, <1>4, <1>5, <1>6 DEF Client

LEMMA NextTypeInv == TypeInv /\ [Next]_vars => TypeInv'
<1> SUFFICES ASSUME TypeInv, [Next]_vars PROVE TypeInv'
  OBVIOUS
<1>1. CASE ServerNext /\ UNCHANGED clientVars
  BY <1>1, TypeLocal, TypeDisk, TypeWrite, TypeProcess
     DEF ServerNext, Thread, GetFileLock, OpAppend, OpRead
<1>2. CASE \E c \in Clients : Client(c) \/ Interrupt(c)
  BY <1>2, TypeClient
<1>3. CASE UNCHANGED vars
  BY <1>3 DEF vars, serverVars, procVars, tableVars, threadVars, sockVars,
     clientVars, TypeInv, TypeOK, ServerTypeOK, OpenInv, Path, ConnInv, Conn
<1> QED
  BY <1>1, <1>2, <1>3 DEF Next, Idle

\* Every variable keeps its type, whatever the clients send and whatever
\* fails: no thread appends to a file it has not found, and no index leaves
\* the table.
THEOREM TypeCorrect == Spec => []TypeOK
<1>1. TypeInv => TypeOK
  BY DEF TypeInv
<1> QED
  BY <1>1, InitTypeInv, NextTypeInv, PTL DEF Spec

-----------------------------------------------------------------------------
(* Connections. Accept gives a connection to one thread, once: a queued     *)
(* connection has no thread yet and is queued once, and a connection its    *)
(* client has still to make is neither queued nor served.                   *)

Waiting(k) == \E n \in 1..Len(queue) : queue[n] = k

Fresh(k) ==
  k[2] > idx[k[1]] \/ (k[2] = idx[k[1]] /\ cpc[k[1]] = "connect")

QueueInv ==
  /\ \A n \in 1..Len(queue) : pc[queue[n]] = "none"
  /\ \A m, n \in 1..Len(queue) : queue[m] = queue[n] => m = n
  /\ \A k \in Conns : Fresh(k) => pc[k] = "none" /\ ~Waiting(k)

LEMMA InitQueueInv == Init => QueueInv
  BY DEF Init, ServerInit, QueueInv, Waiting

LEMMA NextQueueInv == TypeInv /\ QueueInv /\ [Next]_vars => QueueInv'
<1> SUFFICES ASSUME TypeInv, QueueInv, [Next]_vars PROVE QueueInv'
  OBVIOUS
<1>0. /\ queue \in Seq(Conns) /\ Len(queue) \in Nat
      /\ pc \in [Conns -> Labels]
      /\ cpc \in [Clients -> ClientLabels]
      /\ idx \in [Clients -> Nat \ {0}]
      /\ \A d \in Clients : Conn(d) \in Conns
      /\ \A k \in Conns : k = <<k[1], k[2]>> /\ k[1] \in Clients /\ k[2] \in Nat
  <2>1. queue \in Seq(Conns)
    BY DEF TypeInv, TypeOK, ServerTypeOK
  <2>2. Len(queue) \in Nat
    BY <2>1, LenProperties
  <2>3. \A k \in Conns : k = <<k[1], k[2]>> /\ k[1] \in Clients /\ k[2] \in Nat
    BY ClientAssumption DEF ClientAssumption
  <2> QED
    BY <2>1, <2>2, <2>3 DEF TypeInv, TypeOK, ServerTypeOK, ConnInv
<1>1. ASSUME NEW k \in Conns, Thread(k), ~SigPipe(k), UNCHANGED clientVars
      PROVE  QueueInv'
  <2>1. queue' = queue
    BY <1>1 DEF Thread, GererClient, GetFileLock, LockTable, SearchTable,
       InsertEntry, LockFile, OpCreate, OpOpen, OpAppend, OpAppendData,
       OpAppendNewline, OpRead, OpReadBlock, OpReadEnd, SendOk, SendError,
       WriteClient, UnlockFile, CloseClient, procVars
  <2>2. pc[k] # "none"
    BY <1>1 DEF Thread, GererClient, GetFileLock, LockTable, SearchTable,
       InsertEntry, LockFile, OpCreate, OpOpen, OpAppend, OpAppendData,
       OpAppendNewline, OpRead, OpReadBlock, OpReadEnd, SendOk, SendError,
       UnlockFile, CloseClient, At
  <2>3. \A j \in Conns : j # k => pc'[j] = pc[j]
    BY <1>0, <1>1 DEF Thread, GererClient, GetFileLock, LockTable, SearchTable,
       InsertEntry, LockFile, OpCreate, OpOpen, OpAppend, OpAppendData,
       OpAppendNewline, OpRead, OpReadBlock, OpReadEnd, SendOk, SendError,
       UnlockFile, CloseClient, Goto
  <2>4. \A n \in 1..Len(queue) : queue[n] \in Conns
    BY <1>0, ElementOfSeq
  <2> QED
    BY <1>1, <2>1, <2>2, <2>3, <2>4 DEF QueueInv, Fresh, Waiting, clientVars
<1>2. ASSUME Accept, UNCHANGED clientVars
      PROVE  QueueInv'
  <2> DEFINE h == Head(queue)
  <2>1. /\ h = queue[1] /\ h \in Conns
        /\ queue' \in Seq(Conns) /\ Len(queue') = Len(queue) - 1
        /\ \A n \in 1..Len(queue') : queue'[n] = queue[n + 1]
    BY <1>0, <1>2, HeadTailProperties DEF Accept
  <2>2. \A j \in Conns : j # h => pc'[j] = pc[j]
    BY <1>0, <1>2 DEF Accept
  <2>3. \A n \in 1..Len(queue') : n + 1 \in 1..Len(queue) /\ queue'[n] # h /\ queue'[n] \in Conns
    <3> SUFFICES ASSUME NEW n \in 1..Len(queue')
                 PROVE  n + 1 \in 1..Len(queue) /\ queue'[n] # h /\ queue'[n] \in Conns
      OBVIOUS
    <3> HIDE DEF h
    <3>0. Len(queue') \in Nat /\ n \in Nat
      BY <1>0, <2>1, LenProperties
    <3>1. n + 1 \in 1..Len(queue) /\ 1 \in 1..Len(queue) /\ n + 1 # 1
      BY <1>0, <2>1, <3>0
    <3>2. queue[n + 1] \in Conns
      BY <1>0, <3>1, ElementOfSeq
    <3> QED
      BY <2>1, <3>1, <3>2 DEF QueueInv
  <2>4. Waiting(h)
    <3>1. queue # <<>>
      BY <1>2 DEF Accept
    <3>2. 1 \in 1..Len(queue)
      BY <1>0, <3>1, EmptySeq
    <3> HIDE DEF h
    <3> QED
      BY <2>1, <3>2 DEF Waiting
  <2>5. \A k \in Conns : Waiting(k)' => Waiting(k)
    BY <2>1, <2>3 DEF Waiting
  <2>6. \A n \in 1..Len(queue') : pc'[queue'[n]] = "none"
    BY <2>1, <2>2, <2>3 DEF QueueInv
  <2>7. \A m, n \in 1..Len(queue') : queue'[m] = queue'[n] => m = n
    BY <2>1, <2>3 DEF QueueInv
  <2>8. \A k \in Conns : Fresh(k)' => pc'[k] = "none" /\ ~Waiting(k)'
    BY <1>2, <2>2, <2>4, <2>5 DEF QueueInv, Fresh, clientVars
  <2> HIDE DEF h
  <2> QED
    BY <2>6, <2>7, <2>8 DEF QueueInv
<1>3. ASSUME Die, UNCHANGED clientVars
      PROVE  QueueInv'
  <2>1. queue' = <<>> /\ Len(queue') = 0
    BY <1>3, EmptySeq DEF Die
  <2>2. \A k \in Conns : pc[k] = "none" /\ ~Waiting(k) => pc'[k] = "none"
    BY <1>3 DEF Die, Waiting
  <2>3. \A k \in Conns : Fresh(k)' => Fresh(k)
    BY <1>3 DEF Fresh, clientVars
  <2> QED
    BY <2>1, <2>2, <2>3 DEF QueueInv, Waiting
<1>4. ASSUME Boot, UNCHANGED clientVars
      PROVE  QueueInv'
  BY <1>4 DEF Boot, QueueInv, Fresh, Waiting, threadVars, clientVars
<1>5. ASSUME NEW c \in Clients, Client(c) \/ Interrupt(c)
      PROVE  QueueInv'
  <2>1. pc' = pc
    BY <1>5 DEF Client, Connect, SendCommand, ReadReply, ReadClosed, Interrupt, threadVars
  <2>2. CASE Connect(c)
    <3>1. CASE up /\ queue' = Append(queue, Conn(c)) /\ cpc[c] = "connect"
               /\ cpc' = [cpc EXCEPT ![c] = "send"] /\ idx' = idx
      <4>1. Fresh(Conn(c)) /\ Conn(c) \in Conns
        BY <1>0, <3>1 DEF Fresh, Conn
      <4>2. /\ Len(queue') = Len(queue) + 1
            /\ \A n \in 1..Len(queue) : queue'[n] = queue[n]
            /\ queue'[Len(queue) + 1] = Conn(c)
        BY <1>0, <3>1, AppendProperties
      <4>3. \A k \in Conns : Fresh(k)' => Fresh(k) /\ k # Conn(c)
        BY <1>0, <3>1 DEF Fresh, Conn
      <4>4. \A n \in 1..Len(queue) : queue[n] # Conn(c)
        BY <4>1 DEF QueueInv, Waiting
      <4>5. \A n \in 1..Len(queue') : n \in 1..Len(queue) \/ n = Len(queue) + 1
        BY <1>0, <4>2
      <4>6. \A n \in 1..Len(queue') : pc'[queue'[n]] = "none"
        BY <2>1, <4>1, <4>2, <4>5 DEF QueueInv
      <4>7. \A m, n \in 1..Len(queue') : queue'[m] = queue'[n] => m = n
        BY <4>2, <4>4, <4>5 DEF QueueInv
      <4>8. \A k \in Conns : Fresh(k)' => pc'[k] = "none" /\ ~Waiting(k)'
        BY <2>1, <4>2, <4>3, <4>5 DEF QueueInv, Waiting
      <4> QED
        BY <4>6, <4>7, <4>8 DEF QueueInv
    <3>2. CASE queue' = queue /\ cpc[c] = "connect"
               /\ cpc' = [cpc EXCEPT ![c] = "failed"] /\ idx' = idx
      BY <1>0, <2>1, <3>2 DEF QueueInv, Fresh, Waiting
    <3> QED
      BY <2>2, <3>1, <3>2 DEF Connect, ClientGoto
  <2>3. CASE ~Connect(c)
    <3>1. queue' = queue
      BY <1>5, <2>3 DEF Client, SendCommand, ReadReply, ReadClosed, Interrupt, procVars
    <3>2. /\ cpc' \in [Clients -> ClientLabels] /\ idx' \in [Clients -> Nat \ {0}]
          /\ \A d \in Clients : d # c => cpc'[d] = cpc[d] /\ idx'[d] = idx[d]
          /\ \/ cpc'[c] # "connect" /\ idx'[c] = idx[c]
             \/ cpc' = cpc /\ idx' = idx
             \/ idx'[c] = idx[c] + 1
      <4>1. TypeOK'
        BY <1>5, TypeClient DEF TypeInv
      <4> QED
        BY <1>0, <1>5, <2>3, <4>1 DEF TypeOK, Client, SendCommand, ReadReply, ReadClosed,
           Interrupt, Finish, ClientGoto, clientVars
    <3>3. \A k \in Conns : Fresh(k)' => Fresh(k)
      <4> SUFFICES ASSUME NEW k \in Conns, Fresh(k)' PROVE Fresh(k)
        OBVIOUS
      <4>1. k[1] \in Clients /\ k[2] \in Nat /\ idx[k[1]] \in Nat
        BY <1>0
      <4>2. CASE k[1] # c
        BY <3>2, <4>1, <4>2 DEF Fresh
      <4>3. CASE k[1] = c
        BY <3>2, <4>1, <4>3 DEF Fresh
      <4> QED
        BY <4>2, <4>3
    <3> QED
      BY <2>1, <3>1, <3>3 DEF QueueInv, Waiting
  <2> QED
    BY <2>2, <2>3
<1>6. CASE UNCHANGED vars
  BY <1>6 DEF vars, serverVars, procVars, threadVars, clientVars, QueueInv, Fresh, Waiting
<1> QED
  BY <1>1, <1>2, <1>3, <1>4, <1>5, <1>6 DEF Next, Idle, ServerNext, Kill, AcceptFails, SigPipe

-----------------------------------------------------------------------------
(* Locks. What a thread knows at each point of its way through the table,   *)
(* its file's mutex and its file.                                           *)

InTable(k) == pc[k] \in {"search", "insert"}
\* get_file_lock has returned an entry; "err" and "close" are also reached
\* without one.
HasEntry(k) == pc[k] \in {"lock", "open", "block", "data", "nl", "ok", "unlock"}

\* Its own knowledge ...
OwnInv(k) ==
  /\ pc[k] \in {"none", "read", "table", "search", "insert"} => slot[k] = 0
  /\ HasEntry(k) => slot[k] # 0
  /\ ~up => pc[k] \in {"none", "done"}
\* ... what it knows of the table ...
EntryInv(k) ==
  slot[k] # 0 /\ pc[k] # "done" => file_locks[slot[k]] = Stored[Path(k)]
TableInv(k) ==
  /\ InTable(k) => table_mutex = k
  /\ pc[k] = "insert" => \A s \in Slots : ~Matches(s, k)
\* ... and of the mutex of its file.
HeldInv(k) == HoldsLock(k) => lock[slot[k]] = k

LockInv ==
  /\ \A k \in Conns : OwnInv(k) /\ EntryInv(k) /\ TableInv(k) /\ HeldInv(k)
  /\ HoldersProceed
  /\ (\A f \in Files : Stored[f] = f) => OneEntryPerFile

LEMMA InitLockInv == Init => LockInv
  BY DEF Init, ServerInit, LockInv, OwnInv, EntryInv, TableInv, HeldInv,
     InTable, HasEntry, HoldsLock, HoldersProceed, OneEntryPerFile

\* Whoever takes a mutex goes on to where it is held, and gives it back when
\* it leaves.
LEMMA HolderSteps ==
  ASSUME TypeInv, LockInv, NEW k \in Conns,
         \/ LockTable(k) \/ SearchTable(k) \/ InsertEntry(k)
         \/ LockFile(k) \/ UnlockFile(k)
  PROVE  HoldersProceed'
<1>0. /\ slot \in [Conns -> Slots \union {0}]
      /\ pc \in [Conns -> Labels]
      /\ lock \in [Slots -> Conns \union {NoThread}]
      /\ table_mutex \in Conns \union {NoThread}
      /\ NoThread \notin Conns
      /\ 0 \notin Slots
  BY ServerAssumption DEF ServerAssumption, TypeInv, TypeOK, ServerTypeOK, Slots
<1>1. /\ \A j \in Conns : OwnInv(j) /\ TableInv(j)
      /\ table_mutex # NoThread => pc[table_mutex] \in {"search", "insert"}
      /\ \A i \in Slots, j \in Conns : lock[i] = j => slot[j] = i /\ HoldsLock(j)
  BY <1>0 DEF LockInv, HoldersProceed, HoldsLock, LockTable, SearchTable, InsertEntry,
     LockFile, UnlockFile, At
<1>2. \A j \in Conns : j # k => pc'[j] = pc[j] /\ slot'[j] = slot[j]
  BY <1>0 DEF LockTable, SearchTable, InsertEntry, LockFile, UnlockFile, Goto
<1>3. /\ lock' \in [Slots -> Conns \union {NoThread}]
      /\ \A i \in Slots, j \in Conns : lock'[i] = j => slot'[j] = i /\ HoldsLock(j)'
  <2>1. CASE LockTable(k) \/ SearchTable(k) \/ InsertEntry(k)
    <3>1. lock' = lock /\ ~HoldsLock(k)
      BY <2>1 DEF LockTable, SearchTable, InsertEntry, At, HoldsLock
    <3> QED
      BY <1>0, <1>1, <1>2, <3>1 DEF HoldsLock
  <2>2. CASE LockFile(k)
    <3>1. /\ slot[k] \in Slots /\ slot' = slot /\ ~HoldsLock(k) /\ HoldsLock(k)'
          /\ lock' = [lock EXCEPT ![slot[k]] = k]
      BY <1>0, <1>1, <2>2 DEF LockFile, At, Goto, OwnInv, HasEntry, HoldsLock
    <3> QED
      BY <1>0, <1>1, <1>2, <3>1 DEF HoldsLock
  <2>3. CASE UnlockFile(k)
    <3>1. /\ slot[k] \in Slots /\ slot' = slot
          /\ lock' = [lock EXCEPT ![slot[k]] = NoThread]
      BY <1>0, <1>1, <2>3 DEF UnlockFile, At, OwnInv, HasEntry
    <3> QED
      BY <1>0, <1>1, <1>2, <3>1 DEF HoldsLock
  <2> QED
    BY <2>1, <2>2, <2>3
<1>4. table_mutex' # NoThread => pc'[table_mutex'] \in {"search", "insert"}
  <2>1. \/ table_mutex' = k /\ pc'[k] = "search"
        \/ table_mutex' = table_mutex /\ pc'[k] = "insert"
        \/ table_mutex' = NoThread
        \/ table_mutex' = table_mutex /\ ~InTable(k)
    BY <1>0 DEF LockTable, SearchTable, InsertEntry, LockFile, UnlockFile, At, Goto, InTable
  <2> QED
    BY <1>0, <1>1, <1>2, <2>1 DEF InTable
<1> QED
  BY <1>0, <1>3, <1>4 DEF HoldersProceed, HoldsLock

\* The steps that get_file_lock is made of and the two uses of the mutex
\* it returns.
LEMMA LockSteps ==
  ASSUME TypeInv, LockInv, NEW k \in Conns,
         \/ LockTable(k) \/ SearchTable(k) \/ InsertEntry(k)
         \/ LockFile(k) \/ UnlockFile(k)
  PROVE  LockInv'
<1>0. /\ slot \in [Conns -> Slots \union {0}]
      /\ pc \in [Conns -> Labels]
      /\ lock \in [Slots -> Conns \union {NoThread}]
      /\ file_locks \in [Slots -> Names]
      /\ NoThread \notin Conns
      /\ 0 \notin Slots
  BY ServerAssumption DEF ServerAssumption, TypeInv, TypeOK, ServerTypeOK, Slots
<1>1. \A j \in Conns : OwnInv(j) /\ EntryInv(j) /\ TableInv(j) /\ HeldInv(j)
  BY DEF LockInv
<1>2. \A j \in Conns : j # k => pc'[j] = pc[j] /\ slot'[j] = slot[j]
  BY <1>0 DEF LockTable, SearchTable, InsertEntry, LockFile, UnlockFile, Goto
<1>3. up /\ up' = up
  BY DEF LockTable, SearchTable, InsertEntry, LockFile, UnlockFile, At, procVars
<1>9. HoldersProceed'
  BY HolderSteps
<1>4. CASE LockTable(k)
  <2>1. /\ pc[k] = "table" /\ pc'[k] = "search" /\ slot' = slot /\ lock' = lock
        /\ file_locks' = file_locks /\ table_mutex = NoThread /\ table_mutex' = k
    BY <1>0, <1>4 DEF LockTable, At, Goto
  <2>2. \A j \in Conns : OwnInv(j)' /\ EntryInv(j)' /\ TableInv(j)' /\ HeldInv(j)'
    BY <1>0, <1>1, <1>2, <1>3, <2>1 DEF OwnInv, EntryInv, TableInv, HeldInv, InTable,
       HasEntry, HoldsLock, Matches, Path
  <2> QED
    BY <1>9, <2>1, <2>2 DEF LockInv, OneEntryPerFile
<1>5. CASE SearchTable(k)
  <2>1. /\ pc[k] = "search" /\ lock' = lock /\ file_locks' = file_locks
    BY <1>5 DEF SearchTable, At
  <2>2. CASE /\ pc'[k] = "lock" /\ table_mutex' = NoThread
             /\ \E s \in Slots : Matches(s, k) /\ slot'[k] = s
    <3>1. PICK s \in Slots : Matches(s, k) /\ slot'[k] = s
      BY <2>2
    <3>2. file_locks[s] = Path(k) /\ Path(k) \in Files /\ file_locks[s] \in Names
      BY <1>0, <3>1, ConstantTypes DEF Matches
    <3>3. Stored[Path(k)] = Path(k)
      BY <3>2, ServerAssumption DEF ServerAssumption, Names
    <3>4. \A j \in Conns : OwnInv(j)' /\ EntryInv(j)' /\ TableInv(j)' /\ HeldInv(j)'
      BY <1>0, <1>1, <1>2, <1>3, <2>1, <2>2, <3>1, <3>2, <3>3 DEF OwnInv, EntryInv,
         TableInv, HeldInv, InTable, HasEntry, HoldsLock, Matches, Path
    <3> QED
      BY <1>9, <2>1, <3>4 DEF LockInv, OneEntryPerFile
  <2>3. CASE /\ pc'[k] = "insert" /\ table_mutex' = table_mutex /\ slot' = slot
             /\ \A s \in Slots : ~Matches(s, k)
    <3>1. \A j \in Conns : OwnInv(j)' /\ EntryInv(j)' /\ TableInv(j)' /\ HeldInv(j)'
      BY <1>0, <1>1, <1>2, <1>3, <2>1, <2>3 DEF OwnInv, EntryInv, TableInv, HeldInv,
         InTable, HasEntry, HoldsLock, Matches, Path
    <3> QED
      BY <1>9, <2>1, <3>1 DEF LockInv, OneEntryPerFile
  <2> QED
    BY <1>0, <1>5, <2>2, <2>3 DEF SearchTable, Goto
<1>6. CASE InsertEntry(k)
  <2>1. /\ pc[k] = "insert" /\ lock' = lock /\ table_mutex' = NoThread /\ table_mutex = k
    BY <1>1, <1>6 DEF InsertEntry, At, TableInv, InTable
  <2>2. CASE \E s \in Slots : /\ file_locks[s] = Free
                              /\ file_locks' = [file_locks EXCEPT ![s] = Stored[Path(k)]]
                              /\ slot'[k] = s /\ pc'[k] = "lock"
    <3>1. PICK s \in Slots : /\ file_locks[s] = Free
                             /\ file_locks' = [file_locks EXCEPT ![s] = Stored[Path(k)]]
                             /\ slot'[k] = s /\ pc'[k] = "lock"
      BY <2>2
    <3>2. \A j \in Conns : Stored[Path(j)] # Free
      BY ConstantTypes, ServerAssumption DEF ServerAssumption
    <3>3. \A j \in Conns : OwnInv(j)' /\ TableInv(j)' /\ HeldInv(j)'
      BY <1>0, <1>1, <1>2, <1>3, <2>1, <3>1 DEF OwnInv, TableInv, HeldInv,
         InTable, HasEntry, HoldsLock
    <3>4. \A j \in Conns : EntryInv(j)'
      BY <1>0, <1>1, <1>2, <2>1, <3>1, <3>2 DEF EntryInv, Path
    <3>5. ASSUME \A f \in Files : Stored[f] = f, OneEntryPerFile
          PROVE  OneEntryPerFile'
      <4>1. \A t \in Slots : file_locks[t] # Stored[Path(k)]
        BY <1>1, <2>1, <3>5, ConstantTypes DEF TableInv, Matches
      <4> QED
        BY <1>0, <3>1, <3>5, <4>1 DEF OneEntryPerFile
    <3> QED
      BY <1>9, <3>3, <3>4, <3>5 DEF LockInv
  <2>3. CASE pc'[k] = "err" /\ UNCHANGED <<file_locks, slot>>
    <3>1. \A j \in Conns : OwnInv(j)' /\ EntryInv(j)' /\ TableInv(j)' /\ HeldInv(j)'
      BY <1>0, <1>1, <1>2, <1>3, <2>1, <2>3 DEF OwnInv, EntryInv, TableInv, HeldInv,
         InTable, HasEntry, HoldsLock, Matches, Path
    <3> QED
      BY <1>9, <2>3, <3>1 DEF LockInv, OneEntryPerFile
  <2> QED
    BY <1>0, <1>6, <2>2, <2>3 DEF InsertEntry, Goto
<1>7. CASE LockFile(k)
  <2>1. /\ pc[k] = "lock" /\ pc'[k] = "open" /\ slot' = slot /\ table_mutex' = table_mutex
        /\ file_locks' = file_locks /\ lock[slot[k]] = NoThread
        /\ lock' = [lock EXCEPT ![slot[k]] = k]
    BY <1>0, <1>7 DEF LockFile, At, Goto
  <2>2. slot[k] \in Slots
    BY <1>0, <1>1, <2>1 DEF OwnInv, HasEntry
  <2>3. \A j \in Conns : OwnInv(j)' /\ EntryInv(j)' /\ TableInv(j)'
    BY <1>0, <1>1, <1>2, <1>3, <2>1 DEF OwnInv, EntryInv, TableInv, InTable,
       HasEntry, Matches, Path
  <2>4. \A j \in Conns : HeldInv(j)'
    BY <1>0, <1>1, <1>2, <2>1, <2>2 DEF HeldInv, HoldsLock
  <2> QED
    BY <1>9, <2>1, <2>3, <2>4 DEF LockInv, OneEntryPerFile
<1>8. CASE UnlockFile(k)
  <2>1. /\ pc[k] = "unlock" /\ pc'[k] = "close" /\ slot' = slot /\ table_mutex' = table_mutex
        /\ file_locks' = file_locks /\ lock' = [lock EXCEPT ![slot[k]] = NoThread]
    BY <1>0, <1>8 DEF UnlockFile, At, Goto
  <2>2. slot[k] \in Slots /\ lock[slot[k]] = k
    BY <1>0, <1>1, <2>1 DEF OwnInv, HasEntry, HeldInv, HoldsLock
  <2>3. \A j \in Conns : OwnInv(j)' /\ EntryInv(j)' /\ TableInv(j)'
    BY <1>0, <1>1, <1>2, <1>3, <2>1 DEF OwnInv, EntryInv, TableInv, InTable,
       HasEntry, Matches, Path
  <2>4. \A j \in Conns : HeldInv(j)'
    BY <1>0, <1>1, <1>2, <2>1, <2>2 DEF HeldInv, HoldsLock
  <2> QED
    BY <1>9, <2>1, <2>3, <2>4 DEF LockInv, OneEntryPerFile
<1> QED
  BY <1>4, <1>5, <1>6, <1>7, <1>8

\* The other steps of a thread leave table and mutexes alone.
LEMMA OtherSteps ==
  ASSUME TypeInv, LockInv, NEW k \in Conns,
         \/ GererClient(k) \/ OpCreate(k) \/ OpOpen(k) \/ OpAppend(k)
         \/ OpRead(k) \/ SendOk(k) \/ SendError(k) \/ CloseClient(k)
  PROVE  LockInv'
<1> USE DEF OpAppend, OpRead
<1>0. pc \in [Conns -> Labels]
  BY DEF TypeInv, TypeOK, ServerTypeOK
<1>1. /\ file_locks' = file_locks /\ table_mutex' = table_mutex /\ lock' = lock
      /\ slot' = slot /\ up /\ up' = up
  BY DEF GererClient, OpCreate, OpOpen, OpAppendData, OpAppendNewline, OpReadBlock,
     OpReadEnd, SendOk, SendError, CloseClient, WriteClient, tableVars, procVars, At
<1>2. \A j \in Conns : j # k => pc'[j] = pc[j]
  BY <1>0 DEF GererClient, OpCreate, OpOpen, OpAppendData, OpAppendNewline,
     OpReadBlock, OpReadEnd, SendOk, SendError, CloseClient, Goto
<1>3. \/ pc[k] = "read" /\ pc'[k] \in {"table", "err", "close"}
      \/ pc[k] = "open" /\ pc'[k] \in {"ok", "err", "block", "data"}
      \/ pc[k] = "data" /\ pc'[k] = "nl"
      \/ pc[k] = "nl" /\ pc'[k] = "ok"
      \/ pc[k] = "block" /\ pc'[k] \in {"block", "unlock"}
      \/ pc[k] = "ok" /\ pc'[k] = "unlock"
      \/ pc[k] = "err" /\ pc'[k] = IF slot[k] = 0 THEN "close" ELSE "unlock"
      \/ pc[k] = "close" /\ pc'[k] = "done"
  BY <1>0 DEF GererClient, OpCreate, OpOpen, OpAppendData, OpAppendNewline,
     OpReadBlock, OpReadEnd, SendOk, SendError, CloseClient, At, Goto
<1>4. \A j \in Conns : OwnInv(j) /\ EntryInv(j) /\ TableInv(j) /\ HeldInv(j)
  BY DEF LockInv
<1>5. ASSUME NEW j \in Conns
      PROVE  OwnInv(j)' /\ EntryInv(j)' /\ TableInv(j)' /\ HeldInv(j)'
  BY <1>1, <1>2, <1>3, <1>4 DEF OwnInv, EntryInv, TableInv, HeldInv, InTable,
     HasEntry, HoldsLock, Matches, Path
<1>6. HoldersProceed'
  <2>1. /\ pc[k] \notin {"search", "insert"}
        /\ HoldsLock(k) => HoldsLock(k)'
    BY <1>1, <1>3, <1>4 DEF OwnInv, HasEntry, HoldsLock
  <2>2. /\ table_mutex # NoThread => table_mutex \in Conns /\ InTable(table_mutex)
        /\ lock \in [Slots -> Conns \union {NoThread}]
        /\ \A i \in Slots, j \in Conns : lock[i] = j => slot[j] = i /\ HoldsLock(j)
    BY <1>1, ServerAssumption DEF ServerAssumption, LockInv, HoldersProceed, InTable,
       HoldsLock, TypeInv, TypeOK, ServerTypeOK
  <2>3. table_mutex' # NoThread => pc'[table_mutex'] \in {"search", "insert"}
    BY <1>1, <1>2, <2>1, <2>2 DEF InTable
  <2>4. \A i \in Slots, j \in Conns : lock'[i] = j => slot'[j] = i /\ HoldsLock(j)'
    <3> SUFFICES ASSUME NEW i \in Slots, NEW j \in Conns, lock'[i] = j
                 PROVE  slot'[j] = i /\ HoldsLock(j)'
      OBVIOUS
    <3>1. lock[i] = j /\ slot'[j] = slot[j]
      BY <1>1
    <3>2. slot[j] = i /\ HoldsLock(j)
      BY <2>2, <3>1
    <3> QED
      BY <1>2, <2>1, <3>1, <3>2 DEF HoldsLock
  <2> QED
    BY <1>1, <2>2, <2>3, <2>4 DEF HoldersProceed, HoldsLock
<1> QED
  BY <1>1, <1>5, <1>6 DEF LockInv, OneEntryPerFile

LEMMA NextLockInv == TypeInv /\ QueueInv /\ LockInv /\ [Next]_vars => LockInv'
<1> SUFFICES ASSUME TypeInv, QueueInv, LockInv, [Next]_vars PROVE LockInv'
  OBVIOUS
<1>0. /\ queue \in Seq(Conns)
      /\ pc \in [Conns -> Labels]
      /\ \A j \in Conns : OwnInv(j) /\ EntryInv(j) /\ TableInv(j) /\ HeldInv(j)
  BY DEF LockInv, TypeInv, TypeOK, ServerTypeOK
<1> USE DEF OwnInv, EntryInv, TableInv, HeldInv, InTable, HasEntry, HoldsLock,
        Matches, Path
<1>1. ASSUME NEW k \in Conns, Thread(k), ~SigPipe(k)
      PROVE  LockInv'
  BY <1>1, LockSteps, OtherSteps DEF Thread, GetFileLock
<1>2. CASE Accept
  <2>1. /\ queue # <<>> /\ up /\ up' = up
        /\ UNCHANGED <<file_locks, table_mutex, lock, slot>>
    BY <1>2 DEF Accept, tableVars
  <2>2. Head(queue) = queue[1] /\ 1 \in 1..Len(queue) /\ Head(queue) \in Conns
    BY <1>0, <2>1, HeadTailProperties, EmptySeq
  <2>3. pc[Head(queue)] = "none"
    BY <2>2 DEF QueueInv
  <2>4. /\ \A j \in Conns : j # Head(queue) => pc'[j] = pc[j]
        /\ pc'[Head(queue)] \in {"read", "done"}
    BY <1>0, <1>2, <2>2 DEF Accept
  <2>5. \A j \in Conns : OwnInv(j)' /\ EntryInv(j)' /\ TableInv(j)' /\ HeldInv(j)'
    BY <1>0, <2>1, <2>2, <2>3, <2>4
  <2>6. HoldersProceed'
    BY <2>1, <2>2, <2>3, <2>4 DEF LockInv, HoldersProceed, TypeInv, TypeOK, ServerTypeOK
  <2> QED
    BY <2>1, <2>5, <2>6 DEF LockInv, OneEntryPerFile
<1>3. CASE Die
  <2>1. /\ \A j \in Conns : \/ pc'[j] = "none" /\ pc[j] = "none"
                            \/ pc'[j] = "done"
        /\ ~up' /\ UNCHANGED <<file_locks, slot>>
    BY <1>0, <1>3 DEF Die, tableVars
  <2>2. \A j \in Conns : OwnInv(j)' /\ EntryInv(j)' /\ TableInv(j)' /\ HeldInv(j)'
    BY <1>0, <2>1
  <2> QED
    BY <2>1, <2>2 DEF LockInv, HoldersProceed, OneEntryPerFile
<1>4. CASE Boot
  <2>1. /\ ~up /\ pc' = pc /\ slot' = slot
        /\ file_locks' = [s \in Slots |-> Free]
        /\ table_mutex' = NoThread /\ lock' = [s \in Slots |-> NoThread]
    BY <1>4 DEF Boot, threadVars
  <2>2. \A j \in Conns : OwnInv(j)' /\ EntryInv(j)' /\ TableInv(j)' /\ HeldInv(j)'
    BY <1>0, <2>1
  <2> QED
    BY <2>1, <2>2 DEF LockInv, HoldersProceed, OneEntryPerFile
<1>5. ASSUME NEW c \in Clients, Client(c) \/ Interrupt(c)
      PROVE  LockInv'
  <2>1. UNCHANGED <<up, tableVars, threadVars>>
    BY <1>5 DEF Client, Connect, SendCommand, ReadReply, ReadClosed, Interrupt, procVars
  <2> QED
    BY <2>1 DEF LockInv, HoldersProceed, OneEntryPerFile, tableVars, threadVars
<1>6. CASE UNCHANGED vars
  BY <1>6 DEF vars, serverVars, procVars, tableVars, threadVars, LockInv, HoldersProceed,
     OneEntryPerFile
<1> QED
  BY <1>1, <1>2, <1>3, <1>4, <1>5, <1>6 DEF Next, Idle, ServerNext, Kill, AcceptFails, SigPipe

-----------------------------------------------------------------------------
LEMMA Invariants == Spec => [](TypeInv /\ QueueInv /\ LockInv)
  BY InitTypeInv, InitQueueInv, InitLockInv, NextTypeInv, NextQueueInv, NextLockInv,
     PTL DEF Spec

\* An entry of file_locks stays its file's as long as a thread uses it, with
\* paths of any length and a table of any size: nothing is ever recycled.
THEOREM EntriesCorrect == Spec => []LocksOwnFile
<1>1. LockInv => LocksOwnFile
  BY DEF LockInv, EntryInv, LocksOwnFile
<1> QED
  BY <1>1, Invariants, PTL

\* If no path is too long for FileLock.path, the table never holds two
\* entries for one file, however many threads look the file up at once.
THEOREM TableCorrect == Spec => []((\A f \in Files : Stored[f] = f) => OneEntryPerFile)
<1>1. LockInv => ((\A f \in Files : Stored[f] = f) => OneEntryPerFile)
  BY DEF LockInv
<1> QED
  BY <1>1, Invariants, PTL

\* If no path is too long for FileLock.path, no two threads are ever between
\* the open() and the last write() of the same file: the lock table gives
\* one mutex per file, and the mutex is held all the way.
THEOREM MutexCorrect == Spec => []((\A f \in Files : Stored[f] = f) => FileMutex)
<1>1. TypeInv /\ LockInv => ((\A f \in Files : Stored[f] = f) => FileMutex)
  <2> SUFFICES ASSUME TypeInv, LockInv, \A f \in Files : Stored[f] = f,
                      NEW j \in Conns, NEW k \in Conns, j # k,
                      Accessing(j), Accessing(k), Path(j) = Path(k)
               PROVE  FALSE
    BY DEF FileMutex
  <2>1. slot[j] \in Slots /\ slot[k] \in Slots
    BY DEF TypeInv, TypeOK, ServerTypeOK, LockInv, OwnInv, HasEntry, Accessing
  <2>2. file_locks[slot[j]] = Stored[Path(j)] /\ file_locks[slot[k]] = Stored[Path(j)]
    BY <2>1, ServerAssumption DEF ServerAssumption, Slots, LockInv, EntryInv, Accessing
  <2>3. Stored[Path(j)] # Free
    BY ConstantTypes, ServerAssumption DEF ServerAssumption
  <2>4. slot[j] = slot[k]
    BY <2>1, <2>2, <2>3 DEF LockInv, OneEntryPerFile
  <2>5. lock[slot[j]] = j /\ lock[slot[k]] = k
    BY DEF LockInv, HeldInv, HoldsLock, Accessing
  <2> QED
    BY <2>4, <2>5
<1> QED
  BY <1>1, Invariants, PTL
==============================================================================
