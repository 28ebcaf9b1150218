----------------------------- MODULE FileServer -----------------------------
(***************************************************************************)
(* The concurrent file server, src/ex24_fileServer/server.c: one thread    *)
(* per accepted connection, each serving one CREATE, READ or APPEND        *)
(* command on a file under FILES_DIR, with one mutex per file found        *)
(* through the table file_locks.                                           *)
(*                                                                         *)
(* A connection is an element of Conns and names the thread serving it.    *)
(* This module holds the server process, its threads, the files on disk    *)
(* and the kernel side of the sockets; FileService adds the clients.       *)
(*                                                                         *)
(* Data is abstracted to tokens: a file is a sequence of tokens, where     *)
(* one APPEND contributes its data token and then NL, because op_append    *)
(* calls write() twice.                                                    *)
(***************************************************************************)
EXTENDS Integers, Sequences

CONSTANTS
  Conns,       \* the connections, one command each
  Cmd,         \* Cmd[k] is the command line sent on connection k
  Files,       \* the file paths the commands name
  Stored,      \* Stored[f] is path f as strncpy leaves it in FileLock.path
  Data,        \* the data tokens APPEND commands carry
  MAX_FILES,   \* the number of entries of file_locks
  BACKLOG,     \* the pending connections the kernel queues for accept()
  BLOCK,       \* the tokens one read() of BUF_SIZE bytes returns at most
  SOCK_BUF,    \* the tokens a socket buffers before write() blocks
  MAX_DEATHS,  \* bound: the deaths of the server after which it is not killed
               \* and accept() does not fail
  Faults,      \* the faults the environment may inject, see FaultKinds
  Existing,    \* the files an earlier run left, empty, under FILES_DIR
  FullFiles,   \* the files on which write() may fail: disk full, quota
  NoThread,    \* the owner of a free mutex
  Free,        \* the path of an unused table entry (used = 0)
  Absent       \* the content of a file that does not exist

NL == "NL"
Token == Data \union {NL, "OK", "ERROR", "EOF"}

\* The commands traiter_commande tells apart. "NODATA" is an APPEND with no
\* space after the name, "OTHER" any line with an unknown verb.
Command == [op: {"CREATE", "READ", "APPEND", "NODATA", "OTHER"},
            file: Files, data: Data]

FaultKinds == {"accept_fails", "open_fails", "thread_fails"}

ASSUME ServerAssumption ==
  /\ Cmd \in [Conns -> Command]
  /\ DOMAIN Stored = Files
  /\ Free \notin Files /\ \A f \in Files : Stored[f] # Free
  /\ \A f \in Files : Stored[f] \in Files => Stored[Stored[f]] = Stored[f]
  /\ NoThread \notin Conns
  /\ Absent \notin Seq(Token)
  /\ Data \intersect {NL, "OK", "ERROR", "EOF"} = {}
  /\ MAX_FILES \in Nat \ {0}
  /\ BACKLOG \in Nat \ {0} /\ BLOCK \in Nat \ {0} /\ SOCK_BUF \in Nat \ {0}
  /\ MAX_DEATHS \in Nat
  /\ Faults \subseteq FaultKinds
  /\ Existing \subseteq Files /\ FullFiles \subseteq Files

Slots == 1..MAX_FILES
\* What an entry's path can be.
Names == {Stored[f] : f \in Files} \union {Free}

VARIABLES
  up,           \* the server process is running
  deaths,       \* how often it has ended so far
  queue,        \* connections waiting in the listen queue
  file_locks,   \* file_locks[i]: the path of entry i, or Free
  table_mutex,  \* the thread that holds table_mutex
  lock,         \* lock[i]: the thread that holds the mutex of entry i
  disk,         \* disk[f]: the content of file f, or Absent
  pc,           \* pc[k]: where the thread of connection k is
  slot,         \* slot[k]: the entry get_file_lock returned, 0 for NULL
  off,          \* off[k]: the read offset of op_read
  request,      \* request[k]: the command line has been written to k
  wire,         \* wire[k]: all the server ever wrote to k
  nread,        \* nread[k]: how much of wire[k] the client has read
  hung          \* hung[k]: the client's end of k is closed

procVars == <<up, deaths, queue>>
tableVars == <<file_locks, table_mutex, lock>>
threadVars == <<pc, slot, off>>
sockVars == <<request, wire, nread, hung>>
serverVars == <<procVars, tableVars, disk, threadVars, sockVars>>

\* Where a thread can be: "none" before accept(), "done" after close().
Labels == {"none", "read", "table", "search", "insert", "lock", "open",
           "block", "data", "nl", "ok", "err", "unlock", "close",
           "done"}

ServerTypeOK ==
  /\ up \in BOOLEAN
  /\ deaths \in Nat
  /\ queue \in Seq(Conns)
  /\ file_locks \in [Slots -> Names]
  /\ table_mutex \in Conns \union {NoThread}
  /\ lock \in [Slots -> Conns \union {NoThread}]
  /\ disk \in [Files -> Seq(Token) \union {Absent}]
  /\ pc \in [Conns -> Labels]
  /\ slot \in [Conns -> Slots \union {0}]
  /\ off \in [Conns -> Nat]
  /\ request \in [Conns -> BOOLEAN]
  /\ wire \in [Conns -> Seq(Token)]
  /\ nread \in [Conns -> Nat]
  /\ hung \in [Conns -> BOOLEAN]

ServerInit ==
  /\ up = TRUE
  /\ deaths = 0
  /\ queue = <<>>
  /\ file_locks = [i \in Slots |-> Free]
  /\ table_mutex = NoThread
  /\ lock = [i \in Slots |-> NoThread]
  /\ disk = [f \in Files |-> IF f \in Existing THEN <<>> ELSE Absent]
  /\ pc = [k \in Conns |-> "none"]
  /\ slot = [k \in Conns |-> 0]
  /\ off = [k \in Conns |-> 0]
  /\ request = [k \in Conns |-> FALSE]
  /\ wire = [k \in Conns |-> <<>>]
  /\ nread = [k \in Conns |-> 0]
  /\ hung = [k \in Conns |-> FALSE]

-----------------------------------------------------------------------------
(* The process: main(), its death and its restart.                         *)

\* accept(), then pthread_create; when that fails main closes the connection.
Accept ==
  /\ up /\ queue # <<>>
  /\ queue' = Tail(queue)
  /\ \/ pc' = [pc EXCEPT ![Head(queue)] = "read"]
     \/ /\ "thread_fails" \in Faults
        /\ pc' = [pc EXCEPT ![Head(queue)] = "done"]
  /\ UNCHANGED <<up, deaths, tableVars, disk, slot, off, sockVars>>

\* The process ends at once: its threads with it, every connection is closed.
Die ==
  /\ up' = FALSE
  /\ deaths' = deaths + 1
  /\ queue' = <<>>
  /\ pc' = [k \in Conns |->
              IF pc[k] = "none" /\ \A i \in 1..Len(queue) : queue[i] # k
                THEN "none" ELSE "done"]
  /\ UNCHANGED <<tableVars, disk, slot, off, sockVars>>

\* main() loops forever: the operator stops the server by killing it.
Kill ==
  /\ up /\ deaths < MAX_DEATHS
  /\ Die

\* CHECK exits when accept() fails, for lack of descriptors say.
AcceptFails ==
  /\ up /\ deaths < MAX_DEATHS
  /\ "accept_fails" \in Faults
  /\ Die

\* main() again: memset on the table, fresh mutexes, the old socket unlinked;
\* the files under FILES_DIR are those of the previous run.
Boot ==
  /\ ~up
  /\ up' = TRUE
  /\ queue' = <<>>
  /\ file_locks' = [i \in Slots |-> Free]
  /\ table_mutex' = NoThread
  /\ lock' = [i \in Slots |-> NoThread]
  /\ UNCHANGED <<deaths, disk, threadVars, sockVars>>

-----------------------------------------------------------------------------
(* The thread of connection k: gerer_client and what it calls.             *)

At(k, label) == up /\ pc[k] = label
Goto(k, label) == pc' = [pc EXCEPT ![k] = label]
Path(k) == Cmd[k].file

\* read() of the command, then traiter_commande's dispatch. A client that
\* closed without writing makes read() return 0.
GererClient(k) ==
  /\ At(k, "read")
  /\ \/ /\ request[k]
        /\ Goto(k, IF Cmd[k].op \in {"CREATE", "READ", "APPEND"}
                     THEN "table" ELSE "err")
     \/ /\ ~request[k] /\ hung[k]
        /\ Goto(k, "close")
  /\ UNCHANGED <<procVars, tableVars, disk, slot, off, sockVars>>

\* get_file_lock: pthread_mutex_lock(&table_mutex) ...
LockTable(k) ==
  /\ At(k, "table")
  /\ table_mutex = NoThread
  /\ table_mutex' = k
  /\ Goto(k, "search")
  /\ UNCHANGED <<procVars, file_locks, lock, disk, slot, off, sockVars>>

\* ... the first loop: strcmp of the full path with the stored paths ...
Matches(i, k) == file_locks[i] = Path(k)

\* Mutant: table_mutex is given back between the two loops.
SearchTable_EarlyUnlock(k) ==
  /\ At(k, "search")
  /\ table_mutex' = NoThread
  /\ \/ \E i \in Slots :
          /\ Matches(i, k)
          /\ slot' = [slot EXCEPT ![k] = i]
          /\ Goto(k, "lock")
     \/ /\ \A i \in Slots : ~Matches(i, k)
        /\ Goto(k, "insert")
        /\ UNCHANGED slot
  /\ UNCHANGED <<procVars, file_locks, lock, disk, off, sockVars>>

SearchTable(k) ==
  /\ At(k, "search")
  /\ \/ \E i \in Slots :
          /\ Matches(i, k) /\ \A j \in 1..(i - 1) : ~Matches(j, k)
          /\ slot' = [slot EXCEPT ![k] = i]
          /\ table_mutex' = NoThread
          /\ Goto(k, "lock")
     \/ /\ \A i \in Slots : ~Matches(i, k)
        /\ Goto(k, "insert")
        /\ UNCHANGED <<slot, table_mutex>>
  /\ UNCHANGED <<procVars, file_locks, lock, disk, off, sockVars>>

\* Mutant: when the table is full its first entry is taken over.
InsertEntry_Evict(k) ==
  /\ At(k, "insert")
  /\ LET used == {i \in Slots : file_locks[i] # Free}
         i == IF used = Slots THEN 1 ELSE CHOOSE j \in Slots \ used : TRUE
     IN  /\ file_locks' = [file_locks EXCEPT ![i] = Stored[Path(k)]]
         /\ slot' = [slot EXCEPT ![k] = i]
  /\ Goto(k, "lock")
  /\ table_mutex' = NoThread
  /\ UNCHANGED <<procVars, lock, disk, off, sockVars>>

\* Mutant: the lock of the next entry is returned.
InsertEntry_OffByOne(k) ==
  /\ At(k, "insert")
  /\ \E i \in Slots :
       /\ file_locks[i] = Free
       /\ file_locks' = [file_locks EXCEPT ![i] = Stored[Path(k)]]
       /\ slot' = [slot EXCEPT ![k] = i + 1]
  /\ Goto(k, "lock")
  /\ table_mutex' = NoThread
  /\ UNCHANGED <<procVars, lock, disk, off, sockVars>>

\* ... the second loop: the first unused entry, or NULL when there is none.
InsertEntry(k) ==
  /\ At(k, "insert")
  /\ \/ \E i \in Slots :
          /\ file_locks[i] = Free /\ \A j \in 1..(i - 1) : file_locks[j] # Free
          /\ file_locks' = [file_locks EXCEPT ![i] = Stored[Path(k)]]
          /\ slot' = [slot EXCEPT ![k] = i]
          /\ Goto(k, "lock")
     \/ /\ \A i \in Slots : file_locks[i] # Free
        /\ Goto(k, "err")
        /\ UNCHANGED <<file_locks, slot>>
  /\ table_mutex' = NoThread
  /\ UNCHANGED <<procVars, lock, disk, off, sockVars>>

\* Mutant: the mutex is taken whoever holds it.
LockFile_NoWait(k) ==
  /\ At(k, "lock")
  /\ lock' = [lock EXCEPT ![slot[k]] = k]
  /\ Goto(k, "open")
  /\ UNCHANGED <<procVars, file_locks, table_mutex, disk, slot, off, sockVars>>

\* pthread_mutex_lock(lock), first step of the three operations.
LockFile(k) ==
  /\ At(k, "lock")
  /\ lock[slot[k]] = NoThread
  /\ lock' = [lock EXCEPT ![slot[k]] = k]
  /\ Goto(k, "open")
  /\ UNCHANGED <<procVars, file_locks, table_mutex, disk, slot, off, sockVars>>

Exists(k) == disk[Path(k)] # Absent

\* Mutants: O_EXCL is forgotten, or O_TRUNC is given in its place.
OpCreate_NoExcl(k) ==
  /\ At(k, "open") /\ Cmd[k].op = "CREATE"
  /\ disk' = [disk EXCEPT ![Path(k)] = IF Exists(k) THEN @ ELSE <<>>]
  /\ Goto(k, "ok")
  /\ UNCHANGED <<procVars, tableVars, slot, off, sockVars>>

OpCreate_Trunc(k) ==
  /\ At(k, "open") /\ Cmd[k].op = "CREATE"
  /\ disk' = [disk EXCEPT ![Path(k)] = <<>>]
  /\ Goto(k, "ok")
  /\ UNCHANGED <<procVars, tableVars, slot, off, sockVars>>

\* open() of the operation: O_CREAT | O_EXCL, O_RDONLY or O_WRONLY | O_APPEND.
OpCreate(k) ==
  /\ At(k, "open") /\ Cmd[k].op = "CREATE"
  /\ \/ /\ ~Exists(k)
        /\ disk' = [disk EXCEPT ![Path(k)] = <<>>]
        /\ Goto(k, "ok")
     \/ /\ Exists(k) \/ "open_fails" \in Faults
        /\ Goto(k, "err")
        /\ UNCHANGED disk
  /\ UNCHANGED <<procVars, tableVars, slot, off, sockVars>>

OpOpen(k) ==
  /\ At(k, "open") /\ Cmd[k].op \in {"READ", "APPEND"}
  /\ \/ /\ Exists(k)
        /\ Goto(k, IF Cmd[k].op = "READ" THEN "block" ELSE "data")
     \/ /\ ~Exists(k) \/ "open_fails" \in Faults
        /\ Goto(k, "err")
  /\ off' = [off EXCEPT ![k] = 0]
  /\ UNCHANGED <<procVars, tableVars, disk, slot, sockVars>>

\* One write() of op_append. Its result is not looked at: on a full disk
\* nothing is written and the thread goes on.
AppendToken(k, token) ==
  \/ disk' = [disk EXCEPT ![Path(k)] = Append(@, token)]
  \/ Path(k) \in FullFiles /\ UNCHANGED disk

OpAppendData(k) ==
  /\ At(k, "data")
  /\ AppendToken(k, Cmd[k].data)
  /\ Goto(k, "nl")
  /\ UNCHANGED <<procVars, tableVars, slot, off, sockVars>>

OpAppendNewline(k) ==
  /\ At(k, "nl")
  /\ AppendToken(k, NL)
  /\ Goto(k, "ok")
  /\ UNCHANGED <<procVars, tableVars, slot, off, sockVars>>

\* write() on the client's socket blocks while its buffer is full.
WriteClient(k, tokens) ==
  /\ ~hung[k]
  /\ Len(wire[k]) - nread[k] < SOCK_BUF
  /\ wire' = [wire EXCEPT ![k] = @ \o tokens]
  /\ UNCHANGED <<procVars, tableVars, disk, slot, request, nread, hung>>

\* op_read: one turn of the read()/write() loop; read() returning 0 ends it
\* and the end marker is written.
OpReadBlock(k) ==
  LET rest == Len(disk[Path(k)]) - off[k]
      n    == IF rest < BLOCK THEN rest ELSE BLOCK
  IN  /\ At(k, "block") /\ rest > 0
      /\ WriteClient(k, SubSeq(disk[Path(k)], off[k] + 1, off[k] + n))
      /\ off' = [off EXCEPT ![k] = @ + n]
      /\ UNCHANGED pc

\* Mutant: an interrupted read() is taken for the end of the file.
OpReadEnd_Interrupted(k) ==
  /\ At(k, "block")
  /\ WriteClient(k, <<"EOF">>)
  /\ Goto(k, "unlock")
  /\ UNCHANGED off

OpReadEnd(k) ==
  /\ At(k, "block") /\ off[k] = Len(disk[Path(k)])
  /\ WriteClient(k, <<"EOF">>)
  /\ Goto(k, "unlock")
  /\ UNCHANGED off

SendOk(k) ==
  /\ At(k, "ok")
  /\ WriteClient(k, <<"OK">>)
  /\ Goto(k, "unlock")
  /\ UNCHANGED off

\* Mutant: the early return of an error path skips the unlock.
SendError_NoUnlock(k) ==
  /\ At(k, "err")
  /\ WriteClient(k, <<"ERROR">>)
  /\ Goto(k, "close")
  /\ UNCHANGED off

\* send_error, with the file's mutex held or, when get_file_lock was not
\* called or returned NULL, without it.
SendError(k) ==
  /\ At(k, "err")
  /\ WriteClient(k, <<"ERROR">>)
  /\ Goto(k, IF slot[k] = 0 THEN "close" ELSE "unlock")
  /\ UNCHANGED off

\* No handler is installed for SIGPIPE: a write() on a connection whose
\* client has closed kills the process.
SigPipe(k) ==
  /\ up /\ pc[k] \in {"block", "ok", "err"} /\ hung[k]
  /\ Die

UnlockFile(k) ==
  /\ At(k, "unlock")
  /\ lock' = [lock EXCEPT ![slot[k]] = NoThread]
  /\ Goto(k, "close")
  /\ UNCHANGED <<procVars, file_locks, table_mutex, disk, slot, off, sockVars>>

CloseClient(k) ==
  /\ At(k, "close")
  /\ Goto(k, "done")
  /\ UNCHANGED <<procVars, tableVars, disk, slot, off, sockVars>>

GetFileLock(k) == LockTable(k) \/ SearchTable(k) \/ InsertEntry(k)
OpAppend(k) == OpAppendData(k) \/ OpAppendNewline(k)
OpRead(k) == OpReadBlock(k) \/ OpReadEnd(k)

Thread(k) ==
  \/ GererClient(k) \/ GetFileLock(k) \/ LockFile(k)
  \/ OpCreate(k) \/ OpOpen(k) \/ OpAppend(k) \/ OpRead(k)
  \/ SendOk(k) \/ SendError(k) \/ SigPipe(k)
  \/ UnlockFile(k) \/ CloseClient(k)

ServerNext == Accept \/ AcceptFails \/ Kill \/ Boot \/ \E k \in Conns : Thread(k)
=============================================================================
