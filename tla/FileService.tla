----------------------------- MODULE FileService ----------------------------
(***************************************************************************)
(* The file server with its clients, src/ex24_fileServer/client.c.         *)
(*                                                                         *)
(* A client process sends its commands one after the other through         *)
(* envoyer_commande, each on a connection of its own, as main does in demo *)
(* mode; in command-line mode it sends one. Connection <<c, i>> carries    *)
(* the i-th command of client c.                                           *)
(***************************************************************************)
EXTENDS FileServer, FiniteSets

CONSTANTS
  Clients,  \* the client processes
  Mortal,   \* those the user may interrupt
  Marked    \* the data whose text contains "EOF", "OK" or "ERROR"

ASSUME ClientAssumption ==
  /\ Conns \subseteq Clients \X (Nat \ {0})
  /\ \A c \in Clients : <<c, 1>> \in Conns
  /\ Mortal \subseteq Clients /\ Marked \subseteq Data

VARIABLES
  cpc,  \* cpc[c]: where client c is in envoyer_commande
  idx   \* idx[c]: the command client c is at

clientVars == <<cpc, idx>>
vars == <<serverVars, clientVars>>

ClientLabels == {"connect", "send", "recv", "stop", "failed"}

Conn(c) == <<c, idx[c]>>
Unread(k) == SubSeq(wire[k], nread[k] + 1, Len(wire[k]))
\* What the client of connection k has displayed.
Shown(k) == SubSeq(wire[k], 1, nread[k])

TypeOK ==
  /\ ServerTypeOK
  /\ cpc \in [Clients -> ClientLabels]
  /\ idx \in [Clients -> Nat \ {0}]

Init ==
  /\ ServerInit
  /\ cpc = [c \in Clients |-> "connect"]
  /\ idx = [c \in Clients |-> 1]

-----------------------------------------------------------------------------
ClientGoto(c, label) == cpc' = [cpc EXCEPT ![c] = label]

\* close(fd), then the next command of the demo, if any.
Finish(c) ==
  /\ hung' = [hung EXCEPT ![Conn(c)] = TRUE]
  /\ \/ /\ <<c, idx[c] + 1>> \in Conns
        /\ idx' = [idx EXCEPT ![c] = @ + 1]
        /\ ClientGoto(c, "connect")
     \/ /\ <<c, idx[c] + 1>> \notin Conns
        /\ ClientGoto(c, "stop")
        /\ UNCHANGED idx

\* connect(): waits while the listen queue is full; CHECK exits when nobody
\* listens.
Connect(c) ==
  /\ cpc[c] = "connect"
  /\ \/ /\ up /\ Len(queue) < BACKLOG
        /\ queue' = Append(queue, Conn(c))
        /\ ClientGoto(c, "send")
     \/ /\ ~up
        /\ ClientGoto(c, "failed")
        /\ UNCHANGED queue
  /\ UNCHANGED <<up, deaths, tableVars, disk, threadVars, sockVars, idx>>

\* write() of the command; SIGPIPE when the server has closed already.
SendCommand(c) ==
  /\ cpc[c] = "send"
  /\ \/ /\ pc[Conn(c)] # "done"
        /\ request' = [request EXCEPT ![Conn(c)] = TRUE]
        /\ ClientGoto(c, "recv")
        /\ UNCHANGED hung
     \/ /\ pc[Conn(c)] = "done"
        /\ hung' = [hung EXCEPT ![Conn(c)] = TRUE]
        /\ ClientGoto(c, "failed")
        /\ UNCHANGED request
  /\ UNCHANGED <<procVars, tableVars, disk, threadVars, wire, nread, idx>>

\* Mutant: any block read counts as the whole response.
EndsReply_OneBlock(tokens) == tokens # <<>>

\* strstr(buf, ...) on what this read() returned.
EndsReply(tokens) ==
  \E i \in 1..Len(tokens) : tokens[i] \in {"OK", "ERROR", "EOF"} \union Marked

\* One read() of the response, of at least one token: the loop is left when
\* the block holds a marker.
ReadReply(c) ==
  LET k == Conn(c)
  IN  /\ cpc[c] = "recv"
      /\ \E n \in 1..Len(Unread(k)) :
           /\ nread' = [nread EXCEPT ![k] = @ + n]
           /\ IF EndsReply(SubSeq(Unread(k), 1, n))
                THEN Finish(c)
                ELSE UNCHANGED <<hung, clientVars>>
      /\ UNCHANGED <<procVars, tableVars, disk, threadVars, request, wire>>

\* read() returns 0, or -1 after a reset: the server's end is closed.
ReadClosed(c) ==
  /\ cpc[c] = "recv"
  /\ Unread(Conn(c)) = <<>> /\ pc[Conn(c)] = "done"
  /\ Finish(c)
  /\ UNCHANGED <<procVars, tableVars, disk, threadVars, request, wire, nread>>

\* The user interrupts the client.
Interrupt(c) ==
  /\ c \in Mortal
  /\ cpc[c] \in {"send", "recv"}
  /\ hung' = [hung EXCEPT ![Conn(c)] = TRUE]
  /\ ClientGoto(c, "failed")
  /\ UNCHANGED <<procVars, tableVars, disk, threadVars, request, wire, nread,
                 idx>>

Client(c) == Connect(c) \/ SendCommand(c) \/ ReadReply(c) \/ ReadClosed(c)

ClientsDone == \A c \in Clients : cpc[c] \in {"stop", "failed"}

\* Every client has ended and the server waits in accept(), or is down.
Idle ==
  /\ ClientsDone
  /\ queue = <<>> /\ \A k \in Conns : pc[k] \in {"none", "done"}
  /\ UNCHANGED vars

Next ==
  \/ ServerNext /\ UNCHANGED clientVars
  \/ \E c \in Clients : Client(c) \/ Interrupt(c)
  \/ Idle

Spec == Init /\ [][Next]_vars

\* Threads and clients keep running; the operator, the user and the faults
\* are not obliged to act. Each mutex is taken by finitely many threads, so
\* weak fairness is enough for each of them to get it.
Fairness ==
  /\ WF_vars(Accept /\ UNCHANGED clientVars)
  /\ \A k \in Conns : WF_vars(Thread(k) /\ UNCHANGED clientVars)
  /\ \A c \in Clients : WF_vars(Client(c))

FairSpec == Spec /\ Fairness

-----------------------------------------------------------------------------
(* Safety.                                                                 *)

\* A thread between the open() of its file and its last write() to it.
Accessing(k) == up /\ pc[k] \in {"open", "block", "data", "nl"}

\* No two threads work on the same file at the same time: the "mutex par
\* fichier" of server.c's header, from get_file_lock to the unlock.
FileMutex ==
  \A j, k \in Conns :
    j # k /\ Accessing(j) /\ Accessing(k) => Path(j) # Path(k)

\* The table never holds two entries for one path, however many threads call
\* get_file_lock for it at once.
OneEntryPerFile ==
  \A i, j \in Slots : file_locks[i] = file_locks[j] => i = j \/ file_locks[i] = Free

\* Past pthread_mutex_lock(lock) and not past the unlock of it.
HoldsLock(k) == \/ pc[k] \in {"open", "block", "data", "nl", "ok", "unlock"}
                \/ pc[k] = "err" /\ slot[k] # 0

\* No early return leaves a mutex locked, and no holder waits for another one:
\* table_mutex is held by a thread in the loops of get_file_lock, the mutex of
\* an entry by a thread that was given this entry and works on its file.
HoldersProceed ==
  up => /\ table_mutex # NoThread => pc[table_mutex] \in {"search", "insert"}
        /\ \A i \in Slots : lock[i] # NoThread => slot[lock[i]] = i /\ HoldsLock(lock[i])

\* The entry a thread was given still stands for its file when it locks, uses
\* and unlocks it, and no mutex stays locked behind a thread: file_locks is
\* not recycled under a thread's feet, and nobody waits for one that has gone.
LocksOwnFile ==
  /\ \A k \in Conns :
       up /\ slot[k] # 0 /\ pc[k] # "done" => file_locks[slot[k]] = Stored[Path(k)]
  /\ HoldersProceed

\* The data tokens of file f that no line end follows.
Unended(f) ==
  {p \in 1..Len(disk[f]) : disk[f][p] # NL /\ (p < Len(disk[f]) => disk[f][p + 1] # NL)}

\* The two write() of op_append are never separated by another thread's: a
\* line end always follows data, and data lacks its line end only while its
\* append is under way, or because the server ended between the two.
WholeLines ==
  \A f \in Files \ FullFiles : disk[f] # Absent =>
    /\ \A p \in 1..Len(disk[f]) : disk[f][p] = NL => p > 1 /\ disk[f][p - 1] # NL
    /\ Cardinality(Unended(f)) <=
         deaths + (IF \E k \in Conns : At(k, "nl") /\ Path(k) = f THEN 1 ELSE 0)

Acked(k) == \E i \in 1..nread[k] : wire[k][i] = "OK"

\* An APPEND to one of the files F whose client was shown "OK" left its own
\* whole line in the file.
LinesKept(F) ==
  \A f \in F, d \in Data :
    LET acked == {k \in Conns : /\ Cmd[k] = [op |-> "APPEND", file |-> f, data |-> d]
                                /\ Acked(k)}
    IN  acked # {} =>
          /\ disk[f] # Absent
          /\ Cardinality(acked) <=
               Cardinality({p \in 1..(Len(disk[f]) - 1) :
                              disk[f][p] = d /\ disk[f][p + 1] = NL})

\* While write() does not fail on the file, no crash, restart or other client
\* takes away a line whose client was shown "OK".
AckedKept == LinesKept(Files \ FullFiles)

\* The protocol's "OK\n" ou "ERROR: ...\n" (server.c:17): "OK" is the answer
\* to an APPEND that was done, on any file.
OkMeansDone == LinesKept(Files)

\* At most one CREATE of a file is ever acknowledged, across restarts too.
CreateOnce ==
  \A j, k \in Conns :
    /\ Cmd[j].op = "CREATE" /\ Cmd[k].op = "CREATE" /\ Path(j) = Path(k)
    /\ Acked(j) /\ Acked(k)
    => j = k

\* A complete response to READ is a prefix of the file, and holds every line
\* the same client was told is in it before, if write() works on the file.
ReadConsistent ==
  \A k \in Conns :
    LET n == nread[k] - 1
    IN  /\ Cmd[k].op = "READ" /\ n >= 0 /\ wire[k][n + 1] = "EOF"
        => /\ n <= Len(disk[Path(k)]) /\ SubSeq(wire[k], 1, n) = SubSeq(disk[Path(k)], 1, n)
           /\ \A j \in Conns :
                /\ Cmd[j].op = "APPEND" /\ Path(j) = Path(k) /\ Path(k) \notin FullFiles
                /\ j[1] = k[1] /\ j[2] < k[2] /\ Acked(j)
                => \E p \in 1..n : wire[k][p] = Cmd[j].data

\* While nobody kills the server, no client makes it stop.
ServerSurvives == up

\* A client that ended normally read its response "jusqu'a fermeture ou EOF"
\* (client.c:37): up to the marker or to the closing of the connection.
ReadsToEnd ==
  \A k \in Conns :
    /\ hung[k] /\ cpc[k[1]] # "failed" /\ Cmd[k].op = "READ"
    => pc[k] = "done" \/ \E i \in 1..nread[k] : wire[k][i] \in {"EOF", "ERROR"}

-----------------------------------------------------------------------------
(* Liveness and refinement.                                                *)

\* Every client ends, every thread ends, and the server is left waiting for
\* connections: nobody waits for a mutex or a response for ever.
AllServed ==
  <>[](ClientsDone /\ queue = <<>> /\ \A k \in Conns : pc[k] \in {"none", "done"})

\* The file as it is without the first half of an append under way.
Lines(f) ==
  IF \E k \in Conns : At(k, "nl") /\ Path(k) = f
    THEN SubSeq(disk[f], 1, Len(disk[f]) - 1)
    ELSE disk[f]

\* The whole response to k, from the step that decides it.
Response(k) ==
  CASE pc[k] = "block" -> disk[Path(k)] \o <<"EOF">>
    [] pc[k] = "ok" -> <<"OK">>
    [] pc[k] = "err" -> <<"ERROR">>
    [] OTHER -> wire[k]

\* On a full disk write() may fail, which op_append ignores: the promise is
\* about the other files.
SoundFiles == Files \ FullFiles
SoundConns == {k \in Conns : Path(k) \notin FullFiles}

TableTooSmall == Cardinality({Path(k) : k \in Conns}) > MAX_FILES

Store == INSTANCE FileStore WITH
  Conns <- SoundConns,
  Files <- SoundFiles,
  store <- [f \in SoundFiles |-> Lines(f)],
  asked <- [k \in SoundConns |-> request[k]],
  open <- [k \in SoundConns |-> pc[k] # "done"],
  result <- [k \in SoundConns |-> Response(k)],
  seen <- [k \in SoundConns |-> nread[k]],
  CanRefuse <- TableTooSmall \/ "open_fails" \in Faults,
  CanDrop <- "thread_fails" \in Faults,
  CanCrash <- MAX_DEATHS > 0 \/ Mortal # {} \/ Marked # {}

\* The threads, locks and partial writes implement one atomic store, across
\* the deaths and restarts of the server, on the files whose write()s succeed.
Durable == Store!Spec

\* While the server lives and nothing fails, every command is also answered.
Linearizable == Store!FairSpec
=============================================================================
