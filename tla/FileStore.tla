------------------------------ MODULE FileStore -----------------------------
(***************************************************************************)
(* What the file server promises its clients: every command takes effect   *)
(* at one instant between the moment it is sent and the moment its         *)
(* response is shown, CREATE and APPEND leave whole lines, and READ        *)
(* returns the file as it was at that instant (the protocol in the header  *)
(* of src/ex24_fileServer/server.c). When the server ends, the commands it *)
(* has not decided never take effect, but for one half line per file; the  *)
(* responses it has not sent are cut short.                                *)
(***************************************************************************)
EXTENDS Integers, Sequences

CONSTANTS Conns, Cmd, Files, Data, NL, Absent,
          Existing,  \* the files that are there from the start
          CanRefuse, \* a command may be answered ERROR for lack of resources
          CanDrop,   \* a command may be left without an answer
          CanCrash   \* the server may end

VARIABLES
  store,   \* store[f]: the lines of file f, or Absent
  asked,   \* asked[k]: the command of k has been sent
  open,    \* open[k]: the server has not closed the connection k
  result,  \* result[k]: the whole response to k, <<>> while undecided
  seen     \* seen[k]: how much of the response the client has been shown

vars == <<store, asked, open, result, seen>>

Init ==
  /\ store = [f \in Files |-> IF f \in Existing THEN <<>> ELSE Absent]
  /\ asked = [k \in Conns |-> FALSE]
  /\ open = [k \in Conns |-> TRUE]
  /\ result = [k \in Conns |-> <<>>]
  /\ seen = [k \in Conns |-> 0]

Ask(k) ==
  /\ open[k] /\ ~asked[k]
  /\ asked' = [asked EXCEPT ![k] = TRUE]
  /\ UNCHANGED <<store, open, result, seen>>

\* The server has still to decide the command of k.
Pending(k) == open[k] /\ asked[k] /\ result[k] = <<>>

Answer(k, response) ==
  /\ Pending(k)
  /\ result' = [result EXCEPT ![k] = response]
  /\ UNCHANGED <<asked, open, seen>>

Create(k) ==
  /\ Cmd[k].op = "CREATE" /\ store[Cmd[k].file] = Absent
  /\ store' = [store EXCEPT ![Cmd[k].file] = <<>>]
  /\ Answer(k, <<"OK">>)

AppendLine(k) ==
  /\ Cmd[k].op = "APPEND" /\ store[Cmd[k].file] # Absent
  /\ store' = [store EXCEPT ![Cmd[k].file] = @ \o <<Cmd[k].data, NL>>]
  /\ Answer(k, <<"OK">>)

Read(k) ==
  /\ Cmd[k].op = "READ" /\ store[Cmd[k].file] # Absent
  /\ Answer(k, store[Cmd[k].file] \o <<"EOF">>)
  /\ UNCHANGED store

Reject(k) ==
  /\ \/ Cmd[k].op = "CREATE" /\ store[Cmd[k].file] # Absent
     \/ Cmd[k].op \in {"READ", "APPEND"} /\ store[Cmd[k].file] = Absent
     \/ Cmd[k].op \in {"NODATA", "OTHER"}
     \/ CanRefuse
  /\ Answer(k, <<"ERROR">>)
  /\ UNCHANGED store

Show(k) ==
  /\ \E n \in (seen[k] + 1)..Len(result[k]) : seen' = [seen EXCEPT ![k] = n]
  /\ UNCHANGED <<store, asked, open, result>>

Close(k) ==
  /\ open[k] /\ (Pending(k) => CanDrop)
  /\ open' = [open EXCEPT ![k] = FALSE]
  /\ UNCHANGED <<store, asked, result, seen>>

\* What the end of the server leaves of file f: at worst it is in the middle
\* of one of the appends it has not answered.
Torn(f) ==
  \/ store'[f] = store[f]
  \/ \E k \in Conns :
       /\ Pending(k) /\ Cmd[k].op = "APPEND" /\ Cmd[k].file = f
       /\ store[f] # Absent /\ store'[f] = Append(store[f], Cmd[k].data)

\* What it leaves of the response to k: at least what the client was shown,
\* and all of it when it had closed the connection.
Cut(k) ==
  IF open[k]
    THEN \E n \in seen[k]..Len(result[k]) : result'[k] = SubSeq(result[k], 1, n)
    ELSE result'[k] = result[k]

Crash ==
  /\ CanCrash
  /\ UNCHANGED <<asked, seen>>
  /\ open' = [k \in Conns |-> open'[k]]
  /\ \A k \in Conns : open'[k] => open[k] /\ ~asked[k]
  /\ result' = [k \in Conns |-> result'[k]] /\ \A k \in Conns : Cut(k)
  /\ store' = [f \in Files |-> store'[f]] /\ \A f \in Files : Torn(f)

Decide(k) == Create(k) \/ AppendLine(k) \/ Read(k) \/ Reject(k)

Next == Crash \/ \E k \in Conns : Ask(k) \/ Decide(k) \/ Show(k) \/ Close(k)

Spec == Init /\ [][Next]_vars

\* A command that was sent is answered, and its client sees the answer.
FairSpec == Spec /\ \A k \in Conns : WF_vars(Decide(k)) /\ WF_vars(Show(k))
=============================================================================
