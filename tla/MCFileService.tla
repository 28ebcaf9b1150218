--------------------------- MODULE MCFileService ----------------------------
(***************************************************************************)
(* Scenarios for FileService: the commands each client sends, in order.    *)
(***************************************************************************)
EXTENDS FileService, TLC

CONSTANTS c1, c2,  \* clients
          f1, f2,  \* files
          d1, d2   \* data

Create(f) == [op |-> "CREATE", file |-> f, data |-> d1]
Read(f) == [op |-> "READ", file |-> f, data |-> d1]
Append1(f, d) == [op |-> "APPEND", file |-> f, data |-> d]
NoData(f) == [op |-> "NODATA", file |-> f, data |-> d1]

ConnsOf(script) ==
  UNION {{<<c, i>> : i \in 1..Len(script[c])} : c \in DOMAIN script}
CmdOf(script) == [k \in ConnsOf(script) |-> script[k[1]][k[2]]]

\* Two writers of one file.
Writers ==
  c1 :> <<Append1(f1, d1)>> @@
  c2 :> <<Append1(f1, d2)>>
WritersConns == ConnsOf(Writers)
WritersCmd == CmdOf(Writers)

\* Two creators, two writers and a reader of one file, and a line
\* traiter_commande rejects.
Errors ==
  c1 :> <<Create(f1), Append1(f1, d1), NoData(f1)>> @@
  c2 :> <<Create(f1), Append1(f1, d2), Read(f1)>>
ErrorsConns == ConnsOf(Errors)
ErrorsCmd == CmdOf(Errors)

\* One client writes a line and reads it back; the other overtakes it.
Solo == c1 :> <<Create(f1), Append1(f1, d1), Read(f1)>>
SoloConns == ConnsOf(Solo)
SoloCmd == CmdOf(Solo)

\* A client appends to a file and reads it back while another one tries to
\* create the file, appends to it too, and then to another one.
Rival ==
  c1 :> <<Append1(f1, d1), Read(f1)>> @@
  c2 :> <<Create(f1), Append1(f1, d2), Append1(f2, d2)>>
RivalConns == ConnsOf(Rival)
RivalCmd == CmdOf(Rival)

\* strncpy keeps a path shorter than FileLock.path, and truncates a longer one.
Whole == [f \in Files |-> f]
Truncated == [f \in Files |-> "truncated"]
=============================================================================
