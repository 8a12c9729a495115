------------------------------ MODULE NewFile ------------------------------
(***************************************************************************)
(* How `torrent create` makes its output file (cmd/torrent/main.go, create *)
(* and writeNewFile): it looks whether the file exists, hashes the source  *)
(* for as long as that takes, writes a temporary file beside the output    *)
(* and links it under the output's name.  Several processes may be         *)
(* creating the same output, any system call may fail, and a process may   *)
(* be killed between any two of them.                                      *)
(***************************************************************************)
EXTENDS Naturals

CONSTANTS Creator   \* the processes

VARIABLES
  creator,   \* where each process is
  temp,      \* what is in the temporary file of each
  output     \* the file under the output's name: absent, or whose and how much of it

creation == <<creator, temp, output>>

Absent == [by |-> {}, holds |-> "nothing"]

NewFileInit ==
  /\ creator = [c \in Creator |-> "idle"]
  /\ temp = [c \in Creator |-> "none"]
  /\ output = Absent

Goes(c, from, to) == creator[c] = from /\ creator' = [creator EXCEPT ![c] = to]

\* os.Stat of the output, before anything is read.
StatOutput(c) ==
  /\ Goes(c, "idle", IF output = Absent THEN "hashing" ELSE "failed")
  /\ UNCHANGED <<temp, output>>

\* The source is hashed and encoded, the directory made.
CreateTemp(c) ==
  /\ Goes(c, "hashing", "writing")
  /\ temp' = [temp EXCEPT ![c] = "nothing"]
  /\ UNCHANGED output

\* The source, the metainfo, the directory or the temporary file fails.
CreateFails(c) ==
  /\ Goes(c, "hashing", "failed")
  /\ UNCHANGED <<temp, output>>

\* Write in several pieces, as far as anyone can see.
WriteSome(c) ==
  /\ Goes(c, "writing", "writing") /\ temp[c] = "nothing"
  /\ temp' = [temp EXCEPT ![c] = "part"]
  /\ UNCHANGED output

\* The rest of Write, Chmod and Close.
WriteTemp(c) ==
  /\ Goes(c, "writing", "linking")
  /\ temp' = [temp EXCEPT ![c] = "all"]
  /\ UNCHANGED output

\* Write, Chmod or Close fails.
WriteFails(c) ==
  /\ Goes(c, "writing", "removing")
  /\ UNCHANGED <<temp, output>>

Link_rename(c) ==
  /\ Goes(c, "linking", "linked")
  /\ output' = [by |-> {c}, holds |-> temp[c]]
  /\ UNCHANGED temp

Link_early(c) ==
  /\ creator[c] \in { "writing", "linking" } /\ output = Absent
  /\ creator' = [creator EXCEPT ![c] = "linked"]
  /\ output' = [by |-> {c}, holds |-> temp[c]]
  /\ UNCHANGED temp

\* os.Link refuses a name that is taken.
Link(c) ==
  /\ Goes(c, "linking", "linked") /\ output = Absent
  /\ output' = [by |-> {c}, holds |-> temp[c]]
  /\ UNCHANGED temp

LinkFails(c) ==
  /\ Goes(c, "linking", "removing")
  /\ UNCHANGED <<temp, output>>

\* The deferred os.Remove, on every way out.
RemoveTemp(c) ==
  /\ Goes(c, "linked", "created") \/ Goes(c, "removing", "failed")
  /\ temp' = [temp EXCEPT ![c] = "none"]
  /\ UNCHANGED output

Ended == { "created", "failed", "killed" }

Killed(c) ==
  /\ creator[c] \notin Ended \cup {"idle"}
  /\ creator' = [creator EXCEPT ![c] = "killed"]
  /\ UNCHANGED <<temp, output>>

NewFileNext ==
  \E c \in Creator : \/ StatOutput(c) \/ CreateTemp(c) \/ CreateFails(c) \/ WriteSome(c)
                     \/ WriteTemp(c) \/ WriteFails(c) \/ Link(c) \/ LinkFails(c) \/ RemoveTemp(c)
                     \/ Killed(c)

NewFileSpec == NewFileInit /\ [][NewFileNext]_creation

-----------------------------------------------------------------------------
(***************************************************************************)
(* A process that reports success made the file: the output holds all of   *)
(* that process's metainfo, so two never both report it; one that was not  *)
(* killed leaves no temporary file; and nobody, killed or failing at any   *)
(* step, leaves a part of a metainfo under the output's name.              *)
(***************************************************************************)
CreatedIsWhole ==
  /\ output # Absent => output.holds = "all"
  /\ \A c \in Creator : creator[c] = "created" => output.by = {c}
  /\ \A c \in Creator : creator[c] \in { "created", "failed" } => temp[c] = "none"

(***************************************************************************)
(* An output that is there stays as it is, although the check that it does *)
(* not exist is long past when the file is made.                           *)
(***************************************************************************)
OutputStays == [][output # Absent => output' = output]_creation

(***************************************************************************)
(* Of all the processes that create one output at once, with failures and  *)
(* kills at any step, at most one makes it, whole and for good.            *)
(***************************************************************************)
CreatedOnce == []CreatedIsWhole /\ OutputStays
=============================================================================
