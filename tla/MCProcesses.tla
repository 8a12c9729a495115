---------------------------- MODULE MCProcesses ----------------------------
(* The small machines around the torrent, each explored on its own in one   *)
(* state space: machine says which of them a behaviour is about, and the    *)
(* others stay in their initial states.  None of the fair actions of a      *)
(* machine is enabled in its initial states, so the fairness of one asks    *)
(* nothing of the behaviours of another.                                    *)
EXTENDS Client, Pairing, Supervisor, Bulk, NewFile, TLC

CONSTANTS t1, h1, s1, s2, u1, c1

OneTorrent  == t1 :> h1
TwoStarts   == (s1 :> h1) @@ (s2 :> h1)
OneRemoval  == u1 :> h1
OneConn     == c1 :> h1

VARIABLE machine

AllInit == /\ machine \in { "client", "pairing", "supervisor", "bulk", "newfile" }
           /\ Init /\ PairingInit /\ BulkInit /\ NewFileInit
           /\ SupervisorInit
           /\ machine # "supervisor" => parts = {"announce"}

AllNext ==
  \/ machine = "client" /\ Next /\ UNCHANGED <<machine, pairing, supervisor, fanout, creation>>
  \/ machine = "pairing" /\ PairingNext /\ UNCHANGED <<machine, vars, supervisor, fanout, creation>>
  \/ machine = "supervisor" /\ SupervisorNext /\ UNCHANGED <<machine, vars, pairing, fanout, creation>>
  \/ machine = "bulk" /\ BulkNext /\ UNCHANGED <<machine, vars, pairing, supervisor, creation>>
  \/ machine = "newfile" /\ NewFileNext /\ UNCHANGED <<machine, vars, pairing, supervisor, fanout>>

AllSpec ==
  /\ AllInit /\ [][AllNext]_<<machine, vars, pairing, supervisor, fanout, creation>>
  /\ Fairness /\ PairingFairness /\ SupervisorFairness /\ BulkFairness

(***************************************************************************)
(* Nobody around a torrent waits for ever: ServePeers for its handlers, a  *)
(* loop for the handshake of a peer that dials back, a dead peer for its   *)
(* removal, a command for its components, a worker of a bulk operation for *)
(* its collector.                                                          *)
(***************************************************************************)
NobodyWaitsForEver == ServeEnds /\ DialsEnd /\ DeadPeersLeave /\ CommandEnds /\ WorkersReturn
=============================================================================
