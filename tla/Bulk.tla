-------------------------------- MODULE Bulk --------------------------------
(***************************************************************************)
(* The operations on all torrents of a client (client/management.go):      *)
(* TorrentStatuses and PauseAllDownloads copy the table under mu, ask      *)
(* every torrent from a goroutine of its own and collect the answers from  *)
(* a channel with room for all of them.  The caller's context may end at   *)
(* any moment; the workers share it.                                       *)
(***************************************************************************)
EXTENDS Naturals, Sequences, SequencesExt, FiniteSets

CONSTANTS
  BulkTorrents   \* the torrents that may be registered when the call is made

ASSUME BulkAssumption == IsFiniteSet(BulkTorrents)

VARIABLES
  op,         \* which of the two was called
  bulk,       \* where the call is
  targets,    \* the torrents copied from the table, in the map's order
  spawned,    \* the number of goroutines started
  worker,     \* where each goroutine is
  channel,    \* the answers in the channel
  response,   \* the answers collected
  ctxOver,    \* the caller's context is done
  ctxErr      \* the call returned ctx.Err()

fanout == <<op, bulk, targets, spawned, worker, channel, response, ctxOver, ctxErr>>

Orders == UNION { SetToSeqs(S) : S \in SUBSET BulkTorrents }

BulkInit ==
  /\ op = "none" /\ bulk = "idle" /\ targets = <<>> /\ spawned = 0
  /\ worker = <<>> /\ channel = <<>> /\ response = <<>> /\ ctxOver = FALSE /\ ctxErr = FALSE

\* The table is copied under mu; maps are ranged over in any order.
CopyTable(o) ==
  /\ bulk = "idle" /\ bulk' = "spawning" /\ op' = o
  /\ targets' \in Orders
  /\ worker' = [i \in 1 .. Len(targets') |-> "none"]
  /\ UNCHANGED <<spawned, channel, response, ctxOver, ctxErr>>

TorrentStatuses == CopyTable("TorrentStatuses")
PauseAllDownloads == CopyTable("PauseAllDownloads")

ContextEnds ==
  /\ bulk # "idle" /\ ~ctxOver /\ ctxOver' = TRUE
  /\ UNCHANGED <<op, bulk, targets, spawned, worker, channel, response, ctxErr>>

StartWorker ==
  /\ bulk = "spawning"
  /\ IF spawned < Len(targets)
       THEN /\ spawned' = spawned + 1 /\ UNCHANGED bulk
            /\ worker' = [worker EXCEPT ![spawned + 1] = "started"]
       ELSE bulk' = "collecting" /\ UNCHANGED <<spawned, worker>>
  /\ UNCHANGED <<op, targets, channel, response, ctxOver, ctxErr>>

\* ReqStatus or PauseDownload returns: with the torrent's answer, because the
\* torrent does not run or stops, or because ctx is done.
AskTorrent(i) ==
  /\ worker[i] = "started"
  /\ worker' = [worker EXCEPT ![i] = "answered"]
  /\ UNCHANGED <<op, bulk, targets, spawned, channel, response, ctxOver, ctxErr>>

SendAnswer_shared(i) ==
  /\ worker[i] = "answered" /\ Len(channel) < Len(targets)
  /\ worker' = [worker EXCEPT ![i] = "returned"]
  /\ channel' = Append(channel, targets[spawned])
  /\ UNCHANGED <<op, bulk, targets, spawned, response, ctxOver, ctxErr>>

SendAnswer_unbuffered(i) ==
  /\ worker[i] = "answered" /\ channel = <<>> /\ bulk # "returned"
  /\ worker' = [worker EXCEPT ![i] = "returned"]
  /\ channel' = Append(channel, targets[i])
  /\ UNCHANGED <<op, bulk, targets, spawned, response, ctxOver, ctxErr>>

\* The goroutine has the loop's variable of its own iteration.
SendAnswer(i) ==
  /\ worker[i] = "answered" /\ Len(channel) < Len(targets)
  /\ worker' = [worker EXCEPT ![i] = "returned"]
  /\ channel' = Append(channel, targets[i])
  /\ UNCHANGED <<op, bulk, targets, spawned, response, ctxOver, ctxErr>>

CollectAnswer ==
  /\ bulk = "collecting" /\ Len(response) < Len(targets) /\ channel # <<>>
  /\ response' = Append(response, Head(channel)) /\ channel' = Tail(channel)
  /\ UNCHANGED <<op, bulk, targets, spawned, worker, ctxOver, ctxErr>>

BulkReturns ==
  /\ bulk = "collecting" /\ Len(response) = Len(targets)
  /\ bulk' = "returned"
  /\ UNCHANGED <<op, targets, spawned, worker, channel, response, ctxOver, ctxErr>>

\* The select takes ctx.Done(); only PauseAllDownloads has an error to return.
CutShort ==
  /\ bulk = "collecting" /\ Len(response) < Len(targets) /\ ctxOver
  /\ bulk' = "returned" /\ ctxErr' = (op = "PauseAllDownloads")
  /\ UNCHANGED <<op, targets, spawned, worker, channel, response, ctxOver>>

BulkNext == \/ TorrentStatuses \/ PauseAllDownloads \/ ContextEnds
            \/ StartWorker \/ CollectAnswer \/ BulkReturns \/ CutShort
            \/ \E i \in DOMAIN worker : AskTorrent(i) \/ SendAnswer(i)

BulkSpec == BulkInit /\ [][BulkNext]_fanout

-----------------------------------------------------------------------------
(***************************************************************************)
(* One answer per torrent.  A call whose context did not end returns       *)
(* exactly one answer of each torrent that was registered, each asked by   *)
(* its own goroutine; cut short by the context, it returns fewer, but      *)
(* never one twice and never one that was not registered, and              *)
(* PauseAllDownloads says so with an error.                                *)
(***************************************************************************)
AnswersExact ==
  /\ IsInjective(response) /\ ToSet(response) \subseteq ToSet(targets)
  /\ bulk = "returned" /\ ~ctxErr /\ (ctxOver => op = "PauseAllDownloads")
       => ToSet(response) = ToSet(targets)

-----------------------------------------------------------------------------
(* Goroutines move when they can.  A torrent may leave a request without   *)
(* an answer for ever, when a peer or the tracker keeps its loop waiting   *)
(* (RequestsReturn of TorrentControl), but a request ends with its ctx.    *)
BulkFairness ==
  /\ WF_fanout(StartWorker) /\ WF_fanout(CollectAnswer \/ BulkReturns \/ CutShort)
  /\ \A i \in 1 .. Cardinality(BulkTorrents) :
        WF_fanout(i \in DOMAIN worker /\ (SendAnswer(i) \/ (ctxOver /\ AskTorrent(i))))

(***************************************************************************)
(* The call returns, and after it every goroutine it started, although the *)
(* collector may leave while they are still asking: nobody waits for a     *)
(* place in a channel that is no longer read.  Only a torrent that never   *)
(* answers can keep its goroutine, and the call, and only while the        *)
(* context of the caller goes on.                                          *)
(***************************************************************************)
WorkersReturn ==
  bulk = "spawning" ~>
    \/ bulk = "returned" /\ \A i \in DOMAIN worker : worker[i] = "returned"
    \/ [](~ctxOver /\ \E i \in DOMAIN worker : worker[i] = "started")
=============================================================================
