----------------------------- MODULE Supervisor -----------------------------
(***************************************************************************)
(* How the commands start their components, wait for them and stop them:   *)
(* runSingleTorrent with serveTorrentStatus (cmd/torrent/main.go) and      *)
(* serve with serveHTTP (cmd/tracker/main.go).  The two have one shape:    *)
(* every component runs on its own goroutine under runCtx and puts its     *)
(* error into results; the command takes the first result or the signal,   *)
(* cancels, collects the other results and returns.                        *)
(*                                                                         *)
(* The inside of ServePeers and RunDownload is in Client, TorrentLoop and  *)
(* TorrentControl; here each ends once, with an error.                     *)
(***************************************************************************)
EXTENDS Naturals, Sequences, FiniteSets

\* The components of a command, with and without the optional status page.
Commands == { {"peers", "run"}, {"peers", "run", "status"}, {"announce"}, {"announce", "status"} }

\* The components that are an http.Server, and those with a listener.
HTTP == { "announce", "status" }
Listeners == HTTP \cup { "peers" }

VARIABLES
  parts,      \* the components of this command
  command,    \* where the command is
  bound,      \* the listeners that are open
  signalled,  \* ctx is done: the process got a signal
  cancelled,  \* cancel has been called
  part,       \* where each component is, or the kind of error it ended with
  watcher,    \* the goroutine that shuts an http.Server down
  results,    \* the channel: the components whose result waits in it
  first,      \* the kind of the result the select took, or "none"
  collected,  \* the number of results taken
  verdict     \* the kind of error the command returns

startup     == <<parts, bound>>
supervising == <<command, first, collected, verdict>>
supervisor  == <<startup, supervising, signalled, cancelled, part, watcher, results>>

SupervisorInit ==
  /\ parts \in Commands
  /\ command = "start" /\ bound = {} /\ signalled = FALSE /\ cancelled = FALSE
  /\ part = [p \in parts |-> "none"]
  /\ watcher = [p \in parts |-> "none"]
  /\ results = <<>> /\ first = "none" /\ collected = 0 /\ verdict = "none"

runCtxDone == signalled \/ cancelled

-----------------------------------------------------------------------------
(* Starting.                                                               *)

\* The listener for peers or announces.
Listen ==
  /\ command = "start"
  /\ command' = "listening"
  /\ bound' = (parts \cap Listeners) \ {"status"}
  /\ UNCHANGED <<parts, first, collected, verdict, signalled, cancelled, part, watcher, results>>

\* The listener of the status page.
ListenStatus ==
  /\ command = "listening" /\ "status" \in parts \ bound
  /\ bound' = bound \cup {"status"}
  /\ UNCHANGED <<parts, supervising, signalled, cancelled, part, watcher, results>>

\* A listener or the tracker's server cannot be made: the first listener is closed.
StartFails ==
  /\ \/ command = "start"
     \/ command = "listening" /\ "status" \notin bound /\ parts # {"peers", "run"}
  /\ bound' = {}
  /\ command' = "returned" /\ verdict' = "failed"
  /\ UNCHANGED <<parts, first, collected, signalled, cancelled, part, watcher, results>>

\* The go statements.
Spawn ==
  /\ command = "listening" /\ bound = parts \cap Listeners
  /\ command' = "select"
  /\ part' = [p \in parts |-> "serving"]
  /\ watcher' = [p \in parts |-> IF p \in HTTP THEN "waiting" ELSE "none"]
  /\ UNCHANGED <<startup, first, collected, verdict, signalled, cancelled, results>>

-----------------------------------------------------------------------------
(* The components.                                                         *)

Signal ==
  /\ ~signalled /\ signalled' = TRUE
  /\ UNCHANGED <<startup, supervising, cancelled, part, watcher, results>>

\* A component ends with an error of kind k; its result finds room in the channel.
Ends(p, k) ==
  /\ part' = [part EXCEPT ![p] = k]
  /\ results' = Append(results, p)

\* ServePeers: whatever made Accept fail, ctx.Err() is what counts when it is set.
ServePeersEnds ==
  /\ "peers" \in parts /\ part["peers"] = "serving"
  /\ bound' = bound \ {"peers"}
  /\ Ends("peers", IF runCtxDone THEN "canceled" ELSE "failed")
  /\ UNCHANGED <<parts, supervising, signalled, cancelled, watcher>>

\* RunDownload: its first announce fails, or its context is done.
RunEnds(k) ==
  /\ "run" \in parts /\ part["run"] = "serving"
  /\ k = "canceled" => runCtxDone
  /\ Ends("run", k)
  /\ UNCHANGED <<startup, supervising, signalled, cancelled, watcher>>

\* server.Serve returns, by itself or because Shutdown closed the listener.
ServeHTTPReturns(p) ==
  /\ p \in HTTP /\ part[p] = "serving"
  /\ part' = [part EXCEPT ![p] = "served"]
  /\ bound' = bound \ {p}
  /\ UNCHANGED <<parts, supervising, signalled, cancelled, watcher, results>>

\* With the context done, serveHTTP waits for the end of Shutdown.
ServeHTTPEnds(p) ==
  /\ p \in HTTP /\ part[p] = "served"
  /\ IF runCtxDone THEN watcher[p] = "done" /\ Ends(p, "canceled") ELSE Ends(p, "failed")
  /\ UNCHANGED <<startup, supervising, signalled, cancelled, watcher>>

\* Shutdown closes the listener, ...
Shutdown(p) ==
  /\ watcher[p] = "waiting" /\ runCtxDone
  /\ watcher' = [watcher EXCEPT ![p] = "shutdown"]
  /\ bound' = bound \ {p}
  /\ UNCHANGED <<parts, supervising, signalled, cancelled, part, results>>

\* ... and is over when the connections are idle or after five seconds.
ShutdownDone(p) ==
  /\ watcher[p] = "shutdown"
  /\ watcher' = [watcher EXCEPT ![p] = "done"]
  /\ UNCHANGED <<startup, supervising, signalled, cancelled, part, results>>

-----------------------------------------------------------------------------
(* The command's select and what follows it.                               *)

FirstResult_idle ==
  /\ command = "select" /\ results # <<>>
  /\ command' = "collecting" /\ first' = part[Head(results)]
  /\ results' = Tail(results) /\ collected' = 1
  /\ UNCHANGED <<startup, verdict, signalled, cancelled, part, watcher>>

FirstResult ==
  /\ command = "select" /\ results # <<>>
  /\ command' = "collecting" /\ first' = part[Head(results)]
  /\ results' = Tail(results) /\ collected' = 1
  /\ cancelled' = TRUE
  /\ UNCHANGED <<startup, verdict, signalled, part, watcher>>

\* The tracker leaves out the call of cancel, which its signalled parent makes needless.
SignalSeen ==
  /\ command = "select" /\ signalled
  /\ command' = "collecting"
  /\ cancelled' = (cancelled \/ "run" \in parts)
  /\ UNCHANGED <<startup, first, collected, verdict, signalled, part, watcher, results>>

Collect ==
  /\ command = "collecting" /\ collected < Cardinality(parts) /\ results # <<>>
  /\ results' = Tail(results) /\ collected' = collected + 1
  /\ UNCHANGED <<startup, command, first, verdict, signalled, cancelled, part, watcher>>

Judged_first == IF first = "none" THEN "nil" ELSE first

\* A signal is no error, and neither is the cancellation it causes.
Judged == IF first = "none" \/ (signalled /\ first = "canceled") THEN "nil" ELSE first

Return_first ==
  /\ command = "collecting"
  /\ command' = "returned" /\ verdict' = Judged /\ cancelled' = TRUE
  /\ UNCHANGED <<startup, first, collected, signalled, part, watcher, results>>

\* The deferred cancel runs as well.
Return ==
  /\ command = "collecting" /\ collected = Cardinality(parts)
  /\ command' = "returned" /\ verdict' = Judged /\ cancelled' = TRUE
  /\ UNCHANGED <<startup, first, collected, signalled, part, watcher, results>>

SupervisorNext ==
  \/ Listen \/ ListenStatus \/ StartFails \/ Spawn \/ Signal
  \/ ServePeersEnds \/ RunEnds("canceled") \/ RunEnds("failed")
  \/ \E p \in parts : ServeHTTPReturns(p) \/ ServeHTTPEnds(p) \/ Shutdown(p) \/ ShutdownDone(p)
  \/ FirstResult \/ SignalSeen \/ Collect \/ Return

SupervisorSpec == SupervisorInit /\ [][SupervisorNext]_supervisor

-----------------------------------------------------------------------------
Failed(p) == part[p] = "failed"

(***************************************************************************)
(* A command that has returned leaves nothing at work: every component it  *)
(* started has ended, RunDownload among them, whose last act is to close   *)
(* the file, and no listener is open, also when the start fails half way.  *)
(***************************************************************************)
NothingLeftRunning ==
  command = "returned" => /\ bound = {} /\ results = <<>>
                          /\ \A p \in parts : part[p] \notin { "serving", "served" }

(***************************************************************************)
(* The exit status tells a stop from a failure.  The select chooses at     *)
(* random between a signal and the cancellations it causes, and a failure  *)
(* cancels the others: the command never reports a cancellation, reports   *)
(* success only after a signal, and reports failure only when the start    *)
(* failed or a component did.                                              *)
(***************************************************************************)
VerdictHonest ==
  command = "returned" =>
    /\ verdict \in { "nil", "failed" }
    /\ verdict = "nil" => signalled
    /\ verdict = "failed" => \/ \A p \in parts : part[p] = "none"
                             \/ \E p \in parts : Failed(p)

(***************************************************************************)
(* A command that has returned is over, with a status that says why.       *)
(***************************************************************************)
OrderlyExit == NothingLeftRunning /\ VerdictHonest

-----------------------------------------------------------------------------
(* The command and its components go on when they can.  ServePeers ends    *)
(* when its context is done (ServeEnds of Client); Serve returns when      *)
(* Shutdown has closed its listener.  Of RunDownload nothing is assumed: a *)
(* peer that leaves a handshake unanswered keeps it from ending            *)
(* (CancelStops of TorrentLoop).                                           *)
SupervisorFairness ==
  /\ WF_supervisor(ListenStatus \/ (command = "listening" /\ StartFails)) /\ WF_supervisor(Spawn)
  /\ WF_supervisor(runCtxDone /\ ServePeersEnds)
  /\ \A p \in HTTP : /\ WF_supervisor(/\ p \in parts
                                      /\ watcher[p] \in { "shutdown", "done" }
                                      /\ ServeHTTPReturns(p))
                     /\ WF_supervisor(p \in parts /\ ServeHTTPEnds(p))
                     /\ WF_supervisor(p \in parts /\ Shutdown(p))
                     /\ WF_supervisor(p \in parts /\ ShutdownDone(p))
  /\ WF_supervisor(FirstResult \/ SignalSeen) /\ WF_supervisor(Collect) /\ WF_supervisor(Return)

(***************************************************************************)
(* A signal, or the end of any component, ends the command, however the    *)
(* two meet: no component is left waiting and none is waited for in vain,  *)
(* except for a RunDownload that never ends although its context is done,  *)
(* as when a dialled peer never answers the handshake.                     *)
(***************************************************************************)
CommandEnds ==
  (/\ command # "start"
   /\ signalled \/ \E p \in parts : part[p] \in { "canceled", "failed" }) ~>
    command = "returned" \/ [](runCtxDone /\ "run" \in parts /\ part["run"] = "serving")
=============================================================================
