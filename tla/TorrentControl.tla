--------------------------- MODULE TorrentControl ---------------------------
(***************************************************************************)
(* The control side of one Torrent: calls of RunDownload, Close, ReqStatus *)
(* and PauseDownload/ResumeDownload made by different goroutines, the      *)
(* fields that lifecycleMu protects (running, cancel, done, closeErr), the *)
(* file, the download mode and the two channels of requests                *)
(* (torrent/run.go, torrent/requests.go, torrent/torrent.go).              *)
(*                                                                         *)
(* What the loop does with its peers is TorrentLoop; here the loop is at   *)
(* its select, in an announce, or in connectTrackerPeers, dialling one     *)
(* candidate after the other and waiting for the handshake of each.  A     *)
(* call of beginRun makes a new done channel and a new context: both are   *)
(* named by the number of the run.                                         *)
(***************************************************************************)
EXTENDS Integers

CONSTANTS
  Runner,   \* calls of RunDownload
  Caller,   \* calls of ReqStatus, PauseDownload and ResumeDownload
  Asks,     \* what each of them may ask for
  Closer,   \* calls of Close
  MaxCandidates, \* bound: the peers in one answer of the tracker
  None

Request == { "status", "paused", "progress" }

ASSUME AsksAssumption == Asks \in [Caller -> SUBSET Request]
ASSUME NobodyAssumption == None \notin Caller
ASSUME CandidatesAssumption == MaxCandidates \in Nat

VARIABLES
  running,    \* t.running
  gen,        \* the run t.done and t.cancel belong to
  ended,      \* the runs whose done channel is closed
  cancelled,  \* the runs whose context is done
  fileOpen,   \* t.file # nil
  mode,       \* t.downloadMode
  at,         \* where each RunDownload is
  ran,        \* the run each RunDownload began
  candidates, \* how many connectTrackerPeers has still to try
  statusReq, modeReq,  \* the one request each channel can hold
  replied,    \* callers whose reply channel holds a reply
  asking,     \* where each caller is
  asked,      \* what it asks for
  seen,       \* the run whose done channel each caller holds
  closing,    \* where each call of Close is
  held        \* the run whose cancel and done each call of Close holds

runVars  == <<running, gen, ended, cancelled, fileOpen, at, ran, candidates>>
callVars == <<statusReq, modeReq, replied, asking, asked, seen>>
vars     == <<runVars, mode, callVars, closing, held>>

\* Where the loop waits for the tracker or for a peer, and serves nobody.
Away   == { "announce", "reannounce", "connect", "handshake" }
InLoop == Away \cup { "select" }
Owning == InLoop \cup { "return", "unlock" }

TypeOK ==
  /\ running \in BOOLEAN /\ fileOpen \in BOOLEAN
  /\ gen \in Nat /\ ended \subseteq Nat /\ cancelled \subseteq Nat
  /\ mode \in { "unset", "progress", "paused" }
  /\ at \in [Runner -> Owning \cup { "idle", "refused", "returned" }]
  /\ ran \in [Runner -> Nat] /\ candidates \in 0 .. MaxCandidates
  /\ statusReq \in Caller \cup {None} /\ modeReq \in Caller \cup {None}
  /\ replied \subseteq Caller
  /\ asking \in [Caller -> { "idle", "send", "wait", "ok", "stopped", "gaveup" }]
  /\ asked \in [Caller -> Request \cup { "nothing" }] /\ seen \in [Caller -> Nat]
  /\ closing \in [Closer -> { "idle", "cancel", "wait", "returned" }]
  /\ held \in [Closer -> Nat]

\* New leaves the mode empty; OpenDownload and OpenSeed leave the file open.
Init ==
  /\ running = FALSE /\ gen = 0 /\ ended = {} /\ cancelled = {}
  /\ fileOpen = TRUE /\ mode = "unset"
  /\ at = [r \in Runner |-> "idle"] /\ ran = [r \in Runner |-> 0]
  /\ candidates = 0
  /\ statusReq = None /\ modeReq = None /\ replied = {}
  /\ asking = [c \in Caller |-> "idle"] /\ asked = [c \in Caller |-> "nothing"]
  /\ seen = [c \in Caller |-> 0]
  /\ closing = [k \in Closer |-> "idle"] /\ held = [k \in Closer |-> 0]

-----------------------------------------------------------------------------
(* RunDownload.                                                            *)

Moves(r, from, to) == at[r] = from /\ at' = [at EXCEPT ![r] = to]

beginRun_unguarded(r) ==
  /\ Moves(r, "idle", "announce")
  /\ running' = TRUE
  /\ gen' = gen + 1
  /\ ran' = [ran EXCEPT ![r] = gen + 1]
  /\ UNCHANGED <<ended, cancelled, fileOpen, candidates, mode, callVars, closing, held>>

beginRun(r) ==
  /\ ~running
  /\ Moves(r, "idle", "announce")
  /\ running' = TRUE
  /\ gen' = gen + 1
  /\ ran' = [ran EXCEPT ![r] = gen + 1]
  /\ UNCHANGED <<ended, cancelled, fileOpen, candidates, mode, callVars, closing, held>>

RunRefused(r) ==
  /\ running
  /\ Moves(r, "idle", "refused")
  /\ UNCHANGED <<running, gen, ended, cancelled, fileOpen, ran, candidates, mode, callVars,
                 closing, held>>

\* The loop goes from one place to another, with n candidates to try.
Step(r, from, to, n) ==
  /\ Moves(r, from, to)
  /\ candidates' = n
  /\ UNCHANGED <<running, gen, ended, cancelled, fileOpen, ran, mode, callVars, closing, held>>

\* The tracker has answered with some peers.
Announced(r) ==
  \E from \in { "announce", "reannounce" }, n \in 0 .. MaxCandidates : Step(r, from, "connect", n)

\* The timer fires; a failed announce only sets it again.
Reannounce(r)       == Step(r, "select", "reannounce", 0)
ReannounceFailed(r) == Step(r, "reannounce", "select", 0)

\* DialContext fails at once when the context is done.
DialFailed(r) == candidates > 0 /\ Step(r, "connect", "connect", candidates - 1)
Dialled(r)    == /\ candidates > 0 /\ ran[r] \notin cancelled
                 /\ Step(r, "connect", "handshake", candidates - 1)

\* The candidate has answered, or hung up: it is activated or closed.
HandshakeEnds(r) == Step(r, "handshake", "connect", candidates)

\* No candidate left, or no place for another peer.
Connected(r) == Step(r, "connect", "select", 0)

\* The deferred cancel() runs before finishRun.
Leave(r, from) ==
  /\ Moves(r, from, "return")
  /\ cancelled' = cancelled \cup {ran[r]}
  /\ UNCHANGED <<running, gen, ended, fileOpen, ran, candidates, mode, callVars, closing, held>>

AnnounceFailed(r) == Leave(r, "announce")
StopRun(r)        == ran[r] \in cancelled /\ Leave(r, "select")

\* The context RunDownload was given is done.
CancelRun(r) ==
  /\ at[r] \in InLoop /\ ran[r] \notin cancelled
  /\ cancelled' = cancelled \cup {ran[r]}
  /\ UNCHANGED <<running, gen, ended, fileOpen, at, ran, candidates, mode, callVars, closing, held>>

\* finishRun closes the peers and the file before it takes the lock.
FinishFile(r) ==
  /\ Moves(r, "return", "unlock")
  /\ fileOpen' = FALSE
  /\ UNCHANGED <<running, gen, ended, cancelled, ran, candidates, mode, callVars, closing, held>>

FinishLocked_silent(r) ==
  /\ Moves(r, "unlock", "returned")
  /\ running' = FALSE
  /\ UNCHANGED <<gen, ended, cancelled, fileOpen, ran, candidates, mode, callVars, closing, held>>

FinishLocked(r) ==
  /\ Moves(r, "unlock", "returned")
  /\ running' = FALSE
  /\ ended' = ended \cup {gen}
  /\ UNCHANGED <<gen, cancelled, fileOpen, ran, candidates, mode, callVars, closing, held>>

-----------------------------------------------------------------------------
(* Requests: ReqStatus and requestDownloadMode.                            *)

Ask(c, what) ==
  /\ asking[c] = "idle"
  /\ IF running
       THEN /\ asking' = [asking EXCEPT ![c] = "send"]
            /\ asked' = [asked EXCEPT ![c] = what]
            /\ seen' = [seen EXCEPT ![c] = gen]
       ELSE asking' = [asking EXCEPT ![c] = "stopped"] /\ UNCHANGED <<asked, seen>>
  /\ UNCHANGED <<runVars, mode, statusReq, modeReq, replied, closing, held>>

\* The channels hold one request each, and keep it when a run ends.
Send(c) ==
  /\ asking[c] = "send"
  /\ asking' = [asking EXCEPT ![c] = "wait"]
  /\ IF asked[c] = "status"
       THEN statusReq = None /\ statusReq' = c /\ UNCHANGED modeReq
       ELSE modeReq = None /\ modeReq' = c /\ UNCHANGED statusReq
  /\ UNCHANGED <<runVars, mode, replied, asked, seen, closing, held>>

ServeStatus_unbuffered(r) ==
  /\ at[r] = "select" /\ statusReq # None /\ asking[statusReq] = "wait"
  /\ replied' = replied \cup {statusReq}
  /\ statusReq' = None
  /\ UNCHANGED <<runVars, mode, modeReq, asking, asked, seen, closing, held>>

\* The reply never blocks the loop: its channel has room for it, and a reply
\* to a caller that has left stays there unread.
Reply(c) == replied' = IF asking[c] = "wait" THEN replied \cup {c} ELSE replied

ServeStatus(r) ==
  /\ at[r] = "select" /\ statusReq # None
  /\ Reply(statusReq)
  /\ statusReq' = None
  /\ UNCHANGED <<runVars, mode, modeReq, asking, asked, seen, closing, held>>

\* The switch of changeDownloadMode is on the mode the torrent is in.  No case
\* is ever reached, so its broadcasts, which would concern the peers, are not made.
changeDownloadMode(m) ==
  CASE mode = m          -> mode
    [] mode = "paused"   -> "paused"
    [] mode = "progress" -> "progress"
    [] OTHER             -> mode

ServeMode(r) ==
  /\ at[r] = "select" /\ modeReq # None
  /\ mode' = changeDownloadMode(asked[modeReq])
  /\ Reply(modeReq)
  /\ modeReq' = None
  /\ UNCHANGED <<runVars, statusReq, asking, asked, seen, closing, held>>

Returns(c, how) ==
  /\ asking' = [asking EXCEPT ![c] = how]
  /\ replied' = replied \ {c} /\ seen' = [seen EXCEPT ![c] = 0]
  /\ UNCHANGED <<runVars, mode, statusReq, modeReq, asked, closing, held>>

TakeReply(c)     == asking[c] = "wait" /\ c \in replied /\ Returns(c, "ok")
RunEnded(c)      == asking[c] \in { "send", "wait" } /\ seen[c] \in ended /\ Returns(c, "stopped")
CallerGivesUp(c) == asking[c] \in { "send", "wait" } /\ Returns(c, "gaveup")

-----------------------------------------------------------------------------
(* Close.                                                                  *)

CloseIdle_unlocked(k) ==
  /\ closing[k] = "idle"
  /\ fileOpen' = FALSE
  /\ closing' = [closing EXCEPT ![k] = "returned"]
  /\ UNCHANGED <<running, gen, ended, cancelled, at, ran, candidates, mode, callVars, held>>

\* Not running: closeFile, under the lock.
CloseIdle(k) ==
  /\ closing[k] = "idle" /\ ~running
  /\ fileOpen' = FALSE
  /\ closing' = [closing EXCEPT ![k] = "returned"]
  /\ UNCHANGED <<running, gen, ended, cancelled, at, ran, candidates, mode, callVars, held>>

\* Running: cancel and done are read together, under the lock.
CloseRunning(k) ==
  /\ closing[k] = "idle" /\ running
  /\ closing' = [closing EXCEPT ![k] = "cancel"]
  /\ held' = [held EXCEPT ![k] = gen]
  /\ UNCHANGED <<runVars, mode, callVars>>

CloseCancel_current(k) ==
  /\ closing[k] = "cancel"
  /\ closing' = [closing EXCEPT ![k] = "wait"]
  /\ cancelled' = IF running THEN cancelled \cup {gen} ELSE cancelled
  /\ UNCHANGED <<running, gen, ended, fileOpen, at, ran, candidates, mode, callVars, held>>

CloseCancel(k) ==
  /\ closing[k] = "cancel"
  /\ closing' = [closing EXCEPT ![k] = "wait"]
  /\ cancelled' = cancelled \cup {held[k]}
  /\ UNCHANGED <<running, gen, ended, fileOpen, at, ran, candidates, mode, callVars, held>>

CloseWait_early(k) ==
  /\ closing[k] = "wait"
  /\ closing' = [closing EXCEPT ![k] = "returned"]
  /\ UNCHANGED <<runVars, mode, callVars, held>>

CloseWait(k) ==
  /\ closing[k] = "wait" /\ held[k] \in ended
  /\ closing' = [closing EXCEPT ![k] = "returned"]
  /\ UNCHANGED <<runVars, mode, callVars, held>>

-----------------------------------------------------------------------------
RunStep(r) ==
  \/ beginRun(r) \/ RunRefused(r) \/ Announced(r) \/ AnnounceFailed(r)
  \/ Reannounce(r) \/ ReannounceFailed(r)
  \/ DialFailed(r) \/ Dialled(r) \/ HandshakeEnds(r) \/ Connected(r)
  \/ StopRun(r) \/ CancelRun(r) \/ FinishFile(r) \/ FinishLocked(r)
  \/ ServeStatus(r) \/ ServeMode(r)

CallStep(c) == \/ \E what \in Asks[c] : Ask(c, what)
               \/ Send(c) \/ TakeReply(c) \/ RunEnded(c) \/ CallerGivesUp(c)

CloseStep(k) == CloseIdle(k) \/ CloseRunning(k) \/ CloseCancel(k) \/ CloseWait(k)

Next == \/ \E r \in Runner : RunStep(r)
        \/ \E c \in Caller : CallStep(c)
        \/ \E k \in Closer : CloseStep(k)

Spec == Init /\ [][Next]_vars

-----------------------------------------------------------------------------
(***************************************************************************)
(* One loop at a time: running is set exactly while one call of            *)
(* RunDownload is between beginRun and the end of finishRun, so peers,     *)
(* pending and the pieces have a single owner, without a lock.             *)
(***************************************************************************)
OneLoop ==
  /\ \A r, s \in Runner : at[r] \in Owning /\ at[s] \in Owning => r = s
  /\ running <=> \E r \in Runner : at[r] \in Owning

(***************************************************************************)
(* The file is never closed under the loop: whoever closes it (finishRun   *)
(* without the lock, Close with it), no loop is still using it.            *)
(***************************************************************************)
FileNotPulledAway ==
  [][fileOpen /\ ~fileOpen' => \A r \in Runner : at[r] \notin InLoop]_vars

(***************************************************************************)
(* Close means closed: once any call of Close has returned, the file is    *)
(* closed and the run it waited for, if any, is over.                      *)
(***************************************************************************)
CloseMeansClosed ==
  \A k \in Closer : closing[k] = "returned" =>
    /\ ~fileOpen
    /\ \A r \in Runner : ran[r] = held[k] => at[r] \notin Owning

(***************************************************************************)
(* A run is cancelled on purpose: while its loop is running, the context   *)
(* of a run can only be done because its own caller cancelled it or a      *)
(* Close that saw this very run did.  So no Close stops a run that began   *)
(* after it looked.                                                        *)
(***************************************************************************)
OnlyOwnRunCancelled ==
  [][\A r \in Runner : ran[r] \in cancelled' \ cancelled /\ at[r] \in InLoop =>
       \/ CancelRun(r) \/ at'[r] = "return"
       \/ \E k \in Closer : closing[k] = "cancel" /\ closing'[k] = "wait" /\ held[k] = ran[r]]_vars

(***************************************************************************)
(* What PauseTorrentDownload promises ("pauses one running torrent"): once *)
(* a pause has been answered without an error, and nobody ever asked to    *)
(* resume, the torrent is paused.                                          *)
(***************************************************************************)
PauseTakesEffect ==
  \A c \in Caller : /\ asking[c] = "ok" /\ asked[c] = "paused"
                    /\ \A d \in Caller : asked[d] # "progress"
                    => mode = "paused"

\* Runs are numbered as they begin, the one under way is the last, and its
\* done channel is open.
RunInv  == /\ \A r \in Runner : /\ ran[r] <= gen
                                /\ at[r] \in Owning => ran[r] = gen /\ gen # 0 /\ gen \notin ended
           /\ \A e \in ended : e # 0 /\ e <= gen
           /\ running => gen # 0

\* A run that has ended, or is about to say so, has closed the file.
FileInv == /\ ended # {} => ~fileOpen
           /\ \A r \in Runner : at[r] = "unlock" => ~fileOpen

\* What a call of Close holds; 0 is the Close that found no run.
HeldInv == \A k \in Closer : /\ closing[k] = "returned" => ~fileOpen /\ held[k] \in ended \cup {0}
                             /\ closing[k] = "idle" => held[k] = 0

(***************************************************************************)
(* The inductive invariant behind OneLoop and CloseMeansClosed: it ties    *)
(* the numbers of runs to the fields that lifecycleMu protects.            *)
(***************************************************************************)
Inv == TypeOK /\ OneLoop /\ RunInv /\ FileInv /\ HeldInv

-----------------------------------------------------------------------------
(* Liveness.                                                               *)
(*                                                                         *)
(* A goroutine that can move does.  The loop's select picks among ready    *)
(* cases at random, so none is passed over for ever: strong fairness.  An  *)
(* announce and a dial are tied to the run's context and return once that  *)
(* is done.  Nothing is assumed of the tracker and of the peers: an        *)
(* announce, a dial and a handshake may each take for ever, and the last   *)
(* of them, which has no context and no deadline, also in a cancelled run. *)

\* What the loop does without waiting for anybody.
GoesOn(r) ==
  \/ ran[r] \in cancelled /\ (AnnounceFailed(r) \/ ReannounceFailed(r) \/ DialFailed(r))
  \/ candidates = 0 /\ Connected(r)
  \/ FinishFile(r) \/ FinishLocked(r)

LoopFairness ==
  /\ WF_vars(\E r \in Runner : GoesOn(r)) /\ SF_vars(\E r \in Runner : StopRun(r))
  /\ SF_vars(\E r \in Runner : ServeStatus(r)) /\ SF_vars(\E r \in Runner : ServeMode(r))

CallFairness ==
  /\ \A c \in Caller : SF_vars(Send(c)) /\ WF_vars(TakeReply(c) \/ RunEnded(c))
  /\ \A k \in Closer : WF_vars(CloseCancel(k) \/ CloseWait(k))

FairSpec == Spec /\ CallFairness /\ LoopFairness

(***************************************************************************)
(* Every request returns, or its run is stuck outside its select: a caller *)
(* with no deadline of its own gets a reply or is told that the run ended, *)
(* also when the channel still holds a request that its caller or its run  *)
(* has abandoned, unless the tracker leaves an announce of the run it      *)
(* asked, or a peer a dial or a handshake, unanswered for ever.            *)
(***************************************************************************)
RequestsReturn ==
  \A c \in Caller : asking[c] \in { "send", "wait" } ~>
                      \/ asking[c] \in { "ok", "stopped", "gaveup" }
                      \/ [](\E r \in Runner : ran[r] = seen[c] /\ at[r] \in Away)

(***************************************************************************)
(* Close returns, or its run is stuck in a handshake: it cancels the run   *)
(* it saw and waits until all operations are done, also when that run ends *)
(* by itself and another one begins.  Only a dialled peer that never       *)
(* answers the handshake and never hangs up can hold it, for ever: a       *)
(* silent tracker and a dial cannot.                                       *)
(***************************************************************************)
CloseReturns ==
  \A k \in Closer : closing[k] = "cancel" ~>
                      \/ closing[k] = "returned"
                      \/ [](\E r \in Runner : ran[r] = held[k] /\ at[r] = "handshake")
=============================================================================
