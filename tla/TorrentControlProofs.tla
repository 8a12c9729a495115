----------------------- MODULE TorrentControlProofs -----------------------
(***************************************************************************)
(* TorrentControl for any number of calls of RunDownload, Close, ReqStatus *)
(* and PauseDownload/ResumeDownload.                                       *)
(***************************************************************************)
EXTENDS TorrentControl, TLAPS

\* The number of the next run.
LEMMA NextNumber ==
  ASSUME NEW n \in Nat
  PROVE  /\ n + 1 \in Nat /\ n + 1 # 0 /\ ~(n + 1 <= n) /\ n <= n
         /\ \A m \in Nat : m <= n => m <= n + 1
OBVIOUS

\* How many candidates there can be to try.
LEMMA Candidates ==
  /\ 0 \in 0 .. MaxCandidates
  /\ \A n \in 0 .. MaxCandidates : n > 0 => n - 1 \in 0 .. MaxCandidates
BY CandidatesAssumption

\* A torrent nobody has called yet satisfies the invariant.
LEMMA InitInv == Init => Inv
<1> SUFFICES ASSUME Init PROVE Inv
  OBVIOUS
<1> USE DEF Init, Owning, InLoop, Away
<1>1. TypeOK
  BY Candidates DEF TypeOK
<1>2. OneLoop
  BY DEF OneLoop
<1>3. RunInv
  <2>0. 0 <= 0
    BY NextNumber
  <2>1. \A r \in Runner : ran[r] <= gen /\ at[r] \notin Owning
    BY <2>0
  <2>2. \A e \in ended : e # 0 /\ e <= gen
    OBVIOUS
  <2>3. ~running
    OBVIOUS
  <2> QED BY <2>1, <2>2, <2>3, Zenon DEF RunInv
<1>4. FileInv
  BY DEF FileInv
<1>5. HeldInv
  BY DEF HeldInv
<1> QED BY <1>1, <1>2, <1>3, <1>4, <1>5 DEF Inv

\* A call that owns the run keeps it until finishRun unlocks.
LEMMA OwnerMoves ==
  ASSUME TypeOK, OneLoop, RunInv,
         NEW r \in Runner, at[r] \in Owning, NEW to \in Owning, at' = [at EXCEPT ![r] = to],
         UNCHANGED <<running, gen, ended, ran>>
  PROVE  OneLoop' /\ RunInv'
<1>1. at'[r] \in Owning /\ \A s \in Runner : s # r => at'[s] = at[s]
  BY DEF TypeOK
<1>2. \A s \in Runner : at'[s] \in Owning <=> at[s] \in Owning
  BY <1>1, Zenon
<1>3. OneLoop'
  <2>1. \A s, u \in Runner : at'[s] \in Owning /\ at'[u] \in Owning => s = u
    BY <1>2 DEF OneLoop
  <2>2. running' /\ \E s \in Runner : at'[s] \in Owning
    BY <1>1 DEF OneLoop
  <2> QED BY <2>1, <2>2, Zenon DEF OneLoop
<1>4. RunInv'
  <2>1. ran' = ran /\ gen' = gen /\ ended' = ended /\ running' = running
    OBVIOUS
  <2> QED BY <1>2, <2>1, Zenon DEF RunInv
<1> QED BY <1>3, <1>4

\* Moving from one place of the loop to another preserves the invariant.
LEMMA StepInv ==
  ASSUME Inv, NEW r \in Runner, NEW from \in InLoop, NEW to \in InLoop,
         NEW n \in 0 .. MaxCandidates, Step(r, from, to, n)
  PROVE  Inv'
<1> USE DEF Inv, Step, Moves
<1>1. TypeOK'
  BY DEF TypeOK, Owning, callVars
<1>2. OneLoop' /\ RunInv'
  BY OwnerMoves DEF Owning
<1>3. FileInv' /\ HeldInv'
  BY DEF TypeOK, InLoop, Away, Owning, FileInv, HeldInv
<1> QED BY <1>1, <1>2, <1>3

\* Leaving the loop cancels the run's context and preserves the invariant.
LEMMA LeaveInv ==
  ASSUME Inv, NEW r \in Runner, NEW from \in InLoop, Leave(r, from)
  PROVE  Inv'
<1> USE DEF Inv, Leave, Moves
<1>1. TypeOK'
  BY DEF TypeOK, Owning, callVars
<1>2. OneLoop' /\ RunInv'
  BY OwnerMoves DEF Owning
<1>3. FileInv' /\ HeldInv'
  BY DEF TypeOK, InLoop, Away, Owning, FileInv, HeldInv
<1> QED BY <1>1, <1>2, <1>3

\* A step of RunDownload preserves the invariant: the lock orders beginRun and finishRun.
LEMMA RunStepInv ==
  ASSUME Inv, NEW r \in Runner, RunStep(r)
  PROVE  Inv'
<1>0. candidates \in 0 .. MaxCandidates
  BY DEF Inv, TypeOK
<1>1. CASE Announced(r)
  BY <1>1, StepInv DEF Announced, InLoop, Away
<1>2. CASE Reannounce(r) \/ ReannounceFailed(r)
  BY <1>2, StepInv, Candidates DEF Reannounce, ReannounceFailed, InLoop, Away
<1>3. CASE Connected(r) \/ HandshakeEnds(r)
  BY <1>0, <1>3, StepInv, Candidates DEF Connected, HandshakeEnds, InLoop, Away
<1>13. CASE DialFailed(r) \/ Dialled(r)
  BY <1>0, <1>13, StepInv, Candidates DEF DialFailed, Dialled, InLoop, Away
<1>4. CASE AnnounceFailed(r)
  BY <1>4, LeaveInv DEF AnnounceFailed, InLoop, Away
<1>5. CASE StopRun(r)
  BY <1>5, LeaveInv DEF StopRun, InLoop
<1> USE AsksAssumption, NobodyAssumption
    DEF Inv, TypeOK, OneLoop, RunInv, FileInv, HeldInv, Owning, InLoop, Away, runVars, callVars
<1>6. CASE beginRun(r)
  <2> USE <1>6 DEF beginRun, Moves
  <2>1. gen + 1 \in Nat /\ gen + 1 # 0 /\ \A n \in Nat : n <= gen => n <= gen + 1
    BY NextNumber
  <2>6. gen + 1 \notin ended
    <3>1. \A e \in ended : e \in Nat /\ e <= gen
      OBVIOUS
    <3>2. gen \in Nat /\ ~(gen + 1 <= gen)
      BY NextNumber
    <3> QED BY <3>1, <3>2
  <2>2. TypeOK'
    BY <2>1
  <2>3. OneLoop'
    OBVIOUS
  <2>4. RunInv'
    <3>1. \A s \in Runner : ran'[s] <= gen'
      <4>1. gen' = gen + 1 /\ ran'[r] = gen + 1
        OBVIOUS
      <4>2. gen + 1 <= gen + 1
        BY <2>1, NextNumber
      <4>3. \A s \in Runner \ {r} : ran'[s] \in Nat /\ ran'[s] <= gen
        OBVIOUS
      <4> QED BY <2>1, <4>1, <4>2, <4>3
    <3>2. \A s \in Runner : at'[s] \in Owning => s = r
      OBVIOUS
    <3>3. ran'[r] = gen' /\ gen' # 0 /\ gen' \notin ended'
      BY <2>1, <2>6
    <3>4. \A e \in ended' : e # 0 /\ e <= gen'
      BY <2>1
    <3> QED BY <3>1, <3>2, <3>3, <3>4, Zenon DEF RunInv
  <2>5. FileInv' /\ HeldInv'
    OBVIOUS
  <2> QED BY <2>2, <2>3, <2>4, <2>5
<1>7. CASE RunRefused(r)
  <2> USE <1>7 DEF RunRefused, Moves
  <2>1. TypeOK'
    OBVIOUS
  <2>2. OneLoop'
    OBVIOUS
  <2>3. RunInv'
    OBVIOUS
  <2>4. FileInv' /\ HeldInv'
    OBVIOUS
  <2> QED BY <2>1, <2>2, <2>3, <2>4
<1>8. CASE CancelRun(r)
  <2> USE <1>8 DEF CancelRun
  <2>1. TypeOK'
    OBVIOUS
  <2>2. OneLoop'
    BY Zenon
  <2>3. RunInv' /\ FileInv' /\ HeldInv'
    OBVIOUS
  <2> QED BY <2>1, <2>2, <2>3
<1>9. CASE FinishFile(r)
  <2> USE <1>9 DEF FinishFile, Moves
  <2>1. TypeOK'
    OBVIOUS
  <2>2. OneLoop' /\ RunInv'
    BY OwnerMoves DEF Owning
  <2>3. FileInv' /\ HeldInv'
    OBVIOUS
  <2> QED BY <2>1, <2>2, <2>3
<1>10. CASE FinishLocked(r)
  <2> USE <1>10 DEF FinishLocked, Moves
  <2>1. TypeOK'
    OBVIOUS
  <2>2. OneLoop'
    OBVIOUS
  <2>3. RunInv'
    OBVIOUS
  <2>4. FileInv' /\ HeldInv'
    OBVIOUS
  <2> QED BY <2>1, <2>2, <2>3, <2>4
<1>11. CASE ServeStatus(r)
  BY <1>11 DEF ServeStatus, Reply
<1>12. CASE ServeMode(r)
  BY <1>12 DEF ServeMode, Reply, changeDownloadMode
<1> QED BY <1>1, <1>2, <1>3, <1>4, <1>5, <1>6, <1>7, <1>8, <1>9, <1>10, <1>11, <1>12, <1>13 DEF RunStep

\* Requests touch nothing the invariant is about.
LEMMA CallStepInv ==
  ASSUME Inv, NEW c \in Caller, CallStep(c)
  PROVE  Inv'
<1> USE AsksAssumption, NobodyAssumption
    DEF Inv, TypeOK, OneLoop, RunInv, FileInv, HeldInv, Owning, InLoop, Away, runVars, callVars
<1>1. ASSUME NEW what \in Asks[c], Ask(c, what) PROVE Inv'
  BY <1>1 DEF Ask
<1>2. CASE Send(c)
  BY <1>2 DEF Send
<1>3. CASE TakeReply(c)
  BY <1>3 DEF TakeReply, Returns
<1>4. CASE RunEnded(c)
  BY <1>4 DEF RunEnded, Returns
<1>5. CASE CallerGivesUp(c)
  BY <1>5 DEF CallerGivesUp, Returns
<1> QED BY <1>1, <1>2, <1>3, <1>4, <1>5 DEF CallStep

\* Close closes the file only when no run owns it.
LEMMA CloseStepInv ==
  ASSUME Inv, NEW k \in Closer, CloseStep(k)
  PROVE  Inv'
<1> USE AsksAssumption, NobodyAssumption
    DEF Inv, TypeOK, OneLoop, RunInv, FileInv, HeldInv, Owning, InLoop, Away, runVars, callVars
<1>1. CASE CloseIdle(k)
  <2> USE <1>1 DEF CloseIdle
  <2>1. TypeOK' /\ OneLoop' /\ RunInv' /\ FileInv'
    OBVIOUS
  <2>2. HeldInv'
    OBVIOUS
  <2> QED BY <2>1, <2>2
<1>2. CASE CloseRunning(k)
  BY <1>2 DEF CloseRunning
<1>3. CASE CloseCancel(k)
  <2> USE <1>3 DEF CloseCancel
  <2>1. TypeOK'
    <3>1. held[k] \in Nat /\ cancelled \subseteq Nat /\ cancelled' = cancelled \cup {held[k]}
      BY Zenon
    <3>2. cancelled' \subseteq Nat
      BY ONLY <3>1
    <3>3. closing' \in [Closer -> { "idle", "cancel", "wait", "returned" }]
      OBVIOUS
    <3> QED BY <3>2, <3>3, Zenon
  <2>2. OneLoop'
    BY Zenon
  <2>3. RunInv'
    OBVIOUS
  <2>4. FileInv' /\ HeldInv'
    OBVIOUS
  <2> QED BY <2>1, <2>2, <2>3, <2>4
<1>4. CASE CloseWait(k)
  BY <1>4 DEF CloseWait
<1> QED BY <1>1, <1>2, <1>3, <1>4 DEF CloseStep

\* The invariant is inductive.
LEMMA NextInv == Inv /\ [Next]_vars => Inv'
<1> SUFFICES ASSUME Inv, [Next]_vars PROVE Inv'
  OBVIOUS
<1>1. CASE UNCHANGED vars
  BY <1>1 DEF Inv, TypeOK, OneLoop, RunInv, FileInv, HeldInv, vars, runVars, callVars
<1> QED BY <1>1, RunStepInv, CallStepInv, CloseStepInv DEF Next

\* The invariant holds in every reachable state.
THEOREM Invariance == Spec => []Inv
BY InitInv, NextInv, PTL DEF Spec

\* At most one call of RunDownload is between beginRun and finishRun.
THEOREM SingleLoop == Spec => []OneLoop
<1>1. Inv => OneLoop
  BY DEF Inv
<1> QED BY <1>1, Invariance, PTL

\* After Close has returned, its run is over and the file is closed.
THEOREM ClosedIsClosed == Spec => []CloseMeansClosed
<1>1. Inv => CloseMeansClosed
  BY DEF Inv, RunInv, HeldInv, CloseMeansClosed
<1> QED BY <1>1, Invariance, PTL

\* Neither finishRun nor Close ever closes the file under a running loop.
THEOREM FileKept == Spec => FileNotPulledAway
<1>1. ASSUME Inv, Next, fileOpen /\ ~fileOpen'
      PROVE  \A r \in Runner : at[r] \notin InLoop
  <2> USE <1>1 DEF Inv, OneLoop, Owning, InLoop, Away
  <2>1. CASE \E k \in Closer : CloseIdle(k)
    BY <2>1 DEF CloseIdle
  <2>2. CASE \E s \in Runner : FinishFile(s)
    BY <2>2 DEF FinishFile, Moves
  <2>3. CASE \E s \in Runner : RunStep(s) /\ ~FinishFile(s)
    BY <2>3 DEF RunStep, beginRun, RunRefused, Announced, AnnounceFailed, Reannounce,
                ReannounceFailed, DialFailed, Dialled, HandshakeEnds, Connected, StopRun, CancelRun, FinishLocked, ServeStatus, ServeMode,
                Step, Leave, runVars
  <2>4. CASE \E c \in Caller : CallStep(c)
    BY <2>4 DEF CallStep, Ask, Send, TakeReply, RunEnded, CallerGivesUp, Returns, runVars
  <2>5. CASE \E k \in Closer : CloseStep(k) /\ ~CloseIdle(k)
    BY <2>5 DEF CloseStep, CloseRunning, CloseCancel, CloseWait, runVars
  <2> QED BY <2>1, <2>2, <2>3, <2>4, <2>5 DEF Next
<1>2. Inv /\ [Next]_vars =>
        [fileOpen /\ ~fileOpen' => \A r \in Runner : at[r] \notin InLoop]_vars
  BY <1>1
<1> QED BY <1>2, Invariance, PTL DEF Spec, FileNotPulledAway

(***************************************************************************)
(* A run is cancelled by its own caller, by its own end, or by a Close     *)
(* that saw this very run: the cancel a Close read under the lock is never *)
(* that of a later run.                                                    *)
(***************************************************************************)
THEOREM CancelledOnPurpose == Spec => OnlyOwnRunCancelled
<1>1. ASSUME Inv, Next, NEW r \in Runner, ran[r] \in cancelled' \ cancelled, at[r] \in InLoop
      PROVE  \/ CancelRun(r) \/ at'[r] = "return"
             \/ \E k \in Closer : closing[k] = "cancel" /\ closing'[k] = "wait" /\ held[k] = ran[r]
  <2>0. \A s \in Runner : at[s] \in InLoop => s = r
    BY <1>1 DEF Inv, OneLoop, Owning
  <2>1. ASSUME NEW s \in Runner, CancelRun(s) PROVE CancelRun(r)
    <3>1. s = r
      BY <2>0, <2>1 DEF CancelRun
    <3> QED BY <2>1, <3>1
  <2>2. ASSUME NEW s \in Runner, NEW from \in InLoop, Leave(s, from) PROVE at'[r] = "return"
    <3>1. s = r
      BY <2>0, <2>2 DEF Leave, Moves
    <3> QED BY <1>1, <2>2, <3>1 DEF Leave, Moves, Inv, TypeOK
  <2>3. ASSUME NEW s \in Runner, AnnounceFailed(s) \/ StopRun(s) PROVE at'[r] = "return"
    BY <2>2, <2>3 DEF AnnounceFailed, StopRun, InLoop, Away
  <2>4. ASSUME NEW k \in Closer, CloseCancel(k)
        PROVE  closing[k] = "cancel" /\ closing'[k] = "wait" /\ held[k] = ran[r]
    BY <1>1, <2>4 DEF CloseCancel, Inv, TypeOK
  <2>5. ASSUME NEW s \in Runner, RunStep(s), ~CancelRun(s), ~AnnounceFailed(s), ~StopRun(s)
        PROVE  FALSE
    <3>1. cancelled' = cancelled
      BY <2>5 DEF RunStep, beginRun, RunRefused, Announced, Reannounce, ReannounceFailed, DialFailed,
                  Dialled, HandshakeEnds, Connected, FinishFile, FinishLocked, ServeStatus, ServeMode, Step, runVars
    <3> QED BY <1>1, <3>1
  <2>6. ASSUME NEW c \in Caller, CallStep(c) PROVE FALSE
    <3>1. cancelled' = cancelled
      BY <2>6 DEF CallStep, Ask, Send, TakeReply, RunEnded, CallerGivesUp, Returns, runVars
    <3> QED BY <1>1, <3>1
  <2>7. ASSUME NEW k \in Closer, CloseStep(k), ~CloseCancel(k) PROVE FALSE
    <3>1. cancelled' = cancelled
      BY <2>7 DEF CloseStep, CloseIdle, CloseRunning, CloseWait, runVars
    <3> QED BY <1>1, <3>1
  <2> QED BY <1>1, <2>1, <2>3, <2>4, <2>5, <2>6, <2>7 DEF Next
<1>2. Inv /\ [Next]_vars =>
        [\A r \in Runner : ran[r] \in cancelled' \ cancelled /\ at[r] \in InLoop =>
           \/ CancelRun(r) \/ at'[r] = "return"
           \/ \E k \in Closer : closing[k] = "cancel" /\ closing'[k] = "wait" /\ held[k] = ran[r]]_vars
  BY <1>1
<1> QED BY <1>2, Invariance, PTL DEF Spec, OnlyOwnRunCancelled
============================================================================
