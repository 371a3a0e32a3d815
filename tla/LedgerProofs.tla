---------------------------- MODULE LedgerProofs ----------------------------
(***************************************************************************)
(* Theorems about what the rows of Arena say together: a RUNNING pair and  *)
(* its match, a live match and its pairs, a completed match and its        *)
(* results, and the refinement of PairLedger.                              *)
(***************************************************************************)
EXTENDS ArenaProofs

USE MatchAssumption

InPlay == {"RUNNING", "PAUSING"}

HasWork(t) ==
    /\ \E p \in PairsOf(t) : pairSt[p] \in {"PENDING", "RUNNING", "INTERRUPTED"}
    /\ \A p \in PairsOf(t) : pairSt[p] # "FAILED"

\* Past its recovery the worker supervises the only RUNNING pair.
OnBoard ==
    pc \notin {"down", "boot", "recovering"} =>
        \A p \in Pairs : pairSt[p] = "RUNNING" => active # 0 /\ p = proc[active].pair

\* What the worker is about to write of the pair it supervises.
AboutToWrite ==
    /\ pc = "launched" => \A t \in Tournaments : Loaded(t) => Match[proc[active].pair] = t
    /\ pc = "artifacts" => pairSt[proc[active].pair] = "COMPLETED"
    /\ pc = "finalizing" =>
          LET t == Match[proc[active].pair] IN LastPair(t) /\ summary[t] = "COMPLETED"

\* What the rows a tick loaded are still worth.  Operators may have paused or
\* cancelled the match since, but it was not launched, so its pairs are as they
\* were, and no older match has started to play.
OneLoaded ==
    pc \in {"pausing", "selected", "launched"} =>
        \A t, u \in Tournaments : Loaded(t) /\ Loaded(u) => t = u
StillStopping ==
    pc = "pausing" => \A t \in Tournaments : Loaded(t) => status[t] = "PAUSING"
StillRunnable ==
    pc \in {"selected", "launched"} => \A t \in Tournaments : Loaded(t) =>
        /\ snap[t].status = "RUNNING" => status[t] \in InPlay
        /\ HasWork(t)
        /\ \A u \in Tournaments : u < t => status[u] # "RUNNING"

\* What the rows recovery loaded are still worth: all matches in play are
\* among them, and what was in play then is in play now.
StillInPlay ==
    pc = "recovering" => \A t \in Tournaments :
        /\ status[t] \in InPlay => Recovered(t)
        /\ snap[t].status \in InPlay => status[t] \in InPlay

Memory == OnBoard /\ AboutToWrite /\ OneLoaded /\ StillStopping /\ StillRunnable /\ StillInPlay

WInv == IInv /\ Memory /\ RunningPairHasLiveMatch /\ LiveMatchHasWork /\ CompletedIsWhole

-----------------------------------------------------------------------------
(* Facts about the invariant.                                              *)

LEMMA Types ==
    ASSUME IInv
    PROVE  /\ status \in [Tournaments -> Status] /\ pairSt \in [Pairs -> PairStatus]
           /\ proc \in [Pids -> ProcState] /\ active \in Pids \cup {0}
           /\ snap \in [Tournaments -> Row] /\ 0 \notin Pids
           /\ summary \in [Tournaments -> ResultTerminal \cup {"none"}]
           /\ active # 0 => proc[active].pair \in Pairs
           /\ \A k \in Pids : proc[k].pair \in Pairs
           /\ pc \in {"launched", "finish", "finalizing", "artifacts"} => active # 0
<1>1. /\ status \in [Tournaments -> Status] /\ pairSt \in [Pairs -> PairStatus]
      /\ proc \in [Pids -> ProcState] /\ active \in Pids \cup {0}
      /\ snap \in [Tournaments -> Row] /\ 0 \notin Pids
      /\ summary \in [Tournaments -> ResultTerminal \cup {"none"}]
  BY PidAssumption DEF IInv, TypeInv, TypeOK
<1>2. pc \in {"launched", "finish", "finalizing", "artifacts"} => active # 0
  BY <1>1 DEF IInv, TypeInv, Handle
<1>3. \A k \in Pids : proc[k].pair \in Pairs
  BY <1>1 DEF ProcState
<1> QED
  BY <1>1, <1>2, <1>3

LEMMA LiveIsNotEnded ==
    ASSUME NEW s, s \in {"DRAFT", "QUEUED", "RUNNING", "PAUSING", "PAUSED"}
    PROVE  s \notin Ended
BY DEF Ended, ResultTerminal, SprtTerminal

\* Nothing is on the board while the worker chooses what to do next.
LEMMA BoardIsFree ==
    ASSUME WInv, pc \in {"pausing", "scan", "selected", "launched", "artifacts"}
    PROVE  \A p \in Pairs : pairSt[p] # "RUNNING"
BY DEF WInv, IInv, TypeInv, Handle, Supervised, Memory, OnBoard, AboutToWrite

\* A RUNNING pair is alone, its match is in play and none of its pairs FAILED.
LEMMA RunningPair ==
    ASSUME WInv, NEW p \in Pairs, pairSt[p] = "RUNNING"
    PROVE  /\ status[Match[p]] \in InPlay /\ HasWork(Match[p])
           /\ \A q \in Pairs : pairSt[q] = "RUNNING" => q = p
<1>1. /\ status[Match[p]] \in InPlay
      /\ \A q \in Pairs : pairSt[q] = "RUNNING" => q = p
  BY DEF WInv, RunningPairHasLiveMatch, InPlay
<1>2. status[Match[p]] \notin Ended
  BY <1>1, LiveIsNotEnded DEF InPlay
<1> QED
  BY <1>1, <1>2 DEF WInv, LiveMatchHasWork, HasWork

\* A step that keeps the statuses of matches and pairs.
Quiet == UNCHANGED <<status, pairSt>>

LEMMA QuietRows ==
    ASSUME WInv, Quiet
    PROVE  RunningPairHasLiveMatch' /\ LiveMatchHasWork'
BY DEF WInv, Quiet, RunningPairHasLiveMatch, LiveMatchHasWork, PairsOf

LEMMA NoRowIsNotLoaded == \A t \in Tournaments : NoSnap[t] = NoRow
BY DEF NoSnap

\* The reads of a tick and of recovery establish what they are worth.
LEMMA ReadsMemory ==
    ASSUME WInv, ReadPausing \/ ReadNext \/ RecoveryRead \/ Boot
    PROVE  Quiet /\ Memory'
<1>0. Quiet /\ UNCHANGED <<active, proc, summary>>
  BY DEF ReadPausing, ReadNext, RecoveryRead, Boot, rows, pairRows, files, Quiet
<1> SUFFICES Memory'
  BY <1>0
<1>1. CASE ReadPausing
  <2>1. pc = "idle" /\ pc' \in {"pausing", "scan"}
    BY <1>1 DEF ReadPausing, Load, GoTo
  <2>2. OnBoard'
    BY <1>0, <2>1 DEF WInv, Memory, OnBoard, Quiet
  <2>3. ASSUME pc' = "pausing", NEW t \in Tournaments, NEW u \in Tournaments, Loaded(t)', Loaded(u)'
        PROVE  t = u
    BY <1>1, <2>3, NoRowIsNotLoaded DEF ReadPausing, Load, GoTo, Loaded, NoSnap
  <2>4. ASSUME pc' = "pausing", NEW t \in Tournaments, Loaded(t)' PROVE status'[t] = "PAUSING"
    <3>1. PICK u \in Tournaments : IsFirst(u, Stopping) /\ snap' = [NoSnap EXCEPT ![u] = RowOf(u)]
      BY <1>1, <2>4 DEF ReadPausing, Load, GoTo
    <3>2. t = u
      BY <2>4, <3>1, NoRowIsNotLoaded DEF Loaded, NoSnap
    <3> QED
      BY <1>0, <3>1, <3>2 DEF IsFirst, Stopping, Quiet
  <2> QED
    BY <2>1, <2>2, <2>3, <2>4 DEF Memory, AboutToWrite, OneLoaded, StillStopping, StillRunnable, StillInPlay
<1>2. CASE ReadNext
  <2>1. pc = "scan" /\ pc' \in {"selected", "idle"}
    BY <1>2 DEF ReadNext, Load, GoTo
  <2>2. OnBoard'
    BY <1>0, <2>1 DEF WInv, Memory, OnBoard, Quiet
  <2>3. ASSUME pc' = "selected", NEW t \in Tournaments, NEW u \in Tournaments, Loaded(t)', Loaded(u)'
        PROVE  t = u
    BY <1>2, <2>3, NoRowIsNotLoaded DEF ReadNext, Load, GoTo, Loaded, NoSnap
  <2>4. ASSUME pc' = "selected", NEW t \in Tournaments, Loaded(t)'
        PROVE  /\ snap'[t].status = "RUNNING" => status'[t] \in InPlay
               /\ HasWork(t)'
               /\ \A u \in Tournaments : u < t => status'[u] # "RUNNING"
    <3>1. PICK u \in Tournaments : IsFirst(u, Runnable) /\ snap' = [NoSnap EXCEPT ![u] = RowOf(u)]
      BY <1>2, <2>4 DEF ReadNext, Load, GoTo
    <3>2. t = u
      BY <2>4, <3>1, NoRowIsNotLoaded DEF Loaded, NoSnap
    <3>3. snap'[t].status = status[t]
      BY <3>1, <3>2 DEF NoSnap, RowOf
    <3>4. status[t] \in {"QUEUED", "RUNNING"}
      BY <3>1, <3>2 DEF IsFirst, Runnable
    <3>5. HasWork(t)
      BY <3>4, LiveIsNotEnded DEF WInv, LiveMatchHasWork, HasWork
    <3>6. \A w \in Tournaments : w < t => status[w] # "RUNNING"
      BY <3>1, <3>2 DEF IsFirst, Runnable
    <3> QED
      BY <1>0, <3>3, <3>5, <3>6 DEF Quiet, InPlay, HasWork, PairsOf
  <2> QED
    BY <2>1, <2>2, <2>3, <2>4 DEF Memory, AboutToWrite, OneLoaded, StillStopping, StillRunnable, StillInPlay
<1>3. CASE RecoveryRead
  <2>1. /\ pc' = "recovering"
        /\ snap' = [t \in Tournaments |-> IF status[t] \in {"RUNNING", "PAUSING", "PAUSED"}
                                          THEN RowOf(t) ELSE NoRow]
    BY <1>3 DEF RecoveryRead
  <2>2. ASSUME NEW t \in Tournaments
        PROVE  /\ status'[t] \in InPlay => Recovered(t)'
               /\ snap'[t].status \in InPlay => status'[t] \in InPlay
    <3>1. CASE status[t] \in {"RUNNING", "PAUSING", "PAUSED"}
      <4>1. snap'[t] = RowOf(t) /\ RowOf(t).status = status[t]
        BY <2>1, <3>1 DEF RowOf
      <4>2. RowOf(t) # NoRow
        BY <3>1, <4>1 DEF NoRow
      <4> QED
        BY <1>0, <4>1, <4>2 DEF Recovered, Quiet
    <3>2. CASE status[t] \notin {"RUNNING", "PAUSING", "PAUSED"}
      <4>1. snap'[t].status = "none"
        BY <2>1, <3>2 DEF NoRow
      <4> QED
        BY <1>0, <3>2, <4>1 DEF InPlay, Quiet
    <3> QED
      BY <3>1, <3>2
  <2> QED
    BY <2>1, <2>2 DEF Memory, OnBoard, AboutToWrite, OneLoaded, StillStopping, StillRunnable, StillInPlay
<1>4. CASE Boot
  <2>1. pc' = "boot"
    BY <1>4 DEF Boot
  <2> QED
    BY <2>1 DEF Memory, OnBoard, AboutToWrite, OneLoaded, StillStopping, StillRunnable, StillInPlay
<1> QED
  BY <1>1, <1>2, <1>3, <1>4

\* What is loaded stays loaded, as long as the worker stays where it is.
LEMMA SameWorker ==
    ASSUME WInv, Quiet, UNCHANGED <<worker, completed, summary>>,
           \A k \in Pids : proc'[k].pair = proc[k].pair
    PROVE  Memory'
<1>0. UNCHANGED <<pc, active, snap>> /\ (active # 0 => active \in Pids)
      /\ (pc \in {"launched", "finalizing", "artifacts"} => active # 0)
  BY Types DEF worker, WInv
<1>1. active # 0 => proc'[active].pair = proc[active].pair
  BY <1>0
<1>2. OnBoard'
  BY <1>0, <1>1 DEF WInv, Memory, OnBoard, Quiet
<1>3. AboutToWrite'
  BY <1>0, <1>1 DEF WInv, Memory, AboutToWrite, Quiet, LastPair, Loaded
<1>4. OneLoaded' /\ StillStopping' /\ StillInPlay'
  BY <1>0 DEF WInv, Memory, OneLoaded, StillStopping, StillInPlay, Quiet, Loaded, Recovered
<1>5. StillRunnable'
  BY <1>0 DEF WInv, Memory, StillRunnable, Quiet, Loaded, HasWork, PairsOf
<1> QED
  BY <1>2, <1>3, <1>4, <1>5 DEF Memory

\* A worker that leaves a tick with nothing on the board, or is gone.
LEMMA BackToIdle ==
    ASSUME OnBoard', pc' \in {"idle", "down", "finish"}
    PROVE  Memory'
BY DEF Memory, AboutToWrite, OneLoaded, StillStopping, StillRunnable, StillInPlay

LEMMA QuietMemory ==
    ASSUME WInv, NEW t \in Tournaments, NEW p \in Pairs,
           \/ Launch(t, p) \/ PollExit(p) \/ Finalize(p) \/ SprtArtifacts(p)
           \/ Heartbeat \/ TickFails \/ Crash \/ (\E k \in Pids : Exit(k)) \/ UNCHANGED vars
    PROVE  Quiet /\ Memory'
<1>0. IInv
  BY DEF WInv
<1>1. CASE Launch(t, p)
  <2>1. /\ pc = "selected" /\ pc' = "launched" /\ Loaded(t) /\ Match[p] = t
        /\ UNCHANGED <<rows, pairRows, snap>>
    BY <1>1 DEF Launch, MayLaunch, IsFirst, Pending, PairsOf
  <2>2. Quiet
    BY <2>1 DEF Quiet, rows, pairRows
  <2>3. proc'[active'].pair = p
    BY <1>0, <1>1, Types DEF Launch
  <2>4. OnBoard'
    BY <2>1, <2>2, BoardIsFree DEF OnBoard, Quiet
  <2>5. AboutToWrite' /\ OneLoaded'
    BY <2>1, <2>3 DEF WInv, Memory, AboutToWrite, OneLoaded, Loaded
  <2>6. StillRunnable'
    <3>1. StillRunnable /\ pc = "selected"
      BY <2>1 DEF WInv, Memory
    <3> QED
      BY <2>1, <2>2, <3>1 DEF StillRunnable, Quiet, Loaded, HasWork, PairsOf
  <2> QED
    BY <2>1, <2>2, <2>4, <2>5, <2>6 DEF Memory, StillStopping, StillInPlay
<1>2. CASE PollExit(p)
  <2>1. /\ pc = "idle" /\ p = proc[active].pair /\ Quiet /\ UNCHANGED proc
        /\ \/ pc' = "finish" /\ active' = active
           \/ pc' = "idle" /\ pairSt[p] # "RUNNING"
    BY <1>2 DEF PollExit, Polls, Quiet, rows
  <2>2. OnBoard'
    BY <2>1 DEF WInv, Memory, OnBoard, Quiet
  <2> QED
    BY <2>1, <2>2, BackToIdle
<1>3. CASE Finalize(p)
  <2>1. /\ pc = "finish" /\ pc' = "finalizing" /\ p = proc[active].pair /\ Quiet
        /\ LastPair(Match[p]) /\ summary' = [summary EXCEPT ![Match[p]] = "COMPLETED"]
        /\ UNCHANGED <<proc, active, snap, completed>>
    BY <1>3 DEF Finalize, FinishLast, Finishes, Quiet, rows, pairRows
  <2>2. summary'[Match[p]] = "COMPLETED"
    BY <1>0, <2>1, Types
  <2>3. OnBoard'
    BY <2>1 DEF WInv, Memory, OnBoard, Quiet
  <2>4. AboutToWrite'
    BY <2>1, <2>2 DEF AboutToWrite, LastPair
  <2> QED
    BY <2>1, <2>3, <2>4 DEF Memory, OneLoaded, StillStopping, StillRunnable, StillInPlay
<1>4. CASE SprtArtifacts(p)
  <2>1. pc = "artifacts" /\ pc' = "idle" /\ Quiet
    BY <1>4 DEF SprtArtifacts, Quiet, rows, pairRows
  <2>2. OnBoard'
    BY <2>1, BoardIsFree DEF OnBoard, Quiet
  <2> QED
    BY <2>1, <2>2, BackToIdle
<1>5. CASE Heartbeat \/ UNCHANGED vars
  <2>1. Quiet /\ UNCHANGED <<worker, completed, summary, proc>>
    BY <1>5 DEF Heartbeat, vars, Quiet, rows, pairRows, files
  <2> QED
    BY <2>1, SameWorker
<1>6. CASE TickFails
  <2>1. /\ pc \in {"pausing", "scan", "selected", "finish", "finalizing", "artifacts"}
        /\ pc' = "idle" /\ Quiet /\ UNCHANGED <<proc, active>>
    BY <1>6 DEF TickFails, GoTo, Quiet, rows, pairRows
  <2>2. OnBoard'
    BY <2>1 DEF WInv, Memory, OnBoard, Quiet
  <2> QED
    BY <2>1, <2>2, BackToIdle
<1>7. CASE Crash
  <2>1. pc' = "down" /\ Quiet
    BY <1>7 DEF Crash, Quiet, rows, pairRows
  <2> QED
    BY <2>1, BackToIdle DEF OnBoard
<1>8. ASSUME NEW k \in Pids, Exit(k) PROVE Quiet /\ Memory'
  <2>1. Quiet /\ UNCHANGED <<worker, completed, summary>>
    BY <1>8 DEF Exit, Quiet, rows, pairRows
  <2>2. PICK code \in {0, 1} : proc' = [proc EXCEPT ![k] = Gone(@, code)]
    BY <1>8 DEF Exit
  <2>3. \A j \in Pids : proc'[j].pair = proc[j].pair
    BY <1>0, <2>2, Types, GoneType
  <2> QED
    BY <2>1, <2>3, SameWorker
<1> QED
  BY <1>1, <1>2, <1>3, <1>4, <1>5, <1>6, <1>7, <1>8

-----------------------------------------------------------------------------
(* Operators: an endpoint may stop a match in play but not take it away.   *)

LEMMA ApiMoves ==
    ASSUME IInv, Api
    PROVE  /\ UNCHANGED <<completed, pairRows, files, proc, worker>>
           /\ \A t \in Tournaments :
                 \/ status'[t] = status[t]
                 \/ status[t] = "RUNNING" /\ status'[t] = "PAUSING"
                 \/ status[t] \in {"DRAFT", "PAUSED"} /\ status'[t] = "QUEUED"
                 \/ status[t] \in {"QUEUED", "PAUSED"} /\ status'[t] = "CANCELLED"
<1>0. status \in [Tournaments -> Status]
  BY Types
<1>1. PICK u \in Tournaments :
        Start(u) \/ Pause(u) \/ Resume(u) \/ CancelNow(u) \/ CancelLater(u) \/ ForceCancel(u)
  BY DEF Api
<1>2. CASE Start(u) \/ Pause(u)
  BY <1>0, <1>2 DEF Start, Pause, ConditionalUpdate
<1>3. CASE Resume(u) \/ CancelNow(u)
  BY <1>0, <1>3 DEF Resume, CancelNow, ConditionalUpdate
<1>4. CASE CancelLater(u) \/ ForceCancel(u)
  BY <1>0, <1>4 DEF CancelLater, ForceCancel, ConditionalUpdate
<1> QED
  BY <1>1, <1>2, <1>3, <1>4

LEMMA ApiWork ==
    ASSUME WInv, Api
    PROVE  Memory' /\ RunningPairHasLiveMatch' /\ LiveMatchHasWork'
<1>0. IInv
  BY DEF WInv
<1>1. UNCHANGED <<pc, active, snap, proc, pairSt, completed, summary>>
  BY <1>0, ApiMoves DEF pairRows, worker, files
<1>2. \A t \in Tournaments :
        /\ status[t] \in InPlay <=> status'[t] \in InPlay
        /\ status[t] = "PAUSING" => status'[t] = "PAUSING"
        /\ status'[t] = "RUNNING" => status[t] = "RUNNING"
  BY <1>0, ApiMoves DEF InPlay
<1>3. \A t \in Tournaments : status'[t] \notin Ended => status[t] \notin Ended
  BY <1>0, ApiMoves, LiveIsNotEnded
<1>4. OnBoard' /\ AboutToWrite'
  BY <1>1 DEF WInv, Memory, OnBoard, AboutToWrite, Loaded, LastPair
<1>5. OneLoaded' /\ StillStopping' /\ StillInPlay'
  BY <1>1, <1>2 DEF WInv, Memory, OneLoaded, StillStopping, StillInPlay, Loaded, Recovered
<1>6. StillRunnable'
  <2>1. \A t \in Tournaments : HasWork(t)' <=> HasWork(t)
    BY <1>1 DEF HasWork, PairsOf
  <2> QED
    BY <1>1, <1>2, <2>1 DEF WInv, Memory, StillRunnable, Loaded
<1>7. RunningPairHasLiveMatch'
  BY <1>1, <1>2 DEF WInv, RunningPairHasLiveMatch, InPlay
<1>8. LiveMatchHasWork'
  BY <1>1, <1>3 DEF WInv, LiveMatchHasWork, PairsOf
<1> QED
  BY <1>4, <1>5, <1>6, <1>7, <1>8 DEF Memory

-----------------------------------------------------------------------------
(* The tick: what it decides on a match, and the launch.                   *)

\* A match whose loaded row tells it to stop is parked or cancelled between
\* two of its pairs.
LEMMA ApplyWork ==
    ASSUME WInv, NEW t \in Tournaments, ApplyPausing(t) \/ ApplyFlags(t)
    PROVE  Memory' /\ RunningPairHasLiveMatch' /\ LiveMatchHasWork'
<1>1. /\ pc \in {"pausing", "selected"} /\ pc' = "idle" /\ Loaded(t)
      /\ UNCHANGED <<pairSt, active, proc>>
      /\ \E s \in {"CANCELLED", "PAUSED"} : status' = [status EXCEPT ![t] = s]
  BY DEF ApplyPausing, ApplyFlags, GoTo, pairRows
<1>2. status \in [Tournaments -> Status]
  BY Types DEF WInv
<1>3. \A p \in Pairs : pairSt'[p] # "RUNNING"
  BY <1>1, BoardIsFree
<1>4. HasWork(t)
  <2>1. CASE pc = "pausing"
    <3>1. status[t] \notin Ended
      BY <1>1, <2>1, LiveIsNotEnded DEF WInv, Memory, StillStopping
    <3> QED
      BY <3>1 DEF WInv, LiveMatchHasWork, HasWork
  <2>2. CASE pc = "selected"
    BY <1>1, <2>2 DEF WInv, Memory, StillRunnable
  <2> QED
    BY <1>1, <2>1, <2>2
<1>5. LiveMatchHasWork'
  BY <1>1, <1>2, <1>4 DEF WInv, LiveMatchHasWork, HasWork, PairsOf
<1>6. Memory'
  BY <1>1, <1>3, BackToIdle DEF OnBoard
<1> QED
  BY <1>3, <1>5, <1>6 DEF RunningPairHasLiveMatch

\* The pair rows a launch leaves behind, whether cutechess started or not.
LEMMA LaunchRows ==
    ASSUME IInv, NEW t \in Tournaments, NEW p \in Pairs, NEW s, Match[p] = t,
           pairSt' = [q \in Pairs |-> CASE q = p -> s
                        [] q # p /\ q \in Interrupted(t) -> "PENDING"
                        [] OTHER -> pairSt[q]]
    PROVE  /\ pairSt'[p] = s
           /\ \A q \in Pairs : q # p => pairSt'[q] = pairSt[q] \/ pairSt'[q] = "PENDING"
           /\ \A q \in Pairs : Match[q] # t => pairSt'[q] = pairSt[q]
BY DEF Interrupted, PairsOf

LEMMA LaunchCommitWork ==
    ASSUME WInv, NEW t \in Tournaments, LaunchCommit(t)
    PROVE  Memory' /\ RunningPairHasLiveMatch' /\ LiveMatchHasWork'
<1> DEFINE p == proc[active].pair
<1>0. /\ IInv /\ status \in [Tournaments -> Status] /\ active # 0
      /\ pc = "launched" /\ Loaded(t) /\ p \in Pairs
  BY Types DEF WInv, LaunchCommit
<1>1. /\ pc' = "idle" /\ UNCHANGED <<active, proc>>
      /\ status' = IF snap[t].status = "RUNNING" THEN status
                   ELSE [status EXCEPT ![t] = "RUNNING"]
  BY DEF LaunchCommit, GoTo
<1>2. Match[p] = t
  BY <1>0 DEF WInv, Memory, AboutToWrite
<1>3. /\ pairSt'[p] = "RUNNING"
      /\ \A q \in Pairs : q # p => pairSt'[q] = pairSt[q] \/ pairSt'[q] = "PENDING"
      /\ \A q \in Pairs : Match[q] # t => pairSt'[q] = pairSt[q]
  <2>1. pairSt' = [q \in Pairs |-> CASE q = p -> "RUNNING"
                        [] q # p /\ q \in Interrupted(t) -> "PENDING"
                        [] OTHER -> pairSt[q]]
    BY DEF LaunchCommit
  <2> HIDE DEF p
  <2> QED
    BY <1>0, <1>2, <2>1, LaunchRows, SMTT(60)
<1>4. \A q \in Pairs : pairSt[q] # "RUNNING"
  BY <1>0, BoardIsFree
<1>5. HasWork(t) /\ status'[t] \in InPlay
  BY <1>0, <1>1 DEF WInv, Memory, StillRunnable, InPlay
<1>6. \A q \in Pairs : pairSt'[q] = "RUNNING" => q = p
  BY <1>3, <1>4
<1>7. RunningPairHasLiveMatch'
  BY <1>2, <1>5, <1>6 DEF RunningPairHasLiveMatch, InPlay
<1>8. LiveMatchHasWork'
  <2>1. HasWork(t)'
    BY <1>0, <1>2, <1>3, <1>5, ZenonT(60) DEF HasWork, PairsOf
  <2>2. \A u \in Tournaments : u # t => status'[u] = status[u] /\ (HasWork(u)' <=> HasWork(u))
    BY <1>0, <1>1, <1>3 DEF HasWork, PairsOf
  <2> QED
    BY <2>1, <2>2 DEF WInv, LiveMatchHasWork, HasWork
<1>9. Memory'
  BY <1>0, <1>1, <1>6, BackToIdle DEF OnBoard
<1> QED
  BY <1>7, <1>8, <1>9

LEMMA LaunchFailsWork ==
    ASSUME WInv, NEW t \in Tournaments, NEW p \in Pairs, LaunchFails(t, p)
    PROVE  Memory' /\ RunningPairHasLiveMatch' /\ LiveMatchHasWork'
<1>0. /\ IInv /\ status \in [Tournaments -> Status]
      /\ pc = "selected" /\ pc' = "idle" /\ Match[p] = t
      /\ status' = [status EXCEPT ![t] = "FAILED"]
  BY Types DEF WInv, LaunchFails, MayLaunch, GoTo, IsFirst, Pending, PairsOf
<1>1. /\ pairSt'[p] = "FAILED"
      /\ \A q \in Pairs : q # p => pairSt'[q] = pairSt[q] \/ pairSt'[q] = "PENDING"
      /\ \A q \in Pairs : Match[q] # t => pairSt'[q] = pairSt[q]
  <2>1. pairSt' = [q \in Pairs |-> CASE q = p -> "FAILED"
                        [] q # p /\ q \in Interrupted(t) -> "PENDING"
                        [] OTHER -> pairSt[q]]
    BY DEF LaunchFails
  <2> QED
    BY <1>0, <2>1, LaunchRows, SMTT(60)
<1>2. \A q \in Pairs : pairSt'[q] # "RUNNING"
  BY <1>0, <1>1, BoardIsFree
<1>3. LiveMatchHasWork'
  <2>1. status'[t] \in Ended
    BY <1>0 DEF Ended
  <2>2. \A u \in Tournaments : u # t => status'[u] = status[u] /\ (HasWork(u)' <=> HasWork(u))
    BY <1>0, <1>1 DEF HasWork, PairsOf
  <2> QED
    BY <2>1, <2>2 DEF WInv, LiveMatchHasWork, HasWork
<1> QED
  BY <1>0, <1>2, <1>3, BackToIdle DEF OnBoard, RunningPairHasLiveMatch

-----------------------------------------------------------------------------
(* The pair on the board is abandoned, failed or scored.                   *)

\* The last pair of a match is the one whose score leaves none to play.
LEMMA LastPairIsLast ==
    ASSUME WInv, NEW p \in Pairs, pairSt[p] = "RUNNING"
    PROVE  LastPair(Match[p]) <=> PairsOf(Match[p]) = Scored(Match[p]) \cup {p}
<1> DEFINE t == Match[p]
<1>1. /\ t \in Tournaments /\ p \in PairsOf(t) /\ p \notin Scored(t)
      /\ Scored(t) \subseteq PairsOf(t) /\ completed[t] = Cardinality(Scored(t))
  BY DEF WInv, IInv, TallyMatchesPairs, PairsOf, Scored
<1>2. /\ IsFiniteSet(PairsOf(t)) /\ IsFiniteSet(Scored(t)) /\ Cardinality(Scored(t)) \in Nat
      /\ Requested(t) \in Nat /\ Requested(t) = Cardinality(PairsOf(t))
  BY <1>1, PairsFinite DEF Requested
<1>3. /\ Cardinality(Scored(t) \cup {p}) = Cardinality(Scored(t)) + 1
      /\ IsFiniteSet(Scored(t) \cup {p})
  BY <1>1, <1>2, FS_AddElement
<1>4. LastPair(t) <=> Cardinality(Scored(t) \cup {p}) >= Requested(t)
  BY <1>1, <1>3 DEF LastPair
<1>5. Scored(t) \cup {p} \subseteq PairsOf(t)
  BY <1>1
<1>6. ASSUME LastPair(t) PROVE PairsOf(t) = Scored(t) \cup {p}
  <2>1. Cardinality(Scored(t) \cup {p}) <= Cardinality(PairsOf(t))
    BY <1>2, <1>5, FS_Subset
  <2>2. Cardinality(Scored(t) \cup {p}) = Cardinality(PairsOf(t))
    BY <1>2, <1>3, <1>4, <1>6, <2>1
  <2> QED
    BY <1>2, <1>5, <2>2, FS_Subset
<1>7. ASSUME PairsOf(t) = Scored(t) \cup {p} PROVE LastPair(t)
  BY <1>2, <1>3, <1>4, <1>7
<1> QED
  BY <1>6, <1>7

LEMMA OffBoard ==
    ASSUME WInv, NEW p \in Pairs, NEW s \in {"INTERRUPTED", "FAILED", "COMPLETED"},
           pairSt[p] = "RUNNING", pairSt' = [pairSt EXCEPT ![p] = s],
           \A t \in Tournaments : t # Match[p] => status'[t] = status[t],
           status'[Match[p]] \in Ended \/ HasWork(Match[p])'
    PROVE  /\ \A q \in Pairs : pairSt'[q] # "RUNNING"
           /\ RunningPairHasLiveMatch' /\ LiveMatchHasWork'
<1>1. pairSt \in [Pairs -> PairStatus]
  BY Types DEF WInv
<1>2. \A q \in Pairs : pairSt'[q] # "RUNNING"
  BY <1>1, RunningPair
<1>3. \A t \in Tournaments : t # Match[p] => (HasWork(t)' <=> HasWork(t))
  BY <1>1 DEF HasWork, PairsOf
<1>4. LiveMatchHasWork'
  BY <1>3 DEF WInv, LiveMatchHasWork, HasWork
<1> QED
  BY <1>2, <1>4 DEF RunningPairHasLiveMatch

\* An interrupted pair is one to play again.
LEMMA InterruptWork ==
    ASSUME WInv, NEW p \in Pairs, NEW t \in Tournaments, t = Match[p], pairSt[p] = "RUNNING",
           pairSt' = [pairSt EXCEPT ![p] = "INTERRUPTED"]
    PROVE  HasWork(t)'
<1>1. pairSt \in [Pairs -> PairStatus] /\ HasWork(t)
  BY Types, RunningPair DEF WInv
<1> QED
  BY <1>1 DEF HasWork, PairsOf

LEMMA ForceKillWork ==
    ASSUME WInv, NEW p \in Pairs, ForceKill(p)
    PROVE  Memory' /\ RunningPairHasLiveMatch' /\ LiveMatchHasWork'
<1>0. status \in [Tournaments -> Status] /\ "CANCELLED" \in Ended
  BY Types DEF WInv, Ended
<1>1. /\ pc = "idle" /\ pc' = "idle" /\ p = proc[active].pair
      /\ status' = [status EXCEPT ![Match[p]] = "CANCELLED"]
  BY DEF ForceKill, Polls
<1>2. status'[Match[p]] \in Ended /\ \A t \in Tournaments : t # Match[p] => status'[t] = status[t]
  BY <1>0, <1>1
<1>3. CASE pairSt[p] = "RUNNING"
  <2>1. pairSt' = [pairSt EXCEPT ![p] = "INTERRUPTED"]
    BY <1>3 DEF ForceKill
  <2> QED
    BY <1>1, <1>2, <1>3, <2>1, OffBoard, BackToIdle DEF OnBoard
<1>4. CASE pairSt[p] # "RUNNING"
  <2>1. pairSt' = pairSt
    BY <1>4 DEF ForceKill
  <2>2. \A q \in Pairs : pairSt'[q] # "RUNNING"
    BY <1>1, <1>4, <2>1 DEF WInv, Memory, OnBoard
  <2>3. LiveMatchHasWork'
    BY <1>2, <2>1 DEF WInv, LiveMatchHasWork, PairsOf
  <2> QED
    BY <1>1, <2>2, <2>3, BackToIdle DEF OnBoard, RunningPairHasLiveMatch
<1> QED
  BY <1>3, <1>4

\* What the scheduler knows when it ends a pair.
LEMMA Finishing ==
    ASSUME WInv, NEW p \in Pairs,
           Finishes(p) \/ FinalizeCommit(p)
    PROVE  /\ pairSt[p] = "RUNNING" /\ p = proc[active].pair /\ active # 0
           /\ status \in [Tournaments -> Status] /\ Match[p] \in Tournaments
BY Types DEF WInv, IInv, Supervised, Finishes, FinalizeCommit

LEMMA FinishWork ==
    ASSUME WInv, NEW p \in Pairs,
           \/ FinishFailed(p) \/ FinishPair(p) \/ FinishSprt(p) \/ FinishCancelled(p)
           \/ FinalizeCommit(p)
    PROVE  Memory' /\ RunningPairHasLiveMatch' /\ LiveMatchHasWork'
<1>0. /\ pairSt[p] = "RUNNING" /\ p = proc[active].pair /\ active # 0
      /\ status \in [Tournaments -> Status] /\ Match[p] \in Tournaments
      /\ pairSt \in [Pairs -> PairStatus]
  BY Finishing, Types DEF WInv, FinishFailed, FinishPair, FinishSprt, FinishCancelled, FinishLast
<1>1. CASE FinishFailed(p)
  <2>1. /\ pairSt' = [pairSt EXCEPT ![p] = "FAILED"] /\ pc' = "idle"
        /\ status' = [status EXCEPT ![Match[p]] = "FAILED"]
    BY <1>1 DEF FinishFailed
  <2>2. status'[Match[p]] \in Ended /\ \A t \in Tournaments : t # Match[p] => status'[t] = status[t]
    BY <1>0, <2>1 DEF Ended
  <2> QED
    BY <1>0, <2>1, <2>2, OffBoard, BackToIdle DEF OnBoard
<1>2. CASE FinishPair(p)
  <2>1. /\ pairSt' = [pairSt EXCEPT ![p] = "COMPLETED"] /\ pc' = "idle" /\ status' = status
        /\ ~LastPair(Match[p])
    BY <1>2 DEF FinishPair, ScorePair
  <2>2. PairsOf(Match[p]) # Scored(Match[p]) \cup {p}
    BY <1>0, <2>1, LastPairIsLast
  <2>3. PICK q \in PairsOf(Match[p]) : q # p /\ pairSt[q] # "COMPLETED"
    BY <1>0, <2>2 DEF PairsOf, Scored
  <2>4. HasWork(Match[p])
    BY <1>0, RunningPair
  <2>5. HasWork(Match[p])'
    BY <1>0, <2>1, <2>3, <2>4 DEF HasWork, PairsOf, PairStatus
  <2> QED
    BY <1>0, <2>1, <2>5, OffBoard, BackToIdle DEF OnBoard
<1>3. CASE FinishSprt(p)
  <2> DEFINE verdict == SprtStatus(Match[p], completed[Match[p]] + 1)
  <2>1. /\ pairSt' = [pairSt EXCEPT ![p] = "COMPLETED"] /\ pc = "finish" /\ pc' = "artifacts"
        /\ status' = [status EXCEPT ![Match[p]] = verdict] /\ verdict # "CONTINUE"
        /\ UNCHANGED <<active, proc>>
    BY <1>3 DEF FinishSprt, ScorePair, Finishes
  <2>2. verdict \in Ended
    BY <1>0, <2>1, VerdictType DEF WInv, Ended, ResultTerminal
  <2>3. status'[Match[p]] \in Ended /\ \A t \in Tournaments : t # Match[p] => status'[t] = status[t]
    BY <1>0, <2>1, <2>2
  <2>4. /\ \A q \in Pairs : pairSt'[q] # "RUNNING"
        /\ RunningPairHasLiveMatch' /\ LiveMatchHasWork'
    BY <1>0, <2>1, <2>3, OffBoard
  <2>5. OnBoard' /\ AboutToWrite'
    BY <1>0, <2>1, <2>4 DEF OnBoard, AboutToWrite
  <2> QED
    BY <2>1, <2>4, <2>5 DEF Memory, OneLoaded, StillStopping, StillRunnable, StillInPlay
<1>4. CASE FinishCancelled(p) \/ FinalizeCommit(p)
  <2>1. /\ pairSt' = [pairSt EXCEPT ![p] = "COMPLETED"] /\ pc' = "idle"
        /\ \E s \in {"CANCELLED", "COMPLETED"} : status' = [status EXCEPT ![Match[p]] = s]
    BY <1>4 DEF FinishCancelled, FinalizeCommit, ScorePair
  <2>2. status'[Match[p]] \in Ended /\ \A t \in Tournaments : t # Match[p] => status'[t] = status[t]
    BY <1>0, <2>1 DEF Ended, ResultTerminal
  <2> QED
    BY <1>0, <2>1, <2>2, OffBoard, BackToIdle DEF OnBoard
<1> QED
  BY <1>1, <1>2, <1>3, <1>4

LEMMA ShutdownWork ==
    ASSUME WInv, Shutdown
    PROVE  Memory' /\ RunningPairHasLiveMatch' /\ LiveMatchHasWork'
<1>1. /\ pc' = "down" /\ status' = status
      /\ \/ pairSt' = pairSt
         \/ /\ active # 0 /\ pairSt[proc[active].pair] = "RUNNING"
            /\ pairSt' = [pairSt EXCEPT ![proc[active].pair] = "INTERRUPTED"]
  BY DEF Shutdown, rows
<1>2. Memory'
  BY <1>1, BackToIdle DEF OnBoard
<1>3. CASE pairSt' = pairSt
  BY <1>1, <1>2, <1>3, QuietRows DEF Quiet
<1>4. CASE pairSt' # pairSt
  <2>1. PICK p \in Pairs :
          pairSt[p] = "RUNNING" /\ pairSt' = [pairSt EXCEPT ![p] = "INTERRUPTED"]
    BY <1>1, <1>4, Types DEF WInv
  <2>2. HasWork(Match[p])'
    BY <2>1, InterruptWork
  <2> QED
    BY <1>1, <1>2, <2>1, <2>2, OffBoard
<1> QED
  BY <1>3, <1>4

-----------------------------------------------------------------------------
(* Recovery.                                                               *)

\* What recovery makes of each pair: nothing stays RUNNING, only judged pairs
\* are scored or failed, and a pair to play stays one.
LEMMA RecoveredPairs ==
    ASSUME WInv, Recover, NEW p \in Pairs
    PROVE  /\ pairSt[p] = "RUNNING" => p \in Orphaned
           /\ pairSt'[p] \in PairStatus \ {"RUNNING"}
           /\ pairSt'[p] = "FAILED" => pairSt[p] = "FAILED" \/ Fails(p)
           /\ pairSt'[p] = "COMPLETED" => pairSt[p] = "COMPLETED" \/ Scores(p)
           /\ Scores(p) \/ Fails(p) => p \in Orphaned
<1>1. pairSt[p] = "RUNNING" => p \in Orphaned
  <2>1. pc = "recovering"
    BY DEF Recover
  <2> QED
    BY <2>1, RunningPair DEF WInv, Memory, StillInPlay, Orphaned
<1>2. pairSt[p] = "RUNNING" =>
        Scores(p) \/ Fails(p) \/ p \in Rerun \/ (p \in Orphaned /\ Forced(Match[p]))
  BY <1>1 DEF Scores, Fails, Kept, Judged, Rerun
<1>3. pairSt' = [q \in Pairs |->
          CASE Scores(q) -> "COMPLETED"
            [] Fails(q) -> "FAILED"
            [] q \in Rerun \cup Requeued -> "PENDING"
            [] q \in Orphaned /\ Forced(Match[q]) -> "INTERRUPTED"
            [] OTHER -> pairSt[q]]
  BY DEF Recover
<1>4. pairSt[p] \in PairStatus
  BY Types DEF WInv
<1>5. Scores(p) \/ Fails(p) => p \in Orphaned
  BY DEF Scores, Fails, Kept, Judged
<1> QED
  BY <1>1, <1>2, <1>3, <1>4, <1>5 DEF PairStatus

\* Recovery ends a match exactly when it leaves it without a pair to play.
LEMMA RecoveredTally ==
    ASSUME IInv, IInv', Recover, NEW t \in Tournaments
    PROVE  CompletedNow(t) >= Requested(t) <=> Scored(t)' = PairsOf(t)
<1>1. completed'[t] = CompletedNow(t) /\ completed'[t] = Cardinality(Scored(t)')
  BY DEF Recover, IInv, TallyMatchesPairs
<1>2. Scored(t)' \subseteq PairsOf(t) /\ IsFiniteSet(PairsOf(t))
  BY PairsFinite DEF Scored, PairsOf
<1>3. /\ IsFiniteSet(Scored(t)') /\ Cardinality(Scored(t)') <= Cardinality(PairsOf(t))
      /\ Cardinality(Scored(t)') = Cardinality(PairsOf(t)) => Scored(t)' = PairsOf(t)
  BY <1>2, FS_Subset
<1>4. Cardinality(Scored(t)') \in Nat /\ Requested(t) \in Nat
  BY <1>3, PairsFinite, FS_CardinalityType
<1> QED
  BY <1>1, <1>3, <1>4 DEF Requested

LEMMA RecoverWork ==
    ASSUME WInv, IInv', Recover
    PROVE  Memory' /\ RunningPairHasLiveMatch' /\ LiveMatchHasWork'
<1>0. IInv /\ pc = "recovering" /\ pc' = "idle" /\ status' = [t \in Tournaments |-> StatusAfter(t)]
  BY DEF WInv, Recover
<1>1. \A p \in Pairs : pairSt'[p] # "RUNNING"
  BY RecoveredPairs
<1>2. Memory' /\ RunningPairHasLiveMatch'
  BY <1>0, <1>1, BackToIdle DEF OnBoard, RunningPairHasLiveMatch
<1>3. ASSUME NEW t \in Tournaments, status'[t] \notin Ended PROVE HasWork(t)'
  <2>1. StatusAfter(t) \notin Ended /\ {"CANCELLED", "FAILED", "COMPLETED"} \subseteq Ended
    BY <1>0, <1>3 DEF Ended, ResultTerminal
  <2>2. ASSUME HasWork(t), ~FailedMatch(t), NewlyScored(t) = {} PROVE HasWork(t)'
    <3>1. PICK p \in PairsOf(t) : pairSt[p] \in {"PENDING", "RUNNING", "INTERRUPTED"}
      BY <2>2 DEF HasWork
    <3>2. \A q \in PairsOf(t) : pairSt'[q] # "FAILED"
      BY <2>2, RecoveredPairs DEF HasWork, FailedMatch, PairsOf
    <3>3. pairSt'[p] # "COMPLETED"
      BY <2>2, <3>1, RecoveredPairs DEF NewlyScored, PairsOf
    <3> QED
      BY <3>1, <3>2, <3>3, RecoveredPairs DEF HasWork, PairsOf, PairStatus
  <2>3. CASE ~Recovered(t)
    <3>1. status[t] \notin Ended
      BY <2>1, <2>3 DEF StatusAfter
    <3>2. HasWork(t)
      BY <3>1 DEF WInv, LiveMatchHasWork, HasWork
    <3>3. \A p \in PairsOf(t) : p \notin Orphaned
      BY <2>3 DEF Orphaned, PairsOf
    <3>4. ~FailedMatch(t) /\ NewlyScored(t) = {}
      BY <3>3, RecoveredPairs DEF FailedMatch, NewlyScored, PairsOf
    <3> QED
      BY <2>2, <3>2, <3>4
  <2>4. CASE Recovered(t)
    <3>1. ~Forced(t)
      BY <2>1, <2>4 DEF StatusAfter
    <3>2. ~FailedMatch(t) /\ ~EndsNow(t)
      BY <2>1, <2>4, <3>1 DEF StatusAfter
    <3>3. status[t] \notin Ended
      <4>1. StatusAfter(t) = status[t] \/ snap[t].status \in InPlay
        BY <2>1, <2>4, <3>1, <3>2 DEF StatusAfter, InPlay
      <4> QED
        BY <1>0, <2>1, <4>1, LiveIsNotEnded DEF WInv, Memory, StillInPlay, InPlay
    <3>4. HasWork(t)
      BY <3>3 DEF WInv, LiveMatchHasWork, HasWork
    <3>5. CASE NewlyScored(t) # {}
      <4>1. Scored(t)' # PairsOf(t)
        BY <1>0, <3>2, <3>5, RecoveredTally DEF EndsNow
      <4>2. PICK p \in PairsOf(t) : pairSt'[p] # "COMPLETED"
        BY <4>1 DEF Scored, PairsOf
      <4>3. \A q \in PairsOf(t) : pairSt'[q] # "FAILED"
        BY <3>2, <3>4, RecoveredPairs DEF HasWork, FailedMatch, PairsOf
      <4> QED
        BY <4>2, <4>3, RecoveredPairs DEF HasWork, PairsOf, PairStatus
    <3> QED
      BY <2>2, <3>2, <3>4, <3>5
  <2> QED
    BY <2>3, <2>4
<1> QED
  BY <1>2, <1>3 DEF LiveMatchHasWork, HasWork

-----------------------------------------------------------------------------
(* A completed match is whole.                                             *)

\* The summary of a completed match is not written again.
LEMMA SummaryKept ==
    ASSUME IInv, IInv', [Next]_vars, NEW t \in Tournaments,
           status[t] = "COMPLETED", summary[t] = "COMPLETED"
    PROVE  summary'[t] = "COMPLETED"
<1>0. summary \in [Tournaments -> ResultTerminal \cup {"none"}]
  BY Types
<1>1. ASSUME NEW p \in Pairs, SprtArtifacts(p) PROVE summary'[t] = "COMPLETED"
  <2>1. /\ pc = "artifacts" /\ p = proc[active].pair
        /\ summary' = [summary EXCEPT ![Match[p]] = status[Match[p]]]
    BY <1>1 DEF SprtArtifacts
  <2>2. status[Match[p]] \in SprtTerminal
    BY <2>1 DEF IInv, Supervised
  <2>3. Match[p] # t
    BY <2>2 DEF SprtTerminal
  <2> QED
    BY <1>0, <2>1, <2>3
<1>2. ASSUME NEW p \in Pairs, Finalize(p) PROVE summary'[t] = "COMPLETED"
  BY <1>0, <1>2 DEF Finalize
<1>3. CASE Recover
  <2>1. summary' = [u \in Tournaments |->
            IF Decided(u) /\ ~FlaggedNow(u) THEN "COMPLETED" ELSE summary[u]]
    BY <1>3 DEF Recover
  <2> QED
    BY <2>1
<1>4. ASSUME NEW u \in Tournaments, NEW p \in Pairs,
             \/ ApplyPausing(u) \/ ApplyFlags(u) \/ LaunchCommit(u) \/ Launch(u, p)
             \/ LaunchFails(u, p)
      PROVE  summary' = summary
  BY <1>4 DEF ApplyPausing, ApplyFlags, LaunchCommit, Launch, LaunchFails, files
<1>5. ASSUME NEW p \in Pairs,
             \/ ForceKill(p) \/ PollExit(p) \/ FinishFailed(p) \/ FinishPair(p)
             \/ FinishSprt(p) \/ FinishCancelled(p) \/ FinalizeCommit(p)
      PROVE  summary' = summary
  BY <1>5 DEF ForceKill, PollExit, FinishFailed, FinishPair, FinishSprt, FinishCancelled,
     FinalizeCommit, files
<1>6. CASE \/ Api \/ Heartbeat \/ Boot \/ RecoveryRead \/ ReadPausing \/ ReadNext
           \/ Fault \/ (\E k \in Pids : Exit(k)) \/ UNCHANGED vars
  BY <1>6, ApiMoves DEF Heartbeat, Boot, RecoveryRead, ReadPausing, ReadNext, Fault, TickFails,
     Shutdown, Crash, Exit, vars, files
<1> QED
  BY <1>1, <1>2, <1>3, <1>4, <1>5, <1>6 DEF Next, Tick, LaunchError, Recovery

LEMMA WholeStep ==
    ASSUME WInv, IInv', [Next]_vars
    PROVE  CompletedIsWhole'
<1> SUFFICES ASSUME NEW t \in Tournaments, status'[t] = "COMPLETED"
             PROVE  Scored(t)' = PairsOf(t) /\ summary'[t] = "COMPLETED"
  BY DEF CompletedIsWhole, PairsOf
<1>0. IInv /\ CompletedIsWhole
  BY DEF WInv
<1>1. CASE status[t] = "COMPLETED"
  <2>1. Scored(t) = PairsOf(t) /\ summary[t] = "COMPLETED"
    BY <1>0, <1>1 DEF CompletedIsWhole
  <2>2. \A p \in PairsOf(t) : pairSt'[p] = "COMPLETED"
    BY <1>0, <2>1, FinalStep DEF Scored, PairsOf
  <2> QED
    BY <1>0, <1>1, <2>1, <2>2, SummaryKept DEF Scored, PairsOf
<1>2. CASE status[t] # "COMPLETED"
  <2>1. (\E p \in Pairs : FinalizeCommit(p)) \/ Recover
    BY <1>0, <1>2, CompletingSteps DEF NoneCompleted
  <2>2. ASSUME NEW p \in Pairs, FinalizeCommit(p)
        PROVE  Scored(t)' = PairsOf(t) /\ summary'[t] = "COMPLETED"
    <3>1. /\ pc = "finalizing" /\ pairSt' = [pairSt EXCEPT ![p] = "COMPLETED"]
          /\ status' = [status EXCEPT ![Match[p]] = "COMPLETED"] /\ summary' = summary
      BY <2>2 DEF FinalizeCommit, ScorePair, files
    <3>2. pairSt[p] = "RUNNING" /\ p = proc[active].pair /\ t = Match[p]
      BY <1>2, <2>2, <3>1, Finishing
    <3>3. LastPair(t) /\ summary[t] = "COMPLETED"
      BY <3>1, <3>2 DEF WInv, Memory, AboutToWrite
    <3>4. PairsOf(t) = Scored(t) \cup {p}
      BY <3>2, <3>3, LastPairIsLast
    <3>5. pairSt \in [Pairs -> PairStatus]
      BY <1>0, Types
    <3>6. \A q \in PairsOf(t) : pairSt'[q] = "COMPLETED"
      BY <3>1, <3>4, <3>5 DEF Scored, PairsOf
    <3> QED
      BY <3>1, <3>3, <3>6 DEF Scored, PairsOf
  <2>3. CASE Recover
    <3>1. /\ StatusAfter(t) = "COMPLETED"
          /\ summary'[t] = IF Decided(t) /\ ~FlaggedNow(t) THEN "COMPLETED" ELSE summary[t]
      BY <2>3 DEF Recover
    <3>2. Decided(t) /\ ~FlaggedNow(t)
      <4>1. Recovered(t) /\ ~Forced(t)
        BY <1>2, <3>1 DEF StatusAfter, Forced
      <4> QED
        BY <1>2, <3>1, <4>1 DEF StatusAfter, Decided
    <3>3. CompletedNow(t) >= Requested(t)
      BY <3>2 DEF Decided, EndsNow
    <3> QED
      BY <1>0, <2>3, <3>1, <3>2, <3>3, RecoveredTally
  <2> QED
    BY <2>1, <2>2, <2>3
<1> QED
  BY <1>1, <1>2

-----------------------------------------------------------------------------
(* The theorems.                                                           *)

LEMMA WorkStep ==
    ASSUME WInv, IInv', [Next]_vars
    PROVE  Memory' /\ RunningPairHasLiveMatch' /\ LiveMatchHasWork'
<1>1. CASE Tick
  BY <1>1, ReadsMemory, QuietMemory, QuietRows, ApplyWork, LaunchCommitWork, ForceKillWork,
     FinishWork, MatchAssumption DEF Tick
<1>2. CASE LaunchError
  BY <1>2, LaunchFailsWork DEF LaunchError
<1>3. CASE Api
  BY <1>3, ApiWork
<1>4. CASE Heartbeat \/ Boot \/ RecoveryRead \/ (\E k \in Pids : Exit(k)) \/ UNCHANGED vars
  BY <1>4, ReadsMemory, QuietMemory, QuietRows, MatchAssumption
<1>5. CASE Fault
  BY <1>5, QuietMemory, QuietRows, ShutdownWork, MatchAssumption DEF Fault
<1> QED
  BY <1>1, <1>2, <1>3, <1>4, <1>5, RecoverWork DEF Next, Recovery

LEMMA InitWork == Init => WInv
<1> SUFFICES ASSUME Init PROVE WInv
  OBVIOUS
<1>1. /\ pc = "down" /\ \A p \in Pairs : pairSt[p] = "PENDING"
      /\ \A t \in Tournaments : status[t] = "DRAFT"
  BY DEF Init
<1>2. Memory /\ RunningPairHasLiveMatch /\ CompletedIsWhole
  BY <1>1 DEF Memory, OnBoard, AboutToWrite, OneLoaded, StillStopping, StillRunnable, StillInPlay,
     RunningPairHasLiveMatch, CompletedIsWhole
<1>3. LiveMatchHasWork
  BY <1>1 DEF LiveMatchHasWork, PairsOf
<1> QED
  BY <1>2, <1>3, InitInv DEF WInv

LEMMA WorkHolds == Spec => []WInv
<1>1. WInv /\ IInv' /\ [Next]_vars => WInv'
  BY WorkStep, WholeStep DEF WInv
<1> QED
  BY InitWork, InvHolds, <1>1, PTL DEF Spec

\* One pair runs at a time, and its match is in play.
THEOREM RunningPairCorrect == Spec => []RunningPairHasLiveMatch
<1>1. WInv => RunningPairHasLiveMatch
  BY DEF WInv
<1> QED
  BY WorkHolds, <1>1, PTL

\* A match that has not ended has a pair to play and no failed pair.
THEOREM LiveMatchCorrect == Spec => []LiveMatchHasWork
<1>1. WInv => LiveMatchHasWork
  BY DEF WInv
<1> QED
  BY WorkHolds, <1>1, PTL

\* A COMPLETED match has all its results and its artifacts.
THEOREM CompletedCorrect == Spec => []CompletedIsWhole
<1>1. WInv => CompletedIsWhole
  BY DEF WInv
<1> QED
  BY WorkHolds, <1>1, PTL

-----------------------------------------------------------------------------
(* The refinement: the committed pair rows move as PairLedger allows.      *)

Playing == {p \in Pairs : pairSt[p] = "RUNNING"}
Done == {p \in Pairs : pairSt[p] = "COMPLETED"}
Lost == {p \in Pairs : pairSt[p] = "FAILED"}

\* The tally follows the scored pairs, because the invariant says what it is.
LEMMA SameTally ==
    ASSUME IInv, IInv', Done' = Done
    PROVE  completed' = completed
<1>1. \A t \in Tournaments : Scored(t)' = Scored(t)
  BY DEF Scored, PairsOf, Done
<1>2. completed \in [Tournaments -> Nat] /\ completed' \in [Tournaments -> Nat]
  BY DEF IInv, TypeInv, TypeOK
<1>3. \A t \in Tournaments : completed'[t] = completed[t]
  BY <1>1 DEF IInv, TallyMatchesPairs
<1>4. /\ completed = [t \in Tournaments |-> completed[t]]
      /\ completed' = [t \in Tournaments |-> completed'[t]]
  BY <1>2
<1> QED
  BY <1>3, <1>4

LEMMA OneMoreTally ==
    ASSUME IInv, IInv', NEW p \in Pairs, p \notin Done, Done' = Done \cup {p}
    PROVE  completed' = [completed EXCEPT ![Match[p]] = @ + 1]
<1> DEFINE m == Match[p]
<1>1. completed \in [Tournaments -> Nat] /\ completed' \in [Tournaments -> Nat] /\ m \in Tournaments
  BY DEF IInv, TypeInv, TypeOK
<1>2. \A t \in Tournaments : t # m => Scored(t)' = Scored(t)
  BY DEF Scored, PairsOf, Done
<1>3. Scored(m)' = Scored(m) \cup {p} /\ p \notin Scored(m)
  BY DEF Scored, PairsOf, Done
<1>4. Cardinality(Scored(m)') = Cardinality(Scored(m)) + 1
  BY <1>1, <1>3, PairsFinite, FS_AddElement
<1>5. \A t \in Tournaments : t # m => completed'[t] = completed[t]
  BY <1>2 DEF IInv, TallyMatchesPairs
<1>6. completed'[m] = completed[m] + 1
  BY <1>1, <1>4 DEF IInv, TallyMatchesPairs
<1> QED
  BY <1>1, <1>5, <1>6

LedgerStep == [Ledger!Next]_(Ledger!ledger)

LEMMA LedgerStutters ==
    ASSUME IInv, IInv', UNCHANGED <<Playing, Done, Lost>>
    PROVE  LedgerStep
BY SameTally DEF LedgerStep, Ledger!ledger, Playing, Done, Lost

LEMMA LedgerBegins ==
    ASSUME IInv, IInv', NEW p \in Pairs, Playing = {}, p \notin Done, HasWork(Match[p]),
           Playing' = {p}, UNCHANGED <<Done, Lost>>
    PROVE  LedgerStep
<1>1. p \notin Lost /\ \A q \in Lost : Match[q] # Match[p]
  BY DEF HasWork, PairsOf, Lost
<1> QED
  BY <1>1, SameTally DEF LedgerStep, Ledger!Next, Ledger!Begin, Ledger!Open, Playing, Done, Lost

LEMMA LedgerAbandons ==
    ASSUME IInv, IInv', Playing # {}, Playing' = {}, UNCHANGED <<Done, Lost>>
    PROVE  LedgerStep
BY SameTally DEF LedgerStep, Ledger!Next, Ledger!Abandon, Playing, Done, Lost

LEMMA LedgerScores ==
    ASSUME WInv, IInv', NEW p \in Pairs, p \in Playing, Playing' = {},
           Done' = Done \cup {p}, Lost' = Lost
    PROVE  LedgerStep
<1>1. p \notin Done /\ p \notin Lost /\ HasWork(Match[p])
  BY RunningPair DEF Playing, Done, Lost
<1>2. \A q \in Lost : Match[q] # Match[p]
  BY <1>1 DEF HasWork, PairsOf, Lost
<1>3. completed' = [completed EXCEPT ![Match[p]] = @ + 1]
  BY <1>1, OneMoreTally DEF WInv
<1> QED
  BY <1>1, <1>2, <1>3 DEF LedgerStep, Ledger!Next, Ledger!Score, Ledger!Open, Playing, Done, Lost

LEMMA LedgerFails ==
    ASSUME IInv, IInv', NEW p \in Pairs, Playing \subseteq {p}, p \notin Done, HasWork(Match[p]),
           Playing' = {}, Lost' = Lost \cup {p}, Done' = Done
    PROVE  LedgerStep
<1>1. p \notin Lost /\ \A q \in Lost : Match[q] # Match[p]
  BY DEF HasWork, PairsOf, Lost
<1> QED
  BY <1>1, SameTally DEF LedgerStep, Ledger!Next, Ledger!Fail, Ledger!Open, Playing, Done, Lost

\* A pair leaves the board.
LEMMA OffBoardLedger ==
    ASSUME WInv, IInv', NEW p \in Pairs, NEW s \in {"INTERRUPTED", "FAILED", "COMPLETED"},
           pairSt[p] = "RUNNING", pairSt' = [pairSt EXCEPT ![p] = s]
    PROVE  LedgerStep
<1>0. IInv /\ pairSt \in [Pairs -> PairStatus] /\ HasWork(Match[p])
  BY Types, RunningPair DEF WInv
<1>1. Playing = {p} /\ p \notin Done
  BY RunningPair, ZenonT(60) DEF Playing, Done
<1>2. Playing' = {}
  BY <1>0, RunningPair DEF Playing
<1>3. CASE s = "INTERRUPTED"
  <2>1. UNCHANGED <<Done, Lost>>
    BY <1>0, <1>3 DEF Done, Lost
  <2> QED
    BY <1>0, <1>1, <1>2, <2>1, LedgerAbandons
<1>4. CASE s = "FAILED"
  <2>1. Lost' = Lost \cup {p} /\ Done' = Done
    BY <1>0, <1>4 DEF Done, Lost
  <2> QED
    BY <1>0, <1>1, <1>2, <2>1, LedgerFails
<1>5. CASE s = "COMPLETED"
  <2>1. Done' = Done \cup {p} /\ Lost' = Lost
    BY <1>0, <1>5 DEF Done, Lost
  <2> QED
    BY <1>1, <1>2, <2>1, LedgerScores
<1> QED
  BY <1>3, <1>4, <1>5

LEMMA LaunchLedger ==
    ASSUME WInv, IInv', NEW t \in Tournaments, NEW p \in Pairs, LaunchCommit(t) \/ LaunchFails(t, p)
    PROVE  LedgerStep
<1>0. IInv
  BY DEF WInv
<1>1. CASE LaunchCommit(t)
  <2> DEFINE r == proc[active].pair
  <2>1. /\ pc = "launched" /\ Loaded(t) /\ r \in Pairs /\ Match[r] = t /\ HasWork(t)
        /\ pairSt[r] \in {"PENDING", "INTERRUPTED"}
        /\ pairSt' = [q \in Pairs |-> CASE q = r -> "RUNNING"
                        [] q # r /\ q \in Interrupted(t) -> "PENDING"
                        [] OTHER -> pairSt[q]]
    BY <1>0, <1>1, Types DEF LaunchCommit, WInv, Memory, AboutToWrite, StillRunnable, IInv, Supervised
  <2>2. Playing = {}
    BY <2>1, BoardIsFree DEF Playing
  <2> HIDE DEF r
  <2>3. \A q \in Interrupted(t) : pairSt[q] = "INTERRUPTED"
    BY DEF Interrupted
  <2>4. Playing' = {r} /\ r \notin Done /\ UNCHANGED <<Done, Lost>>
    BY <2>1, <2>2, <2>3 DEF Playing, Done, Lost
  <2> QED
    BY <1>0, <2>1, <2>2, <2>4, LedgerBegins
<1>2. CASE LaunchFails(t, p)
  <2>1. /\ pc = "selected" /\ Loaded(t) /\ Match[p] = t /\ HasWork(t)
        /\ pairSt[p] \in {"PENDING", "INTERRUPTED"}
        /\ pairSt' = [q \in Pairs |-> CASE q = p -> "FAILED"
                        [] q # p /\ q \in Interrupted(t) -> "PENDING"
                        [] OTHER -> pairSt[q]]
    BY <1>2 DEF LaunchFails, MayLaunch, IsFirst, Pending, PairsOf, WInv, Memory, StillRunnable
  <2>2. Playing = {}
    BY <2>1, BoardIsFree DEF Playing
  <2>3. \A q \in Interrupted(t) : pairSt[q] = "INTERRUPTED"
    BY DEF Interrupted
  <2>4. Playing' = {} /\ p \notin Done /\ Lost' = Lost \cup {p} /\ Done' = Done
    BY <2>1, <2>2, <2>3 DEF Playing, Done, Lost
  <2> QED
    BY <1>0, <2>1, <2>2, <2>4, LedgerFails
<1> QED
  BY <1>1, <1>2

LEMMA RecoverLedger ==
    ASSUME WInv, IInv', Recover
    PROVE  LedgerStep
<1>0. IInv /\ [Next]_vars
  BY DEF WInv, Next, Recovery
<1>1. Playing' = {}
  BY RecoveredPairs DEF Playing
<1>2. \A p \in Pairs : pairSt[p] \in {"COMPLETED", "FAILED"} => pairSt'[p] = pairSt[p]
  BY <1>0, FinalStep
<1>3. \A p \in Pairs : pairSt'[p] \in {"COMPLETED", "FAILED"} /\ pairSt'[p] # pairSt[p] => p \in Playing
  BY RecoveredPairs DEF Orphaned, Playing
<1>4. CASE Playing = {}
  <2>1. UNCHANGED <<Playing, Done, Lost>>
    BY <1>1, <1>2, <1>3, <1>4 DEF Done, Lost
  <2> QED
    BY <1>0, <2>1, LedgerStutters
<1>5. ASSUME NEW p \in Playing PROVE LedgerStep
  <2>1. p \in Pairs /\ Playing = {p} /\ p \notin Done /\ HasWork(Match[p]) /\ p \notin Lost
    BY RunningPair DEF Playing, Done, Lost
  <2>2. CASE pairSt'[p] = "COMPLETED"
    <3>1. Done' = Done \cup {p} /\ Lost' = Lost
      BY <1>2, <1>3, <2>1, <2>2 DEF Done, Lost
    <3> QED
      BY <1>1, <2>1, <3>1, LedgerScores
  <2>3. CASE pairSt'[p] = "FAILED"
    <3>1. Lost' = Lost \cup {p} /\ Done' = Done
      BY <1>2, <1>3, <2>1, <2>3 DEF Done, Lost
    <3> QED
      BY <1>0, <1>1, <2>1, <3>1, LedgerFails
  <2>4. CASE pairSt'[p] \notin {"COMPLETED", "FAILED"}
    <3>1. UNCHANGED <<Done, Lost>>
      BY <1>2, <1>3, <2>1, <2>4, ZenonT(60) DEF Done, Lost
    <3> QED
      BY <1>0, <1>1, <2>1, <3>1, LedgerAbandons
  <2> QED
    BY <2>2, <2>3, <2>4
<1> QED
  BY <1>4, <1>5

LEMMA StepRefines ==
    ASSUME WInv, IInv', [Next]_vars
    PROVE  LedgerStep
<1>0. IInv
  BY DEF WInv
<1>1. ASSUME pairSt' = pairSt PROVE LedgerStep
  <2>1. UNCHANGED <<Playing, Done, Lost>>
    BY <1>1 DEF Playing, Done, Lost
  <2> QED
    BY <1>0, <2>1, LedgerStutters
<1>2. ASSUME NEW t \in Tournaments, ApplyPausing(t) \/ ApplyFlags(t) PROVE LedgerStep
  BY <1>1, <1>2 DEF ApplyPausing, ApplyFlags, pairRows
<1>3. ASSUME NEW p \in Pairs, ForceKill(p) PROVE LedgerStep
  BY <1>1, <1>3, OffBoardLedger DEF ForceKill
<1>4. ASSUME NEW p \in Pairs,
             \/ FinishFailed(p) \/ FinishPair(p) \/ FinishSprt(p) \/ FinishCancelled(p)
             \/ FinalizeCommit(p)
      PROVE  LedgerStep
  <2>1. pairSt[p] = "RUNNING"
    BY <1>4, Finishing DEF FinishFailed, FinishPair, FinishSprt, FinishCancelled, FinishLast
  <2>2. \E s \in {"FAILED", "COMPLETED"} : pairSt' = [pairSt EXCEPT ![p] = s]
    BY <1>4 DEF FinishFailed, FinishPair, FinishSprt, FinishCancelled, FinalizeCommit, ScorePair
  <2> QED
    BY <2>1, <2>2, OffBoardLedger
<1>5. CASE Tick
  BY <1>1, <1>2, <1>3, <1>4, <1>5, ReadsMemory, QuietMemory, LaunchLedger, MatchAssumption
     DEF Tick, Quiet
<1>6. CASE Api \/ LaunchError
  BY <1>0, <1>1, <1>6, ApiMoves, LaunchLedger DEF LaunchError, pairRows
<1>7. CASE Heartbeat \/ Boot \/ Recovery \/ (\E k \in Pids : Exit(k)) \/ UNCHANGED vars
  BY <1>1, <1>7, ReadsMemory, QuietMemory, RecoverLedger, MatchAssumption DEF Quiet, Recovery
<1>8. CASE Shutdown
  <2>1. \/ pairSt' = pairSt
        \/ /\ active # 0 /\ pairSt[proc[active].pair] = "RUNNING"
           /\ pairSt' = [pairSt EXCEPT ![proc[active].pair] = "INTERRUPTED"]
    BY <1>8 DEF Shutdown
  <2> QED
    BY <1>0, <1>1, <2>1, Types, OffBoardLedger
<1>9. CASE Fault
  BY <1>1, <1>8, <1>9, QuietMemory, MatchAssumption DEF Fault, Quiet
<1> QED
  BY <1>5, <1>6, <1>7, <1>9 DEF Next

LEMMA InitRefines == Init => Ledger!Init
BY DEF Init, Ledger!Init

\* The runner implements the ledger, whatever crashes, survives or is called.
THEOREM RunnerImplementsLedger == Spec => ImplementsLedger
<1>1. WInv /\ IInv' /\ [Next]_vars => [Ledger!Next]_(Ledger!ledger)
  BY StepRefines DEF LedgerStep
<1> QED
  BY InitRefines, InvHolds, WorkHolds, <1>1, PTL DEF Spec, ImplementsLedger, Ledger!Spec
=============================================================================
