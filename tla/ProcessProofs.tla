--------------------------- MODULE ProcessProofs ---------------------------
(***************************************************************************)
(* Theorems about which pair Arena launches, which cutechess processes are *)
(* alive, and what one attempt of a pair may see of another.               *)
(***************************************************************************)
EXTENDS LedgerProofs

USE MatchAssumption

-----------------------------------------------------------------------------
(* Only the commit of a launch puts a pair on the board.                   *)

NoneBegun == \A p \in Pairs : pairSt'[p] = "RUNNING" => pairSt[p] = "RUNNING"

LEMMA OffBoardBeginsNone ==
    ASSUME IInv, NEW p \in Pairs, NEW s, s # "RUNNING", pairSt' = [pairSt EXCEPT ![p] = s]
    PROVE  NoneBegun
<1>1. pairSt \in [Pairs -> PairStatus]
  BY Types
<1> QED
  BY <1>1 DEF NoneBegun

LEMMA BeginningSteps ==
    ASSUME WInv, [Next]_vars
    PROVE  NoneBegun \/ \E t \in Tournaments : LaunchCommit(t)
<1>0. IInv
  BY DEF WInv
<1>1. ASSUME pairSt' = pairSt PROVE NoneBegun
  BY <1>1 DEF NoneBegun
<1>2. ASSUME NEW t \in Tournaments, ApplyPausing(t) \/ ApplyFlags(t) PROVE NoneBegun
  BY <1>1, <1>2 DEF ApplyPausing, ApplyFlags, pairRows
<1>3. ASSUME NEW p \in Pairs, ForceKill(p) \/ FinishFailed(p) PROVE NoneBegun
  <2>1. \/ pairSt' = pairSt
        \/ \E s \in {"INTERRUPTED", "FAILED"} : pairSt' = [pairSt EXCEPT ![p] = s]
    BY <1>3 DEF ForceKill, FinishFailed
  <2> QED
    BY <1>0, <1>1, <2>1, OffBoardBeginsNone
<1>4. ASSUME NEW p \in Pairs,
             FinishPair(p) \/ FinishSprt(p) \/ FinishCancelled(p) \/ FinalizeCommit(p)
      PROVE  NoneBegun
  <2>1. pairSt' = [pairSt EXCEPT ![p] = "COMPLETED"]
    BY <1>4 DEF FinishPair, FinishSprt, FinishCancelled, FinalizeCommit, ScorePair
  <2> QED
    BY <1>0, <2>1, OffBoardBeginsNone
<1>5. ASSUME NEW t \in Tournaments, NEW p \in Pairs, LaunchFails(t, p) PROVE NoneBegun
  <2>1. pairSt' = [q \in Pairs |-> CASE q = p -> "FAILED"
                        [] q # p /\ q \in Interrupted(t) -> "PENDING"
                        [] OTHER -> pairSt[q]]
    BY <1>5 DEF LaunchFails
  <2> QED
    BY <2>1 DEF NoneBegun
<1>6. CASE Tick
  BY <1>1, <1>2, <1>3, <1>4, <1>6, ReadsMemory, QuietMemory, MatchAssumption DEF Tick, Quiet
<1>7. CASE Api \/ LaunchError
  BY <1>0, <1>1, <1>5, <1>7, ApiMoves DEF LaunchError, pairRows
<1>8. CASE Recover
  BY <1>8, RecoveredPairs DEF NoneBegun
<1>9. CASE Heartbeat \/ Boot \/ RecoveryRead \/ (\E k \in Pids : Exit(k)) \/ UNCHANGED vars
  BY <1>1, <1>9, ReadsMemory, QuietMemory, MatchAssumption DEF Quiet
<1>10. CASE Shutdown
  <2>1. \/ pairSt' = pairSt
        \/ active # 0 /\ pairSt' = [pairSt EXCEPT ![proc[active].pair] = "INTERRUPTED"]
    BY <1>10 DEF Shutdown
  <2> QED
    BY <1>0, <1>1, <2>1, Types, OffBoardBeginsNone
<1>11. CASE Fault
  BY <1>1, <1>10, <1>11, QuietMemory, MatchAssumption DEF Fault, Quiet
<1> QED
  BY <1>6, <1>7, <1>8, <1>9, <1>11 DEF Next, Recovery

\* The pair that is put on the board is of the loaded match, and no older match
\* is between two of its pairs.
LEMMA EarliestStep ==
    ASSUME WInv, [Next]_vars, NEW p \in Pairs, pairSt[p] # "RUNNING", pairSt'[p] = "RUNNING",
           NEW u \in Tournaments, u < Match[p]
    PROVE  status[u] # "RUNNING"
<1>1. PICK t \in Tournaments : LaunchCommit(t)
  BY BeginningSteps DEF NoneBegun
<1> DEFINE r == proc[active].pair
<1>2. pc = "launched" /\ Loaded(t) /\ Match[r] = t
  BY <1>1 DEF LaunchCommit, WInv, Memory, AboutToWrite
<1>3. pairSt' = [q \in Pairs |-> CASE q = r -> "RUNNING"
                        [] q # r /\ q \in Interrupted(t) -> "PENDING"
                        [] OTHER -> pairSt[q]]
  BY <1>1 DEF LaunchCommit
<1> HIDE DEF r
<1>4. p = r
  BY <1>3
<1> QED
  BY <1>2, <1>4 DEF WInv, Memory, StillRunnable

\* No pair starts while an older match is between two of its pairs.
THEOREM EarliestFirst == Spec => EarliestMatchFirst
<1>1. WInv /\ [Next]_vars =>
        [\A p \in Pairs : pairSt[p] # "RUNNING" /\ pairSt'[p] = "RUNNING" =>
            \A t \in Tournaments : t < Match[p] => status[t] # "RUNNING"]_vars
  BY EarliestStep
<1> QED
  BY WorkHolds, <1>1, PTL DEF Spec, EarliestMatchFirst

-----------------------------------------------------------------------------
(* Processes, when those that are killed die.                              *)

\* Every live group is the one the worker supervises.
OnlyActive == \A k \in Pids : Running(k) => k = active

\* A confirmed termination leaves the group dead and the others as they were.
LEMMA TerminationKills ==
    ASSUME IInv, NEW k \in Pids, proc' = AfterTermination(k, TRUE)
    PROVE  ~Running(k)' /\ \A j \in Pids : Running(j)' => Running(j)
<1>1. proc \in [Pids -> ProcState]
  BY Types
<1>2. CASE Running(k)
  <2>1. proc' = [proc EXCEPT ![k] = Gone(proc[k], 1)] /\ Gone(proc[k], 1).st = "exited"
    BY <1>1, <1>2, GoneType DEF AfterTermination
  <2> QED
    BY <1>1, <2>1 DEF Running
<1>3. CASE ~Running(k)
  BY <1>3 DEF AfterTermination, Running
<1> QED
  BY <1>2, <1>3

\* A group whose exit the worker has seen is not alive.
LEMMA SeenExit ==
    ASSUME WInv, pc \in {"finish", "finalizing", "artifacts"}
    PROVE  ~Running(active)
<1>1. active # 0
  BY Types DEF WInv
<1>2. proc[active].st = "exited"
  BY <1>1 DEF WInv, IInv, Supervised, Memory, AboutToWrite
<1> QED
  BY <1>2 DEF Running

LEMMA AloneTick ==
    ASSUME WInv, OnlyActive, NEW t \in Tournaments, NEW p \in Pairs,
           \/ ReadPausing \/ ReadNext \/ ApplyPausing(t) \/ ApplyFlags(t)
           \/ Launch(t, p) \/ LaunchCommit(t) \/ LaunchFails(t, p)
           \/ ForceKill(p) \/ PollExit(p) \/ FinishFailed(p) \/ FinishPair(p) \/ FinishSprt(p)
           \/ SprtArtifacts(p) \/ FinishCancelled(p) \/ Finalize(p) \/ FinalizeCommit(p)
    PROVE  OnlyActive'
<1>0. IInv
  BY DEF WInv
<1>1. ASSUME UNCHANGED <<proc, active>> PROVE OnlyActive'
  BY <1>1 DEF OnlyActive, Running
<1>2. CASE ReadPausing \/ ReadNext \/ ApplyPausing(t) \/ ApplyFlags(t)
  BY <1>1, <1>2 DEF ReadPausing, ReadNext, ApplyPausing, ApplyFlags
<1>3. CASE LaunchCommit(t) \/ LaunchFails(t, p) \/ FinishSprt(p) \/ Finalize(p)
  BY <1>1, <1>3 DEF LaunchCommit, LaunchFails, FinishSprt, Finalize
<1>4. CASE Launch(t, p)
  <2>1. active = 0
    BY <1>0, <1>4 DEF Launch, MayLaunch, IInv, TypeInv, Handle
  <2>2. \A k \in Pids : ~Running(k)
    BY <1>0, <2>1, Types DEF OnlyActive
  <2>3. PICK k \in Pids : active' = k /\
          proc' = [proc EXCEPT ![k] =
                [st |-> "running", pair |-> p, rc |-> 0,
                 attempt |-> attempt[p] + (IF p \in Interrupted(t) THEN 1 ELSE 0)]]
    BY <1>4 DEF Launch
  <2>4. \A j \in Pids : j # k => proc'[j] = proc[j]
    BY <1>0, <2>3, Types
  <2> QED
    BY <2>2, <2>3, <2>4 DEF OnlyActive, Running
<1>5. CASE ForceKill(p)
  <2>1. active \in Pids /\ proc' = AfterTermination(active, TRUE)
    BY <1>0, <1>5, Types DEF ForceKill, Polls
  <2>2. \A k \in Pids : ~Running(k)'
    BY <1>0, <2>1, TerminationKills DEF OnlyActive
  <2> QED
    BY <2>2 DEF OnlyActive
<1>6. CASE PollExit(p)
  <2>1. proc' = proc /\ ~Running(active)
    BY <1>6 DEF PollExit
  <2> QED
    BY <2>1 DEF OnlyActive, Running
<1>7. CASE \/ FinishFailed(p) \/ FinishPair(p) \/ SprtArtifacts(p) \/ FinishCancelled(p)
           \/ FinalizeCommit(p)
  <2>1. proc' = proc /\ pc \in {"finish", "finalizing", "artifacts"}
    BY <1>7 DEF FinishFailed, FinishPair, SprtArtifacts, FinishCancelled, FinalizeCommit,
       FinishLast, Finishes
  <2>2. ~Running(active)
    BY <2>1, SeenExit
  <2> QED
    BY <2>1, <2>2 DEF OnlyActive, Running
<1> QED
  BY <1>2, <1>3, <1>4, <1>5, <1>6, <1>7

LEMMA AloneStep ==
    ASSUME ~SurviveKill, ~SurviveCrash, WInv, OnlyActive, [Next]_vars
    PROVE  OnlyActive'
<1>0. IInv /\ proc \in [Pids -> ProcState]
  BY Types DEF WInv
<1>1. ASSUME UNCHANGED <<proc, active>> PROVE OnlyActive'
  BY <1>1 DEF OnlyActive, Running
<1>2. CASE Tick \/ LaunchError
  BY <1>2, AloneTick, MatchAssumption DEF Tick, LaunchError
<1>3. CASE Api
  BY <1>0, <1>1, <1>3, ApiMoves DEF worker
<1>4. CASE Heartbeat \/ Boot \/ RecoveryRead \/ TickFails \/ UNCHANGED vars
  BY <1>1, <1>4 DEF Heartbeat, Boot, RecoveryRead, TickFails, vars, worker
<1>5. ASSUME NEW k \in Pids, Exit(k) PROVE OnlyActive'
  <2>1. active' = active /\ Running(k)
    BY <1>5 DEF Exit, worker
  <2>2. PICK code \in {0, 1} : proc' = [proc EXCEPT ![k] = Gone(@, code)]
    BY <1>5 DEF Exit
  <2>3. \A j \in Pids : j # k => proc'[j] = proc[j]
    BY <1>0, <2>2
  <2> QED
    BY <2>1, <2>3 DEF OnlyActive, Running
<1>6. CASE Recover
  <2>1. active' = active
    BY <1>6 DEF Recover
  <2>2. CASE proc' = proc
    BY <1>1, <2>1, <2>2
  <2>3. CASE proc' # proc
    <3>1. PICK gone \in Terminated(ident) :
            ident # 0 /\ proc' = AfterTermination(ident, gone)
      BY <1>6, <2>3 DEF Recover, KillOrphan
    <3>2. ident \in Pids /\ gone = TRUE
      BY <1>0, <3>1 DEF Terminated, IInv, TypeInv, TypeOK
    <3>3. \A j \in Pids : Running(j)' => Running(j)
      BY <1>0, <3>1, <3>2, TerminationKills
    <3> QED
      BY <2>1, <3>3 DEF OnlyActive
  <2> QED
    BY <2>2, <2>3
<1>7. CASE Shutdown
  <2>1. CASE active = 0
    <3>1. proc' = proc /\ active' = 0
      BY <1>7, <2>1 DEF Shutdown
    <3> QED
      BY <1>1, <2>1, <3>1
  <2>2. CASE active # 0
    <3>1. PICK gone \in Terminated(active) : proc' = AfterTermination(active, gone)
      BY <1>7, <2>2 DEF Shutdown
    <3>2. active \in Pids /\ gone = TRUE
      BY <1>0, <2>2, <3>1, Types DEF Terminated
    <3>3. \A k \in Pids : ~Running(k)'
      BY <1>0, <3>1, <3>2, TerminationKills DEF OnlyActive
    <3> QED
      BY <3>3 DEF OnlyActive
  <2> QED
    BY <2>1, <2>2
<1>8. CASE Crash
  <2>1. proc' = [k \in Pids |-> IF Running(k) THEN Gone(proc[k], 1) ELSE proc[k]]
    BY <1>8 DEF Crash, Survivors
  <2>2. \A k \in Pids : Gone(proc[k], 1).st = "exited"
    BY <1>0, GoneType
  <2>3. \A k \in Pids : ~Running(k)'
    BY <2>1, <2>2 DEF Running
  <2> QED
    BY <2>3 DEF OnlyActive
<1> QED
  BY <1>2, <1>3, <1>4, <1>5, <1>6, <1>7, <1>8 DEF Next, Recovery, Fault

\* CPU isolation: when killed processes die (KillMode=mixed, no process stuck
\* in the kernel), at most one cutechess group is ever alive.
THEOREM CpuIsolation ==
    ASSUME ~SurviveKill, ~SurviveCrash
    PROVE  Spec => []OneCutechess
<1>1. Init => OnlyActive
  BY DEF Init, OnlyActive, Running
<1>2. WInv /\ OnlyActive /\ [Next]_vars => OnlyActive'
  BY AloneStep
<1>3. WInv /\ OnlyActive => OneCutechess
  BY DEF WInv, Memory, OnBoard, OnlyActive, OneCutechess
<1> QED
  BY WorkHolds, <1>1, <1>2, <1>3, PTL DEF Spec
-----------------------------------------------------------------------------
(* What an attempt leaves behind is not seen by the next one.              *)

\* A pair still to be played has no exit code, and the exit code of a pair that
\* is supervised, when it has one, is that of the supervised group.
Fresh ==
    /\ \A p \in Pairs : pairSt[p] = "PENDING" => exitEv[p] = NoExit
    /\ active # 0 /\ pc # "launched" =>
          LET p == proc[active].pair IN
          /\ pairSt[p] \in {"RUNNING", "COMPLETED"}
          /\ HasEvidence(p) => /\ proc[active].st = "exited"
                               /\ exitEv[p] = [rc |-> proc[active].rc, attempt |-> attempt[p]]

\* A step that leaves the pairs and the groups alone, outside a launch.
Calm == /\ UNCHANGED <<pairSt, attempt, exitEv, pgn, proc>>
        /\ pc # "launched" /\ pc' \notin {"launched", "finalizing"} /\ active' \in {active, 0}

LEMMA CalmSteps ==
    ASSUME WInv, NEW t \in Tournaments, NEW p \in Pairs,
           \/ ReadPausing \/ ReadNext \/ RecoveryRead \/ Boot \/ Heartbeat \/ TickFails \/ Api
           \/ ApplyPausing(t) \/ ApplyFlags(t) \/ SprtArtifacts(p)
    PROVE  Calm
<1>1. CASE ReadPausing \/ ReadNext \/ RecoveryRead \/ Boot
  BY <1>1 DEF Calm, ReadPausing, ReadNext, RecoveryRead, Boot, Load, GoTo, rows, pairRows, files
<1>2. CASE Heartbeat \/ TickFails
  BY <1>2 DEF Calm, Heartbeat, TickFails, GoTo, rows, pairRows, files, worker
<1>3. CASE ApplyPausing(t)
  BY <1>3 DEF Calm, ApplyPausing, GoTo, pairRows, files
<1>5. CASE ApplyFlags(t)
  <2>1. pc = "selected" /\ GoTo("idle") /\ UNCHANGED <<pairRows, files, proc, active>>
    BY <1>5 DEF ApplyFlags
  <2> QED
    BY <2>1 DEF Calm, GoTo, pairRows, files
<1>6. CASE SprtArtifacts(p)
  BY <1>6 DEF Calm, SprtArtifacts, pairRows
<1>4. CASE Api
  <2>1. UNCHANGED <<pairRows, files, proc, worker>> /\ ~WriteLocked
    BY <1>4, ApiMoves, ApiStep DEF WInv
  <2> QED
    BY <2>1 DEF Calm, pairRows, files, worker, WriteLocked
<1> QED
  BY <1>1, <1>2, <1>3, <1>4, <1>5, <1>6

\* A launch puts r, still to be played or interrupted, at stake, and moves the
\* interrupted pairs of its match to their next attempt.
AtStake(r, t) ==
    /\ Match[r] = t /\ pairSt[r] \in {"PENDING", "INTERRUPTED"}
    /\ pairSt'[r] \in {"RUNNING", "FAILED"} /\ exitEv'[r] = NoExit
    /\ \A q \in Pairs : q # r =>
          pairSt'[q] = IF q \in Interrupted(t) THEN "PENDING" ELSE pairSt[q]
    /\ \A q \in Pairs : q \in Interrupted(t) =>
          exitEv'[q] = NoExit /\ attempt'[q] = attempt[q] + 1 /\ pgn'[q] = "none"
    /\ \A q \in Pairs : q \notin Interrupted(t) =>
          attempt'[q] = attempt[q] /\ pgn'[q] = pgn[q] /\ (q # r => exitEv'[q] = exitEv[q])

LEMMA LaunchedPairs ==
    ASSUME WInv, NEW t \in Tournaments, NEW p \in Pairs, LaunchCommit(t) \/ LaunchFails(t, p)
    PROVE  \E r \in Pairs : AtStake(r, t) /\ (LaunchCommit(t) => r = proc[active].pair)
<1>1. CASE LaunchCommit(t)
  <2> DEFINE r == proc[active].pair
  <2>1. r \in Pairs /\ Match[r] = t /\ pairSt[r] \in {"PENDING", "INTERRUPTED"}
    BY <1>1, Types DEF LaunchCommit, WInv, Memory, AboutToWrite, IInv, Supervised
  <2>2. /\ pairSt' = [q \in Pairs |-> CASE q = r -> "RUNNING"
                        [] q # r /\ q \in Interrupted(t) -> "PENDING"
                        [] OTHER -> pairSt[q]]
        /\ exitEv' = [q \in Pairs |-> IF q = r \/ q \in Interrupted(t)
                                     THEN NoExit ELSE exitEv[q]]
        /\ StartOver(Interrupted(t))
    BY <1>1 DEF LaunchCommit
  <2> HIDE DEF r
  <2>3. /\ \A q \in Pairs : q \in Interrupted(t) =>
              exitEv'[q] = NoExit /\ attempt'[q] = attempt[q] + 1 /\ pgn'[q] = "none"
        /\ \A q \in Pairs : q \notin Interrupted(t) =>
              attempt'[q] = attempt[q] /\ pgn'[q] = pgn[q] /\ (q # r => exitEv'[q] = exitEv[q])
    BY <2>2 DEF StartOver
  <2>4. /\ pairSt'[r] = "RUNNING" /\ exitEv'[r] = NoExit
        /\ \A q \in Pairs : q # r =>
                   pairSt'[q] = IF q \in Interrupted(t) THEN "PENDING" ELSE pairSt[q]
    BY <2>1, <2>2
  <2>5. LaunchCommit(t) => r = proc[active].pair
    BY DEF r
  <2> QED
    BY <2>1, <2>3, <2>4, <2>5 DEF AtStake
<1>2. CASE LaunchFails(t, p)
  <2>1. Match[p] = t /\ pairSt[p] \in {"PENDING", "INTERRUPTED"}
    BY <1>2 DEF LaunchFails, MayLaunch, IsFirst, Pending, PairsOf
  <2>2. /\ pairSt' = [q \in Pairs |-> CASE q = p -> "FAILED"
                        [] q # p /\ q \in Interrupted(t) -> "PENDING"
                        [] OTHER -> pairSt[q]]
        /\ exitEv' = [q \in Pairs |-> IF q = p \/ q \in Interrupted(t)
                                     THEN NoExit ELSE exitEv[q]]
        /\ StartOver(Interrupted(t)) /\ ~LaunchCommit(t)
    BY <1>2 DEF LaunchFails, LaunchCommit, MayLaunch
  <2>3. /\ \A q \in Pairs : q \in Interrupted(t) =>
              exitEv'[q] = NoExit /\ attempt'[q] = attempt[q] + 1 /\ pgn'[q] = "none"
        /\ \A q \in Pairs : q \notin Interrupted(t) =>
              attempt'[q] = attempt[q] /\ pgn'[q] = pgn[q] /\ (q # p => exitEv'[q] = exitEv[q])
    BY <2>2 DEF StartOver
  <2>4. /\ pairSt'[p] = "FAILED" /\ exitEv'[p] = NoExit
        /\ \A q \in Pairs : q # p =>
                   pairSt'[q] = IF q \in Interrupted(t) THEN "PENDING" ELSE pairSt[q]
    BY <2>2
  <2> QED
    BY <2>1, <2>2, <2>3, <2>4 DEF AtStake
<1> QED
  BY <1>1, <1>2

\* A recovery moves what it queues to the next attempt and nothing else.
LEMMA RecoveredAttempts ==
    ASSUME WInv, Recover, NEW p \in Pairs
    PROVE  LET again == p \in Rerun \cup Requeued IN
           /\ again => /\ pairSt[p] \in {"RUNNING", "INTERRUPTED"} /\ pairSt'[p] = "PENDING"
                       /\ exitEv'[p] = NoExit /\ attempt'[p] = attempt[p] + 1 /\ pgn'[p] = "none"
           /\ ~again => /\ exitEv'[p] = exitEv[p] /\ attempt'[p] = attempt[p]
                        /\ pairSt[p] = "INTERRUPTED" => pairSt'[p] = "INTERRUPTED"
                        /\ pairSt'[p] = "PENDING" => pairSt[p] = "PENDING"
<1> DEFINE again == p \in Rerun \cup Requeued
<1>1. /\ pairSt' = [q \in Pairs |->
            CASE Scores(q) -> "COMPLETED"
              [] Fails(q) -> "FAILED"
              [] q \in Rerun \cup Requeued -> "PENDING"
              [] q \in Orphaned /\ Forced(Match[q]) -> "INTERRUPTED"
              [] OTHER -> pairSt[q]]
      /\ exitEv' = [q \in Pairs |-> IF q \in Rerun \cup Requeued THEN NoExit ELSE exitEv[q]]
      /\ StartOver(Rerun \cup Requeued)
  BY DEF Recover
<1>2. /\ Scores(p) \/ Fails(p) => Kept(p) /\ p \in Orphaned
      /\ p \in Orphaned => pairSt[p] = "RUNNING"
      /\ p \in Rerun => p \in Orphaned /\ ~Kept(p)
      /\ p \in Requeued => pairSt[p] = "INTERRUPTED"
  BY DEF Scores, Fails, Kept, Judged, Rerun, Orphaned, Requeued
<1>3. /\ again => exitEv'[p] = NoExit /\ attempt'[p] = attempt[p] + 1 /\ pgn'[p] = "none"
      /\ ~again => exitEv'[p] = exitEv[p] /\ attempt'[p] = attempt[p]
  BY <1>1 DEF StartOver
<1>4. again => pairSt[p] \in {"RUNNING", "INTERRUPTED"} /\ ~Scores(p) /\ ~Fails(p)
  BY <1>2
<1>5. ASSUME again PROVE pairSt'[p] = "PENDING"
  <2>1. pairSt'[p] = CASE Scores(p) -> "COMPLETED"
              [] Fails(p) -> "FAILED"
              [] p \in Rerun \cup Requeued -> "PENDING"
              [] p \in Orphaned /\ Forced(Match[p]) -> "INTERRUPTED"
              [] OTHER -> pairSt[p]
    BY <1>1, Zenon
  <2>2. p \notin Orphaned \/ ~Forced(Match[p])
    BY <1>2, <1>5 DEF Rerun, Judged, Requeued
  <2>3. p \in Rerun \cup Requeued /\ ~Scores(p) /\ ~Fails(p)
    BY <1>4, <1>5
  <2> QED
    BY <2>1, <2>2, <2>3
<1>6. ~again => /\ pairSt[p] = "INTERRUPTED" => pairSt'[p] = "INTERRUPTED"
                /\ pairSt'[p] = "PENDING" => pairSt[p] = "PENDING"
  BY <1>1, <1>2
<1> QED
  BY <1>3, <1>4, <1>5, <1>6

\* A step after which the worker supervises nothing.
LEMMA FreshAlone ==
    ASSUME Fresh, active' = 0,
           \A p \in Pairs : pairSt'[p] = "PENDING" => pairSt[p] = "PENDING" /\ exitEv'[p] = exitEv[p]
    PROVE  Fresh'
BY DEF Fresh

\* The scoring steps leave the exit code and the attempt as they are, and one
\* that verifies finds exactly two games.
LEMMA ScoringSteps ==
    ASSUME WInv, NEW p \in Pairs,
           FinishPair(p) \/ FinishSprt(p) \/ FinishCancelled(p) \/ FinalizeCommit(p)
    PROVE  /\ p = proc[active].pair /\ pairSt[p] = "RUNNING"
           /\ proc[active].st = "exited" /\ active \in Pids
           /\ exitEv[p] = [rc |-> 0, attempt |-> attempt[p]] /\ proc[active].rc = 0
           /\ pairSt' = [pairSt EXCEPT ![p] = "COMPLETED"]
           /\ UNCHANGED <<attempt, exitEv, pgn, proc>>
           /\ pc = "finalizing" \/ (pc = "finish" /\ pgn[p] = "good")
           /\ pc' \in {"idle", "artifacts"} /\ active' \in {active, 0}
<1>1. /\ p = proc[active].pair /\ pc \in {"finish", "finalizing"}
      /\ pc = "finalizing" \/ (pc = "finish" /\ Scorable(p))
      /\ ScorePair(p) /\ UNCHANGED <<files, proc>>
      /\ pc' \in {"idle", "artifacts"} /\ active' \in {active, 0}
  BY DEF FinishPair, FinishSprt, FinishCancelled, FinalizeCommit, FinishLast, Finishes
<1>2. /\ pairSt[p] = "RUNNING" /\ proc[active].st = "exited"
      /\ exitEv[p] = [rc |-> proc[active].rc, attempt |-> attempt[p]]
      /\ pc = "finalizing" => proc[active].rc = 0
  BY <1>1 DEF WInv, IInv, Supervised
<1>3. active \in Pids
  BY <1>1 DEF WInv, IInv, TypeInv, Handle
<1> QED
  BY <1>1, <1>2, <1>3 DEF ScorePair, Scorable, files

LEMMA AtStakeFresh ==
    ASSUME Fresh, NEW t \in Tournaments, NEW r \in Pairs, AtStake(r, t)
    PROVE  \A q \in Pairs : pairSt'[q] = "PENDING" => exitEv'[q] = NoExit
<1> SUFFICES ASSUME NEW q \in Pairs, pairSt'[q] = "PENDING" PROVE exitEv'[q] = NoExit
  OBVIOUS
<1>1. q # r
  BY DEF AtStake
<1>2. CASE q \in Interrupted(t)
  BY <1>2 DEF AtStake
<1>3. CASE q \notin Interrupted(t)
  BY <1>1, <1>3 DEF AtStake, Fresh
<1> QED
  BY <1>2, <1>3

LEMMA FreshTick ==
    ASSUME WInv, Fresh, NEW t \in Tournaments, NEW p \in Pairs,
           \/ Launch(t, p) \/ LaunchCommit(t) \/ LaunchFails(t, p)
           \/ ForceKill(p) \/ PollExit(p) \/ FinishFailed(p) \/ FinishPair(p) \/ FinishSprt(p)
           \/ FinishCancelled(p) \/ Finalize(p) \/ FinalizeCommit(p)
    PROVE  Fresh'
<1>0. IInv /\ pairSt \in [Pairs -> PairStatus] /\ exitEv \in [Pairs -> ExitEvidence]
  BY DEF WInv, IInv, TypeInv, TypeOK
<1>1. CASE Launch(t, p)
  BY <1>1 DEF Launch, Fresh, pairRows
<1>2. CASE LaunchCommit(t)
  <2>1. PICK r \in Pairs : AtStake(r, t) /\ r = proc[active].pair
    BY <1>2, LaunchedPairs
  <2>2. r = proc'[active'].pair
    BY <1>2, <2>1 DEF LaunchCommit
  <2>3. \A q \in Pairs : pairSt'[q] = "PENDING" => exitEv'[q] = NoExit
    BY <2>1, AtStakeFresh
  <2>4. ~HasEvidence(r)' /\ pairSt'[r] = "RUNNING"
    BY <1>2, <2>1 DEF LaunchCommit, AtStake, HasEvidence
  <2> QED
    BY <2>2, <2>3, <2>4 DEF Fresh
<1>3. CASE LaunchFails(t, p)
  <2>1. PICK r \in Pairs : AtStake(r, t)
    BY <1>3, LaunchedPairs
  <2>2. \A q \in Pairs : pairSt'[q] = "PENDING" => exitEv'[q] = NoExit
    BY <2>1, AtStakeFresh
  <2>3. active' = 0
    BY <1>3 DEF LaunchFails, MayLaunch, WInv, IInv, TypeInv, Handle
  <2> QED
    BY <2>2, <2>3 DEF Fresh
<1>4. CASE ForceKill(p) \/ FinishFailed(p)
  <2>1. /\ active' = 0 /\ exitEv' = exitEv
        /\ \/ pairSt' = pairSt
           \/ \E s \in {"INTERRUPTED", "FAILED"} : pairSt' = [pairSt EXCEPT ![p] = s]
    BY <1>4 DEF ForceKill, FinishFailed
  <2>2. \A q \in Pairs : pairSt'[q] = "PENDING" => pairSt[q] = "PENDING"
    BY <1>0, <2>1
  <2> QED
    BY <2>1, <2>2, FreshAlone
<1>5. CASE PollExit(p)
  <2>1. /\ pc = "idle" /\ pc' \in {"idle", "finish"} /\ active # 0 /\ p = proc[active].pair
        /\ exitEv' = [exitEv EXCEPT ![p] = [rc |-> proc[active].rc, attempt |-> attempt[p]]]
        /\ UNCHANGED <<pairSt, attempt, proc>> /\ active' \in {active, 0}
        /\ ~Running(active)
    BY <1>5 DEF PollExit, Polls
  <2>2. proc[active].st = "exited"
    <3>1. active \in Pids /\ proc[active] \in ProcState /\ proc[active].st # "unused"
      BY <1>0, <2>1, Types DEF IInv, Supervised
    <3> QED
      BY <2>1, <3>1 DEF Running, ProcState
  <2>3. pairSt[p] # "PENDING"
    BY <2>1 DEF Fresh
  <2>4. \A q \in Pairs : pairSt'[q] = "PENDING" => exitEv'[q] = NoExit
    BY <1>0, <2>1, <2>3 DEF Fresh
  <2>5. exitEv'[p] = [rc |-> proc[active].rc, attempt |-> attempt[p]]
    BY <1>0, <2>1
  <2> QED
    BY <2>1, <2>2, <2>3, <2>4, <2>5 DEF Fresh
<1>6. CASE FinishPair(p) \/ FinishSprt(p) \/ FinishCancelled(p) \/ FinalizeCommit(p)
  <2>1. /\ p = proc[active].pair /\ proc[active].st = "exited" /\ active \in Pids
        /\ exitEv[p] = [rc |-> 0, attempt |-> attempt[p]] /\ proc[active].rc = 0
        /\ pairSt' = [pairSt EXCEPT ![p] = "COMPLETED"]
        /\ UNCHANGED <<attempt, exitEv, proc>> /\ active' \in {active, 0}
    BY <1>6, ScoringSteps
  <2>2. pairSt'[p] = "COMPLETED" /\ \A q \in Pairs : pairSt'[q] = "PENDING" => pairSt[q] = "PENDING"
    BY <1>0, <2>1
  <2> QED
    BY <2>1, <2>2 DEF Fresh
<1>7. CASE Finalize(p)
  <2>1. UNCHANGED <<pairSt, attempt, exitEv, proc, active>> /\ pc = "finish"
    BY <1>7 DEF Finalize, FinishLast, Finishes, pairRows
  <2> QED
    BY <2>1 DEF Fresh, HasEvidence
<1> QED
  BY <1>1, <1>2, <1>3, <1>4, <1>5, <1>6, <1>7

LEMMA FreshStep ==
    ASSUME WInv, Fresh, [Next]_vars
    PROVE  Fresh'
<1>0. IInv /\ pairSt \in [Pairs -> PairStatus] /\ proc \in [Pids -> ProcState]
  BY Types DEF WInv
<1>1. ASSUME Calm PROVE Fresh'
  BY <1>1 DEF Calm, Fresh, HasEvidence
<1>2. CASE Tick \/ LaunchError
  BY <1>1, <1>2, CalmSteps, FreshTick, MatchAssumption DEF Tick, LaunchError
<1>3. CASE Api \/ Heartbeat \/ Boot \/ RecoveryRead \/ TickFails
  BY <1>1, <1>3, CalmSteps, MatchAssumption
<1>4. ASSUME NEW k \in Pids, Exit(k) PROVE Fresh'
  <2>1. UNCHANGED <<pc, active, pairSt, attempt, exitEv>> /\ Running(k)
    BY <1>4 DEF Exit, worker, pairRows
  <2>2. PICK code \in {0, 1} : proc' = [proc EXCEPT ![k] = Gone(@, code)]
    BY <1>4 DEF Exit
  <2>3. \A j \in Pids : proc'[j].pair = proc[j].pair /\ (j # k => proc'[j] = proc[j])
    BY <1>0, <2>2, GoneType
  <2>4. active # 0 => active \in Pids
    BY <1>0, Types
  <2>5. CASE active = k
    BY <2>1, <2>3, <2>4, <2>5 DEF Fresh, HasEvidence, Running
  <2>6. CASE active # k
    BY <2>1, <2>3, <2>4, <2>6 DEF Fresh, HasEvidence
  <2> QED
    BY <2>5, <2>6
<1>5. CASE Recover
  <2>1. active' = 0
    BY <1>5 DEF Recover, WInv, IInv, TypeInv, Handle
  <2>2. \A p \in Pairs : pairSt'[p] = "PENDING" => exitEv'[p] = NoExit
    BY <1>5, RecoveredAttempts DEF Fresh
  <2> QED
    BY <2>1, <2>2 DEF Fresh
<1>6. CASE Shutdown
  <2>1. /\ active' = 0 /\ exitEv' = exitEv
        /\ \/ pairSt' = pairSt
           \/ pairSt' = [pairSt EXCEPT ![proc[active].pair] = "INTERRUPTED"]
    BY <1>6 DEF Shutdown
  <2>2. \A q \in Pairs : pairSt'[q] = "PENDING" => pairSt[q] = "PENDING"
    BY <1>0, <2>1
  <2> QED
    BY <2>1, <2>2, FreshAlone
<1>7. CASE Crash
  BY <1>7, FreshAlone DEF Crash, pairRows
<1>8. CASE UNCHANGED vars
  BY <1>8 DEF vars, pairRows, worker, Fresh, HasEvidence
<1> QED
  BY <1>2, <1>3, <1>4, <1>5, <1>6, <1>7, <1>8 DEF Next, Recovery, Fault

LEMMA FreshHolds == Spec => [](WInv /\ Fresh)
<1>1. Init => Fresh
  BY DEF Init, Fresh
<1>2. WInv /\ Fresh /\ [Next]_vars => Fresh'
  BY FreshStep
<1> QED
  BY WorkHolds, <1>1, <1>2, PTL DEF Spec

\* A step that neither scores, retries nor touches an exit code.
LEMMA UntouchedRetries ==
    ASSUME NEW p \in Pairs, UNCHANGED exitEv, pc' # "finalizing" \/ pc = "finalizing",
           pairSt'[p] = "COMPLETED" => pairSt[p] = "COMPLETED" \/ pc = "finalizing",
           pairSt'[p] = "PENDING" => pairSt[p] # "RUNNING",
           pairSt[p] = "INTERRUPTED" => pairSt'[p] = "INTERRUPTED"
    PROVE  ~Verifies(p) /\ ~Retries(p) /\ exitEv'[p] = exitEv[p]
BY DEF Verifies, Retries

RetryStep(p) ==
    /\ Verifies(p) => pgn[p] = "good" /\ exitEv[p] = [rc |-> 0, attempt |-> attempt[p]]
    /\ Retries(p) => /\ attempt'[p] = attempt[p] + 1
                     /\ pgn'[p] = "none" /\ exitEv'[p] = NoExit
    /\ HasEvidence(p) => exitEv'[p] = exitEv[p] \/ attempt'[p] = attempt[p] + 1

LEMMA RetryTick ==
    ASSUME WInv, Fresh, NEW t \in Tournaments, NEW p \in Pairs, NEW q \in Pairs,
           \/ Launch(t, p) \/ LaunchCommit(t) \/ LaunchFails(t, p)
           \/ ForceKill(p) \/ PollExit(p) \/ FinishFailed(p) \/ FinishPair(p) \/ FinishSprt(p)
           \/ FinishCancelled(p) \/ Finalize(p) \/ FinalizeCommit(p)
    PROVE  RetryStep(q)
<1>0. IInv /\ pairSt \in [Pairs -> PairStatus] /\ exitEv \in [Pairs -> ExitEvidence]
  BY DEF WInv, IInv, TypeInv, TypeOK
<1>1. CASE Launch(t, p)
  BY <1>1, UntouchedRetries DEF Launch, pairRows, RetryStep
<1>2. CASE LaunchCommit(t) \/ LaunchFails(t, p)
  <2>1. pc' = "idle"
    BY <1>2 DEF LaunchCommit, LaunchFails, GoTo
  <2>2. PICK r \in Pairs : AtStake(r, t)
    BY <1>2, LaunchedPairs
  <2>3. CASE q \in Interrupted(t)
    <3>1. /\ attempt'[q] = attempt[q] + 1 /\ pgn'[q] = "none" /\ exitEv'[q] = NoExit
          /\ pairSt'[q] # "COMPLETED"
      BY <2>2, <2>3 DEF AtStake
    <3> QED
      BY <2>1, <3>1 DEF RetryStep, Verifies
  <2>4. CASE q \notin Interrupted(t)
    <3>1. CASE q = r
      <4>1. pairSt[q] = "PENDING" /\ exitEv[q] = NoExit
        BY <2>2, <2>4, <3>1 DEF AtStake, Interrupted, PairsOf, Fresh
      <4>2. pairSt'[q] # "COMPLETED"
        BY <2>2, <3>1 DEF AtStake
      <4> QED
        BY <2>1, <4>1, <4>2 DEF RetryStep, Verifies, Retries, HasEvidence
    <3>2. CASE q # r
      <4>1. pairSt'[q] = pairSt[q] /\ exitEv'[q] = exitEv[q]
        BY <2>2, <2>4, <3>2 DEF AtStake
      <4> QED
        BY <2>1, <4>1 DEF RetryStep, Verifies, Retries
    <3> QED
      BY <3>1, <3>2
  <2> QED
    BY <2>3, <2>4
<1>4. CASE ForceKill(p) \/ FinishFailed(p)
  <2>1. /\ exitEv' = exitEv /\ pc' = "idle"
        /\ \/ pairSt' = pairSt
           \/ \E s \in {"INTERRUPTED", "FAILED"} :
                 pairSt[p] = "RUNNING" /\ pairSt' = [pairSt EXCEPT ![p] = s]
    BY <1>4 DEF ForceKill, FinishFailed, Polls, Finishes, WInv, IInv, Supervised
  <2>2. \/ pairSt'[q] = pairSt[q]
        \/ pairSt[q] = "RUNNING" /\ pairSt'[q] \in {"INTERRUPTED", "FAILED"}
    BY <1>0, <2>1
  <2> QED
    BY <2>1, <2>2, UntouchedRetries DEF RetryStep
<1>5. CASE PollExit(p)
  <2>1. /\ pc = "idle" /\ pc' \in {"idle", "finish"} /\ active # 0 /\ p = proc[active].pair
        /\ exitEv' = [exitEv EXCEPT ![p] = [rc |-> proc[active].rc, attempt |-> attempt[p]]]
        /\ UNCHANGED pairSt
    BY <1>5 DEF PollExit, Polls
  <2>2. HasEvidence(p) => exitEv[p] = [rc |-> proc[active].rc, attempt |-> attempt[p]]
    BY <2>1 DEF Fresh
  <2>3. HasEvidence(q) => exitEv'[q] = exitEv[q]
    BY <1>0, <2>1, <2>2
  <2> QED
    BY <2>1, <2>3 DEF RetryStep, Verifies, Retries
<1>6. CASE FinishPair(p) \/ FinishSprt(p) \/ FinishCancelled(p) \/ FinalizeCommit(p)
  <2>1. /\ pairSt[p] = "RUNNING" /\ exitEv[p] = [rc |-> 0, attempt |-> attempt[p]]
        /\ pairSt' = [pairSt EXCEPT ![p] = "COMPLETED"] /\ UNCHANGED exitEv
        /\ pc = "finalizing" \/ (pc = "finish" /\ pgn[p] = "good")
        /\ pc' \in {"idle", "artifacts"}
    BY <1>6, ScoringSteps
  <2>2. CASE q = p
    <3>1. pairSt'[q] = "COMPLETED"
      BY <1>0, <2>1, <2>2
    <3> QED
      BY <2>1, <2>2, <3>1 DEF RetryStep, Verifies, Retries
  <2>3. CASE q # p
    <3>1. pairSt'[q] = pairSt[q]
      BY <2>1, <2>3
    <3> QED
      BY <2>1, <3>1, UntouchedRetries DEF RetryStep
  <2> QED
    BY <2>2, <2>3
<1>7. CASE Finalize(p)
  <2>1. /\ UNCHANGED <<pairSt, exitEv>> /\ pc = "finish" /\ pc' = "finalizing"
        /\ p = proc[active].pair /\ Scorable(p)
    BY <1>7 DEF Finalize, FinishLast, Finishes, pairRows
  <2>2. exitEv[p] = [rc |-> 0, attempt |-> attempt[p]] /\ pgn[p] = "good"
    BY <2>1 DEF WInv, IInv, Supervised, Scorable
  <2> QED
    BY <2>1, <2>2 DEF RetryStep, Verifies, Retries
<1> QED
  BY <1>1, <1>2, <1>4, <1>5, <1>6, <1>7

LEMMA RetryAll ==
    ASSUME WInv, Fresh, [Next]_vars, NEW q \in Pairs
    PROVE  RetryStep(q)
<1>0. IInv /\ pairSt \in [Pairs -> PairStatus]
  BY Types DEF WInv
<1>1. ASSUME Calm PROVE RetryStep(q)
  BY <1>1, UntouchedRetries DEF Calm, RetryStep
<1>2. CASE Tick \/ LaunchError
  BY <1>1, <1>2, CalmSteps, RetryTick, MatchAssumption DEF Tick, LaunchError
<1>3. CASE Api \/ Heartbeat \/ Boot \/ RecoveryRead \/ TickFails
  BY <1>1, <1>3, CalmSteps, MatchAssumption
<1>4. ASSUME NEW k \in Pids, Exit(k) PROVE RetryStep(q)
  BY <1>4, UntouchedRetries DEF Exit, worker, pairRows, RetryStep
<1>5. CASE Recover
  <2>1. pc = "recovering" /\ pc' = "idle"
    BY <1>5 DEF Recover
  <2>2. pairSt'[q] = "COMPLETED" => pairSt[q] = "COMPLETED" \/ Scores(q)
    BY <1>0, <1>5, RecoverPairs
  <2>3. Scores(q) => pgn[q] = "good" /\ exitEv[q] = [rc |-> 0, attempt |-> attempt[q]]
    <3>1. Scores(q) => exitEv[q] = [rc |-> 0, attempt |-> attempt[q]]
      BY <1>0, <1>5, RecoverPairs
    <3> QED
      BY <3>1 DEF Scores
  <2>4. CASE q \in Rerun \cup Requeued
    <3>1. /\ pairSt'[q] = "PENDING" /\ exitEv'[q] = NoExit
          /\ attempt'[q] = attempt[q] + 1 /\ pgn'[q] = "none"
      BY <1>5, <2>4, RecoveredAttempts
    <3> QED
      BY <2>1, <3>1 DEF RetryStep, Verifies
  <2>5. CASE q \notin Rerun \cup Requeued
    <3>1. /\ exitEv'[q] = exitEv[q]
          /\ pairSt[q] = "INTERRUPTED" => pairSt'[q] = "INTERRUPTED"
          /\ pairSt'[q] = "PENDING" => pairSt[q] = "PENDING"
      BY <1>5, <2>5, RecoveredAttempts
    <3> QED
      BY <2>1, <2>2, <2>3, <3>1 DEF RetryStep, Verifies, Retries
  <2> QED
    BY <2>4, <2>5
<1>6. CASE Shutdown
  <2>1. /\ exitEv' = exitEv /\ pc' = "down"
        /\ \/ pairSt' = pairSt
           \/ \E r \in Pairs : /\ pairSt[r] = "RUNNING"
                              /\ pairSt' = [pairSt EXCEPT ![r] = "INTERRUPTED"]
    BY <1>0, <1>6, Types DEF Shutdown
  <2>2. \/ pairSt'[q] = pairSt[q]
        \/ pairSt[q] = "RUNNING" /\ pairSt'[q] = "INTERRUPTED"
    BY <1>0, <2>1
  <2> QED
    BY <2>1, <2>2, UntouchedRetries DEF RetryStep
<1>7. CASE Crash
  BY <1>7, UntouchedRetries DEF Crash, pairRows, RetryStep
<1>8. CASE UNCHANGED vars
  BY <1>8, UntouchedRetries DEF vars, pairRows, worker, RetryStep
<1> QED
  BY <1>2, <1>3, <1>4, <1>5, <1>6, <1>7, <1>8 DEF Next, Recovery, Fault

\* A pair is decided by the games and the exit code of one attempt: no retry
\* meets what an earlier attempt left.
THEOREM RetriesFresh == Spec => RetriesStartFresh
<1>1. WInv /\ Fresh /\ [Next]_vars =>
        [\A p \in Pairs :
            /\ Verifies(p) => pgn[p] = "good" /\ exitEv[p] = [rc |-> 0, attempt |-> attempt[p]]
            /\ Retries(p) => /\ attempt'[p] = attempt[p] + 1
                             /\ pgn'[p] = "none" /\ exitEv'[p] = NoExit
            /\ HasEvidence(p) => exitEv'[p] = exitEv[p] \/ attempt'[p] = attempt[p] + 1]_vars
  BY RetryAll DEF RetryStep
<1> QED
  BY FreshHolds, <1>1, PTL DEF Spec, RetriesStartFresh

-----------------------------------------------------------------------------
(* Groups that outlive SIGKILL, when those of a dead worker die with it.   *)

\* A pair that a force-cancel has taken out of play for good.
Out(p) == pairSt[p] = "INTERRUPTED" /\ status[Match[p]] \in Ended /\ snap[Match[p]] = NoRow

\* A group of an attempt that its pair has left, or of a pair that is out.
Left(k) == proc[k].attempt < attempt[proc[k].pair] \/ Out(proc[k].pair)

\* A group left behind by a shutdown, whose pair the next recovery finds
\* RUNNING without an exit code.
LeftBehind(k) ==
    LET p == proc[k].pair IN
    /\ pc \in {"down", "boot", "recovering"}
    /\ pairSt[p] = "RUNNING" /\ ~HasEvidence(p) /\ proc[k].attempt = attempt[p]

Groups ==
    /\ active # 0 =>
          LET p == proc[active].pair IN
          proc[active].attempt =
              attempt[p] + (IF pc = "launched" /\ pairSt[p] = "INTERRUPTED" THEN 1 ELSE 0)
    /\ \A k \in Pids : Running(k) /\ k # active => Left(k) \/ LeftBehind(k)

SInv == WInv /\ Fresh /\ Groups

\* Attempts are only ever counted up.
LEMMA AttemptStep ==
    ASSUME WInv, [Next]_vars, NEW q \in Pairs
    PROVE  attempt[q] \in Nat /\ attempt'[q] \in {attempt[q], attempt[q] + 1}
<1>0. attempt[q] \in Nat
  BY DEF WInv, IInv, TypeInv, TypeOK
<1>1. ASSUME UNCHANGED attempt PROVE attempt'[q] \in {attempt[q], attempt[q] + 1}
  BY <1>1
<1>2. ASSUME NEW t \in Tournaments, NEW p \in Pairs,
             \/ Launch(t, p) \/ LaunchCommit(t) \/ LaunchFails(t, p)
             \/ ForceKill(p) \/ PollExit(p) \/ FinishFailed(p) \/ FinishPair(p) \/ FinishSprt(p)
             \/ FinishCancelled(p) \/ Finalize(p) \/ FinalizeCommit(p)
      PROVE  attempt'[q] \in {attempt[q], attempt[q] + 1}
  <2>1. CASE LaunchCommit(t) \/ LaunchFails(t, p)
    <3>1. PICK r \in Pairs : AtStake(r, t)
      BY <2>1, LaunchedPairs
    <3> QED
      BY <3>1 DEF AtStake
  <2>2. CASE \/ Launch(t, p) \/ ForceKill(p) \/ PollExit(p) \/ FinishFailed(p) \/ Finalize(p)
             \/ FinishPair(p) \/ FinishSprt(p) \/ FinishCancelled(p) \/ FinalizeCommit(p)
    <3>1. UNCHANGED attempt
      BY <2>2 DEF Launch, ForceKill, PollExit, FinishFailed, Finalize, pairRows,
         FinishPair, FinishSprt, FinishCancelled, FinalizeCommit, ScorePair
    <3> QED
      BY <1>1, <3>1
  <2> QED
    BY <1>2, <2>1, <2>2
<1>3. ASSUME Calm PROVE attempt'[q] \in {attempt[q], attempt[q] + 1}
  BY <1>1, <1>3 DEF Calm
<1>4. CASE Tick \/ LaunchError
  BY <1>0, <1>2, <1>3, <1>4, CalmSteps, MatchAssumption DEF Tick, LaunchError
<1>5. CASE Api \/ Heartbeat \/ Boot \/ RecoveryRead \/ TickFails
  BY <1>0, <1>3, <1>5, CalmSteps, MatchAssumption
<1>6. CASE Recover
  BY <1>0, <1>6, RecoveredAttempts
<1>7. CASE Shutdown \/ Crash \/ (\E k \in Pids : Exit(k)) \/ UNCHANGED vars
  <2>1. UNCHANGED attempt
    BY <1>7 DEF Shutdown, Crash, Exit, vars, pairRows
  <2> QED
    BY <1>0, <1>1, <2>1
<1> QED
  BY <1>4, <1>5, <1>6, <1>7 DEF Next, Recovery, Fault

\* The rows a step loads are of matches that have not ended.
LEMMA LoadingSteps ==
    ASSUME WInv, [Next]_vars, NEW t \in Tournaments, snap[t] = NoRow, status[t] \in Ended
    PROVE  snap'[t] = NoRow
<1>1. CASE ReadPausing
  <2>1. CASE snap' = NoSnap
    BY <2>1, NoRowIsNotLoaded
  <2>2. CASE snap' # NoSnap
    <3>1. PICK u \in Tournaments : IsFirst(u, Stopping) /\ snap' = [NoSnap EXCEPT ![u] = RowOf(u)]
      BY <1>1, <2>2 DEF ReadPausing, Load, GoTo
    <3>2. t # u
      BY <3>1, LiveIsNotEnded DEF IsFirst, Stopping
    <3> QED
      BY <3>1, <3>2 DEF NoSnap
  <2> QED
    BY <2>1, <2>2
<1>2. CASE ReadNext
  <2>1. CASE snap' = NoSnap
    BY <2>1, NoRowIsNotLoaded
  <2>2. CASE snap' # NoSnap
    <3>1. PICK u \in Tournaments : IsFirst(u, Runnable) /\ snap' = [NoSnap EXCEPT ![u] = RowOf(u)]
      BY <1>2, <2>2 DEF ReadNext, Load, GoTo
    <3>2. t # u
      BY <3>1, LiveIsNotEnded DEF IsFirst, Runnable
    <3> QED
      BY <3>1, <3>2 DEF NoSnap
  <2> QED
    BY <2>1, <2>2
<1>3. CASE RecoveryRead
  <2>1. snap' = [u \in Tournaments |->
                   IF status[u] \in {"RUNNING", "PAUSING", "PAUSED"} THEN RowOf(u) ELSE NoRow]
    BY <1>3 DEF RecoveryRead
  <2> QED
    BY <2>1, LiveIsNotEnded
<1>4. ASSUME NEW u \in Tournaments, NEW p \in Pairs,
             \/ ApplyPausing(u) \/ ApplyFlags(u) \/ Launch(u, p) \/ LaunchCommit(u)
             \/ LaunchFails(u, p) \/ TickFails \/ Crash
      PROVE  snap'[t] = NoRow
  <2>1. snap' = snap \/ snap' = NoSnap
    BY <1>4 DEF ApplyPausing, ApplyFlags, Launch, LaunchCommit, LaunchFails, TickFails, Crash, GoTo
  <2> QED
    BY <2>1, NoRowIsNotLoaded
<1>5. ASSUME NEW p \in Pairs,
             \/ ForceKill(p) \/ PollExit(p) \/ FinishFailed(p) \/ FinishPair(p) \/ FinishSprt(p)
             \/ SprtArtifacts(p) \/ FinishCancelled(p) \/ Finalize(p) \/ FinalizeCommit(p)
      PROVE  snap'[t] = NoRow
  BY <1>5 DEF ForceKill, PollExit, FinishFailed, FinishPair, FinishSprt, SprtArtifacts,
     FinishCancelled, Finalize, FinalizeCommit
<1>6. CASE Recover
  BY <1>6 DEF Recover
<1>7. CASE Api
  BY <1>7, ApiMoves DEF WInv, worker
<1>8. CASE Heartbeat \/ Boot \/ Shutdown \/ (\E k \in Pids : Exit(k)) \/ UNCHANGED vars
  BY <1>8 DEF Heartbeat, Boot, Shutdown, Exit, vars, worker
<1>9. CASE Tick \/ LaunchError
  BY <1>1, <1>2, <1>4, <1>5, <1>9, MatchAssumption DEF Tick, LaunchError
<1>10. CASE Fault
  BY <1>4, <1>8, <1>10, MatchAssumption DEF Fault
<1> QED
  BY <1>3, <1>6, <1>7, <1>8, <1>9, <1>10 DEF Next, Recovery

\* A pair that is out stays out.
LEMMA EndedStays ==
    ASSUME WInv, [Next]_vars, NEW t \in Tournaments, snap[t] = NoRow, status[t] \in Ended
    PROVE  status'[t] \in Ended
<1>0. IInv /\ status \in [Tournaments -> Status]
  BY Types DEF WInv
<1>1. ASSUME status' = status PROVE status'[t] \in Ended
  BY <1>1
<1>2. ASSUME NEW u \in Tournaments, NEW p \in Pairs,
             ApplyPausing(u) \/ ApplyFlags(u) \/ LaunchCommit(u) \/ LaunchFails(u, p)
      PROVE  status'[t] \in Ended
  <2>1. u # t
    BY <1>2 DEF ApplyPausing, ApplyFlags, LaunchCommit, LaunchFails, MayLaunch, Loaded
  <2>2. status' = status \/ \E s : status' = [status EXCEPT ![u] = s]
    BY <1>2 DEF ApplyPausing, ApplyFlags, LaunchCommit, LaunchFails
  <2> QED
    BY <1>0, <2>1, <2>2
<1>3. ASSUME NEW p \in Pairs,
             ForceKill(p) \/ FinishFailed(p) \/ FinishCancelled(p) \/ FinalizeCommit(p)
      PROVE  status'[t] \in Ended
  <2>1. \E s \in Ended : status' = [status EXCEPT ![Match[p]] = s]
    BY <1>3 DEF ForceKill, FinishFailed, FinishCancelled, FinalizeCommit, Ended, ResultTerminal
  <2> QED
    BY <1>0, <2>1
<1>4. ASSUME NEW p \in Pairs, FinishSprt(p) PROVE status'[t] \in Ended
  <2> DEFINE verdict == SprtStatus(Match[p], completed[Match[p]] + 1)
  <2>1. /\ pc = "finish" /\ p = proc[active].pair /\ verdict # "CONTINUE"
        /\ status' = [status EXCEPT ![Match[p]] = verdict]
    BY <1>4 DEF FinishSprt, Finishes
  <2>2. verdict \in Ended
    BY <1>0, <2>1, VerdictType DEF Ended, ResultTerminal
  <2> HIDE DEF verdict
  <2> QED
    BY <1>0, <2>1, <2>2
<1>5. CASE Api
  BY <1>0, <1>5, ApiMoves, LiveIsNotEnded
<1>6. CASE Recover
  <2>1. status'[t] = StatusAfter(t)
    BY <1>6 DEF Recover
  <2>2. ~Recovered(t)
    BY DEF Recovered
  <2>3. StatusAfter(t) = status[t]
    BY <2>2 DEF StatusAfter, Forced
  <2> QED
    BY <2>1, <2>3
<1>7. ASSUME NEW u \in Tournaments, NEW p \in Pairs,
             \/ ReadPausing \/ ReadNext \/ Launch(u, p) \/ PollExit(p) \/ FinishPair(p)
             \/ SprtArtifacts(p) \/ Finalize(p)
      PROVE  status' = status
  BY <1>7 DEF ReadPausing, ReadNext, Launch, PollExit, FinishPair, SprtArtifacts, Finalize, rows
<1>8. CASE Heartbeat \/ Boot \/ RecoveryRead \/ (\E k \in Pids : Exit(k)) \/ UNCHANGED vars
  BY <1>1, <1>8 DEF Heartbeat, Boot, RecoveryRead, Exit, vars, rows
<1>9. CASE Fault
  BY <1>1, <1>9 DEF Fault, TickFails, Shutdown, Crash, rows
<1>10. CASE Tick \/ LaunchError
  <2>1. \/ status' = status
        \/ \E u \in Tournaments, p \in Pairs :
              ApplyPausing(u) \/ ApplyFlags(u) \/ LaunchCommit(u) \/ LaunchFails(u, p)
        \/ \E p \in Pairs :
              ForceKill(p) \/ FinishFailed(p) \/ FinishCancelled(p) \/ FinalizeCommit(p)
              \/ FinishSprt(p)
    BY <1>7, <1>10, MatchAssumption DEF Tick, LaunchError
  <2> QED
    BY <1>1, <1>2, <1>3, <1>4, <2>1
<1> QED
  BY <1>5, <1>6, <1>8, <1>9, <1>10 DEF Next, Recovery

\* Only a launch of its match and a recovery that loaded its match take up an
\* interrupted pair.
LEMMA InterruptedStays ==
    ASSUME WInv, Fresh, [Next]_vars, NEW q \in Pairs, pairSt[q] = "INTERRUPTED",
           snap[Match[q]] = NoRow
    PROVE  pairSt'[q] = "INTERRUPTED"
<1>0. IInv /\ pairSt \in [Pairs -> PairStatus]
  BY Types DEF WInv
<1>1. ASSUME UNCHANGED pairSt PROVE pairSt'[q] = "INTERRUPTED"
  BY <1>1
<1>2. ASSUME NEW t \in Tournaments, NEW p \in Pairs,
             \/ Launch(t, p) \/ LaunchCommit(t) \/ LaunchFails(t, p)
             \/ ForceKill(p) \/ PollExit(p) \/ FinishFailed(p) \/ FinishPair(p) \/ FinishSprt(p)
             \/ FinishCancelled(p) \/ Finalize(p) \/ FinalizeCommit(p)
      PROVE  pairSt'[q] = "INTERRUPTED"
  <2>1. CASE LaunchCommit(t) \/ LaunchFails(t, p)
    <3>1. PICK r \in Pairs : AtStake(r, t)
      BY <2>1, LaunchedPairs
    <3>2. Match[q] # t
      BY <2>1 DEF LaunchCommit, LaunchFails, MayLaunch, Loaded
    <3> QED
      BY <3>1, <3>2 DEF AtStake, Interrupted, PairsOf
  <2>2. CASE Launch(t, p) \/ PollExit(p) \/ Finalize(p)
    BY <1>1, <2>2 DEF Launch, PollExit, Finalize, pairRows
  <2>3. CASE ForceKill(p) \/ FinishFailed(p)
    <3>1. \/ UNCHANGED pairSt
          \/ \E s : pairSt[p] = "RUNNING" /\ pairSt' = [pairSt EXCEPT ![p] = s]
      BY <2>3 DEF ForceKill, FinishFailed, Finishes, WInv, IInv, Supervised
    <3> QED
      BY <1>0, <3>1
  <2>4. CASE FinishPair(p) \/ FinishSprt(p) \/ FinishCancelled(p) \/ FinalizeCommit(p)
    <3>1. pairSt[p] = "RUNNING" /\ pairSt' = [pairSt EXCEPT ![p] = "COMPLETED"]
      BY <2>4, ScoringSteps
    <3> QED
      BY <1>0, <3>1
  <2> QED
    BY <1>2, <2>1, <2>2, <2>3, <2>4
<1>3. ASSUME Calm PROVE pairSt'[q] = "INTERRUPTED"
  BY <1>1, <1>3 DEF Calm
<1>4. CASE Tick \/ LaunchError
  BY <1>2, <1>3, <1>4, CalmSteps, MatchAssumption DEF Tick, LaunchError
<1>5. CASE Api \/ Heartbeat \/ Boot \/ RecoveryRead \/ TickFails
  BY <1>3, <1>5, CalmSteps, MatchAssumption
<1>6. CASE Recover
  <2>1. q \notin Rerun \cup Requeued
    BY DEF Rerun, Judged, Orphaned, Requeued, Recovered
  <2> QED
    BY <1>6, <2>1, RecoveredAttempts
<1>7. CASE Shutdown
  <2>1. \/ UNCHANGED pairSt
        \/ \E r \in Pairs : pairSt[r] = "RUNNING" /\ pairSt' = [pairSt EXCEPT ![r] = "INTERRUPTED"]
    BY <1>0, <1>7, Types DEF Shutdown
  <2> QED
    BY <1>0, <2>1
<1>8. CASE Crash \/ (\E k \in Pids : Exit(k)) \/ UNCHANGED vars
  BY <1>1, <1>8 DEF Crash, Exit, vars, pairRows
<1> QED
  BY <1>4, <1>5, <1>6, <1>7, <1>8 DEF Next, Recovery, Fault

LEMMA OutStays ==
    ASSUME WInv, Fresh, [Next]_vars, NEW p \in Pairs, Out(p)
    PROVE  Out(p)'
<1>0. Match[p] \in Tournaments /\ Match' = Match
  OBVIOUS
<1>1. snap'[Match[p]] = NoRow /\ status'[Match[p]] \in Ended
  BY <1>0, LoadingSteps, EndedStays DEF Out
<1>2. pairSt'[p] = "INTERRUPTED"
  BY InterruptedStays DEF Out
<1> QED
  BY <1>1, <1>2 DEF Out

\* A group that runs after a step ran before it, unless it was just launched.
LEMMA RunningBefore ==
    ASSUME WInv, [Next]_vars, NEW k \in Pids, Running(k)'
    PROVE  \/ Running(k) /\ proc'[k] = proc[k]
           \/ k = active' /\ \E t \in Tournaments, p \in Pairs : Launch(t, p)
<1>0. IInv /\ proc \in [Pids -> ProcState] /\ active \in Pids \cup {0} /\ ident \in Pids \cup {0}
  BY DEF WInv, IInv, TypeInv, TypeOK
<1>1. ASSUME UNCHANGED proc PROVE Running(k) /\ proc'[k] = proc[k]
  BY <1>1 DEF Running
<1>2. ASSUME NEW j \in Pids, NEW code \in {0, 1}, proc' = [proc EXCEPT ![j] = Gone(@, code)]
      PROVE  Running(k) /\ proc'[k] = proc[k]
  <2>1. proc'[j].st = "exited"
    BY <1>0, <1>2, GoneType
  <2>2. k # j
    BY <2>1 DEF Running
  <2>3. proc'[k] = proc[k]
    BY <1>0, <1>2, <2>2
  <2> QED
    BY <2>3 DEF Running
<1>3. ASSUME NEW j \in Pids, NEW gone, proc' = AfterTermination(j, gone)
      PROVE  Running(k) /\ proc'[k] = proc[k]
  BY <1>1, <1>2, <1>3 DEF AfterTermination
<1>4. ASSUME NEW t \in Tournaments, NEW p \in Pairs, Launch(t, p)
      PROVE  (Running(k) /\ proc'[k] = proc[k]) \/ k = active'
  <2>1. PICK j \in Pids : active' = j /\
          proc' = [proc EXCEPT ![j] =
                [st |-> "running", pair |-> p, rc |-> 0,
                 attempt |-> attempt[p] + (IF p \in Interrupted(t) THEN 1 ELSE 0)]]
    BY <1>4 DEF Launch
  <2>2. k # j => proc'[k] = proc[k]
    BY <1>0, <2>1
  <2> QED
    BY <2>1, <2>2 DEF Running
<1>5. ASSUME NEW t \in Tournaments, NEW p \in Pairs,
             \/ LaunchCommit(t) \/ LaunchFails(t, p) \/ PollExit(p) \/ FinishFailed(p)
             \/ FinishPair(p) \/ FinishSprt(p) \/ FinishCancelled(p) \/ Finalize(p)
             \/ FinalizeCommit(p)
      PROVE  Running(k) /\ proc'[k] = proc[k]
  BY <1>1, <1>5 DEF LaunchCommit, LaunchFails, PollExit, FinishFailed, FinishPair, FinishSprt,
     FinishCancelled, Finalize, FinalizeCommit
<1>6. ASSUME NEW p \in Pairs, ForceKill(p) PROVE Running(k) /\ proc'[k] = proc[k]
  BY <1>0, <1>3, <1>6 DEF ForceKill, Polls
<1>7. ASSUME Calm PROVE Running(k) /\ proc'[k] = proc[k]
  BY <1>1, <1>7 DEF Calm
<1>8. CASE Tick \/ LaunchError
  <2>1. CASE \E t \in Tournaments, p \in Pairs : Launch(t, p)
    BY <1>4, <2>1
  <2>2. CASE ~ \E t \in Tournaments, p \in Pairs : Launch(t, p)
    BY <1>5, <1>6, <1>7, <1>8, <2>2, CalmSteps, MatchAssumption DEF Tick, LaunchError
  <2> QED
    BY <2>1, <2>2
<1>9. CASE Api \/ Heartbeat \/ Boot \/ RecoveryRead \/ TickFails
  BY <1>7, <1>9, CalmSteps, MatchAssumption
<1>10. CASE Recover
  <2>1. \/ UNCHANGED proc
        \/ ident # 0 /\ \E gone \in Terminated(ident) : proc' = AfterTermination(ident, gone)
    BY <1>10 DEF Recover, KillOrphan
  <2> QED
    BY <1>0, <1>1, <1>3, <2>1
<1>11. CASE Shutdown
  <2>1. \/ UNCHANGED proc
        \/ active # 0 /\ \E gone \in Terminated(active) : proc' = AfterTermination(active, gone)
    BY <1>11 DEF Shutdown
  <2> QED
    BY <1>0, <1>1, <1>3, <2>1
<1>12. CASE Crash
  <2>1. PICK alive \in Survivors :
          proc' = [j \in Pids |-> IF Running(j) /\ j \notin alive THEN Gone(proc[j], 1) ELSE proc[j]]
    BY <1>12 DEF Crash
  <2>2. Gone(proc[k], 1).st = "exited"
    BY <1>0, GoneType
  <2>3. proc'[k] = proc[k]
    BY <2>1, <2>2 DEF Running
  <2> QED
    BY <2>3 DEF Running
<1>13. CASE \E j \in Pids : Exit(j)
  BY <1>2, <1>13 DEF Exit
<1>14. CASE UNCHANGED vars
  BY <1>1, <1>14 DEF vars
<1> QED
  BY <1>8, <1>9, <1>10, <1>11, <1>12, <1>13, <1>14 DEF Next, Recovery, Fault

\* A group that the worker has left behind stays behind.
LEMMA LeftStays ==
    ASSUME WInv, Fresh, [Next]_vars, NEW k \in Pids, Left(k), proc'[k] = proc[k]
    PROVE  Left(k)'
<1>1. proc[k].pair \in Pairs /\ proc[k].attempt \in Nat
  BY DEF WInv, IInv, TypeInv, TypeOK, ProcState
<1>2. CASE proc[k].attempt < attempt[proc[k].pair]
  <2>1. ASSUME NEW p \in Pairs, proc[k].attempt < attempt[p] PROVE proc[k].attempt < attempt'[p]
    BY <1>1, <2>1, AttemptStep
  <2>2. proc'[k].attempt < attempt'[proc'[k].pair]
    BY <1>1, <1>2, <2>1
  <2> QED
    BY <2>2 DEF Left
<1>3. CASE Out(proc[k].pair)
  <2>1. Out(proc[k].pair)'
    BY <1>1, <1>3, OutStays
  <2> QED
    BY <2>1 DEF Left
<1> QED
  BY <1>2, <1>3 DEF Left

\* The supervised group is of the current attempt of its pair, or of the one
\* that the commit of its launch will make current.
LEMMA AttemptOfActive ==
    ASSUME SInv, [Next]_vars, active' # 0
    PROVE  LET p == proc'[active'].pair IN
           proc'[active'].attempt =
               attempt'[p] + (IF pc' = "launched" /\ pairSt'[p] = "INTERRUPTED" THEN 1 ELSE 0)
<1> DEFINE Now == LET p == proc[active].pair IN
                  proc[active].attempt =
                      attempt[p] + (IF pc = "launched" /\ pairSt[p] = "INTERRUPTED" THEN 1 ELSE 0)
           Goal == LET p == proc'[active'].pair IN
                   proc'[active'].attempt =
                       attempt'[p] + (IF pc' = "launched" /\ pairSt'[p] = "INTERRUPTED" THEN 1 ELSE 0)
<1>0. /\ IInv /\ WInv /\ Fresh /\ proc \in [Pids -> ProcState] /\ active \in Pids \cup {0}
      /\ (active # 0 => Now) /\ attempt \in [Pairs -> Nat]
  BY DEF SInv, Groups, WInv, IInv, TypeInv, TypeOK
<1>1. ASSUME UNCHANGED attempt, active' = active, proc'[active].pair = proc[active].pair,
             proc'[active].attempt = proc[active].attempt, pc # "launched", pc' # "launched"
      PROVE  Goal
  BY <1>0, <1>1
<1>2. ASSUME NEW t \in Tournaments, NEW p \in Pairs, Launch(t, p) PROVE Goal
  <2>1. PICK k \in Pids : active' = k /\
          proc' = [proc EXCEPT ![k] =
                [st |-> "running", pair |-> p, rc |-> 0,
                 attempt |-> attempt[p] + (IF p \in Interrupted(t) THEN 1 ELSE 0)]]
    BY <1>2 DEF Launch
  <2>2. /\ pc' = "launched" /\ UNCHANGED <<attempt, pairSt>>
        /\ p \in Interrupted(t) <=> pairSt[p] = "INTERRUPTED"
    BY <1>2 DEF Launch, MayLaunch, IsFirst, Pending, PairsOf, Interrupted, pairRows
  <2>3. /\ proc'[active'].pair = p
        /\ proc'[active'].attempt = attempt[p] + (IF p \in Interrupted(t) THEN 1 ELSE 0)
    BY <1>0, <2>1
  <2> QED
    BY <2>2, <2>3
<1>3. ASSUME NEW t \in Tournaments, LaunchCommit(t) PROVE Goal
  <2>1. PICK r \in Pairs : AtStake(r, t) /\ r = proc[active].pair
    BY <1>0, <1>3, LaunchedPairs, MatchAssumption
  <2>2. pc = "launched" /\ pc' = "idle" /\ proc'[active'] = proc[active] /\ active # 0
    BY <1>3, Types DEF LaunchCommit, GoTo, SInv, WInv
  <2>3. proc[active].attempt = attempt[r] + (IF pairSt[r] = "INTERRUPTED" THEN 1 ELSE 0)
    BY <1>0, <2>1, <2>2
  <2>4. attempt[r] \in Nat /\ (r \in Interrupted(t) <=> pairSt[r] = "INTERRUPTED")
    BY <1>0, <2>1 DEF AtStake, Interrupted, PairsOf
  <2>5. pairSt[r] = "INTERRUPTED" => attempt'[r] = attempt[r] + 1
    BY <2>1, <2>4 DEF AtStake
  <2>6. pairSt[r] # "INTERRUPTED" => attempt'[r] = attempt[r]
    BY <2>1, <2>4 DEF AtStake
  <2>7. attempt'[r] = attempt[r] + (IF pairSt[r] = "INTERRUPTED" THEN 1 ELSE 0)
    BY <2>4, <2>5, <2>6
  <2>8. attempt'[r] \in Nat /\ proc'[active'].pair = r /\ proc'[active'].attempt = attempt'[r]
    BY <2>1, <2>2, <2>3, <2>4, <2>7
  <2> QED
    BY <2>2, <2>8
<1>4. ASSUME NEW t \in Tournaments, NEW p \in Pairs,
             LaunchFails(t, p) \/ ForceKill(p) \/ FinishFailed(p)
      PROVE  active' = 0
  BY <1>0, <1>4 DEF LaunchFails, MayLaunch, ForceKill, FinishFailed, IInv, TypeInv, Handle
<1>5. ASSUME NEW p \in Pairs,
             \/ PollExit(p) \/ Finalize(p) \/ FinishPair(p) \/ FinishSprt(p)
             \/ FinishCancelled(p) \/ FinalizeCommit(p)
      PROVE  Goal
  <2>1. /\ UNCHANGED <<attempt, proc>> /\ active' \in {active, 0}
        /\ pc \in {"idle", "finish", "finalizing"} /\ pc' # "launched"
    BY <1>5 DEF PollExit, Polls, Finalize, FinishPair, FinishSprt, FinishCancelled,
       FinalizeCommit, FinishLast, Finishes, ScorePair, pairRows
  <2> QED
    BY <1>1, <2>1
<1>6. ASSUME Calm PROVE Goal
  <2>1. UNCHANGED <<attempt, proc>> /\ active' = active /\ pc # "launched" /\ pc' # "launched"
    BY <1>6 DEF Calm
  <2> QED
    BY <1>1, <2>1
<1>7. ASSUME NEW k \in Pids, Exit(k) PROVE Goal
  <2>1. UNCHANGED <<attempt, pairSt, pc, active>>
    BY <1>7 DEF Exit, pairRows, worker
  <2>2. PICK code \in {0, 1} : proc' = [proc EXCEPT ![k] = Gone(@, code)]
    BY <1>7 DEF Exit
  <2>3. \A j \in Pids : proc'[j].pair = proc[j].pair /\ proc'[j].attempt = proc[j].attempt
    BY <1>0, <2>2, GoneType
  <2> QED
    BY <1>0, <2>1, <2>3
<1>8. CASE Tick \/ LaunchError
  BY <1>0, <1>2, <1>3, <1>4, <1>5, <1>6, <1>8, CalmSteps, MatchAssumption DEF Tick, LaunchError
<1>9. CASE Api \/ Heartbeat \/ Boot \/ RecoveryRead \/ TickFails
  BY <1>0, <1>6, <1>9, CalmSteps, MatchAssumption
<1>10. CASE Recover \/ Shutdown \/ Crash
  BY <1>0, <1>10 DEF Recover, Shutdown, Crash, IInv, TypeInv, Handle
<1>11. CASE UNCHANGED vars
  BY <1>0, <1>11 DEF vars, worker, pairRows
<1> QED
  BY <1>7, <1>8, <1>9, <1>10, <1>11 DEF Next, Recovery, Fault

\* The group that a shutdown fails to kill.
LEMMA ShutdownLeaves ==
    ASSUME SInv, Shutdown, NEW k \in Pids, k = active, Running(k)'
    PROVE  LeftBehind(k)'
<1>0. /\ WInv /\ IInv /\ pc = "idle" /\ active # 0
      /\ proc[k].pair \in Pairs /\ attempt[proc[k].pair] \in Nat
  BY PidAssumption DEF SInv, WInv, IInv, TypeInv, TypeOK, ProcState, Shutdown
<1>1. PICK p \in Pairs : p = proc[k].pair
  BY <1>0
<1>2. PICK gone \in Terminated(k) :
        /\ proc' = AfterTermination(k, gone)
        /\ pairSt' = IF gone /\ pairSt[p] = "RUNNING"
                     THEN [pairSt EXCEPT ![p] = "INTERRUPTED"] ELSE pairSt
  BY <1>0, <1>1 DEF Shutdown
<1>3. gone = FALSE
  <2>1. gone \in BOOLEAN
    BY DEF Terminated
  <2>2. ASSUME gone = TRUE PROVE FALSE
    <3>1. proc' = AfterTermination(k, TRUE)
      BY <1>2, <2>2
    <3> QED
      BY <1>0, <3>1, TerminationKills
  <2> QED
    BY <2>1, <2>2
<1>4. UNCHANGED <<proc, pairSt, attempt, exitEv>> /\ pc' = "down"
  <2>1. proc' = proc
    BY <1>2, <1>3 DEF AfterTermination
  <2>2. pairSt' = pairSt
    BY <1>2, <1>3
  <2> QED
    BY <2>1, <2>2 DEF Shutdown
<1>5. proc[k].st = "running"
  BY <1>4 DEF Running
<1>6. pairSt[p] = "RUNNING" /\ ~HasEvidence(p)
  BY <1>0, <1>1, <1>5 DEF SInv, Fresh, WInv, IInv, Supervised
<1>7. proc[k].attempt = attempt[p]
  BY <1>0, <1>1 DEF SInv, Groups
<1>8. proc'[k].pair = p /\ proc'[k].attempt = attempt'[p] /\ pairSt'[p] = "RUNNING"
  BY <1>1, <1>4, <1>6, <1>7
<1>9. ~HasEvidence(p)'
  BY <1>4, <1>6 DEF HasEvidence
<1> QED
  BY <1>4, <1>8, <1>9 DEF LeftBehind

\* Recovery moves the pair of a group that was left behind to its next attempt,
\* or out of play.
LEMMA RecoveryLeaves ==
    ASSUME SInv, Recover, NEW k \in Pids, proc'[k] = proc[k], LeftBehind(k)
    PROVE  Left(k)'
<1>0. /\ WInv /\ IInv /\ proc[k].pair \in Pairs /\ attempt[proc[k].pair] \in Nat
  BY DEF SInv, WInv, IInv, TypeInv, TypeOK, ProcState
<1>1. PICK p \in Pairs : p = proc[k].pair
  BY <1>0
<1>2. pairSt[p] = "RUNNING" /\ ~HasEvidence(p) /\ proc[k].attempt = attempt[p]
  BY <1>1 DEF LeftBehind
<1>3. p \in Orphaned
  BY <1>0, <1>2, RecoveredPairs
<1>4. CASE Forced(Match[p])
  <2>1. p \notin Rerun \cup Requeued /\ ~Scores(p) /\ ~Fails(p)
    BY <1>2, <1>4 DEF Rerun, Requeued, Scores, Fails, Kept, Judged
  <2>2. pairSt'[p] = "INTERRUPTED"
    BY <1>3, <1>4, <2>1 DEF Recover
  <2>3. status'[Match[p]] = "CANCELLED" /\ snap'[Match[p]] = NoRow
    BY <1>4 DEF Recover, StatusAfter, Forced
  <2>4. Out(p)'
    BY <2>2, <2>3 DEF Out, Ended
  <2> QED
    BY <1>1, <2>4 DEF Left
<1>5. CASE ~Forced(Match[p])
  <2>1. p \in Rerun
    BY <1>2, <1>3, <1>5 DEF Rerun, Judged, Kept
  <2>2. attempt'[p] = attempt[p] + 1
    BY <1>0, <2>1, RecoveredAttempts
  <2> QED
    BY <1>0, <1>1, <1>2, <2>2 DEF Left
<1> QED
  BY <1>4, <1>5

\* A worker that dies takes its groups along.
LEMMA CrashKills ==
    ASSUME ~SurviveCrash, WInv, Crash, NEW k \in Pids
    PROVE  ~Running(k)'
<1>1. proc' = [j \in Pids |-> IF Running(j) THEN Gone(proc[j], 1) ELSE proc[j]]
  BY DEF Crash, Survivors
<1>2. Gone(proc[k], 1).st = "exited"
  BY GoneType DEF WInv, IInv, TypeInv, TypeOK
<1> QED
  BY <1>1, <1>2 DEF Running

\* A group left behind by a shutdown waits for recovery to move its pair on.
LEMMA LeftBehindStays ==
    ASSUME ~SurviveCrash, SInv, [Next]_vars, NEW k \in Pids, LeftBehind(k), Running(k)',
           proc'[k] = proc[k]
    PROVE  (Left(k) \/ LeftBehind(k))'
<1>0. proc[k].pair \in Pairs /\ pc \in {"down", "boot", "recovering"} /\ WInv
  BY DEF SInv, WInv, IInv, TypeInv, TypeOK, ProcState, LeftBehind
<1>1. PICK p \in Pairs : p = proc[k].pair
  BY <1>0
<1>2. ASSUME UNCHANGED pairRows, pc' \in {"down", "boot", "recovering"} PROVE LeftBehind(k)'
  <2>1. pairSt'[p] = "RUNNING" /\ proc'[k].attempt = attempt'[p] /\ proc'[k].pair = p
    BY <1>1, <1>2 DEF LeftBehind, pairRows
  <2>2. ~HasEvidence(p)'
    BY <1>1, <1>2 DEF LeftBehind, HasEvidence, pairRows
  <2> QED
    BY <1>2, <2>1, <2>2 DEF LeftBehind
<1>3. ASSUME NEW t \in Tournaments, NEW q \in Pairs,
             \/ ReadPausing \/ ReadNext \/ ApplyPausing(t) \/ ApplyFlags(t)
             \/ Launch(t, q) \/ LaunchCommit(t) \/ LaunchFails(t, q)
             \/ ForceKill(q) \/ PollExit(q) \/ FinishFailed(q) \/ FinishPair(q) \/ FinishSprt(q)
             \/ SprtArtifacts(q) \/ FinishCancelled(q) \/ Finalize(q) \/ FinalizeCommit(q)
      PROVE  FALSE
  BY <1>0, <1>3 DEF MayLaunch, ReadPausing, ReadNext, ApplyPausing, ApplyFlags, LaunchCommit,
     Launch, LaunchFails, Polls, ForceKill, PollExit, Finishes, FinishFailed, FinishPair,
     FinishSprt, SprtArtifacts, FinishLast, FinishCancelled, Finalize, FinalizeCommit
<1>4. CASE Tick \/ LaunchError
  BY <1>3, <1>4, MatchAssumption DEF Tick, LaunchError
<1>5. CASE Heartbeat \/ TickFails \/ Shutdown
  BY <1>0, <1>5 DEF Heartbeat, TickFails, Shutdown
<1>6. CASE Api
  <2>1. UNCHANGED <<pairRows, worker>>
    BY <1>0, <1>6, ApiMoves DEF WInv
  <2> QED
    BY <1>0, <1>2, <2>1 DEF worker
<1>7. CASE Boot \/ RecoveryRead \/ (\E j \in Pids : Exit(j)) \/ UNCHANGED vars
  <2>1. UNCHANGED pairRows /\ pc' \in {pc, "boot", "recovering"}
    <3>1. CASE Boot \/ RecoveryRead
      BY <3>1 DEF Boot, RecoveryRead
    <3>2. CASE (\E j \in Pids : Exit(j)) \/ UNCHANGED vars
      BY <3>2 DEF Exit, vars, worker
    <3> QED
      BY <1>7, <3>1, <3>2
  <2> QED
    BY <1>0, <1>2, <2>1
<1>8. CASE Recover
  BY <1>8, RecoveryLeaves
<1>9. CASE Crash
  BY <1>0, <1>9, CrashKills
<1> QED
  BY <1>4, <1>5, <1>6, <1>7, <1>8, <1>9 DEF Next, Recovery, Fault

\* Only a shutdown lets go of a group that is alive.
LEMMA LettingGo ==
    ASSUME ~SurviveCrash, SInv, [Next]_vars, NEW k \in Pids, k = active, active' # k,
           Running(k)'
    PROVE  Shutdown
<1>0. WInv /\ IInv /\ active # 0
  BY PidAssumption DEF SInv, WInv
<1>1. ASSUME NEW t \in Tournaments, NEW p \in Pairs,
             \/ ReadPausing \/ ReadNext \/ ApplyPausing(t) \/ ApplyFlags(t)
             \/ LaunchCommit(t) \/ LaunchFails(t, p) \/ FinishSprt(p) \/ Finalize(p)
      PROVE  FALSE
  BY <1>1 DEF ReadPausing, ReadNext, ApplyPausing, ApplyFlags, LaunchCommit, LaunchFails,
     FinishSprt, Finalize
<1>2. ASSUME NEW t \in Tournaments, NEW p \in Pairs, Launch(t, p) PROVE FALSE
  BY <1>0, <1>2 DEF Launch, MayLaunch, IInv, TypeInv, Handle
<1>3. ASSUME NEW p \in Pairs, ForceKill(p) PROVE FALSE
  BY <1>0, <1>3, TerminationKills DEF ForceKill
<1>4. ASSUME NEW p \in Pairs, PollExit(p) PROVE FALSE
  BY <1>4 DEF PollExit, Running
<1>5. ASSUME NEW p \in Pairs,
             \/ FinishFailed(p) \/ FinishPair(p) \/ SprtArtifacts(p) \/ FinishCancelled(p)
             \/ FinalizeCommit(p)
      PROVE  FALSE
  <2>1. proc' = proc /\ pc \in {"finish", "finalizing", "artifacts"}
    BY <1>5 DEF FinishFailed, FinishPair, SprtArtifacts, FinishCancelled, FinalizeCommit,
       FinishLast, Finishes
  <2> QED
    BY <1>0, <2>1, SeenExit DEF Running
<1>6. CASE Tick \/ LaunchError
  BY <1>1, <1>2, <1>3, <1>4, <1>5, <1>6, MatchAssumption DEF Tick, LaunchError
<1>7. CASE Api
  BY <1>0, <1>7, ApiMoves DEF worker
<1>8. CASE Heartbeat \/ Boot \/ RecoveryRead \/ Recover \/ TickFails \/ (\E j \in Pids : Exit(j))
           \/ UNCHANGED vars
  BY <1>8 DEF Heartbeat, Boot, RecoveryRead, Recover, TickFails, Exit, vars, worker
<1>9. CASE Crash
  BY <1>0, <1>9, CrashKills
<1> QED
  BY <1>6, <1>7, <1>8, <1>9 DEF Next, Recovery, Fault

LEMMA GroupsStep ==
    ASSUME ~SurviveCrash, SInv, [Next]_vars
    PROVE  Groups'
<1>1. ASSUME NEW k \in Pids, Running(k)', k # active' PROVE Left(k)' \/ LeftBehind(k)'
  <2>1. WInv /\ Fresh
    BY DEF SInv
  <2>2. Running(k) /\ proc'[k] = proc[k]
    BY <1>1, <2>1, RunningBefore
  <2>3. CASE Left(k)
    BY <2>1, <2>2, <2>3, LeftStays
  <2>4. CASE LeftBehind(k)
    BY <1>1, <2>2, <2>4, LeftBehindStays
  <2>5. CASE k = active
    <3>1. Shutdown
      BY <1>1, <2>5, LettingGo
    <3> QED
      BY <1>1, <2>5, <3>1, ShutdownLeaves
  <2> QED
    BY <2>2, <2>3, <2>4, <2>5 DEF SInv, Groups
<1> QED
  BY <1>1, AttemptOfActive DEF Groups

\* A group that outlives SIGKILL is not taken for the next attempt of its pair:
\* when the worker's death takes its groups along, recovery leaves every group
\* that it did not see die to an attempt that is over.
THEOREM SurvivorsStale ==
    ASSUME ~SurviveCrash
    PROVE  Spec => []SurvivorsAreStale
<1>1. Init => Groups
  BY DEF Init, Groups, Running
<1>2. WInv /\ Fresh /\ Groups /\ [Next]_vars => Groups'
  BY GroupsStep DEF SInv
<1>3. WInv /\ Fresh /\ Groups => SurvivorsAreStale
  BY DEF Groups, Left, LeftBehind, Out, SurvivorsAreStale
<1> QED
  BY FreshHolds, <1>1, <1>2, <1>3, PTL DEF Spec
=============================================================================
