---------------------------- MODULE ArenaProofs ----------------------------
(***************************************************************************)
(* Theorems about Arena, for any finite number of matches and pairs, any   *)
(* Wald decisions, any number of processes and faults, survivors or not.   *)
(***************************************************************************)
EXTENDS Arena, FiniteSetTheorems, TLAPS

USE MatchAssumption

\* The pairs of a match are finitely many, so the counts are numbers.
LEMMA PairsFinite ==
    \A t \in Tournaments :
        /\ IsFiniteSet(PairsOf(t)) /\ Requested(t) \in Nat
        /\ IsFiniteSet(Scored(t)) /\ Cardinality(Scored(t)) \in Nat
        /\ IsFiniteSet(NewlyScored(t)) /\ Cardinality(NewlyScored(t)) \in Nat
<1> TAKE t \in Tournaments
<1>1. IsFiniteSet(PairsOf(t))
  BY FS_Subset DEF PairsOf
<1>2. IsFiniteSet(Scored(t)) /\ IsFiniteSet(NewlyScored(t))
  BY <1>1, FS_Subset DEF Scored, NewlyScored
<1> QED
  BY <1>1, <1>2, FS_CardinalityType DEF Requested

\* The process handle: none before the scheduler loop, one from Popen to
\* _clear_active.
Handle ==
    /\ pc \in {"down", "boot", "recovering", "pausing", "scan", "selected"} => active = 0
    /\ pc \in {"launched", "finish", "finalizing", "artifacts"} => active \in Pids

TypeInv == TypeOK /\ Handle

\* What the worker knows of the pair it supervises.  Until the commit of a
\* launch the pair is still to be played; from the commit of the exit code to
\* the scoring it is RUNNING with exactly that evidence; a pair that was scored
\* while it is still supervised had a process that ended with code 0; and a
\* match whose SPRT artifacts are written has the SPRT verdict.
Supervised ==
    /\ active # 0 => proc[active].st # "unused"
    /\ pc = "launched" => pairSt[proc[active].pair] \in {"PENDING", "INTERRUPTED"}
    /\ pc \in {"finish", "finalizing"} =>
          LET p == proc[active].pair IN
          /\ proc[active].st = "exited"
          /\ pairSt[p] = "RUNNING"
          /\ exitEv[p] = [rc |-> proc[active].rc, attempt |-> attempt[p]]
    /\ pc = "finalizing" => proc[active].rc = 0
    /\ pc = "artifacts" => status[Match[proc[active].pair]] \in SprtTerminal
    /\ active # 0 /\ pairSt[proc[active].pair] = "COMPLETED" =>
          proc[active].st = "exited" /\ proc[active].rc = 0

\* The write lock is held while the artifacts of the last pair are written.
LockHeld ==
    pc = "finalizing" =>
        ~cancelReq[Match[proc[active].pair]] /\ ~forceReq[Match[proc[active].pair]]

IInv == TypeInv /\ Supervised /\ LockHeld
        /\ CompletedHasNoCancel /\ TallyMatchesPairs /\ ScoredOnEvidence

-----------------------------------------------------------------------------
(* Types.                                                                  *)

LEMMA InitType == Init => TypeInv
<1> SUFFICES ASSUME Init PROVE TypeInv
  OBVIOUS
<1>1. Pairs # {} /\ (CHOOSE p \in Pairs : TRUE) \in Pairs
  OBVIOUS
<1>2. proc \in [Pids -> ProcState]
  BY <1>1 DEF Init, ProcState
<1> QED
  BY <1>2 DEF Init, TypeInv, TypeOK, Handle, Status, PairStatus, ExitEvidence, NoExit, Pgn,
     WorkerPc, Row, NoSnap, NoRow, Ended, ResultTerminal

\* What an endpoint leaves alone, and the statuses it leaves behind.
LEMMA ApiStep ==
    ASSUME Api
    PROVE  \E t \in Tournaments :
             /\ UNCHANGED <<completed, pairRows, ident, files, proc, worker, faults>>
             /\ ~WriteLocked
             /\ status[t] \in {"DRAFT", "QUEUED", "RUNNING", "PAUSING", "PAUSED"}
             /\ \/ status' = status
                \/ \E s \in {"QUEUED", "PAUSING", "CANCELLED"} :
                      status' = [status EXCEPT ![t] = s]
             /\ \/ pauseReq' = pauseReq
                \/ \E b \in BOOLEAN : pauseReq' = [pauseReq EXCEPT ![t] = b]
             /\ cancelReq' = cancelReq \/ cancelReq' = [cancelReq EXCEPT ![t] = TRUE]
             /\ forceReq' = forceReq \/ forceReq' = [forceReq EXCEPT ![t] = TRUE]
<1>1. PICK t \in Tournaments :
        Start(t) \/ Pause(t) \/ Resume(t) \/ CancelNow(t) \/ CancelLater(t) \/ ForceCancel(t)
  BY DEF Api
<1>2. CASE Start(t) \/ CancelLater(t)
  BY <1>2 DEF Start, CancelLater, ConditionalUpdate
<1>3. CASE Pause(t) \/ Resume(t)
  BY <1>3 DEF Pause, Resume, ConditionalUpdate
<1>4. CASE CancelNow(t) \/ ForceCancel(t)
  BY <1>4 DEF CancelNow, ForceCancel, ConditionalUpdate
<1> QED
  BY <1>1, <1>2, <1>3, <1>4

LEMMA ApiType == TypeInv /\ Api => TypeInv'
<1> SUFFICES ASSUME TypeInv, Api PROVE TypeInv'
  OBVIOUS
<1>1. /\ UNCHANGED <<completed, pairRows, ident, files, proc, worker, faults>>
      /\ status' \in [Tournaments -> Status] /\ pauseReq' \in [Tournaments -> BOOLEAN]
      /\ cancelReq' \in [Tournaments -> BOOLEAN] /\ forceReq' \in [Tournaments -> BOOLEAN]
  <2>1. PICK t \in Tournaments :
          /\ UNCHANGED <<completed, pairRows, ident, files, proc, worker, faults>>
          /\ \/ status' = status
             \/ \E s \in {"QUEUED", "PAUSING", "CANCELLED"} : status' = [status EXCEPT ![t] = s]
          /\ \/ pauseReq' = pauseReq
             \/ \E b \in BOOLEAN : pauseReq' = [pauseReq EXCEPT ![t] = b]
          /\ cancelReq' = cancelReq \/ cancelReq' = [cancelReq EXCEPT ![t] = TRUE]
          /\ forceReq' = forceReq \/ forceReq' = [forceReq EXCEPT ![t] = TRUE]
    BY ApiStep
  <2>2. {"QUEUED", "PAUSING", "CANCELLED"} \subseteq Status
    BY DEF Status, Ended
  <2>3. status' \in [Tournaments -> Status]
    BY <2>1, <2>2 DEF TypeInv, TypeOK
  <2>4. pauseReq' \in [Tournaments -> BOOLEAN]
    BY <2>1 DEF TypeInv, TypeOK
  <2>5. cancelReq' \in [Tournaments -> BOOLEAN] /\ forceReq' \in [Tournaments -> BOOLEAN]
    BY <2>1 DEF TypeInv, TypeOK
  <2> QED
    BY <2>1, <2>3, <2>4, <2>5
<1> QED
  BY <1>1 DEF TypeInv, TypeOK, Handle, pairRows, files, worker

\* The rows a worker remembers are rows.
LEMMA RowType ==
    /\ NoRow \in Row /\ NoSnap \in [Tournaments -> Row]
    /\ TypeOK => \A t \in Tournaments : RowOf(t) \in Row /\
                     [NoSnap EXCEPT ![t] = RowOf(t)] \in [Tournaments -> Row]
<1>1. NoRow \in Row /\ NoSnap \in [Tournaments -> Row]
  BY DEF NoRow, NoSnap, Row
<1>2. ASSUME TypeOK, NEW t \in Tournaments PROVE RowOf(t) \in Row
  BY <1>2 DEF TypeOK, RowOf, Row
<1> QED
  BY <1>1, <1>2

\* The reads of a tick and the decisions taken on what was read.
LEMMA ReadType ==
    ASSUME TypeInv,
           ReadPausing \/ ReadNext \/ \E t \in Tournaments : ApplyPausing(t) \/ ApplyFlags(t)
    PROVE  TypeInv'
<1> USE RowType DEF TypeInv
<1>1. CASE ReadPausing
  BY <1>1 DEF ReadPausing, Load, GoTo, TypeOK, Handle, WorkerPc, rows, pairRows, files
<1>2. CASE ReadNext
  BY <1>2 DEF ReadNext, Load, GoTo, TypeOK, Handle, WorkerPc, rows, pairRows, files
<1>3. ASSUME NEW t \in Tournaments, ApplyPausing(t) \/ ApplyFlags(t) PROVE TypeInv'
  <2>1. /\ pc' = "idle" /\ snap' = NoSnap
        /\ UNCHANGED <<completed, pairRows, ident, files, proc, active, faults>>
    BY <1>3 DEF ApplyPausing, ApplyFlags, GoTo
  <2>2. "CANCELLED" \in Status /\ "PAUSED" \in Status
    BY DEF Status, Ended
  <2>3. status' \in [Tournaments -> Status]
    BY <1>3, <2>2 DEF ApplyPausing, ApplyFlags, TypeOK
  <2>4. /\ pauseReq' \in [Tournaments -> BOOLEAN] /\ cancelReq' \in [Tournaments -> BOOLEAN]
        /\ forceReq' \in [Tournaments -> BOOLEAN]
    <3>1. CASE ApplyPausing(t)
      BY <3>1 DEF ApplyPausing, TypeOK
    <3>2. CASE ApplyFlags(t)
      <4>1. /\ pauseReq' = pauseReq \/ pauseReq' = [pauseReq EXCEPT ![t] = FALSE]
            /\ cancelReq' = cancelReq \/ cancelReq' = [cancelReq EXCEPT ![t] = TRUE]
            /\ forceReq' = forceReq \/ forceReq' = [forceReq EXCEPT ![t] = FALSE]
        BY <3>2 DEF ApplyFlags
      <4> QED
        BY <4>1 DEF TypeOK
    <3> QED
      BY <1>3, <3>1, <3>2
  <2>5. TypeOK'
    BY <2>1, <2>3, <2>4 DEF TypeOK, WorkerPc, pairRows, files
  <2> QED
    BY <2>1, <2>5 DEF Handle
<1> QED
  BY <1>1, <1>2, <1>3

LEMMA StartOverType ==
    ASSUME TypeOK, NEW S, StartOver(S)
    PROVE  attempt' \in [Pairs -> Nat] /\ pgn' \in [Pairs -> Pgn]
BY DEF TypeOK, StartOver, Pgn

LEMMA LaunchType ==
    ASSUME TypeInv, NEW t \in Tournaments, NEW p \in Pairs,
           Launch(t, p) \/ LaunchCommit(t) \/ LaunchFails(t, p)
    PROVE  TypeInv'
<1> USE RowType DEF TypeInv
<1>1. CASE Launch(t, p)
  <2>1. PICK k \in Pids :
            /\ proc' = [proc EXCEPT ![k] =
                  [st |-> "running", pair |-> p, rc |-> 0,
                   attempt |-> attempt[p] + (IF p \in Interrupted(t) THEN 1 ELSE 0)]]
            /\ active' = k
    BY <1>1 DEF Launch
  <2>2. proc' \in [Pids -> ProcState]
    <3>1. attempt[p] + (IF p \in Interrupted(t) THEN 1 ELSE 0) \in Nat
      BY DEF TypeOK
    <3> QED
      BY <2>1, <3>1 DEF TypeOK, ProcState
  <2> QED
    BY <1>1, <2>1, <2>2 DEF Launch, TypeOK, Handle, WorkerPc, rows, pairRows, files
<1>2. CASE LaunchCommit(t)
  <2>1. StartOver(Interrupted(t))
    BY <1>2 DEF LaunchCommit
  <2>2. attempt' \in [Pairs -> Nat] /\ pgn' \in [Pairs -> Pgn]
    BY <2>1, StartOverType
  <2>3. pairSt' \in [Pairs -> PairStatus] /\ exitEv' \in [Pairs -> ExitEvidence]
    BY <1>2 DEF LaunchCommit, TypeOK, PairStatus, ExitEvidence, NoExit
  <2> QED
    BY <1>2, <2>2, <2>3 DEF LaunchCommit, GoTo, TypeOK, Handle, WorkerPc, Status
<1>3. CASE LaunchFails(t, p)
  <2>1. StartOver(Interrupted(t))
    BY <1>3 DEF LaunchFails
  <2>2. attempt' \in [Pairs -> Nat] /\ pgn' \in [Pairs -> Pgn]
    BY <2>1, StartOverType
  <2>3. pairSt' \in [Pairs -> PairStatus] /\ exitEv' \in [Pairs -> ExitEvidence]
    BY <1>3 DEF LaunchFails, TypeOK, PairStatus, ExitEvidence, NoExit
  <2> QED
    BY <1>3, <2>2, <2>3 DEF LaunchFails, MayLaunch, GoTo, TypeOK, Handle, WorkerPc, Status, Ended
<1> QED
  BY <1>1, <1>2, <1>3

LEMMA GoneType ==
    ASSUME NEW group \in ProcState, NEW code \in {0, 1}
    PROVE  /\ Gone(group, code) \in ProcState
           /\ Gone(group, code).pair = group.pair /\ Gone(group, code).st = "exited"
           /\ Gone(group, code).attempt = group.attempt
BY DEF Gone, ProcState

LEMMA TerminationType ==
    ASSUME TypeOK, NEW k \in Pids, NEW gone
    PROVE  AfterTermination(k, gone) \in [Pids -> ProcState]
<1>1. proc[k] \in ProcState /\ Gone(proc[k], 1) \in ProcState
  BY GoneType DEF TypeOK
<1> QED
  BY <1>1 DEF TypeOK, AfterTermination

LEMMA ScorePairType ==
    ASSUME TypeOK, NEW p \in Pairs, ScorePair(p)
    PROVE  /\ pairSt' \in [Pairs -> PairStatus] /\ games' \in [Pairs -> Nat]
           /\ completed' \in [Tournaments -> Nat]
           /\ UNCHANGED <<attempt, exitEv>>
<1>1. pairSt' \in [Pairs -> PairStatus] /\ UNCHANGED <<attempt, exitEv>>
  BY DEF TypeOK, ScorePair, PairStatus
<1>2. games' \in [Pairs -> Nat]
  <2>1. games \in [Pairs -> Nat] /\ games' = [games EXCEPT ![p] = @ + 2]
    BY DEF TypeOK, ScorePair
  <2> QED
    BY <2>1
<1>3. completed' \in [Tournaments -> Nat]
  <2>1. PICK t \in Tournaments : completed' = [completed EXCEPT ![t] = @ + 1]
    BY DEF ScorePair
  <2>2. completed \in [Tournaments -> Nat]
    BY DEF TypeOK
  <2> QED
    BY <2>1, <2>2
<1> QED
  BY <1>1, <1>2, <1>3

\* The Wald test is asked about one pair more than were scored, which is never
\* more than the match has: the pair just played is not among the scored ones.
LEMMA VerdictType ==
    ASSUME IInv, NEW p \in Pairs, pc = "finish", p = proc[active].pair,
           SprtStatus(Match[p], completed[Match[p]] + 1) # "CONTINUE"
    PROVE  SprtStatus(Match[p], completed[Match[p]] + 1) \in SprtTerminal
<1> DEFINE t == Match[p]
           n == completed[t] + 1
<1>1. t \in Tournaments /\ completed[t] = Cardinality(Scored(t)) /\ pairSt[p] # "COMPLETED"
  BY DEF IInv, Supervised, TallyMatchesPairs
<1>2. Scored(t) \subseteq Pairs \ {p}
  BY <1>1 DEF Scored, PairsOf
<1>3. IsFiniteSet(Pairs \ {p}) /\ Cardinality(Pairs \ {p}) = Cardinality(Pairs) - 1
  BY FS_RemoveElement
<1>4. Cardinality(Scored(t)) <= Cardinality(Pairs) - 1
  BY <1>2, <1>3, FS_Subset
<1>5. Cardinality(Pairs) \in Nat /\ Cardinality(Scored(t)) \in Nat
  BY <1>1, PairsFinite, FS_CardinalityType
<1>6. n \in 1 .. Cardinality(Pairs)
  BY <1>1, <1>4, <1>5
<1>7. CASE t \in Sprt
  <2>1. WaldDecision[<<t, n>>] \in {"CONTINUE", "SPRT_ACCEPT_H1", "SPRT_ACCEPT_H0"}
    <3>1. <<t, n>> \in Sprt \X (1 .. Cardinality(Pairs))
      BY <1>6, <1>7
    <3> QED
      BY <3>1, SprtAssumption
  <2>2. SprtStatus(t, n) \in {WaldDecision[<<t, n>>], "SPRT_MAX_PAIRS", "CONTINUE"}
    BY <1>7 DEF SprtStatus
  <2> QED
    BY <2>1, <2>2 DEF SprtTerminal
<1>8. CASE t \notin Sprt
  <2>1. SprtStatus(t, n) = "CONTINUE"
    BY <1>8 DEF SprtStatus
  <2> QED
    BY <2>1
<1> QED
  BY <1>7, <1>8

\* The polls of a supervised process and the end of a pair.
LEMMA PollType ==
    ASSUME IInv, NEW p \in Pairs,
           ForceKill(p) \/ PollExit(p) \/ FinishFailed(p) \/ FinishPair(p)
    PROVE  TypeInv'
<1> USE DEF IInv, TypeInv
<1>0. Match[p] \in Tournaments /\ "CANCELLED" \in Status /\ "FAILED" \in Status
  BY DEF Status, Ended
<1>1. CASE ForceKill(p)
  <2>1. /\ active \in Pids /\ active' = 0 /\ pc' = "idle"
        /\ proc' = AfterTermination(active, TRUE)
        /\ UNCHANGED <<pauseReq, completed, attempt, exitEv, games, ident, files, snap, faults>>
    BY <1>1 DEF ForceKill, Polls, TypeOK
  <2>2. proc' \in [Pids -> ProcState]
    BY <2>1, TerminationType
  <2>3. /\ status' \in [Tournaments -> Status] /\ cancelReq' \in [Tournaments -> BOOLEAN]
        /\ forceReq' \in [Tournaments -> BOOLEAN] /\ pairSt' \in [Pairs -> PairStatus]
    <3>1. /\ status' = [status EXCEPT ![Match[p]] = "CANCELLED"]
          /\ cancelReq' = [cancelReq EXCEPT ![Match[p]] = TRUE]
          /\ forceReq' = [forceReq EXCEPT ![Match[p]] = FALSE]
          /\ pairSt' = pairSt \/ pairSt' = [pairSt EXCEPT ![p] = "INTERRUPTED"]
      BY <1>1 DEF ForceKill
    <3> QED
      BY <1>0, <3>1 DEF TypeOK, PairStatus
  <2> QED
    BY <2>1, <2>2, <2>3 DEF TypeOK, Handle, WorkerPc, files
<1>2. CASE PollExit(p)
  <2>1. /\ UNCHANGED <<rows, pairSt, attempt, games, ident, files, proc, snap, faults>>
        /\ active \in Pids
        /\ (pc' = "finish" /\ active' = active) \/ (active' = 0 /\ pc' = "idle")
    BY <1>2 DEF PollExit, Polls, TypeOK
  <2>2. proc[active].rc \in {0, 1} /\ attempt[p] \in Nat
    BY <2>1 DEF TypeOK, ProcState
  <2>3. exitEv' \in [Pairs -> ExitEvidence]
    BY <1>2, <2>2 DEF PollExit, TypeOK, ExitEvidence
  <2> QED
    BY <2>1, <2>3 DEF TypeOK, Handle, WorkerPc, rows, files
<1>3. CASE FinishFailed(p)
  <2>1. /\ pc' = "idle" /\ active' = 0
        /\ UNCHANGED <<pauseReq, cancelReq, forceReq, completed, attempt, exitEv, games,
                       ident, files, proc, snap, faults>>
    BY <1>3 DEF FinishFailed
  <2>2. status' \in [Tournaments -> Status] /\ pairSt' \in [Pairs -> PairStatus]
    BY <1>0, <1>3 DEF FinishFailed, TypeOK, PairStatus
  <2> QED
    BY <2>1, <2>2 DEF TypeOK, Handle, WorkerPc, files
<1>4. CASE FinishPair(p)
  <2>1. /\ pc' = "idle" /\ active' = 0 /\ ScorePair(p)
        /\ UNCHANGED <<status, pauseReq, cancelReq, forceReq, ident, files, proc, snap, faults>>
    BY <1>4 DEF FinishPair
  <2> QED
    BY <2>1, ScorePairType DEF TypeOK, Handle, WorkerPc, files
<1> QED
  BY <1>1, <1>2, <1>3, <1>4

\* The ends of a match.
LEMMA EndType ==
    ASSUME IInv, NEW p \in Pairs,
           FinishSprt(p) \/ SprtArtifacts(p) \/ FinishCancelled(p) \/ Finalize(p)
           \/ FinalizeCommit(p)
    PROVE  TypeInv'
<1> USE DEF IInv, TypeInv
<1>0. /\ Match[p] \in Tournaments /\ {"CANCELLED", "COMPLETED"} \subseteq Status
      /\ SprtTerminal \subseteq Status /\ SprtTerminal \subseteq ResultTerminal
      /\ "COMPLETED" \in ResultTerminal
  BY DEF Status, Ended, ResultTerminal
<1>1. CASE FinishSprt(p)
  <2>1. /\ pc = "finish" /\ pc' = "artifacts" /\ active' = active /\ active \in Pids
        /\ ScorePair(p) /\ p = proc[active].pair
        /\ UNCHANGED <<pauseReq, cancelReq, forceReq, ident, files, proc, active, snap, faults>>
    BY <1>1 DEF FinishSprt, Finishes, Handle
  <2> DEFINE verdict == SprtStatus(Match[p], completed[Match[p]] + 1)
  <2>2. verdict # "CONTINUE" /\ status' = [status EXCEPT ![Match[p]] = verdict]
    BY <1>1 DEF FinishSprt
  <2>3. verdict \in Status
    BY <1>0, <2>1, <2>2, VerdictType
  <2>4. status' \in [Tournaments -> Status]
    BY <1>0, <2>2, <2>3 DEF TypeOK
  <2> QED
    BY <2>1, <2>4, ScorePairType DEF TypeOK, Handle, WorkerPc, files
<1>2. CASE SprtArtifacts(p)
  <2>1. /\ pc' = "idle" /\ active' = 0 /\ status[Match[p]] \in SprtTerminal
        /\ summary' = [summary EXCEPT ![Match[p]] = status[Match[p]]]
        /\ UNCHANGED <<rows, pairRows, ident, pgn, proc, snap, faults>>
    BY <1>2 DEF SprtArtifacts, Supervised
  <2>2. summary' \in [Tournaments -> ResultTerminal \cup {"none"}]
    BY <1>0, <2>1 DEF TypeOK
  <2> QED
    BY <2>1, <2>2 DEF TypeOK, Handle, WorkerPc, rows, pairRows
<1>3. CASE FinishCancelled(p)
  <2>1. /\ pc' = "idle" /\ active' = 0 /\ ScorePair(p)
        /\ status' = [status EXCEPT ![Match[p]] = "CANCELLED"]
        /\ cancelReq' = [cancelReq EXCEPT ![Match[p]] = TRUE]
        /\ pauseReq' = [pauseReq EXCEPT ![Match[p]] = FALSE]
        /\ forceReq' = [forceReq EXCEPT ![Match[p]] = FALSE]
        /\ UNCHANGED <<ident, files, proc, snap, faults>>
    BY <1>3 DEF FinishCancelled
  <2>2. /\ status' \in [Tournaments -> Status] /\ cancelReq' \in [Tournaments -> BOOLEAN]
        /\ pauseReq' \in [Tournaments -> BOOLEAN] /\ forceReq' \in [Tournaments -> BOOLEAN]
    BY <1>0, <2>1 DEF TypeOK
  <2> QED
    BY <2>1, <2>2, ScorePairType DEF TypeOK, Handle, WorkerPc, files
<1>4. CASE Finalize(p)
  <2>1. /\ pc = "finish" /\ pc' = "finalizing" /\ active' = active
        /\ summary' = [summary EXCEPT ![Match[p]] = "COMPLETED"]
        /\ UNCHANGED <<rows, pairRows, ident, pgn, proc, snap, faults>>
    BY <1>4 DEF Finalize, FinishLast, Finishes
  <2>2. summary' \in [Tournaments -> ResultTerminal \cup {"none"}]
    BY <1>0, <2>1 DEF TypeOK
  <2> QED
    BY <2>1, <2>2 DEF TypeOK, Handle, WorkerPc, rows, pairRows
<1>5. CASE FinalizeCommit(p)
  <2>1. /\ pc' = "idle" /\ active' = 0 /\ ScorePair(p)
        /\ status' = [status EXCEPT ![Match[p]] = "COMPLETED"]
        /\ pauseReq' = [pauseReq EXCEPT ![Match[p]] = FALSE]
        /\ UNCHANGED <<cancelReq, forceReq, ident, files, proc, snap, faults>>
    BY <1>5 DEF FinalizeCommit
  <2>2. status' \in [Tournaments -> Status] /\ pauseReq' \in [Tournaments -> BOOLEAN]
    BY <1>0, <2>1 DEF TypeOK
  <2> QED
    BY <2>1, <2>2, ScorePairType DEF TypeOK, Handle, WorkerPc, files
<1> QED
  BY <1>1, <1>2, <1>3, <1>4, <1>5

\* Heartbeats, restarts, faults and the end of a process.
LEMMA SystemType ==
    ASSUME TypeInv,
           Heartbeat \/ Boot \/ RecoveryRead \/ Fault \/ \E k \in Pids : Exit(k)
    PROVE  TypeInv'
<1> USE DEF TypeInv
<1>1. CASE Heartbeat
  BY <1>1 DEF Heartbeat, TypeOK, Handle, rows, pairRows, files, worker
<1>2. CASE Boot
  BY <1>2 DEF Boot, TypeOK, Handle, WorkerPc, rows, pairRows, files
<1>3. CASE RecoveryRead
  <2>1. snap' \in [Tournaments -> Row]
    <3>1. snap' = [t \in Tournaments |-> IF status[t] \in {"RUNNING", "PAUSING", "PAUSED"}
                                        THEN RowOf(t) ELSE NoRow]
      BY <1>3 DEF RecoveryRead
    <3> QED
      BY <3>1, RowType
  <2> QED
    BY <1>3, <2>1 DEF RecoveryRead, TypeOK, Handle, WorkerPc, rows, pairRows, files
<1>4. CASE Fault
  <2>1. CASE TickFails
    <3>1. /\ pc' = "idle" /\ snap' = NoSnap /\ faults' = faults + 1
          /\ UNCHANGED <<rows, pairRows, ident, files, proc, active>>
      BY <2>1 DEF TickFails, GoTo
    <3> QED
      BY <3>1, RowType DEF TypeOK, Handle, WorkerPc, rows, pairRows, files
  <2>2. CASE Shutdown
    <3>1. /\ pc' = "down" /\ active' = 0 /\ faults' = faults + 1
          /\ UNCHANGED <<rows, attempt, exitEv, games, ident, files, snap>>
      BY <2>2 DEF Shutdown
    <3>2. proc' \in [Pids -> ProcState] /\ pairSt' \in [Pairs -> PairStatus]
      <4>1. CASE active = 0
        BY <2>2, <4>1 DEF Shutdown, TypeOK
      <4>2. CASE active \in Pids /\ active # 0
        <5>1. PICK gone : /\ proc' = AfterTermination(active, gone)
                          /\ pairSt' = pairSt
                             \/ pairSt' = [pairSt EXCEPT ![proc[active].pair] = "INTERRUPTED"]
          BY <2>2, <4>2 DEF Shutdown
        <5> QED
          BY <4>2, <5>1, TerminationType DEF TypeOK, PairStatus
      <4> QED
        BY <4>1, <4>2 DEF TypeOK
    <3> QED
      BY <3>1, <3>2 DEF TypeOK, Handle, WorkerPc, rows, files
  <2>3. CASE Crash
    <3>1. /\ pc' = "down" /\ active' = 0 /\ snap' = NoSnap /\ faults' = faults + 1
          /\ UNCHANGED <<rows, pairRows, ident, files>>
      BY <2>3 DEF Crash
    <3>2. PICK alive : proc' = [k \in Pids |-> IF Running(k) /\ k \notin alive
                                  THEN Gone(proc[k], 1) ELSE proc[k]]
      BY <2>3 DEF Crash
    <3>3. \A k \in Pids : proc[k] \in ProcState /\ Gone(proc[k], 1) \in ProcState
      BY GoneType DEF TypeOK
    <3>4. proc' \in [Pids -> ProcState]
      BY <3>2, <3>3
    <3> QED
      BY <3>1, <3>4, RowType DEF TypeOK, Handle, WorkerPc, rows, pairRows, files
  <2> QED
    BY <1>4, <2>1, <2>2, <2>3 DEF Fault
<1>5. ASSUME NEW k \in Pids, Exit(k) PROVE TypeInv'
  <2>1. UNCHANGED <<rows, pairRows, ident, summary, worker, faults>>
    BY <1>5 DEF Exit
  <2>2. PICK code \in {0, 1}, played \in Pgn :
            /\ proc' = [proc EXCEPT ![k] = Gone(@, code)]
            /\ pgn' = IF proc[k].attempt = attempt[proc[k].pair]
                      THEN [pgn EXCEPT ![proc[k].pair] = Append2(@, played)] ELSE pgn
    BY <1>5 DEF Exit
  <2>3. proc' \in [Pids -> ProcState]
    <3>1. proc[k] \in ProcState
      BY DEF TypeOK
    <3>2. Gone(proc[k], code) \in ProcState
      BY <3>1, GoneType
    <3> QED
      BY <2>2, <3>2 DEF TypeOK
  <2>4. pgn' \in [Pairs -> Pgn]
    <3>1. pgn \in [Pairs -> Pgn]
      BY DEF TypeOK
    <3>2. \A old \in Pgn : Append2(old, played) \in Pgn
      BY <2>2 DEF Append2, Pgn
    <3> QED
      BY <2>2, <3>1, <3>2
  <2> QED
    BY <2>1, <2>3, <2>4 DEF TypeOK, Handle, rows, pairRows, worker
<1> QED
  BY <1>1, <1>2, <1>3, <1>4, <1>5

\* Recovery leaves a status of the table on every match.
LEMMA StatusAfterType ==
    ASSUME TypeOK, NEW t \in Tournaments
    PROVE  StatusAfter(t) \in Status
<1>1. status[t] \in Status /\ {"CANCELLED", "FAILED", "COMPLETED", "PAUSED", "QUEUED"} \subseteq Status
  BY DEF TypeOK, Status, Ended, ResultTerminal
<1>2. StatusAfter(t) \in {status[t], "CANCELLED", "FAILED", "COMPLETED", "PAUSED", "QUEUED"}
  <2>1. CASE ~Recovered(t)
    BY <2>1 DEF StatusAfter
  <2>2. CASE Forced(t)
    BY <2>2 DEF StatusAfter, Forced
  <2>3. CASE Recovered(t) /\ ~Forced(t)
    BY <2>3 DEF StatusAfter
  <2> QED
    BY <2>1, <2>2, <2>3
<1> QED
  BY <1>1, <1>2

LEMMA RecoverType ==
    ASSUME TypeInv, Recover
    PROVE  TypeInv'
<1> USE DEF TypeInv
<1>1. /\ pc = "recovering" /\ pc' = "idle" /\ snap' = [t \in Tournaments |-> NoRow]
      /\ UNCHANGED <<active, faults>>
  BY DEF Recover
<1>2. status' \in [Tournaments -> Status]
  <2>1. status' = [t \in Tournaments |-> StatusAfter(t)]
    BY DEF Recover
  <2> QED
    BY <2>1, StatusAfterType
<1>3. /\ pauseReq' \in [Tournaments -> BOOLEAN] /\ cancelReq' \in [Tournaments -> BOOLEAN]
      /\ forceReq' \in [Tournaments -> BOOLEAN]
  BY Zenon DEF Recover
<1>4. completed' \in [Tournaments -> Nat]
  <2>1. completed' = [t \in Tournaments |-> CompletedNow(t)] /\ completed \in [Tournaments -> Nat]
    BY DEF Recover, TypeOK
  <2>2. \A t \in Tournaments : CompletedNow(t) \in Nat
    BY <2>1, PairsFinite DEF CompletedNow
  <2> QED
    BY <2>1, <2>2
<1>5. pairSt' \in [Pairs -> PairStatus]
  <2>1. pairSt' = [p \in Pairs |->
          CASE Scores(p) -> "COMPLETED"
            [] Fails(p) -> "FAILED"
            [] p \in Rerun \cup Requeued -> "PENDING"
            [] p \in Orphaned /\ Forced(Match[p]) -> "INTERRUPTED"
            [] OTHER -> pairSt[p]]
    BY DEF Recover
  <2>2. pairSt \in [Pairs -> PairStatus]
    BY DEF TypeOK
  <2> QED
    BY <2>1, <2>2 DEF PairStatus
<1>6. attempt' \in [Pairs -> Nat] /\ pgn' \in [Pairs -> Pgn]
  <2>1. StartOver(Rerun \cup Requeued)
    BY DEF Recover
  <2> QED
    BY <2>1, StartOverType
<1>7. exitEv' \in [Pairs -> ExitEvidence] /\ games' \in [Pairs -> Nat]
  <2>1. /\ exitEv' = [p \in Pairs |-> IF p \in Rerun \cup Requeued THEN NoExit ELSE exitEv[p]]
        /\ games' = [p \in Pairs |-> IF Scores(p) /\ games[p] = 0 THEN 2 ELSE games[p]]
    BY DEF Recover
  <2>2. /\ exitEv \in [Pairs -> ExitEvidence] /\ games \in [Pairs -> Nat]
        /\ NoExit \in ExitEvidence
    BY DEF TypeOK, NoExit, ExitEvidence
  <2> QED
    BY <2>1, <2>2
<1>8. proc' \in [Pids -> ProcState] /\ ident' \in Pids \cup {0}
  <2>1. KillOrphan
    BY DEF Recover
  <2>2. CASE ident = 0 \/ proc[ident].pair \notin Orphaned
    BY <2>1, <2>2 DEF KillOrphan, TypeOK
  <2>3. CASE ident \in Pids /\ ident # 0 /\ proc[ident].pair \in Orphaned
    <3>1. PICK gone : /\ proc' = AfterTermination(ident, gone)
                      /\ ident' = IF gone THEN 0 ELSE ident
      BY <2>1, <2>3 DEF KillOrphan
    <3> QED
      BY <2>3, <3>1, TerminationType
  <2> QED
    BY <2>2, <2>3 DEF TypeOK
<1>9. summary' \in [Tournaments -> ResultTerminal \cup {"none"}]
  <2>1. summary' = [t \in Tournaments |->
            IF Decided(t) /\ ~FlaggedNow(t) THEN "COMPLETED" ELSE summary[t]]
    BY DEF Recover
  <2> QED
    BY <2>1 DEF TypeOK, ResultTerminal
<1>10. TypeOK'
  BY <1>1, <1>2, <1>3, <1>4, <1>5, <1>6, <1>7, <1>8, <1>9, RowType DEF TypeOK, WorkerPc
<1> QED
  BY <1>1, <1>10 DEF Handle

LEMMA TypeStep == IInv /\ [Next]_vars => TypeInv'
<1> SUFFICES ASSUME IInv, [Next]_vars PROVE TypeInv'
  OBVIOUS
<1>1. TypeInv
  BY DEF IInv
<1>2. CASE UNCHANGED vars
  BY <1>1, <1>2 DEF vars, TypeInv, TypeOK, Handle, rows, pairRows, files, worker
<1>3. CASE Tick \/ LaunchError
  BY <1>1, <1>3, ReadType, LaunchType, PollType, EndType DEF Tick, LaunchError
<1>4. CASE Api
  BY <1>1, <1>4, ApiType
<1>5. CASE Heartbeat \/ Boot \/ Recovery \/ Fault \/ \E k \in Pids : Exit(k)
  BY <1>1, <1>5, SystemType, RecoverType DEF Recovery
<1> QED
  BY <1>2, <1>3, <1>4, <1>5 DEF Next

-----------------------------------------------------------------------------
(* The supervised pair.                                                    *)

\* Most steps leave the worker without a process, or touch nothing of it.
Unsupervised == active = 0 /\ pc \notin {"launched", "finish", "finalizing", "artifacts"}

LEMMA UnsupervisedSteps ==
    ASSUME IInv, NEW t \in Tournaments, NEW p \in Pairs,
           \/ ReadPausing \/ ReadNext \/ ApplyPausing(t) \/ ApplyFlags(t) \/ LaunchFails(t, p)
           \/ ForceKill(p) \/ FinishFailed(p) \/ FinishPair(p) \/ SprtArtifacts(p)
           \/ FinishCancelled(p) \/ FinalizeCommit(p)
           \/ Shutdown \/ Crash \/ Boot \/ Recovery
    PROVE  Unsupervised'
<1> USE DEF Unsupervised
<1>0. Handle
  BY DEF IInv, TypeInv
<1>1. CASE ReadPausing \/ ReadNext
  BY <1>0, <1>1 DEF Handle, ReadPausing, ReadNext, Load, GoTo
<1>2. CASE ApplyPausing(t) \/ ApplyFlags(t) \/ LaunchFails(t, p)
  BY <1>0, <1>2 DEF Handle, ApplyPausing, ApplyFlags, LaunchFails, MayLaunch, GoTo
<1>3. CASE ForceKill(p) \/ FinishFailed(p) \/ FinishPair(p) \/ SprtArtifacts(p)
  BY <1>3 DEF ForceKill, Polls, FinishFailed, FinishPair, SprtArtifacts
<1>4. CASE FinishCancelled(p) \/ FinalizeCommit(p)
  BY <1>4 DEF FinishCancelled, FinalizeCommit
<1>5. CASE Shutdown \/ Crash \/ Boot
  <2>1. CASE Shutdown
    BY <2>1 DEF Shutdown
  <2>2. CASE Crash
    BY <2>2 DEF Crash
  <2>3. CASE Boot
    BY <1>0, <2>3 DEF Handle, Boot
  <2> QED
    BY <1>5, <2>1, <2>2, <2>3
<1>6. CASE Recovery
  BY <1>0, <1>6 DEF Handle, Recovery, RecoveryRead, Recover
<1> QED
  BY <1>1, <1>2, <1>3, <1>4, <1>5, <1>6

\* Operators cannot touch a match while its last pair is being finalised, nor
\* take back an SPRT verdict.
LEMMA ApiSupervised ==
    ASSUME IInv, Api
    PROVE  Supervised' /\ LockHeld'
<1>1. PICK t \in Tournaments :
        /\ UNCHANGED <<completed, pairRows, ident, files, proc, worker, faults>>
        /\ ~WriteLocked /\ status[t] \notin SprtTerminal
        /\ status' = status \/ \E s : status' = [status EXCEPT ![t] = s]
  BY ApiStep DEF SprtTerminal
<1>2. UNCHANGED <<pc, active, proc, pairSt, exitEv, attempt>>
  BY <1>1 DEF pairRows, worker
<1>3. LockHeld'
  BY <1>1, <1>2 DEF LockHeld, WriteLocked
<1>4. ASSUME pc = "artifacts" PROVE status'[Match[proc[active].pair]] \in SprtTerminal
  <2>1. status[Match[proc[active].pair]] \in SprtTerminal
    BY <1>4 DEF IInv, Supervised
  <2>2. Match[proc[active].pair] # t
    BY <1>1, <2>1
  <2>3. status \in [Tournaments -> Status] /\ Match[proc[active].pair] \in Tournaments
    <3>1. active \in Pids
      BY <1>4 DEF IInv, TypeInv, Handle
    <3> QED
      BY <3>1 DEF IInv, TypeInv, TypeOK, ProcState
  <2> QED
    BY <1>1, <2>1, <2>2, <2>3
<1> QED
  BY <1>2, <1>3, <1>4 DEF IInv, Supervised

\* A pair is launched, committed as RUNNING, polled and scored.
LEMMA SupervisedSteps ==
    ASSUME IInv, NEW t \in Tournaments, NEW p \in Pairs,
           Launch(t, p) \/ LaunchCommit(t) \/ PollExit(p) \/ FinishSprt(p) \/ Finalize(p)
    PROVE  Supervised' /\ LockHeld'
<1> USE DEF IInv, TypeInv
<1>0. proc \in [Pids -> ProcState] /\ active \in Pids \cup {0} /\ pairSt \in [Pairs -> PairStatus]
  BY DEF TypeOK
<1>1. CASE Launch(t, p)
  <2>1. PICK k \in Pids : active' = k /\
          proc' = [proc EXCEPT ![k] =
                [st |-> "running", pair |-> p, rc |-> 0,
                 attempt |-> attempt[p] + (IF p \in Interrupted(t) THEN 1 ELSE 0)]]
    BY <1>1 DEF Launch
  <2>2. proc'[active'].pair = p /\ proc'[active'].st = "running"
    BY <1>0, <2>1
  <2>3. pairSt[p] \in {"PENDING", "INTERRUPTED"} /\ pc' = "launched" /\ pairSt' = pairSt
    BY <1>1 DEF Launch, MayLaunch, IsFirst, Pending, pairRows
  <2> QED
    BY <2>2, <2>3 DEF Supervised, LockHeld
<1>2. CASE LaunchCommit(t)
  <2>1. /\ pc = "launched" /\ pc' = "idle" /\ UNCHANGED <<active, proc>> /\ active \in Pids
        /\ pairSt' = [q \in Pairs |-> CASE q = proc[active].pair -> "RUNNING"
                        [] q # proc[active].pair /\ q \in Interrupted(t) -> "PENDING"
                        [] OTHER -> pairSt[q]]
    BY <1>2 DEF LaunchCommit, GoTo, Handle
  <2>2. proc[active].pair \in Pairs
    BY <1>0, <2>1 DEF ProcState
  <2>3. pairSt'[proc[active].pair] = "RUNNING"
    BY <2>1, <2>2
  <2> QED
    BY <2>1, <2>3 DEF Supervised, LockHeld
<1>3. CASE PollExit(p)
  <2>1. /\ active \in Pids /\ p = proc[active].pair /\ proc[active].st = "exited"
        /\ UNCHANGED <<proc, pairSt, attempt>>
    BY <1>0, <1>3 DEF PollExit, Polls, Running, Supervised, ProcState
  <2>2. exitEv'[p] = [rc |-> proc[active].rc, attempt |-> attempt[p]]
    BY <1>3 DEF PollExit, TypeOK
  <2>3. CASE pairSt[p] = "RUNNING"
    <3>1. pc' = "finish" /\ active' = active
      BY <1>3, <2>3 DEF PollExit
    <3> QED
      BY <2>1, <2>2, <2>3, <3>1 DEF Supervised, LockHeld
  <2>4. CASE pairSt[p] # "RUNNING"
    <3>1. pc' = "idle" /\ active' = 0
      BY <1>3, <2>4 DEF PollExit, Polls
    <3> QED
      BY <3>1 DEF Supervised, LockHeld
  <2> QED
    BY <2>3, <2>4
<1>4. CASE FinishSprt(p)
  <2> DEFINE verdict == SprtStatus(Match[p], completed[Match[p]] + 1)
  <2>1. /\ pc = "finish" /\ pc' = "artifacts" /\ p = proc[active].pair /\ proc[active].rc = 0
        /\ UNCHANGED <<active, proc>> /\ status' = [status EXCEPT ![Match[p]] = verdict]
        /\ verdict # "CONTINUE"
    BY <1>4 DEF FinishSprt, Finishes, Scorable
  <2>2. verdict \in SprtTerminal
    BY <2>1, VerdictType
  <2>3. status'[Match[p]] = verdict
    BY <2>1 DEF TypeOK
  <2>4. proc[active].st = "exited"
    BY <2>1 DEF Supervised
  <2> QED
    BY <2>1, <2>2, <2>3, <2>4 DEF Supervised, LockHeld
<1>5. CASE Finalize(p)
  <2>1. /\ pc = "finish" /\ pc' = "finalizing" /\ p = proc[active].pair /\ proc[active].rc = 0
        /\ ~cancelReq[Match[p]] /\ ~forceReq[Match[p]]
        /\ UNCHANGED <<active, proc, cancelReq, forceReq, pairSt, exitEv, attempt>>
    BY <1>5 DEF Finalize, FinishLast, Finishes, Scorable, rows, pairRows
  <2> QED
    BY <2>1 DEF Supervised, LockHeld
<1> QED
  BY <1>1, <1>2, <1>3, <1>4, <1>5

\* A failed tick, a heartbeat and the end of some process.
LEMMA SystemSupervised ==
    ASSUME IInv, TickFails \/ Heartbeat \/ \E k \in Pids : Exit(k)
    PROVE  Supervised' /\ LockHeld'
<1>1. CASE TickFails
  BY <1>1 DEF TickFails, GoTo, IInv, Supervised, LockHeld, pairRows
<1>2. CASE Heartbeat
  BY <1>2 DEF Heartbeat, IInv, Supervised, LockHeld, rows, pairRows, worker
<1>3. ASSUME NEW k \in Pids, Exit(k) PROVE Supervised' /\ LockHeld'
  <2>1. /\ UNCHANGED <<status, cancelReq, forceReq, pairSt, attempt, exitEv, pc, active>>
        /\ proc[k].st = "running"
    BY <1>3 DEF Exit, Running, rows, pairRows, worker
  <2>2. PICK code \in {0, 1} : proc' = [proc EXCEPT ![k] = Gone(@, code)]
    BY <1>3 DEF Exit
  <2>3. proc \in [Pids -> ProcState] /\ active \in Pids \cup {0}
    BY DEF IInv, TypeInv, TypeOK
  <2>4. CASE active = k
    <3>1. proc'[active].pair = proc[active].pair /\ proc'[active].st = "exited"
      BY <2>2, <2>3, <2>4, GoneType
    <3>2. pc \notin {"finish", "finalizing"}
      BY <2>1, <2>4 DEF IInv, Supervised
    <3>3. active # 0 => pairSt[proc[active].pair] # "COMPLETED"
      BY <2>1, <2>4 DEF IInv, Supervised
    <3> QED
      BY <2>1, <3>1, <3>2, <3>3 DEF IInv, Supervised, LockHeld
  <2>5. CASE active # k
    <3>1. active # 0 => proc'[active] = proc[active]
      BY <2>2, <2>3, <2>5
    <3>2. pc \in {"launched", "finish", "finalizing", "artifacts"} => active # 0
      BY PidAssumption DEF IInv, TypeInv, Handle
    <3> QED
      BY <2>1, <3>1, <3>2 DEF IInv, Supervised, LockHeld
  <2> QED
    BY <2>4, <2>5
<1> QED
  BY <1>1, <1>2, <1>3

LEMMA SupervisedStep == IInv /\ [Next]_vars => Supervised' /\ LockHeld'
<1> SUFFICES ASSUME IInv, [Next]_vars PROVE Supervised' /\ LockHeld'
  OBVIOUS
<1>1. ASSUME Unsupervised' PROVE Supervised' /\ LockHeld'
  BY <1>1 DEF Unsupervised, Supervised, LockHeld
<1>2. CASE UNCHANGED vars
  BY <1>2 DEF vars, IInv, Supervised, LockHeld, rows, pairRows, files, worker
<1>3. CASE Tick
  BY <1>1, <1>3, UnsupervisedSteps, SupervisedSteps, MatchAssumption DEF Tick
<1>4. CASE LaunchError
  BY <1>1, <1>4, UnsupervisedSteps DEF LaunchError
<1>5. CASE Api
  BY <1>5, ApiSupervised
<1>6. CASE Heartbeat \/ \E k \in Pids : Exit(k)
  BY <1>6, SystemSupervised
<1>7. CASE Boot \/ Recovery \/ Fault
  BY <1>1, <1>7, UnsupervisedSteps, SystemSupervised, MatchAssumption DEF Fault
<1> QED
  BY <1>2, <1>3, <1>4, <1>5, <1>6, <1>7 DEF Next

-----------------------------------------------------------------------------
(* What a step does to the verified results: nothing, one pair scored by   *)
(* the scheduler, or a recovery.                                           *)

NoneScored ==
    /\ UNCHANGED <<completed, games>>
    /\ \A p \in Pairs :
          /\ pairSt[p] \in {"COMPLETED", "FAILED"} => pairSt'[p] = pairSt[p]
          /\ pairSt'[p] = "COMPLETED" =>
                pairSt[p] = "COMPLETED" /\ exitEv'[p] = exitEv[p] /\ attempt'[p] = attempt[p]

OneScored(p) ==
    /\ ScorePair(p)
    /\ pairSt[p] = "RUNNING" /\ exitEv[p] = [rc |-> 0, attempt |-> attempt[p]]

LEMMA SamePairRows ==
    UNCHANGED <<pairSt, attempt, exitEv, games, completed>> => NoneScored
BY DEF NoneScored

LEMMA LaunchScoresNone ==
    ASSUME IInv, NEW t \in Tournaments, NEW p \in Pairs, LaunchCommit(t) \/ LaunchFails(t, p)
    PROVE  NoneScored
<1>1. PICK r \in Pairs, s \in {"RUNNING", "FAILED"} :
        /\ pairSt[r] \in {"PENDING", "INTERRUPTED"}
        /\ pairSt' = [q \in Pairs |-> CASE q = r -> s
                        [] q # r /\ q \in Interrupted(t) -> "PENDING"
                        [] OTHER -> pairSt[q]]
        /\ exitEv' = [q \in Pairs |-> IF q = r \/ q \in Interrupted(t)
                                     THEN NoExit ELSE exitEv[q]]
        /\ StartOver(Interrupted(t))
        /\ UNCHANGED <<completed, games>>
  <2>1. CASE LaunchCommit(t)
    <3>1. active \in Pids /\ proc[active].pair \in Pairs
      <4>1. active \in Pids
        BY <2>1 DEF LaunchCommit, IInv, TypeInv, Handle
      <4> QED
        BY <4>1 DEF IInv, TypeInv, TypeOK, ProcState
    <3>2. pairSt[proc[active].pair] \in {"PENDING", "INTERRUPTED"}
      BY <2>1 DEF LaunchCommit, IInv, Supervised
    <3> QED
      BY <2>1, <3>1, <3>2 DEF LaunchCommit
  <2>2. CASE LaunchFails(t, p)
    <3>1. pairSt[p] \in {"PENDING", "INTERRUPTED"}
      BY <2>2 DEF LaunchFails, MayLaunch, IsFirst, Pending
    <3> QED
      BY <2>2, <3>1 DEF LaunchFails
  <2> QED
    BY <2>1, <2>2
<1>2. \A q \in Interrupted(t) : pairSt[q] = "INTERRUPTED"
  BY DEF Interrupted
<1>3. \A q \in Pairs : q \notin Interrupted(t) => attempt'[q] = attempt[q]
  BY <1>1 DEF StartOver
<1> QED
  BY <1>1, <1>2, <1>3 DEF NoneScored

\* A pair that was scored and is still supervised is polled once more; the
\* evidence written then is the evidence it was scored on.
LEMMA PollScoresNone ==
    ASSUME IInv, NEW p \in Pairs, ForceKill(p) \/ PollExit(p) \/ FinishFailed(p)
    PROVE  NoneScored
<1>0. pairSt \in [Pairs -> PairStatus] /\ exitEv \in [Pairs -> ExitEvidence]
  BY DEF IInv, TypeInv, TypeOK
<1>1. CASE ForceKill(p)
  <2>1. /\ UNCHANGED <<completed, games, attempt, exitEv>>
        /\ \/ pairSt' = pairSt
           \/ pairSt[p] = "RUNNING" /\ pairSt' = [pairSt EXCEPT ![p] = "INTERRUPTED"]
    BY <1>1 DEF ForceKill
  <2> QED
    BY <1>0, <2>1 DEF NoneScored
<1>2. CASE PollExit(p)
  <2>1. /\ UNCHANGED <<completed, games, attempt, pairSt>>
        /\ active # 0 /\ p = proc[active].pair
        /\ exitEv' = [exitEv EXCEPT ![p] = [rc |-> proc[active].rc, attempt |-> attempt[p]]]
    BY <1>2 DEF PollExit, Polls, rows
  <2>2. pairSt[p] = "COMPLETED" => exitEv[p] = [rc |-> proc[active].rc, attempt |-> attempt[p]]
    BY <2>1 DEF IInv, Supervised, ScoredOnEvidence
  <2>3. \A q \in Pairs : pairSt[q] = "COMPLETED" => exitEv'[q] = exitEv[q]
    BY <1>0, <2>1, <2>2
  <2> QED
    BY <2>1, <2>3 DEF NoneScored
<1>3. CASE FinishFailed(p)
  <2>1. /\ UNCHANGED <<completed, games, attempt, exitEv>>
        /\ pairSt' = [pairSt EXCEPT ![p] = "FAILED"]
        /\ pc = "finish" /\ p = proc[active].pair
    BY <1>3 DEF FinishFailed, Finishes
  <2>2. pairSt[p] = "RUNNING"
    BY <2>1 DEF IInv, Supervised
  <2> QED
    BY <1>0, <2>1, <2>2 DEF NoneScored
<1> QED
  BY <1>1, <1>2, <1>3

LEMMA FinishScoresOne ==
    ASSUME IInv, NEW p \in Pairs,
           FinishPair(p) \/ FinishSprt(p) \/ FinishCancelled(p) \/ FinalizeCommit(p)
    PROVE  OneScored(p)
<1>1. ScorePair(p) /\ p = proc[active].pair
  BY DEF FinishPair, FinishSprt, FinishCancelled, FinalizeCommit, FinishLast, Finishes
<1>2. pc \in {"finish", "finalizing"} /\ proc[active].rc = 0
  BY DEF FinishPair, FinishSprt, FinishCancelled, FinalizeCommit, FinishLast, Finishes, Scorable,
     IInv, Supervised
<1> QED
  BY <1>1, <1>2 DEF OneScored, IInv, Supervised

LEMMA FaultScoresNone ==
    ASSUME IInv, Fault
    PROVE  NoneScored
<1>1. CASE TickFails \/ Crash
  BY <1>1 DEF TickFails, Crash, rows, pairRows, NoneScored
<1>2. CASE Shutdown
  <2>1. /\ UNCHANGED <<completed, games, attempt, exitEv>>
        /\ \/ pairSt' = pairSt
           \/ /\ pairSt[proc[active].pair] = "RUNNING"
              /\ pairSt' = [pairSt EXCEPT ![proc[active].pair] = "INTERRUPTED"]
    BY <1>2 DEF Shutdown, rows
  <2>2. pairSt \in [Pairs -> PairStatus]
    BY DEF IInv, TypeInv, TypeOK
  <2> QED
    BY <2>1, <2>2 DEF NoneScored
<1> QED
  BY <1>1, <1>2 DEF Fault

LEMMA ResultSteps ==
    ASSUME IInv, [Next]_vars
    PROVE  NoneScored \/ (\E p \in Pairs : OneScored(p)) \/ Recover
<1>1. CASE UNCHANGED vars \/ Heartbeat \/ Boot \/ RecoveryRead \/ ReadPausing \/ ReadNext
  BY <1>1, SamePairRows DEF vars, Heartbeat, Boot, RecoveryRead, ReadPausing, ReadNext, rows, pairRows
<1>2. CASE Api
  BY <1>2, ApiStep, SamePairRows DEF pairRows
<1>3. ASSUME NEW k \in Pids, Exit(k) PROVE NoneScored
  BY <1>3, SamePairRows DEF Exit, rows, pairRows
<1>4. ASSUME NEW t \in Tournaments, NEW p \in Pairs,
             ApplyPausing(t) \/ ApplyFlags(t) \/ Launch(t, p) \/ SprtArtifacts(p) \/ Finalize(p)
      PROVE  NoneScored
  BY <1>4, SamePairRows DEF ApplyPausing, ApplyFlags, Launch, SprtArtifacts, Finalize, rows, pairRows
<1>5. CASE Tick
  BY <1>1, <1>4, <1>5, LaunchScoresNone, PollScoresNone, FinishScoresOne, MatchAssumption DEF Tick
<1>6. CASE LaunchError
  BY <1>6, LaunchScoresNone DEF LaunchError
<1> QED
  BY <1>1, <1>2, <1>3, <1>5, <1>6, FaultScoresNone DEF Next, Recovery

\* What recovery does to a pair that was already COMPLETED or FAILED: nothing;
\* and it scores only RUNNING pairs that carry the evidence for it.
LEMMA RecoverPairs ==
    ASSUME IInv, Recover
    PROVE  /\ \A p \in Pairs : Scores(p) =>
                /\ pairSt[p] = "RUNNING" /\ pairSt'[p] = "COMPLETED"
                /\ exitEv[p] = [rc |-> 0, attempt |-> attempt[p]]
                /\ exitEv'[p] = exitEv[p] /\ attempt'[p] = attempt[p]
           /\ \A p \in Pairs : pairSt[p] \in {"COMPLETED", "FAILED"} =>
                /\ ~Scores(p) /\ pairSt'[p] = pairSt[p]
                /\ exitEv'[p] = exitEv[p] /\ attempt'[p] = attempt[p]
           /\ \A p \in Pairs : pairSt'[p] = "COMPLETED" => Scores(p) \/ pairSt[p] = "COMPLETED"
<1>1. /\ pairSt' = [p \in Pairs |->
            CASE Scores(p) -> "COMPLETED"
              [] Fails(p) -> "FAILED"
              [] p \in Rerun \cup Requeued -> "PENDING"
              [] p \in Orphaned /\ Forced(Match[p]) -> "INTERRUPTED"
              [] OTHER -> pairSt[p]]
      /\ exitEv' = [p \in Pairs |-> IF p \in Rerun \cup Requeued THEN NoExit ELSE exitEv[p]]
      /\ StartOver(Rerun \cup Requeued)
  BY DEF Recover
<1>2. \A p \in Pairs : /\ Scores(p) => Kept(p) /\ ~Fails(p)
                       /\ Fails(p) => Kept(p)
                       /\ Kept(p) => p \in Orphaned /\ ~Forced(Match[p]) /\ p \notin Rerun
                       /\ p \in Rerun => p \in Orphaned
                       /\ p \in Orphaned => pairSt[p] = "RUNNING"
                       /\ p \in Requeued => pairSt[p] = "INTERRUPTED"
  BY DEF Scores, Fails, Kept, Judged, Rerun, Orphaned, Requeued
<1>3. \A p \in Pairs : p \notin Rerun \cup Requeued =>
          exitEv'[p] = exitEv[p] /\ attempt'[p] = attempt[p]
  BY <1>1 DEF StartOver
<1>4. ASSUME NEW p \in Pairs, Scores(p)
      PROVE  /\ pairSt[p] = "RUNNING" /\ pairSt'[p] = "COMPLETED"
             /\ exitEv[p] = [rc |-> 0, attempt |-> attempt[p]]
             /\ exitEv'[p] = exitEv[p] /\ attempt'[p] = attempt[p]
  <2>1. pairSt[p] = "RUNNING" /\ p \notin Rerun \cup Requeued
    <3>1. Kept(p)
      BY <1>2, <1>4
    <3>2. pairSt[p] = "RUNNING" /\ p \notin Rerun
      BY <1>2, <3>1
    <3> QED
      BY <1>2, <3>2
  <2>2. pairSt'[p] = "COMPLETED"
    <3>1. ~Fails(p) /\ ~(p \in Orphaned /\ Forced(Match[p]))
      BY <1>2, <1>4
    <3> QED
      BY <1>1, <1>4, <2>1, <3>1
  <2>3. exitEv[p] \in ExitEvidence /\ exitEv[p].rc = 0 /\ exitEv[p].attempt = attempt[p]
    BY <1>4 DEF Scores, Kept, HasEvidence, IInv, TypeInv, TypeOK
  <2>4. exitEv[p] = [rc |-> 0, attempt |-> attempt[p]]
    BY <2>3 DEF ExitEvidence
  <2> QED
    BY <1>3, <2>1, <2>2, <2>4
<1>5. ASSUME NEW p \in Pairs, pairSt[p] \in {"COMPLETED", "FAILED"}
      PROVE  /\ ~Scores(p) /\ pairSt'[p] = pairSt[p]
             /\ exitEv'[p] = exitEv[p] /\ attempt'[p] = attempt[p]
  <2>1. ~Scores(p) /\ ~Fails(p) /\ p \notin Rerun \cup Requeued /\ p \notin Orphaned
    BY <1>2, <1>5
  <2> QED
    BY <1>1, <1>3, <2>1
<1>6. ASSUME NEW p \in Pairs, pairSt'[p] = "COMPLETED", ~Scores(p) PROVE pairSt[p] = "COMPLETED"
  BY <1>1, <1>6
<1> QED
  BY <1>4, <1>5, <1>6

-----------------------------------------------------------------------------
(* The tally of the verified results.                                      *)

LEMMA TallyStep == IInv /\ [Next]_vars => TallyMatchesPairs'
<1> SUFFICES ASSUME IInv, [Next]_vars PROVE TallyMatchesPairs'
  OBVIOUS
<1>0. /\ pairSt \in [Pairs -> PairStatus] /\ games \in [Pairs -> Nat]
      /\ completed \in [Tournaments -> Nat] /\ TallyMatchesPairs
  BY DEF IInv, TypeInv, TypeOK
<1>1. CASE NoneScored
  <2>1. \A p \in Pairs : pairSt'[p] = "COMPLETED" <=> pairSt[p] = "COMPLETED"
    BY <1>1 DEF NoneScored
  <2>2. \A t \in Tournaments : Scored(t)' = Scored(t)
    BY <2>1 DEF Scored, PairsOf
  <2>3. UNCHANGED <<completed, games>>
    BY <1>1 DEF NoneScored
  <2> QED
    BY <1>0, <2>1, <2>2, <2>3 DEF TallyMatchesPairs
<1>2. ASSUME NEW p \in Pairs, OneScored(p) PROVE TallyMatchesPairs'
  <2>1. PICK m \in Tournaments :
          /\ m = Match[p] /\ pairSt[p] = "RUNNING"
          /\ pairSt' = [pairSt EXCEPT ![p] = "COMPLETED"]
          /\ games' = [games EXCEPT ![p] = @ + 2]
          /\ completed' = [completed EXCEPT ![m] = @ + 1]
    BY <1>2 DEF OneScored, ScorePair
  <2>2. ASSUME NEW t \in Tournaments PROVE completed'[t] = Cardinality(Scored(t)')
    <3>1. CASE t = m
      <4>1. Scored(t)' = Scored(t) \cup {p} /\ p \notin Scored(t)
        BY <1>0, <2>1, <3>1 DEF Scored, PairsOf
      <4>2. Cardinality(Scored(t) \cup {p}) = Cardinality(Scored(t)) + 1
        BY <4>1, PairsFinite, FS_AddElement
      <4> QED
        BY <1>0, <2>1, <3>1, <4>1, <4>2 DEF TallyMatchesPairs
    <3>2. CASE t # m
      <4>1. Scored(t)' = Scored(t)
        BY <1>0, <2>1, <3>2 DEF Scored, PairsOf
      <4> QED
        BY <1>0, <2>1, <3>2, <4>1 DEF TallyMatchesPairs
    <3> QED
      BY <3>1, <3>2
  <2>3. ASSUME NEW q \in Pairs PROVE games'[q] = IF pairSt'[q] = "COMPLETED" THEN 2 ELSE 0
    <3>1. games[q] = IF pairSt[q] = "COMPLETED" THEN 2 ELSE 0
      BY <1>0 DEF TallyMatchesPairs
    <3>2. CASE q = p
      BY <1>0, <2>1, <3>1, <3>2
    <3>3. CASE q # p
      BY <1>0, <2>1, <3>1, <3>3
    <3> QED
      BY <3>2, <3>3
  <2> QED
    BY <2>2, <2>3 DEF TallyMatchesPairs
<1>3. CASE Recover
  <2>1. /\ completed' = [t \in Tournaments |-> CompletedNow(t)]
        /\ games' = [p \in Pairs |-> IF Scores(p) /\ games[p] = 0 THEN 2 ELSE games[p]]
    BY <1>3 DEF Recover
  <2>2. ASSUME NEW t \in Tournaments PROVE completed'[t] = Cardinality(Scored(t)')
    <3>1. Scored(t)' = Scored(t) \cup NewlyScored(t) /\ Scored(t) \cap NewlyScored(t) = {}
      <4>1. \A p \in Pairs : /\ pairSt'[p] = "COMPLETED" <=> Scores(p) \/ pairSt[p] = "COMPLETED"
                             /\ Scores(p) => pairSt[p] # "COMPLETED"
        BY <1>3, RecoverPairs
      <4> QED
        BY <4>1 DEF Scored, NewlyScored, PairsOf
    <3>2. Cardinality(Scored(t) \cup NewlyScored(t))
              = Cardinality(Scored(t)) + Cardinality(NewlyScored(t))
                - Cardinality(Scored(t) \cap NewlyScored(t))
      BY PairsFinite, FS_Union
    <3>3. Cardinality(Scored(t) \cap NewlyScored(t)) = 0
      BY <3>1, FS_EmptySet
    <3>4. completed'[t] = completed[t] + Cardinality(NewlyScored(t))
      BY <2>1 DEF CompletedNow
    <3>5. completed[t] = Cardinality(Scored(t))
      BY <1>0 DEF TallyMatchesPairs
    <3> QED
      BY <3>1, <3>2, <3>3, <3>4, <3>5, PairsFinite
  <2>3. ASSUME NEW q \in Pairs PROVE games'[q] = IF pairSt'[q] = "COMPLETED" THEN 2 ELSE 0
    <3>1. games[q] = IF pairSt[q] = "COMPLETED" THEN 2 ELSE 0
      BY <1>0 DEF TallyMatchesPairs
    <3>2. CASE Scores(q)
      BY <1>3, <2>1, <3>1, <3>2, RecoverPairs
    <3>3. CASE ~Scores(q)
      BY <1>3, <2>1, <3>1, <3>3, RecoverPairs
    <3> QED
      BY <3>2, <3>3
  <2> QED
    BY <2>2, <2>3 DEF TallyMatchesPairs
<1> QED
  BY <1>1, <1>2, <1>3, ResultSteps

LEMMA EvidenceStep == IInv /\ [Next]_vars => ScoredOnEvidence'
<1> SUFFICES ASSUME IInv, [Next]_vars, NEW q \in Pairs, pairSt'[q] = "COMPLETED"
             PROVE  exitEv'[q] = [rc |-> 0, attempt |-> attempt'[q]]
  BY DEF ScoredOnEvidence
<1>0. ScoredOnEvidence /\ pairSt \in [Pairs -> PairStatus]
  BY DEF IInv, TypeInv, TypeOK
<1>1. CASE NoneScored
  BY <1>0, <1>1 DEF NoneScored, ScoredOnEvidence
<1>2. ASSUME NEW p \in Pairs, OneScored(p)
      PROVE  exitEv'[q] = [rc |-> 0, attempt |-> attempt'[q]]
  <2>1. /\ exitEv[p] = [rc |-> 0, attempt |-> attempt[p]]
        /\ pairSt' = [pairSt EXCEPT ![p] = "COMPLETED"]
        /\ UNCHANGED <<attempt, exitEv>>
    BY <1>2 DEF OneScored, ScorePair
  <2> QED
    BY <1>0, <2>1 DEF ScoredOnEvidence
<1>3. CASE Recover
  <2>1. Scores(q) \/ pairSt[q] = "COMPLETED"
    BY <1>3, RecoverPairs
  <2>2. CASE Scores(q)
    BY <1>3, <2>2, RecoverPairs
  <2>3. CASE pairSt[q] = "COMPLETED"
    <3>1. exitEv'[q] = exitEv[q] /\ attempt'[q] = attempt[q]
      BY <1>3, <2>3, RecoverPairs
    <3> QED
      BY <1>0, <2>3, <3>1 DEF ScoredOnEvidence
  <2> QED
    BY <2>1, <2>2, <2>3
<1>4. NoneScored \/ (\E p \in Pairs : OneScored(p)) \/ Recover
  BY ResultSteps
<1> QED
  BY <1>1, <1>2, <1>3, <1>4

LEMMA FinalStep ==
    ASSUME IInv, [Next]_vars
    PROVE  \A q \in Pairs : pairSt[q] \in {"COMPLETED", "FAILED"} => pairSt'[q] = pairSt[q]
<1>1. CASE NoneScored
  BY <1>1 DEF NoneScored
<1>2. ASSUME NEW p \in Pairs, OneScored(p), NEW q \in Pairs, pairSt[q] \in {"COMPLETED", "FAILED"}
      PROVE  pairSt'[q] = pairSt[q]
  <2>1. pairSt[p] = "RUNNING" /\ pairSt' = [pairSt EXCEPT ![p] = "COMPLETED"]
    BY <1>2 DEF OneScored, ScorePair
  <2>2. q # p /\ pairSt \in [Pairs -> PairStatus]
    BY <1>2, <2>1 DEF IInv, TypeInv, TypeOK
  <2> QED
    BY <2>1, <2>2
<1>3. CASE Recover
  BY <1>3, RecoverPairs
<1> QED
  BY <1>1, <1>2, <1>3, ResultSteps

-----------------------------------------------------------------------------
(* A completed match has no cancel: only the commit of a finalisation and a *)
(* recovery complete a match, and both decide on the committed flags.       *)

NoneCompleted == \A t \in Tournaments : status'[t] = "COMPLETED" =>
    status[t] = "COMPLETED" /\ cancelReq'[t] = cancelReq[t] /\ forceReq'[t] = forceReq[t]

\* A step that gives one match another status and touches no other match.
LEMMA OneStatus ==
    ASSUME IInv, NEW t \in Tournaments, NEW s, s # "COMPLETED",
           status' = [status EXCEPT ![t] = s],
           cancelReq' = cancelReq \/ \E b \in BOOLEAN : cancelReq' = [cancelReq EXCEPT ![t] = b],
           forceReq' = forceReq \/ \E b \in BOOLEAN : forceReq' = [forceReq EXCEPT ![t] = b]
    PROVE  NoneCompleted
<1>1. /\ status \in [Tournaments -> Status] /\ cancelReq \in [Tournaments -> BOOLEAN]
      /\ forceReq \in [Tournaments -> BOOLEAN]
  BY DEF IInv, TypeInv, TypeOK
<1> QED
  BY <1>1 DEF NoneCompleted

LEMMA SameRows == UNCHANGED <<status, cancelReq, forceReq>> => NoneCompleted
BY DEF NoneCompleted

LEMMA ApiCompletesNone ==
    ASSUME IInv, Api
    PROVE  NoneCompleted
<1>1. PICK t \in Tournaments :
        /\ status[t] # "COMPLETED"
        /\ \/ status' = status
           \/ \E s \in {"QUEUED", "PAUSING", "CANCELLED"} : status' = [status EXCEPT ![t] = s]
        /\ cancelReq' = cancelReq \/ cancelReq' = [cancelReq EXCEPT ![t] = TRUE]
        /\ forceReq' = forceReq \/ forceReq' = [forceReq EXCEPT ![t] = TRUE]
  BY ApiStep
<1>2. /\ status \in [Tournaments -> Status] /\ cancelReq \in [Tournaments -> BOOLEAN]
      /\ forceReq \in [Tournaments -> BOOLEAN]
  BY DEF IInv, TypeInv, TypeOK
<1>3. status'[t] # "COMPLETED" /\ \A u \in Tournaments : u # t => status'[u] = status[u]
  BY <1>1, <1>2
<1>4. \A u \in Tournaments : u # t => cancelReq'[u] = cancelReq[u] /\ forceReq'[u] = forceReq[u]
  BY <1>1, <1>2
<1> QED
  BY <1>3, <1>4 DEF NoneCompleted

LEMMA TickCompletesNone ==
    ASSUME IInv, NEW t \in Tournaments, NEW p \in Pairs,
           \/ ApplyPausing(t) \/ ApplyFlags(t) \/ LaunchCommit(t) \/ LaunchFails(t, p)
           \/ ForceKill(p) \/ FinishFailed(p) \/ FinishSprt(p) \/ FinishCancelled(p)
    PROVE  NoneCompleted
<1>0. Match[p] \in Tournaments
  OBVIOUS
<1>1. CASE ApplyPausing(t)
  <2>1. /\ \E s \in {"CANCELLED", "PAUSED"} : status' = [status EXCEPT ![t] = s]
        /\ UNCHANGED <<cancelReq, forceReq>>
    BY <1>1 DEF ApplyPausing
  <2> QED
    BY <2>1, OneStatus
<1>2. CASE ApplyFlags(t)
  <2>1. /\ \E s \in {"CANCELLED", "PAUSED"} : status' = [status EXCEPT ![t] = s]
        /\ cancelReq' = cancelReq \/ cancelReq' = [cancelReq EXCEPT ![t] = TRUE]
        /\ forceReq' = forceReq \/ forceReq' = [forceReq EXCEPT ![t] = FALSE]
    BY <1>2 DEF ApplyFlags
  <2> QED
    BY <2>1, OneStatus
<1>3. CASE LaunchCommit(t)
  <2>1. /\ status' = status \/ status' = [status EXCEPT ![t] = "RUNNING"]
        /\ UNCHANGED <<cancelReq, forceReq>>
    BY <1>3 DEF LaunchCommit
  <2> QED
    BY <2>1, OneStatus, SameRows
<1>4. CASE LaunchFails(t, p)
  <2>1. status' = [status EXCEPT ![t] = "FAILED"] /\ UNCHANGED <<cancelReq, forceReq>>
    BY <1>4 DEF LaunchFails
  <2> QED
    BY <2>1, OneStatus
<1>5. CASE ForceKill(p) \/ FinishCancelled(p)
  <2>1. /\ status' = [status EXCEPT ![Match[p]] = "CANCELLED"]
        /\ cancelReq' = [cancelReq EXCEPT ![Match[p]] = TRUE]
        /\ forceReq' = [forceReq EXCEPT ![Match[p]] = FALSE]
    BY <1>5 DEF ForceKill, FinishCancelled
  <2> QED
    BY <1>0, <2>1, OneStatus
<1>6. CASE FinishFailed(p)
  <2>1. status' = [status EXCEPT ![Match[p]] = "FAILED"] /\ UNCHANGED <<cancelReq, forceReq>>
    BY <1>6 DEF FinishFailed
  <2> QED
    BY <1>0, <2>1, OneStatus
<1>7. CASE FinishSprt(p)
  <2> DEFINE verdict == SprtStatus(Match[p], completed[Match[p]] + 1)
  <2>1. /\ pc = "finish" /\ p = proc[active].pair /\ verdict # "CONTINUE"
        /\ status' = [status EXCEPT ![Match[p]] = verdict]
        /\ UNCHANGED <<cancelReq, forceReq>>
    BY <1>7 DEF FinishSprt, Finishes
  <2>2. verdict # "COMPLETED"
    BY <2>1, VerdictType DEF SprtTerminal
  <2> QED
    BY <1>0, <2>1, <2>2, OneStatus
<1> QED
  BY <1>1, <1>2, <1>3, <1>4, <1>5, <1>6, <1>7

LEMMA OthersCompleteNone ==
    ASSUME NEW t \in Tournaments, NEW p \in Pairs,
           \/ ReadPausing \/ ReadNext \/ Launch(t, p) \/ PollExit(p) \/ FinishPair(p)
           \/ SprtArtifacts(p) \/ Finalize(p) \/ Heartbeat \/ Boot \/ RecoveryRead \/ Fault
           \/ (\E k \in Pids : Exit(k)) \/ UNCHANGED vars
    PROVE  NoneCompleted
<1>1. CASE ReadPausing \/ ReadNext \/ Launch(t, p) \/ PollExit(p)
  BY <1>1, SameRows DEF ReadPausing, ReadNext, Launch, PollExit, rows
<1>2. CASE FinishPair(p) \/ SprtArtifacts(p) \/ Finalize(p)
  BY <1>2, SameRows DEF FinishPair, SprtArtifacts, Finalize, rows
<1>3. CASE Heartbeat \/ Boot \/ RecoveryRead \/ UNCHANGED vars
  BY <1>3, SameRows DEF Heartbeat, Boot, RecoveryRead, vars, rows
<1>4. CASE Fault
  BY <1>4, SameRows DEF Fault, TickFails, Shutdown, Crash, rows
<1>5. ASSUME NEW k \in Pids, Exit(k) PROVE NoneCompleted
  BY <1>5, SameRows DEF Exit, rows
<1> QED
  BY <1>1, <1>2, <1>3, <1>4, <1>5

\* Only the commit of a finalisation and a recovery complete a match.
LEMMA CompletingSteps ==
    ASSUME IInv, [Next]_vars
    PROVE  NoneCompleted \/ (\E p \in Pairs : FinalizeCommit(p)) \/ Recover
<1>1. CASE Tick \/ LaunchError
  BY <1>1, TickCompletesNone, OthersCompleteNone, MatchAssumption DEF Tick, LaunchError
<1>2. CASE Api
  BY <1>2, ApiCompletesNone
<1>3. CASE Heartbeat \/ Boot \/ RecoveryRead \/ Fault \/ (\E k \in Pids : Exit(k)) \/ UNCHANGED vars
  BY <1>3, OthersCompleteNone, MatchAssumption
<1> QED
  BY <1>1, <1>2, <1>3 DEF Next, Recovery

LEMMA CancelStep == IInv /\ [Next]_vars => CompletedHasNoCancel'
<1> SUFFICES ASSUME IInv, [Next]_vars PROVE CompletedHasNoCancel'
  OBVIOUS
<1>0. CompletedHasNoCancel /\ status \in [Tournaments -> Status]
  BY DEF IInv, TypeInv, TypeOK
<1>1. CASE NoneCompleted
  BY <1>0, <1>1 DEF NoneCompleted, CompletedHasNoCancel
<1>2. ASSUME NEW p \in Pairs, FinalizeCommit(p) PROVE CompletedHasNoCancel'
  <2>1. /\ pc = "finalizing" /\ p = proc[active].pair
        /\ status' = [status EXCEPT ![Match[p]] = "COMPLETED"]
        /\ UNCHANGED <<cancelReq, forceReq>>
    BY <1>2 DEF FinalizeCommit
  <2>2. ~cancelReq[Match[p]] /\ ~forceReq[Match[p]]
    BY <2>1 DEF IInv, LockHeld
  <2> QED
    BY <1>0, <2>1, <2>2 DEF CompletedHasNoCancel
<1>3. ASSUME Recover, NEW t \in Tournaments, status'[t] = "COMPLETED"
      PROVE  ~cancelReq'[t] /\ ~forceReq'[t]
  <2>1. /\ StatusAfter(t) = "COMPLETED"
        /\ cancelReq'[t] <=> cancelReq[t] \/ Forced(t) \/ (Decided(t) /\ FlaggedNow(t))
        /\ forceReq'[t] <=> forceReq[t] /\ ~Forced(t) /\ ~Decided(t)
    BY <1>3, Zenon DEF Recover
  <2>2. ~Forced(t)
    BY <2>1 DEF StatusAfter, Forced
  <2>3. CASE Decided(t)
    <3>1. ~FlaggedNow(t)
      BY <2>1, <2>3 DEF StatusAfter, Decided
    <3> QED
      BY <2>1, <2>2, <2>3, <3>1, Zenon DEF FlaggedNow
  <2>4. CASE ~Decided(t)
    <3>1. status[t] = "COMPLETED"
      BY <2>1, <2>2, <2>4 DEF StatusAfter, Decided
    <3> QED
      BY <1>0, <2>1, <2>2, <2>4, <3>1 DEF CompletedHasNoCancel
  <2> QED
    BY <2>3, <2>4
<1>4. CASE Recover
  BY <1>3, <1>4 DEF CompletedHasNoCancel
<1> QED
  BY <1>1, <1>2, <1>4, CompletingSteps

-----------------------------------------------------------------------------
(* The theorems.                                                           *)

LEMMA InitInv == Init => IInv
<1> SUFFICES ASSUME Init PROVE IInv
  OBVIOUS
<1>1. TypeInv
  BY InitType
<1>2. Supervised /\ LockHeld
  BY DEF Init, Supervised, LockHeld
<1>3. CompletedHasNoCancel /\ ScoredOnEvidence
  BY DEF Init, CompletedHasNoCancel, ScoredOnEvidence
<1>4. TallyMatchesPairs
  <2>1. \A t \in Tournaments : Scored(t) = {}
    BY DEF Init, Scored, PairsOf
  <2> QED
    BY <2>1, FS_EmptySet DEF Init, TallyMatchesPairs
<1> QED
  BY <1>1, <1>2, <1>3, <1>4 DEF IInv

\* The inductive invariant.
LEMMA InvHolds == Spec => []IInv
<1>1. IInv /\ [Next]_vars => IInv'
  BY TypeStep, SupervisedStep, CancelStep, TallyStep, EvidenceStep DEF IInv
<1> QED
  BY InitInv, <1>1, PTL DEF Spec

\* Every row, file and process stays of its type, for any number of matches,
\* pairs and faults.
THEOREM TypeCorrect == Spec => []TypeOK
<1>1. IInv => TypeOK
  BY DEF IInv, TypeInv
<1> QED
  BY InvHolds, <1>1, PTL

\* A match never ends COMPLETED with a cancel or force-cancel on its row.
THEOREM NoCancelledCompletion == Spec => []CompletedHasNoCancel
<1>1. IInv => CompletedHasNoCancel
  BY DEF IInv
<1> QED
  BY InvHolds, <1>1, PTL

\* No crash, retry or second recovery scores a pair twice or half.
THEOREM TallyCorrect == Spec => []TallyMatchesPairs
<1>1. IInv => TallyMatchesPairs
  BY DEF IInv
<1> QED
  BY InvHolds, <1>1, PTL

\* A pair is only ever scored on the exit evidence of its current attempt.
THEOREM EvidenceCorrect == Spec => []ScoredOnEvidence
<1>1. IInv => ScoredOnEvidence
  BY DEF IInv
<1> QED
  BY InvHolds, <1>1, PTL

\* A COMPLETED or FAILED pair is never taken back.
THEOREM ResultsFinal == Spec => ResultsAreFinal
<1>1. IInv /\ [Next]_vars =>
        [\A p \in Pairs : pairSt[p] \in {"COMPLETED", "FAILED"} => pairSt'[p] = pairSt[p]]_vars
  BY FinalStep
<1> QED
  BY InvHolds, <1>1, PTL DEF Spec, ResultsAreFinal
=============================================================================
