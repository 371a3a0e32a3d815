--------------------------- MODULE PairScheduler ---------------------------
(***************************************************************************)
(* Scheduler.tick of services/scheduler.py.  SELECTs hold no transaction,  *)
(* so the rows a tick acts on are the ones it read earlier (snap); its     *)
(* first flush takes the write lock until the commit.  An assignment that  *)
(* leaves an ORM attribute as it was loaded writes no column.              *)
(***************************************************************************)
EXTENDS PairProcess

Interrupted(t) == {p \in PairsOf(t) : pairSt[p] = "INTERRUPTED"}
Pending(t) == {p \in PairsOf(t) : pairSt[p] \in {"PENDING", "INTERRUPTED"}}

\* The status of an SPRT match after n scored pairs, "CONTINUE" when it goes on.
SprtStatus(t, n) ==
    CASE t \notin Sprt -> "CONTINUE"
      [] t \in Sprt /\ WaldDecision[<<t, n>>] # "CONTINUE" -> WaldDecision[<<t, n>>]
      [] t \in Sprt /\ WaldDecision[<<t, n>>] = "CONTINUE" ->
            IF n >= Requested(t) THEN "SPRT_MAX_PAIRS" ELSE "CONTINUE"

GoTo(next) == pc' = next /\ snap' = NoSnap
Load(t) == snap' = [NoSnap EXCEPT ![t] = RowOf(t)]
Loaded(t) == snap[t] # NoRow

-----------------------------------------------------------------------------
(* _find_and_launch: no process is supervised.                             *)

\* Seeded fault: a PAUSING match is left to the poll of its last pair.
NoneStopping == {t \in Tournaments : active # 0 /\ status[t] = "PAUSING"}

Stopping == {t \in Tournaments : status[t] = "PAUSING"}

ReadPausing ==
    /\ pc = "idle" /\ active = 0
    /\ \/ \E t \in Tournaments :
             /\ IsFirst(t, Stopping)
             /\ Load(t) /\ pc' = "pausing"
       \/ /\ Stopping = {}
          /\ GoTo("scan")
    /\ UNCHANGED <<rows, pairRows, ident, files, proc, active, faults>>

\* Cancel wins over pause, as far as the row read above knows of a cancel.
ApplyPausing(t) ==
    /\ pc = "pausing" /\ Loaded(t)
    /\ IF snap[t].cancel
       THEN /\ status' = [status EXCEPT ![t] = "CANCELLED"]
            /\ UNCHANGED pauseReq
       ELSE /\ status' = [status EXCEPT ![t] = "PAUSED"]
            /\ pauseReq' = [pauseReq EXCEPT ![t] = FALSE]
    /\ GoTo("idle")
    /\ UNCHANGED <<cancelReq, forceReq, completed, pairRows, ident, files, proc,
                   active, faults>>

\* Seeded fault: a match between two of its pairs is not picked up again.
OnlyQueued == {t \in Tournaments : status[t] = "QUEUED"}

Runnable == {t \in Tournaments : status[t] \in {"QUEUED", "RUNNING"}}

\* _next_tournament: the earliest QUEUED or RUNNING match.
ReadNext ==
    /\ pc = "scan"
    /\ \/ \E t \in Tournaments :
             /\ IsFirst(t, Runnable)
             /\ Load(t) /\ pc' = "selected"
       \/ /\ Runnable = {}
          /\ GoTo("idle")
    /\ UNCHANGED <<rows, pairRows, ident, files, proc, active, faults>>

\* The flags of the selected row, in their order of precedence.
ApplyFlags(t) ==
    /\ pc = "selected" /\ Loaded(t)
    /\ \/ /\ snap[t].force
          /\ status' = [status EXCEPT ![t] = "CANCELLED"]
          /\ forceReq' = [forceReq EXCEPT ![t] = FALSE]
          /\ cancelReq' = [cancelReq EXCEPT ![t] = TRUE]
          /\ UNCHANGED pauseReq
       \/ /\ ~snap[t].force /\ snap[t].cancel
          /\ status' = [status EXCEPT ![t] = "CANCELLED"]
          /\ UNCHANGED <<pauseReq, cancelReq, forceReq>>
       \/ /\ ~snap[t].force /\ ~snap[t].cancel /\ snap[t].pause
          /\ status' = [status EXCEPT ![t] = "PAUSED"]
          /\ pauseReq' = [pauseReq EXCEPT ![t] = FALSE]
          /\ UNCHANGED <<cancelReq, forceReq>>
    /\ GoTo("idle")
    /\ UNCHANGED <<completed, pairRows, ident, files, proc, active, faults>>

MayLaunch(t, p) ==
    /\ pc = "selected" /\ Loaded(t)
    /\ ~snap[t].force /\ ~snap[t].cancel /\ ~snap[t].pause
    /\ IsFirst(p, Pending(t))

\* reschedule_interrupted_pairs, then the next PENDING pair is flushed as
\* RUNNING and cutechess started.  Nothing is committed yet.
Launch(t, p) ==
    /\ MayLaunch(t, p)
    /\ \E k \in Pids :
          /\ IsFirst(k, {j \in Pids : proc[j].st = "unused"})
          /\ proc' = [proc EXCEPT ![k] =
                [st |-> "running", pair |-> p, rc |-> 0,
                 attempt |-> attempt[p] + (IF p \in Interrupted(t) THEN 1 ELSE 0)]]
          /\ active' = k
    /\ pc' = "launched"
    /\ UNCHANGED <<rows, pairRows, ident, files, snap, faults>>

\* _record_active_process and the commit.
LaunchCommit(t) ==
    /\ pc = "launched" /\ Loaded(t)
    /\ LET p == proc[active].pair IN
       /\ pairSt' = [q \in Pairs |-> CASE q = p -> "RUNNING"
                        [] q # p /\ q \in Interrupted(t) -> "PENDING"
                        [] OTHER -> pairSt[q]]
       /\ exitEv' = [q \in Pairs |-> IF q = p \/ q \in Interrupted(t)
                                     THEN NoExit ELSE exitEv[q]]
       /\ StartOver(Interrupted(t))
    /\ status' = IF snap[t].status = "RUNNING" THEN status
                 ELSE [status EXCEPT ![t] = "RUNNING"]
    /\ ident' = active
    /\ GoTo("idle")
    /\ UNCHANGED <<pauseReq, cancelReq, forceReq, completed, games, summary, proc,
                   active, faults>>

\* A CutechessLaunchError of the pinning and preflight checks.
LaunchFails(t, p) ==
    /\ MayLaunch(t, p)
    /\ pairSt' = [q \in Pairs |-> CASE q = p -> "FAILED"
                     [] q # p /\ q \in Interrupted(t) -> "PENDING"
                     [] OTHER -> pairSt[q]]
    /\ exitEv' = [q \in Pairs |-> IF q = p \/ q \in Interrupted(t)
                                  THEN NoExit ELSE exitEv[q]]
    /\ StartOver(Interrupted(t))
    /\ status' = [status EXCEPT ![t] = "FAILED"]
    /\ GoTo("idle")
    /\ UNCHANGED <<pauseReq, cancelReq, forceReq, completed, ident, games, summary,
                   proc, active, faults>>

-----------------------------------------------------------------------------
(* _poll_active: a process is supervised.                                  *)

Polls(p) == pc = "idle" /\ active # 0 /\ p = proc[active].pair

\* _force_kill_active, with the group confirmed gone.  A tick that meets a
\* survivor changes nothing, so that the next one tries again.
ForceKill(p) ==
    /\ Polls(p) /\ forceReq[Match[p]]
    /\ proc' = AfterTermination(active, TRUE)
    /\ pairSt' = IF pairSt[p] = "RUNNING"
                 THEN [pairSt EXCEPT ![p] = "INTERRUPTED"] ELSE pairSt
    /\ forceReq' = [forceReq EXCEPT ![Match[p]] = FALSE]
    /\ cancelReq' = [cancelReq EXCEPT ![Match[p]] = TRUE]
    /\ status' = [status EXCEPT ![Match[p]] = "CANCELLED"]
    /\ active' = 0
    /\ UNCHANGED <<pauseReq, completed, attempt, exitEv, games, ident, files, pc,
                   snap, faults>>

\* The exit code is committed, tagged with its attempt, before any scoring.
\* A pair that is no longer RUNNING was scored by a tick that then failed.
PollExit(p) ==
    /\ Polls(p) /\ ~forceReq[Match[p]] /\ ~Running(active)
    /\ exitEv' = [exitEv EXCEPT ![p] = [rc |-> proc[active].rc, attempt |-> attempt[p]]]
    /\ IF pairSt[p] = "RUNNING" THEN pc' = "finish" /\ UNCHANGED active
                                ELSE active' = 0 /\ UNCHANGED pc
    /\ UNCHANGED <<rows, pairSt, attempt, games, ident, files, proc, snap, faults>>

\* _finish_pair reads the exit code of the process and runs the verifier.
Finishes(p) == pc = "finish" /\ p = proc[active].pair
Scorable(p) == proc[active].rc = 0 /\ pgn[p] = "good"

\* _fail_pair.
FinishFailed(p) ==
    /\ Finishes(p) /\ ~Scorable(p)
    /\ pairSt' = [pairSt EXCEPT ![p] = "FAILED"]
    /\ status' = [status EXCEPT ![Match[p]] = "FAILED"]
    /\ pc' = "idle" /\ active' = 0
    /\ UNCHANGED <<pauseReq, cancelReq, forceReq, completed, attempt, exitEv, games,
                   ident, files, proc, snap, faults>>

\* _complete_pair: two Game rows, the pair COMPLETED, the aggregate bumped.
ScorePair(p) ==
    /\ pairSt' = [pairSt EXCEPT ![p] = "COMPLETED"]
    /\ games' = [games EXCEPT ![p] = @ + 2]
    /\ completed' = [completed EXCEPT ![Match[p]] = @ + 1]
    /\ UNCHANGED <<attempt, exitEv>>

\* Seeded faults: off by one, either way.
PastLastPair(t) == completed[t] >= Requested(t)
BeforeLastPair(t) == completed[t] + 2 >= Requested(t)
LastPair(t) == completed[t] + 1 >= Requested(t)

\* Neither the SPRT nor the schedule ends the match.
FinishPair(p) ==
    /\ Finishes(p) /\ Scorable(p)
    /\ SprtStatus(Match[p], completed[Match[p]] + 1) = "CONTINUE"
    /\ ~LastPair(Match[p])
    /\ ScorePair(p)
    /\ pc' = "idle" /\ active' = 0
    /\ UNCHANGED <<status, pauseReq, cancelReq, forceReq, ident, files, proc, snap,
                   faults>>

\* _maybe_sprt: the terminal status is committed first, whatever the flags
\* say; the artifacts and _clear_active come after that commit.
FinishSprt(p) ==
    /\ Finishes(p) /\ Scorable(p)
    /\ LET t == Match[p]
           verdict == SprtStatus(t, completed[t] + 1) IN
       /\ verdict # "CONTINUE"
       /\ status' = [status EXCEPT ![t] = verdict]
    /\ ScorePair(p)
    /\ pc' = "artifacts"
    /\ UNCHANGED <<pauseReq, cancelReq, forceReq, ident, files, proc, active, snap,
                   faults>>

SprtArtifacts(p) ==
    /\ pc = "artifacts" /\ p = proc[active].pair
    /\ summary' = [summary EXCEPT ![Match[p]] = status[Match[p]]]
    /\ pc' = "idle" /\ active' = 0
    /\ UNCHANGED <<rows, pairRows, ident, pgn, proc, snap, faults>>

\* _finalize_tournament / atomic_complete_or_cancel on the last pair.  The
\* conditional UPDATE sees the committed flags, under the write lock.
FinishLast(p) ==
    /\ Finishes(p) /\ Scorable(p)
    /\ SprtStatus(Match[p], completed[Match[p]] + 1) = "CONTINUE"
    /\ LastPair(Match[p])

FinishCancelled(p) ==
    /\ FinishLast(p)
    /\ cancelReq[Match[p]] \/ forceReq[Match[p]]
    /\ ScorePair(p)
    /\ status' = [status EXCEPT ![Match[p]] = "CANCELLED"]
    /\ cancelReq' = [cancelReq EXCEPT ![Match[p]] = TRUE]
    /\ pauseReq' = [pauseReq EXCEPT ![Match[p]] = FALSE]
    /\ forceReq' = [forceReq EXCEPT ![Match[p]] = FALSE]
    /\ pc' = "idle" /\ active' = 0
    /\ UNCHANGED <<ident, files, proc, snap, faults>>

\* The artifacts are written inside the transaction that completes the match.
Finalize(p) ==
    /\ FinishLast(p)
    /\ ~cancelReq[Match[p]] /\ ~forceReq[Match[p]]
    /\ summary' = [summary EXCEPT ![Match[p]] = "COMPLETED"]
    /\ pc' = "finalizing"
    /\ UNCHANGED <<rows, pairRows, ident, pgn, proc, active, snap, faults>>

FinalizeCommit(p) ==
    /\ pc = "finalizing" /\ p = proc[active].pair
    /\ ScorePair(p)
    /\ status' = [status EXCEPT ![Match[p]] = "COMPLETED"]
    /\ pauseReq' = [pauseReq EXCEPT ![Match[p]] = FALSE]
    /\ pc' = "idle" /\ active' = 0
    /\ UNCHANGED <<cancelReq, forceReq, ident, files, proc, snap, faults>>

-----------------------------------------------------------------------------
\* An exception rolls the open transaction back; run_worker logs it and the
\* next tick starts over with the process it still supervises.  Popen is the
\* last step of a launch that can fail this way.
TickFails ==
    /\ pc \in {"pausing", "scan", "selected", "finish", "finalizing", "artifacts"}
    /\ GoTo("idle")
    /\ faults' = faults + 1
    /\ UNCHANGED <<rows, pairRows, ident, files, proc, active>>

\* shutdown: a confirmed termination interrupts the pair, a survivor leaves
\* the pair RUNNING and its identity recorded.
Shutdown ==
    /\ pc = "idle"
    /\ IF active = 0 THEN UNCHANGED <<pairSt, proc>>
       ELSE \E gone \in Terminated(active) :
               /\ proc' = AfterTermination(active, gone)
               /\ pairSt' = IF gone /\ pairSt[proc[active].pair] = "RUNNING"
                            THEN [pairSt EXCEPT ![proc[active].pair] = "INTERRUPTED"]
                            ELSE pairSt
    /\ pc' = "down" /\ active' = 0
    /\ faults' = faults + 1
    /\ UNCHANGED <<rows, attempt, exitEv, games, ident, files, snap>>

\* _heartbeat between two ticks.
Heartbeat ==
    /\ pc = "idle" /\ ident # active
    /\ ident' = active
    /\ UNCHANGED <<rows, pairRows, files, proc, worker, faults>>
=============================================================================
