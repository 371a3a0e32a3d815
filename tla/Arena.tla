------------------------------- MODULE Arena -------------------------------
(***************************************************************************)
(* The match runner: the API process, the worker process with its          *)
(* scheduler and its startup recovery, the cutechess groups, and crashes.  *)
(***************************************************************************)
EXTENDS MatchApi, PairScheduler, StartupRecovery

CONSTANTS
    SurviveCrash,  \* may cutechess outlive a worker that dies abnormally?
    MaxFaults      \* bound on crashes, restarts and failed ticks
ASSUME SurviveCrash \in BOOLEAN
ASSUME FaultAssumption == MaxFaults \in Nat

\* systemd starts the worker; run_worker begins with recovery.
Boot ==
    /\ pc = "down"
    /\ pc' = "boot"
    /\ UNCHANGED <<rows, pairRows, ident, files, proc, active, snap, faults>>

\* The groups that may outlive the worker.
Survivors == IF SurviveCrash THEN SUBSET {k \in Pids : Running(k)} ELSE {{}}

\* The worker dies: memory and the open transaction are lost.  Under
\* KillMode=mixed the rest of its cgroup is killed with it.
Crash ==
    /\ pc # "down"
    /\ \E alive \in Survivors :
          proc' = [k \in Pids |-> IF Running(k) /\ k \notin alive
                                  THEN Gone(proc[k], 1) ELSE proc[k]]
    /\ pc' = "down" /\ active' = 0 /\ snap' = NoSnap
    /\ faults' = faults + 1
    /\ UNCHANGED <<rows, pairRows, ident, files>>

Api == \E t \in Tournaments :
    \/ Start(t) \/ Pause(t) \/ Resume(t)
    \/ CancelNow(t) \/ CancelLater(t) \/ ForceCancel(t)

Tick ==
    \/ ReadPausing \/ ReadNext
    \/ \E t \in Tournaments : ApplyPausing(t) \/ ApplyFlags(t) \/ LaunchCommit(t)
    \/ \E t \in Tournaments, p \in Pairs : Launch(t, p)
    \/ \E p \in Pairs :
          \/ ForceKill(p) \/ PollExit(p) \/ FinishFailed(p) \/ FinishPair(p)
          \/ FinishSprt(p) \/ SprtArtifacts(p) \/ FinishCancelled(p)
          \/ Finalize(p) \/ FinalizeCommit(p)

LaunchError == \E t \in Tournaments, p \in Pairs : LaunchFails(t, p)
Recovery == RecoveryRead \/ Recover
Fault == faults < MaxFaults /\ (TickFails \/ Shutdown \/ Crash)

Next ==
    \/ Api \/ Tick \/ LaunchError \/ Heartbeat
    \/ Boot \/ Recovery \/ Fault
    \/ \E k \in Pids : Exit(k)

Spec == Init /\ [][Next]_vars

(***************************************************************************)
(* The worker loop keeps ticking, systemd restarts the worker, and a pair  *)
(* of games ends (every time control is finite).  Operators owe nothing.   *)
(***************************************************************************)
Fairness ==
    /\ WF_vars(Tick) /\ WF_vars(Boot) /\ WF_vars(Recovery)
    /\ \A k \in Pids : WF_vars(Exit(k))
FairSpec == Spec /\ Fairness

-----------------------------------------------------------------------------
(* What the rows promise.                                                  *)

\* recovery.atomic_complete_or_cancel: "the row can never end as COMPLETED
\* while a cancel/force-cancel flag is present", whatever the interleaving of
\* endpoints, ticks, crashes and recovery.
CompletedHasNoCancel == \A t \in Tournaments :
    status[t] = "COMPLETED" => ~cancelReq[t] /\ ~forceReq[t]

\* The aggregate of a match counts exactly its COMPLETED pairs, and a pair has
\* its two Game rows exactly when it is COMPLETED: no crash, retry or second
\* recovery scores a pair twice or leaves half of it behind.
TallyMatchesPairs ==
    /\ \A t \in Tournaments : completed[t] = Cardinality(Scored(t))
    /\ \A p \in Pairs : games[p] = IF pairSt[p] = "COMPLETED" THEN 2 ELSE 0

\* A scored pair carries a zero exit code recorded for its current attempt (P1:
\* evidence of an older attempt is never used).
ScoredOnEvidence == \A p \in Pairs : pairSt[p] = "COMPLETED" =>
    exitEv[p] = [rc |-> 0, attempt |-> attempt[p]]

\* One pair runs at a time, and its match is RUNNING or PAUSING: neither
\* endpoint nor recovery takes the match away from under a pair.
RunningPairHasLiveMatch ==
    /\ \A p \in Pairs : pairSt[p] = "RUNNING" => status[Match[p]] \in {"RUNNING", "PAUSING"}
    /\ \A p, q \in Pairs : pairSt[p] = "RUNNING" /\ pairSt[q] = "RUNNING" => p = q

\* A match that has not ended still has a pair to play (_finish_without_pending
\* and the no-pending branch of recovery are dead code), and has no FAILED one.
LiveMatchHasWork == \A t \in Tournaments : status[t] \notin Ended =>
    /\ \E p \in PairsOf(t) : pairSt[p] \in {"PENDING", "RUNNING", "INTERRUPTED"}
    /\ \A p \in PairsOf(t) : pairSt[p] # "FAILED"

\* COMPLETED means every pair was scored, and the artifacts were written.
CompletedIsWhole == \A t \in Tournaments : status[t] = "COMPLETED" =>
    Scored(t) = PairsOf(t) /\ summary[t] = "COMPLETED"

\* A verified result is final: no recovery, retry or late tick takes back a
\* COMPLETED or FAILED pair.
ResultsAreFinal == [][\A p \in Pairs :
    pairSt[p] \in {"COMPLETED", "FAILED"} => pairSt'[p] = pairSt[p]]_vars

\* The step that decides that p is scored: the scheduler's verification, or
\* recovery's.
Verifies(p) ==
    \/ pc # "finalizing" /\ pc' = "finalizing" /\ p = proc[active].pair
    \/ pc # "finalizing" /\ pairSt[p] # "COMPLETED" /\ pairSt'[p] = "COMPLETED"
\* The step takes p back to be played again.
Retries(p) ==
    \/ pairSt[p] = "RUNNING" /\ pairSt'[p] = "PENDING"
    \/ pairSt[p] = "INTERRUPTED" /\ pairSt'[p] # "INTERRUPTED"

\* One attempt's games and exit code decide a pair, and nothing of another: it
\* is scored on a directory of exactly its two games and the exit code 0 of this
\* attempt, a retry moves on to the next attempt, with an empty directory and no
\* exit code, and the exit code of an attempt is never replaced.
RetriesStartFresh == [][\A p \in Pairs :
    /\ Verifies(p) => pgn[p] = "good" /\ exitEv[p] = [rc |-> 0, attempt |-> attempt[p]]
    /\ Retries(p) => /\ attempt'[p] = attempt[p] + 1
                     /\ pgn'[p] = "none" /\ exitEv'[p] = NoExit
    /\ HasEvidence(p) => exitEv'[p] = exitEv[p] \/ attempt'[p] = attempt[p] + 1]_vars

\* The runner implements the ledger: the committed pair rows, seen as a whole,
\* only ever move as PairLedger allows, through crashes, survivors, failed
\* ticks and endpoints called at any moment.
Ledger == INSTANCE PairLedger WITH
    playing <- {p \in Pairs : pairSt[p] = "RUNNING"},
    scored <- {p \in Pairs : pairSt[p] = "COMPLETED"},
    failed <- {p \in Pairs : pairSt[p] = "FAILED"},
    tally <- completed
ImplementsLedger == Ledger!Spec

-----------------------------------------------------------------------------
(* What holds when processes die when they are killed.                     *)

\* CPU isolation: at most one cutechess group is alive, it is the one the
\* worker supervises or the one worker_state names for the next recovery, and
\* no pair is left RUNNING by a worker that has finished its recovery and
\* supervises nothing.
OneCutechess ==
    /\ \A k \in Pids : Running(k) => k = active \/ k = ident
    /\ \A j, k \in Pids : Running(j) /\ Running(k) => j = k
    /\ pc = "idle" /\ active = 0 => \A p \in Pairs : pairSt[p] # "RUNNING"

\* "claim the next PENDING pair from the earliest QUEUED/RUNNING tournament":
\* no pair starts while an older match is between two of its pairs, although
\* the choice was made on an earlier read.
EarliestMatchFirst == [][\A p \in Pairs :
    pairSt[p] # "RUNNING" /\ pairSt'[p] = "RUNNING" =>
        \A t \in Tournaments : t < Match[p] => status[t] # "RUNNING"]_vars

\* A group that outlives SIGKILL is never taken for the next attempt: once
\* recovery is over, one that the worker does not supervise belongs to an older
\* attempt of its pair, whose directory is not looked at again, or to a pair of
\* a force-cancelled match that is not played any more.
SurvivorsAreStale == \A k \in Pids :
    Running(k) /\ k # active /\ pc \notin {"down", "boot", "recovering"} =>
        LET p == proc[k].pair IN
        proc[k].attempt < attempt[p] \/ (pairSt[p] = "INTERRUPTED" /\ status[Match[p]] \in Ended)

-----------------------------------------------------------------------------
(* What must eventually happen.                                            *)

\* A match handed to the worker is not left hanging: it ends, or an operator
\* pauses it, however often the worker crashes, as long as it stops crashing.
QueuedMatchSettles == \A t \in Tournaments :
    status[t] \in {"QUEUED", "RUNNING", "PAUSING"} ~> status[t] \in Ended \cup {"PAUSED"}

\* The worker does not act on a PAUSING row that it read before the cancel.
NotReadBefore(t) == ~(snap[t].status = "PAUSING" /\ ~snap[t].cancel)
Supervises(t) == pc = "idle" /\ active # 0 /\ t = Match[proc[active].pair]

\* A cancel of a running or pausing match ends it, unless the worker had read
\* the row as PAUSING before (CancelBeatsPause), and so does a force-cancel of a
\* match whose pair is supervised: neither is forgotten by a tick, a failed
\* tick, a shutdown or a recovery.
StopRequestServed == \A t \in Tournaments :
    /\ status[t] \in {"RUNNING", "PAUSING"} /\ cancelReq[t] /\ NotReadBefore(t)
          ~> status[t] \in Ended
    /\ forceReq[t] /\ Supervises(t) ~> status[t] \in Ended
=============================================================================
