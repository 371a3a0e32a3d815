-------------------------- MODULE StartupRecovery --------------------------
(***************************************************************************)
(* run_recovery of services/recovery.py, run once at boot.  All matches in *)
(* RUNNING, PAUSING or PAUSED are loaded first; the flags and statuses it  *)
(* then acts on are those of that read, although killing an orphan may     *)
(* take 25 seconds.  Everything is written by one commit.                  *)
(***************************************************************************)
EXTENDS PairProcess

RecoveryRead ==
    /\ pc = "boot"
    /\ snap' = [t \in Tournaments |->
                   IF status[t] \in {"RUNNING", "PAUSING", "PAUSED"}
                   THEN RowOf(t) ELSE NoRow]
    /\ pc' = "recovering"
    /\ UNCHANGED <<rows, pairRows, ident, files, proc, active, faults>>

Recovered(t) == snap[t] # NoRow
Forced(t) == Recovered(t) /\ snap[t].force

\* Seeded fault: every pair of a recovered match is taken for an orphan.
AllPairs == {p \in Pairs : Recovered(Match[p]) /\ pairSt[p] # "none"}

\* The RUNNING pairs recovery finds.
Orphaned == {p \in Pairs : Recovered(Match[p]) /\ pairSt[p] = "RUNNING"}

\* _recover_running_pair: only exit evidence of this very attempt and a file
\* of exactly two games keep a pair from being played again.
HasEvidence(p) == exitEv[p] # NoExit /\ exitEv[p].attempt = attempt[p]
Judged(p) == p \in Orphaned /\ ~Forced(Match[p])
Kept(p) == Judged(p) /\ HasEvidence(p) /\ pgn[p] \in {"good", "invalid"}
Scores(p) == Kept(p) /\ exitEv[p].rc = 0 /\ pgn[p] = "good"
Fails(p) == Kept(p) /\ ~(exitEv[p].rc = 0 /\ pgn[p] = "good")

FailedMatch(t) == \E p \in PairsOf(t) : Fails(p)
NewlyScored(t) == {p \in PairsOf(t) : Scores(p)}
\* Seeded fault: a pair with evidence is counted before it is verified.
CountsUnverified(t) == completed[t] + Cardinality({p \in PairsOf(t) : Kept(p)})
CompletedNow(t) == completed[t] + Cardinality(NewlyScored(t))
\* The last pair was scored: atomic_complete_or_cancel decides on the
\* committed flags, not on the loaded ones.
EndsNow(t) == NewlyScored(t) # {} /\ CompletedNow(t) >= Requested(t)
\* Seeded fault: the flags of the boot-time read are trusted.
FlaggedWhenLoaded(t) == snap[t].cancel \/ snap[t].force
FlaggedNow(t) == cancelReq[t] \/ forceReq[t]

\* The pairs that start over: unusable RUNNING ones, and the INTERRUPTED ones
\* of a match that goes on.
\* Seeded fault: a pair without evidence is left RUNNING.
LeftRunning == {p \in Pairs : Judged(p) /\ HasEvidence(p) /\ ~Kept(p)}
Rerun == {p \in Pairs : Judged(p) /\ ~Kept(p)}
Requeued == {p \in Pairs : LET t == Match[p] IN
                /\ Recovered(t) /\ ~Forced(t) /\ ~FailedMatch(t) /\ ~EndsNow(t)
                /\ pairSt[p] = "INTERRUPTED"}

\* Seeded fault: every loaded column is written back.
WritesBack(t) == snap[t].status
StatusAfter(t) ==
    CASE ~Recovered(t) -> status[t]
      [] Forced(t) -> "CANCELLED"
      [] Recovered(t) /\ ~Forced(t) ->
         IF FailedMatch(t) THEN "FAILED"
         ELSE IF EndsNow(t) THEN IF FlaggedNow(t) THEN "CANCELLED" ELSE "COMPLETED"
         ELSE IF snap[t].cancel THEN "CANCELLED"
         ELSE CASE snap[t].status = "PAUSING" -> "PAUSED"
                [] snap[t].status = "RUNNING" -> "QUEUED"
                [] OTHER -> status[t]

\* The match ends here through atomic_complete_or_cancel.
Decided(t) == Recovered(t) /\ ~Forced(t) /\ ~FailedMatch(t) /\ EndsNow(t)
\* PAUSING becomes PAUSED: the pause request has been served.
Parked(t) == /\ Recovered(t) /\ ~Forced(t) /\ ~FailedMatch(t) /\ ~EndsNow(t)
             /\ ~snap[t].cancel /\ snap[t].status = "PAUSING"

\* _kill_orphaned_pair, for the pair worker_state names.  A group that is gone
\* or confirmed killed clears the identity, a survivor keeps it; the caller
\* learns of neither.
KillOrphan ==
    IF ident # 0 /\ proc[ident].pair \in Orphaned
    THEN \E gone \in Terminated(ident) :
            /\ proc' = AfterTermination(ident, gone)
            /\ ident' = IF gone THEN 0 ELSE ident
    ELSE UNCHANGED <<proc, ident>>

Recover ==
    /\ pc = "recovering"
    /\ KillOrphan
    /\ pairSt' = [p \in Pairs |->
          CASE Scores(p) -> "COMPLETED"
            [] Fails(p) -> "FAILED"
            [] p \in Rerun \cup Requeued -> "PENDING"
            [] p \in Orphaned /\ Forced(Match[p]) -> "INTERRUPTED"
            [] OTHER -> pairSt[p]]
    /\ StartOver(Rerun \cup Requeued)
    /\ exitEv' = [p \in Pairs |-> IF p \in Rerun \cup Requeued THEN NoExit ELSE exitEv[p]]
    /\ games' = [p \in Pairs |-> IF Scores(p) /\ games[p] = 0 THEN 2 ELSE games[p]]
    /\ completed' = [t \in Tournaments |-> CompletedNow(t)]
    /\ status' = [t \in Tournaments |-> StatusAfter(t)]
    /\ cancelReq' = [t \in Tournaments |->
          cancelReq[t] \/ Forced(t) \/ (Decided(t) /\ FlaggedNow(t))]
    /\ forceReq' = [t \in Tournaments |-> forceReq[t] /\ ~Forced(t) /\ ~Decided(t)]
    /\ pauseReq' = [t \in Tournaments |-> pauseReq[t] /\ ~Parked(t) /\ ~Decided(t)]
    /\ summary' = [t \in Tournaments |->
          IF Decided(t) /\ ~FlaggedNow(t) THEN "COMPLETED" ELSE summary[t]]
    /\ pc' = "idle" /\ snap' = [t \in Tournaments |-> NoRow]
    /\ UNCHANGED <<active, faults>>
=============================================================================
