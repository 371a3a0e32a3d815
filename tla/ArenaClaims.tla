---------------------------- MODULE ArenaClaims ----------------------------
(***************************************************************************)
(* Statements the repository makes about the match runner that the model   *)
(* of the code does not keep, with the counterexamples the README          *)
(* describes.                                                              *)
(***************************************************************************)
EXTENDS Arena

\* _maybe_sprt commits its terminal status without looking at the flags.
CancelBeatsSprt == \A t \in Tournaments :
    status[t] \in SprtTerminal => ~cancelReq[t]

\* A cancel that lands between the read of the PAUSING row and the commit of
\* PAUSED is parked with the match.
CancelBeatsPause == \A t \in Tournaments :
    status[t] = "PAUSED" => ~cancelReq[t]

\* scheduler.py: "Cancel wins over both pause and automatic completion."  A match
\* with an accepted cancel is neither parked nor ended by an SPRT verdict.
CancelWins == CancelBeatsSprt /\ CancelBeatsPause

\* scheduler.py, _maybe_sprt: the SPRT is updated "after every VERIFIED COMPLETE
\* pair" and stops the match.  A pair that recovery scores is not tested.
SprtStopsAtBoundary == \A t \in Sprt :
    completed[t] > 0 /\ SprtStatus(t, completed[t]) # "CONTINUE"
        => status[t] \in SprtTerminal \cup {"CANCELLED"}

\* tournaments.py, force_cancel_tournament: "the worker polls it, kills the
\* cutechess process group, and then marks the pair INTERRUPTED and the
\* tournament CANCELLED".  No tick looks at the flag of a PAUSED match.
ForceCancelIsApplied == \A t \in Tournaments :
    forceReq[t] ~> ~forceReq[t] \/ status[t] \in Ended

\* recovery.py, _kill_orphaned_pair: "a group that survives SIGKILL keeps its
\* identity so it is not silently lost".  The next heartbeat or launch of the
\* same worker replaces it.
SurvivorKeepsIdentity == \A k \in Pids :
    Running(k) => k = active \/ k = ident

\* scheduler.py, _record_active_process: "there is no launch-to-heartbeat
\* window in which recovery has no identity to clean up after an abnormal
\* worker death".  The window from Popen to the commit remains.
OrphanHasIdentity == \A k \in Pids :
    pc = "down" /\ Running(k) => k = ident

\* models.py, TOURNAMENT_TRANSITIONS: a status of Ended has no successor.  A
\* launch that read the row while it was QUEUED writes RUNNING over a cancel.
EndedNeverRuns == [][\A t \in Tournaments :
    status[t] \in Ended => status'[t] # "RUNNING"]_vars

\* models.py, TOURNAMENT_TRANSITIONS: the successors of RUNNING.  Recovery puts
\* a RUNNING match back to QUEUED.
RunningFollowsTable == [][\A t \in Tournaments :
    status[t] = "RUNNING" => status'[t] \in {"RUNNING", "PAUSING"} \cup Ended]_vars

\* README.md: "Every completed tournament produces combined.pgn, summary.json
\* and artifact-manifest.json".  The SPRT status is committed before them.
ResultHasArtifacts == \A t \in Tournaments :
    status[t] \in ResultTerminal /\ pc # "artifacts" => summary[t] = status[t]
=============================================================================
