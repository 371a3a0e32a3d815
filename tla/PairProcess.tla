---------------------------- MODULE PairProcess ----------------------------
(***************************************************************************)
(* The cutechess process groups (services/cutechess.py) and the identity   *)
(* of the current one in worker_state.  One group plays the two games of   *)
(* one pair and appends them to match.pgn in the attempt directory.        *)
(***************************************************************************)
EXTENDS ArenaState

CONSTANT SurviveKill  \* may a group outlive SIGKILL (uninterruptible sleep)?
ASSUME SurviveKill \in BOOLEAN

Running(k) == k \in Pids /\ proc[k].st = "running"

\* A group that is wholly gone, with the return code Popen.poll reports.
Gone(group, code) == [group EXCEPT !.st = "exited", !.rc = code]

\* cutechess appends: a file that already holds games and receives more no
\* longer holds exactly two games.
Append2(old, new) ==
    IF old = "none" THEN new ELSE IF new = "none" THEN old ELSE "odd"

\* cutechess ends by itself.  Exit code 0 means it played its schedule; the
\* games may still be rejected by the verifier.  Only a write to the current
\* attempt directory of the pair matters.
Exit(k) ==
    /\ Running(k)
    /\ \E code \in {0, 1}, played \in Pgn :
          /\ code = 0 => played # "none"
          /\ proc' = [proc EXCEPT ![k] = Gone(@, code)]
          /\ LET p == proc[k].pair IN
             pgn' = IF proc[k].attempt = attempt[p]
                    THEN [pgn EXCEPT ![p] = Append2(@, played)] ELSE pgn
    /\ UNCHANGED <<rows, pairRows, ident, summary, worker, faults>>

\* SIGTERM, grace, SIGKILL, 10 seconds: the outcomes of the termination of
\* group k.  TRUE is "confirmed gone".
Terminated(k) == {TRUE} \cup (IF SurviveKill /\ Running(k) THEN {FALSE} ELSE {})
\* Seeded fault: the signal is sent to the leader only, its engines live on.
LeaderOnly(k, gone) == IF gone /\ Running(k) THEN proc ELSE proc
AfterTermination(k, gone) ==
    IF gone /\ Running(k) THEN [proc EXCEPT ![k] = Gone(@, 1)] ELSE proc

\* Seeded fault: the retry goes into the directory of the failed attempt.
SameAttempt(S) ==
    /\ UNCHANGED attempt
    /\ pgn' = [p \in Pairs |-> IF p \in S THEN "none" ELSE pgn[p]]
\* The pairs in S start over in a fresh attempt directory, without exit
\* evidence; every other pair keeps its attempt.
StartOver(S) ==
    /\ attempt' = [p \in Pairs |-> IF p \in S THEN attempt[p] + 1 ELSE attempt[p]]
    /\ pgn' = [p \in Pairs |-> IF p \in S THEN "none" ELSE pgn[p]]
=============================================================================
