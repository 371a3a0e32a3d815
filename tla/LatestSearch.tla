---------------------------- MODULE LatestSearch ----------------------------
(***************************************************************************)
(* What the browser analysis promises: one search at a time, the next one  *)
(* is always for the latest position asked for, and a score on the panel   *)
(* is the score of that position.                                          *)
(***************************************************************************)
CONSTANTS Requests,   \* everything that can be asked for
          None

VARIABLES want,    \* the latest request of the session
          run,     \* the request the engine searches
          shown    \* the request whose score is on the panel
vars == <<want, run, shown>>

Init == want = None /\ run = None /\ shown = None

\* A new position: the panel is cleared, an idle engine may take it at once.
Ask(r) == /\ r # want
          /\ want' = r /\ shown' = None
          /\ run' = run \/ (run = None /\ run' = r)

\* The engine stops, or turns to the latest request.
Turn == /\ run' \in {None, want} \ {run}
        /\ UNCHANGED <<want, shown>>

Show == /\ run # None /\ run = want
        /\ shown' = run
        /\ UNCHANGED <<want, run>>

Close == want' = None /\ run' = None /\ shown' = None

Next == (\E r \in Requests : Ask(r)) \/ Turn \/ Show \/ Close

Spec == Init /\ [][Next]_vars
=============================================================================
