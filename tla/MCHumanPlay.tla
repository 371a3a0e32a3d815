---------------------------- MODULE MCHumanPlay ----------------------------
(* Instances of HumanPlay for TLC. *)
EXTENDS HumanPlay

\* The second of two quiet moves repeats (in chess, the 17th ply at the earliest).
SomeRepeats(hist) == hist = <<"q", "q">>
NoRepeats(hist) == FALSE

\* Two requests recorded the same move on the same position: to replay it, the
\* piece is moved from a square it has left.
SomeCorrupt(plies) ==
    \E i \in DOMAIN plies : \E j \in 1 .. i - 1 :
        plies[i].uci = plies[j].uci /\ plies[i].on = plies[j].on
=============================================================================
