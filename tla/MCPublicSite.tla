---------------------------- MODULE MCPublicSite ----------------------------
(* Instances of PublicSite for TLC. *)
EXTENDS PublicSite

Pgn(side, full, moves) == [side |-> side, full |-> full, moves |-> moves]
\* From the start, and from a book position with Black to move.
SomePgns == {Pgn("w", 1, 2), Pgn("b", 7, 3)}

Mate(n) == [mate |-> n, cp |-> None]
Cp(share) == [mate |-> None, cp |-> share]
\* A mate in none (unknown), Black mates, equal; White is better.
Evals == {Mate(0), Mate(-2), Cp(50)}
SomeAnalyses == [1 .. 3 -> Evals \cup {Cp(75)}] \cup [1 .. 4 -> Evals]
=============================================================================
