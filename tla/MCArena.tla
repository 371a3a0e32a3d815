------------------------------ MODULE MCArena ------------------------------
(* Instances of Arena for TLC. *)
EXTENDS ArenaClaims, TLC

\* One match of two pairs.
OneMatch == 1 :> 1 @@ 2 :> 1
\* A match of two pairs, then a match of one.
TwoMatches == 1 :> 1 @@ 2 :> 1 @@ 3 :> 2

NoWald == [x \in {} |-> "CONTINUE"]
\* The first match is an SPRT: the Wald test goes on, accepts or rejects after
\* the first pair and hits the ceiling after the second.
Undecided == [x \in {1} \X (1 .. 2) |-> "CONTINUE"]
UndecidedOfThree == [x \in {1} \X (1 .. 3) |-> "CONTINUE"]
AcceptedAtOnce == [x \in {1} \X (1 .. 2) |-> "SPRT_ACCEPT_H1"]
=============================================================================
