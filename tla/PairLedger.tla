----------------------------- MODULE PairLedger -----------------------------
(***************************************************************************)
(* What the match runner promises about results, whatever happens to the   *)
(* worker: pairs are played one at a time, an attempt may be abandoned and *)
(* played again, and a pair is scored or failed once and for all.  A match *)
(* with a failed pair plays no more.  "Pair boundaries are the only        *)
(* scoring points" (services/scheduler.py).                                *)
(***************************************************************************)
EXTENDS Integers

CONSTANTS Tournaments, Pairs, Match

VARIABLES
    playing,  \* the pair on the board, at most one
    scored,   \* the pairs with a result
    failed,   \* the pairs that will never have one
    tally     \* completed_pairs of each match

ledger == <<playing, scored, failed, tally>>

Init ==
    /\ playing = {} /\ scored = {} /\ failed = {}
    /\ tally = [t \in Tournaments |-> 0]

Open(p) ==
    /\ p \notin scored \cup failed
    /\ \A q \in failed : Match[q] # Match[p]

Begin(p) ==
    /\ playing = {} /\ Open(p)
    /\ playing' = {p}
    /\ UNCHANGED <<scored, failed, tally>>

Abandon ==
    /\ playing # {} /\ playing' = {}
    /\ UNCHANGED <<scored, failed, tally>>

Score(p) ==
    /\ p \in playing /\ Open(p)
    /\ playing' = {} /\ scored' = scored \cup {p}
    /\ tally' = [tally EXCEPT ![Match[p]] = @ + 1]
    /\ UNCHANGED failed

\* The attempt on the board fails, or one that could not even be launched.
Fail(p) ==
    /\ playing \subseteq {p} /\ Open(p)
    /\ playing' = {} /\ failed' = failed \cup {p}
    /\ UNCHANGED <<scored, tally>>

Next == Abandon \/ \E p \in Pairs : Begin(p) \/ Score(p) \/ Fail(p)

Spec == Init /\ [][Next]_ledger
=============================================================================
