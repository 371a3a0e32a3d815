----------------------------- MODULE ReplayView -----------------------------
(***************************************************************************)
(* The replay page (App.jsx) of one game: its three fetches, the numbered  *)
(* move list, the marks and jumps computed from the server's analysis, and *)
(* navigation by keys, wheel, buttons and autoplay.                        *)
(*                                                                         *)
(* Shares of the winning chances are integer percentages; a centipawn      *)
(* score stands for the percentage the logistic curve gives it.            *)
(***************************************************************************)
EXTENDS Integers, Sequences, FiniteSets, SequencesExt, FiniteSetsExt

CONSTANTS Pgns,       \* what a PGN holds: [side, full, moves] of its start and length
          Analyses,   \* positions of an artifact: a sequence of [mate, cp]
          None

ASSUME ReplayAssumption ==
    /\ \A g \in Pgns : g.side \in {"w", "b"} /\ g.full \in Nat \ {0} /\ g.moves \in Nat
    /\ \A a \in Analyses : \A i \in 1 .. Len(a) :
          \A v \in {a[i].mate, a[i].cp} : v = None \/ v \in Int

VARIABLES
    stage,      \* status, with the fetch under way while it is "loading"
    analyzed,   \* match detail: the game had an analysis
    game,       \* moves and startFen
    positions,  \* diagnostics.positions; empty when there are none
    ply, playing

replay == <<stage, analyzed, game, positions, ply, playing>>

NoGame == [side |-> "w", full |-> 1, moves |-> 0]
Loading == {"match", "pgn", "analysis"}
Ready == stage = "ready"
N == game.moves
Plies == 1 .. N

-----------------------------------------------------------------------------
(* Move numbers and rows, from the FEN the game starts with. *)

Other(c) == IF c = "w" THEN "b" ELSE "w"
\* chess.js: the colours alternate from the side to move.
Color(i) == IF i % 2 = 1 THEN game.side ELSE Other(game.side)
\* Full moves before the start, per colour.
Before(c) == IF c = "w" /\ game.side = "b" THEN game.full ELSE game.full - 1
CountFromOne(i) == (i + 1) \div 2       \* variant: the game starts with 1.White
MoveNumber(i) ==
    LET same == {k \in 1 .. i - 1 : Color(k) = Color(i)}
    IN Before(Color(i)) + Cardinality(same) + 1

NewRow(i) == [n |-> MoveNumber(i), w |-> 0, b |-> 0]
InRow(row, i) == [row EXCEPT ![Color(i)] = i]
\* A ply goes to the row of its number, or opens a new last row.
Place(rows, i) ==
    LET at == SelectInSeq(rows, LAMBDA row : row.n = MoveNumber(i))
    IN IF at = 0 THEN Append(rows, InRow(NewRow(i), i))
       ELSE [rows EXCEPT ![at] = InRow(@, i)]
Rows == FoldLeft(Place, << >>, [i \in Plies |-> i])

-----------------------------------------------------------------------------
(* Swings, marks and jumps. *)

Clamp(share) == Max({2, Min({98, share})})
ShareOf(e) == CASE e.mate = 0 -> None
                [] e.mate # None /\ e.mate # 0 -> IF e.mate > 0 THEN 98 ELSE 2
                [] e.mate = None /\ e.cp = None -> None
                [] OTHER -> Clamp(e.cp)

Unknown(i) == [ply |-> i, loss |-> 0, known |-> FALSE]
Swing(i) ==
    LET before == ShareOf(positions[i])
        after  == ShareOf(positions[i + 1])
    IN IF before = None \/ after = None \/ i > N THEN Unknown(i)
       ELSE [ply |-> i, known |-> TRUE,
             loss |-> IF Color(i) = "w" THEN before - after ELSE after - before]
AllSwings == [i \in 1 .. Len(positions) - 1 |-> Swing(i)]
KnownSwings == SelectSeq(AllSwings, LAMBDA s : s.known)   \* variant: unknown ones are skipped
Swings == AllSwings

Inaccuracy == 10
Mark(loss) == CASE loss >= 35 -> "??" [] loss \in 20 .. 34 -> "?"
                [] loss \in Inaccuracy .. 19 -> "?!" [] OTHER -> ""
\* markFor(i - 1): the mark beside ply i in its row.
MarkOf(i) == IF i <= Len(Swings) /\ Swings[i].known THEN Mark(Swings[i].loss) ELSE ""

ErrorPlies == {s.ply : s \in {t \in Range(Swings) : t.known /\ t.loss >= Inaccuracy}}
Worse(best, s) == IF s.known /\ s.loss > best.loss THEN s ELSE best
Biggest == FoldLeft(Worse, Unknown(0), Swings).ply

\* Among these errors, the next one or around to the first; without any, p.
NextOrSame(errors, p) == LET later == {e \in errors : e >= p}    \* variant
                         IN IF later # {} THEN Min(later)
                            ELSE IF errors # {} THEN Min(errors) ELSE p
NextError(errors, p) == LET later == {e \in errors : e > p}
                        IN IF later # {} THEN Min(later)
                           ELSE IF errors # {} THEN Min(errors) ELSE p
PrevError(errors, p) == LET earlier == {e \in errors : e < p}
                        IN IF earlier # {} THEN Max(earlier)
                           ELSE IF errors # {} THEN Max(errors) ELSE p

-----------------------------------------------------------------------------
(* Loading: what the server answered comes as a parameter. *)

Still == UNCHANGED <<ply, playing>>
Fails == stage' = "error" /\ UNCHANGED <<analyzed, game, positions>> /\ Still

\* Match detail: the game must be in it, and says whether it was analysed.
GotMatch(known) == /\ stage = "match" /\ stage' = "pgn"
                   /\ analyzed' = known
                   /\ UNCHANGED <<game, positions>> /\ Still
\* The moves are on the page from here, still under "Loading".
GotPgn(pgn) == /\ stage = "pgn"
               /\ stage' = IF analyzed THEN "analysis" ELSE "ready"
               /\ game' = pgn /\ UNCHANGED <<analyzed, positions>> /\ Still
\* Without the match or the moves there is no replay.
Refused == stage \in {"match", "pgn"} /\ Fails
\* Optional: a refusal (no positions) leaves a replay without diagnostics.
GotAnalysis(seq) == /\ stage = "analysis" /\ stage' = "ready"
                    /\ positions' = seq /\ UNCHANGED <<analyzed, game>> /\ Still
\* A fetch that throws, the optional one too, fails the whole page.
NetworkFails == stage \in Loading /\ Fails

-----------------------------------------------------------------------------
(* Navigation. *)

Frozen == UNCHANGED <<stage, analyzed, game, positions>>
GoTo(p) == ply' = p /\ UNCHANGED playing /\ Frozen

\* Arrow keys, buttons, wheel; Home and End, first and last; a move's button.
StepUnbounded == Ready /\ GoTo(ply + 1)           \* variant
StepForward == Ready /\ GoTo(Min({N, ply + 1}))
StepBack == Ready /\ GoTo(Max({0, ply - 1}))
ClickMove == \E p \in Plies \cup {0, N} : Ready /\ GoTo(p)

\* The panel needs a position under the cursor, each button something to show.
Panel == Ready /\ ply < Len(positions)
JumpToBiggest == Panel /\ Biggest # 0 /\ GoTo(Biggest)
ClickNextError == Panel /\ ErrorPlies # {} /\ GoTo(NextError(ErrorPlies, ply))
ClickPrevError == Panel /\ ErrorPlies # {} /\ GoTo(PrevError(ErrorPlies, ply))

\* Space or the button; from the last position it starts over.
TogglePlay == /\ Ready /\ playing' = ~playing
              /\ ply' = IF ~playing /\ ply >= N THEN 0 ELSE ply
              /\ Frozen
\* The interval of 600 ms.
TickForever == /\ Ready /\ playing                  \* variant: it never stops
               /\ ply' = Min({N, ply + 1}) /\ UNCHANGED playing /\ Frozen
Tick == /\ Ready /\ playing
        /\ IF ply >= N THEN playing' = FALSE /\ UNCHANGED ply
           ELSE ply' = ply + 1 /\ UNCHANGED playing
        /\ Frozen

Navigate == StepForward \/ StepBack \/ ClickMove
Jump == JumpToBiggest \/ ClickNextError \/ ClickPrevError
Visitor == Navigate \/ Jump \/ TogglePlay

ReplayInit == /\ stage = "match" /\ analyzed = FALSE
              /\ game = NoGame /\ positions = << >>
              /\ ply = 0 /\ playing = FALSE

-----------------------------------------------------------------------------
(* What the page promises. *)

\* The full-move counter as FEN defines it: it grows after Black's moves.
FenNumber[i \in Plies] ==
    IF i = 1 THEN game.full
    ELSE FenNumber[i - 1] + (IF Color(i - 1) = "b" THEN 1 ELSE 0)

\* Each ply stands in exactly one place of the move list, in the row of its
\* number by the FEN rules and the column of its colour, in playing order,
\* also when a book position starts with Black to move at move 7.
RowsFollowTheFen ==
    LET rows == Rows IN
    Ready =>
        /\ \A i \in Plies : \E r \in DOMAIN rows :
              rows[r].n = FenNumber[i] /\ rows[r][Color(i)] = i
        /\ \A r \in DOMAIN rows :
              /\ {rows[r].w, rows[r].b} \cap Plies # {}
              /\ 0 \notin {rows[r].w, rows[r].b} => rows[r].b = rows[r].w + 1
              /\ r > 1 => rows[r].n = rows[r - 1].n + 1

\* The move list, the error buttons and the biggest swing read the same
\* analysis in three ways and agree: a marked ply is one the error buttons
\* stop at, its own move lost the share, and the biggest swing is one of them.
MarksAreErrors ==
    LET errors == ErrorPlies IN
    Ready /\ positions # << >> =>
        /\ errors = {i \in Plies : MarkOf(i) # ""}
        /\ errors # {} => Biggest \in errors
        /\ \A i \in errors :
              LET white == ShareOf(positions[i + 1]) - ShareOf(positions[i])
              IN Color(i) = "w" <=> white < 0

\* "Error" forward and back undo each other around the ring of errors, and a
\* lone error is where both lead from anywhere.
ErrorButtonsCycle ==
    LET errors == ErrorPlies
        next(p) == NextError(errors, p)
        prev(p) == PrevError(errors, p)
    IN Ready /\ errors # {} =>
        /\ \A e \in errors : prev(next(e)) = e /\ next(prev(e)) = e
        /\ {next(p) : p \in 0 .. N} = errors

\* The position shown is one of the game's: applying a ply beyond the last
\* move throws while rendering, and the page goes white.
PlyInGame == ply \in 0 .. N
=============================================================================
