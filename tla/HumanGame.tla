------------------------------ MODULE HumanGame ------------------------------
(***************************************************************************)
(* The server side of human play: the row and the ply log of every game,   *)
(* the requests of the API (services/human_game.py, api/human_play.py) and *)
(* the executor of the worker (services/human_engine.py).                  *)
(*                                                                         *)
(* A request is two steps, because SQLite sessions read outside a          *)
(* transaction: Load reads the row, and a later step decides on what was   *)
(* read and writes, by id, only the attributes it changed.  The executor   *)
(* reads, searches outside any transaction and writes with a               *)
(* compare-and-swap.                                                       *)
(*                                                                         *)
(* A position is the sequence of moves that led to it.  The API judges it  *)
(* by its FEN alone; the executor replays the logged moves, so that only   *)
(* its board knows how often a position occurred, and only it can find     *)
(* that the log is not one game.                                           *)
(***************************************************************************)
EXTENDS Integers, Sequences, FiniteSets

CONSTANTS Games,        \* the games that can be created, numbered from 1
          Moves, Mates, \* moves, and those of them that end the game
          Cap,          \* human_play_max_total_active
          None,
          Repeats(_),   \* a history whose last position is drawn by repetition
          Corrupt(_)    \* a log that board.push raises an AssertionError on

ASSUME HumanAssumption ==
    /\ Games \subseteq Nat \ {0} /\ Games # {}
    /\ Moves # {} /\ Mates \subseteq Moves
    /\ Cap \in Nat \ {0}
    /\ None \notin Nat
\* Nothing was repeated before the first move.
ASSUME FreshBoard == ~Repeats(<< >>)

VARIABLES
    row,      \* human_games
    log,      \* human_game_moves: who moved, the move, the position it was made on
    late,     \* the TTL or the idle deadline of the game has passed
    calls,    \* requests that are under way or answered and not delivered
    executor  \* the worker: idle, about to expire a row or to clear its flag, or searching

served == <<row, log, late>>

Colors   == {"white", "black"}
Reads    == {"get", "restore", "resync"}   \* what a GET is for
Terminal == {"FINISHED", "RESIGNED", "EXPIRED", "ENGINE_FAILED"}
NoRow == [status |-> "NONE", pending |-> FALSE, rev |-> 0, fen |-> << >>, human |-> "white"]

Turn(pos) == IF Len(pos) % 2 = 0 THEN "white" ELSE "black"
Over(pos) == pos # << >> /\ pos[Len(pos)] \in Mates
Legal(pos, uci) == uci \in Moves /\ ~Over(pos)
\* The same on a board that has the history.
FenOnly(hist)  == Over(hist)           \* variant: a board made from the FEN
GameOver(hist) == Over(hist) \/ Repeats(hist)
\* The status a move leaves: a game that is over is FINISHED.
Outcome(over, status) == IF over THEN "FINISHED" ELSE status
History(g) == [i \in DOMAIN log[g] |-> log[g][i].uci]

Active(g) == row[g].status = "ACTIVE"
Owed(g)   == Active(g) /\ row[g].pending

\* game_payload: the row a request holds, and the plies it can read by now.
Payload(g, r, n) == [game |-> g, status |-> r.status, pending |-> r.pending,
                     rev |-> r.rev, turn |-> Turn(r.fen), human |-> r.human, len |-> n]

-----------------------------------------------------------------------------
(* Requests.  "live" is FALSE when nobody waits for the answer any more.    *)

Call(op, g, tok, uci, rev) ==
    [op |-> op, game |-> g, tok |-> tok, uci |-> uci, rev |-> rev,
     at |-> "sent", read |-> None, reply |-> None, live |-> TRUE]

\* The request ends with an answer; one nobody waits for just ends.
Answered(c, code, shown) ==
    (calls \ {c}) \cup
    {[Call(c.op, c.game, c.tok, None, 0) EXCEPT !.at = "answered",
        !.reply = [code |-> code, view |-> shown]] : waits \in {c.live} \ {FALSE}}

Sent(c, ops) == c \in calls /\ c.at = "sent" /\ c.op \in ops
\* authorize: the token belongs to the game.
Unauthorized(c) == /\ Sent(c, Reads \cup {"submit", "resign"}) /\ c.tok # c.game
                   /\ calls' = Answered(c, 401, None)
                   /\ UNCHANGED <<served, executor>>

\* apply_lazy_expiry: EXPIRED is written by id, over what the row is by then.
ExpireRow(g, wasPending) ==
    row' = [row EXCEPT ![g].status = "EXPIRED", ![g].pending = @ /\ ~wasPending]

\* get_human_game, with the expiry it may find.
Get(c) ==
    LET g == c.game
        expired == Active(g) /\ late[g]
    IN  /\ Sent(c, Reads) /\ c.tok = g
        /\ IF expired THEN ExpireRow(g, row[g].pending) ELSE UNCHANGED row
        /\ calls' = Answered(c, 200, Payload(g, row'[g], Len(log[g])))
        /\ UNCHANGED <<log, late, executor>>

\* get_game of a move or a resignation: the row it will decide on.
Load(c) ==
    /\ Sent(c, {"submit", "resign"}) /\ c.tok = c.game
    /\ calls' = (calls \ {c}) \cup
                {[c EXCEPT !.at = "read",
                           !.read = [row |-> row[c.game], len |-> Len(log[c.game]),
                                     late |-> late[c.game]]]}
    /\ UNCHANGED <<served, executor>>

Decides(c, op) == c \in calls /\ c.at = "read" /\ c.op = op
SeesLate(c) == c.read.row.status = "ACTIVE" /\ late[c.game]

\* get_game commits EXPIRED; a deadline that passes between it and the second
\* look is refused as well, but what that look wrote is rolled back.
ExpireFirst(c) ==
    /\ Decides(c, "submit") \/ Decides(c, "resign")
    /\ SeesLate(c)
    /\ IF c.read.late THEN ExpireRow(c.game, c.read.row.pending) ELSE UNCHANGED row
    /\ calls' = Answered(c, 410, None)
    /\ UNCHANGED <<log, late, executor>>

\* The checks of submit_human_move, in the order of the code.
Refusal(c) ==
    LET r == c.read.row IN
    CASE r.status # "ACTIVE" -> 410
      [] r.status = "ACTIVE" /\ (r.pending \/ r.rev # c.rev \/ Turn(r.fen) # r.human) -> 409
      [] r.status = "ACTIVE" /\ ~r.pending /\ r.rev = c.rev /\ Turn(r.fen) = r.human
            /\ ~Legal(r.fen, c.uci) -> 400
      [] OTHER -> None

Refuse(c) ==
    /\ Decides(c, "submit") /\ ~SeesLate(c)
    /\ Refusal(c) # None
    /\ calls' = Answered(c, Refusal(c), None)
    /\ UNCHANGED <<served, executor>>

\* The ply is taken: count + 1, the position and the revision follow from the
\* row that was read, a status is written only when the game is over.
Accept(c) ==
    LET g == c.game
        r == c.read.row
        pos == Append(r.fen, c.uci)
        over == Over(pos)
        seen == [r EXCEPT !.fen = pos, !.rev = @ + 1, !.pending = ~over,
                          !.status = Outcome(over, @)]
    IN  /\ Decides(c, "submit") /\ ~SeesLate(c)
        /\ Refusal(c) = None
        /\ row' = [row EXCEPT ![g].fen = pos, ![g].rev = r.rev + 1,
                              ![g].pending = @ \/ ~over,
                              ![g].status = Outcome(over, @)]
        /\ log' = [log EXCEPT ![g] = Append(@, [by |-> "human", uci |-> c.uci, on |-> r.fen])]
        /\ calls' = Answered(c, 200, Payload(g, seen, Len(log'[g])))
        /\ UNCHANGED <<late, executor>>
\* The ply was counted before another one was committed: unique violation.
PlyTaken(c) ==
    /\ Decides(c, "submit") /\ ~SeesLate(c)
    /\ Refusal(c) = None /\ c.read.len < Len(log[c.game])
    /\ calls' = Answered(c, 500, None)
    /\ UNCHANGED <<served, executor>>

Resign(c) ==
    LET g == c.game
        r == c.read.row
    IN  /\ Decides(c, "resign") /\ ~SeesLate(c)
        /\ IF r.status = "ACTIVE"
           THEN /\ row' = [row EXCEPT ![g].status = "RESIGNED", ![g].pending = @ /\ ~r.pending]
                /\ calls' = Answered(c, 200, Payload(g, [r EXCEPT !.status = "RESIGNED",
                                                                  !.pending = FALSE],
                                                     Len(log[g])))
           ELSE calls' = Answered(c, 410, None) /\ UNCHANGED row
        /\ UNCHANGED <<log, late, executor>>

\* create_game: abandoned games are expired, then the ACTIVE ones counted; a
\* refusal comes before the commit and takes the expiries back.  Black owes
\* the engine's first move from the start.
Unborn == {g \in Games : row[g].status = "NONE"}
NewRow(color) == [NoRow EXCEPT !.status = "ACTIVE", !.human = color,
                               !.pending = (color = "black")]
Reaped == [g \in Games |-> IF Active(g) /\ late[g]
                           THEN [row[g] EXCEPT !.status = "EXPIRED", !.pending = FALSE]
                           ELSE row[g]]
Create(c) ==
    LET active == {g \in Games : Reaped[g].status = "ACTIVE"} IN
    /\ Sent(c, {"create"})
    /\ IF Cardinality(active) >= Cap
       THEN UNCHANGED row /\ calls' = Answered(c, 503, None)
       ELSE \E g \in Unborn :
                /\ \A h \in Unborn : g <= h
                /\ row' = [Reaped EXCEPT ![g] = NewRow(c.uci)]
                /\ calls' = Answered(c, 201, Payload(g, NewRow(c.uci), 0))
    /\ UNCHANGED <<log, late, executor>>

Api(c) == Unauthorized(c) \/ Get(c) \/ Load(c) \/ ExpireFirst(c) \/ Refuse(c)
          \/ Accept(c) \/ PlyTaken(c) \/ Resign(c) \/ Create(c)


\* Time passes: an ACTIVE game crosses its TTL or its idle deadline.
DeadlinePasses(g) == /\ Active(g) /\ ~late[g]
                     /\ late' = [late EXCEPT ![g] = TRUE]
                     /\ UNCHANGED <<row, log, calls, executor>>

-----------------------------------------------------------------------------
(* The executor: one worker, one owed reply at a time.                     *)

Idle == [at |-> "idle", game |-> None, rev |-> 0, hist |-> << >>]

\* next_pending_game meets a stale row; the EXPIRED it sets is flushed later.
FindStale(g) == /\ executor = Idle /\ Owed(g) /\ late[g]
                /\ executor' = [Idle EXCEPT !.at = "flush", !.game = g]
                /\ UNCHANGED <<served, calls>>
FlushStale == /\ executor.at = "flush"
              /\ ExpireRow(executor.game, TRUE)
              /\ executor' = Idle
              /\ UNCHANGED <<log, late, calls>>

\* service_pending_move reads the row and replays the log.  On a log that is
\* not one game the replay raises what nobody catches but the loop: nothing
\* is written, and the next tick finds the same game again.
Serves(g) == executor = Idle /\ Owed(g) /\ ~late[g] /\ ~Corrupt(log[g])
\* The state the compare-and-swap will ask for, and the history to search.
Take(g) == /\ Serves(g) /\ ~GameOver(History(g))
           /\ executor' = [at |-> "search", game |-> g, rev |-> row[g].rev,
                           hist |-> History(g)]
           /\ UNCHANGED <<served, calls>>
\* The game is over on this board: the flag is cleared, by id, without a move
\* and without a status.
SeeOver(g) == /\ Serves(g) /\ GameOver(History(g))
              /\ executor' = [Idle EXCEPT !.at = "clear", !.game = g]
              /\ UNCHANGED <<served, calls>>
SkipOnly == /\ executor.at = "clear"                 \* variant: the flag stays
            /\ executor' = Idle /\ UNCHANGED <<served, calls>>
ClearFlag == /\ executor.at = "clear"
             /\ row' = [row EXCEPT ![executor.game].pending = FALSE]
             /\ executor' = Idle
             /\ UNCHANGED <<log, late, calls>>

Searching == executor.at = "search"
\* Variant: the compare-and-swap does not ask for the status.
OwnsPending == row[executor.game].pending /\ row[executor.game].rev = executor.rev
Owns == Owed(executor.game) /\ row[executor.game].rev = executor.rev
AnyPly == TRUE                         \* variant: no unique ply number
\* The next ply number is free: unique(human_game_id, ply).
PlyFree == Len(log[executor.game]) = Len(executor.hist)

\* The best move wins the compare-and-swap and its ply is free.
Land(m) ==
    LET g == executor.game
        pos == Append(executor.hist, m)
    IN  /\ Searching /\ Owns /\ ~late[g] /\ PlyFree
        /\ row' = [row EXCEPT ![g].fen = pos, ![g].pending = FALSE,
                              ![g].rev = executor.rev + 1,
                              ![g].status = Outcome(GameOver(pos), "ACTIVE")]
        /\ log' = [log EXCEPT ![g] = Append(@, [by |-> "engine", uci |-> m,
                                                on |-> executor.hist])]
        /\ executor' = Idle
        /\ UNCHANGED <<late, calls>>
\* The insert violates the unique ply: all of it is rolled back.
LandCollides == /\ Searching /\ Owns /\ ~late[executor.game] /\ ~PlyFree
                /\ executor' = Idle /\ UNCHANGED <<served, calls>>
\* The swap is lost to a deadline: _expire_if_stale_owner.
LostToDeadline == /\ Searching /\ Owns /\ late[executor.game]
                  /\ ExpireRow(executor.game, TRUE)
                  /\ executor' = Idle
                  /\ UNCHANGED <<log, late, calls>>
\* The swap is lost to another writer: the move, or the failure, is dropped.
LostRace == /\ Searching /\ ~Owns
            /\ executor' = Idle /\ UNCHANGED <<served, calls>>
\* _fail_game: no move, a malformed or an illegal one, a dead or silent engine.
EngineFails == /\ Searching /\ Owns
               /\ row' = [row EXCEPT ![executor.game].status = "ENGINE_FAILED",
                                     ![executor.game].pending = FALSE]
               /\ executor' = Idle
               /\ UNCHANGED <<log, late, calls>>

Answer == (\E m \in Moves : Land(m)) \/ LandCollides \/ LostToDeadline \/ LostRace \/ EngineFails
Serve == (\E g \in Games : FindStale(g) \/ Take(g) \/ SeeOver(g))
         \/ FlushStale \/ ClearFlag \/ Answer

\* The worker dies: only the search is lost.
WorkerCrash == /\ executor # Idle
               /\ executor' = Idle /\ UNCHANGED <<served, calls>>

ServerInit == /\ row = [g \in Games |-> NoRow] /\ log = [g \in Games |-> << >>]
              /\ late = [g \in Games |-> FALSE]
              /\ calls = {} /\ executor = Idle
=============================================================================
