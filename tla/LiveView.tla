------------------------------ MODULE LiveView ------------------------------
(***************************************************************************)
(* The live page (LiveApp.jsx): it polls the status of a match every 1.5 s *)
(* without waiting for the former answer, so answers overtake each other.  *)
(***************************************************************************)
EXTENDS Integers

CONSTANT MaxPolls    \* bound: polls under way

VARIABLES
    phase,     \* "loading", or what the last answer said, or "error"
    payload,   \* status and replay link of the last payload
    polls      \* each poll: "free", "sent", "failed", or the answer on its way

live == <<phase, payload, polls>>

Answer(status, link) == [status |-> status, link |-> link]
Nothing == Answer("none", FALSE)
Free == Answer("free", FALSE)
Sent == Answer("sent", FALSE)
Failed == Answer("failed", FALSE)
Slots == 1 .. MaxPolls

\* The board needs a live match; a finished one has its scores and, if it has
\* a result, a link to the replay.
Screen == CASE phase = "loading" -> "connecting"
            [] phase = "error" -> "unavailable"
            [] phase = "idle" -> "nothing runs"
            [] phase = "completed" -> IF payload.link THEN "finished, replay" ELSE "finished"
            [] OTHER -> "board"

Slot(s, to) == polls' = [polls EXCEPT ![s] = to]
PollOnce(s) == /\ polls[s] = Free /\ phase # "error"      \* variant: gives up
               /\ Slot(s, Sent) /\ UNCHANGED <<phase, payload>>
\* At mount and at every interval, whatever is still under way.
Poll(s) == polls[s] = Free /\ Slot(s, Sent) /\ UNCHANGED <<phase, payload>>
Serve(s, answer) == polls[s] = Sent /\ Slot(s, answer) /\ UNCHANGED <<phase, payload>>

GotPayload(s) == /\ polls[s] \notin {Free, Sent, Failed}
                 /\ payload' = polls[s] /\ phase' = polls[s].status
                 /\ Slot(s, Free)
PollFailed(s) == /\ polls[s] = Failed
                 /\ phase' = "error" /\ UNCHANGED payload
                 /\ Slot(s, Free)

LiveInit == phase = "loading" /\ payload = Nothing /\ polls = [s \in Slots |-> Free]
=============================================================================
