----------------------------- MODULE MessageFate ----------------------------
(* What becomes of one message that a radio was given: it is waited for once  *)
(* it has been entered, and then gets one verdict, which is final, or is      *)
(* forgotten by finalize and never gets one.                                  *)

VARIABLES fate,    \* unsent, sent, pending, reported or forgotten
          verdict  \* the statuses that the clients were told

vars == <<fate, verdict>>

Init == fate = "unsent" /\ verdict = <<>>

Moves(from, to) == fate = from /\ fate' = to

\* sendText gives the message its id, ...
Send == Moves("unsent", "sent") /\ UNCHANGED verdict

\* ... which becomes pending, ...
Note == Moves("sent", "pending") /\ UNCHANGED verdict

\* ... until an answer of the radio comes in,
Answer == Moves("pending", "reported") /\ verdict' \in {<<"Success">>, <<"Error">>}

\* or finalize clears the pending ids.
Forget == Moves("pending", "forgotten") /\ UNCHANGED verdict

Next == Send \/ Note \/ Answer \/ Forget

Spec == Init /\ [][Next]_vars
=============================================================================
