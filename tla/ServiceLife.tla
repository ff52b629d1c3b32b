----------------------------- MODULE ServiceLife ----------------------------
(* What the core and a service thread expect of each other: the life of one   *)
(* instance, from its constructor to the end of its thread, and its state as  *)
(* far as ServerCore looks at it.  Whoever calls it, an instance runs at most *)
(* once, never after it was finalized, and ends finalized or down.            *)

CONSTANTS Renewed,     \* the process may die and its successor make the instance anew
          DiesRunning  \* an exception may end the thread while it is RUNNING

VARIABLES life,   \* absent, made, alive or ended
          state   \* READY, RUNNING, FINALIZED (or on the way there), or DOWN

vars == <<life, state>>

Init == life \in {"absent", "made"} /\ state = "READY"

\* The constructor is done.
Make == life = "absent" /\ life' = "made" /\ UNCHANGED state

\* Thread.start.
StartThread == life = "made" /\ life' = "alive" /\ UNCHANGED state

\* run passes its test of the state.
Begin ==
  /\ life = "alive" /\ state = "READY"
  /\ state' = "RUNNING"
  /\ UNCHANGED life

\* The connection or the bootstrap fails, whether or not finalize came before.
GoDown ==
  /\ life = "alive" /\ state \in {"RUNNING", "FINALIZED"}
  /\ state' = "DOWN"
  /\ life' \in {"alive", "ended"}

\* finalize looks at no state, and takes an instance that is down, or was never
\* started, as well.
Finalize ==
  /\ life # "absent"
  /\ state' = "FINALIZED"
  /\ UNCHANGED life

\* run returns, or raises.
End ==
  /\ life = "alive"
  /\ state \in {"FINALIZED", "DOWN"} \/ (DiesRunning /\ state = "RUNNING")
  /\ life' = "ended"
  /\ UNCHANGED state

Perish ==
  /\ Renewed
  /\ life' = "absent" /\ state' = "READY"

Next == Make \/ StartThread \/ Begin \/ GoDown \/ Finalize \/ End \/ Perish

Spec == Init /\ [][Next]_vars
=============================================================================
