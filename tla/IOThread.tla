------------------------------ MODULE IOThread ------------------------------
(* IOQueuedThread of src/core/core_threading.py: the life cycle that the      *)
(* service threads inherit.  A service thread has a state, a stop signal, two *)
(* bounded queues and a mutex; run() is its first step, finalize() is called  *)
(* by itself (on a "stop" command) or by the thread that stops the core.      *)
(* Queue operations take effect in one step, as ConcurrentDequeue guarantees. *)
EXTENDS Integers, Sequences

CONSTANTS Worker,     \* the service thread itself
          Caller,     \* the threads that call into it
          NoThread,   \* the owner of a free mutex
          Reentrant,  \* FALSE in the code: self._mutex = threading.Lock()
          MaxIn,      \* input_queue_max_size
          MaxOut      \* output_queue_max_size

Thread == {Worker} \cup Caller

ASSUME IOThreadAssumption ==
  /\ Worker \notin Caller
  /\ NoThread \notin Thread
  /\ Reentrant \in BOOLEAN
  /\ MaxIn \in Nat \ {0} /\ MaxOut \in Nat \ {0}

VARIABLES state,   \* _thread_state
          stop,    \* _stop_signal
          mutex,   \* the thread that holds _mutex, or NoThread
          depth,   \* how many times it holds it
          input,   \* _input_queue: commands
          output,  \* _output_queue: what the clients read
          pc       \* where each thread is

shared == <<state, stop, mutex, depth, input, output>>
threadVars == <<shared, pc>>

States == {"READY", "RUNNING", "FINALIZING", "FINALIZED",
           "INTERNAL_ERROR_DOWN", "EXTERNAL_ERROR_DOWN"}

IsRunning == state \in {"RUNNING", "FINALIZING"}
IsFinalizable == state \in {"READY", "RUNNING"}

\* What put leaves in a queue of capacity n: a full one forgets its oldest item.
Pushed(q, i, n) == IF Len(q) < n THEN Append(q, i) ELSE Append(Tail(q), i)

\* The first n items of a queue, and the others.
Front(q, n) == SubSeq(q, 1, IF n < Len(q) THEN n ELSE Len(q))
Rest(q, n) == SubSeq(q, n + 1, Len(q))

IOInit ==
  /\ state = "READY" /\ stop = FALSE
  /\ mutex = NoThread /\ depth = 0
  /\ input = <<>> /\ output = <<>>
  /\ pc = [t \in Thread |-> IF t = Worker THEN "new" ELSE "idle"]

Goto(t, label) == pc' = [pc EXCEPT ![t] = label]

-----------------------------------------------------------------------------
(* The mutex.                                                                *)

Lock(t) ==
  /\ mutex = NoThread \/ (Reentrant /\ mutex = t)
  /\ mutex' = t
  /\ depth' = depth + 1

Unlock(t) ==
  /\ depth' = depth - 1
  /\ mutex' = IF depth = 1 THEN NoThread ELSE t

-----------------------------------------------------------------------------
(* run.                                                                      *)

\* Thread.start: run begins.
Start ==
  /\ pc[Worker] = "new"
  /\ Goto(Worker, "run")
  /\ UNCHANGED shared

\* Slip: run does not look at the state.
RunAnyway ==
  /\ pc[Worker] = "run"
  /\ mutex = NoThread
  /\ state' = "RUNNING"
  /\ Goto(Worker, "boot")
  /\ UNCHANGED <<stop, mutex, depth, input, output>>

\* IOQueuedThread.run under its mutex; the service's own run goes on at "boot".
RunReady ==
  /\ pc[Worker] = "run"
  /\ mutex = NoThread
  /\ state = "READY"
  /\ state' = "RUNNING"
  /\ Goto(Worker, "boot")
  /\ UNCHANGED <<stop, mutex, depth, input, output>>

\* Any other state raises RuntimeError, which ends the thread.
RunRefused ==
  /\ pc[Worker] = "run"
  /\ mutex = NoThread
  /\ state # "READY"
  /\ Goto(Worker, "dead")
  /\ UNCHANGED shared

-----------------------------------------------------------------------------
(* finalize, entered at "super" by the service's own finalize and left at     *)
(* "finalized".                                                               *)

FinalizeEnter(t) ==
  /\ pc[t] = "super"
  /\ Lock(t)
  /\ Goto(t, IF state = "FINALIZING" THEN "drop_input" ELSE "signal")
  /\ state' = "FINALIZING"
  /\ UNCHANGED <<stop, input, output>>

FinalizeSignal(t) ==
  /\ pc[t] = "signal"
  /\ stop' = TRUE
  /\ Goto(t, "drop_input")
  /\ UNCHANGED <<state, mutex, depth, input, output>>

FinalizeDropInput(t) ==
  /\ pc[t] = "drop_input"
  /\ input' = <<>>
  /\ Goto(t, "drop_output")
  /\ UNCHANGED <<state, stop, mutex, depth, output>>

FinalizeDropOutput(t) ==
  /\ pc[t] = "drop_output"
  /\ output' = <<>>
  /\ Goto(t, "final")
  /\ UNCHANGED <<state, stop, mutex, depth, input>>

FinalizeLeave(t) ==
  /\ pc[t] = "final"
  /\ state' = "FINALIZED"
  /\ Unlock(t)
  /\ Goto(t, "finalized")
  /\ UNCHANGED <<stop, input, output>>

\* The steps of the base class that leave the queues alone.
BaseStep(t) ==
  \/ FinalizeEnter(t)
  \/ FinalizeSignal(t)
  \/ FinalizeDropOutput(t)
  \/ FinalizeLeave(t)

-----------------------------------------------------------------------------
(* The thread as the core sees it.                                           *)

\* The state as far as is_finalizable and run tell states apart.
StateSeen ==
  IF state \in {"READY", "RUNNING"} THEN state
  ELSE IF state \in {"FINALIZING", "FINALIZED"} THEN "FINALIZED"
  ELSE "DOWN"

\* Whether there is an instance, whether it has been started, and whether its thread
\* is alive; in the labels of unborn there is none yet.
LifeSeen(unborn) ==
  IF pc[Worker] \in unborn THEN "absent"
  ELSE IF pc[Worker] = "new" THEN "made"
  ELSE IF pc[Worker] = "dead" THEN "ended"
  ELSE "alive"

FinalizeLabels ==
  {"super", "signal", "drop_input", "drop_output", "final", "finalized"}

IOTypeOK ==
  /\ state \in States
  /\ stop \in BOOLEAN
  /\ mutex \in Thread \cup {NoThread}
  /\ depth \in 0..2
=============================================================================
