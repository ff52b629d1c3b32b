--------------------------- MODULE StreamsStorage ---------------------------
(* StreamsStorage of src/wav/streams_storage.py and the life of the           *)
(* AsyncAudioStream objects in it (src/wav/streaming.py).  Request threads    *)
(* look streams up, store them and answer with them; a cleaner thread, and    *)
(* clear_by_dt, drop the streams that are deprecated.  The storage has a      *)
(* mutex, which the streams' own methods do not take.  A stream is stored     *)
(* under its own uuid, so the dictionary is a set of streams.                 *)
EXTENDS Naturals, FiniteSets

CONSTANTS Stream,         \* AsyncAudioStream objects
          Request,        \* request threads
          Cleaner,        \* names for the cleaner threads
          Controller,     \* the thread that calls start and stop
          None,           \* no thread, no stream
          Continue,       \* the streams with supports_infinite_continue
          WaitForEnd      \* the values of wait_for_end that stop is called with

Task == Request \cup Cleaner \cup {Controller}

ASSUME StorageAssumption ==
  /\ Request \cap Cleaner = {} /\ Controller \notin Request \cup Cleaner
  /\ None \notin Task \cup Stream
  /\ Continue \subseteq Stream
  /\ WaitForEnd \subseteq BOOLEAN

VARIABLES
  stored,  \* _streams_storage
  status,  \* status of each stream
  ready,   \* has it a sample_gen
  old,     \* is generators_inited_at longer ago than the lifetime
  mutex,   \* the thread that holds _mutex, or None
  event,   \* _stop_event
  thread,  \* _thread
  alive,   \* the cleaners that are alive
  pc,      \* where each thread is
  todo,    \* the keys its loop has yet to visit
  held,    \* the stream it is working on, or None
  once,    \* paused_once of the response it serves
  left     \* history: the cleaners that a stop did not wait for

streams == <<status, ready, old>>
control == <<event, thread, alive, left>>
local == <<todo, held, once>>
vars == <<stored, streams, mutex, control, pc, local>>

Goto(t, label) == pc' = [pc EXCEPT ![t] = label]

Init ==
  /\ stored = {} /\ mutex = None
  /\ status = [s \in Stream |-> "BASE_INITIALIZED"]
  /\ ready = [s \in Stream |-> FALSE]
  /\ old = [s \in Stream |-> TRUE]   \* generators_inited_at = datetime.min
  /\ event = FALSE /\ thread = None /\ alive = {} /\ left = {}
  /\ pc = [t \in Task |-> "idle"]
  /\ todo = [t \in Task |-> {}] /\ held = [t \in Task |-> None]
  /\ once = [r \in Request |-> FALSE]

\* Slip: only what comes after PAUSED_ONCE counts.
EndedLate == {"PAUSED", "STOPPED"}

\* The statuses from PAUSED_ONCE on.
Ended == {"PAUSED_ONCE", "PAUSED", "STOPPED"}

Deprecated(s) == old[s] /\ status[s] \in Ended

\* The lifetime of a stream's generators runs out.
Age(s) ==
  /\ ~old[s]
  /\ old' = [old EXCEPT ![s] = TRUE]
  /\ UNCHANGED <<stored, status, ready, mutex, control, pc, local>>

-----------------------------------------------------------------------------
(* AsyncAudioStream.start, and the close of its response; without a lock.    *)

Start(r, s) ==
  /\ pc[r] = "idle"
  /\ held' = [held EXCEPT ![r] = s]
  /\ once' = [once EXCEPT ![r] = status[s] = "PAUSED_ONCE"]
  /\ Goto(r, "init")
  /\ UNCHANGED <<streams, todo>>

InitGenerators(r) ==
  /\ pc[r] = "init"
  /\ ready' = [ready EXCEPT ![held[r]] = TRUE]
  /\ old' = [old EXCEPT ![held[r]] = FALSE]
  /\ status' = [status EXCEPT ![held[r]] = "GENERATORS_INITIALIZED"]
  /\ Goto(r, "run")
  /\ UNCHANGED local

\* The AES payload does not fit into a frame, or only information was asked for.
InitGeneratorsFails(r) ==
  /\ pc[r] = "init"
  /\ held' = [held EXCEPT ![r] = None]
  /\ Goto(r, "idle")
  /\ UNCHANGED <<streams, todo, once>>

Run(r) ==
  /\ pc[r] = "run"
  /\ status' = [status EXCEPT ![held[r]] = IF @ = "GENERATORS_INITIALIZED" THEN "RUNNING" ELSE @]
  /\ Goto(r, "open")
  /\ UNCHANGED <<ready, old, local>>

\* __make_stopped or __make_paused, whichever start has chosen.
Close(r) ==
  /\ pc[r] = "open"
  /\ status' = [status EXCEPT ![held[r]] = IF once[r] THEN "STOPPED"
                                           ELSE IF held[r] \in Continue THEN "PAUSED"
                                           ELSE "PAUSED_ONCE"]
  /\ held' = [held EXCEPT ![r] = None]
  /\ Goto(r, "idle")
  /\ UNCHANGED <<ready, old, todo, once>>

Respond(r) ==
  /\ (\E s \in Stream : Start(r, s)) \/ InitGenerators(r) \/ InitGeneratorsFails(r)
       \/ Run(r) \/ Close(r)
  /\ UNCHANGED <<stored, mutex, control>>

-----------------------------------------------------------------------------
(* The storage's methods, under its mutex.                                   *)

\* add_stream, which ws_endpoint.py calls before it starts the stream.
AddStream(r, s) ==
  /\ pc[r] = "idle" /\ mutex = None
  /\ stored' = stored \cup {s}
  /\ UNCHANGED <<mutex, pc, todo, held>>

\* clear_by_filter.
ClearByFilter(r) ==
  /\ pc[r] = "idle" /\ mutex = None
  /\ \E kept \in SUBSET stored : stored' = kept
  /\ UNCHANGED <<mutex, pc, todo, held>>

\* get_stream of a deprecated stream drops it; any other changes nothing.
GetStream(r, s) ==
  /\ pc[r] = "idle" /\ mutex = None
  /\ s \in stored /\ Deprecated(s)
  /\ mutex' = r
  /\ held' = [held EXCEPT ![r] = s]
  /\ Goto(r, "drop")
  /\ UNCHANGED <<stored, todo>>

\* Slip: the keys are listed before the mutex is taken.
SweepUnlocked(t) ==
  /\ pc[t] = IF t \in Cleaner THEN "lock" ELSE "idle"
  /\ todo' = [todo EXCEPT ![t] = stored]
  /\ Goto(t, "sweep")
  /\ UNCHANGED <<stored, mutex, held>>

\* __cleaner, called by the cleaner thread or by clear_by_dt: a list of the keys ...
Sweep(t) ==
  /\ pc[t] = IF t \in Cleaner THEN "lock" ELSE "idle"
  /\ mutex = None
  /\ mutex' = t
  /\ todo' = [todo EXCEPT ![t] = stored]
  /\ Goto(t, "sweep")
  /\ UNCHANGED <<stored, held>>

\* ... each of which is looked at, with a time of its own in clear_by_dt, ...
Visit(t) ==
  /\ pc[t] = "sweep"
  /\ \E s \in todo[t] :
       /\ ready[s]
       /\ todo' = [todo EXCEPT ![t] = @ \ {s}]
       /\ \/ /\ Deprecated(s) \/ (t \in Request /\ status[s] \in Ended)
             /\ held' = [held EXCEPT ![t] = s]
             /\ Goto(t, "drop")
          \/ /\ ~Deprecated(s)
             /\ UNCHANGED <<held, pc>>
  /\ UNCHANGED <<stored, mutex>>

\* ... and dropped.
Drop(t) ==
  /\ pc[t] = "drop"
  /\ stored' = stored \ {held[t]}
  /\ held' = [held EXCEPT ![t] = None]
  /\ \/ todo[t] = {} /\ t \in Request /\ mutex' = None /\ Goto(t, "idle")
     \/ (todo[t] # {} \/ t \in Cleaner) /\ Goto(t, "sweep") /\ UNCHANGED mutex
  /\ UNCHANGED todo

\* The end of the walk gives the mutex back.
SweepEnd(t) ==
  /\ pc[t] = "sweep"
  /\ todo[t] = {}
  /\ mutex' = None
  /\ Goto(t, IF t \in Cleaner THEN "wait" ELSE "idle")
  /\ UNCHANGED <<stored, todo, held>>

Store(r) ==
  /\ \/ \E s \in Stream : AddStream(r, s) \/ GetStream(r, s)
     \/ ClearByFilter(r) \/ Sweep(r)
     \/ Visit(r) \/ Drop(r) \/ SweepEnd(r)
  /\ UNCHANGED <<streams, control, once>>

\* A stream without sample_gen: the log line raises AttributeError, which ends
\* clear_by_dt, or the cleaner thread.
SweepRaises(t) ==
  /\ pc[t] = "sweep"
  /\ \E s \in todo[t] : ~ready[s]
  /\ mutex' = None
  /\ todo' = [todo EXCEPT ![t] = {}]
  /\ alive' = alive \ {t}
  /\ Goto(t, "idle")
  /\ UNCHANGED <<stored, streams, held, once, event, thread, left>>

-----------------------------------------------------------------------------
(* The cleaner thread, and start and stop.                                   *)

\* Slip: the answer of _stop_event.wait is not looked at.
WakeAnyway(c) ==
  /\ pc[c] = "wait"
  /\ Goto(c, "lock")
  /\ UNCHANGED alive

\* _stop_event.wait: the interval is over, or the event is set.
Wake(c) ==
  /\ pc[c] = "wait" /\ ~event
  /\ Goto(c, "lock")
  /\ UNCHANGED alive

End(c) ==
  /\ pc[c] = "wait" /\ event
  /\ alive' = alive \ {c}
  /\ Goto(c, "idle")

Clean(c) ==
  \/ /\ Wake(c) \/ End(c)
     /\ UNCHANGED <<stored, streams, mutex, event, thread, left, local>>
  \/ /\ Sweep(c) \/ Visit(c) \/ Drop(c) \/ SweepEnd(c)
     /\ UNCHANGED <<streams, control, once>>
  \/ SweepRaises(c)

StartCleaner ==
  /\ pc[Controller] = "idle"
  /\ thread = None
  /\ event' = FALSE
  /\ \E c \in Cleaner \ alive :
       /\ thread' = c
       /\ alive' = alive \cup {c}
       /\ Goto(c, "wait")
       /\ left' = left \ {c}

StopCleaner ==
  /\ pc[Controller] = "idle"
  /\ thread \in alive
  /\ event' = TRUE
  /\ \E wait \in WaitForEnd : Goto(Controller, IF wait THEN "join" ELSE "forget")
  /\ UNCHANGED <<thread, alive, left>>

\* Slip: stop forgets the thread whether it was asked to wait or not.
ForgetAtOnce ==
  /\ pc[Controller] \in {"join", "forget"}
  /\ left' = IF pc[Controller] = "forget" THEN left \cup {thread} ELSE left
  /\ thread' = None
  /\ Goto(Controller, "idle")
  /\ UNCHANGED <<event, alive>>

Forget ==
  /\ \/ pc[Controller] = "join" /\ thread \notin alive /\ UNCHANGED left
     \/ pc[Controller] = "forget" /\ left' = left \cup {thread}
  /\ thread' = None
  /\ Goto(Controller, "idle")
  /\ UNCHANGED <<event, alive>>

Control ==
  /\ StartCleaner \/ StopCleaner \/ Forget
  /\ UNCHANGED <<stored, streams, mutex, local>>

-----------------------------------------------------------------------------
Next ==
  \/ Control
  \/ \E r \in Request : Respond(r) \/ Store(r) \/ SweepRaises(r)
  \/ \E c \in Cleaner : Clean(c)
  \/ \E s \in Stream : Age(s)

Spec == Init /\ [][Next]_vars

\* The scheduler runs the cleaner, whoever holds the mutex, and the end of a stop;
\* time passes.  Requests come as they please, and so the cleaner must get the mutex
\* although they take it again and again.
FairSpec ==
  /\ Spec
  /\ \A c \in Cleaner : SF_vars(Clean(c))
  /\ \A r \in Request : WF_vars((Store(r) \/ SweepRaises(r)) /\ mutex = r)
  /\ WF_vars(Forget /\ UNCHANGED <<stored, streams, mutex, local>>)
  /\ \A s \in Stream : WF_vars(Age(s))

-----------------------------------------------------------------------------
(* Properties.                                                               *)

Statuses == {"BASE_INITIALIZED", "GENERATORS_INITIALIZED", "RUNNING"} \cup Ended

\* Every variable has its type, and the mutex belongs to the thread that walks or drops.
TypeOK ==
  /\ stored \subseteq Stream
  /\ status \in [Stream -> Statuses]
  /\ ready \in [Stream -> BOOLEAN] /\ old \in [Stream -> BOOLEAN]
  /\ \A t \in Task : mutex = t <=> pc[t] \in {"sweep", "drop"}
  /\ mutex \in Task \cup {None} /\ thread \in Cleaner \cup {None} /\ event \in BOOLEAN
  /\ alive = {c \in Cleaner : pc[c] # "idle"}
  /\ todo \in [Task -> SUBSET Stream] /\ held \in [Task -> Stream \cup {None}]

\* A key that the cleaner or get_stream is about to look up or delete is still there:
\* no KeyError, however many cleaners, lookups and clears run (lines 36-42, 62-64, 77-80).
KeysStay ==
  \A t \in Task :
    /\ pc[t] \in {"sweep", "drop"} => todo[t] \subseteq stored
    /\ pc[t] = "drop" => held[t] \in stored

\* A stop that waits is over when its cleaner is, and a start adds none to one that runs:
\* a cleaner that stop cannot reach is one that an earlier stop did not wait for
\* (lines 44-58).
OneCleaner == alive \subseteq {thread} \cup left

\* A stop that waits ends, though its cleaner has to get the mutex before it looks at
\* the event, and whoever uses the storage meanwhile.
StopEnds == (pc[Controller] = "join") ~> (pc[Controller] # "join")

\* A stream that is over leaves the storage, unless somebody starts it again, the
\* cleaner is stopped, or it dies of a stream that was never started.
Expires ==
  \A s \in Stream :
    (s \in stored /\ status[s] \in {"PAUSED_ONCE", "PAUSED", "STOPPED"} /\ thread \in alive)
      ~> (s \notin stored \/ status[s] \in {"GENERATORS_INITIALIZED", "RUNNING"} \/ event
            \/ thread \notin alive)

\* One cleaner runs at a time: the one of a stop that did not wait is gone before the next
\* start clears the event it was to see (lines 46, 53-57).
CleanerAlone == \A c, d \in alive : c = d

\* The cleaner lives until it is stopped, also while a stream in the storage has no
\* generators yet ("if self.sample_gen else False", streaming.py:61).
CleanerLives == thread # None /\ ~event => thread \in alive

\* A stream that is being read is running, though a browser requests it twice
\* ("Browser requests twice same stream", README.md).
RunningWhileOpen ==
  \A r \in Request : pc[r] = "open" => status[held[r]] = "RUNNING"

\* A stream that is being dropped is over; the test and the deletion are two steps, and
\* the streams do not know the mutex ("is_deprecated", streams_storage.py:79-80).
DropsWhatIsOver ==
  \A t \in Task : pc[t] = "drop" => status[held[t]] \in Ended
=============================================================================
