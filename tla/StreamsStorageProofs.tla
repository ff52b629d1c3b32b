------------------------ MODULE StreamsStorageProofs ------------------------
(* Theorems about StreamsStorage, for any streams, request threads and        *)
(* cleaners.                                                                  *)
EXTENDS StreamsStorage, TLAPS

(* The inductive invariant: where the threads are, and what each of them has  *)
(* in hand there.  KeysStay is a part of it.                                  *)

PcOK ==
  /\ pc \in [Task -> {"idle", "init", "run", "open", "sweep", "drop", "lock", "wait", "join", "forget"}]
  /\ once \in [Request -> BOOLEAN]
  /\ \A r \in Request : pc[r] \in {"idle", "init", "run", "open", "sweep", "drop"}
  /\ \A c \in Cleaner : pc[c] \in {"idle", "wait", "lock", "sweep", "drop"}
  /\ pc[Controller] \in {"idle", "join", "forget"}

InHand ==
  \A t \in Task :
    /\ pc[t] \in {"init", "run", "open"} => held[t] \in Stream
    /\ pc[t] \notin {"sweep", "drop"} => todo[t] = {}
    /\ pc[t] = "drop" => held[t] \notin todo[t]

IInv == TypeOK /\ PcOK /\ InHand /\ KeysStay

\* The empty storage has it.
LEMMA InitInv == Init => IInv
<1> SUFFICES ASSUME Init
             PROVE  IInv
  OBVIOUS
<1>1. /\ \A t \in Task : pc[t] = "idle" /\ todo[t] = {} /\ t # None
      /\ \A r \in Request \cup Cleaner \cup {Controller} : r \in Task
  BY StorageAssumption DEF Init, Task
<1>2. TypeOK
  <2>1. /\ status \in [Stream -> Statuses]
        /\ ready \in [Stream -> BOOLEAN] /\ old \in [Stream -> BOOLEAN]
    BY DEF Init, Statuses, Ended
  <2>2. /\ \A t \in Task : mutex = t <=> pc[t] \in {"sweep", "drop"}
        /\ mutex \in Task \cup {None} /\ thread \in Cleaner \cup {None} /\ event \in BOOLEAN
    BY <1>1 DEF Init
  <2>3. alive = {c \in Cleaner : pc[c] # "idle"}
    BY <1>1 DEF Init
  <2>4. todo \in [Task -> SUBSET Stream] /\ held \in [Task -> Stream \cup {None}]
    BY DEF Init
  <2> QED
    BY <2>1, <2>2, <2>3, <2>4 DEF Init, TypeOK
<1>3. PcOK
  BY <1>1 DEF Init, PcOK
<1>4. InHand /\ KeysStay
  BY <1>1 DEF InHand, KeysStay
<1> QED
  BY <1>2, <1>3, <1>4 DEF IInv

\* Requests, cleaners and the controller are different threads, and none of them is None.
LEMMA Threads ==
  /\ \A t \in Task : t # None
  /\ \A r \in Request : r \in Task /\ r \notin Cleaner /\ r # Controller
  /\ \A c \in Cleaner : c \in Task /\ c \notin Request /\ c # Controller
  /\ Controller \in Task
  /\ Task = Request \cup Cleaner \cup {Controller}
  BY StorageAssumption DEF Task

\* A response touches neither the storage nor a walk.
LEMMA RespondStep ==
  ASSUME IInv, NEW r \in Request, Respond(r)
  PROVE  IInv'
<1> USE Threads DEF Goto, control, local, streams
<1>1. CASE \E s \in Stream : Start(r, s)
  BY <1>1 DEF Start, Respond, IInv, TypeOK, PcOK, InHand, KeysStay
<1>2. CASE InitGenerators(r)
  BY <1>2 DEF InitGenerators, Respond, IInv, TypeOK, PcOK, InHand, KeysStay, Statuses
<1>3. CASE InitGeneratorsFails(r)
  BY <1>3 DEF InitGeneratorsFails, Respond, IInv, TypeOK, PcOK, InHand, KeysStay
<1>4. CASE Run(r)
  BY <1>4 DEF Run, Respond, IInv, TypeOK, PcOK, InHand, KeysStay, Statuses
<1>5. CASE Close(r)
  BY <1>5 DEF Close, Respond, IInv, TypeOK, PcOK, InHand, KeysStay, Statuses, Ended
<1> QED
  BY <1>1, <1>2, <1>3, <1>4, <1>5 DEF Respond

\* A walk under the mutex, by a cleaner or by clear_by_dt, and the drop of get_stream.
LEMMA WalkStep ==
  ASSUME IInv, NEW t \in Request \cup Cleaner,
         Sweep(t) \/ Visit(t) \/ Drop(t) \/ SweepEnd(t),
         UNCHANGED <<streams, control, once>>
  PROVE  IInv'
<1> USE Threads DEF Goto, control, streams
<1>1. CASE Sweep(t)
  BY <1>1 DEF Sweep, IInv, TypeOK, PcOK, InHand, KeysStay
<1>2. CASE Visit(t)
  BY <1>2 DEF Visit, IInv, TypeOK, PcOK, InHand, KeysStay
<1>3. CASE Drop(t)
  BY <1>3 DEF Drop, IInv, TypeOK, PcOK, InHand, KeysStay
<1>4. CASE SweepEnd(t)
  BY <1>4 DEF SweepEnd, IInv, TypeOK, PcOK, InHand, KeysStay
<1> QED
  BY <1>1, <1>2, <1>3, <1>4

\* The other methods of the storage find the mutex free.
LEMMA StoreStep ==
  ASSUME IInv, NEW r \in Request, Store(r)
  PROVE  IInv'
<1> USE Threads DEF Goto, control, streams
<1>1. CASE \E s \in Stream : AddStream(r, s)
  BY <1>1 DEF AddStream, Store, IInv, TypeOK, PcOK, InHand, KeysStay
<1>2. CASE \E s \in Stream : GetStream(r, s)
  BY <1>2 DEF GetStream, Store, IInv, TypeOK, PcOK, InHand, KeysStay
<1>3. CASE ClearByFilter(r)
  BY <1>3 DEF ClearByFilter, Store, IInv, TypeOK, PcOK, InHand, KeysStay
<1>4. CASE Sweep(r) \/ Visit(r) \/ Drop(r) \/ SweepEnd(r)
  BY <1>4, WalkStep DEF Store
<1> QED
  BY <1>1, <1>2, <1>3, <1>4 DEF Store

\* The walk that raises gives the mutex back.
LEMMA SweepRaisesStep ==
  ASSUME IInv, NEW t \in Request \cup Cleaner, SweepRaises(t)
  PROVE  IInv'
  BY Threads DEF SweepRaises, Goto, streams, IInv, TypeOK, PcOK, InHand, KeysStay

\* The cleaner wakes, walks over the storage, and ends.
LEMMA CleanStep ==
  ASSUME IInv, NEW c \in Cleaner, Clean(c)
  PROVE  IInv'
<1> USE Threads DEF Goto, streams, local
<1>1. CASE Wake(c) /\ UNCHANGED <<stored, streams, mutex, event, thread, left, local>>
  <2>1. alive' = {k \in Cleaner : pc'[k] # "idle"}
    BY <1>1 DEF Wake, IInv, TypeOK, PcOK
  <2>2. PcOK' /\ InHand' /\ KeysStay'
    BY <1>1 DEF Wake, IInv, TypeOK, PcOK, InHand, KeysStay
  <2>3. \A u \in Task : mutex' = u <=> pc'[u] \in {"sweep", "drop"}
    BY <1>1 DEF Wake, IInv, TypeOK, PcOK
  <2> QED
    BY <1>1, <2>1, <2>2, <2>3 DEF Wake, IInv, TypeOK
<1>2. CASE End(c) /\ UNCHANGED <<stored, streams, mutex, event, thread, left, local>>
  <2>1. alive' = {k \in Cleaner : pc'[k] # "idle"}
    BY <1>2 DEF End, IInv, TypeOK, PcOK
  <2>2. PcOK' /\ InHand' /\ KeysStay'
    BY <1>2 DEF End, IInv, TypeOK, PcOK, InHand, KeysStay
  <2>3. \A u \in Task : mutex' = u <=> pc'[u] \in {"sweep", "drop"}
    BY <1>2 DEF End, IInv, TypeOK, PcOK
  <2> QED
    BY <1>2, <2>1, <2>2, <2>3 DEF End, IInv, TypeOK
<1>3. CASE (Sweep(c) \/ Visit(c) \/ Drop(c) \/ SweepEnd(c)) /\ UNCHANGED <<streams, control, once>>
  BY <1>3, WalkStep
<1>4. CASE SweepRaises(c)
  BY <1>4, SweepRaisesStep
<1> QED
  BY <1>1, <1>2, <1>3, <1>4 DEF Clean

\* start and stop leave the storage alone.
LEMMA ControlStep ==
  ASSUME IInv, Control
  PROVE  IInv'
<1> USE Threads DEF Goto, streams, local
<1>1. CASE StartCleaner
  <2>1. PICK c \in Cleaner \ alive : /\ thread' = c /\ alive' = alive \cup {c}
                                     /\ pc' = [pc EXCEPT ![c] = "wait"]
    BY <1>1 DEF StartCleaner, Control
  <2>2. pc[c] = "idle"
    BY DEF IInv, TypeOK
  <2>3. alive' = {k \in Cleaner : pc'[k] # "idle"}
    BY <2>1 DEF IInv, TypeOK, PcOK
  <2>4. PcOK' /\ InHand' /\ KeysStay'
    BY <1>1, <2>1, <2>2 DEF StartCleaner, Control, IInv, TypeOK, PcOK, InHand, KeysStay
  <2>5. \A u \in Task : mutex' = u <=> pc'[u] \in {"sweep", "drop"}
    BY <1>1, <2>1, <2>2 DEF StartCleaner, Control, IInv, TypeOK, PcOK
  <2> QED
    BY <1>1, <2>1, <2>3, <2>4, <2>5 DEF StartCleaner, Control, IInv, TypeOK
<1>2. CASE StopCleaner
  BY <1>2, StorageAssumption DEF StopCleaner, Control, IInv, TypeOK, PcOK, InHand, KeysStay
<1>3. CASE Forget
  BY <1>3 DEF Forget, Control, IInv, TypeOK, PcOK, InHand, KeysStay
<1> QED
  BY <1>1, <1>2, <1>3 DEF Control

\* The invariant holds initially (InitInv) and survives every step.
LEMMA NextInv == IInv /\ [Next]_vars => IInv'
<1> SUFFICES ASSUME IInv, [Next]_vars
             PROVE  IInv'
  OBVIOUS
<1>1. CASE Control
  BY <1>1, ControlStep
<1>2. CASE \E r \in Request : Respond(r) \/ Store(r) \/ SweepRaises(r)
  BY <1>2, RespondStep, StoreStep, SweepRaisesStep
<1>3. CASE \E c \in Cleaner : Clean(c)
  BY <1>3, CleanStep
<1>4. CASE \E s \in Stream : Age(s)
  BY <1>4 DEF Age, control, local, IInv, TypeOK, PcOK, InHand, KeysStay
<1>5. CASE UNCHANGED vars
  BY <1>5 DEF vars, streams, control, local, IInv, TypeOK, PcOK, InHand, KeysStay
<1> QED
  BY <1>1, <1>2, <1>3, <1>4, <1>5 DEF Next

\* The invariant holds in every state the storage reaches.
LEMMA Invariance == Spec => []IInv
  BY InitInv, NextInv, PTL DEF Spec

\* Every variable keeps its type, and whoever walks over the storage has its mutex
\* (streams_storage.py:21-33, 60-83).
THEOREM TypeCorrect == Spec => []TypeOK
<1>1. IInv => TypeOK
  BY DEF IInv
<1> QED
  BY <1>1, Invariance, PTL

\* No cleaner, look-up or clear ever meets a key that has gone (lines 36-42, 62-64, 77-80).
THEOREM NoKeyError == Spec => []KeysStay
<1>1. IInv => KeysStay
  BY DEF IInv
<1> QED
  BY <1>1, Invariance, PTL

-----------------------------------------------------------------------------
(* start and stop.  What they do to the cleaners needs of the invariant only  *)
(* that a cleaner is alive where its thread is.                               *)

\* Only start makes a cleaner, and only when none is there that it knows.
LEMMA CleanerStep ==
  ASSUME IInv, OneCleaner, [Next]_vars
  PROVE  OneCleaner'
<1> USE DEF OneCleaner
<1>a. alive \subseteq Cleaner /\ None \notin Cleaner
  BY StorageAssumption DEF IInv, TypeOK, Task
<1>1. CASE StartCleaner
  <2>1. thread = None /\ alive \subseteq left
    BY <1>1, <1>a DEF StartCleaner
  <2>2. PICK c \in Cleaner \ alive : alive' = alive \cup {c} /\ thread' = c /\ left' = left \ {c}
    BY <1>1 DEF StartCleaner
  <2> QED
    BY <2>1, <2>2
<1>2. CASE StopCleaner
  BY <1>2 DEF StopCleaner
<1>3. CASE Forget
  BY <1>3 DEF Forget
<1>4. CASE UNCHANGED control
  BY <1>4 DEF control
<1>5. ASSUME NEW t, alive' = alive \ {t}, UNCHANGED <<thread, left>>
      PROVE  OneCleaner'
  BY <1>5
<1>6. CASE \E r \in Request : Respond(r) \/ Store(r) \/ SweepRaises(r)
  BY <1>4, <1>5, <1>6 DEF Respond, Store, SweepRaises
<1>7. CASE \E c \in Cleaner : Clean(c)
  <2>1. PICK c \in Cleaner : Clean(c)
    BY <1>7
  <2>2. CASE Wake(c) /\ UNCHANGED <<stored, streams, mutex, event, thread, left, local>>
    BY <2>2 DEF Wake
  <2>3. CASE End(c) /\ UNCHANGED <<stored, streams, mutex, event, thread, left, local>>
    BY <1>5, <2>3 DEF End
  <2>4. CASE SweepRaises(c)
    BY <1>5, <2>4 DEF SweepRaises
  <2> QED
    BY <1>4, <2>1, <2>2, <2>3, <2>4 DEF Clean
<1>8. CASE \E s \in Stream : Age(s)
  BY <1>4, <1>8 DEF Age
<1>9. CASE UNCHANGED vars
  BY <1>4, <1>9 DEF vars
<1> QED
  BY <1>1, <1>2, <1>3, <1>6, <1>7, <1>8, <1>9 DEF Next, Control

\* A stop never leaves a cleaner behind that a later stop could not reach, unless it
\* was told not to wait (lines 44-58).
THEOREM NoCleanerBehind == Spec => []OneCleaner
<1>1. Init => OneCleaner
  BY DEF Init, OneCleaner
<1>2. IInv /\ OneCleaner /\ [Next]_vars => OneCleaner'
  BY CleanerStep
<1> QED
  BY <1>1, <1>2, Invariance, PTL DEF Spec
=============================================================================
