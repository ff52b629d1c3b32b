------------------------- MODULE ConcurrentDequeue --------------------------
(* FixedTypedConcurrentDequeue of src/core/structs.py, shared by threads that *)
(* may switch between any two statements.  A call waits for the mutex of      *)
(* with_mutex, runs its body one statement at a time and releases the mutex;  *)
(* get_current_metrics takes the mutex only to read the length and then reads *)
(* the counters, one by one, without it.                                      *)
EXTENDS Integers, Sequences

CONSTANTS Thread,      \* the threads that call the queue
          NoThread,    \* the owner of a free mutex
          Item,        \* the elements; each is put at most once (they carry a uuid)
          NoItem,      \* the element of a thread that is not putting
          Falsy,       \* the elements that Python treats as false
          MaxLen,      \* deque(maxlen = MaxLen)
          BatchSizes,  \* the max_count arguments of get_batch
          Ops          \* the methods that the threads call

AllOps == {"put", "put_top", "get", "get_batch", "drop", "len", "metrics"}
PutOps == {"put", "put_top"}
TakeOps == {"get", "get_batch"}

ASSUME DequeueAssumption ==
  /\ NoThread \notin Thread
  /\ NoItem \notin Item
  /\ Falsy \subseteq Item
  /\ MaxLen \in Nat
  /\ BatchSizes \subseteq Int
  /\ Ops \subseteq AllOps

VARIABLES
  deque,       \* self._deque, oldest element first
  metric,      \* self._metric
  mutex,       \* the thread that holds self._mutex, or NoThread
  pc,          \* where each thread is in its call
  op,          \* the method each thread is in
  item,        \* the element that a put of the thread carries
  max_count,   \* the argument of the thread's get_batch
  local,       \* the thread's local list: elements popped, or metrics read
  log,         \* history: the elements in the order they were put
  delivered,   \* history: the elements handed out, in that order
  lost         \* history: how many left without being counted

vars == <<deque, metric, mutex, pc, op, item, max_count, local, log, delivered, lost>>
call == <<op, item, max_count>>

\* CommandsMetric, in the order in which asdict reads its fields.
Fields == <<"accepted", "gave_out", "completed", "dropped">>
MetricField == {"accepted", "gave_out", "completed", "dropped"}

\* The labels under which a thread holds the mutex, and all of them.
Held == {"inside", "counting", "leaving"}
Labels == Held \cup {"idle", "waiting", "reading"}

\* The elements no thread has put or is putting.
Fresh == (Item \ {log[k] : k \in DOMAIN log}) \ {item[t] : t \in Thread}

Init ==
  /\ deque = <<>>
  /\ metric = [f \in MetricField |-> 0]
  /\ mutex = NoThread
  /\ pc = [t \in Thread |-> "idle"]
  /\ op = [t \in Thread |-> "none"]
  /\ item = [t \in Thread |-> NoItem]
  /\ max_count = [t \in Thread |-> 0]
  /\ local = [t \in Thread |-> <<>>]
  /\ log = <<>> /\ delivered = <<>> /\ lost = 0

-----------------------------------------------------------------------------
(* Calls, the mutex and returns.                                             *)

\* A thread enters a method and asks for the mutex.
Call(t) ==
  /\ pc[t] = "idle"
  /\ pc' = [pc EXCEPT ![t] = "waiting"]
  /\ \E o \in Ops :
       /\ op' = [op EXCEPT ![t] = o]
       /\ \/ /\ o \in PutOps
             /\ \E i \in Fresh : item' = [item EXCEPT ![t] = i]
             /\ UNCHANGED max_count
          \/ /\ o = "get_batch"
             /\ \E n \in BatchSizes : max_count' = [max_count EXCEPT ![t] = n]
             /\ UNCHANGED item
          \/ /\ o \notin PutOps \cup {"get_batch"}
             /\ UNCHANGED <<item, max_count>>
  /\ UNCHANGED <<deque, metric, mutex, local, log, delivered, lost>>

\* Slip: the decorator is missing, and the body runs without the mutex.
AcquireNothing(t) ==
  /\ pc[t] = "waiting"
  /\ mutex' = t
  /\ pc' = [pc EXCEPT ![t] = "inside"]
  /\ UNCHANGED <<deque, metric, call, local, log, delivered, lost>>

\* "with mutex:" is entered by one thread at a time.
Acquire(t) ==
  /\ pc[t] = "waiting"
  /\ mutex = NoThread
  /\ mutex' = t
  /\ pc' = [pc EXCEPT ![t] = "inside"]
  /\ UNCHANGED <<deque, metric, call, local, log, delivered, lost>>

\* The call is over: its locals go.
Finish(t) ==
  /\ pc' = [pc EXCEPT ![t] = "idle"]
  /\ op' = [op EXCEPT ![t] = "none"]
  /\ item' = [item EXCEPT ![t] = NoItem]
  /\ max_count' = [max_count EXCEPT ![t] = 0]
  /\ local' = [local EXCEPT ![t] = <<>>]

\* The mutex is released; get_current_metrics goes on to the counters.
Release(t) ==
  /\ pc[t] = "leaving"
  /\ mutex' = NoThread
  /\ \/ /\ op[t] = "metrics"
        /\ pc' = [pc EXCEPT ![t] = "reading"]
        /\ UNCHANGED <<call, local>>
     \/ /\ op[t] # "metrics"
        /\ Finish(t)
  /\ UNCHANGED <<deque, metric, log, delivered, lost>>

At(t, label, o) == pc[t] = label /\ op[t] = o

Goto(t, label) ==
  /\ pc' = [pc EXCEPT ![t] = label]
  /\ UNCHANGED <<mutex, call>>

-----------------------------------------------------------------------------
(* The bodies.                                                               *)

\* Slips: a full deque keeps the oldest element; it is full one element too early.
AppendedNewestLost(s, i) == IF Len(s) < MaxLen THEN Append(s, i) ELSE s
AppendedEarlyFull(s, i) ==
  IF Len(s) + 1 < MaxLen THEN Append(s, i) ELSE Tail(Append(s, i))

\* collections.deque.appendleft and append on a deque with maxlen.
AppendedLeft(s, i) ==
  IF Len(s) < MaxLen THEN <<i>> \o s ELSE SubSeq(<<i>> \o s, 1, MaxLen)

Appended(s, i) == IF Len(s) < MaxLen THEN Append(s, i) ELSE Tail(Append(s, i))

\* put and put_top: first the element goes in ...
PutBody(t) ==
  /\ \/ At(t, "inside", "put") /\ deque' = Appended(deque, item[t])
     \/ At(t, "inside", "put_top") /\ deque' = AppendedLeft(deque, item[t])
  /\ Goto(t, "counting")
  /\ log' = Append(log, item[t])
  /\ lost' = lost + (Len(deque) + 1 - Len(deque'))
  /\ UNCHANGED <<metric, local, delivered>>

\* ... then it is counted.
CountAccepted(t) ==
  /\ pc[t] = "counting"
  /\ op[t] \in PutOps
  /\ Goto(t, "leaving")
  /\ metric' = [metric EXCEPT !["accepted"] = @ + 1]
  /\ UNCHANGED <<deque, local, log, delivered, lost>>

\* get on an empty deque logs an error and returns None.
GetNothing(t) ==
  /\ At(t, "inside", "get")
  /\ deque = <<>>
  /\ Goto(t, "leaving")
  /\ UNCHANGED <<deque, metric, local, log, delivered, lost>>

\* get pops; "if item := ..." neither counts nor returns a false element.
GetPop(t) ==
  /\ At(t, "inside", "get")
  /\ deque # <<>>
  /\ deque' = Tail(deque)
  /\ \/ /\ Head(deque) \in Falsy
        /\ Goto(t, "leaving")
        /\ lost' = lost + 1
        /\ UNCHANGED local
     \/ /\ Head(deque) \notin Falsy
        /\ Goto(t, "counting")
        /\ local' = [local EXCEPT ![t] = <<Head(deque)>>]
        /\ UNCHANGED lost
  /\ UNCHANGED <<metric, log, delivered>>

\* The loop condition of get_batch.
BatchGoesOn(t) == deque # <<>> /\ Len(local[t]) < max_count[t]

BatchPop(t) ==
  /\ At(t, "inside", "get_batch")
  /\ BatchGoesOn(t)
  /\ local' = [local EXCEPT ![t] = Append(@, Head(deque))]
  /\ deque' = Tail(deque)
  /\ UNCHANGED <<metric, mutex, pc, call, log, delivered, lost>>

\* Slip: get_batch waits for a full batch, holding the mutex.
BatchEndFull(t) ==
  /\ At(t, "inside", "get_batch")
  /\ Len(local[t]) >= max_count[t]
  /\ Goto(t, "counting")
  /\ UNCHANGED <<deque, metric, local, log, delivered, lost>>

BatchEnd(t) ==
  /\ At(t, "inside", "get_batch")
  /\ ~BatchGoesOn(t)
  /\ Goto(t, "counting")
  /\ UNCHANGED <<deque, metric, local, log, delivered, lost>>

\* Slip: a batch counts as one.
CountedOnce(t) == 1

\* How much a get or a get_batch adds to gave_out.
Counted(t) == Len(local[t])

CountGaveOut(t) ==
  /\ pc[t] = "counting"
  /\ op[t] \in TakeOps
  /\ Goto(t, "leaving")
  /\ metric' = [metric EXCEPT !["gave_out"] = @ + Counted(t)]
  /\ delivered' = delivered \o local[t]
  /\ UNCHANGED <<deque, local, log, lost>>

\* drop counts what it is about to discard ...
DropCount(t) ==
  /\ At(t, "inside", "drop")
  /\ deque # <<>>
  /\ Goto(t, "counting")
  /\ metric' = [metric EXCEPT !["dropped"] = @ + Len(deque)]
  /\ UNCHANGED <<deque, local, log, delivered, lost>>

DropNothing(t) ==
  /\ At(t, "inside", "drop")
  /\ deque = <<>>
  /\ Goto(t, "leaving")
  /\ UNCHANGED <<deque, metric, local, log, delivered, lost>>

\* ... then puts a new deque of the same maxlen in its place.
DropReplace(t) ==
  /\ At(t, "counting", "drop")
  /\ Goto(t, "leaving")
  /\ deque' = <<>>
  /\ UNCHANGED <<metric, local, log, delivered, lost>>

\* Slip: get_current_metrics reads the length without the mutex.
ReadLenUnlocked(t) ==
  /\ At(t, "waiting", "metrics")
  /\ Goto(t, "reading")
  /\ local' = [local EXCEPT ![t] = <<Len(deque)>>]
  /\ UNCHANGED <<deque, metric, log, delivered, lost>>

\* len(self._deque) in __len__, in is_empty and at the head of get_current_metrics.
ReadLen(t) ==
  /\ pc[t] = "inside"
  /\ op[t] \in {"len", "metrics"}
  /\ Goto(t, "leaving")
  /\ local' = [local EXCEPT ![t] = <<Len(deque)>>]
  /\ UNCHANGED <<deque, metric, log, delivered, lost>>

\* get_current_metrics reads the next counter, without the mutex.
ReadField(t) ==
  /\ pc[t] = "reading"
  /\ Len(local[t]) <= Len(Fields)
  /\ local' = [local EXCEPT ![t] = Append(@, metric[Fields[Len(@)]])]
  /\ UNCHANGED <<deque, metric, mutex, pc, call, log, delivered, lost>>

ReturnMetrics(t) ==
  /\ pc[t] = "reading"
  /\ Len(local[t]) > Len(Fields)
  /\ Finish(t)
  /\ UNCHANGED <<deque, metric, mutex, log, delivered, lost>>

Body(t) ==
  \/ PutBody(t)
  \/ CountAccepted(t)
  \/ GetNothing(t)
  \/ GetPop(t)
  \/ BatchPop(t)
  \/ BatchEnd(t)
  \/ CountGaveOut(t)
  \/ DropCount(t)
  \/ DropNothing(t)
  \/ DropReplace(t)
  \/ ReadLen(t)
  \/ ReadField(t)
  \/ ReturnMetrics(t)

Step(t) == Call(t) \/ Acquire(t) \/ Body(t) \/ Release(t)

Next == \E t \in Thread : Step(t)

Spec == Init /\ [][Next]_vars

\* A thread that is inside a method is eventually scheduled again.
FairSpec == Spec /\ \A t \in Thread : WF_vars(Body(t) \/ Release(t))

-----------------------------------------------------------------------------
(* Properties.                                                               *)

\* Every variable has its type: where the threads are, and what they work on.
ControlType ==
  /\ mutex \in Thread \cup {NoThread}
  /\ pc \in [Thread -> Labels]
  /\ op \in [Thread -> Ops \cup {"none"}]
  /\ item \in [Thread -> Item \cup {NoItem}]
  /\ max_count \in [Thread -> Int]

DataType ==
  /\ deque \in Seq(Item)
  /\ metric \in [MetricField -> Nat]
  /\ local \in [Thread -> Seq(Item \cup Nat)]
  /\ log \in Seq(Item)
  /\ delivered \in Seq(Item)
  /\ lost \in Nat

TypeOK == ControlType /\ DataType

\* The elements the thread in the critical section has popped and not counted yet.
InFlight ==
  IF mutex # NoThread /\ op[mutex] \in TakeOps /\ pc[mutex] # "leaving"
  THEN local[mutex] ELSE <<>>

\* The elements that are still in the queue for whoever waits for the mutex:
\* those of drop are gone once they are counted.
Contents ==
  IF mutex # NoThread /\ At(mutex, "counting", "drop")
  THEN <<>> ELSE InFlight \o deque

\* accepted, with the put that has not been counted yet.
Accepted ==
  IF mutex # NoThread /\ pc[mutex] = "counting" /\ op[mutex] \in PutOps
  THEN metric["accepted"] + 1 ELSE metric["accepted"]

\* No element is created, duplicated or lost without an eviction, whatever the
\* threads do: what was put is in the queue, was given out, was dropped, or was
\* evicted by a put into a full queue (lines 117-157).
Conservation ==
  /\ Len(Contents) <= MaxLen
  /\ Accepted = Len(Contents) + metric["gave_out"] + metric["dropped"] + lost
  /\ Len(log) = Accepted
  /\ Len(delivered) = metric["gave_out"]

\* With put alone at the entrance, what is in the queue is the newest part of
\* what was put, in order: evictions, gets, batches and drops all take the oldest.
NewestKept ==
  \A k \in 1..Len(Contents) : Contents[k] = log[Len(log) - Len(Contents) + k]

\* No thread is handed an element twice, or after a newer one.
GivenInOrder ==
  \A j, k \in 1..Len(delivered) :
    j < k => \E p, q \in 1..Len(log) :
               p < q /\ delivered[j] = log[p] /\ delivered[k] = log[q]

\* get_current_metrics never reports a queue longer than what had been accepted:
\* it reads the length first, under the mutex, and the counters after it.
SnapshotCovered ==
  \A t \in Thread : pc[t] = "reading" /\ Len(local[t]) >= 2 => local[t][1] <= local[t][2]

\* A put into a queue with room loses nothing, and nothing else does but get of a
\* false element; a full queue loses exactly one element per put.
LossOnlyWhenFull ==
  [][lost' # lost =>
       /\ lost' = lost + 1
       /\ \/ Len(deque) = MaxLen /\ log' # log
          \/ deque # <<>> /\ Head(deque) \in Falsy]_vars

\* Whoever takes the mutex gives it back: no path through a body keeps it.
MutexReleased == \A t \in Thread : (mutex = t) ~> (mutex # t)

\* Every call takes effect in one step on the queue of LossyQueue.
Promise ==
  INSTANCE LossyQueue WITH
    queue <- Contents, accepted <- Accepted, gave_out <- metric["gave_out"],
    dropped <- metric["dropped"]

Implements == Promise!Spec
=============================================================================
