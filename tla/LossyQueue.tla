----------------------------- MODULE LossyQueue -----------------------------
(* What FixedTypedConcurrentDequeue (src/core/structs.py) promises to the     *)
(* threads that share it: every operation takes effect in one step, in some   *)
(* order, on one bounded queue that forgets an element, silently, when it is  *)
(* full.  ConcurrentDequeue implements this specification.                    *)
EXTENDS Integers, Sequences

CONSTANTS Item,        \* the elements (InternalQueuedItem values)
          Falsy,       \* the elements that Python treats as false
          MaxLen,      \* deque(maxlen = MaxLen)
          BatchSizes   \* the max_count arguments of get_batch

VARIABLES queue,       \* the elements held, oldest first
          accepted,    \* how many were put
          gave_out,    \* how many were handed to a caller
          dropped,     \* how many drop() discarded
          lost,        \* how many disappeared without being counted
          delivered    \* the elements handed out, in that order

vars == <<queue, accepted, gave_out, dropped, lost, delivered>>

Least(m, n) == IF m <= n THEN m ELSE n

Init ==
  /\ queue = <<>>
  /\ accepted = 0 /\ gave_out = 0 /\ dropped = 0 /\ lost = 0
  /\ delivered = <<>>

\* An element enters at one end; a full queue forgets the one at the other end.
Enter(q, n) ==
  /\ accepted' = accepted + 1
  /\ queue' = q
  /\ lost' = lost + n
  /\ UNCHANGED <<gave_out, dropped, delivered>>

Put(i) ==
  IF Len(queue) < MaxLen THEN Enter(Append(queue, i), 0)
                         ELSE Enter(Tail(Append(queue, i)), 1)

PutTop(i) ==
  IF Len(queue) < MaxLen THEN Enter(<<i>> \o queue, 0)
                         ELSE Enter(SubSeq(<<i>> \o queue, 1, MaxLen), 1)

\* The n oldest elements leave together and are counted.
HandOut(n) ==
  /\ n <= Len(queue)
  /\ delivered' = delivered \o SubSeq(queue, 1, n)
  /\ queue' = SubSeq(queue, n + 1, Len(queue))
  /\ gave_out' = gave_out + n
  /\ UNCHANGED <<accepted, dropped, lost>>

\* get() of a false element: it leaves, and nobody receives or counts it.
Swallow ==
  /\ queue # <<>>
  /\ Head(queue) \in Falsy
  /\ queue' = Tail(queue)
  /\ lost' = lost + 1
  /\ UNCHANGED <<accepted, gave_out, dropped, delivered>>

Get == (HandOut(1) /\ Head(queue) \notin Falsy) \/ Swallow

GetBatch(n) == HandOut(IF n < 0 THEN 0 ELSE Least(n, Len(queue)))

Drop ==
  /\ dropped' = dropped + Len(queue)
  /\ queue' = <<>>
  /\ UNCHANGED <<accepted, gave_out, lost, delivered>>

Next ==
  \/ \E i \in Item : Put(i) \/ PutTop(i)
  \/ Get
  \/ \E n \in BatchSizes : GetBatch(n)
  \/ Drop

Spec == Init /\ [][Next]_vars
=============================================================================
