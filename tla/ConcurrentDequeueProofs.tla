---------------------- MODULE ConcurrentDequeueProofs -----------------------
(* Theorems about ConcurrentDequeue, for any number of threads and elements   *)
(* and for any capacity.                                                      *)
EXTENDS ConcurrentDequeue, SequenceTheorems, TLAPS

(* The inductive invariant.  LockInv ties the program counters to the mutex,  *)
(* LocalInv says what a call has in hand at each of its labels, and Conserved *)
(* and Newest are the properties proper.                                      *)

LockInv == \A t \in Thread : pc[t] \in Held <=> mutex = t

InHand(t) ==
  /\ pc[t] \in {"idle", "waiting"} => local[t] = <<>>
  /\ pc[t] = "idle" => op[t] = "none"
  /\ pc[t] # "idle" => op[t] # "none"
  /\ pc[t] = "counting" => op[t] \in {"put", "put_top", "get", "get_batch", "drop"}
  /\ pc[t] = "reading" => op[t] = "metrics"
  /\ op[t] \in {"put", "put_top"} => item[t] \in Item
  /\ op[t] \in {"get", "get_batch"} => local[t] \in Seq(Item)
  /\ op[t] = "get" /\ pc[t] = "inside" => local[t] = <<>>
  /\ op[t] = "metrics" => local[t] \in Seq(Nat)
  /\ op[t] = "metrics" /\ pc[t] \in {"leaving", "reading"} => local[t] # <<>>

LocalInv == \A t \in Thread : InHand(t)

TInv == TypeOK /\ LockInv /\ LocalInv /\ Len(deque) <= MaxLen

\* What append leaves in the deque: the newest MaxLen elements, in order.
LEMMA AppendedProperties ==
  ASSUME NEW s \in Seq(Item), NEW i \in Item
  PROVE  /\ Appended(s, i) \in Seq(Item)
         /\ Len(Appended(s, i)) = IF Len(s) < MaxLen THEN Len(s) + 1 ELSE Len(s)
         /\ \A k \in 1..Len(Appended(s, i)) :
              Appended(s, i)[k] = Append(s, i)[Len(s) + 1 - Len(Appended(s, i)) + k]
<1>1. /\ Append(s, i) \in Seq(Item)
      /\ Append(s, i) # <<>>
      /\ Len(Append(s, i)) = Len(s) + 1
  BY AppendProperties
<1>2. CASE Len(s) < MaxLen
  BY <1>1, <1>2 DEF Appended
<1>3. CASE ~(Len(s) < MaxLen)
  <2>1. Appended(s, i) = Tail(Append(s, i))
    BY <1>3 DEF Appended
  <2>2. /\ Tail(Append(s, i)) \in Seq(Item)
        /\ Len(Tail(Append(s, i))) = Len(s)
        /\ \A k \in 1..Len(Tail(Append(s, i))) : Tail(Append(s, i))[k] = Append(s, i)[k + 1]
    BY <1>1, HeadTailProperties
  <2>3. ASSUME NEW k \in 1..Len(s)
        PROVE  Append(s, i)[Len(s) + 1 - Len(s) + k] = Append(s, i)[k + 1]
    BY LenProperties
  <2> QED
    BY <1>3, <2>1, <2>2, <2>3
<1> QED
  BY <1>2, <1>3

\* What appendleft leaves in the deque.
LEMMA AppendedLeftProperties ==
  ASSUME NEW s \in Seq(Item), NEW i \in Item, Len(s) <= MaxLen
  PROVE  /\ AppendedLeft(s, i) \in Seq(Item)
         /\ Len(AppendedLeft(s, i)) = IF Len(s) < MaxLen THEN Len(s) + 1 ELSE Len(s)
<1>1. <<i>> \o s \in Seq(Item) /\ Len(<<i>> \o s) = Len(s) + 1
  BY ConcatProperties
<1>2. CASE Len(s) < MaxLen
  BY <1>1, <1>2 DEF AppendedLeft
<1>3. CASE Len(s) = MaxLen
  <2>1. AppendedLeft(s, i) = SubSeq(<<i>> \o s, 1, MaxLen)
    BY <1>3 DEF AppendedLeft
  <2>2. \A k \in 1..MaxLen : (<<i>> \o s)[k] \in Item
    BY <1>1, <1>3, ElementOfSeq
  <2>3. /\ SubSeq(<<i>> \o s, 1, MaxLen) \in Seq(Item)
        /\ Len(SubSeq(<<i>> \o s, 1, MaxLen)) = MaxLen
    <3>1. MaxLen \in Int /\ MaxLen >= 0
      BY DequeueAssumption
    <3>2. SubSeq(<<i>> \o s, 1, MaxLen) \in Seq(Item)
      BY <1>1, <1>3, <3>1
    <3>3. Len(SubSeq(<<i>> \o s, 1, MaxLen)) = MaxLen
      BY <1>1, <1>3, <3>1
    <3> QED
      BY <3>2, <3>3
  <2> QED
    BY <1>3, <2>1, <2>3
<1> QED
  BY <1>2, <1>3, DequeueAssumption

\* TInv holds initially, and every step of a thread preserves it.
LEMMA TInvInit == Init => TInv
  BY DequeueAssumption
  DEF Init, TInv, TypeOK, ControlType, DataType, LockInv, LocalInv, InHand, Held, Labels,
      MetricField

\* A step of t changes only what t has in hand.
LEMMA InHandFrame ==
  ASSUME LocalInv, NEW t \in Thread, InHand(t)',
         \A u \in Thread \ {t} : /\ pc'[u] = pc[u] /\ op'[u] = op[u]
                                 /\ item'[u] = item[u] /\ local'[u] = local[u]
  PROVE  LocalInv'
  BY DEF LocalInv, InHand

\* The labels of a thread, one by one.
LEMMA LabelSet ==
  /\ Labels = {"inside", "counting", "leaving", "idle", "waiting", "reading"}
  /\ Held = {"inside", "counting", "leaving"}
  BY DEF Labels, Held

\* Every step of a thread keeps the types and the facts about the calls in progress.
LEMMA TInvStep ==
  ASSUME TInv, NEW t \in Thread, Step(t)
  PROVE  TInv'
<1> USE DEF call, Goto, At
<1>a. ControlType
  BY DEF TInv, TypeOK
<1>b. DataType
  BY DEF TInv, TypeOK
<1>c. LockInv
  BY DEF TInv
<1>d. LocalInv /\ InHand(t)
  BY DEF TInv, LocalInv
<1>e. Len(deque) <= MaxLen
  BY DEF TInv
<1>f. local \in [Thread -> Seq(Item \cup Nat)]
  BY <1>b DEF DataType
<1>1. CASE Call(t)
  <2>a. PICK o \in Ops : /\ op' = [op EXCEPT ![t] = o]
                         /\ \/ o \in PutOps /\ \E i \in Fresh : item' = [item EXCEPT ![t] = i]
                            \/ o \notin PutOps /\ item' = item
    BY <1>1 DEF Call, PutOps
  <2>b. item' = item \/ \E i \in Item : item' = [item EXCEPT ![t] = i]
    BY <2>a DEF Fresh
  <2>c. o \in PutOps => item'[t] \in Item
    BY <1>a, <2>a DEF Fresh, ControlType
  <2>d. /\ max_count' = max_count \/ \E n \in BatchSizes : max_count' = [max_count EXCEPT ![t] = n]
        /\ pc[t] = "idle" /\ pc' = [pc EXCEPT ![t] = "waiting"]
        /\ UNCHANGED <<deque, metric, mutex, local, log, delivered, lost>>
    BY <1>1 DEF Call
  <2>e. o \in AllOps
    BY DequeueAssumption
  <2>1. ControlType'
    <3>1. item' \in [Thread -> Item \cup {NoItem}]
      BY <1>a, <2>b DEF ControlType
    <3>2. max_count' \in [Thread -> Int]
      BY <1>a, <2>d, DequeueAssumption DEF ControlType
    <3>3. op' \in [Thread -> Ops \cup {"none"}]
      BY <1>a, <2>a, <2>e DEF ControlType
    <3> QED
      BY <1>a, <2>d, <3>1, <3>2, <3>3, LabelSet DEF ControlType
  <2>2. LockInv'
    BY <1>a, <1>c, <2>d, LabelSet DEF ControlType, LockInv
  <2>3. DataType'
    BY <1>b, <2>d DEF DataType
  <2>4. InHand(t)'
    <3>1. op'[t] = o /\ pc'[t] = "waiting" /\ local'[t] = <<>>
      BY <1>a, <1>d, <2>a, <2>d DEF ControlType, InHand
    <3>2. o \in {"put", "put_top"} => item'[t] \in Item
      BY <2>c DEF PutOps
    <3>3. <<>> \in Seq(Item) /\ <<>> \in Seq(Nat) /\ o # "none"
      BY <2>e, EmptySeq DEF AllOps
    <3> QED
      BY <3>1, <3>2, <3>3 DEF InHand
  <2>5. Len(deque') <= MaxLen
    BY <1>e, <2>d
  <2>6. \A u \in Thread \ {t} : /\ pc'[u] = pc[u] /\ op'[u] = op[u]
                                 /\ item'[u] = item[u] /\ local'[u] = local[u]
    BY <1>a, <2>a, <2>b, <2>d DEF ControlType
  <2> QED
    BY <1>d, <2>1, <2>2, <2>3, <2>4, <2>5, <2>6, InHandFrame DEF TInv, TypeOK
<1>2. CASE Acquire(t)
  <2>1. ControlType'
    BY <1>a, <1>2, LabelSet DEF ControlType, Acquire
  <2>2. LockInv'
    BY <1>a, <1>c, <1>2, LabelSet, DequeueAssumption DEF ControlType, LockInv, Acquire
  <2>3. DataType'
    BY <1>b, <1>2 DEF DataType, MetricField, Acquire
  <2>4. InHand(t)'
    BY <1>a, <1>d, <1>f, <1>2 DEF ControlType, InHand, Acquire
  <2>5. Len(deque') <= MaxLen
    BY <1>e, <1>2 DEF Acquire
  <2>6. \A u \in Thread \ {t} : /\ pc'[u] = pc[u] /\ op'[u] = op[u]
                                 /\ item'[u] = item[u] /\ local'[u] = local[u]
    BY <1>a, <1>f, <1>2 DEF ControlType, Acquire
  <2> QED
    BY <1>d, <2>1, <2>2, <2>3, <2>4, <2>5, <2>6, InHandFrame DEF TInv, TypeOK
<1>3. CASE Release(t)
  <2>a. <<>> \in Seq(Item \cup Nat) /\ <<>> \in Seq(Item)
    BY EmptySeq
  <2>1. ControlType'
    <3>1. CASE op[t] = "metrics"
      BY <3>1, <1>a, <1>3, LabelSet DEF ControlType, Release, Finish
    <3>2. CASE op[t] # "metrics"
      <4>1. pc' \in [Thread -> Labels] /\ op' \in [Thread -> Ops \cup {"none"}]
        BY <3>2, <1>a, <1>3, LabelSet DEF ControlType, Release, Finish
      <4>2. item' \in [Thread -> Item \cup {NoItem}] /\ max_count' \in [Thread -> Int]
        BY <3>2, <1>a, <1>3 DEF ControlType, Release, Finish
      <4> QED
        BY <1>3, <4>1, <4>2 DEF ControlType, Release
    <3> QED
      BY <3>1, <3>2
  <2>2. LockInv'
    <3>1. CASE op[t] = "metrics"
      BY <3>1, <1>a, <1>c, <1>3, LabelSet, DequeueAssumption DEF ControlType, LockInv, Release, Finish
    <3>2. CASE op[t] # "metrics"
      BY <3>2, <1>a, <1>c, <1>3, LabelSet, DequeueAssumption DEF ControlType, LockInv, Release, Finish
    <3> QED
      BY <3>1, <3>2
  <2>3. DataType'
    <3>1. local' = local \/ local' = [local EXCEPT ![t] = <<>>]
      BY <1>3 DEF Release, Finish
    <3>2. local' \in [Thread -> Seq(Item \cup Nat)]
      BY <1>f, <2>a, <3>1
    <3> QED
      BY <1>b, <1>3, <3>2 DEF DataType, Release
  <2>4. InHand(t)'
    <3>1. CASE op[t] = "metrics"
      BY <3>1, <1>a, <1>d, <1>f, <1>3, <2>a DEF ControlType, InHand, Release, Finish
    <3>2. CASE op[t] # "metrics"
      BY <3>2, <1>a, <1>d, <1>f, <1>3, <2>a DEF ControlType, InHand, Release, Finish
    <3> QED
      BY <3>1, <3>2
  <2>5. Len(deque') <= MaxLen
    BY <1>e, <1>3 DEF Release
  <2>6. \A u \in Thread \ {t} : /\ pc'[u] = pc[u] /\ op'[u] = op[u]
                                 /\ item'[u] = item[u] /\ local'[u] = local[u]
    <3>1. CASE op[t] = "metrics"
      BY <3>1, <1>a, <1>f, <1>3 DEF ControlType, Release, Finish
    <3>2. CASE op[t] # "metrics"
      BY <3>2, <1>a, <1>f, <1>3 DEF ControlType, Release, Finish
    <3> QED
      BY <3>1, <3>2
  <2> QED
    BY <1>d, <2>1, <2>2, <2>3, <2>4, <2>5, <2>6, InHandFrame DEF TInv, TypeOK
<1>4. CASE PutBody(t)
  <2>a. item[t] \in Item
    BY <1>d, <1>4 DEF PutBody, InHand
  <2>b. deque \in Seq(Item) /\ Len(deque) \in Nat /\ Len(deque) <= MaxLen
    BY <1>b, <1>e, LenProperties DEF DataType
  <2>c. /\ deque' \in Seq(Item)
        /\ Len(deque') \in Nat
        /\ Len(deque') <= MaxLen
        /\ Len(deque') <= Len(deque) + 1
    <3>1. CASE deque' = Appended(deque, item[t])
      <4>1. /\ Appended(deque, item[t]) \in Seq(Item)
            /\ Len(Appended(deque, item[t])) =
                 IF Len(deque) < MaxLen THEN Len(deque) + 1 ELSE Len(deque)
        BY <2>a, <2>b, AppendedProperties
      <4> QED
        BY <2>b, <3>1, <4>1, DequeueAssumption
    <3>2. CASE deque' = AppendedLeft(deque, item[t])
      BY <2>a, <2>b, <3>2, AppendedLeftProperties, DequeueAssumption
    <3> QED
      BY <1>4, <3>1, <3>2 DEF PutBody
  <2>d. lost' \in Nat
    <3>1. lost \in Nat /\ lost' = lost + (Len(deque) + 1 - Len(deque'))
      BY <1>b, <1>4 DEF DataType, PutBody
    <3>2. Len(deque) \in Nat /\ Len(deque') \in Nat /\ Len(deque') <= Len(deque) + 1
      BY <2>b, <2>c
    <3> QED
      BY <3>1, <3>2
  <2>1. ControlType'
    BY <1>a, <1>4, LabelSet DEF ControlType, PutBody
  <2>2. LockInv'
    BY <1>a, <1>c, <1>4, LabelSet, DequeueAssumption DEF ControlType, LockInv, PutBody
  <2>3. DataType'
    BY <1>b, <1>4, <2>a, <2>c, <2>d, AppendProperties DEF DataType, PutBody
  <2>4. InHand(t)'
    BY <1>a, <1>d, <1>f, <1>4 DEF ControlType, InHand, PutBody
  <2>5. Len(deque') <= MaxLen
    BY <2>c
  <2>6. \A u \in Thread \ {t} : /\ pc'[u] = pc[u] /\ op'[u] = op[u]
                                 /\ item'[u] = item[u] /\ local'[u] = local[u]
    BY <1>a, <1>f, <1>4 DEF ControlType, PutBody
  <2> QED
    BY <1>d, <2>1, <2>2, <2>3, <2>4, <2>5, <2>6, InHandFrame DEF TInv, TypeOK
<1>5. CASE CountAccepted(t)
  <2>1. ControlType'
    BY <1>a, <1>5, LabelSet DEF ControlType, CountAccepted, PutOps
  <2>2. LockInv'
    BY <1>a, <1>c, <1>5, LabelSet, DequeueAssumption DEF ControlType, LockInv, CountAccepted, PutOps
  <2>3. DataType'
    BY <1>b, <1>5 DEF DataType, MetricField, CountAccepted, PutOps
  <2>4. InHand(t)'
    BY <1>a, <1>d, <1>f, <1>5 DEF ControlType, InHand, CountAccepted, PutOps
  <2>5. Len(deque') <= MaxLen
    BY <1>e, <1>5 DEF CountAccepted, PutOps
  <2>6. \A u \in Thread \ {t} : /\ pc'[u] = pc[u] /\ op'[u] = op[u]
                                 /\ item'[u] = item[u] /\ local'[u] = local[u]
    BY <1>a, <1>f, <1>5 DEF ControlType, CountAccepted, PutOps
  <2> QED
    BY <1>d, <2>1, <2>2, <2>3, <2>4, <2>5, <2>6, InHandFrame DEF TInv, TypeOK
<1>6. CASE GetNothing(t)
  <2>1. ControlType'
    BY <1>a, <1>6, LabelSet DEF ControlType, GetNothing
  <2>2. LockInv'
    BY <1>a, <1>c, <1>6, LabelSet, DequeueAssumption DEF ControlType, LockInv, GetNothing
  <2>3. DataType'
    BY <1>b, <1>6 DEF DataType, MetricField, GetNothing
  <2>4. InHand(t)'
    BY <1>a, <1>d, <1>f, <1>6 DEF ControlType, InHand, GetNothing
  <2>5. Len(deque') <= MaxLen
    BY <1>e, <1>6 DEF GetNothing
  <2>6. \A u \in Thread \ {t} : /\ pc'[u] = pc[u] /\ op'[u] = op[u]
                                 /\ item'[u] = item[u] /\ local'[u] = local[u]
    BY <1>a, <1>f, <1>6 DEF ControlType, GetNothing
  <2> QED
    BY <1>d, <2>1, <2>2, <2>3, <2>4, <2>5, <2>6, InHandFrame DEF TInv, TypeOK
<1>7. CASE GetPop(t)
  <2>a. /\ Head(deque) \in Item /\ Tail(deque) \in Seq(Item)
        /\ Len(Tail(deque)) = Len(deque) - 1 /\ Len(deque) \in Nat
    BY <1>b, <1>7, HeadTailProperties, LenProperties DEF GetPop, DataType
  <2>b. <<Head(deque)>> \in Seq(Item) /\ <<Head(deque)>> \in Seq(Item \cup Nat)
    BY <2>a
  <2>c. \/ /\ pc' = [pc EXCEPT ![t] = "leaving"]
           /\ lost' = lost + 1
           /\ local' = local
        \/ /\ pc' = [pc EXCEPT ![t] = "counting"]
           /\ lost' = lost
           /\ local' = [local EXCEPT ![t] = <<Head(deque)>>]
    BY <1>7 DEF GetPop
  <2>1. ControlType'
    BY <1>a, <1>7, <2>c, LabelSet DEF ControlType, GetPop
  <2>2. LockInv'
    BY <1>a, <1>c, <1>7, LabelSet, DequeueAssumption DEF ControlType, LockInv, GetPop
  <2>3. DataType'
    <3>1. local' \in [Thread -> Seq(Item \cup Nat)]
      BY <1>f, <2>b, <2>c
    <3>2. lost' \in Nat
      <4>1. lost \in Nat
        BY <1>b DEF DataType
      <4> QED
        BY <2>c, <4>1
    <3> QED
      BY <1>b, <1>7, <2>a, <3>1, <3>2 DEF DataType, GetPop
  <2>4. InHand(t)'
    <3>1. pc[t] = "inside" /\ op[t] = "get" /\ op' = op /\ item' = item
      BY <1>7 DEF GetPop
    <3> QED
      BY <1>a, <1>d, <1>f, <2>b, <2>c, <3>1 DEF ControlType, InHand
  <2>5. Len(deque') <= MaxLen
    <3>1. deque' = Tail(deque)
      BY <1>7 DEF GetPop
    <3>2. MaxLen \in Nat
      BY DequeueAssumption
    <3> QED
      BY <1>e, <2>a, <3>1, <3>2
  <2>6. \A u \in Thread \ {t} : /\ pc'[u] = pc[u] /\ op'[u] = op[u]
                                 /\ item'[u] = item[u] /\ local'[u] = local[u]
    BY <1>a, <1>f, <1>7, <2>c DEF ControlType, GetPop
  <2> QED
    BY <1>d, <2>1, <2>2, <2>3, <2>4, <2>5, <2>6, InHandFrame DEF TInv, TypeOK
<1>8. CASE BatchPop(t)
  <2>a. /\ Head(deque) \in Item /\ Tail(deque) \in Seq(Item)
        /\ Len(Tail(deque)) = Len(deque) - 1 /\ Len(deque) \in Nat
    BY <1>b, <1>8, HeadTailProperties, LenProperties DEF BatchPop, BatchGoesOn, DataType
  <2>b. local[t] \in Seq(Item) /\ local[t] \in Seq(Item \cup Nat)
    BY <1>d, <1>f, <1>8 DEF BatchPop, InHand
  <2>c. /\ Append(local[t], Head(deque)) \in Seq(Item)
        /\ Append(local[t], Head(deque)) \in Seq(Item \cup Nat)
    BY <2>a, <2>b
  <2>1. ControlType'
    BY <1>a, <1>8, LabelSet DEF ControlType, BatchPop
  <2>2. LockInv'
    BY <1>a, <1>c, <1>8, LabelSet, DequeueAssumption DEF ControlType, LockInv, BatchPop
  <2>3. DataType'
    <3>1. local' \in [Thread -> Seq(Item \cup Nat)]
      BY <1>f, <1>8, <2>c DEF BatchPop
    <3> QED
      BY <1>b, <1>8, <2>a, <3>1 DEF DataType, BatchPop
  <2>4. InHand(t)'
    BY <1>a, <1>d, <1>f, <1>8, <2>c DEF ControlType, InHand, BatchPop
  <2>5. Len(deque') <= MaxLen
    <3>1. deque' = Tail(deque)
      BY <1>8 DEF BatchPop
    <3>2. MaxLen \in Nat
      BY DequeueAssumption
    <3> QED
      BY <1>e, <2>a, <3>1, <3>2
  <2>6. \A u \in Thread \ {t} : /\ pc'[u] = pc[u] /\ op'[u] = op[u]
                                 /\ item'[u] = item[u] /\ local'[u] = local[u]
    BY <1>a, <1>f, <1>8 DEF ControlType, BatchPop
  <2> QED
    BY <1>d, <2>1, <2>2, <2>3, <2>4, <2>5, <2>6, InHandFrame DEF TInv, TypeOK
<1>9. CASE BatchEnd(t)
  <2>1. ControlType'
    BY <1>a, <1>9, LabelSet DEF ControlType, BatchEnd
  <2>2. LockInv'
    BY <1>a, <1>c, <1>9, LabelSet, DequeueAssumption DEF ControlType, LockInv, BatchEnd
  <2>3. DataType'
    BY <1>b, <1>9 DEF DataType, MetricField, BatchEnd
  <2>4. InHand(t)'
    BY <1>a, <1>d, <1>f, <1>9 DEF ControlType, InHand, BatchEnd
  <2>5. Len(deque') <= MaxLen
    BY <1>e, <1>9 DEF BatchEnd
  <2>6. \A u \in Thread \ {t} : /\ pc'[u] = pc[u] /\ op'[u] = op[u]
                                 /\ item'[u] = item[u] /\ local'[u] = local[u]
    BY <1>a, <1>f, <1>9 DEF ControlType, BatchEnd
  <2> QED
    BY <1>d, <2>1, <2>2, <2>3, <2>4, <2>5, <2>6, InHandFrame DEF TInv, TypeOK
<1>10. CASE CountGaveOut(t)
  <2>a. local[t] \in Seq(Item)
    BY <1>d, <1>10 DEF CountGaveOut, TakeOps, InHand
  <2>b. delivered \o local[t] \in Seq(Item) /\ Len(local[t]) \in Nat
    BY <1>b, <2>a, ConcatProperties, LenProperties DEF DataType
  <2>c. metric' \in [MetricField -> Nat]
    <3>1. metric \in [MetricField -> Nat] /\ metric["gave_out"] \in Nat
      BY <1>b DEF DataType, MetricField
    <3>2. metric' = [metric EXCEPT !["gave_out"] = metric["gave_out"] + Len(local[t])]
      BY <1>10 DEF CountGaveOut, Counted
    <3>3. metric["gave_out"] + Len(local[t]) \in Nat
      BY <2>b, <3>1
    <3> QED
      BY <3>1, <3>2, <3>3
  <2>1. ControlType'
    BY <1>a, <1>10, LabelSet DEF ControlType, CountGaveOut, TakeOps
  <2>2. LockInv'
    BY <1>a, <1>c, <1>10, LabelSet, DequeueAssumption DEF ControlType, LockInv, CountGaveOut, TakeOps
  <2>3. DataType'
    BY <1>b, <1>10, <2>b, <2>c DEF DataType, CountGaveOut
  <2>4. InHand(t)'
    BY <1>a, <1>d, <1>f, <1>10 DEF ControlType, InHand, CountGaveOut, TakeOps
  <2>5. Len(deque') <= MaxLen
    BY <1>e, <1>10 DEF CountGaveOut, TakeOps
  <2>6. \A u \in Thread \ {t} : /\ pc'[u] = pc[u] /\ op'[u] = op[u]
                                 /\ item'[u] = item[u] /\ local'[u] = local[u]
    BY <1>a, <1>f, <1>10 DEF ControlType, CountGaveOut, TakeOps
  <2> QED
    BY <1>d, <2>1, <2>2, <2>3, <2>4, <2>5, <2>6, InHandFrame DEF TInv, TypeOK
<1>11. CASE DropCount(t)
  <2>1. ControlType'
    BY <1>a, <1>11, LabelSet DEF ControlType, DropCount
  <2>2. LockInv'
    BY <1>a, <1>c, <1>11, LabelSet, DequeueAssumption DEF ControlType, LockInv, DropCount
  <2>3. DataType'
    <3>1. Len(deque) \in Nat
      BY <1>b, LenProperties DEF DataType
    <3>2. metric' \in [MetricField -> Nat]
      BY <1>b, <1>11, <3>1 DEF DataType, MetricField, DropCount
    <3> QED
      BY <1>b, <1>11, <3>2 DEF DataType, DropCount
  <2>4. InHand(t)'
    BY <1>a, <1>d, <1>f, <1>11 DEF ControlType, InHand, DropCount
  <2>5. Len(deque') <= MaxLen
    BY <1>e, <1>11 DEF DropCount
  <2>6. \A u \in Thread \ {t} : /\ pc'[u] = pc[u] /\ op'[u] = op[u]
                                 /\ item'[u] = item[u] /\ local'[u] = local[u]
    BY <1>a, <1>f, <1>11 DEF ControlType, DropCount
  <2> QED
    BY <1>d, <2>1, <2>2, <2>3, <2>4, <2>5, <2>6, InHandFrame DEF TInv, TypeOK
<1>12. CASE DropNothing(t)
  <2>1. ControlType'
    BY <1>a, <1>12, LabelSet DEF ControlType, DropNothing
  <2>2. LockInv'
    BY <1>a, <1>c, <1>12, LabelSet, DequeueAssumption DEF ControlType, LockInv, DropNothing
  <2>3. DataType'
    BY <1>b, <1>12 DEF DataType, MetricField, DropNothing
  <2>4. InHand(t)'
    BY <1>a, <1>d, <1>f, <1>12 DEF ControlType, InHand, DropNothing
  <2>5. Len(deque') <= MaxLen
    BY <1>e, <1>12 DEF DropNothing
  <2>6. \A u \in Thread \ {t} : /\ pc'[u] = pc[u] /\ op'[u] = op[u]
                                 /\ item'[u] = item[u] /\ local'[u] = local[u]
    BY <1>a, <1>f, <1>12 DEF ControlType, DropNothing
  <2> QED
    BY <1>d, <2>1, <2>2, <2>3, <2>4, <2>5, <2>6, InHandFrame DEF TInv, TypeOK
<1>13. CASE DropReplace(t)
  <2>1. ControlType'
    BY <1>a, <1>13, LabelSet DEF ControlType, DropReplace
  <2>2. LockInv'
    BY <1>a, <1>c, <1>13, LabelSet, DequeueAssumption DEF ControlType, LockInv, DropReplace
  <2>3. DataType'
    BY <1>b, <1>13 DEF DataType, MetricField, DropReplace
  <2>4. InHand(t)'
    BY <1>a, <1>d, <1>f, <1>13 DEF ControlType, InHand, DropReplace
  <2>5. Len(deque') <= MaxLen
    BY <1>13, EmptySeq, DequeueAssumption DEF DropReplace
  <2>6. \A u \in Thread \ {t} : /\ pc'[u] = pc[u] /\ op'[u] = op[u]
                                 /\ item'[u] = item[u] /\ local'[u] = local[u]
    BY <1>a, <1>f, <1>13 DEF ControlType, DropReplace
  <2> QED
    BY <1>d, <2>1, <2>2, <2>3, <2>4, <2>5, <2>6, InHandFrame DEF TInv, TypeOK
<1>14. CASE ReadLen(t)
  <2>a. Len(deque) \in Nat
    BY <1>b, LenProperties DEF DataType
  <2>b. /\ <<Len(deque)>> \in Seq(Nat) /\ <<Len(deque)>> # <<>>
        /\ <<Len(deque)>> \in Seq(Item \cup Nat)
    BY <2>a
  <2>1. ControlType'
    BY <1>a, <1>14, LabelSet DEF ControlType, ReadLen
  <2>2. LockInv'
    BY <1>a, <1>c, <1>14, LabelSet, DequeueAssumption DEF ControlType, LockInv, ReadLen
  <2>3. DataType'
    BY <1>b, <1>14, <2>b DEF DataType, ReadLen
  <2>4. InHand(t)'
    BY <1>a, <1>d, <1>f, <1>14, <2>b DEF ControlType, InHand, ReadLen
  <2>5. Len(deque') <= MaxLen
    BY <1>e, <1>14 DEF ReadLen
  <2>6. \A u \in Thread \ {t} : /\ pc'[u] = pc[u] /\ op'[u] = op[u]
                                 /\ item'[u] = item[u] /\ local'[u] = local[u]
    BY <1>a, <1>f, <1>14 DEF ControlType, ReadLen
  <2> QED
    BY <1>d, <2>1, <2>2, <2>3, <2>4, <2>5, <2>6, InHandFrame DEF TInv, TypeOK
<1>15. CASE ReadField(t)
  <2>a. local[t] \in Seq(Nat) /\ local[t] # <<>> /\ local[t] \in Seq(Item \cup Nat)
    BY <1>d, <1>f, <1>15 DEF ReadField, InHand
  <2>b. Len(local[t]) \in 1..4
    <3>1. Len(Fields) = 4
      BY DEF Fields
    <3>2. Len(local[t]) \in Nat /\ Len(local[t]) # 0
      BY <2>a, EmptySeq
    <3>3. Len(local[t]) <= 4
      BY <1>15, <3>1 DEF ReadField
    <3> QED
      <4>1. \A n \in Nat : n # 0 /\ n <= 4 => n \in 1..4
        OBVIOUS
      <4> QED
        BY <3>2, <3>3, <4>1
  <2>c. metric[Fields[Len(local[t])]] \in Nat
    <3>1. \A k \in 1..4 : Fields[k] \in MetricField
      BY DEF Fields, MetricField
    <3> QED
      BY <1>b, <2>b, <3>1 DEF DataType
  <2> DEFINE longer == Append(local[t], metric[Fields[Len(local[t])]])
  <2>d. longer \in Seq(Nat) /\ longer # <<>> /\ longer \in Seq(Item \cup Nat)
    BY <2>a, <2>c, AppendProperties
  <2>e. local' = [local EXCEPT ![t] = longer]
    BY <1>15 DEF ReadField
  <2> HIDE DEF longer
  <2>1. ControlType'
    BY <1>a, <1>15, LabelSet DEF ControlType, ReadField
  <2>2. LockInv'
    BY <1>a, <1>c, <1>15, LabelSet, DequeueAssumption DEF ControlType, LockInv, ReadField
  <2>3. DataType'
    BY <1>b, <1>15, <2>d, <2>e DEF DataType, ReadField
  <2>4. InHand(t)'
    <3>1. pc[t] = "reading" /\ UNCHANGED <<pc, op, item>>
      BY <1>15 DEF ReadField
    <3> QED
      BY <1>a, <1>d, <1>f, <2>d, <2>e, <3>1 DEF ControlType, InHand
  <2>5. Len(deque') <= MaxLen
    BY <1>e, <1>15 DEF ReadField
  <2>6. \A u \in Thread \ {t} : /\ pc'[u] = pc[u] /\ op'[u] = op[u]
                                 /\ item'[u] = item[u] /\ local'[u] = local[u]
    BY <1>f, <1>15, <2>e DEF ReadField
  <2> QED
    BY <1>d, <2>1, <2>2, <2>3, <2>4, <2>5, <2>6, InHandFrame DEF TInv, TypeOK
<1>16. CASE ReturnMetrics(t)
  <2>a. <<>> \in Seq(Item \cup Nat) /\ <<>> \in Seq(Item)
    BY EmptySeq
  <2>1. ControlType'
    BY <1>a, <1>16, LabelSet DEF ControlType, ReturnMetrics, Finish
  <2>2. LockInv'
    BY <1>a, <1>c, <1>16, LabelSet, DequeueAssumption DEF ControlType, LockInv, ReturnMetrics, Finish
  <2>3. DataType'
    BY <1>b, <1>16, <2>a DEF DataType, ReturnMetrics, Finish
  <2>4. InHand(t)'
    BY <1>a, <1>d, <1>f, <1>16, <2>a DEF ControlType, InHand, ReturnMetrics, Finish
  <2>5. Len(deque') <= MaxLen
    BY <1>e, <1>16 DEF ReturnMetrics, Finish
  <2>6. \A u \in Thread \ {t} : /\ pc'[u] = pc[u] /\ op'[u] = op[u]
                                 /\ item'[u] = item[u] /\ local'[u] = local[u]
    BY <1>a, <1>f, <1>16 DEF ControlType, ReturnMetrics, Finish
  <2> QED
    BY <1>d, <2>1, <2>2, <2>3, <2>4, <2>5, <2>6, InHandFrame DEF TInv, TypeOK
<1> QED
  BY <1>1, <1>2, <1>3, <1>4, <1>5, <1>6, <1>7, <1>8,
     <1>9, <1>10, <1>11, <1>12, <1>13, <1>14, <1>15, <1>16 DEF Step, Body

\* Every variable keeps its type, the mutex has at most one owner and the deque
\* its capacity.
THEOREM TypeCorrect == Spec => []TypeOK
<1>1. TInv /\ [Next]_vars => TInv'
  <2> SUFFICES ASSUME TInv, [Next]_vars PROVE TInv'
    OBVIOUS
  <2>1. CASE Next
    BY <2>1, TInvStep DEF Next
  <2>2. CASE UNCHANGED vars
    BY <2>2 DEF vars, TInv, TypeOK, ControlType, DataType, LockInv, LocalInv, InHand
  <2> QED
    BY <2>1, <2>2
<1> QED
  BY TInvInit, <1>1, PTL DEF Spec, TInv

-----------------------------------------------------------------------------
(* The refinement.  TakeInv says what a get or a get_batch holds when it is   *)
(* counted; with it, each step maps to a step of LossyQueue or to a stutter.  *)

Taken(t) ==
  /\ op[t] = "get_batch" => max_count[t] \in BatchSizes
  /\ op[t] = "get" /\ pc[t] = "counting" => Len(local[t]) = 1 /\ local[t][1] \notin Falsy
  /\ op[t] = "get_batch" /\ pc[t] \in {"inside", "counting"} =>
       Len(local[t]) = 0 \/ Len(local[t]) <= max_count[t]
  /\ op[t] = "get_batch" /\ pc[t] = "counting" =>
       deque = <<>> \/ Len(local[t]) >= max_count[t]

TakeInv == \A t \in Thread : Taken(t)

\* A thread that is not in the critical section has no part in TakeInv, so the
\* step of another cannot break it.
LEMMA TakenFrame ==
  ASSUME TInv, TakeInv, NEW t \in Thread, Taken(t)',
         \A u \in Thread \ {t} : /\ pc'[u] = pc[u] /\ op'[u] = op[u]
                                 /\ max_count'[u] = max_count[u] /\ local'[u] = local[u],
         deque' = deque \/ mutex = t
  PROVE  TakeInv'
<1> SUFFICES ASSUME NEW u \in Thread \ {t} PROVE Taken(u)'
  BY DEF TakeInv
<1>1. Taken(u)
  BY DEF TakeInv
<1>2. CASE deque' = deque
  BY <1>1, <1>2 DEF Taken
<1>3. CASE mutex = t
  <2>1. pc[u] \notin {"inside", "counting", "leaving"}
    BY <1>3, LabelSet DEF TInv, LockInv
  <2> QED
    BY <1>1, <2>1 DEF Taken
<1> QED
  BY <1>2, <1>3

\* Every step keeps what the thread in the critical section has taken within the capacity.
LEMMA TakeInvStep ==
  ASSUME TInv, TakeInv, NEW t \in Thread, Step(t)
  PROVE  TakeInv'
<1> USE DEF call, Goto, At
<1>a. ControlType /\ local \in [Thread -> Seq(Item \cup Nat)] /\ deque \in Seq(Item)
  BY DEF TInv, TypeOK, DataType
<1>b. Taken(t) /\ InHand(t)
  BY DEF TInv, TakeInv, LocalInv
<1>c. pc[t] \in {"inside", "counting", "leaving"} => mutex = t
  BY LabelSet DEF TInv, LockInv
<1>1. CASE Call(t) \/ Acquire(t) \/ Release(t)
  <2>1. UNCHANGED deque
    BY <1>1 DEF Call, Acquire, Release
  <2>2. \A u \in Thread \ {t} : /\ pc'[u] = pc[u] /\ op'[u] = op[u]
                                /\ max_count'[u] = max_count[u] /\ local'[u] = local[u]
    <3>1. CASE Call(t)
      BY <1>a, <3>1 DEF Call, ControlType
    <3>2. CASE Acquire(t)
      BY <3>2 DEF Acquire
    <3>3. CASE Release(t)
      BY <1>a, <3>3 DEF Release, Finish, ControlType
    <3> QED
      BY <1>1, <3>1, <3>2, <3>3
  <2>3. Taken(t)'
    <3>1. CASE Call(t)
      <4>1. pc'[t] = "waiting"
        BY <1>a, <3>1 DEF Call, ControlType
      <4>2. op'[t] = "get_batch" => max_count'[t] \in BatchSizes
        BY <1>a, <3>1 DEF Call, ControlType, PutOps
      <4> QED
        BY <4>1, <4>2 DEF Taken
    <3>2. CASE Acquire(t)
      <4>1. /\ local[t] = <<>> /\ pc'[t] = "inside"
            /\ local' = local /\ op' = op /\ max_count' = max_count
        BY <1>a, <1>b, <3>2 DEF Acquire, InHand, ControlType
      <4> QED
        BY <1>b, <4>1, EmptySeq DEF Taken
    <3>3. CASE Release(t)
      BY <1>a, <3>3 DEF Release, Finish, ControlType, Taken
    <3> QED
      BY <1>1, <3>1, <3>2, <3>3
  <2> QED
    BY <2>1, <2>2, <2>3, TakenFrame
<1>2. CASE Body(t)
  <2>1. deque' = deque \/ mutex = t
    BY <1>2, <1>c
    DEF Body, PutBody, CountAccepted, GetNothing, GetPop, BatchPop, BatchEnd, CountGaveOut,
        DropCount, DropNothing, DropReplace, ReadLen, ReadField, ReturnMetrics
  <2>2. \A u \in Thread \ {t} : /\ pc'[u] = pc[u] /\ op'[u] = op[u]
                                /\ max_count'[u] = max_count[u] /\ local'[u] = local[u]
    BY <1>2, <1>a
    DEF Body, PutBody, CountAccepted, GetNothing, GetPop, BatchPop, BatchEnd, CountGaveOut,
        DropCount, DropNothing, DropReplace, ReadLen, ReadField, ReturnMetrics, Finish,
        ControlType
  <2>3. Taken(t)'
    <3>1. CASE GetPop(t)
      BY <1>a, <3>1 DEF GetPop, Taken, ControlType
    <3>2. CASE BatchPop(t)
      <4>1. /\ op' = op /\ pc' = pc /\ max_count' = max_count
            /\ op[t] = "get_batch" /\ pc[t] = "inside"
            /\ local' = [local EXCEPT ![t] = Append(local[t], Head(deque))]
            /\ Len(local[t]) < max_count[t] /\ deque # <<>>
        BY <3>2 DEF BatchPop, BatchGoesOn
      <4>2. /\ local[t] \in Seq(Item \cup Nat) /\ Head(deque) \in Item \cup Nat
            /\ Len(local[t]) \in Nat /\ max_count[t] \in Int
        BY <1>a, <4>1, HeadTailProperties, LenProperties DEF ControlType
      <4>3. Len(local'[t]) = Len(local[t]) + 1
        BY <1>a, <4>1, <4>2, AppendProperties
      <4> QED
        BY <1>b, <4>1, <4>2, <4>3 DEF Taken
    <3>3. CASE BatchEnd(t)
      <4>1. /\ op' = op /\ pc'[t] = "counting" /\ max_count' = max_count /\ deque' = deque
            /\ op[t] = "get_batch" /\ pc[t] = "inside" /\ local' = local
            /\ (deque = <<>> \/ ~(Len(local[t]) < max_count[t]))
        BY <1>a, <3>3 DEF BatchEnd, BatchGoesOn, ControlType
      <4>2. Len(local[t]) \in Nat /\ max_count[t] \in Int
        BY <1>a, LenProperties DEF ControlType
      <4> QED
        BY <1>b, <4>1, <4>2 DEF Taken
    <3>4. CASE ~(GetPop(t) \/ BatchPop(t) \/ BatchEnd(t))
      <4>1. op'[t] \notin {"get", "get_batch"} \/ pc'[t] \notin {"inside", "counting"}
        BY <1>2, <1>a, <3>4
        DEF Body, PutBody, CountAccepted, GetNothing, CountGaveOut,
            DropCount, DropNothing, DropReplace, ReadLen, ReadField, ReturnMetrics, Finish,
            ControlType
      <4>2. op'[t] = "get_batch" => op[t] = "get_batch" /\ max_count' = max_count
        BY <1>2, <1>a, <3>4
        DEF Body, PutBody, CountAccepted, GetNothing, CountGaveOut,
            DropCount, DropNothing, DropReplace, ReadLen, ReadField, ReturnMetrics, Finish,
            ControlType
      <4> QED
        BY <1>b, <4>1, <4>2 DEF Taken
    <3> QED
      BY <3>1, <3>2, <3>3, <3>4
  <2> QED
    BY <2>1, <2>2, <2>3, TakenFrame
<1> QED
  BY <1>1, <1>2 DEF Step

\* A batch popped from the front of a queue is its front, and leaves the rest.
LEMMA SplitFront ==
  ASSUME NEW r \in Seq(Item), NEW s \in Seq(Item)
  PROVE  /\ SubSeq(r \o s, 1, Len(r)) = r
         /\ SubSeq(r \o s, Len(r) + 1, Len(r \o s)) = s
  OBVIOUS

\* Moving the head of s to the end of r changes nothing in r \o s.
LEMMA MoveHead ==
  ASSUME NEW r \in Seq(Item), NEW s \in Seq(Item), s # <<>>
  PROVE  Append(r, Head(s)) \o Tail(s) = r \o s
  OBVIOUS

\* What a waiting thread would find, told from the program counter of the
\* thread that holds the mutex.
SeenAs ==
  /\ mutex = NoThread => Contents = deque /\ Accepted = metric["accepted"]
  /\ \A t \in Thread : mutex = t =>
       /\ At(t, "counting", "drop") => Contents = <<>>
       /\ op[t] \in TakeOps /\ pc[t] # "leaving" => Contents = local[t] \o deque
       /\ ~At(t, "counting", "drop") /\ (op[t] \notin TakeOps \/ pc[t] = "leaving")
            => Contents = deque
       /\ pc[t] = "counting" /\ op[t] \in PutOps => Accepted = metric["accepted"] + 1
       /\ pc[t] # "counting" \/ op[t] \notin PutOps => Accepted = metric["accepted"]

\* What a waiting thread would see of the queue, in the current state ...
LEMMA SeenAsNow == TInv => SeenAs
<1> SUFFICES ASSUME TInv PROVE SeenAs
  OBVIOUS
<1>1. deque \in Seq(Item) /\ <<>> \o deque = deque
  BY ConcatEmptySeq DEF TInv, TypeOK, DataType
<1> QED
  BY <1>1, DequeueAssumption DEF SeenAs, Contents, InFlight, Accepted, At, TakeOps

\* ... and in the next one.
LEMMA SeenAsNext == TInv' => SeenAs'
<1> SUFFICES ASSUME TInv' PROVE SeenAs'
  OBVIOUS
<1>1. deque' \in Seq(Item) /\ <<>> \o deque' = deque'
  BY ConcatEmptySeq DEF TInv, TypeOK, DataType
<1> QED
  BY <1>1, DequeueAssumption DEF SeenAs, Contents, InFlight, Accepted, At, TakeOps

\* The state that LossyQueue speaks of, and the history of puts.
seen == <<Contents, Accepted, metric["gave_out"], metric["dropped"], lost, delivered>>

\* What a step does to that state.
Effect(t) ==
  \/ UNCHANGED <<seen, log>>
  \/ op[t] = "put" /\ item[t] \in Item /\ Promise!Put(item[t]) /\ log' = Append(log, item[t])
  \/ op[t] = "put_top" /\ item[t] \in Item /\ Promise!PutTop(item[t])
       /\ log' = Append(log, item[t])
  \/ Promise!Get /\ log' = log
  \/ max_count[t] \in BatchSizes /\ Promise!GetBatch(max_count[t]) /\ log' = log
  \/ Promise!Drop /\ log' = log

\* Steps outside the bodies, and the steps of a body that others cannot see.
LEMMA SilentSteps ==
  ASSUME TInv, TInv', NEW t \in Thread,
         \/ Call(t) \/ Acquire(t) \/ Release(t) \/ ReadField(t) \/ ReturnMetrics(t)
         \/ ReadLen(t) \/ GetNothing(t) \/ DropNothing(t) \/ BatchPop(t) \/ BatchEnd(t)
         \/ CountAccepted(t) \/ DropReplace(t)
  PROVE  UNCHANGED <<seen, log>>
<1>a. SeenAs /\ SeenAs'
  BY SeenAsNow, SeenAsNext
<1>b. ControlType /\ DataType /\ LockInv /\ InHand(t)
  BY DEF TInv, TypeOK, LocalInv
<1>c. pc[t] \in {"inside", "counting", "leaving"} <=> mutex = t
  BY <1>b, LabelSet DEF LockInv
<1>1. CASE Call(t) \/ ReadField(t) \/ ReturnMetrics(t)
  <2>1. mutex # t /\ mutex' = mutex
    BY <1>1, <1>c DEF Call, ReadField, ReturnMetrics
  <2>2. UNCHANGED <<deque, metric, log, delivered, lost>>
    BY <1>1 DEF Call, ReadField, ReturnMetrics
  <2>3. \A u \in Thread \ {t} : /\ pc'[u] = pc[u] /\ op'[u] = op[u]
                                /\ local'[u] = local[u]
    BY <1>1, <1>b DEF Call, ReadField, ReturnMetrics, Finish, ControlType, DataType, call
  <2>4. mutex = NoThread \/ mutex \in Thread \ {t}
    BY <1>b, <2>1 DEF ControlType
  <2>5. Contents' = Contents /\ Accepted' = Accepted
    BY <2>1, <2>2, <2>3, <2>4 DEF Contents, InFlight, Accepted, At
  <2> QED
    BY <2>2, <2>5 DEF seen
<1>2. CASE Acquire(t)
  <2>1. /\ mutex = NoThread /\ mutex' = t /\ pc'[t] = "inside" /\ op' = op
        /\ local[t] = <<>> /\ UNCHANGED <<deque, metric, local, log, delivered, lost>>
    BY <1>2, <1>b DEF Acquire, ControlType, InHand, call
  <2>2. Contents' = deque /\ Contents = deque
    <3>1. local[t] \o deque = deque
      BY <1>b, <2>1, ConcatEmptySeq DEF DataType
    <3> QED
      BY <1>a, <2>1, <3>1 DEF SeenAs, At
  <2>3. Accepted' = Accepted
    BY <1>a, <2>1 DEF SeenAs
  <2> QED
    BY <2>1, <2>2, <2>3 DEF seen
<1>3. CASE Release(t)
  <2>1. /\ mutex = t /\ mutex' = NoThread /\ pc[t] = "leaving"
        /\ UNCHANGED <<deque, metric, log, delivered, lost>>
    BY <1>3, <1>c DEF Release
  <2>2. Contents' = deque /\ Contents = deque /\ Accepted' = Accepted
    BY <1>a, <2>1 DEF SeenAs, At
  <2> QED
    BY <2>1, <2>2 DEF seen
<1>4. CASE ReadLen(t) \/ GetNothing(t) \/ DropNothing(t)
  <2>1. /\ mutex = t /\ mutex' = t /\ pc[t] = "inside" /\ pc'[t] = "leaving" /\ op' = op
        /\ UNCHANGED <<deque, metric, log, delivered, lost>>
    BY <1>4, <1>b, <1>c DEF ReadLen, GetNothing, DropNothing, Goto, ControlType, call, At
  <2>2. op[t] \notin TakeOps \/ local[t] \o deque = deque
    <3>1. CASE GetNothing(t)
      BY <3>1, <1>b, ConcatEmptySeq DEF GetNothing, At, InHand, DataType
    <3>2. CASE ReadLen(t) \/ DropNothing(t)
      BY <3>2 DEF ReadLen, DropNothing, At, TakeOps
    <3> QED
      BY <1>4, <3>1, <3>2
  <2>3. Contents' = deque /\ Contents = deque /\ Accepted' = Accepted
    BY <1>a, <2>1, <2>2 DEF SeenAs, At
  <2> QED
    BY <2>1, <2>3 DEF seen
<1>5. CASE BatchPop(t) \/ BatchEnd(t)
  <2>1. /\ mutex = t /\ mutex' = t /\ pc[t] = "inside" /\ pc'[t] \in {"inside", "counting"}
        /\ op' = op /\ op[t] = "get_batch" /\ UNCHANGED <<metric, log, delivered, lost>>
    BY <1>5, <1>b, <1>c DEF BatchPop, BatchEnd, Goto, ControlType, call, At
  <2>2. local'[t] \o deque' = local[t] \o deque
    <3>1. CASE BatchPop(t)
      <4>1. local'[t] = Append(local[t], Head(deque)) /\ deque' = Tail(deque) /\ deque # <<>>
        BY <1>b, <3>1 DEF BatchPop, BatchGoesOn, DataType
      <4>2. local[t] \in Seq(Item) /\ deque \in Seq(Item)
        BY <1>b, <2>1 DEF InHand, DataType
      <4> QED
        BY <4>1, <4>2, MoveHead
    <3>2. CASE BatchEnd(t)
      BY <3>2 DEF BatchEnd
    <3> QED
      BY <1>5, <3>1, <3>2
  <2>3. Contents' = Contents /\ Accepted' = Accepted
    BY <1>a, <2>1, <2>2 DEF SeenAs, At, TakeOps, PutOps
  <2> QED
    BY <2>1, <2>3 DEF seen
<1>6. CASE CountAccepted(t)
  <2>1. /\ mutex = t /\ mutex' = t /\ pc[t] = "counting" /\ pc'[t] = "leaving"
        /\ op' = op /\ op[t] \in PutOps /\ UNCHANGED <<deque, log, delivered, lost>>
    BY <1>6, <1>b, <1>c DEF CountAccepted, Goto, ControlType, call
  <2>2. /\ metric'["accepted"] = metric["accepted"] + 1
        /\ metric'["gave_out"] = metric["gave_out"]
        /\ metric'["dropped"] = metric["dropped"]
    BY <1>6, <1>b DEF CountAccepted, DataType, MetricField
  <2>3. Contents' = Contents /\ Accepted' = Accepted
    BY <1>a, <2>1, <2>2 DEF SeenAs, At, TakeOps, PutOps
  <2> QED
    BY <2>1, <2>2, <2>3 DEF seen
<1>7. CASE DropReplace(t)
  <2>1. /\ mutex = t /\ mutex' = t /\ pc[t] = "counting" /\ pc'[t] = "leaving" /\ deque' = <<>>
        /\ op' = op /\ op[t] = "drop" /\ UNCHANGED <<metric, log, delivered, lost>>
    BY <1>7, <1>b, <1>c DEF DropReplace, Goto, ControlType, call, At
  <2>2. Contents' = Contents /\ Accepted' = Accepted
    BY <1>a, <2>1 DEF SeenAs, At, TakeOps, PutOps
  <2> QED
    BY <2>1, <2>2 DEF seen
<1> QED
  BY <1>1, <1>2, <1>3, <1>4, <1>5, <1>6, <1>7

\* The steps at which put, get, get_batch and drop take effect.
LEMMA PutEffect ==
  ASSUME TInv, TInv', NEW t \in Thread, PutBody(t)
  PROVE  Effect(t)
<1>a. SeenAs /\ SeenAs'
  BY SeenAsNow, SeenAsNext
<1>b. ControlType /\ DataType /\ LockInv /\ InHand(t) /\ Len(deque) <= MaxLen
  BY DEF TInv, TypeOK, LocalInv
<1>1. /\ mutex = t /\ mutex' = t /\ pc[t] = "inside" /\ pc'[t] = "counting"
      /\ op' = op /\ op[t] \in {"put", "put_top"}
      /\ log' = Append(log, item[t]) /\ lost' = lost + (Len(deque) + 1 - Len(deque'))
      /\ UNCHANGED <<metric, delivered>>
  BY <1>b, LabelSet DEF PutBody, Goto, ControlType, LockInv, call, At
<1>2. item[t] \in Item /\ deque \in Seq(Item) /\ Len(deque) \in Nat /\ lost \in Nat
  BY <1>1, <1>b, LenProperties DEF InHand, DataType
<1>3. /\ Contents = deque /\ Contents' = deque'
      /\ Accepted = metric["accepted"] /\ Accepted' = Accepted + 1
  BY <1>a, <1>1 DEF SeenAs, At, TakeOps, PutOps
<1>4. CASE op[t] = "put"
  <2>1. deque' = Appended(deque, item[t])
    BY <1>4 DEF PutBody, At
  <2>2. Len(deque') = IF Len(deque) < MaxLen THEN Len(deque) + 1 ELSE Len(deque)
    BY <1>2, <2>1, AppendedProperties
  <2>3. lost' = IF Len(deque) < MaxLen THEN lost ELSE lost + 1
    BY <1>1, <1>2, <2>2
  <2>4. Promise!Put(item[t])
    <3>1. CASE Len(deque) < MaxLen
      BY <1>1, <1>2, <1>3, <2>1, <2>3, <3>1 DEF Appended, Promise!Put, Promise!Enter
    <3>2. CASE ~(Len(deque) < MaxLen)
      BY <1>1, <1>2, <1>3, <2>1, <2>3, <3>2 DEF Appended, Promise!Put, Promise!Enter
    <3> QED
      BY <3>1, <3>2
  <2> QED
    BY <1>1, <1>2, <1>4, <2>4 DEF Effect
<1>5. CASE op[t] = "put_top"
  <2>1. deque' = AppendedLeft(deque, item[t])
    BY <1>5 DEF PutBody, At
  <2>2. Len(deque') = IF Len(deque) < MaxLen THEN Len(deque) + 1 ELSE Len(deque)
    BY <1>b, <1>2, <2>1, AppendedLeftProperties
  <2>3. lost' = IF Len(deque) < MaxLen THEN lost ELSE lost + 1
    BY <1>1, <1>2, <2>2
  <2>4. Promise!PutTop(item[t])
    <3>1. CASE Len(deque) < MaxLen
      BY <1>1, <1>2, <1>3, <2>1, <2>3, <3>1 DEF AppendedLeft, Promise!PutTop, Promise!Enter
    <3>2. CASE ~(Len(deque) < MaxLen)
      BY <1>1, <1>2, <1>3, <2>1, <2>3, <3>2 DEF AppendedLeft, Promise!PutTop, Promise!Enter
    <3> QED
      BY <3>1, <3>2
  <2> QED
    BY <1>1, <1>2, <1>5, <2>4 DEF Effect
<1> QED
  BY <1>1, <1>4, <1>5

\* A get takes effect when it pops: the element is handed out, or is false and lost.
LEMMA GetPopEffect ==
  ASSUME TInv, TInv', NEW t \in Thread, GetPop(t)
  PROVE  Effect(t)
<1>a. SeenAs /\ SeenAs'
  BY SeenAsNow, SeenAsNext
<1>b. ControlType /\ DataType /\ LockInv /\ InHand(t)
  BY DEF TInv, TypeOK, LocalInv
<1>1. /\ mutex = t /\ mutex' = t /\ pc[t] = "inside" /\ op' = op /\ op[t] = "get"
      /\ deque # <<>> /\ deque' = Tail(deque) /\ UNCHANGED <<metric, log, delivered>>
  BY <1>b, LabelSet DEF GetPop, Goto, ControlType, LockInv, call, At
<1>2. /\ deque \in Seq(Item) /\ Head(deque) \in Item /\ Tail(deque) \in Seq(Item)
      /\ local[t] \o deque = deque
  BY <1>1, <1>b, HeadTailProperties, ConcatEmptySeq DEF InHand, DataType
<1>3. Contents = deque /\ Accepted' = Accepted
  BY <1>a, <1>1, <1>2 DEF SeenAs, At, TakeOps, PutOps
<1>4. CASE Head(deque) \in Falsy
  <2>1. pc'[t] = "leaving" /\ lost' = lost + 1
    BY <1>4, <1>b DEF GetPop, Goto, ControlType
  <2>2. Contents' = deque'
    BY <1>a, <1>1, <2>1 DEF SeenAs, At
  <2>3. Promise!Swallow
    BY <1>1, <1>3, <1>4, <2>1, <2>2 DEF Promise!Swallow
  <2> QED
    BY <1>1, <2>3 DEF Effect, Promise!Get
<1>5. CASE Head(deque) \notin Falsy
  <2>1. pc'[t] = "counting" /\ lost' = lost /\ local'[t] = <<Head(deque)>>
    BY <1>5, <1>b DEF GetPop, Goto, ControlType, DataType
  <2>2. <<Head(deque)>> \o Tail(deque) = deque
    BY <1>1, <1>2
  <2>3. Contents' = deque
    BY <1>a, <1>1, <2>1, <2>2 DEF SeenAs, At, TakeOps
  <2> QED
    BY <1>1, <1>3, <2>1, <2>3 DEF Effect, seen
<1> QED
  BY <1>4, <1>5

\* A get or a batch is handed out, as a whole, when it is counted.
LEMMA CountGaveOutEffect ==
  ASSUME TInv, TInv', TakeInv, NEW t \in Thread, CountGaveOut(t)
  PROVE  Effect(t)
<1>a. SeenAs /\ SeenAs'
  BY SeenAsNow, SeenAsNext
<1>b. ControlType /\ DataType /\ LockInv /\ InHand(t) /\ Taken(t)
  BY DEF TInv, TypeOK, LocalInv, TakeInv
<1>1. /\ mutex = t /\ mutex' = t /\ pc[t] = "counting" /\ pc'[t] = "leaving"
      /\ op' = op /\ op[t] \in TakeOps /\ delivered' = delivered \o local[t]
      /\ UNCHANGED <<deque, log, lost>>
  BY <1>b, LabelSet DEF CountGaveOut, Goto, ControlType, LockInv, call
<1>2. local[t] \in Seq(Item) /\ deque \in Seq(Item)
  BY <1>1, <1>b DEF InHand, DataType, TakeOps
<1>3. /\ metric'["accepted"] = metric["accepted"]
      /\ metric'["gave_out"] = metric["gave_out"] + Len(local[t])
      /\ metric'["dropped"] = metric["dropped"]
  BY <1>b DEF CountGaveOut, Counted, DataType, MetricField
<1>4. Contents = local[t] \o deque /\ Contents' = deque /\ Accepted' = Accepted
  BY <1>a, <1>1, <1>3 DEF SeenAs, At, TakeOps, PutOps
<1>5. /\ Len(local[t]) \in Nat /\ Len(deque) \in Nat
      /\ Len(Contents) = Len(local[t]) + Len(deque)
  BY <1>2, <1>4, LenProperties, ConcatProperties
<1>6. Promise!HandOut(Len(local[t]))
  <2>1. SubSeq(Contents, 1, Len(local[t])) = local[t]
    BY <1>2, <1>4, SplitFront
  <2>2. SubSeq(Contents, Len(local[t]) + 1, Len(Contents)) = deque
    BY <1>2, <1>4, SplitFront
  <2>3. Len(local[t]) <= Len(Contents)
    BY <1>5
  <2>4. delivered' = delivered \o SubSeq(Contents, 1, Len(local[t]))
    BY <1>1, <2>1
  <2>5. Contents' = SubSeq(Contents, Len(local[t]) + 1, Len(Contents))
    BY <1>4, <2>2
  <2> QED
    BY <1>1, <1>3, <1>4, <2>3, <2>4, <2>5 DEF Promise!HandOut
<1>7. CASE op[t] = "get"
  <2>1. Len(local[t]) = 1 /\ local[t][1] \notin Falsy
    BY <1>b, <1>1, <1>7 DEF Taken
  <2>2. Head(Contents) \notin Falsy
    BY <1>2, <1>4, <2>1
  <2>3. Promise!Get
    BY <1>6, <2>1, <2>2 DEF Promise!Get
  <2> QED
    BY <1>1, <2>3 DEF Effect
<1>8. CASE op[t] = "get_batch"
  <2>1. /\ max_count[t] \in BatchSizes /\ max_count[t] \in Int
        /\ Len(local[t]) = 0 \/ Len(local[t]) <= max_count[t]
        /\ deque = <<>> \/ Len(local[t]) >= max_count[t]
    BY <1>b, <1>1, <1>8, DequeueAssumption DEF Taken
  <2>2. deque = <<>> => Len(deque) = 0
    BY EmptySeq
  <2>3. Len(local[t]) = IF max_count[t] < 0 THEN 0 ELSE Promise!Least(max_count[t], Len(Contents))
    BY <1>5, <2>1, <2>2 DEF Promise!Least
  <2>4. Promise!GetBatch(max_count[t])
    BY <1>6, <2>3 DEF Promise!GetBatch
  <2> QED
    BY <1>1, <2>1, <2>4 DEF Effect
<1> QED
  BY <1>1, <1>7, <1>8 DEF TakeOps

\* A drop takes effect when it counts what it discards.
LEMMA DropEffect ==
  ASSUME TInv, TInv', NEW t \in Thread, DropCount(t)
  PROVE  Effect(t)
<1>a. SeenAs /\ SeenAs'
  BY SeenAsNow, SeenAsNext
<1>b. ControlType /\ DataType /\ LockInv
  BY DEF TInv, TypeOK
<1>1. /\ mutex = t /\ mutex' = t /\ pc[t] = "inside" /\ pc'[t] = "counting"
      /\ op' = op /\ op[t] = "drop" /\ UNCHANGED <<deque, log, lost, delivered>>
  BY <1>b, LabelSet DEF DropCount, Goto, ControlType, LockInv, call, At
<1>2. /\ metric'["accepted"] = metric["accepted"]
      /\ metric'["gave_out"] = metric["gave_out"]
      /\ metric'["dropped"] = metric["dropped"] + Len(deque)
  BY <1>b DEF DropCount, DataType, MetricField
<1>3. Contents = deque /\ Contents' = <<>> /\ Accepted' = Accepted
  BY <1>a, <1>1, <1>2 DEF SeenAs, At, TakeOps, PutOps
<1>4. Promise!Drop
  BY <1>1, <1>2, <1>3 DEF Promise!Drop
<1> QED
  BY <1>1, <1>4 DEF Effect

\* Every step of a thread is a step of LossyQueue or changes nothing in it.
LEMMA StepEffect ==
  ASSUME TInv, TInv', TakeInv, NEW t \in Thread, Step(t)
  PROVE  Effect(t)
<1>1. CASE PutBody(t)
  BY <1>1, PutEffect
<1>2. CASE GetPop(t)
  BY <1>2, GetPopEffect
<1>3. CASE CountGaveOut(t)
  BY <1>3, CountGaveOutEffect
<1>4. CASE DropCount(t)
  BY <1>4, DropEffect
<1>5. CASE ~(PutBody(t) \/ GetPop(t) \/ CountGaveOut(t) \/ DropCount(t))
  BY <1>5, SilentSteps DEF Step, Body, Effect
<1> QED
  BY <1>1, <1>2, <1>3, <1>4, <1>5

\* A stuttering step stutters in LossyQueue.
LEMMA StutterStep ==
  ASSUME UNCHANGED vars
  PROVE  UNCHANGED <<seen, log>>
  BY DEF vars, seen, Contents, InFlight, Accepted, At

\* At the start nobody has taken anything.
LEMMA TakeInvInit == Init => TakeInv
  BY DEF Init, TakeInv, Taken

\* The whole inductive argument in one invariant.
LEMMA Inductive ==
  ASSUME TInv /\ TakeInv, [Next]_vars
  PROVE  /\ TInv' /\ TakeInv'
         /\ UNCHANGED <<seen, log>> \/ \E t \in Thread : Effect(t)
<1>1. CASE Next
  <2>1. PICK t \in Thread : Step(t)
    BY <1>1 DEF Next
  <2>2. TInv'
    BY <2>1, TInvStep
  <2>3. TakeInv'
    BY <2>1, TakeInvStep
  <2>4. Effect(t)
    BY <2>1, <2>2, StepEffect
  <2> QED
    BY <2>2, <2>3, <2>4
<1>2. CASE UNCHANGED vars
  <2>1. TInv'
    BY <1>2 DEF vars, TInv, TypeOK, ControlType, DataType, LockInv, LocalInv, InHand
  <2>2. TakeInv'
    BY <1>2 DEF vars, TakeInv, Taken
  <2> QED
    BY <1>2, <2>1, <2>2, StutterStep
<1> QED
  BY <1>1, <1>2

\* Every call of the queue takes effect in one step, in between its call and its
\* return, on the bounded queue of LossyQueue.
THEOREM ImplementsPromise == Spec => Implements
<1>1. Init => Promise!Init
  <2> SUFFICES ASSUME Init PROVE Promise!Init
    OBVIOUS
  <2>1. Contents = <<>> /\ Accepted = 0
    <3>1. <<>> \o <<>> = <<>>
      BY EmptySeq, ConcatEmptySeq
    <3> QED
      BY <3>1 DEF Init, Contents, InFlight, Accepted, MetricField
  <2> QED
    BY <2>1 DEF Init, Promise!Init, MetricField
<1>2. TInv /\ TakeInv /\ [Next]_vars => [Promise!Next]_(Promise!vars)
  <2> SUFFICES ASSUME TInv /\ TakeInv, [Next]_vars
               PROVE  [Promise!Next]_(Promise!vars)
    OBVIOUS
  <2>1. CASE UNCHANGED <<seen, log>>
    BY <2>1 DEF seen, Promise!vars
  <2>2. CASE \E t \in Thread : Effect(t)
    <3>1. PICK t \in Thread : Effect(t)
      BY <2>2
    <3> QED
      BY <3>1 DEF Effect, seen, Promise!vars, Promise!Next
  <2> QED
    BY <2>1, <2>2, Inductive
<1>3. TInv /\ TakeInv /\ [Next]_vars => TInv' /\ TakeInv'
  BY Inductive
<1> QED
  BY TInvInit, TakeInvInit, <1>1, <1>2, <1>3, PTL DEF Spec, Implements, Promise!Spec

-----------------------------------------------------------------------------
(* The properties of the queue, from the effects of its steps.               *)

SeenType ==
  /\ Contents \in Seq(Item) /\ Accepted \in Nat
  /\ metric["gave_out"] \in Nat /\ metric["dropped"] \in Nat /\ lost \in Nat
  /\ delivered \in Seq(Item) /\ log \in Seq(Item)

\* What a waiting thread would see has the types of a queue and of its counters.
LEMMA SeenTyped == TInv => SeenType
<1> SUFFICES ASSUME TInv PROVE SeenType
  OBVIOUS
<1>1. /\ deque \in Seq(Item) /\ delivered \in Seq(Item) /\ log \in Seq(Item)
      /\ \A f \in {"accepted", "gave_out", "dropped"} : metric[f] \in Nat
      /\ lost \in Nat /\ mutex \in Thread \cup {NoThread}
  BY DEF TInv, TypeOK, ControlType, DataType, MetricField
<1>2. InFlight \in Seq(Item)
  <2>1. CASE mutex # NoThread /\ op[mutex] \in TakeOps
    <3>1. local[mutex] \in Seq(Item)
      BY <1>1, <2>1 DEF TInv, LocalInv, InHand, TakeOps
    <3> QED
      BY <3>1, EmptySeq DEF InFlight
  <2>2. CASE ~(mutex # NoThread /\ op[mutex] \in TakeOps)
    BY <2>2, EmptySeq DEF InFlight
  <2> QED
    BY <2>1, <2>2
<1>3. Contents \in Seq(Item)
  BY <1>1, <1>2, ConcatProperties, EmptySeq DEF Contents
<1>4. Accepted \in Nat
  BY <1>1 DEF Accepted
<1> QED
  BY <1>1, <1>3, <1>4 DEF SeenType

\* The arithmetic of one operation on the counters.
LEMMA Sums ==
  ASSUME NEW a \in Nat, NEW l \in Nat, NEW g \in Nat, NEW d \in Nat, NEW o \in Nat,
         a = l + g + d + o
  PROVE  /\ \A n \in {0, 1} : a + 1 = (l + 1 - n) + g + d + (o + n)
         /\ \A n \in Nat : a = (l - n) + (g + n) + d + o
  OBVIOUS

\* Every operation of LossyQueue keeps the balance of elements.
LEMMA ConservedStep ==
  ASSUME SeenType, Conservation, NEW t \in Thread, Effect(t)
  PROVE  Conservation'
<1>a. MaxLen \in Nat /\ BatchSizes \subseteq Int
  BY DequeueAssumption
<1>b. /\ Contents \in Seq(Item) /\ Accepted \in Nat /\ metric["gave_out"] \in Nat
      /\ metric["dropped"] \in Nat /\ lost \in Nat
      /\ delivered \in Seq(Item) /\ log \in Seq(Item) /\ Len(Contents) \in Nat
  BY LenProperties DEF SeenType
<1>c. /\ Len(Contents) <= MaxLen
      /\ Accepted = Len(Contents) + metric["gave_out"] + metric["dropped"] + lost
      /\ Len(log) = Accepted /\ Len(delivered) = metric["gave_out"]
  BY DEF Conservation
<1>1. CASE UNCHANGED <<seen, log>>
  BY <1>1, <1>c DEF seen, Conservation
<1>2. ASSUME NEW i \in Item, NEW q, NEW n, Promise!Enter(q, n), log' = Append(log, i),
             Len(q) = Len(Contents) + 1 - n, n \in {0, 1}, Len(q) <= MaxLen
      PROVE  Conservation'
  <2>1. /\ Accepted' = Accepted + 1 /\ Contents' = q /\ lost' = lost + n
        /\ metric'["gave_out"] = metric["gave_out"] /\ metric'["dropped"] = metric["dropped"]
        /\ delivered' = delivered
    BY <1>2 DEF Promise!Enter
  <2>2. Len(log') = Len(log) + 1
    BY <1>b, <1>2, AppendProperties
  <2>3. Accepted' = Len(Contents') + metric'["gave_out"] + metric'["dropped"] + lost'
    <3>1. \A k \in {0, 1} : Accepted + 1 =
            (Len(Contents) + 1 - k) + metric["gave_out"] + metric["dropped"] + (lost + k)
      BY <1>b, <1>c, Sums
    <3>2. Accepted + 1 =
            (Len(Contents) + 1 - n) + metric["gave_out"] + metric["dropped"] + (lost + n)
      BY <1>2, <3>1
    <3> QED
      BY <1>2, <2>1, <3>2
  <2> QED
    BY <1>b, <1>c, <1>2, <2>1, <2>2, <2>3 DEF Conservation
<1>3. ASSUME NEW i \in Item, Promise!Put(i), log' = Append(log, i)
      PROVE  Conservation'
  <2>1. Append(Contents, i) \in Seq(Item) /\ Len(Append(Contents, i)) = Len(Contents) + 1
    BY <1>b, AppendProperties
  <2>2. CASE Len(Contents) < MaxLen
    <3>1. Promise!Enter(Append(Contents, i), 0)
      BY <1>3, <2>2 DEF Promise!Put
    <3> QED
      <4>1. Len(Append(Contents, i)) = Len(Contents) + 1 - 0
        BY <1>b, <2>1
      <4>2. Len(Append(Contents, i)) <= MaxLen
        BY <1>a, <1>b, <2>1, <2>2
      <4> QED
        BY <1>2, <1>3, <3>1, <4>1, <4>2
  <2>3. CASE ~(Len(Contents) < MaxLen)
    <3>1. Promise!Enter(Tail(Append(Contents, i)), 1)
      BY <1>3, <2>3 DEF Promise!Put
    <3>2. Len(Tail(Append(Contents, i))) = Len(Contents)
      BY <1>b, <2>1, AppendProperties, HeadTailProperties
    <3> QED
      <4>1. Len(Tail(Append(Contents, i))) = Len(Contents) + 1 - 1
        BY <1>b, <3>2
      <4>2. Len(Tail(Append(Contents, i))) <= MaxLen
        BY <1>c, <3>2
      <4> QED
        BY <1>2, <1>3, <3>1, <4>1, <4>2
  <2> QED
    BY <2>2, <2>3
<1>4. ASSUME NEW i \in Item, Promise!PutTop(i), log' = Append(log, i)
      PROVE  Conservation'
  <2>1. <<i>> \o Contents \in Seq(Item) /\ Len(<<i>> \o Contents) = Len(Contents) + 1
    BY <1>b, ConcatProperties
  <2>2. CASE Len(Contents) < MaxLen
    <3>1. Promise!Enter(<<i>> \o Contents, 0)
      BY <1>4, <2>2 DEF Promise!PutTop
    <3> QED
      <4>1. Len(<<i>> \o Contents) = Len(Contents) + 1 - 0
        BY <1>b, <2>1
      <4>2. Len(<<i>> \o Contents) <= MaxLen
        BY <1>a, <1>b, <2>1, <2>2
      <4> QED
        BY <1>2, <1>4, <3>1, <4>1, <4>2
  <2>3. CASE ~(Len(Contents) < MaxLen)
    <3>1. Promise!Enter(SubSeq(<<i>> \o Contents, 1, MaxLen), 1)
      BY <1>4, <2>3 DEF Promise!PutTop
    <3>2. Len(Contents) = MaxLen
      BY <1>a, <1>b, <1>c, <2>3
    <3>3. Len(SubSeq(<<i>> \o Contents, 1, MaxLen)) = MaxLen
      BY <1>a, <2>1, <3>2
    <3> QED
      <4>1. Len(SubSeq(<<i>> \o Contents, 1, MaxLen)) = Len(Contents) + 1 - 1
        BY <1>b, <3>2, <3>3
      <4>2. Len(SubSeq(<<i>> \o Contents, 1, MaxLen)) <= MaxLen
        BY <1>c, <3>2, <3>3
      <4> QED
        BY <1>2, <1>4, <3>1, <4>1, <4>2
  <2> QED
    BY <2>2, <2>3
<1>5. ASSUME NEW n \in Nat, Promise!HandOut(n), log' = log
      PROVE  Conservation'
  <2>1. /\ n <= Len(Contents) /\ delivered' = delivered \o SubSeq(Contents, 1, n)
        /\ Contents' = SubSeq(Contents, n + 1, Len(Contents))
        /\ metric'["gave_out"] = metric["gave_out"] + n
        /\ Accepted' = Accepted /\ metric'["dropped"] = metric["dropped"] /\ lost' = lost
    BY <1>5 DEF Promise!HandOut
  <2>2. SubSeq(Contents, 1, n) \in Seq(Item) /\ Len(SubSeq(Contents, 1, n)) = n
    BY <1>b, <1>5, <2>1
  <2>3. Len(Contents') = Len(Contents) - n
    BY <1>b, <1>5, <2>1
  <2>4. Len(delivered') = Len(delivered) + n
    BY <1>b, <2>1, <2>2, ConcatProperties
  <2> QED
    <3>1. Accepted' = Len(Contents') + metric'["gave_out"] + metric'["dropped"] + lost'
      BY <1>b, <1>c, <1>5, <2>1, <2>3, Sums
    <3>2. Len(Contents') <= MaxLen
      BY <1>a, <1>b, <1>c, <1>5, <2>1, <2>3
    <3>3. Len(log') = Accepted' /\ Len(delivered') = metric'["gave_out"]
      BY <1>c, <1>5, <2>1, <2>4
    <3> QED
      BY <3>1, <3>2, <3>3 DEF Conservation
<1>6. CASE Promise!Get /\ log' = log
  <2>1. CASE Promise!HandOut(1)
    BY <1>5, <1>6, <2>1
  <2>2. CASE Promise!Swallow
    <3>1. /\ Contents # <<>> /\ Contents' = Tail(Contents) /\ lost' = lost + 1
          /\ Accepted' = Accepted /\ metric'["gave_out"] = metric["gave_out"]
          /\ metric'["dropped"] = metric["dropped"] /\ delivered' = delivered
      BY <2>2 DEF Promise!Swallow
    <3>2. Len(Contents') = Len(Contents) - 1
      BY <1>b, <3>1, HeadTailProperties
    <3> QED
      BY <1>a, <1>b, <1>c, <1>6, <3>1, <3>2 DEF Conservation
  <2> QED
    BY <1>6, <2>1, <2>2 DEF Promise!Get
<1>7. ASSUME NEW n \in BatchSizes, Promise!GetBatch(n), log' = log
      PROVE  Conservation'
  <2>1. (IF n < 0 THEN 0 ELSE Promise!Least(n, Len(Contents))) \in Nat
    BY <1>a, <1>b DEF Promise!Least
  <2> QED
    BY <1>5, <1>7, <2>1 DEF Promise!GetBatch
<1>8. CASE Promise!Drop /\ log' = log
  <2>1. /\ Contents' = <<>> /\ metric'["dropped"] = metric["dropped"] + Len(Contents)
        /\ Accepted' = Accepted /\ metric'["gave_out"] = metric["gave_out"]
        /\ lost' = lost /\ delivered' = delivered
    BY <1>8 DEF Promise!Drop
  <2>2. Len(Contents') = 0
    BY <2>1, EmptySeq
  <2> QED
    BY <1>a, <1>b, <1>c, <1>8, <2>1, <2>2 DEF Conservation
<1> QED
  BY <1>1, <1>3, <1>4, <1>6, <1>7, <1>8 DEF Effect

\* Whatever the threads do, every element put is in the queue, was handed out,
\* was dropped or was evicted by a put into a full queue, and none is in two places.
THEOREM Conserved == Spec => []Conservation
<1>1. Init => Conservation
  <2> SUFFICES ASSUME Init PROVE Conservation
    OBVIOUS
  <2>1. Contents = <<>> /\ Accepted = 0
    <3>1. <<>> \o <<>> = <<>>
      BY EmptySeq, ConcatEmptySeq
    <3> QED
      BY <3>1 DEF Init, Contents, InFlight, Accepted, MetricField
  <2> QED
    BY <2>1, EmptySeq, DequeueAssumption DEF Init, Conservation, MetricField
<1>2. TInv /\ TakeInv /\ Conservation /\ [Next]_vars => TInv' /\ TakeInv' /\ Conservation'
  <2> SUFFICES ASSUME TInv /\ TakeInv, Conservation, [Next]_vars
               PROVE  TInv' /\ TakeInv' /\ Conservation'
    OBVIOUS
  <2>0. TInv' /\ TakeInv'
    BY Inductive
  <2>1. CASE UNCHANGED <<seen, log>>
    <3>1. /\ Contents' = Contents /\ Accepted' = Accepted /\ log' = log
          /\ delivered' = delivered /\ lost' = lost
          /\ metric'["gave_out"] = metric["gave_out"] /\ metric'["dropped"] = metric["dropped"]
      BY <2>1 DEF seen
    <3> QED
      BY <2>0, <3>1 DEF Conservation
  <2>2. CASE \E t \in Thread : Effect(t)
    <3>1. PICK t \in Thread : Effect(t)
      BY <2>2
    <3>2. SeenType
      BY SeenTyped
    <3> QED
      BY <2>0, <3>1, <3>2, ConservedStep
  <2> QED
    BY <2>1, <2>2, Inductive
<1> QED
  BY TInvInit, TakeInvInit, <1>1, <1>2, PTL DEF Spec

\* Positions counted from the end of a longer sequence.
LEMMA Positions ==
  ASSUME NEW l \in Nat, NEW g \in Nat
  PROVE  /\ \A k \in 1..(l + 1) : k = l + 1 \/ k \in 1..l
         /\ \A k \in 1..l : k + 1 \in 1..(l + 1) /\ (g + 1) - l + k = g - l + (k + 1)
         /\ \A n \in 0..l : \A k \in 1..(l - n) :
              n + k \in 1..l /\ g - (l - n) + k = g - l + (n + k)
  OBVIOUS

\* A step of a thread that does not put at the top keeps the newest elements.
LEMMA NewestKeptStep ==
  ASSUME SeenType, Conservation, NewestKept, NEW t \in Thread, Effect(t), op[t] # "put_top"
  PROVE  NewestKept'
<1>a. MaxLen \in Nat /\ BatchSizes \subseteq Int
  BY DequeueAssumption
<1>b. /\ Contents \in Seq(Item) /\ log \in Seq(Item)
      /\ Len(Contents) \in Nat /\ Len(log) \in Nat
  BY LenProperties DEF SeenType
<1>c. Len(Contents) <= Len(log)
  <2>1. /\ Len(log) = Len(Contents) + metric["gave_out"] + metric["dropped"] + lost
        /\ metric["gave_out"] \in Nat /\ metric["dropped"] \in Nat /\ lost \in Nat
    BY DEF Conservation, SeenType
  <2> QED
    BY <1>b, <2>1
<1>d. \A k \in 1..Len(Contents) : Contents[k] = log[Len(log) - Len(Contents) + k]
  BY DEF NewestKept
<1>1. CASE UNCHANGED <<seen, log>>
  BY <1>1, <1>d DEF seen, NewestKept
<1>2. ASSUME NEW i \in Item, Promise!Put(i), log' = Append(log, i)
      PROVE  NewestKept'
  <2>1. /\ Len(Append(log, i)) = Len(log) + 1 /\ Append(log, i)[Len(log) + 1] = i
        /\ \A k \in 1..Len(log) : Append(log, i)[k] = log[k]
    BY <1>b, AppendProperties
  <2>2. /\ Append(Contents, i) \in Seq(Item) /\ Append(Contents, i) # <<>>
        /\ Len(Append(Contents, i)) = Len(Contents) + 1
        /\ Append(Contents, i)[Len(Contents) + 1] = i
        /\ \A k \in 1..Len(Contents) : Append(Contents, i)[k] = Contents[k]
    BY <1>b, AppendProperties
  <2>3. ASSUME NEW k \in 1..(Len(Contents) + 1)
        PROVE  Append(Contents, i)[k] = Append(log, i)[Len(log) - Len(Contents) + k]
    <3>1. CASE k = Len(Contents) + 1
      <4>1. Len(log) - Len(Contents) + k = Len(log) + 1
        BY <1>b, <3>1
      <4> QED
        BY <2>1, <2>2, <3>1, <4>1
    <3>2. CASE k \in 1..Len(Contents)
      <4>1. Len(log) - Len(Contents) + k \in 1..Len(log)
        BY <1>b, <1>c, <3>2
      <4> QED
        BY <1>d, <2>1, <2>2, <3>2, <4>1
    <3> QED
      BY <1>b, <2>3, <3>1, <3>2, Positions
  <2>4. CASE Len(Contents) < MaxLen
    <3>1. Contents' = Append(Contents, i)
      BY <1>2, <2>4 DEF Promise!Put, Promise!Enter
    <3> SUFFICES ASSUME NEW k \in 1..(Len(Contents) + 1)
                 PROVE  Contents'[k] = log'[Len(log') - Len(Contents') + k]
      BY <2>2, <3>1 DEF NewestKept
    <3>2. Len(log') - Len(Contents') + k = Len(log) - Len(Contents) + k
      BY <1>2, <1>b, <2>1, <2>2, <3>1
    <3> QED
      BY <1>2, <2>3, <3>1, <3>2
  <2>5. CASE ~(Len(Contents) < MaxLen)
    <3>1. Contents' = Tail(Append(Contents, i))
      BY <1>2, <2>5 DEF Promise!Put, Promise!Enter
    <3>2. /\ Len(Contents') = Len(Contents)
          /\ \A k \in 1..Len(Contents) : Contents'[k] = Append(Contents, i)[k + 1]
      <4> DEFINE longer == Append(Contents, i)
      <4>1. /\ Len(Tail(longer)) = Len(longer) - 1
            /\ \A k \in 1..Len(Tail(longer)) : Tail(longer)[k] = longer[k + 1]
        BY <2>2, HeadTailProperties
      <4>2. Len(longer) - 1 = Len(Contents)
        BY <1>b, <2>2
      <4> QED
        BY <3>1, <4>1, <4>2
    <3> SUFFICES ASSUME NEW k \in 1..Len(Contents)
                 PROVE  Contents'[k] = log'[Len(log') - Len(Contents') + k]
      BY <3>2 DEF NewestKept
    <3>3. /\ Len(log') - Len(Contents') + k = Len(log) - Len(Contents) + (k + 1)
          /\ k + 1 \in 1..(Len(Contents) + 1)
      BY <1>2, <1>b, <2>1, <3>2, Positions
    <3> QED
      BY <1>2, <2>3, <3>2, <3>3
  <2> QED
    BY <2>4, <2>5
<1>3. ASSUME NEW n \in Nat, n <= Len(Contents), log' = log,
             Contents' = SubSeq(Contents, n + 1, Len(Contents))
      PROVE  NewestKept'
  <2>1. /\ Len(Contents') = Len(Contents) - n
        /\ \A k \in 1..(Len(Contents) - n) : Contents'[k] = Contents[n + k]
    BY <1>b, <1>3
  <2> SUFFICES ASSUME NEW k \in 1..(Len(Contents) - n)
               PROVE  Contents'[k] = log'[Len(log') - Len(Contents') + k]
    BY <2>1 DEF NewestKept
  <2>2. /\ n + k \in 1..Len(Contents)
        /\ Len(log') - Len(Contents') + k = Len(log) - Len(Contents) + (n + k)
    <3>1. n \in 0..Len(Contents)
      BY <1>b, <1>3
    <3> QED
      <4>1. /\ n + k \in 1..Len(Contents)
            /\ Len(log) - (Len(Contents) - n) + k = Len(log) - Len(Contents) + (n + k)
        BY <1>b, <3>1, Positions
      <4> QED
        BY <1>3, <2>1, <4>1
  <2> QED
    BY <1>3, <1>d, <2>1, <2>2
<1>4. CASE Promise!Get /\ log' = log
  <2>1. CASE Promise!HandOut(1)
    BY <1>3, <1>4, <2>1 DEF Promise!HandOut
  <2>2. CASE Promise!Swallow
    <3>1. Contents # <<>> /\ Contents' = Tail(Contents)
      BY <2>2 DEF Promise!Swallow
    <3>2. Contents' = SubSeq(Contents, 1 + 1, Len(Contents)) /\ 1 <= Len(Contents)
      BY <1>b, <3>1, TailIsSubSeq, EmptySeq
    <3> QED
      BY <1>3, <1>4, <3>2
  <2> QED
    BY <1>4, <2>1, <2>2 DEF Promise!Get
<1>5. ASSUME NEW n \in BatchSizes, Promise!GetBatch(n), log' = log
      PROVE  NewestKept'
  <2> DEFINE m == IF n < 0 THEN 0 ELSE Promise!Least(n, Len(Contents))
  <2>1. m \in Nat
    BY <1>a, <1>b DEF Promise!Least
  <2>2. m <= Len(Contents) /\ Contents' = SubSeq(Contents, m + 1, Len(Contents))
    BY <1>5 DEF Promise!GetBatch, Promise!HandOut
  <2> HIDE DEF m
  <2> QED
    BY <1>3, <1>5, <2>1, <2>2
<1>6. CASE Promise!Drop /\ log' = log
  <2>1. Len(Contents') = 0
    BY <1>6, EmptySeq DEF Promise!Drop
  <2> QED
    BY <2>1 DEF NewestKept
<1> QED
  BY <1>1, <1>2, <1>4, <1>5, <1>6 DEF Effect

\* With put alone at the entrance, the queue holds the newest of what was put, in
\* order: evictions, gets, batches and drops take the oldest.
THEOREM NewestStay ==
  ASSUME "put_top" \notin Ops
  PROVE  Spec => []NewestKept
<1>1. Init => NewestKept
  <2> SUFFICES ASSUME Init PROVE NewestKept
    OBVIOUS
  <2>1. Contents = <<>>
    <3>1. <<>> \o <<>> = <<>>
      BY EmptySeq, ConcatEmptySeq
    <3> QED
      BY <3>1 DEF Init, Contents, InFlight
  <2> QED
    BY <2>1, EmptySeq DEF NewestKept
<1>2. TInv /\ TakeInv /\ Conservation /\ NewestKept /\ [Next]_vars
        => TInv' /\ TakeInv' /\ NewestKept'
  <2> SUFFICES ASSUME TInv /\ TakeInv, Conservation, NewestKept, [Next]_vars
               PROVE  TInv' /\ TakeInv' /\ NewestKept'
    OBVIOUS
  <2>0. TInv' /\ TakeInv'
    BY Inductive
  <2>1. CASE UNCHANGED <<seen, log>>
    BY <2>0, <2>1 DEF seen, NewestKept
  <2>2. CASE \E t \in Thread : Effect(t)
    <3>1. PICK t \in Thread : Effect(t)
      BY <2>2
    <3>2. SeenType /\ op[t] # "put_top"
      BY SeenTyped DEF TInv, TypeOK, ControlType
    <3> QED
      BY <2>0, <3>1, <3>2, NewestKeptStep
  <2> QED
    BY <2>1, <2>2, Inductive
<1> QED
  BY TInvInit, TakeInvInit, Conserved, <1>1, <1>2, PTL DEF Spec

\* What GivenInOrder needs to be inductive: what was handed out was put before what the
\* queue still holds.
GivenInv ==
  /\ \A j \in 1..Len(delivered) :
       \E p \in 1..(Len(log) - Len(Contents)) : delivered[j] = log[p]
  /\ GivenInOrder

\* A step that hands nothing out, and after which the queue holds no older part of the
\* log than before.
LEMMA GivenKept ==
  ASSUME Len(log) \in Nat, Len(Contents) \in Nat, Len(log') \in Nat, Len(Contents') \in Nat,
         Len(Contents) <= Len(log), GivenInv, delivered' = delivered,
         Len(log') >= Len(log), \A p \in 1..Len(log) : log'[p] = log[p],
         Len(log') - Len(Contents') >= Len(log) - Len(Contents)
  PROVE  GivenInv'
<1>1. ASSUME NEW j \in 1..Len(delivered)
      PROVE  \E p \in 1..(Len(log') - Len(Contents')) : delivered[j] = log'[p]
  <2>1. PICK p \in 1..(Len(log) - Len(Contents)) : delivered[j] = log[p]
    BY DEF GivenInv
  <2>2. p \in 1..Len(log) /\ p \in 1..(Len(log') - Len(Contents'))
    BY <2>1
  <2> QED
    BY <2>1, <2>2
<1>2. ASSUME NEW j \in 1..Len(delivered), NEW k \in 1..Len(delivered), j < k
      PROVE  \E p, q \in 1..Len(log') : p < q /\ delivered[j] = log'[p] /\ delivered[k] = log'[q]
  <2>1. PICK p \in 1..Len(log), q \in 1..Len(log) :
          p < q /\ delivered[j] = log[p] /\ delivered[k] = log[q]
    BY <1>2 DEF GivenInv, GivenInOrder
  <2>2. p \in 1..Len(log') /\ q \in 1..Len(log')
    BY <2>1
  <2> QED
    BY <2>1, <2>2
<1> QED
  BY <1>1, <1>2 DEF GivenInv, GivenInOrder

\* A step that hands out the oldest of the queue, which are younger than all that was
\* handed out before.
LEMMA GivenMore ==
  ASSUME SeenType, NewestKept, GivenInv, Len(Contents) <= Len(log),
         NEW n \in Nat, n <= Len(Contents), log' = log,
         delivered' = delivered \o SubSeq(Contents, 1, n), Len(Contents') = Len(Contents) - n
  PROVE  GivenInv'
<1> DEFINE D == Len(delivered)
           G == Len(log) - Len(Contents)
<1>1. /\ Contents \in Seq(Item) /\ log \in Seq(Item) /\ delivered \in Seq(Item)
      /\ Len(Contents) \in Nat /\ Len(log) \in Nat /\ D \in Nat /\ G \in Nat
  BY LenProperties DEF SeenType
<1>2. /\ SubSeq(Contents, 1, n) \in Seq(Item) /\ Len(SubSeq(Contents, 1, n)) = n
      /\ \A k \in 1..n : SubSeq(Contents, 1, n)[k] = Contents[k]
  BY <1>1
<1>3. /\ Len(delivered') = D + n
      /\ \A j \in 1..D : delivered'[j] = delivered[j]
      /\ \A k \in 1..n : delivered'[D + k] = Contents[k]
  <2> DEFINE more == SubSeq(Contents, 1, n)
  <2>1. more \in Seq(Item) /\ Len(more) = n /\ delivered' = delivered \o more
    BY <1>2
  <2> HIDE DEF more
  <2>2. /\ Len(delivered \o more) = D + n
        /\ \A i \in 1..(D + n) : (delivered \o more)[i] = IF i <= D THEN delivered[i] ELSE more[i - D]
    BY <1>1, <2>1, ConcatProperties
  <2>3. ASSUME NEW j \in 1..D
        PROVE  delivered'[j] = delivered[j]
    <3>1. j \in 1..(D + n) /\ j <= D
      BY <1>1
    <3> QED
      BY <2>1, <2>2, <3>1
  <2>4. ASSUME NEW k \in 1..n
        PROVE  delivered'[D + k] = more[k]
    <3>1. D + k \in 1..(D + n) /\ ~(D + k <= D) /\ (D + k) - D = k
      BY <1>1
    <3> QED
      BY <2>1, <2>2, <3>1
  <2> QED
    BY <1>2, <2>1, <2>2, <2>3, <2>4 DEF more
<1>4. \A k \in 1..n : delivered'[D + k] = log[G + k] /\ G + k \in 1..(G + n)
  <2> SUFFICES ASSUME NEW k \in 1..n
               PROVE  delivered'[D + k] = log[G + k] /\ G + k \in 1..(G + n)
    OBVIOUS
  <2>1. k \in 1..Len(Contents)
    BY <1>1
  <2> QED
    <3>1. Contents[k] = log[G + k]
      BY <2>1 DEF NewestKept
    <3>2. delivered'[D + k] = Contents[k]
      BY <1>3
    <3> HIDE DEF D, G
    <3>3. G + k \in 1..(G + n)
      BY <1>1
    <3> QED
      BY <3>1, <3>2, <3>3
<1>5. \A j \in 1..D : \E p \in 1..G : delivered'[j] = log[p]
  BY <1>3 DEF GivenInv
<1>6. Len(log') - Len(Contents') = G + n /\ G + n <= Len(log)
  BY <1>1
<1>7. \A j \in 1..(D + n) : j \in 1..D \/ (j - D \in 1..n /\ j = D + (j - D))
  BY <1>1
<1> HIDE DEF D, G
<1>8. ASSUME NEW j \in 1..(D + n)
      PROVE  \E p \in 1..(G + n) : delivered'[j] = log[p]
  <2>1. CASE j \in 1..D
    <3>1. PICK p \in 1..G : delivered'[j] = log[p]
      BY <1>5, <2>1
    <3>2. p \in 1..(G + n)
      BY <1>1
    <3> QED
      BY <3>1, <3>2
  <2>2. CASE j - D \in 1..n /\ j = D + (j - D)
    BY <1>4, <2>2
  <2> QED
    BY <1>7, <2>1, <2>2
<1>9. ASSUME NEW j \in 1..(D + n), NEW k \in 1..(D + n), j < k
      PROVE  \E p, q \in 1..Len(log) : p < q /\ delivered'[j] = log[p] /\ delivered'[k] = log[q]
  <2>1. CASE k \in 1..D
    <3>1. j \in 1..D
      BY <1>1, <1>9, <2>1
    <3>2. PICK p \in 1..Len(log), q \in 1..Len(log) :
            p < q /\ delivered[j] = log[p] /\ delivered[k] = log[q]
      BY <1>9, <2>1, <3>1 DEF GivenInv, GivenInOrder, D
    <3> QED
      BY <1>3, <2>1, <3>1, <3>2
  <2>2. CASE j \in 1..D /\ k - D \in 1..n /\ k = D + (k - D)
    <3>1. PICK p \in 1..G : delivered'[j] = log[p]
      BY <1>5, <2>2
    <3>2. delivered'[k] = log[G + (k - D)] /\ G + (k - D) \in 1..(G + n)
      BY <1>4, <2>2
    <3>3. p < G + (k - D) /\ p \in 1..Len(log) /\ G + (k - D) \in 1..Len(log)
      BY <1>1, <1>6, <2>2, <3>2
    <3> QED
      BY <3>1, <3>2, <3>3
  <2>3. CASE j - D \in 1..n /\ j = D + (j - D) /\ k - D \in 1..n /\ k = D + (k - D)
    <3>1. delivered'[j] = log[G + (j - D)] /\ G + (j - D) \in 1..(G + n)
      BY <1>4, <2>3
    <3>2. delivered'[k] = log[G + (k - D)] /\ G + (k - D) \in 1..(G + n)
      BY <1>4, <2>3
    <3>3. /\ G + (j - D) < G + (k - D)
          /\ G + (j - D) \in 1..Len(log) /\ G + (k - D) \in 1..Len(log)
      BY <1>1, <1>6, <1>9, <2>3, <3>1, <3>2
    <3> QED
      BY <3>1, <3>2, <3>3
  <2> QED
    <3>1. j \in 1..D \/ (j - D \in 1..n /\ j = D + (j - D))
      BY <1>7
    <3>2. k \in 1..D \/ (k - D \in 1..n /\ k = D + (k - D))
      BY <1>7
    <3>3. k \in 1..D => j \in 1..D
      BY <1>1, <1>9
    <3> QED
      BY <2>1, <2>2, <2>3, <3>1, <3>2, <3>3
<1>10. Len(delivered') = D + n /\ Len(log') - Len(Contents') = G + n
  BY <1>3, <1>6
<1>11. \A j \in 1..Len(delivered') :
         \E p \in 1..(Len(log') - Len(Contents')) : delivered'[j] = log'[p]
  BY <1>8, <1>10
<1>12. GivenInOrder'
  <2>1. ASSUME NEW j \in 1..Len(delivered'), NEW k \in 1..Len(delivered'), j < k
        PROVE  \E p, q \in 1..Len(log) : p < q /\ delivered'[j] = log[p] /\ delivered'[k] = log[q]
    <3>1. j \in 1..(D + n) /\ k \in 1..(D + n)
      BY <1>10
    <3> QED
      BY <1>9, <2>1, <3>1, Zenon
  <2> QED
    BY <2>1 DEF GivenInOrder
<1> QED
  BY <1>11, <1>12 DEF GivenInv

\* A step of a thread that does not put at the top hands out the oldest there is.
LEMMA GivenStep ==
  ASSUME SeenType, Conservation, NewestKept, GivenInv, NEW t \in Thread, Effect(t),
         op[t] # "put_top"
  PROVE  GivenInv'
<1>a. MaxLen \in Nat /\ BatchSizes \subseteq Int
  BY DequeueAssumption
<1>b. /\ Contents \in Seq(Item) /\ log \in Seq(Item)
      /\ Len(Contents) \in Nat /\ Len(log) \in Nat
  BY LenProperties DEF SeenType
<1>c. Len(Contents) <= Len(log)
  <2>1. /\ Len(log) = Len(Contents) + metric["gave_out"] + metric["dropped"] + lost
        /\ metric["gave_out"] \in Nat /\ metric["dropped"] \in Nat /\ lost \in Nat
    BY DEF Conservation, SeenType
  <2> QED
    BY <1>b, <2>1
<1>1. CASE UNCHANGED <<seen, log>>
  <2>1. Contents' = Contents /\ log' = log /\ delivered' = delivered
    BY <1>1 DEF seen
  <2> QED
    BY <1>b, <1>c, <2>1, GivenKept
<1>2. ASSUME NEW i \in Item, Promise!Put(i), log' = Append(log, i)
      PROVE  GivenInv'
  <2>1. /\ Len(log') = Len(log) + 1 /\ \A k \in 1..Len(log) : log'[k] = log[k]
    BY <1>2, <1>b, AppendProperties
  <2>2. delivered' = delivered
    BY <1>2 DEF Promise!Put, Promise!Enter
  <2>3. /\ Append(Contents, i) \in Seq(Item) /\ Append(Contents, i) # <<>>
        /\ Len(Append(Contents, i)) = Len(Contents) + 1
    BY <1>b, AppendProperties
  <2>4. Len(Contents') \in Nat /\ Len(Contents') <= Len(Contents) + 1
    <3>1. CASE Contents' = Append(Contents, i)
      BY <1>b, <2>3, <3>1
    <3>2. CASE Contents' = Tail(Append(Contents, i))
      <4>1. Len(Tail(Append(Contents, i))) = Len(Append(Contents, i)) - 1
        BY <2>3, HeadTailProperties
      <4> QED
        BY <1>b, <2>3, <3>2, <4>1
    <3> QED
      BY <1>2, <3>1, <3>2 DEF Promise!Put, Promise!Enter
  <2>5. /\ Len(log') \in Nat /\ Len(log') >= Len(log)
        /\ Len(log') - Len(Contents') >= Len(log) - Len(Contents)
    BY <1>b, <2>1, <2>4
  <2> QED
    BY <1>b, <1>c, <2>1, <2>2, <2>4, <2>5, GivenKept
<1>3. ASSUME NEW n \in Nat, Promise!HandOut(n), log' = log
      PROVE  GivenInv'
  <2>1. /\ n <= Len(Contents) /\ delivered' = delivered \o SubSeq(Contents, 1, n)
        /\ Contents' = SubSeq(Contents, n + 1, Len(Contents))
    BY <1>3 DEF Promise!HandOut
  <2>2. Len(Contents') = Len(Contents) - n
    BY <1>b, <2>1
  <2> QED
    BY <1>3, <1>c, <2>1, <2>2, GivenMore
<1>4. CASE Promise!Get /\ log' = log
  <2>1. CASE Promise!HandOut(1)
    BY <1>3, <1>4, <2>1
  <2>2. CASE Promise!Swallow
    <3>1. Contents # <<>> /\ Contents' = Tail(Contents) /\ delivered' = delivered
      BY <2>2 DEF Promise!Swallow
    <3>2. Len(Contents') = Len(Contents) - 1 /\ Len(Contents') \in Nat
      BY <1>b, <3>1, HeadTailProperties, LenProperties
    <3>3. /\ Len(log') \in Nat /\ Len(log') >= Len(log)
          /\ Len(log') - Len(Contents') >= Len(log) - Len(Contents)
          /\ \A p \in 1..Len(log) : log'[p] = log[p]
      BY <1>4, <1>b, <3>2
    <3> QED
      BY <1>b, <1>c, <3>1, <3>2, <3>3, GivenKept
  <2> QED
    BY <1>4, <2>1, <2>2 DEF Promise!Get
<1>5. ASSUME NEW n \in BatchSizes, Promise!GetBatch(n), log' = log
      PROVE  GivenInv'
  <2> DEFINE m == IF n < 0 THEN 0 ELSE Promise!Least(n, Len(Contents))
  <2>1. m \in Nat
    BY <1>a, <1>b DEF Promise!Least
  <2>2. Promise!HandOut(m)
    BY <1>5 DEF Promise!GetBatch
  <2> HIDE DEF m
  <2> QED
    BY <1>3, <1>5, <2>1, <2>2
<1>6. CASE Promise!Drop /\ log' = log
  <2>1. Len(Contents') = 0 /\ delivered' = delivered
    BY <1>6, EmptySeq DEF Promise!Drop
  <2>2. /\ Len(log') \in Nat /\ Len(log') >= Len(log) /\ Len(Contents') \in Nat
        /\ Len(log') - Len(Contents') >= Len(log) - Len(Contents)
        /\ \A p \in 1..Len(log) : log'[p] = log[p]
    BY <1>6, <1>b, <2>1
  <2> QED
    BY <1>b, <1>c, <2>1, <2>2, GivenKept
<1> QED
  BY <1>1, <1>2, <1>4, <1>5, <1>6 DEF Effect

\* With put alone at the entrance, whoever takes from the queue, and however many at
\* once, no thread is handed an element that was put before one that was handed out.
THEOREM GivenOldestFirst ==
  ASSUME "put_top" \notin Ops
  PROVE  Spec => []GivenInOrder
<1>1. Init => GivenInv
  <2> SUFFICES ASSUME Init PROVE GivenInv
    OBVIOUS
  <2>1. Len(delivered) = 0
    BY EmptySeq DEF Init
  <2> QED
    BY <2>1 DEF GivenInv, GivenInOrder
<1>2. TInv /\ TakeInv /\ Conservation /\ NewestKept /\ GivenInv /\ [Next]_vars
        => TInv' /\ TakeInv' /\ GivenInv'
  <2> SUFFICES ASSUME TInv /\ TakeInv, Conservation, NewestKept, GivenInv, [Next]_vars
               PROVE  TInv' /\ TakeInv' /\ GivenInv'
    OBVIOUS
  <2>0. TInv' /\ TakeInv'
    BY Inductive
  <2>1. CASE UNCHANGED <<seen, log>>
    BY <2>0, <2>1 DEF seen, GivenInv, GivenInOrder
  <2>2. CASE \E t \in Thread : Effect(t)
    <3>1. PICK t \in Thread : Effect(t)
      BY <2>2
    <3>2. SeenType /\ op[t] # "put_top"
      BY SeenTyped DEF TInv, TypeOK, ControlType
    <3> QED
      BY <2>0, <3>1, <3>2, GivenStep
  <2> QED
    BY <2>1, <2>2, Inductive
<1>3. GivenInv => GivenInOrder
  BY DEF GivenInv
<1> QED
  BY TInvInit, TakeInvInit, Conserved, NewestStay, <1>1, <1>2, <1>3, PTL DEF Spec

\* A put into a queue with room loses nothing; nothing but a put into a full queue
\* or a get of a false element loses anything.
THEOREM LossBounded == Spec => LossOnlyWhenFull
<1>1. TInv /\ TakeInv /\ [Next]_vars =>
        [lost' # lost => /\ lost' = lost + 1
                         /\ \/ Len(deque) = MaxLen /\ log' # log
                            \/ deque # <<>> /\ Head(deque) \in Falsy]_vars
  <2> SUFFICES ASSUME TInv, NEW t \in Thread, Step(t), lost' # lost
               PROVE  /\ lost' = lost + 1
                      /\ \/ Len(deque) = MaxLen /\ log' # log
                         \/ deque # <<>> /\ Head(deque) \in Falsy
    BY DEF Next, vars
  <2>1. PutBody(t) \/ GetPop(t)
    BY DEF Step, Body, Call, Acquire, Release, CountAccepted, GetNothing, BatchPop, BatchEnd,
           CountGaveOut, DropCount, DropNothing, DropReplace, ReadLen, ReadField, ReturnMetrics
  <2>2. CASE GetPop(t)
    BY <2>2 DEF GetPop
  <2>3. CASE PutBody(t)
    <3>1. /\ deque \in Seq(Item) /\ log \in Seq(Item) /\ item[t] \in Item
          /\ Len(deque) \in Nat /\ Len(deque) <= MaxLen /\ lost \in Nat
      BY <2>3, LenProperties DEF TInv, TypeOK, DataType, LocalInv, InHand, PutBody, At
    <3>2. /\ Len(deque') = IF Len(deque) < MaxLen THEN Len(deque) + 1 ELSE Len(deque)
          /\ lost' = lost + (Len(deque) + 1 - Len(deque')) /\ log' = Append(log, item[t])
      <4>1. CASE deque' = Appended(deque, item[t])
        BY <2>3, <3>1, <4>1, AppendedProperties DEF PutBody
      <4>2. CASE deque' = AppendedLeft(deque, item[t])
        BY <2>3, <3>1, <4>2, AppendedLeftProperties DEF PutBody
      <4> QED
        BY <2>3, <4>1, <4>2 DEF PutBody
    <3>3. Append(log, item[t]) # log
      <4>1. Len(Append(log, item[t])) = Len(log) + 1 /\ Len(log) \in Nat
        BY <3>1, AppendProperties, LenProperties
      <4> QED
        BY <4>1
    <3>4. CASE Len(deque) < MaxLen
      BY <3>1, <3>2, <3>4
    <3>5. CASE ~(Len(deque) < MaxLen)
      <4>1. Len(deque) = MaxLen
        BY <3>1, <3>5, DequeueAssumption
      <4>2. lost' = lost + 1
        BY <3>1, <3>2, <3>5
      <4> QED
        BY <3>2, <3>3, <4>1, <4>2
    <3> QED
      BY <3>4, <3>5
  <2> QED
    BY <2>1, <2>2, <2>3
<1>2. TInv /\ TakeInv /\ [Next]_vars => TInv' /\ TakeInv'
  BY Inductive
<1> QED
  BY TInvInit, TakeInvInit, <1>1, <1>2, PTL DEF Spec, LossOnlyWhenFull

\* What a get_current_metrics has read so far: the counters only grow after it has
\* read the length.
SnapshotInv ==
  \A t \in Thread : op[t] = "metrics" /\ pc[t] \in {"leaving", "reading"} =>
    /\ local[t][1] <= metric["accepted"]
    /\ Len(local[t]) >= 2 => local[t][1] <= local[t][2]

\* No step makes the number of accepted elements smaller.
LEMMA AcceptedGrows ==
  ASSUME TInv, NEW t \in Thread, Step(t)
  PROVE  metric'["accepted"] >= metric["accepted"]
<1>1. metric \in [MetricField -> Nat] /\ metric["accepted"] \in Nat
  BY DEF TInv, TypeOK, DataType, MetricField
<1>2. CASE CountAccepted(t)
  BY <1>1, <1>2 DEF CountAccepted, MetricField
<1>3. CASE CountGaveOut(t)
  BY <1>1, <1>3 DEF CountGaveOut, MetricField
<1>4. CASE DropCount(t)
  BY <1>1, <1>4 DEF DropCount, MetricField
<1>5. CASE metric' = metric
  BY <1>1, <1>5
<1> QED
  BY <1>2, <1>3, <1>4, <1>5
  DEF Step, Body, Call, Acquire, Release, PutBody, GetNothing, GetPop, BatchPop, BatchEnd,
      DropNothing, DropReplace, ReadLen, ReadField, ReturnMetrics

\* Every step keeps the length that was read covered by what had been accepted.
LEMMA SnapshotStep ==
  ASSUME TInv, TInv', Conservation, SnapshotInv, NEW t \in Thread, Step(t)
  PROVE  SnapshotInv'
<1>a. ControlType /\ DataType /\ LockInv /\ LocalInv
  BY DEF TInv, TypeOK
<1>b. /\ metric["accepted"] \in Nat /\ metric'["accepted"] \in Nat
      /\ metric'["accepted"] >= metric["accepted"]
  BY AcceptedGrows DEF TInv, TypeOK, DataType, MetricField
<1> SUFFICES ASSUME NEW u \in Thread, op'[u] = "metrics", pc'[u] \in {"leaving", "reading"}
             PROVE  /\ local'[u][1] <= metric'["accepted"]
                    /\ Len(local'[u]) >= 2 => local'[u][1] <= local'[u][2]
  BY DEF SnapshotInv
<1>c. local'[u] \in Seq(Nat) /\ local'[u] # <<>> /\ local'[u][1] \in Nat
  <2>1. local'[u] \in Seq(Nat) /\ local'[u] # <<>>
    BY DEF TInv, LocalInv, InHand
  <2> QED
    BY <2>1, EmptySeq, ElementOfSeq
<1>1. ASSUME op[u] = "metrics", pc[u] \in {"leaving", "reading"}, local'[u] = local[u]
      PROVE  /\ local'[u][1] <= metric'["accepted"]
             /\ Len(local'[u]) >= 2 => local'[u][1] <= local'[u][2]
  BY <1>b, <1>c, <1>1 DEF SnapshotInv
<1>2. CASE ReadLen(t) /\ u = t
  <2>1. mutex = t /\ local'[t] = <<Len(deque)>> /\ op[t] = "metrics" /\ pc[t] = "inside"
    BY <1>2, <1>a, LabelSet DEF ReadLen, Goto, LockInv, DataType, call
  <2>2. Len(deque) <= metric["accepted"]
    <3>1. Contents = deque /\ Accepted = metric["accepted"]
      BY <2>1, SeenAsNow DEF SeenAs, At, TakeOps
    <3>2. /\ Len(deque) \in Nat /\ metric["gave_out"] \in Nat /\ metric["dropped"] \in Nat
          /\ lost \in Nat
      BY <1>a, LenProperties DEF DataType, MetricField
    <3>3. metric["accepted"] = Len(deque) + metric["gave_out"] + metric["dropped"] + lost
      BY <3>1 DEF Conservation
    <3> QED
      BY <3>2, <3>3
  <2>3. local'[t][1] = Len(deque) /\ Len(local'[t]) = 1
    BY <2>1
  <2>4. Len(deque) \in Nat
    BY <1>a, LenProperties DEF DataType
  <2> QED
    BY <1>2, <1>b, <2>2, <2>3, <2>4
<1>3. CASE ReadField(t) /\ u = t
  <2>1. /\ op[t] = "metrics" /\ pc[t] = "reading" /\ metric' = metric
        /\ local[t] \in Seq(Nat) /\ local[t] # <<>>
        /\ local'[t] = Append(local[t], metric[Fields[Len(local[t])]])
    BY <1>3, <1>a DEF ReadField, LocalInv, InHand, call, ControlType, DataType
  <2>2. Len(local[t]) \in Nat \ {0} /\ local[t][1] \in Nat
    BY <2>1, EmptySeq, ElementOfSeq
  <2>3. local[t][1] <= metric["accepted"] /\ (Len(local[t]) >= 2 => local[t][1] <= local[t][2])
    BY <2>1 DEF SnapshotInv
  <2>4. /\ Len(local'[t]) = Len(local[t]) + 1
        /\ \A k \in 1..Len(local[t]) : local'[t][k] = local[t][k]
        /\ local'[t][Len(local[t]) + 1] = metric[Fields[Len(local[t])]]
    <3>1. local[t] \in Seq(Nat \cup {metric[Fields[Len(local[t])]]})
      BY <2>1, SeqMonotonic
    <3> QED
      BY <2>1, <3>1, AppendProperties
  <2>5. local'[t][1] = local[t][1]
    BY <2>2, <2>4
  <2>6. CASE Len(local[t]) = 1
    <3>1. local'[t][2] = metric["accepted"]
      BY <2>4, <2>6 DEF Fields
    <3> QED
      BY <1>3, <2>1, <2>3, <2>5, <3>1
  <2>7. CASE Len(local[t]) >= 2
    <3>1. local'[t][2] = local[t][2]
      BY <2>2, <2>4, <2>7
    <3> QED
      BY <1>3, <2>1, <2>3, <2>5, <2>7, <3>1
  <2>8. Len(local[t]) = 1 \/ Len(local[t]) >= 2
    <3>1. \A n \in Nat \ {0} : n = 1 \/ n >= 2
      OBVIOUS
    <3> QED
      BY <2>2, <3>1
  <2> QED
    BY <2>6, <2>7, <2>8
<1>4. CASE u # t
  <2>1. op'[u] = op[u] /\ pc'[u] = pc[u] /\ local'[u] = local[u]
    BY <1>4, <1>a
    DEF Step, Body, Call, Acquire, Release, Finish, PutBody, CountAccepted, GetNothing, GetPop,
        BatchPop, BatchEnd, CountGaveOut, DropCount, DropNothing, DropReplace, ReadLen,
        ReadField, ReturnMetrics, Goto, call, ControlType, DataType
  <2> QED
    BY <1>1, <2>1
<1>5. CASE u = t /\ ~ReadLen(t) /\ ~ReadField(t)
  <2>1. Release(t)
    BY <1>5, <1>a
    DEF Step, Body, Call, Acquire, Finish, PutBody, CountAccepted, GetNothing, GetPop,
        BatchPop, BatchEnd, CountGaveOut, DropCount, DropNothing, DropReplace,
        ReturnMetrics, Goto, At, call, ControlType, DataType, TakeOps, PutOps
  <2>2. op[t] = "metrics" /\ pc[t] = "leaving" /\ local' = local
    BY <1>5, <1>a, <2>1 DEF Release, Finish, call, ControlType
  <2> QED
    BY <1>1, <1>5, <2>2
<1> QED
  BY <1>2, <1>3, <1>4, <1>5

\* get_current_metrics, which reads the counters without the mutex, never reports a
\* queue longer than what had been accepted.
THEOREM SnapshotsCovered == Spec => []SnapshotCovered
<1>1. Init => SnapshotInv
  BY DEF Init, SnapshotInv
<1>2. TInv /\ TakeInv /\ Conservation /\ SnapshotInv /\ [Next]_vars
        => TInv' /\ TakeInv' /\ SnapshotInv'
  <2> SUFFICES ASSUME TInv /\ TakeInv, Conservation, SnapshotInv, [Next]_vars
               PROVE  TInv' /\ TakeInv' /\ SnapshotInv'
    OBVIOUS
  <2>0. TInv' /\ TakeInv'
    BY Inductive
  <2>1. CASE Next
    <3>1. PICK t \in Thread : Step(t)
      BY <2>1 DEF Next
    <3> QED
      BY <2>0, <3>1, SnapshotStep
  <2>2. CASE UNCHANGED vars
    BY <2>0, <2>2 DEF vars, SnapshotInv
  <2> QED
    BY <2>1, <2>2
<1>3. TInv /\ SnapshotInv => SnapshotCovered
  BY DEF TInv, LocalInv, InHand, SnapshotInv, SnapshotCovered
<1> QED
  BY TInvInit, TakeInvInit, Conserved, <1>1, <1>2, <1>3, PTL DEF Spec
=============================================================================
