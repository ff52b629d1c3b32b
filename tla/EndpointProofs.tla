--------------------------- MODULE EndpointProofs ---------------------------
(* Theorems about Endpoint, for any clients, nodes, counts and bounds, and    *)
(* whatever callsign each ID is looked up as.                                 *)
EXTENDS Endpoint, SequenceTheorems, FiniteSetTheorems, TLAPS

Item == Service \X Nat

(* The inductive invariant.  ShapeOK is the part of the types that TypeOK     *)
(* leaves out.  QueueInv numbers the items of a queue in their order and      *)
(* RoomInv counts them: from the oldest on, one of each number may be there.  *)
(* BatchInv says what a request has in hand, DeliveredInv what the answers    *)
(* hold, EvictedInv what full queues have let go, and Apart that nothing is   *)
(* in two of these places; KeptInv is that an item of a running node is in    *)
(* one of them.                                                               *)

ShapeOK ==
  /\ queue \in [Service -> Seq(Item)] /\ put \in [Service -> Nat]
  /\ instance \in [Client -> Service \cup {None}]
  /\ batch \in [Client -> Seq(Item)] /\ delivered \in Seq(Item)
  /\ evicted \subseteq Item

ControlOK ==
  /\ table \subseteq Node /\ running \subseteq Service
  /\ pc \in [Client -> {"idle", "only", "by_id", "running", "count", "respond"}]
  /\ \A c \in Client : pc[c] \in {"running", "count", "respond"} <=> instance[c] \in Service
  /\ code \in [Client -> {200, 204, 404, 406, 500, 503, None}]

QueueInv ==
  \A s \in Service :
    /\ \A j \in 1..Len(queue[s]) : queue[s][j][1] = s /\ queue[s][j][2] \in 1..put[s]
    /\ \A j, k \in 1..Len(queue[s]) : j < k => queue[s][j][2] < queue[s][k][2]

RoomInv ==
  \A s \in Service :
    /\ Len(queue[s]) <= MaxSize
    /\ \A j \in 1..Len(queue[s]) : queue[s][j][2] + (Len(queue[s]) - j) <= put[s]

BatchInv ==
  \A c \in Client : batch[c] # <<>> =>
    /\ pc[c] = "respond"
    /\ \A j \in 1..Len(batch[c]) :
         /\ batch[c][j][1] = instance[c] /\ batch[c][j][2] \in 1..put[instance[c]]
         /\ \A k \in 1..Len(queue[instance[c]]) : batch[c][j][2] < queue[instance[c]][k][2]
    /\ \A j, k \in 1..Len(batch[c]) : j < k => batch[c][j][2] < batch[c][k][2]

DeliveredInv ==
  /\ \A j \in 1..Len(delivered) : delivered[j][2] \in 1..put[delivered[j][1]]
  /\ \A j, k \in 1..Len(delivered) : delivered[j] = delivered[k] => j = k

EvictedInv ==
  \A i \in evicted :
    /\ i[2] + MaxSize <= put[i[1]]
    /\ \A s \in Service : \A k \in 1..Len(queue[s]) : queue[s][k] # i
    /\ \A c \in Client : \A k \in 1..Len(batch[c]) : batch[c][k] # i
    /\ \A j \in 1..Len(delivered) : delivered[j] # i

Apart ==
  \A j \in 1..Len(delivered) :
    /\ \A s \in Service : \A k \in 1..Len(queue[s]) : delivered[j] # queue[s][k]
    /\ \A c \in Client : \A k \in 1..Len(batch[c]) : delivered[j] # batch[c][k]

BatchesApart ==
  \A c, d \in Client : c # d =>
    \A j \in 1..Len(batch[c]), k \in 1..Len(batch[d]) : batch[c][j] # batch[d][k]

Queued(n, k) == \E j \in 1..Len(queue[n]) : queue[n][j] = <<n, k>>
Taken(n, k) == \E c \in Client : \E j \in 1..Len(batch[c]) : batch[c][j] = <<n, k>>
Answered(n, k) == \E j \in 1..Len(delivered) : delivered[j] = <<n, k>>

KeptInv ==
  \A n \in Node : n \in running =>
    \A k \in 1..put[n] : Queued(n, k) \/ Taken(n, k) \/ Answered(n, k) \/ <<n, k>> \in evicted

DataInv ==
  /\ QueueInv /\ RoomInv /\ BatchInv /\ DeliveredInv /\ EvictedInv
  /\ Apart /\ BatchesApart /\ KeptInv

IInv == ControlOK /\ ShapeOK /\ DataInv

-----------------------------------------------------------------------------
(* Sequences.                                                                 *)

\* A sequence cut at n.
LEMMA Cut ==
  ASSUME NEW S, NEW q \in Seq(S), NEW n \in 0..Len(q)
  PROVE  /\ SubSeq(q, 1, n) \in Seq(S) /\ Len(SubSeq(q, 1, n)) = n
         /\ \A j \in 1..n : j \in 1..Len(q) /\ SubSeq(q, 1, n)[j] = q[j]
         /\ SubSeq(q, n + 1, Len(q)) \in Seq(S)
         /\ Len(SubSeq(q, n + 1, Len(q))) = Len(q) - n
         /\ \A j \in 1..(Len(q) - n) :
              n + j \in 1..Len(q) /\ SubSeq(q, n + 1, Len(q))[j] = q[n + j]
<1>1. Len(q) \in Nat /\ \A i \in 1..Len(q) : q[i] \in S
  BY LenProperties, ElementOfSeq
<1>2. SubSeq(q, 1, n) \in Seq(S) /\ Len(SubSeq(q, 1, n)) = n
  <2>1. \A i \in 1..n : q[i] \in S
    BY <1>1
  <2> QED
    BY <1>1, <2>1, SubSeqProperties
<1>3. \A j \in 1..n : j \in 1..Len(q) /\ SubSeq(q, 1, n)[j] = q[j]
  BY <1>1
<1>4. SubSeq(q, n + 1, Len(q)) \in Seq(S) /\ Len(SubSeq(q, n + 1, Len(q))) = Len(q) - n
  <2>1. \A i \in (n + 1)..Len(q) : q[i] \in S
    BY <1>1
  <2>2. n + 1 \in Int /\ Len(q) \in Int
    BY <1>1
  <2>3. Len(SubSeq(q, n + 1, Len(q))) = IF n + 1 <= Len(q) THEN Len(q) - (n + 1) + 1 ELSE 0
    BY <2>1, <2>2, SubSeqProperties
  <2> QED
    BY <1>1, <2>1, <2>2, <2>3, SubSeqProperties
<1>5. \A j \in 1..(Len(q) - n) : n + j \in 1..Len(q) /\ SubSeq(q, n + 1, Len(q))[j] = q[n + j]
  BY <1>1
<1> QED
  BY <1>2, <1>3, <1>4, <1>5

\* A sequence with another one behind it.
LEMMA Joined ==
  ASSUME NEW S, NEW p \in Seq(S), NEW q \in Seq(S)
  PROVE  /\ p \o q \in Seq(S) /\ Len(p \o q) = Len(p) + Len(q)
         /\ \A j \in 1..Len(p) : j \in 1..(Len(p) + Len(q)) /\ (p \o q)[j] = p[j]
         /\ \A j \in 1..Len(q) : Len(p) + j \in 1..(Len(p) + Len(q)) /\ (p \o q)[Len(p) + j] = q[j]
         /\ \A j \in 1..(Len(p) + Len(q)) :
              j \in 1..Len(p) \/ (j - Len(p) \in 1..Len(q) /\ j = Len(p) + (j - Len(p)))
<1>1. Len(p) \in Nat /\ Len(q) \in Nat
  BY LenProperties
<1>2. /\ p \o q \in Seq(S) /\ Len(p \o q) = Len(p) + Len(q)
      /\ \A i \in 1..(Len(p) + Len(q)) : (p \o q)[i] = IF i <= Len(p) THEN p[i] ELSE q[i - Len(p)]
  BY ConcatProperties
<1>3. \A j \in 1..Len(p) : j \in 1..(Len(p) + Len(q)) /\ j <= Len(p)
  BY <1>1
<1>4. \A j \in 1..Len(q) :
        Len(p) + j \in 1..(Len(p) + Len(q)) /\ ~(Len(p) + j <= Len(p)) /\ (Len(p) + j) - Len(p) = j
  BY <1>1
<1>5. \A j \in 1..(Len(p) + Len(q)) :
        j \in 1..Len(p) \/ (j - Len(p) \in 1..Len(q) /\ j = Len(p) + (j - Len(p)))
  BY <1>1
<1>6. \A j \in 1..Len(p) : (p \o q)[j] = p[j]
  BY <1>2, <1>3
<1>7. ASSUME NEW j \in 1..Len(q)
      PROVE  (p \o q)[Len(p) + j] = q[j]
  BY <1>2, <1>4
<1> QED
  BY <1>2, <1>3, <1>4, <1>5, <1>6, <1>7

-----------------------------------------------------------------------------
(* The start, and the steps that leave the items where they are.              *)

\* The services are the nodes and Tox, and no instance is none of them.
LEMMA Services == Node \subseteq Service /\ Tox \in Service /\ None \notin Service
BY EndpointAssumption DEF Service

\* The invariant holds at the start.
LEMMA InitInv == Init => IInv
<1> SUFFICES ASSUME Init PROVE IInv
  OBVIOUS
<1>1. ControlOK
  BY Services DEF Init, ControlOK
<1>2. <<>> \in Seq(Item) /\ Len(<<>>) = 0
  BY EmptySeq
<1>3. ShapeOK
  BY <1>2, Services DEF Init, ShapeOK
<1>4. /\ \A s \in Service : queue[s] = <<>> /\ put[s] = 0
      /\ \A c \in Client : batch[c] = <<>>
      /\ delivered = <<>> /\ evicted = {}
  BY DEF Init
<1>5. QueueInv /\ BatchInv /\ DeliveredInv
  BY <1>2, <1>4 DEF QueueInv, BatchInv, DeliveredInv
<1>8. RoomInv /\ EvictedInv
  BY <1>2, <1>4, EndpointAssumption DEF RoomInv, EvictedInv
<1>6. Apart /\ BatchesApart
  BY <1>2, <1>4 DEF Apart, BatchesApart
<1>7. KeptInv
  BY <1>4, Services DEF KeptInv
<1> QED
  BY <1>1, <1>3, <1>5, <1>6, <1>7, <1>8 DEF IInv, DataInv

\* A request that has nothing in hand may go anywhere.
LEMMA Quiet ==
  ASSUME IInv, queue' = queue, put' = put, delivered' = delivered, running' \subseteq running,
         batch' = batch, evicted' = evicted,
         \A c \in Client : batch[c] # <<>> => instance'[c] = instance[c] /\ pc'[c] = pc[c]
  PROVE  DataInv'
<1>1. QueueInv' /\ DeliveredInv'
  BY DEF IInv, DataInv, QueueInv, DeliveredInv
<1>2. BatchInv'
  <2>1. BatchInv
    BY DEF IInv, DataInv
  <2> SUFFICES ASSUME NEW c \in Client, batch[c] # <<>>
               PROVE  /\ pc'[c] = "respond"
                      /\ \A j \in 1..Len(batch[c]) :
                           /\ batch[c][j][1] = instance'[c] /\ batch[c][j][2] \in 1..put[instance'[c]]
                           /\ \A k \in 1..Len(queue[instance'[c]]) :
                                batch[c][j][2] < queue[instance'[c]][k][2]
                      /\ \A j, k \in 1..Len(batch[c]) : j < k => batch[c][j][2] < batch[c][k][2]
    BY DEF BatchInv
  <2>2. instance'[c] = instance[c] /\ pc'[c] = pc[c]
    OBVIOUS
  <2> QED
    BY <2>1, <2>2 DEF BatchInv
<1>3. KeptInv'
  BY DEF IInv, DataInv, KeptInv, Queued, Taken, Answered
<1>4. Apart' /\ BatchesApart'
  BY DEF IInv, DataInv, Apart, BatchesApart
<1>5. RoomInv' /\ EvictedInv'
  BY DEF IInv, DataInv, RoomInv, EvictedInv
<1> QED
  BY <1>1, <1>2, <1>3, <1>4, <1>5 DEF DataInv

\* A request that is not about to answer has nothing in hand.
LEMMA EmptyHands ==
  ASSUME IInv, NEW c \in Client, pc[c] # "respond"
  PROVE  batch[c] = <<>>
BY DEF IInv, DataInv, BatchInv

\* An answer of a request with nothing in hand.
LEMMA AnswerKeeps ==
  ASSUME IInv, NEW c \in Client, NEW how \in {200, 204, 404, 406, 500, 503},
         Answer(c, how), pc[c] # "respond"
  PROVE  /\ batch' = batch
         /\ \A d \in Client : batch[d] # <<>> => instance'[d] = instance[d] /\ pc'[d] = pc[d]
<1>1. batch[c] = <<>>
  BY EmptyHands
<1>2. batch \in [Client -> Seq(Item)] /\ batch' = [batch EXCEPT ![c] = <<>>]
  BY DEF IInv, ShapeOK, Answer
<1>3. batch' = batch
  BY <1>1, <1>2
<1>4. \A d \in Client \ {c} : instance'[d] = instance[d] /\ pc'[d] = pc[d]
  BY DEF Answer, IInv, ControlOK, ShapeOK
<1> QED
  BY <1>1, <1>3, <1>4

\* Where an answer leaves the request.
LEMMA AnswerControl ==
  ASSUME IInv, NEW c \in Client, NEW how \in {200, 204, 404, 406, 500, 503}, Answer(c, how)
  PROVE  /\ pc' \in [Client -> {"idle", "only", "by_id", "running", "count", "respond"}]
         /\ \A d \in Client : pc'[d] \in {"running", "count", "respond"} <=> instance'[d] \in Service
         /\ code' \in [Client -> {200, 204, 404, 406, 500, 503, None}]
         /\ instance' \in [Client -> Service \cup {None}]
         /\ batch' \in [Client -> Seq(Item)]
<1>1. /\ pc' = [pc EXCEPT ![c] = "idle"] /\ instance' = [instance EXCEPT ![c] = None]
      /\ code' = [code EXCEPT ![c] = how] /\ batch' = [batch EXCEPT ![c] = <<>>]
  BY DEF Answer
<1>2. /\ pc \in [Client -> {"idle", "only", "by_id", "running", "count", "respond"}]
      /\ \A d \in Client : pc[d] \in {"running", "count", "respond"} <=> instance[d] \in Service
      /\ code \in [Client -> {200, 204, 404, 406, 500, 503, None}]
      /\ instance \in [Client -> Service \cup {None}] /\ batch \in [Client -> Seq(Item)]
  BY DEF IInv, ControlOK, ShapeOK
<1>3. <<>> \in Seq(Item)
  BY EmptySeq
<1>4. \A d \in Client : pc'[d] \in {"running", "count", "respond"} <=> instance'[d] \in Service
  BY <1>1, <1>2, Services
<1>5. code' \in [Client -> {200, 204, 404, 406, 500, 503, None}]
  BY <1>1, <1>2
<1> QED
  BY <1>1, <1>2, <1>3, <1>4, <1>5

\* A request that had nothing in hand is answered.
LEMMA AnswerInv ==
  ASSUME IInv, NEW c \in Client, NEW how \in {200, 204, 404, 406, 500, 503},
         Answer(c, how), pc[c] # "respond", UNCHANGED services, delivered' = delivered
  PROVE  IInv'
<1>1. /\ table' = table /\ running' = running /\ queue' = queue /\ put' = put
      /\ evicted' = evicted
  BY DEF services
<1>2. DataInv'
  BY <1>1, AnswerKeeps, Quiet
<1>3. ControlOK'
  BY <1>1, AnswerControl DEF IInv, ControlOK
<1>4. ShapeOK'
  BY <1>1, AnswerControl DEF IInv, ShapeOK
<1> QED
  BY <1>2, <1>3, <1>4 DEF IInv

\* A request that has nothing in hand goes on.
LEMMA GotoInv ==
  ASSUME IInv, NEW c \in Client, NEW label \in {"only", "by_id", "running", "count"},
         Goto(c, label), pc[c] # "respond", batch' = batch, UNCHANGED services,
         delivered' = delivered, instance' \in [Client -> Service \cup {None}],
         \A d \in Client \ {c} : instance'[d] = instance[d],
         label \in {"running", "count"} <=> instance'[c] \in Service
  PROVE  IInv'
<1>1. /\ table' = table /\ running' = running /\ queue' = queue /\ put' = put
      /\ evicted' = evicted
  BY DEF services
<1>2. pc' = [pc EXCEPT ![c] = label] /\ code' = code
  BY DEF Goto
<1>3. /\ pc \in [Client -> {"idle", "only", "by_id", "running", "count", "respond"}]
      /\ \A d \in Client : pc[d] \in {"running", "count", "respond"} <=> instance[d] \in Service
  BY DEF IInv, ControlOK
<1>4. \A d \in Client \ {c} : pc'[d] = pc[d]
  BY <1>2, <1>3
<1>5. pc'[c] = label
  BY <1>2, <1>3
<1>6. DataInv'
  <2>1. batch[c] = <<>>
    BY EmptyHands
  <2>2. \A d \in Client : batch[d] # <<>> => instance'[d] = instance[d] /\ pc'[d] = pc[d]
    BY <1>4, <2>1
  <2> QED
    BY <1>1, <2>2, Quiet
<1>7. ControlOK'
  <2>1. pc' \in [Client -> {"idle", "only", "by_id", "running", "count", "respond"}]
    BY <1>2, <1>3
  <2>2. ASSUME NEW d \in Client
        PROVE  pc'[d] \in {"running", "count", "respond"} <=> instance'[d] \in Service
    BY <1>3, <1>4, <1>5
  <2> QED
    BY <1>1, <1>2, <2>1, <2>2 DEF IInv, ControlOK
<1>8. ShapeOK'
  BY <1>1 DEF IInv, ShapeOK
<1> QED
  BY <1>6, <1>7, <1>8 DEF IInv

\* The steps by which a request looks for its instance, and those that end it with nothing
\* in hand.
LEMMA LookInv ==
  ASSUME IInv, NEW c \in Client,
         AskNode(c) \/ TakeOnly(c) \/ LookUp(c) \/ CheckRunning(c) \/ AskTox(c) \/ BadCount(c)
           \/ SendTox(c) \/ SendNothing(c)
  PROVE  IInv'
<1>0. /\ instance \in [Client -> Service \cup {None}] /\ table \subseteq Service
      /\ pc[c] \in {"running", "count", "respond"} <=> instance[c] \in Service
  BY Services DEF IInv, ControlOK, ShapeOK
<1>1. CASE AskNode(c)
  <2>1. pc[c] = "idle" /\ UNCHANGED services /\ delivered' = delivered
    BY <1>1 DEF AskNode, Begin
  <2>2. CASE Answer(c, 404)
    BY <2>1, <2>2, AnswerInv
  <2>3. CASE Goto(c, "only") /\ UNCHANGED <<instance, batch>>
    BY <1>0, <2>1, <2>3, GotoInv
  <2>4. CASE Goto(c, "by_id") /\ UNCHANGED <<instance, batch>>
    BY <1>0, <2>1, <2>4, GotoInv
  <2> QED
    BY <1>1, <2>2, <2>3, <2>4 DEF AskNode
<1>2. CASE TakeOnly(c)
  <2>1. pc[c] = "only" /\ UNCHANGED services /\ delivered' = delivered
    BY <1>2 DEF TakeOnly
  <2>2. CASE Answer(c, 500)
    BY <2>1, <2>2, AnswerInv
  <2>3. ASSUME NEW n \in table, instance' = [instance EXCEPT ![c] = n], Goto(c, "running"),
               UNCHANGED batch
        PROVE  IInv'
    BY <1>0, <2>1, <2>3, GotoInv
  <2> QED
    BY <1>2, <2>2, <2>3 DEF TakeOnly
<1>3. CASE LookUp(c)
  <2>1. pc[c] = "by_id" /\ UNCHANGED services /\ delivered' = delivered
    BY <1>3 DEF LookUp
  <2>2. CASE Answer(c, 500)
    BY <2>1, <2>2, AnswerInv
  <2>3. ASSUME NEW n \in table, instance' = [instance EXCEPT ![c] = n], Goto(c, "running"),
               UNCHANGED batch
        PROVE  IInv'
    BY <1>0, <2>1, <2>3, GotoInv
  <2> QED
    BY <1>3, <2>2, <2>3 DEF LookUp
<1>4. CASE CheckRunning(c)
  <2>1. pc[c] = "running" /\ UNCHANGED services /\ delivered' = delivered
    BY <1>4 DEF CheckRunning
  <2>2. CASE Answer(c, 503)
    BY <2>1, <2>2, AnswerInv
  <2>3. CASE Goto(c, "count") /\ UNCHANGED <<instance, batch>>
    BY <1>0, <2>1, <2>3, GotoInv
  <2> QED
    BY <1>4, <2>2, <2>3 DEF CheckRunning
<1>5. CASE AskTox(c)
  <2>1. pc[c] = "idle" /\ UNCHANGED services /\ delivered' = delivered
    BY <1>5 DEF AskTox, Begin
  <2>2. instance' = [instance EXCEPT ![c] = Tox] /\ Goto(c, "running") /\ batch' = batch
    BY <1>5 DEF AskTox
  <2> QED
    BY <1>0, <2>1, <2>2, Services, GotoInv
<1>6. CASE BadCount(c)
  <2>1. pc[c] = "count" /\ UNCHANGED services /\ delivered' = delivered /\ Answer(c, 406)
    BY <1>6 DEF BadCount
  <2> QED
    BY <2>1, AnswerInv
<1>7. CASE SendTox(c)
  <2>1. pc[c] = "idle" /\ UNCHANGED services /\ delivered' = delivered
    BY <1>7 DEF SendTox, Begin
  <2>2. CASE Answer(c, 503)
    BY <2>1, <2>2, AnswerInv
  <2>3. CASE Answer(c, 500)
    BY <2>1, <2>3, AnswerInv
  <2> QED
    BY <1>7, <2>2, <2>3 DEF SendTox
<1>8. CASE SendNothing(c)
  <2>1. /\ pc[c] = "idle" /\ UNCHANGED services /\ delivered' = delivered
        /\ Answer(c, 204) \/ Answer(c, 500)
    BY <1>8 DEF SendNothing, Begin
  <2> QED
    BY <2>1, AnswerInv
<1> QED
  BY <1>1, <1>2, <1>3, <1>4, <1>5, <1>6, <1>7, <1>8

-----------------------------------------------------------------------------
(* The steps that move items.                                                 *)

\* What a request has in hand is not on a queue.
LEMMA OffQueue ==
  ASSUME IInv, NEW c \in Client, NEW j \in 1..Len(batch[c]), NEW s \in Service,
         NEW k \in 1..Len(queue[s])
  PROVE  batch[c][j] # queue[s][k]
<1>1. batch[c] # <<>>
  BY EmptySeq
<1>2. /\ batch[c][j][1] = instance[c] /\ batch[c][j][2] \in 1..put[instance[c]]
      /\ \A i \in 1..Len(queue[instance[c]]) : batch[c][j][2] < queue[instance[c]][i][2]
  BY <1>1 DEF IInv, DataInv, BatchInv
<1>3. queue[s][k][1] = s
  BY DEF IInv, DataInv, QueueInv
<1>4. CASE instance[c] = s
  BY <1>2, <1>4
<1>5. CASE instance[c] # s
  BY <1>2, <1>3, <1>5
<1> QED
  BY <1>4, <1>5

\* What a deque keeps of its items when it takes one more: all, or all but the oldest.
LEMMA Shifted ==
  ASSUME NEW S, NEW old \in Seq(S), NEW h \in {0, 1}, h <= Len(old),
         NEW q, q = IF h = 1 THEN Tail(old) ELSE old
  PROVE  /\ q \in Seq(S) /\ Len(q) = Len(old) - h
         /\ \A j \in 1..Len(q) : j + h \in 1..Len(old) /\ q[j] = old[j + h]
<1>1. Len(old) \in Nat
  BY LenProperties
<1>2. CASE h = 0
  BY <1>1, <1>2
<1>3. CASE h = 1
  <2>1. old # <<>>
    BY <1>1, <1>3, EmptySeq
  <2>2. /\ Tail(old) \in Seq(S) /\ Len(Tail(old)) = Len(old) - 1
        /\ \A i \in 1..(Len(old) - 1) : Tail(old)[i] = old[i + 1]
    BY <2>1, HeadTailProperties
  <2> QED
    BY <1>1, <1>3, <2>2
<1> QED
  BY <1>2, <1>3

\* A service numbers its new item higher than all the others; one that leaves a full queue
\* has MaxSize newer ones from then on.
LEMMA PutInv ==
  ASSUME IInv, NEW s \in Service, Put(s)
  PROVE  IInv'
<1> DEFINE old == queue[s]
           k == put[s] + 1
           new == <<s, k>>
<1>1. /\ queue \in [Service -> Seq(Item)] /\ put \in [Service -> Nat]
      /\ old \in Seq(Item) /\ Len(old) \in Nat /\ put[s] \in Nat /\ k \in Nat /\ new \in Item
      /\ batch \in [Client -> Seq(Item)] /\ delivered \in Seq(Item)
      /\ instance \in [Client -> Service \cup {None}] /\ evicted \subseteq Item
      /\ MaxSize \in Nat \ {0} /\ Len(old) <= MaxSize
      /\ \A j \in 1..Len(old) : old[j] \in Item
  BY LenProperties, ElementOfSeq, EndpointAssumption DEF IInv, ShapeOK, Item, DataInv, RoomInv
<1>2. /\ put' = [put EXCEPT ![s] = k]
      /\ UNCHANGED <<table, running, asked, pc, id, instance, batch, code, delivered>>
      /\ s \in running
  BY <1>1 DEF Put
<1>3. PICK h \in {0, 1}, q \in Seq(Item) :
        /\ Len(q) = Len(old) - h /\ Len(q) < MaxSize
        /\ \A j \in 1..Len(q) : j + h \in 1..Len(old) /\ q[j] = old[j + h]
        /\ queue' = [queue EXCEPT ![s] = Append(q, new)]
        /\ h = 0 => evicted' = evicted
        /\ h = 1 => /\ Len(old) = MaxSize /\ 1 \in 1..Len(old)
                    /\ evicted' = evicted \cup {old[1]}
  <2>1. CASE Len(old) < MaxSize
    <3>1. queue' = [queue EXCEPT ![s] = Append(old, new)] /\ evicted' = evicted
      BY <1>1, <2>1 DEF Put
    <3>2. /\ Len(old) = Len(old) - 0
          /\ \A j \in 1..Len(old) : j + 0 \in 1..Len(old) /\ old[j] = old[j + 0]
      BY <1>1
    <3> old \in Seq(Item)
      BY <1>1
    <3> HIDE DEF old, new
    <3> WITNESS 0 \in {0, 1}, old \in Seq(Item)
    <3> QED
      BY <2>1, <3>1, <3>2
  <2>2. CASE Len(old) = MaxSize
    <3>1. /\ queue' = [queue EXCEPT ![s] = Append(Tail(old), new)]
          /\ evicted' = evicted \cup {Head(old)}
      BY <1>1, <2>2 DEF Put
    <3>2. /\ Tail(old) \in Seq(Item) /\ Len(Tail(old)) = Len(old) - 1
          /\ \A j \in 1..Len(Tail(old)) : j + 1 \in 1..Len(old) /\ Tail(old)[j] = old[j + 1]
      BY <1>1, <2>2, Shifted
    <3>3. old # <<>>
      BY <1>1, <2>2, EmptySeq
    <3>4. Head(old) = old[1]
      BY <1>1, <3>3, HeadTailProperties
    <3>5. 1 \in 1..Len(old) /\ Len(Tail(old)) < MaxSize
      BY <1>1, <2>2, <3>2
    <3> Tail(old) \in Seq(Item)
      BY <3>2
    <3> HIDE DEF old, new
    <3> WITNESS 1 \in {0, 1}, Tail(old) \in Seq(Item)
    <3> QED
      BY <2>2, <3>1, <3>2, <3>4, <3>5
  <2>3. Len(old) < MaxSize \/ Len(old) = MaxSize
    BY <1>1
  <2> QED
    BY <2>1, <2>2, <2>3
<1>4. /\ queue'[s] = Append(q, new) /\ put'[s] = k
      /\ \A r \in Service \ {s} : queue'[r] = queue[r] /\ put'[r] = put[r]
      /\ \A r \in Service : put'[r] \in Nat /\ put[r] <= put'[r] /\ 1..put[r] \subseteq 1..put'[r]
  BY <1>1, <1>2, <1>3
<1>5. /\ Append(q, new) \in Seq(Item) /\ Len(q) \in Nat
      /\ Len(queue'[s]) = Len(q) + 1
      /\ \A j \in 1..Len(q) : queue'[s][j] = q[j]
      /\ queue'[s][Len(q) + 1] = new
      /\ \A j \in 1..(Len(q) + 1) : j \in 1..Len(q) \/ j = Len(q) + 1
  BY <1>1, <1>4, AppendProperties, LenProperties
<1>6. ControlOK'
  BY <1>2 DEF IInv, ControlOK
<1>7. ShapeOK'
  <2>1. queue' \in [Service -> Seq(Item)] /\ put' \in [Service -> Nat]
    BY <1>1, <1>2, <1>3, <1>5
  <2>2. evicted' \subseteq Item
    BY <1>1, <1>3
  <2> QED
    BY <1>1, <1>2, <2>1, <2>2 DEF ShapeOK
<1>8. /\ \A j \in 1..Len(old) : old[j][1] = s /\ old[j][2] \in 1..put[s]
      /\ \A i, j \in 1..Len(old) : i < j => old[i][2] < old[j][2]
      /\ \A j \in 1..Len(old) : old[j][2] + (Len(old) - j) <= put[s]
  BY <1>1 DEF IInv, DataInv, QueueInv, RoomInv
<1>9. /\ new[1] = s /\ new[2] = k /\ k = put[s] + 1
      /\ \A i \in 1..put[s] : i < k /\ i \in Nat
      /\ k \in 1..k /\ 1..put[s] \subseteq 1..k
  BY <1>1
<1> HIDE DEF old, k, new
<1>10. ASSUME NEW j \in 1..Len(q)
       PROVE  /\ q[j][1] = s /\ q[j][2] \in 1..put[s]
              /\ \A i \in 1..Len(q) : i < j => q[i][2] < q[j][2]
              /\ q[j][2] + (Len(q) - j) <= put[s]
              /\ \E l \in 1..Len(queue[s]) : q[j] = queue[s][l]
  <2>1. j + h \in 1..Len(old) /\ q[j] = old[j + h]
    BY <1>3
  <2>2. ASSUME NEW i \in 1..Len(q), i < j
        PROVE  q[i][2] < q[j][2]
    <3>1. i + h \in 1..Len(old) /\ q[i] = old[i + h] /\ i + h < j + h
      BY <1>3, <1>5, <2>2
    <3> QED
      BY <1>8, <2>1, <3>1
  <2>3. Len(old) - (j + h) = Len(q) - j
    BY <1>1, <1>3, <1>5
  <2>4. old[j + h][2] + (Len(old) - (j + h)) <= put[s]
    BY <1>8, <2>1
  <2> QED
    BY <1>8, <2>1, <2>2, <2>3, <2>4 DEF old
<1>11. QueueInv'
  <2>1. ASSUME NEW r \in Service, r # s
        PROVE  /\ \A j \in 1..Len(queue'[r]) : queue'[r][j][1] = r /\ queue'[r][j][2] \in 1..put'[r]
               /\ \A i, j \in 1..Len(queue'[r]) : i < j => queue'[r][i][2] < queue'[r][j][2]
    BY <1>4, <2>1 DEF IInv, DataInv, QueueInv
  <2>2. ASSUME NEW j \in 1..(Len(q) + 1)
        PROVE  queue'[s][j][1] = s /\ queue'[s][j][2] \in 1..k
    BY <1>5, <1>9, <1>10
  <2>3. ASSUME NEW i \in 1..(Len(q) + 1), NEW j \in 1..(Len(q) + 1), i < j
        PROVE  queue'[s][i][2] < queue'[s][j][2]
    <3>1. i \in 1..Len(q)
      BY <1>5, <2>3
    <3> QED
      BY <1>5, <1>9, <1>10, <2>3, <3>1
  <2> QED
    BY <1>4, <1>5, <2>1, <2>2, <2>3 DEF QueueInv
<1>12. RoomInv'
  <2>1. ASSUME NEW r \in Service, r # s
        PROVE  /\ Len(queue'[r]) <= MaxSize
               /\ \A j \in 1..Len(queue'[r]) : queue'[r][j][2] + (Len(queue'[r]) - j) <= put'[r]
    BY <1>4, <2>1 DEF IInv, DataInv, RoomInv
  <2>2. ASSUME NEW j \in 1..(Len(q) + 1)
        PROVE  queue'[s][j][2] + ((Len(q) + 1) - j) <= k
    <3>1. CASE j \in 1..Len(q)
      <4>1. q[j][2] \in Nat /\ q[j][2] + (Len(q) - j) <= put[s] /\ queue'[s][j] = q[j]
        BY <1>1, <1>5, <1>9, <1>10, <3>1
      <4>2. Len(q) \in Nat /\ put[s] \in Nat /\ k = put[s] + 1 /\ j \in Int
        BY <1>1, <1>5, <1>9, <3>1
      <4> QED
        BY <4>1, <4>2
    <3>2. CASE j = Len(q) + 1
      BY <1>1, <1>5, <1>9, <3>2
    <3> QED
      BY <1>5, <3>1, <3>2
  <2>3. Len(q) + 1 <= MaxSize
    BY <1>1, <1>3, <1>5
  <2> QED
    BY <1>4, <1>5, <2>1, <2>2, <2>3 DEF RoomInv
<1>13. BatchInv'
  <2> SUFFICES ASSUME NEW c \in Client, batch[c] # <<>>
               PROVE  /\ pc'[c] = "respond"
                      /\ \A j \in 1..Len(batch[c]) :
                           /\ batch[c][j][1] = instance[c] /\ batch[c][j][2] \in 1..put'[instance[c]]
                           /\ \A i \in 1..Len(queue'[instance[c]]) :
                                batch[c][j][2] < queue'[instance[c]][i][2]
                      /\ \A i, j \in 1..Len(batch[c]) : i < j => batch[c][i][2] < batch[c][j][2]
    BY <1>2 DEF BatchInv
  <2>1. /\ pc[c] = "respond"
        /\ \A j \in 1..Len(batch[c]) :
             /\ batch[c][j][1] = instance[c] /\ batch[c][j][2] \in 1..put[instance[c]]
             /\ \A i \in 1..Len(queue[instance[c]]) : batch[c][j][2] < queue[instance[c]][i][2]
        /\ \A i, j \in 1..Len(batch[c]) : i < j => batch[c][i][2] < batch[c][j][2]
    BY DEF IInv, DataInv, BatchInv
  <2>2. instance[c] \in Service
    BY <2>1 DEF IInv, ControlOK
  <2>3. ASSUME NEW j \in 1..Len(batch[c]), NEW i \in 1..Len(queue'[instance[c]])
        PROVE  batch[c][j][2] < queue'[instance[c]][i][2]
    <3>1. CASE instance[c] # s
      BY <1>4, <2>1, <2>2, <2>3, <3>1
    <3>2. CASE instance[c] = s
      <4>1. CASE i \in 1..Len(q)
        <5>1. PICK l \in 1..Len(queue[s]) : q[i] = queue[s][l]
          BY <1>10, <4>1
        <5> QED
          BY <1>5, <2>1, <3>2, <4>1, <5>1
      <4>2. CASE i = Len(q) + 1
        BY <1>5, <1>9, <2>1, <3>2, <4>2
      <4> QED
        BY <1>5, <3>2, <4>1, <4>2
    <3> QED
      BY <3>1, <3>2
  <2> QED
    BY <1>2, <1>4, <2>1, <2>2, <2>3
<1>14. ASSUME NEW j \in 1..Len(delivered)
       PROVE  delivered[j] # new /\ delivered[j] \in Item
  <2>1. delivered[j] \in Item
    BY <1>1, ElementOfSeq
  <2>2. delivered[j][2] \in 1..put[delivered[j][1]]
    BY DEF IInv, DataInv, DeliveredInv
  <2> QED
    BY <1>1, <1>9, <2>1, <2>2
<1>15. ASSUME NEW c \in Client, NEW j \in 1..Len(batch[c])
       PROVE  batch[c][j] # new
  <2>1. batch[c] # <<>>
    BY <1>1, EmptySeq
  <2>2. batch[c][j][1] = instance[c] /\ batch[c][j][2] \in 1..put[instance[c]]
    BY <2>1 DEF IInv, DataInv, BatchInv
  <2> QED
    BY <1>9, <2>2
<1>16. DeliveredInv'
  <2>1. \A j \in 1..Len(delivered) : delivered[j][1] \in Service
    BY <1>14 DEF Item
  <2> QED
    BY <1>2, <1>4, <2>1 DEF IInv, DataInv, DeliveredInv
<1>17. ASSUME NEW r \in Service, NEW i \in 1..Len(queue'[r])
       PROVE  \/ r = s /\ queue'[r][i] = new
              \/ \E l \in 1..Len(queue[r]) : queue'[r][i] = queue[r][l] /\ (r = s => l = i + h)
  <2>1. CASE r # s
    BY <1>4, <1>17, <2>1
  <2>2. CASE r = s
    <3>1. CASE i \in 1..Len(q)
      <4>1. i + h \in 1..Len(old) /\ q[i] = old[i + h]
        BY <1>3, <3>1
      <4> QED
        BY <1>5, <2>2, <3>1, <4>1 DEF old
    <3>2. CASE i = Len(q) + 1
      BY <1>5, <2>2, <3>2
    <3> QED
      BY <1>5, <2>2, <3>1, <3>2
  <2> QED
    BY <2>1, <2>2
<1>18. Apart'
  <2>1. ASSUME NEW j \in 1..Len(delivered), NEW r \in Service, NEW i \in 1..Len(queue'[r])
        PROVE  delivered[j] # queue'[r][i]
    <3>1. CASE queue'[r][i] = new
      BY <1>14, <3>1
    <3>2. ASSUME NEW l \in 1..Len(queue[r]), queue'[r][i] = queue[r][l]
          PROVE  delivered[j] # queue'[r][i]
      BY <3>2 DEF IInv, DataInv, Apart
    <3> QED
      BY <1>17, <3>1, <3>2
  <2>2. \A j \in 1..Len(delivered) : \A c \in Client : \A i \in 1..Len(batch[c]) : delivered[j] # batch[c][i]
    BY DEF IInv, DataInv, Apart
  <2> QED
    BY <1>2, <2>1, <2>2 DEF Apart
<1>19. BatchesApart'
  BY <1>2 DEF IInv, DataInv, BatchesApart
<1>20. EvictedInv'
  <2>1. ASSUME NEW e \in evicted
        PROVE  /\ e[2] + MaxSize <= put'[e[1]]
               /\ \A r \in Service : \A i \in 1..Len(queue'[r]) : queue'[r][i] # e
               /\ \A c \in Client : \A i \in 1..Len(batch[c]) : batch[c][i] # e
               /\ \A j \in 1..Len(delivered) : delivered[j] # e
    <3>1. /\ e[2] + MaxSize <= put[e[1]] /\ e[1] \in Service /\ e[2] \in Nat
          /\ \A r \in Service : \A i \in 1..Len(queue[r]) : queue[r][i] # e
          /\ \A c \in Client : \A i \in 1..Len(batch[c]) : batch[c][i] # e
          /\ \A j \in 1..Len(delivered) : delivered[j] # e
      BY <1>1 DEF IInv, DataInv, EvictedInv, Item
    <3>2. e[2] + MaxSize <= put'[e[1]]
      BY <1>1, <1>4, <3>1
    <3>3. e # new
      BY <1>1, <1>9, <3>1
    <3>4. ASSUME NEW r \in Service, NEW i \in 1..Len(queue'[r])
          PROVE  queue'[r][i] # e
      <4>1. queue'[r][i] = new \/ \E l \in 1..Len(queue[r]) : queue'[r][i] = queue[r][l]
        BY <1>17
      <4> QED
        BY <3>1, <3>3, <4>1
    <3> QED
      BY <3>1, <3>2, <3>4
  <2>2. ASSUME h = 1
        PROVE  /\ old[1][2] + MaxSize <= put'[old[1][1]]
               /\ \A r \in Service : \A i \in 1..Len(queue'[r]) : queue'[r][i] # old[1]
               /\ \A c \in Client : \A i \in 1..Len(batch[c]) : batch[c][i] # old[1]
               /\ \A j \in 1..Len(delivered) : delivered[j] # old[1]
    <3>1. /\ Len(old) = MaxSize /\ 1 \in 1..Len(old) /\ old[1][1] = s
          /\ old[1][2] \in 1..put[s] /\ old[1][2] + (Len(old) - 1) <= put[s]
      BY <1>3, <1>8, <2>2
    <3>2. old[1][2] + MaxSize <= put'[old[1][1]]
      BY <1>1, <1>4, <1>9, <3>1
    <3>3. ASSUME NEW r \in Service, NEW i \in 1..Len(queue'[r])
          PROVE  queue'[r][i] # old[1]
      <4>1. CASE r = s /\ queue'[r][i] = new
        BY <1>1, <1>9, <3>1, <4>1
      <4>2. ASSUME NEW l \in 1..Len(queue[r]), queue'[r][i] = queue[r][l], r = s, l = i + h
            PROVE  queue'[r][i] # old[1]
        <5>1. l \in 1..Len(old) /\ 1 < l /\ i \in Nat \ {0}
          <6>1. Len(queue'[s]) \in Nat
            BY <1>5
          <6> QED
            BY <2>2, <4>2, <6>1 DEF old
        <5>2. old[1][2] < old[l][2]
          BY <1>8, <3>1, <5>1
        <5>3. old[1][2] \in Int
          BY <1>1, <3>1
        <5> QED
          BY <4>2, <5>2, <5>3 DEF old
      <4>3. ASSUME NEW l \in 1..Len(queue[r]), queue'[r][i] = queue[r][l], r # s
            PROVE  queue'[r][i] # old[1]
        <5>1. queue[r][l][1] = r
          BY DEF IInv, DataInv, QueueInv
        <5> QED
          BY <3>1, <4>3, <5>1
      <4> QED
        BY <1>17, <4>1, <4>2, <4>3
    <3>4. \A c \in Client : \A i \in 1..Len(batch[c]) : batch[c][i] # old[1]
      BY <3>1, OffQueue DEF old
    <3>5. \A j \in 1..Len(delivered) : delivered[j] # old[1]
      BY <3>1 DEF IInv, DataInv, Apart, old
    <3> QED
      BY <3>2, <3>3, <3>4, <3>5
  <2>3. \A e \in evicted' : e \in evicted \/ (h = 1 /\ e = old[1])
    BY <1>3
  <2> QED
    BY <1>2, <2>1, <2>2, <2>3 DEF EvictedInv
<1>21. KeptInv'
  <2> SUFFICES ASSUME NEW n \in Node, n \in running, NEW i \in 1..put'[n]
               PROVE  Queued(n, i)' \/ Taken(n, i)' \/ Answered(n, i)' \/ <<n, i>> \in evicted'
    BY <1>2 DEF KeptInv
  <2>1. CASE i \in 1..put[n]
    <3>1. Queued(n, i) \/ Taken(n, i) \/ Answered(n, i) \/ <<n, i>> \in evicted
      BY <2>1 DEF IInv, DataInv, KeptInv
    <3>2. ASSUME Queued(n, i)
          PROVE  Queued(n, i)' \/ <<n, i>> \in evicted'
      <4>1. PICK j \in 1..Len(queue[n]) : queue[n][j] = <<n, i>>
        BY <3>2 DEF Queued
      <4>2. CASE n # s
        <5>1. queue'[n] = queue[n]
          BY <1>4, <4>2, Services
        <5> QED
          BY <4>1, <5>1 DEF Queued
      <4>3. CASE n = s /\ j - h \in 1..Len(q)
        <5>1. (j - h) + h = j
          BY <1>1, <4>1, <4>3 DEF old
        <5>2. q[j - h] = <<n, i>>
          BY <1>3, <4>1, <4>3, <5>1 DEF old
        <5>3. j - h \in 1..Len(queue'[n]) /\ queue'[n][j - h] = <<n, i>>
          BY <1>5, <4>3, <5>2
        <5> QED
          BY <5>3 DEF Queued
      <4>4. CASE n = s /\ j - h \notin 1..Len(q)
        <5>1. j \in 1..Len(old) /\ old[j] = <<n, i>>
          BY <4>1, <4>4 DEF old
        <5>2. h = 1 /\ j = 1
          BY <1>1, <1>3, <1>5, <4>4, <5>1
        <5> QED
          BY <1>3, <5>1, <5>2
      <4> QED
        BY <4>2, <4>3, <4>4
    <3>3. evicted \subseteq evicted'
      BY <1>3
    <3> QED
      BY <1>2, <3>1, <3>2, <3>3 DEF Taken, Answered
  <2>2. CASE i \notin 1..put[n]
    <3>1. n = s /\ i = k
      BY <1>1, <1>4, <1>9, <2>2, Services
    <3>2. Len(q) + 1 \in 1..Len(queue'[n]) /\ queue'[n][Len(q) + 1] = <<n, i>>
      BY <1>5, <3>1 DEF new
    <3> QED
      BY <3>2 DEF Queued
  <2> QED
    BY <2>1, <2>2
<1> QED
  BY <1>6, <1>7, <1>11, <1>12, <1>13, <1>16, <1>18, <1>19, <1>20, <1>21 DEF IInv, DataInv

\* A node that leaves the table takes nothing with it.
LEMMA PopNodeInv ==
  ASSUME IInv, NEW n \in Node, PopNode(n)
  PROVE  IInv'
<1>1. /\ table' = table \ {n}
      /\ UNCHANGED <<running, queue, put, evicted, asked, pc, id, instance, batch, code, delivered>>
  BY DEF PopNode
<1>2. DataInv'
  BY <1>1, Quiet
<1>3. ControlOK' /\ ShapeOK'
  BY <1>1 DEF IInv, ControlOK, ShapeOK
<1> QED
  BY <1>2, <1>3 DEF IInv

\* A service that is finalized empties its queue, and its items count no longer.
LEMMA FinalizeInv ==
  ASSUME IInv, NEW s \in Service, Finalize(s)
  PROVE  IInv'
<1>1. /\ running' = running \ {s} /\ queue' = [queue EXCEPT ![s] = <<>>]
      /\ UNCHANGED <<table, put, evicted, asked, pc, id, instance, batch, code, delivered>>
  BY DEF Finalize
<1>2. /\ <<>> \in Seq(Item) /\ Len(<<>>) = 0 /\ \A i \in Nat : i \notin 1..0
  BY EmptySeq
<1>3. /\ queue'[s] = <<>> /\ \A r \in Service \ {s} : queue'[r] = queue[r]
  BY <1>1 DEF IInv, ShapeOK
<1>4. ControlOK'
  BY <1>1 DEF IInv, ControlOK
<1>5. ShapeOK'
  BY <1>1, <1>2 DEF IInv, ShapeOK
<1>6. \A r \in Service : \A j \in 1..Len(queue'[r]) :
        r # s /\ queue'[r] = queue[r] /\ j \in 1..Len(queue[r])
  BY <1>2, <1>3
<1>7. QueueInv'
  BY <1>1, <1>6 DEF IInv, DataInv, QueueInv
<1>8. BatchInv'
  <2> SUFFICES ASSUME NEW c \in Client, batch[c] # <<>>
               PROVE  /\ pc[c] = "respond"
                      /\ \A j \in 1..Len(batch[c]) :
                           /\ batch[c][j][1] = instance[c] /\ batch[c][j][2] \in 1..put[instance[c]]
                           /\ \A i \in 1..Len(queue'[instance[c]]) :
                                batch[c][j][2] < queue'[instance[c]][i][2]
                      /\ \A i, j \in 1..Len(batch[c]) : i < j => batch[c][i][2] < batch[c][j][2]
    BY <1>1 DEF BatchInv
  <2>1. instance[c] \in Service
    BY DEF IInv, ControlOK, DataInv, BatchInv
  <2> QED
    BY <1>6, <2>1 DEF IInv, DataInv, BatchInv
<1>9. DeliveredInv' /\ BatchesApart'
  BY <1>1 DEF IInv, DataInv, DeliveredInv, BatchesApart
<1>10. Apart'
  BY <1>1, <1>6 DEF IInv, DataInv, Apart
<1>11. KeptInv'
  <2> SUFFICES ASSUME NEW n \in Node, n \in running, n # s, NEW i \in 1..put[n]
               PROVE  Queued(n, i)' \/ Taken(n, i)' \/ Answered(n, i)' \/ <<n, i>> \in evicted'
    BY <1>1 DEF KeptInv
  <2>1. Queued(n, i) \/ Taken(n, i) \/ Answered(n, i) \/ <<n, i>> \in evicted
    BY DEF IInv, DataInv, KeptInv
  <2>2. queue'[n] = queue[n]
    BY <1>3, Services
  <2> QED
    BY <1>1, <2>1, <2>2 DEF Queued, Taken, Answered
<1>12. EvictedInv'
  BY <1>1, <1>6 DEF IInv, DataInv, EvictedInv
<1>13. RoomInv'
  <2>1. ASSUME NEW r \in Service
        PROVE  /\ Len(queue'[r]) <= MaxSize
               /\ \A j \in 1..Len(queue'[r]) : queue'[r][j][2] + (Len(queue'[r]) - j) <= put[r]
    <3>1. CASE r = s
      BY <1>2, <1>3, <3>1, EndpointAssumption
    <3>2. CASE r # s
      BY <1>3, <3>2 DEF IInv, DataInv, RoomInv
    <3> QED
      BY <3>1, <3>2
  <2> QED
    BY <1>1, <2>1 DEF RoomInv
<1> QED
  BY <1>4, <1>5, <1>7, <1>8, <1>9, <1>10, <1>11, <1>12, <1>13 DEF IInv, DataInv

\* get_batch: a request takes the oldest items of a queue.
LEMMA GetBatchInv ==
  ASSUME IInv, NEW c \in Client, GetBatch(c)
  PROVE  IInv'
<1> DEFINE s == instance[c]
           q == queue[s]
<1>1. /\ pc[c] = "count" /\ s \in Service /\ q \in Seq(Item) /\ Len(q) \in Nat
      /\ queue \in [Service -> Seq(Item)] /\ batch \in [Client -> Seq(Item)]
      /\ pc \in [Client -> {"idle", "only", "by_id", "running", "count", "respond"}]
  BY LenProperties DEF GetBatch, IInv, ControlOK, ShapeOK
<1>2. PICK n \in 0..Len(q) :
        /\ batch' = [batch EXCEPT ![c] = SubSeq(q, 1, n)]
        /\ queue' = [queue EXCEPT ![s] = SubSeq(q, n + 1, Len(q))]
  <2>1. PICK count \in Counts :
          LET n == Least(count, Len(q))
          IN /\ batch' = [batch EXCEPT ![c] = SubSeq(q, 1, n)]
             /\ queue' = [queue EXCEPT ![s] = SubSeq(q, n + 1, Len(q))]
    BY <1>1 DEF GetBatch
  <2>2. count \in Nat
    BY EndpointAssumption
  <2> DEFINE n == Least(count, Len(q))
  <2>3. n \in 0..Len(q)
    BY <1>1, <2>2 DEF Least
  <2>4. /\ batch' = [batch EXCEPT ![c] = SubSeq(q, 1, n)]
        /\ queue' = [queue EXCEPT ![s] = SubSeq(q, n + 1, Len(q))]
    BY <2>1
  <2> HIDE DEF n
  <2> QED
    BY <2>3, <2>4
<1>3. /\ pc' = [pc EXCEPT ![c] = "respond"] /\ code' = code
      /\ UNCHANGED <<table, running, put, evicted, asked, id, instance, delivered>>
  BY DEF GetBatch, Goto
<1> DEFINE front == SubSeq(q, 1, n)
           rest == SubSeq(q, n + 1, Len(q))
<1>4. /\ front \in Seq(Item) /\ Len(front) = n
      /\ \A j \in 1..n : j \in 1..Len(q) /\ front[j] = q[j]
      /\ rest \in Seq(Item) /\ Len(rest) = Len(q) - n
      /\ \A j \in 1..(Len(q) - n) : n + j \in 1..Len(q) /\ rest[j] = q[n + j]
  BY <1>1, Cut
<1>5. /\ batch' = [batch EXCEPT ![c] = front] /\ queue' = [queue EXCEPT ![s] = rest]
  BY <1>2
<1> HIDE DEF front, rest
<1>6. /\ batch'[c] = front /\ \A d \in Client \ {c} : batch'[d] = batch[d]
      /\ queue'[s] = rest /\ \A r \in Service \ {s} : queue'[r] = queue[r]
      /\ pc'[c] = "respond" /\ \A d \in Client \ {c} : pc'[d] = pc[d]
  BY <1>1, <1>3, <1>5
<1>7. /\ \A j \in 1..Len(q) : q[j][1] = s /\ q[j][2] \in 1..put[s]
      /\ \A i, j \in 1..Len(q) : i < j => q[i][2] < q[j][2]
  BY <1>1 DEF IInv, DataInv, QueueInv
<1>8. ControlOK'
  <2>1. pc' \in [Client -> {"idle", "only", "by_id", "running", "count", "respond"}]
    BY <1>1, <1>3
  <2>2. \A d \in Client : pc'[d] \in {"running", "count", "respond"} <=> instance'[d] \in Service
    BY <1>1, <1>3, <1>6 DEF IInv, ControlOK
  <2> QED
    BY <1>3, <2>1, <2>2 DEF IInv, ControlOK
<1>9. ShapeOK'
  BY <1>1, <1>3, <1>4, <1>5 DEF IInv, ShapeOK
<1>10. ASSUME NEW r \in Service, NEW j \in 1..Len(queue'[r])
       PROVE  \E i \in 1..Len(queue[r]) : queue'[r][j] = queue[r][i] /\ (r = s => i = n + j)
  <2>1. CASE r = s
    BY <1>4, <1>6, <1>10, <2>1
  <2>2. CASE r # s
    BY <1>6, <1>10, <2>2
  <2> QED
    BY <2>1, <2>2
<1> HIDE DEF q
<1>11. QueueInv'
  <2>1. ASSUME NEW r \in Service, r # s
        PROVE  /\ \A j \in 1..Len(queue'[r]) : queue'[r][j][1] = r /\ queue'[r][j][2] \in 1..put[r]
               /\ \A i, j \in 1..Len(queue'[r]) : i < j => queue'[r][i][2] < queue'[r][j][2]
    BY <1>6, <2>1 DEF IInv, DataInv, QueueInv
  <2>2. /\ \A j \in 1..Len(rest) : rest[j][1] = s /\ rest[j][2] \in 1..put[s]
        /\ \A i, j \in 1..Len(rest) : i < j => rest[i][2] < rest[j][2]
    <3>1. \A j \in 1..Len(rest) : rest[j][1] = s /\ rest[j][2] \in 1..put[s]
      BY <1>4, <1>7
    <3>2. ASSUME NEW i \in 1..Len(rest), NEW j \in 1..Len(rest), i < j
          PROVE  rest[i][2] < rest[j][2]
      <4>1. /\ n + i \in 1..Len(q) /\ n + j \in 1..Len(q)
            /\ rest[i] = q[n + i] /\ rest[j] = q[n + j]
        BY <1>4
      <4>2. n + i < n + j
        BY <1>1, <1>4, <3>2
      <4> QED
        BY <1>7, <4>1, <4>2
    <3> QED
      BY <3>1, <3>2
  <2>3. /\ \A j \in 1..Len(queue'[s]) : queue'[s][j][1] = s /\ queue'[s][j][2] \in 1..put[s]
        /\ \A i, j \in 1..Len(queue'[s]) : i < j => queue'[s][i][2] < queue'[s][j][2]
    BY <1>6, <2>2
  <2> QED
    BY <1>3, <2>1, <2>3 DEF QueueInv
<1>12. BatchInv'
  <2>1. ASSUME NEW d \in Client, batch'[d] # <<>>, d # c
        PROVE  /\ pc'[d] = "respond"
               /\ \A j \in 1..Len(batch'[d]) :
                    /\ batch'[d][j][1] = instance[d] /\ batch'[d][j][2] \in 1..put[instance[d]]
                    /\ \A k \in 1..Len(queue'[instance[d]]) :
                         batch'[d][j][2] < queue'[instance[d]][k][2]
               /\ \A j, k \in 1..Len(batch'[d]) : j < k => batch'[d][j][2] < batch'[d][k][2]
    <3>1. batch'[d] = batch[d] /\ pc'[d] = pc[d]
      BY <1>6, <2>1
    <3>2. /\ pc[d] = "respond"
          /\ \A j \in 1..Len(batch[d]) :
               /\ batch[d][j][1] = instance[d] /\ batch[d][j][2] \in 1..put[instance[d]]
               /\ \A k \in 1..Len(queue[instance[d]]) : batch[d][j][2] < queue[instance[d]][k][2]
          /\ \A j, k \in 1..Len(batch[d]) : j < k => batch[d][j][2] < batch[d][k][2]
      BY <2>1, <3>1 DEF IInv, DataInv, BatchInv
    <3>3. instance[d] \in Service
      BY <3>2 DEF IInv, ControlOK
    <3>4. ASSUME NEW j \in 1..Len(batch[d]), NEW k \in 1..Len(queue'[instance[d]])
          PROVE  batch[d][j][2] < queue'[instance[d]][k][2]
      <4>1. PICK i \in 1..Len(queue[instance[d]]) : queue'[instance[d]][k] = queue[instance[d]][i]
        BY <1>10, <3>3
      <4> QED
        BY <3>2, <4>1
    <3> QED
      BY <3>1, <3>2, <3>4
  <2>2. /\ \A j \in 1..n : front[j][1] = s /\ front[j][2] \in 1..put[s]
        /\ \A j, k \in 1..n : j < k => front[j][2] < front[k][2]
    BY <1>4, <1>7
  <2>3. ASSUME NEW j \in 1..n, NEW k \in 1..Len(rest)
        PROVE  front[j][2] < rest[k][2]
    <3>1. j \in 1..Len(q) /\ n + k \in 1..Len(q) /\ front[j] = q[j] /\ rest[k] = q[n + k] /\ j < n + k
      BY <1>1, <1>4
    <3> QED
      BY <1>7, <3>1
  <2>4. /\ pc'[c] = "respond"
        /\ \A j \in 1..Len(batch'[c]) :
             /\ batch'[c][j][1] = instance[c] /\ batch'[c][j][2] \in 1..put[instance[c]]
             /\ \A k \in 1..Len(queue'[instance[c]]) : batch'[c][j][2] < queue'[instance[c]][k][2]
        /\ \A j, k \in 1..Len(batch'[c]) : j < k => batch'[c][j][2] < batch'[c][k][2]
    BY <1>4, <1>6, <2>2, <2>3
  <2> QED
    BY <1>3, <2>1, <2>4 DEF BatchInv
<1>13. DeliveredInv'
  BY <1>3 DEF IInv, DataInv, DeliveredInv
<1>14. \A j \in 1..n : j \in 1..Len(queue[s]) /\ front[j] = queue[s][j]
  BY <1>4 DEF q
<1>15. Apart'
  <2>1. ASSUME NEW j \in 1..Len(delivered), NEW r \in Service, NEW k \in 1..Len(queue'[r])
        PROVE  delivered[j] # queue'[r][k]
    <3>1. PICK i \in 1..Len(queue[r]) : queue'[r][k] = queue[r][i]
      BY <1>10
    <3> QED
      BY <3>1 DEF IInv, DataInv, Apart
  <2>2. ASSUME NEW j \in 1..Len(delivered), NEW d \in Client, NEW k \in 1..Len(batch'[d])
        PROVE  delivered[j] # batch'[d][k]
    <3>1. CASE d = c
      <4>1. k \in 1..Len(queue[s]) /\ batch'[d][k] = queue[s][k]
        BY <1>4, <1>6, <1>14, <3>1
      <4> QED
        BY <1>1, <4>1 DEF IInv, DataInv, Apart
    <3>2. CASE d # c
      BY <1>6, <3>2 DEF IInv, DataInv, Apart
    <3> QED
      BY <3>1, <3>2
  <2> QED
    BY <1>3, <2>1, <2>2 DEF Apart
<1>16. BatchesApart'
  <2>1. ASSUME NEW d \in Client \ {c}, NEW j \in 1..n, NEW k \in 1..Len(batch[d])
        PROVE  front[j] # batch[d][k]
    BY <1>1, <1>14, OffQueue
  <2> QED
    BY <1>4, <1>6, <2>1 DEF IInv, DataInv, BatchesApart
<1>17. KeptInv'
  <2> SUFFICES ASSUME NEW m \in Node, m \in running, NEW i \in 1..put[m]
               PROVE  Queued(m, i)' \/ Taken(m, i)' \/ Answered(m, i)' \/ <<m, i>> \in evicted'
    BY <1>3 DEF KeptInv
  <2>1. Queued(m, i) \/ Taken(m, i) \/ Answered(m, i) \/ <<m, i>> \in evicted
    BY DEF IInv, DataInv, KeptInv
  <2>2. CASE Queued(m, i)
    <3>1. PICK j \in 1..Len(queue[m]) : queue[m][j] = <<m, i>>
      BY <2>2 DEF Queued
    <3>2. CASE m # s
      <4>1. queue'[m] = queue[m]
        BY <1>6, <3>2, Services
      <4> QED
        BY <3>1, <4>1 DEF Queued
    <3>3. CASE m = s /\ j <= n
      <4>1. j \in 1..n
        BY <1>1, <3>3
      <4>2. front[j] = <<m, i>>
        BY <1>14, <3>1, <3>3, <4>1
      <4>3. j \in 1..Len(batch'[c]) /\ batch'[c][j] = <<m, i>>
        BY <1>4, <1>6, <4>1, <4>2
      <4> QED
        BY <4>3 DEF Taken
    <3>4. CASE m = s /\ ~(j <= n)
      <4>1. j - n \in 1..(Len(q) - n) /\ n + (j - n) = j
        BY <1>1, <3>1, <3>4 DEF q
      <4>2. rest[j - n] = q[j]
        BY <1>4, <4>1
      <4>3. j - n \in 1..Len(queue'[m]) /\ queue'[m][j - n] = <<m, i>>
        BY <1>4, <1>6, <3>1, <3>4, <4>1, <4>2 DEF q
      <4> QED
        BY <4>3 DEF Queued
    <3> QED
      BY <3>2, <3>3, <3>4
  <2>3. CASE Taken(m, i)
    <3>1. PICK d \in Client : \E j \in 1..Len(batch[d]) : batch[d][j] = <<m, i>>
      BY <2>3 DEF Taken
    <3>2. batch[d] # <<>>
      BY <3>1, EmptySeq
    <3>3. d # c
      BY <1>1, <3>2, EmptyHands
    <3>4. batch'[d] = batch[d]
      BY <1>6, <3>3
    <3> QED
      BY <3>1, <3>4 DEF Taken
  <2>4. CASE Answered(m, i)
    BY <1>3, <2>4 DEF Answered
  <2>5. CASE <<m, i>> \in evicted
    BY <1>3, <2>5
  <2> QED
    BY <2>1, <2>2, <2>3, <2>4, <2>5
<1>18. EvictedInv'
  <2>1. ASSUME NEW e \in evicted
        PROVE  /\ \A r \in Service : \A k \in 1..Len(queue'[r]) : queue'[r][k] # e
               /\ \A d \in Client : \A k \in 1..Len(batch'[d]) : batch'[d][k] # e
    <3>1. /\ \A r \in Service : \A k \in 1..Len(queue[r]) : queue[r][k] # e
          /\ \A d \in Client : \A k \in 1..Len(batch[d]) : batch[d][k] # e
      BY DEF IInv, DataInv, EvictedInv
    <3>2. \A r \in Service : \A k \in 1..Len(queue'[r]) : queue'[r][k] # e
      BY <1>10, <3>1
    <3>3. ASSUME NEW d \in Client, NEW k \in 1..Len(batch'[d])
          PROVE  batch'[d][k] # e
      <4>1. CASE d = c
        <5>1. k \in 1..Len(queue[s]) /\ batch'[d][k] = queue[s][k]
          BY <1>4, <1>6, <1>14, <4>1
        <5> QED
          BY <1>1, <3>1, <5>1
      <4>2. CASE d # c
        BY <1>6, <3>1, <4>2
      <4> QED
        BY <4>1, <4>2
    <3> QED
      BY <3>2, <3>3
  <2> QED
    BY <1>3, <2>1 DEF IInv, DataInv, EvictedInv
<1>19. RoomInv'
  <2>1. ASSUME NEW r \in Service
        PROVE  /\ Len(queue'[r]) <= MaxSize
               /\ \A j \in 1..Len(queue'[r]) : queue'[r][j][2] + (Len(queue'[r]) - j) <= put[r]
    <3>0. /\ Len(queue[r]) <= MaxSize
          /\ \A j \in 1..Len(queue[r]) : queue[r][j][2] + (Len(queue[r]) - j) <= put[r]
      BY DEF IInv, DataInv, RoomInv
    <3>1. CASE r = s
      <4>1. Len(queue'[s]) = Len(q) - n /\ Len(queue[s]) = Len(q)
        BY <1>4, <1>6 DEF q
      <4>2. Len(queue'[s]) <= MaxSize
        BY <1>1, <3>0, <3>1, <4>1, EndpointAssumption
      <4>3. ASSUME NEW j \in 1..Len(queue'[s])
            PROVE  queue'[s][j][2] + (Len(queue'[s]) - j) <= put[s]
        <5>1. n + j \in 1..Len(queue[s]) /\ queue'[s][j] = queue[s][n + j]
          BY <1>4, <1>6, <4>1 DEF q
        <5>2. queue[s][n + j][2] + (Len(queue[s]) - (n + j)) <= put[s]
          BY <3>0, <3>1, <5>1
        <5>3. Len(queue[s]) - (n + j) = Len(queue'[s]) - j
          BY <1>1, <4>1
        <5> QED
          BY <5>1, <5>2, <5>3
      <4> QED
        BY <3>1, <4>2, <4>3
    <3>2. CASE r # s
      BY <1>6, <3>0, <3>2
    <3> QED
      BY <3>1, <3>2
  <2> QED
    BY <1>3, <2>1 DEF RoomInv
<1> QED
  BY <1>8, <1>9, <1>11, <1>12, <1>13, <1>15, <1>16, <1>17, <1>18, <1>19 DEF IInv, DataInv

\* An answer: what the request had in hand is delivered, or, through Tox, gone.
LEMMA RespondInv ==
  ASSUME IInv, NEW c \in Client, Respond(c)
  PROVE  IInv'
<1> DEFINE b == batch[c]
<1>1. PICK how \in {200, 204, 404, 406, 500, 503} :
        /\ Answer(c, how) /\ UNCHANGED <<services, asked, id>>
        /\ \/ (instance[c] # Tox \/ b = <<>>) /\ delivered' = delivered \o b
           \/ instance[c] = Tox /\ delivered' = delivered
  BY DEF Respond
<1>2. /\ table' = table /\ running' = running /\ queue' = queue /\ put' = put
      /\ evicted' = evicted
      /\ pc' = [pc EXCEPT ![c] = "idle"] /\ instance' = [instance EXCEPT ![c] = None]
      /\ batch' = [batch EXCEPT ![c] = <<>>]
  BY <1>1 DEF services, Answer
<1>3. /\ batch \in [Client -> Seq(Item)] /\ b \in Seq(Item) /\ delivered \in Seq(Item)
      /\ instance \in [Client -> Service \cup {None}] /\ Len(<<>>) = 0
      /\ pc \in [Client -> {"idle", "only", "by_id", "running", "count", "respond"}]
      /\ \A i \in Nat : i \notin 1..0
  BY EmptySeq DEF IInv, ShapeOK, ControlOK
<1>4. /\ batch'[c] = <<>>
      /\ \A d \in Client \ {c} : batch'[d] = batch[d] /\ instance'[d] = instance[d] /\ pc'[d] = pc[d]
      /\ \A d \in Client : \A j \in 1..Len(batch'[d]) : d # c /\ j \in 1..Len(batch[d])
  BY <1>2, <1>3
<1> DEFINE D == Len(delivered)
           joined == delivered \o b
<1>5. /\ joined \in Seq(Item) /\ Len(joined) = D + Len(b)
      /\ \A j \in 1..D : j \in 1..(D + Len(b)) /\ joined[j] = delivered[j]
      /\ \A j \in 1..Len(b) : D + j \in 1..(D + Len(b)) /\ joined[D + j] = b[j]
      /\ \A j \in 1..(D + Len(b)) : j \in 1..D \/ (j - D \in 1..Len(b) /\ j = D + (j - D))
  BY <1>3, Joined
<1>6. ASSUME NEW j \in 1..Len(b)
      PROVE  /\ b[j] \in Item /\ b[j][1] = instance[c] /\ b[j][2] \in 1..put[b[j][1]]
             /\ \A k \in 1..Len(b) : b[j] = b[k] => j = k
  <2>1. b # <<>>
    BY <1>3
  <2>2. /\ \A i \in 1..Len(b) : b[i][1] = instance[c] /\ b[i][2] \in 1..put[instance[c]]
        /\ \A i, k \in 1..Len(b) : i < k => b[i][2] < b[k][2]
    BY <2>1 DEF IInv, DataInv, BatchInv
  <2>3. b[j] \in Item
    BY <1>3, ElementOfSeq
  <2>4. ASSUME NEW k \in 1..Len(b), b[j] = b[k]
        PROVE  j = k
    <3>1. ~(b[j][2] < b[k][2]) /\ ~(b[k][2] < b[j][2])
      BY <2>2, <2>4
    <3>2. ~(j < k) /\ ~(k < j)
      BY <2>2, <3>1
    <3> QED
      BY <3>2
  <2> QED
    BY <2>2, <2>3, <2>4
<1>7. ControlOK'
  BY <1>1, <1>2, AnswerControl DEF IInv, ControlOK
<1>8. ShapeOK'
  <2>1. delivered' \in Seq(Item)
    <3>1. delivered' = joined \/ delivered' = delivered
      BY <1>1
    <3> HIDE DEF joined
    <3> QED
      BY <1>3, <1>5, <3>1
  <2> QED
    BY <1>1, <1>2, <2>1, AnswerControl DEF IInv, ShapeOK
<1> HIDE DEF b, D, joined
<1>9. QueueInv'
  BY <1>2 DEF IInv, DataInv, QueueInv
<1>10. BatchInv'
  <2>1. \A d \in Client : batch'[d] # <<>> =>
          batch'[d] = batch[d] /\ instance'[d] = instance[d] /\ pc'[d] = pc[d]
    BY <1>4
  <2> QED
    BY <1>2, <2>1 DEF IInv, DataInv, BatchInv
<1>11. BatchesApart'
  <2> SUFFICES ASSUME NEW d \in Client, NEW e \in Client, d # e,
                      NEW j \in 1..Len(batch'[d]), NEW k \in 1..Len(batch'[e])
               PROVE  batch'[d][j] # batch'[e][k]
    BY DEF BatchesApart
  <2>1. /\ batch'[d] = batch[d] /\ j \in 1..Len(batch[d])
        /\ batch'[e] = batch[e] /\ k \in 1..Len(batch[e])
    BY <1>4
  <2> QED
    BY <2>1 DEF IInv, DataInv, BatchesApart
<1>a. RoomInv'
  BY <1>2 DEF IInv, DataInv, RoomInv
<1>12. CASE delivered' = delivered /\ instance[c] = Tox
  <2>1. DeliveredInv'
    BY <1>2, <1>12 DEF IInv, DataInv, DeliveredInv
  <2>2. Apart'
    BY <1>2, <1>4, <1>12 DEF IInv, DataInv, Apart
  <2>3. KeptInv'
    <3> SUFFICES ASSUME NEW m \in Node, m \in running, NEW i \in 1..put[m]
                 PROVE  Queued(m, i)' \/ Taken(m, i)' \/ Answered(m, i)' \/ <<m, i>> \in evicted'
      BY <1>2 DEF KeptInv
    <3>1. Queued(m, i) \/ Taken(m, i) \/ Answered(m, i) \/ <<m, i>> \in evicted
      BY DEF IInv, DataInv, KeptInv
    <3>2. ASSUME Taken(m, i)
          PROVE  Taken(m, i)'
      <4>1. PICK d \in Client : \E j \in 1..Len(batch[d]) : batch[d][j] = <<m, i>>
        BY <3>2 DEF Taken
      <4>2. d # c
        BY <1>6, <1>12, <4>1, EndpointAssumption DEF b
      <4> QED
        BY <1>4, <4>1, <4>2 DEF Taken
    <3> QED
      BY <1>2, <1>12, <3>1, <3>2 DEF Queued, Answered
  <2>4. EvictedInv'
    BY <1>2, <1>4, <1>12 DEF IInv, DataInv, EvictedInv
  <2> QED
    BY <1>7, <1>8, <1>9, <1>10, <1>11, <1>a, <2>1, <2>2, <2>3, <2>4 DEF IInv, DataInv
<1>13. CASE delivered' = joined
  <2>0. /\ \A j \in 1..D : delivered[j][2] \in 1..put[delivered[j][1]]
        /\ \A j, k \in 1..D : delivered[j] = delivered[k] => j = k
        /\ \A j \in 1..D : \A k \in 1..Len(b) : delivered[j] # b[k]
    BY DEF IInv, DataInv, DeliveredInv, Apart, D, b
  <2>1. DeliveredInv'
    <3>1. ASSUME NEW j \in 1..(D + Len(b))
          PROVE  joined[j][2] \in 1..put[joined[j][1]]
      <4>1. CASE j \in 1..D
        BY <1>5, <2>0, <4>1
      <4>2. CASE j - D \in 1..Len(b) /\ j = D + (j - D)
        <5>1. joined[j] = b[j - D]
          BY <1>5, <4>2
        <5> QED
          BY <1>6, <4>2, <5>1
      <4> QED
        BY <1>5, <4>1, <4>2
    <3>2. ASSUME NEW j \in 1..(D + Len(b)), NEW k \in 1..(D + Len(b)), joined[j] = joined[k]
          PROVE  j = k
      <4>1. CASE j \in 1..D /\ k \in 1..D
        BY <1>5, <2>0, <3>2, <4>1
      <4>2. CASE j \in 1..D /\ k - D \in 1..Len(b) /\ k = D + (k - D)
        <5>1. joined[j] = delivered[j] /\ joined[k] = b[k - D]
          BY <1>5, <4>2
        <5>2. delivered[j] # b[k - D]
          BY <2>0, <4>2
        <5> QED
          BY <3>2, <5>1, <5>2
      <4>3. CASE k \in 1..D /\ j - D \in 1..Len(b) /\ j = D + (j - D)
        <5>1. joined[k] = delivered[k] /\ joined[j] = b[j - D]
          BY <1>5, <4>3
        <5> QED
          BY <2>0, <3>2, <4>3, <5>1
      <4>4. CASE /\ k - D \in 1..Len(b) /\ k = D + (k - D)
                 /\ j - D \in 1..Len(b) /\ j = D + (j - D)
        <5>1. joined[k] = b[k - D] /\ joined[j] = b[j - D]
          BY <1>5, <4>4
        <5>2. j - D = k - D
          BY <1>6, <3>2, <4>4, <5>1
        <5> QED
          BY <4>4, <5>2
      <4> QED
        BY <1>5, <4>1, <4>2, <4>3, <4>4
    <3> QED
      BY <1>2, <1>5, <1>13, <3>1, <3>2 DEF DeliveredInv
  <2>2. Apart'
    <3> SUFFICES ASSUME NEW j \in 1..(D + Len(b))
                 PROVE  /\ \A s \in Service : \A k \in 1..Len(queue[s]) : joined[j] # queue[s][k]
                        /\ \A d \in Client : \A k \in 1..Len(batch'[d]) : joined[j] # batch'[d][k]
      BY <1>2, <1>5, <1>13 DEF Apart
    <3>1. CASE j \in 1..D
      <4>1. joined[j] = delivered[j] /\ j \in 1..Len(delivered)
        BY <1>5, <3>1 DEF D
      <4> QED
        <5>1. \A s \in Service : \A k \in 1..Len(queue[s]) : joined[j] # queue[s][k]
          BY <4>1 DEF IInv, DataInv, Apart
        <5>2. \A d \in Client : \A k \in 1..Len(batch[d]) : joined[j] # batch[d][k]
          BY <4>1 DEF IInv, DataInv, Apart
        <5> QED
          BY <1>4, <5>1, <5>2
    <3>2. CASE j - D \in 1..Len(b) /\ j = D + (j - D)
      <4>1. joined[j] = batch[c][j - D] /\ j - D \in 1..Len(batch[c])
        BY <1>5, <3>2 DEF b
      <4>2. \A s \in Service : \A k \in 1..Len(queue[s]) : joined[j] # queue[s][k]
        BY <4>1, OffQueue
      <4>3. \A d \in Client : \A k \in 1..Len(batch'[d]) : joined[j] # batch'[d][k]
        BY <1>4, <4>1 DEF IInv, DataInv, BatchesApart
      <4> QED
        BY <4>2, <4>3
    <3> QED
      BY <1>5, <3>1, <3>2
  <2>3. KeptInv'
    <3> SUFFICES ASSUME NEW m \in Node, m \in running, NEW i \in 1..put[m]
                 PROVE  Queued(m, i)' \/ Taken(m, i)' \/ Answered(m, i)' \/ <<m, i>> \in evicted'
      BY <1>2 DEF KeptInv
    <3>1. Queued(m, i) \/ Taken(m, i) \/ Answered(m, i) \/ <<m, i>> \in evicted
      BY DEF IInv, DataInv, KeptInv
    <3>2. ASSUME Taken(m, i)
          PROVE  Taken(m, i)' \/ Answered(m, i)'
      <4>1. PICK d \in Client : \E j \in 1..Len(batch[d]) : batch[d][j] = <<m, i>>
        BY <3>2 DEF Taken
      <4>2. CASE d # c
        BY <1>4, <4>1, <4>2 DEF Taken
      <4>3. CASE d = c
        <5>1. PICK j \in 1..Len(b) : b[j] = <<m, i>>
          BY <4>1, <4>3 DEF b
        <5>2. D + j \in 1..Len(delivered') /\ delivered'[D + j] = <<m, i>>
          BY <1>5, <1>13, <5>1
        <5> QED
          BY <5>2 DEF Answered
      <4> QED
        BY <4>2, <4>3
    <3>3. ASSUME Answered(m, i)
          PROVE  Answered(m, i)'
      <4>1. PICK j \in 1..D : delivered[j] = <<m, i>>
        BY <3>3 DEF Answered, D
      <4>2. j \in 1..Len(delivered') /\ delivered'[j] = <<m, i>>
        BY <1>5, <1>13, <4>1
      <4> QED
        BY <4>2 DEF Answered
    <3> QED
      BY <1>2, <3>1, <3>2, <3>3 DEF Queued
  <2>4. EvictedInv'
    <3>1. ASSUME NEW e \in evicted
          PROVE  /\ \A d \in Client : \A k \in 1..Len(batch'[d]) : batch'[d][k] # e
                 /\ \A j \in 1..(D + Len(b)) : joined[j] # e
      <4>1. /\ \A d \in Client : \A k \in 1..Len(batch[d]) : batch[d][k] # e
            /\ \A j \in 1..D : delivered[j] # e
        BY DEF IInv, DataInv, EvictedInv, D
      <4>2. \A d \in Client : \A k \in 1..Len(batch'[d]) : batch'[d][k] # e
        BY <1>4, <4>1
      <4>3. \A k \in 1..Len(b) : b[k] # e
        BY <4>1 DEF b
      <4>4. ASSUME NEW j \in 1..(D + Len(b))
            PROVE  joined[j] # e
        <5>1. CASE j \in 1..D
          BY <1>5, <4>1, <5>1
        <5>2. CASE j - D \in 1..Len(b) /\ j = D + (j - D)
          <6>1. joined[j] = b[j - D]
            BY <1>5, <5>2
          <6> QED
            BY <4>3, <5>2, <6>1
        <5> QED
          BY <1>5, <5>1, <5>2
      <4> QED
        BY <4>2, <4>4
    <3> QED
      BY <1>2, <1>5, <1>13, <3>1 DEF IInv, DataInv, EvictedInv
  <2> QED
    BY <1>7, <1>8, <1>9, <1>10, <1>11, <1>a, <2>1, <2>2, <2>3, <2>4 DEF IInv, DataInv
<1> QED
  BY <1>1, <1>12, <1>13 DEF joined

-----------------------------------------------------------------------------
(* The inductive invariant.                                                   *)

\* Every step keeps it.
LEMMA NextInv == IInv /\ [Next]_vars => IInv'
<1> SUFFICES ASSUME IInv, [Next]_vars PROVE IInv'
  OBVIOUS
<1>1. ASSUME NEW c \in Client, Handle(c)
      PROVE  IInv'
  BY <1>1, LookInv, GetBatchInv, RespondInv DEF Handle
<1>2. ASSUME NEW s \in Service, Put(s) \/ Finalize(s)
      PROVE  IInv'
  BY <1>2, PutInv, FinalizeInv
<1>3. ASSUME NEW n \in Node, PopNode(n)
      PROVE  IInv'
  BY <1>3, PopNodeInv
<1>4. CASE UNCHANGED vars
  <2>1. /\ UNCHANGED <<table, running, queue, put, evicted, asked, pc, id, instance, batch, code, delivered>>
    BY <1>4 DEF vars, services
  <2>2. DataInv'
    BY <2>1, Quiet
  <2>3. ControlOK' /\ ShapeOK'
    BY <2>1 DEF IInv, ControlOK, ShapeOK
  <2> QED
    BY <2>2, <2>3 DEF IInv
<1> QED
  BY <1>1, <1>2, <1>3, <1>4 DEF Next

\* The inductive invariant holds in every state.
LEMMA Invariance == Spec => []IInv
BY InitInv, NextInv, PTL DEF Spec

-----------------------------------------------------------------------------
(* The theorems.                                                              *)

\* Every variable has its type: a request that is past the lookup has a service, and what
\* is on a queue was put there by its service.
THEOREM TypeCorrect == Spec => []TypeOK
<1>1. IInv => TypeOK
  <2> SUFFICES ASSUME IInv PROVE TypeOK
    OBVIOUS
  <2>1. ASSUME NEW s \in Service, NEW i \in ToSet(queue[s])
        PROVE  i[1] = s /\ i[2] \in 1..put[s]
    <3>1. queue[s] \in Seq(Item)
      BY DEF IInv, ShapeOK
    <3>2. PICK j \in 1..Len(queue[s]) : i = queue[s][j]
      BY <3>1, LenProperties DEF ToSet
    <3> QED
      BY <3>2 DEF IInv, DataInv, QueueInv
  <2> QED
    BY <2>1 DEF IInv, ControlOK, TypeOK
<1> QED
  BY <1>1, Invariance, PTL

\* Whoever else asks, puts or stops services meanwhile, what a request has taken is older
\* than all that is left (lines 344-349).
THEOREM OldestTaken == Spec => []OldestFirst
<1>1. IInv => OldestFirst
  <2> SUFFICES ASSUME IInv, NEW c \in Client, batch[c] # <<>>, NEW i \in ToSet(queue[instance[c]])
               PROVE  Last(batch[c])[2] < i[2]
    BY DEF OldestFirst
  <2>1. /\ pc[c] = "respond"
        /\ \A j \in 1..Len(batch[c]) : \A k \in 1..Len(queue[instance[c]]) :
             batch[c][j][2] < queue[instance[c]][k][2]
    BY DEF IInv, DataInv, BatchInv
  <2>2. instance[c] \in Service
    BY <2>1 DEF IInv, ControlOK
  <2>3. queue[instance[c]] \in Seq(Item) /\ batch[c] \in Seq(Item)
    BY <2>2 DEF IInv, ShapeOK
  <2>4. PICK k \in 1..Len(queue[instance[c]]) : i = queue[instance[c]][k]
    BY <2>3, LenProperties DEF ToSet
  <2>5. Len(batch[c]) \in 1..Len(batch[c])
    BY <2>3, LenProperties, EmptySeq
  <2> QED
    BY <2>1, <2>4, <2>5 DEF Last
<1> QED
  BY <1>1, Invariance, PTL

\* A set whose elements are one has one element or none.
LEMMA AtMostOne ==
  ASSUME NEW T, \A x, y \in T : x = y
  PROVE  Cardinality(T) = IF T = {} THEN 0 ELSE 1
<1>1. CASE T = {}
  BY <1>1, FS_EmptySet
<1>2. CASE T # {}
  <2>1. PICK x \in T : TRUE
    BY <1>2
  <2>2. T = {x}
    BY <2>1
  <2> QED
    BY <1>2, <2>2, FS_Singleton
<1> QED
  BY <1>1, <1>2

\* Any number of requests and stops together lose no message of a running node but by puts
\* into a full queue, and give none to two requests (lines 344-349).
THEOREM EachNodeItemOnce == Spec => []NodesOnce
<1>1. IInv => NodesOnce
  <2> SUFFICES ASSUME IInv, NEW n \in Node, NEW k \in 1..put[n]
               PROVE  IF <<n, k>> \in evicted
                        THEN Copies(<<n, k>>) = 0 /\ k + MaxSize <= put[n]
                        ELSE Copies(<<n, k>>) = 1 \/ (n \notin running /\ Copies(<<n, k>>) = 0)
    BY DEF NodesOnce, OnceFrom
  <2> DEFINE i == <<n, k>>
             Q == {j \in DOMAIN queue[n] : queue[n][j] = i}
             A == {j \in DOMAIN delivered : delivered[j] = i}
             T == {c \in Client : i \in ToSet(batch[c])}
  <2>1. Copies(i) = Cardinality(Q) + Cardinality(A) + Cardinality(T)
    BY DEF Copies
  <2>2. /\ n \in Service /\ queue[n] \in Seq(Item) /\ DOMAIN queue[n] = 1..Len(queue[n])
        /\ delivered \in Seq(Item) /\ DOMAIN delivered = 1..Len(delivered)
        /\ Len(queue[n]) \in Nat /\ Len(delivered) \in Nat
    BY Services, LenProperties DEF IInv, ShapeOK
  <2>3. ASSUME NEW c \in Client
        PROVE  i \in ToSet(batch[c]) <=> \E j \in 1..Len(batch[c]) : batch[c][j] = i
    <3>1. batch[c] \in Seq(Item)
      BY DEF IInv, ShapeOK
    <3> QED
      BY <3>1, LenProperties DEF ToSet
  <2>4. ASSUME NEW x \in Q, NEW y \in Q
        PROVE  x = y
    <3>1. /\ x \in 1..Len(queue[n]) /\ y \in 1..Len(queue[n])
          /\ queue[n][x] = queue[n][y] /\ queue[n][x][2] \in 1..put[n]
      BY <2>2 DEF IInv, DataInv, QueueInv
    <3>2. ~(queue[n][x][2] < queue[n][y][2]) /\ ~(queue[n][y][2] < queue[n][x][2])
      BY <3>1
    <3>3. ~(x < y) /\ ~(y < x)
      BY <2>2, <3>1, <3>2 DEF IInv, DataInv, QueueInv
    <3> QED
      BY <2>2, <3>1, <3>3
  <2>5. ASSUME NEW x \in A, NEW y \in A
        PROVE  x = y
    BY <2>2 DEF IInv, DataInv, DeliveredInv
  <2>6. ASSUME NEW x \in T, NEW y \in T
        PROVE  x = y
    <3>1. PICK j \in 1..Len(batch[x]) : batch[x][j] = i
      BY <2>3
    <3>2. PICK l \in 1..Len(batch[y]) : batch[y][l] = i
      BY <2>3
    <3> QED
      BY <3>1, <3>2 DEF IInv, DataInv, BatchesApart
  <2>7. Q = {} \/ A = {}
    BY <2>2 DEF IInv, DataInv, Apart
  <2>8. Q = {} \/ T = {}
    <3>1. ASSUME NEW x \in Q, NEW c \in T
          PROVE  FALSE
      <4>1. x \in 1..Len(queue[n]) /\ queue[n][x] = i
        BY <2>2
      <4>2. PICK j \in 1..Len(batch[c]) : batch[c][j] = i
        BY <2>3
      <4> QED
        BY <2>2, <4>1, <4>2, OffQueue
    <3> QED
      BY <3>1
  <2>9. A = {} \/ T = {}
    <3>1. ASSUME NEW x \in A, NEW c \in T
          PROVE  FALSE
      <4>1. x \in 1..Len(delivered) /\ delivered[x] = i
        BY <2>2
      <4>2. PICK j \in 1..Len(batch[c]) : batch[c][j] = i
        BY <2>3
      <4> QED
        BY <4>1, <4>2 DEF IInv, DataInv, Apart
    <3> QED
      BY <3>1
  <2>10. n \in running => Q # {} \/ A # {} \/ T # {} \/ i \in evicted
    BY <2>2, <2>3 DEF IInv, DataInv, KeptInv, Queued, Taken, Answered
  <2>12. ASSUME i \in evicted
         PROVE  Q = {} /\ A = {} /\ T = {} /\ k + MaxSize <= put[n]
    <3>1. /\ i[2] + MaxSize <= put[i[1]]
          /\ \A j \in 1..Len(queue[n]) : queue[n][j] # i
          /\ \A c \in Client : \A j \in 1..Len(batch[c]) : batch[c][j] # i
          /\ \A j \in 1..Len(delivered) : delivered[j] # i
      BY <2>2, <2>12 DEF IInv, DataInv, EvictedInv
    <3> QED
      BY <2>2, <2>3, <3>1
  <2> HIDE DEF Q, A, T
  <2>11. /\ Cardinality(Q) = (IF Q = {} THEN 0 ELSE 1)
         /\ Cardinality(A) = (IF A = {} THEN 0 ELSE 1)
         /\ Cardinality(T) = (IF T = {} THEN 0 ELSE 1)
    BY <2>4, <2>5, <2>6, AtMostOne
  <2> QED
    BY <2>1, <2>7, <2>8, <2>9, <2>10, <2>11, <2>12
<1> QED
  BY <1>1, Invariance, PTL
=============================================================================
