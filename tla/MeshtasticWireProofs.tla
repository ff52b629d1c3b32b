------------------------ MODULE MeshtasticWireProofs ------------------------
(* Theorems about MeshtasticWire, for any clients, listeners, stoppers, ids,  *)
(* capacities and bounds, and for either kind of mutex.                       *)
EXTENDS MeshtasticWire, SequenceTheorems, FiniteSetTheorems, TLAPS

(* The inductive invariant, in parts: what the variables hold, where the      *)
(* threads are, who has the two mutexes, what the commands of the last batch  *)
(* have become, and what is known of each message on its way.                 *)

Item == {"command_status", "outgoing_message_status", "incoming_message"}
Packet == [kind : {"routing"}, uid : AnyUid, error : BOOLEAN]
            \cup [kind : {"text"}, uid : AnyUid, lora : BOOLEAN]
Row == [of : AnyUid, message_uid : AnyUid \cup {NoUid}, delivered : {"None", "Success", "Error"}]

ThreadOK ==
  /\ state \in States /\ stop \in BOOLEAN
  /\ input \in Seq(Commands) /\ Len(input) <= MaxIn
  /\ output \in Seq(Item) /\ Len(output) <= MaxOut

DataOK ==
  /\ interface \in BOOLEAN
  /\ pending \subseteq Uid \cup Idless /\ rows \subseteq Row
  /\ uid \in [Thread -> AnyUid \cup {NoUid}]
  /\ packet \in [Listener -> Packet \cup {NoPacket}]
  /\ calls \in 0..MaxCalls /\ packets \in 0..MaxPackets
  /\ sent \subseteq Uid /\ forgotten \subseteq Uid \cup Idless
  /\ reported \in [Uid -> Seq({"Success", "Error"})]

Sending == {"send_lock"} \cup Holding
Finalizing == {"finalize", "close_port"} \cup FinalizeLabels
Hearing == {"hear", "report", "remove", "mark", "store", "tell"}

PcOK ==
  /\ pc \in [Thread -> Labels]
  /\ pc[Worker] \notin {"idle", "gone"} \cup Hearing
  /\ \A c \in Client : pc[c] \in {"idle"} \cup Sending
  /\ \A l \in Listener : pc[l] \in {"idle"} \cup Hearing
  /\ \A s \in Stopper : pc[s] \in {"idle", "gone"} \cup Finalizing

\* How often a thread has the mutex of the service at each of its labels.
Holds(label) ==
  IF label \in {"signal", "drop_input", "drop_output", "final"} THEN 2
  ELSE IF label \in {"super", "finalized", "close_port"} \cup (Hearing \ {"hear"}) THEN 1
  ELSE 0

LockInv ==
  /\ mutex \in Thread \cup {NoThread}
  /\ \A t \in Thread : mutex = t <=> Holds(pc[t]) # 0
  /\ depth = IF mutex = NoThread THEN 0 ELSE Holds(pc[mutex])

UsbInv ==
  /\ usb \in Thread \cup {NoThread}
  /\ \A t \in Thread : usb = t <=> pc[t] \in Holding

\* The command in hand is the head of the batch, which is empty between two batches.
BatchInv ==
  /\ batch \in Seq(Commands) /\ Len(batch) <= BatchSize
  /\ pc[Worker] \in Sending \cup {"reply"} => batch # <<>> /\ Head(batch) = "send_message"
  /\ pc[Worker] \in Finalizing => batch # <<>> /\ Head(batch) = "stop"
  /\ pc[Worker] \notin Sending \cup {"reply", "handle"} \cup Finalizing => batch = <<>>

LedgerInv ==
  /\ asked \in Nat /\ answered \in Nat /\ discarded \in Nat
  /\ CommandsAccounted

\* What a thread has in hand: the id it has sent, the packet it hears.
InHand ==
  /\ \A t \in Thread : pc[t] \in {"send_add", "send_row"} => uid[t] \in Uid \cup Idless
  /\ \A l \in Listener : pc[l] # "idle" => packet[l] \in Packet

\* A message is new to the books until its id is added; a listener that reports has
\* the only say about its id until it has removed it.
SentInv ==
  /\ Accounted
  /\ \A u \in Uid : Len(reported[u]) <= 1 /\ (u \in pending => u \in sent)
  /\ \A t \in Thread : pc[t] = "send_add" /\ uid[t] \in Uid =>
       uid[t] \in sent \ pending /\ reported[uid[t]] = <<>>
  /\ \A l \in Listener : pc[l] = "report" =>
       packet[l].uid \in pending /\ (packet[l].uid \in Uid => reported[packet[l].uid] = <<>>)
  /\ \A l \in Listener : pc[l] = "remove" /\ packet[l].uid \in Uid =>
       reported[packet[l].uid] # <<>>

IInv ==
  /\ ThreadOK /\ DataOK /\ PcOK /\ LockInv /\ UsbInv
  /\ BatchInv /\ LedgerInv /\ InHand /\ SentInv

-----------------------------------------------------------------------------
(* Counting the send commands of a queue.                                     *)

\* There are as many as there are positions.
LEMMA SendsType ==
  ASSUME NEW q \in Seq(Commands)
  PROVE  /\ IsFiniteSet({i \in DOMAIN q : q[i] = "send_message"})
         /\ Sends(q) \in Nat
<1>1. Len(q) \in Nat /\ DOMAIN q = 1..Len(q)
  BY LenProperties
<1>2. IsFiniteSet(1..Len(q))
  BY <1>1, FS_Interval
<1>3. {i \in DOMAIN q : q[i] = "send_message"} \in SUBSET (1..Len(q))
  BY <1>1
<1>4. IsFiniteSet({i \in DOMAIN q : q[i] = "send_message"})
  BY <1>2, <1>3, FS_Subset
<1> QED
  BY <1>4, FS_CardinalityType DEF Sends

\* Those of two queues, one after the other.
LEMMA SendsJoined ==
  ASSUME NEW q \in Seq(Commands), NEW r \in Seq(Commands)
  PROVE  Sends(q \o r) = Sends(q) + Sends(r)
<1> DEFINE m == Len(q)
           n == Len(r)
           j == q \o r
           A == {i \in 1..m : q[i] = "send_message"}
           B == {i \in 1..n : r[i] = "send_message"}
           C == {i \in (m + 1)..(m + n) : j[i] = "send_message"}
<1>1. m \in Nat /\ DOMAIN q = 1..m /\ n \in Nat /\ DOMAIN r = 1..n
  BY LenProperties
<1>2. /\ j \in Seq(Commands) /\ Len(j) = m + n
      /\ \A i \in 1..(m + n) : j[i] = IF i <= m THEN q[i] ELSE r[i - m]
  BY ConcatProperties
<1>3. DOMAIN j = 1..(m + n)
  BY <1>2, LenProperties
<1>4. Sends(q) = Cardinality(A) /\ IsFiniteSet(A) /\ Sends(r) = Cardinality(B) /\ IsFiniteSet(B)
  BY <1>1, SendsType DEF Sends
<1>5. Sends(j) = Cardinality({i \in 1..(m + n) : j[i] = "send_message"})
  BY <1>3 DEF Sends
<1> HIDE DEF m, n, j
<1>6. {i \in 1..(m + n) : j[i] = "send_message"} = A \cup C
  <2>1. \A i \in 1..m : i \in 1..(m + n) /\ j[i] = q[i]
    BY <1>1, <1>2
  <2>2. \A i \in 1..(m + n) : i \in 1..m \/ i \in (m + 1)..(m + n)
    BY <1>1
  <2>3. \A i \in (m + 1)..(m + n) : i \in 1..(m + n)
    BY <1>1
  <2> QED
    BY <2>1, <2>2, <2>3
<1>7. A \cap C = {}
  BY <1>1
<1>8. IsFiniteSet(C) /\ Cardinality(C) = Cardinality(B)
  <2> DEFINE f == [i \in B |-> m + i]
  <2>1. ASSUME NEW i \in B
        PROVE  f[i] \in C
    <3>1. m + i \in (m + 1)..(m + n) /\ m + i \in 1..(m + n) /\ ~(m + i <= m) /\ (m + i) - m = i
      BY <1>1
    <3> QED
      BY <1>2, <3>1
  <2>2. \A i, k \in B : f[i] = f[k] => i = k
    BY <1>1
  <2>3. ASSUME NEW c \in C
        PROVE  \E i \in B : f[i] = c
    <3>1. c - m \in 1..n /\ m + (c - m) = c /\ c \in 1..(m + n) /\ ~(c <= m)
      BY <1>1
    <3>2. r[c - m] = "send_message"
      BY <1>2, <3>1
    <3> QED
      BY <3>1, <3>2
  <2>4. f \in Bijection(B, C)
    BY <2>1, <2>2, <2>3 DEF Bijection, Injection, Surjection, IsInjective
  <2> QED
    BY <1>4, <2>4, FS_Bijection DEF ExistsBijection
<1>9. Cardinality(A \cup C) = Cardinality(A) + Cardinality(C)
  <2>1. Cardinality(A \cup C) = Cardinality(A) + Cardinality(C) - Cardinality(A \cap C)
    BY <1>4, <1>8, FS_Union
  <2>2. Cardinality(A \cap C) = 0 /\ Cardinality(A) \in Nat /\ Cardinality(C) \in Nat
    BY <1>4, <1>7, <1>8, FS_EmptySet, FS_CardinalityType
  <2> QED
    BY <2>1, <2>2
<1> QED
  BY <1>4, <1>5, <1>6, <1>8, <1>9 DEF j

\* A queue with one command, or none.
LEMMA SendsFew ==
  /\ <<>> \in Seq(Commands) /\ Sends(<<>>) = 0
  /\ \A c \in Commands : /\ <<c>> \in Seq(Commands) /\ Len(<<c>>) = 1
                         /\ Sends(<<c>>) = IF c = "send_message" THEN 1 ELSE 0
<1>1. <<>> \in Seq(Commands) /\ DOMAIN <<>> = {}
  BY EmptySeq
<1>2. Sends(<<>>) = 0
  <2>1. {i \in DOMAIN <<>> : (<<>>)[i] = "send_message"} = {}
    BY <1>1
  <2> QED
    BY <2>1, FS_EmptySet DEF Sends
<1>3. ASSUME NEW c \in Commands
      PROVE  /\ <<c>> \in Seq(Commands) /\ Len(<<c>>) = 1
             /\ Sends(<<c>>) = IF c = "send_message" THEN 1 ELSE 0
  <2>1. <<c>> \in Seq(Commands) /\ Len(<<c>>) = 1 /\ DOMAIN <<c>> = {1} /\ <<c>>[1] = c
    OBVIOUS
  <2>2. {i \in DOMAIN <<c>> : <<c>>[i] = "send_message"} = IF c = "send_message" THEN {1} ELSE {}
    BY <2>1
  <2>3. Cardinality({1}) = 1 /\ Cardinality({}) = 0
    BY FS_Singleton, FS_EmptySet
  <2> QED
    BY <2>1, <2>2, <2>3 DEF Sends
<1> QED
  BY <1>1, <1>2, <1>3

\* Put at the end, a command counts for itself.
LEMMA SendsAppended ==
  ASSUME NEW q \in Seq(Commands), NEW c \in Commands
  PROVE  Sends(Append(q, c)) = Sends(q) + Sends(<<c>>)
<1>1. Append(q, c) = q \o <<c>> /\ <<c>> \in Seq(Commands)
  BY AppendIsConcat, SendsFew
<1>2. Sends(q \o <<c>>) = Sends(q) + Sends(<<c>>)
  BY <1>1, SendsJoined
<1> QED
  BY <1>1, <1>2

\* A queue is its head and the others, ...
LEMMA SendsTail ==
  ASSUME NEW q \in Seq(Commands), q # <<>>
  PROVE  /\ Head(q) \in Commands /\ Tail(q) \in Seq(Commands) /\ Len(Tail(q)) = Len(q) - 1
         /\ Sends(q) = Sends(<<Head(q)>>) + Sends(Tail(q))
<1>1. Head(q) \in Commands /\ Tail(q) \in Seq(Commands) /\ Len(Tail(q)) = Len(q) - 1
  BY HeadTailProperties
<1>2. q = <<Head(q)>> \o Tail(q)
  <2>1. Len(q) \in Nat \ {0} /\ Head(q) = q[1] /\ \A i \in 1..(Len(q) - 1) : Tail(q)[i] = q[i + 1]
    BY <1>1, LenProperties, EmptySeq, HeadTailProperties
  <2>2. <<Head(q)>> \in Seq(Commands) /\ Len(<<Head(q)>>) = 1 /\ <<Head(q)>>[1] = q[1]
    BY <1>1, <2>1, SendsFew
  <2> DEFINE j == <<Head(q)>> \o Tail(q)
  <2>3. /\ j \in Seq(Commands) /\ Len(j) = 1 + (Len(q) - 1)
        /\ \A i \in 1..(1 + (Len(q) - 1)) : j[i] = IF i <= 1 THEN q[1] ELSE Tail(q)[i - 1]
    <3>1. /\ j \in Seq(Commands) /\ Len(j) = Len(<<Head(q)>>) + Len(Tail(q))
          /\ \A i \in 1..(Len(<<Head(q)>>) + Len(Tail(q))) :
               j[i] = IF i <= Len(<<Head(q)>>) THEN <<Head(q)>>[i] ELSE Tail(q)[i - Len(<<Head(q)>>)]
      BY <1>1, <2>2, ConcatProperties
    <3> HIDE DEF j
    <3> QED
      BY <1>1, <2>1, <2>2, <3>1
  <2> HIDE DEF j
  <2>4. ASSUME NEW i \in 1..Len(q)
        PROVE  q[i] = j[i]
    <3>1. CASE i = 1
      BY <2>1, <2>3, <3>1
    <3>2. CASE i # 1
      <4>1. i - 1 \in 1..(Len(q) - 1) /\ (i - 1) + 1 = i /\ ~(i <= 1) /\ i \in 1..(1 + (Len(q) - 1))
        BY <2>1, <3>2
      <4> QED
        BY <2>1, <2>3, <4>1
    <3> QED
      BY <3>1, <3>2
  <2>5. Len(q) = Len(j)
    BY <2>1, <2>3
  <2> QED
    BY <2>3, <2>4, <2>5, SeqEqual DEF j
<1> QED
  BY <1>1, <1>2, SendsFew, SendsJoined

\* ... or its first n commands, which get_batch takes, and the others.
LEMMA SendsSplit ==
  ASSUME NEW q \in Seq(Commands), NEW n \in Nat
  PROVE  /\ Front(q, n) \in Seq(Commands) /\ Len(Front(q, n)) <= n
         /\ Rest(q, n) \in Seq(Commands) /\ Len(Rest(q, n)) <= Len(q)
         /\ Sends(q) = Sends(Front(q, n)) + Sends(Rest(q, n))
<1> DEFINE k == IF n < Len(q) THEN n ELSE Len(q)
<1>1. Len(q) \in Nat /\ k \in 0..Len(q) /\ k <= n /\ \A i \in 1..Len(q) : q[i] \in Commands
  BY LenProperties, ElementOfSeq
<1>2. Front(q, n) = SubSeq(q, 1, k)
  BY DEF Front
<1>3. Rest(q, n) = SubSeq(q, k + 1, Len(q))
  <2>1. CASE n < Len(q)
    BY <2>1 DEF Rest
  <2>2. CASE ~(n < Len(q))
    <3>1. Len(q) < n + 1 /\ Len(q) < k + 1 /\ k = Len(q)
      BY <1>1, <2>2
    <3>2. n + 1 \in Int /\ k + 1 \in Int /\ Len(q) \in Int
      BY <1>1
    <3> HIDE DEF k
    <3>3. SubSeq(q, n + 1, Len(q)) = <<>>
      BY <3>1, <3>2, SubSeqEmpty
    <3>4. SubSeq(q, k + 1, Len(q)) = <<>>
      BY <3>1, <3>2, SubSeqEmpty
    <3> QED
      BY <3>3, <3>4 DEF Rest
  <2> QED
    BY <2>1, <2>2
<1> HIDE DEF k
<1>4. SubSeq(q, 1, k) \in Seq(Commands) /\ Len(SubSeq(q, 1, k)) = k
  <2>1. \A i \in 1..k : q[i] \in Commands
    BY <1>1
  <2> QED
    BY <1>1, <2>1, SubSeqProperties
<1>5. SubSeq(q, k + 1, Len(q)) \in Seq(Commands) /\ Len(SubSeq(q, k + 1, Len(q))) <= Len(q)
  <2>1. \A i \in (k + 1)..Len(q) : q[i] \in Commands
    BY <1>1
  <2> QED
    BY <1>1, <2>1, SubSeqProperties
<1>6. q = SubSeq(q, 1, k) \o SubSeq(q, k + 1, Len(q))
  <2>1. SubSeq(q, 1, k) \o SubSeq(q, k + 1, Len(q)) = SubSeq(q, 1, Len(q))
    <3>1. 1 \in 1..(Len(q) + 1) /\ k \in (1 - 1)..Len(q) /\ Len(q) \in k..Len(q)
      BY <1>1
    <3> QED
      BY <3>1, ConcatAdjacentSubSeq
  <2> QED
    BY <2>1, SubSeqFull
<1> QED
  BY <1>1, <1>2, <1>3, <1>4, <1>5, <1>6, SendsJoined

\* What put leaves in a queue.
LEMMA PushedProperties ==
  ASSUME NEW S, NEW q \in Seq(S), NEW i \in S, NEW n \in Nat \ {0}, Len(q) <= n
  PROVE  Pushed(q, i, n) \in Seq(S) /\ Len(Pushed(q, i, n)) <= n
<1>1. CASE Len(q) < n
  BY <1>1, AppendProperties DEF Pushed
<1>2. CASE Len(q) >= n
  <2>1. q # <<>> /\ Len(q) = n
    BY <1>2, LenProperties
  <2>2. Tail(q) \in Seq(S) /\ Len(Tail(q)) = n - 1
    BY <2>1, HeadTailProperties
  <2>3. Append(Tail(q), i) \in Seq(S) /\ Len(Append(Tail(q), i)) = n
    BY <2>2, AppendProperties
  <2> QED
    BY <1>2, <2>1, <2>3 DEF Pushed
<1> QED
  BY <1>1, <1>2, LenProperties

-----------------------------------------------------------------------------
(* Threads, and what a step leaves as it was.                                 *)

\* The threads are apart from each other and from NoThread.
LEMMA Threads ==
  /\ Thread = {Worker} \cup Client \cup Listener \cup Stopper
  /\ Worker \notin Client \cup Listener \cup Stopper
  /\ Client \cap Listener = {} /\ Client \cap Stopper = {} /\ Listener \cap Stopper = {}
  /\ NoThread \notin Thread
  BY IOThreadAssumption, WireAssumption DEF Thread

\* The ids are apart from each other, as far as the library keeps them so.
LEMMA Ids == Uid \cap TextUid = {} /\ Uid \cap Idless = {} /\ NoUid \notin AnyUid
  BY WireAssumption DEF AnyUid

\* The mutex, step by step: it stays where it is, ...
LEMMA LockKept ==
  ASSUME PcOK, LockInv, NEW t \in Thread, NEW label \in Labels,
         Holds(label) = Holds(pc[t]),
         Goto(t, label), UNCHANGED <<mutex, depth>>
  PROVE  LockInv'
  BY DEF PcOK, LockInv, Goto

\* ... is taken, ...
LEMMA LockTaken ==
  ASSUME PcOK, LockInv, NEW t \in Thread, NEW label \in Labels,
         Holds(pc[t]) = 0, Holds(label) = 1,
         Goto(t, label), Lock(t)
  PROVE  LockInv' /\ mutex = NoThread
<1>1. mutex = NoThread /\ depth = 0
  BY DEF LockInv, Lock
<1> QED
  BY <1>1, Threads DEF PcOK, LockInv, Goto, Lock

\* ... is taken once more, ...
LEMMA LockTakenAgain ==
  ASSUME PcOK, LockInv, NEW t \in Thread, NEW label \in Labels,
         Holds(pc[t]) = 1, Holds(label) = 2,
         Goto(t, label), Lock(t)
  PROVE  LockInv'
<1>1. mutex = t /\ depth = 1
  BY Threads DEF LockInv
<1> QED
  BY <1>1, Threads DEF PcOK, LockInv, Goto, Lock

\* ... or is given back once.
LEMMA LockGiven ==
  ASSUME PcOK, LockInv, NEW t \in Thread, NEW label \in Labels,
         Holds(pc[t]) = Holds(label) + 1,
         Goto(t, label), Unlock(t)
  PROVE  LockInv'
<1>1. Holds(label) \in {0, 1, 2} /\ Holds(pc[t]) \in {0, 1, 2}
  BY DEF Holds
<1>2. mutex = t /\ depth = Holds(label) + 1
  BY <1>1, Threads DEF LockInv
<1> QED
  BY <1>1, <1>2, Threads DEF PcOK, LockInv, Goto, Unlock

\* The port stays with its holder, or stays free.
LEMMA UsbKept ==
  ASSUME PcOK, UsbInv, NEW t \in Thread, NEW label \in Labels,
         label \in Holding <=> pc[t] \in Holding,
         Goto(t, label), UNCHANGED usb
  PROVE  UsbInv'
  BY DEF PcOK, UsbInv, Goto

\* A step that leaves the books alone and is about no message leaves what is known
\* of the messages.
LEMMA MessagesKept ==
  ASSUME IInv, NEW t \in Thread, NEW label \in Labels, Goto(t, label),
         UNCHANGED <<books, uid, packet>>,
         label \notin {"send_add", "send_row", "report", "remove"},
         pc[t] \notin {"send_add", "report", "remove"},
         t \in Listener => label = "idle" \/ pc[t] # "idle"
  PROVE  SentInv' /\ InHand'
<1>1. \A s \in Thread : pc'[s] \in {"send_add", "report", "remove"} \/ pc[s] \in {"send_add", "report", "remove"}
                          => pc'[s] = pc[s]
  BY DEF IInv, PcOK, Goto
<1>2. \A s \in Thread : pc'[s] = "send_row" => pc[s] = "send_row"
  BY DEF IInv, PcOK, Goto
<1>3. \A l \in Listener : l \in Thread /\ (pc'[l] # "idle" => pc[l] # "idle")
  BY Threads DEF IInv, PcOK, Goto
<1>4. InHand'
  BY <1>1, <1>2, <1>3 DEF IInv, InHand
<1>5. SentInv'
  <2>1. Accounted'
    BY <1>1, <1>3 DEF IInv, SentInv, Accounted, books
  <2> QED
    BY <1>1, <1>3, <2>1 DEF IInv, SentInv, books
<1> QED
  BY <1>4, <1>5

\* A step of another thread leaves the worker its batch.
LEMMA BatchKept ==
  ASSUME IInv, NEW t \in Thread, t # Worker, NEW label, Goto(t, label), UNCHANGED batch
  PROVE  BatchInv'
<1>1. pc'[Worker] = pc[Worker]
  BY Threads DEF IInv, PcOK, Goto
<1> QED
  BY <1>1 DEF IInv, BatchInv

\* The variables that only hold data.
LEMMA DataKept ==
  ASSUME DataOK, UNCHANGED <<radio, books, bounds, packet>>
  PROVE  DataOK'
  BY DEF DataOK, radio, books, bounds

\* The count of the commands.
LEMMA LedgerKept ==
  ASSUME LedgerInv, UNCHANGED <<ledger, input, batch>>
  PROVE  LedgerInv'
  BY DEF LedgerInv, CommandsAccounted, ledger

\* The invariant holds before the first step, ...
LEMMA InitInv == Init => IInv
<1> SUFFICES ASSUME Init
             PROVE  IInv
  OBVIOUS
<1>a. /\ <<>> \in Seq(Item) /\ Len(<<>>) = 0 /\ <<>> \in Seq({"Success", "Error"})
      /\ <<>> \in Seq(Commands) /\ Sends(<<>>) = 0
  BY EmptySeq, SendsFew
<1>b. 0 <= MaxIn /\ 0 <= MaxOut /\ 0 <= BatchSize
  BY IOThreadAssumption DEF BatchSize
<1>1. ThreadOK
  BY <1>a, <1>b DEF Init, IOInit, ThreadOK, States
<1>c. /\ Worker \in Thread /\ pc[Worker] = "new"
      /\ \A t \in Thread : pc[t] \in {"new", "idle"}
      /\ \A t \in Client \cup Listener \cup Stopper : pc[t] = "idle"
  BY Threads DEF Init, IOInit
<1>2. DataOK
  <2>1. reported \in [Uid -> Seq({"Success", "Error"})]
    BY <1>a DEF Init
  <2>2. calls \in 0..MaxCalls /\ packets \in 0..MaxPackets
    BY WireAssumption DEF Init
  <2>3. uid \in [Thread -> AnyUid \cup {NoUid}] /\ packet \in [Listener -> Packet \cup {NoPacket}]
    BY DEF Init
  <2> QED
    BY <2>1, <2>2, <2>3 DEF Init, DataOK
<1>3. PcOK /\ LockInv /\ UsbInv
  BY Threads DEF Init, IOInit, PcOK, LockInv, UsbInv, Holds, Labels, Finalizing, FinalizeLabels,
                 Hearing, Sending, Holding
<1>4. BatchInv /\ LedgerInv
  <2>1. BatchInv
    BY <1>a, <1>b, <1>c DEF Init, BatchInv, Sending, Finalizing, Holding, FinalizeLabels
  <2>2. LedgerInv
    BY <1>a DEF Init, IOInit, LedgerInv, CommandsAccounted
  <2> QED
    BY <2>1, <2>2
<1>5. InHand /\ SentInv
  <2>1. InHand
    BY <1>c, Threads DEF InHand
  <2>2. sent = {} /\ pending = {} /\ \A u \in Uid : reported[u] = <<>>
    BY DEF Init
  <2> QED
    BY <1>a, <1>c, <2>1, <2>2, Threads DEF SentInv, Accounted
<1> QED
  BY <1>1, <1>2, <1>3, <1>4, <1>5 DEF IInv

-----------------------------------------------------------------------------
(* The steps, one lemma for each part of the next-state relation.             *)

\* The thread's own run.
LEMMA RunStep ==
  ASSUME IInv, Run
  PROVE  IInv'
<1>a. /\ Worker \in Thread
      /\ \A t \in Client \cup Listener \cup Stopper : t # Worker /\ t \in Thread
  BY Threads
<1> USE DEF IInv
<1>1. CASE /\ \/ Start \/ RunReady \/ RunRefused
              \/ Connect \/ ConnectFails \/ LoopTest \/ Handle
           /\ UNCHANGED <<radio, books, ledger, bounds, batch, packet>>
  <2>a. /\ UNCHANGED <<stop, mutex, depth, input, output, usb, uid>>
        /\ state' \in States
    BY <1>1 DEF Start, RunReady, RunRefused, Connect, ConnectFails, LoopTest, Handle,
                shared, radio, ThreadOK, States
  <2>b. /\ pc[Worker] \in {"new", "run", "boot", "loop", "handle"}
        /\ \E label \in {"run", "boot", "dead", "assign", "loop", "fetch", "close",
                         "send_lock", "finalize"} :
             /\ Goto(Worker, label)
             /\ label = "finalize" => batch # <<>> /\ Head(batch) = "stop"
             /\ label = "send_lock" => batch # <<>> /\ Head(batch) = "send_message"
             /\ label \notin {"finalize", "send_lock"} => batch = <<>> \/ pc[Worker] # "handle"
    BY <1>1 DEF Start, RunReady, RunRefused, Connect, ConnectFails, LoopTest, Handle
  <2> PICK label \in {"run", "boot", "dead", "assign", "loop", "fetch", "close",
                      "send_lock", "finalize"} :
             /\ Goto(Worker, label)
             /\ label = "finalize" => batch # <<>> /\ Head(batch) = "stop"
             /\ label = "send_lock" => batch # <<>> /\ Head(batch) = "send_message"
             /\ label \notin {"finalize", "send_lock"} => batch = <<>> \/ pc[Worker] # "handle"
    BY <2>b
  <2>1. ThreadOK'
    BY <2>a DEF ThreadOK
  <2>2. DataOK' /\ LedgerInv'
    BY <1>1, <2>a, DataKept, LedgerKept
  <2>3. PcOK'
    BY <1>a DEF PcOK, Goto, Labels, Sending, Finalizing, Hearing, Holding, FinalizeLabels
  <2>4. LockInv' /\ UsbInv'
    BY <1>a, <2>a, <2>b, LockKept, UsbKept DEF Holds, Labels, Holding, Hearing
  <2>5. BatchInv'
    <3>1. pc'[Worker] = label
      BY <1>a DEF PcOK, Goto
    <3>2. batch' = batch
      BY <1>1
    <3> QED
      BY <2>b, <3>1, <3>2 DEF BatchInv, Sending, Finalizing, Holding, FinalizeLabels
  <2>6. SentInv' /\ InHand'
    BY <1>1, <1>a, <2>a, <2>b, Threads, MessagesKept DEF Labels
  <2> QED
    BY <2>1, <2>2, <2>3, <2>4, <2>5, <2>6
<1>2. CASE AssignInterface /\ UNCHANGED <<books, ledger, bounds, batch, packet>>
  <2>a. pc[Worker] = "assign" /\ Goto(Worker, "loop") /\ interface' = TRUE /\ UNCHANGED <<shared, usb, uid>>
    BY <1>2 DEF AssignInterface
  <2>1. ThreadOK' /\ DataOK' /\ LedgerInv'
    BY <1>2, <2>a, LedgerKept DEF ThreadOK, DataOK, shared, books, bounds
  <2>2. PcOK'
    BY <1>a, <2>a DEF PcOK, Goto, Labels, Hearing
  <2>3. LockInv' /\ UsbInv'
    BY <1>a, <2>a, LockKept, UsbKept DEF Holds, Labels, Holding, Hearing, shared
  <2>4. BatchInv'
    BY <1>2, <1>a, <2>a DEF BatchInv, PcOK, Goto, Sending, Finalizing, Holding, FinalizeLabels
  <2>5. SentInv' /\ InHand'
    BY <1>2, <1>a, <2>a, Threads, MessagesKept DEF Labels
  <2> QED
    BY <2>1, <2>2, <2>3, <2>4, <2>5
<1>3. CASE CloseAtEnd /\ UNCHANGED <<books, ledger, bounds, batch, packet>>
  <2>a. /\ pc[Worker] = "close" /\ Goto(Worker, "dead") /\ interface' = FALSE /\ stop' = TRUE
        /\ UNCHANGED <<state, mutex, depth, input, output, usb, uid>>
    BY <1>3 DEF CloseAtEnd
  <2>1. ThreadOK' /\ DataOK' /\ LedgerInv'
    BY <1>3, <2>a, LedgerKept DEF ThreadOK, DataOK, books, bounds
  <2>2. PcOK'
    BY <1>a, <2>a DEF PcOK, Goto, Labels, Hearing
  <2>3. LockInv' /\ UsbInv'
    BY <1>a, <2>a, LockKept, UsbKept DEF Holds, Labels, Holding, Hearing
  <2>4. BatchInv'
    BY <1>3, <1>a, <2>a DEF BatchInv, PcOK, Goto, Sending, Finalizing, Holding, FinalizeLabels
  <2>5. SentInv' /\ InHand'
    BY <1>3, <1>a, <2>a, Threads, MessagesKept DEF Labels
  <2> QED
    BY <2>1, <2>2, <2>3, <2>4, <2>5
<1>4. CASE Fetch /\ UNCHANGED <<radio, books, ledger, bounds, packet>>
  <2>a. /\ pc[Worker] = "fetch" /\ Goto(Worker, "handle")
        /\ batch' = Front(input, BatchSize) /\ input' = Rest(input, BatchSize)
        /\ UNCHANGED <<state, stop, mutex, depth, output, usb, uid>>
    BY <1>4 DEF Fetch, radio
  <2>b. /\ Front(input, BatchSize) \in Seq(Commands) /\ Len(Front(input, BatchSize)) <= BatchSize
        /\ Rest(input, BatchSize) \in Seq(Commands) /\ Len(Rest(input, BatchSize)) <= Len(input)
        /\ Sends(input) = Sends(Front(input, BatchSize)) + Sends(Rest(input, BatchSize))
    BY SendsSplit DEF ThreadOK, BatchSize
  <2>1. ThreadOK'
    <3>1. Len(input) \in Nat /\ Len(Rest(input, BatchSize)) \in Nat /\ MaxIn \in Nat
      BY <2>b, LenProperties, IOThreadAssumption DEF ThreadOK
    <3> QED
      BY <2>a, <2>b, <3>1 DEF ThreadOK
  <2>2. DataOK'
    BY <1>4, DataKept
  <2>3. LedgerInv'
    <3>1. batch = <<>>
      BY <2>a DEF BatchInv, Sending, Finalizing, Holding, FinalizeLabels
    <3>2. Sends(batch') \in Nat /\ Sends(input') \in Nat /\ Sends(input) = Sends(batch') + Sends(input')
      BY <2>a, <2>b, SendsType
    <3> QED
      BY <1>4, <3>1, <3>2, SendsFew DEF LedgerInv, CommandsAccounted, ledger
  <2>4. PcOK'
    BY <1>a, <2>a DEF PcOK, Goto, Labels, Hearing
  <2>5. LockInv' /\ UsbInv'
    BY <1>a, <2>a, LockKept, UsbKept DEF Holds, Labels, Holding, Hearing
  <2>6. BatchInv'
    BY <1>a, <2>a, <2>b DEF BatchInv, PcOK, Goto, Sending, Finalizing, Holding, FinalizeLabels
  <2>7. SentInv' /\ InHand'
    BY <1>4, <1>a, <2>a, Threads, MessagesKept DEF Labels
  <2> QED
    BY <2>1, <2>2, <2>3, <2>4, <2>5, <2>6, <2>7
<1>5. CASE Reply /\ UNCHANGED <<radio, books, bounds, packet>>
  <2>a. /\ pc[Worker] = "reply" /\ Goto(Worker, "handle")
        /\ output' = Pushed(output, "command_status", MaxOut)
        /\ answered' = answered + 1 /\ batch' = Tail(batch)
        /\ UNCHANGED <<state, stop, mutex, depth, input, asked, discarded, usb, uid>>
    BY <1>5 DEF Reply, radio
  <2>b. batch # <<>> /\ Head(batch) = "send_message" /\ batch \in Seq(Commands)
    BY <2>a DEF BatchInv
  <2>c. /\ Head(batch) \in Commands /\ Tail(batch) \in Seq(Commands)
        /\ Len(Tail(batch)) = Len(batch) - 1
        /\ Sends(batch) = Sends(<<Head(batch)>>) + Sends(Tail(batch))
    BY <2>b, SendsTail
  <2>1. ThreadOK'
    <3>1. output' \in Seq(Item) /\ Len(output') <= MaxOut
      BY <2>a, PushedProperties, IOThreadAssumption DEF ThreadOK, Item
    <3> QED
      BY <2>a, <3>1 DEF ThreadOK
  <2>2. DataOK'
    BY <1>5, DataKept
  <2>3. LedgerInv'
    <3>1. Sends(<<Head(batch)>>) = 1
      BY <2>b, <2>c, SendsFew
    <3>2. Sends(Tail(batch)) \in Nat /\ Sends(input) \in Nat
      BY <2>c, SendsType DEF ThreadOK
    <3> QED
      BY <2>a, <2>c, <3>1, <3>2 DEF LedgerInv, CommandsAccounted
  <2>4. PcOK'
    BY <1>a, <2>a DEF PcOK, Goto, Labels, Hearing
  <2>5. LockInv' /\ UsbInv'
    BY <1>a, <2>a, LockKept, UsbKept DEF Holds, Labels, Holding, Hearing
  <2>6. BatchInv'
    <3>1. Len(batch') <= BatchSize
      BY <2>a, <2>b, <2>c, LenProperties DEF BatchInv, BatchSize
    <3> QED
      BY <1>a, <2>a, <2>c, <3>1 DEF BatchInv, PcOK, Goto, Sending, Finalizing, Holding, FinalizeLabels
  <2>7. SentInv' /\ InHand'
    BY <1>5, <1>a, <2>a, Threads, MessagesKept DEF Labels
  <2> QED
    BY <2>1, <2>2, <2>3, <2>4, <2>5, <2>6, <2>7
<1> QED
  BY <1>1, <1>2, <1>3, <1>4, <1>5 DEF Run

\* Where a send may go on.
LEMMA SendGoes ==
  ASSUME IInv, NEW t \in {Worker} \cup Client, pc[t] \in Sending,
         NEW label \in Holding \cup {IF t = Worker THEN "reply" ELSE "idle"},
         Goto(t, label), UNCHANGED <<shared, ledger, bounds, batch, packet>>
  PROVE  /\ ThreadOK' /\ PcOK' /\ LockInv' /\ BatchInv' /\ LedgerInv'
         /\ pc'[t] = label /\ \A s \in Thread \ {t} : pc'[s] = pc[s]
<1>a. t \in Thread /\ t \notin Listener \cup Stopper
  BY Threads
<1>b. UNCHANGED <<state, stop, mutex, depth, input, output>>
  BY DEF shared
<1>1. ThreadOK'
  BY <1>b DEF IInv, ThreadOK
<1>2. PcOK' /\ pc'[t] = label /\ \A s \in Thread \ {t} : pc'[s] = pc[s]
  BY <1>a, Threads DEF IInv, PcOK, Goto, Labels, Sending, Hearing, Holding
<1>3. LockInv'
  BY <1>a, <1>b, LockKept DEF IInv, Holds, Labels, Sending, Holding, Hearing
<1>4. BatchInv'
  <2>1. CASE t = Worker
    BY <1>2, <2>1 DEF IInv, BatchInv, Sending, Finalizing, Holding, FinalizeLabels
  <2>2. CASE t # Worker
    BY <1>a, <2>2, BatchKept
  <2> QED
    BY <2>1, <2>2
<1>5. LedgerInv'
  BY <1>b, LedgerKept DEF IInv
<1> QED
  BY <1>1, <1>2, <1>3, <1>4, <1>5

\* _send_message: the id is fresh when the radio gives it, and the first thing that
\* is done with it is to add it.
LEMMA SendStep ==
  ASSUME IInv, NEW t \in {Worker} \cup Client, Send(t)
  PROVE  IInv'
<1>a. t \in Thread /\ t \notin Listener \cup Stopper
  BY Threads
<1>b. UNCHANGED <<ledger, bounds, batch, packet>>
  BY DEF Send
<1>c. UNCHANGED <<calls, packets, packet>>
  BY <1>b DEF bounds
<1> USE DEF IInv
<1>1. CASE SendLock(t)
  <2>a. /\ pc[t] = "send_lock" /\ usb = NoThread /\ usb' = t /\ Goto(t, "send_text")
        /\ UNCHANGED <<shared, interface, uid, books>>
    BY <1>1 DEF SendLock
  <2>1. /\ ThreadOK' /\ PcOK' /\ LockInv' /\ BatchInv' /\ LedgerInv'
        /\ pc'[t] = "send_text" /\ \A s \in Thread \ {t} : pc'[s] = pc[s]
    BY <1>b, <2>a, SendGoes DEF Sending, Holding
  <2>2. DataOK'
    BY <1>c, <2>a DEF DataOK, books
  <2>3. UsbInv'
    BY <1>a, <2>a, <2>1, Threads DEF UsbInv, Holding
  <2>4. SentInv' /\ InHand'
    BY <1>a, <1>c, <2>a, MessagesKept DEF Labels, Holding
  <2> QED
    BY <2>1, <2>2, <2>3, <2>4
<1>2. CASE SendText(t)
  <2>a. PICK u \in (Uid \ sent) \cup Idless :
          uid' = [uid EXCEPT ![t] = u] /\ sent' = sent \cup (Uid \cap {u})
    BY <1>2 DEF SendText
  <2>b. /\ pc[t] = "send_text" /\ Goto(t, "send_add")
        /\ UNCHANGED <<shared, usb, interface, pending, rows, reported, forgotten>>
    BY <1>2 DEF SendText
  <2>1. /\ ThreadOK' /\ PcOK' /\ LockInv' /\ BatchInv' /\ LedgerInv'
        /\ pc'[t] = "send_add" /\ \A s \in Thread \ {t} : pc'[s] = pc[s]
    BY <1>b, <2>b, SendGoes DEF Sending, Holding
  <2>2. DataOK'
    BY <1>c, <2>a, <2>b DEF DataOK, AnyUid
  <2>3. UsbInv'
    BY <1>a, <2>b, UsbKept DEF Labels, Holding
  <2>c. /\ uid'[t] = u /\ \A s \in Thread \ {t} : uid'[s] = uid[s]
        /\ u \in Uid => u \notin sent
        /\ sent \subseteq sent' /\ sent' \subseteq sent \cup {u}
        /\ u \in Uid => u \in sent'
    BY <1>a, <2>a, Ids DEF DataOK
  <2>d. \A l \in Listener : l \in Thread \ {t} /\ pc'[l] = pc[l]
    BY <1>a, <2>1, Threads
  <2>4. InHand'
    BY <1>a, <1>c, <2>1, <2>c, <2>d DEF InHand
  <2>5. SentInv'
    <3>1. u \in Uid => u \notin pending /\ reported[u] = <<>>
      BY <2>c DEF SentInv, Accounted
    <3>2. Accounted'
      <4>1. ASSUME NEW v \in sent'
            PROVE  \/ \E s \in Thread : pc'[s] = "send_add" /\ uid'[s] = v
                   \/ v \in pending \cup forgotten
                   \/ reported[v] # <<>>
        <5>1. CASE v = u
          BY <1>a, <2>1, <2>c, <5>1
        <5>2. CASE v # u
          BY <1>a, <2>b, <2>1, <2>c, <5>2 DEF SentInv, Accounted
        <5> QED
          BY <5>1, <5>2
      <4>2. ASSUME NEW v \in Uid
            PROVE  /\ reported[v] # <<>> => v \in sent'
                   /\ reported[v] # <<>> /\ v \in pending =>
                        \E l \in Listener : pc'[l] = "remove" /\ packet'[l].uid = v
        BY <1>c, <2>c, <2>d DEF SentInv, Accounted
      <4> QED
        BY <2>b, <4>1, <4>2 DEF Accounted
    <3>3. \A s \in Thread : pc'[s] = "send_add" /\ uid'[s] \in Uid =>
            uid'[s] \in sent' \ pending /\ reported[uid'[s]] = <<>>
      BY <2>1, <2>c, <3>1 DEF SentInv
    <3>4. \A v \in Uid : v \in pending => v \in sent'
      BY <2>c DEF SentInv
    <3> QED
      BY <1>c, <2>b, <2>d, <3>2, <3>3, <3>4 DEF SentInv
  <2> QED
    BY <2>1, <2>2, <2>3, <2>4, <2>5
<1>3. CASE SendFails(t)
  <2>a. pc[t] = "send_text" /\ Goto(t, "send_return") /\ UNCHANGED <<shared, radio, books>>
    BY <1>3 DEF SendFails
  <2>1. /\ ThreadOK' /\ PcOK' /\ LockInv' /\ BatchInv' /\ LedgerInv'
        /\ pc'[t] = "send_return" /\ \A s \in Thread \ {t} : pc'[s] = pc[s]
    BY <1>b, <2>a, SendGoes DEF Sending, Holding
  <2>2. DataOK' /\ UsbInv'
    BY <1>a, <1>b, <2>a, DataKept, UsbKept DEF Labels, Holding, radio
  <2>3. SentInv' /\ InHand'
    BY <1>a, <1>c, <2>a, MessagesKept DEF Labels, Holding, radio
  <2> QED
    BY <2>1, <2>2, <2>3
<1>4. CASE SendAdd(t)
  <2>a. /\ pc[t] = "send_add" /\ pending' = pending \cup {uid[t]} /\ Goto(t, "send_row")
        /\ UNCHANGED <<shared, radio, rows, sent, reported, forgotten>>
    BY <1>4 DEF SendAdd
  <2>1. /\ ThreadOK' /\ PcOK' /\ LockInv' /\ BatchInv' /\ LedgerInv'
        /\ pc'[t] = "send_row" /\ \A s \in Thread \ {t} : pc'[s] = pc[s]
    BY <1>b, <2>a, SendGoes DEF Sending, Holding
  <2>b. uid[t] \in Uid \cup Idless /\ UNCHANGED <<usb, interface, uid>>
    BY <1>a, <2>a DEF InHand, radio
  <2>2. DataOK'
    BY <1>c, <2>a, <2>b DEF DataOK
  <2>3. UsbInv'
    BY <1>a, <2>a, <2>b, UsbKept DEF Labels, Holding
  <2>d. \A l \in Listener : l \in Thread \ {t} /\ pc'[l] = pc[l]
    BY <1>a, <2>1, Threads
  <2>4. InHand'
    BY <1>c, <2>a, <2>1, <2>b, <2>d DEF InHand
  <2>5. SentInv'
    <3>1. uid[t] \in Uid => uid[t] \in sent \ pending /\ reported[uid[t]] = <<>>
      BY <1>a, <2>a DEF SentInv
    <3>2. Accounted'
      <4>1. ASSUME NEW v \in sent
            PROVE  \/ \E s \in Thread : pc'[s] = "send_add" /\ uid[s] = v
                   \/ v \in pending' \cup forgotten
                   \/ reported[v] # <<>>
        BY <2>a, <2>1 DEF SentInv, Accounted
      <4>2. ASSUME NEW v \in Uid
            PROVE  /\ reported[v] # <<>> => v \in sent
                   /\ reported[v] # <<>> /\ v \in pending' =>
                        \E l \in Listener : pc'[l] = "remove" /\ packet[l].uid = v
        BY <2>a, <2>d, <3>1 DEF SentInv, Accounted
      <4> QED
        BY <1>c, <2>a, <2>b, <4>1, <4>2 DEF Accounted
    <3>3. ASSUME NEW s \in Thread
          PROVE  pc'[s] # "send_add"
      <4>1. s # t => pc[s] # "send_add"
        BY <1>a, <2>a, Threads DEF UsbInv, Holding
      <4> QED
        BY <2>1, <4>1
    <3>4. \A v \in Uid : v \in pending' => v \in sent
      BY <2>a, <3>1 DEF SentInv
    <3>5. \A s \in Thread : pc'[s] = "send_add" /\ uid'[s] \in Uid =>
            uid'[s] \in sent' \ pending' /\ reported'[uid'[s]] = <<>>
      BY <2>a, <2>1, <2>b, <3>3 DEF SentInv
    <3>6. \A l \in Listener : pc'[l] = "report" =>
            packet[l].uid \in pending' /\ (packet[l].uid \in Uid => reported[packet[l].uid] = <<>>)
      BY <2>a, <2>d DEF SentInv
    <3> QED
      BY <1>c, <2>a, <2>d, <3>2, <3>4, <3>5, <3>6 DEF SentInv
  <2> QED
    BY <2>1, <2>2, <2>3, <2>4, <2>5
<1>5. CASE SendRow(t)
  <2>a. /\ pc[t] = "send_row" /\ Goto(t, "send_return")
        /\ rows' = rows \cup {OutgoingRow(uid[t])} \/ rows' = rows
        /\ UNCHANGED <<shared, radio, pending, sent, reported, forgotten>>
    BY <1>5 DEF SendRow
  <2>1. /\ ThreadOK' /\ PcOK' /\ LockInv' /\ BatchInv' /\ LedgerInv'
        /\ pc'[t] = "send_return" /\ \A s \in Thread \ {t} : pc'[s] = pc[s]
    BY <1>b, <2>a, SendGoes DEF Sending, Holding
  <2>b. uid[t] \in AnyUid /\ UNCHANGED <<usb, interface, uid>>
    BY <1>a, <2>a DEF InHand, radio, AnyUid
  <2>2. DataOK'
    <3>1. OutgoingRow(uid[t]) \in Row
      BY <2>b DEF OutgoingRow, Row
    <3> QED
      BY <1>c, <2>a, <2>b, <3>1 DEF DataOK
  <2>3. UsbInv'
    BY <1>a, <2>a, <2>b, UsbKept DEF Labels, Holding
  <2>d. /\ \A s \in Thread : pc'[s] = pc[s] \/ (pc'[s] = "send_return" /\ pc[s] = "send_row")
        /\ \A l \in Listener : l \in Thread /\ pc'[l] = pc[l]
    BY <1>a, <2>a, <2>1, Threads
  <2>4. InHand'
    BY <1>c, <2>b, <2>d DEF InHand
  <2>5. SentInv'
    <3>1. Accounted'
      BY <1>c, <2>a, <2>b, <2>d DEF SentInv, Accounted
    <3> QED
      BY <1>c, <2>a, <2>b, <2>d, <3>1 DEF SentInv
  <2> QED
    BY <2>1, <2>2, <2>3, <2>4, <2>5
<1>6. CASE SendReturn(t)
  <2> DEFINE label == IF t = Worker THEN "reply" ELSE "idle"
  <2>a. /\ pc[t] = "send_return" /\ Goto(t, label)
        /\ usb' = NoThread /\ uid' = [uid EXCEPT ![t] = NoUid]
        /\ UNCHANGED <<shared, interface, books>>
    BY <1>6 DEF SendReturn
  <2>b. label \in {"reply", "idle"}
    OBVIOUS
  <2>1. /\ ThreadOK' /\ PcOK' /\ LockInv' /\ BatchInv' /\ LedgerInv'
        /\ pc'[t] = label /\ \A s \in Thread \ {t} : pc'[s] = pc[s]
    BY <1>b, <2>a, SendGoes DEF Sending, Holding
  <2> HIDE DEF label
  <2>2. DataOK'
    BY <1>c, <2>a DEF DataOK, books
  <2>3. UsbInv'
    <3>1. usb = t
      BY <1>a, <2>a DEF UsbInv, Holding
    <3> QED
      BY <1>a, <2>a, <2>b, <2>1, <3>1, Threads DEF UsbInv, Holding
  <2>d. /\ \A s \in Thread \ {t} : pc'[s] = pc[s] /\ uid'[s] = uid[s]
        /\ \A l \in Listener : l \in Thread \ {t} /\ pc'[l] = pc[l]
        /\ pc'[t] \notin {"send_add", "send_row"}
    BY <1>a, <2>a, <2>b, <2>1, Threads DEF DataOK
  <2>4. InHand'
    BY <1>c, <2>d DEF InHand
  <2>5. SentInv'
    <3>1. Accounted'
      BY <1>c, <2>a, <2>d DEF SentInv, Accounted, books
    <3> QED
      BY <1>c, <2>a, <2>d, <3>1 DEF SentInv, books
  <2> QED
    BY <2>1, <2>2, <2>3, <2>4, <2>5
<1> QED
  BY <1>1, <1>2, <1>3, <1>4, <1>5, <1>6 DEF Send

\* Where a listener goes on.
LEMMA ListenGoes ==
  ASSUME IInv, NEW l \in Listener, NEW label \in {"idle"} \cup Hearing,
         Goto(l, label), UNCHANGED <<radio, ledger, input, batch>>
  PROVE  /\ PcOK' /\ UsbInv' /\ BatchInv' /\ LedgerInv'
         /\ pc'[l] = label /\ \A s \in Thread \ {l} : pc'[s] = pc[s]
<1>a. l \in Thread /\ l # Worker /\ l \notin Client \cup Stopper
  BY Threads
<1>1. PcOK' /\ pc'[l] = label /\ \A s \in Thread \ {l} : pc'[s] = pc[s]
  BY <1>a, Threads DEF IInv, PcOK, Goto, Labels, Hearing
<1>2. UsbInv'
  <2>1. pc[l] \notin Holding /\ label \notin Holding
    BY DEF IInv, PcOK, Hearing, Holding
  <2> QED
    BY <1>a, <2>1, UsbKept DEF IInv, radio, Labels, Hearing
<1>3. BatchInv' /\ LedgerInv'
  BY <1>a, BatchKept, LedgerKept DEF IInv
<1> QED
  BY <1>1, <1>2, <1>3

\* What a listener knows while it has the mutex: no other one is at work.
LEMMA Alone ==
  ASSUME IInv, NEW l \in Listener, mutex = NoThread \/ Holds(pc[l]) # 0, NEW m \in Listener \ {l}
  PROVE  pc[m] \notin {"report", "remove", "mark", "store", "tell"}
<1>1. l \in Thread /\ m \in Thread /\ m # NoThread
  BY Threads
<1> QED
  BY <1>1 DEF IInv, LockInv, Holds, Hearing

\* Packets arrive, and are taken for an answer, for a text, or for neither.
LEMMA HearStep ==
  ASSUME IInv, NEW l \in Listener,
         \/ Arrive(l) /\ UNCHANGED <<radio, books, ledger, batch>>
         \/ /\ HearAnswer(l) \/ HearText(l) \/ HearNothing(l) \/ StoreFails(l) \/ TellText(l)
            /\ UNCHANGED <<radio, books, ledger, bounds, batch>>
  PROVE  IInv'
<1>a. l \in Thread /\ UNCHANGED <<usb, interface, uid, pending, rows, sent, reported, forgotten>>
  BY Threads DEF radio, books
<1>b. UNCHANGED <<radio, books, ledger, batch>>
  OBVIOUS
<1> USE DEF IInv
<1>1. CASE Arrive(l) /\ UNCHANGED <<radio, books, ledger, batch>>
  <2>a. /\ pc[l] = "idle" /\ Goto(l, "hear") /\ UNCHANGED <<shared, calls>>
        /\ packets < MaxPackets /\ packets' = packets + 1
    BY <1>1 DEF Arrive
  <2>b. PICK p \in Answers \cup Texts : packet' = [packet EXCEPT ![l] = p]
    BY <1>1 DEF Arrive
  <2>c. p \in Packet
    BY DEF Answers, Texts, Packet, AnyUid, DataOK
  <2>d. UNCHANGED <<state, stop, mutex, depth, input, output>>
    BY <2>a DEF shared
  <2>1. /\ PcOK' /\ UsbInv' /\ BatchInv' /\ LedgerInv'
        /\ pc'[l] = "hear" /\ \A s \in Thread \ {l} : pc'[s] = pc[s]
    BY <1>b, <2>a, <2>d, ListenGoes DEF Hearing
  <2>2. ThreadOK' /\ LockInv'
    BY <1>a, <2>a, <2>d, LockKept DEF ThreadOK, Labels, Holds, Hearing
  <2>3. DataOK'
    <3>1. packets' \in 0..MaxPackets
      BY <2>a, WireAssumption DEF DataOK
    <3> QED
      BY <1>a, <2>a, <2>b, <2>c, <3>1 DEF DataOK
  <2>4. \A m \in Listener \ {l} : packet'[m] = packet[m] /\ m \in Thread /\ pc'[m] = pc[m]
    BY <2>b, <2>1, Threads DEF DataOK
  <2>5. packet'[l] = p
    BY <2>b DEF DataOK
  <2>6. InHand'
    BY <1>a, <2>c, <2>1, <2>4, <2>5 DEF InHand
  <2>7. SentInv'
    <3>1. Accounted'
      <4>1. \A s \in Thread : pc[s] = "send_add" => pc'[s] = "send_add"
        BY <2>a, <2>1
      <4>2. \A m \in Listener : pc[m] = "remove" => pc'[m] = "remove" /\ packet'[m] = packet[m]
        BY <2>a, <2>4
      <4> QED
        BY <1>a, <4>1, <4>2 DEF SentInv, Accounted
    <3> QED
      BY <1>a, <2>1, <2>4, <3>1 DEF SentInv
  <2> QED
    BY <2>1, <2>2, <2>3, <2>6, <2>7
<1>2. CASE HearAnswer(l) /\ UNCHANGED <<radio, books, ledger, bounds, batch>>
  <2>a. /\ pc[l] = "hear" /\ packet[l].uid \in pending /\ Lock(l) /\ Goto(l, "report")
        /\ UNCHANGED <<state, stop, input, output, packet>>
    BY <1>2 DEF HearAnswer, IsAnswer
  <2>1. /\ PcOK' /\ UsbInv' /\ BatchInv' /\ LedgerInv'
        /\ pc'[l] = "report" /\ \A s \in Thread \ {l} : pc'[s] = pc[s]
    BY <1>b, <2>a, ListenGoes DEF Hearing
  <2>2. ThreadOK' /\ LockInv' /\ mutex = NoThread
    BY <1>a, <2>a, LockTaken DEF ThreadOK, Labels, Holds, Hearing
  <2>3. DataOK'
    BY <1>2, <2>a, DataKept
  <2>4. \A m \in Listener \ {l} : m \in Thread /\ pc'[m] = pc[m]
    BY <2>1, Threads
  <2>5. InHand'
    BY <1>a, <2>a, <2>1, <2>4 DEF InHand
  <2>6. \A m \in Listener : pc[m] # "remove"
    BY <2>a, <2>2, Alone
  <2>7. \A s \in Thread : pc'[s] = "send_add" <=> pc[s] = "send_add"
    BY <2>a, <2>1
  <2>8. SentInv'
    <3>1. Accounted'
      BY <1>a, <2>a, <2>6, <2>7 DEF SentInv, Accounted
    <3>2. packet[l].uid \in Uid => reported[packet[l].uid] = <<>>
      BY <2>a, <2>6 DEF SentInv, Accounted
    <3> QED
      BY <1>a, <2>a, <2>1, <2>4, <2>6, <2>7, <3>1, <3>2 DEF SentInv
  <2> QED
    BY <2>1, <2>2, <2>3, <2>5, <2>8
<1>3. CASE HearText(l) /\ UNCHANGED <<radio, books, ledger, bounds, batch>>
  <2>a. /\ pc[l] = "hear" /\ Lock(l) /\ Goto(l, "store")
        /\ UNCHANGED <<state, stop, input, output, packet>>
    BY <1>3 DEF HearText
  <2>1. PcOK' /\ UsbInv' /\ BatchInv' /\ LedgerInv'
    BY <1>b, <2>a, ListenGoes DEF Hearing
  <2>2. ThreadOK' /\ LockInv'
    BY <1>a, <2>a, LockTaken DEF ThreadOK, Labels, Holds, Hearing
  <2>3. DataOK'
    BY <1>3, <2>a, DataKept
  <2>4. SentInv' /\ InHand'
    BY <1>a, <1>b, <2>a, MessagesKept DEF Labels
  <2> QED
    BY <2>1, <2>2, <2>3, <2>4
<1>4. CASE /\ HearNothing(l) \/ StoreFails(l) \/ TellText(l)
           /\ UNCHANGED <<radio, books, ledger, bounds, batch>>
  <2>a. /\ pc[l] \in {"hear", "store", "tell"} /\ Goto(l, "idle")
        /\ packet' = [packet EXCEPT ![l] = NoPacket]
        /\ UNCHANGED <<state, stop, input>>
        /\ pc[l] = "hear" => UNCHANGED <<mutex, depth>>
        /\ pc[l] # "hear" => Unlock(l)
    BY <1>4 DEF HearNothing, StoreFails, TellText, Done, shared
  <2>b. output' \in Seq(Item) /\ Len(output') <= MaxOut
    <3>1. CASE UNCHANGED output
      BY <3>1 DEF ThreadOK
    <3>2. CASE output' = Pushed(output, "incoming_message", MaxOut)
      BY <3>2, PushedProperties, IOThreadAssumption DEF ThreadOK, Item
    <3> QED
      BY <1>4, <3>1, <3>2 DEF HearNothing, StoreFails, TellText, shared
  <2>1. /\ PcOK' /\ UsbInv' /\ BatchInv' /\ LedgerInv'
        /\ pc'[l] = "idle" /\ \A s \in Thread \ {l} : pc'[s] = pc[s]
    BY <1>b, <2>a, ListenGoes
  <2>2. ThreadOK' /\ LockInv'
    BY <1>a, <2>a, <2>b, LockKept, LockGiven DEF ThreadOK, Labels, Holds, Hearing
  <2>3. DataOK'
    BY <1>4, <2>a DEF DataOK, radio, books, bounds
  <2>4. \A m \in Listener \ {l} : packet'[m] = packet[m] /\ m \in Thread /\ pc'[m] = pc[m]
    BY <2>a, <2>1, Threads DEF DataOK
  <2>5. InHand'
    BY <1>a, <2>1, <2>4 DEF InHand
  <2>6. SentInv'
    <3>1. Accounted'
      <4>1. \A s \in Thread : pc[s] = "send_add" => pc'[s] = "send_add"
        BY <2>a, <2>1
      <4>2. \A m \in Listener : pc[m] = "remove" => pc'[m] = "remove" /\ packet'[m] = packet[m]
        BY <2>a, <2>4
      <4> QED
        BY <1>a, <4>1, <4>2 DEF SentInv, Accounted
    <3> QED
      BY <1>a, <2>1, <2>4, <3>1 DEF SentInv
  <2> QED
    BY <2>1, <2>2, <2>3, <2>5, <2>6
<1> QED
  BY <1>1, <1>2, <1>3, <1>4

\* The listener that has taken a packet for an answer, and the one that stores a text.
LEMMA BooksStep ==
  ASSUME IInv, NEW l \in Listener,
         ReportStatus(l) \/ RemovePending(l) \/ MarkRow(l) \/ StoreText(l),
         UNCHANGED <<radio, ledger, bounds, batch>>
  PROVE  IInv'
<1>a. l \in Thread /\ UNCHANGED <<usb, interface, uid, calls, packets>>
  BY Threads DEF radio, bounds
<1>b. UNCHANGED <<radio, ledger, batch>>
  OBVIOUS
<1> USE DEF IInv
<1>1. CASE ReportStatus(l)
  <2>a. /\ pc[l] = "report" /\ Goto(l, "remove")
        /\ output' = Pushed(output, "outgoing_message_status", MaxOut)
        /\ UNCHANGED <<state, stop, mutex, depth, input, packet, pending, rows, sent, forgotten>>
    BY <1>1 DEF ReportStatus
  <2>b. reported' = [u \in Uid |-> IF u = packet[l].uid
                                   THEN Append(reported[u], Status(packet[l])) ELSE reported[u]]
    BY <1>1 DEF ReportStatus
  <2>1. /\ PcOK' /\ UsbInv' /\ BatchInv' /\ LedgerInv'
        /\ pc'[l] = "remove" /\ \A s \in Thread \ {l} : pc'[s] = pc[s]
    BY <1>b, <2>a, ListenGoes DEF Hearing
  <2>2. ThreadOK' /\ LockInv'
    <3>1. output' \in Seq(Item) /\ Len(output') <= MaxOut
      BY <2>a, PushedProperties, IOThreadAssumption DEF ThreadOK, Item
    <3> QED
      BY <1>a, <2>a, <3>1, LockKept DEF ThreadOK, Labels, Holds, Hearing
  <2>c. /\ packet[l].uid \in pending
        /\ packet[l].uid \in Uid => reported[packet[l].uid] = <<>> /\ packet[l].uid \in sent
    BY <2>a DEF SentInv
  <2>d. Status(packet[l]) \in {"Success", "Error"}
    BY DEF Status
  <2>e. /\ \A u \in Uid : reported[u] \in Seq({"Success", "Error"}) /\ reported'[u] \in Seq({"Success", "Error"})
        /\ \A u \in Uid : u # packet[l].uid => reported'[u] = reported[u]
        /\ packet[l].uid \in Uid => reported'[packet[l].uid] # <<>> /\ Len(reported'[packet[l].uid]) = 1
    <3>1. \A u \in Uid : reported[u] \in Seq({"Success", "Error"})
      BY DEF DataOK
    <3>2. \A u \in Uid : u # packet[l].uid => reported'[u] = reported[u]
      BY <2>b
    <3>3. ASSUME packet[l].uid \in Uid
          PROVE  /\ reported'[packet[l].uid] # <<>> /\ Len(reported'[packet[l].uid]) = 1
                 /\ reported'[packet[l].uid] \in Seq({"Success", "Error"})
      <4>1. reported'[packet[l].uid] = Append(<<>>, Status(packet[l]))
        BY <2>b, <2>c, <3>3
      <4>2. /\ Append(<<>>, Status(packet[l])) \in Seq({"Success", "Error"})
            /\ Len(Append(<<>>, Status(packet[l]))) = 1 /\ Append(<<>>, Status(packet[l])) # <<>>
        BY <2>d
      <4> QED
        BY <4>1, <4>2
    <3> QED
      BY <3>1, <3>2, <3>3
  <2>3. DataOK'
    BY <1>a, <2>a, <2>b, <2>e DEF DataOK
  <2>4. \A m \in Listener \ {l} : m \in Thread /\ pc'[m] = pc[m] /\ pc[m] \notin {"report", "remove"}
    <3>1. \A m \in Listener \ {l} : pc[m] \notin {"report", "remove", "mark", "store", "tell"}
      BY <2>a, Alone DEF Holds, Hearing
    <3> QED
      BY <2>1, <3>1, Threads
  <2>5. InHand'
    BY <1>a, <2>a, <2>1, <2>4 DEF InHand
  <2>6. \A s \in Thread : pc'[s] = "send_add" <=> pc[s] = "send_add"
    BY <2>a, <2>1
  <2>7. SentInv'
    <3>1. Accounted'
      <4>1. ASSUME NEW v \in sent
            PROVE  \/ \E s \in Thread : pc'[s] = "send_add" /\ uid[s] = v
                   \/ v \in pending \cup forgotten
                   \/ reported'[v] # <<>>
        <5>1. v \in Uid
          BY DEF DataOK
        <5> QED
          BY <2>e, <2>6, <5>1 DEF SentInv, Accounted
      <4>2. ASSUME NEW v \in Uid
            PROVE  /\ reported'[v] # <<>> => v \in sent
                   /\ reported'[v] # <<>> /\ v \in pending =>
                        \E m \in Listener : pc'[m] = "remove" /\ packet[m].uid = v
        <5>1. CASE v = packet[l].uid
          BY <2>c, <2>1, <5>1
        <5>2. CASE v # packet[l].uid
          BY <2>e, <2>4, <2>a, <5>2 DEF SentInv, Accounted
        <5> QED
          BY <5>1, <5>2
      <4> QED
        BY <1>a, <2>a, <4>1, <4>2 DEF Accounted
    <3>2. \A u \in Uid : Len(reported'[u]) <= 1 /\ (u \in pending => u \in sent)
      BY <2>e DEF SentInv
    <3>3. \A s \in Thread : pc'[s] = "send_add" /\ uid[s] \in Uid =>
            uid[s] \in sent \ pending /\ reported'[uid[s]] = <<>>
      BY <2>c, <2>e, <2>6 DEF SentInv
    <3>4. \A m \in Listener : pc'[m] = "report" => FALSE
      BY <2>1, <2>4
    <3>5. \A m \in Listener : pc'[m] = "remove" /\ packet[m].uid \in Uid => reported'[packet[m].uid] # <<>>
      BY <2>e, <2>4
    <3> QED
      BY <1>a, <2>a, <3>1, <3>2, <3>3, <3>4, <3>5 DEF SentInv
  <2> QED
    BY <2>1, <2>2, <2>3, <2>5, <2>7
<1>2. CASE RemovePending(l)
  <2>a. /\ pc[l] = "remove" /\ Goto(l, "mark") /\ pending' = pending \ {packet[l].uid}
        /\ UNCHANGED <<shared, packet, rows, sent, reported, forgotten>>
    BY <1>2 DEF RemovePending
  <2>b. UNCHANGED <<state, stop, mutex, depth, input, output>>
    BY <2>a DEF shared
  <2>1. /\ PcOK' /\ UsbInv' /\ BatchInv' /\ LedgerInv'
        /\ pc'[l] = "mark" /\ \A s \in Thread \ {l} : pc'[s] = pc[s]
    BY <1>b, <2>a, <2>b, ListenGoes DEF Hearing
  <2>2. ThreadOK' /\ LockInv'
    BY <1>a, <2>a, <2>b, LockKept DEF ThreadOK, Labels, Holds, Hearing
  <2>3. DataOK'
    BY <1>a, <2>a DEF DataOK
  <2>c. packet[l].uid \in Uid => reported[packet[l].uid] # <<>>
    BY <2>a DEF SentInv
  <2>4. \A m \in Listener \ {l} : m \in Thread /\ pc'[m] = pc[m] /\ pc[m] \notin {"report", "remove"}
    <3>1. \A m \in Listener \ {l} : pc[m] \notin {"report", "remove", "mark", "store", "tell"}
      BY <2>a, Alone DEF Holds, Hearing
    <3> QED
      BY <2>1, <3>1, Threads
  <2>5. InHand'
    BY <1>a, <2>a, <2>1, <2>4 DEF InHand
  <2>6. \A s \in Thread : pc'[s] = "send_add" <=> pc[s] = "send_add"
    BY <2>a, <2>1
  <2>7. SentInv'
    <3>1. Accounted'
      <4>1. ASSUME NEW v \in sent
            PROVE  \/ \E s \in Thread : pc'[s] = "send_add" /\ uid[s] = v
                   \/ v \in pending' \cup forgotten
                   \/ reported[v] # <<>>
        <5>1. v \in Uid
          BY DEF DataOK
        <5> QED
          BY <2>a, <2>c, <2>6, <5>1 DEF SentInv, Accounted
      <4>2. ASSUME NEW v \in Uid
            PROVE  /\ reported[v] # <<>> => v \in sent
                   /\ ~(reported[v] # <<>> /\ v \in pending')
        BY <2>a, <2>4 DEF SentInv, Accounted
      <4> QED
        BY <1>a, <2>a, <4>1, <4>2 DEF Accounted
    <3>2. \A m \in Listener : pc'[m] \notin {"report", "remove"}
      BY <2>1, <2>4
    <3> QED
      BY <1>a, <2>a, <2>6, <3>1, <3>2 DEF SentInv
  <2> QED
    BY <2>1, <2>2, <2>3, <2>5, <2>7
<1>3. CASE MarkRow(l)
  <2>a. /\ pc[l] = "mark" /\ Goto(l, "idle") /\ Unlock(l)
        /\ packet' = [packet EXCEPT ![l] = NoPacket]
        /\ UNCHANGED <<state, stop, input, output, pending, sent, reported, forgotten>>
    BY <1>3 DEF MarkRow, Done
  <2>b. rows' \subseteq Row
    <3>1. rows' = {IF r.message_uid = packet[l].uid /\ r.delivered = "None"
                   THEN [r EXCEPT !.delivered = Status(packet[l])] ELSE r : r \in rows}
      BY <1>3 DEF MarkRow
    <3>2. \A r \in Row : [r EXCEPT !.delivered = Status(packet[l])] \in Row
      BY DEF Row, Status
    <3> QED
      BY <3>1, <3>2 DEF DataOK
  <2>1. /\ PcOK' /\ UsbInv' /\ BatchInv' /\ LedgerInv'
        /\ pc'[l] = "idle" /\ \A s \in Thread \ {l} : pc'[s] = pc[s]
    BY <1>b, <2>a, ListenGoes
  <2>2. ThreadOK' /\ LockInv'
    BY <1>a, <2>a, LockGiven DEF ThreadOK, Labels, Holds, Hearing
  <2>3. DataOK'
    BY <1>a, <2>a, <2>b DEF DataOK
  <2>4. \A m \in Listener \ {l} : packet'[m] = packet[m] /\ m \in Thread /\ pc'[m] = pc[m]
    BY <2>a, <2>1, Threads DEF DataOK
  <2>5. InHand'
    BY <1>a, <2>1, <2>4 DEF InHand
  <2>6. SentInv'
    <3>1. Accounted'
      <4>1. \A s \in Thread : pc[s] = "send_add" => pc'[s] = "send_add"
        BY <2>a, <2>1
      <4>2. \A m \in Listener : pc[m] = "remove" => pc'[m] = "remove" /\ packet'[m] = packet[m]
        BY <2>a, <2>4
      <4> QED
        BY <1>a, <2>a, <4>1, <4>2 DEF SentInv, Accounted
    <3> QED
      BY <1>a, <2>a, <2>1, <2>4, <3>1 DEF SentInv
  <2> QED
    BY <2>1, <2>2, <2>3, <2>5, <2>6
<1>4. CASE StoreText(l)
  <2>a. /\ pc[l] = "store" /\ Goto(l, "tell")
        /\ UNCHANGED <<shared, packet, pending, sent, reported, forgotten>>
    BY <1>4 DEF StoreText
  <2>b. UNCHANGED <<state, stop, mutex, depth, input, output>>
    BY <2>a DEF shared
  <2>1. /\ PcOK' /\ UsbInv' /\ BatchInv' /\ LedgerInv'
        /\ pc'[l] = "tell" /\ \A s \in Thread \ {l} : pc'[s] = pc[s]
    BY <1>b, <2>a, <2>b, ListenGoes DEF Hearing
  <2>2. ThreadOK' /\ LockInv'
    BY <1>a, <2>a, <2>b, LockKept DEF ThreadOK, Labels, Holds, Hearing
  <2>c. packet[l].uid \in AnyUid
    <3>1. packet[l] \in Packet
      BY <2>a DEF InHand
    <3> QED
      BY <3>1 DEF Packet
  <2>3. DataOK'
    <3>1. rows' = rows \cup {[of |-> packet[l].uid, message_uid |-> packet[l].uid,
                              delivered |-> "Success"]}
      BY <1>4 DEF StoreText
    <3>2. rows' \subseteq Row
      BY <2>c, <3>1 DEF Row, DataOK
    <3> QED
      BY <1>a, <2>a, <3>2 DEF DataOK
  <2>4. \A s \in Thread : pc'[s] \in {"send_add", "report", "remove"} \/ pc[s] \in {"send_add", "report", "remove"}
                            => pc'[s] = pc[s]
    BY <2>a, <2>1
  <2>5. /\ \A m \in Listener : m \in Thread /\ (pc'[m] # "idle" => pc[m] # "idle")
        /\ \A s \in Thread : pc'[s] = "send_row" => pc[s] = "send_row"
    BY <2>a, <2>1, Threads
  <2>6. InHand'
    BY <1>a, <2>a, <2>4, <2>5 DEF InHand
  <2>7. SentInv'
    <3>1. Accounted'
      BY <1>a, <2>a, <2>4, <2>5 DEF SentInv, Accounted
    <3> QED
      BY <1>a, <2>a, <2>4, <2>5, <3>1 DEF SentInv
  <2> QED
    BY <2>1, <2>2, <2>3, <2>6, <2>7
<1> QED
  BY <1>1, <1>2, <1>3, <1>4

\* Where finalize may go on.
LEMMA FinalizeGoes ==
  ASSUME IInv, NEW t \in {Worker} \cup Stopper, pc[t] \in Finalizing,
         NEW label \in Finalizing, Goto(t, label), UNCHANGED <<usb, batch>>
  PROVE  PcOK' /\ UsbInv' /\ BatchInv'
<1>a. t \in Thread /\ t \notin Client \cup Listener
  BY Threads
<1>1. PcOK'
  BY <1>a, Threads DEF IInv, PcOK, Goto, Labels, Sending, Hearing, Holding, Finalizing, FinalizeLabels
<1>2. UsbInv'
  BY <1>a, UsbKept DEF IInv, Labels, Holding, Finalizing, FinalizeLabels
<1>3. BatchInv'
  <2>1. CASE t = Worker
    <3>1. pc'[Worker] = label
      BY <1>a, <2>1 DEF IInv, PcOK, Goto
    <3> QED
      BY <2>1, <3>1 DEF IInv, BatchInv, Sending, Finalizing, Holding, FinalizeLabels
  <2>2. CASE t # Worker
    BY <1>a, <2>2, BatchKept
  <2> QED
    BY <2>1, <2>2
<1> QED
  BY <1>1, <1>2, <1>3

\* finalize: while it clears the pending ids no listener is at work on one of them,
\* and every command it drops is booked as discarded.
LEMMA FinalizeStep ==
  ASSUME IInv, NEW t \in {Worker} \cup Stopper, Finalize(t)
  PROVE  IInv'
<1>a. t \in Thread /\ t \notin Client \cup Listener
  BY Threads
<1>b. UNCHANGED <<bounds, packet>>
  BY DEF Finalize
<1> USE DEF IInv
<1>1. CASE FinalizeLock(t) /\ UNCHANGED <<radio, books, ledger, bounds, batch, packet>>
  <2>a. pc[t] = "finalize" /\ Lock(t) /\ Goto(t, "super") /\ UNCHANGED <<state, stop, input, output, usb, uid>>
    BY <1>1 DEF FinalizeLock, radio
  <2>1. PcOK' /\ UsbInv' /\ BatchInv'
    BY <1>1, <2>a, FinalizeGoes DEF Finalizing, FinalizeLabels
  <2>2. ThreadOK' /\ LockInv'
    BY <1>a, <2>a, LockTaken DEF ThreadOK, Labels, FinalizeLabels, Holds, Hearing
  <2>3. DataOK' /\ LedgerInv'
    BY <1>1, <2>a, DataKept, LedgerKept
  <2>4. SentInv' /\ InHand'
    BY <1>1, <1>a, <2>a, MessagesKept DEF Labels, FinalizeLabels
  <2> QED
    BY <2>1, <2>2, <2>3, <2>4
<1>2. CASE BaseStep(t) /\ UNCHANGED <<radio, books, ledger, bounds, batch, packet>>
  <2>a. UNCHANGED <<usb, uid, batch>>
    BY <1>2 DEF radio
  <2>1. CASE FinalizeEnter(t)
    <3> DEFINE label == IF state = "FINALIZING" THEN "drop_input" ELSE "signal"
    <3>a. /\ pc[t] = "super" /\ Lock(t) /\ Goto(t, label) /\ state' = "FINALIZING"
          /\ UNCHANGED <<stop, input, output>>
      BY <2>1 DEF FinalizeEnter
    <3>b. label \in {"drop_input", "signal"}
      OBVIOUS
    <3> HIDE DEF label
    <3>1. PcOK' /\ UsbInv' /\ BatchInv'
      BY <2>a, <3>a, <3>b, FinalizeGoes DEF Finalizing, FinalizeLabels
    <3>2. ThreadOK'
      BY <3>a DEF ThreadOK, States
    <3>3. LockInv'
      <4>1. label \in Labels /\ Holds(label) = 2 /\ Holds(pc[t]) = 1
        BY <3>a, <3>b DEF Labels, FinalizeLabels, Holds, Hearing
      <4> QED
        BY <1>a, <3>a, <4>1, LockTakenAgain
    <3>4. DataOK' /\ LedgerInv'
      BY <1>2, <3>a, DataKept, LedgerKept
    <3>5. SentInv' /\ InHand'
      BY <1>2, <1>a, <2>a, <3>a, <3>b, MessagesKept DEF Labels, FinalizeLabels
    <3> QED
      BY <3>1, <3>2, <3>3, <3>4, <3>5
  <2>2. CASE FinalizeSignal(t)
    <3>a. /\ pc[t] = "signal" /\ Goto(t, "drop_input") /\ stop' = TRUE
          /\ UNCHANGED <<state, mutex, depth, input, output>>
      BY <2>2 DEF FinalizeSignal
    <3>1. PcOK' /\ UsbInv' /\ BatchInv'
      BY <2>a, <3>a, FinalizeGoes DEF Finalizing, FinalizeLabels
    <3>2. ThreadOK' /\ LockInv'
      BY <1>a, <3>a, LockKept DEF ThreadOK, Labels, FinalizeLabels, Holds
    <3>3. DataOK' /\ LedgerInv'
      BY <1>2, <3>a, DataKept, LedgerKept
    <3>4. SentInv' /\ InHand'
      BY <1>2, <1>a, <2>a, <3>a, MessagesKept DEF Labels, FinalizeLabels
    <3> QED
      BY <3>1, <3>2, <3>3, <3>4
  <2>3. CASE FinalizeDropOutput(t)
    <3>a. /\ pc[t] = "drop_output" /\ Goto(t, "final") /\ output' = <<>>
          /\ UNCHANGED <<state, stop, mutex, depth, input>>
      BY <2>3 DEF FinalizeDropOutput
    <3>1. PcOK' /\ UsbInv' /\ BatchInv'
      BY <2>a, <3>a, FinalizeGoes DEF Finalizing, FinalizeLabels
    <3>2. ThreadOK'
      <4>1. <<>> \in Seq(Item) /\ Len(<<>>) = 0
        BY EmptySeq
      <4> QED
        BY <3>a, <4>1, IOThreadAssumption DEF ThreadOK
    <3>3. LockInv'
      BY <1>a, <3>a, LockKept DEF Labels, FinalizeLabels, Holds
    <3>4. DataOK' /\ LedgerInv'
      BY <1>2, <3>a, DataKept, LedgerKept
    <3>5. SentInv' /\ InHand'
      BY <1>2, <1>a, <2>a, <3>a, MessagesKept DEF Labels, FinalizeLabels
    <3> QED
      BY <3>1, <3>2, <3>3, <3>4, <3>5
  <2>4. CASE FinalizeLeave(t)
    <3>a. /\ pc[t] = "final" /\ Goto(t, "finalized") /\ Unlock(t) /\ state' = "FINALIZED"
          /\ UNCHANGED <<stop, input, output>>
      BY <2>4 DEF FinalizeLeave
    <3>1. PcOK' /\ UsbInv' /\ BatchInv'
      BY <2>a, <3>a, FinalizeGoes DEF Finalizing, FinalizeLabels
    <3>2. ThreadOK' /\ LockInv'
      BY <1>a, <3>a, LockGiven DEF ThreadOK, States, Labels, FinalizeLabels, Holds
    <3>3. DataOK' /\ LedgerInv'
      BY <1>2, <3>a, DataKept, LedgerKept
    <3>4. SentInv' /\ InHand'
      BY <1>2, <1>a, <2>a, <3>a, MessagesKept DEF Labels, FinalizeLabels
    <3> QED
      BY <3>1, <3>2, <3>3, <3>4
  <2> QED
    BY <1>2, <2>1, <2>2, <2>3, <2>4 DEF BaseStep
<1>3. CASE DropInput(t) /\ UNCHANGED <<radio, books, bounds, batch, packet>>
  <2>a. /\ pc[t] = "drop_input" /\ Goto(t, "drop_output") /\ input' = <<>>
        /\ discarded' = discarded + Sends(input)
        /\ UNCHANGED <<state, stop, mutex, depth, output, usb, uid, asked, answered>>
    BY <1>3 DEF DropInput, FinalizeDropInput, radio
  <2>1. PcOK' /\ UsbInv' /\ BatchInv'
    BY <1>3, <2>a, FinalizeGoes DEF Finalizing, FinalizeLabels
  <2>2. ThreadOK'
    <3>1. <<>> \in Seq(Commands) /\ Len(<<>>) = 0
      BY EmptySeq
    <3> QED
      BY <2>a, <3>1, IOThreadAssumption DEF ThreadOK
  <2>3. LockInv'
    BY <1>a, <2>a, LockKept DEF Labels, FinalizeLabels, Holds
  <2>4. DataOK'
    BY <1>3, DataKept
  <2>5. LedgerInv'
    <3>1. Sends(input) \in Nat /\ Sends(batch) \in Nat /\ Sends(<<>>) = 0
      BY SendsType, SendsFew DEF ThreadOK, BatchInv
    <3>2. discarded' \in Nat /\ batch' = batch
      BY <1>3, <2>a, <3>1 DEF LedgerInv
    <3> QED
      BY <2>a, <3>1, <3>2 DEF LedgerInv, CommandsAccounted
  <2>6. SentInv' /\ InHand'
    BY <1>3, <1>a, <2>a, MessagesKept DEF Labels, FinalizeLabels
  <2> QED
    BY <2>1, <2>2, <2>3, <2>4, <2>5, <2>6
<1>4. CASE ClearPending(t) /\ UNCHANGED <<radio, ledger, bounds, batch, packet>>
  <2>a. /\ pc[t] = "finalized" /\ Goto(t, "close_port")
        /\ pending' = {} /\ forgotten' = forgotten \cup pending
        /\ UNCHANGED <<shared, rows, sent, reported, usb, interface, uid>>
    BY <1>4 DEF ClearPending, radio
  <2>b. UNCHANGED <<state, stop, mutex, depth, input, output>>
    BY <2>a DEF shared
  <2>1. PcOK' /\ UsbInv' /\ BatchInv'
    BY <1>4, <2>a, FinalizeGoes DEF Finalizing, FinalizeLabels
  <2>2. ThreadOK' /\ LockInv'
    BY <1>a, <2>a, <2>b, LockKept DEF ThreadOK, Labels, Holds
  <2>3. DataOK' /\ LedgerInv'
    <3>1. DataOK'
      BY <1>4, <2>a DEF DataOK, bounds
    <3> QED
      BY <1>4, <2>b, <3>1, LedgerKept
  <2>4. \A l \in Listener : l \in Thread /\ l # t /\ pc'[l] = pc[l] /\ pc[l] \notin {"report", "remove"}
    <3>1. mutex = t
      BY <1>a, <2>a DEF LockInv, Holds
    <3>2. \A l \in Listener : l \in Thread /\ l # t /\ Holds(pc[l]) = 0
      BY <1>a, <3>1, Threads DEF LockInv
    <3>3. \A l \in Listener : pc[l] \notin {"report", "remove"}
      BY <3>2 DEF Holds, Hearing
    <3> QED
      BY <2>a, <3>2, <3>3 DEF PcOK, Goto
  <2>5. \A s \in Thread : pc'[s] \in {"send_add", "send_row"} <=> pc[s] \in {"send_add", "send_row"}
    BY <2>a DEF PcOK, Goto
  <2>6. \A s \in Thread : pc'[s] = "send_add" <=> pc[s] = "send_add"
    BY <2>a DEF PcOK, Goto
  <2>7. InHand'
    BY <1>b, <2>a, <2>4, <2>5 DEF InHand
  <2>8. SentInv'
    <3>1. Accounted'
      BY <1>b, <2>a, <2>6 DEF SentInv, Accounted
    <3> QED
      BY <1>b, <2>a, <2>4, <2>6, <3>1 DEF SentInv
  <2> QED
    BY <2>1, <2>2, <2>3, <2>7, <2>8
<1>5. CASE ClosePort(t) /\ UNCHANGED <<books, ledger, bounds, packet>>
  <2> DEFINE label == IF t = Worker THEN "handle" ELSE "gone"
  <2>a. /\ pc[t] = "close_port" /\ Goto(t, label) /\ Unlock(t)
        /\ stop' = TRUE /\ interface' = FALSE
        /\ batch' = IF t = Worker THEN Tail(batch) ELSE batch
        /\ UNCHANGED <<state, input, output, usb, uid>>
    BY <1>5 DEF ClosePort
  <2>b. t = Worker => label = "handle"
    OBVIOUS
  <2>c. t # Worker => label = "gone" /\ t \in Stopper
    BY <1>a
  <2> HIDE DEF label
  <2>1. PcOK' /\ pc'[t] = label
    BY <1>a, <2>a, <2>b, <2>c, Threads DEF PcOK, Goto, Labels, Hearing, Sending, Holding
  <2>2. ThreadOK'
    BY <2>a DEF ThreadOK
  <2>3. LockInv' /\ UsbInv'
    <3>1. label \in Labels \ Holding /\ Holds(label) = 0 /\ Holds(pc[t]) = 1 /\ pc[t] \notin Holding
      BY <2>a, <2>b, <2>c DEF Labels, Holding, Holds, Hearing
    <3> QED
      BY <1>a, <2>a, <3>1, LockGiven, UsbKept
  <2>4. DataOK'
    BY <1>5, <2>a DEF DataOK, books, bounds
  <2>5. BatchInv' /\ LedgerInv'
    <3>1. CASE t = Worker
      <4>1. batch # <<>> /\ Head(batch) = "stop" /\ batch \in Seq(Commands)
        BY <2>a, <3>1 DEF BatchInv, Finalizing
      <4>2. /\ Head(batch) \in Commands /\ Tail(batch) \in Seq(Commands)
            /\ Len(Tail(batch)) = Len(batch) - 1
            /\ Sends(batch) = Sends(<<Head(batch)>>) + Sends(Tail(batch))
        BY <4>1, SendsTail
      <4>3. Sends(<<Head(batch)>>) = 0 /\ Sends(Tail(batch)) \in Nat
        BY <4>1, <4>2, SendsFew, SendsType
      <4>4. LedgerInv'
        BY <1>5, <2>a, <3>1, <4>2, <4>3 DEF LedgerInv, CommandsAccounted, ledger
      <4>5. Len(batch') <= BatchSize
        BY <2>a, <3>1, <4>1, <4>2, LenProperties DEF BatchInv, BatchSize
      <4>6. BatchInv'
        BY <2>a, <2>b, <2>1, <3>1, <4>2, <4>5 DEF BatchInv, Sending, Finalizing, Holding, FinalizeLabels
      <4> QED
        BY <4>4, <4>6
    <3>2. CASE t # Worker
      BY <1>5, <1>a, <2>a, <3>2, BatchKept, LedgerKept
    <3> QED
      BY <3>1, <3>2
  <2>6. SentInv' /\ InHand'
    <3>1. label \in Labels /\ label \notin {"send_add", "send_row", "report", "remove"}
      BY <2>b, <2>c DEF Labels
    <3> QED
      BY <1>5, <1>a, <2>a, <3>1, MessagesKept
  <2> QED
    BY <2>1, <2>2, <2>3, <2>4, <2>5, <2>6
<1> QED
  BY <1>1, <1>2, <1>3, <1>4, <1>5 DEF Finalize

\* A call of finalize begins.
LEMMA CallFinalizeStep ==
  ASSUME IInv, NEW s \in Stopper, CallFinalize(s),
         UNCHANGED <<radio, books, ledger, bounds, batch, packet>>
  PROVE  IInv'
<1>a. s \in Thread /\ s \notin {Worker} \cup Client \cup Listener
  BY Threads
<1>b. /\ pc[s] = "idle" /\ Goto(s, "finalize")
      /\ UNCHANGED <<state, stop, mutex, depth, input, output, usb, uid>>
  BY DEF CallFinalize, shared, radio
<1> USE DEF IInv
<1>1. ThreadOK' /\ DataOK' /\ LedgerInv' /\ BatchInv'
  BY <1>a, <1>b, DataKept, LedgerKept, BatchKept DEF ThreadOK
<1>2. PcOK'
  BY <1>a, <1>b, Threads DEF PcOK, Goto, Labels, Finalizing, Hearing
<1>3. LockInv' /\ UsbInv'
  BY <1>a, <1>b, LockKept, UsbKept DEF Labels, Holding, Holds, Hearing
<1>4. SentInv' /\ InHand'
  BY <1>a, <1>b, MessagesKept DEF Labels
<1> QED
  BY <1>1, <1>2, <1>3, <1>4

\* The clients' calls: a command that is queued, and the one that a full queue
\* forgets for it, are both booked.
LEMMA RequestStep ==
  ASSUME IInv, NEW c \in Client, Request(c)
  PROVE  IInv'
<1>a. c \in Thread /\ c \notin {Worker} \cup Listener \cup Stopper
  BY Threads
<1>b. UNCHANGED <<radio, books, packets, batch, packet>> /\ UNCHANGED <<usb, interface, uid>>
  BY DEF Request, radio
<1>c. UNCHANGED <<pending, rows, sent, reported, forgotten>>
  BY <1>b DEF books
<1> USE DEF IInv
<1>1. CASE CallSend(c)
  <2>a. /\ pc[c] = "idle" /\ Goto(c, "send_lock") /\ UNCHANGED <<shared, ledger>>
        /\ calls < MaxCalls /\ calls' = calls + 1
    BY <1>1 DEF CallSend
  <2>b. UNCHANGED <<state, stop, mutex, depth, input, output>>
    BY <2>a DEF shared
  <2>1. ThreadOK' /\ BatchInv' /\ LedgerInv'
    BY <1>a, <1>b, <2>a, <2>b, BatchKept, LedgerKept DEF ThreadOK
  <2>2. DataOK'
    <3>1. calls' \in 0..MaxCalls
      BY <2>a, WireAssumption DEF DataOK
    <3> QED
      BY <1>b, <1>c, <3>1 DEF DataOK
  <2>3. PcOK'
    BY <1>a, <2>a, Threads DEF PcOK, Goto, Labels, Sending, Hearing
  <2>4. LockInv' /\ UsbInv'
    BY <1>a, <1>b, <2>a, <2>b, LockKept, UsbKept DEF Labels, Holding, Holds, Hearing
  <2>5. SentInv' /\ InHand'
    BY <1>a, <1>b, <2>a, MessagesKept DEF Labels
  <2> QED
    BY <2>1, <2>2, <2>3, <2>4, <2>5
<1>2. CASE GetMessages(c)
  <2>a. UNCHANGED <<state, stop, mutex, depth, input, pc, calls, ledger>>
    BY <1>2 DEF GetMessages
  <2>1. output' \in Seq(Item) /\ Len(output') <= MaxOut
    <3>1. PICK n \in 1..Len(output) : output' = Rest(output, n)
      BY <1>2 DEF GetMessages
    <3>2. Len(output) \in Nat /\ \A i \in 1..Len(output) : output[i] \in Item
      BY LenProperties, ElementOfSeq DEF ThreadOK
    <3>3. Rest(output, n) \in Seq(Item) /\ Len(Rest(output, n)) <= Len(output)
      BY <3>2, SubSeqProperties DEF Rest
    <3>4. Len(Rest(output, n)) \in Nat /\ MaxOut \in Nat
      BY <3>3, LenProperties, IOThreadAssumption
    <3> QED
      BY <3>1, <3>2, <3>3, <3>4 DEF ThreadOK
  <2>2. ThreadOK' /\ DataOK' /\ LedgerInv'
    BY <1>b, <1>c, <2>a, <2>1, LedgerKept DEF ThreadOK, DataOK
  <2>3. PcOK' /\ LockInv' /\ UsbInv' /\ BatchInv'
    BY <1>b, <2>a DEF PcOK, LockInv, UsbInv, BatchInv
  <2>4. InHand'
    BY <1>b, <2>a DEF InHand
  <2>5. SentInv'
    BY <1>b, <1>c, <2>a DEF SentInv, Accounted
  <2> QED
    BY <2>2, <2>3, <2>4, <2>5
<1>3. CASE Command(c)
  <2>a. /\ UNCHANGED <<state, stop, mutex, depth, output, pc, answered>>
        /\ calls < MaxCalls /\ calls' = calls + 1
    BY <1>3 DEF Command
  <2>b. PICK command \in Commands :
          /\ input' = Pushed(input, command, MaxIn)
          /\ asked' = asked + Sends(<<command>>)
          /\ discarded' = discarded + Sends(input) + Sends(<<command>>) - Sends(input')
    BY <1>3 DEF Command
  <2>1. input' \in Seq(Commands) /\ Len(input') <= MaxIn
    BY <2>b, PushedProperties, IOThreadAssumption DEF ThreadOK
  <2>2. ThreadOK'
    BY <2>a, <2>1 DEF ThreadOK
  <2>3. DataOK'
    <3>1. calls' \in 0..MaxCalls
      BY <2>a, WireAssumption DEF DataOK
    <3> QED
      BY <1>b, <1>c, <3>1 DEF DataOK
  <2>4. LedgerInv'
    <3>1. Sends(input) \in Nat /\ Sends(<<command>>) \in Nat /\ Sends(input') \in Nat /\ Sends(batch) \in Nat
      BY <2>1, SendsType, SendsFew DEF ThreadOK, BatchInv
    <3>2. Sends(input') <= Sends(input) + Sends(<<command>>)
      <4>1. CASE Len(input) < MaxIn
        <5>1. Sends(input') = Sends(input) + Sends(<<command>>)
          BY <2>b, <4>1, SendsAppended DEF Pushed, ThreadOK
        <5> QED
          BY <3>1, <5>1
      <4>2. CASE ~(Len(input) < MaxIn)
        <5>1. input # <<>> /\ input \in Seq(Commands)
          BY <4>2, EmptySeq, IOThreadAssumption DEF ThreadOK
        <5>2. /\ Head(input) \in Commands /\ Tail(input) \in Seq(Commands)
              /\ Sends(input) = Sends(<<Head(input)>>) + Sends(Tail(input))
          BY <5>1, SendsTail
        <5>3. Sends(input') = Sends(Tail(input)) + Sends(<<command>>)
          BY <2>b, <4>2, <5>2, SendsAppended DEF Pushed
        <5>4. Sends(<<Head(input)>>) \in Nat /\ Sends(Tail(input)) \in Nat
          BY <5>2, SendsType, SendsFew
        <5> QED
          BY <3>1, <5>2, <5>3, <5>4
      <4> QED
        BY <4>1, <4>2
    <3> QED
      BY <1>b, <2>a, <2>b, <3>1, <3>2 DEF LedgerInv, CommandsAccounted
  <2>5. PcOK' /\ LockInv' /\ UsbInv' /\ BatchInv'
    BY <1>b, <2>a DEF PcOK, LockInv, UsbInv, BatchInv
  <2>6. InHand'
    BY <1>b, <2>a DEF InHand
  <2>7. SentInv'
    BY <1>b, <1>c, <2>a DEF SentInv, Accounted
  <2> QED
    BY <2>2, <2>3, <2>4, <2>5, <2>6, <2>7
<1> QED
  BY <1>1, <1>2, <1>3 DEF Request

\* Every step of the service, and the stutter, keeps the invariant.
LEMMA NextInv == IInv /\ [Next]_vars => IInv'
<1> SUFFICES ASSUME IInv, [Next]_vars
             PROVE  IInv'
  OBVIOUS
<1>1. CASE Run
  BY <1>1, RunStep
<1>2. ASSUME NEW t \in {Worker} \cup Client, Send(t)
      PROVE  IInv'
  BY <1>2, SendStep
<1>3. ASSUME NEW c \in Client, Request(c)
      PROVE  IInv'
  BY <1>3, RequestStep
<1>4. ASSUME NEW l \in Listener, Listen(l)
      PROVE  IInv'
  BY <1>4, HearStep, BooksStep DEF Listen
<1>5. ASSUME NEW t \in {Worker} \cup Stopper, Finalize(t)
      PROVE  IInv'
  BY <1>5, FinalizeStep
<1>6. ASSUME NEW s \in Stopper, Stopping(s)
      PROVE  IInv'
  BY <1>5, <1>6, CallFinalizeStep DEF Stopping
<1>7. CASE UNCHANGED vars
  <2>1. /\ UNCHANGED <<state, stop, mutex, depth, input, output, pc>>
        /\ UNCHANGED <<usb, interface, uid, pending, rows, sent, reported, forgotten>>
        /\ UNCHANGED <<asked, answered, discarded, calls, packets, batch, packet>>
    BY <1>7 DEF vars, threadVars, shared, radio, books, ledger, bounds
  <2> USE DEF IInv
  <2>2. ThreadOK' /\ DataOK' /\ PcOK'
    BY <2>1 DEF ThreadOK, DataOK, PcOK
  <2>3. LockInv' /\ UsbInv' /\ BatchInv'
    BY <2>1 DEF LockInv, UsbInv, BatchInv
  <2>4. LedgerInv' /\ InHand' /\ SentInv'
    BY <2>1 DEF LedgerInv, CommandsAccounted, InHand, SentInv, Accounted
  <2> QED
    BY <2>2, <2>3, <2>4
<1> QED
  BY <1>1, <1>2, <1>3, <1>4, <1>5, <1>6, <1>7 DEF Next

\* The invariant holds in every state the service reaches.
LEMMA Invariance == Spec => []IInv
<1> QED
  BY InitInv, NextInv, PTL DEF Spec

-----------------------------------------------------------------------------
(* The theorems.                                                              *)

\* Every variable has its type; _mutex is held at most twice by one thread, and
\* neither the queues nor the batch outgrow their bounds.
THEOREM TypeCorrect == Spec => []TypeOK
<1>1. IInv => TypeOK
  <2> SUFFICES ASSUME IInv
               PROVE  TypeOK
    OBVIOUS
  <2> USE DEF IInv
  <2>1. IOTypeOK
    <3>1. \A label : Holds(label) \in 0..2
      BY DEF Holds
    <3> QED
      BY <3>1 DEF LockInv, ThreadOK, IOTypeOK
  <2>2. \A l \in Listener : packet[l] = NoPacket \/ packet[l].uid \in AnyUid
    <3>1. \A p \in Packet : p.uid \in AnyUid
      BY DEF Packet
    <3> QED
      BY <3>1 DEF DataOK
  <2> QED
    BY <2>1, <2>2 DEF TypeOK, ThreadOK, DataOK, PcOK, UsbInv, BatchInv, LedgerInv, Item, Row
<1> QED
  BY <1>1, Invariance, PTL

\* on_receive_message reports each message of ours at most once, however many answers
\* the library delivers and in however many threads.
THEOREM ReportedOnce == Spec => []StatusOnce
<1>1. IInv => StatusOnce
  BY DEF IInv, SentInv, StatusOnce
<1> QED
  BY <1>1, Invariance, PTL

\* No message whose id the library has returned is lost from the books, and only such are
\* reported.
THEOREM MessagesAccounted == Spec => []Accounted
<1>1. IInv => Accounted
  BY DEF IInv, SentInv
<1> QED
  BY <1>1, Invariance, PTL

\* The send commands accepted are those answered, dropped, queued and in hand.
THEOREM CommandsKept == Spec => []CommandsAccounted
<1>1. IInv => CommandsAccounted
  BY DEF IInv, LedgerInv
<1> QED
  BY <1>1, Invariance, PTL

-----------------------------------------------------------------------------
(* The life of the instance.                                                  *)

\* The labels between the start of run and the end of the thread, and those of a
\* finalize that has changed the state.
Under == {"boot", "assign", "loop", "fetch", "handle", "reply", "close"} \cup Sending \cup Finalizing
Past == {"signal", "drop_input", "drop_output", "final", "finalized", "close_port"}

\* Which states go with each label; a signal means that finalize has begun.
LifeInv ==
  /\ stop => state \notin {"READY", "RUNNING"}
  /\ pc[Worker] \in {"new", "run"} => state \in {"READY", "FINALIZING", "FINALIZED"}
  /\ pc[Worker] \in Under => state \in {"RUNNING", "FINALIZING", "FINALIZED"}
  /\ pc[Worker] = "close" => stop
  /\ \A t \in Thread : pc[t] \in Past => state \notin {"READY", "RUNNING"}

\* A step of the life of the instance, as the core sees it, or none.
LifeStep == [Service!Next]_<<LifeSeen({}), StateSeen>>

\* Neither state nor life changes.
LEMMA LifeKept ==
  ASSUME IInv, LifeInv, UNCHANGED <<state, stop>>,
         NEW t \in Thread, NEW label \in Labels, Goto(t, label),
         t = Worker => pc[t] \in Under /\ label \in Under /\ (label = "close" => stop),
         label \in Past => pc[t] \in Past
  PROVE  LifeInv' /\ LifeStep
<1>a. pc \in [Thread -> Labels] /\ Worker \in Thread
  BY Threads DEF IInv, PcOK
<1>b. pc' = [pc EXCEPT ![t] = label] /\ UNCHANGED <<state, stop>>
  BY DEF Goto
<1>c. Under \cap {"new", "run", "dead"} = {}
  BY DEF Under, Sending, Holding, Finalizing, FinalizeLabels
<1>d. pc'[Worker] # pc[Worker] => /\ pc[Worker] \in Under /\ pc'[Worker] \in Under
                                  /\ pc'[Worker] = "close" => stop
  BY <1>a, <1>b
<1>1. LifeInv'
  <2>1. \A u \in Thread : pc'[u] \in Past => pc[u] \in Past
    BY <1>a, <1>b
  <2> QED
    BY <1>b, <1>c, <1>d, <2>1 DEF LifeInv
<1>2. UNCHANGED LifeSeen({})
  BY <1>c, <1>d DEF LifeSeen
<1>3. UNCHANGED StateSeen
  BY <1>b DEF StateSeen
<1> QED
  BY <1>1, <1>2, <1>3 DEF LifeStep

\* Nothing that matters to it changes.
LEMMA LifeUntouched ==
  ASSUME LifeInv, UNCHANGED <<state, stop, pc>>
  PROVE  LifeInv' /\ LifeStep
  BY DEF LifeInv, LifeStep, LifeSeen, StateSeen

\* run: the thread begins once, and ends finalized or down.
LEMMA RunLife ==
  ASSUME IInv, LifeInv, Run
  PROVE  LifeInv' /\ LifeStep
<1>a. Worker \in Thread /\ pc \in [Thread -> Labels]
  BY Threads DEF IInv, PcOK
<1>1. CASE Start
  <2>1. /\ pc[Worker] = "new" /\ pc' = [pc EXCEPT ![Worker] = "run"]
        /\ UNCHANGED <<state, stop>>
    BY <1>1 DEF Start, Goto, shared
  <2>2. LifeInv'
    BY <1>a, <2>1 DEF LifeInv, Under, Past, Sending, Holding, Finalizing, FinalizeLabels
  <2>3. /\ LifeSeen({}) = "made" /\ LifeSeen({})' = "alive"
        /\ StateSeen' = StateSeen
    BY <1>a, <2>1 DEF LifeSeen, StateSeen
  <2> QED
    BY <2>2, <2>3 DEF LifeStep, Service!Next, Service!StartThread
<1>2. CASE RunReady
  <2>1. /\ pc[Worker] = "run" /\ pc' = [pc EXCEPT ![Worker] = "boot"]
        /\ state = "READY" /\ state' = "RUNNING" /\ stop' = stop
    BY <1>2 DEF RunReady, Goto
  <2>2. LifeInv'
    BY <1>a, <2>1 DEF LifeInv, Under, Past, Sending, Holding, Finalizing, FinalizeLabels
  <2>3. /\ LifeSeen({}) = "alive" /\ LifeSeen({})' = "alive"
        /\ StateSeen = "READY" /\ StateSeen' = "RUNNING"
    BY <1>a, <2>1 DEF LifeSeen, StateSeen
  <2> QED
    BY <2>2, <2>3 DEF LifeStep, Service!Next, Service!Begin
<1>3. CASE RunRefused \/ CloseAtEnd
  <2>1. /\ pc[Worker] \in {"run", "close"} /\ pc' = [pc EXCEPT ![Worker] = "dead"]
        /\ state \in {"FINALIZING", "FINALIZED"} /\ state' = state /\ stop' \in {stop, TRUE}
    BY <1>3 DEF RunRefused, CloseAtEnd, Goto, shared, LifeInv, Under
  <2>2. LifeInv'
    BY <1>a, <2>1 DEF LifeInv, Under, Past, Sending, Holding, Finalizing, FinalizeLabels
  <2>3. /\ LifeSeen({}) = "alive" /\ LifeSeen({})' = "ended"
        /\ StateSeen = "FINALIZED" /\ StateSeen' = StateSeen
    BY <1>a, <2>1 DEF LifeSeen, StateSeen
  <2> QED
    BY <2>2, <2>3 DEF LifeStep, Service!Next, Service!End
<1>4. CASE ConnectFails
  <2>1. /\ pc[Worker] = "boot" /\ pc' = [pc EXCEPT ![Worker] = "dead"]
        /\ state \in {"RUNNING", "FINALIZING", "FINALIZED"}
        /\ state' = "EXTERNAL_ERROR_DOWN" /\ stop' = stop
    BY <1>4 DEF ConnectFails, Goto, LifeInv, Under
  <2>2. LifeInv'
    BY <1>a, <2>1 DEF LifeInv, Under, Past, Sending, Holding, Finalizing, FinalizeLabels
  <2>3. /\ LifeSeen({}) = "alive" /\ LifeSeen({})' = "ended"
        /\ StateSeen \in {"RUNNING", "FINALIZED"} /\ StateSeen' = "DOWN"
    BY <1>a, <2>1 DEF LifeSeen, StateSeen
  <2> QED
    BY <2>2, <2>3 DEF LifeStep, Service!Next, Service!GoDown
<1>5. CASE Connect \/ AssignInterface \/ LoopTest \/ Handle \/ Fetch \/ Reply
  <2>1. PICK label \in {"assign", "loop", "close", "fetch", "handle", "send_lock", "finalize"} :
          Goto(Worker, label) /\ (label = "close" => stop)
    BY <1>5 DEF Connect, AssignInterface, LoopTest, Handle, Fetch, Reply
  <2>2. UNCHANGED <<state, stop>> /\ pc[Worker] \in {"boot", "assign", "loop", "handle", "fetch", "reply"}
    BY <1>5 DEF Connect, AssignInterface, LoopTest, Handle, Fetch, Reply, shared
  <2>3. label \in Labels /\ label \notin Past /\ label \in Under /\ pc[Worker] \in Under
    BY <2>2 DEF Labels, Past, Under, Sending, Finalizing
  <2> QED
    BY <1>a, <2>1, <2>2, <2>3, LifeKept
<1> QED
  BY <1>1, <1>2, <1>3, <1>4, <1>5 DEF Run

\* Those who send, hear and call leave the state alone.
LEMMA OtherLife ==
  ASSUME IInv, LifeInv,
         \/ \E t \in {Worker} \cup Client : Send(t)
         \/ \E l \in Listener : Listen(l)
         \/ \E c \in Client : Request(c)
         \/ \E s \in Stopper : CallFinalize(s)
  PROVE  LifeInv' /\ LifeStep
<1>a. Worker \in Thread /\ pc \in [Thread -> Labels]
  BY Threads DEF IInv, PcOK
<1>1. ASSUME NEW t \in {Worker} \cup Client, Send(t)
      PROVE  LifeInv' /\ LifeStep
  <2>1. PICK label \in {"send_text", "send_add", "send_row", "send_return", "reply", "idle"} :
          Goto(t, label) /\ (label = "idle" => t # Worker)
    BY <1>1 DEF Send, SendLock, SendText, SendFails, SendAdd, SendRow, SendReturn
  <2>2. UNCHANGED <<state, stop>> /\ pc[t] \in Sending
    BY <1>1 DEF Send, SendLock, SendText, SendFails, SendAdd, SendRow, SendReturn, shared, Sending, Holding
  <2>3. label \in Labels /\ label \notin Past /\ t \in Thread
    BY Threads DEF Labels, Past, Holding
  <2>4. t = Worker => pc[t] \in Under /\ label \in Under /\ label # "close"
    BY <2>1, <2>2 DEF Under, Sending, Holding
  <2> QED
    BY <2>1, <2>2, <2>3, <2>4, LifeKept
<1>2. ASSUME NEW l \in Listener, Listen(l)
      PROVE  LifeInv' /\ LifeStep
  <2>1. PICK label \in {"hear", "report", "store", "idle", "remove", "mark", "tell"} : Goto(l, label)
    BY <1>2 DEF Listen, Arrive, HearAnswer, HearText, HearNothing, StoreFails, TellText,
                ReportStatus, RemovePending, MarkRow, StoreText, Done
  <2>2. UNCHANGED <<state, stop>>
    BY <1>2 DEF Listen, Arrive, HearAnswer, HearText, HearNothing, StoreFails, TellText,
                ReportStatus, RemovePending, MarkRow, StoreText, shared
  <2>3. label \in Labels /\ label \notin Past /\ l \in Thread /\ l # Worker
    BY Threads DEF Labels, Past
  <2> QED
    BY <2>1, <2>2, <2>3, LifeKept
<1>3. ASSUME NEW c \in Client, Request(c)
      PROVE  LifeInv' /\ LifeStep
  <2>1. CASE CallSend(c)
    <3>1. Goto(c, "send_lock") /\ UNCHANGED <<state, stop>>
      BY <2>1 DEF CallSend, shared
    <3>2. c \in Thread /\ c # Worker /\ "send_lock" \in Labels \ Past
      BY Threads DEF Labels, Past
    <3> QED
      BY <3>1, <3>2, LifeKept
  <2>2. CASE GetMessages(c) \/ Command(c)
    BY <2>2, LifeUntouched DEF GetMessages, Command
  <2> QED
    BY <1>3, <2>1, <2>2 DEF Request
<1>4. ASSUME NEW s \in Stopper, CallFinalize(s)
      PROVE  LifeInv' /\ LifeStep
  <2>1. Goto(s, "finalize") /\ UNCHANGED <<state, stop>>
    BY <1>4 DEF CallFinalize, shared
  <2>2. s \in Thread /\ s # Worker /\ "finalize" \in Labels \ Past
    BY Threads DEF Labels, Past
  <2> QED
    BY <2>1, <2>2, LifeKept
<1> QED
  BY <1>1, <1>2, <1>3, <1>4

\* finalize, up to the port that it closes.
LEMMA FinalizeLife ==
  ASSUME IInv, LifeInv, NEW t \in {Worker} \cup Stopper, Finalize(t)
  PROVE  LifeInv' /\ LifeStep
<1>a. t \in Thread /\ pc \in [Thread -> Labels] /\ Worker \in Thread
  BY Threads DEF IInv, PcOK
<1>1. CASE FinalizeLock(t) \/ DropInput(t) \/ FinalizeDropOutput(t) \/ ClearPending(t)
  <2>1. PICK label \in {"super", "drop_output", "final", "close_port"} :
          /\ Goto(t, label) /\ pc[t] \in Finalizing
          /\ label # "super" => pc[t] \in Past
    BY <1>1 DEF FinalizeLock, DropInput, FinalizeDropInput, FinalizeDropOutput, ClearPending,
                Finalizing, FinalizeLabels, Past
  <2>2. UNCHANGED <<state, stop>>
    BY <1>1 DEF FinalizeLock, DropInput, FinalizeDropInput, FinalizeDropOutput, ClearPending, shared
  <2>3. /\ label \in Labels /\ label \in Under /\ label # "close" /\ pc[t] \in Under
        /\ label \in Past => pc[t] \in Past
    BY <2>1 DEF Labels, Past, Under, Finalizing, FinalizeLabels
  <2> QED
    BY <1>a, <2>1, <2>2, <2>3, LifeKept
<1>2. CASE FinalizeSignal(t) \/ ClosePort(t)
  <2>1. /\ pc[t] \in Past \cap Finalizing /\ state' = state /\ stop' = TRUE
        /\ \E label \in {"drop_input", "handle", "gone"} :
             pc' = [pc EXCEPT ![t] = label] /\ (label = "gone" => t # Worker)
    BY <1>2 DEF FinalizeSignal, ClosePort, Goto, Past, Finalizing, FinalizeLabels
  <2>2. state \notin {"READY", "RUNNING"}
    BY <1>a, <2>1 DEF LifeInv
  <2>3. /\ pc'[Worker] # pc[Worker] => pc[Worker] \in Under /\ pc'[Worker] \in {"drop_input", "handle"}
        /\ \A s \in Thread : pc'[s] \in Past => pc[s] \in Past
    BY <1>a, <2>1 DEF Past, Under
  <2>4. {"drop_input", "handle"} \subseteq Under \ {"close"} /\ Under \cap {"new", "run", "dead"} = {}
    BY DEF Under, Sending, Holding, Finalizing, FinalizeLabels
  <2>5. LifeInv'
    BY <2>1, <2>2, <2>3, <2>4 DEF LifeInv
  <2>6. UNCHANGED LifeSeen({})
    BY <2>3, <2>4 DEF LifeSeen
  <2>7. UNCHANGED StateSeen
    BY <2>1 DEF StateSeen
  <2> QED
    BY <2>5, <2>6, <2>7 DEF LifeStep
<1>3. CASE FinalizeEnter(t) \/ FinalizeLeave(t)
  <2>1. /\ pc[t] \in {"super", "final"} /\ state' \in {"FINALIZING", "FINALIZED"} /\ stop' = stop
        /\ \E label \in {"drop_input", "signal", "finalized"} : pc' = [pc EXCEPT ![t] = label]
    BY <1>3 DEF FinalizeEnter, FinalizeLeave, Goto
  <2>2. LifeInv'
    BY <1>a, <2>1 DEF LifeInv, Under, Past, Sending, Holding, Finalizing, FinalizeLabels
  <2>3. /\ UNCHANGED LifeSeen({}) /\ LifeSeen({}) # "absent"
        /\ StateSeen' = "FINALIZED"
    BY <1>a, <2>1 DEF LifeSeen, StateSeen
  <2> QED
    BY <2>2, <2>3 DEF LifeStep, Service!Next, Service!Finalize
<1> QED
  BY <1>1, <1>2, <1>3 DEF Finalize, BaseStep

\* Every step is one of the life of the instance, or none.
LEMMA NextLife == IInv /\ LifeInv /\ [Next]_vars => LifeInv' /\ LifeStep
<1> SUFFICES ASSUME IInv, LifeInv, [Next]_vars
             PROVE  LifeInv' /\ LifeStep
  OBVIOUS
<1>1. CASE Run
  BY <1>1, RunLife
<1>2. ASSUME NEW t \in {Worker} \cup Client, Send(t)
      PROVE  LifeInv' /\ LifeStep
  BY <1>2, OtherLife
<1>3. ASSUME NEW c \in Client, Request(c)
      PROVE  LifeInv' /\ LifeStep
  BY <1>3, OtherLife
<1>4. ASSUME NEW l \in Listener, Listen(l)
      PROVE  LifeInv' /\ LifeStep
  BY <1>4, OtherLife
<1>5. ASSUME NEW t \in {Worker} \cup Stopper, Finalize(t)
      PROVE  LifeInv' /\ LifeStep
  BY <1>5, FinalizeLife
<1>6. ASSUME NEW s \in Stopper, Stopping(s)
      PROVE  LifeInv' /\ LifeStep
  BY <1>5, <1>6, OtherLife DEF Stopping
<1>7. CASE UNCHANGED vars
  BY <1>7, LifeUntouched DEF vars, threadVars, shared
<1> QED
  BY <1>1, <1>2, <1>3, <1>4, <1>5, <1>6, <1>7 DEF Next

\* The service begins with an instance that is made and not started.
LEMMA InitLife == Init => LifeInv /\ Service!Init
<1> SUFFICES ASSUME Init
             PROVE  LifeInv /\ Service!Init
  OBVIOUS
<1>1. /\ state = "READY" /\ stop = FALSE
      /\ pc[Worker] = "new" /\ \A t \in Thread : pc[t] \in {"new", "idle"}
  BY Threads DEF Init, IOInit
<1>2. LifeInv
  BY <1>1 DEF LifeInv, Under, Past, Sending, Holding, Finalizing, FinalizeLabels
<1>3. LifeSeen({}) = "made" /\ StateSeen = "READY"
  BY <1>1 DEF LifeSeen, StateSeen
<1> QED
  BY <1>2, <1>3 DEF Service!Init

\* The radio is a service as the core expects it, in whatever order it is started, fails
\* to connect and is finalized (core_threading.py:73-78, 110-119, meshtastic.py:373-392).
THEOREM ImplementsService == Spec => IsService
<1>1. Init => LifeInv /\ Service!Init
  BY InitLife
<1>2. IInv /\ LifeInv /\ [Next]_vars => LifeInv' /\ [Service!Next]_(Service!vars)
  BY NextLife DEF LifeStep, Service!vars
<1> QED
  BY <1>1, <1>2, Invariance, PTL DEF Spec, IsService, Service!Spec

-----------------------------------------------------------------------------
(* The fate of each message.                                                  *)

\* A message that finalize has cleared is out of everybody's hands.
FateInv ==
  \A u \in Uid \cap forgotten :
    /\ u \in sent \ pending /\ reported[u] = <<>>
    /\ \A t \in Thread : ~(pc[t] = "send_add" /\ uid[t] = u)

\* A step on the way of one message, or none.
FateStep(u) == [Message(u)!Next]_<<FateOf(u), reported[u]>>

FatesStep == \A u \in Uid : FateStep(u)

\* The books of the messages are left alone, and nobody is about to enter another one.
LEMMA FatesUntouched ==
  ASSUME FateInv, UNCHANGED <<pending, sent, reported, forgotten>>,
         \A t \in Thread : pc'[t] = "send_add" => pc[t] = "send_add" /\ uid'[t] = uid[t]
  PROVE  FateInv' /\ FatesStep
<1>1. FateInv'
  BY DEF FateInv
<1>2. \A u \in Uid : FateOf(u)' = FateOf(u) /\ reported'[u] = reported[u]
  BY DEF FateOf
<1> QED
  BY <1>1, <1>2 DEF FatesStep, FateStep

\* A message is sent and then entered.
LEMMA SendFates ==
  ASSUME IInv, FateInv, NEW t \in {Worker} \cup Client, Send(t)
  PROVE  FateInv' /\ FatesStep
<1>a. t \in Thread /\ pc \in [Thread -> Labels] /\ uid \in [Thread -> AnyUid \cup {NoUid}]
  BY Threads DEF IInv, PcOK, DataOK
<1>1. CASE SendLock(t) \/ SendFails(t) \/ SendRow(t) \/ SendReturn(t)
  <2>1. UNCHANGED <<pending, sent, reported, forgotten>>
    BY <1>1 DEF SendLock, SendFails, SendRow, SendReturn, books
  <2>2. \E label \in Labels \ {"send_add"} : Goto(t, label)
    BY <1>1 DEF SendLock, SendFails, SendRow, SendReturn, Labels, Holding
  <2>3. \A s \in Thread \ {t} : uid'[s] = uid[s]
    BY <1>1, <1>a DEF SendLock, SendFails, SendRow, SendReturn, radio
  <2> QED
    BY <1>a, <2>1, <2>2, <2>3, FatesUntouched DEF Goto
<1>2. CASE SendText(t)
  <2>1. PICK v \in (Uid \ sent) \cup Idless :
          uid' = [uid EXCEPT ![t] = v] /\ sent' = sent \cup (Uid \cap {v})
    BY <1>2 DEF SendText
  <2>2. /\ pc' = [pc EXCEPT ![t] = "send_add"] /\ UNCHANGED <<pending, reported, forgotten>>
    BY <1>2 DEF SendText, Goto
  <2>3. v \in Uid => v \notin sent \cup pending \cup forgotten /\ reported[v] = <<>>
    BY <2>1, Ids DEF IInv, SentInv, Accounted, FateInv
  <2>4. FateInv'
    <3>1. \A u \in Uid \cap forgotten : u # v
      BY <2>3
    <3>2. \A u \in Uid \cap forgotten : \A s \in Thread : ~(pc'[s] = "send_add" /\ uid'[s] = u)
      BY <1>a, <2>1, <2>2, <3>1 DEF FateInv
    <3> QED
      BY <2>1, <2>2, <3>2 DEF FateInv
  <2>5. ASSUME NEW u \in Uid
        PROVE  FateStep(u)
    <3>1. CASE u = v
      <4>1. FateOf(u) = "unsent" /\ FateOf(u)' = "sent"
        BY <2>1, <2>2, <2>3, <3>1 DEF FateOf
      <4> QED
        BY <2>2, <4>1 DEF FateStep, Message!Next, Message!Send, Message!Moves
    <3>2. CASE u # v
      <4>1. FateOf(u)' = FateOf(u)
        BY <2>1, <2>2, <3>2 DEF FateOf
      <4> QED
        BY <2>2, <4>1 DEF FateStep
    <3> QED
      BY <3>1, <3>2
  <2> QED
    BY <2>4, <2>5 DEF FatesStep
<1>3. CASE SendAdd(t)
  <2>1. /\ pc[t] = "send_add" /\ pc' = [pc EXCEPT ![t] = "send_row"]
        /\ pending' = pending \cup {uid[t]} /\ UNCHANGED <<uid, sent, reported, forgotten>>
    BY <1>3 DEF SendAdd, Goto, radio
  <2>2. uid[t] \in Uid => uid[t] \in sent \ (pending \cup forgotten) /\ reported[uid[t]] = <<>>
    BY <1>a, <2>1 DEF IInv, SentInv, FateInv
  <2>3. FateInv'
    <3>1. \A u \in Uid \cap forgotten : u \notin pending'
      BY <2>1, <2>2 DEF FateInv
    <3>2. \A s \in Thread : pc'[s] = "send_add" => pc[s] = "send_add"
      BY <1>a, <2>1
    <3> QED
      BY <2>1, <3>1, <3>2 DEF FateInv
  <2>4. ASSUME NEW u \in Uid
        PROVE  FateStep(u)
    <3>1. CASE u = uid[t]
      <4>1. FateOf(u) = "sent" /\ FateOf(u)' = "pending"
        BY <2>1, <2>2, <3>1 DEF FateOf
      <4> QED
        BY <2>1, <4>1 DEF FateStep, Message!Next, Message!Note, Message!Moves
    <3>2. CASE u # uid[t]
      <4>1. FateOf(u)' = FateOf(u)
        BY <2>1, <3>2 DEF FateOf
      <4> QED
        BY <2>1, <4>1 DEF FateStep
    <3> QED
      BY <3>1, <3>2
  <2> QED
    BY <2>3, <2>4 DEF FatesStep
<1> QED
  BY <1>1, <1>2, <1>3 DEF Send

\* The first answer to a pending message is its verdict.
LEMMA ListenFates ==
  ASSUME IInv, FateInv, NEW l \in Listener, Listen(l)
  PROVE  FateInv' /\ FatesStep
<1>a. l \in Thread /\ pc \in [Thread -> Labels] /\ reported \in [Uid -> Seq({"Success", "Error"})]
  BY Threads DEF IInv, PcOK, DataOK
<1>b. UNCHANGED radio
  BY DEF Listen
<1>c. PICK label \in {"hear", "report", "store", "idle", "remove", "mark", "tell"} : Goto(l, label)
  BY DEF Listen, Arrive, HearAnswer, HearText, HearNothing, StoreFails, TellText,
         ReportStatus, RemovePending, MarkRow, StoreText, Done
<1>d. \A t \in Thread : pc'[t] = "send_add" => pc[t] = "send_add" /\ uid'[t] = uid[t]
  BY <1>a, <1>b, <1>c DEF Goto, radio
<1>1. CASE ReportStatus(l)
  <2> DEFINE v == packet[l].uid
  <2>1. /\ pc[l] = "report" /\ UNCHANGED <<pending, sent, forgotten>>
        /\ reported' = [u \in Uid |-> IF u = v THEN Append(reported[u], Status(packet[l])) ELSE reported[u]]
    BY <1>1 DEF ReportStatus
  <2>2. v \in pending /\ (v \in Uid => reported[v] = <<>> /\ v \notin forgotten)
    BY <2>1 DEF IInv, SentInv, FateInv
  <2>3. v \in Uid => reported'[v] \in {<<"Success">>, <<"Error">>}
    <3>1. Status(packet[l]) \in {"Success", "Error"}
      BY DEF Status
    <3>2. v \in Uid => reported'[v] = Append(<<>>, Status(packet[l]))
      BY <2>1, <2>2
    <3>3. Append(<<>>, "Success") = <<"Success">> /\ Append(<<>>, "Error") = <<"Error">>
      OBVIOUS
    <3> QED
      BY <3>1, <3>2, <3>3
  <2> HIDE DEF v
  <2>4. \A u \in Uid : u # v => reported'[u] = reported[u]
    BY <2>1
  <2>5. FateInv'
    BY <1>d, <2>1, <2>2, <2>4 DEF FateInv
  <2>6. ASSUME NEW u \in Uid
        PROVE  FateStep(u)
    <3>1. CASE u = v
      <4>1. FateOf(u) = "pending"
        BY <2>2, <3>1 DEF FateOf
      <4>2. reported'[u] # <<>>
        BY <2>3, <3>1
      <4>3. FateOf(u)' = "reported"
        BY <2>1, <2>2, <3>1, <4>2 DEF FateOf
      <4> QED
        BY <2>3, <3>1, <4>1, <4>3 DEF FateStep, Message!Next, Message!Answer, Message!Moves
    <3>2. CASE u # v
      <4>1. FateOf(u)' = FateOf(u) /\ reported'[u] = reported[u]
        BY <2>1, <2>4, <3>2 DEF FateOf
      <4> QED
        BY <4>1 DEF FateStep
    <3> QED
      BY <3>1, <3>2
  <2> QED
    BY <2>5, <2>6 DEF FatesStep
<1>2. CASE RemovePending(l)
  <2> DEFINE v == packet[l].uid
  <2>1. /\ pc[l] = "remove" /\ UNCHANGED <<sent, reported, forgotten>>
        /\ pending' = pending \ {v}
    BY <1>2 DEF RemovePending
  <2>2. v \in Uid => reported[v] # <<>>
    BY <2>1 DEF IInv, SentInv
  <2> HIDE DEF v
  <2>3. FateInv'
    BY <1>d, <2>1 DEF FateInv
  <2>4. \A u \in Uid : FateOf(u)' = FateOf(u) /\ reported'[u] = reported[u]
    BY <2>1, <2>2 DEF FateOf
  <2> QED
    BY <2>3, <2>4 DEF FatesStep, FateStep
<1>3. CASE ~ReportStatus(l) /\ ~RemovePending(l)
  <2>1. UNCHANGED <<pending, sent, reported, forgotten>>
    BY <1>3 DEF Listen, MarkRow, StoreText, books
  <2> QED
    BY <1>d, <2>1, FatesUntouched
<1> QED
  BY <1>1, <1>2, <1>3

\* finalize forgets what is pending: no listener is between the report of an answer and
\* the removal of its id, for the mutex is with finalize.
LEMMA FinalizeFates ==
  ASSUME IInv, FateInv, NEW t \in {Worker} \cup Stopper, Finalize(t)
  PROVE  FateInv' /\ FatesStep
<1>a. t \in Thread /\ t \notin Listener /\ pc \in [Thread -> Labels]
  BY Threads DEF IInv, PcOK
<1>b. UNCHANGED uid
  BY DEF Finalize, ClosePort, radio
<1>c. \A s \in Thread : pc'[s] = "send_add" => pc[s] = "send_add" /\ uid'[s] = uid[s]
  <2>1. \E label \in Labels \ {"send_add"} : Goto(t, label)
    BY DEF Finalize, FinalizeLock, BaseStep, FinalizeEnter, FinalizeSignal, FinalizeDropOutput, FinalizeLeave,
           DropInput, FinalizeDropInput, ClearPending, ClosePort, Labels, FinalizeLabels, Holding
  <2> QED
    BY <1>a, <1>b, <2>1 DEF Goto
<1>1. CASE ClearPending(t)
  <2>1. /\ pc[t] = "finalized" /\ UNCHANGED <<sent, reported>>
        /\ pending' = {} /\ forgotten' = forgotten \cup pending
    BY <1>1 DEF ClearPending
  <2>2. \A l \in Listener : pc[l] # "remove"
    <3>1. \A s \in Thread : Holds(pc[s]) # 0 => s = t
      BY <1>a, <2>1 DEF IInv, LockInv, Holds
    <3>2. Holds("remove") # 0
      BY DEF Holds, Hearing
    <3> QED
      BY <1>a, <3>1, <3>2, Threads
  <2>3. \A u \in Uid \cap pending : u \in sent /\ reported[u] = <<>> /\ u \notin forgotten
    BY <2>2 DEF IInv, SentInv, Accounted, FateInv
  <2>4. \A u \in Uid \cap pending : \A s \in Thread : ~(pc[s] = "send_add" /\ uid[s] = u)
    BY DEF IInv, SentInv
  <2>5. FateInv'
    BY <1>c, <2>1, <2>3, <2>4 DEF FateInv
  <2>6. ASSUME NEW u \in Uid
        PROVE  FateStep(u)
    <3>1. CASE u \in pending
      <4>1. FateOf(u) = "pending" /\ FateOf(u)' = "forgotten"
        BY <2>1, <2>3, <3>1 DEF FateOf
      <4> QED
        BY <2>1, <4>1 DEF FateStep, Message!Next, Message!Forget, Message!Moves
    <3>2. CASE u \notin pending
      <4>1. FateOf(u)' = FateOf(u)
        BY <2>1, <3>2 DEF FateOf
      <4> QED
        BY <2>1, <4>1 DEF FateStep
    <3> QED
      BY <3>1, <3>2
  <2> QED
    BY <2>5, <2>6 DEF FatesStep
<1>2. CASE ~ClearPending(t)
  <2>1. UNCHANGED <<pending, sent, reported, forgotten>>
    BY <1>2 DEF Finalize, books
  <2> QED
    BY <1>c, <2>1, FatesUntouched
<1> QED
  BY <1>1, <1>2

\* run, the clients' calls and the call of finalize are not about messages.
LEMMA OtherFates ==
  ASSUME IInv, FateInv,
         Run \/ (\E c \in Client : Request(c)) \/ \E s \in Stopper : CallFinalize(s) /\ UNCHANGED <<radio, books>>
  PROVE  FateInv' /\ FatesStep
<1>a. pc \in [Thread -> Labels]
  BY DEF IInv, PcOK
<1>1. UNCHANGED <<uid, pending, sent, reported, forgotten>>
  BY DEF Run, AssignInterface, CloseAtEnd, Request, radio, books
<1>2. \E t \in Thread, label \in Labels \ {"send_add"} : Goto(t, label) \/ pc' = pc
  <2>1. CASE Run
    <3>1. \E label \in Labels \ {"send_add"} : Goto(Worker, label)
      BY <2>1 DEF Run, Start, RunReady, RunRefused, Connect, ConnectFails, LoopTest, Handle,
                  AssignInterface, CloseAtEnd, Fetch, Reply, Labels, Holding, FinalizeLabels
    <3> QED
      BY <3>1, Threads
  <2>2. ASSUME NEW c \in Client, Request(c)
        PROVE  \E t \in Thread, label \in Labels \ {"send_add"} : Goto(t, label) \/ pc' = pc
    <3>1. \E label \in Labels \ {"send_add"} : Goto(c, label) \/ pc' = pc
      BY <2>2 DEF Request, CallSend, GetMessages, Command, Labels, Holding, FinalizeLabels
    <3> QED
      BY <3>1, Threads
  <2>3. ASSUME NEW s \in Stopper, CallFinalize(s)
        PROVE  \E t \in Thread, label \in Labels \ {"send_add"} : Goto(t, label) \/ pc' = pc
    <3>1. Goto(s, "finalize") /\ "finalize" \in Labels \ {"send_add"} /\ s \in Thread
      BY <2>3, Threads DEF CallFinalize, Labels
    <3> QED
      BY <3>1
  <2> QED
    BY <2>1, <2>2, <2>3
<1>3. \A t \in Thread : pc'[t] = "send_add" => pc[t] = "send_add" /\ uid'[t] = uid[t]
  BY <1>a, <1>1, <1>2 DEF Goto
<1> QED
  BY <1>1, <1>3, FatesUntouched

\* Every step takes each message on its way, or leaves it where it is.
LEMMA NextFates == IInv /\ FateInv /\ [Next]_vars => FateInv' /\ FatesStep
<1> SUFFICES ASSUME IInv, FateInv, [Next]_vars
             PROVE  FateInv' /\ FatesStep
  OBVIOUS
<1>1. CASE Run
  BY <1>1, OtherFates
<1>2. ASSUME NEW t \in {Worker} \cup Client, Send(t)
      PROVE  FateInv' /\ FatesStep
  BY <1>2, SendFates
<1>3. ASSUME NEW c \in Client, Request(c)
      PROVE  FateInv' /\ FatesStep
  BY <1>3, OtherFates
<1>4. ASSUME NEW l \in Listener, Listen(l)
      PROVE  FateInv' /\ FatesStep
  BY <1>4, ListenFates
<1>5. ASSUME NEW t \in {Worker} \cup Stopper, Finalize(t)
      PROVE  FateInv' /\ FatesStep
  BY <1>5, FinalizeFates
<1>6. ASSUME NEW s \in Stopper, Stopping(s)
      PROVE  FateInv' /\ FatesStep
  BY <1>5, <1>6, OtherFates DEF Stopping
<1>7. CASE UNCHANGED vars
  BY <1>7, FatesUntouched DEF vars, threadVars, radio, books
<1> QED
  BY <1>1, <1>2, <1>3, <1>4, <1>5, <1>6, <1>7 DEF Next

\* Each message has the fate that MessageFate allows: one verdict, after its id was
\* entered, or none, whichever threads send, answer and finalize (meshtastic.py:167-196,
\* 356-363, 404-408).
THEOREM EachHasItsFate == Spec => FatesKept
<1>1. Init => FateInv /\ \A u \in Uid : Message(u)!Init
  <2> SUFFICES ASSUME Init
               PROVE  FateInv /\ \A u \in Uid : Message(u)!Init
    OBVIOUS
  <2>1. pending = {} /\ sent = {} /\ forgotten = {} /\ \A u \in Uid : reported[u] = <<>>
    BY DEF Init
  <2> QED
    BY <2>1 DEF FateInv, FateOf, Message!Init
<1>2. IInv /\ FateInv /\ [Next]_vars =>
        FateInv' /\ [\A u \in Uid : [Message(u)!Next]_<<FateOf(u), reported[u]>>]_vars
  BY NextFates DEF FatesStep, FateStep
<1> QED
  BY <1>1, <1>2, Invariance, PTL DEF Spec, FatesKept
=============================================================================
