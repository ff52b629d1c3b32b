--------------------------- MODULE ToxClientProofs --------------------------
(* Theorems about ToxClient, for any clients, friends, capacities and number  *)
(* of crashes, and for either kind of mutex.                                  *)
EXTENDS ToxClient, SequenceTheorems, TLAPS

(* The inductive invariant, in parts: what the variables hold, where the      *)
(* threads are, who has the mutex and how often, and the three properties,    *)
(* each with what it takes to keep it.                                        *)

Item == {"incoming", "incoming_friend_request", "command_status"}

ThreadOK ==
  /\ state \in States /\ stop \in BOOLEAN
  /\ input \in Seq(SUBSET Friend) /\ Len(input) <= MaxIn
  /\ output \in Seq(Item) /\ Len(output) <= MaxOut

DataOK ==
  /\ Loadable => profile \subseteq Friend
  /\ saved # Absent => saved \subseteq Friend
  /\ io \in Thread \cup {NoThread}
  /\ friends \subseteq Friend /\ asking \subseteq Friend
  /\ batch \in Seq(SUBSET Friend)
  /\ entries \in [Friend -> Nat] /\ listed \in [Client -> SUBSET Friend]
  /\ events \in 0..MaxEvents /\ crashes \in 0..MaxCrashes

Finalizing == {"finalize", "io_lock"} \cup FinalizeLabels

PcOK ==
  /\ pc \in [Thread -> Labels]
  /\ pc[Worker] \notin {"idle", "look_up", "enter", "gone"}
  /\ \A c \in Client : pc[c] \in {"idle", "look_up", "enter"}
  /\ \A s \in Stopper : pc[s] \in {"idle", "gone"} \cup Finalizing
  /\ pc[Worker] \in Finalizing => batch # <<>>

\* How often a thread has the mutex at each of its labels.
Holds(label) ==
  IF label \in {"signal", "drop_input", "drop_output", "final"} THEN 2
  ELSE IF label \in {"io_lock", "super", "finalized", "look_up", "enter"} THEN 1
  ELSE 0

LockInv ==
  /\ mutex \in Thread \cup {NoThread}
  /\ \A t \in Thread : mutex = t <=> Holds(pc[t]) # 0
  /\ depth = IF mutex = NoThread THEN 0 ELSE Holds(pc[mutex])

\* The file is behind what was saved last only while it is no profile at all.
SavedInv ==
  /\ FriendsKept /\ partial \in BOOLEAN
  /\ profile = Absent => saved = Absent
  /\ Loadable => saved = profile

RowsInv ==
  /\ OneRowEach
  /\ \A c \in Client : pc[c] = "enter" => \A f \in listed[c] : entries[f] = 0

IInv ==
  /\ ThreadOK /\ DataOK /\ PcOK /\ LockInv
  /\ SavedInv /\ RequestsTold /\ RowsInv

-----------------------------------------------------------------------------
(* Queues and threads.                                                        *)

\* What put leaves in a queue.
LEMMA PushedProperties ==
  ASSUME NEW S, NEW q \in Seq(S), NEW i \in S, NEW n \in Nat \ {0}, Len(q) <= n
  PROVE  Pushed(q, i, n) \in Seq(S) /\ Len(Pushed(q, i, n)) <= n
<1>1. CASE Len(q) < n
  BY <1>1, AppendProperties DEF Pushed
<1>2. CASE Len(q) >= n
  <2>1. q # <<>> /\ Len(q) = n
    BY <1>2, LenProperties
  <2>2. Tail(q) \in Seq(S) /\ Len(Tail(q)) = n - 1
    BY <2>1, HeadTailProperties
  <2>3. Append(Tail(q), i) \in Seq(S) /\ Len(Append(Tail(q), i)) = n
    BY <2>2, AppendProperties
  <2> QED
    BY <1>2, <2>1, <2>3 DEF Pushed
<1> QED
  BY <1>1, <1>2, LenProperties

\* What get_batch takes from a queue, and what it leaves.
LEMMA FrontRestProperties ==
  ASSUME NEW S, NEW q \in Seq(S), NEW n \in Nat
  PROVE  /\ Front(q, n) \in Seq(S)
         /\ Rest(q, n) \in Seq(S) /\ Len(Rest(q, n)) <= Len(q)
<1>1. Len(q) \in Nat /\ \A i \in 1..Len(q) : q[i] \in S
  BY LenProperties, ElementOfSeq
<1>2. Front(q, n) \in Seq(S)
  BY <1>1, SubSeqProperties DEF Front
<1>3. Rest(q, n) \in Seq(S) /\ Len(Rest(q, n)) <= Len(q)
  BY <1>1, SubSeqProperties DEF Rest
<1> QED
  BY <1>2, <1>3

\* The threads are apart from each other and from NoThread.
LEMMA Threads ==
  /\ Thread = {Worker} \cup Client \cup Stopper
  /\ Worker \notin Client \cup Stopper /\ Client \cap Stopper = {}
  /\ NoThread \notin Thread
  BY IOThreadAssumption, ToxAssumption DEF Thread

\* A profile is not taken for the absence of one.
LEMMA Files == \A fs \in SUBSET Friend : fs # Absent /\ fs # Empty /\ fs # Torn
  BY ToxAssumption

\* The mutex, step by step: it stays where it is, ...
LEMMA LockKept ==
  ASSUME PcOK, LockInv, NEW t \in Thread, NEW label \in Labels,
         Holds(label) = Holds(pc[t]),
         Goto(t, label), UNCHANGED <<mutex, depth>>
  PROVE  LockInv'
  BY DEF PcOK, LockInv, Goto

\* ... is taken, ...
LEMMA LockTaken ==
  ASSUME PcOK, LockInv, NEW t \in Thread, NEW label \in Labels,
         Holds(pc[t]) = 0, Holds(label) = 1,
         Goto(t, label), Lock(t)
  PROVE  LockInv'
<1>1. mutex = NoThread /\ depth = 0
  BY DEF LockInv, Lock
<1> QED
  BY <1>1, Threads DEF PcOK, LockInv, Goto, Lock

\* ... is taken once more, ...
LEMMA LockTakenAgain ==
  ASSUME PcOK, LockInv, NEW t \in Thread, NEW label \in Labels,
         Holds(pc[t]) = 1, Holds(label) = 2,
         Goto(t, label), Lock(t)
  PROVE  LockInv'
<1>1. mutex = t /\ depth = 1
  BY Threads DEF LockInv
<1> QED
  BY <1>1, Threads DEF PcOK, LockInv, Goto, Lock

\* ... or is given back once.
LEMMA LockGiven ==
  ASSUME PcOK, LockInv, NEW t \in Thread, NEW label \in Labels,
         Holds(pc[t]) = Holds(label) + 1,
         Goto(t, label), Unlock(t)
  PROVE  LockInv'
<1>1. Holds(label) \in {0, 1, 2} /\ Holds(pc[t]) \in {0, 1, 2}
  BY DEF Holds
<1>2. mutex = t /\ depth = Holds(label) + 1
  BY <1>1, Threads DEF LockInv
<1> QED
  BY <1>1, <1>2, Threads DEF PcOK, LockInv, Goto, Unlock

\* The invariant holds before the first step.
LEMMA InitInv == Init => IInv
<1> SUFFICES ASSUME Init
             PROVE  IInv
  OBVIOUS
<1>1. ThreadOK
  <2>1. <<>> \in Seq(SUBSET Friend) /\ <<>> \in Seq(Item) /\ Len(<<>>) = 0
    BY EmptySeq
  <2>2. 0 <= MaxIn /\ 0 <= MaxOut
    BY IOThreadAssumption
  <2> QED
    BY <2>1, <2>2 DEF Init, ThreadOK, States
<1>2. DataOK
  BY EmptySeq, ToxAssumption DEF Init, DataOK, Loadable
<1>3. PcOK /\ LockInv
  BY Threads DEF Init, PcOK, LockInv, Holds, Labels, Finalizing, FinalizeLabels
<1>4. SavedInv /\ RequestsTold /\ RowsInv
  <2>1. partial \in BOOLEAN
    BY DEF Init
  <2>2. FriendsKept /\ (profile = Absent => saved = Absent) /\ (Loadable => saved = profile)
    BY DEF Init, FriendsKept, Loadable
  <2> QED
    BY <2>1, <2>2, Threads DEF Init, SavedInv, RequestsTold, RowsInv, OneRowEach
<1> QED
  BY <1>1, <1>2, <1>3, <1>4 DEF IInv

-----------------------------------------------------------------------------
(* The steps, one lemma for each part of the next-state relation.             *)

\* A crash leaves the file and the rows; the rest starts anew.
LEMMA CrashStep ==
  ASSUME IInv, Crash
  PROVE  IInv'
<1> USE DEF IInv, Crash, sends
<1>1. ThreadOK'
  <2>1. <<>> \in Seq(SUBSET Friend) /\ <<>> \in Seq(Item) /\ Len(<<>>) = 0
    BY EmptySeq
  <2>2. 0 <= MaxIn /\ 0 <= MaxOut
    BY IOThreadAssumption
  <2> QED
    BY <2>1, <2>2 DEF ThreadOK, States
<1>2. DataOK'
  BY EmptySeq, ToxAssumption DEF DataOK, Loadable
<1>3. PcOK' /\ LockInv'
  BY Threads DEF PcOK, LockInv, Holds, Labels, Finalizing, FinalizeLabels
<1>4. SavedInv'
  BY Threads, ToxAssumption DEF SavedInv, FriendsKept, Loadable
<1>5. RequestsTold' /\ RowsInv'
  BY Threads DEF RequestsTold, RowsInv, OneRowEach
<1> QED
  BY <1>1, <1>2, <1>3, <1>4, <1>5

\* The constructor and the saves.
LEMMA ConstructStep ==
  ASSUME IInv, Construct
  PROVE  IInv'
<1> USE DEF IInv, disk, native, bounds, kept, sends, shared, Goto
<1>a. Worker \in Thread /\ \A t \in Client \cup Stopper : t # Worker /\ t \in Thread
  BY Threads
<1>1. CASE /\ \/ CreateFromTorn
              \/ /\ CreateFromKey \/ CreateFromFile \/ CreateRefused \/ CreateFails
                 /\ UNCHANGED partial
           /\ UNCHANGED <<disk, io, asking, batch, listed, bounds, saved, sends, untold>>
  <2> PICK label \in {"first_save", "new", "broken", "failed"} : Goto(Worker, label)
    BY <1>1 DEF CreateFromKey, CreateFromFile, CreateFromTorn, CreateRefused, CreateFails
  <2>a. pc[Worker] = "create" /\ UNCHANGED shared
    BY <1>1 DEF CreateFromKey, CreateFromFile, CreateFromTorn, CreateRefused, CreateFails
  <2>b. \/ label = "first_save" /\ profile = Absent /\ UNCHANGED <<friends, partial>>
        \/ label = "new" /\ Loadable /\ friends' = profile /\ UNCHANGED partial
        \/ label = "new" /\ friends' \subseteq Friend /\ partial' = TRUE
        \/ label \in {"broken", "failed"} /\ UNCHANGED <<friends, partial>>
    BY <1>1, <1>a DEF CreateFromKey, CreateFromFile, CreateFromTorn, CreateRefused, CreateFails, PcOK
  <2>1. ThreadOK' /\ DataOK'
    BY <1>1, <2>a, <2>b DEF ThreadOK, DataOK, Loadable
  <2>2. PcOK'
    BY <1>1, <1>a, <2>a DEF PcOK, Labels, Finalizing, FinalizeLabels
  <2>3. LockInv'
    BY <1>a, <2>a, LockKept DEF Holds, Labels
  <2>4. SavedInv'
    BY <1>1, <1>a, <2>a, <2>b DEF SavedInv, FriendsKept, Loadable, PcOK
  <2>5. RequestsTold' /\ RowsInv'
    BY <1>1, <1>a, <2>a DEF RequestsTold, RowsInv, OneRowEach, PcOK
  <2> QED
    BY <2>1, <2>2, <2>3, <2>4, <2>5
<1>2. CASE /\ SaveRefused \/ SaveOpen \/ SaveWrite \/ SaveTorn
           /\ UNCHANGED <<entries, native, batch, listed, bounds, sends, untold>>
  <2>a. UNCHANGED shared
    BY <1>2 DEF SaveRefused, SaveOpen, SaveWrite, SaveTorn
  <2>b. \/ /\ pc[Worker] \in {"first_save", "first_write"}
           /\ \E label \in {"first_write", "new", "failed"} : Goto(Worker, label)
        \/ /\ pc[Worker] \in {"save", "write"}
           /\ \E label \in {"write", "tell"} : Goto(Worker, label)
    BY <1>2 DEF SaveRefused, SaveOpen, SaveWrite, SaveTorn, InSave, InWrite, Raised
  <2>c. /\ \/ profile' = profile /\ UNCHANGED kept
           \/ profile' \in {Empty, Torn} /\ UNCHANGED kept
           \/ profile' = friends /\ saved' = friends /\ partial' = FALSE
        /\ io' \in Thread \cup {NoThread}
    BY <1>2, <1>a DEF SaveRefused, SaveOpen, SaveWrite, SaveTorn, DataOK
  <2>1. ThreadOK' /\ DataOK'
    BY <1>2, <2>a, <2>c DEF ThreadOK, DataOK, Loadable
  <2>2. PcOK'
    BY <1>2, <1>a, <2>b DEF PcOK, Labels, Finalizing, FinalizeLabels
  <2>3. LockInv'
    BY <1>a, <2>a, <2>b, LockKept DEF Holds, Labels
  <2>4. SavedInv'
    <3>1. friends \subseteq Friend /\ friends # Absent /\ Empty # Absent /\ Torn # Absent
      BY Files, ToxAssumption DEF DataOK
    <3>2. CASE UNCHANGED kept
      BY <1>2, <1>a, <2>b, <2>c, <3>1, <3>2 DEF SavedInv, FriendsKept, Loadable, PcOK
    <3>3. CASE profile' = friends /\ saved' = friends /\ partial' = FALSE
      <4>1. partial' \in BOOLEAN
        BY <3>3
      <4>2. FriendsKept' /\ (profile = Absent => saved = Absent)' /\ (Loadable => saved = profile)'
        BY <1>2, <3>1, <3>3 DEF FriendsKept, Loadable
      <4> QED
        BY <4>1, <4>2 DEF SavedInv
    <3> QED
      BY <2>c, <3>2, <3>3
  <2>5. RequestsTold' /\ RowsInv'
    BY <1>2, <1>a, <2>b DEF RequestsTold, RowsInv, OneRowEach, PcOK
  <2> QED
    BY <2>1, <2>2, <2>3, <2>4, <2>5
<1> QED
  BY <1>1, <1>2 DEF Construct

\* What each part of the invariant depends on.
LEMMA PartsKept ==
  ASSUME IInv, UNCHANGED <<disk, friends, kept>>
  PROVE  /\ (pc'[Worker] \in {"create", "broken", "failed"} \/ pc[Worker] \notin {"create", "broken", "failed"})
              => SavedInv'
         /\ UNCHANGED listed /\ (\A c \in Client : pc'[c] = pc[c]) => RowsInv'
  BY DEF IInv, disk, kept, SavedInv, FriendsKept, Loadable, RowsInv, OneRowEach

\* run, and the callbacks that tox_iterate makes.
LEMMA RunStep ==
  ASSUME IInv, Run
  PROVE  IInv'
<1> USE DEF IInv, disk, native, bounds, kept, sends, shared, Goto
<1>a. Worker \in Thread /\ \A t \in Client \cup Stopper : t # Worker /\ t \in Thread
  BY Threads
<1>1. CASE /\ Start \/ RunReady \/ RunRefused \/ Bootstrap \/ BootstrapFails \/ LoopTest \/ Handle
           /\ UNCHANGED <<disk, io, native, batch, listed, bounds, kept, sends, untold>>
  <2>a. /\ UNCHANGED <<stop, mutex, depth, input, output>>
        /\ state' \in States
    BY <1>1 DEF Start, RunReady, RunRefused, Bootstrap, BootstrapFails, LoopTest, Handle,
                ThreadOK, States
  <2>b. /\ pc[Worker] \in {"new", "run", "boot", "loop", "handle"}
        /\ \E label \in {"run", "boot", "dead", "loop", "iterate", "finalize"} :
             /\ Goto(Worker, label)
             /\ label = "finalize" => batch # <<>>
    BY <1>1 DEF Start, RunReady, RunRefused, Bootstrap, BootstrapFails, LoopTest, Handle
  <2>1. ThreadOK' /\ DataOK'
    BY <1>1, <2>a DEF ThreadOK, DataOK, Loadable
  <2>2. PcOK'
    BY <1>1, <1>a, <2>b DEF PcOK, Labels, Finalizing, FinalizeLabels
  <2>3. LockInv'
    BY <1>a, <2>a, <2>b, LockKept DEF Holds, Labels
  <2>4. SavedInv' /\ RowsInv'
    BY <1>1, <1>a, <2>b, PartsKept DEF PcOK
  <2>5. RequestsTold'
    BY <1>1, <1>a, <2>b DEF RequestsTold, PcOK
  <2> QED
    BY <2>1, <2>2, <2>3, <2>4, <2>5
<1>2. CASE /\ IncomingMessage \/ FriendRequest
           /\ UNCHANGED <<disk, io, friends, batch, listed, calls, crashes, kept, sends>>
  <2>a. /\ pc[Worker] = "iterate" /\ events' \in 0..MaxEvents
        /\ UNCHANGED <<state, stop, mutex, depth, input>>
    BY <1>2, ToxAssumption DEF IncomingMessage, FriendRequest, DataOK
  <2>b. \/ Goto(Worker, "iterate") /\ UNCHANGED <<asking, untold>>
        \/ /\ Goto(Worker, "request") /\ untold' = untold + 1
           /\ asking' \subseteq Friend
    BY <1>2, <2>a DEF IncomingMessage, FriendRequest, PcOK
  <2>c. output' \in Seq(Item) /\ Len(output') <= MaxOut
    BY <1>2, PushedProperties, IOThreadAssumption
    DEF IncomingMessage, FriendRequest, ThreadOK, Item
  <2>1. ThreadOK' /\ DataOK'
    BY <1>2, <2>a, <2>b, <2>c DEF ThreadOK, DataOK, Loadable
  <2>2. PcOK'
    BY <1>2, <1>a, <2>a, <2>b DEF PcOK, Labels, Finalizing, FinalizeLabels
  <2>3. LockInv'
    BY <1>a, <2>a, <2>b, LockKept DEF Holds, Labels
  <2>4. SavedInv' /\ RowsInv'
    BY <1>2, <1>a, <2>a, <2>b, PartsKept DEF PcOK
  <2>5. RequestsTold'
    BY <1>2, <1>a, <2>a, <2>b DEF RequestsTold, PcOK
  <2> QED
    BY <2>1, <2>2, <2>3, <2>4, <2>5
<1>3. CASE Fetch /\ UNCHANGED <<disk, io, native, listed, bounds, kept, sends, untold>>
  <2>a. pc[Worker] = "iterate" /\ Goto(Worker, "handle") /\ UNCHANGED <<mutex, depth>>
    BY <1>3 DEF Fetch
  <2>b. /\ batch' \in Seq(SUBSET Friend)
        /\ input' \in Seq(SUBSET Friend) /\ Len(input') <= MaxIn
    <3>1. /\ Front(input, 12) \in Seq(SUBSET Friend)
          /\ Rest(input, 12) \in Seq(SUBSET Friend) /\ Len(Rest(input, 12)) <= Len(input)
      BY FrontRestProperties DEF ThreadOK
    <3>2. Len(input) \in Nat /\ Len(Rest(input, 12)) \in Nat /\ MaxIn \in Nat
      BY <3>1, LenProperties, IOThreadAssumption DEF ThreadOK
    <3> QED
      BY <1>3, <3>1, <3>2 DEF Fetch, BatchSize, ThreadOK
  <2>1. ThreadOK' /\ DataOK'
    BY <1>3, <2>b DEF Fetch, ThreadOK, DataOK, Loadable
  <2>2. PcOK'
    BY <1>a, <2>a DEF PcOK, Labels, Finalizing, FinalizeLabels
  <2>3. LockInv'
    BY <1>a, <2>a, LockKept DEF Holds, Labels
  <2>4. SavedInv' /\ RowsInv'
    BY <1>3, <1>a, <2>a, PartsKept DEF PcOK
  <2>5. RequestsTold'
    BY <1>3, <1>a, <2>a DEF RequestsTold, PcOK
  <2> QED
    BY <2>1, <2>2, <2>3, <2>4, <2>5
<1> QED
  BY <1>1, <1>2, <1>3 DEF Run

\* _on_friend_request.
LEMMA HearRequestStep ==
  ASSUME IInv, HearRequest
  PROVE  IInv'
<1> USE DEF IInv, disk, native, bounds, kept, sends, shared, Goto
<1>a. Worker \in Thread /\ \A t \in Client \cup Stopper : t # Worker /\ t \in Thread
  BY Threads
<1>1. CASE /\ Decline \/ Accept
           /\ UNCHANGED <<disk, io, asking, batch, listed, bounds, kept, sends, untold>>
  <2>a. /\ pc[Worker] = "request" /\ UNCHANGED shared
        /\ \E label \in {"tell", "save"} : Goto(Worker, label)
        /\ friends \subseteq friends' /\ friends' \subseteq Friend
    BY <1>1 DEF Decline, Accept, DataOK
  <2>1. ThreadOK' /\ DataOK'
    BY <1>1, <2>a DEF ThreadOK, DataOK, Loadable
  <2>2. PcOK'
    BY <1>1, <1>a, <2>a DEF PcOK, Labels, Finalizing, FinalizeLabels
  <2>3. LockInv'
    BY <1>a, <2>a, LockKept DEF Holds, Labels
  <2>4. SavedInv'
    BY <1>1, <1>a, <2>a DEF SavedInv, FriendsKept, Loadable, PcOK
  <2>5. RequestsTold' /\ RowsInv'
    BY <1>1, <1>a, <2>a DEF RequestsTold, RowsInv, OneRowEach, PcOK
  <2> QED
    BY <2>1, <2>2, <2>3, <2>4, <2>5
<1>2. CASE Tell /\ UNCHANGED <<disk, io, batch, listed, bounds, kept, sends>>
  <2>a. pc[Worker] = "tell" /\ Goto(Worker, "iterate") /\ UNCHANGED <<state, stop, mutex, depth, input, friends>>
    BY <1>2 DEF Tell
  <2>b. output' \in Seq(Item) /\ Len(output') <= MaxOut
    BY <1>2, PushedProperties, IOThreadAssumption DEF Tell, ThreadOK, Item
  <2>1. ThreadOK' /\ DataOK'
    BY <1>2, <2>a, <2>b DEF Tell, ThreadOK, DataOK, Loadable
  <2>2. PcOK'
    BY <1>2, <1>a, <2>a DEF PcOK, Labels, Finalizing, FinalizeLabels
  <2>3. LockInv'
    BY <1>a, <2>a, LockKept DEF Holds, Labels
  <2>4. SavedInv' /\ RowsInv'
    BY <1>2, <1>a, <2>a, PartsKept DEF PcOK
  <2>5. RequestsTold'
    BY <1>2, <1>a, <2>a DEF Tell, RequestsTold, PcOK
  <2> QED
    BY <2>1, <2>2, <2>3, <2>4, <2>5
<1> QED
  BY <1>1, <1>2 DEF HearRequest

\* A send command adds its friend at most, and nobody else.
LEMMA SendMessageStep ==
  ASSUME IInv, SendMessage
  PROVE  IInv'
<1> USE DEF IInv, disk, native, bounds, kept, sends, shared
<1>a. batch \in Seq(SUBSET Friend) /\ batch # <<>>
  BY DEF SendMessage, DataOK
<1>b. Head(batch) \in SUBSET Friend /\ Tail(batch) \in Seq(SUBSET Friend)
  BY <1>a, HeadTailProperties
<1>c. friends \subseteq friends' /\ friends' \subseteq Friend
  BY <1>b DEF SendMessage, DataOK
<1>d. output' \in Seq(Item) /\ Len(output') <= MaxOut
  BY PushedProperties, IOThreadAssumption DEF SendMessage, ThreadOK, Item
<1>1. ThreadOK' /\ DataOK'
  BY <1>b, <1>c, <1>d DEF SendMessage, ThreadOK, DataOK, Loadable
<1>2. PcOK' /\ LockInv'
  BY DEF SendMessage, PcOK, LockInv, Finalizing, FinalizeLabels
<1>3. SavedInv'
  BY <1>c DEF SendMessage, SavedInv, FriendsKept, Loadable
<1>4. RequestsTold' /\ RowsInv'
  BY DEF SendMessage, RequestsTold, RowsInv, OneRowEach
<1> QED
  BY <1>1, <1>2, <1>3, <1>4

\* finalize, by the thread itself or by a stopper.
LEMMA FinalizeStep ==
  ASSUME IInv, NEW t \in {Worker} \cup Stopper, Finalize(t)
  PROVE  IInv'
<1> USE DEF IInv, disk, native, bounds, kept, sends, shared
<1>a. t \in Thread /\ Worker \in Thread /\ \A c \in Client : c # t /\ c # Worker
  BY Threads
<1>b. UNCHANGED <<disk, native, listed, bounds, kept, sends, untold>>
  BY DEF Finalize
<1>1. ASSUME NEW from \in Finalizing, NEW to \in Finalizing \cup {"handle", "gone"},
             pc[t] = from, Goto(t, to),
             to = "handle" => t = Worker,
             to = "gone" => t # Worker,
             t # Worker \/ to \in Finalizing => batch' = batch
      PROVE  PcOK' /\ SavedInv' /\ RequestsTold' /\ RowsInv'
  <2>1. PcOK'
    BY <1>1, <1>a, Threads DEF Goto, PcOK, Labels, Finalizing, FinalizeLabels
  <2>2. SavedInv' /\ RowsInv'
    BY <1>1, <1>a, <1>b, PartsKept DEF Goto, PcOK, Finalizing, FinalizeLabels
  <2>3. RequestsTold'
    BY <1>1, <1>a, <1>b DEF Goto, RequestsTold, PcOK, Finalizing, FinalizeLabels
  <2> QED
    BY <2>1, <2>2, <2>3
<1>2. CASE FinalizeLock(t)
  <2>1. PcOK' /\ SavedInv' /\ RequestsTold' /\ RowsInv'
    BY <1>2, <1>1 DEF FinalizeLock, Finalizing, FinalizeLabels
  <2>2. LockInv'
    BY <1>2, <1>a, LockTaken DEF FinalizeLock, Holds, Labels
  <2>3. ThreadOK' /\ DataOK'
    BY <1>2, <1>b DEF FinalizeLock, ThreadOK, DataOK, Loadable
  <2> QED
    BY <2>1, <2>2, <2>3
<1>3. CASE FinalizeLockIO(t)
  <2>1. PcOK' /\ SavedInv' /\ RequestsTold' /\ RowsInv'
    BY <1>3, <1>1 DEF FinalizeLockIO, Finalizing, FinalizeLabels
  <2>2. LockInv'
    BY <1>3, <1>a, LockKept DEF FinalizeLockIO, Holds, Labels, FinalizeLabels
  <2>3. ThreadOK' /\ DataOK'
    BY <1>3, <1>a, <1>b DEF FinalizeLockIO, ThreadOK, DataOK, Loadable
  <2> QED
    BY <2>1, <2>2, <2>3
<1>4. CASE FinalizeUnlock(t)
  <2>a. t = Worker => batch # <<>>
    BY <1>4 DEF FinalizeUnlock, PcOK, Finalizing, FinalizeLabels
  <2>b. batch' \in Seq(SUBSET Friend)
    BY <1>4, <2>a, HeadTailProperties DEF FinalizeUnlock, DataOK
  <2>1. PcOK' /\ SavedInv' /\ RequestsTold' /\ RowsInv'
    BY <1>4, <1>1 DEF FinalizeUnlock, Finalizing, FinalizeLabels
  <2>2. LockInv'
    BY <1>4, <1>a, LockGiven DEF FinalizeUnlock, Holds, Labels
  <2>3. ThreadOK' /\ DataOK'
    BY <1>4, <1>b, <2>b DEF FinalizeUnlock, ThreadOK, DataOK, Loadable
  <2> QED
    BY <2>1, <2>2, <2>3
<1>5. CASE FinalizeEnter(t) /\ UNCHANGED <<io, batch>>
  <2>1. PcOK' /\ SavedInv' /\ RequestsTold' /\ RowsInv'
    BY <1>5, <1>1 DEF FinalizeEnter, Finalizing, FinalizeLabels
  <2>2. LockInv'
    BY <1>5, <1>a, LockTakenAgain DEF FinalizeEnter, Holds, Labels, FinalizeLabels
  <2>3. ThreadOK' /\ DataOK'
    BY <1>5, <1>b DEF FinalizeEnter, ThreadOK, DataOK, Loadable, States
  <2> QED
    BY <2>1, <2>2, <2>3
<1>6. CASE (FinalizeSignal(t) \/ FinalizeDropInput(t) \/ FinalizeDropOutput(t)) /\ UNCHANGED <<io, batch>>
  <2>a. \E from \in {"signal", "drop_input", "drop_output"}, to \in {"drop_input", "drop_output", "final"} :
          pc[t] = from /\ Goto(t, to)
    BY <1>6 DEF FinalizeSignal, FinalizeDropInput, FinalizeDropOutput
  <2>b. UNCHANGED <<state, mutex, depth>> /\ stop' \in BOOLEAN
    BY <1>6 DEF FinalizeSignal, FinalizeDropInput, FinalizeDropOutput, ThreadOK
  <2>c. input' \in {input, <<>>} /\ output' \in {output, <<>>}
    BY <1>6 DEF FinalizeSignal, FinalizeDropInput, FinalizeDropOutput
  <2>d. /\ <<>> \in Seq(SUBSET Friend) /\ <<>> \in Seq(Item) /\ Len(<<>>) = 0
        /\ 0 <= MaxIn /\ 0 <= MaxOut
    BY EmptySeq, IOThreadAssumption
  <2>1. PcOK' /\ SavedInv' /\ RequestsTold' /\ RowsInv'
    BY <1>6, <1>1, <2>a DEF Finalizing, FinalizeLabels
  <2>2. LockInv'
    BY <1>a, <2>a, <2>b, LockKept DEF Holds, Labels, FinalizeLabels
  <2>3. ThreadOK'
    BY <2>b, <2>c, <2>d DEF ThreadOK
  <2>4. DataOK'
    BY <1>6, <1>b DEF DataOK, Loadable
  <2> QED
    BY <2>1, <2>2, <2>3, <2>4
<1>7. CASE FinalizeLeave(t) /\ UNCHANGED <<io, batch>>
  <2>1. PcOK' /\ SavedInv' /\ RequestsTold' /\ RowsInv'
    BY <1>7, <1>1 DEF FinalizeLeave, Finalizing, FinalizeLabels
  <2>2. LockInv'
    BY <1>7, <1>a, LockGiven DEF FinalizeLeave, Holds, Labels, FinalizeLabels
  <2>3. ThreadOK' /\ DataOK'
    BY <1>7, <1>b DEF FinalizeLeave, ThreadOK, DataOK, Loadable, States
  <2> QED
    BY <2>1, <2>2, <2>3
<1> QED
  BY <1>2, <1>3, <1>4, <1>5, <1>6, <1>7 DEF Finalize, BaseStep

\* A call of finalize begins.
LEMMA CallFinalizeStep ==
  ASSUME IInv, NEW s \in Stopper, CallFinalize(s),
         UNCHANGED <<disk, native, listed, bounds, kept, sends, untold>>
  PROVE  IInv'
<1> USE DEF IInv, disk, native, bounds, kept, sends, shared, CallFinalize, Goto
<1>a. s \in Thread /\ s # Worker /\ Worker \in Thread /\ \A c \in Client : c # s
  BY Threads
<1>1. ThreadOK' /\ DataOK'
  BY DEF ThreadOK, DataOK, Loadable
<1>2. PcOK'
  BY <1>a, Threads DEF PcOK, Labels, Finalizing
<1>3. LockInv'
  BY <1>a, LockKept DEF Holds, Labels
<1>4. SavedInv' /\ RowsInv'
  BY <1>a, PartsKept DEF PcOK
<1>5. RequestsTold'
  BY <1>a DEF RequestsTold, PcOK
<1> QED
  BY <1>1, <1>2, <1>3, <1>4, <1>5

\* The clients: a look-up and the rows it leads to are one under the mutex.
LEMMA RequestStep ==
  ASSUME IInv, NEW c \in Client, Request(c)
  PROVE  IInv'
<1> USE DEF IInv, native, kept, sends, shared
<1>a. c \in Thread /\ c # Worker /\ Worker \in Thread
  BY Threads
<1>b. UNCHANGED <<profile, io, native, batch, events, crashes, kept, sends, untold>>
  BY DEF Request
<1>c. ASSUME pc'[Worker] = pc[Worker]
      PROVE  SavedInv' /\ RequestsTold'
  BY <1>b, <1>c DEF SavedInv, FriendsKept, Loadable, RequestsTold
<1>d. ASSUME NEW label \in {"idle", "look_up", "enter"}, Goto(c, label)
      PROVE  PcOK' /\ SavedInv' /\ RequestsTold'
  BY <1>a, <1>b, <1>c, <1>d, Threads DEF Goto, PcOK, Labels, Finalizing, FinalizeLabels
<1>1. CASE Command(c)
  <2>1. ThreadOK'
    <3>1. \A friend \in Friend : {friend} \in SUBSET Friend
      OBVIOUS
    <3>2. {} \in SUBSET Friend
      OBVIOUS
    <3>3. PICK command \in SUBSET Friend : input' = Pushed(input, command, MaxIn)
      BY <1>1, <3>1, <3>2 DEF Command, StopCommand
    <3>4. input' \in Seq(SUBSET Friend) /\ Len(input') <= MaxIn
      BY <3>3, PushedProperties, IOThreadAssumption DEF ThreadOK
    <3> QED
      BY <1>1, <3>4 DEF Command, ThreadOK
  <2>2. DataOK' /\ PcOK' /\ LockInv' /\ RowsInv'
    BY <1>1, <1>b DEF Command, DataOK, PcOK, LockInv, RowsInv, OneRowEach, Loadable
  <2> QED
    BY <1>1, <1>c, <2>1, <2>2 DEF Command
<1>2. CASE ListFriends(c)
  <2>1. ThreadOK' /\ DataOK'
    BY <1>2, <1>b DEF ListFriends, ThreadOK, DataOK, Loadable
  <2>2. LockInv'
    BY <1>2, <1>a, LockTaken DEF ListFriends, Holds, Labels
  <2>3. RowsInv'
    BY <1>2, <1>a DEF ListFriends, Goto, RowsInv, OneRowEach, DataOK, PcOK
  <2> QED
    BY <1>2, <1>d, <2>1, <2>2, <2>3 DEF ListFriends
<1>3. CASE LookUp(c)
  <2>1. ThreadOK' /\ DataOK'
    BY <1>3, <1>b DEF LookUp, ThreadOK, DataOK, Loadable
  <2>2. LockInv'
    BY <1>3, <1>a, LockKept DEF LookUp, Holds, Labels
  <2>3. RowsInv'
    BY <1>3, <1>a DEF LookUp, Goto, RowsInv, OneRowEach, DataOK, PcOK
  <2> QED
    BY <1>3, <1>d, <2>1, <2>2, <2>3 DEF LookUp
<1>4. CASE Enter(c)
  <2>a. \A d \in Client \ {c} : pc[d] # "enter"
    BY <1>4, <1>a, Threads DEF Enter, LockInv, Holds
  <2>b. PICK done \in SUBSET listed[c] :
          entries' = [f \in Friend |-> entries[f] + (IF f \in done THEN 1 ELSE 0)]
    BY <1>4 DEF Enter
  <2>1. ThreadOK' /\ DataOK'
    BY <1>4, <1>b, <2>b DEF Enter, ThreadOK, DataOK, Loadable
  <2>2. LockInv'
    BY <1>4, <1>a, LockGiven DEF Enter, Holds, Labels
  <2>3. OneRowEach'
    BY <1>4, <2>b DEF Enter, RowsInv, OneRowEach, DataOK
  <2>4. RowsInv'
    BY <1>4, <1>a, <2>3, <2>a DEF Enter, Goto, RowsInv, PcOK
  <2> QED
    BY <1>4, <1>d, <2>1, <2>2, <2>4 DEF Enter
<1> QED
  BY <1>1, <1>2, <1>3, <1>4 DEF Request

\* Every step of the client, a crash among them, and the stutter keep the invariant.
LEMMA NextInv == IInv /\ [Next]_vars => IInv'
<1> SUFFICES ASSUME IInv, [Next]_vars
             PROVE  IInv'
  OBVIOUS
<1>1. CASE Crash
  BY <1>1, CrashStep
<1>2. CASE Work
  BY <1>2, ConstructStep, RunStep, HearRequestStep, SendMessageStep, FinalizeStep DEF Work
<1>3. CASE \E c \in Client : Request(c)
  BY <1>3, RequestStep
<1>4. CASE \E s \in Stopper : Stopping(s)
  BY <1>4, CallFinalizeStep, FinalizeStep DEF Stopping
<1>5. CASE UNCHANGED vars
  BY <1>5 DEF vars, threadVars, shared, disk, native, bounds, kept, sends, IInv, ThreadOK, DataOK, PcOK,
              LockInv, SavedInv, FriendsKept, RequestsTold, RowsInv, OneRowEach, Loadable
<1> QED
  BY <1>1, <1>2, <1>3, <1>4, <1>5 DEF Next

\* The invariant holds in every state the client reaches.
LEMMA Invariance == Spec => []IInv
  BY InitInv, NextInv, PTL DEF Spec

-----------------------------------------------------------------------------
(* The theorems.                                                              *)

\* Every variable keeps its type, the two queues their bounds, and the mutex its depth.
THEOREM TypeCorrect == Spec => []TypeOK
<1>1. IInv => TypeOK
  <2> SUFFICES ASSUME IInv
               PROVE  TypeOK
    OBVIOUS
  <2>1. depth \in 0..2
    BY DEF IInv, LockInv, Holds
  <2> QED
    BY <2>1 DEF IInv, ThreadOK, DataOK, PcOK, LockInv, SavedInv, TypeOK, IOTypeOK
<1> QED
  BY <1>1, Invariance, PTL

\* No crash, failed save or restart makes a running client forget a friend of the last
\* save that was completed, unless it was read from a torn file (tox.py:180-190, 217-237).
THEOREM FriendsStay == Spec => []FriendsKept
<1>1. IInv => FriendsKept
  BY DEF IInv, SavedInv
<1> QED
  BY <1>1, Invariance, PTL

\* Every friend request is told before the next one is heard, whatever becomes of the
\* save in between (lines 273-281).
THEOREM EveryRequestTold == Spec => []RequestsTold
<1>1. IInv => RequestsTold
  BY DEF IInv
<1> QED
  BY <1>1, Invariance, PTL

\* Two clients never enter the same friend (lines 352-356).
THEOREM NoSecondRow == Spec => []OneRowEach
<1>1. IInv => OneRowEach
  BY DEF IInv, RowsInv
<1> QED
  BY <1>1, Invariance, PTL

-----------------------------------------------------------------------------
(* The life of the instance.                                                  *)

\* The labels between the start of run and the end of the thread, and those of a
\* finalize that has changed the state.
Under == {"boot", "loop", "iterate", "request", "save", "write", "tell", "handle"} \cup Finalizing
Past == {"signal", "drop_input", "drop_output", "final", "finalized"}

\* Which states go with each label; a signal means that finalize has begun.
LifeInv ==
  /\ stop => state \notin {"READY", "RUNNING"}
  /\ pc[Worker] \in Unborn => state = "READY" /\ \A s \in Stopper : pc[s] = "idle"
  /\ pc[Worker] \in {"new", "run"} => state \in {"READY", "FINALIZING", "FINALIZED"}
  /\ pc[Worker] \in Under => state \in {"RUNNING", "FINALIZING", "FINALIZED"}
  /\ \A t \in Thread : pc[t] \in Past => state \notin {"READY", "RUNNING"}

\* A step of the life of the instance, as the core sees it, or none.
LifeStep == [Service!Next]_<<LifeSeen(Unborn), StateSeen>>

\* Neither state nor life changes.
LEMMA LifeKept ==
  ASSUME IInv, LifeInv, UNCHANGED <<state, stop>>,
         NEW t \in Thread, NEW label \in Labels, Goto(t, label),
         t = Worker => \/ pc[t] \in Under /\ label \in Under
                       \/ pc[t] \in Unborn /\ label \in Unborn,
         t \in Stopper => pc[Worker] \notin Unborn,
         label \in Past => pc[t] \in Past
  PROVE  LifeInv' /\ LifeStep
<1> USE DEF Goto
<1>a. pc \in [Thread -> Labels] /\ Worker \in Thread /\ Stopper \subseteq Thread
  BY Threads DEF IInv, PcOK
<1>b. pc' = [pc EXCEPT ![t] = label] /\ UNCHANGED <<state, stop>>
  OBVIOUS
<1>c. Under \cap Unborn = {} /\ Under \cap {"new", "run", "dead"} = {} /\ Unborn \cap {"new", "run", "dead"} = {}
  BY DEF Under, Unborn, Finalizing, FinalizeLabels
<1>d. pc'[Worker] # pc[Worker] => \/ pc[Worker] \in Under /\ pc'[Worker] \in Under
                                  \/ pc[Worker] \in Unborn /\ pc'[Worker] \in Unborn
  BY <1>a, <1>b
<1>1. LifeInv'
  <2>1. \A s \in Stopper : pc'[Worker] \in Unborn => pc'[s] = pc[s]
    BY <1>a, <1>b, <1>c, <1>d, Threads
  <2>2. \A u \in Thread : pc'[u] \in Past => pc[u] \in Past
    BY <1>a, <1>b
  <2> QED
    BY <1>b, <1>c, <1>d, <2>1, <2>2 DEF LifeInv
<1>2. UNCHANGED LifeSeen(Unborn)
  BY <1>c, <1>d DEF LifeSeen
<1>3. UNCHANGED StateSeen
  BY <1>b DEF StateSeen
<1> QED
  BY <1>1, <1>2, <1>3 DEF LifeStep

\* Nothing that matters to it changes.
LEMMA LifeUntouched ==
  ASSUME LifeInv, UNCHANGED <<state, stop, pc>>
  PROVE  LifeInv' /\ LifeStep
  BY DEF LifeInv, LifeStep, LifeSeen, StateSeen

\* The process dies, and its successor begins with the constructor.
LEMMA CrashLife ==
  ASSUME IInv, LifeInv, Crash
  PROVE  LifeInv' /\ LifeStep
<1>1. /\ state' = "READY" /\ stop' = FALSE
      /\ pc' = [t \in Thread |-> IF t = Worker THEN "create" ELSE "idle"]
  BY DEF Crash
<1>2. LifeInv'
  BY <1>1, Threads DEF LifeInv, Unborn, Under, Past, Finalizing, FinalizeLabels
<1>3. LifeSeen(Unborn)' = "absent" /\ StateSeen' = "READY"
  BY <1>1, Threads DEF LifeSeen, StateSeen, Unborn
<1>4. Service!Perish
  BY <1>3 DEF Service!Perish
<1> QED
  BY <1>2, <1>4 DEF LifeStep, Service!Next

\* The constructor makes the instance or fails; the saves of a request are its own affair.
LEMMA ConstructLife ==
  ASSUME IInv, LifeInv, Construct
  PROVE  LifeInv' /\ LifeStep
<1>a. Worker \in Thread /\ Worker \notin Stopper /\ pc \in [Thread -> Labels]
  BY Threads DEF IInv, PcOK
<1>b. UNCHANGED shared
  BY DEF Construct, CreateFromKey, CreateFromFile, CreateFromTorn, CreateRefused, CreateFails,
         SaveRefused, SaveOpen, SaveWrite, SaveTorn
<1>1. PICK label \in {"first_save", "first_write", "new", "broken", "failed", "write", "tell"} :
        /\ Goto(Worker, label)
        /\ \/ pc[Worker] \in {"create", "first_save", "first_write"}
              /\ label \in {"first_save", "first_write", "new", "broken", "failed"}
           \/ pc[Worker] \in {"save", "write"} /\ label \in {"write", "tell"}
  BY DEF Construct, CreateFromKey, CreateFromFile, CreateFromTorn, CreateRefused, CreateFails,
         SaveRefused, SaveOpen, SaveWrite, SaveTorn, InSave, InWrite, Raised
<1>2. CASE label # "new"
  <2>1. label \in Labels /\ label \notin Past
    BY DEF Labels, Past
  <2>2. \/ pc[Worker] \in Under /\ label \in Under
        \/ pc[Worker] \in Unborn /\ label \in Unborn
    BY <1>1, <1>2 DEF Under, Unborn
  <2> QED
    BY <1>a, <1>b, <1>1, <2>1, <2>2, LifeKept DEF shared
<1>3. CASE label = "new"
  <2>1. /\ pc' = [pc EXCEPT ![Worker] = "new"] /\ pc[Worker] \in Unborn
        /\ UNCHANGED <<state, stop>> /\ state = "READY"
    BY <1>b, <1>1, <1>3 DEF Goto, shared, Unborn, LifeInv
  <2>2. LifeInv'
    BY <1>a, <2>1 DEF LifeInv, Unborn, Under, Past, Finalizing, FinalizeLabels
  <2>3. /\ LifeSeen(Unborn) = "absent" /\ LifeSeen(Unborn)' = "made"
        /\ StateSeen' = StateSeen
    BY <1>a, <2>1 DEF LifeSeen, StateSeen, Unborn
  <2> QED
    BY <2>2, <2>3 DEF LifeStep, Service!Next, Service!Make
<1> QED
  BY <1>2, <1>3

\* run: the thread begins once, and ends finalized or down.
LEMMA RunLife ==
  ASSUME IInv, LifeInv, Run
  PROVE  LifeInv' /\ LifeStep
<1>a. Worker \in Thread /\ Worker \notin Stopper /\ pc \in [Thread -> Labels]
  BY Threads DEF IInv, PcOK
<1>1. CASE Start
  <2>1. /\ pc[Worker] = "new" /\ pc' = [pc EXCEPT ![Worker] = "run"]
        /\ UNCHANGED <<state, stop>>
    BY <1>1 DEF Start, Goto, shared
  <2>2. LifeInv'
    BY <1>a, <2>1 DEF LifeInv, Unborn, Under, Past, Finalizing, FinalizeLabels
  <2>3. /\ LifeSeen(Unborn) = "made" /\ LifeSeen(Unborn)' = "alive"
        /\ StateSeen' = StateSeen
    BY <1>a, <2>1 DEF LifeSeen, StateSeen, Unborn
  <2> QED
    BY <2>2, <2>3 DEF LifeStep, Service!Next, Service!StartThread
<1>2. CASE RunReady
  <2>1. /\ pc[Worker] = "run" /\ pc' = [pc EXCEPT ![Worker] = "boot"]
        /\ state = "READY" /\ state' = "RUNNING" /\ stop' = stop
    BY <1>2 DEF RunReady, Goto
  <2>2. LifeInv'
    BY <1>a, <2>1 DEF LifeInv, Unborn, Under, Past, Finalizing, FinalizeLabels
  <2>3. /\ LifeSeen(Unborn) = "alive" /\ LifeSeen(Unborn)' = "alive"
        /\ StateSeen = "READY" /\ StateSeen' = "RUNNING"
    BY <1>a, <2>1 DEF LifeSeen, StateSeen, Unborn
  <2> QED
    BY <2>2, <2>3 DEF LifeStep, Service!Next, Service!Begin
<1>3. CASE RunRefused \/ (LoopTest /\ stop)
  <2>1. /\ pc[Worker] \in {"run", "loop"} /\ pc' = [pc EXCEPT ![Worker] = "dead"]
        /\ UNCHANGED <<state, stop>> /\ state \in {"FINALIZING", "FINALIZED"}
    BY <1>3 DEF RunRefused, LoopTest, Goto, shared, LifeInv, Under
  <2>2. LifeInv'
    BY <1>a, <2>1 DEF LifeInv, Unborn, Under, Past, Finalizing, FinalizeLabels
  <2>3. /\ LifeSeen(Unborn) = "alive" /\ LifeSeen(Unborn)' = "ended"
        /\ StateSeen = "FINALIZED" /\ StateSeen' = StateSeen
    BY <1>a, <2>1 DEF LifeSeen, StateSeen, Unborn
  <2> QED
    BY <2>2, <2>3 DEF LifeStep, Service!Next, Service!End
<1>4. CASE BootstrapFails
  <2>1. /\ pc[Worker] = "boot" /\ pc' = [pc EXCEPT ![Worker] = "dead"]
        /\ state \in {"RUNNING", "FINALIZING", "FINALIZED"}
        /\ state' = "INTERNAL_ERROR_DOWN" /\ stop' = stop
    BY <1>4 DEF BootstrapFails, Goto, LifeInv, Under
  <2>2. LifeInv'
    BY <1>a, <2>1 DEF LifeInv, Unborn, Under, Past, Finalizing, FinalizeLabels
  <2>3. /\ LifeSeen(Unborn) = "alive" /\ LifeSeen(Unborn)' = "ended"
        /\ StateSeen \in {"RUNNING", "FINALIZED"} /\ StateSeen' = "DOWN"
    BY <1>a, <2>1 DEF LifeSeen, StateSeen, Unborn
  <2> QED
    BY <2>2, <2>3 DEF LifeStep, Service!Next, Service!GoDown
<1>5. CASE Bootstrap \/ (LoopTest /\ ~stop) \/ Handle \/ FriendRequest \/ Fetch
  <2>1. PICK label \in {"loop", "iterate", "finalize", "request", "handle"} : Goto(Worker, label)
    BY <1>5 DEF Bootstrap, LoopTest, Handle, FriendRequest, Fetch
  <2>2. UNCHANGED <<state, stop>> /\ pc[Worker] \in {"boot", "loop", "handle", "iterate"}
    BY <1>5 DEF Bootstrap, LoopTest, Handle, FriendRequest, Fetch, shared
  <2>3. label \in Labels /\ label \notin Past /\ label \in Under /\ pc[Worker] \in Under
    BY <2>2 DEF Labels, Past, Under, Finalizing
  <2> QED
    BY <1>a, <2>1, <2>2, <2>3, LifeKept
<1>6. CASE IncomingMessage
  BY <1>6, LifeUntouched DEF IncomingMessage
<1> QED
  BY <1>1, <1>2, <1>3, <1>4, <1>5, <1>6 DEF Run

\* Friend requests, sends and clients leave the state alone.
LEMMA OtherLife ==
  ASSUME IInv, LifeInv, HearRequest \/ SendMessage \/ \E c \in Client : Request(c)
  PROVE  LifeInv' /\ LifeStep
<1>a. Worker \in Thread /\ Worker \notin Stopper /\ pc \in [Thread -> Labels]
  BY Threads DEF IInv, PcOK
<1>1. CASE HearRequest
  <2>1. PICK label \in {"tell", "save", "iterate"} : Goto(Worker, label)
    BY <1>1 DEF HearRequest, Decline, Accept, Tell
  <2>2. UNCHANGED <<state, stop>> /\ pc[Worker] \in {"request", "tell"}
    BY <1>1 DEF HearRequest, Decline, Accept, Tell, shared
  <2>3. label \in Labels /\ label \notin Past /\ label \in Under /\ pc[Worker] \in Under
    BY <2>2 DEF Labels, Past, Under
  <2> QED
    BY <1>a, <2>1, <2>2, <2>3, LifeKept
<1>2. CASE SendMessage
  BY <1>2, LifeUntouched DEF SendMessage
<1>3. ASSUME NEW c \in Client, Request(c)
      PROVE  LifeInv' /\ LifeStep
  <2>1. CASE Command(c)
    BY <2>1, LifeUntouched DEF Command
  <2>2. CASE ListFriends(c) \/ LookUp(c) \/ Enter(c)
    <3>1. PICK label \in {"look_up", "enter", "idle"} : Goto(c, label)
      BY <2>2 DEF ListFriends, LookUp, Enter
    <3>2. UNCHANGED <<state, stop>>
      BY <2>2 DEF ListFriends, LookUp, Enter, shared
    <3>3. label \in Labels /\ label \notin Past /\ c \in Thread /\ c # Worker /\ c \notin Stopper
      BY Threads DEF Labels, Past
    <3> QED
      BY <3>1, <3>2, <3>3, LifeKept
  <2> QED
    BY <1>3, <2>1, <2>2 DEF Request
<1> QED
  BY <1>1, <1>2, <1>3

\* finalize, from its call to its end.
LEMMA FinalizeLife ==
  ASSUME IInv, LifeInv, NEW t \in {Worker} \cup Stopper, Finalize(t) \/ (t \in Stopper /\ CallFinalize(t))
  PROVE  LifeInv' /\ LifeStep
<1>a. t \in Thread /\ pc \in [Thread -> Labels] /\ Worker \in Thread /\ Worker \notin Stopper
  BY Threads DEF IInv, PcOK
<1>b. Finalize(t) => pc[t] \in Finalizing
  BY DEF Finalize, BaseStep, FinalizeLock, FinalizeLockIO, FinalizeUnlock, FinalizeEnter, FinalizeSignal,
         FinalizeDropInput, FinalizeDropOutput, FinalizeLeave, Finalizing, FinalizeLabels
<1>c. pc[Worker] \notin Unborn
  <2>1. CASE t = Worker
    <3>1. Finalizing \cap Unborn = {}
      BY DEF Finalizing, FinalizeLabels, Unborn
    <3> QED
      BY <1>a, <1>b, <2>1, <3>1
  <2>2. CASE t # Worker /\ Finalize(t)
    <3>1. "idle" \notin Finalizing
      BY DEF Finalizing, FinalizeLabels
    <3> QED
      BY <1>b, <2>2, <3>1 DEF LifeInv
  <2>3. CASE t # Worker /\ CallFinalize(t)
    BY <2>3 DEF CallFinalize
  <2> QED
    BY <1>a, <2>1, <2>2, <2>3
<1>1. CASE \/ FinalizeLock(t) \/ FinalizeLockIO(t) \/ FinalizeUnlock(t)
           \/ FinalizeDropInput(t) \/ FinalizeDropOutput(t) \/ (t \in Stopper /\ CallFinalize(t))
  <2>1. PICK label \in {"finalize", "io_lock", "super", "drop_output", "final", "handle", "gone"} :
          /\ Goto(t, label)
          /\ label = "gone" => t # Worker
          /\ label \in {"drop_output", "final"} => pc[t] \in {"drop_input", "drop_output"}
          /\ t \notin Stopper \/ ~CallFinalize(t) => pc[t] \in Finalizing
    BY <1>1, <1>a DEF FinalizeLock, FinalizeLockIO, FinalizeUnlock, FinalizeDropInput, FinalizeDropOutput,
                CallFinalize, Finalizing, FinalizeLabels
  <2>2. UNCHANGED <<state, stop>>
    BY <1>1 DEF FinalizeLock, FinalizeLockIO, FinalizeUnlock, FinalizeDropInput, FinalizeDropOutput,
                CallFinalize, shared
  <2>3. label \in Labels /\ (label \in Past => pc[t] \in Past) /\ (t = Worker => label \in Under)
    BY <2>1 DEF Labels, Past, Under, Finalizing, FinalizeLabels
  <2>4. t = Worker => pc[t] \in Under
    BY <1>a, <2>1 DEF Under
  <2> QED
    BY <1>a, <1>c, <2>1, <2>2, <2>3, <2>4, LifeKept
<1>2. CASE FinalizeSignal(t)
  <2>1. /\ pc[t] = "signal" /\ pc' = [pc EXCEPT ![t] = "drop_input"]
        /\ stop' = TRUE /\ state' = state /\ state \notin {"READY", "RUNNING"}
    BY <1>2, <1>a DEF FinalizeSignal, Goto, LifeInv, Past
  <2>2. LifeInv'
    BY <1>a, <1>c, <2>1 DEF LifeInv, Unborn, Under, Past, Finalizing, FinalizeLabels
  <2>3. UNCHANGED <<LifeSeen(Unborn), StateSeen>>
    BY <1>a, <2>1 DEF LifeSeen, StateSeen, Unborn
  <2> QED
    BY <2>2, <2>3 DEF LifeStep
<1>3. CASE FinalizeEnter(t) \/ FinalizeLeave(t)
  <2>1. /\ pc[t] \in {"super", "final"} /\ state' \in {"FINALIZING", "FINALIZED"} /\ stop' = stop
        /\ \E label \in {"drop_input", "signal", "finalized"} : pc' = [pc EXCEPT ![t] = label]
    BY <1>3 DEF FinalizeEnter, FinalizeLeave, Goto
  <2>2. LifeInv'
    BY <1>a, <1>c, <2>1 DEF LifeInv, Unborn, Under, Past, Finalizing, FinalizeLabels
  <2>3. /\ UNCHANGED LifeSeen(Unborn) /\ LifeSeen(Unborn) # "absent"
        /\ StateSeen' = "FINALIZED"
    BY <1>a, <1>c, <2>1 DEF LifeSeen, StateSeen, Unborn
  <2> QED
    BY <2>2, <2>3 DEF LifeStep, Service!Next, Service!Finalize
<1> QED
  BY <1>1, <1>2, <1>3 DEF Finalize, BaseStep

\* Every step is one of the life of the instance, or none.
LEMMA NextLife == IInv /\ LifeInv /\ [Next]_vars => LifeInv' /\ LifeStep
<1> SUFFICES ASSUME IInv, LifeInv, [Next]_vars
             PROVE  LifeInv' /\ LifeStep
  OBVIOUS
<1>1. CASE Crash
  BY <1>1, CrashLife
<1>2. CASE Work
  BY <1>2, ConstructLife, RunLife, OtherLife, FinalizeLife DEF Work
<1>3. CASE \E c \in Client : Request(c)
  BY <1>3, OtherLife
<1>4. CASE \E s \in Stopper : Stopping(s)
  BY <1>4, FinalizeLife DEF Stopping
<1>5. CASE UNCHANGED vars
  BY <1>5, LifeUntouched DEF vars, threadVars, shared
<1> QED
  BY <1>1, <1>2, <1>3, <1>4, <1>5 DEF Next

\* Before the first step there is no instance.
LEMMA InitLife == Init => LifeInv /\ Service!Init
<1> SUFFICES ASSUME Init
             PROVE  LifeInv /\ Service!Init
  OBVIOUS
<1>1. /\ state = "READY" /\ stop = FALSE
      /\ pc[Worker] = "create" /\ \A t \in Thread \ {Worker} : pc[t] = "idle"
  BY Threads DEF Init
<1>2. LifeInv
  BY <1>1, Threads DEF LifeInv, Unborn, Under, Past, Finalizing, FinalizeLabels
<1>3. LifeSeen(Unborn) = "absent" /\ StateSeen = "READY"
  BY <1>1 DEF LifeSeen, StateSeen, Unborn
<1> QED
  BY <1>2, <1>3 DEF Service!Init

\* The client is a service as the core expects it, over crashes and restarts
\* (core_threading.py:73-78, 110-119, tox.py:283-315).
THEOREM ImplementsService == Spec => IsService
<1>1. Init => LifeInv /\ Service!Init
  BY InitLife
<1>2. IInv /\ LifeInv /\ [Next]_vars => LifeInv' /\ [Service!Next]_(Service!vars)
  BY NextLife DEF LifeStep, Service!vars
<1> QED
  BY <1>1, <1>2, Invariance, PTL DEF Spec, IsService, Service!Spec

\* No completed save drops a friend that an earlier one held, unless the instance was
\* read from a torn file (tox.py:180-190, 217-237).
THEOREM SavesGrow == Spec => SavedGrows
<1>1. IInv /\ [Next]_vars
        => [saved # Absent /\ ~partial => saved' # Absent /\ saved \subseteq saved']_vars
  <2> SUFFICES ASSUME IInv, Next
               PROVE  saved # Absent /\ ~partial => saved' # Absent /\ saved \subseteq saved'
    OBVIOUS
  <2>1. CASE saved' = saved
    BY <2>1
  <2>2. CASE SaveWrite
    <3>1. saved' = friends /\ pc[Worker] \in {"first_write", "write"}
      BY <2>2 DEF SaveWrite, InWrite
    <3>2. friends # Absent
      BY Files DEF IInv, DataOK
    <3> QED
      BY <3>1, <3>2 DEF IInv, SavedInv, FriendsKept
  <2>3. saved' = saved \/ SaveWrite
    <3>1. CASE Work
      BY <3>1 DEF Work, Construct, SaveRefused, SaveOpen, SaveTorn, Run, HearRequest, SendMessage, Finalize, kept
    <3>2. CASE Crash \/ (\E c \in Client : Request(c)) \/ (\E s \in Stopper : Stopping(s))
      BY <3>2 DEF Crash, Request, Stopping, Finalize, kept
    <3> QED
      BY <3>1, <3>2 DEF Next
  <2> QED
    BY <2>1, <2>2, <2>3
<1> QED
  BY <1>1, Invariance, PTL DEF Spec, SavedGrows
=============================================================================
