---------------------------- MODULE MeshtasticWire --------------------------
(* MeshtasticWireHandleThread of src/services/meshtastic.py: the service      *)
(* thread of one radio on a USB port.  Messages are sent by the thread, on    *)
(* command, and directly by HTTP clients; the radio library calls             *)
(* on_receive_message in threads of its own; the thread that stops the core   *)
(* calls finalize.  The library and SQLite may fail at any call.              *)
EXTENDS IOThread, FiniteSets

CONSTANTS Client,      \* HTTP request threads
          Listener,    \* threads in which the library calls on_receive_message
          Stopper,     \* threads in ServerCore.stop_core_threads
          Uid,         \* ids the library gives to packets it sends
          TextUid,     \* ids of the text packets of other nodes
          Idless,      \* the default id 0, if the library may leave the id out
          NoUid,       \* no packet: an id that sendText has not returned
          OnlyLora,    \* config.only_lora
          Commands,    \* the commands the callers queue
          MaxCalls,    \* bound on the calls of the clients
          MaxPackets   \* bound on the packets that arrive

ASSUME WireAssumption ==
  /\ Caller = Client \cup Listener \cup Stopper
  /\ Client \cap Listener = {} /\ Client \cap Stopper = {} /\ Listener \cap Stopper = {}
  /\ Uid \cap TextUid = {} /\ Uid \cap Idless = {}
  /\ NoUid \notin Uid \cup TextUid \cup Idless
  /\ OnlyLora \in BOOLEAN
  /\ Commands \subseteq {"send_message", "stop"}
  /\ MaxCalls \in Nat /\ MaxPackets \in Nat

VARIABLES
  usb,        \* the thread that holds usb_port_mutex, or NoThread
  interface,  \* is self._interface an open SerialInterface (or None)
  pending,    \* _pending_packet_ids
  rows,       \* messages.db: one record per MeshtasticMessage
  batch,      \* the commands of the thread's last get_batch, not handled yet
  uid,        \* the id of the message each thread is sending
  packet,     \* the packet each listener is handling
  calls,      \* how many calls the clients have made
  packets,    \* how many packets have arrived
  sent,       \* history: the ids the library has returned for packets of ours
  reported,   \* history: the statuses put on the output queue, per id
  forgotten,  \* history: the ids finalize cleared while they were pending
  asked,      \* history: send commands accepted by the input queue
  answered,   \* history: command statuses put on the output queue
  discarded   \* history: send commands that left the input queue unhandled

radio == <<usb, interface, uid>>
books == <<pending, rows, sent, reported, forgotten>>
ledger == <<asked, answered, discarded>>
bounds == <<calls, packets>>
vars == <<threadVars, radio, books, ledger, bounds, batch, packet>>

AnyUid == Uid \cup TextUid \cup Idless

\* What the library hands to on_receive_message: the answers to packets of ours,
\* and the text packets of other nodes, over LoRa or over another transport.
Answers == [kind : {"routing"}, uid : sent \cup (Idless \cap pending), error : BOOLEAN]
Texts == [kind : {"text"}, uid : TextUid \cup Idless, lora : BOOLEAN]
NoPacket == [kind |-> "none"]

Status(p) == IF p.kind = "routing" /\ p.error THEN "Error" ELSE "Success"

Sends(q) == Cardinality({i \in DOMAIN q : q[i] = "send_message"})

Init ==
  /\ IOInit
  /\ usb = NoThread /\ interface = FALSE
  /\ pending = {} /\ rows = {}
  /\ batch = <<>>
  /\ uid = [t \in Thread |-> NoUid]
  /\ packet = [l \in Listener |-> NoPacket]
  /\ calls = 0 /\ packets = 0
  /\ sent = {} /\ reported = [u \in Uid |-> <<>>] /\ forgotten = {}
  /\ asked = 0 /\ answered = 0 /\ discarded = 0

-----------------------------------------------------------------------------
(* The thread's own run.                                                     *)

\* _get_usb_interface, under usb_port_mutex, finds the radio or raises.
Connect ==
  /\ pc[Worker] = "boot"
  /\ usb = NoThread
  /\ Goto(Worker, "assign")
  /\ UNCHANGED shared

ConnectFails ==
  /\ pc[Worker] = "boot"
  /\ usb = NoThread
  /\ Goto(Worker, "dead")
  /\ state' = "EXTERNAL_ERROR_DOWN"
  /\ UNCHANGED <<stop, mutex, depth, input, output>>

\* The interface is stored after the mutex has been released.
AssignInterface ==
  /\ pc[Worker] = "assign"
  /\ interface' = TRUE
  /\ Goto(Worker, "loop")
  /\ UNCHANGED <<shared, usb, uid>>

\* while not stop: sleep ...
LoopTest ==
  /\ pc[Worker] = "loop"
  /\ Goto(Worker, IF stop THEN "close" ELSE "fetch")
  /\ UNCHANGED shared

\* ... get_batch(max_count=4) ...
BatchSize == 4

Fetch ==
  /\ pc[Worker] = "fetch"
  /\ batch' = Front(input, BatchSize)
  /\ input' = Rest(input, BatchSize)
  /\ Goto(Worker, "handle")
  /\ UNCHANGED <<state, stop, mutex, depth, output>>

\* ... and _handle_command for each command.
Handle ==
  /\ pc[Worker] = "handle"
  /\ \/ /\ batch = <<>>
        /\ Goto(Worker, "loop")
     \/ /\ batch # <<>> /\ Head(batch) = "send_message"
        /\ Goto(Worker, "send_lock")
     \/ /\ batch # <<>> /\ Head(batch) = "stop"
        /\ Goto(Worker, "finalize")
  /\ UNCHANGED shared

\* Slip: an exception in one command abandons the rest of the batch.
ReplyAbandons ==
  /\ pc[Worker] = "reply"
  /\ output' = Pushed(output, "command_status", MaxOut)
  /\ answered' = answered + 1
  /\ batch' = <<>>
  /\ Goto(Worker, "handle")
  /\ UNCHANGED <<state, stop, mutex, depth, input, asked, discarded>>

\* The answer to a send command is always "Pending".
Reply ==
  /\ pc[Worker] = "reply"
  /\ output' = Pushed(output, "command_status", MaxOut)
  /\ answered' = answered + 1
  /\ batch' = Tail(batch)
  /\ Goto(Worker, "handle")
  /\ UNCHANGED <<state, stop, mutex, depth, input, asked, discarded>>

\* Slip: run leaves the closing to finalize.
CloseAtEndMissing ==
  /\ pc[Worker] = "close"
  /\ Goto(Worker, "dead")
  /\ UNCHANGED <<shared, interface, usb, uid>>

\* finally: close(), under usb_port_mutex.
CloseAtEnd ==
  /\ pc[Worker] = "close"
  /\ usb = NoThread
  /\ stop' = TRUE
  /\ interface' = FALSE
  /\ Goto(Worker, "dead")
  /\ UNCHANGED <<state, mutex, depth, input, output, usb, uid>>

Run ==
  \/ /\ \/ Start \/ RunReady \/ RunRefused
        \/ Connect \/ ConnectFails \/ LoopTest \/ Handle
     /\ UNCHANGED <<radio, books, ledger, bounds, batch, packet>>
  \/ /\ AssignInterface \/ CloseAtEnd
     /\ UNCHANGED <<books, ledger, bounds, batch, packet>>
  \/ Fetch /\ UNCHANGED <<radio, books, ledger, bounds, packet>>
  \/ Reply /\ UNCHANGED <<radio, books, bounds, packet>>

-----------------------------------------------------------------------------
(* _send_message, under usb_port_mutex, by the thread or by a client.        *)

SendLock(t) ==
  /\ pc[t] = "send_lock"
  /\ usb = NoThread
  /\ usb' = t
  /\ Goto(t, "send_text")
  /\ UNCHANGED <<shared, interface, uid, books>>

\* interface.sendText hands the packet to the radio and returns its id.
SendText(t) ==
  /\ pc[t] = "send_text"
  /\ interface
  /\ \E u \in (Uid \ sent) \cup Idless :
       /\ uid' = [uid EXCEPT ![t] = u]
       /\ sent' = sent \cup (Uid \cap {u})
  /\ Goto(t, "send_add")
  /\ UNCHANGED <<shared, usb, interface,
                 pending, rows, reported, forgotten>>

\* Slip: an exception of sendText leaves usb_port_mutex locked.
SendFailsLocked(t) ==
  /\ pc[t] = "send_text"
  /\ Goto(t, IF t = Worker THEN "reply" ELSE "idle")
  /\ UNCHANGED <<shared, radio, books>>

\* Without an interface, or when sendText or the reading of its result raises, "finally:
\* return" answers 0.  A packet that is on the air by then has left no id here: an answer
\* to it is one for nobody.
SendFails(t) ==
  /\ pc[t] = "send_text"
  /\ Goto(t, "send_return")
  /\ UNCHANGED <<shared, radio, books>>

SendAdd(t) ==
  /\ pc[t] = "send_add"
  /\ pending' = pending \cup {uid[t]}
  /\ Goto(t, "send_row")
  /\ UNCHANGED <<shared, radio,
                 rows, sent, reported, forgotten>>

\* The row of a message we send.  message_uid is what set.add returned: None.
OutgoingRow(u) == [of |-> u, message_uid |-> NoUid, delivered |-> "None"]

SendRow(t) ==
  /\ pc[t] = "send_row"
  /\ \/ rows' = rows \cup {OutgoingRow(uid[t])}
     \/ UNCHANGED rows
  /\ Goto(t, "send_return")
  /\ UNCHANGED <<shared, radio,
                 pending, sent, reported, forgotten>>

SendReturn(t) ==
  /\ pc[t] = "send_return"
  /\ usb' = NoThread
  /\ uid' = [uid EXCEPT ![t] = NoUid]
  /\ Goto(t, IF t = Worker THEN "reply" ELSE "idle")
  /\ UNCHANGED <<shared, interface, books>>

Send(t) ==
  /\ \/ SendLock(t) \/ SendText(t) \/ SendFails(t)
     \/ SendAdd(t) \/ SendRow(t) \/ SendReturn(t)
  /\ UNCHANGED <<ledger, bounds, batch, packet>>

-----------------------------------------------------------------------------
(* on_receive_message.                                                       *)

Arrive(l) ==
  /\ pc[l] = "idle"
  /\ packets < MaxPackets
  /\ packets' = packets + 1
  /\ \E p \in Answers \cup Texts : packet' = [packet EXCEPT ![l] = p]
  /\ Goto(l, "hear")
  /\ UNCHANGED <<shared, calls>>

\* Is the packet taken for the answer to one of our messages, stored, or ignored?
IsAnswer(l) == packet[l].uid \in pending
IsWanted(l) == packet[l].kind = "text" /\ (OnlyLora => packet[l].lora)

Done(l) ==
  /\ packet' = [packet EXCEPT ![l] = NoPacket]
  /\ Goto(l, "idle")

\* Slip: on_receive_message runs without the mutex.
HearAnswerUnlocked(l) ==
  /\ pc[l] = "hear"
  /\ IsAnswer(l)
  /\ Goto(l, "report")
  /\ UNCHANGED <<shared, packet>>

HearAnswer(l) ==
  /\ pc[l] = "hear"
  /\ IsAnswer(l)
  /\ Lock(l)
  /\ Goto(l, "report")
  /\ UNCHANGED <<state, stop, input, output, packet>>

HearText(l) ==
  /\ pc[l] = "hear"
  /\ ~IsAnswer(l) /\ IsWanted(l)
  /\ Lock(l)
  /\ Goto(l, "store")
  /\ UNCHANGED <<state, stop, input, output, packet>>

HearNothing(l) ==
  /\ pc[l] = "hear"
  /\ ~IsAnswer(l) /\ ~IsWanted(l)
  /\ mutex = NoThread
  /\ Done(l)
  /\ UNCHANGED shared

\* _try_update_outgoing_message_status: the status goes out, ...
ReportStatus(l) ==
  /\ pc[l] = "report"
  /\ output' = Pushed(output, "outgoing_message_status", MaxOut)
  /\ reported' = [u \in Uid |-> IF u = packet[l].uid
                                THEN Append(reported[u], Status(packet[l])) ELSE reported[u]]
  /\ Goto(l, "remove")
  /\ UNCHANGED <<state, stop, mutex, depth, input, packet, pending, rows, sent, forgotten>>

\* Slip: the id stays pending.
RemovePendingForgotten(l) ==
  /\ pc[l] = "remove"
  /\ Goto(l, "mark")
  /\ UNCHANGED <<shared, packet, books>>

\* ... the id is no longer pending, ...
RemovePending(l) ==
  /\ pc[l] = "remove"
  /\ pending' = pending \ {packet[l].uid}
  /\ Goto(l, "mark")
  /\ UNCHANGED <<shared, packet,
                 rows, sent, reported, forgotten>>

\* ... and the row that carries it, if it has no verdict yet, gets one.
MarkRow(l) ==
  /\ pc[l] = "mark"
  /\ rows' = {IF r.message_uid = packet[l].uid /\ r.delivered = "None"
              THEN [r EXCEPT !.delivered = Status(packet[l])] ELSE r : r \in rows}
  /\ Unlock(l)
  /\ Done(l)
  /\ UNCHANGED <<state, stop, input, output, pending, sent, reported, forgotten>>

\* A text packet is stored and then reported; if storing raises, it is neither.
StoreText(l) ==
  /\ pc[l] = "store"
  /\ rows' = rows \cup {[of |-> packet[l].uid, message_uid |-> packet[l].uid,
                         delivered |-> "Success"]}
  /\ Goto(l, "tell")
  /\ UNCHANGED <<shared, packet,
                 pending, sent, reported, forgotten>>

StoreFails(l) ==
  /\ pc[l] = "store"
  /\ Unlock(l)
  /\ Done(l)
  /\ UNCHANGED <<state, stop, input, output>>

TellText(l) ==
  /\ pc[l] = "tell"
  /\ output' = Pushed(output, "incoming_message", MaxOut)
  /\ Unlock(l)
  /\ Done(l)
  /\ UNCHANGED <<state, stop, input>>

Listen(l) ==
  \/ Arrive(l) /\ UNCHANGED <<radio, books, ledger, batch>>
  \/ /\ \/ HearAnswer(l) \/ HearText(l) \/ HearNothing(l)
        \/ StoreFails(l) \/ TellText(l)
     /\ UNCHANGED <<radio, books, ledger, bounds, batch>>
  \/ /\ ReportStatus(l) \/ RemovePending(l) \/ MarkRow(l) \/ StoreText(l)
     /\ UNCHANGED <<radio, ledger, bounds, batch>>

-----------------------------------------------------------------------------
(* finalize, by the thread (command "stop") or by the thread that stops the  *)
(* core; the latter takes the instance out of the core's table first.        *)

CallFinalize(s) ==
  /\ pc[s] = "idle"
  /\ IsFinalizable /\ pc[Worker] # "new"
  /\ Goto(s, "finalize")
  /\ UNCHANGED shared

FinalizeLock(t) ==
  /\ pc[t] = "finalize"
  /\ Lock(t)
  /\ Goto(t, "super")
  /\ UNCHANGED <<state, stop, input, output>>

DropInput(t) ==
  /\ FinalizeDropInput(t)
  /\ discarded' = discarded + Sends(input)
  /\ UNCHANGED <<asked, answered>>

ClearPending(t) ==
  /\ pc[t] = "finalized"
  /\ pending' = {}
  /\ forgotten' = forgotten \cup pending
  /\ Goto(t, "close_port")
  /\ UNCHANGED <<shared, rows, sent, reported>>

\* Slip: the mutex is not released.
ClosePortLocked(t) ==
  /\ pc[t] = "close_port"
  /\ usb = NoThread
  /\ stop' = TRUE
  /\ interface' = FALSE
  /\ batch' = IF t = Worker THEN Tail(batch) ELSE batch
  /\ Goto(t, IF t = Worker THEN "handle" ELSE "gone")
  /\ UNCHANGED <<state, mutex, depth, input, output, usb, uid>>

\* close(), under usb_port_mutex; then the mutex is released.
ClosePort(t) ==
  /\ pc[t] = "close_port"
  /\ usb = NoThread
  /\ stop' = TRUE
  /\ interface' = FALSE
  /\ Unlock(t)
  /\ batch' = IF t = Worker THEN Tail(batch) ELSE batch
  /\ Goto(t, IF t = Worker THEN "handle" ELSE "gone")
  /\ UNCHANGED <<state, input, output, usb, uid>>

Finalize(t) ==
  \/ FinalizeLock(t) /\ UNCHANGED <<radio, books, ledger, bounds, batch, packet>>
  \/ BaseStep(t) /\ UNCHANGED <<radio, books, ledger, bounds, batch, packet>>
  \/ DropInput(t) /\ UNCHANGED <<radio, books, bounds, batch, packet>>
  \/ ClearPending(t) /\ UNCHANGED <<radio, ledger, bounds, batch, packet>>
  \/ ClosePort(t) /\ UNCHANGED <<books, ledger, bounds, packet>>

Stopping(s) ==
  \/ CallFinalize(s) /\ UNCHANGED <<radio, books, ledger, bounds, batch, packet>>
  \/ Finalize(s)

-----------------------------------------------------------------------------
(* The clients: they check is_running and then call.                         *)

CallSend(c) ==
  /\ pc[c] = "idle"
  /\ IsRunning
  /\ calls < MaxCalls /\ calls' = calls + 1
  /\ Goto(c, "send_lock")
  /\ UNCHANGED <<shared, ledger>>

\* get_messages takes any number of items.
GetMessages(c) ==
  /\ pc[c] = "idle"
  /\ IsRunning
  /\ \E n \in 1..Len(output) : output' = Rest(output, n)
  /\ UNCHANGED <<state, stop, mutex, depth, input, pc, calls, ledger>>

\* send_message_command and stop_command.
Command(c) ==
  /\ pc[c] = "idle"
  /\ calls < MaxCalls /\ calls' = calls + 1
  /\ \E command \in Commands :
       /\ input' = Pushed(input, command, MaxIn)
       /\ asked' = asked + Sends(<<command>>)
       /\ discarded' = discarded + Sends(input) + Sends(<<command>>) - Sends(input')
  /\ UNCHANGED <<state, stop, mutex, depth, output, pc, answered>>

Request(c) ==
  /\ CallSend(c) \/ GetMessages(c) \/ Command(c)
  /\ UNCHANGED <<radio, books, packets, batch, packet>>

-----------------------------------------------------------------------------
Next ==
  \/ Run \/ Send(Worker) \/ Finalize(Worker)
  \/ \E c \in Client : Request(c) \/ Send(c)
  \/ \E l \in Listener : Listen(l)
  \/ \E s \in Stopper : Stopping(s)

Spec == Init /\ [][Next]_vars

\* The scheduler runs every thread that can move; clients, listeners and the
\* stopper need not call, but their calls go on.
FairSpec ==
  /\ Spec
  /\ WF_vars(Run \/ Send(Worker) \/ Finalize(Worker))
  /\ \A c \in Client : WF_vars(Send(c))
  /\ \A l \in Listener : WF_vars(Listen(l) /\ pc[l] # "idle")
  /\ \A s \in Stopper : WF_vars(Finalize(s))

-----------------------------------------------------------------------------
(* Properties.                                                               *)

Holding == {"send_text", "send_add", "send_row", "send_return"}
Labels ==
  {"new", "run", "boot", "assign", "loop", "fetch", "handle", "reply", "close", "dead",
   "idle", "send_lock", "hear", "report", "remove", "mark", "store", "tell",
   "finalize", "close_port", "gone"} \cup Holding \cup FinalizeLabels

\* Every variable has its type.
TypeOK ==
  /\ IOTypeOK
  /\ input \in Seq(Commands) /\ Len(input) <= MaxIn
  /\ output \in Seq({"command_status", "outgoing_message_status", "incoming_message"})
  /\ Len(output) <= MaxOut
  /\ pc \in [Thread -> Labels]
  /\ usb \in Thread \cup {NoThread}
  /\ interface \in BOOLEAN
  /\ pending \subseteq Uid \cup Idless
  /\ rows \subseteq [of : AnyUid, message_uid : AnyUid \cup {NoUid},
                     delivered : {"None", "Success", "Error"}]
  /\ batch \in Seq(Commands) /\ Len(batch) <= BatchSize
  /\ uid \in [Thread -> AnyUid \cup {NoUid}]
  /\ \A l \in Listener : packet[l] = NoPacket \/ packet[l].uid \in AnyUid
  /\ calls \in 0..MaxCalls /\ packets \in 0..MaxPackets
  /\ sent \subseteq Uid /\ forgotten \subseteq Uid \cup Idless
  /\ reported \in [Uid -> Seq({"Success", "Error"})]
  /\ asked \in Nat /\ answered \in Nat /\ discarded \in Nat

\* A message of ours is reported delivered, or failed, once, however often and in
\* however many threads the library answers for it (lines 192-197, 177-178).
StatusOnce == \A u \in Uid : Len(reported[u]) <= 1

\* Every message whose id the library has returned is about to become pending, is pending, has
\* been reported, or was cleared by finalize; only such messages are reported; and
\* one that is reported is pending only until the same listener has removed it.
Accounted ==
  /\ \A u \in sent :
       \/ \E t \in Thread : pc[t] = "send_add" /\ uid[t] = u
       \/ u \in pending \cup forgotten
       \/ reported[u] # <<>>
  /\ \A u \in Uid :
       /\ reported[u] # <<>> => u \in sent
       /\ reported[u] # <<>> /\ u \in pending =>
            \E l \in Listener : pc[l] = "remove" /\ packet[l].uid = u

\* Every send command that was accepted is in the input queue or in the hands of the
\* thread, has been answered, or left the queue by eviction or by finalize.
CommandsAccounted == asked = answered + discarded + Sends(input) + Sends(batch)

\* The instance is what the core expects of a service: it runs once, never after it was
\* finalized, and ends finalized or down (core_threading.py:73-78, 110-119,
\* meshtastic.py:373-392).
Service ==
  INSTANCE ServiceLife WITH life <- LifeSeen({}), state <- StateSeen,
                            Renewed <- FALSE, DiesRunning <- FALSE

IsService == Service!Spec

\* Where a message that was given an id of its own is on its way.
FateOf(u) ==
  IF u \in forgotten THEN "forgotten"
  ELSE IF reported[u] # <<>> THEN "reported"
  ELSE IF u \in pending THEN "pending"
  ELSE IF u \in sent THEN "sent"
  ELSE "unsent"

Message(u) == INSTANCE MessageFate WITH fate <- FateOf(u), verdict <- reported[u]

\* Each message goes the way of MessageFate, whichever threads send, answer and
\* finalize: its verdict is final, and none comes before its id is entered or after
\* finalize has cleared it (lines 167-196, 356-363, 404-408).
FatesKept ==
  /\ \A u \in Uid : Message(u)!Init
  /\ [][\A u \in Uid : [Message(u)!Next]_<<FateOf(u), reported[u]>>]_vars

\* Whoever holds the port gives it back.
PortReleased == \A t \in Thread : (usb = t) ~> (usb # t)

\* After the stop signal the thread ends, and its interface is and stays closed.
StopEnds == stop ~> [](pc[Worker] = "dead" /\ ~interface)

\* A listener that holds the mutex, or waits for it, is done some time.
PacketsHandled == \A l \in Listener : (pc[l] # "idle") ~> (pc[l] = "idle")

\* "Only sets signal flag, changes state, clears inner queues" (core_threading.py:112):
\* a call of finalize gets to FINALIZED.
FinalizeFinishes ==
  \A t \in Thread : (pc[t] = "super") ~> (state = "FINALIZED")

\* "Message with uid ... marked as successfully delivered in db" (meshtastic.py:184):
\* once a listener is done with an answer, no stored row of that message is undecided.
ReportedIsMarked ==
  \A r \in rows : \A u \in Uid :
    r.of = u /\ reported[u] # <<>> /\ (\A l \in Listener : packet[l] = NoPacket)
      /\ (\A t \in Thread : uid[t] # u)
      => r.delivered # "None"

\* A send that is answered as pending, or with HTTP 200, has given its message to the
\* radio: the failures have statuses of their own (meshtastic.py:419-422).
AnswerMeansSent == \A t \in Thread : pc[t] = "send_return" => uid[t] # NoUid
=============================================================================
