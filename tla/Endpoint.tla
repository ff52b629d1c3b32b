------------------------------ MODULE Endpoint ------------------------------
(* The HTTP handlers of ws_endpoint.py that talk to services: how a request   *)
(* finds an instance (get_instance_by_id), takes messages off its output      *)
(* queue (/meshtastic/get_messages, /tox/get_messages), and sends one through *)
(* Tox.  Each request has a thread of its own, and takes no mutex but the     *)
(* queue's; meanwhile ServerCore.stop_core_threads takes instances out of the *)
(* table and finalizes them.  An exception that the handler does not expect   *)
(* is answered with 500.                                                      *)
EXTENDS Naturals, FiniteSets, SequencesExt

CONSTANTS Client,    \* request threads
          Node,      \* callsigns of the Meshtastic nodes, which are their keys
          Tox,       \* the Tox instance
          Counts,    \* values of the parameter count
          MaxSize,   \* output_queue_max_size, how much an output queue holds
          MaxItems,  \* bounds on the items that each service puts
          Prefixed,  \* the callsign that reads "meshtastic_" and another one, or None
          MaxAsked,  \* bound on the requests
          None       \* no instance, no answer

ASSUME EndpointAssumption ==
  /\ Tox \notin Node /\ None \notin Node \cup {Tox}
  /\ Prefixed \in [Node -> Node \cup {None}]
  /\ Counts \subseteq Nat /\ MaxSize \in Nat \ {0} /\ MaxItems \in [Node \cup {Tox} -> Nat] /\ MaxAsked \in Nat

Service == Node \cup {Tox}

VARIABLES
  table,      \* the keys of handler.meshtastic_instances
  running,    \* the services with is_running
  queue,      \* their output queues
  put,        \* how many items each of them has put
  evicted,    \* history: the items that full queues have let go
  asked,      \* how many requests were made
  pc,         \* where each request is
  id,         \* its parameter ID
  instance,   \* the instance it has found
  batch,      \* the items it has taken
  code,       \* the last answer
  delivered   \* history: the items of the answers, as they were given

services == <<table, running, queue, put, evicted>>
vars == <<services, asked, pc, id, instance, batch, code, delivered>>

Init ==
  /\ table = Node /\ running = Service
  /\ queue = [s \in Service |-> <<>>] /\ put = [s \in Service |-> 0]
  /\ evicted = {} /\ asked = 0
  /\ pc = [c \in Client |-> "idle"] /\ id = [c \in Client |-> None]
  /\ instance = [c \in Client |-> None] /\ batch = [c \in Client |-> <<>>]
  /\ code = [c \in Client |-> None] /\ delivered = <<>>

-----------------------------------------------------------------------------
(* What goes on meanwhile.                                                   *)

\* A running service puts an item; its items are numbered.  A deque that is full lets
\* its oldest item go.
Put(s) ==
  /\ s \in running /\ put[s] < MaxItems[s]
  /\ put' = [put EXCEPT ![s] = @ + 1]
  /\ \/ /\ Len(queue[s]) < MaxSize
        /\ queue' = [queue EXCEPT ![s] = Append(@, <<s, put'[s]>>)]
        /\ UNCHANGED evicted
     \/ /\ Len(queue[s]) = MaxSize
        /\ queue' = [queue EXCEPT ![s] = Append(Tail(@), <<s, put'[s]>>)]
        /\ evicted' = evicted \cup {Head(queue[s])}
  /\ UNCHANGED <<table, running, asked, pc, id, instance, batch, code, delivered>>

\* stop_core_threads takes a node out of the table ...
PopNode(n) ==
  /\ n \in table /\ n \in running
  /\ table' = table \ {n}
  /\ UNCHANGED <<running, queue, put, evicted, asked, pc, id, instance, batch, code, delivered>>

\* ... and finalizes it, which drops its queue; Tox stays in its place.
Finalize(s) ==
  /\ s \in running \ table
  /\ running' = running \ {s}
  /\ queue' = [queue EXCEPT ![s] = <<>>]
  /\ UNCHANGED <<table, put, evicted, asked, pc, id, instance, batch, code, delivered>>

-----------------------------------------------------------------------------
(* get_instance_by_id.                                                       *)

Answer(c, how) ==
  /\ code' = [code EXCEPT ![c] = how]
  /\ pc' = [pc EXCEPT ![c] = "idle"]
  /\ instance' = [instance EXCEPT ![c] = None]
  /\ batch' = [batch EXCEPT ![c] = <<>>]

Goto(c, label) ==
  /\ pc' = [pc EXCEPT ![c] = label]
  /\ UNCHANGED code

Begin(c) ==
  /\ pc[c] = "idle"
  /\ asked < MaxAsked /\ asked' = asked + 1
  /\ UNCHANGED <<services, delivered>>

\* The number of instances is read first, ...
AskNode(c) ==
  /\ Begin(c)
  /\ \E n \in Node : id' = [id EXCEPT ![c] = n]
  /\ \/ table = {} /\ Answer(c, 404)
     \/ /\ table # {}
        /\ Goto(c, IF Cardinality(table) = 1 THEN "only" ELSE "by_id")
        /\ UNCHANGED <<instance, batch>>

\* ... and then the only one is taken from the table, if it is still there, ...
TakeOnly(c) ==
  /\ pc[c] = "only"
  /\ \/ table = {} /\ Answer(c, 500)
     \/ /\ \E n \in table : instance' = [instance EXCEPT ![c] = n]
        /\ Goto(c, "running")
        /\ UNCHANGED batch
  /\ UNCHANGED <<services, asked, id, delivered>>

\* ... or one is looked up under f"{service}_{ID}", while the keys are the callsigns;
\* if there is none, None has no is_running.
LookUp(c) ==
  /\ pc[c] = "by_id"
  /\ \/ /\ Prefixed[id[c]] \in table
        /\ instance' = [instance EXCEPT ![c] = Prefixed[id[c]]]
        /\ Goto(c, "running")
        /\ UNCHANGED batch
     \/ Prefixed[id[c]] \notin table /\ Answer(c, 500)
  /\ UNCHANGED <<services, asked, id, delivered>>

\* is_running, here and at the head of the Tox handlers.
CheckRunning(c) ==
  /\ pc[c] = "running"
  /\ \/ instance[c] \notin running /\ Answer(c, 503)
     \/ instance[c] \in running /\ Goto(c, "count") /\ UNCHANGED <<instance, batch>>
  /\ UNCHANGED <<services, asked, id, delivered>>

-----------------------------------------------------------------------------
(* get_messages.                                                             *)

AskTox(c) ==
  /\ Begin(c)
  /\ instance' = [instance EXCEPT ![c] = Tox]
  /\ Goto(c, "running")
  /\ UNCHANGED <<id, batch>>

\* int(count) raises.
BadCount(c) ==
  /\ pc[c] = "count"
  /\ Answer(c, 406)
  /\ UNCHANGED <<services, asked, id, delivered>>

Least(m, n) == IF m < n THEN m ELSE n

\* Slip: the items stay on the queue.
GetBatchCopy(c) ==
  /\ pc[c] = "count"
  /\ \E count \in Counts :
       batch' = [batch EXCEPT ![c] = SubSeq(queue[instance[c]], 1, Least(count, Len(queue[instance[c]])))]
  /\ Goto(c, "respond")
  /\ UNCHANGED <<services, asked, id, instance, delivered>>

\* Slip: the newest items are taken.
GetBatchNewest(c) ==
  /\ pc[c] = "count"
  /\ \E count \in Counts :
       LET kept == Len(queue[instance[c]]) - Least(count, Len(queue[instance[c]]))
       IN /\ batch' = [batch EXCEPT ![c] = SubSeq(queue[instance[c]], kept + 1, Len(queue[instance[c]]))]
          /\ queue' = [queue EXCEPT ![instance[c]] = SubSeq(@, 1, kept)]
  /\ Goto(c, "respond")
  /\ UNCHANGED <<table, running, put, evicted, asked, id, instance, delivered>>

\* get_batch, under the queue's mutex.
GetBatch(c) ==
  /\ pc[c] = "count"
  /\ \E count \in Counts :
       LET n == Least(count, Len(queue[instance[c]]))
       IN /\ batch' = [batch EXCEPT ![c] = SubSeq(queue[instance[c]], 1, n)]
          /\ queue' = [queue EXCEPT ![instance[c]] = SubSeq(@, n + 1, Len(@))]
  /\ Goto(c, "respond")
  /\ UNCHANGED <<table, running, put, evicted, asked, id, instance, delivered>>

\* to_json of each item: the Tox handler calls it without its argument, a TypeError.
Respond(c) ==
  /\ pc[c] = "respond"
  /\ \/ /\ instance[c] # Tox \/ batch[c] = <<>>
        /\ delivered' = delivered \o batch[c]
        /\ Answer(c, 200)
     \/ /\ instance[c] = Tox /\ batch[c] # <<>>
        /\ Answer(c, 500)
        /\ UNCHANGED delivered
  /\ UNCHANGED <<services, asked, id>>

-----------------------------------------------------------------------------
(* /tox/send_message.                                                        *)

\* ToxClientThread has no send_message_safely, which the handler answers with 500.
SendTox(c) ==
  /\ Begin(c)
  /\ \/ Tox \notin running /\ Answer(c, 503)
     \/ Tox \in running /\ Answer(c, 500)
  /\ UNCHANGED id

\* No text or the chat_id 0; or no chat_id at all, which int() does not take.
SendNothing(c) ==
  /\ Begin(c)
  /\ Tox \in running
  /\ Answer(c, 204) \/ Answer(c, 500)
  /\ UNCHANGED id

-----------------------------------------------------------------------------
Handle(c) ==
  \/ AskNode(c) \/ TakeOnly(c) \/ LookUp(c) \/ CheckRunning(c)
  \/ AskTox(c) \/ BadCount(c) \/ GetBatch(c) \/ Respond(c)
  \/ SendTox(c) \/ SendNothing(c)

Next ==
  \/ \E c \in Client : Handle(c)
  \/ \E s \in Service : Put(s) \/ Finalize(s)
  \/ \E n \in Node : PopNode(n)

Spec == Init /\ [][Next]_vars

-----------------------------------------------------------------------------
(* Properties.                                                               *)

\* Every variable has its type.
TypeOK ==
  /\ table \subseteq Node /\ running \subseteq Service
  /\ \A s \in Service : \A i \in ToSet(queue[s]) : i[1] = s /\ i[2] \in 1..put[s]
  /\ pc \in [Client -> {"idle", "only", "by_id", "running", "count", "respond"}]
  /\ \A c \in Client : pc[c] \in {"running", "count", "respond"} <=> instance[c] \in Service
  /\ code \in [Client -> {200, 204, 404, 406, 500, 503, None}]

\* How often an item is on a queue, with a request, or in an answer.
Copies(i) ==
  LET in(seq) == Cardinality({k \in DOMAIN seq : seq[k] = i})
  IN in(queue[i[1]]) + in(delivered) + Cardinality({c \in Client : i \in ToSet(batch[c])})

\* An item is in one place, unless MaxSize newer ones have pushed it out of the queue, or
\* its service is stopped.
OnceFrom(s) ==
  \A k \in 1..put[s] :
    IF <<s, k>> \in evicted
      THEN Copies(<<s, k>>) = 0 /\ k + MaxSize <= put[s]
      ELSE Copies(<<s, k>>) = 1 \/ (s \notin running /\ Copies(<<s, k>>) = 0)

\* A message of a node is given to one request and not to two; and while the node runs
\* none is lost but by a put into a full queue, whoever asks at the same time and whichever
\* instances are stopped (lines 344-349).
NodesOnce == \A n \in Node : OnceFrom(n)

\* What a request has taken is older than what is left for the others.
OldestFirst ==
  \A c \in Client : batch[c] # <<>> =>
    \A i \in ToSet(queue[instance[c]]) : Last(batch[c])[2] < i[2]

\* "Receive incoming messages" through Tox (README.md): neither twice nor never.
ToxOnce == OnceFrom(Tox)

\* With several nodes, a "callsign for a specific node" (description.py:163) finds it:
\* the request does not end in an exception while the node is in the table.
CallsignFinds == \A c \in Client : pc[c] = "by_id" => Prefixed[id[c]] = id[c]

\* "Send a message" through Tox (README.md): a text for a chat is queued while the
\* client runs.
ToxSends == [][\A c \in Client : SendTox(c) /\ Tox \in running => code'[c] = 200]_vars
=============================================================================
