---------------------------- MODULE NodeRecords -----------------------------
(* get_all_known_nodes of src/services/meshtastic.py: threads that ask one    *)
(* instance for the nodes its radio knows, and what they enter into nodes.db, *)
(* a record and a metrics record of each node unless the newest one is too    *)
(* young.  usb_port_mutex is held throughout.  The radio's node list grows    *)
(* meanwhile, and SQLite may raise at any call.                               *)
EXTENDS Integers, FiniteSets, SequencesExt

CONSTANTS Reader,    \* threads that call get_all_known_nodes
          Id,        \* the keys of _interface.nodes
          Node,      \* a short_name with a public_key: what rows are looked up by
          NodeOf,    \* those of each id; nodes of which nothing is known share theirs
          Skipped,   \* the ids whose role is not allowed
          Delta,     \* new_node_add_delta_sec and new_metrics_add_delta_sec
          Tries,     \* sync_tries_count
          MaxTime,   \* bound on the clock
          MaxReads,  \* bound on the calls
          None

Kind == {"node", "metrics"}

ASSUME RecordsAssumption ==
  /\ NodeOf \in [Id -> Node] /\ Skipped \subseteq Id
  /\ Delta \in [Kind -> Nat] /\ Tries \in Nat /\ MaxTime \in Nat /\ MaxReads \in Nat
  /\ None \notin Reader

VARIABLES
  now,      \* the clock
  known,    \* the keys of _interface.nodes
  rows,     \* nodes.db: the timestamps of each kind and node, oldest first
  mutex,    \* the thread that holds usb_port_mutex, or None
  pc,
  tries,    \* tries left
  size,     \* the size of _interface.nodes when the walk began
  nodes,    \* the nodes that are parsed, with their timestamps
  records,  \* those left to save, then their metrics
  logged,   \* history: the records whose exception has been logged in this call
  reads

local == <<pc, tries, size, nodes, records, logged>>
vars == <<now, known, rows, mutex, local, reads>>

Init ==
  /\ now = 0 /\ known = {} /\ rows = [k \in Kind |-> [n \in Node |-> <<>>]]
  /\ mutex = None /\ reads = 0
  /\ pc = [r \in Reader |-> "idle"] /\ tries = [r \in Reader |-> 0]
  /\ size = [r \in Reader |-> 0] /\ nodes = [r \in Reader |-> <<>>]
  /\ records = [r \in Reader |-> <<>>] /\ logged = [r \in Reader |-> {}]

\* Time goes on, and the radio hears of a node.
Tick ==
  /\ now < MaxTime /\ now' = now + 1
  /\ UNCHANGED <<known, rows, mutex, local, reads>>

Meet(i) ==
  /\ i \notin known
  /\ known' = known \cup {i}
  /\ UNCHANGED <<now, rows, mutex, local, reads>>

Goto(r, label) == pc' = [pc EXCEPT ![r] = label]

\* The call is over, and the mutex is given back.
Leave(r, how) ==
  /\ mutex' = None
  /\ Goto(r, how)

\* Slip: without the mutex.
BeginUnlocked(r) ==
  /\ pc[r] \in {"idle", "returned", "raised"}
  /\ reads < MaxReads /\ reads' = reads + 1
  /\ tries' = [tries EXCEPT ![r] = Tries]
  /\ nodes' = [nodes EXCEPT ![r] = <<>>] /\ records' = [records EXCEPT ![r] = <<>>]
  /\ logged' = [logged EXCEPT ![r] = {}]
  /\ Goto(r, "sync")
  /\ UNCHANGED <<mutex, size>>

Begin(r) ==
  /\ pc[r] \in {"idle", "returned", "raised"}
  /\ reads < MaxReads /\ reads' = reads + 1
  /\ mutex = None /\ mutex' = r
  /\ tries' = [tries EXCEPT ![r] = Tries]
  /\ nodes' = [nodes EXCEPT ![r] = <<>>] /\ records' = [records EXCEPT ![r] = <<>>]
  /\ logged' = [logged EXCEPT ![r] = {}]
  /\ Goto(r, "sync")
  /\ UNCHANGED size

\* _get_raw_nodes: one try after another, each after a sleep.
Sync(r) ==
  /\ pc[r] = "sync"
  /\ \/ /\ known # {} /\ tries[r] > 0
        /\ size' = [size EXCEPT ![r] = Cardinality(known)]
        /\ Goto(r, "parse")
        /\ UNCHANGED <<mutex, tries>>
     \/ /\ known = {} /\ tries[r] > 0
        /\ tries' = [tries EXCEPT ![r] = @ - 1]
        /\ UNCHANGED <<mutex, size, pc>>
     \/ tries[r] = 0 /\ Leave(r, "raised") /\ UNCHANGED <<tries, size>>
  /\ UNCHANGED <<nodes, records, logged, reads>>

Parsed(r) == {nodes[r][i].id : i \in DOMAIN nodes[r]}

\* What the walk has still to parse, and whether the radio's own dictionary, over which
\* it goes, has grown.
Unparsed(r) == known \ (Parsed(r) \cup Skipped)
Grown(r) == Cardinality(known) # size[r]

\* _parse_node_data of the next node, with the time of its own.
Parse(r) ==
  /\ pc[r] = "parse" /\ ~Grown(r)
  /\ \E i \in Unparsed(r) :
       nodes' = [nodes EXCEPT ![r] = Append(@, [id |-> i, of |-> NodeOf[i], at |-> now])]
  /\ UNCHANGED <<mutex, tries, size, pc, records, logged, reads>>

\* A dictionary that has grown ends the walk, and so does a node that cannot be parsed.
ParseRaises(r) ==
  /\ pc[r] = "parse"
  /\ Grown(r) \/ Unparsed(r) # {}
  /\ Leave(r, "raised")
  /\ UNCHANGED <<tries, size, nodes, records, logged, reads>>

As(kind, seq) ==
  [i \in DOMAIN seq |-> [kind |-> kind, of |-> seq[i].of, at |-> seq[i].at]]

ParseEnds(r) ==
  /\ pc[r] = "parse" /\ ~Grown(r) /\ Unparsed(r) = {}
  /\ records' = [records EXCEPT ![r] = As("node", nodes[r]) \o As("metrics", nodes[r])]
  /\ Goto(r, "save")
  /\ UNCHANGED <<mutex, tries, size, nodes, logged, reads>>

\* Slip: a record of just the age is too young as well.
YoungOrEqual(record) ==
  LET found == rows[record.kind][record.of]
  IN found # <<>> /\ record.at - Last(found) <= Delta[record.kind]

\* The newest row is younger than the delta of its kind.
Young(record) ==
  LET found == rows[record.kind][record.of]
  IN found # <<>> /\ record.at - Last(found) < Delta[record.kind]

\* _save_nodes_records: the look-up ...
Fetch(r) ==
  /\ pc[r] = "save" /\ records[r] # <<>>
  /\ \/ /\ Young(Head(records[r]))
        /\ records' = [records EXCEPT ![r] = Tail(@)]
        /\ UNCHANGED pc
     \/ ~Young(Head(records[r])) /\ Goto(r, "create") /\ UNCHANGED records
  /\ UNCHANGED <<rows, mutex, tries, size, nodes, logged, reads>>

\* ... and the new row.
Create(r) ==
  /\ pc[r] = "create"
  /\ LET record == Head(records[r])
     IN rows' = [rows EXCEPT ![record.kind][record.of] = Append(@, record.at)]
  /\ records' = [records EXCEPT ![r] = Tail(@)]
  /\ Goto(r, "save")
  /\ UNCHANGED <<mutex, tries, size, nodes, logged, reads>>

\* A TypeError or an AttributeError, of the look-up or of the new row, is logged: the
\* record is left out, and the loop goes on.
SaveSkips(r) ==
  /\ pc[r] = "create" \/ (pc[r] = "save" /\ records[r] # <<>>)
  /\ logged' = [logged EXCEPT ![r] = @ \cup {Head(records[r])}]
  /\ records' = [records EXCEPT ![r] = Tail(@)]
  /\ Goto(r, "save")
  /\ UNCHANGED <<rows, mutex, tries, size, nodes, reads>>

\* Any other exception, SQLite's among them, is not caught: the rest is not saved.
SaveRaises(r) ==
  /\ pc[r] = "create" \/ (pc[r] = "save" /\ records[r] # <<>>)
  /\ Leave(r, "raised")
  /\ UNCHANGED <<rows, tries, size, nodes, records, logged, reads>>

SaveEnds(r) ==
  /\ pc[r] = "save" /\ records[r] = <<>>
  /\ Leave(r, "returned")
  /\ UNCHANGED <<rows, tries, size, nodes, records, logged, reads>>

Read(r) ==
  \/ /\ Begin(r) \/ Sync(r) \/ Parse(r) \/ ParseRaises(r) \/ ParseEnds(r)
     /\ UNCHANGED <<now, known, rows>>
  \/ /\ Fetch(r) \/ Create(r) \/ SaveSkips(r) \/ SaveRaises(r) \/ SaveEnds(r)
     /\ UNCHANGED <<now, known>>

Next ==
  \/ Tick
  \/ \E i \in Id : Meet(i)
  \/ \E r \in Reader : Read(r)

Spec == Init /\ [][Next]_vars

-----------------------------------------------------------------------------
(* Properties.                                                               *)

\* Every variable has its type.
TypeOK ==
  /\ now \in 0..MaxTime /\ known \subseteq Id /\ mutex \in Reader \cup {None}
  /\ rows \in [Kind -> [Node -> Seq(0..MaxTime)]]
  /\ \A r \in Reader :
       /\ mutex = r <=> pc[r] \in {"sync", "parse", "save", "create"}
       /\ tries[r] \in 0..Tries
       /\ Parsed(r) \subseteq known \ Skipped

\* Two rows of one node and kind are never closer than their delta, whoever asks at the
\* same time (lines 270-280).
Spaced ==
  \A k \in Kind, n \in Node :
    \A i \in 2..Len(rows[k][n]) : rows[k][n][i] - rows[k][n][i - 1] >= Delta[k]

\* When a call has returned, every node it returns has rows of both kinds that are not
\* older than their delta, as seen from the time it was parsed, but for the records whose
\* exception was logged: nothing else is left out, whatever the calls before it have
\* entered, and also of nodes that share a name and a key (lines 266-282, 313-314).
Recorded ==
  \A r \in Reader : pc[r] = "returned" =>
    \A i \in DOMAIN nodes[r], k \in Kind :
      LET node == nodes[r][i]
          found == rows[k][node.of]
      IN \/ [kind |-> k, of |-> node.of, at |-> node.at] \in logged[r]
         \/ found # <<>> /\ (node.at - Last(found) < Delta[k] \/ Last(found) = node.at)
=============================================================================
