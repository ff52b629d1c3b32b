------------------------- MODULE NodeRecordsProofs --------------------------
(* Theorems about NodeRecords, for any readers, nodes, deltas and bounds.     *)
EXTENDS NodeRecords, SequenceTheorems, TLAPS

(* The inductive invariant: what the variables hold, who has usb_port_mutex,  *)
(* and, of each call, that a record which it is about to create is not too    *)
(* young, and that what is not on its list any more has its row, or was       *)
(* logged.                                                                    *)

Time == 0..MaxTime
Entry == [id : Id, of : Node, at : Time]
Record == [kind : Kind, of : Node, at : Time]
Inside == {"sync", "parse", "save", "create"}

DataOK ==
  /\ now \in Time /\ known \subseteq Id
  /\ rows \in [Kind -> [Node -> Seq(Time)]]
  /\ pc \in [Reader -> {"idle", "returned", "raised"} \cup Inside]
  /\ tries \in [Reader -> 0..Tries]
  /\ nodes \in [Reader -> Seq(Entry)]
  /\ records \in [Reader -> Seq(Record)]
  /\ logged \in [Reader -> SUBSET Record]
  /\ \A r \in Reader : Parsed(r) \subseteq known \ Skipped

LockInv ==
  /\ mutex \in Reader \cup {None}
  /\ \A r \in Reader : mutex = r <=> pc[r] \in Inside

CreateInv ==
  \A r \in Reader : pc[r] = "create" => records[r] # <<>> /\ ~Young(Head(records[r]))

\* The record of one kind that a call makes of a node.
RecordOf(k, e) == [kind |-> k, of |-> e.of, at |-> e.at]

\* The newest row of a node is not older than the delta, as seen from e.
HasRow(k, e) ==
  /\ rows[k][e.of] # <<>>
  /\ e.at - Last(rows[k][e.of]) < Delta[k] \/ Last(rows[k][e.of]) = e.at

Saved(r) ==
  pc[r] \in {"save", "create", "returned"} =>
    \A i \in DOMAIN nodes[r], k \in Kind :
      \/ HasRow(k, nodes[r][i])
      \/ RecordOf(k, nodes[r][i]) \in logged[r]
      \/ pc[r] # "returned" /\ \E j \in DOMAIN records[r] : records[r][j] = RecordOf(k, nodes[r][i])

SavedInv == \A r \in Reader : Saved(r)

IInv == DataOK /\ LockInv /\ CreateInv /\ SavedInv /\ Spaced

-----------------------------------------------------------------------------
(* Sequences.                                                                 *)

\* Put at the end.
LEMMA AppendedProperties ==
  ASSUME NEW S, NEW q \in Seq(S), NEW e \in S
  PROVE  /\ Append(q, e) \in Seq(S) /\ Append(q, e) # <<>> /\ Last(Append(q, e)) = e
         /\ Len(Append(q, e)) = Len(q) + 1 /\ Append(q, e)[Len(q) + 1] = e
         /\ \A i \in 1..Len(q) : Append(q, e)[i] = q[i]
<1>1. Len(q) \in Nat
  BY LenProperties
<1>2. /\ Append(q, e) \in Seq(S) /\ Len(Append(q, e)) = Len(q) + 1
      /\ Append(q, e)[Len(q) + 1] = e /\ \A i \in 1..Len(q) : Append(q, e)[i] = q[i]
  BY <1>1, AppendProperties
<1>3. Append(q, e) # <<>>
  BY <1>1, <1>2, EmptySeq
<1> QED
  BY <1>2, <1>3 DEF Last

\* What is at the end.
LEMMA LastProperties ==
  ASSUME NEW S, NEW q \in Seq(S), q # <<>>
  PROVE  Len(q) \in Nat \ {0} /\ Last(q) = q[Len(q)] /\ Last(q) \in S
<1>1. Len(q) \in Nat \ {0}
  BY LenProperties, EmptySeq
<1> QED
  BY <1>1, ElementOfSeq DEF Last

\* The head is the first, and the others move up.
LEMMA TailProperties ==
  ASSUME NEW S, NEW q \in Seq(S), q # <<>>
  PROVE  /\ Tail(q) \in Seq(S) /\ Head(q) \in S
         /\ \A j \in DOMAIN q : q[j] = Head(q) \/ \E i \in DOMAIN Tail(q) : Tail(q)[i] = q[j]
<1>1. Len(q) \in Nat \ {0} /\ DOMAIN q = 1..Len(q)
  BY LenProperties, EmptySeq
<1>2. /\ Tail(q) \in Seq(S) /\ Head(q) \in S /\ Head(q) = q[1] /\ Len(Tail(q)) = Len(q) - 1
      /\ \A i \in 1..(Len(q) - 1) : Tail(q)[i] = q[i + 1]
  BY <1>1, HeadTailProperties
<1>3. DOMAIN Tail(q) = 1..(Len(q) - 1)
  BY <1>2, LenProperties
<1>4. ASSUME NEW j \in DOMAIN q, j # 1
      PROVE  \E i \in DOMAIN Tail(q) : Tail(q)[i] = q[j]
  <2>1. j - 1 \in 1..(Len(q) - 1) /\ (j - 1) + 1 = j
    BY <1>1, <1>4
  <2> QED
    BY <1>2, <1>3, <2>1
<1> QED
  BY <1>2, <1>4

\* A call makes a record of each kind of each node that it has parsed.
LEMMA RecordsProperties ==
  ASSUME NEW q \in Seq(Entry)
  PROVE  LET list == As("node", q) \o As("metrics", q)
         IN /\ list \in Seq(Record)
            /\ \A i \in DOMAIN q, k \in Kind : \E j \in DOMAIN list : list[j] = RecordOf(k, q[i])
<1> DEFINE n == Len(q)
           list == As("node", q) \o As("metrics", q)
<1>1. n \in Nat /\ DOMAIN q = 1..n /\ \A i \in 1..n : q[i] \in Entry
  BY LenProperties, ElementOfSeq
<1>2. \A k \in Kind : /\ As(k, q) \in Seq(Record) /\ Len(As(k, q)) = n
                      /\ \A i \in 1..n : As(k, q)[i] = RecordOf(k, q[i])
  <2> SUFFICES ASSUME NEW k \in Kind
               PROVE  /\ As(k, q) \in Seq(Record) /\ Len(As(k, q)) = n
                      /\ \A i \in 1..n : As(k, q)[i] = RecordOf(k, q[i])
    OBVIOUS
  <2>1. As(k, q) = [i \in 1..n |-> RecordOf(k, q[i])]
    BY <1>1 DEF As, RecordOf
  <2>2. \A i \in 1..n : RecordOf(k, q[i]) \in Record
    BY <1>1 DEF RecordOf, Entry, Record
  <2> HIDE DEF n
  <2> QED
    BY <1>1, <2>1, <2>2, IsASeq, LenProperties
<1>3. "node" \in Kind /\ "metrics" \in Kind
  BY DEF Kind
<1>4. /\ list \in Seq(Record) /\ Len(list) = n + n
      /\ \A i \in 1..(n + n) : list[i] = IF i <= n THEN As("node", q)[i] ELSE As("metrics", q)[i - n]
  <2>1. /\ list \in Seq(Record) /\ Len(list) = Len(As("node", q)) + Len(As("metrics", q))
        /\ \A i \in 1..(Len(As("node", q)) + Len(As("metrics", q))) :
             list[i] = IF i <= Len(As("node", q)) THEN As("node", q)[i]
                       ELSE As("metrics", q)[i - Len(As("node", q))]
    BY <1>2, <1>3, ConcatProperties
  <2> HIDE DEF list, n
  <2> QED
    BY <1>2, <1>3, <2>1
<1>5. DOMAIN list = 1..(n + n)
  BY <1>4, LenProperties
<1> HIDE DEF list, n
<1>6. ASSUME NEW i \in DOMAIN q
      PROVE  \A k \in Kind : \E j \in DOMAIN list : list[j] = RecordOf(k, q[i])
  <2>1. i \in 1..(n + n) /\ n + i \in 1..(n + n) /\ i <= n /\ ~(n + i <= n) /\ (n + i) - n = i /\ i \in 1..n
    BY <1>1
  <2>2. list[i] = RecordOf("node", q[i])
    BY <1>2, <1>3, <1>4, <2>1
  <2>3. list[n + i] = RecordOf("metrics", q[i])
    BY <1>2, <1>3, <1>4, <2>1
  <2> QED
    BY <1>5, <2>1, <2>2, <2>3 DEF Kind
<1> QED
  BY <1>4, <1>6 DEF list

-----------------------------------------------------------------------------
(* The steps.                                                                 *)

\* The rows the database starts with are spaced, and nobody has the mutex.
LEMMA InitInv == Init => IInv
<1> SUFFICES ASSUME Init
             PROVE  IInv
  OBVIOUS
<1>a. /\ <<>> \in Seq(Time) /\ Len(<<>>) = 0 /\ DOMAIN <<>> = {}
      /\ <<>> \in Seq(Entry) /\ <<>> \in Seq(Record)
  BY EmptySeq
<1>1. DataOK
  BY <1>a, RecordsAssumption DEF Init, DataOK, Time, Parsed
<1>2. LockInv
  BY RecordsAssumption DEF Init, LockInv, Inside
<1>3. CreateInv /\ SavedInv
  BY DEF Init, CreateInv, SavedInv, Saved
<1>4. Spaced
  <2>1. \A k \in Kind, n \in Node : rows[k][n] = <<>> /\ 2..Len(rows[k][n]) = {}
    BY <1>a DEF Init
  <2> QED
    BY <2>1 DEF Spaced
<1> QED
  BY <1>1, <1>2, <1>3, <1>4 DEF IInv

\* What a step of r leaves the others, as long as it enters no row.
LEMMA OthersKept ==
  ASSUME IInv, NEW r \in Reader, UNCHANGED rows,
         \A q \in Reader \ {r} : /\ pc'[q] = pc[q] /\ nodes'[q] = nodes[q]
                                 /\ records'[q] = records[q] /\ logged'[q] = logged[q],
         Saved(r)', pc'[r] = "create" => records'[r] # <<>> /\ ~Young(Head(records'[r]))
  PROVE  CreateInv' /\ SavedInv' /\ Spaced'
<1>1. CreateInv'
  BY DEF IInv, CreateInv, Young
<1>2. ASSUME NEW q \in Reader \ {r}
      PROVE  Saved(q)'
  BY DEF IInv, SavedInv, Saved, HasRow, RecordOf
<1>3. Spaced'
  BY DEF IInv, Spaced
<1> QED
  BY <1>1, <1>2, <1>3 DEF SavedInv

\* The mutex is taken by a call that begins, kept, and given back at the end.
LEMMA LockTaken ==
  ASSUME IInv, NEW r \in Reader, mutex = None, mutex' = r, Goto(r, "sync")
  PROVE  LockInv'
  BY RecordsAssumption DEF IInv, DataOK, LockInv, Goto, Inside

\* A step between two labels inside leaves the mutex with the reader who has it.
LEMMA LockKept ==
  ASSUME IInv, NEW r \in Reader, UNCHANGED mutex, pc[r] \in Inside, NEW label \in Inside, Goto(r, label)
  PROVE  LockInv'
  BY DEF IInv, DataOK, LockInv, Goto

\* A call that ends, with or without an exception, gives the mutex back.
LEMMA LockGiven ==
  ASSUME IInv, NEW r \in Reader, pc[r] \in Inside, NEW how \in {"returned", "raised"}, Leave(r, how)
  PROVE  LockInv'
<1>1. mutex = r
  BY DEF IInv, LockInv
<1> QED
  BY <1>1, RecordsAssumption DEF IInv, DataOK, LockInv, Leave, Goto, Inside

\* Synchronising and parsing.
LEMMA ParseStep ==
  ASSUME IInv, NEW r \in Reader,
         Begin(r) \/ Sync(r) \/ Parse(r) \/ ParseRaises(r) \/ ParseEnds(r),
         UNCHANGED <<now, known, rows>>
  PROVE  IInv'
<1>a. DataOK /\ LockInv
  BY DEF IInv
<1>e. <<>> \in Seq(Entry) /\ <<>> \in Seq(Record) /\ DOMAIN <<>> = {}
  BY EmptySeq
<1>1. CASE Begin(r)
  <2>1. /\ Goto(r, "sync") /\ mutex = None /\ mutex' = r
        /\ nodes' = [nodes EXCEPT ![r] = <<>>] /\ records' = [records EXCEPT ![r] = <<>>]
        /\ tries' = [tries EXCEPT ![r] = Tries] /\ logged' = [logged EXCEPT ![r] = {}]
    BY <1>1 DEF Begin
  <2>2. LockInv'
    BY <2>1, LockTaken
  <2>3. /\ pc'[r] = "sync"
        /\ \A q \in Reader \ {r} : /\ pc'[q] = pc[q] /\ nodes'[q] = nodes[q]
                                 /\ records'[q] = records[q] /\ logged'[q] = logged[q]
    BY <1>a, <2>1 DEF Goto, DataOK
  <2>4. CreateInv' /\ SavedInv' /\ Spaced'
    BY <2>3, OthersKept DEF Saved
  <2>5. \A q \in Reader : Parsed(q)' \subseteq known \ Skipped
    BY <1>a, <1>e, <2>1, <2>3 DEF DataOK, Parsed
  <2>6. DataOK'
    BY <1>a, <1>e, <2>1, <2>5, RecordsAssumption DEF DataOK, Goto, Inside
  <2> QED
    BY <2>2, <2>4, <2>6 DEF IInv
<1>2. CASE Sync(r) \/ ParseRaises(r)
  <2>1. /\ pc[r] \in {"sync", "parse"} /\ UNCHANGED <<nodes, records, logged>>
        /\ tries' \in [Reader -> 0..Tries]
    <3>1. tries[r] \in 0..Tries /\ (tries[r] > 0 => tries[r] - 1 \in 0..Tries)
      BY <1>a, RecordsAssumption DEF DataOK
    <3>2. tries' = tries \/ (tries[r] > 0 /\ tries' = [tries EXCEPT ![r] = tries[r] - 1])
      BY <1>2 DEF Sync, ParseRaises
    <3>3. tries' \in [Reader -> 0..Tries]
      BY <1>a, <3>1, <3>2 DEF DataOK
    <3> QED
      BY <1>2, <3>3 DEF Sync, ParseRaises
  <2>2. \/ UNCHANGED mutex /\ Goto(r, "parse")
        \/ UNCHANGED <<mutex, pc>>
        \/ Leave(r, "raised")
    BY <1>2 DEF Sync, ParseRaises
  <2>3. LockInv'
    BY <1>a, <2>1, <2>2, LockKept, LockGiven DEF Inside, LockInv
  <2>4. /\ pc'[r] \in {"sync", "parse", "raised"}
        /\ \A q \in Reader \ {r} : /\ pc'[q] = pc[q] /\ nodes'[q] = nodes[q]
                                 /\ records'[q] = records[q] /\ logged'[q] = logged[q]
    BY <1>a, <2>1, <2>2 DEF Goto, Leave, DataOK
  <2>5. CreateInv' /\ SavedInv' /\ Spaced'
    BY <2>4, OthersKept DEF Saved
  <2>6. pc' \in [Reader -> {"idle", "returned", "raised"} \cup Inside]
    BY <1>a, <2>2 DEF Goto, Leave, DataOK, Inside
  <2>7. DataOK'
    BY <1>a, <2>1, <2>6 DEF DataOK, Parsed
  <2> QED
    BY <2>3, <2>5, <2>7 DEF IInv
<1>3. CASE Parse(r)
  <2>1. PICK n \in known \ Skipped :
          nodes' = [nodes EXCEPT ![r] = Append(@, [id |-> n, of |-> NodeOf[n], at |-> now])]
    BY <1>3 DEF Parse, Unparsed
  <2>2. pc[r] = "parse" /\ UNCHANGED <<mutex, tries, pc, records, logged>>
    BY <1>3 DEF Parse
  <2> DEFINE e == [id |-> n, of |-> NodeOf[n], at |-> now]
  <2>3. e \in Entry /\ nodes[r] \in Seq(Entry) /\ e.id = n
    BY <1>a, RecordsAssumption DEF DataOK, Entry
  <2> HIDE DEF e
  <2>4. /\ nodes'[r] = Append(nodes[r], e) /\ nodes'[r] \in Seq(Entry)
        /\ \A q \in Reader \ {r} : nodes'[q] = nodes[q]
    BY <1>a, <2>1, <2>3, AppendedProperties DEF DataOK, e
  <2>5. nodes' \in [Reader -> Seq(Entry)]
    BY <1>a, <2>1, <2>4 DEF DataOK
  <2>6. Parsed(r)' \subseteq known \ Skipped
    <3>1. Len(nodes[r]) \in Nat /\ DOMAIN nodes[r] = 1..Len(nodes[r])
      BY <2>3, LenProperties
    <3>2. DOMAIN nodes'[r] = 1..(Len(nodes[r]) + 1)
      BY <2>3, <2>4, AppendedProperties, LenProperties
    <3>3. \A i \in 1..Len(nodes[r]) : nodes'[r][i] = nodes[r][i]
      BY <2>3, <2>4, AppendedProperties
    <3>4. nodes'[r][Len(nodes[r]) + 1] = e
      BY <2>3, <2>4, AppendedProperties
    <3>5. \A i \in 1..Len(nodes[r]) : nodes[r][i].id \in known \ Skipped
      BY <1>a, <3>1 DEF DataOK, Parsed
    <3>6. \A i \in DOMAIN nodes'[r] : nodes'[r][i].id \in known \ Skipped
      BY <2>3, <3>1, <3>2, <3>3, <3>4, <3>5
    <3> QED
      BY <3>6 DEF Parsed
  <2>7. \A q \in Reader : Parsed(q)' \subseteq known \ Skipped
    BY <1>a, <2>4, <2>6 DEF DataOK, Parsed
  <2>10. DataOK'
    BY <1>a, <2>2, <2>5, <2>7 DEF DataOK
  <2>8. CreateInv' /\ SavedInv' /\ Spaced'
    BY <2>2, <2>4, OthersKept DEF Saved
  <2>9. LockInv'
    BY <1>a, <2>2 DEF LockInv
  <2> QED
    BY <2>10, <2>8, <2>9 DEF IInv
<1>4. CASE ParseEnds(r)
  <2> DEFINE list == As("node", nodes[r]) \o As("metrics", nodes[r])
  <2>1. /\ pc[r] = "parse" /\ Goto(r, "save") /\ UNCHANGED <<mutex, tries, nodes, logged>>
        /\ records' = [records EXCEPT ![r] = list]
    BY <1>4 DEF ParseEnds
  <2>2. /\ list \in Seq(Record)
        /\ \A i \in DOMAIN nodes[r], k \in Kind : \E j \in DOMAIN list : list[j] = RecordOf(k, nodes[r][i])
    BY <1>a, RecordsProperties DEF DataOK
  <2> HIDE DEF list
  <2>3. /\ pc'[r] = "save" /\ records'[r] = list
        /\ \A q \in Reader \ {r} : pc'[q] = pc[q] /\ records'[q] = records[q]
    BY <1>a, <2>1 DEF Goto, DataOK
  <2>4. Saved(r)'
    BY <2>1, <2>2, <2>3 DEF Saved, RecordOf
  <2>5. CreateInv' /\ SavedInv' /\ Spaced'
    BY <2>1, <2>3, <2>4, OthersKept
  <2>6. LockInv'
    BY <2>1, LockKept DEF Inside
  <2>7. DataOK'
    BY <1>a, <2>1, <2>2 DEF DataOK, Goto, Parsed, Inside
  <2> QED
    BY <2>5, <2>6, <2>7 DEF IInv
<1> QED
  BY <1>1, <1>2, <1>3, <1>4

\* A record that is young enough to be left out has a row that is as young.
LEMMA YoungHasRow ==
  ASSUME DataOK, NEW k \in Kind, NEW e \in Entry
  PROVE  Young(RecordOf(k, e)) => HasRow(k, e)
  BY DEF Young, RecordOf, HasRow

\* Saving one record after another.
LEMMA SaveStep ==
  ASSUME IInv, NEW r \in Reader,
         Fetch(r) \/ SaveSkips(r) \/ SaveRaises(r) \/ SaveEnds(r),
         UNCHANGED <<now, known>>
  PROVE  IInv'
<1>a. DataOK /\ LockInv /\ SavedInv
  BY DEF IInv
<1>b. /\ nodes[r] \in Seq(Entry) /\ records[r] \in Seq(Record)
      /\ \A i \in DOMAIN nodes[r] : nodes[r][i] \in Entry
  <2>1. nodes[r] \in Seq(Entry) /\ records[r] \in Seq(Record)
    BY <1>a DEF DataOK
  <2> QED
    BY <2>1, LenProperties, ElementOfSeq
<1>1. CASE Fetch(r) /\ Young(Head(records[r]))
  <2>1. /\ pc[r] = "save" /\ records[r] # <<>> /\ records' = [records EXCEPT ![r] = Tail(@)]
        /\ UNCHANGED <<rows, mutex, tries, nodes, logged, pc>>
    BY <1>1 DEF Fetch
  <2>2. /\ Tail(records[r]) \in Seq(Record)
        /\ \A j \in DOMAIN records[r] : \/ records[r][j] = Head(records[r])
                                        \/ \E i \in DOMAIN Tail(records[r]) : Tail(records[r])[i] = records[r][j]
    BY <1>b, <2>1, TailProperties
  <2>3. records'[r] = Tail(records[r]) /\ \A q \in Reader \ {r} : records'[q] = records[q]
    BY <1>a, <2>1 DEF DataOK
  <2>4. Saved(r)'
    <3>1. ASSUME NEW i \in DOMAIN nodes[r], NEW k \in Kind
          PROVE  \/ HasRow(k, nodes[r][i])
                 \/ RecordOf(k, nodes[r][i]) \in logged[r]
                 \/ \E j \in DOMAIN Tail(records[r]) : Tail(records[r])[j] = RecordOf(k, nodes[r][i])
      <4>1. CASE HasRow(k, nodes[r][i]) \/ RecordOf(k, nodes[r][i]) \in logged[r]
        BY <4>1
      <4>2. CASE \E j \in DOMAIN records[r] : records[r][j] = RecordOf(k, nodes[r][i])
        <5>1. CASE Head(records[r]) = RecordOf(k, nodes[r][i])
          BY <1>1, <1>a, <1>b, <5>1, YoungHasRow
        <5>2. CASE Head(records[r]) # RecordOf(k, nodes[r][i])
          BY <2>2, <4>2, <5>2
        <5> QED
          BY <5>1, <5>2
      <4> QED
        BY <1>a, <2>1, <4>1, <4>2 DEF SavedInv, Saved
    <3>2. UNCHANGED <<rows, nodes, logged>> /\ pc'[r] = "save" /\ records'[r] = Tail(records[r])
      BY <2>1, <2>3
    <3> QED
      BY <3>1, <3>2 DEF Saved, HasRow, RecordOf
  <2>5. CreateInv' /\ SavedInv' /\ Spaced'
    BY <2>1, <2>3, <2>4, OthersKept
  <2>6. DataOK' /\ LockInv'
    BY <1>a, <2>1, <2>2 DEF DataOK, LockInv, Parsed
  <2> QED
    BY <2>5, <2>6 DEF IInv
<1>2. CASE Fetch(r) /\ ~Young(Head(records[r]))
  <2>1. /\ pc[r] = "save" /\ records[r] # <<>> /\ Goto(r, "create")
        /\ UNCHANGED <<rows, mutex, tries, nodes, records, logged>>
    BY <1>2 DEF Fetch
  <2>2. pc'[r] = "create" /\ \A q \in Reader \ {r} : pc'[q] = pc[q]
    BY <1>a, <2>1 DEF Goto, DataOK
  <2>3. Saved(r)'
    BY <1>a, <2>1, <2>2 DEF SavedInv, Saved, HasRow, RecordOf
  <2>4. CreateInv' /\ SavedInv' /\ Spaced'
    BY <1>2, <2>1, <2>2, <2>3, OthersKept
  <2>5. DataOK' /\ LockInv'
    BY <1>a, <2>1, LockKept DEF DataOK, Goto, Parsed, Inside
  <2> QED
    BY <2>4, <2>5 DEF IInv
<1>3. CASE SaveRaises(r)
  <2>1. /\ pc[r] \in {"save", "create"} /\ Leave(r, "raised")
        /\ UNCHANGED <<rows, tries, nodes, records, logged>>
    BY <1>3 DEF SaveRaises
  <2>2. pc'[r] = "raised" /\ \A q \in Reader \ {r} : pc'[q] = pc[q]
    BY <1>a, <2>1 DEF Leave, Goto, DataOK
  <2>3. CreateInv' /\ SavedInv' /\ Spaced'
    BY <2>1, <2>2, OthersKept DEF Saved
  <2>4. DataOK' /\ LockInv'
    BY <1>a, <2>1, LockGiven DEF DataOK, Leave, Goto, Parsed, Inside
  <2> QED
    BY <2>3, <2>4 DEF IInv
<1>4. CASE SaveEnds(r)
  <2>1. /\ pc[r] = "save" /\ records[r] = <<>> /\ Leave(r, "returned")
        /\ UNCHANGED <<rows, tries, nodes, records, logged>>
    BY <1>4 DEF SaveEnds
  <2>2. pc'[r] = "returned" /\ \A q \in Reader \ {r} : pc'[q] = pc[q]
    BY <1>a, <2>1 DEF Leave, Goto, DataOK
  <2>3. DOMAIN records[r] = {}
    BY <2>1, EmptySeq
  <2>4. Saved(r)'
    BY <1>a, <2>1, <2>2, <2>3 DEF SavedInv, Saved, HasRow, RecordOf
  <2>5. CreateInv' /\ SavedInv' /\ Spaced'
    BY <2>1, <2>2, <2>4, OthersKept
  <2>6. DataOK' /\ LockInv'
    BY <1>a, <2>1, LockGiven DEF DataOK, Leave, Goto, Parsed, Inside
  <2> QED
    BY <2>5, <2>6 DEF IInv
<1>5. CASE SaveSkips(r)
  <2>1. /\ pc[r] \in {"save", "create"} /\ Goto(r, "save")
        /\ records' = [records EXCEPT ![r] = Tail(@)]
        /\ logged' = [logged EXCEPT ![r] = @ \cup {Head(records[r])}]
        /\ UNCHANGED <<rows, mutex, tries, nodes>>
    BY <1>5 DEF SaveSkips
  <2>2. records[r] # <<>>
    BY <1>5 DEF SaveSkips, IInv, CreateInv
  <2>3. /\ Tail(records[r]) \in Seq(Record) /\ Head(records[r]) \in Record
        /\ \A j \in DOMAIN records[r] : \/ records[r][j] = Head(records[r])
                                        \/ \E i \in DOMAIN Tail(records[r]) : Tail(records[r])[i] = records[r][j]
    BY <1>b, <2>2, TailProperties
  <2>4. /\ pc'[r] = "save" /\ records'[r] = Tail(records[r])
        /\ logged'[r] = logged[r] \cup {Head(records[r])}
        /\ \A q \in Reader \ {r} : pc'[q] = pc[q] /\ records'[q] = records[q] /\ logged'[q] = logged[q]
    BY <1>a, <2>1 DEF DataOK, Goto
  <2>5. Saved(r)'
    <3>1. ASSUME NEW i \in DOMAIN nodes[r], NEW k \in Kind
          PROVE  \/ HasRow(k, nodes[r][i])
                 \/ RecordOf(k, nodes[r][i]) \in logged'[r]
                 \/ \E j \in DOMAIN Tail(records[r]) : Tail(records[r])[j] = RecordOf(k, nodes[r][i])
      <4>1. CASE HasRow(k, nodes[r][i]) \/ RecordOf(k, nodes[r][i]) \in logged[r]
        BY <2>4, <4>1
      <4>2. CASE \E j \in DOMAIN records[r] : records[r][j] = RecordOf(k, nodes[r][i])
        BY <2>3, <2>4, <4>2
      <4> QED
        BY <1>a, <2>1, <4>1, <4>2 DEF SavedInv, Saved
    <3>2. UNCHANGED <<rows, nodes>> /\ pc'[r] = "save" /\ records'[r] = Tail(records[r])
      BY <2>1, <2>4
    <3> QED
      BY <3>1, <3>2 DEF Saved, HasRow, RecordOf
  <2>6. CreateInv' /\ SavedInv' /\ Spaced'
    BY <2>1, <2>4, <2>5, OthersKept
  <2>7. LockInv'
    BY <2>1, LockKept DEF Inside
  <2>8. DataOK'
    BY <1>a, <2>1, <2>3 DEF DataOK, Goto, Parsed, Inside
  <2> QED
    BY <2>6, <2>7, <2>8 DEF IInv
<1> QED
  BY <1>1, <1>2, <1>3, <1>4, <1>5 DEF Fetch

\* A new row: it is not too young, as nobody else has entered one since the look-up,
\* and what had a row that is young enough has one still.
LEMMA CreateStep ==
  ASSUME IInv, NEW r \in Reader, Create(r), UNCHANGED <<now, known>>
  PROVE  IInv'
<1>a. DataOK /\ LockInv /\ SavedInv /\ CreateInv /\ Spaced
  BY DEF IInv
<1>b. /\ nodes[r] \in Seq(Entry) /\ records[r] \in Seq(Record)
      /\ \A q \in Reader : \A i \in DOMAIN nodes[q] : nodes[q][i] \in Entry
  <2>1. records[r] \in Seq(Record) /\ \A q \in Reader : nodes[q] \in Seq(Entry)
    BY <1>a DEF DataOK
  <2> QED
    BY <2>1, LenProperties, ElementOfSeq
<1> DEFINE record == Head(records[r])
<1>1. /\ pc[r] = "create" /\ Goto(r, "save") /\ UNCHANGED <<mutex, tries, nodes, logged>>
      /\ records' = [records EXCEPT ![r] = Tail(@)]
      /\ rows' = [rows EXCEPT ![record.kind][record.of] = Append(@, record.at)]
  BY DEF Create
<1>2. records[r] # <<>> /\ ~Young(record)
  BY <1>a, <1>1 DEF CreateInv
<1>3. /\ Tail(records[r]) \in Seq(Record) /\ record \in Record
      /\ \A j \in DOMAIN records[r] : \/ records[r][j] = record
                                      \/ \E i \in DOMAIN Tail(records[r]) : Tail(records[r])[i] = records[r][j]
  BY <1>b, <1>2, TailProperties
<1> HIDE DEF record
<1> DEFINE kind == record.kind
           node == record.of
           at == record.at
           found == rows[kind][node]
<1>4. kind \in Kind /\ node \in Node /\ at \in Time /\ found \in Seq(Time)
  BY <1>a, <1>3 DEF Record, DataOK
<1>5. /\ rows' \in [Kind -> [Node -> Seq(Time)]]
      /\ rows'[kind][node] = Append(found, at)
      /\ \A k \in Kind, n \in Node : k # kind \/ n # node => rows'[k][n] = rows[k][n]
  <2>1. Append(found, at) \in Seq(Time)
    BY <1>4, AppendedProperties
  <2>2. rows' = [rows EXCEPT ![kind] = [rows[kind] EXCEPT ![node] = Append(found, at)]]
    BY <1>1
  <2> HIDE DEF kind, node, at
  <2> QED
    BY <1>a, <1>4, <2>1, <2>2 DEF DataOK
<1> HIDE DEF found, kind, node, at
<1>6. found = <<>> \/ (Last(found) \in Time /\ at - Last(found) >= Delta[kind])
  <2>1. found = <<>> \/ ~(at - Last(found) < Delta[kind])
    BY <1>2 DEF Young, found, kind, node, at
  <2>2. found # <<>> => Last(found) \in Time
    BY <1>4, LastProperties
  <2>3. Delta[kind] \in Nat
    BY <1>4, RecordsAssumption
  <2> QED
    BY <1>4, <2>1, <2>2, <2>3 DEF Time
<1>7. /\ Append(found, at) # <<>> /\ Last(Append(found, at)) = at /\ Len(found) \in Nat
      /\ Len(Append(found, at)) = Len(found) + 1 /\ Append(found, at)[Len(found) + 1] = at
      /\ \A i \in 1..Len(found) : Append(found, at)[i] = found[i]
  BY <1>4, AppendedProperties, LenProperties
<1>8. found # <<>> => Len(found) \in Nat \ {0} /\ Last(found) = found[Len(found)]
  BY <1>4, LastProperties
<1>9. found = <<>> => Len(found) = 0
  BY EmptySeq
<1>10. Spaced'
  <2> SUFFICES ASSUME NEW k \in Kind, NEW n \in Node, NEW i \in 2..Len(rows'[k][n])
               PROVE  rows'[k][n][i] - rows'[k][n][i - 1] >= Delta[k]
    BY DEF Spaced
  <2>1. CASE k # kind \/ n # node
    BY <1>a, <1>5, <2>1 DEF Spaced
  <2>2. CASE k = kind /\ n = node /\ i <= Len(found)
    <3>1. i \in 1..Len(found) /\ i - 1 \in 1..Len(found) /\ i \in 2..Len(found)
      BY <1>5, <1>7, <2>2
    <3>2. found = rows[k][n] /\ rows'[k][n] = Append(found, at)
      BY <1>5, <2>2 DEF found
    <3>3. found[i] - found[i - 1] >= Delta[k]
      BY <1>a, <3>1, <3>2 DEF Spaced
    <3>4. rows'[k][n][i] = found[i] /\ rows'[k][n][i - 1] = found[i - 1]
      BY <1>7, <3>1, <3>2
    <3> QED
      BY <3>3, <3>4
  <2>3. CASE k = kind /\ n = node /\ i > Len(found)
    <3>1. i = Len(found) + 1 /\ i - 1 = Len(found) /\ Len(found) \in 1..Len(found)
      BY <1>5, <1>7, <2>3
    <3>2. found # <<>>
      BY <1>9, <3>1
    <3> QED
      BY <1>5, <1>6, <1>7, <1>8, <2>3, <3>1, <3>2
  <2> QED
    BY <1>5, <1>7, <2>1, <2>2, <2>3
<1>11. ASSUME NEW k \in Kind, NEW e \in Entry, HasRow(k, e)
       PROVE  rows'[k][e.of] # <<>> /\ (e.at - Last(rows'[k][e.of]) < Delta[k] \/ Last(rows'[k][e.of]) = e.at)
  <2>a. e.of \in Node /\ e.at \in Time /\ Delta[k] \in Nat
    BY RecordsAssumption DEF Entry
  <2>1. CASE k # kind \/ e.of # node
    BY <1>5, <1>11, <2>a, <2>1 DEF HasRow
  <2>2. CASE k = kind /\ e.of = node
    <3>1. /\ found # <<>>
          /\ e.at - Last(found) < Delta[k] \/ Last(found) = e.at
      BY <1>11, <2>2 DEF HasRow, found
    <3>2. Last(found) \in Time /\ at - Last(found) >= Delta[k]
      BY <1>6, <2>2, <3>1
    <3>3. Last(rows'[k][e.of]) = at /\ rows'[k][e.of] # <<>>
      BY <1>5, <1>7, <2>2
    <3> QED
      BY <1>4, <2>a, <3>1, <3>2, <3>3 DEF Time
  <2> QED
    BY <2>1, <2>2
<1>12. /\ pc'[r] = "save" /\ records'[r] = Tail(records[r])
       /\ \A q \in Reader \ {r} : pc'[q] = pc[q] /\ records'[q] = records[q]
  BY <1>a, <1>1 DEF Goto, DataOK
<1>13. Saved(r)'
  <2>1. ASSUME NEW i \in DOMAIN nodes[r], NEW k \in Kind
        PROVE  \/ HasRow(k, nodes[r][i])'
               \/ RecordOf(k, nodes[r][i]) \in logged[r]
               \/ \E j \in DOMAIN Tail(records[r]) : Tail(records[r])[j] = RecordOf(k, nodes[r][i])
    <3>1. CASE HasRow(k, nodes[r][i])
      BY <1>b, <1>1, <1>11, <3>1 DEF HasRow
    <3>2. CASE RecordOf(k, nodes[r][i]) \in logged[r]
      BY <3>2
    <3>3. CASE \E j \in DOMAIN records[r] : records[r][j] = RecordOf(k, nodes[r][i])
      <4>1. CASE record = RecordOf(k, nodes[r][i])
        <5>1. kind = k /\ node = nodes[r][i].of /\ at = nodes[r][i].at
          BY <4>1 DEF RecordOf, kind, node, at
        <5> QED
          BY <1>1, <1>5, <1>7, <5>1 DEF HasRow
      <4>2. CASE record # RecordOf(k, nodes[r][i])
        BY <1>3, <3>3, <4>2
      <4> QED
        BY <4>1, <4>2
    <3> QED
      BY <1>a, <1>1, <3>1, <3>2, <3>3 DEF SavedInv, Saved
  <2>2. nodes' = nodes /\ logged' = logged /\ pc'[r] = "save" /\ records'[r] = Tail(records[r])
    BY <1>1, <1>12
  <2> QED
    BY <2>1, <2>2 DEF Saved, HasRow, RecordOf
<1>14. ASSUME NEW q \in Reader \ {r}
       PROVE  Saved(q)'
  BY <1>a, <1>b, <1>1, <1>11, <1>12 DEF SavedInv, Saved, HasRow, RecordOf
<1>15. SavedInv'
  BY <1>13, <1>14 DEF SavedInv
<1>16. CreateInv'
  <2>1. \A q \in Reader : pc'[q] # "create"
    BY <1>a, <1>1, <1>12 DEF LockInv, Inside
  <2> QED
    BY <2>1 DEF CreateInv
<1>17. LockInv'
  BY <1>1, LockKept DEF Inside
<1>18. DataOK'
  <2>1. records' \in [Reader -> Seq(Record)]
    BY <1>a, <1>1, <1>3 DEF DataOK
  <2>2. pc' \in [Reader -> {"idle", "returned", "raised"} \cup Inside]
    BY <1>a, <1>1 DEF DataOK, Goto, Inside
  <2>3. \A q \in Reader : Parsed(q)' = Parsed(q)
    BY <1>1 DEF Parsed
  <2>4. UNCHANGED <<now, known, tries, nodes, logged>>
    BY <1>1
  <2> QED
    BY <1>a, <1>5, <2>1, <2>2, <2>3, <2>4 DEF DataOK
<1> QED
  BY <1>10, <1>15, <1>16, <1>17, <1>18 DEF IInv

\* Every step keeps the invariant, those of the clock and of the radio too.
LEMMA NextInv == IInv /\ [Next]_vars => IInv'
<1> SUFFICES ASSUME IInv, [Next]_vars
             PROVE  IInv'
  OBVIOUS
<1>1. ASSUME NEW r \in Reader, Read(r)
      PROVE  IInv'
  BY <1>1, ParseStep, SaveStep, CreateStep DEF Read
<1>2. CASE Tick \/ \E i \in Id : Meet(i)
  <2>1. /\ now' \in Time /\ known \subseteq known' /\ known' \subseteq Id
        /\ UNCHANGED <<rows, mutex, pc, tries, nodes, records, logged>>
    BY <1>2, RecordsAssumption DEF Tick, Meet, local, IInv, DataOK, Time
  <2>2. DataOK' /\ LockInv'
    BY <2>1 DEF IInv, DataOK, LockInv, Parsed
  <2>3. CreateInv' /\ SavedInv' /\ Spaced'
    BY <2>1 DEF IInv, CreateInv, Young, SavedInv, Saved, HasRow, RecordOf, Spaced
  <2> QED
    BY <2>2, <2>3 DEF IInv
<1>3. CASE UNCHANGED vars
  <2>1. UNCHANGED <<now, known, rows, mutex, pc, tries, nodes, records, logged>>
    BY <1>3 DEF vars, local
  <2>2. DataOK' /\ LockInv'
    BY <2>1 DEF IInv, DataOK, LockInv, Parsed
  <2>3. CreateInv' /\ SavedInv' /\ Spaced'
    BY <2>1 DEF IInv, CreateInv, Young, SavedInv, Saved, HasRow, RecordOf, Spaced
  <2> QED
    BY <2>2, <2>3 DEF IInv
<1> QED
  BY <1>1, <1>2, <1>3 DEF Next

\* The invariant holds in every state that is reached.
LEMMA Invariance == Spec => []IInv
  BY InitInv, NextInv, PTL DEF Spec

-----------------------------------------------------------------------------
(* The theorems.                                                              *)

\* Every variable has its type, the mutex belongs to the call that is at work, and
\* what has been parsed is known to the radio.
THEOREM TypeCorrect == Spec => []TypeOK
<1>1. IInv => TypeOK
  BY DEF IInv, DataOK, LockInv, TypeOK, Time, Inside
<1> QED
  BY <1>1, Invariance, PTL

\* Whatever calls interleave, the rows of one node and kind are a delta apart.
THEOREM RowsApart == Spec => []Spaced
<1>1. IInv => Spaced
  BY DEF IInv
<1> QED
  BY <1>1, Invariance, PTL

\* What a call returns has been entered, had a row that is young enough, or was logged:
\* no interleaving and no earlier row leaves anything else out.
THEOREM ReturnedIsRecorded == Spec => []Recorded
<1>1. IInv => Recorded
  BY DEF IInv, SavedInv, Saved, HasRow, RecordOf, Recorded
<1> QED
  BY <1>1, Invariance, PTL
=============================================================================
