-------------------------- MODULE ServerCoreProofs --------------------------
(* Theorems about ServerCore, for any callers, nodes, rounds and numbers of   *)
(* calls and of objects.                                                      *)
EXTENDS ServerCore, SequenceTheorems, WellFoundedInduction, TLAPS

(* The inductive invariant, in parts: what the variables hold, who has        *)
(* core_mutex, what the table owes to its keys, and what each caller has in   *)
(* hand at each of its labels.                                                *)

Inside == {"make", "start", "choose", "nested", "finalize", "join"}

InstancesOK ==
  /\ table \in [Name -> Object \cup {None}]
  /\ life \in [Object -> {"absent", "made", "alive", "ended"}]
  /\ state \in [Object -> {"READY", "RUNNING", "FINALIZED", "DOWN"}]

CallersOK ==
  /\ pc \in [Caller -> {"idle", "look", "test", "take"} \cup Inside]
  /\ op \in [Caller -> {"none", "init", "start", "stop", "restart"}]
  /\ todo \in [Caller -> Seq(Name) \cup Seq(Object)]
  /\ work \in [Caller -> Seq(Object)]
  /\ loop \in [Caller -> 0..(MaxIterations - 1)]
  /\ outcome \in [Caller -> {"none", "returned", "raised", "refused", "told"}]
  /\ taken \in [Caller -> SUBSET Object]

LockInv ==
  /\ owner \in Admin \cup {None}
  /\ \A t \in Caller : owner = t <=> pc[t] \in Inside

KeysInv ==
  /\ keys \in Seq(ToSet(Nodes)) /\ IsInjective(keys)
  /\ \A n \in ToSet(keys) : table[n] # None

\* Which call each label is part of.
Position(t) ==
  /\ t \in Page => pc[t] \in {"idle", "look"} /\ op[t] = "none"
  /\ t \in Admin => pc[t] # "look"
  /\ pc[t] \in {"test", "take"} => op[t] # "none"
  /\ pc[t] = "make" => op[t] = "init"
  /\ pc[t] = "start" => op[t] = "start"
  /\ pc[t] \in {"choose", "finalize", "join"} => op[t] = "stop"
  /\ pc[t] = "nested" => op[t] = "restart"
  /\ pc[t] # "idle" => outcome[t] = "none"

InHand(t) ==
  /\ pc[t] \in {"idle", "test", "take", "nested"} => todo[t] = <<>>
  /\ pc[t] \in {"make", "choose", "look"} => todo[t] \in Seq(Name)
  /\ pc[t] \in {"start", "finalize", "join"} => todo[t] \in Seq(Object)
  /\ pc[t] \notin {"choose", "finalize", "join"} => work[t] = <<>>

Instances == {table[n] : n \in Name}

\* What a loop is about to look up is there: nobody else changes the table.
Visits(t) ==
  /\ pc[t] = "choose" => IsInjective(todo[t]) /\ \A n \in ToSet(todo[t]) : table[n] # None
  /\ pc[t] = "start" => ToSet(todo[t]) \subseteq Instances

\* What a stop took is still with it, or has ended.
Stopping(t) ==
  /\ op[t] = "stop" /\ pc[t] \in {"test", "take"} => taken[t] = {}
  /\ pc[t] \in {"choose", "finalize", "join"} =>
       \A o \in taken[t] : o \in ToSet(work[t]) \/ life[o] = "ended"
  /\ op[t] = "stop" /\ outcome[t] = "returned" => \A o \in taken[t] : life[o] = "ended"
  /\ op[t] = "stop" => outcome[t] # "raised"

CallerInv == \A t \in Caller : Position(t) /\ InHand(t) /\ Visits(t) /\ Stopping(t)

IInv == InstancesOK /\ CallersOK /\ LockInv /\ KeysInv /\ CallerInv /\ NoOrphan

-----------------------------------------------------------------------------
(* Sequences.                                                                 *)

\* A set of naturals that is not empty has a least element.
LEMMA LeastExists ==
  ASSUME NEW T \in SUBSET Nat, T # {}
  PROVE  \E x \in T : \A y \in T : x <= y
<1>1. PICK x \in T : \A y \in T : ~(<<y, x>> \in OpToRel(<, Nat))
  BY NatLessThanWellFounded, WFMin
<1>2. \A y \in T : ~(y < x)
  BY <1>1 DEF OpToRel
<1> QED
  BY <1>2

\* Removing an element from a sequence.
LEMMA RemoveFirstIs ==
  ASSUME NEW S, NEW s \in Seq(S), NEW e
  PROVE  \/ RemoveFirst(s, e) = s /\ e \notin ToSet(s)
         \/ \E k \in 1..Len(s) : /\ s[k] = e
                                 /\ RemoveFirst(s, e) = SubSeq(s, 1, k - 1) \o SubSeq(s, k + 1, Len(s))
<1>1. CASE ~\E i \in 1..Len(s) : s[i] = e
  BY <1>1 DEF RemoveFirst, ToSet
<1>2. CASE \E i \in 1..Len(s) : s[i] = e
  <2> DEFINE I == {i \in 1..Len(s) : s[i] = e}
             k == CHOOSE x \in I : \A y \in I : x <= y
  <2>1. I \in SUBSET Nat /\ I # {}
    BY <1>2
  <2>2. k \in I
    BY <2>1, LeastExists
  <2>3. RemoveFirst(s, e) = RemoveAt(s, k)
    BY <1>2, <2>1 DEF RemoveFirst, SelectInSeq, Min
  <2> QED
    BY <2>2, <2>3 DEF RemoveAt
<1> QED
  BY <1>1, <1>2

\* What is left of a sequence: all but e, and e too where it was there twice.
LEMMA RemoveFirstProperties ==
  ASSUME NEW S, NEW s \in Seq(S), NEW e
  PROVE  /\ RemoveFirst(s, e) \in Seq(S)
         /\ ToSet(RemoveFirst(s, e)) \subseteq ToSet(s)
         /\ ToSet(s) \ {e} \subseteq ToSet(RemoveFirst(s, e))
         /\ IsInjective(s) => /\ IsInjective(RemoveFirst(s, e))
                              /\ e \notin ToSet(RemoveFirst(s, e))
<1>1. CASE RemoveFirst(s, e) = s /\ e \notin ToSet(s)
  BY <1>1
<1>2. ASSUME NEW k \in 1..Len(s), s[k] = e,
             RemoveFirst(s, e) = SubSeq(s, 1, k - 1) \o SubSeq(s, k + 1, Len(s))
      PROVE  /\ RemoveFirst(s, e) \in Seq(S)
             /\ ToSet(RemoveFirst(s, e)) \subseteq ToSet(s)
             /\ ToSet(s) \ {e} \subseteq ToSet(RemoveFirst(s, e))
             /\ IsInjective(s) => /\ IsInjective(RemoveFirst(s, e))
                                  /\ e \notin ToSet(RemoveFirst(s, e))
  <2> DEFINE a == SubSeq(s, 1, k - 1)
             b == SubSeq(s, k + 1, Len(s))
             r == RemoveFirst(s, e)
  <2>1. Len(s) \in Nat /\ DOMAIN s = 1..Len(s) /\ \A i \in 1..Len(s) : s[i] \in S
    BY LenProperties, ElementOfSeq
  <2>2. a \in Seq(S) /\ Len(a) = k - 1 /\ \A i \in 1..(k - 1) : a[i] = s[i]
    <3>1. \A i \in 1..(k - 1) : s[i] \in S
      BY <2>1
    <3> QED
      BY <2>1, <3>1, SubSeqProperties
  <2>3. b \in Seq(S) /\ Len(b) = Len(s) - k /\ \A i \in 1..(Len(s) - k) : b[i] = s[k + i]
    <3>1. \A i \in (k + 1)..Len(s) : s[i] \in S
      BY <2>1
    <3>2. /\ b \in Seq(S)
          /\ Len(b) = IF k + 1 <= Len(s) THEN Len(s) - (k + 1) + 1 ELSE 0
          /\ \A i \in 1..(Len(s) - (k + 1) + 1) : b[i] = s[k + 1 + i - 1]
      BY <2>1, <3>1, SubSeqProperties
    <3> HIDE DEF b
    <3>3. Len(b) = Len(s) - k
      <4>1. Len(s) \in Nat /\ k \in Nat /\ k <= Len(s)
        BY <2>1
      <4>2. k + 1 <= Len(s) \/ Len(s) = k
        BY <4>1
      <4> QED
        BY <3>2, <4>1, <4>2
    <3>4. ASSUME NEW i \in 1..(Len(s) - k)
          PROVE  b[i] = s[k + i]
      <4>1. i \in 1..(Len(s) - (k + 1) + 1) /\ k + 1 + i - 1 = k + i
        BY <2>1
      <4> QED
        BY <3>2, <4>1
    <3> QED
      BY <3>2, <3>3, <3>4
  <2>a. r = a \o b
    BY <1>2
  <2> HIDE DEF a, b, r
  <2>4. /\ r \in Seq(S) /\ Len(r) = Len(s) - 1 /\ DOMAIN r = 1..(Len(s) - 1)
        /\ \A i \in 1..(Len(s) - 1) : r[i] = IF i < k THEN s[i] ELSE s[i + 1]
    <3>1. r \in Seq(S) /\ Len(r) = Len(s) - 1
      <4>1. a \o b \in Seq(S) /\ Len(a \o b) = Len(a) + Len(b)
        BY <2>2, <2>3, ConcatProperties
      <4>2. Len(a) + Len(b) = Len(s) - 1
        BY <2>1, <2>2, <2>3
      <4> QED
        BY <2>a, <4>1, <4>2
    <3>2. ASSUME NEW i \in 1..(Len(s) - 1)
          PROVE  r[i] = IF i < k THEN s[i] ELSE s[i + 1]
      <4>1. r[i] = IF i <= Len(a) THEN a[i] ELSE b[i - Len(a)]
        <5>1. i \in 1..(Len(a) + Len(b))
          BY <2>1, <2>2, <2>3
        <5>2. \A j \in 1..(Len(a) + Len(b)) :
                (a \o b)[j] = IF j <= Len(a) THEN a[j] ELSE b[j - Len(a)]
          BY <2>2, <2>3, ConcatProperties
        <5> QED
          BY <2>a, <5>1, <5>2
      <4>2. CASE i < k
        BY <2>1, <2>2, <4>1, <4>2
      <4>3. CASE i >= k
        <5>1. i - Len(a) \in 1..(Len(s) - k) /\ k + (i - Len(a)) = i + 1
          BY <2>1, <2>2, <4>3
        <5> QED
          BY <2>1, <2>2, <2>3, <4>1, <4>3, <5>1
      <4> QED
        BY <2>1, <4>2, <4>3
    <3> QED
      BY <3>1, <3>2, LenProperties
  <2>5. ToSet(r) \subseteq ToSet(s)
    <3>1. \A i \in 1..(Len(s) - 1) : \E j \in 1..Len(s) : r[i] = s[j]
      BY <2>1, <2>4
    <3>2. \A x \in ToSet(r) : \E i \in 1..(Len(s) - 1) : x = r[i]
      BY <2>4 DEF ToSet
    <3>3. \A j \in 1..Len(s) : s[j] \in ToSet(s)
      BY <2>1 DEF ToSet
    <3> QED
      BY <3>1, <3>2, <3>3
  <2>6. ToSet(s) \ {e} \subseteq ToSet(r)
    <3>1. ASSUME NEW i \in 1..Len(s), s[i] # e
          PROVE  \E j \in 1..(Len(s) - 1) : r[j] = s[i]
      <4>1. CASE i < k
        BY <2>1, <2>4, <4>1
      <4>2. CASE i > k
        <5>1. i - 1 \in 1..(Len(s) - 1) /\ ~(i - 1 < k) /\ (i - 1) + 1 = i
          BY <2>1, <4>2
        <5> QED
          BY <2>4, <5>1
      <4> QED
        <5>1. i # k
          BY <1>2, <3>1
        <5> QED
          BY <2>1, <4>1, <4>2, <5>1
    <3>2. \A x \in ToSet(s) \ {e} : \E j \in 1..(Len(s) - 1) : r[j] = x
      BY <2>1, <3>1 DEF ToSet
    <3> QED
      BY <2>4, <3>2 DEF ToSet
  <2>7. ASSUME IsInjective(s)
        PROVE  IsInjective(r) /\ e \notin ToSet(r)
    <3>1. \A i, j \in 1..Len(s) : s[i] = s[j] => i = j
      BY <2>1, <2>7 DEF IsInjective
    <3>2. ASSUME NEW i \in 1..(Len(s) - 1), NEW j \in 1..(Len(s) - 1), r[i] = r[j]
          PROVE  i = j
      BY <2>1, <2>4, <3>1, <3>2
    <3>3. ASSUME NEW i \in 1..(Len(s) - 1)
          PROVE  r[i] # e
      <4>1. (IF i < k THEN i ELSE i + 1) \in 1..Len(s) \ {k}
        BY <2>1
      <4> QED
        BY <1>2, <2>1, <2>4, <3>1, <4>1
    <3> QED
      BY <2>4, <3>2, <3>3 DEF IsInjective, ToSet
  <2> QED
    BY <2>4, <2>5, <2>6, <2>7 DEF r
<1> QED
  BY <1>1, <1>2, RemoveFirstIs

\* What is left when a loop has visited the head.
LEMMA TailProperties ==
  ASSUME NEW S, NEW s \in Seq(S), s # <<>>
  PROVE  /\ Tail(s) \in Seq(S) /\ Head(s) \in S
         /\ ToSet(s) = {Head(s)} \cup ToSet(Tail(s))
         /\ IsInjective(s) => IsInjective(Tail(s)) /\ Head(s) \notin ToSet(Tail(s))
<1>1. Len(s) \in Nat \ {0} /\ DOMAIN s = 1..Len(s) /\ Head(s) = s[1]
  BY LenProperties, EmptySeq
<1>2. /\ Tail(s) \in Seq(S) /\ Head(s) \in S
      /\ DOMAIN Tail(s) = 1..(Len(s) - 1)
      /\ \A i \in 1..(Len(s) - 1) : Tail(s)[i] = s[i + 1]
  BY HeadTailProperties, LenProperties
<1>3. ToSet(Tail(s)) \subseteq ToSet(s) /\ Head(s) \in ToSet(s)
  BY <1>1, <1>2 DEF ToSet
<1>4. ASSUME NEW i \in 1..Len(s)
      PROVE  s[i] = Head(s) \/ s[i] \in ToSet(Tail(s))
  <2>1. CASE i = 1
    BY <1>1, <2>1
  <2>2. CASE i # 1
    <3>1. i - 1 \in 1..(Len(s) - 1) /\ (i - 1) + 1 = i
      BY <1>1, <2>2
    <3> QED
      BY <1>2, <3>1 DEF ToSet
  <2> QED
    BY <2>1, <2>2
<1>5. ASSUME IsInjective(s)
      PROVE  IsInjective(Tail(s)) /\ Head(s) \notin ToSet(Tail(s))
  <2>1. \A i, j \in 1..Len(s) : s[i] = s[j] => i = j
    BY <1>1, <1>5 DEF IsInjective
  <2>2. \A i, j \in 1..(Len(s) - 1) : Tail(s)[i] = Tail(s)[j] => i = j
    BY <1>1, <1>2, <2>1
  <2>3. \A i \in 1..(Len(s) - 1) : Tail(s)[i] # Head(s)
    BY <1>1, <1>2, <2>1
  <2> QED
    BY <1>2, <2>2, <2>3 DEF IsInjective, ToSet
<1>6. ToSet(s) \subseteq {Head(s)} \cup ToSet(Tail(s))
  BY <1>1, <1>4 DEF ToSet
<1> QED
  BY <1>2, <1>3, <1>5, <1>6

\* The elements of a sequence and of what is made of it.
LEMMA ToSetProperties ==
  ASSUME NEW S, NEW s \in Seq(S)
  PROVE  /\ ToSet(s) \subseteq S /\ s \in Seq(ToSet(s))
         /\ s = <<>> <=> ToSet(s) = {}
         /\ \A e : Contains(s, e) <=> e \in ToSet(s)
<1>1. Len(s) \in Nat /\ DOMAIN s = 1..Len(s) /\ s \in [1..Len(s) -> S]
  BY LenProperties
<1>2. ToSet(s) \subseteq S
  BY <1>1 DEF ToSet
<1>3. s \in [1..Len(s) -> ToSet(s)]
  BY <1>1 DEF ToSet
<1>4. s \in Seq(ToSet(s))
  BY <1>1, <1>3, SeqDef
<1>5. s = <<>> <=> Len(s) = 0
  BY EmptySeq
<1>6. s = <<>> <=> ToSet(s) = {}
  <2>1. Len(s) = 0 => ToSet(s) = {}
    BY <1>1 DEF ToSet
  <2>2. Len(s) # 0 => s[1] \in ToSet(s)
    BY <1>1 DEF ToSet
  <2> QED
    BY <1>5, <2>1, <2>2
<1>7. \A e : Contains(s, e) <=> e \in ToSet(s)
  BY <1>1 DEF Contains, ToSet
<1> QED
  BY <1>2, <1>4, <1>6, <1>7

\* An element is put at the end.
LEMMA AppendedProperties ==
  ASSUME NEW S, NEW s \in Seq(S), NEW e \in S
  PROVE  /\ Append(s, e) \in Seq(S) /\ Append(s, e) # <<>>
         /\ ToSet(Append(s, e)) = ToSet(s) \cup {e}
         /\ IsInjective(s) /\ e \notin ToSet(s) => IsInjective(Append(s, e))
<1> DEFINE r == Append(s, e)
<1>1. Len(s) \in Nat /\ DOMAIN s = 1..Len(s)
  BY LenProperties
<1>2. /\ r \in Seq(S) /\ r # <<>> /\ Len(r) = Len(s) + 1
      /\ \A i \in 1..Len(s) : r[i] = s[i]
      /\ r[Len(s) + 1] = e
  BY AppendProperties
<1>3. DOMAIN r = 1..(Len(s) + 1)
  BY <1>2, LenProperties
<1>4. \A i \in 1..(Len(s) + 1) : r[i] = IF i = Len(s) + 1 THEN e ELSE s[i]
  BY <1>1, <1>2
<1>5. ToSet(r) = ToSet(s) \cup {e}
  BY <1>1, <1>3, <1>4 DEF ToSet
<1>6. ASSUME IsInjective(s), e \notin ToSet(s)
      PROVE  IsInjective(r)
  <2>1. \A i, j \in 1..Len(s) : s[i] = s[j] => i = j
    BY <1>1, <1>6 DEF IsInjective
  <2>2. \A i \in 1..Len(s) : s[i] # e
    BY <1>1, <1>6 DEF ToSet
  <2>3. ASSUME NEW i \in 1..(Len(s) + 1), NEW j \in 1..(Len(s) + 1), r[i] = r[j]
        PROVE  i = j
    BY <1>1, <1>4, <2>1, <2>2, <2>3
  <2> QED
    BY <1>3, <2>3 DEF IsInjective
<1> QED
  BY <1>2, <1>5, <1>6

\* A sequence with one element.
LEMMA OneProperties ==
  ASSUME NEW S, NEW e \in S
  PROVE  /\ <<e>> \in Seq(S) /\ Len(<<e>>) = 1
         /\ ToSet(<<e>>) = {e} /\ IsInjective(<<e>>)
<1>1. <<e>> \in Seq(S) /\ Len(<<e>>) = 1 /\ DOMAIN <<e>> = {1} /\ <<e>>[1] = e
  OBVIOUS
<1> QED
  BY <1>1 DEF ToSet, IsInjective

\* One sequence after another.
LEMMA JoinedProperties ==
  ASSUME NEW S, NEW s \in Seq(S), NEW r \in Seq(S)
  PROVE  /\ s \o r \in Seq(S)
         /\ ToSet(s \o r) = ToSet(s) \cup ToSet(r)
         /\ IsInjective(s) /\ IsInjective(r) /\ ToSet(s) \cap ToSet(r) = {} => IsInjective(s \o r)
<1> DEFINE c == s \o r
           m == Len(s)
           n == Len(r)
<1>1. m \in Nat /\ DOMAIN s = 1..m /\ n \in Nat /\ DOMAIN r = 1..n
  BY LenProperties
<1>2. /\ c \in Seq(S) /\ Len(c) = m + n
      /\ \A i \in 1..(m + n) : c[i] = IF i <= m THEN s[i] ELSE r[i - m]
  BY ConcatProperties
<1>3. DOMAIN c = 1..(m + n)
  BY <1>2, LenProperties
<1> HIDE DEF c, m, n
<1>4. ASSUME NEW i \in 1..(m + n)
      PROVE  \/ i \in 1..m /\ c[i] = s[i] /\ c[i] \in ToSet(s)
             \/ i - m \in 1..n /\ c[i] = r[i - m] /\ c[i] \in ToSet(r)
  <2>1. CASE i <= m
    BY <1>1, <1>2, <2>1 DEF ToSet
  <2>2. CASE i > m
    <3>1. i - m \in 1..n /\ c[i] = r[i - m]
      BY <1>1, <1>2, <2>2
    <3> QED
      BY <1>1, <3>1 DEF ToSet
  <2> QED
    BY <1>1, <2>1, <2>2
<1>5. ToSet(c) \subseteq ToSet(s) \cup ToSet(r)
  <2>1. \A x \in ToSet(c) : \E i \in 1..(m + n) : x = c[i]
    BY <1>3 DEF ToSet
  <2> QED
    BY <1>4, <2>1
<1>6. ToSet(s) \subseteq ToSet(c)
  <2>1. \A i \in 1..m : i \in DOMAIN c /\ c[i] = s[i]
    BY <1>1, <1>2, <1>3
  <2> QED
    BY <1>1, <2>1 DEF ToSet
<1>7. ToSet(r) \subseteq ToSet(c)
  <2>1. ASSUME NEW i \in 1..n
        PROVE  m + i \in DOMAIN c /\ c[m + i] = r[i]
    <3>1. m + i \in 1..(m + n) /\ ~(m + i <= m) /\ (m + i) - m = i
      BY <1>1
    <3> QED
      BY <1>2, <1>3, <3>1
  <2> QED
    BY <1>1, <2>1 DEF ToSet
<1>8. ASSUME IsInjective(s), IsInjective(r), ToSet(s) \cap ToSet(r) = {}
      PROVE  IsInjective(c)
  <2>1. ASSUME NEW i \in 1..(m + n), NEW j \in 1..(m + n), c[i] = c[j]
        PROVE  i = j
    <3>1. CASE i \in 1..m /\ j \in 1..m /\ c[i] = s[i] /\ c[j] = s[j]
      BY <1>1, <1>8, <2>1, <3>1 DEF IsInjective
    <3>2. CASE i - m \in 1..n /\ j - m \in 1..n /\ c[i] = r[i - m] /\ c[j] = r[j - m]
      <4>1. i - m = j - m
        BY <1>1, <1>8, <2>1, <3>2 DEF IsInjective
      <4> QED
        BY <1>1, <4>1
    <3> QED
      BY <1>4, <1>8, <2>1, <3>1, <3>2
  <2> QED
    BY <1>3, <2>1 DEF IsInjective
<1> QED
  BY <1>2, <1>5, <1>6, <1>7, <1>8 DEF c

-----------------------------------------------------------------------------
(* Callers and instances.                                                     *)

\* Who is who, and what is none of them.
LEMMA Callers ==
  /\ Caller = Admin \cup Page /\ Admin \cap Page = {} /\ None \notin Caller
  /\ None \notin Object /\ Tox \in Name /\ Tox \notin ToSet(Nodes)
  /\ ToSet(Nodes) \subseteq Name /\ Nodes \in Seq(Name)
<1>1. ToSet(Nodes) \subseteq Name
  BY DEF Name
<1>2. Seq(ToSet(Nodes)) \subseteq Seq(Name)
  BY <1>1, SeqMonotonic
<1> QED
  BY <1>1, <1>2, ServerCoreAssumption DEF Caller, Name

\* The names a loop starts with are those of instances, each once.
LEMMA EveryoneProperties ==
  ASSUME InstancesOK, KeysInv
  PROVE  /\ Everyone \in Seq(Name) /\ IsInjective(Everyone)
         /\ \A n \in ToSet(Everyone) : table[n] # None
<1> DEFINE first == IF table[Tox] = None THEN <<>> ELSE <<Tox>>
<1>1. keys \in Seq(Name) /\ ToSet(keys) \subseteq ToSet(Nodes)
  <2>1. Seq(ToSet(Nodes)) \subseteq Seq(Name)
    BY Callers, SeqMonotonic
  <2> QED
    BY <2>1, ToSetProperties DEF KeysInv
<1>2. first \in Seq(Name) /\ IsInjective(first) /\ ToSet(first) = {n \in {Tox} : table[n] # None}
  <2>1. CASE table[Tox] = None
    <3>1. first = <<>> /\ DOMAIN <<>> = {}
      BY <2>1, EmptySeq
    <3> QED
      BY <2>1, <3>1, EmptySeq DEF ToSet, IsInjective
  <2>2. CASE table[Tox] # None
    BY <2>2, Callers, OneProperties
  <2> QED
    BY <2>1, <2>2
<1>3. ToSet(first) \cap ToSet(keys) = {}
  BY <1>1, <1>2, Callers
<1> HIDE DEF first
<1>4. first \o keys \in Seq(Name) /\ IsInjective(first \o keys)
      /\ ToSet(first \o keys) = ToSet(first) \cup ToSet(keys)
  BY <1>1, <1>2, <1>3, JoinedProperties DEF KeysInv
<1> QED
  BY <1>2, <1>4 DEF Everyone, KeysInv, first

\* The objects of those names.
LEMMA ObjectsProperties ==
  ASSUME InstancesOK, KeysInv
  PROVE  LET all == [i \in DOMAIN Everyone |-> table[Everyone[i]]]
         IN  all \in Seq(Object) /\ ToSet(all) \subseteq Instances
<1> DEFINE all == [i \in DOMAIN Everyone |-> table[Everyone[i]]]
<1>1. Len(Everyone) \in Nat /\ DOMAIN Everyone = 1..Len(Everyone)
  BY EveryoneProperties, LenProperties
<1>2. \A i \in 1..Len(Everyone) : Everyone[i] \in Name /\ table[Everyone[i]] # None
  BY <1>1, EveryoneProperties, ElementOfSeq DEF ToSet
<1>3. \A i \in 1..Len(Everyone) : all[i] \in Object /\ all[i] \in Instances
  BY <1>1, <1>2 DEF InstancesOK, Instances
<1>4. all \in [1..Len(Everyone) -> Object]
  BY <1>1, <1>3
<1>5. all \in Seq(Object)
  BY <1>1, <1>4, SeqDef
<1>6. ToSet(all) \subseteq Instances
  BY <1>1, <1>3 DEF ToSet
<1> QED
  BY <1>5, <1>6

\* A step of t leaves the other callers what they have in hand.
LEMMA OthersKept ==
  ASSUME IInv, NEW t \in Caller,
         \A u \in Caller \ {t} : /\ pc'[u] = pc[u] /\ op'[u] = op[u] /\ todo'[u] = todo[u]
                                 /\ work'[u] = work[u] /\ outcome'[u] = outcome[u]
                                 /\ taken'[u] = taken[u],
         table' = table \/ owner = t,
         \A o \in Object : life[o] = "ended" => life'[o] = "ended",
         Position(t)', InHand(t)', Visits(t)', Stopping(t)'
  PROVE  CallerInv'
<1> SUFFICES ASSUME NEW u \in Caller \ {t}
             PROVE  Position(u)' /\ InHand(u)' /\ Visits(u)' /\ Stopping(u)'
  BY DEF CallerInv
<1>1. Position(u) /\ InHand(u) /\ Visits(u) /\ Stopping(u)
  BY DEF IInv, CallerInv
<1>2. Position(u)' /\ InHand(u)'
  BY <1>1 DEF Position, InHand
<1>3. Visits(u)'
  <2>1. pc[u] \in {"choose", "start"} => table' = table
    BY DEF IInv, LockInv, Inside
  <2> QED
    BY <1>1, <2>1 DEF Visits, Instances
<1>4. Stopping(u)'
  <2>1. taken[u] \subseteq Object
    BY DEF IInv, CallersOK
  <2> QED
    BY <1>1, <2>1 DEF Stopping
<1> QED
  BY <1>2, <1>3, <1>4

\* A call that ends keeps the invariant, if it has told of what it was at work on and
\* a stop ends as it should.
LEMMA LeaveKeeps ==
  ASSUME IInv, NEW t \in Caller, NEW how \in {"returned", "raised", "refused", "told"},
         Leave(t, how),
         UNCHANGED <<instances, taken, replaced>>, told \subseteq told',
         \A o \in ToSet(work[t]) : life[o] = "alive" => o \in told',
         op[t] = "stop" => /\ how # "raised"
                           /\ how = "returned" => \A o \in taken[t] : life[o] = "ended"
  PROVE  IInv'
<1>1. InstancesOK' /\ KeysInv'
  BY DEF IInv, InstancesOK, KeysInv, instances
<1>2. /\ pc'[t] = "idle" /\ todo'[t] = <<>> /\ work'[t] = <<>> /\ outcome'[t] = how
      /\ op' = op /\ taken' = taken /\ table' = table /\ life' = life
      /\ owner' = IF owner = t THEN None ELSE owner
  BY DEF IInv, CallersOK, Leave, Goto, Visit, instances
<1>3. \A u \in Caller \ {t} : /\ pc'[u] = pc[u] /\ op'[u] = op[u] /\ todo'[u] = todo[u]
                               /\ work'[u] = work[u] /\ outcome'[u] = outcome[u]
                               /\ taken'[u] = taken[u]
  BY <1>2 DEF IInv, CallersOK, Leave, Goto, Visit
<1>4. CallersOK'
  <2>1. <<>> \in Seq(Name) /\ <<>> \in Seq(Object) /\ 0 \in 0..(MaxIterations - 1)
    BY EmptySeq, ServerCoreAssumption
  <2>2. pc' \in [Caller -> {"idle", "look", "test", "take"} \cup Inside]
    BY DEF IInv, CallersOK, Leave, Goto
  <2>3. todo' \in [Caller -> Seq(Name) \cup Seq(Object)] /\ work' \in [Caller -> Seq(Object)]
    BY <2>1 DEF IInv, CallersOK, Leave, Visit
  <2>4. loop' \in [Caller -> 0..(MaxIterations - 1)]
    BY <2>1 DEF IInv, CallersOK, Leave
  <2>5. outcome' \in [Caller -> {"none", "returned", "raised", "refused", "told"}]
    BY DEF IInv, CallersOK, Leave
  <2> QED
    BY <1>2, <2>2, <2>3, <2>4, <2>5 DEF IInv, CallersOK
<1>5. LockInv'
  BY <1>2, <1>3, Callers DEF IInv, LockInv, Inside
<1>6. CallerInv'
  <2>1. Position(t) /\ taken[t] \subseteq Object
    BY DEF IInv, CallerInv, CallersOK
  <2>2. Position(t)' /\ InHand(t)' /\ Visits(t)'
    BY <1>2, <2>1, EmptySeq DEF Position, InHand, Visits
  <2>3. Stopping(t)'
    BY <1>2 DEF Stopping
  <2> QED
    BY <1>2, <1>3, <2>2, <2>3, OthersKept
<1>7. NoOrphan'
  <2>1. \A a \in Admin : a # t => work'[a] = work[a]
    BY <1>3, Callers
  <2> QED
    BY <1>2, <2>1 DEF IInv, NoOrphan, instances
<1> QED
  BY <1>1, <1>4, <1>5, <1>6, <1>7 DEF IInv

\* A call that goes on, at a label on the same side of the mutex, keeps the invariant.
LEMMA ProceedKeeps ==
  ASSUME IInv, NEW t \in Caller,
         NEW label \in {"look", "test", "take"} \cup Inside,
         NEW s \in Seq(Name) \cup Seq(Object),
         Proceed(t, label, s), label \in Inside <=> pc[t] \in Inside,
         UNCHANGED <<instances, history>>,
         Position(t)', InHand(t)', Visits(t)', Stopping(t)'
  PROVE  IInv'
<1>1. InstancesOK' /\ KeysInv' /\ NoOrphan'
  BY DEF IInv, InstancesOK, KeysInv, NoOrphan, Proceed, instances, history
<1>2. CallersOK' /\ LockInv'
  BY DEF IInv, CallersOK, LockInv, Proceed, Goto, Visit, history
<1>3. \A u \in Caller \ {t} : /\ pc'[u] = pc[u] /\ op'[u] = op[u] /\ todo'[u] = todo[u]
                               /\ work'[u] = work[u] /\ outcome'[u] = outcome[u]
                               /\ taken'[u] = taken[u]
  BY DEF IInv, CallersOK, Proceed, Goto, Visit, history
<1>4. CallerInv'
  BY <1>3, OthersKept DEF instances
<1> QED
  BY <1>1, <1>2, <1>4 DEF IInv

-----------------------------------------------------------------------------
(* The initial states, and the steps that change no instance.                 *)

\* The constructor of ServerCore leaves the keys in the order of the configuration,
\* each once, and every key has its instance.
LEMMA InitInv == Init => IInv
<1> SUFFICES ASSUME Init
             PROVE  IInv
  OBVIOUS
<1>1. PICK failed \in SUBSET Name, size \in 0..Len(Nodes) :
        /\ table = [n \in Name |-> IF n \in failed THEN None ELSE <<n, 1>>]
        /\ keys \in [1..size -> ToSet(Nodes)]
        /\ InOrder(keys) /\ ToSet(keys) = ToSet(Nodes) \ failed
        /\ life = [o \in Object |-> IF o = table[o[1]] THEN "made" ELSE "absent"]
  BY DEF Init
<1>2. size \in Nat /\ Len(Nodes) \in Nat /\ DOMAIN Nodes = 1..Len(Nodes)
  BY ServerCoreAssumption, LenProperties
<1>3. InstancesOK
  <2>1. \A n \in Name : <<n, 1>> \in Object
    BY ServerCoreAssumption DEF Object
  <2> QED
    BY <1>1, <2>1 DEF InstancesOK, Init
<1>4. KeysInv
  <2>1. keys \in Seq(ToSet(Nodes))
    BY <1>1, <1>2, SeqDef
  <2>2. IsInjective(keys)
    <3>1. DOMAIN keys = 1..size
      BY <1>1
    <3>a. \A i, j \in DOMAIN keys : i < j =>
            \E k, l \in DOMAIN Nodes : k < l /\ keys[i] = Nodes[k] /\ keys[j] = Nodes[l]
      BY <1>1, Zenon DEF InOrder
    <3>2. ASSUME NEW i \in 1..size, NEW j \in 1..size, i < j
          PROVE  keys[i] # keys[j]
      <4>1. PICK k \in DOMAIN Nodes, l \in DOMAIN Nodes :
              k < l /\ keys[i] = Nodes[k] /\ keys[j] = Nodes[l]
        BY <3>1, <3>a, <3>2
      <4> QED
        BY <1>2, <4>1, ServerCoreAssumption DEF IsInjective
    <3>3. \A i, j \in 1..size : i = j \/ i < j \/ j < i
      BY <1>2
    <3> QED
      BY <3>1, <3>2, <3>3 DEF IsInjective
  <2>3. ASSUME NEW n \in ToSet(keys)
        PROVE  table[n] # None
    <3>1. n \in Name /\ n \notin failed
      BY <1>1, Callers
    <3>2. table[n] = <<n, 1>> /\ <<n, 1>> \in Object
      BY <1>1, <3>1, ServerCoreAssumption DEF Object
    <3> QED
      BY <3>2, Callers
  <2> QED
    BY <2>1, <2>2, <2>3 DEF KeysInv
<1>5. CallersOK
  BY EmptySeq, ServerCoreAssumption DEF Init, CallersOK
<1>6. LockInv
  BY Callers DEF Init, LockInv, Inside
<1>7. CallerInv
  BY EmptySeq, Callers DEF Init, CallerInv, Position, InHand, Visits, Stopping
<1>8. NoOrphan
  BY <1>1 DEF NoOrphan
<1> QED
  BY <1>3, <1>4, <1>5, <1>6, <1>7, <1>8 DEF IInv

\* The invariant as it stands for one caller.
LEMMA Holding ==
  ASSUME IInv, NEW t \in Caller
  PROVE  /\ Position(t) /\ InHand(t) /\ Visits(t) /\ Stopping(t)
         /\ owner = t <=> pc[t] \in Inside
         /\ pc[t] \in {"idle", "look", "test", "take"} \cup Inside
         /\ pc[t] \notin {"idle", "look"} => t \in Admin
         /\ work[t] \in Seq(Object) /\ taken[t] \subseteq Object
         /\ ToSet(<<>>) = {}
<1>1. ToSet(<<>>) = {}
  BY DEF ToSet
<1>2. Position(t)
  BY DEF IInv, CallerInv
<1> QED
  BY <1>1, <1>2, Callers DEF IInv, CallerInv, LockInv, CallersOK, Position

\* What follows the lock: the label and the visit of each call.
LEMMA FirstStepProperties ==
  ASSUME IInv, NEW t \in Caller, pc[t] = "take"
  PROVE  LET first == FirstStep(op[t])
         IN  /\ first.label \in Inside
             /\ first.visit \in Seq(Name) \cup Seq(Object)
             /\ op[t] = "init" => first.label = "make" /\ first.visit \in Seq(Name)
             /\ op[t] = "start" => /\ first.label = "start" /\ first.visit \in Seq(Object)
                                   /\ ToSet(first.visit) \subseteq Instances
             /\ op[t] = "stop" => /\ first.label = "choose" /\ first.visit \in Seq(Name)
                                  /\ IsInjective(first.visit)
                                  /\ \A n \in ToSet(first.visit) : table[n] # None
             /\ op[t] = "restart" => first.label = "nested" /\ first.visit = <<>>
<1>1. op[t] \in {"init", "start", "stop", "restart"}
  BY Holding DEF IInv, CallersOK, Position
<1>2. <<Tox>> \o Nodes \in Seq(Name)
  BY Callers, OneProperties, JoinedProperties
<1>3. Everyone \in Seq(Name) /\ IsInjective(Everyone) /\ \A n \in ToSet(Everyone) : table[n] # None
  BY EveryoneProperties DEF IInv
<1> DEFINE all == [i \in DOMAIN Everyone |-> table[Everyone[i]]]
<1>4. all \in Seq(Object) /\ ToSet(all) \subseteq Instances
  BY ObjectsProperties DEF IInv
<1>5. <<>> \in Seq(Name)
  BY EmptySeq
<1> HIDE DEF all
<1>6. CASE op[t] = "init"
  BY <1>2, <1>6 DEF FirstStep, Inside
<1>7. CASE op[t] = "start"
  BY <1>4, <1>7 DEF FirstStep, Inside, all
<1>8. CASE op[t] = "stop"
  BY <1>3, <1>8 DEF FirstStep, Inside
<1>9. CASE op[t] = "restart"
  BY <1>5, <1>9 DEF FirstStep, Inside
<1> QED
  BY <1>1, <1>6, <1>7, <1>8, <1>9

\* A call that gets the mutex sets out on its loop.
LEMMA TakeStep ==
  ASSUME IInv, NEW t \in Caller, Take(t), UNCHANGED <<instances, history>>
  PROVE  IInv'
<1> DEFINE first == FirstStep(op[t])
<1>a. pc[t] = "take" /\ owner = None /\ t \in Admin
  BY Holding DEF Take
<1>b. /\ first.label \in Inside
      /\ first.visit \in Seq(Name) \cup Seq(Object)
      /\ op[t] = "init" => first.label = "make" /\ first.visit \in Seq(Name)
      /\ op[t] = "start" => /\ first.label = "start" /\ first.visit \in Seq(Object)
                            /\ ToSet(first.visit) \subseteq Instances
      /\ op[t] = "stop" => /\ first.label = "choose" /\ first.visit \in Seq(Name)
                           /\ IsInjective(first.visit)
                           /\ \A n \in ToSet(first.visit) : table[n] # None
      /\ op[t] = "restart" => first.label = "nested" /\ first.visit = <<>>
  BY <1>a, FirstStepProperties
<1>c. op[t] \in {"init", "start", "stop", "restart"}
  BY <1>a, Holding DEF IInv, CallersOK, Position
<1>d. Goto(t, first.label) /\ Visit(t, first.visit)
  BY DEF Take
<1> HIDE DEF first
<1>1. InstancesOK' /\ KeysInv' /\ NoOrphan'
  BY DEF IInv, InstancesOK, KeysInv, NoOrphan, Take, instances, history
<1>2. CallersOK'
  BY <1>b, <1>d DEF IInv, CallersOK, Take, Goto, Visit, history
<1>3. LockInv'
  BY <1>a, <1>b, <1>d, Callers DEF IInv, LockInv, CallersOK, Take, Goto
<1>4. \A u \in Caller \ {t} : /\ pc'[u] = pc[u] /\ op'[u] = op[u] /\ todo'[u] = todo[u]
                               /\ work'[u] = work[u] /\ outcome'[u] = outcome[u]
                               /\ taken'[u] = taken[u]
  BY <1>d DEF IInv, CallersOK, Take, Goto, Visit, history
<1>5. /\ pc'[t] = first.label /\ todo'[t] = first.visit
      /\ UNCHANGED <<op, work, outcome, taken, table, life>>
  BY <1>d DEF IInv, CallersOK, Take, Goto, Visit, instances, history
<1>6. Position(t)' /\ InHand(t)' /\ Visits(t)' /\ Stopping(t)'
  <2>1. Position(t) /\ InHand(t) /\ Stopping(t)
    BY Holding
  <2>2. CASE op[t] = "init"
    BY <1>a, <1>b, <1>5, <2>1, <2>2, Callers DEF Position, InHand, Visits, Stopping
  <2>3. CASE op[t] = "start"
    BY <1>a, <1>b, <1>5, <2>1, <2>3, Callers DEF Position, InHand, Visits, Stopping, Instances
  <2>4. CASE op[t] = "stop"
    BY <1>a, <1>b, <1>5, <2>1, <2>4, Callers DEF Position, InHand, Visits, Stopping
  <2>5. CASE op[t] = "restart"
    BY <1>a, <1>b, <1>5, <2>1, <2>5, Callers DEF Position, InHand, Visits, Stopping
  <2> QED
    BY <1>c, <2>2, <2>3, <2>4, <2>5
<1>7. CallerInv'
  BY <1>4, <1>5, <1>6, OthersKept
<1> QED
  BY <1>1, <1>2, <1>3, <1>7 DEF IInv

\* A call that leaves its loop before its time, or has nothing to do any more.
LEMMA LeavingSteps ==
  ASSUME IInv, NEW t \in Caller, UNCHANGED <<instances, history>>,
         \/ Refuse(t) \/ NestedRefused(t) \/ Complete(t)
         \/ StartRaises(t) \/ LookupRaises(t) \/ AllStopped(t)
  PROVE  IInv'
<1>a. UNCHANGED <<instances, taken, replaced>> /\ told \subseteq told'
  BY DEF history
<1>b. \A o \in ToSet(<<>>) : life[o] = "alive" => o \in told'
  BY Holding
<1>1. CASE Refuse(t)
  <2>1. work[t] = <<>>
    BY <1>1, Holding DEF Refuse, InHand
  <2> QED
    BY <1>1, <1>a, <1>b, <2>1, LeaveKeeps DEF Refuse
<1>2. CASE NestedRefused(t)
  <2>1. work[t] = <<>> /\ op[t] # "stop"
    BY <1>2, Holding DEF NestedRefused, InHand, Position
  <2> QED
    BY <1>2, <1>a, <1>b, <2>1, LeaveKeeps DEF NestedRefused
<1>3. CASE Complete(t)
  <2>1. work[t] = <<>>
    BY <1>3, Holding DEF Complete, InHand
  <2>2. op[t] = "stop" => pc[t] = "choose"
    BY <1>3, Holding, Callers DEF Complete, Position
  <2>3. op[t] = "stop" => \A o \in taken[t] : life[o] = "ended"
    BY <2>1, <2>2, Holding DEF Stopping
  <2> QED
    BY <1>3, <1>a, <1>b, <2>1, <2>3, LeaveKeeps DEF Complete
<1>4. CASE StartRaises(t)
  <2>1. work[t] = <<>> /\ op[t] # "stop"
    BY <1>4, Holding DEF StartRaises, InHand, Position
  <2> QED
    BY <1>4, <1>a, <1>b, <2>1, LeaveKeeps DEF StartRaises
<1>5. CASE LookupRaises(t)
  <2>1. pc[t] = "look"
    <3>1. pc[t] = "choose" => todo[t] \in Seq(Name) /\ todo[t] # <<>>
      BY <1>5, Holding DEF LookupRaises, InHand
    <3>2. pc[t] = "choose" => Head(todo[t]) \in ToSet(todo[t])
      BY <3>1, TailProperties
    <3> QED
      BY <1>5, <3>2, Holding DEF LookupRaises, Visits
  <2>2. work[t] = <<>> /\ op[t] # "stop"
    BY <2>1, Holding, Callers DEF InHand, Position
  <2> QED
    BY <1>5, <1>a, <1>b, <2>2, LeaveKeeps DEF LookupRaises
<1>6. CASE AllStopped(t)
  <2>1. work[t] = <<>>
    BY <1>6 DEF AllStopped
  <2>2. \A o \in taken[t] : life[o] = "ended"
    BY <1>6, <2>1, Holding DEF AllStopped, Stopping
  <2> QED
    BY <1>6, <1>a, <1>b, <2>1, <2>2, LeaveKeeps DEF AllStopped
<1> QED
  BY <1>1, <1>2, <1>3, <1>4, <1>5, <1>6

\* A call that goes on with the rest of its loop.
LEMMA ProceedingSteps ==
  ASSUME IInv, NEW t \in Caller, UNCHANGED <<instances, history>>,
         Pass(t) \/ MakeFails(t) \/ PassOver(t) \/ BeginFinalizing(t)
  PROVE  IInv'
<1>a. /\ Position(t) /\ InHand(t) /\ Visits(t) /\ Stopping(t)
      /\ work[t] \in Seq(Object) /\ taken[t] \subseteq Object
  BY Holding
<1>1. CASE Pass(t)
  <2>1. pc[t] = "test" /\ Proceed(t, "take", <<>>) /\ <<>> \in Seq(Name)
    BY <1>1, EmptySeq DEF Pass
  <2>2. /\ pc'[t] = "take" /\ todo'[t] = <<>>
        /\ UNCHANGED <<op, work, outcome, taken, table, life>>
    BY <2>1 DEF IInv, CallersOK, Proceed, Goto, Visit, instances, history
  <2>3. Position(t)' /\ InHand(t)' /\ Visits(t)' /\ Stopping(t)'
    BY <1>a, <2>1, <2>2 DEF Position, InHand, Visits, Stopping
  <2> QED
    BY <2>1, <2>3, ProceedKeeps DEF Inside
<1>2. CASE MakeFails(t)
  <2>1. /\ pc[t] = "make" /\ Proceed(t, "make", Tail(todo[t]))
        /\ todo[t] \in Seq(Name) /\ todo[t] # <<>>
    BY <1>2, <1>a DEF MakeFails, InHand
  <2>2. Tail(todo[t]) \in Seq(Name)
    BY <2>1, TailProperties
  <2>3. /\ pc'[t] = "make" /\ todo'[t] = Tail(todo[t])
        /\ UNCHANGED <<op, work, outcome, taken, table, life>>
    BY <2>1 DEF IInv, CallersOK, Proceed, Goto, Visit, instances, history
  <2>4. Position(t)' /\ InHand(t)' /\ Visits(t)' /\ Stopping(t)'
    BY <1>a, <2>1, <2>2, <2>3 DEF Position, InHand, Visits, Stopping
  <2> QED
    BY <2>1, <2>2, <2>4, ProceedKeeps DEF Inside
<1>3. CASE PassOver(t)
  <2>1. /\ pc[t] \in {"choose", "look"} /\ Proceed(t, pc[t], Tail(todo[t]))
        /\ todo[t] \in Seq(Name) /\ todo[t] # <<>>
    BY <1>3, <1>a DEF PassOver, InHand
  <2>2. /\ Tail(todo[t]) \in Seq(Name) /\ ToSet(Tail(todo[t])) \subseteq ToSet(todo[t])
        /\ IsInjective(todo[t]) => IsInjective(Tail(todo[t]))
    BY <2>1, TailProperties
  <2>3. /\ pc'[t] = pc[t] /\ todo'[t] = Tail(todo[t])
        /\ UNCHANGED <<op, work, outcome, taken, table, life>>
    BY <2>1 DEF IInv, CallersOK, Proceed, Goto, Visit, instances, history
  <2>4. Position(t)' /\ InHand(t)'
    BY <1>a, <2>1, <2>2, <2>3 DEF Position, InHand
  <2>5. Visits(t)' /\ Stopping(t)'
    BY <1>a, <2>1, <2>2, <2>3 DEF Visits, Stopping
  <2> QED
    BY <2>1, <2>2, <2>4, <2>5, ProceedKeeps DEF Inside
<1>4. CASE BeginFinalizing(t)
  <2>1. pc[t] = "choose" /\ Proceed(t, "finalize", work[t])
    BY <1>4 DEF BeginFinalizing
  <2>2. /\ pc'[t] = "finalize" /\ todo'[t] = work[t]
        /\ UNCHANGED <<op, work, outcome, taken, table, life>>
    BY <2>1 DEF IInv, CallersOK, Proceed, Goto, Visit, instances, history
  <2>3. Position(t)' /\ InHand(t)' /\ Visits(t)' /\ Stopping(t)'
    BY <1>a, <2>1, <2>2 DEF Position, InHand, Visits, Stopping
  <2> QED
    BY <1>a, <2>1, <2>3, ProceedKeeps DEF Inside
<1> QED
  BY <1>1, <1>2, <1>3, <1>4

\* A round of the waiting loop begins, or a thread is waited for.
LEMMA WaitingSteps ==
  ASSUME IInv, NEW t \in Caller, UNCHANGED <<instances, history>>,
         NextRound(t) \/ JoinOne(t)
  PROVE  IInv'
<1>a. /\ Position(t) /\ InHand(t) /\ Stopping(t)
      /\ work[t] \in Seq(Object) /\ taken[t] \subseteq Object
      /\ pc[t] \in {"finalize", "join"}
  BY Holding DEF NextRound, JoinOne
<1>b. InstancesOK' /\ KeysInv'
  BY DEF IInv, InstancesOK, KeysInv, instances
<1>1. CASE NextRound(t)
  <2>1. /\ loop' = [loop EXCEPT ![t] = loop[t] + 1] /\ loop[t] + 1 # MaxIterations
        /\ Goto(t, "join") /\ Visit(t, work[t])
        /\ UNCHANGED <<owner, op, work, outcome, calls>>
    BY <1>1 DEF NextRound
  <2>2. loop[t] + 1 \in 0..(MaxIterations - 1)
    BY <2>1, ServerCoreAssumption DEF IInv, CallersOK
  <2>3. CallersOK'
    BY <1>a, <2>1, <2>2 DEF IInv, CallersOK, Goto, Visit, Inside, history
  <2>4. LockInv' /\ NoOrphan'
    BY <1>a, <2>1 DEF IInv, CallersOK, LockInv, NoOrphan, Goto, Inside, instances, history
  <2>5. \A u \in Caller \ {t} : /\ pc'[u] = pc[u] /\ op'[u] = op[u] /\ todo'[u] = todo[u]
                                 /\ work'[u] = work[u] /\ outcome'[u] = outcome[u]
                                 /\ taken'[u] = taken[u]
    BY <2>1 DEF IInv, CallersOK, Goto, Visit, history
  <2>6. /\ pc'[t] = "join" /\ todo'[t] = work[t]
        /\ UNCHANGED <<op, work, outcome, taken, table, life>>
    BY <2>1 DEF IInv, CallersOK, Goto, Visit, instances, history
  <2>7. Position(t)' /\ InHand(t)' /\ Visits(t)' /\ Stopping(t)'
    BY <1>a, <2>6 DEF Position, InHand, Visits, Stopping
  <2>8. CallerInv'
    BY <2>5, <2>6, <2>7, OthersKept
  <2> QED
    BY <1>b, <2>3, <2>4, <2>8 DEF IInv
<1>2. CASE JoinOne(t)
  <2> DEFINE o == Head(todo[t])
             left == IF life[o] = "ended" THEN RemoveFirst(work[t], o) ELSE work[t]
  <2>1. /\ pc[t] = "join" /\ todo[t] # <<>> /\ todo[t] \in Seq(Object)
        /\ Visit(t, Tail(todo[t]))
        /\ UNCHANGED <<owner, pc, op, loop, outcome, calls>>
    BY <1>2, <1>a DEF JoinOne, InHand
  <2>2. work' = [work EXCEPT ![t] = left]
    BY <1>2 DEF JoinOne, IInv, CallersOK
  <2>3. Tail(todo[t]) \in Seq(Object)
    BY <2>1, TailProperties
  <2>4. /\ left \in Seq(Object)
        /\ \A x \in ToSet(work[t]) : x \in ToSet(left) \/ life[x] = "ended"
    BY <1>a, RemoveFirstProperties
  <2> HIDE DEF left
  <2>5. CallersOK'
    BY <2>1, <2>2, <2>3, <2>4 DEF IInv, CallersOK, Visit, history
  <2>6. LockInv'
    BY <2>1 DEF IInv, LockInv
  <2>7. \A u \in Caller \ {t} : /\ pc'[u] = pc[u] /\ op'[u] = op[u] /\ todo'[u] = todo[u]
                                 /\ work'[u] = work[u] /\ outcome'[u] = outcome[u]
                                 /\ taken'[u] = taken[u]
    BY <2>1, <2>2 DEF IInv, CallersOK, Visit, history
  <2>8. /\ pc'[t] = "join" /\ todo'[t] = Tail(todo[t]) /\ work'[t] = left
        /\ UNCHANGED <<op, outcome, taken, table, life, told, replaced>>
    BY <2>1, <2>2 DEF IInv, CallersOK, Visit, instances, history
  <2>9. Position(t)' /\ InHand(t)' /\ Visits(t)'
    BY <1>a, <2>1, <2>3, <2>8 DEF Position, InHand, Visits
  <2>10. Stopping(t)'
    BY <1>a, <2>1, <2>4, <2>8 DEF Stopping, Position
  <2>11. CallerInv'
    BY <2>7, <2>8, <2>9, <2>10, OthersKept
  <2>12. NoOrphan'
    <3>1. \A a \in Admin : a # t => work'[a] = work[a]
      BY <2>7, Callers
    <3> QED
      BY <2>4, <2>8, <3>1 DEF IInv, NoOrphan
  <2> QED
    BY <1>b, <2>5, <2>6, <2>11, <2>12 DEF IInv
<1> QED
  BY <1>1, <1>2

-----------------------------------------------------------------------------
(* The steps that change an instance, and those that tell of one.             *)

\* init puts a new instance in the table.
LEMMA MakeStep ==
  ASSUME IInv, NEW t \in Caller, Make(t)
  PROVE  IInv'
<1>a. Position(t) /\ InHand(t) /\ Visits(t) /\ Stopping(t) /\ owner = t
  BY Holding DEF Make, Inside
<1>b. /\ pc[t] = "make" /\ op[t] = "init" /\ todo[t] \in Seq(Name) /\ todo[t] # <<>>
      /\ Proceed(t, "make", Tail(todo[t])) /\ UNCHANGED <<state, taken, told>>
  BY <1>a DEF Make, InHand, Position
<1>c. Head(todo[t]) \in Name /\ Tail(todo[t]) \in Seq(Name)
  BY <1>b, TailProperties
<1>d. PICK o \in Object :
        /\ life[o] = "absent" /\ life' = [life EXCEPT ![o] = "made"]
        /\ table' = [table EXCEPT ![Head(todo[t])] = o]
        /\ keys' = IF Head(todo[t]) = Tox \/ Contains(keys, Head(todo[t])) THEN keys
                   ELSE Append(keys, Head(todo[t]))
        /\ replaced' = replaced \cup ({table[Head(todo[t])]} \ {None})
  BY DEF Make, Fresh
<1> DEFINE n == Head(todo[t])
<1> HIDE DEF n
<1>1. InstancesOK'
  BY <1>b, <1>d DEF IInv, InstancesOK
<1>2. KeysInv'
  <2>1. \A m \in Name : table[m] # None => table'[m] # None
    BY <1>c, <1>d, Callers DEF IInv, InstancesOK
  <2>2. CASE keys' = keys
    <3>1. ToSet(keys) \subseteq Name
      BY ToSetProperties, Callers DEF IInv, KeysInv
    <3> QED
      BY <2>1, <2>2, <3>1 DEF IInv, KeysInv
  <2>3. CASE n # Tox /\ ~Contains(keys, n) /\ keys' = Append(keys, n)
    <3>1. n \in ToSet(Nodes) /\ n \notin ToSet(keys)
      BY <1>c, <2>3, ToSetProperties DEF IInv, KeysInv, Name, n
    <3>2. keys' \in Seq(ToSet(Nodes)) /\ IsInjective(keys') /\ ToSet(keys') = ToSet(keys) \cup {n}
      BY <2>3, <3>1, AppendedProperties DEF IInv, KeysInv
    <3>3. table'[n] # None
      BY <1>c, <1>d, Callers DEF IInv, InstancesOK, n
    <3>4. ToSet(keys) \subseteq Name
      BY ToSetProperties, Callers DEF IInv, KeysInv
    <3> QED
      BY <2>1, <3>2, <3>3, <3>4 DEF IInv, KeysInv
  <2> QED
    BY <1>d, <2>2, <2>3 DEF n
<1>3. CallersOK' /\ LockInv'
  BY <1>b, <1>c DEF IInv, CallersOK, LockInv, Proceed, Goto, Visit, Inside
<1>4. \A u \in Caller \ {t} : /\ pc'[u] = pc[u] /\ op'[u] = op[u] /\ todo'[u] = todo[u]
                               /\ work'[u] = work[u] /\ outcome'[u] = outcome[u]
                               /\ taken'[u] = taken[u]
  BY <1>b DEF IInv, CallersOK, Proceed, Goto, Visit
<1>5. /\ pc'[t] = "make" /\ todo'[t] = Tail(todo[t])
      /\ UNCHANGED <<op, work, outcome, taken, told>>
  BY <1>b DEF IInv, CallersOK, Proceed, Goto, Visit
<1>6. \A x \in Object : life[x] # "absent" => life'[x] = life[x]
  BY <1>d DEF IInv, InstancesOK
<1>7. Position(t)' /\ InHand(t)' /\ Visits(t)' /\ Stopping(t)'
  BY <1>a, <1>b, <1>c, <1>5 DEF Position, InHand, Visits, Stopping
<1>8. CallerInv'
  BY <1>a, <1>4, <1>6, <1>7, OthersKept
<1>9. NoOrphan'
  <2>1. \A m \in Name : table[m] = table'[m] \/ table[m] = None \/ table[m] \in replaced'
    BY <1>c, <1>d DEF IInv, InstancesOK
  <2>2. \A x \in Object : life'[x] = "alive" => life[x] = "alive"
    BY <1>d DEF IInv, InstancesOK
  <2>3. replaced \subseteq replaced' /\ told' = told /\ work' = work
    BY <1>d, <1>5
  <2> QED
    BY <2>1, <2>2, <2>3, Callers DEF IInv, NoOrphan
<1> QED
  BY <1>1, <1>2, <1>3, <1>8, <1>9 DEF IInv

\* start starts the next instance, or skips the Tox instance that runs already.
LEMMA StartStep ==
  ASSUME IInv, NEW t \in Caller, StartOne(t)
  PROVE  IInv'
<1>a. Position(t) /\ InHand(t) /\ Visits(t) /\ Stopping(t)
  BY Holding
<1>b. /\ pc[t] = "start" /\ op[t] = "start" /\ todo[t] \in Seq(Object) /\ todo[t] # <<>>
      /\ Proceed(t, "start", Tail(todo[t])) /\ UNCHANGED <<table, keys, state, history>>
  BY <1>a DEF StartOne, InHand, Position
<1> DEFINE o == Head(todo[t])
<1>c. /\ o \in Object /\ Tail(todo[t]) \in Seq(Object)
      /\ o \in Instances /\ ToSet(Tail(todo[t])) \subseteq Instances
  BY <1>a, <1>b, TailProperties DEF Visits
<1>d. life' = [life EXCEPT ![o] = "alive"] /\ life[o] \in {"made", "alive"}
  BY DEF StartOne, Skipped
<1> HIDE DEF o
<1>1. InstancesOK' /\ KeysInv'
  BY <1>b, <1>d DEF IInv, InstancesOK, KeysInv
<1>2. CallersOK' /\ LockInv'
  BY <1>b, <1>c DEF IInv, CallersOK, LockInv, Proceed, Goto, Visit, Inside, history
<1>3. \A u \in Caller \ {t} : /\ pc'[u] = pc[u] /\ op'[u] = op[u] /\ todo'[u] = todo[u]
                               /\ work'[u] = work[u] /\ outcome'[u] = outcome[u]
                               /\ taken'[u] = taken[u]
  BY <1>b DEF IInv, CallersOK, Proceed, Goto, Visit, history
<1>4. /\ pc'[t] = "start" /\ todo'[t] = Tail(todo[t])
      /\ UNCHANGED <<op, work, outcome, table, history>>
  BY <1>b DEF IInv, CallersOK, Proceed, Goto, Visit
<1>5. \A x \in Object : life[x] = "ended" => life'[x] = "ended"
  BY <1>c, <1>d DEF IInv, InstancesOK
<1>6. Position(t)' /\ InHand(t)' /\ Visits(t)' /\ Stopping(t)'
  BY <1>a, <1>b, <1>c, <1>4 DEF Position, InHand, Visits, Stopping, Instances
<1>7. CallerInv'
  BY <1>3, <1>4, <1>5, <1>6, OthersKept
<1>8. NoOrphan'
  BY <1>c, <1>d, <1>4 DEF IInv, InstancesOK, NoOrphan, Instances, history
<1> QED
  BY <1>1, <1>2, <1>7, <1>8 DEF IInv

\* A stop takes an instance from the table into its working threads.
LEMMA ChooseStep ==
  ASSUME IInv, NEW t \in Caller, ChooseOne(t)
  PROVE  IInv'
<1>a. /\ Position(t) /\ InHand(t) /\ Visits(t) /\ Stopping(t) /\ owner = t
      /\ work[t] \in Seq(Object) /\ taken[t] \subseteq Object
  BY Holding DEF ChooseOne, Inside
<1> DEFINE n == Head(todo[t])
           o == table[n]
<1>b. /\ pc[t] = "choose" /\ op[t] = "stop" /\ todo[t] \in Seq(Name) /\ todo[t] # <<>>
      /\ IsInjective(todo[t]) /\ \A m \in ToSet(todo[t]) : table[m] # None
      /\ Visit(t, Tail(todo[t]))
      /\ UNCHANGED <<life, state, owner, pc, op, loop, outcome, calls, told, replaced>>
  BY <1>a DEF ChooseOne, InHand, Position, Visits
<1>c. /\ n \in Name /\ Tail(todo[t]) \in Seq(Name) /\ IsInjective(Tail(todo[t]))
      /\ ToSet(Tail(todo[t])) \subseteq ToSet(todo[t]) \ {n}
  BY <1>b, TailProperties
<1>d. /\ o # None
      /\ work' = [work EXCEPT ![t] = Append(work[t], o)]
      /\ taken' = [taken EXCEPT ![t] = taken[t] \cup {o}]
      /\ table' = IF n = Tox THEN table ELSE [table EXCEPT ![n] = None]
      /\ keys' = RemoveFirst(keys, n)
  BY DEF ChooseOne
<1>e. o \in Object
  BY <1>c, <1>d DEF IInv, InstancesOK
<1>f. /\ Append(work[t], o) \in Seq(Object)
      /\ ToSet(Append(work[t], o)) = ToSet(work[t]) \cup {o}
      /\ Append(work[t], o) # <<>>
  BY <1>a, <1>e, AppendedProperties
<1>g. \A m \in Name \ {n} : table'[m] = table[m]
  BY <1>d DEF IInv, InstancesOK
<1>h. ToSet(todo[t]) \subseteq Name
  BY <1>b, ToSetProperties
<1> HIDE DEF n, o
<1>1. InstancesOK'
  BY <1>b, <1>d DEF IInv, InstancesOK
<1>2. KeysInv'
  <2>1. /\ keys' \in Seq(ToSet(Nodes)) /\ IsInjective(keys')
        /\ ToSet(keys') \subseteq ToSet(keys) \ {n}
    BY <1>d, RemoveFirstProperties DEF IInv, KeysInv
  <2>2. ToSet(keys) \subseteq Name
    BY ToSetProperties, Callers DEF IInv, KeysInv
  <2> QED
    BY <1>g, <2>1, <2>2 DEF IInv, KeysInv
<1>3. CallersOK'
  BY <1>b, <1>c, <1>d, <1>e, <1>f DEF IInv, CallersOK, Visit
<1>4. LockInv'
  BY <1>b DEF IInv, LockInv
<1>5. \A u \in Caller \ {t} : /\ pc'[u] = pc[u] /\ op'[u] = op[u] /\ todo'[u] = todo[u]
                               /\ work'[u] = work[u] /\ outcome'[u] = outcome[u]
                               /\ taken'[u] = taken[u]
  BY <1>b, <1>d DEF IInv, CallersOK, Visit
<1>6. /\ todo'[t] = Tail(todo[t]) /\ work'[t] = Append(work[t], o)
      /\ taken'[t] = taken[t] \cup {o}
  BY <1>b, <1>d DEF IInv, CallersOK, Visit
<1>7. Position(t)' /\ InHand(t)'
  BY <1>a, <1>b, <1>c, <1>6 DEF Position, InHand
<1>8. Visits(t)'
  BY <1>b, <1>c, <1>g, <1>h, <1>6 DEF Visits
<1>9. Stopping(t)'
  <2>1. outcome[t] = "none"
    BY <1>a, <1>b DEF Position
  <2> QED
    BY <1>a, <1>b, <1>f, <1>6, <2>1 DEF Stopping
<1>10. CallerInv'
  BY <1>a, <1>b, <1>5, <1>7, <1>8, <1>9, OthersKept
<1>11. NoOrphan'
  <2>1. \A m \in Name : table'[m] = table[m] \/ table[m] = o
    BY <1>g DEF o
  <2>2. \A a \in Admin : a # t => work'[a] = work[a]
    BY <1>5, Callers
  <2>3. t \in Admin /\ o \in ToSet(work'[t]) /\ ToSet(work[t]) \subseteq ToSet(work'[t])
    BY <1>b, <1>f, <1>6, Holding
  <2> QED
    BY <1>b, <2>1, <2>2, <2>3 DEF IInv, NoOrphan
<1> QED
  BY <1>1, <1>2, <1>3, <1>4, <1>10, <1>11 DEF IInv

\* A stop has a thread finalized.
LEMMA FinalizeStep ==
  ASSUME IInv, NEW t \in Caller, FinalizeOne(t)
  PROVE  IInv'
<1>a. Position(t) /\ InHand(t) /\ Visits(t) /\ Stopping(t) /\ taken[t] \subseteq Object
  BY Holding
<1>b. /\ pc[t] = "finalize" /\ todo[t] \in Seq(Object) /\ todo[t] # <<>>
      /\ state' = [state EXCEPT ![Head(todo[t])] = "FINALIZED"]
      /\ Proceed(t, "finalize", Tail(todo[t])) /\ UNCHANGED <<table, keys, life, history>>
  BY <1>a DEF FinalizeOne, InHand
<1>c. Tail(todo[t]) \in Seq(Object)
  BY <1>b, TailProperties
<1>1. InstancesOK' /\ KeysInv' /\ NoOrphan'
  BY <1>b DEF IInv, InstancesOK, KeysInv, NoOrphan, Proceed, history
<1>2. CallersOK' /\ LockInv'
  BY <1>b, <1>c DEF IInv, CallersOK, LockInv, Proceed, Goto, Visit, Inside, history
<1>3. \A u \in Caller \ {t} : /\ pc'[u] = pc[u] /\ op'[u] = op[u] /\ todo'[u] = todo[u]
                               /\ work'[u] = work[u] /\ outcome'[u] = outcome[u]
                               /\ taken'[u] = taken[u]
  BY <1>b DEF IInv, CallersOK, Proceed, Goto, Visit, history
<1>4. /\ pc'[t] = "finalize" /\ todo'[t] = Tail(todo[t])
      /\ UNCHANGED <<op, work, outcome, taken, table, life>>
  BY <1>b DEF IInv, CallersOK, Proceed, Goto, Visit, history
<1>5. Position(t)' /\ InHand(t)' /\ Visits(t)' /\ Stopping(t)'
  BY <1>a, <1>b, <1>c, <1>4 DEF Position, InHand, Visits, Stopping
<1>6. CallerInv'
  BY <1>3, <1>4, <1>5, OthersKept
<1> QED
  BY <1>1, <1>2, <1>6 DEF IInv

\* A stop gives up and returns what has not ended.
LEMMA GiveUpStep ==
  ASSUME IInv, NEW t \in Caller, GiveUp(t)
  PROVE  IInv'
<1>1. /\ Leave(t, "told") /\ UNCHANGED <<instances, taken, replaced>>
      /\ told' = told \cup ToSet(work[t])
  BY DEF GiveUp
<1> QED
  BY <1>1, LeaveKeeps

-----------------------------------------------------------------------------
(* Calls that begin, and instances by themselves.                             *)

\* A call begins with nothing in hand of its own.
LEMMA CallStep ==
  ASSUME IInv, NEW t \in Admin, Call(t)
  PROVE  IInv'
<1>a. t \in Caller /\ t \notin Page
  BY Callers
<1>b. Position(t) /\ InHand(t)
  BY <1>a, Holding
<1>c. PICK c \in Ops : op' = [op EXCEPT ![t] = c]
  BY DEF Call
<1>d. c \in {"init", "start", "stop", "restart"}
  BY ServerCoreAssumption
<1>e. /\ pc[t] = "idle" /\ pc' = [pc EXCEPT ![t] = "test"]
      /\ outcome' = [outcome EXCEPT ![t] = "none"] /\ taken' = [taken EXCEPT ![t] = {}]
      /\ UNCHANGED <<instances, owner, todo, work, loop, told, replaced>>
  BY DEF Call, Goto
<1>1. InstancesOK' /\ KeysInv' /\ NoOrphan'
  BY <1>e DEF IInv, InstancesOK, KeysInv, NoOrphan, instances
<1>2. CallersOK' /\ LockInv'
  BY <1>a, <1>c, <1>d, <1>e DEF IInv, CallersOK, LockInv, Inside
<1>3. \A u \in Caller \ {t} : /\ pc'[u] = pc[u] /\ op'[u] = op[u] /\ todo'[u] = todo[u]
                               /\ work'[u] = work[u] /\ outcome'[u] = outcome[u]
                               /\ taken'[u] = taken[u]
  BY <1>c, <1>e DEF IInv, CallersOK
<1>4. /\ pc'[t] = "test" /\ op'[t] = c /\ outcome'[t] = "none" /\ taken'[t] = {}
      /\ todo'[t] = todo[t] /\ work'[t] = work[t]
  BY <1>a, <1>c, <1>e DEF IInv, CallersOK
<1>5. Position(t)' /\ InHand(t)' /\ Visits(t)' /\ Stopping(t)'
  BY <1>a, <1>b, <1>d, <1>e, <1>4 DEF Position, InHand, Visits, Stopping
<1>6. CallerInv'
  BY <1>a, <1>e, <1>3, <1>5, OthersKept DEF instances
<1> QED
  BY <1>1, <1>2, <1>6 DEF IInv

\* The status page looks at one instance after another, without the mutex.
LEMMA LookStep ==
  ASSUME IInv, NEW t \in Page, Look(t)
  PROVE  IInv'
<1>a. t \in Caller /\ t \notin Admin
  BY Callers
<1>b. Position(t) /\ InHand(t)
  BY <1>a, Holding
<1>c. /\ pc[t] = "idle" /\ pc' = [pc EXCEPT ![t] = "look"]
      /\ todo' = [todo EXCEPT ![t] = keys] /\ outcome' = [outcome EXCEPT ![t] = "none"]
      /\ UNCHANGED <<instances, owner, op, work, loop, history>>
  BY DEF Look, Goto, Visit
<1>d. keys \in Seq(Name)
  <2>1. Seq(ToSet(Nodes)) \subseteq Seq(Name)
    BY Callers, SeqMonotonic
  <2> QED
    BY <2>1 DEF IInv, KeysInv
<1>1. InstancesOK' /\ KeysInv' /\ NoOrphan'
  BY <1>c DEF IInv, InstancesOK, KeysInv, NoOrphan, instances, history
<1>2. CallersOK' /\ LockInv'
  BY <1>a, <1>c, <1>d DEF IInv, CallersOK, LockInv, Inside, history
<1>3. \A u \in Caller \ {t} : /\ pc'[u] = pc[u] /\ op'[u] = op[u] /\ todo'[u] = todo[u]
                               /\ work'[u] = work[u] /\ outcome'[u] = outcome[u]
                               /\ taken'[u] = taken[u]
  BY <1>c DEF IInv, CallersOK, history
<1>4. pc'[t] = "look" /\ todo'[t] = keys /\ outcome'[t] = "none" /\ UNCHANGED <<op, work>>
  BY <1>a, <1>c DEF IInv, CallersOK
<1>5. Position(t)' /\ InHand(t)' /\ Visits(t)' /\ Stopping(t)'
  BY <1>a, <1>b, <1>c, <1>d, <1>4 DEF Position, InHand, Visits, Stopping
<1>6. CallerInv'
  BY <1>a, <1>c, <1>3, <1>5, OthersKept DEF instances
<1> QED
  BY <1>1, <1>2, <1>6 DEF IInv

\* An instance begins, goes down, finalizes itself or ends; what has ended stays so.
LEMMA InstanceStep ==
  ASSUME IInv, NEW o \in Object, Begin(o) \/ GoDown(o) \/ FinalizeItself(o) \/ End(o)
  PROVE  IInv'
<1>1. PICK l \in {"alive", "ended"}, s \in {"READY", "RUNNING", "FINALIZED", "DOWN"} : Become(o, l, s)
  <2>1. state[o] \in {"READY", "RUNNING", "FINALIZED", "DOWN"}
    BY DEF IInv, InstancesOK
  <2> QED
    BY <2>1 DEF Begin, GoDown, FinalizeItself, End
<1>2. life[o] = "alive"
  BY DEF Begin, GoDown, FinalizeItself, End
<1>3. /\ life' = [life EXCEPT ![o] = l] /\ state' = [state EXCEPT ![o] = s]
      /\ UNCHANGED <<table, keys, callers, history>>
  BY <1>1 DEF Become
<1>4. \A x \in Object : life[x] = "ended" => life'[x] = "ended"
  BY <1>2, <1>3 DEF IInv, InstancesOK
<1>b. \A x \in Object : life'[x] = "alive" => life[x] = "alive"
  BY <1>2, <1>3 DEF IInv, InstancesOK
<1>5. InstancesOK' /\ KeysInv' /\ CallersOK' /\ LockInv'
  BY <1>3 DEF IInv, InstancesOK, KeysInv, CallersOK, LockInv, callers, history
<1>a. UNCHANGED <<table, pc, op, todo, work, outcome, taken, told, replaced>>
  BY <1>3 DEF callers, history
<1>6. NoOrphan'
  BY <1>a, <1>b DEF IInv, NoOrphan
<1>7. CallerInv'
  <2> SUFFICES ASSUME NEW t \in Caller
               PROVE  Position(t)' /\ InHand(t)' /\ Visits(t)' /\ Stopping(t)'
    BY DEF CallerInv
  <2>1. Position(t) /\ InHand(t) /\ Visits(t) /\ Stopping(t) /\ taken[t] \subseteq Object
    BY Holding
  <2>2. Position(t)' /\ InHand(t)' /\ Visits(t)'
    BY <1>a, <2>1 DEF Position, InHand, Visits, Instances
  <2>3. Stopping(t)'
    BY <1>4, <1>a, <2>1 DEF Stopping
  <2> QED
    BY <2>2, <2>3
<1> QED
  BY <1>5, <1>6, <1>7 DEF IInv

-----------------------------------------------------------------------------

\* Every step of the core, and the stutter, keeps the invariant.
LEMMA NextInv == IInv /\ [Next]_vars => IInv'
<1> SUFFICES ASSUME IInv, [Next]_vars
             PROVE  IInv'
  OBVIOUS
<1>1. ASSUME NEW a \in Admin, Call(a)
      PROVE  IInv'
  BY <1>1, CallStep
<1>2. ASSUME NEW p \in Page, Look(p)
      PROVE  IInv'
  BY <1>2, LookStep
<1>3. ASSUME NEW t \in Caller, Step(t)
      PROVE  IInv'
  <2>1. CASE Aside(t)
    BY <2>1, TakeStep, LeavingSteps, ProceedingSteps, WaitingSteps DEF Aside
  <2> QED
    BY <1>3, <2>1, MakeStep, StartStep, ChooseStep, FinalizeStep, GiveUpStep DEF Step
<1>4. ASSUME NEW o \in Object, Begin(o) \/ GoDown(o) \/ FinalizeItself(o) \/ End(o)
      PROVE  IInv'
  BY <1>4, InstanceStep
<1>5. CASE UNCHANGED vars
  BY <1>5 DEF vars, instances, callers, history, IInv, InstancesOK, CallersOK, LockInv, KeysInv,
              CallerInv, Position, InHand, Visits, Stopping, Instances, NoOrphan
<1> QED
  BY <1>1, <1>2, <1>3, <1>4, <1>5 DEF Next

\* The invariant holds in every state the core reaches.
LEMMA Invariance == Spec => []IInv
  BY InitInv, NextInv, PTL DEF Spec

\* The variables keep their types; the loop counter stays below its limit
\* (server_core.py:129-133).
THEOREM TypeCorrect == Spec => []TypeOK
<1>1. IInv => TypeOK
  <2>1. Seq(Name) \cup Seq(Object) \subseteq Seq(Name \cup Object)
    BY SeqMonotonic
  <2> QED
    BY <2>1 DEF IInv, InstancesOK, CallersOK, LockInv, KeysInv, TypeOK
<1> QED
  BY <1>1, Invariance, PTL

\* A stop that reports success has stopped everything it took from the table, whoever
\* else calls meanwhile (server_core.py:117-141).
THEOREM SuccessIsHonest == Spec => []StopHonest
<1>1. IInv => StopHonest
  BY Callers DEF IInv, CallerInv, Stopping, StopHonest
<1> QED
  BY <1>1, Invariance, PTL

\* A stop never looks up an instance that is gone: nobody else takes instances from
\* the table while it goes through its list (server_core.py:66-68).
THEOREM LookupSucceeds == Spec => []StopNeverRaises
<1>1. IInv => StopNeverRaises
  BY Callers DEF IInv, CallerInv, Stopping, StopNeverRaises
<1> QED
  BY <1>1, Invariance, PTL

\* A live thread is in the table, in the hands of a stop, or accounted for by what a
\* stop has returned or init has replaced (server_core.py:64-71, 117-128).
THEOREM NothingOrphaned == Spec => []NoOrphan
<1>1. IInv => NoOrphan
  BY DEF IInv
<1> QED
  BY <1>1, Invariance, PTL

-----------------------------------------------------------------------------
(* What the core does with an instance is what ServiceLife allows.            *)

Made(S) == \A o \in S : life[o] # "absent"

\* finalize is the one call that would take an instance that was never made, so what
\* a stop is about to finalize was: it comes from the table, where init puts nothing
\* before its constructor is done.
MadeInv ==
  /\ Made(Instances \ {None})
  /\ \A t \in Caller : Made(ToSet(work[t]))
  /\ \A t \in Caller : pc[t] = "finalize" => Made(ToSet(todo[t]))

LEMMA InitMade == Init => MadeInv
<1> SUFFICES ASSUME Init
             PROVE  MadeInv
  OBVIOUS
<1>1. PICK failed \in SUBSET Name :
        /\ table = [n \in Name |-> IF n \in failed THEN None ELSE <<n, 1>>]
        /\ life = [o \in Object |-> IF o = table[o[1]] THEN "made" ELSE "absent"]
  BY DEF Init
<1>2. ASSUME NEW n \in Name, table[n] # None
      PROVE  life[table[n]] = "made"
  <2>1. table[n] = <<n, 1>> /\ <<n, 1>> \in Object /\ <<n, 1>>[1] = n
    BY <1>1, <1>2, ServerCoreAssumption DEF Object
  <2> QED
    BY <1>1, <2>1
<1>3. Made(Instances \ {None})
  BY <1>2 DEF Made, Instances
<1>4. ASSUME NEW t \in Caller
      PROVE  Made(ToSet(work[t])) /\ pc[t] # "finalize"
  BY <1>4 DEF Init, Made, ToSet
<1> QED
  BY <1>3, <1>4 DEF MadeInv

\* A step of t leaves the other callers what they have in hand, and unmakes nothing.
LEMMA MadeKept ==
  ASSUME IInv, MadeInv, NEW t \in Caller,
         \A u \in Caller \ {t} : pc'[u] = pc[u] /\ todo'[u] = todo[u] /\ work'[u] = work[u],
         \A o \in Object : life[o] # "absent" => life'[o] # "absent",
         Made(Instances \ {None})', Made(ToSet(work[t]))',
         pc'[t] = "finalize" => Made(ToSet(todo[t]))'
  PROVE  MadeInv'
<1>1. ASSUME NEW u \in Caller \ {t}
      PROVE  Made(ToSet(work[u]))' /\ (pc'[u] = "finalize" => Made(ToSet(todo[u]))')
  <2>1. ToSet(work[u]) \subseteq Object
    BY Holding, ToSetProperties
  <2>2. pc[u] = "finalize" => ToSet(todo[u]) \subseteq Object
    BY Holding, ToSetProperties DEF InHand
  <2> QED
    BY <1>1, <2>1, <2>2 DEF MadeInv, Made
<1> QED
  BY <1>1 DEF MadeInv

\* The steps of a call that change no instance.
LEMMA AsideMade ==
  ASSUME IInv, MadeInv, NEW t \in Caller, Aside(t)
  PROVE  MadeInv'
<1>a. table' = table /\ life' = life
  BY DEF Aside, instances
<1>b. Made(ToSet(work[t])) /\ Made(Instances \ {None})'
  BY <1>a DEF MadeInv, Made, Instances
<1>c. Made({}) /\ ToSet(<<>>) = {}
  BY Holding DEF Made
<1>1. ASSUME NEW how, Leave(t, how)
      PROVE  MadeInv'
  <2>1. /\ pc'[t] = "idle" /\ work'[t] = <<>>
        /\ \A u \in Caller \ {t} : pc'[u] = pc[u] /\ todo'[u] = todo[u] /\ work'[u] = work[u]
    BY <1>1 DEF Leave, Goto, Visit, IInv, CallersOK
  <2>2. Made(ToSet(work[t]))'
    BY <1>a, <1>c, <2>1 DEF Made
  <2> QED
    BY <1>a, <1>b, <2>1, <2>2, MadeKept
<1>2. ASSUME NEW label, NEW s, Goto(t, label), Visit(t, s), work' = work,
             label = "finalize" => Made(ToSet(s))
      PROVE  MadeInv'
  <2>1. /\ pc'[t] = label /\ todo'[t] = s
        /\ \A u \in Caller \ {t} : pc'[u] = pc[u] /\ todo'[u] = todo[u] /\ work'[u] = work[u]
    BY <1>2 DEF Goto, Visit, IInv, CallersOK
  <2>2. Made(ToSet(work[t]))' /\ (pc'[t] = "finalize" => Made(ToSet(todo[t]))')
    BY <1>a, <1>b, <1>2, <2>1 DEF Made
  <2> QED
    BY <1>a, <1>b, <2>1, <2>2, MadeKept
<1>3. CASE Refuse(t) \/ NestedRefused(t) \/ Complete(t) \/ StartRaises(t) \/ LookupRaises(t)
           \/ AllStopped(t)
  BY <1>1, <1>3 DEF Refuse, NestedRefused, Complete, StartRaises, LookupRaises, AllStopped
<1>4. CASE Pass(t) \/ MakeFails(t)
  BY <1>2, <1>4 DEF Pass, MakeFails, Proceed
<1>5. CASE PassOver(t)
  <2>1. Goto(t, pc[t]) /\ Visit(t, Tail(todo[t])) /\ work' = work /\ pc[t] # "finalize"
    BY <1>5 DEF PassOver, Proceed
  <2> QED
    BY <1>2, <2>1
<1>6. CASE BeginFinalizing(t)
  BY <1>b, <1>2, <1>6 DEF BeginFinalizing, Proceed
<1>7. CASE NextRound(t)
  BY <1>2, <1>7 DEF NextRound
<1>8. CASE Take(t)
  <2>1. op[t] \in {"init", "start", "stop", "restart"}
    BY <1>8, Holding DEF Take, IInv, CallersOK, Position
  <2>2. FirstStep(op[t]).label # "finalize"
    BY <1>8, <2>1, FirstStepProperties DEF Take
  <2>3. Goto(t, FirstStep(op[t]).label) /\ Visit(t, FirstStep(op[t]).visit) /\ work' = work
    BY <1>8 DEF Take
  <2> QED
    BY <1>2, <2>2, <2>3
<1>9. CASE JoinOne(t)
  <2> DEFINE o == Head(todo[t])
             left == IF life[o] = "ended" THEN RemoveFirst(work[t], o) ELSE work[t]
  <2>1. work' = [work EXCEPT ![t] = left]
    BY <1>9 DEF JoinOne, IInv, CallersOK
  <2>2. ToSet(left) \subseteq ToSet(work[t])
    BY Holding, RemoveFirstProperties
  <2> HIDE DEF left
  <2>3. /\ pc'[t] = "join" /\ work'[t] = left
        /\ \A u \in Caller \ {t} : pc'[u] = pc[u] /\ todo'[u] = todo[u] /\ work'[u] = work[u]
    BY <1>9, <2>1 DEF JoinOne, Visit, IInv, CallersOK
  <2>4. Made(ToSet(work[t]))'
    BY <1>a, <1>b, <2>2, <2>3 DEF Made
  <2> QED
    BY <1>a, <1>b, <2>3, <2>4, MadeKept
<1> QED
  BY <1>3, <1>4, <1>5, <1>6, <1>7, <1>8, <1>9 DEF Aside

\* init.
LEMMA MakeMade ==
  ASSUME IInv, MadeInv, NEW t \in Caller, Make(t)
  PROVE  MadeInv' /\ \A o \in Object : [Service(o)!Next]_<<life[o], state[o]>>
<1>1. PICK x \in Object :
        /\ life[x] = "absent" /\ life' = [life EXCEPT ![x] = "made"]
        /\ table' = [table EXCEPT ![Head(todo[t])] = x]
  BY DEF Make, Fresh
<1>2. life'[x] = "made" /\ \A o \in Object : life[o] # "absent" => life'[o] # "absent"
  BY <1>1 DEF IInv, InstancesOK
<1>3. MadeInv'
  <2>1. /\ pc'[t] = "make" /\ work' = work
        /\ \A u \in Caller \ {t} : pc'[u] = pc[u] /\ todo'[u] = todo[u] /\ work'[u] = work[u]
    BY DEF Make, Proceed, Goto, Visit, IInv, CallersOK
  <2>2. Made(Instances \ {None})'
    <3>1. ASSUME NEW n \in Name, table'[n] # None
          PROVE  life'[table'[n]] # "absent"
      <4>1. table'[n] = x \/ (table'[n] = table[n] /\ table[n] \in Object)
        BY <1>1, <3>1 DEF IInv, InstancesOK
      <4>2. table[n] \in Object => life[table[n]] # "absent"
        BY Callers DEF MadeInv, Made, Instances
      <4> QED
        BY <1>2, <4>1, <4>2
    <3> QED
      BY <3>1 DEF Made, Instances
  <2>3. Made(ToSet(work[t]))'
    <3>1. ToSet(work[t]) \subseteq Object
      BY Holding, ToSetProperties
    <3> QED
      BY <1>2, <2>1, <3>1 DEF MadeInv, Made
  <2> QED
    BY <1>2, <2>1, <2>2, <2>3, MadeKept
<1>4. ASSUME NEW o \in Object
      PROVE  [Service(o)!Next]_<<life[o], state[o]>>
  <2>1. state' = state
    BY DEF Make
  <2>2. CASE o = x
    BY <1>1, <1>2, <2>1, <2>2 DEF Service!Next, Service!Make
  <2>3. CASE o # x
    BY <1>1, <2>1, <2>3 DEF IInv, InstancesOK
  <2> QED
    BY <2>2, <2>3
<1> QED
  BY <1>3, <1>4

\* start.
LEMMA StartMade ==
  ASSUME IInv, MadeInv, NEW t \in Caller, StartOne(t)
  PROVE  MadeInv' /\ \A o \in Object : [Service(o)!Next]_<<life[o], state[o]>>
<1> DEFINE x == Head(todo[t])
<1>1. /\ life' = [life EXCEPT ![x] = "alive"] /\ life[x] \in {"made", "alive"}
      /\ UNCHANGED <<table, state>>
  BY DEF StartOne, Skipped
<1>2. \A o \in Object : life[o] # "absent" => life'[o] # "absent"
  BY <1>1 DEF IInv, InstancesOK
<1>3. MadeInv'
  <2>1. /\ pc'[t] = "start" /\ work' = work
        /\ \A u \in Caller \ {t} : pc'[u] = pc[u] /\ todo'[u] = todo[u] /\ work'[u] = work[u]
    BY DEF StartOne, Proceed, Goto, Visit, IInv, CallersOK
  <2>2. Instances \ {None} \subseteq Object /\ ToSet(work[t]) \subseteq Object
    BY Holding, ToSetProperties DEF IInv, InstancesOK, Instances
  <2>3. Made(Instances \ {None})' /\ Made(ToSet(work[t]))'
    BY <1>1, <1>2, <2>1, <2>2 DEF MadeInv, Made, Instances
  <2> QED
    BY <1>2, <2>1, <2>3, MadeKept
<1>4. ASSUME NEW o \in Object
      PROVE  [Service(o)!Next]_<<life[o], state[o]>>
  <2>1. CASE o = x
    <3>1. life'[o] = "alive" /\ life[o] \in {"made", "alive"} /\ state'[o] = state[o]
      BY <1>1, <2>1 DEF IInv, InstancesOK
    <3> QED
      BY <3>1 DEF Service!Next, Service!StartThread
  <2>2. CASE o # x
    BY <1>1, <2>2 DEF IInv, InstancesOK
  <2> QED
    BY <2>1, <2>2
<1> QED
  BY <1>3, <1>4

\* A stop takes an instance, which was made, from the table.
LEMMA ChooseMade ==
  ASSUME IInv, MadeInv, NEW t \in Caller, ChooseOne(t)
  PROVE  MadeInv'
<1> DEFINE n == Head(todo[t])
           x == table[n]
<1>1. /\ x # None /\ work' = [work EXCEPT ![t] = Append(work[t], x)]
      /\ table' = IF n = Tox THEN table ELSE [table EXCEPT ![n] = None]
      /\ life' = life
  BY DEF ChooseOne
<1>2. n \in Name
  <2>1. todo[t] \in Seq(Name) /\ todo[t] # <<>>
    BY Holding DEF ChooseOne, InHand
  <2> QED
    BY <2>1, TailProperties
<1>3. x \in Object /\ life[x] # "absent"
  BY <1>1, <1>2 DEF IInv, InstancesOK, MadeInv, Made, Instances
<1> HIDE DEF n, x
<1>4. /\ pc'[t] = "choose" /\ work'[t] = Append(work[t], x)
      /\ \A u \in Caller \ {t} : pc'[u] = pc[u] /\ todo'[u] = todo[u] /\ work'[u] = work[u]
  BY <1>1 DEF ChooseOne, Visit, IInv, CallersOK
<1>5. Made(ToSet(work[t]))'
  <2>1. ToSet(Append(work[t], x)) = ToSet(work[t]) \cup {x}
    BY <1>3, Holding, AppendedProperties
  <2> QED
    BY <1>1, <1>3, <1>4, <2>1 DEF MadeInv, Made
<1>6. Made(Instances \ {None})'
  <2>1. \A m \in Name : table'[m] = table[m] \/ table'[m] = None
    BY <1>1 DEF IInv, InstancesOK
  <2> QED
    BY <1>1, <2>1 DEF MadeInv, Made, Instances
<1> QED
  BY <1>1, <1>4, <1>5, <1>6, MadeKept

\* A stop has a thread finalized.
LEMMA FinalizeMade ==
  ASSUME IInv, MadeInv, NEW t \in Caller, FinalizeOne(t)
  PROVE  MadeInv' /\ \A o \in Object : [Service(o)!Next]_<<life[o], state[o]>>
<1> DEFINE x == Head(todo[t])
<1>1. /\ pc[t] = "finalize" /\ todo[t] \in Seq(Object) /\ todo[t] # <<>>
      /\ state' = [state EXCEPT ![x] = "FINALIZED"] /\ UNCHANGED <<table, life>>
  BY Holding DEF FinalizeOne, InHand
<1>2. /\ life[x] # "absent" /\ ToSet(Tail(todo[t])) \subseteq ToSet(todo[t])
  BY <1>1, TailProperties DEF MadeInv, Made
<1>3. MadeInv'
  <2>1. /\ pc'[t] = "finalize" /\ todo'[t] = Tail(todo[t]) /\ work' = work
        /\ \A u \in Caller \ {t} : pc'[u] = pc[u] /\ todo'[u] = todo[u] /\ work'[u] = work[u]
    BY DEF FinalizeOne, Proceed, Goto, Visit, IInv, CallersOK
  <2>2. Made(Instances \ {None})' /\ Made(ToSet(work[t]))' /\ Made(ToSet(todo[t]))'
    BY <1>1, <1>2, <2>1 DEF MadeInv, Made, Instances
  <2> QED
    BY <1>1, <2>1, <2>2, MadeKept
<1>4. ASSUME NEW o \in Object
      PROVE  [Service(o)!Next]_<<life[o], state[o]>>
  <2>1. CASE o = x
    <3>1. life[o] # "absent" /\ state'[o] = "FINALIZED" /\ life'[o] = life[o]
      BY <1>1, <1>2, <2>1 DEF IInv, InstancesOK
    <3> QED
      BY <3>1 DEF Service!Next, Service!Finalize
  <2>2. CASE o # x
    BY <1>1, <2>2 DEF IInv, InstancesOK
  <2> QED
    BY <2>1, <2>2
<1> QED
  BY <1>3, <1>4

\* An instance begins, goes down, finalizes itself or ends.
LEMMA ByItself ==
  ASSUME IInv, MadeInv, NEW x \in Object, Begin(x) \/ GoDown(x) \/ FinalizeItself(x) \/ End(x)
  PROVE  MadeInv' /\ \A o \in Object : [Service(o)!Next]_<<life[o], state[o]>>
<1>1. /\ life[x] = "alive" /\ UNCHANGED <<table, pc, todo, work>>
      /\ \A o \in Object \ {x} : life'[o] = life[o] /\ state'[o] = state[o]
  BY DEF Begin, GoDown, FinalizeItself, End, Become, callers, IInv, InstancesOK
<1>2. life'[x] # "absent"
  BY DEF Begin, GoDown, FinalizeItself, End, Become, IInv, InstancesOK
<1>3. MadeInv'
  <2>1. \A o \in Object : life[o] # "absent" => life'[o] # "absent"
    BY <1>1, <1>2
  <2>2. Instances \ {None} \subseteq Object
    BY DEF IInv, InstancesOK, Instances
  <2>3. Made(Instances \ {None})'
    BY <1>1, <2>1, <2>2 DEF MadeInv, Made, Instances
  <2>4. ASSUME NEW S \in SUBSET Object, Made(S)
        PROVE  \A o \in S : life'[o] # "absent"
    BY <2>1, <2>4 DEF Made
  <2>5. ASSUME NEW u \in Caller
        PROVE  Made(ToSet(work[u]))' /\ (pc'[u] = "finalize" => Made(ToSet(todo[u]))')
    <3>1. ToSet(work[u]) \subseteq Object /\ Made(ToSet(work[u]))
      BY Holding, ToSetProperties DEF MadeInv
    <3>2. pc[u] = "finalize" => ToSet(todo[u]) \subseteq Object /\ Made(ToSet(todo[u]))
      BY Holding, ToSetProperties DEF MadeInv, InHand
    <3>3. \A o \in ToSet(work[u]) : life'[o] # "absent"
      BY <2>4, <3>1
    <3>4. pc[u] = "finalize" => \A o \in ToSet(todo[u]) : life'[o] # "absent"
      BY <2>4, <3>2
    <3> QED
      BY <1>1, <3>3, <3>4 DEF Made
  <2> QED
    BY <2>3, <2>5 DEF MadeInv
<1>4. [Service(x)!Next]_<<life[x], state[x]>>
  <2>1. CASE Begin(x)
    BY <2>1 DEF Begin, Become, IInv, InstancesOK, Service!Next, Service!Begin
  <2>2. CASE GoDown(x)
    BY <2>2 DEF GoDown, Become, IInv, InstancesOK, Service!Next, Service!GoDown
  <2>3. CASE FinalizeItself(x)
    BY <2>3 DEF FinalizeItself, Become, IInv, InstancesOK, Service!Next, Service!Finalize
  <2>4. CASE End(x)
    BY <2>4 DEF End, Become, IInv, InstancesOK, Service!Next, Service!End
  <2> QED
    BY <2>1, <2>2, <2>3, <2>4
<1>5. ASSUME NEW o \in Object
      PROVE  [Service(o)!Next]_<<life[o], state[o]>>
  BY <1>1, <1>4
<1> QED
  BY <1>3, <1>5

\* Calls that begin or give up, and the stutter, leave the instances alone.
LEMMA OtherMade ==
  ASSUME IInv, MadeInv, NEW t \in Caller, Call(t) \/ Look(t) \/ GiveUp(t)
  PROVE  MadeInv' /\ UNCHANGED <<life, state>>
<1>1. /\ UNCHANGED <<table, life, state>> /\ pc'[t] # "finalize"
      /\ work'[t] = work[t] \/ work'[t] = <<>>
      /\ \A u \in Caller \ {t} : pc'[u] = pc[u] /\ todo'[u] = todo[u] /\ work'[u] = work[u]
  BY DEF Call, Look, GiveUp, Leave, Goto, Visit, instances, IInv, CallersOK
<1>2. Made(Instances \ {None})' /\ Made(ToSet(work[t]))'
  BY <1>1, Holding DEF MadeInv, Made, Instances
<1> QED
  BY <1>1, <1>2, MadeKept

\* Whatever calls overlap, the core makes each of its instances once, starts it once,
\* and finalizes it only when it is there (server_core.py:64-71, 75-97, 117-128).
THEOREM InstancesObey == Spec => InstancesComply
<1>1. Init => \A o \in Object : Service(o)!Init
  BY DEF Init, Service!Init
<1>2. IInv /\ MadeInv /\ [Next]_vars =>
        MadeInv' /\ [\A o \in Object : [Service(o)!Next]_<<life[o], state[o]>>]_vars
  <2> SUFFICES ASSUME IInv, MadeInv, [Next]_vars
               PROVE  MadeInv' /\ \A o \in Object : [Service(o)!Next]_<<life[o], state[o]>>
    OBVIOUS
  <2>1. ASSUME NEW t \in Caller, Call(t) \/ Look(t)
        PROVE  MadeInv' /\ UNCHANGED <<life, state>>
    BY <2>1, OtherMade
  <2>2. ASSUME NEW t \in Caller, Step(t)
        PROVE  MadeInv' /\ \A o \in Object : [Service(o)!Next]_<<life[o], state[o]>>
    <3>1. CASE Aside(t)
      <4>1. UNCHANGED <<life, state>>
        BY <3>1 DEF Aside, instances
      <4> QED
        BY <3>1, <4>1, AsideMade
    <3>2. CASE Make(t) \/ StartOne(t) \/ FinalizeOne(t)
      BY <3>2, MakeMade, StartMade, FinalizeMade
    <3>3. CASE ChooseOne(t)
      <4>1. UNCHANGED <<life, state>>
        BY <3>3 DEF ChooseOne
      <4> QED
        BY <3>3, <4>1, ChooseMade
    <3>4. CASE GiveUp(t)
      <4>1. MadeInv' /\ UNCHANGED <<life, state>>
        BY <3>4, OtherMade
      <4> QED
        BY <4>1
    <3> QED
      BY <2>2, <3>1, <3>2, <3>3, <3>4 DEF Step
  <2>3. ASSUME NEW x \in Object, Begin(x) \/ GoDown(x) \/ FinalizeItself(x) \/ End(x)
        PROVE  MadeInv' /\ \A o \in Object : [Service(o)!Next]_<<life[o], state[o]>>
    BY <2>3, ByItself
  <2>4. CASE UNCHANGED vars
    <3>1. UNCHANGED <<table, life, state, pc, todo, work>>
      BY <2>4 DEF vars, instances, callers
    <3>2. MadeInv'
      BY <3>1 DEF MadeInv, Made, Instances
    <3> QED
      BY <3>1, <3>2
  <2>5. Admin \subseteq Caller /\ Page \subseteq Caller
    BY Callers
  <2> QED
    BY <2>1, <2>2, <2>3, <2>4, <2>5 DEF Next
<1> QED
  BY <1>1, <1>2, InitMade, Invariance, PTL DEF Spec, InstancesComply
=============================================================================
