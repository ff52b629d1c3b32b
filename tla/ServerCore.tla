----------------------------- MODULE ServerCore -----------------------------
(* ServerCore of src/core/server_core.py: the table of service instances and  *)
(* the calls that make, start, stop and restart them.  Any thread may call;   *)
(* core_mutex is a reentrant lock that a call first tests and then takes      *)
(* (with_mutex with wait=False).  The status page reads the table without it. *)
(* An instance is reduced to what the core looks at: whether its thread is    *)
(* alive, and its state as far as is_finalizable tells states apart.          *)
EXTENDS Integers, Sequences, SequencesExt

CONSTANTS Admin,            \* threads that call into the core
          Page,             \* threads that serve the status page
          Tox,              \* the name of the Tox instance
          Nodes,            \* the names of the Meshtastic nodes, as configured
          None,             \* no instance, no thread
          FinalizeReturns,  \* FALSE in the code: finalize takes its mutex twice
          MaxIterations,    \* max_iterations_count
          MaxMade,          \* bound on the instances made under one name
          MaxCalls,         \* bound on the calls
          Ops               \* the calls the admins make

Name == {Tox} \cup ToSet(Nodes)
Object == Name \X (1..MaxMade)
Caller == Admin \cup Page

ASSUME ServerCoreAssumption ==
  /\ Admin \cap Page = {} /\ None \notin Caller \cup Object
  /\ Nodes \in Seq(ToSet(Nodes)) /\ Tox \notin ToSet(Nodes) /\ IsInjective(Nodes)
  /\ FinalizeReturns \in BOOLEAN
  /\ MaxIterations \in Nat \ {0} /\ MaxMade \in Nat \ {0} /\ MaxCalls \in Nat
  /\ Ops \subseteq {"init", "start", "stop", "restart"}

VARIABLES
  table,    \* tox_instance and meshtastic_instances
  keys,     \* the names in meshtastic_instances, in insertion order
  life,     \* absent, made, alive or ended: the thread of an object
  state,    \* its ThreadState; FINALIZING counts as FINALIZED
  owner,    \* the thread that holds core_mutex, or None
  pc, op,   \* where each caller is, and what it called
  todo,     \* the names or objects its loop has yet to visit
  work,     \* working_threads
  loop,     \* loop_counter
  outcome,  \* how its last call ended
  calls,    \* how many calls were made
  taken,    \* history: what its last stop took from the table
  told,     \* history: what a stop has returned as not stopped
  replaced  \* history: what init has replaced in the table

instances == <<table, keys, life, state>>
callers == <<owner, pc, op, todo, work, loop, outcome, calls>>
history == <<taken, told, replaced>>
vars == <<instances, callers, history>>

Finalizable(o) == state[o] \in {"READY", "RUNNING"}
Started(o) == life[o] \in {"alive", "ended"}

Goto(t, label) == pc' = [pc EXCEPT ![t] = label]
Visit(t, s) == todo' = [todo EXCEPT ![t] = s]

\* The call of t is over; it returns, raises, or hands back what is not stopped.
Leave(t, how) ==
  /\ outcome' = [outcome EXCEPT ![t] = how]
  /\ owner' = IF owner = t THEN None ELSE owner
  /\ Goto(t, "idle")
  /\ Visit(t, <<>>)
  /\ work' = [work EXCEPT ![t] = <<>>]
  /\ loop' = [loop EXCEPT ![t] = 0]
  /\ UNCHANGED <<op, calls>>

\* t goes on at label, with s to visit.
Proceed(t, label, s) ==
  /\ Goto(t, label)
  /\ Visit(t, s)
  /\ UNCHANGED <<owner, op, work, loop, outcome, calls>>

\* s has its nodes in the order of the configuration.
InOrder(s) ==
  \A i, j \in DOMAIN s : i < j =>
    \E k, l \in DOMAIN Nodes : k < l /\ s[i] = Nodes[k] /\ s[j] = Nodes[l]

\* The constructor of ServerCore has called init_core_threads, in which some
\* constructors may have raised.
Init ==
  /\ \E failed \in SUBSET Name, size \in 0..Len(Nodes) :
       /\ table = [n \in Name |-> IF n \in failed THEN None ELSE <<n, 1>>]
       /\ keys \in [1..size -> ToSet(Nodes)]
       /\ InOrder(keys) /\ ToSet(keys) = ToSet(Nodes) \ failed
       /\ life = [o \in Object |-> IF o = table[o[1]] THEN "made" ELSE "absent"]
  /\ state = [o \in Object |-> "READY"]
  /\ owner = None
  /\ pc = [t \in Caller |-> "idle"] /\ op = [t \in Caller |-> "none"]
  /\ todo = [t \in Caller |-> <<>>] /\ work = [t \in Caller |-> <<>>]
  /\ loop = [t \in Caller |-> 0] /\ outcome = [t \in Caller |-> "none"]
  /\ calls = 0
  /\ taken = [t \in Caller |-> {}] /\ told = {} /\ replaced = {}

-----------------------------------------------------------------------------
(* with_mutex: a locked mutex is refused, a free one is taken afterwards.     *)

Call(a) ==
  /\ pc[a] = "idle"
  /\ calls < MaxCalls /\ calls' = calls + 1
  /\ \E o \in Ops : op' = [op EXCEPT ![a] = o]
  /\ outcome' = [outcome EXCEPT ![a] = "none"]
  /\ taken' = [taken EXCEPT ![a] = {}]
  /\ Goto(a, "test")
  /\ UNCHANGED <<instances, owner, todo, work, loop, told, replaced>>

Refuse(a) ==
  /\ pc[a] = "test"
  /\ owner # None
  /\ Leave(a, "refused")

Pass(a) ==
  /\ pc[a] = "test"
  /\ owner = None
  /\ Proceed(a, "take", <<>>)

\* The Tox instance comes first in every loop.
Everyone == (IF table[Tox] = None THEN <<>> ELSE <<Tox>>) \o keys

FirstStep(call) ==
  CASE call = "init"    -> [label |-> "make",   visit |-> <<Tox>> \o Nodes]
    [] call = "start"   -> [label |-> "start",  visit |-> [i \in DOMAIN Everyone |-> table[Everyone[i]]]]
    [] call = "stop"    -> [label |-> "choose", visit |-> Everyone]
    [] call = "restart" -> [label |-> "nested", visit |-> <<>>]

\* Slip: the mutex is tested but not taken.
TakeNothing(a) ==
  /\ pc[a] = "take"
  /\ LET first == FirstStep(op[a]) IN Proceed(a, first.label, first.visit)

Take(a) ==
  /\ pc[a] = "take"
  /\ owner = None
  /\ owner' = a
  /\ LET first == FirstStep(op[a]) IN Goto(a, first.label) /\ Visit(a, first.visit)
  /\ UNCHANGED <<op, work, loop, outcome, calls>>

\* restart calls stop_core_threads, which finds the mutex of its own thread locked.
NestedRefused(a) ==
  /\ pc[a] = "nested"
  /\ Leave(a, "raised")

\* The loop of a call has visited everyone, and nothing is left to do after it.
Complete(a) ==
  /\ pc[a] \in {"make", "start", "look"} \/ (pc[a] = "choose" /\ work[a] = <<>>)
  /\ todo[a] = <<>>
  /\ Leave(a, "returned")

-----------------------------------------------------------------------------
(* init_core_threads.                                                         *)

Fresh(o) == life[o] = "absent" /\ \A i \in 1..(o[2] - 1) : life[<<o[1], i>>] # "absent"

\* The new object takes the place of the one with its name.
Make(a) ==
  /\ pc[a] = "make" /\ todo[a] # <<>>
  /\ LET n == Head(todo[a]) IN \E o \in Object :
       /\ o[1] = n /\ Fresh(o)
       /\ life' = [life EXCEPT ![o] = "made"]
       /\ table' = [table EXCEPT ![n] = o]
       /\ keys' = IF n = Tox \/ Contains(keys, n) THEN keys ELSE Append(keys, n)
       /\ replaced' = replaced \cup ({table[n]} \ {None})
  /\ Proceed(a, "make", Tail(todo[a]))
  /\ UNCHANGED <<state, taken, told>>

\* The constructor raises, which is logged: the old object, if any, stays.
MakeFails(a) ==
  /\ pc[a] = "make" /\ todo[a] # <<>>
  /\ Proceed(a, "make", Tail(todo[a]))

-----------------------------------------------------------------------------
(* start_core_threads.                                                        *)

Skipped(o) == o[1] = Tox /\ life[o] = "alive"

StartOne(a) ==
  /\ pc[a] = "start" /\ todo[a] # <<>>
  /\ LET o == Head(todo[a]) IN
       /\ ~Skipped(o) => life[o] = "made"
       /\ life' = [life EXCEPT ![o] = "alive"]
  /\ Proceed(a, "start", Tail(todo[a]))
  /\ UNCHANGED <<table, keys, state, history>>

\* Thread.start raises for a thread that was started before.
StartRaises(a) ==
  /\ pc[a] = "start" /\ todo[a] # <<>>
  /\ LET o == Head(todo[a]) IN ~Skipped(o) /\ Started(o)
  /\ Leave(a, "raised")

-----------------------------------------------------------------------------
(* get_working_instances, for stop_core_threads and, without pop, for the     *)
(* status page; the Tox instance is taken by stop_core_threads itself.        *)

Wanted(o) == Finalizable(o) /\ (o[1] = Tox \/ Started(o))

ChooseOne(a) ==
  /\ pc[a] = "choose" /\ todo[a] # <<>>
  /\ LET n == Head(todo[a])
         o == table[n]
     IN /\ o # None /\ Wanted(o)
        /\ work' = [work EXCEPT ![a] = Append(@, o)]
        /\ taken' = [taken EXCEPT ![a] = @ \cup {o}]
        /\ table' = IF n = Tox THEN table ELSE [table EXCEPT ![n] = None]
        /\ keys' = RemoveFirst(keys, n)
  /\ Visit(a, Tail(todo[a]))
  /\ UNCHANGED <<life, state, owner, pc, op, loop, outcome, calls, told, replaced>>

PassOver(t) ==
  /\ pc[t] \in {"choose", "look"} /\ todo[t] # <<>>
  /\ LET o == table[Head(todo[t])] IN o # None /\ (pc[t] = "choose" => ~Wanted(o))
  /\ Proceed(t, pc[t], Tail(todo[t]))

\* The instance is gone: None has no is_finalizable.
LookupRaises(t) ==
  /\ pc[t] \in {"choose", "look"} /\ todo[t] # <<>>
  /\ table[Head(todo[t])] = None
  /\ Leave(t, "raised")

\* main_page starts with a list of the names.
Look(p) ==
  /\ pc[p] = "idle"
  /\ calls < MaxCalls /\ calls' = calls + 1
  /\ Goto(p, "look") /\ Visit(p, keys)
  /\ outcome' = [outcome EXCEPT ![p] = "none"]
  /\ UNCHANGED <<instances, owner, op, work, loop, history>>

-----------------------------------------------------------------------------
(* stop_core_threads, once it has its working threads.                        *)

BeginFinalizing(a) ==
  /\ pc[a] = "choose" /\ todo[a] = <<>> /\ work[a] # <<>>
  /\ Proceed(a, "finalize", work[a])

\* Slip: a stopped instance is made ready to be started again.
FinalizeToReady(a) ==
  /\ pc[a] = "finalize" /\ todo[a] # <<>>
  /\ FinalizeReturns
  /\ state' = [state EXCEPT ![Head(todo[a])] = "READY"]
  /\ Proceed(a, "finalize", Tail(todo[a]))
  /\ UNCHANGED <<table, keys, life, history>>

FinalizeOne(a) ==
  /\ pc[a] = "finalize" /\ todo[a] # <<>>
  /\ FinalizeReturns
  /\ state' = [state EXCEPT ![Head(todo[a])] = "FINALIZED"]
  /\ Proceed(a, "finalize", Tail(todo[a]))
  /\ UNCHANGED <<table, keys, life, history>>

\* Slip: the rounds are not counted.
NextRoundUncounted(a) ==
  /\ pc[a] \in {"finalize", "join"} /\ todo[a] = <<>>
  /\ work[a] # <<>>
  /\ Proceed(a, "join", work[a])

\* The head of the waiting loop, but for its last round.
NextRound(a) ==
  /\ pc[a] \in {"finalize", "join"} /\ todo[a] = <<>>
  /\ work[a] # <<>> /\ loop[a] + 1 # MaxIterations
  /\ loop' = [loop EXCEPT ![a] = @ + 1]
  /\ Goto(a, "join") /\ Visit(a, work[a])
  /\ UNCHANGED <<owner, op, work, outcome, calls>>

\* Slip: the loop is left without returning the list.
GiveUpSilently(a) ==
  /\ pc[a] \in {"finalize", "join"} /\ todo[a] = <<>>
  /\ work[a] # <<>> /\ loop[a] + 1 = MaxIterations
  /\ Leave(a, "told")
  /\ UNCHANGED <<instances, history>>

GiveUp(a) ==
  /\ pc[a] \in {"finalize", "join"} /\ todo[a] = <<>>
  /\ work[a] # <<>> /\ loop[a] + 1 = MaxIterations
  /\ told' = told \cup ToSet(work[a])
  /\ Leave(a, "told")
  /\ UNCHANGED <<instances, taken, replaced>>

AllStopped(a) ==
  /\ pc[a] \in {"finalize", "join"} /\ todo[a] = <<>>
  /\ work[a] = <<>>
  /\ Leave(a, "returned")

\* Slip: join with a timeout is taken for an end.
JoinTrusted(a) ==
  /\ pc[a] = "join" /\ todo[a] # <<>>
  /\ work' = [work EXCEPT ![a] = RemoveFirst(@, Head(todo[a]))]
  /\ Visit(a, Tail(todo[a]))
  /\ UNCHANGED <<owner, pc, op, loop, outcome, calls>>

\* join returns at the end of the thread or after its timeout; it raises, which is
\* ignored, for a thread that was never started.
JoinOne(a) ==
  /\ pc[a] = "join" /\ todo[a] # <<>>
  /\ LET o == Head(todo[a]) IN
       work' = IF life[o] = "ended" THEN [work EXCEPT ![a] = RemoveFirst(@, o)] ELSE work
  /\ Visit(a, Tail(todo[a]))
  /\ UNCHANGED <<owner, pc, op, loop, outcome, calls>>

-----------------------------------------------------------------------------
(* What the instances do by themselves.                                       *)

Become(o, l, s) ==
  /\ life' = [life EXCEPT ![o] = l]
  /\ state' = [state EXCEPT ![o] = s]
  /\ UNCHANGED <<table, keys, callers, history>>

\* run of the base class raises unless the state is READY.
Begin(o) ==
  /\ life[o] = "alive" /\ state[o] = "READY"
  /\ Become(o, "alive", "RUNNING")

\* A failed connection or bootstrap, also over FINALIZED.
GoDown(o) ==
  /\ life[o] = "alive" /\ state[o] \in {"RUNNING", "FINALIZED"}
  /\ Become(o, "alive", "DOWN")

\* The stop command.
FinalizeItself(o) ==
  /\ FinalizeReturns
  /\ life[o] = "alive" /\ state[o] = "RUNNING"
  /\ Become(o, "alive", "FINALIZED")

\* run is over; the one of the Tox client does not catch what a command raises.
End(o) ==
  /\ life[o] = "alive"
  /\ state[o] \in {"FINALIZED", "DOWN"} \/ (state[o] = "RUNNING" /\ o[1] = Tox)
  /\ Become(o, "ended", state[o])

-----------------------------------------------------------------------------

\* The steps of a call that change no instance, and those that do.
Aside(t) ==
  /\ \/ Refuse(t) \/ Pass(t) \/ Take(t) \/ NestedRefused(t) \/ Complete(t)
     \/ MakeFails(t) \/ StartRaises(t) \/ PassOver(t) \/ LookupRaises(t)
     \/ BeginFinalizing(t) \/ NextRound(t) \/ JoinOne(t) \/ AllStopped(t)
  /\ UNCHANGED <<instances, history>>

Step(t) ==
  \/ Aside(t)
  \/ Make(t) \/ StartOne(t) \/ ChooseOne(t) \/ FinalizeOne(t) \/ GiveUp(t)

Next ==
  \/ \E a \in Admin : Call(a)
  \/ \E p \in Page : Look(p)
  \/ \E t \in Caller : Step(t)
  \/ \E o \in Object : Begin(o) \/ GoDown(o) \/ FinalizeItself(o) \/ End(o)

Spec == Init /\ [][Next]_vars

\* A caller's thread goes on whenever it can; an instance may hang for ever.
FairSpec == Spec /\ \A a \in Admin : WF_vars(Step(a))

-----------------------------------------------------------------------------
(* Properties.                                                                *)

TypeOK ==
  /\ table \in [Name -> Object \cup {None}]
  /\ keys \in Seq(ToSet(Nodes))
  /\ life \in [Object -> {"absent", "made", "alive", "ended"}]
  /\ state \in [Object -> {"READY", "RUNNING", "FINALIZED", "DOWN"}]
  /\ owner \in Admin \cup {None}
  /\ \A t \in Caller : todo[t] \in Seq(Name \cup Object) /\ work[t] \in Seq(Object)
  /\ loop \in [Caller -> 0..(MaxIterations - 1)]
  /\ outcome \in [Caller -> {"none", "returned", "raised", "refused", "told"}]

\* A stop that ends without a list ("loop was successfully completed") has stopped
\* everything it took: the threads have ended (server_core.py:117-141).
StopHonest ==
  \A a \in Admin : op[a] = "stop" /\ outcome[a] = "returned" =>
    \A o \in taken[a] : life[o] = "ended"

\* A stop never finds an instance gone that it has just listed: get returns None to
\* the status page only (structs.py:53-57, server_core.py:66-68).
StopNeverRaises ==
  \A a \in Admin : op[a] = "stop" => outcome[a] # "raised"

\* No live thread gets out of sight: it is in the table, or a stop is at work on it,
\* or a stop has returned it to its caller, or init has put another in its place
\* (server_core.py:64-71, 117-128).
NoOrphan ==
  \A o \in Object : life[o] = "alive" =>
    \/ o \in {table[n] : n \in Name}
    \/ \E a \in Admin : o \in ToSet(work[a])
    \/ o \in told
    \/ o \in replaced

Service(o) ==
  INSTANCE ServiceLife WITH life <- life[o], state <- state[o],
                            Renewed <- FALSE, DiesRunning <- o[1] = Tox

\* The core does with its instances what ServiceLife allows and no more: whatever calls
\* overlap, each is made once, started once, and finalized only when it is there
\* (server_core.py:64-71, 75-97, 117-128).
InstancesComply ==
  /\ \A o \in Object : Service(o)!Init
  /\ [][\A o \in Object : [Service(o)!Next]_<<life[o], state[o]>>]_vars

\* The loop that waits for the threads ends, and core_mutex comes back, although threads
\* hang or were never started (server_core.py:119-141).  It is not reached before every
\* finalize has returned, which FinalizeReturns supposes.
JoinsEnd == \A a \in Admin : (pc[a] = "join") ~> (owner # a)

\* "All threads was restarted" (server_core.py:149): a restart that is not refused
\* does not raise.
RestartCompletes ==
  \A a \in Admin : ~(op[a] = "restart" /\ outcome[a] = "raised")

\* "Starting all instance waiting threads" (server_core.py:92): when start is over,
\* no instance in the table is still waiting to be started.
StartsAllWaiting ==
  [][\A a \in Admin : pc[a] = "start" /\ pc'[a] = "idle" =>
       \A n \in Name : table[n] # None => life[table[n]] # "made"]_vars

\* "Getting runtime status" (README.md:21): the status page is always answered.
PageAnswers == \A p \in Page : outcome[p] # "raised"
=============================================================================
