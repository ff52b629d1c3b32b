----------------------------- MODULE ToxClient ------------------------------
(* ToxClientThread of src/services/tox.py: the service thread of the Tox      *)
(* client, with the profile file that outlives the process.  A process makes  *)
(* one instance, whose constructor loads the profile or writes a first one;   *)
(* callbacks run inside tox_iterate, hence in the thread itself.  The process *)
(* may die between any two steps and is then started again.  The library, the *)
(* file system and SQLite may fail at any call.                               *)
EXTENDS IOThread, FiniteSets

CONSTANTS Client,         \* threads that queue commands and list the friends
          Stopper,        \* threads in ServerCore.stop_core_threads
          Friend,         \* public keys of other Tox users
          Absent,         \* there is no profile file
          Empty, Torn,    \* a file of size 0, a file written in part
          AcceptInvites,  \* config.accept_invites
          MaxCalls,       \* bound on the calls of the clients
          MaxEvents,      \* bound on the callbacks of one process
          MaxCrashes      \* bound on the crashes

ASSUME ToxAssumption ==
  /\ Caller = Client \cup Stopper /\ Client \cap Stopper = {}
  /\ Absent # Empty /\ Absent # Torn /\ Empty # Torn
  /\ \A file \in SUBSET Friend : file \notin {Absent, Empty, Torn}
  /\ AcceptInvites \in BOOLEAN
  /\ MaxCalls \in Nat /\ MaxEvents \in Nat /\ MaxCrashes \in Nat

VARIABLES
  profile,      \* default.tox: Absent, Empty, Torn, or the friends it holds
  entries,      \* nodes.db: how many ToxInterlocutor rows each friend has
  io,           \* the thread that holds io_mutex, or NoThread
  friends,      \* the friend list of the native instance
  asking,       \* whose friend request is being handled
  batch,        \* the commands of the last get_batch, not handled yet
  listed,       \* the friends each client has read, then those without a row
  calls, events, crashes,
  saved,        \* history: what the last completed save wrote, or Absent
  partial,      \* history: the instance was read from a torn file, and not saved since
  successes,    \* history: send commands answered "Success"
  transmitted,  \* history: messages the library has taken
  untold        \* history: friend requests heard and not yet put on the queue

disk == <<profile, entries>>
native == <<friends, asking>>
bounds == <<calls, events, crashes>>
kept == <<saved, partial>>
sends == <<successes, transmitted>>
vars == <<threadVars, disk, io, native, batch, listed, bounds, kept, sends, untold>>

Loadable == profile \notin {Absent, Empty, Torn}

Init ==
  /\ state = "READY" /\ stop = FALSE /\ mutex = NoThread /\ depth = 0
  /\ input = <<>> /\ output = <<>>
  /\ pc = [t \in Thread |-> IF t = Worker THEN "create" ELSE "idle"]
  /\ profile = Absent /\ entries = [f \in Friend |-> 0]
  /\ io = NoThread /\ friends = {} /\ asking = {} /\ batch = <<>>
  /\ listed = [c \in Client |-> {}]
  /\ calls = 0 /\ events = 0 /\ crashes = 0
  /\ saved = Absent /\ partial = FALSE
  /\ successes = 0 /\ transmitted = 0 /\ untold = 0

\* The process dies and another one begins: only the files are left, and one that
\* was being written may hold a part.
Crash ==
  /\ crashes < MaxCrashes /\ crashes' = crashes + 1
  /\ state' = "READY" /\ stop' = FALSE /\ mutex' = NoThread /\ depth' = 0
  /\ input' = <<>> /\ output' = <<>>
  /\ pc' = [t \in Thread |-> IF t = Worker THEN "create" ELSE "idle"]
  /\ \/ UNCHANGED profile
     \/ pc[Worker] \in {"first_write", "write"} /\ profile' = Torn
  /\ io' = NoThread /\ friends' = {} /\ asking' = {} /\ batch' = <<>>
  /\ listed' = [c \in Client |-> {}]
  /\ events' = 0 /\ untold' = 0 /\ partial' = FALSE
  /\ UNCHANGED <<entries, calls, saved, sends>>

-----------------------------------------------------------------------------
(* The constructor: _create_new_instance.                                    *)

\* Slip: an empty profile file counts as none.
CreateFromKeyOrEmpty ==
  /\ pc[Worker] = "create"
  /\ profile \in {Absent, Empty}
  /\ Goto(Worker, "first_save")
  /\ UNCHANGED <<shared, friends>>

CreateFromKey ==
  /\ pc[Worker] = "create"
  /\ profile = Absent
  /\ Goto(Worker, "first_save")
  /\ UNCHANGED <<shared, friends>>

\* Slip: the type of the saved data is not set, and the library makes a new profile.
CreateFromFileUnread ==
  /\ pc[Worker] = "create"
  /\ Loadable
  /\ friends' = {}
  /\ Goto(Worker, "new")
  /\ UNCHANGED shared

CreateFromFile ==
  /\ pc[Worker] = "create"
  /\ Loadable
  /\ friends' = profile
  /\ Goto(Worker, "new")
  /\ UNCHANGED shared

\* tox_new reports a torn file in its error code and may return an instance all the
\* same, with whatever it could read; only the instance is looked at.
CreateFromTorn ==
  /\ pc[Worker] = "create"
  /\ profile = Torn
  /\ friends' \in SUBSET Friend
  /\ partial' = TRUE
  /\ Goto(Worker, "new")
  /\ UNCHANGED shared

\* An empty file is refused by _load_profile_file: the constructor raises, and the
\* core goes on without a Tox instance.
CreateRefused ==
  /\ pc[Worker] = "create"
  /\ profile = Empty
  /\ Goto(Worker, "broken")
  /\ UNCHANGED <<shared, friends>>

\* tox_options_new or tox_new returns nothing, for a torn file or a reason of its own.
CreateFails ==
  /\ pc[Worker] = "create"
  /\ Goto(Worker, "failed")
  /\ UNCHANGED <<shared, friends>>

-----------------------------------------------------------------------------
(* _save_profile_file, under io_mutex, by the constructor and by a request.   *)

InSave == pc[Worker] \in {"first_save", "save"}
InWrite == pc[Worker] \in {"first_write", "write"}

\* Slip: the handler of a request lets the exception out.
RaisedUncaught == IF pc[Worker] \in {"first_save", "first_write"} THEN "failed" ELSE "iterate"

\* A save that raises ends the constructor; a request's handler swallows it.
Raised == IF pc[Worker] \in {"first_save", "first_write"} THEN "failed" ELSE "tell"

\* The size is 0, or open raises: the file is as it was.
SaveRefused ==
  /\ InSave
  /\ io = NoThread
  /\ Goto(Worker, Raised)
  /\ UNCHANGED <<shared, profile, io, kept>>

\* open(..., "wb") truncates ...
SaveOpen ==
  /\ InSave
  /\ io = NoThread
  /\ io' = Worker
  /\ profile' = Empty
  /\ Goto(Worker, IF pc[Worker] = "save" THEN "write" ELSE "first_write")
  /\ UNCHANGED <<shared, kept>>

\* ... and write may end, or raise half way.
SaveWrite ==
  /\ InWrite
  /\ io' = NoThread
  /\ profile' = friends /\ saved' = friends /\ partial' = FALSE
  /\ Goto(Worker, IF pc[Worker] = "write" THEN "tell" ELSE "new")
  /\ UNCHANGED shared

SaveTorn ==
  /\ InWrite
  /\ io' = NoThread
  /\ profile' \in {Empty, Torn}
  /\ Goto(Worker, Raised)
  /\ UNCHANGED <<shared, kept>>

Construct ==
  \/ /\ \/ CreateFromTorn
        \/ /\ CreateFromKey \/ CreateFromFile \/ CreateRefused \/ CreateFails
           /\ UNCHANGED partial
     /\ UNCHANGED <<disk, io, asking, batch, listed, bounds, saved, sends, untold>>
  \/ /\ SaveRefused \/ SaveOpen \/ SaveWrite \/ SaveTorn
     /\ UNCHANGED <<entries, native, batch, listed, bounds, sends, untold>>

-----------------------------------------------------------------------------
(* The thread's own run.                                                     *)

\* tox_bootstrap, without any mutex.
Bootstrap ==
  /\ pc[Worker] = "boot"
  /\ Goto(Worker, "loop")
  /\ UNCHANGED shared

BootstrapFails ==
  /\ pc[Worker] = "boot"
  /\ state' = "INTERNAL_ERROR_DOWN"
  /\ Goto(Worker, "dead")
  /\ UNCHANGED <<stop, mutex, depth, input, output>>

LoopTest ==
  /\ pc[Worker] = "loop"
  /\ Goto(Worker, IF stop THEN "dead" ELSE "iterate")
  /\ UNCHANGED shared

\* tox_iterate calls back any number of times, ...
IncomingMessage ==
  /\ pc[Worker] = "iterate"
  /\ events < MaxEvents /\ events' = events + 1
  /\ output' = Pushed(output, "incoming", MaxOut)
  /\ UNCHANGED <<state, stop, mutex, depth, input, pc, asking, untold>>

FriendRequest ==
  /\ pc[Worker] = "iterate"
  /\ events < MaxEvents /\ events' = events + 1
  /\ \E f \in Friend : asking' = {f}
  /\ untold' = untold + 1
  /\ Goto(Worker, "request")
  /\ UNCHANGED shared

\* ... and the commands are fetched after it.
BatchSize == 12

Fetch ==
  /\ pc[Worker] = "iterate"
  /\ batch' = Front(input, BatchSize)
  /\ input' = Rest(input, BatchSize)
  /\ Goto(Worker, "handle")
  /\ UNCHANGED <<state, stop, mutex, depth, output>>

\* A command is the set of the friends it is for: one, or nobody for "stop".
StopCommand == {}

Handle ==
  /\ pc[Worker] = "handle"
  /\ \/ batch = <<>> /\ Goto(Worker, "loop")
     \/ batch # <<>> /\ Head(batch) = StopCommand /\ Goto(Worker, "finalize")
  /\ UNCHANGED shared

Run ==
  \/ /\ Start \/ RunReady \/ RunRefused \/ Bootstrap \/ BootstrapFails \/ LoopTest \/ Handle
     /\ UNCHANGED <<disk, io, native, batch, listed, bounds, kept, sends, untold>>
  \/ /\ IncomingMessage \/ FriendRequest
     /\ UNCHANGED <<disk, io, friends, batch, listed, calls, crashes, kept, sends>>
  \/ Fetch /\ UNCHANGED <<disk, io, native, listed, bounds, kept, sends, untold>>

-----------------------------------------------------------------------------
(* _on_friend_request.                                                       *)

\* "not_allowed" by the configuration, or "failed": a friend in the list cannot be
\* added again, and the library may refuse others.
Decline ==
  /\ pc[Worker] = "request"
  /\ Goto(Worker, "tell")
  /\ UNCHANGED <<shared, friends>>

Accept ==
  /\ pc[Worker] = "request"
  /\ AcceptInvites /\ asking \cap friends = {}
  /\ friends' = friends \cup asking
  /\ Goto(Worker, "save")
  /\ UNCHANGED shared

\* One item for each request, whatever became of it.
Tell ==
  /\ pc[Worker] = "tell"
  /\ output' = Pushed(output, "incoming_friend_request", MaxOut)
  /\ asking' = {} /\ untold' = untold - 1
  /\ Goto(Worker, "iterate")
  /\ UNCHANGED <<state, stop, mutex, depth, input, friends>>

HearRequest ==
  \/ /\ Decline \/ Accept
     /\ UNCHANGED <<disk, io, asking, batch, listed, bounds, kept, sends, untold>>
  \/ Tell /\ UNCHANGED <<disk, io, batch, listed, bounds, kept, sends>>

-----------------------------------------------------------------------------
(* _handle_command "send_message" with _send_message.                        *)

\* How the library takes it: the friend is not connected, which leaves _send_message
\* without a result and without an exception; the message is refused, which raises;
\* or it is taken.  The number of a friend that could not be added is connected to
\* nobody.
SendOutcomes(added) == IF added THEN {"offline", "refused", "taken"} ELSE {"offline"}

\* The friend is added first, without a save; then comes the answer.
SendMessage ==
  /\ pc[Worker] = "handle"
  /\ batch # <<>> /\ Head(batch) # StopCommand
  /\ \E new \in SUBSET (Head(batch) \ friends) :
       /\ friends' = friends \cup new
       /\ \E outcome \in SendOutcomes(new # {}) :
            /\ transmitted' = transmitted + (IF outcome = "taken" THEN 1 ELSE 0)
            /\ successes' = successes + (IF outcome = "refused" THEN 0 ELSE 1)
  /\ output' = Pushed(output, "command_status", MaxOut)
  /\ batch' = Tail(batch)
  /\ UNCHANGED <<state, stop, mutex, depth, input, pc, disk, io, asking, listed,
                 bounds, kept, untold>>

-----------------------------------------------------------------------------
(* finalize, under mutex and io_mutex.                                       *)

\* The constructor is at work, or has raised.
Unborn == {"create", "first_save", "first_write", "broken", "failed"}

\* stop_core_threads: the instance is in the handler once its constructor is done.
CallFinalize(s) ==
  /\ pc[s] = "idle"
  /\ IsFinalizable
  /\ pc[Worker] \notin Unborn
  /\ Goto(s, "finalize")
  /\ UNCHANGED <<shared, io, batch>>

FinalizeLock(t) ==
  /\ pc[t] = "finalize"
  /\ Lock(t)
  /\ Goto(t, "io_lock")
  /\ UNCHANGED <<state, stop, input, output, io, batch>>

FinalizeLockIO(t) ==
  /\ pc[t] = "io_lock"
  /\ io = NoThread
  /\ io' = t
  /\ Goto(t, "super")
  /\ UNCHANGED <<shared, batch>>

\* Slip: io_mutex is not given back.
FinalizeUnlockMutex(t) ==
  /\ pc[t] = "finalized"
  /\ Unlock(t)
  /\ batch' = IF t = Worker THEN Tail(batch) ELSE batch
  /\ Goto(t, IF t = Worker THEN "handle" ELSE "gone")
  /\ UNCHANGED <<state, stop, input, output, io>>

FinalizeUnlock(t) ==
  /\ pc[t] = "finalized"
  /\ io' = NoThread
  /\ Unlock(t)
  /\ batch' = IF t = Worker THEN Tail(batch) ELSE batch
  /\ Goto(t, IF t = Worker THEN "handle" ELSE "gone")
  /\ UNCHANGED <<state, stop, input, output>>

Finalize(t) ==
  /\ \/ FinalizeLock(t) \/ FinalizeLockIO(t) \/ FinalizeUnlock(t)
     \/ (BaseStep(t) \/ FinalizeDropInput(t)) /\ UNCHANGED <<io, batch>>
  /\ UNCHANGED <<disk, native, listed, bounds, kept, sends, untold>>

Stopping(s) ==
  \/ CallFinalize(s) /\ UNCHANGED <<disk, native, listed, bounds, kept, sends, untold>>
  \/ Finalize(s)

-----------------------------------------------------------------------------
(* The clients.                                                              *)

\* send_message_command and stop_command.
Command(c) ==
  /\ pc[c] = "idle"
  /\ calls < MaxCalls /\ calls' = calls + 1
  /\ \E command \in {{f} : f \in Friend} \cup {StopCommand} : input' = Pushed(input, command, MaxIn)
  /\ UNCHANGED <<state, stop, mutex, depth, output, pc, entries, listed>>

\* Slip: get_friend_list without the mutex.
ListFriendsUnlocked(c) ==
  /\ pc[c] = "idle"
  /\ calls < MaxCalls /\ calls' = calls + 1
  /\ listed' = [listed EXCEPT ![c] = friends]
  /\ Goto(c, "look_up")
  /\ depth' = depth + 1
  /\ UNCHANGED <<state, stop, mutex, input, output, entries>>

\* get_friend_list, under the mutex, which the thread does not take to add a friend:
\* the size and the list are read in one step here.
ListFriends(c) ==
  /\ pc[c] = "idle"
  /\ calls < MaxCalls /\ calls' = calls + 1
  /\ Lock(c)
  /\ listed' = [listed EXCEPT ![c] = friends]
  /\ Goto(c, "look_up")
  /\ UNCHANGED <<state, stop, input, output, entries>>

\* Friends that have no row yet ...
LookUp(c) ==
  /\ pc[c] = "look_up"
  /\ listed' = [listed EXCEPT ![c] = {f \in @ : entries[f] = 0}]
  /\ Goto(c, "enter")
  /\ UNCHANGED <<shared, entries, calls>>

\* ... get one, until SQLite raises.
Enter(c) ==
  /\ pc[c] = "enter"
  /\ \E done \in SUBSET listed[c] :
       entries' = [f \in Friend |-> entries[f] + (IF f \in done THEN 1 ELSE 0)]
  /\ listed' = [listed EXCEPT ![c] = {}]
  /\ Unlock(c)
  /\ Goto(c, "idle")
  /\ UNCHANGED <<state, stop, input, output, calls>>

Request(c) ==
  /\ Command(c) \/ ListFriends(c) \/ LookUp(c) \/ Enter(c)
  /\ UNCHANGED <<profile, io, native, batch, events, crashes, kept, sends, untold>>

-----------------------------------------------------------------------------
Work == Construct \/ Run \/ HearRequest \/ SendMessage \/ Finalize(Worker)

Next ==
  \/ Crash \/ Work
  \/ \E c \in Client : Request(c)
  \/ \E s \in Stopper : Stopping(s)

Spec == Init /\ [][Next]_vars

\* The scheduler runs every thread that can move.
FairSpec ==
  /\ Spec
  /\ WF_vars(Work)
  /\ \A c \in Client : WF_vars(Request(c) /\ pc[c] # "idle")
  /\ \A s \in Stopper : WF_vars(Finalize(s))

-----------------------------------------------------------------------------
(* Properties.                                                               *)

Labels ==
  {"create", "first_save", "first_write", "broken", "failed", "new", "run", "boot", "loop",
   "iterate", "request", "save", "write", "tell", "handle", "dead", "idle", "look_up",
   "enter", "finalize", "io_lock", "gone"} \cup FinalizeLabels

\* Every variable has its type.
TypeOK ==
  /\ IOTypeOK
  /\ Len(input) <= MaxIn /\ Len(output) <= MaxOut
  /\ pc \in [Thread -> Labels]
  /\ Loadable => profile \subseteq Friend
  /\ saved # Absent => saved \subseteq Friend
  /\ partial \in BOOLEAN
  /\ io \in Thread \cup {NoThread}
  /\ friends \subseteq Friend /\ asking \subseteq Friend
  /\ entries \in [Friend -> Nat] /\ listed \in [Client -> SUBSET Friend]
  /\ events \in 0..MaxEvents /\ crashes \in 0..MaxCrashes

\* A running instance knows every friend of the last save that was completed, over
\* crashes, failed saves and restarts, unless it was read from a torn file: a profile
\* that exists is never silently replaced by a new one (lines 217-237).
FriendsKept ==
  pc[Worker] \notin {"create", "broken", "failed"} /\ saved # Absent /\ ~partial
    => saved \subseteq friends

\* Each friend request that tox_iterate hands over is put on the output queue before
\* the next one, also when the save in between raises (lines 273-281).
RequestsTold ==
  untold = IF pc[Worker] \in {"request", "save", "write", "tell"} THEN 1 ELSE 0

\* No friend gets a second row, whoever lists the friends at the same time: a look-up
\* and the creation that follows are one under the mutex (lines 352-356).
OneRowEach == \A f \in Friend : entries[f] <= 1

\* No save that is completed has fewer friends than the last one that was, whatever
\* crashed, failed or was restarted in between, except the first save of an instance
\* that was read from a torn file (lines 180-190, 217-237).
SavedGrows ==
  [][saved # Absent /\ ~partial => saved' # Absent /\ saved \subseteq saved']_vars

\* The instance is what the core expects of a service: it runs once, never after it was
\* finalized, and ends finalized or down; only a new process makes it anew
\* (core_threading.py:73-78, 110-119, tox.py:283-315).
Service ==
  INSTANCE ServiceLife WITH life <- LifeSeen(Unborn), state <- StateSeen,
                            Renewed <- TRUE, DiesRunning <- FALSE

IsService == Service!Spec

\* After the stop signal the thread ends, whatever it is doing when the signal comes,
\* unless the process dies before (lines 303-315, 417-420).
StopEnds == stop ~> (pc[Worker] = "dead" \/ ~stop)

\* "Load saved profile from file" (README.md): once a profile has been saved, a
\* process that starts is not refused it.
ProfileLoads == saved # Absent => pc[Worker] # "broken"

\* What was saved is known to every instance that runs, a torn file or not: the error
\* code of tox_new is looked at (lines 231-234).
TornNoticed ==
  pc[Worker] \notin {"create", "broken", "failed"} /\ saved # Absent => saved \subseteq friends

\* A command answered "Success" has given its message to the library: the friend who
\* is not online has a status of his own (line 404).
SuccessMeansSent == successes <= transmitted
=============================================================================
