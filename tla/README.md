# Verification of nvlnk_server

TLA+ models of the concurrent core of `nvlnk_server`, the TLC runs that check
them on small instances, and the TLAPS proofs about them. Paths below are
relative to the repository; line numbers are those of the modelled commit.

## The system

The server is a Flask application (`ws_endpoint.py`) in front of a core
(`src/core`) that owns service threads: one Tox client and any number of
Meshtastic radios. Requests run in threads of their own and work directly on the
service objects; each service thread works through a command queue and fills an
output queue that requests drain. A second, independent part turns text and
random data into FSK audio streams (`src/wav`), optionally encrypted
(`src/protocol7`).

| component | state | operations | talks to |
|---|---|---|---|
| concurrent queue, `core/structs.py` | deque with `maxlen`, four counters, a `Lock` | `put`, `put_top`, `get`, `get_batch`, `drop`, `__len__`, `is_empty`, `get_current_metrics` | called by every thread |
| service thread, `core/core_threading.py` | `ThreadState`, stop event, `Lock`, two queues | `run`, `finalize`, `from_another`, metrics | base of the services |
| Meshtastic wire, `services/meshtastic.py` | serial interface, port `Lock`, pending packet ids, SQLite rows | `run`, `_send_message`, `on_receive_message`, `close`, `finalize`, node list | HTTP requests call `_send_message` directly; the radio library calls back in its own threads |
| Tox client, `services/tox.py` | native instance, profile file, two `Lock`s | boot, `run`, friend requests, send, `finalize` | native callbacks run inside `tox_iterate` |
| server core, `core/server_core.py` | table of instances, `RLock` | init, start, stop, restart | starts, finalizes and joins the threads |
| stream storage, `wav/streams_storage.py` | dictionary of streams, cleaner thread | get, add, clear, start, stop | requests, stream generators |
| streaming and FSK, `wav/streaming.py`, `wav/audio.py` | generators, stream status | encode, decode, pad | requests |
| AES framing, `protocol7/cryptography.py` | none | build, split, encrypt, decrypt | streaming |
| endpoint, `ws_endpoint.py`, `core/description.py` | process-wide cache | look up an instance, queue, drain | all of the above |
| private configuration, `core/private_config.py` | one encrypted file | load, save | boot |
| logging, `log/` | none that others read | | |

The commit is in the middle of a rework: the core is put into a
`multiprocessing` cache that cannot pickle it, and a stream's base class cannot
be constructed. The models therefore take the classes at their public methods,
with arbitrary threads as callers, and suppose Python 3.14, where `RLock` has
`locked`.

### What is hard about it

* **Threads.** Requests, service threads, library callbacks and the stopping
  thread share queues, ids, the port and two mutexes per service. Python may
  switch threads between any two statements.
* **Failure.** Every call of a library, of SQLite and of the serial port may
  raise, and several handlers swallow what they catch.
* **Ordering.** Answers of the radio may overtake the bookkeeping of the message
  they answer, or come more than once; an instance may be stopped before, while
  or after it connects.
* **Bounds.** Both queues forget their oldest element when they are full.
* **Crash.** The Tox profile is truncated before it is written.

`PROJECT.json` lists each hazard at its line, with the properties that cover it
or the reason why none does.

### What makes each component correct

* queue: calls are atomic; nothing is duplicated, reordered or lost except by
  eviction; the counters balance; the mutex comes back.
* service thread: a thread that was stopped never runs again; finalize does what its
  docstring says; the core and the services agree on what an instance may be asked to do and when.
* Meshtastic: each message gets one verdict, which is final, none is forgotten; each command is
  answered once; the port is closed when the thread has ended; an answer means
  that something was sent; a reported message is marked in the database. The rows of
  a node are spaced by their delta, and what a request returns has been recorded, or its
  failure logged.
* Tox: a profile that was saved whole is loaded, and never replaced by an empty one; every
  friend request is told; no friend gets two rows; "Success" means sent.
* server core: no live thread is out of sight; stop tells the truth and waits no
  longer than its bound; restart gets back to running instances.
* stream storage: nobody meets a key that has gone; stop leaves no cleaner behind;
  what is over leaves.
* FSK and AES: decoding inverts encoding; splitting inverts building, and nothing
  but a whole frame is accepted.
* endpoint: the addressed node is the one that is named; drained items reach one
  client, the oldest first.

## The modules

| module | what it models |
|---|---|
| `LossyQueue` | what the queue promises: atomic operations on one bounded queue that forgets silently |
| `ConcurrentDequeue` | `FixedTypedConcurrentDequeue` statement by statement, under `with_mutex` |
| `ConcurrentDequeueProofs` | the theorems about it |
| `IOThread` | the life cycle of `IOQueuedThread`: state, stop signal, mutex, queues, `run`, `finalize` |
| `MeshtasticWire` | extends `IOThread` with the radio service and everybody who calls it |
| `ServiceLife` | what the core and a service expect of each other: the life of one instance |
| `MessageFate` | what becomes of one message that a radio was given |
| `ServerCore` | `ServerCore`'s table of instances, and init, start, stop and restart under `core_mutex` |
| `ToxClient` | extends `IOThread` with the Tox client, its profile file, its crashes and its restarts |
| `NodeRecords` | the requests for a radio's node list and the rows they write |
| `StreamsStorage` | the storage of audio streams, the life of a stream, the cleaner thread |
| `FskStream` | a text stream from its bits to the WAV file, and its decoder |
| `AesFraming` | the frame of both AES modes, and what `decrypt` accepts |
| `Endpoint` | the HTTP handlers that look instances up and drain their queues |
| `StreamsStorageProofs`, `ToxClientProofs`, `ServerCoreProofs`, `MeshtasticWireProofs`, `NodeRecordsProofs`, `AesFramingProofs`, `EndpointProofs` | the theorems about the module each is named after |
| `MC...` | the instances of each for TLC: symmetry, and the values that a cfg cannot spell |

Operators whose comment starts with *Slip* are not part of the model. Each is an
action with a plausible mistake in it, to be put in the place of the action that
follows it, and shows that a property would notice.

### ConcurrentDequeue

`deque`, `metric` and `mutex` are the object's fields; `pc`, `op`, `item`,
`max_count` and `local` are the calls in progress. A call goes from `idle` to
`waiting` for the mutex, is `inside`, then `counting`, then `leaving`, and
`get_current_metrics` then goes on `reading` the counters without the mutex.
`get_batch` pops one element per step. `log`, `delivered` and `lost` are history:
what was put, what was handed out, what vanished. A queue element is an
`InternalQueuedItem`, which carries a fresh uuid, so each is put once. `get`
tests the element it pops for truth (line 132); the elements that are false are
the constant `Falsy`.

The refinement maps to `LossyQueue` what a thread waiting for the mutex would
see: `Contents` puts back in front the elements a `get` or `get_batch` in progress
has popped, and is empty once a `drop` has counted; `Accepted` adds a put that is
not counted yet. A `put` takes effect when it appends, a `drop` when it counts, a
`get_batch` when it counts.

### ServiceLife

The life of one instance as the core sees it: absent, made, alive, ended, and its
state as far as `is_finalizable` and `run` tell states apart (`FINALIZING` counts as
`FINALIZED`, both errors as `DOWN`). It is the contract between the parts. `ServerCore`
is shown to ask of each of its instances no more than this (`InstancesComply`, for
every instance), and `MeshtasticWire` and `ToxClient` to be such instances
(`IsService`), so the instances of `ServerCore`'s model stand for the real ones.
`finalize` looks at no state: it may come before the start, twice, or after a failure,
and the contract says so. `Renewed` is true of the Tox client only, whose model includes
crashes of the process. `DiesRunning` is true where the core looks at the Tox client:
`ServerCore` lets its thread die of an exception, `ToxClient` does not, as no command
of this commit raises. What the core supposes is thus the weaker of the two.

### MessageFate

One message of a radio: unsent, sent, pending, and then reported or forgotten.
`FatesKept` says for every packet id that `MeshtasticWire` takes it along this way
and no other, with `FateOf` reading the place from the sets that the threads share.
The default id, which several messages may have, is no message and is left out.

### IOThread and MeshtasticWire

`pc` says where every thread is: the service thread (`Worker`), the HTTP requests
(`Client`), the library's threads (`Listener`) and the thread in
`stop_core_threads` (`Stopper`). Steps are cut where another thread can notice:
`sendText`, `_pending_packet_ids.add` and `create_entry` are three steps under the
port's mutex; a callback reports, removes and marks in three steps under the
thread's mutex; `finalize` is one step per change. `_get_usb_interface` and the
assignment of its result are two, because the port's mutex is free in between.
Queue operations are one step each, which is what `ConcurrentDequeue` proves.
The items of the output queue are reduced to their kind.

The library is modelled from its use: `sendText` raises or returns an id, which
is new or, when the library leaves it out, the default 0 (`Idless`); a callback
brings the answer for a packet we sent, with or without an error, any number of
times, or a text packet of another node, over LoRa or not. `sent` holds the ids that the library
has returned: when `sendText`, or the `get` on its result, raises after the packet has gone
out, no id is known here, the books have nothing to say of that message, and its answer is
one for nobody (`SendFails`). SQLite may refuse a
row. `interface.close()` is supposed not to raise. `send_message_command` and
`stop_command` are modelled as what other threads may call: nothing in the
repository calls them at this commit, while the HTTP endpoint calls
`_send_message` itself.

`sent`, `reported`, `forgotten`, `asked`, `answered` and `discarded` are history.

`Reentrant` is the kind of `_mutex`. The code has a `threading.Lock`, so
`Reentrant = FALSE` is the program. With it `finalize` never gets past its first
step, and nothing behind it can be examined; `wire_stop` supposes a reentrant
mutex to check what stopping would then do.

### ServerCore

`table` and `keys` are `tox_instance` and `meshtastic_instances`; an object is a
name and a number, so that the instance `init_core_threads` makes can be told from
the one it replaces. `life` is whether its thread was made, lives or has ended, and
`state` its `ThreadState` as far as `is_finalizable` tells states apart. The callers
are any threads: each call tests the mutex (`Refuse`, `Pass`), takes it (`Take`), and
walks over the table one instance per step; the same loop serves the status page,
which has no mutex. `stop_core_threads` keeps its working list in `work`, its rounds
in `loop`, and ends by `AllStopped` or `GiveUp`; a round of `join` sees a thread end
or not, as the thread pleases. `taken`, `told` and `replaced` are history.

Instances do what `IOThread` and the services let them: begin, go down, finalize
themselves, end, or hang. `FinalizeReturns = FALSE` is the program: `finalize` blocks
for ever, for the reason `wire_finalize` shows, before it has changed the state. The
passing runs suppose that it returns. What they say of safety holds for the program
as well, whose behaviours are those of the model that stop short of `FinalizeOne`.
`JoinsEnd` is about the loop behind it, which the program does not reach: in the program
a stop that has an instance to finalize keeps `core_mutex` for ever. `Init` is what the constructor leaves, with any of the
instances' constructors having raised.

### ToxClient

`profile` is the file `default.tox`: absent, of size 0, torn, or the set of friends
it holds. A save is `SaveOpen`, which truncates it, and `SaveWrite` or `SaveTorn`;
`SaveRefused` is what raises before the truncation. `Crash` may come between any two
steps and leaves the file and the database; the restart that follows is the same
step, and its constructor runs `CreateFromKey`, `CreateFromFile`, `CreateFromTorn` or
`CreateRefused` on what it finds. An empty file is refused. Of a torn one `tox_new` may
return nothing, or an error code, which nobody reads, with an instance that holds
whatever could be loaded: any friends in the model, which does not say what a torn file
holds. `partial` is history and marks such an instance until it is saved. Callbacks run inside `tox_iterate`, hence as steps of the worker
at the label `iterate`; a friend request ends with one item on the output queue
(`Tell`), whatever became of the save.

The library is modelled from its use. A friend who is in the list cannot be added
again: `tox_friend_add_norequest` then gives UINT32_MAX, a number that is connected
to nobody. `get_friend_list` reads the size of the list and the list in one step.
Friends that `_send_message` adds are not saved, as in the code. Nothing in the
repository queues commands or calls `get_friend_list` at this commit; they are
modelled as what other threads may call. `saved`, `partial`, `successes`,
`transmitted` and `untold` are history.

As in `MeshtasticWire`, `Reentrant = FALSE` is the program, in which no `finalize`
returns. The run supposes `TRUE`: the behaviours of the program are those of the
model that stop short of the base class's `finalize`, so what the run says of safety
holds for the program too, and `StopEnds` is about the program with that repaired.

### NodeRecords

A reader holds `usb_port_mutex` from `Begin` to `Leave`. It waits for the library's
node list (`Sync`), walks over it (`Parse`) while the library adds to it (`Meet`),
which raises, as does a node that cannot be parsed. Then it visits the records one by one:
`Fetch` finds the newest row, `Create` enters another one if that is not too young. Node
rows come before metrics rows. A `TypeError` or an `AttributeError` in between is logged
and the record left out (`SaveSkips`); any other exception ends the call (`SaveRaises`).
The clock does not go back. The ids of the list are not the names in the database: rows
are looked up by short name and public key, which is one `Node`, and all ids of which
nothing is known share the same ("????", "UNKNOWN"). The walk passes over the ids whose
role is not allowed (`Skipped`). `logged` is history. Those who take the same mutex to
send or to close are left out: they neither read nor write the rows.

### StreamsStorage

`stored` is the dictionary: a stream is stored under its own uuid. `status`, `ready`
and `old` are the fields of each stream that the storage looks at: its status, if it
has a `sample_gen`, and if its generators are older than the lifetime. A request
starts a response (`Start`, `InitGenerators`, `Run`) and closes it (`Close`) without
any lock, and calls the storage's methods under its mutex. The walk of `__cleaner` is
one step per key to look at it, and another to delete it, for the cleaner thread and
for `clear_by_dt` alike. `SweepRaises` is the log line of line 78 on a stream without
generators. `left` is history: the cleaners that a `stop` has not waited for. `start` and
`stop` take no lock in the code; the model has one thread that calls them, `Controller`,
and says nothing of two that do so at once.

At this commit the streams cannot be constructed (`datetime.time.monotonic`,
`crypter.text`), the endpoint misspells the storage's name where it stores one
(`ws_endpoint.py:126`), and nobody calls `start` or `stop`; the module models the
classes as they would run, and any order of calls. `streams_semaphore` is never
acquired, and is left out.

### FskStream

Everything is scaled: a data type of `Width` bits, bytes of `ByteBits` bits, a
`PaddingDetection` of one bit. The samples are those of a signed integer of the
channel's width, `np.linspace` rounds down as it does since NumPy 1.20, and the sync symbol is the
middle one. `NextFrame` frames and pads the bits; `DecodeFrame` finds level and
symbols again from what a frame shows, by the rule of the code: of an odd number of
symbols the middle one is the sync symbol. `np.binary_repr` gives more digits when
the width is too small for the number, as NumPy did (newer ones raise). The dynamic
level of the random streams is not used by text streams and is left out.

### AesFraming

A byte is a record of what it stands for: the message, the part of the frame, and
the position. A code authenticates just the bytes it was made for, so
cutting, joining and reading under another order are told apart by value and the
ciphers stay symbolic. `mode` is chosen once for both sides, which share their keys;
each side has its own order of parts, and any of the 27 triples may be configured.
The checks on the length of key and nonce are left out.

### Endpoint

A handler's request goes from the number of instances (`AskNode`) to the only one
(`TakeOnly`) or a look-up (`LookUp`), to `is_running`, to the batch it takes
(`GetBatch`) and the answer. Meanwhile services put items, and `stop_core_threads`
pops nodes and finalizes them. A queue that holds `MaxSize` items lets its oldest go for a
new one. `Prefixed` is the effect of `f"{service}_{ID}"` on
callsigns: the ID of a node is looked up as another name, which is the callsign of
another node only if that one reads "meshtastic_...". `delivered` and `evicted` are history.

## The runs

| run | checks | bounds |
|---|---|---|
| `queue` | `Conservation`, `NewestKept`, `GivenInOrder`, `SnapshotCovered`, refinement of `LossyQueue` | 3 threads, 3 elements, capacity 2, batches of 2 |
| `queue_ends` | the remaining methods; `LossOnlyWhenFull`, `MutexReleased` | 2 threads, 3 elements, one of them false, batches of -1, 1 and 3 |
| `wire` | `StatusOnce`, `Accounted`, `CommandsAccounted` | 1 client, 2 listeners, 2 ids and the default id, 2 calls, 2 packets, 2 commands in the input queue, 1 item in the output queue |
| `wire_stop` | stopping, with `Reentrant = TRUE`: refinement of `ServiceLife` (`IsService`) and of `MessageFate` (`FatesKept`), `PortReleased`, `StopEnds`, `PacketsHandled` | 1 client, 1 listener, 1 stopper, 1 id, 2 calls, 1 packet |
| `wire_finalize` | `FinalizeFinishes` fails with the mutex of the code | as `wire_stop` |
| `core` | `StopHonest`, `StopNeverRaises`, `NoOrphan`, `JoinsEnd`, refinement of `ServiceLife` (`InstancesComply`) | 2 admins, 1 page, Tox and 1 node, 3 calls, 2 instances of a name, 3 iterations |
| `tox` | `FriendsKept`, `RequestsTold`, `OneRowEach`, `SavedGrows`, `StopEnds`, refinement of `ServiceLife` (`IsService`) | 2 clients, 1 stopper, 2 friends, 2 calls, 1 callback in each process, 2 crashes, capacities 1 |
| `streams` | `KeysStay`, `OneCleaner`, `StopEnds`, `Expires` | 2 streams, one of which can be continued, 1 request, 2 cleaners, stops with and without waiting |
| `fsk` | `DecodesWell`, `HeaderHonest` | levels 2 and 4, 0 and 1 sync samples, 3 and 4 symbols in a frame, all data of up to 4 scaled bytes, all three `errors_mode`s, no duration |
| `aes` | `RoundTrip`, `OnlyWholeFrames` | both modes, 27 orders on either side, texts of 0 and 2 bytes and a binary of 1, any cut and join of two frames |
| `endpoint` | `NodesOnce`, `OldestFirst` | 2 requests at a time, 3 in all, 2 nodes and Tox, 3 items of one node and 1 of the others, queues of 2 |
| `records` | `Spaced`, `Recorded` | 2 readers, 3 ids, of which two share a name and one has a role that is not allowed, 3 calls, 2 tries, 2 ticks, deltas of 2 and 1 |

Three elements and a capacity of two are enough for an eviction while another
thread is inside a batch; three threads for a writer, a reader and a dropper to
wait for each other. Two listeners and two packets are what it takes for one
answer to be handled twice; two calls let a command and a direct send compete for
the port, or two commands come in one batch. The queue has no bound but its finite elements. Three calls of the core are
a start and two stops at once, or a start, an init over it and a stop; three iterations
are two rounds of joining, so a thread may end before the first, between them, or
never. Two crashes of the Tox client let a profile be saved by one process, torn by
the next and refused, or read in part, by a third; two friends are a saved and a forgotten one, two
clients the two readers that could both enter a friend. Two cleaners are the one that
a `stop` has left behind and the one of the next `start`. The levels and symbol counts
of `fsk` give frames that are exactly full, one bit short and nearly empty, and
frames that show all, some or one of their symbols. Two messages in a joined frame
are all a cut can bring together. Two requests and three items are batches that
interleave, something left over, and one item more than a queue holds; two ticks are just
the delta of node rows, and more than that of metrics.

`MaxCalls`, `MaxPackets`, `MaxEvents`, `MaxCrashes`, `MaxItems`, `MaxAsked`,
`MaxMade`, `MaxReads` and `MaxTime` bound the environment only. The runs switch the
deadlock check off where the environment runs out or the thread really stops: the
radio is not found, the thread has ended, the stream has been decoded. `queue`,
`queue_ends` and `streams`, whose threads never stop, keep it.

TLC takes a property that quantifies over instances or ids only in the form
`[][\A o : ...]_vars`; it is the conjunction of what the refinement says of each.

No run lists a type invariant. Each module states its own, `TypeOK`; it holds in the
same instances, and but for that of `FskStream` it is proved for all of them.

**Fairness.** The queue's `FairSpec` runs a thread that is inside a method;
nothing obliges a thread to call, or to get the mutex. The service's `FairSpec`
is weak fairness of each thread's own steps, which the interpreter's scheduling
gives: threads take turns at the interpreter lock. Clients, listeners and the
stopper need not call, so nothing is assumed of the environment but that its calls
go on; since it makes finitely many, a thread that waits for a mutex meets it
free for good, and no strong fairness is needed. The core's `FairSpec` is weak
fairness of the admins' own steps and assumes nothing of the instances. Its one
liveness property is about the call that waits for its threads and has the mutex, so it does not depend on who
gets the mutex next. The Tox client's is weak fairness of its thread, of requests
that are under way and of a finalize that has begun; callbacks, calls and crashes need
not happen, and a crash ends the obligation. The storage's is weak fairness of the
thread that holds the mutex, of the end of a `stop`, and of the lifetimes, which run
out; and strong fairness of the cleaners. A `threading.Lock` is not fair, and requests
may take the mutex again and again without end, but it is free between any two of
them for as long as it takes to make the next call: strong fairness says that a
thread that is waiting for it then gets it some time. Nothing makes a request call,
close its response or start one.

## What the code does not keep

One property that the repository's documents promise has a run that refutes it:

* `FinalizeFinishes` (run `wire_finalize`): `finalize` of the service
  (`meshtastic.py:404-408`, and likewise `tox.py:417-420`) holds `mutex` when it calls
  the base `finalize`, which takes it again. The docstring (`core_threading.py:112`)
  promises that it sets the signal, changes the state and clears the queues. None of
  it happens, and the mutex stays taken, so the library's callback threads are stuck
  as well.

The others are stated at the end of their modules. None of them holds: TLC refutes
each when its name is put in the place of the properties of the cfg named here.

| property | cfg | why it fails |
|---|---|---|
| `MeshtasticWire.ReportedIsMarked` | `MCMeshtasticWire` | the row of a sent message stores the result of `set.add`, None, as its `message_uid` (`meshtastic.py:359`), so the answer never finds it |
| `MeshtasticWire.AnswerMeansSent` | `MCMeshtasticWire` | `finally: return` swallows every failure to send (`meshtastic.py:370`) |
| `ServerCore.RestartCompletes` | `MCServerCore` | `restart` holds `core_mutex` when it calls `stop_core_threads`, which refuses a locked mutex, its own thread's too (`server_core.py:146`, `structs.py:54`) |
| `ServerCore.StartsAllWaiting` | `MCServerCore`, `Nodes <- TwoNodes` | `start` of an instance that was started before raises, and the instances after it keep waiting (`server_core.py:97`) |
| `ServerCore.PageAnswers` | `MCServerCore` | between the page's list of names and its look at one of them a stop may have popped the instance (`server_core.py:68`); nobody catches `None.is_finalizable` |
| `ToxClient.ProfileLoads` | `MCToxClient` | the only copy of the profile is truncated before it is written (`tox.py:186`), and an empty file is refused at every later start, although `README.md:52` has "Load saved profile from file" |
| `ToxClient.TornNoticed` | `MCToxClient` | `tox_new` may return an instance with part of a torn file; only the instance is looked at (`tox.py:232-234`), the error code is not, and the next save makes the loss final |
| `ToxClient.SuccessMeansSent` | `MCToxClient` | a send to a friend who is not connected returns None without an exception (`tox.py:368`) and is answered "Success" (line 410) |
| `StreamsStorage.CleanerAlone` | `MCStreamsStorage` | a stop that does not wait forgets its thread, and the next start clears the event before that thread has seen it (`streams_storage.py:46`, 57): two cleaners go on |
| `StreamsStorage.CleanerLives` | `MCStreamsStorage` | the cleaner reads `sample_gen` of a stream that is stored and not started (`streams_storage.py:78`, `ws_endpoint.py:126-129`), and its thread dies of the exception while `_thread` stays set |
| `StreamsStorage.RunningWhileOpen` | `MCStreamsStorage`, 2 requests | each response of a stream marks it at its end (`streaming.py:324`), whether another one is being read or not; `README.md:113` says that browsers ask twice |
| `StreamsStorage.DropsWhatIsOver` | `MCStreamsStorage` | the mutex keeps the storage's methods apart, not the streams' own: a request may start a stream again between the test of it and its deletion (`streams_storage.py:79-80`, `streaming.py:317-319`) |
| `FskStream.RoundTrip` | `MCFskStream` | a frame that does not show every symbol is decoded at another level or skipped, runs collapse without sync samples, short padding stays in, and data that ends in equal bits loses them (`streaming.py:210-213`, 253) |
| `FskStream.HeaderHonest` | `MCFskStream`, `Durations = {0, 1}` | a stream with a duration is cut, and its header announces every frame of the text (`streaming.py:272`, 282) |
| `AesFraming.KeysAccepted` | `MCAesFraming` | the constructor calls `encode()` on an `hmac_key` (`cryptography.py:138`) that may be bytes (`unittests/cryptography_tests.py:23`) |
| `Endpoint.ToxOnce` | `MCEndpoint` | items are taken off the queue before `to_json` is called without its argument (`ws_endpoint.py:258`) |
| `Endpoint.CallsignFinds` | `MCEndpoint` | the key that is looked up has the service's name before the callsign (`ws_endpoint.py:284`), the one that is stored has not (`server_core.py:86`) |
| `Endpoint.ToxSends` | `MCEndpoint` | the handler calls a method that the Tox client does not have (`ws_endpoint.py:241`) |

## The proofs

Every theorem holds for all values of the constants that the assumptions of its
module admit; TLC evaluates the same assumptions on every run. They are few: the sets
of threads do not overlap, the special values (`None`, `NoUid`, `Absent`...) are none
of the others, capacities and bounds are natural numbers. Nothing supposes that a set
of threads, ids, friends or streams is finite. In every module the argument is the
same: an inductive invariant `IInv` (in the queue `TInv`), a lemma for each group of
actions that it is kept, and the properties from it.

| module | theorem | property |
|---|---|---|
| `ConcurrentDequeueProofs` | `TypeCorrect`, `Conserved`, `SnapshotsCovered` | `TypeOK`, `Conservation`, `SnapshotCovered` |
| | `NewestStay`, `GivenOldestFirst` | `NewestKept`, `GivenInOrder`, both when `put_top` is not used |
| | `LossBounded` | the action property `LossOnlyWhenFull` |
| | `ImplementsPromise` | refinement: every step is a step of `LossyQueue` or a stutter |
| `MeshtasticWireProofs` | `TypeCorrect`, `ReportedOnce`, `MessagesAccounted`, `CommandsKept` | `TypeOK`, `StatusOnce`, `Accounted`, `CommandsAccounted` |
| | `ImplementsService`, `EachHasItsFate` | refinement: `IsService`, and `FatesKept` for every id |
| `ServerCoreProofs` | `TypeCorrect`, `SuccessIsHonest`, `LookupSucceeds`, `NothingOrphaned` | `TypeOK`, `StopHonest`, `StopNeverRaises`, `NoOrphan` |
| | `InstancesObey` | refinement: `InstancesComply`, for every instance |
| `ToxClientProofs` | `TypeCorrect`, `FriendsStay`, `EveryRequestTold`, `NoSecondRow` | `TypeOK`, `FriendsKept`, `RequestsTold`, `OneRowEach` |
| | `SavesGrow` | the action property `SavedGrows` |
| | `ImplementsService` | refinement: `IsService` |
| `StreamsStorageProofs` | `TypeCorrect`, `NoKeyError`, `NoCleanerBehind` | `TypeOK`, `KeysStay`, `OneCleaner` |
| `NodeRecordsProofs` | `TypeCorrect`, `RowsApart`, `ReturnedIsRecorded` | `TypeOK`, `Spaced`, `Recorded` |
| `AesFramingProofs` | `TypeCorrect`, `ComesBack`, `NothingElseAccepted` | `TypeOK`, `RoundTrip`, `OnlyWholeFrames` |
| `EndpointProofs` | `TypeCorrect`, `OldestTaken`, `EachNodeItemOnce` | `TypeOK`, `OldestFirst`, `NodesOnce` |

**Queue.** Types alone are not inductive: that a body's step finds the elements it
needs in `local` follows from where the thread is. `TInv` adds `LockInv` (a thread is
in a critical section exactly if it holds the mutex), `LocalInv` (what a call has in
hand at each label) and the capacity. `TakeInv` says what a `get` or `get_batch`
holds when it is counted: one true element, or as many as the batch asked for or
the deque had. From both, each step is shown to be an operation of the abstract
queue on `Contents` (`StepEffect`); conservation, order and loss are then argued on
the abstract operations only. `LockInv` carries the interference argument:
whoever is inside is alone, so no other step touches `deque` or `Contents`.
`GivenOldestFirst` rests on `GivenInv`: what was handed out precedes, in the order of
the puts, all that the queue still holds. `NewestKept` gives the positions of the
latter, and elements may vanish in between.

**Radio.** `LockInv` and `UsbInv` say who has the service's mutex, and how often, and
who has the port, by label; this is what makes "report, remove, mark" of one listener
a unit that no other listener can enter. `BatchInv` ties the command in hand to the
head of the batch, for the ledger of commands (`LedgerInv`). `SentInv` is the
strengthening for messages: an id that was sent and is not yet among the pending ones
has not been reported, and a listener that is about to report has an id that is still
pending and unreported. The last holds because the id is tested under the mutex, and
taken away by the same listener before it releases it. All the theorems hold for
either kind of mutex, the program's `threading.Lock` included.

`ImplementsService` needs `LifeInv`: the stop signal is set only after the thread has
left `READY` and `RUNNING`, and so has it at every label past the loop. Without it a
step of the service could not be told to be an `End` or a `Begin` of the contract.
`EachHasItsFate` needs, beside `SentInv`, `FateInv`: an id that finalize has cleared is
not pending, has no verdict, and no thread is about to enter it; an answer to it
therefore finds it unknown for ever.

**Core.** `LockInv` is the ownership of `core_mutex`, `KeysInv` that every key has its
instance, `Position` and `InHand` the types of what a call has left to do at each of
its labels. `Visits` says that what a loop is about to look up is still in the table,
which is why no look-up of a stop can fail; `Stopping`, that all a stop has taken is in
its working list or has ended, from which success is honest when the list is empty.
`NoOrphan` is inductive with these. The theorems hold whether `finalize` returns or
not. `InstancesObey` adds `MadeInv`: what is in the table, in a working list or about to
be finalized was made. It is what a `Finalize` of the contract asks; that `Make` and
`StartThread` come once is what the calls themselves test.

**Tox.** `SavedInv` relates the file to the last completed save: they are the same
whenever the file can be loaded, and no file means that nothing was ever saved. This
survives every crash, and makes `FriendsKept` inductive, with what the process knows
while a save is under way. Both `FriendsKept` and `SavesGrow` except an instance that was
read from a torn file (`partial`), of which the code keeps nothing (`TornNoticed`); once
it has been saved they hold of it as well, for what that save wrote. `RowsInv` adds to
`OneRowEach` that a client which is about to enter rows has the mutex and a list of
friends who have none. `SavesGrow` is about steps: what a save is about to write holds all
that the last one wrote. `LifeInv` is as for the radio; a crash takes the thread back to
the constructor, where no finalize can be under way.

**Stream storage.** `PcOK` and `InHand` say what each thread is walking over and that
the key to be dropped is no longer on its list. With the mutex, `KeysStay` is
inductive; `OneCleaner` is proved on top of it.

**Node records.** `CreateInv` says that a record about to be created is not too young
against the newest row, which the mutex keeps true until the row is there; `SavedInv`
that every node of the list has a new enough row, is still among the records to save, or
has had its exception logged. Several ids may share the name that rows are looked up by.

**Framing.** The lemmas are about sequences: a sequence that is cut at the same place
has the same parts (`ConcatCancel`), three slices that meet make up the whole
(`ThreeSlices`), a layout that names each part once gives every part its place
(`EachHasItsPlace`). From them `Split` inverts `Build` for every order (`Readable`),
and a frame whose parts are well formed is the whole of `Build` (`Accepted`). A code
being good for just the bytes it was made for is the model of the ciphers, not a
result.

**Endpoint.** The items of a queue are numbered. `QueueInv`, `BatchInv` and
`DeliveredInv` say where the numbers of a service may be and in which order, `Apart`
and `BatchesApart` that no number is in two places, `RoomInv` that no queue outgrows its size,
and `KeptInv` that a number of a running node is in one place or has been evicted.
`EvictedInv` says of an evicted number that it is in none, and that the queue was full of
newer ones when it went.

### What stays with TLC

* Every liveness property: `MutexReleased`, `FinalizeFinishes`, `PortReleased`,
  `StopEnds` (three of that name), `PacketsHandled`, `JoinsEnd` and `Expires`.
  Fairness and `ENABLED` are beyond the prover.
* `FskStream`: `DecodesWell` and `HeaderHonest` are about what folds over frames and
  samples compute, which takes induction over the data. The run goes through all data
  of up to 4 scaled bytes instead.

## What could still be done

1. The fold over the frames of `FskStream`: `tlapm` has no axioms for `^`, so the
   number of bits in a symbol would first have to be a table.
2. Several radios in one process, with the search for a port among those of others.
3. The life of an audio stream as an abstract module of its own, once the classes can
   be constructed and the endpoint stores what it makes.

## Not modelled

* Several radios in one process: `_get_usb_interface` opens one port after another and
  leaves those of other nodes open (`meshtastic.py:330`), and every instance subscribes
  to the packets of all radios (line 165), so that each message is entered once for
  every instance. Both follow from the code without any interleaving; `MeshtasticWire`
  has one instance with one port.
* The endless streams of random data, with nothing at the other end to agree with, and
  the dumps of frames as text: they only print.
* The native bindings and the signal processing, which compute without state.
* The private configuration: one encrypted file that is read at boot, and written by a
  tool that is run by hand.
* Parsing of request parameters, forms, descriptions, logging and its colours: no other
  part reads what they leave.
* `IOQueuedThread.from_another`, which nobody calls and whose arguments do not fit the
  subclasses, and the statistics of time.
