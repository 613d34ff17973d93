# A TLA+ model of the IKP data propagator

The repository is a small distributed system in C for Windows. A *Data Source*
(DS) generates warnings, each addressed to a leaf of a tree of nodes; *Central
Propagators* (CP), one process per inner node, pass a warning down one hop at a
time; *Data Destinations* (DD), one process per leaf, log and count what they
receive. This directory models the system in TLA+, checks the models with TLC
and proves their main invariants with TLAPS. Paths below are relative to
`src/Propagator_Solution/`.

## 1. Inventory

| Part | State | Operations | What makes it correct |
|---|---|---|---|
| Node tree (`Common/node.c`, `CentralPropagator/cp_context.c`) | `NodeInfo[]` with parent, children, type; per CP the map of its subtree | `node_load_all`, `collect_subtree`, `find_root` | the subtree map holds exactly the nodes below; a climb from a destination meets this node's child |
| DS threads (`DataSource/data_generator.c`, `network_sender.c`) | stop event, `globalQ`, counter | generate, dequeue, send to the root | no warning duplicated; both threads return, as `main` joins them |
| Thread-safe queue (`Common/tsqueue.c`, `queue.c`) | FIFO, critical section, two condition variables | create, enqueue, dequeue, try_dequeue, destroy | capacity holds; no wakeup is lost; whoever blocks returns |
| Connection pool and client (`Common/propagator_connections.c`, `propagator_client.c`) | map from (address, port) to socket, `conn_mutex` | get or create, send, close, clean up | pooled sockets are open and lead where their key says; none is leaked; a send reaches its hop |
| CP listener (`cp_listener.c`) | one client at a time | accept, receive, submit | every received warning is submitted once |
| CP dispatcher and pool (`cp_dispatcher.c`, `thread_pool.c`) | task queue, workers, `shutting_down` | submit, route and send, shut down | right hop; accepted work is done; workers gone before memory is freed |
| CP process (`CentralPropagator/main.c`, `cp_shutdown.c`) | exit event, heap objects | start, wait, take down | exits when asked; nothing used after free, leaked or freed twice |
| DD (`DataDestination/`) | queue, counter, `listen_sock`, exit event | `dd_create`, listener, processor, count file, `dd_destroy` | logs only what is addressed to it; loses nothing at exit; exits when asked |
| DS process and launcher (`DataSource/main.c`, `cp_launcher.c`) | child processes, job object | launch, signal, terminate | all children of a kind run or none does; after a stop `main` ends and no child is left |
| Hash map (`Common/hashmap.c`) | buckets, size | put, get, remove, resize | behaves as a map; frees exactly what leaves it |
| Wire format (`propagator_client.c`, `deserialize_warning`, `network_to_host64`) | none | serialise, `recv_all`, deserialise | what is read is what was sent, however it is fragmented |
| Console and memory reports (`Common/utils.c`, `warning_to_string`) | files | print | pure I/O |

How they interact: inside a process, through a `TSQueue` (generator to sender,
CP listener to workers, DD listener to processor) and through the pool's map
under `conn_mutex`; between processes, through one TCP connection per sender
and hop, kept open and reused; between the DS and its children, through named
exit events and a job object.

What is hard: several workers sharing sockets through the pool; a listener
that serves one client until its connection ends; sends that fail with data in
flight, and receivers that give a connection up with data in flight; queue
nodes that cannot be allocated, which most callers do not notice; blocking
queues whose consumers are stopped by sentinels; shutdown, where one thread
frees what others use. `PROJECT.json` lists these hazards
line by line with the properties that would catch each.

## 2. Modules

| Module | Models |
|---|---|
| `Topology` | the tree in memory: children, types, subtree maps, the stop condition of a CP's climb |
| `Propagation` (extends `Topology`) | the running system: DS threads, every CP's listener and workers, every DD's listener and processor, connections that break |
| `TSQueue` | `tsqueue.c`: critical section, condition variables, spurious wakeups, failing allocations |
| `CentralPropagator` | one CP process until it exits: exit event, `main`, listener, workers, heap objects |
| `ConnPool` | the pool's map and `send_warning_to` of several threads, with the reuse of handle numbers |
| `DataDestination` | one DD process until it exits: exit event, count file, `dd_destroy`, both threads |
| `HashMap` | `hashmap.c`: chained buckets, rehashing node by node, failing allocations |
| `AbstractMap` | what `HashMap` implements: a partial function and the values it has freed |
| `Wire` | one sender and one receiver byte by byte: byte order, frame, `recv_all`, `deserialize_warning` |
| `NodeLoader` (instantiates `Topology`) | `node.c`: from the text of `nodes.csv` to the array of nodes |
| `Lifecycle` (extends `NodeLoader`) | `main` of the DS, the launcher, and the lives of the child processes |
| `Delivery` | what `Propagation` implements: warnings accepted, then delivered once or lost |
| `MC*` | trees, files, batches and symmetry sets for TLC |
| `*Proofs` | theorems about the module of the same name |

Action names are the C functions' names where one action is one function, and
say which part of the function they are otherwise. An action is a stretch of
one thread's code between two points where it blocks, takes a lock or touches
what another thread uses.

* **Topology.** A node stands for its id, address and port, so the file is
  taken to give each node its own. `collect_subtree` is the least set that
  holds the node and is closed under children, which is what the recursion
  computes on a tree; `TreeAssumption` says that every node is below a root.
* **Propagation.** A warning is an id and a `dest_node`. A queue is a sequence
  (justified by `TSQueue`). A connection is a stretch `CONNECT`, warnings, `EOF`
  of the channel between two processes. A call of `send_warning_to` has five
  outcomes: it succeeds; there is no connection (`ConnectFails`); there is one
  and no memory for the frame (`FrameFails`), and it stays pooled; `send` fails
  (`SendFails`), the connection ends and a suffix of what the peer has not read
  goes with it; or the peer has already closed the connection (`SendOnSevered`),
  and the bytes are taken for nothing or the connection leaves the pool. A
  connection becomes `severed` when `deserialize_warning` finds no memory
  (`ListenerGivesUp`): the listener closes the client, and what the connection
  still held is lost although every send of it succeeded. A warning that has
  been read may get no further, for want of a job, a task or a queue node
  (`ListenerDrops`); the processor may have no memory for the text and count
  without printing (`ProcessorPrintsNothing`). In the generator a warning may be
  NULL or may not get into the queue (`GenerateFails`), and neither may the
  sentinel (`GeneratorEndsMute`). Every such step counts in `failures`, and what
  it loses goes to `lost`. Where several workers share a socket this module
  takes a send to be atomic and to reach its hop or fail; `ConnPool` is about
  exactly that. Each step of a climb is an action, so a climb interleaves with
  everything else.
* **TSQueue.** A thread that sleeps is in `cvNotFull` or `cvNotEmpty`; a
  wakeup moves it to `wokenNotFull` or `wokenNotEmpty`, from where it must
  get the critical section back before it looks at the queue again. Other
  threads may come first. Sleepers may also wake by themselves.
* **CentralPropagator.** `alive` is the set of objects not yet released, in the
  order in which `main`, `cp_dispatcher_shutdown`, `tp_shutdown` and the rest
  release them. The listener's code is cut where it reads shared objects; the
  test of `shutting_down` in `tp_submit` and the enqueue after it are two
  actions. Allocations fail at any step: a client is given up
  (`ListenerGivesUp`), a warning dropped and destroyed (`ListenerDrop`), a task
  not queued although `tp_submit` says so (`ListenerStrands`: `stranded` keeps
  such warnings), a sentinel not queued (`missing` counts them). The parent's
  `Connect`, `Arrive` and `Disconnect` are what its `get_or_create_connection`,
  `send_warning_to` and `close_connection` do at this node. When the listener
  reads a freed object, `dangling` is set and the listener is not followed
  further.
* **ConnPool.** Lookups, creation and close are atomic (they hold
  `conn_mutex`); the handle returned is used after the lock is released. A
  closed handle's number may be given to the next socket, as Winsock may do.
  Two `send` calls on one socket do not mix their bytes: a frame is far smaller
  than a blocking socket's buffer.
* **DataDestination.** `listen_sock` is `"garbage"` until the listener thread
  has stored it; closing garbage does nothing (in a debug build the field
  holds 0xCD bytes, which is no socket). `dd_create` may fail at each of its
  steps; when it gives up on its second thread it frees the context under the
  running listener, and that listener is not followed further. `untold` holds
  the threads that `dd_destroy` failed to tell to end: the listener, when the
  field was still garbage, and the processor, when there was no memory for the
  node of its sentinel.
* **HashMap.** A bucket is a sequence of nodes. A put is cut at the loop of
  `resize_if_needed`: relinking one node is one action, so that a state in the
  middle of a rehashing is visible, and the refinement to `AbstractMap` says
  that none of these steps changes the map. The test `(size + 1) / capacity <=
  0.75f` is exact in integers for the sizes that occur.
* **Wire.** A byte has `Radix` values (256 in the code). With a small radix the
  lengths of short strings take several bytes, so that a wrong byte order shows.
  Integers are numbers, `htonl` a function on numbers, and memory is
  little-endian. A string is no longer than its 32 bit length field can say: the
  code cuts `strlen` to 32 bits, and the strings it makes are short. `recv`
  returns any non-empty piece of what has come, as much as is asked for at most.
  A partial `send` closes the connection; a connection that the receiver has
  closed, or that was reset, may take further frames without an error. The two
  copies of `deserialize_warning` (CP and DD) do the same and are one
  definition.
* **NodeLoader.** A file is a sequence of lines of fields of characters. `trim`
  strips white space at both ends, `strtok` skips empty fields, a line of fewer
  than three tokens is skipped, and the map from ids to rows keeps the last row
  of an id (what `hashmap_put` does with a key that is there).
* **Lifecycle.** One child process per node: it starts, creates its exit event,
  waits for it, shuts down and exits; a DD cannot exit while the parent that
  connected to it is alive (what `DestroyReturns` says of `DataDestination`).
  A child whose `main` waits for a thread that never ends is `"hung"`
  (`ChildHangs`): a DD that is told before its listener has stored its socket,
  without any failing call, and any child whose sentinel cannot be enqueued.
  `sleeping` says the same of the DS's sender, which then waits for ever.
  An exit event belongs to the processes of one kind and id. `bound` is the set
  of children in a kill-on-close job object. Every call of the system whose
  failure the code handles, or ignores with consequences, may fail: loading,
  the job object and its limit, the arrays, `CreateProcessA`,
  `AssignProcessToJobObject`, the stop event, the children's own start. Two
  error returns of the launchers leave the caller's count uninitialized; `main`
  then ends or goes on (`ReturnsGarbage`).

## 3. Runs

Passing runs:

| Run | Instance | Shows |
|---|---|---|
| `propagation` | the longest branch of `nodes.csv` (three CPs above a leaf) and a leaf below the root; 2 warnings, 2 workers per CP, 1 failing call anywhere, stop at any moment; 72,078 states | `NoMisdelivery`, `AlongTreeEdges`, `ExactlyOnePlace`, `EventuallyLogged`, `SentIsLogged`, `SourceFinishes`, `ImplementsDelivery` |
| `tsqueue` | capacity 0 (every queue of the system) and 2; 3 producers, 3 consumers, a poller, 5 calls, 1 failing allocation; 62,613 states | `WithinCapacity`, `NoLostItem`, `NoLostSlot`, `Drains`, `EnqueueReturns` |
| `central` | 2 workers, 3 warnings (one not below the node), 1 connection of the parent and the node's own to itself, any number of failing allocations; 242,710 states | `WorkersUseLiveObjects`, `NoDoubleFree`, `NothingLeaked`, `AcceptedIsDispatched`, `ShutdownCompletes` |
| `connpool` | 3 threads, 2 endpoints, 3 handles, up to symmetry; 13,288 states | `PooledIsConnected`, `NoHandleLeak` |
| `destination` | 3 warnings, 2 connections, failing calls; 64,417 states | `ThreadsUseLiveContext`, `DrainedAtExit`, `DestroyReturns` |
| `hashmap` | keys that collide before and after a doubling, from capacity 1; 70,380 states | `GetFindsStored`, `LoadBounded`, `ImplementsMap` |
| `wire` | 2 warnings (one with an empty string), every fragmentation, 2 failures; 54,320 states | `ReceivedAsSent`, `EverythingArrives`, `BigEndianOnTheWire` |
| `lifecycle` | 113 contents of `nodes.csv` of up to 3 lines, 1 failing call, stop at any moment; 283,720 states | `LoadsATree`, `LaunchIsAllOrNothing`, `NoOrphans`, `StopCompletes` |

Each module's type invariant is checked in one of them. Deadlock is not
checked: every instance stops legitimately when its bounded input is used up
or the process has exited. Symmetry is used only where no liveness property is
checked.

Runs that show a disagreement between the code and what the repository says of
it (`findings` in `PROJECT.json` quotes the lines):

| Run | What happens |
|---|---|
| `central_use_after_free` | the listener is not joined and may use the freed context, dispatcher, pool or queue |
| `connpool_stale` | a handle closed and reused by other workers takes a warning to another endpoint |
| `destination_count` | the count file misses warnings that are still in the queue |
| `lifecycle_graceful` | an orderly stop terminates children: `EnumWindows` returns FALSE when the window was found, and the job object is closed without waiting |

Other behaviours that a reader may not expect are in the models, and the
passing properties say how far they go:

* A task that `tp_submit` enqueues behind the sentinels is freed by
  `tsqueue_destroy` without its warning; `NothingLeaked` holds until then.
* A task whose queue node cannot be allocated is nobody's: `tp_submit` reports
  success (`thread_pool.c:57`). `NothingLeaked` says that no other
  warning is without an owner while the queue lives.
* A sentinel whose node cannot be allocated leaves its thread waiting, and with
  it whoever joins it: the sender (`data_generator.c:58`, `SourceFinishes`), a
  worker (`thread_pool.c:66`, `ShutdownCompletes`), a DD's processor
  (`data_destination.c:177`, `DestroyReturns`). Each property says that nothing
  else keeps the join waiting.
* A send that succeeded is no guarantee: a receiver without memory closes the
  connection with what is in it. `EventuallyLogged` and `SentIsLogged` except
  what a failing call lost, on either side; `ExactlyOnePlace` says that
  without a failing call nothing is lost.
* A warning for a CP itself, or for a node outside its subtree, is sent to the
  CP's own port and does not "terminate locally" (`README.md`). The DS
  generates none, and `AlongTreeEdges` shows that routing makes none.
* A DD does not exit while its parent stays connected: `DestroyReturns` is
  checked with a parent that exits. It does not exit either when `dd_destroy`
  runs before the listener has stored its socket, which takes no failing call.
* On a bounded queue a wakeup is swallowed when a poller takes an item that is
  NULL (`tsqueue_try_dequeue` then wakes no producer) and when a woken producer
  cannot allocate its node. `unannounced` counts them, and `NoLostSlot` and
  `EnqueueReturns` are about everything else. No process bounds its queue.
* A warning that cannot be allocated is enqueued as NULL and stops the sender:
  `EventuallyLogged` excepts what is `LeftBehind` in the DS's queue.
* `main` of the DS does not end after a stop in three cases, which
  `StopCompletes` names. Its sender waits for a sentinel that nobody leaves:
  `nodes.csv` has no destination, or there was no memory for the sentinel. A
  child that is not in the job object (`AssignProcessToJobObject` failed) has
  missed its exit event. Or such a child was told and hangs, as above.
  Children in the job object are ended whatever they do.
* If a DD cannot be launched, closing the job object also ends every CP, and
  `main` runs on without a child (its test of the count never sees a failure).

### Bounds

`NUMBER_OF_WARNINGS`, `MaxFailures`, `MaxCalls`, `MaxAllocFailures`,
`MaxConnections` and `MaxNodes` bound inputs, never a thread's progress. The
interesting cases fit in them: two warnings keep both workers of a CP busy and
meet on one connection, one failing send loses what is unread of it and forces a
reconnect behind the dead one, and one client given up loses one warning or both
or makes the next send meet a severed connection; a CP that is asked to exit has
three warnings, two with its workers and one in the queue or the listener's
hands; three producers on two slots leave one asleep while another is woken and
a third overtakes it; three threads on two endpoints are one that holds a stale
handle, one that closes it and one that reuses it; three lines of `nodes.csv`
make a chain of two CPs above a DD, two DDs of which the second fails to launch,
two processes with one exit event, and, with two lines, every pair of a good or
bad line with another; two frames with two failures put a whole frame behind a
broken one. Data is reduced to identity, so a larger instance would repeat these
cases. The invariants proved below hold without the bounds.

### Fairness

Weak fairness of every thread's next step: the code's threads are ordinary
preemptively scheduled threads, and a thread that can run is run. In
`TSQueue`, a woken producer gets the critical section and a consumer comes
back for the next item, as the loops of the sender, the workers and the
processor do. Nothing is assumed of the user, of whoever requests an exit, of
producers, pollers or of spurious wakeups. `ParentExitsSpec` in
`DataDestination` adds that the parent's connection ends: when the DS stops the
system it signals the CPs right after the DDs, and a CP that exits
(`ShutdownCompletes`) closes its sockets. In `Lifecycle`, `main` and the
children run on; the user need not press a key, and a CP need not connect. In
`Wire`, sender and receiver run on, and a call that can succeed is not assumed
to.

### Refinements

Both refinements are model-checked and proved (section 4). `ImplementsMap`
(`HashMap` implements `AbstractMap`): the map of the chains is
what the nodes of both arrays hold, so that relinking is a stutter and every
operation is one abstract step. `ImplementsDelivery` (`Propagation` implements
`Delivery`): a warning is accepted when the DS enqueues it, delivered when a DD
logs it, and lost only where a call fails, on the sending or the receiving
side, or where a send meets a connection that the peer has given up; `Refuse`
is a warning that was made and never got into the DS's queue. `Pending` is what
is anywhere in between. `LoadsATree` relates `NodeLoader` to `Topology`: from a
well formed file the array of nodes has the parents, children and types that
`Topology`, and with it every other module, takes for granted.

## 4. Proofs

All theorems hold for every value of the constants allowed by the modules'
named assumptions.

* **`PropagationProofs`**: `TypeCorrect`, `NoMisdeliveryHolds`,
  `AlongTreeEdgesHolds`. What a DD logs says nothing of how the warning came to
  it, so neither property is inductive. `Inv` adds that, wherever a
  warning is, its destination is a leaf in the subtree of that place
  (`Routed`), that a climbing thread stands at or above the destination
  (`Climbing`), and that a worker climbs strictly below its own node and sends to a
  child of it (`WorkerOK`). At a DD the subtree is the DD itself, which gives
  `NoMisdelivery`. The lemmas that open the module are about the subtree map
  alone: a node is in its own subtree, the subtree of a parent includes that of
  its child, a climb step keeps the destination below, a leaf's subtree is the
  leaf.

  `ExactlyOnePlaceHolds` counts places, and a count is not what a step is about.
  `PlaceInv` says it with one relation, `Sits(v, t, a, b)` (the warning `v` is in
  the place of kind `t` at `a` and `b`): two warnings of one number are one
  warning in one place (`OnlyOne`), the numbers that are somewhere are those
  given (`Numbered`), no sequence repeats a warning (`OnceInv`, without which a
  dequeue could leave a copy behind), and a thread that is not routing holds none
  (`HandInv`). Before the first failing call nothing is lost and no connection is
  severed (`LossInv`): without the second half a send could lose a warning
  although nothing has failed. Every action then moves a set of warnings to one place and leaves
  the rest (`Moves`), and one lemma shows that such a step keeps `OnlyOne` and
  `Numbered`. `ImplementsDeliveryHolds` uses the same classification: a step
  accepts a fresh warning (`Accepts`), logs one that was on its way (`Delivers`)
  or loses some, often none (`Loses`), and each is a step or a stutter of
  `Delivery`.
* **`TSQueueProofs`**: `QueueTypeCorrect`, `WithinCapacityHolds`,
  `NoLostItemHolds` and `NoLostSlotHolds`, with pollers and failing
  allocations. Each property is inductive together with the type invariant; the
  arithmetic is on the cardinality of the sets of woken threads and on the
  count of swallowed wakeups.
* **`CentralPropagatorProofs`**: `CentralTypeCorrect` and
  `WorkersUseLiveObjectsHolds`, from an invariant that ties `main`'s position
  to the workers (past the join all have ended) and to the objects (before
  the destruction of the queue all are alive). `NoDoubleFreeHolds` and
  `NothingLeakedHolds` are about ownership: `OwnerInv` adds that a warning is on
  one stream, with the listener, in the queue, with one worker (`OnePlaceInv`),
  that what is held is allocated (`HeapInv`), and that nobody holds what has not
  come (`ArrivedInv`). `AcceptedIsDispatchedHolds` needs the order of the
  queue: while `main` enqueues the sentinels and joins, every accepted task is
  dispatched, with a worker, or ahead of all sentinels (those that did get into
  the queue), and none is left in the
  queue once a worker has met a sentinel (`DuringShutdown`). The last worker to
  end then leaves none, which is why the pool must have a worker (`Worker # {}`;
  the code has `THREAD_POOL_SIZE` 4). A task that `tp_submit` was already
  past its test for is not among them (`LateInv`).
* **`ConnPoolProofs`**: `PoolTypeCorrect`, `PooledIsConnectedHolds`,
  `NoHandleLeakHolds` (inductive together) and `AloneSendReachesHop`: with one
  sending thread the handle in its hands is the pooled one until the send is
  over. The DS has one sender, so its sends are safe; a CP has
  four workers, and `connpool_stale` shows the difference.
* **`DataDestinationProofs`**: `DestinationTypeCorrect`,
  `ThreadsUseLiveContextHolds`, `DrainedAtExitHolds`. The invariant accounts for every received
  warning (in a thread's hands, in the queue or logged) and states that
  the sentinel is the last item of the queue.
* **`HashMapProofs`**: `TypeCorrect`, `LoadBoundedHolds`, `GetFindsStoredHolds`
  and `ImplementsMapHolds`, for every hash function, set of keys and first
  capacity. `Table` says of an array that a node is in the bucket of its hash and
  that a key is there once; `IInv` has it of the old and of the new array, with
  no key in both (`ApartInv`) and the rows behind the loop empty (`RowsInv`), so
  that throwing the old array away throws no node away. `SizeInv` equates
  `size` with the number of nodes, which makes `LoadBounded` more than a fact
  about a counter. In the refinement each relinking is a stutter and each end of
  an operation is one step of `AbstractMap`; the lemmas about prepending to,
  unlinking from and exchanging in a chain are stated once for both arrays.
* **`LifecycleProofs`**: `TypeCorrect`, `NoOrphansHolds` and
  `LaunchIsAllOrNothingHolds`, for every set of files and any number of failing
  calls. `NoOrphans` speaks of the last state alone; the invariant behind it is
  that `main` has an open handle of every process that is alive (`HeldInv`) and
  closes the handles in order, each after its process has ended (`WaitInv`); or,
  when `main` gives up, that closing the job object has ended what it held
  (`FailedInv`). `LaunchIsAllOrNothing` says nothing of the time of the
  launching, when it is false; there `LaunchInv` says that exactly those
  processes have been started that have had their turn, so that a launch that
  runs to its end has started all, and one that fails terminates what it started.
  The rows are numbered from 1 (`Counted`), which gives a pass its next row.
* **`WireProofs`**: `FrameIsDocumented`, `WireTypeCorrect`, `ReceivedAsSentHolds`
  and `BigEndianOnTheWireHolds`, for every `Radix` of at least 2, every set of
  batches (strings of any length a 32 bit field can say) and any number of
  failures. Three layers:

  1. Bytes. The four digits of a number are bytes and give the number back;
     `htonl` and both 64 bit conversions put the most significant byte first, and
     the receiver's conversions undo them (`NetworkOrder32`, `NetworkOrder64`).
     `FrameIsDocumented` follows.
  2. Frames. A frame is seven pieces; a piece's length is fixed or is the value
     of the piece before it, so a reader that has decoded the first pieces knows
     how many bytes it needs next (`Needed`), and decoding them gives the field.
  3. Streams. `ReceivedAsSent` speaks of finished warnings and says nothing of
     the bytes under way, so it is not inductive. `IInv` adds `Linked`: each
     connection holds whole frames of offered warnings, later connections later
     ones, and only one the sender has closed may end in a part of a frame
     (`Streams`); the fields decoded and the bytes gathered are a beginning of the
     first frame of the connection being read (`Partway`); what was received are
     offered warnings in increasing positions, all before those under way
     (`Taken`). A frame that is cut off ends its connection, and the end of a
     connection throws away what was decoded, so no remainder is read as the
     beginning of the next warning; the mutant that keeps such a connection open
     breaks exactly this.

  `BigEndianOnTheWireHolds` combines the first layer with the sender's actions.

Only model-checked:

* all liveness (`EventuallyLogged`, `SentIsLogged`, `SourceFinishes`, `Drains`,
  `EnqueueReturns`, `ShutdownCompletes`, `DestroyReturns`, `EverythingArrives`,
  `StopCompletes`): liveness under fairness is beyond the prover;
* `LoadsATree`: it rests on what `SelectSeq` (the filtering of tokens and of
  children) computes for every sequence, which is induction over data.

The strengthenings are in the proof modules only; no run lists them.

## 5. Not modelled

* Text: what `warning_to_string` writes, console set-up, memory reports, the file names of
  the logs. Pure I/O. (`print_stats_to_file` closes the log file and every
  `main` closes it again; there is no state to explore in that.)
* Lines of `nodes.csv` longer than the buffer of `fgets`; the text of addresses
  and ports; failing `realloc` and `_strdup` in `node_load_all`, which the code
  does not test.
* The generator counts a warning when it prints it: one whose text cannot be
  allocated is enqueued without being counted, so that `NUMBER_OF_WARNINGS` is
  here the number of warnings made. `malloc` of its table of destinations is not
  tested by the code and is taken to succeed.
* Failures of `bind`, `listen`, `InitializeCriticalSection` and of the DS's
  `CreateThread`, which the code does not test.
* Interleaved bytes of two `send` calls on one socket; see `ConnPool` above.
* The linked list of `queue.c`: a sequence, with a failing allocation.

## 6. Plan

1. *Done*: all modules of section 2.
2. *Done*: a theorem for every safety invariant of the passing runs except
   `LoadsATree`, for their action properties and for both refinements (section 4).
3. `ConnPool` inside `Propagation`, for a CP whose workers share sockets.
