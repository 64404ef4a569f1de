# A verification model of librdpmux

librdpmux is linked into a hypervisor and forwards a virtual machine's display
to the RDPMux server: the pixels through a shared memory region, the control
messages (MessagePack) over a ZeroMQ socket, after a registration over D-Bus.
This directory holds TLA+ models of the library, the TLC configurations that
check them and TLAPS proofs about them. Paths below are relative to the
repository (`rdpmux.c` is `src/src/rdpmux.c` here).

Run `tlc -config MCDisplay.cfg MCRdpMux` and the like to check (section 3 names
the module of every configuration), and `tlapm MuxQueueProofs.tla` and the like
to prove.

## 1. Inventory

| Component | Code | State | Operations |
|---|---|---|---|
| Rectangle arithmetic | rdpmux.c 28-90, 240-265 | none | expand a box, align and clamp it, copy a strip |
| Display thread calls | rdpmux.c 104-299 | `surface`, `shmem_fd`, `shm_buffer`, `dirty_update`, `out_update` | `mux_display_update`, `mux_display_refresh`, `mux_display_switch` |
| Out loop | rdpmux.c 313-361 | its place in the loop; `out_update` | queue the update, wait for the acknowledgement |
| Main loop | rdpmux.c 374-463 | local `stopping`, the update being sent | drain the queue, poll, receive, shut down |
| Outgoing queue | queue.c, libqueue.h | linked list, mutex, condition | is_empty, dequeue, enqueue, clear |
| Messages | msgpack.c | growing byte buffer; writes `framerate` | encode 3 kinds, decode 3 kinds, signal `shm_cond` |
| MessagePack library | lib/c-msgpack.c | the error and the backend in `cmp_ctx_t` | a writer and a reader for every type, `cmp_read_object`, `cmp_write_object`, the queries |
| Socket | 0mq.c | socket, poller, `zsys_interrupted` | connect, send, receive, signal handler |
| Lifecycle | rdpmux.c 470-547 | `stop`, `uuid` | init, register callbacks, cleanup |
| Registration | dbus.c | `vm_id` | version check, register, obtain the socket path |
| Generated D-Bus code | lib/connector.c | a skeleton's property and its pending change | set, notify, emit, flush; on the client side the proxy's cache and `Register` |

**Threads.** The hypervisor's display thread calls the three `mux_display_*`
functions one at a time; the backend runs `mux_out_loop` and `mux_mainloop` in
a thread each and calls `mux_cleanup` from wherever it shuts down. All of them
share one `struct mux_display`.

**How they interact.** A drawn region grows `dirty_update`. A refresh tries
`shm_lock`, copies the dirty rows to shared memory, moves or merges
`dirty_update` into `out_update` and signals `update_cond`. The out loop queues
`out_update` and waits on `shm_cond`. The main loop sends what is queued; the
server reads the shared region and answers; the main loop decodes the answer
and signals `shm_cond`. A switch replaces the framebuffer, clears the queue,
copies everything, signals `shm_cond` and queues an announcement. `stop` (under
`stop_lock`) ends both loops.

**What is hard here.** Two condition variables used without a predicate or
without their lock; a wait that releases the lock it is documented to keep; an
unlocked queue test before a blocking dequeue; two threads clearing and one
filling the queue, whose elements are raw pointers; mutexes left locked, or
unlocked by a thread that does not hold them, on the exit paths; boxes that
outlive the framebuffer they were computed for; a shared-memory setup with
three ways to fail half-way; a byte buffer that grows while it is written; a
property cached by a D-Bus proxy and a region name that outlive what they stood
for; a change of a property announced later, by another thread.
`PROJECT.json` lists each hazard at its line.

**What makes each component correct.**

- Rectangles: a box is the least one around what it stands for; alignment
  covers it, stays on the surface and adds less than one unit.
- Display path: no drawn pixel is forgotten on the way to the region or to the
  server; every `MuxUpdate` has one owner; copying and queueing exclude each
  other; calls return; an update fits the framebuffer the server knows; one update
  is unacknowledged, and one more for each wait that ended without an
  acknowledgement.
- Shutdown: the message is sent, the threads end, the process survives.
- Queue: to its callers it is a FIFO whose operations are atomic; the list never
  breaks, no object has two owners, no wakeup is lost.
- Messages: every update arrives at the server with its fields; the events and
  rates the server sends arrive once, in order, and nothing else does.
- MessagePack: what is written is read back, whatever follows it or is cut off;
  the shortest encoding is chosen; no reader returns another number.
- Registration: no two backends share a region, a region is that of the id the
  server knows, and only announced versions register.
- D-Bus property: clients end up with the value the service ends up with.

## 2. Modules

| Module | Contents |
|---|---|
| `MuxRect` | the rectangle arithmetic, as operators |
| `MCMuxRect` | every sequence of regions on small surfaces, with reference definitions of the least box and the aligned box |
| `MuxRectProofs` | types and bounds of the arithmetic, for all inputs |
| `RdpMux` | the display path: three threads, the shared struct, the heap, the queue (atomic), the socket, the server |
| `RdpMuxFlow` | `RdpMux` with a history variable that counts the waits that ended without an acknowledgement |
| `MCRdpMux` | small framebuffers for TLC |
| `MCRdpMuxFlow` | the same for `RdpMuxFlow` |
| `RdpMuxProofs` | the inductive invariant of `RdpMux` (types, owners, locks) and what follows from it; that no drawn pixel is forgotten on its way to the region and to the server; how many updates are in flight |
| `FifoQueue` | abstract: a shared queue whose operations are atomic, as `RdpMux` uses it |
| `MuxQueue` | queue.c on the pointers of the SIMPLEQ macros, with mutex and condition; implements `FifoQueue` |
| `MCMuxQueue` | who calls what, for TLC |
| `MuxQueueProofs` | the inductive invariant of `MuxQueue`, the shape of the list, the wakeups and the refinement |
| `Cmp` | the MessagePack library: writers and readers by family, over any backend |
| `MCCmp` | a backend in memory, a writing and a reading program, bytes from the wire |
| `CmpProofs` | the bytes of numbers and of objects, for every layout, width and backend |
| `MCCmpProofs` | the six properties of `MCCmp`, for every layout, width, room, cut and bytes |
| `MuxMessages` | msgpack.c and the send and receive of 0mq.c; `Cmp` instantiated with `mux_msg_writer` and `mux_msg_reader` |
| `MCMuxMessages` | messages for TLC, and `MuxMessages` composed with `MCMuxRect`: from regions to the bytes the server decodes |
| `MCMuxMessagesProofs` | the least and the aligned box for any number of regions; the messages in both directions, from the regions to what the server decodes |
| `MuxRegister` | backends that come up: init, D-Bus, ZeroMQ, the region in /dev/shm; failures, crashes, restarts |
| `MCMuxRegister` | ids and version lists for TLC |
| `MuxRegisterProofs` | its inductive invariant, its types and the three safety properties |
| `DBusProperty` | the generated skeleton's deferred PropertiesChanged |
| `DBusPropertyProofs` | what the recorded original value is, and that no recorded change is forgotten |

The modules meet at three places. `RdpMux` uses the queue as `FifoQueue`
specifies it, and `MuxQueue` is shown to implement that. `MCMuxMessages`
drives `MuxMessages` with the boxes that `MuxRect` computes. `MuxRegister`
ends where `RdpMux` begins, with a connected backend and a region that may or
may not be mapped (`ShmInitial`, `ShmOutcomes`).

Operators marked `wrong:` in a comment are not used by the specification. Each
is the mutation of the definition next to it for which the run named in
`PROJECT.json` reports a violation: evidence that the property can fail.

### RdpMux and the code

*Steps.* A step is a stretch of code between two points where another thread
can tell the difference. So a held mutex, a wait, a signal, a queue or socket
operation and an access to a shared field each end a step; a critical section
that only looks at `stop` is one. Each thread has a program counter:

- display thread, `vmPc`: `idle`; `refreshCopy` (holding `shm_lock` in
  `mux_display_refresh`, rdpmux.c:224-293); `switchClear`, `switchLock`,
  `switchCopy`, `switchEnqueue` (rdpmux.c:199, 201, 202-207, 211);
- out loop, `outPc`: the stop test (`top`), `lock`, the tests under the lock
  (`test`), `beforeUpdate`/`waitUpdate`/`wokenUpdate` around the wait of line
  332, `enqueue` (341), `beforeAck`/`waitAck`/`wokenAck` around the wait of line
  347, `acked`, `cleanup`, `done`;
- main loop, `mainPc`: `check` (408), `dequeue`, `send`, `poll` (420),
  `stopCheck` (435), then `exit` (444), `clear` (447), `shutdown` (450),
  `wakeUpdate` and `wakeShm` (460-461), `done`.

*Conditions and locks.* A mutex is its holder. A wait releases the mutex and
moves to `wait...`; a signal moves a waiter to `woken...`, where it takes the
mutex again, and is lost if nobody waits. Unlocking a mutex one does not hold
simply releases it, as glibc's normal mutexes do (rdpmux.c:358 and 444 do it).

*Data.* A framebuffer is its size. `MuxUpdate` objects live in a `heap` under
pointers so that sharing, leaking and use after free are visible; `dirty`,
`out`, `queue` and the locals `vmUpd`, `mainUpd` hold pointers. `shm` folds
`shmem_fd`, `shm_buffer` and the name in /dev/shm into one state (`absent`,
`named`, `opened`, `mapped`), since the code only ever tests those. A negative
width becomes a huge unsigned number on the wire (`WriteUint`). Colour formats,
UUIDs and the encoding are left out.

*Pixels.* Three history variables say what the display promises:
`shmStale`, pixels whose copy in the region is out of date; `mirrorStale`,
pixels whose copy at the server is; `srvGot`, pixels a read in progress gets in
their current state. Drawing makes pixels stale everywhere; the copies of the
display thread and the reads of the server make them current. No guard reads
them.

*The environment.* The guest draws any region of `Regions` that fits the
framebuffer. The server (not in this repository) handles messages in order,
takes time to read, answers each update once (also unsuccessfully, with
`"nack"`) and may send input. `Events` switches on the rest: `mux_cleanup`,
the abort of its invalid free, a signal, spurious wakeups. Messages arrive in the
order they were sent: `mux_connect` connects the socket twice to the same endpoint
(0mq.c:101, 108), but ZeroMQ from 4.1 on, which the library requires
(dist/librdpmux.spec:17), ignores the second connect of a dealer socket.

*Death of the process.* `fault` records a division by zero, a copy to a null
pointer, with a negative length or past the region, and the invalid free; no
thread moves afterwards.

### MuxQueue and the code

An update is the address of its object, `next` the link in it. `last` is the
address of a link: `HEAD` for `sqh_first`, else the object whose link it is.
`SIMPLEQ_INSERT_TAIL` (libqueue.h:345) and `SIMPLEQ_REMOVE_HEAD` (355) store
`sqh_last` last; each is two steps, because `mux_queue_check_is_empty`
(queue.c:12) reads `sqh_first` without the lock. `Invoke` and `Return` are
the call and the return; a dequeued object is freed by its caller
(rdpmux.c:408-416). Histories: `list`, the linked objects in order, and
`dropped`, those a clear in progress has freed: to its callers a clear happens
when the last element goes.

### Cmp, MuxMessages and the code

The C functions of c-msgpack.c differ by the width of a field: `cmp_write_u8` to
`u64`, the ten ext writers, the readers of each. `Cmp` has one operator per family
with the type as its argument; a writer gives `[ok, ctx]`, a reader
`[ok, ctx, val]`, the error left in `ctx.error` as in the code (the writers of
numbers return false and set none beyond the marker's). The layout of the
marker byte and all widths are constants, so that all markers and all
boundaries of a small alphabet can be enumerated; the code's values are in the
comments. Byte order is big-endian digits of base `BYTE`; `Values[n]` is how many
numbers n bytes have, a recursive function, since the provers know nothing of
exponentiation. The value of a float is its bytes. The two callbacks are
parameters (`write`, `read`), as in the code. `MCCmp` gives them a memory with room
for so many bytes, which takes a write whole or not at all; `Fresh` is one with
room for any header and for the longest data that the program writes.

`MuxMessages` is one action per handler: `Send` is the serialisation and the send
of the main loop, `Receive` the receive and `mux_process_incoming_msg`. A message
is `PutUint` of `PutUint` ... of `PutArray`, one for each call of `cmp_write_uint`
and `cmp_write_array` in msgpack.c, in its order and with its conversion to
`uint64_t`. The readers are the calls of `cmp_read_uint` one after the other, each on
the context the one before left, whether it failed or not. A block
has as many bytes as `malloc_usable_size` says (`Usable`); bytes nobody wrote are
`Junk`. The server's side (`ServerReceive`, `ServerSend`) is an environment that
speaks the same format, or sends messages that are too short, too long, not
arrays, or of another VM: `Written` is how it makes the bytes of a message, `Decode`
what it understands of one. `HeardOf` says what answers stand for by their numbers
alone, and `Expected` what the library should therefore have done so far. The
assumptions say what the C types say: fields of updates are integers, numbers of
answers have 64 bits and their count 32, the sides of a surface fit a number.

### MuxRegister and the code

`pc` is how far a process is: `initialized` after `mux_init_display_struct`,
`proxy`, `call` and `registered` inside and after `mux_get_socket_path`,
`connected` after `mux_connect`. `refused` is why the last call failed: every
error return of dbus.c, 0mq.c:96-121 and rdpmux.c:150-187 that a backend can see.
`cached` is the proxy's copy of the property, read once. A process may crash
anywhere; the name in /dev/shm stays.

### DBusProperty and the code

What the skeleton does under `priv->lock` is one step; `flush`
(connector.c:4567) is two, because it unlocks between destroying the idle source
and emitting. GObject's freeze and thaw are modelled by how the setter uses them:
the thread that undoes the last freeze delivers `notify`. `announced` is what a
client knows that reads the property at export and then listens.

## 3. What the runs check

| Run | Module | Specification | Checks | Shows |
|---|---|---|---|---|
| MCDisplay | MCRdpMux | Spec | TypeOK, ShmCovered, MirrorCovered, OnlyLargeOverruns, HandedOverIsFrozen | two switches between a 3x3 framebuffer, a 4x1 one and one larger than the region, ALIGN 2, regions far apart, nacks, input, every failure of the shm setup |
| MCShutdown | MCRdpMuxFlow | FlowSpec | SingleOwner, VmOutExclusion, InFlightPerWakeup | cleanup, signal, two switches and spurious wakeups anywhere; up to three waits that end without an acknowledgement |
| MCLiveness | MCRdpMux | LibrarySpec | VmReturns, MainAlwaysPolls | display calls return even if the server stops; the main loop comes back to its socket |
| MCMuxQueue | MCMuxQueue | FairSpec | TypeOK, ListIsWellFormed, NoLostWakeup, IsFifo, DequeueReturns | three threads, three objects, two possible sleepers, a clear against all of them |
| MCCmp | MCCmp | Spec | ValuesArrive, CutsAreNoticed, FailsOnlyWhenFull, ObjectsAreRewritten, NumbersAreCanonical, ReadersAreSound | pairs of values at every boundary, four rooms, every cut; every marker with up to four bytes behind it |
| MCMessages | MCMuxMessages | ChainSpec | MessagesArrive, BlockIsLargeEnough, EventsAreDelivered, RateOfLastSuccess, OnlyUnreadableLeak, LeastBox, AlignedBox, RegionsArrive | pairs of messages in both directions; up to three regions on surfaces to 5x3, followed to the server |
| MCMuxRegister | MCMuxRegister | Spec | TypeOK, RegionsAreExclusive, RegionOfRegistered, VersionWasAnnounced | three backends, two with one id, all failures |
| MCDBusProperty | DBusProperty | FairSpec | TypeOK, OrigIsAnnounced, ChangeIsPending, EventuallyAnnounced | two setters, a flusher and the main context |
| MCAckOwed | MCRdpMux | Spec | AckOwed | **violated**, see below |
| MCStaleUpdate | MCRdpMux | Spec | UpdateFitsAnnounced | **violated** |
| MCShutdownSent | MCRdpMux | FairSpec | ShutdownSent | **violated** |
| MCShmSetup | MCRdpMux | Spec | CopiesHaveRegion | **violated** |

Each takes at most about two minutes with 4 workers. The largest are
MCMuxRegister (3.2 million states), MCShutdown (1.4) and MCDisplay (1.3).

### Disagreements between the documentation and the code

Shown by a run:

1. *Lost acknowledgement* (rdpmux.c:309; MCAckOwed). The signal of msgpack.c:232
   takes no lock and leaves no flag; between lines 341 and 347 it is lost and
   the out loop waits until the next switch.
2. *Stale update* (rdpmux.c:197; MCStaleUpdate). Between clearing the queue and
   queueing the switch the out loop can queue an update of the old framebuffer,
   and neither `dirty_update` nor `out_update` is reset.
3. *No shutdown message* (README.md:83; MCShutdownSent). The out loop leaves with
   `stop_lock` held; the main loop blocks on it at line 435.
4. *Failed mmap* (rdpmux.c:131, 181; MCShmSetup). `shmem_fd` is set before `mmap` is
   tried; when that fails, the next switch skips the setup and copies to a null
   pointer.

Read off the models, without a run of their own:

5. *Large framebuffer* (rdpmux.c:169). The region is not resized "to the size of the
   framebuffer" but has 4096x2048 pixels, and line 202 tests no size.
   `OnlyLargeOverruns` shows that copies leave the region for no other reason.
6. *Concurrent access* (rdpmux.c:310). The wait of line 347 releases `shm_lock`; the
   display thread then copies while the server reads. `ShmCovered` and
   `MirrorCovered` count such a read as stale, and hold because a later update
   covers it.
7. *Invalid free* of `&display->uuid` (rdpmux.c:546) in `mux_cleanup`: undefined,
   and in `MuxCleanup` a choice between an abort and nothing.
8. *Out loop not ended* (README.md:83). The signals of lines 460-461 can come between
   the out loop's stop test and its wait.
9. *No restart* (rdpmux.c:162). `shm_open` with O_EXCL and no `shm_unlink` anywhere:
   in `CreateRegion` a backend that starts again is refused ("exists"). This is
   also why `RegionsAreExclusive` holds.
10. *Versions* (dbus.c:50). "check if our version is in there", but the child of line
   57 is the first number of the list: `Compatible` looks at no other. The proxy
   getter has also released the list it returns (connector.c:4130-4134).
11. *Length of a message* (msgpack.c:310). Not the "size of successfully written
   data" but the capacity of the block is returned and sent; the bytes behind
   the message were never written. `MessagesArrive` shows that decoding is not
   harmed.
12. *Leak* (msgpack.c:213, 217). The early returns skip the `free` of line 238;
    `OnlyUnreadableLeak` shows that nothing else does.
13. *Fields of DISPLAY_UPDATE* (README.md:120-138). The documentation names corners,
    the wire has width and height (msgpack.c:265).
14. *Empty ext* (c-msgpack.c:910, 939, 968). The writers of an ext of size 0 call the
    backend with no bytes, take its count for a failure, and report one although
    everything is written; `FailsOnlyWhenFull` excepts it. Next to it,
    `str_size + 1` wraps for a string of 2^32 - 1 bytes (line 1691).

### Bounds

- `Ptr`: four or five objects. At most `dirty`, `out`, the updates queued or being sent
  (one, unless waits end early) and one object per switch are alive together;
  the allocation is a step's guard, so running out only cuts behaviours where still more are alive.
- `Malloc`: any unused address with symmetry, or one fixed unused address where
  symmetry is unsound (liveness). Addresses are only compared, so the second
  loses behaviours only up to renaming.
- `MaxSwitches`: 1 or 2. Two give a switch that meets everything an earlier
  framebuffer left behind, and a queue clear at any point of the other threads.
- `MaxEarly`: 3 waits that end without an acknowledgement; the fourth is cut. The
  proof has no bound.
- `SendHwm`, `RecvHwm`: 1 makes sends block as early as they can.
- Sizes: 3x3 with ALIGN 2 has boxes that round down, round up and are cut;
  4x1 is both larger and smaller than it, and 4x3 does not fit the region.
  1x2 and 2x1 are the smallest pair that can each outgrow the other. Where
  geometry plays no part the framebuffer is one pixel.
- `WORD` 64 instead of 2^64: larger than any coordinate.
- Queue: three threads are one that clears and enqueues, one that enqueues and
  dequeues, and one that tests and dequeues; three objects let the list have an
  inner element while another is owned by a caller. The proof has no bound.
- Alphabet: `BYTE` 128 with widths 1, 2, 3, 4 and fixed headers of 3, 3 and 7 (7, 7, 7
  in MCMessages) keeps the order of all markers and the inequalities the code
  relies on (`LayoutFits`), and numbers within TLC's 32 bits.
- Messages: `MaxMessages` 2 lets every message meet one before it, in the buffer,
  the rate and the callbacks; the handlers keep nothing else. `MinAlloc` 12, as
  24 is to fields of 8 bytes: a message outgrows the first block.
- Registration: three backends give two with one id and a third with another.
- Property: four sets by two threads and one flusher give a set before, during and
  after an emission and a flush.

### Fairness

`LibraryFairness` is weak fairness of each thread's next step: the operating
system schedules runnable threads. Mutexes are not assumed fair: a thread gets
one if it stays free. Nothing forces the backend to call anything, but a call
in progress goes on. `FairSpec` of `RdpMux` adds that the server keeps reading
and answering; `VmReturns` and `MainAlwaysPolls` do without it. The latter
therefore excepts a main loop that a full socket keeps in `send`
(0mq.c:75), and ends with `mux_cleanup`. The counterexample to `ShutdownSent`
uses a guest that draws nothing, so that no thread starves another of
`shm_lock`: the loop hangs on a lock never released.

`MuxQueue` has strong fairness of taking its mutex, on entry and after a wait: the
critical sections are a few instructions and every caller does other work between
two of them, so a thread that keeps asking gets it; with weak fairness two
threads may pass the mutex to each other for ever. `DBusProperty` has weak
fairness of a call in progress, of an emission and of the main context, which the
service runs; nobody is forced to set or to flush.

`CHECK_DEADLOCK FALSE` appears where the system may stop: the process ends
(cleanup, a fault), everything bounded has been done, or all threads of the queue
wait for an element.

## 4. What is proved

Everything below holds for every value of the constants that satisfies the
assumption named in the module: all sizes, regions, threads, objects, backends,
failures and numbers of calls. Where a theorem needs more, the hypothesis is
part of its statement and explained here. Threads, objects and setters
form finite sets of any size (`QueueAssumption`, `PropertyAssumption`), because
two proofs count them.

### Rectangles

`MuxRectProofs`:

- `ExpandRectLeast`: `mux_expand_rect` yields the least box around its arguments;
- `AlignToSurfaceCovers`: for a box on the surface, the aligned box covers it,
  stays on the surface and adds less than ALIGN at each edge.

`MCMuxMessagesProofs` carries both over to histories. `BoxIsLeast` and
`BoxIsAligned` (LeastBox, AlignedBox): after any number of regions the box is
the least around all of them, and the refreshed one its alignment. LeastBox is about
extreme coordinates, the invariant (`RectInv`) about what makes them extreme:
the box is `Tight`, it has every drawn pixel and one on each of its four edges.

### Display path

`RdpMuxProofs`: `Invariant == Spec => []IInv` with

    IInv == TypeOK /\ Control /\ SingleOwner /\ LockDiscipline

and from it `TypeCorrect`, `OwnersAreSingle`, `VmAndOutExclude` and
`CopiesStayInside` (the properties TypeOK, SingleOwner, VmOutExclusion, OnlyLargeOverruns
of the runs). The last excepts framebuffers with more pixels than the region, which
the code does not keep out (rdpmux.c:202), and has no hypothesis.

None of the properties is inductive alone. `TypeOK` needs to know that
the object a thread is about to read is allocated and of the right kind:
`Control` says which local pointers are set at which program counter and that
`dirty_update` and `out_update` are display updates; `SingleOwner` says that
what is owned is allocated. `SingleOwner` in turn needs `Control`, so that an
assignment to a local never overwrites a pointer. `VmOutExclusion` needs
`LockDiscipline`: the out loop holds `shm_lock` in its critical sections, and
the display thread holds it while copying *or the out loop is done*: the
weakening is what the unlock at the cleanup label costs, and enough, because
no other thread takes the lock.

One lemma per action shows that it preserves each conjunct; `OutFrame`,
`MainFrame` and `OutsideFrame` deal once with the steps that touch no pointer;
`AppendFacts`, `TailFacts`, `EnqueueFacts` and `QueueClearFacts` say what the
queue operations do to owners.

From `IInv` alone follows an action property, too: `HandedOverStays`
(HandedOverIsFrozen). No thread writes to an update that is queued or being sent,
and it leaves the queue and the main loop only by being freed. Refreshes write to
`dirty_update` and `out_update` all the time (rdpmux.c:122, 243-263, 286), so this is
what resetting `out_update` at line 342 is for. `HandedFacts` (what is handed over
is nobody else's) reduces it to the steps that write to the heap or move the queue.

The second part of the module, on top of `IInv`:

- `ShmIsCovered == Spec => []ShmCovered`, without a hypothesis. `ShmInv` adds to
  the property that stale pixels lie on the framebuffer, so that a box cut at
  the surface loses none. The proof uses `MuxRectProofs`: growing keeps the
  pixels of both arguments, aligning keeps those on the surface, and the
  copied strip has all rows of the box.
- `MirrorIsCovered`: `Spec => []MirrorCovered`, from

      MirrorInv == /\ BoxesOnWire /\ VmAnnounces /\ Announced
                   /\ IdleGetsNothing /\ AllCarried

  A pixel in the region and not at the server is `Carried`: `out` covers it, the
  server is just reading it, or an update or an announcement that covers it is
  queued, dequeued or on the wire (`Sent`). An announcement covers all of its
  framebuffer, but `mux_display_switch` clears the queue before it queues its own:
  `VmAnnounces` and `Announced` say that the announcement of the current
  framebuffer is allocated and about to be queued, or is the last one on the way,
  or has arrived. Its one hypothesis is `SizesFitWire`: the sides of a framebuffer
  are below 2^64 and survive the conversion of msgpack.c:266-269.

The third part is about `RdpMuxFlow`, i.e. `RdpMux` with the history variable
`early` (`FlowIsSpec`: all that holds of RdpMux holds of it). The wait of rdpmux.c:347 is
not in a loop and tests nothing. Besides an acknowledgement it can be ended by a
switch (rdpmux.c:206), by the last signal of an interrupted main loop (rdpmux.c:461),
or spuriously; `early` counts these (`EndsEarly`). Then

- `UpdatesInFlight == FlowSpec => []InFlightPerWakeup`: `InFlight <= 1 + early`. Without
  a hypothesis: any number of switches, spurious wakeups and signals;
- `OneUntilEarlyWakeup == FlowSpec => [](early = 0 => OneUpdateInFlight)`: what
  rdpmux.c:309-311 promises holds up to the first such wakeup;
- `UpdatesPerSwitch`, in terms of the calls alone:
  `FlowSpec => [](InFlight <= 1 + switches + Ended)`, where `Ended` is 1 once the
  main loop has ended. Its hypothesis `SignalsOnly` is that nobody wakes spuriously,
  which would need no call at all. It follows from the first one and `WakeInv`: a
  switch and the end of the main loop signal once each.

The invariant is

    FlowInv == early \in Nat /\ SwitchAllocated /\ Balance <= 1 + early

`Balance` is what is in transit (queued, dequeued, on the wire, being read, or
answered by a message still under way) plus a `Credit` of one while the out loop is
not before its wait for an acknowledgement, i.e. may still queue an update.
Queueing moves one from the credit into transit; an acknowledgement received
leaves transit and gives the credit back, if somebody waits for it, and sinks
otherwise; clearing the queue only lowers the sum; `EndsEarly` is the only step
that raises it. The lemmas `CountAppend`, `CountTail` and `FlowBalance` count the
updates of a sequence that grows or shrinks at its ends. The bound is attained: TLC
reaches three updates in flight after two such wakeups in MCShutdown.

### Queue

`MuxQueueProofs`: `Invariant == Spec => []IInv` with

    IInv == TypeOK /\ Locking /\ Calling /\ Chained /\ Ended /\ Owning /\ Dropping

`Locking`: exactly the holder of the mutex is in a critical section. `Chained`: the
links run through `list`, once through each object. `Ended`: `sqh_last` is the
link at the end, except inside the macros. `Owning`: the listed objects are
allocated and nobody else's. `Dropping`: only a clear that is not done has freed
elements. From it follow

- `TypeCorrect`, and `LinksAreSound` (ListIsWellFormed);
- `NoWakeupIsLost` (NoLostWakeup): while a thread sleeps in the dequeue there are at
  least as many threads on their way to an element, or about to announce one, as
  there are elements. The proof counts both sides with the cardinality theorems, one lemma
  per action;
- the refinement `ImplementsFifo == Spec => IsFifo`: one lemma per action shows
  which step of `FifoQueue` it is, all others stutter.

`QueueAssumption` says NULL is not an object, a thread, a request or a reply, which
untyped set theory does not know by itself.

### MessagePack

`CmpProofs` holds what is true of the library with any backend. TLAPS cannot use
the induction theorems, whose parameter is a predicate; a *set* of naturals
without a least counterexample does as well (`LeastNatural`, `NatInduct`), and the
recursive functions of `Cmp` are determined by what they satisfy (`Powers`,
`Beginnings`). So

- `NumberOfBigEndian`, `BigEndianOfNumber`: writing a number in n bytes and reading
  n bytes are inverse to each other; `SignedOfBigEndian`, `BigEndianOfSigned`: the
  same in two's complement, within the range of the C type;
- `AfterFixed`, `AfterField`, `AfterExt`: the marker tells the type, since the layout
  makes the ranges of markers disjoint (`LayoutFits`); `ReadsFixed`, `ReadsField`: if
  the backend returns the `Header` of an object, `cmp_read_object` gives the object.

`MCCmpProofs` proves the six properties of `MCCmp`: for every alphabet, layout and
width that satisfies `LayoutFits`, every room and every bytes. Its one hypothesis,
`BackendIsMemory`, is that `write` and `read` are `MCWrite` and `MCRead`, which is
what MCCmp.cfg puts for them (a constant cannot be given a value in a module).

*From the wire.* `WireInv` says which object was read from which bytes and what was
written of it. Any bytes that do not start with the unused marker begin with the
header of an object, or with a beginning of one (`WireBegins`); `ReadsAs`
and `Wrote` say what reading and writing make of a header that is there, is cut,
or does not fit. From that `EveryObjectIsRewritten` (ObjectsAreRewritten). For
numbers, `As` says by type and value alone which readers accept the object,
`Canonical` which object the writers choose; `EveryNumberIsCanonical`
(NumbersAreCanonical) and `EveryReaderIsSound` (ReadersAreSound) compare them.

*A stream.* `Encodes(i, t, v, s)`: the writer of the value i gives the header of the
object (t, v) with the data s behind it, and the reader of i makes of that object
and that data the meaning of i. It is shown for every kind of value, i.e. for
every pair of a writer and a reader. The invariant is

    StreamInv == \E at, b : Stream(at, b), unless bytes come from the wire

with b the bytes written for the values sent, and the value k between `at[k - 1]`
and `at[k]`. The bytes delivered agree with b as far as they go; the reader is at
`at[Len(got)]`, or has failed at a value that is cut; a failed writer has left any
beginning of its value. It gives `EveryValueArrives` (ValuesArrive),
`EveryCutIsNoticed` (CutsAreNoticed) and `FailuresAreForRoom` (FailsOnlyWhenFull).

### Messages

`MCMuxMessagesProofs`, on top of `CmpProofs` with the callbacks of msgpack.c, all for
`ChainSpec`, where boxes come from `MCMuxRect` (`ChainIsRect` shows that the box
behaves as there) and updates also from `Updates`:

- `MessagesStayInBlock` (BlockIsLargeEnough). `mux_msg_writer` doubles the block at
  most once per call, with no check that this is enough (msgpack.c:38-78). It is,
  because no single write is longer than the least block: the longest is a number
  of eight bytes, and `malloc_usable_size` is never below 24.
- `MessagesAreUnderstood` (MessagesArrive), from `SentInv`: what the server has
  understood, followed by what it will decode from the frames under way, are the
  fields of what was sent. Behind it: the numbers of a message lie one behind the
  other in its bytes (`Laid`), also when the block grows between them, and a reader
  that stands before one returns it and then stands before the next (`ReadsUint`).
- `EventsAreHeard`, `RateIsHeard`, `BuffersAreFreed` (EventsAreDelivered,
  RateOfLastSuccess, OnlyUnreadableLeak), from `HearingInv`: callbacks, rate and
  buffers are those of the answers taken, and what is under way are the bytes of
  the others. The handlers are shown, by the kind of message, to stop exactly where
  the answer has no more numbers or one of more than 32 bits.
- `PixelsArrive` (RegionsArrive) puts it together: `BoxInv` says that the first update
  is the aligned box, `AlignedBox` what that covers, `SentInv` that it is
  decoded, and a surface whose sides fit a number loses nothing in `Uint64`.

### Registration and the D-Bus property

`MuxRegisterProofs`: `TypeCorrect`, `RegionsExclude`, `RegionFollowsId` and
`VersionsMatch`. What makes exclusion inductive is `RegionNamed`: as long as a region
is mapped its name exists, so that O_EXCL refuses it to everybody else.
`IdByRegistration` says that `vm_id` is set exactly by a successful call.

`DBusPropertyProofs`: `OriginalIsAnnounced`, whose invariant adds that nothing is
recorded before the object is exported; `TypeCorrect` and `ChangesArePending`
(ChangeIsPending) from

    PInv == TypeOK /\ Roles /\ CountIsSetters /\ SourceIsLive /\ ChangeIsPending

The freeze count is the number of setters inside their call (`CountIsSetters`): so
the last of them to leave finds it 0 and notifies, and it is never negative.

### Only model-checked

- Liveness (VmReturns, MainAlwaysPolls, DequeueReturns, EventuallyAnnounced): TLAPS has
  no ENABLED and no fairness.
- AckOwed, UpdateFitsAnnounced, ShutdownSent and CopiesHaveRegion, which the code
  violates.

Every other property of a run is stated by a theorem.

## 5. Not modelled, and the plan

Left out for good:

- of connector.c, the same generated code for the three standard interfaces
  (Properties, Introspectable, ObjectManager), method dispatch, the GObject
  boilerplate and the asynchronous calls: the library uses none of it;
- of libqueue.h, the lists, tail queues and circular queues and the SIMPLEQ macros
  that queue.c does not use;
- of c-msgpack.c, the version and error-text functions;
- logging, pixel formats, the hypervisor's and the server's own code beyond what
  the library sees of them, ZeroMQ's lingering when the socket is destroyed with
  the shutdown message still unsent.

What could come next:

1. More of the generated D-Bus code, when the library starts to use it.
