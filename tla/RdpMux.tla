------------------------------- MODULE RdpMux -------------------------------
(***************************************************************************)
(* The display path of librdpmux (src/src/rdpmux.c with queue.c, 0mq.c and *)
(* msgpack.c): three threads that share one struct mux_display, and the    *)
(* RDPMux server they talk to over a ZeroMQ socket and a shared memory     *)
(* region.                                                                 *)
(*                                                                         *)
(*   vm    the hypervisor's display thread, calling mux_display_update,    *)
(*         mux_display_switch and mux_display_refresh one at a time        *)
(*   out   mux_out_loop: turns out_update into a queued message, then      *)
(*         waits on shm_cond for the server's acknowledgement              *)
(*   main  mux_mainloop: sends what is queued, receives acknowledgements   *)
(*         and input events, shuts the socket down at the end              *)
(*   srv   the server (not in this repository): reads the shared region    *)
(*         for each message it gets and acknowledges display updates       *)
(*                                                                         *)
(* A step is a stretch of code between two points where another thread can *)
(* tell the difference: taking or releasing a mutex that stays held,       *)
(* waiting on or signalling a condition, touching the queue, the socket or *)
(* a field another thread reads.  A critical section that only reads or    *)
(* sets "stop" is one step.  A mutex is its holder, "free" when nobody's.  *)
(* A wait on a condition is a program counter ("waitUpdate", "waitAck",    *)
(* only the out loop waits on each); a signal moves the waiter to the      *)
(* matching "woken" value, where it still has to take shm_lock again.      *)
(*                                                                         *)
(* MuxUpdate objects are pointers into a heap, so that sharing one between *)
(* two places, using it after g_free or losing it can be told from handing *)
(* it over.                                                                *)
(***************************************************************************)
EXTENDS MuxRect, Sequences, FiniteSets

CONSTANTS
  Ptr,             \* the addresses a MuxUpdate may have
  Malloc(_),       \* those of a set of unused addresses g_malloc0 may return
  NULL,            \* the null pointer, and "none yet"
  FREE,            \* the content of an address that is not allocated
  Surfaces,        \* the framebuffer sizes the backend switches between
  Regions,         \* the changed regions the backend reports
  WORD,            \* 2^64, the range of an integer on the wire
  ShmPixels,       \* the pixels the shared region holds, 4096 * 2048
  ShmInitial,      \* what the process may find in /dev/shm, see shm
  ShmOutcomes,     \* how creating the shared region may end
  Framerates,      \* the frame rates the server may ask for
  Events,          \* what else may happen, see EventNames
  MaxSwitches,     \* bound: calls of mux_display_switch
  SendHwm,         \* bound: messages to the server ZeroMQ buffers
  RecvHwm          \* bound: messages from the server ZeroMQ buffers

EventNames ==
  {"cleanup",     \* the backend calls mux_cleanup
   "abort",       \* the invalid g_free in mux_cleanup ends the process
   "interrupt",   \* a signal sets zsys_interrupted (mux_handler)
   "spurious",    \* pthread_cond_wait returns without a signal
   "nack",        \* the server reports an unsuccessful update
   "input"}       \* the server sends something that is not an acknowledgement

ShmStates == {"absent", "named", "opened", "mapped"}

ASSUME ConstantsAssumption ==
  /\ NULL \notin Ptr
  /\ \A S \in SUBSET Ptr : Malloc(S) \subseteq S
  /\ FREE \notin [type : {"DISPLAY_UPDATE"}, rect : Rect]
  /\ FREE \notin [type : {"DISPLAY_SWITCH"}, size : Surfaces]
  /\ Surfaces \subseteq Surface
  /\ NULL \notin Surfaces
  /\ Regions \subseteq Region
  /\ WORD \in Nat \ {0}
  /\ ShmPixels \in Nat
  /\ ShmInitial \subseteq {"absent", "named"}
  /\ ShmOutcomes \subseteq {"ok", "open", "ftruncate", "mmap"}
  /\ Framerates \subseteq Nat
  /\ 20 \in Framerates
  /\ Events \subseteq EventNames
  /\ MaxSwitches \in Nat
  /\ SendHwm \in Nat \ {0}
  /\ RecvHwm \in Nat \ {0}

VARIABLES
  surface,      \* display->surface, its size
  shm,          \* shmem_fd, shm_buffer and the name in /dev/shm, as one state:
                \*   "absent" no region; "named" it exists but shmem_fd is -1;
                \*   "opened" shmem_fd is set, shm_buffer is NULL; "mapped"
  dirty,        \* display->dirty_update
  out,          \* display->out_update
  queue,        \* display->outgoing_messages
  heap,         \* the MuxUpdate objects
  shmLock,      \* who holds shm_lock
  stopLock,     \* who holds stop_lock
  stop,         \* display->stop
  framerate,    \* display->framerate
  vmPc,         \* where the display thread is
  vmUpd,        \* the local "update" of mux_display_switch
  switches,     \* calls of mux_display_switch so far
  outPc,        \* where mux_out_loop is
  mainPc,       \* where mux_mainloop is
  mainUpd,      \* the local "update" of mux_mainloop
  stopping,     \* the local "stopping" of mux_mainloop
  interrupted,  \* zsys_interrupted
  toServer,     \* messages sent and not yet taken by the server
  toLib,        \* messages of the server not yet received
  srv,          \* where the server is
  srvSize,      \* the framebuffer size the server works with
  srvJob,       \* the message the server is processing
  fault,        \* why the process died, "none" while it runs
  shmStale,     \* pixels whose copy in the shared region is not the current one
  mirrorStale,  \* pixels whose copy at the server is not the current one
  srvGot        \* pixels the read in progress gets in their current state

vmVars   == <<surface, shm, dirty, vmPc, vmUpd, switches>>
outVars  == <<out, outPc>>
mainVars == <<mainPc, mainUpd, stopping, interrupted>>
lockVars == <<shmLock, stopLock>>
memVars  == <<queue, heap>>
srvVars  == <<srv, srvSize, srvJob>>
netVars  == <<toServer, toLib>>
pixVars  == <<shmStale, mirrorStale, srvGot>>
flagVars == <<stop, framerate, fault>>

vars == <<vmVars, outVars, mainVars, lockVars, memVars, srvVars, netVars,
          pixVars, flagVars>>

-----------------------------------------------------------------------------
(***************************************************************************)
(* Updates and messages.  An update on the wire carries the region it      *)
(* covers (msgpack.c:259-268), a switch the size.  cmp_write_uint takes a  *)
(* uint64_t: a negative width or height arrives as a number near WORD.     *)
(***************************************************************************)
Updates  == [type : {"DISPLAY_UPDATE"}, rect : Rect]
Switches == [type : {"DISPLAY_SWITCH"}, size : Surfaces]

UpdateObject(u) == [type |-> "DISPLAY_UPDATE", rect |-> u]
SwitchObject(s) == [type |-> "DISPLAY_SWITCH", size |-> s]

WriteUint(r) == [x |-> r.x % WORD, y |-> r.y % WORD,
                 w |-> r.w % WORD, h |-> r.h % WORD]

Wire(o) == IF o.type = "DISPLAY_UPDATE"
           THEN [type |-> "DISPLAY_UPDATE", region |-> WriteUint(RegionOf(o.rect))]
           ELSE [type |-> "DISPLAY_SWITCH", size |-> o.size]

Shutdown       == [type |-> "SHUTDOWN"]
Complete(f)    == [type |-> "DISPLAY_UPDATE_COMPLETE", success |-> 1, framerate |-> f]
NotComplete    == [type |-> "DISPLAY_UPDATE_COMPLETE", success |-> 0, framerate |-> 0]
Input          == [type |-> "INPUT"]

LibMessages    == [type : {"DISPLAY_UPDATE"}, region : Region]
                  \cup Switches \cup {Shutdown}
ServerMessages == {Complete(f) : f \in Framerates} \cup {NotComplete, Input}

(***************************************************************************)
(* The heap.  g_malloc0 gives an address that is not in use; g_free gives  *)
(* it back.                                                                *)
(***************************************************************************)
Fresh == Malloc({p \in Ptr : heap[p] = FREE})

QueuedPtrs == {queue[i] : i \in 1 .. Len(queue)}

EnqueueLatest(p) == queue' = <<p>>   \* wrong: only the latest update is kept

\* mux_queue_enqueue puts an update at the end.
Enqueue(p) == queue' = Append(queue, p)

\* mux_queue_clear frees every queued update and leaves the queue empty.
QueueClear ==
  /\ queue' = <<>>
  /\ heap'  = [p \in Ptr |-> IF p \in QueuedPtrs THEN FREE ELSE heap[p]]

(***************************************************************************)
(* pthread_cond_signal on update_cond and shm_cond: the out loop wakes if  *)
(* it is waiting there, and nothing is remembered if it is not.            *)
(***************************************************************************)
SignalSharedCond ==    \* wrong: one condition for both waits
  outPc' = CASE outPc = "waitUpdate" -> "wokenUpdate"
             [] outPc = "waitAck"    -> "wokenAck"
             [] OTHER                -> outPc

SignalUpdateCond ==
  outPc' = IF outPc = "waitUpdate" THEN "wokenUpdate" ELSE outPc

SignalShmCond ==
  outPc' = IF outPc = "waitAck" THEN "wokenAck" ELSE outPc

-----------------------------------------------------------------------------
(***************************************************************************)
(* Init: mux_init_display_struct and mux_connect have returned, the two    *)
(* loops are about to start, and no framebuffer has been handed over.      *)
(***************************************************************************)
Init ==
  /\ surface = NULL
  /\ shm \in ShmInitial
  /\ dirty = NULL /\ out = NULL
  /\ queue = <<>>
  /\ heap = [p \in Ptr |-> FREE]
  /\ shmLock = "free" /\ stopLock = "free"
  /\ stop = FALSE
  /\ framerate = 20
  /\ vmPc = "idle" /\ vmUpd = NULL /\ switches = 0
  /\ outPc = "top"
  /\ mainPc = "check" /\ mainUpd = NULL /\ stopping = FALSE
  /\ interrupted = FALSE
  /\ toServer = <<>> /\ toLib = <<>>
  /\ srv = "idle" /\ srvSize = NULL /\ srvJob = NULL
  /\ fault = "none"
  /\ shmStale = {} /\ mirrorStale = {} /\ srvGot = {}

-----------------------------------------------------------------------------
(***************************************************************************)
(* The display thread.                                                     *)
(***************************************************************************)

(***************************************************************************)
(* The guest draws the region r and the backend reports it: the first      *)
(* region since the last refresh starts a dirty update, a later one grows  *)
(* it.  The drawn pixels are now newer than the shared region, than the    *)
(* server's copy, and than what a read in progress gets.                   *)
(***************************************************************************)
DrawPixels(r) ==
  /\ shmStale'    = shmStale    \cup Cells(RectOf(r))
  /\ mirrorStale' = mirrorStale \cup Cells(RectOf(r))
  /\ srvGot'      = srvGot      \ Cells(RectOf(r))

MuxDisplayUpdate(r) ==
  /\ vmPc = "idle"
  /\ surface # NULL /\ Fits(RectOf(r), surface)
  /\ \/ /\ dirty = NULL
        /\ \E p \in Fresh :
             /\ heap'  = [heap EXCEPT ![p] = UpdateObject(RectOf(r))]
             /\ dirty' = p
     \/ /\ dirty # NULL
        /\ heap' = [heap EXCEPT ![dirty] =
                      IF @.type = "DISPLAY_UPDATE"
                      THEN UpdateObject(ExpandRect(@.rect, r)) ELSE @]
        /\ UNCHANGED dirty
  /\ DrawPixels(r)
  /\ UNCHANGED <<surface, shm, vmPc, vmUpd, switches, outVars, mainVars,
                 lockVars, queue, srvVars, netVars, flagVars>>

(***************************************************************************)
(* mux_display_refresh returns 1000 / framerate: the division is there on  *)
(* every path.                                                             *)
(***************************************************************************)
ReturnInterval == fault' = IF framerate = 0 THEN "divide" ELSE fault

(***************************************************************************)
(* mux_display_refresh with nothing dirty, or with shm_lock taken: nothing *)
(* is copied and the dirty update is kept for the next refresh.            *)
(***************************************************************************)
DropDirty ==        \* wrong: the deferred update is thrown away
  /\ dirty' = NULL
  /\ heap' = [p \in Ptr |-> IF p = dirty THEN FREE ELSE heap[p]]

KeepDirty == UNCHANGED <<dirty, heap>>

TryLockUnchecked == TRUE   \* wrong: the result of trylock is not looked at

TryLockShm == shmLock = "free"

RefreshDeferred ==
  /\ vmPc = "idle"
  /\ dirty = NULL \/ ~TryLockShm
  /\ ReturnInterval
  /\ KeepDirty
  /\ UNCHANGED <<surface, shm, vmPc, vmUpd, switches, outVars, mainVars,
                 lockVars, queue, srvVars, netVars, pixVars, stop, framerate>>

(***************************************************************************)
(* mux_display_refresh takes shm_lock with pthread_mutex_trylock, aligns   *)
(* the dirty box and starts the memcpy.  A box with y2 < y1 gives memcpy a *)
(* negative length, a region that was never mapped a null destination, and *)
(* a box past the last row of the region is written outside it: each ends  *)
(* the process.                                                            *)
(***************************************************************************)
CopyFault(u) ==
  IF u.y2 < u.y1 THEN "negative"
  ELSE IF shm # "mapped" /\ u.y1 < u.y2 THEN "null"
  ELSE IF u.y2 * surface.w > ShmPixels THEN "overrun" ELSE fault

RefreshBegin ==
  /\ vmPc = "idle" /\ dirty # NULL
  /\ TryLockShm
  /\ shmLock' = "vm"
  /\ LET u == AlignToSurface(heap[dirty].rect, surface) IN
       /\ heap'  = [heap EXCEPT ![dirty] = UpdateObject(u)]
       /\ fault' = CopyFault(u)
  /\ vmPc' = "refreshCopy"
  /\ UNCHANGED <<surface, shm, dirty, vmUpd, switches, outVars, mainVars,
                 stopLock, queue, srvVars, netVars, pixVars, stop, framerate>>

(***************************************************************************)
(* The memcpy is done: the dirty update becomes the out update, or grows   *)
(* the one the out loop has not taken yet, and is freed; the out loop is   *)
(* signalled and shm_lock released.                                        *)
(***************************************************************************)
ReplaceOut ==       \* wrong: the box that was waiting is overwritten
  heap' = [heap EXCEPT ![out] = heap[dirty], ![dirty] = FREE]

GrowOut ==
  heap' = [heap EXCEPT ![out] = UpdateObject(ExpandRect(@.rect, RegionOf(heap[dirty].rect))),
                       ![dirty] = FREE]

RefreshEnd ==
  /\ vmPc = "refreshCopy"
  /\ shmStale' = shmStale \ CopiedCells(heap[dirty].rect, surface)
  /\ \/ /\ out = NULL
        /\ \E p \in Fresh :
             /\ heap' = [heap EXCEPT ![p] = heap[dirty], ![dirty] = FREE]
             /\ out'  = p
     \/ /\ out # NULL
        /\ GrowOut
        /\ UNCHANGED out
  /\ dirty' = NULL
  /\ SignalUpdateCond
  /\ shmLock' = "free"
  /\ vmPc' = "idle"
  /\ ReturnInterval
  /\ UNCHANGED <<surface, shm, vmUpd, switches, mainVars, stopLock, queue,
                 srvVars, netVars, mirrorStale, srvGot, stop, framerate>>

(***************************************************************************)
(* mux_display_switch: the shared region is created the first time the     *)
(* call gets that far.  shm_open (O_EXCL) fails when the name exists;      *)
(* after a failed ftruncate the name stays and shmem_fd is still -1; after *)
(* a failed mmap shmem_fd is set and shm_buffer is still NULL.             *)
(***************************************************************************)
ShmSetup(o) ==
  CASE shm # "absent"   -> shm
    [] o = "open"       -> "absent"
    [] o = "ftruncate"  -> "named"
    [] o = "mmap"       -> "opened"
    [] OTHER            -> "mapped"

(***************************************************************************)
(* The call begins: display->surface is replaced, the region created if    *)
(* shmem_fd is still -1, and unless that failed the switch update          *)
(* allocated.  No pixel of the new framebuffer is in the shared region or  *)
(* at the server yet.                                                      *)
(***************************************************************************)
SwitchBegin(s) ==
  /\ vmPc = "idle" /\ switches < MaxSwitches
  /\ switches' = switches + 1
  /\ surface' = s
  /\ shmStale' = SurfaceCells(s) /\ mirrorStale' = SurfaceCells(s) /\ srvGot' = {}
  /\ \E o \in ShmOutcomes :
       /\ shm' = ShmSetup(o)
       /\ \/ /\ shm \in {"absent", "named"} /\ shm' # "mapped"
             /\ UNCHANGED <<vmPc, vmUpd, heap>>
          \/ /\ shm \in {"opened", "mapped"} \/ shm' = "mapped"
             /\ \E p \in Fresh :
                  /\ heap'  = [heap EXCEPT ![p] = SwitchObject(s)]
                  /\ vmUpd' = p
             /\ vmPc' = "switchClear"
  /\ UNCHANGED <<dirty, outVars, mainVars, lockVars, queue, srvVars, netVars,
                 flagVars>>

\* The messages for the old framebuffer are dropped from the queue.
SwitchClear ==
  /\ vmPc = "switchClear"
  /\ QueueClear
  /\ vmPc' = "switchLock"
  /\ UNCHANGED <<surface, shm, dirty, vmUpd, switches, outVars, mainVars,
                 lockVars, srvVars, netVars, pixVars, flagVars>>

\* shm_lock is taken and the whole framebuffer copied: the copy needs a mapped
\* region that is large enough.
SwitchLock ==
  /\ vmPc = "switchLock"
  /\ shmLock = "free"
  /\ shmLock' = "vm"
  /\ fault' = IF shm # "mapped" THEN "null"
              ELSE IF surface.w * surface.h > ShmPixels THEN "overrun" ELSE fault
  /\ vmPc' = "switchCopy"
  /\ UNCHANGED <<surface, shm, dirty, vmUpd, switches, outVars, mainVars,
                 stopLock, memVars, srvVars, netVars, pixVars, stop, framerate>>

\* The copy is done: the out loop is signalled on shm_cond, the lock released.
SwitchCopied ==
  /\ vmPc = "switchCopy"
  /\ shmStale' = {}
  /\ SignalShmCond
  /\ shmLock' = "free"
  /\ vmPc' = "switchEnqueue"
  /\ UNCHANGED <<surface, shm, dirty, vmUpd, switches, out, mainVars, stopLock,
                 memVars, srvVars, netVars, mirrorStale, srvGot, flagVars>>

SwitchEnqueue ==
  /\ vmPc = "switchEnqueue"
  /\ Enqueue(vmUpd)
  /\ vmUpd' = NULL
  /\ vmPc' = "idle"
  /\ UNCHANGED <<surface, shm, dirty, switches, outVars, mainVars, lockVars,
                 heap, srvVars, netVars, pixVars, flagVars>>

\* The rest of a call that has begun.
VmReturn == RefreshEnd \/ SwitchClear \/ SwitchLock \/ SwitchCopied \/ SwitchEnqueue

VmNext ==
  \/ \E r \in Regions : MuxDisplayUpdate(r)
  \/ RefreshDeferred
  \/ RefreshBegin
  \/ \E s \in Surfaces : SwitchBegin(s)
  \/ VmReturn

-----------------------------------------------------------------------------
(***************************************************************************)
(* mux_out_loop.  The three places that find "stop" set leave the loop     *)
(* with stop_lock still held, and meet at the cleanup label, which unlocks *)
(* shm_lock whether or not the loop holds it (glibc's normal mutex makes   *)
(* that a plain release).                                                  *)
(***************************************************************************)
OutUnchanged == UNCHANGED <<vmVars, mainVars, srvVars, netVars, pixVars, flagVars>>

StopSeen ==
  /\ stop
  /\ stopLock' = "out"
  /\ outPc' = "cleanup"

OutTop ==
  /\ outPc = "top" /\ stopLock = "free"
  /\ \/ StopSeen
     \/ ~stop /\ outPc' = "lock" /\ UNCHANGED stopLock
  /\ UNCHANGED <<out, shmLock, memVars>> /\ OutUnchanged

\* pthread_mutex_lock(shm_lock), also as the end of the wait on update_cond.
OutLock ==
  /\ outPc \in {"lock", "wokenUpdate"} /\ shmLock = "free"
  /\ shmLock' = "out"
  /\ outPc' = "test"
  /\ UNCHANGED <<out, stopLock, memVars>> /\ OutUnchanged

\* Nothing to send, or something: both paths look at "stop" before they go on.
OutTest ==
  /\ outPc = "test" /\ stopLock = "free"
  /\ \/ StopSeen
     \/ /\ ~stop
        /\ outPc' = IF out = NULL THEN "beforeUpdate" ELSE "enqueue"
        /\ UNCHANGED stopLock
  /\ UNCHANGED <<out, shmLock, memVars>> /\ OutUnchanged

\* pthread_cond_wait(update_cond, shm_lock) gives the lock up.
OutWaitUpdate ==
  /\ outPc = "beforeUpdate"
  /\ outPc' = "waitUpdate"
  /\ shmLock' = "free"
  /\ UNCHANGED <<out, stopLock, memVars>> /\ OutUnchanged

KeepOut  == UNCHANGED out   \* wrong: the queued update is not forgotten

HandOver == out' = NULL

OutEnqueue ==
  /\ outPc = "enqueue"
  /\ Enqueue(out)
  /\ HandOver
  /\ outPc' = "beforeAck"
  /\ UNCHANGED <<heap, lockVars>> /\ OutUnchanged

\* pthread_cond_wait(shm_cond, shm_lock) gives the lock up, too: the display
\* thread can take it while the server is still reading.
OutWaitAck ==
  /\ outPc = "beforeAck"
  /\ outPc' = "waitAck"
  /\ shmLock' = "free"
  /\ UNCHANGED <<out, stopLock, memVars>> /\ OutUnchanged

OutWokenAck ==
  /\ outPc = "wokenAck" /\ shmLock = "free"
  /\ shmLock' = "out"
  /\ outPc' = "acked"
  /\ UNCHANGED <<out, stopLock, memVars>> /\ OutUnchanged

OutAcked ==
  /\ outPc = "acked" /\ stopLock = "free"
  /\ \/ StopSeen /\ UNCHANGED shmLock
     \/ ~stop /\ outPc' = "top" /\ shmLock' = "free" /\ UNCHANGED stopLock
  /\ UNCHANGED <<out, memVars>> /\ OutUnchanged

ForgetShm  == UNCHANGED shmLock   \* wrong: the loop returns with shm_lock held

ReleaseShm == shmLock' = "free"

OutCleanup ==
  /\ outPc = "cleanup"
  /\ ReleaseShm
  /\ outPc' = "done"
  /\ UNCHANGED <<out, stopLock, memVars>> /\ OutUnchanged

\* POSIX lets a wait end without a signal; the wait for the acknowledgement is
\* not in a loop that would notice.
OutSpurious ==
  /\ "spurious" \in Events
  /\ outPc \in {"waitUpdate", "waitAck"}
  /\ outPc' = IF outPc = "waitUpdate" THEN "wokenUpdate" ELSE "wokenAck"
  /\ UNCHANGED <<out, lockVars, memVars>> /\ OutUnchanged

OutStep == \/ OutTop \/ OutLock \/ OutTest \/ OutWaitUpdate \/ OutEnqueue
           \/ OutWaitAck \/ OutWokenAck \/ OutAcked \/ OutCleanup

-----------------------------------------------------------------------------
(***************************************************************************)
(* mux_mainloop.  It drains the queue, then polls the socket for 5 ms,     *)
(* then looks at "stop".                                                   *)
(***************************************************************************)
MainUnchanged == UNCHANGED <<vmVars, out, srvVars, pixVars>>

AlwaysDequeue == "dequeue"   \* wrong: mux_queue_dequeue without the test

\* mux_queue_check_is_empty reads the head of the queue without its lock.
DrainOrPoll   == IF queue # <<>> THEN "dequeue" ELSE "poll"

MainCheckQueue ==
  /\ mainPc = "check"
  /\ mainPc' = DrainOrPoll
  /\ UNCHANGED <<outPc, mainUpd, stopping, interrupted, lockVars, memVars,
                 netVars, flagVars>> /\ MainUnchanged

\* mux_queue_dequeue waits until there is something: the queue may have been
\* cleared since the test.
MainDequeue ==
  /\ mainPc = "dequeue" /\ queue # <<>>
  /\ mainUpd' = Head(queue)
  /\ queue' = Tail(queue)
  /\ mainPc' = "send"
  /\ UNCHANGED <<outPc, stopping, interrupted, lockVars, heap, netVars,
                 flagVars>> /\ MainUnchanged

\* mux_0mq_send_msg blocks at the high-water mark of the socket.
Send(m) ==
  /\ Len(toServer) < SendHwm
  /\ toServer' = Append(toServer, m)

\* mux_write_outgoing_msg, mux_0mq_send_msg, g_free.
MainSend ==
  /\ mainPc = "send"
  /\ Send(Wire(heap[mainUpd]))
  /\ heap' = [heap EXCEPT ![mainUpd] = FREE]
  /\ mainUpd' = NULL
  /\ mainPc' = "check"
  /\ UNCHANGED <<outPc, stopping, interrupted, lockVars, queue, toLib,
                 flagVars>> /\ MainUnchanged

AnyFramerate(m)   == m.framerate   \* wrong: success is not looked at

\* mux_process_incoming_complete_msg takes the frame rate of a successful
\* update only; the caller signals shm_cond either way, without shm_lock.
AckedFramerate(m) == IF m.success = 1 THEN m.framerate ELSE framerate

IsAck(m)   == m.type = "DISPLAY_UPDATE_COMPLETE"

MainReceive ==
  /\ mainPc = "poll" /\ toLib # <<>>
  /\ LET m == Head(toLib) IN
       \/ /\ IsAck(m)
          /\ framerate' = AckedFramerate(m)
          /\ SignalShmCond
       \/ /\ ~IsAck(m)
          /\ UNCHANGED <<framerate, outPc>>
  /\ toLib' = Tail(toLib)
  /\ mainPc' = "stopCheck"
  /\ UNCHANGED <<mainUpd, stopping, interrupted, lockVars, memVars, toServer,
                 stop, fault>> /\ MainUnchanged

\* zpoller_wait returns without a message: timed out, or terminated by a signal.
MainPollEmpty ==
  /\ mainPc = "poll"
  /\ toLib = <<>> \/ interrupted
  /\ stopping' = interrupted
  /\ mainPc' = "stopCheck"
  /\ UNCHANGED <<outPc, mainUpd, interrupted, lockVars, memVars, netVars,
                 flagVars>> /\ MainUnchanged

MainStopCheck ==
  /\ mainPc = "stopCheck" /\ stopLock = "free"
  /\ stopping' = (stopping \/ stop)
  /\ mainPc' = IF stopping' THEN "exit" ELSE "check"
  /\ UNCHANGED <<outPc, mainUpd, interrupted, lockVars, memVars, netVars,
                 flagVars>> /\ MainUnchanged

\* The second unlock of stop_lock, which the loop no longer holds: it frees
\* the lock if the out loop has left with it.
MainExitUnlock ==
  /\ mainPc = "exit"
  /\ stopLock' = "free"
  /\ mainPc' = "clear"
  /\ UNCHANGED <<outPc, mainUpd, stopping, interrupted, shmLock, memVars,
                 netVars, flagVars>> /\ MainUnchanged

MainExitClear ==
  /\ mainPc = "clear"
  /\ QueueClear
  /\ mainPc' = "shutdown"
  /\ UNCHANGED <<outPc, mainUpd, stopping, interrupted, lockVars, netVars,
                 flagVars>> /\ MainUnchanged

MainSendShutdown ==
  /\ mainPc = "shutdown"
  /\ Send(Shutdown)
  /\ mainPc' = "wakeUpdate"
  /\ UNCHANGED <<outPc, mainUpd, stopping, interrupted, lockVars, memVars,
                 toLib, flagVars>> /\ MainUnchanged

\* The socket is gone; the out loop is signalled on both of its conditions.
MainWakeUpdate ==
  /\ mainPc = "wakeUpdate"
  /\ SignalUpdateCond
  /\ mainPc' = "wakeShm"
  /\ UNCHANGED <<mainUpd, stopping, interrupted, lockVars, memVars, netVars,
                 flagVars>> /\ MainUnchanged

MainWakeShm ==
  /\ mainPc = "wakeShm"
  /\ SignalShmCond
  /\ mainPc' = "done"
  /\ UNCHANGED <<mainUpd, stopping, interrupted, lockVars, memVars, netVars,
                 flagVars>> /\ MainUnchanged

MainStep == \/ MainCheckQueue \/ MainDequeue \/ MainSend \/ MainReceive
            \/ MainPollEmpty \/ MainStopCheck \/ MainExitUnlock
            \/ MainExitClear \/ MainSendShutdown \/ MainWakeUpdate \/ MainWakeShm

-----------------------------------------------------------------------------
(***************************************************************************)
(* What is outside the three loops: mux_cleanup on a backend thread, and a *)
(* signal delivered to the process (mux_handler).                          *)
(***************************************************************************)

(***************************************************************************)
(* mux_cleanup sets "stop" under stop_lock and then passes the address of  *)
(* a field of the display struct to g_free: undefined, either the          *)
(* allocator notices and aborts or nothing visible happens.                *)
(***************************************************************************)
MuxCleanup ==
  /\ "cleanup" \in Events
  /\ ~stop /\ stopLock = "free"
  /\ stop' = TRUE
  /\ fault' \in IF "abort" \in Events THEN {fault, "badfree"} ELSE {fault}
  /\ UNCHANGED <<vmVars, outVars, mainVars, lockVars, memVars, srvVars,
                 netVars, pixVars, framerate>>

MuxHandler ==
  /\ "interrupt" \in Events
  /\ ~interrupted /\ interrupted' = TRUE
  /\ UNCHANGED <<vmVars, outVars, mainPc, mainUpd, stopping, lockVars, memVars,
                 srvVars, netVars, pixVars, flagVars>>

-----------------------------------------------------------------------------
(***************************************************************************)
(* The server, as this library uses it.  It takes messages in order, reads *)
(* the shared region for each (the whole framebuffer after a switch, the   *)
(* region otherwise), and acknowledges each display update once.  A read   *)
(* takes time, and gets each pixel as it was when the read began: a pixel  *)
(* that was stale then, or is drawn or torn since, is not current at the   *)
(* server when the read ends.                                              *)
(***************************************************************************)
ServerUnchanged == UNCHANGED <<vmVars, outVars, mainVars, lockVars, memVars, flagVars>>

ServerReadUpdate ==
  /\ srv = "idle" /\ toServer # <<>>
  /\ Head(toServer).type = "DISPLAY_UPDATE"
  /\ srvGot' = IF srvSize = surface
               THEN (Cells(RectOf(Head(toServer).region)) \cap SurfaceCells(surface))
                      \ shmStale
               ELSE {}
  /\ srv' = "reading"
  /\ srvJob' = Head(toServer)
  /\ toServer' = Tail(toServer)
  /\ UNCHANGED <<srvSize, toLib, shmStale, mirrorStale>> /\ ServerUnchanged

\* A size that is no longer the current one leaves the server without a
\* current pixel.
ServerReadSwitch ==
  /\ srv = "idle" /\ toServer # <<>>
  /\ Head(toServer).type = "DISPLAY_SWITCH"
  /\ srvSize' = Head(toServer).size
  /\ IF srvSize' = surface
     THEN srvGot' = SurfaceCells(surface) \ shmStale /\ UNCHANGED mirrorStale
     ELSE srvGot' = {} /\ mirrorStale' = SurfaceCells(surface)
  /\ srv' = "reading"
  /\ srvJob' = Head(toServer)
  /\ toServer' = Tail(toServer)
  /\ UNCHANGED <<toLib, shmStale>> /\ ServerUnchanged

ServerReadDone ==
  /\ srv = "reading"
  /\ mirrorStale' = mirrorStale \ srvGot
  /\ srvGot' = {}
  /\ \/ /\ srvJob.type = "DISPLAY_UPDATE" /\ Len(toLib) < RecvHwm
        /\ \E a \in {Complete(f) : f \in Framerates}
                      \cup (IF "nack" \in Events THEN {NotComplete} ELSE {}) :
             toLib' = Append(toLib, a)
     \/ srvJob.type = "DISPLAY_SWITCH" /\ UNCHANGED toLib
  /\ srv' = "idle"
  /\ srvJob' = NULL
  /\ UNCHANGED <<srvSize, toServer, shmStale>> /\ ServerUnchanged

ServerShutdown ==
  /\ srv = "idle" /\ toServer # <<>>
  /\ Head(toServer) = Shutdown
  /\ srv' = "down"
  /\ toServer' = Tail(toServer)
  /\ UNCHANGED <<srvSize, srvJob, toLib, pixVars>> /\ ServerUnchanged

\* Mouse, keyboard and malformed messages, and messages with another UUID, at
\* any time: the library only passes them on or drops them.
ServerInput ==
  /\ "input" \in Events
  /\ srv # "down" /\ Len(toLib) < RecvHwm
  /\ toLib' = Append(toLib, Input)
  /\ UNCHANGED <<srvVars, toServer, pixVars>> /\ ServerUnchanged

ServerStep == ServerReadUpdate \/ ServerReadSwitch \/ ServerReadDone \/ ServerShutdown

-----------------------------------------------------------------------------
\* A thread moves only while the process lives.
Alive(A) == fault = "none" /\ A

Next == Alive(\/ VmNext
              \/ OutStep
              \/ OutSpurious
              \/ MainStep
              \/ MuxCleanup
              \/ MuxHandler
              \/ ServerStep
              \/ ServerInput)

Spec == Init /\ [][Next]_vars

(***************************************************************************)
(* Fairness: a thread that can run does run.  A mutex is not assumed to be *)
(* fair: a thread gets it if it stays free.  The backend need not call     *)
(* anything, but a call it made goes on.                                   *)
(***************************************************************************)
LibraryFairness ==
  /\ WF_vars(Alive(VmReturn))
  /\ WF_vars(Alive(OutStep))
  /\ WF_vars(Alive(MainStep))

\* The library with a server that may stop reading at any time.
LibrarySpec == Spec /\ LibraryFairness

\* The library with a server that keeps working.
FairSpec == LibrarySpec /\ WF_vars(Alive(ServerStep))

-----------------------------------------------------------------------------
(***************************************************************************)
(* Properties.                                                             *)
(***************************************************************************)
VmPcs   == {"idle", "refreshCopy", "switchClear", "switchLock", "switchCopy",
            "switchEnqueue"}
OutPcs  == {"top", "lock", "test", "beforeUpdate", "waitUpdate", "wokenUpdate",
            "enqueue", "beforeAck", "waitAck", "wokenAck", "acked", "cleanup",
            "done"}
MainPcs == {"check", "dequeue", "send", "poll", "stopCheck", "exit", "clear",
            "shutdown", "wakeUpdate", "wakeShm", "done"}

PtrOrNull == Ptr \cup {NULL}

(***************************************************************************)
(* Every field keeps its type; in particular the frame rate is always one  *)
(* the server asked for in a successful acknowledgement, or the initial 20 *)
(* (msgpack.c:168-188).                                                    *)
(***************************************************************************)
TypeOK ==
  /\ surface \in Surfaces \cup {NULL}
  /\ shm \in ShmStates
  /\ dirty \in PtrOrNull /\ out \in PtrOrNull
  /\ vmUpd \in PtrOrNull /\ mainUpd \in PtrOrNull
  /\ queue \in Seq(Ptr)
  /\ heap \in [Ptr -> Updates \cup Switches \cup {FREE}]
  /\ shmLock \in {"free", "vm", "out"} /\ stopLock \in {"free", "out"}
  /\ stop \in BOOLEAN /\ stopping \in BOOLEAN /\ interrupted \in BOOLEAN
  /\ framerate \in Framerates
  /\ vmPc \in VmPcs /\ outPc \in OutPcs /\ mainPc \in MainPcs
  /\ switches \in 0 .. MaxSwitches
  /\ toServer \in Seq(LibMessages) /\ toLib \in Seq(ServerMessages)
  /\ srv \in {"idle", "reading", "down"}
  /\ srvSize \in Surfaces \cup {NULL}
  /\ srvJob \in LibMessages \cup {NULL}
  /\ fault \in {"none", "negative", "null", "overrun", "divide", "badfree"}
  /\ shmStale \subseteq Int \X Int
  /\ mirrorStale \subseteq Int \X Int
  /\ srvGot \subseteq Int \X Int

(***************************************************************************)
(* Memory: every allocated MuxUpdate has exactly one owner among           *)
(* dirty_update, out_update, the queue and the locals of                   *)
(* mux_display_switch and mux_mainloop, and every owner's object is        *)
(* allocated.  So no update is leaked, freed twice, used after it was      *)
(* freed, or changed by the display thread once it is queued, whichever    *)
(* thread clears the queue while another dequeues or enqueues.             *)
(***************************************************************************)
QueueInjective ==
  \A i, j \in 1 .. Len(queue) : queue[i] = queue[j] => i = j

DistinctOwners ==
  /\ dirty # NULL => dirty \notin {out, vmUpd, mainUpd} \cup QueuedPtrs
  /\ out   # NULL => out   \notin {vmUpd, mainUpd} \cup QueuedPtrs
  /\ vmUpd # NULL => vmUpd \notin {mainUpd} \cup QueuedPtrs
  /\ mainUpd # NULL => mainUpd \notin QueuedPtrs

Owned == ({dirty, out, vmUpd, mainUpd} \cup QueuedPtrs) \ {NULL}

SingleOwner ==
  /\ QueueInjective
  /\ DistinctOwners
  /\ \A p \in Ptr : heap[p] # FREE <=> p \in Owned

(***************************************************************************)
(* An update that has been handed to the queue is what the server will     *)
(* get: while it is queued, or dequeued and not yet sent, no thread writes *)
(* to it, though refreshes go on growing boxes (rdpmux.c:122, 243, 286);   *)
(* it leaves the queue and the main loop by being freed, never half-way.   *)
(***************************************************************************)
Handed == QueuedPtrs \cup ({mainUpd} \ {NULL})

HandedOverIsFrozen ==
  [][\A p \in Handed : IF p \in Handed' THEN heap'[p] = heap[p] ELSE heap'[p] = FREE]_vars

(***************************************************************************)
(* The display thread and the out loop exclude each other: while one       *)
(* copies into the shared region and merges the dirty update into          *)
(* out_update, the other is not between taking shm_lock and giving it up,  *)
(* not even around the unlock at the cleanup label, which can release a    *)
(* lock the display thread holds (rdpmux.c:358).                           *)
(***************************************************************************)
VmCopying   == {"refreshCopy", "switchCopy"}
OutCritical == {"test", "beforeUpdate", "enqueue", "beforeAck", "acked"}

VmOutExclusion == ~(vmPc \in VmCopying /\ outPc \in OutCritical)

(***************************************************************************)
(* No drawn pixel is forgotten on its way to the shared region: a pixel    *)
(* whose shared copy is out of date lies in the dirty update, or the       *)
(* framebuffer is being switched, which copies all of it.                  *)
(***************************************************************************)
Switching == vmPc \in {"switchClear", "switchLock", "switchCopy"}

ShmCovered ==
  shm = "mapped" =>
    \A c \in shmStale : Switching \/ (dirty # NULL /\ c \in Cells(heap[dirty].rect))

(***************************************************************************)
(* No drawn pixel is forgotten on its way to the server either: a pixel    *)
(* that is in the shared region but not at the server is covered by an     *)
(* update that is on its way (out_update, queued, dequeued, sent or being  *)
(* read), or by the announcement of the framebuffer, until mux_mainloop    *)
(* stops.  The clearing of the queue by mux_display_switch and the merging *)
(* of updates must not lose one.                                           *)
(***************************************************************************)
MessageCells(m) ==
  IF m.type = "DISPLAY_UPDATE" THEN Cells(RectOf(m.region))
  ELSE IF m.type = "DISPLAY_SWITCH" /\ m.size = surface THEN SurfaceCells(surface)
  ELSE {}

PtrCells(p) == IF p = NULL THEN {} ELSE MessageCells(Wire(heap[p]))

OnItsWay ==
  PtrCells(out) \cup PtrCells(vmUpd) \cup PtrCells(mainUpd) \cup srvGot
  \cup (UNION {PtrCells(queue[i]) : i \in 1 .. Len(queue)})
  \cup (UNION {MessageCells(toServer[i]) : i \in 1 .. Len(toServer)})

MainRunning == mainPc \in {"check", "dequeue", "send", "poll", "stopCheck", "exit"}

MirrorCovered ==
  shm = "mapped" /\ MainRunning => (mirrorStale \ shmStale) \subseteq OnItsWay

(***************************************************************************)
(* Flow control (the comment of mux_out_loop, rdpmux.c:309-311): after an  *)
(* update has been queued no other one follows until it is acknowledged.   *)
(* It holds until the wait for an acknowledgement ends without one: module *)
(* RdpMuxFlow counts those waits and bounds the updates in flight by them. *)
(***************************************************************************)
IsUpdatePtr(p) == p # NULL /\ heap[p].type = "DISPLAY_UPDATE"

InFlight ==
  Cardinality({i \in 1 .. Len(queue) : IsUpdatePtr(queue[i])})
  + (IF IsUpdatePtr(mainUpd) THEN 1 ELSE 0)
  + Cardinality({i \in 1 .. Len(toServer) : toServer[i].type = "DISPLAY_UPDATE"})
  + (IF srv = "reading" /\ srvJob.type = "DISPLAY_UPDATE" THEN 1 ELSE 0)
  + Cardinality({i \in 1 .. Len(toLib) : IsAck(toLib[i])})

OneUpdateInFlight == InFlight <= 1

(***************************************************************************)
(* Every update the server works on lies within the framebuffer that was   *)
(* last announced to it.  rdpmux.c:197 says of the messages queued before  *)
(* a switch that they "are now totally invalid".                           *)
(***************************************************************************)
UpdateFitsAnnounced ==
  srv = "reading" /\ srvJob.type = "DISPLAY_UPDATE" =>
    srvSize # NULL /\ Fits(RectOf(srvJob.region), srvSize)

(***************************************************************************)
(* No copy writes past the shared region, whose size is fixed when it is   *)
(* created (rdpmux.c:156): not for a box that was rounded up, and not for  *)
(* one that an earlier, larger framebuffer left behind.  The exception is  *)
(* a framebuffer that itself has more than ShmPixels pixels: nothing in    *)
(* the code checks that, and the region is not "resize[d] ... to the size  *)
(* of the framebuffer", as the comment of rdpmux.c:169 has it, so that     *)
(* copying all of it (rdpmux.c:202) goes past the end.                     *)
(***************************************************************************)
OnlyLargeOverruns == fault = "overrun" => surface.w * surface.h > ShmPixels

(***************************************************************************)
(* Every copy has a mapped region to go to: mux_display_switch is said to  *)
(* "create a new shared memory region for the framebuffer if necessary"    *)
(* before it copies (rdpmux.c:131), which should also be true of the call  *)
(* after one whose mmap failed.                                            *)
(***************************************************************************)
CopiesHaveRegion == fault # "null"

(***************************************************************************)
(* While the out loop waits for an acknowledgement, one is still to come:  *)
(* rdpmux.c:309 says it "blocks waiting for the server to copy data out of *)
(* the shared memory region and return an ack message".                    *)
(***************************************************************************)
AckOwed == outPc = "waitAck" => InFlight > 0

(***************************************************************************)
(* A call of the display thread returns, whatever the server does: the     *)
(* thread waits for shm_lock in mux_display_switch, and the out loop must  *)
(* not keep it, neither while it waits nor when it exits.                  *)
(***************************************************************************)
VmReturns == vmPc # "idle" ~> (vmPc = "idle" \/ fault # "none")

(***************************************************************************)
(* mux_mainloop comes back to its socket again and again until mux_cleanup *)
(* is called, unless the server leaves it blocked in a send: it is not     *)
(* stuck in mux_queue_dequeue when mux_display_switch clears the queue     *)
(* after the emptiness test, and draining the queue comes to an end.       *)
(***************************************************************************)
SendBlocked == mainPc = "send" /\ Len(toServer) >= SendHwm

MainAlwaysPolls == []<>(mainPc = "poll" \/ SendBlocked \/ stop)

(***************************************************************************)
(* README.md, "Shutting Down the Library", of mux_cleanup: "a shutdown     *)
(* message will be sent to the frontend".                                  *)
(***************************************************************************)
ShutdownSent == stop ~> srv = "down"
=============================================================================
