---------------------------- MODULE RdpMuxProofs ----------------------------
(***************************************************************************)
(* Proofs about RdpMux, for every framebuffer size, every set of regions,  *)
(* every number of switches and every buffer length, in three parts.       *)
(*                                                                         *)
(* 1. Type correctness, single ownership of the MuxUpdate objects, mutual  *)
(* exclusion of the display thread and the out loop, copies that stay      *)
(* inside the region, and updates that nobody changes once they are        *)
(* queued.  All are proved from one inductive invariant,                   *)
(*    IInv == TypeOK /\ Control /\ SingleOwner /\ LockDiscipline           *)
(* where Control ties each local pointer to the program counter of its     *)
(* thread and LockDiscipline ties shm_lock to the program counters.        *)
(*                                                                         *)
(* 2. No drawn pixel is forgotten, neither on its way to the shared region *)
(* (ShmCovered) nor from there to the server (MirrorCovered).  Both are    *)
(* shown by an invariant of their own, which is inductive together with    *)
(* IInv.                                                                   *)
(*                                                                         *)
(* 3. Flow control, of RdpMuxFlow: the display updates in flight are at    *)
(* most one more than the waits for an acknowledgement that ended without  *)
(* one, whatever ended them (InFlightPerWakeup).  The invariant adds what  *)
(* mux_out_loop may still queue to what is in transit between it and the   *)
(* acknowledgement; every step keeps that sum or lets it sink, but for     *)
(* those that end a wait early.                                            *)
(***************************************************************************)
EXTENDS RdpMuxFlow, MuxRectProofs, SequenceTheorems, FiniteSetTheorems,
        FunctionTheorems

-----------------------------------------------------------------------------
(***************************************************************************)
(* Part 1.  Types, owners, locks and copies.                               *)
(***************************************************************************)

(***************************************************************************)
(* A local pointer is set exactly where its thread uses it, and            *)
(* dirty_update and out_update point to display updates.                   *)
(***************************************************************************)
SwitchPcs == {"switchClear", "switchLock", "switchCopy", "switchEnqueue"}

Control ==
  /\ dirty # NULL => surface # NULL /\ heap[dirty] \in Updates
  /\ out # NULL => heap[out] \in Updates
  /\ vmPc = "refreshCopy" => dirty # NULL
  /\ vmUpd # NULL <=> vmPc \in SwitchPcs
  /\ mainUpd # NULL <=> mainPc = "send"
  /\ outPc = "enqueue" => out # NULL

(***************************************************************************)
(* Who holds shm_lock.  The cleanup label of mux_out_loop can be reached   *)
(* without the lock and unlocks it all the same; after that the display    *)
(* thread may copy without holding it, but then the out loop is done.      *)
(***************************************************************************)
LockDiscipline ==
  /\ outPc \in OutCritical => shmLock = "out"
  /\ vmPc \in VmCopying => shmLock = "vm" \/ outPc = "done"

IInv == TypeOK /\ Control /\ SingleOwner /\ LockDiscipline

-----------------------------------------------------------------------------
(***************************************************************************)
(* Facts about pointers, objects and messages.                             *)
(***************************************************************************)
LEMMA FreshFacts ==
  ASSUME NEW p \in Fresh
  PROVE  p \in Ptr /\ heap[p] = FREE /\ p # NULL
BY ConstantsAssumption DEF Fresh

LEMMA ObjectFacts ==
  /\ FREE \notin Updates /\ FREE \notin Switches
  /\ \A o \in Updates : o.type = "DISPLAY_UPDATE" /\ o.rect \in Rect
  /\ \A o \in Switches : o.type = "DISPLAY_SWITCH" /\ o.size \in Surfaces
  /\ \A u \in Rect : UpdateObject(u) \in Updates /\ UpdateObject(u).rect = u
  /\ \A s \in Surfaces : SwitchObject(s) \in Switches
BY ConstantsAssumption DEF Updates, Switches, UpdateObject, SwitchObject

LEMMA WireType ==
  ASSUME NEW o \in Updates \cup Switches
  PROVE  Wire(o) \in LibMessages
<1>1. CASE o \in Updates
  <2>1. o.type = "DISPLAY_UPDATE" /\ o.rect \in Rect
    BY <1>1, ObjectFacts
  <2>2. RegionOf(o.rect) \in IntRegion
    BY <2>1, RegionOfType
  <2>3. WriteUint(RegionOf(o.rect)) \in Region
    BY <2>2, ConstantsAssumption DEF WriteUint, Region, IntRegion
  <2> QED
    BY <2>1, <2>3 DEF Wire, LibMessages
<1>2. CASE o \in Switches
  BY <1>2, ObjectFacts DEF Wire, LibMessages, Switches
<1> QED
  BY <1>1, <1>2

LEMMA RegionsType ==
  ASSUME NEW r \in Regions
  PROVE  r \in IntRegion /\ RectOf(r) \in Rect
<1>1. r \in IntRegion
  BY ConstantsAssumption DEF Region, IntRegion
<1> QED
  BY <1>1, RectOfType

(***************************************************************************)
(* Sequences: what is in them, and what Append and Tail do, also to a      *)
(* sequence without repetitions.                                           *)
(***************************************************************************)
Elems(q)    == {q[i] : i \in 1 .. Len(q)}
Distinct(q) == \A i, j \in 1 .. Len(q) : q[i] = q[j] => i = j

LEMMA QueueAsElems ==
  /\ QueuedPtrs = Elems(queue)
  /\ QueueInjective <=> Distinct(queue)
BY DEF QueuedPtrs, Elems, QueueInjective, Distinct

LEMMA EmptyFacts == Elems(<<>>) = {} /\ Distinct(<<>>)
BY DEF Elems, Distinct

LEMMA AppendFacts ==
  ASSUME NEW S, NEW q \in Seq(S), NEW p \in S
  PROVE  /\ Append(q, p) \in Seq(S)
         /\ Elems(Append(q, p)) = Elems(q) \cup {p}
         /\ Distinct(q) /\ p \notin Elems(q) => Distinct(Append(q, p))
<1>1. /\ Append(q, p) \in Seq(S)
      /\ Len(Append(q, p)) = Len(q) + 1 /\ Len(q) \in Nat
      /\ \A i \in 1 .. Len(q) : Append(q, p)[i] = q[i]
      /\ Append(q, p)[Len(q) + 1] = p
  OBVIOUS
<1>2. 1 .. Len(q) + 1 = (1 .. Len(q)) \cup {Len(q) + 1}
  BY <1>1
<1>3. Elems(Append(q, p)) = Elems(q) \cup {p}
  BY <1>1, <1>2 DEF Elems
<1>4. ASSUME Distinct(q), p \notin Elems(q)
      PROVE  Distinct(Append(q, p))
  BY <1>1, <1>2, <1>4 DEF Elems, Distinct
<1> QED
  BY <1>1, <1>3, <1>4

LEMMA TailFacts ==
  ASSUME NEW S, NEW q \in Seq(S), q # <<>>
  PROVE  /\ Tail(q) \in Seq(S) /\ Head(q) \in S
         /\ Elems(q) = Elems(Tail(q)) \cup {Head(q)}
         /\ Distinct(q) => Distinct(Tail(q)) /\ Head(q) \notin Elems(Tail(q))
<1>1. /\ Tail(q) \in Seq(S) /\ Head(q) = q[1] /\ Head(q) \in S
      /\ Len(q) \in Nat \ {0} /\ Len(Tail(q)) = Len(q) - 1
      /\ \A i \in 1 .. Len(q) - 1 : Tail(q)[i] = q[i + 1]
  OBVIOUS
<1>2. ASSUME NEW e
      PROVE  e \in Elems(q) <=> e \in Elems(Tail(q)) \cup {Head(q)}
  <2>1. ASSUME NEW i \in 1 .. Len(q), e = q[i]
        PROVE  e \in Elems(Tail(q)) \cup {Head(q)}
    <3>1. CASE i = 1
      BY <1>1, <2>1, <3>1
    <3>2. CASE i # 1
      <4>1. i - 1 \in 1 .. Len(Tail(q)) /\ Tail(q)[i - 1] = q[i]
        BY <1>1, <3>2
      <4> QED
        BY <2>1, <4>1 DEF Elems
    <3> QED
      BY <3>1, <3>2
  <2>2. ASSUME NEW i \in 1 .. Len(Tail(q)), e = Tail(q)[i]
        PROVE  e \in Elems(q)
    <3>1. i + 1 \in 1 .. Len(q) /\ Tail(q)[i] = q[i + 1]
      BY <1>1
    <3> QED
      BY <2>2, <3>1 DEF Elems
  <2>3. Head(q) \in Elems(q)
    BY <1>1 DEF Elems
  <2> QED
    BY <2>1, <2>2, <2>3 DEF Elems
<1>3. ASSUME Distinct(q)
      PROVE  Distinct(Tail(q)) /\ Head(q) \notin Elems(Tail(q))
  <2>1. \A i \in 1 .. Len(Tail(q)) :
          i + 1 \in 1 .. Len(q) /\ Tail(q)[i] = q[i + 1] /\ i + 1 # 1
    BY <1>1
  <2>2. 1 \in 1 .. Len(q)
    BY <1>1
  <2>3. Distinct(Tail(q))
    <3>1. ASSUME NEW i \in 1 .. Len(Tail(q)), NEW j \in 1 .. Len(Tail(q)),
                 Tail(q)[i] = Tail(q)[j]
          PROVE  i = j
      <4>1. i + 1 = j + 1
        BY <1>3, <2>1, <3>1 DEF Distinct
      <4> QED
        BY <4>1
    <3> QED
      BY <3>1 DEF Distinct
  <2>4. \A i \in 1 .. Len(Tail(q)) : Tail(q)[i] # Head(q)
    BY <1>1, <1>3, <2>1, <2>2 DEF Distinct
  <2> QED
    BY <2>3, <2>4 DEF Elems
<1> QED
  BY <1>1, <1>2, <1>3

-----------------------------------------------------------------------------
(***************************************************************************)
(* The objects an action does not touch keep their owners.                 *)
(***************************************************************************)
pointers == <<dirty, out, vmUpd, mainUpd, queue>>

LEMMA OwnersFrame ==
  ASSUME SingleOwner, UNCHANGED pointers,
         \A p \in Ptr : heap'[p] = FREE <=> heap[p] = FREE
  PROVE  SingleOwner'
<1>1. QueueInjective' /\ DistinctOwners' /\ Owned' = Owned
  BY DEF SingleOwner, pointers, QueueInjective, DistinctOwners, Owned, QueuedPtrs
<1> QED
  BY <1>1 DEF SingleOwner

LEMMA InitInvariant == Init => IInv
<1> SUFFICES ASSUME Init PROVE IInv
  OBVIOUS
<1>1. TypeOK
  <2>1. /\ surface \in Surfaces \cup {NULL} /\ shm \in ShmStates
        /\ dirty \in PtrOrNull /\ out \in PtrOrNull
        /\ vmUpd \in PtrOrNull /\ mainUpd \in PtrOrNull
        /\ heap \in [Ptr -> Updates \cup Switches \cup {FREE}]
        /\ framerate \in Framerates /\ switches \in 0 .. MaxSwitches
    BY ConstantsAssumption DEF Init, PtrOrNull, ShmStates
  <2>2. /\ queue \in Seq(Ptr)
        /\ toServer \in Seq(LibMessages) /\ toLib \in Seq(ServerMessages)
    BY DEF Init
  <2>3. /\ shmLock \in {"free", "vm", "out"} /\ stopLock \in {"free", "out"}
        /\ stop \in BOOLEAN /\ stopping \in BOOLEAN /\ interrupted \in BOOLEAN
        /\ vmPc \in VmPcs /\ outPc \in OutPcs /\ mainPc \in MainPcs
        /\ srv \in {"idle", "reading", "down"}
        /\ srvSize \in Surfaces \cup {NULL} /\ srvJob \in LibMessages \cup {NULL}
        /\ fault \in {"none", "negative", "null", "overrun", "divide", "badfree"}
        /\ shmStale = {} /\ mirrorStale = {} /\ srvGot = {}
    BY DEF Init, VmPcs, OutPcs, MainPcs
  <2> QED
    BY <2>1, <2>2, <2>3 DEF TypeOK
<1>2. Control
  BY DEF Init, Control, SwitchPcs
<1>3. SingleOwner
  <2>1. QueuedPtrs = {}
    BY EmptyFacts, QueueAsElems DEF Init
  <2> QED
    BY <2>1 DEF Init, SingleOwner, QueueInjective, DistinctOwners, Owned
<1>4. LockDiscipline
  BY DEF Init, LockDiscipline, OutCritical, VmCopying
<1> QED
  BY <1>1, <1>2, <1>3, <1>4 DEF IInv

-----------------------------------------------------------------------------
(***************************************************************************)
(* The display thread.                                                     *)
(***************************************************************************)
LEMMA DisplayUpdateInvariant ==
  ASSUME IInv, NEW r \in Regions, MuxDisplayUpdate(r)
  PROVE  IInv'
<1> USE DEF vmVars, outVars, mainVars, lockVars, memVars, srvVars, netVars, flagVars
<1>1. Regions \subseteq Region /\ r \in IntRegion /\ RectOf(r) \in Rect
  BY RegionsType, ConstantsAssumption
<1>2. Cells(RectOf(r)) \subseteq Int \X Int
  BY <1>1 DEF Cells, Rect
<1>3. CASE dirty = NULL
  <2>1. PICK p \in Fresh : /\ heap' = [heap EXCEPT ![p] = UpdateObject(RectOf(r))]
                           /\ dirty' = p
    BY <1>3 DEF MuxDisplayUpdate
  <2>2. p \in Ptr /\ heap[p] = FREE /\ p # NULL
    BY FreshFacts
  <2>3. UpdateObject(RectOf(r)) \in Updates
    BY <1>1, ObjectFacts
  <2>4. TypeOK'
    BY <1>2, <2>1, <2>2, <2>3 DEF IInv, TypeOK, PtrOrNull, MuxDisplayUpdate, DrawPixels
  <2>5. Control'
    BY <2>1, <2>2, <2>3, ObjectFacts
    DEF IInv, TypeOK, Control, SingleOwner, Owned, MuxDisplayUpdate
  <2>6. SingleOwner'
    BY <1>3, <2>1, <2>2, <2>3, ObjectFacts
    DEF IInv, TypeOK, SingleOwner, QueueInjective, DistinctOwners, Owned,
        QueuedPtrs, MuxDisplayUpdate
  <2>7. LockDiscipline'
    BY DEF IInv, LockDiscipline, MuxDisplayUpdate
  <2> QED
    BY <2>4, <2>5, <2>6, <2>7 DEF IInv
<1>4. CASE dirty # NULL
  <2>1. dirty \in Ptr /\ heap[dirty] \in Updates /\ UNCHANGED dirty
    BY <1>4 DEF IInv, TypeOK, PtrOrNull, Control, MuxDisplayUpdate
  <2>2. PICK o \in Updates : heap' = [heap EXCEPT ![dirty] = o]
    <3>1. heap[dirty].type = "DISPLAY_UPDATE" /\ heap[dirty].rect \in Rect
      BY <2>1, ObjectFacts
    <3>2. UpdateObject(ExpandRect(heap[dirty].rect, r)) \in Updates
      BY <1>1, <3>1, ExpandRectType, ObjectFacts
    <3> QED
      BY <1>4, <3>1, <3>2 DEF MuxDisplayUpdate
  <2>3. TypeOK'
    BY <1>2, <2>1, <2>2 DEF IInv, TypeOK, MuxDisplayUpdate, DrawPixels
  <2>4. Control'
    BY <2>1, <2>2 DEF IInv, TypeOK, Control, MuxDisplayUpdate
  <2>5. SingleOwner'
    <3>1. \A p \in Ptr : heap'[p] = FREE <=> heap[p] = FREE
      BY <2>1, <2>2, ObjectFacts DEF IInv, TypeOK
    <3> QED
      BY <2>1, <3>1, OwnersFrame DEF IInv, pointers, MuxDisplayUpdate
  <2>6. LockDiscipline'
    BY DEF IInv, LockDiscipline, MuxDisplayUpdate
  <2> QED
    BY <2>3, <2>4, <2>5, <2>6 DEF IInv
<1> QED
  BY <1>3, <1>4

LEMMA RefreshDeferredInvariant ==
  ASSUME IInv, RefreshDeferred
  PROVE  IInv'
<1> USE DEF vmVars, outVars, mainVars, lockVars, memVars, srvVars, netVars,
            pixVars, KeepDirty, ReturnInterval
<1>1. TypeOK'
  BY DEF IInv, TypeOK, RefreshDeferred
<1>2. Control'
  BY DEF IInv, Control, RefreshDeferred
<1>3. SingleOwner'
  BY OwnersFrame DEF IInv, pointers, RefreshDeferred
<1>4. LockDiscipline'
  BY DEF IInv, LockDiscipline, RefreshDeferred
<1> QED
  BY <1>1, <1>2, <1>3, <1>4 DEF IInv

LEMMA RefreshBeginInvariant ==
  ASSUME IInv, RefreshBegin
  PROVE  IInv'
<1> USE DEF outVars, mainVars, srvVars, netVars, pixVars
<1>1. dirty \in Ptr /\ heap[dirty] \in Updates /\ surface \in Surface
  BY ConstantsAssumption DEF IInv, TypeOK, PtrOrNull, Control, RefreshBegin
<1>2. PICK o \in Updates : heap' = [heap EXCEPT ![dirty] = o]
  <2>1. heap[dirty].rect \in Rect
    BY <1>1, ObjectFacts
  <2>2. UpdateObject(AlignToSurface(heap[dirty].rect, surface)) \in Updates
    BY <1>1, <2>1, AlignToSurfaceType, ObjectFacts
  <2> QED
    BY <2>2 DEF RefreshBegin
<1>3. fault' \in {"negative", "null", "overrun", fault}
  BY DEF RefreshBegin, CopyFault
<1>4. TypeOK'
  BY <1>1, <1>2, <1>3 DEF IInv, TypeOK, RefreshBegin, VmPcs
<1>5. Control'
  BY <1>1, <1>2 DEF IInv, TypeOK, Control, RefreshBegin, SwitchPcs
<1>6. SingleOwner'
  <2>1. \A p \in Ptr : heap'[p] = FREE <=> heap[p] = FREE
    BY <1>1, <1>2, ObjectFacts DEF IInv, TypeOK
  <2> QED
    BY <2>1, OwnersFrame DEF IInv, pointers, RefreshBegin
<1>7. LockDiscipline'
  BY DEF IInv, LockDiscipline, RefreshBegin, TryLockShm, VmCopying
<1> QED
  BY <1>4, <1>5, <1>6, <1>7 DEF IInv

(***************************************************************************)
(* dirty_update is freed after its content has gone to out_update.  The    *)
(* release of shm_lock does not take it from the out loop: while the       *)
(* display thread copies, the out loop is in no critical section.          *)
(***************************************************************************)
LEMMA RefreshEndInvariant ==
  ASSUME IInv, RefreshEnd
  PROVE  IInv'
<1> USE DEF mainVars, srvVars, netVars
<1>1. /\ dirty \in Ptr /\ heap[dirty] \in Updates /\ heap[dirty].rect \in Rect
      /\ heap[dirty] # FREE
  BY ObjectFacts DEF IInv, TypeOK, PtrOrNull, Control, RefreshEnd
<1>2. outPc' \in {outPc, "wokenUpdate"} /\ fault' \in {"divide", fault}
  BY DEF RefreshEnd, SignalUpdateCond, ReturnInterval
<1>3. /\ dirty' = NULL /\ shmLock' = "free" /\ vmPc' = "idle"
      /\ UNCHANGED <<surface, shm, vmUpd, switches, mainVars, stopLock, queue,
                     srvVars, netVars, mirrorStale, srvGot, stop, framerate>>
  BY DEF RefreshEnd
<1>4. shmStale' \subseteq Int \X Int
  BY DEF IInv, TypeOK, RefreshEnd
<1>5. LockDiscipline'
  BY <1>2 DEF IInv, LockDiscipline, RefreshEnd, VmCopying, OutCritical
<1>6. CASE out = NULL
  <2>1. PICK p \in Fresh : /\ heap' = [heap EXCEPT ![p] = heap[dirty], ![dirty] = FREE]
                           /\ out' = p
    BY <1>6 DEF RefreshEnd
  <2>2. p \in Ptr /\ heap[p] = FREE /\ p # NULL /\ p # dirty
    BY <1>1, <2>1, FreshFacts
  <2>3. TypeOK'
    <3>1. heap' \in [Ptr -> Updates \cup Switches \cup {FREE}]
      BY <1>1, <2>1, <2>2 DEF IInv, TypeOK
    <3>2. out' \in PtrOrNull /\ dirty' \in PtrOrNull
      BY <1>3, <2>1, <2>2 DEF PtrOrNull
    <3> QED
      BY <1>2, <1>3, <1>4, <3>1, <3>2 DEF IInv, TypeOK, VmPcs, OutPcs
  <2>4. Control'
    BY <1>1, <1>2, <2>1, <2>2
    DEF IInv, TypeOK, Control, RefreshEnd, SwitchPcs
  <2>5. SingleOwner'
    BY <1>1, <1>6, <2>1, <2>2
    DEF IInv, TypeOK, SingleOwner, QueueInjective, DistinctOwners, Owned,
        QueuedPtrs, RefreshEnd
  <2> QED
    BY <1>5, <2>3, <2>4, <2>5 DEF IInv
<1>7. CASE out # NULL
  <2>1. /\ out \in Ptr /\ heap[out] \in Updates /\ heap[out].rect \in Rect
        /\ UNCHANGED out /\ out # dirty
    BY <1>1, <1>7, ObjectFacts
    DEF IInv, TypeOK, PtrOrNull, Control, SingleOwner, DistinctOwners, RefreshEnd
  <2>2. PICK o \in Updates : heap' = [heap EXCEPT ![out] = o, ![dirty] = FREE]
    <3>1. UpdateObject(ExpandRect(heap[out].rect, RegionOf(heap[dirty].rect))) \in Updates
      BY <1>1, <2>1, RegionOfType, ExpandRectType, ObjectFacts
    <3> QED
      BY <1>7, <3>1 DEF RefreshEnd, GrowOut
  <2>3. TypeOK'
    <3>1. heap' \in [Ptr -> Updates \cup Switches \cup {FREE}]
      BY <1>1, <2>1, <2>2 DEF IInv, TypeOK
    <3>2. out' \in PtrOrNull /\ dirty' \in PtrOrNull
      BY <1>3, <2>1, <2>2 DEF PtrOrNull
    <3> QED
      BY <1>2, <1>3, <1>4, <3>1, <3>2 DEF IInv, TypeOK, VmPcs, OutPcs
  <2>4. Control'
    BY <1>1, <1>2, <2>1, <2>2
    DEF IInv, TypeOK, Control, RefreshEnd, SwitchPcs
  <2>5. SingleOwner'
    <3>1. \A p \in Ptr : heap'[p] = FREE <=> heap[p] = FREE \/ p = dirty
      BY <1>1, <2>1, <2>2, ObjectFacts DEF IInv, TypeOK
    <3>2. /\ dirty' = NULL /\ dirty # NULL
          /\ UNCHANGED <<out, vmUpd, mainUpd, queue>>
      BY <1>1, <1>7, ConstantsAssumption DEF RefreshEnd
    <3>3. QueuedPtrs' = QueuedPtrs /\ QueueInjective' /\ DistinctOwners'
      BY <3>2 DEF IInv, SingleOwner, QueueInjective, DistinctOwners, QueuedPtrs
    <3>4. Owned' = Owned \ {dirty}
      BY <3>2, <3>3 DEF IInv, SingleOwner, DistinctOwners, Owned
    <3> QED
      BY <3>1, <3>3, <3>4 DEF IInv, SingleOwner
  <2> QED
    BY <1>5, <2>3, <2>4, <2>5 DEF IInv
<1> QED
  BY <1>6, <1>7

LEMMA SwitchBeginInvariant ==
  ASSUME IInv, NEW s \in Surfaces, SwitchBegin(s)
  PROVE  IInv'
<1> USE DEF outVars, mainVars, lockVars, srvVars, netVars, flagVars
<1>1. SurfaceCells(s) \subseteq Int \X Int
  BY ConstantsAssumption DEF SurfaceCells, Surface
<1>2. PICK o \in ShmOutcomes :
        /\ shm' = ShmSetup(o)
        /\ \/ UNCHANGED <<vmPc, vmUpd, heap>>
           \/ /\ \E p \in Fresh :
                   /\ heap'  = [heap EXCEPT ![p] = SwitchObject(s)]
                   /\ vmUpd' = p
              /\ vmPc' = "switchClear"
  BY DEF SwitchBegin
<1>3. shm' \in ShmStates /\ switches' \in 0 .. MaxSwitches
  BY <1>2, ConstantsAssumption DEF IInv, TypeOK, ShmStates, ShmSetup, SwitchBegin
<1>4. /\ surface' = s /\ s # NULL
      /\ shmStale' = SurfaceCells(s) /\ mirrorStale' = SurfaceCells(s) /\ srvGot' = {}
      /\ UNCHANGED <<dirty, outVars, mainVars, lockVars, queue, srvVars, netVars,
                     flagVars>>
  BY ConstantsAssumption DEF SwitchBegin
<1>5. vmPc = "idle" /\ vmUpd = NULL
  BY DEF IInv, Control, SwitchBegin, SwitchPcs
<1>6. CASE UNCHANGED <<vmPc, vmUpd, heap>>
  <2>1. TypeOK'
    BY <1>1, <1>3, <1>4, <1>6 DEF IInv, TypeOK
  <2>2. Control' /\ LockDiscipline'
    BY <1>4, <1>6 DEF IInv, Control, LockDiscipline
  <2>3. SingleOwner'
    BY <1>4, <1>6, OwnersFrame DEF IInv, pointers
  <2> QED
    BY <2>1, <2>2, <2>3 DEF IInv
<1>7. ASSUME NEW p \in Fresh, heap' = [heap EXCEPT ![p] = SwitchObject(s)],
             vmUpd' = p, vmPc' = "switchClear"
      PROVE  IInv'
  <2>1. p \in Ptr /\ heap[p] = FREE /\ p # NULL
    BY FreshFacts
  <2>2. SwitchObject(s) \in Switches /\ SwitchObject(s) # FREE
    BY ObjectFacts
  <2>3. TypeOK'
    <3>1. heap' \in [Ptr -> Updates \cup Switches \cup {FREE}]
      BY <1>7, <2>1, <2>2 DEF IInv, TypeOK
    <3>2. vmUpd' \in PtrOrNull /\ vmPc' \in VmPcs
      BY <1>7, <2>1 DEF PtrOrNull, VmPcs
    <3> QED
      BY <1>1, <1>3, <1>4, <3>1, <3>2 DEF IInv, TypeOK
  <2>4. Control'
    BY <1>4, <1>7, <2>1, ObjectFacts DEF IInv, TypeOK, Control, SwitchPcs
  <2>5. SingleOwner'
    BY <1>4, <1>5, <1>7, <2>1, <2>2
    DEF IInv, TypeOK, SingleOwner, QueueInjective, DistinctOwners, Owned, QueuedPtrs
  <2>6. LockDiscipline'
    BY <1>4, <1>7 DEF IInv, LockDiscipline, VmCopying
  <2> QED
    BY <2>3, <2>4, <2>5, <2>6 DEF IInv
<1> QED
  BY <1>2, <1>6, <1>7

(***************************************************************************)
(* mux_queue_clear frees what is queued and nothing else.                  *)
(***************************************************************************)
LEMMA QueueClearFacts ==
  ASSUME IInv, QueueClear, UNCHANGED <<dirty, out, vmUpd, mainUpd>>
  PROVE  /\ queue' \in Seq(Ptr)
         /\ heap' \in [Ptr -> Updates \cup Switches \cup {FREE}]
         /\ dirty # NULL => heap'[dirty] = heap[dirty]
         /\ out # NULL => heap'[out] = heap[out]
         /\ SingleOwner'
<1>1. queue' = <<>> /\ heap' = [p \in Ptr |-> IF p \in QueuedPtrs THEN FREE ELSE heap[p]]
  BY DEF QueueClear
<1>2. queue' \in Seq(Ptr) /\ QueuedPtrs' = {} /\ QueueInjective'
  BY <1>1 DEF QueuedPtrs, QueueInjective
<1>3. heap' \in [Ptr -> Updates \cup Switches \cup {FREE}]
  BY <1>1 DEF IInv, TypeOK
<1>4. /\ dirty # NULL => heap'[dirty] = heap[dirty]
      /\ out # NULL => heap'[out] = heap[out]
  BY <1>1 DEF IInv, TypeOK, PtrOrNull, SingleOwner, DistinctOwners
<1>5. DistinctOwners' /\ Owned' = Owned \ QueuedPtrs
  BY <1>2 DEF IInv, SingleOwner, DistinctOwners, Owned
<1>6. \A p \in Ptr : heap'[p] # FREE <=> p \in Owned'
  BY <1>1, <1>5 DEF IInv, SingleOwner
<1> QED
  BY <1>2, <1>3, <1>4, <1>5, <1>6 DEF SingleOwner

LEMMA SwitchClearInvariant ==
  ASSUME IInv, SwitchClear
  PROVE  IInv'
<1> USE DEF outVars, mainVars, lockVars, srvVars, netVars, pixVars, flagVars
<1>1. QueueClear /\ UNCHANGED <<dirty, out, vmUpd, mainUpd>>
  BY DEF SwitchClear
<1>2. TypeOK'
  BY <1>1, QueueClearFacts DEF IInv, TypeOK, VmPcs, SwitchClear
<1>3. Control'
  BY <1>1, QueueClearFacts DEF IInv, Control, SwitchPcs, SwitchClear
<1>4. SingleOwner'
  BY <1>1, QueueClearFacts
<1>5. LockDiscipline'
  BY DEF IInv, LockDiscipline, VmCopying, SwitchClear
<1> QED
  BY <1>2, <1>3, <1>4, <1>5 DEF IInv

LEMMA SwitchLockInvariant ==
  ASSUME IInv, SwitchLock
  PROVE  IInv'
<1> USE DEF outVars, mainVars, memVars, srvVars, netVars, pixVars
<1>1. fault' \in {"null", "overrun", fault}
  BY DEF SwitchLock
<1>2. TypeOK'
  BY <1>1 DEF IInv, TypeOK, VmPcs, SwitchLock
<1>3. Control'
  BY DEF IInv, Control, SwitchPcs, SwitchLock
<1>4. SingleOwner'
  BY OwnersFrame DEF IInv, pointers, SwitchLock
<1>5. LockDiscipline'
  BY DEF IInv, LockDiscipline, VmCopying, SwitchLock
<1> QED
  BY <1>2, <1>3, <1>4, <1>5 DEF IInv

LEMMA SwitchCopiedInvariant ==
  ASSUME IInv, SwitchCopied
  PROVE  IInv'
<1> USE DEF mainVars, memVars, srvVars, netVars, flagVars
<1>1. outPc' \in {outPc, "wokenAck"}
  BY DEF SwitchCopied, SignalShmCond
<1>2. TypeOK'
  BY <1>1 DEF IInv, TypeOK, VmPcs, OutPcs, SwitchCopied
<1>3. Control'
  BY <1>1 DEF IInv, Control, SwitchPcs, SwitchCopied
<1>4. SingleOwner'
  BY OwnersFrame DEF IInv, pointers, SwitchCopied
<1>5. LockDiscipline'
  BY <1>1 DEF IInv, LockDiscipline, VmCopying, OutCritical, SwitchCopied
<1> QED
  BY <1>2, <1>3, <1>4, <1>5 DEF IInv

(***************************************************************************)
(* An object goes from a local or from out_update to the end of the queue. *)
(***************************************************************************)
LEMMA EnqueueFacts ==
  ASSUME IInv, NEW p \in Ptr, queue' = Append(queue, p),
         UNCHANGED <<dirty, mainUpd, heap>>,
         \/ p = vmUpd /\ vmUpd' = NULL /\ UNCHANGED out
         \/ p = out /\ out' = NULL /\ UNCHANGED vmUpd
  PROVE  queue' \in Seq(Ptr) /\ SingleOwner'
<1>1. p # NULL /\ queue \in Seq(Ptr)
  BY ConstantsAssumption DEF IInv, TypeOK
<1>2. p \notin Elems(queue) /\ Distinct(queue)
  BY <1>1, QueueAsElems DEF IInv, SingleOwner, DistinctOwners
<1>3. /\ queue' \in Seq(Ptr) /\ Elems(queue') = Elems(queue) \cup {p}
      /\ Distinct(queue')
  BY <1>1, <1>2, AppendFacts
<1>4. QueuedPtrs' = QueuedPtrs \cup {p} /\ QueueInjective'
  BY <1>3 DEF QueuedPtrs, QueueInjective, Elems, Distinct
<1>5. DistinctOwners' /\ Owned' = Owned
  BY <1>1, <1>4 DEF IInv, SingleOwner, DistinctOwners, Owned
<1> QED
  BY <1>3, <1>4, <1>5 DEF IInv, SingleOwner

LEMMA SwitchEnqueueInvariant ==
  ASSUME IInv, SwitchEnqueue
  PROVE  IInv'
<1> USE DEF outVars, mainVars, lockVars, srvVars, netVars, pixVars, flagVars
<1>1. vmUpd \in Ptr
  BY DEF IInv, TypeOK, PtrOrNull, Control, SwitchPcs, SwitchEnqueue
<1>2. queue' \in Seq(Ptr) /\ SingleOwner'
  BY <1>1, EnqueueFacts DEF SwitchEnqueue, Enqueue
<1>3. TypeOK'
  BY <1>2 DEF IInv, TypeOK, PtrOrNull, VmPcs, SwitchEnqueue
<1>4. Control'
  BY DEF IInv, Control, SwitchPcs, SwitchEnqueue
<1>5. LockDiscipline'
  BY DEF IInv, LockDiscipline, VmCopying, SwitchEnqueue
<1> QED
  BY <1>2, <1>3, <1>4, <1>5 DEF IInv

LEMMA VmInvariant == IInv /\ VmNext => IInv'
BY DisplayUpdateInvariant, RefreshDeferredInvariant, RefreshBeginInvariant,
   RefreshEndInvariant, SwitchBeginInvariant, SwitchClearInvariant,
   SwitchLockInvariant, SwitchCopiedInvariant, SwitchEnqueueInvariant
DEF VmNext, VmReturn

-----------------------------------------------------------------------------
(***************************************************************************)
(* The out loop.  All of its steps but one only move it between its        *)
(* program counters and take or release locks.                             *)
(***************************************************************************)
LEMMA OutFrame ==
  ASSUME IInv, OutUnchanged, UNCHANGED <<out, memVars>>,
         outPc' \in OutPcs, outPc' = "enqueue" => out # NULL,
         shmLock' \in {"free", "vm", "out"}, stopLock' \in {"free", "out"},
         LockDiscipline'
  PROVE  IInv'
<1> USE DEF OutUnchanged, vmVars, mainVars, srvVars, netVars, pixVars,
            flagVars, memVars
<1>1. TypeOK'
  BY DEF IInv, TypeOK
<1>2. Control'
  BY DEF IInv, Control
<1>3. SingleOwner'
  BY OwnersFrame DEF IInv, pointers
<1> QED
  BY <1>1, <1>2, <1>3 DEF IInv

LEMMA OutInvariant == IInv /\ (OutStep \/ OutSpurious) => IInv'
<1> SUFFICES ASSUME IInv, OutStep \/ OutSpurious
             PROVE  IInv'
  OBVIOUS
<1> USE DEF LockDiscipline, VmCopying, OutCritical, OutPcs
<1>0. /\ shmLock \in {"free", "vm", "out"} /\ stopLock \in {"free", "out"}
      /\ LockDiscipline
  BY DEF IInv, TypeOK
<1>1. CASE OutTop
  BY <1>0, <1>1, OutFrame DEF OutTop, StopSeen, OutUnchanged, vmVars, memVars
<1>2. CASE OutLock
  BY <1>0, <1>2, OutFrame DEF OutLock, OutUnchanged, vmVars, memVars
<1>3. CASE OutTest
  BY <1>0, <1>3, OutFrame DEF OutTest, StopSeen, OutUnchanged, vmVars, memVars
<1>4. CASE OutWaitUpdate
  BY <1>0, <1>4, OutFrame DEF OutWaitUpdate, OutUnchanged, vmVars, memVars
<1>5. CASE OutEnqueue
  <2> USE DEF OutUnchanged, vmVars, mainVars, srvVars, netVars, pixVars,
              flagVars, lockVars
  <2>1. out \in Ptr /\ out' = NULL
    BY <1>5 DEF IInv, TypeOK, PtrOrNull, Control, OutEnqueue, HandOver
  <2>2. queue' \in Seq(Ptr) /\ SingleOwner'
    BY <1>5, <2>1, EnqueueFacts DEF OutEnqueue, Enqueue
  <2>3. TypeOK'
    BY <1>5, <2>1, <2>2 DEF IInv, TypeOK, PtrOrNull, OutEnqueue
  <2>4. Control'
    BY <1>5, <2>1 DEF IInv, Control, OutEnqueue
  <2>5. LockDiscipline'
    BY <1>0, <1>5 DEF OutEnqueue
  <2> QED
    BY <2>2, <2>3, <2>4, <2>5 DEF IInv
<1>6. CASE OutWaitAck
  BY <1>0, <1>6, OutFrame DEF OutWaitAck, OutUnchanged, vmVars, memVars
<1>7. CASE OutWokenAck
  BY <1>0, <1>7, OutFrame DEF OutWokenAck, OutUnchanged, vmVars, memVars
<1>8. CASE OutAcked
  BY <1>0, <1>8, OutFrame DEF OutAcked, StopSeen, OutUnchanged, vmVars, memVars
<1>9. CASE OutCleanup
  BY <1>0, <1>9, OutFrame DEF OutCleanup, ReleaseShm, OutUnchanged, vmVars, memVars
<1>10. CASE OutSpurious
  BY <1>0, <1>10, OutFrame DEF OutSpurious, OutUnchanged, lockVars, vmVars, memVars
<1> QED
  BY <1>1, <1>2, <1>3, <1>4, <1>5, <1>6, <1>7, <1>8, <1>9, <1>10 DEF OutStep

-----------------------------------------------------------------------------
(***************************************************************************)
(* The main loop.  It never takes shm_lock, and it moves the out loop only *)
(* from a wait to the retaking of the lock.                                *)
(***************************************************************************)
LEMMA SignalFacts ==
  ASSUME outPc \in OutPcs,
         UNCHANGED outPc \/ SignalUpdateCond \/ SignalShmCond
  PROVE  /\ outPc' \in OutPcs
         /\ \/ outPc' = outPc
            \/ outPc # "done" /\ outPc' \in {"wokenUpdate", "wokenAck"}
BY DEF SignalUpdateCond, SignalShmCond, OutPcs

LEMMA MainFrame ==
  ASSUME IInv, MainUnchanged, UNCHANGED <<mainUpd, memVars, shmLock, stop, fault>>,
         mainPc # "send", mainPc' \in MainPcs \ {"send"},
         stopping' \in BOOLEAN, UNCHANGED interrupted,
         stopLock' \in {"free", "out"}, framerate' \in Framerates,
         toServer' \in Seq(LibMessages), toLib' \in Seq(ServerMessages),
         UNCHANGED outPc \/ SignalUpdateCond \/ SignalShmCond
  PROVE  IInv'
<1> USE DEF MainUnchanged, vmVars, srvVars, pixVars, memVars
<1>1. /\ outPc' \in OutPcs
      /\ \/ outPc' = outPc
         \/ outPc # "done" /\ outPc' \in {"wokenUpdate", "wokenAck"}
  BY SignalFacts DEF IInv, TypeOK
<1>2. TypeOK'
  BY <1>1 DEF IInv, TypeOK
<1>3. Control'
  BY <1>1 DEF IInv, Control
<1>4. SingleOwner'
  BY OwnersFrame DEF IInv, pointers
<1>5. LockDiscipline'
  BY <1>1 DEF IInv, LockDiscipline, OutCritical
<1> QED
  BY <1>2, <1>3, <1>4, <1>5 DEF IInv

LEMMA MainDequeueInvariant ==
  ASSUME IInv, MainDequeue
  PROVE  IInv'
<1> USE DEF MainUnchanged, vmVars, srvVars, pixVars, lockVars, netVars, flagVars
<1>1. queue \in Seq(Ptr) /\ queue # <<>> /\ mainUpd = NULL /\ NULL \notin Ptr
  BY ConstantsAssumption DEF IInv, TypeOK, Control, MainDequeue
<1>2. /\ queue' = Tail(queue) /\ mainUpd' = Head(queue)
      /\ UNCHANGED <<dirty, out, vmUpd, heap>>
  BY DEF MainDequeue
<1>3. /\ queue' \in Seq(Ptr) /\ mainUpd' \in Ptr
      /\ Elems(queue) = Elems(queue') \cup {mainUpd'}
      /\ Distinct(queue') /\ mainUpd' \notin Elems(queue')
  BY <1>1, <1>2, TailFacts, QueueAsElems DEF IInv, SingleOwner
<1>4. /\ QueuedPtrs = QueuedPtrs' \cup {mainUpd'}
      /\ QueueInjective' /\ mainUpd' \notin QueuedPtrs'
  BY <1>3 DEF QueuedPtrs, QueueInjective, Elems, Distinct
<1>5. DistinctOwners' /\ Owned' = Owned
  BY <1>1, <1>2, <1>3, <1>4 DEF IInv, SingleOwner, DistinctOwners, Owned
<1>6. SingleOwner'
  BY <1>2, <1>4, <1>5 DEF IInv, SingleOwner
<1>7. TypeOK'
  BY <1>3 DEF IInv, TypeOK, PtrOrNull, MainPcs, MainDequeue
<1>8. Control' /\ LockDiscipline'
  BY <1>1, <1>3 DEF IInv, Control, LockDiscipline, MainDequeue
<1> QED
  BY <1>6, <1>7, <1>8 DEF IInv

LEMMA MainSendInvariant ==
  ASSUME IInv, MainSend
  PROVE  IInv'
<1> USE DEF MainUnchanged, vmVars, srvVars, pixVars, lockVars, flagVars
<1>1. mainUpd \in Ptr /\ mainUpd # NULL
  BY DEF IInv, TypeOK, PtrOrNull, Control, MainSend
<1>2. /\ mainUpd' = NULL /\ heap' = [heap EXCEPT ![mainUpd] = FREE]
      /\ UNCHANGED <<dirty, out, vmUpd, queue>>
  BY DEF MainSend
<1>3. heap[mainUpd] \in Updates \cup Switches
  BY <1>1 DEF IInv, TypeOK, SingleOwner, Owned
<1>4. toServer' \in Seq(LibMessages)
  BY <1>3, WireType DEF IInv, TypeOK, MainSend, Send
<1>5. heap' \in [Ptr -> Updates \cup Switches \cup {FREE}]
  BY <1>2 DEF IInv, TypeOK
<1>6. TypeOK'
  BY <1>2, <1>4, <1>5 DEF IInv, TypeOK, PtrOrNull, MainPcs, MainSend
<1>7. Control'
  BY <1>1, <1>2 DEF IInv, TypeOK, PtrOrNull, Control, SingleOwner, DistinctOwners, MainSend
<1>8. SingleOwner'
  <2>1. QueuedPtrs' = QueuedPtrs /\ QueueInjective' /\ DistinctOwners'
    BY <1>2 DEF IInv, SingleOwner, QueueInjective, DistinctOwners, QueuedPtrs
  <2>2. Owned' = Owned \ {mainUpd}
    BY <1>1, <1>2, <2>1 DEF IInv, SingleOwner, DistinctOwners, Owned
  <2>3. \A p \in Ptr : heap'[p] = FREE <=> heap[p] = FREE \/ p = mainUpd
    BY <1>1, <1>2 DEF IInv, TypeOK
  <2> QED
    BY <2>1, <2>2, <2>3 DEF IInv, SingleOwner
<1>9. LockDiscipline'
  BY DEF IInv, LockDiscipline, MainSend
<1> QED
  BY <1>6, <1>7, <1>8, <1>9 DEF IInv

LEMMA MainExitClearInvariant ==
  ASSUME IInv, MainExitClear
  PROVE  IInv'
<1> USE DEF MainUnchanged, vmVars, srvVars, pixVars, lockVars, netVars, flagVars
<1>1. QueueClear /\ UNCHANGED <<dirty, out, vmUpd, mainUpd>>
  BY DEF MainExitClear
<1>2. TypeOK'
  BY <1>1, QueueClearFacts DEF IInv, TypeOK, MainPcs, MainExitClear
<1>3. Control'
  BY <1>1, QueueClearFacts DEF IInv, Control, MainExitClear
<1>4. SingleOwner'
  BY <1>1, QueueClearFacts
<1>5. LockDiscipline'
  BY DEF IInv, LockDiscipline, MainExitClear
<1> QED
  BY <1>2, <1>3, <1>4, <1>5 DEF IInv

(***************************************************************************)
(* A message of the server gives the frame rate only when it reports       *)
(* success, so the frame rate stays one of Framerates.                     *)
(***************************************************************************)
LEMMA ReceiveFacts ==
  ASSUME IInv, MainReceive
  PROVE  framerate' \in Framerates /\ toLib' \in Seq(ServerMessages)
<1>1. toLib \in Seq(ServerMessages) /\ toLib # <<>> /\ framerate \in Framerates
  BY DEF IInv, TypeOK, MainReceive
<1>2. Head(toLib) \in ServerMessages /\ Tail(toLib) \in Seq(ServerMessages)
  BY <1>1
<1>3. \A m \in ServerMessages : IsAck(m) => AckedFramerate(m) \in Framerates
  BY <1>1 DEF ServerMessages, IsAck, AckedFramerate, Complete, NotComplete, Input
<1> QED
  BY <1>1, <1>2, <1>3 DEF MainReceive

LEMMA MainInvariant == IInv /\ MainStep => IInv'
<1> SUFFICES ASSUME IInv, MainStep
             PROVE  IInv'
  OBVIOUS
<1> USE DEF MainUnchanged, lockVars, memVars, netVars, flagVars, MainPcs
<1>0. /\ stopLock \in {"free", "out"} /\ framerate \in Framerates
      /\ stopping \in BOOLEAN /\ interrupted \in BOOLEAN /\ stop \in BOOLEAN
      /\ toServer \in Seq(LibMessages) /\ toLib \in Seq(ServerMessages)
  BY DEF IInv, TypeOK
<1>1. CASE MainCheckQueue
  BY <1>0, <1>1, MainFrame DEF MainCheckQueue, DrainOrPoll
<1>2. CASE MainDequeue
  BY <1>2, MainDequeueInvariant
<1>3. CASE MainSend
  BY <1>3, MainSendInvariant
<1>4. CASE MainReceive
  <2>1. UNCHANGED outPc \/ SignalShmCond
    BY <1>4 DEF MainReceive
  <2> QED
    BY <1>0, <1>4, <2>1, ReceiveFacts, MainFrame DEF MainReceive
<1>5. CASE MainPollEmpty
  BY <1>0, <1>5, MainFrame DEF MainPollEmpty
<1>6. CASE MainStopCheck
  BY <1>0, <1>6, MainFrame DEF MainStopCheck
<1>7. CASE MainExitUnlock
  BY <1>0, <1>7, MainFrame DEF MainExitUnlock
<1>8. CASE MainExitClear
  BY <1>8, MainExitClearInvariant
<1>9. CASE MainSendShutdown
  <2>1. toServer' \in Seq(LibMessages)
    BY <1>0, <1>9 DEF MainSendShutdown, Send, LibMessages
  <2> QED
    BY <1>0, <1>9, <2>1, MainFrame DEF MainSendShutdown
<1>10. CASE MainWakeUpdate
  BY <1>0, <1>10, MainFrame DEF MainWakeUpdate
<1>11. CASE MainWakeShm
  BY <1>0, <1>11, MainFrame DEF MainWakeShm
<1> QED
  BY <1>1, <1>2, <1>3, <1>4, <1>5, <1>6, <1>7, <1>8, <1>9, <1>10, <1>11
  DEF MainStep

-----------------------------------------------------------------------------
(***************************************************************************)
(* mux_cleanup, the signal handler and the server: none of them touches a  *)
(* pointer, a program counter of the library or shm_lock.                  *)
(***************************************************************************)
privates == <<surface, dirty, out, vmUpd, mainUpd, queue, heap, shmLock,
              vmPc, outPc, mainPc>>

LEMMA OutsideFrame ==
  ASSUME IInv, UNCHANGED privates
  PROVE  Control' /\ SingleOwner' /\ LockDiscipline'
<1>1. Control' /\ LockDiscipline'
  BY DEF IInv, Control, LockDiscipline, privates
<1>2. SingleOwner'
  BY OwnersFrame DEF IInv, pointers, privates
<1> QED
  BY <1>1, <1>2

LEMMA EnvironmentInvariant ==
  IInv /\ (MuxCleanup \/ MuxHandler) => IInv'
<1> SUFFICES ASSUME IInv, MuxCleanup \/ MuxHandler
             PROVE  IInv'
  OBVIOUS
<1> USE DEF vmVars, outVars, mainVars, lockVars, memVars, srvVars, netVars,
            pixVars, flagVars
<1>1. UNCHANGED privates
  BY DEF MuxCleanup, MuxHandler, privates
<1>2. CASE MuxCleanup
  <2>1. fault' \in {fault, "badfree"} /\ stop' = TRUE
    BY <1>2 DEF MuxCleanup
  <2>2. TypeOK'
    BY <1>2, <2>1 DEF IInv, TypeOK, MuxCleanup
  <2> QED
    BY <1>1, <2>2, OutsideFrame DEF IInv
<1>3. CASE MuxHandler
  <2>1. TypeOK'
    BY <1>3 DEF IInv, TypeOK, MuxHandler
  <2> QED
    BY <1>1, <2>1, OutsideFrame DEF IInv
<1> QED
  BY <1>2, <1>3

LEMMA ServerInvariant == IInv /\ (ServerStep \/ ServerInput) => IInv'
<1> SUFFICES ASSUME IInv, ServerStep \/ ServerInput
             PROVE  IInv'
  OBVIOUS
<1> USE DEF ServerUnchanged, vmVars, outVars, mainVars, lockVars, memVars, flagVars
<1>1. UNCHANGED privates
  BY DEF ServerStep, ServerReadUpdate, ServerReadSwitch, ServerReadDone,
         ServerShutdown, ServerInput, privates
<1>2. /\ toServer \in Seq(LibMessages) /\ toLib \in Seq(ServerMessages)
      /\ surface \in Surfaces \cup {NULL}
      /\ mirrorStale \subseteq Int \X Int /\ srvGot \subseteq Int \X Int
  BY DEF IInv, TypeOK
<1>3. surface # NULL => SurfaceCells(surface) \subseteq Int \X Int
  BY <1>2, ConstantsAssumption DEF SurfaceCells, Surface
<1>4. toServer # <<>> => /\ Head(toServer) \in LibMessages
                         /\ Tail(toServer) \in Seq(LibMessages)
  BY <1>2
<1>5. CASE ServerReadUpdate
  <2>1. Head(toServer).region \in IntRegion
    BY <1>4, <1>5
    DEF ServerReadUpdate, LibMessages, Switches, Shutdown, Region, IntRegion
  <2>2. srvGot' \subseteq Int \X Int
    BY <1>5, <2>1, RectOfType DEF ServerReadUpdate, Cells, Rect
  <2>3. TypeOK'
    BY <1>4, <1>5, <2>2 DEF IInv, TypeOK, ServerReadUpdate
  <2> QED
    BY <1>1, <2>3, OutsideFrame DEF IInv
<1>6. CASE ServerReadSwitch
  <2>1. Head(toServer).size \in Surfaces
    BY <1>4, <1>6 DEF ServerReadSwitch, LibMessages, Switches, Shutdown
  <2>2. srvGot' \subseteq Int \X Int /\ mirrorStale' \subseteq Int \X Int
    BY <1>2, <1>6, <2>1, ConstantsAssumption DEF ServerReadSwitch, SurfaceCells, Surface
  <2>3. TypeOK'
    BY <1>4, <1>6, <2>1, <2>2 DEF IInv, TypeOK, ServerReadSwitch
  <2> QED
    BY <1>1, <2>3, OutsideFrame DEF IInv
<1>7. CASE ServerReadDone
  <2>1. toLib' \in Seq(ServerMessages)
    BY <1>2, <1>7 DEF ServerReadDone, ServerMessages
  <2>2. TypeOK'
    BY <1>7, <2>1 DEF IInv, TypeOK, ServerReadDone
  <2> QED
    BY <1>1, <2>2, OutsideFrame DEF IInv
<1>8. CASE ServerShutdown
  <2>1. TypeOK'
    BY <1>4, <1>8 DEF IInv, TypeOK, ServerShutdown, pixVars
  <2> QED
    BY <1>1, <2>1, OutsideFrame DEF IInv
<1>9. CASE ServerInput
  <2>1. toLib' \in Seq(ServerMessages)
    BY <1>2, <1>9 DEF ServerInput, ServerMessages
  <2>2. TypeOK'
    BY <1>9, <2>1 DEF IInv, TypeOK, ServerInput, srvVars, pixVars
  <2> QED
    BY <1>1, <2>2, OutsideFrame DEF IInv
<1> QED
  BY <1>5, <1>6, <1>7, <1>8, <1>9 DEF ServerStep

-----------------------------------------------------------------------------
(***************************************************************************)
(* The theorems.                                                           *)
(***************************************************************************)
LEMMA StutterInvariant == IInv /\ UNCHANGED vars => IInv'
<1> SUFFICES ASSUME IInv, UNCHANGED vars
             PROVE  IInv'
  OBVIOUS
<1> USE DEF vars, vmVars, outVars, mainVars, lockVars, memVars, srvVars, netVars,
            pixVars, flagVars
<1>1. TypeOK'
  BY DEF IInv, TypeOK
<1> QED
  BY <1>1, OutsideFrame DEF IInv, privates

(***************************************************************************)
(* Types, ownership and the locks in every reachable state, whatever the   *)
(* three threads, the backend and the server do and in whatever order.     *)
(***************************************************************************)
THEOREM Invariant == Spec => []IInv
<1>1. Init => IInv
  BY InitInvariant
<1>2. IInv /\ [Next]_vars => IInv'
  BY VmInvariant, OutInvariant, MainInvariant, EnvironmentInvariant,
     ServerInvariant, StutterInvariant
  DEF Next, Alive
<1> QED
  BY <1>1, <1>2, PTL DEF Spec

(***************************************************************************)
(* Type correctness; with it, the frame rate that mux_display_refresh      *)
(* divides by is always one the server asked for in a successful           *)
(* acknowledgement, or the initial one (msgpack.c:168-188).                *)
(***************************************************************************)
THEOREM TypeCorrect == Spec => []TypeOK
<1>1. IInv => TypeOK
  BY DEF IInv
<1> QED
  BY <1>1, Invariant, PTL

(***************************************************************************)
(* No MuxUpdate is leaked, freed twice, used after it was freed, or        *)
(* reachable from two places, in any interleaving of the display thread,   *)
(* the out loop and the main loop (rdpmux.c:108-126, 281-290, 341-342,     *)
(* 408-416; queue.c).                                                      *)
(***************************************************************************)
THEOREM OwnersAreSingle == Spec => []SingleOwner
<1>1. IInv => SingleOwner
  BY DEF IInv
<1> QED
  BY <1>1, Invariant, PTL

(***************************************************************************)
(* The display thread never copies into the shared region or merges into   *)
(* out_update while the out loop is in a critical section, although the    *)
(* out loop may unlock a shm_lock it does not hold (rdpmux.c:358).         *)
(***************************************************************************)
THEOREM VmAndOutExclude == Spec => []VmOutExclusion
<1>1. IInv => VmOutExclusion
  BY DEF IInv, LockDiscipline, VmOutExclusion, OutCritical
<1> QED
  BY <1>1, Invariant, PTL

(***************************************************************************)
(* Copies into the shared region.                                          *)
(***************************************************************************)
LEMMA Monotone ==
  ASSUME NEW a \in Int, NEW b \in Int, NEW w \in Nat, a <= b
  PROVE  a * w <= b * w
OBVIOUS

LEMMA RefreshStaysInside ==
  ASSUME IInv, RefreshBegin, surface.w * surface.h <= ShmPixels, fault # "overrun"
  PROVE  fault' # "overrun"
<1> DEFINE u == AlignToSurface(heap[dirty].rect, surface)
<1>1. /\ surface \in Surface /\ heap[dirty].rect \in Rect
  BY ConstantsAssumption, ObjectFacts
  DEF IInv, TypeOK, PtrOrNull, Control, RefreshBegin
<1>2. surface.w \in Nat /\ surface.h \in Nat
  BY <1>1 DEF Surface
<1>3. u \in Rect
  BY <1>1, AlignToSurfaceType
<1>4. u.y2 \in Int /\ u.y2 <= surface.h
  <2>1. u.y2 \in Int
    BY <1>3 DEF Rect
  <2>2. u.y2 = MinInt(AlignUp(heap[dirty].rect.y2), surface.h)
    BY DEF AlignToSurface
  <2> QED
    BY <1>2, <2>1, <2>2 DEF MinInt
<1>5. u.y2 * surface.w <= surface.h * surface.w
  BY <1>2, <1>4, Monotone
<1>6. u.y2 * surface.w <= ShmPixels
  BY <1>2, <1>4, <1>5, ConstantsAssumption
<1>7. fault' = CopyFault(u)
  BY DEF RefreshBegin
<1> HIDE DEF u
<1> QED
  BY <1>2, <1>4, <1>6, <1>7, ConstantsAssumption DEF CopyFault

\* A switch in progress has a framebuffer to copy.
SwitchHasSurface == vmPc \in SwitchPcs => surface # NULL

(***************************************************************************)
(* Neither the copy of a whole framebuffer nor that of a box, rounded up   *)
(* or left behind by another framebuffer, writes past the region, unless   *)
(* the framebuffer has more pixels than the region (rdpmux.c:156, 202-207, *)
(* 243-278).                                                               *)
(***************************************************************************)
THEOREM CopiesStayInside == Spec => []OnlyLargeOverruns
<1> DEFINE Large == surface.w * surface.h > ShmPixels
           Inv   == OnlyLargeOverruns /\ SwitchHasSurface
<1>1. Init => Inv
  BY DEF Init, OnlyLargeOverruns, SwitchHasSurface, SwitchPcs
<1>2. IInv /\ Inv /\ Next => Inv'
  <2> SUFFICES ASSUME IInv, fault # "overrun", SwitchHasSurface, Next
               PROVE  (fault' = "overrun" => Large') /\ SwitchHasSurface'
    BY DEF OnlyLargeOverruns, Next, Alive
  <2> USE DEF flagVars, vmVars, SwitchHasSurface, SwitchPcs
  <2>1. surface # NULL /\ ~Large => surface.w * surface.h <= ShmPixels
    BY ConstantsAssumption DEF IInv, TypeOK, Surface
  <2>2. CASE VmNext
    <3>1. CASE RefreshBegin
      <4>1. surface # NULL /\ UNCHANGED surface
        BY <3>1 DEF IInv, Control, RefreshBegin
      <4>2. ~Large => fault' # "overrun"
        BY <2>1, <3>1, <4>1, RefreshStaysInside
      <4>3. Large' <=> Large
        BY <4>1
      <4> QED
        BY <3>1, <4>1, <4>2, <4>3 DEF RefreshBegin
    <3>2. CASE SwitchLock
      <4>1. surface # NULL /\ UNCHANGED surface
        BY <3>2 DEF SwitchLock
      <4>2. ~Large => fault' # "overrun"
        BY <3>2 DEF SwitchLock
      <4>3. Large' <=> Large
        BY <4>1
      <4> QED
        BY <3>2, <4>1, <4>2, <4>3 DEF SwitchLock
    <3> HIDE DEF Large
    <3>3. CASE \E r \in Regions : MuxDisplayUpdate(r)
      BY <3>3 DEF MuxDisplayUpdate
    <3>4. CASE RefreshDeferred \/ RefreshEnd
      BY <3>4 DEF RefreshDeferred, RefreshEnd, ReturnInterval
    <3>5. CASE \E s \in Surfaces : SwitchBegin(s)
      BY <3>5, ConstantsAssumption DEF SwitchBegin
    <3>6. CASE SwitchClear \/ SwitchCopied \/ SwitchEnqueue
      BY <3>6 DEF SwitchClear, SwitchCopied, SwitchEnqueue
    <3> QED
      BY <2>2, <3>1, <3>2, <3>3, <3>4, <3>5, <3>6 DEF VmNext, VmReturn
  <2>3. CASE OutStep \/ OutSpurious
    BY <2>3 DEF OutStep, OutTop, OutLock, OutTest, OutWaitUpdate, OutEnqueue,
       OutWaitAck, OutWokenAck, OutAcked, OutCleanup, OutSpurious, OutUnchanged
  <2>4. CASE MainStep
    BY <2>4 DEF MainStep, MainCheckQueue, MainDequeue, MainSend, MainReceive,
       MainPollEmpty, MainStopCheck, MainExitUnlock, MainExitClear,
       MainSendShutdown, MainWakeUpdate, MainWakeShm, MainUnchanged
  <2>5. CASE MuxCleanup \/ MuxHandler
    BY <2>5 DEF MuxCleanup, MuxHandler
  <2>6. CASE ServerStep \/ ServerInput
    BY <2>6 DEF ServerStep, ServerReadUpdate, ServerReadSwitch, ServerReadDone,
       ServerShutdown, ServerInput, ServerUnchanged
  <2> QED
    BY <2>2, <2>3, <2>4, <2>5, <2>6 DEF Next, Alive
<1>3. Inv /\ UNCHANGED vars => Inv'
  BY DEF OnlyLargeOverruns, SwitchHasSurface, vars, vmVars, flagVars
<1>4. Inv => OnlyLargeOverruns
  OBVIOUS
<1> HIDE DEF Inv
<1> QED
  BY <1>1, <1>2, <1>3, <1>4, Invariant, PTL DEF Spec

-----------------------------------------------------------------------------
(***************************************************************************)
(* What has been handed over is nobody else's.                             *)
(***************************************************************************)
Frozen ==
  \A p \in Handed : IF p \in Handed' THEN heap'[p] = heap[p] ELSE heap'[p] = FREE

LEMMA HandedFacts ==
  ASSUME IInv, NEW p \in Handed
  PROVE  p \in Ptr /\ p # NULL /\ heap[p] # FREE /\ p # dirty /\ p # out /\ p # vmUpd
<1>1. NULL \notin QueuedPtrs
  BY ConstantsAssumption DEF IInv, TypeOK, QueuedPtrs
<1>2. p # NULL /\ p \in Owned
  BY <1>1 DEF Handed, Owned
<1>3. p \in Ptr
  BY <1>2 DEF Handed, IInv, TypeOK, QueuedPtrs, PtrOrNull
<1> QED
  BY <1>2, <1>3 DEF Handed, IInv, SingleOwner, DistinctOwners

LEMMA HandedFrame ==
  ASSUME UNCHANGED << queue, mainUpd >>, \A p \in Handed : heap'[p] = heap[p]
  PROVE  Frozen
BY DEF Frozen, Handed, QueuedPtrs

LEMMA QueueClearFrees ==
  ASSUME IInv, QueueClear, UNCHANGED mainUpd
  PROVE  Frozen
<1>1. QueuedPtrs' = {} /\ heap' = [p \in Ptr |-> IF p \in QueuedPtrs THEN FREE ELSE heap[p]]
  BY DEF QueueClear, QueuedPtrs
<1>2. Handed' = {mainUpd} \ {NULL} /\ (mainUpd # NULL => mainUpd \notin QueuedPtrs)
  BY <1>1 DEF Handed, IInv, SingleOwner, DistinctOwners
<1>3. ASSUME NEW p \in Handed
      PROVE  IF p \in Handed' THEN heap'[p] = heap[p] ELSE heap'[p] = FREE
  BY <1>1, <1>2, HandedFacts DEF Handed
<1> QED
  BY <1>3 DEF Frozen

LEMMA EnqueueKeeps ==
  ASSUME IInv, NEW p \in Ptr, queue' = Append(queue, p), UNCHANGED << mainUpd, heap >>
  PROVE  Frozen
<1>1. queue \in Seq(Ptr)
  BY DEF IInv, TypeOK
<1>2. QueuedPtrs \subseteq QueuedPtrs'
  <2>1. Len(queue') = Len(queue) + 1 /\ \A i \in 1 .. Len(queue) : queue'[i] = queue[i]
    BY <1>1
  <2> QED
    BY <1>1, <2>1 DEF QueuedPtrs
<1> QED
  BY <1>2 DEF Frozen, Handed

LEMMA VmKeepsHanded == IInv /\ VmNext => Frozen
<1> SUFFICES ASSUME IInv, VmNext
             PROVE  Frozen
  OBVIOUS
<1> USE DEF outVars, mainVars, memVars
<1>0. heap \in [Ptr -> Updates \cup Switches \cup {FREE}] /\ dirty \in PtrOrNull /\ out \in PtrOrNull
  BY DEF IInv, TypeOK
<1>1. CASE \E r \in Regions : MuxDisplayUpdate(r)
  <2>1. PICK r \in Regions : MuxDisplayUpdate(r)
    BY <1>1
  <2>2. PICK p, o : /\ heap' = [heap EXCEPT ![p] = o]
                    /\ p \in Fresh \/ p = dirty
    BY <2>1 DEF MuxDisplayUpdate
  <2>3. \A q \in Handed : q # p
    BY <2>2, HandedFacts, FreshFacts
  <2>4. UNCHANGED << queue, mainUpd >>
    BY <2>1 DEF MuxDisplayUpdate
  <2> QED
    BY <1>0, <2>2, <2>3, <2>4, HandedFacts, HandedFrame
<1>2. CASE RefreshDeferred
  BY <1>2, HandedFrame DEF RefreshDeferred, KeepDirty
<1>3. CASE RefreshBegin
  <2>1. PICK o : heap' = [heap EXCEPT ![dirty] = o]
    BY <1>3 DEF RefreshBegin
  <2>2. UNCHANGED << queue, mainUpd >>
    BY <1>3 DEF RefreshBegin
  <2> QED
    BY <1>0, <2>1, <2>2, HandedFacts, HandedFrame
<1>4. CASE RefreshEnd
  <2>1. PICK p, o : /\ heap' = [heap EXCEPT ![p] = o, ![dirty] = FREE]
                    /\ p \in Fresh \/ p = out
    BY <1>4 DEF RefreshEnd, GrowOut
  <2>2. \A q \in Handed : q # p /\ q # dirty
    BY <2>1, HandedFacts, FreshFacts
  <2>3. UNCHANGED << queue, mainUpd >>
    BY <1>4 DEF RefreshEnd
  <2> QED
    BY <1>0, <2>1, <2>2, <2>3, HandedFacts, HandedFrame
<1>5. CASE \E s \in Surfaces : SwitchBegin(s)
  <2>1. PICK s \in Surfaces : SwitchBegin(s)
    BY <1>5
  <2>2. UNCHANGED << queue, mainUpd >>
    BY <2>1 DEF SwitchBegin
  <2>3. CASE UNCHANGED heap
    BY <2>2, <2>3, HandedFrame
  <2>4. CASE \E p \in Fresh : heap' = [heap EXCEPT ![p] = SwitchObject(s)]
    <3>1. PICK p \in Fresh : heap' = [heap EXCEPT ![p] = SwitchObject(s)]
      BY <2>4
    <3>2. \A q \in Handed : q # p
      BY HandedFacts, FreshFacts
    <3> QED
      BY <1>0, <2>2, <3>1, <3>2, HandedFacts, HandedFrame
  <2> QED
    BY <2>1, <2>3, <2>4 DEF SwitchBegin
<1>6. CASE SwitchClear
  BY <1>6, QueueClearFrees DEF SwitchClear
<1>7. CASE SwitchLock
  BY <1>7, HandedFrame DEF SwitchLock
<1>8. CASE SwitchCopied
  BY <1>8, HandedFrame DEF SwitchCopied
<1>9. CASE SwitchEnqueue
  <2>1. vmUpd \in Ptr
    BY <1>9 DEF IInv, TypeOK, PtrOrNull, Control, SwitchPcs, SwitchEnqueue
  <2> QED
    BY <1>9, <2>1, EnqueueKeeps DEF SwitchEnqueue, Enqueue
<1> QED
  BY <1>1, <1>2, <1>3, <1>4, <1>5, <1>6, <1>7, <1>8, <1>9 DEF VmNext, VmReturn

LEMMA MainKeepsHanded == IInv /\ MainStep => Frozen
<1> SUFFICES ASSUME IInv, MainStep
             PROVE  Frozen
  OBVIOUS
<1>0. heap \in [Ptr -> Updates \cup Switches \cup {FREE}] /\ queue \in Seq(Ptr)
  BY DEF IInv, TypeOK
<1>1. CASE UNCHANGED << mainUpd, memVars >>
  BY <1>1, HandedFrame DEF memVars
<1>2. CASE MainDequeue
  <2>1. queue # << >> /\ queue' = Tail(queue) /\ mainUpd' = Head(queue) /\ heap' = heap
    BY <1>2 DEF MainDequeue
  <2>2. mainUpd = NULL
    BY <1>2 DEF MainDequeue, IInv, Control
  <2>3. ASSUME NEW p \in QueuedPtrs PROVE p \in Handed'
    <3>1. PICK i \in 1 .. Len(queue) : p = queue[i]
      BY DEF QueuedPtrs
    <3>2. p # NULL
      BY HandedFacts DEF Handed
    <3>3. CASE i = 1
      BY <2>1, <3>1, <3>2, <3>3 DEF Handed
    <3>4. CASE i # 1
      <4>1. i - 1 \in 1 .. Len(queue') /\ queue'[i - 1] = queue[i]
        BY <1>0, <2>1, <3>4
      <4> QED
        BY <3>1, <4>1 DEF Handed, QueuedPtrs
    <3> QED
      BY <3>3, <3>4
  <2> QED
    BY <2>1, <2>2, <2>3 DEF Frozen, Handed
<1>3. CASE MainSend
  <2>1. mainUpd \in Ptr /\ mainUpd # NULL /\ mainUpd \notin QueuedPtrs
    BY <1>3 DEF MainSend, IInv, TypeOK, PtrOrNull, Control, SingleOwner, DistinctOwners
  <2>2. mainUpd' = NULL /\ heap' = [heap EXCEPT ![mainUpd] = FREE] /\ queue' = queue
    BY <1>3 DEF MainSend
  <2>3. Handed' = Handed \ {mainUpd}
    <3>1. QueuedPtrs' = QueuedPtrs
      BY <2>2 DEF QueuedPtrs
    <3> QED
      BY <2>1, <2>2, <3>1, HandedFacts DEF Handed
  <2> QED
    BY <1>0, <2>1, <2>2, <2>3, HandedFacts DEF Frozen
<1>4. CASE MainExitClear
  BY <1>4, QueueClearFrees DEF MainExitClear
<1> QED
  BY <1>1, <1>2, <1>3, <1>4
  DEF MainStep, MainCheckQueue, MainReceive, MainPollEmpty, MainStopCheck, MainExitUnlock,
      MainSendShutdown, MainWakeUpdate, MainWakeShm

LEMMA OthersKeepHanded ==
  ASSUME IInv, \/ OutStep \/ OutSpurious \/ MuxCleanup \/ MuxHandler
               \/ ServerStep \/ ServerInput
  PROVE  Frozen
<1>1. CASE UNCHANGED << mainUpd, memVars >>
  BY <1>1, HandedFrame DEF memVars
<1>2. CASE OutEnqueue
  <2>1. out \in Ptr
    BY <1>2 DEF IInv, TypeOK, PtrOrNull, Control, OutEnqueue
  <2> QED
    BY <1>2, <2>1, EnqueueKeeps DEF OutEnqueue, Enqueue, OutUnchanged, mainVars
<1>3. OutStep \/ OutSpurious => OutEnqueue \/ UNCHANGED << mainUpd, memVars >>
  BY DEF OutStep, OutTop, OutLock, OutTest, OutWaitUpdate, OutWaitAck, OutWokenAck, OutAcked,
         OutCleanup, OutSpurious, OutUnchanged, mainVars
<1>4. MuxCleanup \/ MuxHandler => UNCHANGED << mainUpd, memVars >>
  BY DEF MuxCleanup, MuxHandler, mainVars
<1>5. ServerStep \/ ServerInput => UNCHANGED << mainUpd, memVars >>
  BY DEF ServerStep, ServerReadUpdate, ServerReadSwitch, ServerReadDone, ServerShutdown,
         ServerInput, ServerUnchanged, mainVars
<1> QED
  BY <1>1, <1>2, <1>3, <1>4, <1>5

(***************************************************************************)
(* No thread writes to an update that is queued or being sent, although    *)
(* refreshes merge boxes into out_update all the time (rdpmux.c:286); and  *)
(* it is forgotten only by being freed.                                    *)
(***************************************************************************)
THEOREM HandedOverStays == Spec => HandedOverIsFrozen
<1>1. ASSUME IInv, [Next]_vars
      PROVE  [Frozen]_vars
  <2>1. CASE Next
    BY <1>1, <2>1, VmKeepsHanded, MainKeepsHanded, OthersKeepHanded DEF Next, Alive
  <2> QED
    BY <1>1, <2>1
<1> QED
  BY <1>1, Invariant, PTL DEF Spec, HandedOverIsFrozen, Frozen

-----------------------------------------------------------------------------
(***************************************************************************)
(* Part 2.  Pixels on their way.                                           *)
(***************************************************************************)

(***************************************************************************)
(* Only pixels of the framebuffer are ever out of date, and the region is  *)
(* mapped by mux_display_switch only, which has set the surface.           *)
(***************************************************************************)
StaleOnSurface ==
  /\ surface # NULL => /\ shmStale    \subseteq SurfaceCells(surface)
                       /\ mirrorStale \subseteq SurfaceCells(surface)
  /\ shm = "mapped" => surface # NULL

ShmInv == StaleOnSurface /\ ShmCovered

-----------------------------------------------------------------------------
(***************************************************************************)
(* Pixels of boxes.  Growing a box keeps its pixels; aligning it keeps     *)
(* those on the surface; the strip of rows that is copied has them all.    *)
(***************************************************************************)
LEMMA ExpandCells ==
  ASSUME NEW u \in Rect, NEW r \in IntRegion
  PROVE  /\ Cells(u) \subseteq Cells(ExpandRect(u, r))
         /\ Cells(RectOf(r)) \subseteq Cells(ExpandRect(u, r))
BY ExpandRectType, ExpandRectLeast, RectOfType, WithinCells

LEMMA AlignCells ==
  ASSUME NEW u \in Rect, NEW s \in Surface
  PROVE  Cells(u) \cap SurfaceCells(s) \subseteq Cells(AlignToSurface(u, s))
<1> DEFINE a == AlignToSurface(u, s)
<1>1. /\ u.x1 \in Int /\ u.x2 \in Int /\ u.y1 \in Int /\ u.y2 \in Int
      /\ s.w \in Nat /\ s.h \in Nat
  BY DEF Rect, Surface
<1>2. /\ AlignDown(u.x1) \in Int /\ AlignDown(u.x1) <= u.x1
      /\ AlignDown(u.y1) \in Int /\ AlignDown(u.y1) <= u.y1
      /\ AlignUp(u.x2) \in Int /\ u.x2 <= AlignUp(u.x2)
      /\ AlignUp(u.y2) \in Int /\ u.y2 <= AlignUp(u.y2)
  BY <1>1, AlignDownBounds, AlignUpBounds
<1>3. /\ a.x1 = AlignDown(u.x1) /\ a.y1 = AlignDown(u.y1)
      /\ a.x2 = MinInt(AlignUp(u.x2), s.w) /\ a.y2 = MinInt(AlignUp(u.y2), s.h)
  BY DEF AlignToSurface
<1> HIDE DEF a
<1>4. ASSUME NEW i \in u.x1 .. u.x2 - 1, NEW j \in u.y1 .. u.y2 - 1,
             i \in 0 .. s.w - 1, j \in 0 .. s.h - 1
      PROVE  i \in a.x1 .. a.x2 - 1 /\ j \in a.y1 .. a.y2 - 1
  BY <1>1, <1>2, <1>3, <1>4 DEF MinInt
<1>5. Cells(u) \cap SurfaceCells(s) \subseteq Cells(a)
  BY <1>4 DEF Cells, SurfaceCells
<1> QED
  BY <1>5 DEF a

LEMMA FitsCells ==
  ASSUME NEW u \in Rect, NEW s \in Surface, Fits(u, s)
  PROVE  Cells(u) \subseteq SurfaceCells(s)
BY DEF Rect, Surface, Fits, Cells, SurfaceCells

LEMMA CopiedHasCells ==
  ASSUME NEW u \in Rect, NEW s \in Surface
  PROVE  Cells(u) \cap SurfaceCells(s) \subseteq CopiedCells(u, s)
BY DEF Cells, SurfaceCells, CopiedCells

-----------------------------------------------------------------------------
(***************************************************************************)
(* The way to the shared region.  A step that draws nothing, copies        *)
(* nothing and leaves the dirty update alone keeps ShmInv.                 *)
(***************************************************************************)
LEMMA ShmFrame ==
  ASSUME IInv, ShmInv, UNCHANGED <<surface, shm, dirty, shmStale>>,
         Switching => Switching',
         dirty # NULL => heap'[dirty] = heap[dirty],
         surface # NULL => mirrorStale' \subseteq SurfaceCells(surface)
  PROVE  ShmInv'
<1>1. StaleOnSurface'
  BY DEF ShmInv, StaleOnSurface
<1>2. ShmCovered'
  BY DEF ShmInv, ShmCovered
<1> QED
  BY <1>1, <1>2 DEF ShmInv

LEMMA ShmDisplayUpdate ==
  ASSUME IInv, ShmInv, NEW r \in Regions, MuxDisplayUpdate(r)
  PROVE  ShmInv'
<1> DEFINE new == Cells(RectOf(r))
<1>1. /\ surface \in Surface /\ surface # NULL /\ ~Switching
      /\ r \in IntRegion /\ RectOf(r) \in Rect
      /\ UNCHANGED <<surface, shm>>
      /\ shmStale' = shmStale \cup new /\ mirrorStale' = mirrorStale \cup new
  BY RegionsType, ConstantsAssumption
  DEF IInv, TypeOK, MuxDisplayUpdate, DrawPixels, Switching
<1>2. new \subseteq SurfaceCells(surface)
  BY <1>1, FitsCells DEF MuxDisplayUpdate
<1> HIDE DEF new
<1>3. StaleOnSurface'
  BY <1>1, <1>2 DEF ShmInv, StaleOnSurface
<1>4. dirty' # NULL /\ (shm = "mapped" => \A c \in shmStale \cup new :
                                            c \in Cells(heap'[dirty'].rect))
  <2>1. CASE dirty = NULL
    <3>1. PICK p \in Fresh : /\ heap' = [heap EXCEPT ![p] = UpdateObject(RectOf(r))]
                             /\ dirty' = p
      BY <2>1 DEF MuxDisplayUpdate
    <3>2. p \in Ptr /\ p # NULL /\ heap'[p] = UpdateObject(RectOf(r))
      BY <3>1, FreshFacts DEF IInv, TypeOK
    <3>3. heap'[p].rect = RectOf(r)
      BY <1>1, <3>2, ObjectFacts
    <3>4. shm = "mapped" => shmStale = {}
      BY <1>1, <2>1 DEF ShmInv, ShmCovered
    <3> QED
      BY <3>1, <3>2, <3>3, <3>4 DEF new
  <2>2. CASE dirty # NULL
    <3>1. /\ dirty \in Ptr /\ dirty' = dirty
          /\ heap[dirty].type = "DISPLAY_UPDATE" /\ heap[dirty].rect \in Rect
      BY <2>2, ObjectFacts DEF IInv, TypeOK, PtrOrNull, Control, MuxDisplayUpdate
    <3>2. heap'[dirty] = UpdateObject(ExpandRect(heap[dirty].rect, r))
      BY <2>2, <3>1 DEF IInv, TypeOK, MuxDisplayUpdate
    <3>3. heap'[dirty].rect = ExpandRect(heap[dirty].rect, r)
      BY <1>1, <3>1, <3>2, ExpandRectType, ObjectFacts
    <3>4. /\ Cells(heap[dirty].rect) \subseteq Cells(heap'[dirty].rect)
          /\ new \subseteq Cells(heap'[dirty].rect)
      BY <1>1, <3>1, <3>3, ExpandCells DEF new
    <3> QED
      BY <1>1, <2>2, <3>1, <3>4 DEF ShmInv, ShmCovered
  <2> QED
    BY <2>1, <2>2
<1>5. ShmCovered'
  BY <1>1, <1>4 DEF ShmCovered
<1> QED
  BY <1>3, <1>5 DEF ShmInv

(***************************************************************************)
(* The alignment of mux_display_refresh leaves no pixel of the surface out *)
(* (rdpmux.c:242-258).                                                     *)
(***************************************************************************)
LEMMA ShmRefreshBegin ==
  ASSUME IInv, ShmInv, RefreshBegin
  PROVE  ShmInv'
<1> DEFINE u == heap[dirty].rect
<1>1. /\ dirty \in Ptr /\ dirty # NULL /\ u \in Rect
      /\ surface \in Surface /\ surface # NULL /\ ~Switching
  BY ObjectFacts, ConstantsAssumption
  DEF IInv, TypeOK, PtrOrNull, Control, RefreshBegin, Switching
<1>2. /\ UNCHANGED <<surface, shm, dirty, shmStale, mirrorStale>>
      /\ heap' = [heap EXCEPT ![dirty] = UpdateObject(AlignToSurface(u, surface))]
  BY DEF RefreshBegin, pixVars
<1>3. heap'[dirty].rect = AlignToSurface(u, surface)
  <2>1. heap'[dirty] = UpdateObject(AlignToSurface(u, surface))
    BY <1>1, <1>2 DEF IInv, TypeOK
  <2> QED
    BY <1>1, <2>1, AlignToSurfaceType, ObjectFacts
<1>4. Cells(u) \cap SurfaceCells(surface) \subseteq Cells(heap'[dirty].rect)
  BY <1>1, <1>3, AlignCells
<1>5. StaleOnSurface'
  BY <1>2 DEF ShmInv, StaleOnSurface
<1>6. ShmCovered'
  BY <1>1, <1>2, <1>4 DEF ShmInv, StaleOnSurface, ShmCovered
<1> QED
  BY <1>5, <1>6 DEF ShmInv

\* What a refresh has copied was all that was out of date in the region.
LEMMA ShmRefreshEnd ==
  ASSUME IInv, ShmInv, RefreshEnd
  PROVE  /\ ShmInv'
         /\ shm = "mapped" => shmStale' = {} /\ shmStale \subseteq Cells(heap[dirty].rect)
<1>1. /\ dirty # NULL /\ heap[dirty].rect \in Rect
      /\ surface \in Surface /\ surface # NULL /\ ~Switching
  BY ObjectFacts, ConstantsAssumption
  DEF IInv, TypeOK, PtrOrNull, Control, RefreshEnd, Switching
<1>2. /\ UNCHANGED <<surface, shm, mirrorStale>>
      /\ shmStale' = shmStale \ CopiedCells(heap[dirty].rect, surface)
  BY DEF RefreshEnd
<1>3. shm = "mapped" => shmStale \subseteq Cells(heap[dirty].rect) \cap SurfaceCells(surface)
  BY <1>1 DEF ShmInv, StaleOnSurface, ShmCovered
<1>4. shm = "mapped" => shmStale' = {}
  BY <1>1, <1>2, <1>3, CopiedHasCells
<1>5. StaleOnSurface' /\ ShmCovered'
  BY <1>2, <1>4 DEF ShmInv, StaleOnSurface, ShmCovered
<1> QED
  BY <1>3, <1>4, <1>5 DEF ShmInv

(***************************************************************************)
(* A switch that goes on past the creation of the region copies the whole  *)
(* framebuffer; one that does not leaves the region unmapped.              *)
(***************************************************************************)
LEMMA ShmSwitchBegin ==
  ASSUME IInv, ShmInv, NEW s \in Surfaces, SwitchBegin(s)
  PROVE  ShmInv'
<1>1. /\ surface' = s /\ s # NULL
      /\ shmStale' = SurfaceCells(s) /\ mirrorStale' = SurfaceCells(s)
  BY ConstantsAssumption DEF SwitchBegin
<1>2. PICK o \in ShmOutcomes :
        /\ shm' = ShmSetup(o)
        /\ \/ shm \in {"absent", "named"} /\ shm' # "mapped"
           \/ vmPc' = "switchClear"
  BY DEF SwitchBegin
<1>3. StaleOnSurface' /\ ShmCovered'
  BY <1>1, <1>2 DEF StaleOnSurface, ShmCovered, Switching
<1> QED
  BY <1>3 DEF ShmInv

LEMMA ShmSwitchCopied ==
  ASSUME IInv, ShmInv, SwitchCopied
  PROVE  ShmInv'
<1>1. StaleOnSurface' /\ ShmCovered'
  BY DEF ShmInv, StaleOnSurface, ShmCovered, SwitchCopied
<1> QED
  BY <1>1 DEF ShmInv

LEMMA ShmStep == IInv /\ ShmInv /\ [Next]_vars => ShmInv'
<1> SUFFICES ASSUME IInv, ShmInv, [Next]_vars
             PROVE  ShmInv'
  OBVIOUS
<1> USE DEF vmVars, pixVars, memVars
<1>0. surface # NULL => mirrorStale \subseteq SurfaceCells(surface)
  BY DEF ShmInv, StaleOnSurface
<1>1. CASE VmNext
  <2>1. CASE \E r \in Regions : MuxDisplayUpdate(r)
    BY <2>1, ShmDisplayUpdate
  <2>2. CASE RefreshDeferred
    BY <1>0, <2>2, ShmFrame DEF RefreshDeferred, KeepDirty, Switching
  <2>3. CASE RefreshBegin
    BY <2>3, ShmRefreshBegin
  <2>4. CASE RefreshEnd
    BY <2>4, ShmRefreshEnd
  <2>5. CASE \E s \in Surfaces : SwitchBegin(s)
    BY <2>5, ShmSwitchBegin
  <2>6. CASE SwitchClear
    <3>1. UNCHANGED <<dirty, out, vmUpd, mainUpd>> /\ QueueClear
      BY <2>6 DEF SwitchClear, outVars, mainVars
    <3>2. dirty # NULL => heap'[dirty] = heap[dirty]
      BY <3>1, QueueClearFacts
    <3> QED
      BY <1>0, <2>6, <3>2, ShmFrame DEF SwitchClear, Switching
  <2>7. CASE SwitchLock
    BY <1>0, <2>7, ShmFrame DEF SwitchLock, Switching
  <2>8. CASE SwitchCopied
    BY <2>8, ShmSwitchCopied
  <2>9. CASE SwitchEnqueue
    BY <1>0, <2>9, ShmFrame DEF SwitchEnqueue, Switching
  <2> QED
    BY <1>1, <2>1, <2>2, <2>3, <2>4, <2>5, <2>6, <2>7, <2>8, <2>9 DEF VmNext, VmReturn
<1>2. CASE OutStep \/ OutSpurious
  <2>1. UNCHANGED <<surface, shm, dirty, shmStale, mirrorStale, vmPc, heap>>
    BY <1>2 DEF OutStep, OutTop, OutLock, OutTest, OutWaitUpdate, OutEnqueue,
       OutWaitAck, OutWokenAck, OutAcked, OutCleanup, OutSpurious, OutUnchanged
  <2> QED
    BY <1>0, <2>1, ShmFrame DEF Switching
<1>3. CASE MainStep
  <2>1. UNCHANGED <<surface, shm, dirty, out, vmUpd, shmStale, mirrorStale, vmPc>>
    BY <1>3 DEF MainStep, MainCheckQueue, MainDequeue, MainSend, MainReceive,
       MainPollEmpty, MainStopCheck, MainExitUnlock, MainExitClear,
       MainSendShutdown, MainWakeUpdate, MainWakeShm, MainUnchanged
  <2>2. dirty # NULL => heap'[dirty] = heap[dirty]
    <3>1. CASE MainSend
      BY <3>1 DEF IInv, TypeOK, PtrOrNull, SingleOwner, DistinctOwners, MainSend
    <3>2. CASE MainExitClear
      <4>1. QueueClear /\ UNCHANGED <<dirty, out, vmUpd, mainUpd>>
        BY <2>1, <3>2 DEF MainExitClear
      <4> QED
        BY <4>1, QueueClearFacts
    <3>3. CASE UNCHANGED heap
      BY <3>3
    <3> QED
      BY <1>3, <3>1, <3>2, <3>3 DEF MainStep, MainCheckQueue, MainDequeue,
         MainReceive, MainPollEmpty, MainStopCheck, MainExitUnlock,
         MainSendShutdown, MainWakeUpdate, MainWakeShm
  <2> QED
    BY <1>0, <2>1, <2>2, ShmFrame DEF Switching
<1>4. CASE MuxCleanup \/ MuxHandler
  <2>1. UNCHANGED <<surface, shm, dirty, shmStale, mirrorStale, vmPc, heap>>
    BY <1>4 DEF MuxCleanup, MuxHandler
  <2> QED
    BY <1>0, <2>1, ShmFrame DEF Switching
<1>5. CASE ServerStep \/ ServerInput
  <2>1. UNCHANGED <<surface, shm, dirty, shmStale, vmPc, heap>>
    BY <1>5 DEF ServerStep, ServerReadUpdate, ServerReadSwitch, ServerReadDone,
       ServerShutdown, ServerInput, ServerUnchanged
  <2>2. surface # NULL => mirrorStale' \subseteq SurfaceCells(surface)
    BY <1>0, <1>5 DEF ServerStep, ServerReadUpdate, ServerReadSwitch, ServerReadDone,
       ServerShutdown, ServerInput, ServerUnchanged
  <2> QED
    BY <2>1, <2>2, ShmFrame DEF Switching
<1>6. CASE UNCHANGED vars
  BY <1>0, <1>6, ShmFrame DEF vars, Switching
<1> QED
  BY <1>1, <1>2, <1>3, <1>4, <1>5, <1>6 DEF Next, Alive

\* ShmInv holds in every reachable state: refreshes and switches copy what drawing
\* has made stale, or keep it in the dirty update (rdpmux.c:104-293).
THEOREM ShmInvariant == Spec => []ShmInv
<1>1. Init => ShmInv
  BY ConstantsAssumption DEF Init, ShmInv, StaleOnSurface, ShmCovered
<1> QED
  BY <1>1, ShmStep, Invariant, PTL DEF Spec

(***************************************************************************)
(* Every pixel whose copy in the shared region is out of date lies in the  *)
(* dirty update, or a switch is about to copy it: no refresh that finds    *)
(* shm_lock taken, no box that was grown, aligned or cut at the surface,   *)
(* and no box that outlived a switch loses one (rdpmux.c:84-126, 168-300). *)
(***************************************************************************)
THEOREM ShmIsCovered == Spec => []ShmCovered
<1>1. ShmInv => ShmCovered
  BY DEF ShmInv
<1> QED
  BY <1>1, ShmInvariant, PTL

-----------------------------------------------------------------------------
(***************************************************************************)
(* The way to the server.  What is being sent, from the end mux_display_   *)
(* switch and mux_out_loop add to: the switch that mux_display_switch has  *)
(* allocated, the queue, what mux_mainloop has dequeued, and the socket.   *)
(***************************************************************************)
InQueue == [i \in 1 .. Len(queue) |-> Wire(heap[queue[i]])]

MessageOf(p) == IF p = NULL THEN {} ELSE {Wire(heap[p])}

Sent == MessageOf(vmUpd) \cup Elems(InQueue) \cup MessageOf(mainUpd) \cup Elems(toServer)

Carried(c) ==
  \/ out # NULL /\ c \in Cells(heap[out].rect)
  \/ c \in srvGot
  \/ \E m \in Sent : c \in MessageCells(m)

(***************************************************************************)
(* A box the wire can carry: no coordinate is negative or too large.       *)
(***************************************************************************)
OnWire(u) == 0 <= u.x1 /\ 0 <= u.y1 /\ u.x2 < WORD /\ u.y2 < WORD

BoxesOnWire ==
  /\ dirty # NULL => OnWire(heap[dirty].rect)
  /\ out # NULL => OnWire(heap[out].rect)

(***************************************************************************)
(* The last switch on the way to the server is the one for the current     *)
(* framebuffer; without a switch on the way, the server has its size.      *)
(* Each part looks at the next only if it has no switch itself.            *)
(***************************************************************************)
IsSwitch(m)  == m.type = "DISPLAY_SWITCH"
LastIs(q, m) == \E i \in 1 .. Len(q) : q[i] = m /\ \A j \in i + 1 .. Len(q) : ~IsSwitch(q[j])
NoSwitch(q)  == \A i \in 1 .. Len(q) : ~IsSwitch(q[i])

NetAnnounces == \/ LastIs(toServer, SwitchObject(surface))
                \/ NoSwitch(toServer) /\ srvSize = surface

MainAnnounces == IF mainUpd # NULL /\ IsSwitch(Wire(heap[mainUpd]))
                 THEN Wire(heap[mainUpd]) = SwitchObject(surface)
                 ELSE NetAnnounces

QueueAnnounces == \/ LastIs(InQueue, SwitchObject(surface))
                  \/ NoSwitch(InQueue) /\ MainAnnounces

VmAnnounces == vmUpd # NULL => heap[vmUpd] = SwitchObject(surface)

Serving == shm = "mapped" /\ MainRunning

Announced == Serving => vmUpd # NULL \/ QueueAnnounces

\* Between two messages the server holds nothing half read.
IdleGetsNothing == srv # "reading" => srvGot = {}

AllCarried == Serving => \A c \in mirrorStale \ shmStale : Carried(c)

MirrorInv ==
  /\ BoxesOnWire /\ VmAnnounces /\ Announced
  /\ IdleGetsNothing /\ AllCarried

(***************************************************************************)
(* What the theorem needs: a framebuffer is smaller than 2^64 pixels in    *)
(* each direction (its sizes are C ints, rdpmux.c:138-139).                *)
(***************************************************************************)
SizesFitWire == \A s \in Surfaces : s.w < WORD /\ s.h < WORD

-----------------------------------------------------------------------------
(***************************************************************************)
(* Messages and their pixels.                                              *)
(***************************************************************************)
LEMMA ModSmall ==
  ASSUME NEW n \in Nat \ {0}, NEW a \in Nat, a < n
  PROVE  a % n = a
OBVIOUS

LEMMA WireCells ==
  ASSUME NEW o \in Updates, OnWire(o.rect)
  PROVE  /\ ~IsSwitch(Wire(o))
         /\ Cells(o.rect) \subseteq MessageCells(Wire(o))
<1> DEFINE box == o.rect
           reg == WriteUint(RegionOf(box))
<1>1. /\ o.type = "DISPLAY_UPDATE"
      /\ box.x1 \in Nat /\ box.y1 \in Nat /\ box.x2 \in Int /\ box.y2 \in Int
      /\ box.x2 < WORD /\ box.y2 < WORD /\ WORD \in Nat \ {0}
  BY ObjectFacts, ConstantsAssumption DEF OnWire, Rect
<1>2. Wire(o) = [type |-> "DISPLAY_UPDATE", region |-> reg]
  BY <1>1 DEF Wire
<1>3. /\ reg.x = box.x1 % WORD /\ reg.y = box.y1 % WORD
      /\ reg.w = (box.x2 - box.x1) % WORD /\ reg.h = (box.y2 - box.y1) % WORD
  BY DEF WriteUint, RegionOf
<1> HIDE DEF reg, box
<1>4. ASSUME NEW i \in box.x1 .. box.x2 - 1
      PROVE  i \in reg.x .. reg.x + reg.w - 1
  <2>1. box.x1 < WORD /\ box.x2 - box.x1 \in Nat /\ box.x2 - box.x1 < WORD
    BY <1>1
  <2>2. reg.x = box.x1 /\ reg.w = box.x2 - box.x1
    BY <1>1, <1>3, <2>1, ModSmall
  <2> QED
    BY <1>1, <2>2
<1>5. ASSUME NEW j \in box.y1 .. box.y2 - 1
      PROVE  j \in reg.y .. reg.y + reg.h - 1
  <2>1. box.y1 < WORD /\ box.y2 - box.y1 \in Nat /\ box.y2 - box.y1 < WORD
    BY <1>1
  <2>2. reg.y = box.y1 /\ reg.h = box.y2 - box.y1
    BY <1>1, <1>3, <2>1, ModSmall
  <2> QED
    BY <1>1, <2>2
<1>6. Cells(box) \subseteq Cells(RectOf(reg))
  <2>1. Cells(RectOf(reg)) = (reg.x .. reg.x + reg.w - 1) \X (reg.y .. reg.y + reg.h - 1)
    <3>1. /\ reg.x \in Int /\ reg.y \in Int /\ reg.w \in Int /\ reg.h \in Int
      BY <1>1, <1>3
    <3> QED
      BY <3>1 DEF Cells, RectOf
  <2>2. Cells(box) = (box.x1 .. box.x2 - 1) \X (box.y1 .. box.y2 - 1)
    BY DEF Cells
  <2> QED
    BY <1>4, <1>5, <2>1, <2>2
<1>7. MessageCells(Wire(o)) = Cells(RectOf(reg)) /\ ~IsSwitch(Wire(o))
  BY <1>2 DEF MessageCells, IsSwitch
<1> QED
  BY <1>6, <1>7 DEF box

LEMMA SwitchFacts ==
  ASSUME NEW s \in Surfaces
  PROVE  /\ Wire(SwitchObject(s)) = SwitchObject(s)
         /\ IsSwitch(SwitchObject(s)) /\ SwitchObject(s).size = s
         /\ SwitchObject(s) \in LibMessages
BY DEF Wire, SwitchObject, IsSwitch, LibMessages, Switches

LEMMA SwitchCells ==
  ASSUME surface \in Surfaces
  PROVE  MessageCells(SwitchObject(surface)) = SurfaceCells(surface)
BY SwitchFacts DEF MessageCells, SwitchObject

LEMMA ShutdownFacts ==
  Shutdown \in LibMessages /\ ~IsSwitch(Shutdown) /\ MessageCells(Shutdown) = {}
BY DEF Shutdown, LibMessages, IsSwitch, MessageCells

LEMMA SwitchMessage ==
  ASSUME NEW m \in LibMessages, IsSwitch(m)
  PROVE  m.size \in Surfaces /\ m = SwitchObject(m.size)
BY DEF LibMessages, IsSwitch, Switches, SwitchObject, Shutdown

(***************************************************************************)
(* The last switch of a sequence, when it grows at its end or loses its    *)
(* head.                                                                   *)
(***************************************************************************)
LEMMA LastIsEmpty ==
  ASSUME NEW m
  PROVE  NoSwitch(<<>>) /\ ~LastIs(<<>>, m)
BY DEF NoSwitch, LastIs

LEMMA LastIsAppend ==
  ASSUME NEW S, NEW q \in Seq(S), NEW e \in S, NEW m \in S
  PROVE  /\ LastIs(Append(q, m), m)
         /\ ~IsSwitch(e) /\ LastIs(q, m) => LastIs(Append(q, e), m)
         /\ ~IsSwitch(e) /\ NoSwitch(q) => NoSwitch(Append(q, e))
<1>1. /\ Len(q) \in Nat
      /\ Len(Append(q, e)) = Len(q) + 1 /\ Append(q, e)[Len(q) + 1] = e
      /\ Len(Append(q, m)) = Len(q) + 1 /\ Append(q, m)[Len(q) + 1] = m
      /\ \A i \in 1 .. Len(q) : Append(q, e)[i] = q[i]
  OBVIOUS
<1>2. LastIs(Append(q, m), m)
  <2>1. Len(q) + 1 \in 1 .. Len(Append(q, m))
    BY <1>1
  <2>2. \A j \in Len(q) + 2 .. Len(Append(q, m)) : FALSE
    BY <1>1
  <2> QED
    BY <1>1, <2>1, <2>2 DEF LastIs
<1>3. ASSUME ~IsSwitch(e), LastIs(q, m)
      PROVE  LastIs(Append(q, e), m)
  <2>1. PICK i \in 1 .. Len(q) : q[i] = m /\ \A j \in i + 1 .. Len(q) : ~IsSwitch(q[j])
    BY <1>3 DEF LastIs
  <2>2. i \in 1 .. Len(Append(q, e)) /\ Append(q, e)[i] = m
    BY <1>1, <2>1
  <2>3. ASSUME NEW j \in i + 1 .. Len(Append(q, e))
        PROVE  ~IsSwitch(Append(q, e)[j])
    <3>1. CASE j = Len(q) + 1
      BY <1>1, <1>3, <3>1
    <3>2. CASE j # Len(q) + 1
      <4>1. j \in i + 1 .. Len(q) /\ j \in 1 .. Len(q)
        BY <1>1, <3>2
      <4> QED
        BY <1>1, <2>1, <4>1
    <3> QED
      BY <3>1, <3>2
  <2> QED
    BY <2>2, <2>3 DEF LastIs
<1>4. ASSUME ~IsSwitch(e), NoSwitch(q)
      PROVE  NoSwitch(Append(q, e))
  <2>1. \A i \in 1 .. Len(q) + 1 : i = Len(q) + 1 \/ i \in 1 .. Len(q)
    BY <1>1
  <2> QED
    BY <1>1, <1>4, <2>1 DEF NoSwitch
<1> QED
  BY <1>2, <1>3, <1>4

LEMMA LastIsTail ==
  ASSUME NEW S, NEW q \in Seq(S), q # <<>>, NEW m
  PROVE  /\ LastIs(q, m) => \/ LastIs(Tail(q), m)
                            \/ Head(q) = m /\ NoSwitch(Tail(q))
         /\ NoSwitch(q) => ~IsSwitch(Head(q)) /\ NoSwitch(Tail(q))
<1>1. /\ Len(q) \in Nat \ {0} /\ Head(q) = q[1]
      /\ Len(Tail(q)) = Len(q) - 1
      /\ \A i \in 1 .. Len(q) - 1 : Tail(q)[i] = q[i + 1]
  OBVIOUS
<1>2. ASSUME LastIs(q, m)
      PROVE  LastIs(Tail(q), m) \/ (Head(q) = m /\ NoSwitch(Tail(q)))
  <2>1. PICK i \in 1 .. Len(q) : q[i] = m /\ \A j \in i + 1 .. Len(q) : ~IsSwitch(q[j])
    BY <1>2 DEF LastIs
  <2>2. ASSUME NEW j \in i .. Len(Tail(q))
        PROVE  ~IsSwitch(Tail(q)[j])
    <3>1. j + 1 \in i + 1 .. Len(q) /\ Tail(q)[j] = q[j + 1]
      BY <1>1
    <3> QED
      BY <2>1, <3>1
  <2>3. CASE i = 1
    BY <1>1, <2>1, <2>2, <2>3 DEF NoSwitch
  <2>4. CASE i # 1
    <3>1. i - 1 \in 1 .. Len(Tail(q)) /\ Tail(q)[i - 1] = m /\ (i - 1) + 1 = i
      BY <1>1, <2>1, <2>4
    <3> QED
      BY <2>2, <3>1 DEF LastIs
  <2> QED
    BY <2>3, <2>4
<1>3. ASSUME NoSwitch(q)
      PROVE  ~IsSwitch(Head(q)) /\ NoSwitch(Tail(q))
  <2>1. \A i \in 1 .. Len(q) - 1 : i + 1 \in 1 .. Len(q)
    BY <1>1
  <2> QED
    BY <1>1, <1>3, <2>1 DEF NoSwitch
<1> QED
  BY <1>2, <1>3

LEMMA LastIsElem ==
  ASSUME NEW q, NEW m
  PROVE  LastIs(q, m) => m \in Elems(q)
BY DEF LastIs, Elems

-----------------------------------------------------------------------------
(***************************************************************************)
(* What is being sent, and what the steps of the library make of it.       *)
(***************************************************************************)
LEMMA OwnerFacts ==
  ASSUME IInv
  PROVE  /\ \A p \in {vmUpd, mainUpd} \cup QueuedPtrs :
              p # NULL => p \in Ptr /\ heap[p] \in Updates \cup Switches
                            /\ Wire(heap[p]) \in LibMessages /\ p # dirty /\ p # out
         /\ NULL \notin QueuedPtrs
         /\ queue \in Seq(Ptr)
         /\ InQueue \in Seq(LibMessages) /\ Len(InQueue) = Len(queue)
         /\ toServer \in Seq(LibMessages)
         /\ Sent \subseteq LibMessages
<1>1. queue \in Seq(Ptr) /\ toServer \in Seq(LibMessages) /\ Len(queue) \in Nat
  BY DEF IInv, TypeOK
<1>2. QueuedPtrs \subseteq Ptr /\ NULL \notin QueuedPtrs
  BY <1>1, ConstantsAssumption DEF QueuedPtrs
<1>3. ASSUME NEW p \in {vmUpd, mainUpd} \cup QueuedPtrs, p # NULL
      PROVE  p \in Ptr /\ heap[p] \in Updates \cup Switches
               /\ Wire(heap[p]) \in LibMessages /\ p # dirty /\ p # out
  <2>1. p \in Ptr /\ heap[p] # FREE
    BY <1>2, <1>3 DEF IInv, TypeOK, PtrOrNull, SingleOwner, Owned
  <2>2. heap[p] \in Updates \cup Switches
    BY <2>1 DEF IInv, TypeOK
  <2>3. p # dirty /\ p # out
    BY <1>3 DEF IInv, SingleOwner, DistinctOwners
  <2> QED
    BY <2>1, <2>2, <2>3, WireType
<1>4. \A i \in 1 .. Len(queue) : Wire(heap[queue[i]]) \in LibMessages
  BY <1>2, <1>3 DEF QueuedPtrs
<1>5. InQueue \in Seq(LibMessages) /\ Len(InQueue) = Len(queue)
  BY <1>1, <1>4 DEF InQueue
<1>6. Sent \subseteq LibMessages
  BY <1>1, <1>3, <1>5 DEF Sent, MessageOf, Elems
<1> QED
  BY <1>1, <1>2, <1>3, <1>5, <1>6

\* Objects that are not being sent may change.
LEMMA QueueMessagesFrame ==
  ASSUME IInv, UNCHANGED queue, \A p \in QueuedPtrs : heap'[p] = heap[p]
  PROVE  InQueue' = InQueue
<1>1. \A i \in 1 .. Len(queue) : heap'[queue[i]] = heap[queue[i]]
  BY DEF QueuedPtrs
<1> QED
  BY <1>1 DEF InQueue

LEMMA SentFrame ==
  ASSUME IInv, UNCHANGED <<vmUpd, mainUpd, queue, toServer>>,
         \A p \in {vmUpd, mainUpd} \cup QueuedPtrs : p # NULL => heap'[p] = heap[p]
  PROVE  InQueue' = InQueue /\ Sent' = Sent
<1>1. InQueue' = InQueue
  BY OwnerFacts, QueueMessagesFrame
<1>2. MessageOf(vmUpd)' = MessageOf(vmUpd) /\ MessageOf(mainUpd)' = MessageOf(mainUpd)
  BY DEF MessageOf
<1> QED
  BY <1>1, <1>2 DEF Sent, Elems

LEMMA QueueMessagesAppend ==
  ASSUME IInv, UNCHANGED heap, NEW p \in Ptr, queue' = Append(queue, p),
         Wire(heap[p]) \in LibMessages
  PROVE  InQueue' = Append(InQueue, Wire(heap[p]))
<1>1. /\ queue \in Seq(Ptr) /\ InQueue \in Seq(LibMessages)
      /\ Len(InQueue) = Len(queue) /\ Len(queue) \in Nat
  BY OwnerFacts
<1>2. /\ Len(queue') = Len(queue) + 1 /\ queue'[Len(queue) + 1] = p
      /\ \A i \in 1 .. Len(queue) : queue'[i] = queue[i]
  BY <1>1
<1>3. InQueue' = [i \in 1 .. Len(queue) + 1 |-> Wire(heap[queue'[i]])]
  BY <1>2 DEF InQueue
<1>4. \A i \in 1 .. Len(queue) + 1 :
        Wire(heap[queue'[i]]) = IF i <= Len(queue) THEN InQueue[i] ELSE Wire(heap[p])
  <2>1. ASSUME NEW i \in 1 .. Len(queue) + 1
        PROVE  Wire(heap[queue'[i]]) = IF i <= Len(queue) THEN InQueue[i]
                                                          ELSE Wire(heap[p])
    <3>1. CASE i <= Len(queue)
      BY <1>1, <1>2, <3>1 DEF InQueue
    <3>2. CASE ~(i <= Len(queue))
      <4>1. i = Len(queue) + 1
        BY <1>1, <3>2
      <4> QED
        BY <1>2, <3>2, <4>1
    <3> QED
      BY <3>1, <3>2
  <2> QED
    BY <2>1
<1>5. InQueue' \in Seq(LibMessages) /\ Len(InQueue') = Len(queue) + 1
  <2>1. \A i \in 1 .. Len(queue) : InQueue[i] \in LibMessages
    BY <1>1
  <2>2. \A i \in 1 .. Len(queue) + 1 : Wire(heap[queue'[i]]) \in LibMessages
    BY <1>1, <1>4, <2>1
  <2> QED
    BY <1>1, <1>3, <2>2
<1>6. /\ Append(InQueue, Wire(heap[p])) \in Seq(LibMessages)
      /\ Len(Append(InQueue, Wire(heap[p]))) = Len(queue) + 1
      /\ \A i \in 1 .. Len(queue) + 1 : Append(InQueue, Wire(heap[p]))[i]
           = IF i <= Len(queue) THEN InQueue[i] ELSE Wire(heap[p])
  BY <1>1
<1>7. \A i \in 1 .. Len(InQueue') : InQueue'[i] = Append(InQueue, Wire(heap[p]))[i]
  BY <1>3, <1>4, <1>5, <1>6
<1> QED
  BY <1>5, <1>6, <1>7, SeqEqual

LEMMA QueueMessagesTail ==
  ASSUME IInv, UNCHANGED heap, queue # <<>>, queue' = Tail(queue)
  PROVE  /\ InQueue # <<>> /\ InQueue' = Tail(InQueue)
         /\ Head(InQueue) = Wire(heap[Head(queue)])
<1>1. /\ queue \in Seq(Ptr) /\ InQueue \in Seq(LibMessages)
      /\ Len(InQueue) = Len(queue) /\ Len(queue) \in Nat \ {0}
  BY OwnerFacts
<1>2. InQueue # <<>> /\ Head(InQueue) = InQueue[1] /\ Head(queue) = queue[1]
  BY <1>1
<1>3. /\ Len(queue') = Len(queue) - 1
      /\ \A i \in 1 .. Len(queue) - 1 : queue'[i] = queue[i + 1]
  BY <1>1
<1>4. InQueue' = [i \in 1 .. Len(queue) - 1 |-> Wire(heap[queue'[i]])]
  BY <1>3 DEF InQueue
<1>5. \A i \in 1 .. Len(queue) - 1 : /\ i + 1 \in 1 .. Len(queue)
                                     /\ InQueue'[i] = InQueue[i + 1]
  BY <1>1, <1>3, <1>4 DEF InQueue
<1>6. InQueue' \in Seq(LibMessages) /\ Len(InQueue') = Len(queue) - 1
  <2>1. \A i \in 1 .. Len(queue) : InQueue[i] \in LibMessages
    BY <1>1
  <2>2. \A i \in 1 .. Len(queue) - 1 : Wire(heap[queue'[i]]) \in LibMessages
    BY <1>4, <1>5, <2>1
  <2> QED
    BY <1>1, <1>4, <2>2
<1>7. /\ Tail(InQueue) \in Seq(LibMessages) /\ Len(Tail(InQueue)) = Len(queue) - 1
      /\ \A i \in 1 .. Len(queue) - 1 : Tail(InQueue)[i] = InQueue[i + 1]
  BY <1>1, <1>2
<1>8. InQueue' = Tail(InQueue)
  BY <1>5, <1>6, <1>7, SeqEqual
<1>9. InQueue[1] = Wire(heap[queue[1]])
  BY <1>1 DEF InQueue
<1> QED
  BY <1>2, <1>8, <1>9

-----------------------------------------------------------------------------
(***************************************************************************)
(* What is carried stays carried while it moves on, and the announcement   *)
(* stays the last one.                                                     *)
(***************************************************************************)
LEMMA CarriedFrame ==
  ASSUME NEW c, Carried(c), UNCHANGED surface,
         out # NULL => out' # NULL /\ Cells(heap[out].rect) \subseteq Cells(heap'[out'].rect),
         c \in srvGot => c \in srvGot',
         Sent \subseteq Sent'
  PROVE  Carried(c)'
BY DEF Carried, MessageCells

LEMMA AnnouncedFrame ==
  ASSUME Announced, UNCHANGED <<surface, shm, vmUpd, mainUpd, toServer, srvSize>>,
         mainUpd # NULL => heap'[mainUpd] = heap[mainUpd],
         InQueue' = InQueue, MainRunning' => MainRunning
  PROVE  Announced'
BY DEF Announced, Serving, QueueAnnounces, MainAnnounces, NetAnnounces

(***************************************************************************)
(* If the server does not have the size of the current framebuffer, the    *)
(* message that announces it is being sent, and carries every pixel.       *)
(***************************************************************************)
LEMMA AnnouncementCarries ==
  ASSUME (VmAnnounces /\ Announced /\ Serving)', srvSize' # surface',
         surface' \in Surfaces, NEW c \in SurfaceCells(surface')
  PROVE  Carried(c)'
<1>1. SwitchObject(surface') \in Sent'
  <2>1. CASE vmUpd' # NULL
    <3>1. Wire(heap'[vmUpd']) = SwitchObject(surface')
      BY <2>1, SwitchFacts DEF VmAnnounces
    <3> QED
      BY <2>1, <3>1 DEF Sent, MessageOf
  <2>2. CASE LastIs(InQueue', SwitchObject(surface'))
    BY <2>2, LastIsElem DEF Sent
  <2>3. CASE mainUpd' # NULL /\ Wire(heap'[mainUpd']) = SwitchObject(surface')
    BY <2>3 DEF Sent, MessageOf
  <2>4. CASE LastIs(toServer', SwitchObject(surface'))
    BY <2>4, LastIsElem DEF Sent
  <2> QED
    BY <2>1, <2>2, <2>3, <2>4 DEF Announced, QueueAnnounces, MainAnnounces, NetAnnounces
<1>2. PICK m \in Sent' : m = SwitchObject(surface')
  BY <1>1
<1>3. c \in MessageCells(m)'
  BY <1>2 DEF MessageCells, SwitchObject
<1> QED
  BY <1>2, <1>3 DEF Carried

\* The same while the call that announces it is still going on.
LEMMA SwitchCarries ==
  ASSUME ShmInv, shm = "mapped", surface \in Surfaces,
         UNCHANGED <<surface, mirrorStale>>, SwitchObject(surface) \in Sent'
  PROVE  AllCarried'
<1>1. mirrorStale' \subseteq SurfaceCells(surface)
  BY DEF ShmInv, StaleOnSurface
<1>2. MessageCells(SwitchObject(surface))' = SurfaceCells(surface)
  BY SwitchFacts DEF MessageCells, SwitchObject
<1>3. \A c \in mirrorStale' : Carried(c)'
  BY <1>1, <1>2 DEF Carried
<1> QED
  BY <1>3 DEF AllCarried

\* Steps that leave the pixels and what is being sent alone.
LEMMA MirrorFrame ==
  ASSUME IInv, MirrorInv,
         UNCHANGED <<surface, shm, dirty, out, vmUpd, mainUpd, queue, toServer,
                     switches, srv, srvSize, pixVars>>,
         \A p \in Ptr : heap'[p] = heap[p], MainRunning' => MainRunning
  PROVE  MirrorInv'
<1> USE DEF MirrorInv, pixVars
<1>1. /\ \A p \in {dirty, out} : p # NULL => p \in Ptr
      /\ \A p \in {vmUpd, mainUpd} \cup QueuedPtrs : p # NULL => p \in Ptr
  BY OwnerFacts DEF IInv, TypeOK, PtrOrNull
<1>2. InQueue' = InQueue /\ Sent' = Sent
  BY <1>1, SentFrame
<1>3. BoxesOnWire' /\ VmAnnounces' /\ IdleGetsNothing'
  BY <1>1, <1>2 DEF BoxesOnWire, VmAnnounces, IdleGetsNothing
<1>4. Announced'
  BY <1>1, <1>2, AnnouncedFrame
<1>5. \A c : Carried(c) => Carried(c)'
  BY <1>1, <1>2, CarriedFrame
<1>6. AllCarried'
  BY <1>5 DEF AllCarried, Serving
<1> QED
  BY <1>3, <1>4, <1>6

-----------------------------------------------------------------------------
(***************************************************************************)
(* The display thread.                                                     *)
(***************************************************************************)
LEMMA OnWireFacts ==
  ASSUME SizesFitWire, surface \in Surfaces
  PROVE  /\ \A u \in Rect : Fits(u, surface) => OnWire(u)
         /\ \A u \in Rect, r \in IntRegion :
              OnWire(u) /\ OnWire(RectOf(r)) => OnWire(ExpandRect(u, r))
         /\ \A u \in Rect : OnWire(u) => OnWire(AlignToSurface(u, surface))
<1>1. surface \in Surface /\ surface.w < WORD /\ surface.h < WORD /\ WORD \in Nat
  BY ConstantsAssumption DEF SizesFitWire
<1>2. ASSUME NEW u \in Rect, Fits(u, surface)
      PROVE  OnWire(u)
  BY <1>1, <1>2 DEF Rect, Surface, Fits, OnWire
<1>3. ASSUME NEW u \in Rect, NEW r \in IntRegion, OnWire(u), OnWire(RectOf(r))
      PROVE  OnWire(ExpandRect(u, r))
  BY <1>1, <1>3 DEF Rect, IntRegion, RectOf, ExpandRect, MinInt, MaxInt, OnWire
<1>4. ASSUME NEW u \in Rect, OnWire(u)
      PROVE  OnWire(AlignToSurface(u, surface))
  <2>1. u.x1 \in Nat /\ u.y1 \in Nat /\ u.x2 \in Int /\ u.y2 \in Int
    BY <1>4 DEF Rect, OnWire
  <2>2. AlignDown(u.x1) >= 0 /\ AlignDown(u.y1) >= 0
    BY <2>1, AlignAssumption DEF AlignDown
  <2>3. AlignUp(u.x2) \in Int /\ AlignUp(u.y2) \in Int
    BY <2>1, AlignUpBounds
  <2> QED
    BY <1>1, <2>2, <2>3 DEF Surface, AlignToSurface, MinInt, OnWire
<1> QED
  BY <1>2, <1>3, <1>4

LEMMA MirrorDisplayUpdate ==
  ASSUME SizesFitWire, IInv, MirrorInv, NEW r \in Regions, MuxDisplayUpdate(r)
  PROVE  MirrorInv'
<1> USE DEF MirrorInv, outVars, mainVars, srvVars, netVars
<1> DEFINE new == Cells(RectOf(r))
<1>1. /\ surface \in Surfaces /\ r \in IntRegion /\ RectOf(r) \in Rect
      /\ OnWire(RectOf(r))
  BY RegionsType, OnWireFacts DEF IInv, TypeOK, MuxDisplayUpdate
<1>2. /\ UNCHANGED <<surface, shm, vmPc, vmUpd, switches, out, mainPc, mainUpd,
                     queue, srv, srvSize, toServer>>
      /\ shmStale' = shmStale \cup new /\ mirrorStale' = mirrorStale \cup new
      /\ srvGot' = srvGot \ new
  BY DEF MuxDisplayUpdate, DrawPixels
<1> HIDE DEF new
<1>3. /\ \A p \in {out, vmUpd, mainUpd} \cup QueuedPtrs : p # NULL => heap'[p] = heap[p]
      /\ dirty' # NULL => OnWire(heap'[dirty'].rect)
  <2>1. CASE dirty = NULL
    <3>1. PICK p \in Fresh : /\ heap' = [heap EXCEPT ![p] = UpdateObject(RectOf(r))]
                             /\ dirty' = p
      BY <2>1 DEF MuxDisplayUpdate
    <3>2. p \in Ptr /\ p \notin Owned /\ heap'[p] = UpdateObject(RectOf(r))
      BY <3>1, FreshFacts DEF IInv, TypeOK, SingleOwner
    <3>3. \A q \in {out, vmUpd, mainUpd} \cup QueuedPtrs : q # NULL => q # p
      BY <3>2 DEF Owned
    <3> QED
      BY <1>1, <3>1, <3>2, <3>3, OwnerFacts, ObjectFacts DEF IInv, TypeOK, PtrOrNull
  <2>2. CASE dirty # NULL
    <3>1. /\ dirty \in Ptr /\ dirty' = dirty
          /\ heap[dirty].type = "DISPLAY_UPDATE" /\ heap[dirty].rect \in Rect
      BY <2>2, ObjectFacts DEF IInv, TypeOK, PtrOrNull, Control, MuxDisplayUpdate
    <3>2. heap' = [heap EXCEPT ![dirty] = UpdateObject(ExpandRect(heap[dirty].rect, r))]
      BY <2>2, <3>1 DEF MuxDisplayUpdate
    <3>3. heap'[dirty].rect = ExpandRect(heap[dirty].rect, r)
      <4>1. heap'[dirty] = UpdateObject(ExpandRect(heap[dirty].rect, r))
        BY <3>1, <3>2 DEF IInv, TypeOK
      <4> QED
        BY <1>1, <3>1, <4>1, ExpandRectType, ObjectFacts
    <3>4. OnWire(heap'[dirty].rect)
      BY <1>1, <2>2, <3>1, <3>3, OnWireFacts DEF BoxesOnWire
    <3>5. \A q \in {out, vmUpd, mainUpd} \cup QueuedPtrs : q # NULL => q # dirty
      BY <2>2 DEF IInv, SingleOwner, DistinctOwners
    <3> QED
      BY <3>1, <3>2, <3>4, <3>5
  <2> QED
    BY <2>1, <2>2
<1>4. InQueue' = InQueue /\ Sent' = Sent
  BY <1>2, <1>3, SentFrame
<1>5. BoxesOnWire' /\ VmAnnounces' /\ IdleGetsNothing'
  BY <1>2, <1>3, <1>4 DEF BoxesOnWire, VmAnnounces, IdleGetsNothing
<1>6. Announced'
  BY <1>2, <1>3, <1>4, AnnouncedFrame DEF MainRunning
<1>7. AllCarried'
  <2>1. ASSUME NEW c \in mirrorStale' \ shmStale', Serving'
        PROVE  Carried(c)'
    <3>1. c \in mirrorStale \ shmStale /\ c \notin new /\ Serving
      BY <1>2, <2>1 DEF Serving, MainRunning
    <3>2. Carried(c)
      BY <3>1 DEF AllCarried
    <3> QED
      BY <1>2, <1>3, <1>4, <3>1, <3>2, CarriedFrame
  <2> QED
    BY <2>1 DEF AllCarried
<1> QED
  BY <1>5, <1>6, <1>7

LEMMA MirrorRefreshBegin ==
  ASSUME SizesFitWire, IInv, MirrorInv, RefreshBegin
  PROVE  MirrorInv'
<1> USE DEF MirrorInv, outVars, mainVars, srvVars, netVars, pixVars
<1> DEFINE u == heap[dirty].rect
<1>1. dirty \in Ptr /\ dirty # NULL /\ u \in Rect /\ OnWire(u) /\ surface \in Surfaces
  BY ObjectFacts
  DEF IInv, TypeOK, PtrOrNull, Control, BoxesOnWire, RefreshBegin
<1>2. /\ UNCHANGED <<surface, shm, dirty, vmUpd, switches, out, mainPc, mainUpd,
                     queue, srv, srvSize, toServer, shmStale, mirrorStale, srvGot>>
      /\ heap' = [heap EXCEPT ![dirty] = UpdateObject(AlignToSurface(u, surface))]
  BY DEF RefreshBegin
<1>3. OnWire(heap'[dirty].rect)
  <2>1. heap'[dirty] = UpdateObject(AlignToSurface(u, surface))
    BY <1>1, <1>2 DEF IInv, TypeOK
  <2>2. heap'[dirty].rect = AlignToSurface(u, surface)
    BY <1>1, <2>1, AlignToSurfaceType, ObjectFacts, ConstantsAssumption
  <2> QED
    BY <1>1, <2>2, OnWireFacts
<1>4. \A p \in {out, vmUpd, mainUpd} \cup QueuedPtrs : p # NULL => heap'[p] = heap[p]
  BY <1>1, <1>2 DEF IInv, SingleOwner, DistinctOwners
<1>5. InQueue' = InQueue /\ Sent' = Sent
  BY <1>2, <1>4, SentFrame
<1>6. BoxesOnWire' /\ VmAnnounces' /\ IdleGetsNothing'
  BY <1>2, <1>3, <1>4, <1>5 DEF BoxesOnWire, VmAnnounces, IdleGetsNothing
<1>7. Announced'
  BY <1>2, <1>4, <1>5, AnnouncedFrame DEF MainRunning
<1>8. \A c : Carried(c) => Carried(c)'
  BY <1>2, <1>4, <1>5, CarriedFrame
<1>9. AllCarried'
  BY <1>2, <1>8 DEF AllCarried, Serving, MainRunning
<1> QED
  BY <1>6, <1>7, <1>9

(***************************************************************************)
(* The pixels that mux_display_refresh has copied go from the dirty update *)
(* to out_update, which keeps those it had (rdpmux.c:281-291).             *)
(***************************************************************************)
LEMMA RefreshedBox ==
  ASSUME SizesFitWire, IInv, MirrorInv, RefreshEnd
  PROVE  /\ out' # NULL /\ OnWire(heap'[out'].rect)
         /\ Cells(heap[dirty].rect) \subseteq Cells(heap'[out'].rect)
         /\ out # NULL => Cells(heap[out].rect) \subseteq Cells(heap'[out'].rect)
         /\ \A p \in {vmUpd, mainUpd} \cup QueuedPtrs : p # NULL => heap'[p] = heap[p]
<1> USE DEF MirrorInv
<1>1. /\ dirty \in Ptr /\ dirty # NULL
      /\ heap[dirty] \in Updates /\ heap[dirty].rect \in Rect
      /\ OnWire(heap[dirty].rect) /\ surface \in Surfaces
  BY ObjectFacts DEF IInv, TypeOK, PtrOrNull, Control, BoxesOnWire, RefreshEnd
<1>2. CASE out = NULL
  <2>1. PICK p \in Fresh : /\ heap' = [heap EXCEPT ![p] = heap[dirty], ![dirty] = FREE]
                           /\ out' = p
    BY <1>2 DEF RefreshEnd
  <2>2. p \in Ptr /\ heap[p] = FREE /\ p # NULL /\ p # dirty /\ p \notin Owned
    BY <1>1, <2>1, FreshFacts, ObjectFacts DEF IInv, SingleOwner
  <2>3. heap'[p] = heap[dirty]
    BY <1>1, <2>1, <2>2 DEF IInv, TypeOK
  <2>4. \A q \in {vmUpd, mainUpd} \cup QueuedPtrs :
          q # NULL => q \in Ptr /\ q # p /\ q # dirty
    BY <2>2, OwnerFacts DEF Owned
  <2> QED
    BY <1>1, <1>2, <2>1, <2>2, <2>3, <2>4 DEF IInv, TypeOK
<1>3. CASE out # NULL
  <2> DEFINE box == ExpandRect(heap[out].rect, RegionOf(heap[dirty].rect))
  <2>1. /\ out \in Ptr /\ heap[out] \in Updates /\ heap[out].rect \in Rect
        /\ OnWire(heap[out].rect) /\ out # dirty /\ out' = out
    BY <1>1, <1>3, ObjectFacts
    DEF IInv, TypeOK, PtrOrNull, Control, SingleOwner, DistinctOwners, BoxesOnWire,
        RefreshEnd
  <2>2. heap' = [heap EXCEPT ![out] = UpdateObject(box), ![dirty] = FREE]
    BY <1>3 DEF RefreshEnd, GrowOut
  <2>3. /\ RegionOf(heap[dirty].rect) \in IntRegion
        /\ RectOf(RegionOf(heap[dirty].rect)) = heap[dirty].rect
    BY <1>1, RegionOfType
  <2>4. box \in Rect /\ OnWire(box)
        /\ Cells(heap[out].rect) \subseteq Cells(box)
        /\ Cells(heap[dirty].rect) \subseteq Cells(box)
    BY <1>1, <2>1, <2>3, ExpandRectType, ExpandCells, OnWireFacts
  <2> HIDE DEF box
  <2>5. heap'[out] = UpdateObject(box) /\ heap'[out].rect = box
    <3>1. heap'[out] = UpdateObject(box)
      BY <1>1, <2>1, <2>2 DEF IInv, TypeOK
    <3> QED
      BY <2>4, <3>1, ObjectFacts
  <2>6. \A q \in {vmUpd, mainUpd} \cup QueuedPtrs :
          q # NULL => q \in Ptr /\ q # out /\ q # dirty
    BY OwnerFacts
  <2> QED
    BY <1>1, <1>3, <2>1, <2>2, <2>4, <2>5, <2>6 DEF IInv, TypeOK
<1> QED
  BY <1>2, <1>3

LEMMA MirrorRefreshEnd ==
  ASSUME SizesFitWire, IInv, ShmInv, MirrorInv, RefreshEnd
  PROVE  MirrorInv'
<1> USE DEF MirrorInv, mainVars, srvVars, netVars
<1>1. /\ UNCHANGED <<surface, shm, vmUpd, switches, mainPc, mainUpd, queue, srv,
                     srvSize, toServer, mirrorStale, srvGot>>
      /\ dirty' = NULL
  BY DEF RefreshEnd
<1>2. /\ out' # NULL /\ OnWire(heap'[out'].rect)
      /\ Cells(heap[dirty].rect) \subseteq Cells(heap'[out'].rect)
      /\ out # NULL => Cells(heap[out].rect) \subseteq Cells(heap'[out'].rect)
      /\ \A p \in {vmUpd, mainUpd} \cup QueuedPtrs : p # NULL => heap'[p] = heap[p]
  BY RefreshedBox
<1>3. InQueue' = InQueue /\ Sent' = Sent
  BY <1>1, <1>2, SentFrame
<1>4. BoxesOnWire' /\ VmAnnounces' /\ IdleGetsNothing'
  BY <1>1, <1>2, <1>3 DEF BoxesOnWire, VmAnnounces, IdleGetsNothing
<1>5. Announced'
  BY <1>1, <1>2, <1>3, AnnouncedFrame DEF MainRunning
<1>6. AllCarried'
  <2>1. ASSUME NEW c \in mirrorStale' \ shmStale', Serving'
        PROVE  Carried(c)'
    <3>1. Serving /\ c \in mirrorStale
      BY <1>1, <2>1 DEF Serving, MainRunning
    <3>2. CASE c \in shmStale
      <4>1. c \in Cells(heap[dirty].rect)
        BY <3>1, <3>2, ShmRefreshEnd DEF Serving
      <4> QED
        BY <1>2, <4>1 DEF Carried
    <3>3. CASE c \notin shmStale
      <4>1. Carried(c)
        BY <3>1, <3>3 DEF AllCarried
      <4> QED
        BY <1>1, <1>2, <1>3, <4>1, CarriedFrame
    <3> QED
      BY <3>2, <3>3
  <2> QED
    BY <2>1 DEF AllCarried
<1> QED
  BY <1>4, <1>5, <1>6

(***************************************************************************)
(* A switch that goes on has its announcement in vmUpd, which stands for   *)
(* all of the new framebuffer, until it is queued behind everything else.  *)
(***************************************************************************)
LEMMA MirrorSwitchBegin ==
  ASSUME IInv, MirrorInv, NEW s \in Surfaces, SwitchBegin(s)
  PROVE  MirrorInv'
<1> USE DEF MirrorInv, outVars, mainVars, srvVars, netVars
<1>1. /\ surface' = s /\ vmUpd = NULL
      /\ mirrorStale' = shmStale' /\ srvGot' = {}
      /\ UNCHANGED <<dirty, out, mainPc, mainUpd, queue, srv, srvSize, toServer>>
  BY DEF IInv, Control, SwitchPcs, SwitchBegin
<1>2. PICK o \in ShmOutcomes :
        /\ shm' = ShmSetup(o)
        /\ \/ shm' # "mapped" /\ UNCHANGED <<vmPc, vmUpd, heap>>
           \/ \E p \in Fresh : /\ heap'  = [heap EXCEPT ![p] = SwitchObject(s)]
                               /\ vmUpd' = p
  BY DEF SwitchBegin
<1>3. AllCarried' /\ IdleGetsNothing'
  BY <1>1 DEF AllCarried, IdleGetsNothing
<1>4. CASE shm' # "mapped" /\ UNCHANGED <<vmPc, vmUpd, heap>>
  <2>1. BoxesOnWire' /\ VmAnnounces' /\ Announced'
    BY <1>1, <1>4 DEF BoxesOnWire, VmAnnounces, Announced, Serving
  <2> QED
    BY <1>3, <2>1
<1>5. ASSUME NEW p \in Fresh, heap' = [heap EXCEPT ![p] = SwitchObject(s)], vmUpd' = p
      PROVE  MirrorInv'
  <2>1. p \in Ptr /\ p # NULL /\ p \notin Owned /\ heap'[p] = SwitchObject(s)
    BY <1>5, FreshFacts DEF IInv, TypeOK, SingleOwner
  <2>2. \A q \in {dirty, out} : q # NULL => q \in Ptr /\ q # p /\ heap'[q] = heap[q]
    BY <1>5, <2>1 DEF IInv, TypeOK, PtrOrNull, Owned
  <2>3. BoxesOnWire' /\ VmAnnounces' /\ Announced'
    BY <1>1, <1>5, <2>1, <2>2 DEF BoxesOnWire, VmAnnounces, Announced
  <2> QED
    BY <1>3, <2>3
<1> QED
  BY <1>2, <1>4, <1>5

\* The queued messages may go: the announcement covers their pixels.
LEMMA MirrorSwitchClear ==
  ASSUME IInv, ShmInv, MirrorInv, SwitchClear
  PROVE  MirrorInv'
<1> USE DEF MirrorInv, outVars, mainVars, srvVars, netVars, pixVars
<1>1. /\ UNCHANGED <<surface, shm, dirty, out, vmUpd, switches, mainPc, mainUpd,
                     srv, srvSize, toServer, shmStale, mirrorStale, srvGot>>
      /\ QueueClear /\ queue' = <<>>
      /\ heap' = [p \in Ptr |-> IF p \in QueuedPtrs THEN FREE ELSE heap[p]]
  BY DEF SwitchClear, QueueClear
<1>2. vmUpd # NULL /\ \A p \in {dirty, out, vmUpd, mainUpd} :
                        p # NULL => heap'[p] = heap[p]
  BY <1>1 DEF IInv, TypeOK, PtrOrNull, Control, SwitchPcs, SingleOwner,
              DistinctOwners, SwitchClear
<1>3. Elems(InQueue') = {}
  BY <1>1 DEF InQueue, Elems
<1>4. /\ MessageOf(vmUpd)' = MessageOf(vmUpd)
      /\ MessageOf(mainUpd)' = MessageOf(mainUpd)
  BY <1>1, <1>2 DEF MessageOf
<1>5. Sent' \subseteq Sent /\ Wire(heap[vmUpd]) \in Sent'
  BY <1>1, <1>2, <1>3, <1>4 DEF Sent, MessageOf
<1>6. BoxesOnWire' /\ VmAnnounces' /\ IdleGetsNothing' /\ Announced'
  BY <1>1, <1>2, <1>5
  DEF BoxesOnWire, VmAnnounces, IdleGetsNothing, Announced
<1>7. AllCarried'
  <2>1. CASE Serving
    <3>1. surface \in Surfaces /\ SwitchObject(surface) \in Sent'
      BY <1>2, <1>5, <2>1, SwitchFacts
      DEF IInv, TypeOK, ShmInv, StaleOnSurface, Serving, VmAnnounces
    <3> QED
      BY <1>1, <2>1, <3>1, SwitchCarries DEF Serving
  <2>2. CASE ~Serving
    BY <1>1, <2>2 DEF AllCarried, Serving, MainRunning
  <2> QED
    BY <2>1, <2>2
<1> QED
  BY <1>6, <1>7

LEMMA MirrorSwitchCopied ==
  ASSUME IInv, ShmInv, MirrorInv, SwitchCopied
  PROVE  MirrorInv'
<1> USE DEF MirrorInv, mainVars, memVars, srvVars, netVars
<1>1. UNCHANGED <<surface, shm, dirty, out, vmUpd, switches, mainPc, mainUpd, queue,
                  heap, srv, srvSize, toServer, mirrorStale, srvGot>>
  BY DEF SwitchCopied
<1>2. vmUpd # NULL
  BY DEF IInv, Control, SwitchPcs, SwitchCopied
<1>3. InQueue' = InQueue /\ Sent' = Sent
  BY <1>1, SentFrame
<1>4. BoxesOnWire' /\ VmAnnounces' /\ IdleGetsNothing' /\ Announced'
  BY <1>1, <1>2, <1>3
  DEF BoxesOnWire, VmAnnounces, IdleGetsNothing, Announced
<1>5. AllCarried'
  <2>1. CASE Serving
    <3>1. surface \in Surfaces /\ Wire(heap[vmUpd]) = SwitchObject(surface)
      BY <1>2, <2>1, SwitchFacts
      DEF IInv, TypeOK, ShmInv, StaleOnSurface, Serving, VmAnnounces
    <3>2. SwitchObject(surface) \in Sent'
      BY <1>2, <1>3, <3>1 DEF Sent, MessageOf
    <3> QED
      BY <1>1, <2>1, <3>1, <3>2, SwitchCarries DEF Serving
  <2>2. CASE ~Serving
    BY <1>1, <2>2 DEF AllCarried, Serving, MainRunning
  <2> QED
    BY <2>1, <2>2
<1> QED
  BY <1>4, <1>5

LEMMA MirrorSwitchEnqueue ==
  ASSUME IInv, MirrorInv, SwitchEnqueue
  PROVE  MirrorInv'
<1> USE DEF MirrorInv, outVars, mainVars, srvVars, netVars, pixVars
<1>1. /\ UNCHANGED <<surface, shm, dirty, out, switches, mainPc, mainUpd, heap,
                     srv, srvSize, toServer, shmStale, mirrorStale, srvGot>>
      /\ queue' = Append(queue, vmUpd) /\ vmUpd' = NULL
  BY DEF SwitchEnqueue, Enqueue
<1>2. /\ vmUpd # NULL /\ vmUpd \in Ptr /\ Wire(heap[vmUpd]) \in LibMessages
      /\ InQueue \in Seq(LibMessages)
  BY OwnerFacts DEF IInv, Control, SwitchPcs, SwitchEnqueue
<1>3. InQueue' = Append(InQueue, Wire(heap[vmUpd]))
  BY <1>1, <1>2, QueueMessagesAppend
<1>4. Sent' = Sent
  <2>1. Elems(InQueue') = Elems(InQueue) \cup {Wire(heap[vmUpd])}
    BY <1>2, <1>3, AppendFacts
  <2>2. MessageOf(mainUpd)' = MessageOf(mainUpd)
    BY <1>1 DEF MessageOf
  <2>3. Elems(toServer)' = Elems(toServer)
    BY <1>1 DEF Elems
  <2> QED
    BY <1>1, <1>2, <2>1, <2>2, <2>3 DEF Sent, MessageOf
<1>5. BoxesOnWire' /\ VmAnnounces' /\ IdleGetsNothing'
  BY <1>1, <1>4 DEF BoxesOnWire, VmAnnounces, IdleGetsNothing
<1>6. Announced'
  <2>1. surface # NULL => Wire(heap[vmUpd]) = SwitchObject(surface)
    BY <1>2, SwitchFacts DEF IInv, TypeOK, VmAnnounces
  <2>2. surface # NULL
    <3>1. SwitchObject(surface) \in Updates \cup Switches
      BY <1>2, OwnerFacts DEF VmAnnounces
    <3> QED
      BY <3>1, ConstantsAssumption DEF SwitchObject, Updates, Switches
  <2>3. LastIs(InQueue', SwitchObject(surface))
    BY <1>2, <1>3, <2>1, <2>2, LastIsAppend
  <2> QED
    BY <1>1, <2>3 DEF Announced, QueueAnnounces
<1>7. \A c : Carried(c) => Carried(c)'
  BY <1>1, <1>4, CarriedFrame
<1>8. AllCarried'
  BY <1>1, <1>7 DEF AllCarried, Serving, MainRunning
<1> QED
  BY <1>5, <1>6, <1>8

LEMMA MirrorVm ==
  ASSUME SizesFitWire, IInv, ShmInv, MirrorInv, VmNext
  PROVE  MirrorInv'
<1> USE DEF outVars, mainVars, memVars, srvVars, netVars, pixVars
<1>1. CASE RefreshDeferred
  BY <1>1, MirrorFrame DEF RefreshDeferred, KeepDirty, MainRunning
<1>2. CASE SwitchLock
  BY <1>2, MirrorFrame DEF SwitchLock, MainRunning
<1> QED
  BY <1>1, <1>2, MirrorDisplayUpdate, MirrorRefreshBegin, MirrorRefreshEnd,
     MirrorSwitchBegin, MirrorSwitchClear, MirrorSwitchCopied, MirrorSwitchEnqueue
  DEF VmNext, VmReturn

-----------------------------------------------------------------------------
(***************************************************************************)
(* The out loop hands its box over in the form the wire gives it.          *)
(***************************************************************************)
LEMMA MirrorOutEnqueue ==
  ASSUME IInv, MirrorInv, OutEnqueue
  PROVE  MirrorInv'
<1> USE DEF MirrorInv, OutUnchanged, vmVars, mainVars, srvVars, netVars, pixVars
<1> DEFINE m == Wire(heap[out])
<1>1. /\ UNCHANGED <<surface, shm, dirty, vmUpd, switches, mainPc, mainUpd, heap,
                     srv, srvSize, toServer, shmStale, mirrorStale, srvGot>>
      /\ queue' = Append(queue, out) /\ out' = NULL
  BY DEF OutEnqueue, Enqueue, HandOver
<1>2. /\ out # NULL /\ out \in Ptr /\ heap[out] \in Updates /\ OnWire(heap[out].rect)
      /\ m \in LibMessages /\ InQueue \in Seq(LibMessages)
  BY OwnerFacts, WireType DEF IInv, TypeOK, PtrOrNull, Control, BoxesOnWire, OutEnqueue
<1>3. ~IsSwitch(m) /\ Cells(heap[out].rect) \subseteq MessageCells(m)
  BY <1>2, WireCells
<1>4. InQueue' = Append(InQueue, m)
  BY <1>1, <1>2, QueueMessagesAppend
<1>5. Sent' = Sent \cup {m}
  <2>1. Elems(InQueue') = Elems(InQueue) \cup {m}
    BY <1>2, <1>4, AppendFacts
  <2>2. MessageOf(mainUpd)' = MessageOf(mainUpd) /\ MessageOf(vmUpd)' = MessageOf(vmUpd)
    BY <1>1 DEF MessageOf
  <2>3. Elems(toServer)' = Elems(toServer)
    BY <1>1 DEF Elems
  <2> QED
    BY <2>1, <2>2, <2>3 DEF Sent
<1> HIDE DEF m
<1>6. BoxesOnWire' /\ VmAnnounces' /\ IdleGetsNothing'
  BY <1>1, <1>3, <1>5 DEF BoxesOnWire, VmAnnounces, IdleGetsNothing
<1>7. Announced'
  <2>1. /\ LastIs(InQueue, SwitchObject(surface)) => LastIs(InQueue', SwitchObject(surface))
        /\ NoSwitch(InQueue) => NoSwitch(InQueue')
    <3>1. LastIs(InQueue, SwitchObject(surface)) => SwitchObject(surface) \in LibMessages
      BY <1>2, LastIsElem, OwnerFacts DEF Sent
    <3> QED
      BY <1>2, <1>3, <1>4, <3>1, LastIsAppend
  <2>2. MainAnnounces' = MainAnnounces
    BY <1>1 DEF MainAnnounces, NetAnnounces
  <2> QED
    BY <1>1, <2>1, <2>2
    DEF Announced, QueueAnnounces, Serving, MainRunning
<1>8. ASSUME NEW c, Carried(c)
      PROVE  Carried(c)'
  <2>1. CASE c \in Cells(heap[out].rect)
    <3>1. PICK n \in Sent' : n = m
      BY <1>5
    <3>2. c \in MessageCells(n)'
      BY <1>1, <1>3, <2>1, <3>1 DEF MessageCells
    <3> QED
      BY <3>2 DEF Carried
  <2>2. CASE c \in srvGot
    BY <1>1, <2>2 DEF Carried
  <2>3. CASE \E n \in Sent : c \in MessageCells(n)
    BY <1>1, <1>5, <2>3 DEF Carried, MessageCells
  <2> QED
    BY <1>8, <2>1, <2>2, <2>3 DEF Carried
<1>9. AllCarried'
  BY <1>1, <1>8 DEF AllCarried, Serving, MainRunning
<1> QED
  BY <1>6, <1>7, <1>9

-----------------------------------------------------------------------------
(***************************************************************************)
(* The main loop passes each message on, and keeps their order.            *)
(***************************************************************************)
LEMMA MirrorMainDequeue ==
  ASSUME IInv, MirrorInv, MainDequeue
  PROVE  MirrorInv'
<1> USE DEF MirrorInv, MainUnchanged, vmVars, srvVars, pixVars, netVars
<1>1. /\ UNCHANGED <<surface, shm, dirty, out, vmUpd, switches, heap,
                     srv, srvSize, toServer, shmStale, mirrorStale, srvGot>>
      /\ queue # <<>> /\ queue' = Tail(queue) /\ mainUpd' = Head(queue)
      /\ mainUpd = NULL
  BY DEF IInv, Control, MainDequeue
<1>2. /\ InQueue # <<>> /\ InQueue \in Seq(LibMessages)
      /\ InQueue' = Tail(InQueue) /\ Head(InQueue) = Wire(heap[mainUpd'])
  BY <1>1, QueueMessagesTail, OwnerFacts
<1>3. mainUpd' # NULL
  BY <1>1, TailFacts, ConstantsAssumption DEF IInv, TypeOK
<1>4. Sent' = Sent
  <2>1. Elems(InQueue) = Elems(InQueue') \cup {Wire(heap[mainUpd'])}
    BY <1>2, TailFacts
  <2>2. MessageOf(vmUpd)' = MessageOf(vmUpd) /\ MessageOf(mainUpd) = {}
    BY <1>1 DEF MessageOf
  <2>3. MessageOf(mainUpd)' = {Wire(heap[mainUpd'])}
    BY <1>1, <1>3 DEF MessageOf
  <2>4. Elems(toServer)' = Elems(toServer)
    BY <1>1 DEF Elems
  <2> QED
    BY <2>1, <2>2, <2>3, <2>4 DEF Sent
<1>5. BoxesOnWire' /\ VmAnnounces' /\ IdleGetsNothing'
  BY <1>1, <1>4 DEF BoxesOnWire, VmAnnounces, IdleGetsNothing
<1>6. Announced'
  <2> DEFINE X == SwitchObject(surface)
  <2>1. ASSUME Serving', vmUpd' = NULL
        PROVE  QueueAnnounces'
    <3>1. QueueAnnounces /\ surface \in Surfaces \cup {NULL} /\ Serving
      BY <1>1, <2>1 DEF Announced, Serving, MainRunning, MainDequeue, IInv, TypeOK
    <3>2. CASE LastIs(InQueue, X)
      <4>1. LastIs(InQueue', X) \/ (Wire(heap[mainUpd']) = X /\ NoSwitch(InQueue'))
        BY <1>2, <3>2, LastIsTail
      <4>2. IsSwitch(X)
        BY DEF IsSwitch, SwitchObject
      <4>3. Wire(heap[mainUpd']) = X => MainAnnounces'
        BY <1>1, <1>3, <4>2 DEF MainAnnounces
      <4> QED
        BY <1>1, <4>1, <4>3 DEF QueueAnnounces
    <3>3. CASE NoSwitch(InQueue) /\ MainAnnounces
      <4>1. ~IsSwitch(Wire(heap[mainUpd'])) /\ NoSwitch(InQueue')
        BY <1>2, <3>3, LastIsTail
      <4>2. NetAnnounces /\ NetAnnounces' = NetAnnounces
        BY <1>1, <3>3 DEF MainAnnounces, NetAnnounces
      <4>3. MainAnnounces'
        BY <1>1, <4>1, <4>2 DEF MainAnnounces
      <4> QED
        BY <4>1, <4>3 DEF QueueAnnounces
    <3> QED
      BY <3>1, <3>2, <3>3 DEF QueueAnnounces
  <2> QED
    BY <2>1 DEF Announced
<1>7. \A c : Carried(c) => Carried(c)'
  BY <1>1, <1>4, CarriedFrame
<1>8. AllCarried'
  BY <1>1, <1>7 DEF AllCarried, Serving, MainRunning, MainDequeue
<1> QED
  BY <1>5, <1>6, <1>8

LEMMA MirrorMainSend ==
  ASSUME IInv, MirrorInv, MainSend
  PROVE  MirrorInv'
<1> USE DEF MirrorInv, MainUnchanged, vmVars, srvVars, pixVars
<1> DEFINE m == Wire(heap[mainUpd])
<1>1. /\ UNCHANGED <<surface, shm, dirty, out, vmUpd, switches, queue,
                     srv, srvSize, shmStale, mirrorStale, srvGot>>
      /\ heap' = [heap EXCEPT ![mainUpd] = FREE] /\ mainUpd' = NULL
      /\ toServer' = Append(toServer, m)
  BY DEF MainSend, Send
<1>2. /\ mainUpd # NULL /\ mainUpd \in Ptr /\ m \in LibMessages
      /\ toServer \in Seq(LibMessages)
  BY OwnerFacts DEF IInv, Control, MainSend
<1>3. \A p \in {dirty, out, vmUpd} \cup QueuedPtrs : p # NULL => heap'[p] = heap[p]
  BY <1>1, <1>2, OwnerFacts
  DEF IInv, TypeOK, PtrOrNull, SingleOwner, DistinctOwners
<1>4. InQueue' = InQueue
  BY <1>1, <1>3, OwnerFacts, QueueMessagesFrame
<1>5. Sent' = Sent
  <2>1. Elems(toServer') = Elems(toServer) \cup {m}
    BY <1>1, <1>2, AppendFacts
  <2>2. MessageOf(vmUpd)' = MessageOf(vmUpd)
    BY <1>1, <1>3 DEF MessageOf
  <2>3. MessageOf(mainUpd) = {m} /\ MessageOf(mainUpd)' = {}
    BY <1>1, <1>2 DEF MessageOf
  <2> QED
    BY <1>4, <2>1, <2>2, <2>3 DEF Sent, Elems
<1>6. BoxesOnWire' /\ VmAnnounces' /\ IdleGetsNothing'
  BY <1>1, <1>3, <1>5 DEF BoxesOnWire, VmAnnounces, IdleGetsNothing
<1> HIDE DEF m
<1>7. Announced'
  <2> DEFINE X == SwitchObject(surface)
  <2>1. MainAnnounces => MainAnnounces'
    <3>1. CASE IsSwitch(m) /\ m = X
      <4>1. LastIs(toServer', X)
        BY <1>1, <1>2, <3>1, LastIsAppend
      <4> QED
        BY <1>1, <4>1 DEF MainAnnounces, NetAnnounces
    <3>2. CASE ~IsSwitch(m) /\ LastIs(toServer, X)
      <4>1. X \in LibMessages
        BY <1>2, <3>2, LastIsElem DEF Elems
      <4>2. LastIs(toServer', X)
        BY <1>1, <1>2, <3>2, <4>1, LastIsAppend
      <4> QED
        BY <1>1, <4>2 DEF MainAnnounces, NetAnnounces
    <3>3. CASE ~IsSwitch(m) /\ NoSwitch(toServer) /\ srvSize = surface
      <4>1. NoSwitch(toServer')
        BY <1>1, <1>2, <3>3, LastIsAppend
      <4> QED
        BY <1>1, <3>3, <4>1 DEF MainAnnounces, NetAnnounces
    <3> QED
      BY <1>2, <3>1, <3>2, <3>3 DEF MainAnnounces, NetAnnounces, m
  <2> QED
    BY <1>1, <1>4, <2>1
    DEF Announced, QueueAnnounces, Serving, MainRunning, MainSend
<1>8. \A c : Carried(c) => Carried(c)'
  BY <1>1, <1>3, <1>5, CarriedFrame
<1>9. AllCarried'
  BY <1>1, <1>8 DEF AllCarried, Serving, MainRunning, MainSend
<1> QED
  BY <1>6, <1>7, <1>9

\* After it has left its loop, the main loop owes the server nothing.
LEMMA MirrorMainLeaves ==
  ASSUME IInv, MirrorInv, MainExitClear \/ MainSendShutdown
  PROVE  MirrorInv'
<1> USE DEF MirrorInv, MainUnchanged, vmVars, srvVars, pixVars, netVars, memVars
<1>1. /\ UNCHANGED <<surface, shm, dirty, out, vmUpd, mainUpd, switches,
                     srv, srvSize, shmStale, mirrorStale, srvGot>>
      /\ ~Serving'
  BY DEF MainExitClear, MainSendShutdown, Serving, MainRunning
<1>2. /\ \A p \in {dirty, out, vmUpd, mainUpd} : p # NULL => heap'[p] = heap[p]
      /\ \A n \in Elems(InQueue') \cup Elems(toServer') :
           n \in Elems(InQueue) \cup Elems(toServer) \cup {Shutdown}
  <2>1. CASE MainExitClear
    <3>1. /\ queue' = <<>> /\ UNCHANGED toServer
          /\ heap' = [p \in Ptr |-> IF p \in QueuedPtrs THEN FREE ELSE heap[p]]
      BY <2>1 DEF MainExitClear, QueueClear
    <3>2. Elems(InQueue') = {}
      BY <3>1 DEF InQueue, Elems
    <3> QED
      BY <3>1, <3>2 DEF IInv, TypeOK, PtrOrNull, SingleOwner, DistinctOwners
  <2>2. CASE MainSendShutdown
    <3>1. toServer' = Append(toServer, Shutdown) /\ UNCHANGED <<queue, heap>>
      BY <2>2 DEF MainSendShutdown, Send
    <3>2. Elems(toServer') = Elems(toServer) \cup {Shutdown}
      BY <3>1, OwnerFacts, ShutdownFacts, AppendFacts
    <3>3. Elems(InQueue') = Elems(InQueue)
      BY <3>1 DEF InQueue, Elems
    <3> QED
      BY <3>1, <3>2, <3>3
  <2> QED
    BY <2>1, <2>2
<1>3. BoxesOnWire' /\ VmAnnounces' /\ IdleGetsNothing'
  BY <1>1, <1>2 DEF BoxesOnWire, VmAnnounces, IdleGetsNothing
<1> QED
  BY <1>1, <1>3 DEF Announced, AllCarried

LEMMA MirrorMain ==
  ASSUME IInv, MirrorInv, MainStep
  PROVE  MirrorInv'
<1> USE DEF MainUnchanged, vmVars, srvVars, memVars, netVars, MainRunning
<1>1. CASE MainCheckQueue \/ MainReceive \/ MainPollEmpty \/ MainStopCheck
             \/ MainExitUnlock \/ MainWakeUpdate \/ MainWakeShm
  <2>1. UNCHANGED <<surface, shm, dirty, out, vmUpd, mainUpd, queue, heap, toServer,
                    switches, srv, srvSize, pixVars>>
    BY <1>1 DEF MainCheckQueue, MainReceive, MainPollEmpty, MainStopCheck,
                MainExitUnlock, MainWakeUpdate, MainWakeShm
  <2>2. MainRunning' => MainRunning
    BY <1>1 DEF MainCheckQueue, MainReceive, MainPollEmpty, MainStopCheck,
                MainExitUnlock, MainWakeUpdate, MainWakeShm
  <2> QED
    BY <2>1, <2>2, MirrorFrame
<1> QED
  BY <1>1, MirrorMainDequeue, MirrorMainSend, MirrorMainLeaves DEF MainStep

-----------------------------------------------------------------------------
(***************************************************************************)
(* The network and the server.                                             *)
(***************************************************************************)
\* The server takes the head of what was sent.
LEMMA TakenFacts ==
  ASSUME IInv, MirrorInv, toServer # <<>>, toServer' = Tail(toServer),
         UNCHANGED <<surface, vmUpd, mainUpd, queue, heap>>
  PROVE  /\ Head(toServer) \in LibMessages
         /\ Sent = Sent' \cup {Head(toServer)}
         /\ InQueue' = InQueue
         /\ LastIs(toServer, SwitchObject(surface)) =>
              \/ LastIs(toServer', SwitchObject(surface))
              \/ Head(toServer) = SwitchObject(surface) /\ NoSwitch(toServer')
         /\ NoSwitch(toServer) => ~IsSwitch(Head(toServer)) /\ NoSwitch(toServer')
<1>1. toServer \in Seq(LibMessages) /\ InQueue' = InQueue
  BY OwnerFacts, QueueMessagesFrame
<1>2. /\ Head(toServer) \in LibMessages
      /\ Elems(toServer) = Elems(toServer') \cup {Head(toServer)}
  BY <1>1, TailFacts
<1>3. Sent = Sent' \cup {Head(toServer)}
  BY <1>1, <1>2 DEF Sent, MessageOf
<1> QED
  BY <1>1, <1>2, <1>3, LastIsTail

\* The steps of the server leave the library's part of the invariant alone.
LEMMA ServerFrame ==
  ASSUME IInv, MirrorInv, ServerUnchanged, Sent' \subseteq Sent
  PROVE  BoxesOnWire' /\ VmAnnounces' /\ (Serving' <=> Serving)
BY DEF MirrorInv, ServerUnchanged, vmVars, outVars, mainVars, memVars,
       BoxesOnWire, VmAnnounces, Serving, MainRunning

(***************************************************************************)
(* Reading an update gets every current pixel of it, if the server has the *)
(* size of the framebuffer; if not, the announcement is still to come.     *)
(***************************************************************************)
LEMMA MirrorReadUpdate ==
  ASSUME IInv, ShmInv, MirrorInv, ServerReadUpdate
  PROVE  MirrorInv'
<1> USE DEF MirrorInv
<1> DEFINE m == Head(toServer)
<1>1. /\ UNCHANGED <<surface, shm, out, vmUpd, mainUpd, queue, heap, srvSize,
                     shmStale, mirrorStale>>
      /\ ServerUnchanged /\ toServer # <<>> /\ toServer' = Tail(toServer)
      /\ m.type = "DISPLAY_UPDATE" /\ srvGot = {} /\ srv' = "reading"
      /\ srvGot' = IF srvSize = surface
                   THEN (Cells(RectOf(m.region)) \cap SurfaceCells(surface)) \ shmStale
                   ELSE {}
  BY DEF ServerReadUpdate, ServerUnchanged, vmVars, outVars, mainVars, memVars,
         IdleGetsNothing
<1>2. /\ Sent = Sent' \cup {m} /\ InQueue' = InQueue
      /\ LastIs(toServer, SwitchObject(surface)) =>
              \/ LastIs(toServer', SwitchObject(surface))
              \/ m = SwitchObject(surface) /\ NoSwitch(toServer')
      /\ NoSwitch(toServer) => NoSwitch(toServer')
  BY <1>1, TakenFacts
<1>3. BoxesOnWire' /\ VmAnnounces' /\ (Serving' <=> Serving)
  BY <1>1, <1>2, ServerFrame
<1>4. IdleGetsNothing'
  BY <1>1 DEF IdleGetsNothing
<1>5. m # SwitchObject(surface) /\ MessageCells(m) = Cells(RectOf(m.region))
  BY <1>1 DEF SwitchObject, MessageCells
<1>6. Announced'
  BY <1>1, <1>2, <1>3, <1>5 DEF Announced, QueueAnnounces, MainAnnounces, NetAnnounces
<1>7. AllCarried'
  <2>1. ASSUME NEW c \in mirrorStale' \ shmStale', Serving'
        PROVE  Carried(c)'
    <3>1. /\ c \in mirrorStale \ shmStale /\ Serving
          /\ surface \in Surfaces /\ c \in SurfaceCells(surface)
      BY <1>1, <1>3, <2>1 DEF ShmInv, StaleOnSurface, Serving, IInv, TypeOK
    <3>2. CASE srvSize = surface /\ c \in MessageCells(m)
      BY <1>1, <1>5, <3>1, <3>2 DEF Carried
    <3>3. CASE srvSize = surface /\ c \notin MessageCells(m)
      <4>1. Carried(c)
        BY <3>1 DEF AllCarried
      <4>2. CASE out # NULL /\ c \in Cells(heap[out].rect)
        BY <1>1, <4>2 DEF Carried
      <4>3. CASE \E n \in Sent : c \in MessageCells(n)
        <5>1. PICK n \in Sent : c \in MessageCells(n)
          BY <4>3
        <5>2. n \in Sent' /\ c \in MessageCells(n)'
          BY <1>1, <1>2, <3>3, <5>1 DEF MessageCells
        <5> QED
          BY <5>2 DEF Carried
      <4> QED
        BY <1>1, <4>1, <4>2, <4>3 DEF Carried
    <3>4. CASE srvSize # surface
      BY <1>1, <1>3, <1>6, <2>1, <3>1, <3>4, AnnouncementCarries
    <3> QED
      BY <3>2, <3>3, <3>4
  <2> QED
    BY <2>1 DEF AllCarried
<1> QED
  BY <1>3, <1>4, <1>6, <1>7

LEMMA MirrorReadSwitch ==
  ASSUME IInv, ShmInv, MirrorInv, ServerReadSwitch
  PROVE  MirrorInv'
<1> USE DEF MirrorInv
<1> DEFINE m == Head(toServer)
<1>1. /\ UNCHANGED <<surface, shm, out, vmUpd, mainUpd, queue, heap, shmStale>>
      /\ ServerUnchanged /\ toServer # <<>> /\ toServer' = Tail(toServer)
      /\ IsSwitch(m) /\ srv' = "reading" /\ srvSize' = m.size
      /\ \/ m.size = surface /\ srvGot' = SurfaceCells(surface) \ shmStale
                             /\ UNCHANGED mirrorStale
         \/ m.size # surface /\ mirrorStale' = SurfaceCells(surface)
  BY DEF ServerReadSwitch, ServerUnchanged, vmVars, outVars, mainVars, memVars, IsSwitch
<1>2. /\ Sent = Sent' \cup {m} /\ InQueue' = InQueue /\ m \in LibMessages
      /\ LastIs(toServer, SwitchObject(surface)) =>
              \/ LastIs(toServer', SwitchObject(surface))
              \/ m = SwitchObject(surface) /\ NoSwitch(toServer')
      /\ ~NoSwitch(toServer)
  BY <1>1, TakenFacts
<1>3. BoxesOnWire' /\ VmAnnounces' /\ (Serving' <=> Serving)
  BY <1>1, <1>2, ServerFrame
<1>4. IdleGetsNothing'
  BY <1>1 DEF IdleGetsNothing
<1>5. m = SwitchObject(surface) => srvSize' = surface
  BY <1>1, SwitchFacts DEF SwitchObject
<1>6. Announced'
  <2>1. NetAnnounces => NetAnnounces'
    BY <1>1, <1>2, <1>5 DEF NetAnnounces
  <2> QED
    BY <1>1, <1>2, <1>3, <2>1 DEF Announced, QueueAnnounces, MainAnnounces
<1>7. AllCarried'
  <2>1. ASSUME NEW c \in mirrorStale' \ shmStale', Serving'
        PROVE  Carried(c)'
    <3>1. surface \in Surfaces /\ c \in SurfaceCells(surface) /\ c \notin shmStale
      BY <1>1, <1>3, <2>1 DEF ShmInv, StaleOnSurface, Serving, IInv, TypeOK
    <3>2. CASE m.size = surface
      BY <1>1, <3>1, <3>2 DEF Carried
    <3>3. CASE m.size # surface
      BY <1>1, <1>3, <1>6, <2>1, <3>1, <3>3, AnnouncementCarries
    <3> QED
      BY <3>2, <3>3
  <2> QED
    BY <2>1 DEF AllCarried
<1> QED
  BY <1>3, <1>4, <1>6, <1>7

LEMMA MirrorReadDone ==
  ASSUME IInv, MirrorInv, ServerReadDone
  PROVE  MirrorInv'
<1> USE DEF MirrorInv
<1>1. /\ UNCHANGED <<surface, shm, dirty, out, vmUpd, mainUpd, queue, heap, toServer,
                     srvSize, shmStale>>
      /\ ServerUnchanged
      /\ mirrorStale' = mirrorStale \ srvGot /\ srvGot' = {}
  BY DEF ServerReadDone, ServerUnchanged, vmVars, outVars, mainVars, memVars
<1>2. InQueue' = InQueue /\ Sent' = Sent
  BY <1>1, SentFrame
<1>3. BoxesOnWire' /\ VmAnnounces' /\ (Serving' <=> Serving)
  BY <1>1, <1>2, ServerFrame
<1>4. IdleGetsNothing'
  BY <1>1 DEF IdleGetsNothing
<1>5. Announced'
  BY <1>1, <1>2, <1>3, AnnouncedFrame DEF Serving, Announced
<1>6. AllCarried'
  <2>1. ASSUME NEW c \in mirrorStale' \ shmStale', Serving'
        PROVE  Carried(c)'
    <3>1. Carried(c) /\ c \notin srvGot
      BY <1>1, <1>3, <2>1 DEF AllCarried
    <3> QED
      BY <1>1, <1>2, <3>1, CarriedFrame
  <2> QED
    BY <2>1 DEF AllCarried
<1> QED
  BY <1>3, <1>4, <1>5, <1>6

LEMMA MirrorShutdown ==
  ASSUME IInv, MirrorInv, ServerShutdown
  PROVE  MirrorInv'
<1> USE DEF MirrorInv
<1>1. /\ UNCHANGED <<surface, shm, dirty, out, vmUpd, mainUpd, queue, heap,
                     srvSize, shmStale, mirrorStale, srvGot>>
      /\ ServerUnchanged /\ toServer # <<>> /\ toServer' = Tail(toServer)
      /\ Head(toServer) = Shutdown /\ srvGot = {}
  BY DEF ServerShutdown, ServerUnchanged, vmVars, outVars, mainVars, memVars, pixVars,
         IdleGetsNothing
<1>2. /\ Sent = Sent' \cup {Shutdown} /\ InQueue' = InQueue
      /\ LastIs(toServer, SwitchObject(surface)) =>
              \/ LastIs(toServer', SwitchObject(surface))
              \/ Shutdown = SwitchObject(surface) /\ NoSwitch(toServer')
      /\ NoSwitch(toServer) => NoSwitch(toServer')
  BY <1>1, TakenFacts
<1>3. BoxesOnWire' /\ VmAnnounces' /\ (Serving' <=> Serving)
  BY <1>1, <1>2, ServerFrame
<1>4. IdleGetsNothing'
  BY <1>1 DEF IdleGetsNothing
<1>5. Shutdown # SwitchObject(surface)
  BY DEF Shutdown, SwitchObject
<1>6. Announced'
  BY <1>1, <1>2, <1>3, <1>5 DEF Announced, QueueAnnounces, MainAnnounces, NetAnnounces
<1>7. ASSUME NEW c, Carried(c)
      PROVE  Carried(c)'
  <2>1. CASE out # NULL /\ c \in Cells(heap[out].rect)
    BY <1>1, <2>1 DEF Carried
  <2>2. CASE \E n \in Sent : c \in MessageCells(n)
    <3>1. PICK n \in Sent : c \in MessageCells(n)
      BY <2>2
    <3>2. n \in Sent' /\ c \in MessageCells(n)'
      BY <1>1, <1>2, <3>1, ShutdownFacts DEF MessageCells
    <3> QED
      BY <3>2 DEF Carried
  <2> QED
    BY <1>1, <1>7, <2>1, <2>2 DEF Carried
<1>8. AllCarried'
  BY <1>1, <1>3, <1>7 DEF AllCarried
<1> QED
  BY <1>3, <1>4, <1>6, <1>8

-----------------------------------------------------------------------------
LEMMA MirrorStep ==
  ASSUME SizesFitWire
  PROVE  IInv /\ ShmInv /\ MirrorInv /\ [Next]_vars => MirrorInv'
<1> SUFFICES ASSUME IInv, ShmInv, MirrorInv, [Next]_vars
             PROVE  MirrorInv'
  OBVIOUS
<1> USE DEF vmVars, mainVars, memVars, srvVars, netVars, pixVars, MainRunning
<1>1. CASE OutStep \/ OutSpurious
  <2>1. CASE OutEnqueue
    BY <2>1, MirrorOutEnqueue
  <2>2. CASE ~OutEnqueue
    <3>1. UNCHANGED <<surface, shm, dirty, out, vmUpd, mainUpd, queue, heap, toServer,
                      switches, srv, srvSize, pixVars, mainPc>>
      BY <1>1, <2>2 DEF OutStep, OutTop, OutLock, OutTest, OutWaitUpdate,
         OutWaitAck, OutWokenAck, OutAcked, OutCleanup, OutSpurious, OutUnchanged
    <3> QED
      BY <3>1, MirrorFrame
  <2> QED
    BY <2>1, <2>2
<1>2. CASE MuxCleanup \/ MuxHandler
  <2>1. UNCHANGED <<surface, shm, dirty, out, vmUpd, mainUpd, queue, heap, toServer,
                    switches, srv, srvSize, pixVars, mainPc>>
    BY <1>2 DEF MuxCleanup, MuxHandler, outVars
  <2> QED
    BY <2>1, MirrorFrame
<1>3. CASE ServerInput
  <2>1. UNCHANGED <<surface, shm, dirty, out, vmUpd, mainUpd, queue, heap, toServer,
                    switches, srv, srvSize, pixVars, mainPc>>
    BY <1>3 DEF ServerInput, ServerUnchanged, outVars
  <2> QED
    BY <2>1, MirrorFrame
<1>4. CASE UNCHANGED vars
  BY <1>4, MirrorFrame DEF vars, outVars
<1>5. CASE VmNext
  BY <1>5, MirrorVm
<1>6. CASE MainStep
  BY <1>6, MirrorMain
<1>7. CASE ServerStep
  BY <1>7, MirrorReadUpdate, MirrorReadSwitch, MirrorReadDone, MirrorShutdown
  DEF ServerStep
<1> QED
  BY <1>1, <1>2, <1>3, <1>4, <1>5, <1>6, <1>7 DEF Next, Alive

LEMMA MirrorInit == Init => MirrorInv
<1> SUFFICES ASSUME Init PROVE MirrorInv
  OBVIOUS
<1>1. Sent = {} /\ NoSwitch(InQueue) /\ NoSwitch(toServer)
  BY DEF Init, Sent, MessageOf, InQueue, Elems, NoSwitch
<1>2. Announced
  BY <1>1 DEF Init, Announced, QueueAnnounces, MainAnnounces, NetAnnounces
<1> QED
  BY <1>1, <1>2 DEF Init, MirrorInv, BoxesOnWire, VmAnnounces,
     IdleGetsNothing, AllCarried

LEMMA CarriedIsOnItsWay ==
  ASSUME IInv, MirrorInv, NEW c, Carried(c)
  PROVE  c \in OnItsWay
<1>1. CASE out # NULL /\ c \in Cells(heap[out].rect)
  <2>1. heap[out] \in Updates /\ OnWire(heap[out].rect)
    BY <1>1 DEF IInv, Control, MirrorInv, BoxesOnWire
  <2>2. c \in PtrCells(out)
    BY <1>1, <2>1, WireCells DEF PtrCells
  <2> QED
    BY <2>2 DEF OnItsWay
<1>2. CASE c \in srvGot
  BY <1>2 DEF OnItsWay
<1>3. ASSUME NEW m \in Sent, c \in MessageCells(m)
      PROVE  c \in OnItsWay
  <2>1. CASE m \in MessageOf(vmUpd) \cup MessageOf(mainUpd)
    <3>1. c \in PtrCells(vmUpd) \cup PtrCells(mainUpd)
      BY <1>3, <2>1 DEF MessageOf, PtrCells
    <3> QED
      BY <3>1 DEF OnItsWay
  <2>2. CASE m \in Elems(InQueue)
    <3>1. PICK i \in 1 .. Len(InQueue) : m = InQueue[i]
      BY <2>2 DEF Elems
    <3>2. i \in 1 .. Len(queue) /\ queue[i] # NULL /\ m = Wire(heap[queue[i]])
      BY <3>1, OwnerFacts DEF InQueue, QueuedPtrs
    <3>3. c \in PtrCells(queue[i])
      BY <1>3, <3>2 DEF PtrCells
    <3>4. c \in UNION {PtrCells(queue[j]) : j \in 1 .. Len(queue)}
      <4>1. PtrCells(queue[i]) \in {PtrCells(queue[j]) : j \in 1 .. Len(queue)}
        BY <3>2
      <4> QED
        BY <3>3, <4>1
    <3> QED
      BY <3>4 DEF OnItsWay
  <2>3. CASE m \in Elems(toServer)
    <3>1. PICK i \in 1 .. Len(toServer) : m = toServer[i]
      BY <2>3 DEF Elems
    <3>2. c \in UNION {MessageCells(toServer[j]) : j \in 1 .. Len(toServer)}
      BY <1>3, <3>1
    <3> QED
      BY <3>2 DEF OnItsWay
  <2> QED
    BY <2>1, <2>2, <2>3 DEF Sent
<1> QED
  BY <1>1, <1>2, <1>3 DEF Carried

\* MirrorInv holds in every reachable state: a switch that clears the queue
\* (rdpmux.c:199) loses nothing that its announcement does not carry.
THEOREM MirrorInvariant ==
  ASSUME SizesFitWire
  PROVE  Spec => []MirrorInv
<1>1. Init => MirrorInv
  BY MirrorInit
<1>2. IInv /\ ShmInv /\ MirrorInv /\ [Next]_vars => MirrorInv'
  BY MirrorStep
<1> QED
  BY <1>1, <1>2, Invariant, ShmInvariant, PTL DEF Spec

(***************************************************************************)
(* Every pixel that is in the shared region and not at the server is       *)
(* covered by an update or an announcement on its way to the server, for   *)
(* any number of switches, although each clears the queue (rdpmux.c:197)   *)
(* while the out loop and the main loop use it.                            *)
(***************************************************************************)
THEOREM MirrorIsCovered ==
  ASSUME SizesFitWire
  PROVE  Spec => []MirrorCovered
<1>1. IInv /\ MirrorInv => MirrorCovered
  BY CarriedIsOnItsWay DEF MirrorInv, AllCarried, Serving, MirrorCovered
<1> QED
  BY <1>1, Invariant, MirrorInvariant, PTL

-----------------------------------------------------------------------------
(***************************************************************************)
(* Part 3.  Flow control, over the steps of RdpMuxFlow.                    *)
(***************************************************************************)

(***************************************************************************)
(* A display update passes five places between mux_out_loop and the        *)
(* acknowledgement: the queue, mux_mainloop, the socket, the server, and   *)
(* the socket back.  Transit is the number of updates in them.             *)
(***************************************************************************)
Positions(q, E) == {i \in 1 .. Len(q) : q[i] \in E}
CountIn(q, E)   == Cardinality(Positions(q, E))

UpdateMessages == {m \in LibMessages : m.type = "DISPLAY_UPDATE"}
Acks           == {m \in ServerMessages : IsAck(m)}

Dequeued == mainUpd # NULL /\ Wire(heap[mainUpd]) \in UpdateMessages
Reading  == srv = "reading" /\ srvJob.type = "DISPLAY_UPDATE"

Transit == CountIn(InQueue, UpdateMessages) + (IF Dequeued THEN 1 ELSE 0)
           + CountIn(toServer, UpdateMessages) + (IF Reading THEN 1 ELSE 0)
           + CountIn(toLib, Acks)

(***************************************************************************)
(* The update that mux_out_loop may still queue before it waits again.     *)
(***************************************************************************)
Credit == IF outPc \in {"beforeAck", "waitAck"} THEN 0 ELSE 1

Balance == Transit + Credit

\* What mux_display_switch queues is an announcement.
SwitchAllocated == vmUpd # NULL => heap[vmUpd] \in Switches

(***************************************************************************)
(* Each step keeps the balance or lets it sink, except for a wait that     *)
(* ends without an acknowledgement.                                        *)
(***************************************************************************)
FlowInv == early \in Nat /\ SwitchAllocated /\ Balance <= 1 + early

-----------------------------------------------------------------------------
(***************************************************************************)
(* Counting in sequences.                                                  *)
(***************************************************************************)
LEMMA CountType ==
  ASSUME NEW S, NEW q \in Seq(S), NEW E
  PROVE  IsFiniteSet(Positions(q, E)) /\ CountIn(q, E) \in Nat
<1>1. IsFiniteSet(1 .. Len(q))
  BY FS_Interval
<1>2. Positions(q, E) \subseteq 1 .. Len(q)
  BY DEF Positions
<1> QED
  BY <1>1, <1>2, FS_Subset, FS_CardinalityType DEF CountIn

LEMMA CountEmpty == ASSUME NEW E PROVE CountIn(<<>>, E) = 0
BY FS_EmptySet DEF CountIn, Positions

LEMMA CountAppend ==
  ASSUME NEW S, NEW q \in Seq(S), NEW m \in S, NEW E
  PROVE  CountIn(Append(q, m), E) = CountIn(q, E) + (IF m \in E THEN 1 ELSE 0)
<1>1. /\ Len(Append(q, m)) = Len(q) + 1 /\ Len(q) \in Nat
      /\ \A i \in 1 .. Len(q) : Append(q, m)[i] = q[i]
      /\ Append(q, m)[Len(q) + 1] = m
  OBVIOUS
<1>2. 1 .. Len(q) + 1 = (1 .. Len(q)) \cup {Len(q) + 1}
  BY <1>1
<1>3. IsFiniteSet(Positions(q, E)) /\ CountIn(q, E) \in Nat
  BY CountType
<1>4. CASE m \in E
  <2>1. Positions(Append(q, m), E) = Positions(q, E) \cup {Len(q) + 1}
    BY <1>1, <1>2, <1>4 DEF Positions
  <2>2. Len(q) + 1 \notin Positions(q, E)
    BY <1>1 DEF Positions
  <2> QED
    BY <1>3, <1>4, <2>1, <2>2, FS_AddElement DEF CountIn
<1>5. CASE m \notin E
  <2>1. Positions(Append(q, m), E) = Positions(q, E)
    BY <1>1, <1>2, <1>5 DEF Positions
  <2> QED
    BY <1>3, <1>5, <2>1 DEF CountIn
<1> QED
  BY <1>4, <1>5

LEMMA CountTail ==
  ASSUME NEW S, NEW q \in Seq(S), q # <<>>, NEW E
  PROVE  CountIn(q, E) = CountIn(Tail(q), E) + (IF Head(q) \in E THEN 1 ELSE 0)
<1>1. /\ Len(q) \in Nat \ {0} /\ Len(Tail(q)) = Len(q) - 1 /\ Head(q) = q[1]
      /\ \A i \in 1 .. Len(q) - 1 : Tail(q)[i] = q[i + 1]
      /\ Tail(q) \in Seq(S)
  OBVIOUS
<1> DEFINE Rest == Positions(q, E) \ {1}
<1>2. /\ IsFiniteSet(Positions(q, E)) /\ CountIn(q, E) \in Nat
      /\ IsFiniteSet(Positions(Tail(q), E)) /\ CountIn(Tail(q), E) \in Nat
  BY <1>1, CountType
<1>3. ExistsBijection(Positions(Tail(q), E), Rest)
  <2> DEFINE next == [i \in Positions(Tail(q), E) |-> i + 1]
  <2>1. \A i \in Positions(Tail(q), E) : i \in Nat /\ next[i] \in Rest
    BY <1>1 DEF Positions
  <2>2. next \in [Positions(Tail(q), E) -> Rest]
    BY <2>1
  <2>3. \A i, j \in Positions(Tail(q), E) : next[i] = next[j] => i = j
    BY <2>1
  <2>4. \A j \in Rest : \E i \in Positions(Tail(q), E) : next[i] = j
    <3>1. ASSUME NEW j \in Rest
          PROVE  j - 1 \in Positions(Tail(q), E) /\ next[j - 1] = j
      BY <1>1 DEF Positions
    <3> QED
      BY <3>1
  <2>5. next \in Bijection(Positions(Tail(q), E), Rest)
    BY <2>2, <2>3, <2>4, Fun_IsBij
  <2> QED
    BY <2>5, Fun_ExistsBij
<1>4. Cardinality(Rest) = CountIn(Tail(q), E)
  BY <1>2, <1>3, FS_Bijection DEF CountIn
<1>5. 1 \in Positions(q, E) <=> Head(q) \in E
  BY <1>1 DEF Positions
<1>6. Cardinality(Rest) = IF 1 \in Positions(q, E) THEN CountIn(q, E) - 1 ELSE CountIn(q, E)
  BY <1>2, FS_RemoveElement DEF CountIn
<1> HIDE DEF Rest
<1> QED
  BY <1>2, <1>4, <1>5, <1>6

(***************************************************************************)
(* Transit is what InFlight counts.                                        *)
(***************************************************************************)
LEMMA TransitType ==
  ASSUME IInv
  PROVE  /\ CountIn(InQueue, UpdateMessages) \in Nat
         /\ CountIn(toServer, UpdateMessages) \in Nat
         /\ CountIn(toLib, Acks) \in Nat
         /\ Transit \in Nat
<1>1. /\ InQueue \in Seq(LibMessages) /\ toServer \in Seq(LibMessages)
      /\ toLib \in Seq(ServerMessages)
  BY OwnerFacts DEF IInv, TypeOK
<1>2. /\ CountIn(InQueue, UpdateMessages) \in Nat
      /\ CountIn(toServer, UpdateMessages) \in Nat
      /\ CountIn(toLib, Acks) \in Nat
  BY <1>1, CountType
<1> QED
  BY <1>2 DEF Transit

LEMMA TransitIsInFlight == IInv => InFlight = Transit
<1> SUFFICES ASSUME IInv PROVE InFlight = Transit
  OBVIOUS
<1>1. /\ toServer \in Seq(LibMessages) /\ toLib \in Seq(ServerMessages)
      /\ queue \in Seq(Ptr) /\ InQueue \in Seq(LibMessages) /\ Len(InQueue) = Len(queue)
  BY OwnerFacts DEF IInv, TypeOK
<1>2. \A p \in {mainUpd} \cup QueuedPtrs : p # NULL =>
        (Wire(heap[p]) \in UpdateMessages <=> IsUpdatePtr(p))
  BY OwnerFacts, ObjectFacts DEF Wire, UpdateMessages, IsUpdatePtr
<1>3. Positions(InQueue, UpdateMessages) = {i \in 1 .. Len(queue) : IsUpdatePtr(queue[i])}
  BY <1>1, <1>2, OwnerFacts DEF InQueue, QueuedPtrs, Positions
<1>4. Positions(toServer, UpdateMessages)
        = {i \in 1 .. Len(toServer) : toServer[i].type = "DISPLAY_UPDATE"}
  <2>1. \A i \in 1 .. Len(toServer) : toServer[i] \in LibMessages
    BY <1>1
  <2> QED
    BY <2>1 DEF Positions, UpdateMessages
<1>5. Positions(toLib, Acks) = {i \in 1 .. Len(toLib) : IsAck(toLib[i])}
  <2>1. \A i \in 1 .. Len(toLib) : toLib[i] \in ServerMessages
    BY <1>1
  <2> QED
    BY <2>1 DEF Positions, Acks
<1>6. IsUpdatePtr(mainUpd) <=> Dequeued
  BY <1>2 DEF Dequeued, IsUpdatePtr
<1> QED
  BY <1>3, <1>4, <1>5, <1>6 DEF InFlight, Transit, CountIn, Reading

-----------------------------------------------------------------------------
(***************************************************************************)
(* Steps that move no update.                                              *)
(***************************************************************************)
transit == <<mainUpd, queue, toServer, toLib, srv, srvJob>>

LEMMA TransitFrame ==
  ASSUME IInv, UNCHANGED transit,
         \A p \in {mainUpd} \cup QueuedPtrs : p # NULL => heap'[p] = heap[p]
  PROVE  Transit' = Transit
<1>1. InQueue' = InQueue
  BY OwnerFacts, QueueMessagesFrame DEF transit
<1>2. (Dequeued' <=> Dequeued) /\ (Reading' <=> Reading)
  BY DEF transit, Dequeued, Reading
<1> QED
  BY <1>1, <1>2 DEF transit, Transit

\* The credit changes only when mux_out_loop queues an update or its wait ends.
LEMMA CreditFrame ==
  ASSUME IInv, \/ outPc' = outPc
               \/ outPc = "waitUpdate" /\ outPc' = "wokenUpdate"
  PROVE  Credit' = Credit
BY DEF Credit

LEMMA CreditWake ==
  ASSUME IInv, SignalShmCond
  PROVE  /\ outPc = "waitAck" => Credit = 0 /\ Credit' = 1
         /\ outPc # "waitAck" => Credit' = Credit
BY DEF Credit, SignalShmCond

(***************************************************************************)
(* How the balance sinks: fewer updates in transit, or one acknowledgement *)
(* for at most one credit.                                                 *)
(***************************************************************************)
LEMMA SumSinks ==
  ASSUME NEW a \in Nat, NEW b \in Nat, NEW c \in Nat, b <= a \/ b = a
  PROVE  b + c \in 0 .. a + c
OBVIOUS

LEMMA SumExchanges ==
  ASSUME NEW a \in Nat, NEW c \in {0, 1}, NEW d \in {0, 1}
  PROVE  a + d \in 0 .. (a + 1) + c
OBVIOUS

\* Clearing the queue takes updates out of it.
LEMMA ClearSinks ==
  ASSUME IInv, QueueClear, UNCHANGED <<mainUpd, toServer, toLib, srv, srvJob>>
  PROVE  Transit' <= Transit /\ Transit' \in Nat
<1>1. InQueue' = <<>>
  BY DEF QueueClear, InQueue
<1>2. CountIn(InQueue', UpdateMessages) = 0
  BY <1>1, CountEmpty
<1>3. mainUpd # NULL => heap'[mainUpd] = heap[mainUpd]
  BY OwnerFacts DEF QueueClear, IInv, TypeOK, SingleOwner, DistinctOwners
<1>4. (Dequeued' <=> Dequeued) /\ (Reading' <=> Reading)
  BY <1>3 DEF Dequeued, Reading
<1>5. /\ Transit' = 0 + (IF Dequeued THEN 1 ELSE 0)
                      + CountIn(toServer, UpdateMessages) + (IF Reading THEN 1 ELSE 0)
                      + CountIn(toLib, Acks)
      /\ Transit = CountIn(InQueue, UpdateMessages) + (IF Dequeued THEN 1 ELSE 0)
                      + CountIn(toServer, UpdateMessages) + (IF Reading THEN 1 ELSE 0)
                      + CountIn(toLib, Acks)
  BY <1>2, <1>4 DEF Transit
<1> QED
  BY <1>5, TransitType

-----------------------------------------------------------------------------
(***************************************************************************)
(* The display thread.                                                     *)
(***************************************************************************)
LEMMA FlowRefresh ==
  ASSUME IInv, SwitchAllocated,
         \/ \E r \in Regions : MuxDisplayUpdate(r)
         \/ RefreshDeferred \/ RefreshBegin \/ RefreshEnd
  PROVE  Balance' = Balance /\ SwitchAllocated'
<1> USE DEF outVars, mainVars, lockVars, memVars, srvVars, netVars, flagVars
<1>1. UNCHANGED <<transit, vmUpd>>
  BY DEF transit, MuxDisplayUpdate, RefreshDeferred, RefreshBegin, RefreshEnd
<1>2. outPc' = outPc \/ (outPc = "waitUpdate" /\ outPc' = "wokenUpdate")
  BY DEF MuxDisplayUpdate, RefreshDeferred, RefreshBegin, RefreshEnd, SignalUpdateCond
<1>3. \A p \in {vmUpd, mainUpd} \cup QueuedPtrs : p # NULL => heap'[p] = heap[p]
  <2> SUFFICES ASSUME NEW p \in {vmUpd, mainUpd} \cup QueuedPtrs, p # NULL
               PROVE  heap'[p] = heap[p]
    OBVIOUS
  <2>1. /\ p \in Ptr /\ p # dirty /\ p # out /\ heap[p] # FREE
        /\ heap \in [Ptr -> Updates \cup Switches \cup {FREE}]
    BY OwnerFacts, ObjectFacts DEF IInv, TypeOK
  <2>2. \A f \in Fresh : f # p
    BY <2>1, FreshFacts
  <2>3. CASE \E r \in Regions : MuxDisplayUpdate(r)
    BY <2>1, <2>2, <2>3 DEF MuxDisplayUpdate
  <2>4. CASE RefreshDeferred \/ RefreshBegin
    BY <2>1, <2>4 DEF RefreshDeferred, KeepDirty, RefreshBegin
  <2>5. CASE RefreshEnd
    <3>1. CASE out = NULL
      <4>1. PICK f \in Fresh : heap' = [heap EXCEPT ![f] = heap[dirty], ![dirty] = FREE]
        BY <2>5, <3>1 DEF RefreshEnd
      <4> QED
        BY <2>1, <2>2, <4>1
    <3>2. CASE out # NULL
      BY <2>1, <2>5, <3>2 DEF RefreshEnd, GrowOut
    <3> QED
      BY <3>1, <3>2
  <2> QED
    BY <2>3, <2>4, <2>5
<1>4. Transit' = Transit /\ SwitchAllocated'
  BY <1>1, <1>3, TransitFrame DEF SwitchAllocated
<1> QED
  BY <1>2, <1>4, CreditFrame DEF Balance

LEMMA FlowSwitchBegin ==
  ASSUME IInv, NEW s \in Surfaces, SwitchBegin(s)
  PROVE  Balance' = Balance /\ SwitchAllocated'
<1> USE DEF outVars, mainVars, lockVars, memVars, srvVars, netVars, flagVars
<1>1. UNCHANGED <<transit, outPc>> /\ vmPc = "idle"
  BY DEF SwitchBegin, transit
<1>2. /\ \A p \in {mainUpd} \cup QueuedPtrs : p # NULL => heap'[p] = heap[p]
      /\ SwitchAllocated'
  <2>1. \A p \in {mainUpd} \cup QueuedPtrs : p # NULL => p \in Ptr /\ heap[p] # FREE
    BY OwnerFacts, ObjectFacts
  <2>2. vmUpd = NULL /\ heap \in [Ptr -> Updates \cup Switches \cup {FREE}]
    BY <1>1 DEF IInv, TypeOK, Control, SwitchPcs
  <2>3. CASE UNCHANGED <<heap, vmUpd>>
    BY <2>2, <2>3 DEF SwitchAllocated
  <2>4. CASE \E p \in Fresh : heap' = [heap EXCEPT ![p] = SwitchObject(s)] /\ vmUpd' = p
    <3>1. PICK f \in Fresh : heap' = [heap EXCEPT ![f] = SwitchObject(s)] /\ vmUpd' = f
      BY <2>4
    <3>2. f \in Ptr /\ heap[f] = FREE
      BY FreshFacts
    <3>3. heap'[f] \in Switches
      BY <2>2, <3>1, <3>2, ObjectFacts
    <3> QED
      BY <2>1, <2>2, <3>1, <3>2, <3>3 DEF SwitchAllocated
  <2> QED
    BY <2>3, <2>4 DEF SwitchBegin
<1> QED
  BY <1>1, <1>2, TransitFrame, CreditFrame DEF Balance, transit

\* The rest of mux_display_switch takes updates out of the queue, and what it
\* adds to it is no update.
LEMMA FlowSwitchRest ==
  ASSUME IInv, SwitchAllocated, SwitchClear \/ SwitchLock \/ SwitchEnqueue
  PROVE  Balance' \in 0 .. Balance /\ SwitchAllocated'
<1> USE DEF outVars, mainVars, lockVars, memVars, srvVars, netVars, flagVars
<1>1. outPc' = outPc /\ vmUpd # NULL
  BY DEF SwitchClear, SwitchLock, SwitchEnqueue, IInv, Control, SwitchPcs
<1>2. Credit' = Credit /\ Credit \in Nat
  BY <1>1 DEF Credit
<1>3. CASE SwitchClear
  <2>1. UNCHANGED <<vmUpd, mainUpd, toServer, toLib, srv, srvJob>> /\ QueueClear
    BY <1>3 DEF SwitchClear
  <2>2. Transit' <= Transit /\ Transit' \in Nat
    BY <2>1, ClearSinks
  <2>3. heap'[vmUpd] = heap[vmUpd]
    BY <1>1, <2>1, OwnerFacts DEF QueueClear, IInv, TypeOK, SingleOwner, DistinctOwners
  <2>4. Balance' \in 0 .. Balance
    BY <1>2, <2>2, TransitType, SumSinks, Zenon DEF Balance
  <2> QED
    BY <2>1, <2>3, <2>4 DEF SwitchAllocated
<1>4. CASE SwitchLock
  <2>1. UNCHANGED <<transit, vmUpd, heap>>
    BY <1>4 DEF SwitchLock, transit
  <2>2. Transit' = Transit
    BY <2>1, TransitFrame
  <2>3. Balance' \in 0 .. Balance
    BY <1>2, <2>2, TransitType, SumSinks, Zenon DEF Balance
  <2> QED
    BY <2>1, <2>3 DEF SwitchAllocated
<1>5. CASE SwitchEnqueue
  <2>1. /\ vmUpd \in Ptr /\ Wire(heap[vmUpd]) \in LibMessages
        /\ Wire(heap[vmUpd]) \notin UpdateMessages
    <3>1. vmUpd \in Ptr /\ Wire(heap[vmUpd]) \in LibMessages /\ heap[vmUpd] \in Switches
      BY <1>1, OwnerFacts DEF SwitchAllocated
    <3> QED
      BY <3>1, ObjectFacts DEF Wire, UpdateMessages
  <2>2. /\ queue' = Append(queue, vmUpd) /\ vmUpd' = NULL
        /\ UNCHANGED <<heap, mainUpd, toServer, toLib, srv, srvJob>>
    BY <1>5 DEF SwitchEnqueue, Enqueue
  <2>3. InQueue' = Append(InQueue, Wire(heap[vmUpd])) /\ InQueue \in Seq(LibMessages)
    BY <2>1, <2>2, QueueMessagesAppend, OwnerFacts
  <2>4. CountIn(InQueue', UpdateMessages) = CountIn(InQueue, UpdateMessages)
    BY <2>1, <2>3, CountAppend, TransitType
  <2>5. (Dequeued' <=> Dequeued) /\ (Reading' <=> Reading)
    BY <2>2 DEF Dequeued, Reading
  <2>6. Transit' = Transit
    BY <2>2, <2>4, <2>5 DEF Transit
  <2>7. Balance' \in 0 .. Balance
    BY <1>2, <2>6, TransitType, SumSinks, Zenon DEF Balance
  <2> QED
    BY <2>2, <2>7 DEF SwitchAllocated
<1> QED
  BY <1>3, <1>4, <1>5

\* Its signal on shm_cond (rdpmux.c:206) ends a wait for an acknowledgement.
LEMMA FlowSwitchCopied ==
  ASSUME IInv, SwitchAllocated, SwitchCopied
  PROVE  /\ SwitchAllocated'
         /\ Balance' = IF outPc = "waitAck" THEN Balance + 1 ELSE Balance
<1> USE DEF mainVars, memVars, srvVars, netVars, flagVars
<1>1. UNCHANGED <<transit, vmUpd, heap>> /\ SignalShmCond
  BY DEF SwitchCopied, transit
<1>2. Transit' = Transit
  BY <1>1, TransitFrame
<1> QED
  BY <1>1, <1>2, CreditWake, TransitType DEF Balance, SwitchAllocated

-----------------------------------------------------------------------------
(***************************************************************************)
(* The out loop.  Queueing an update spends the credit.                    *)
(***************************************************************************)
LEMMA FlowOutEnqueue ==
  ASSUME IInv, SwitchAllocated, OutEnqueue
  PROVE  Balance' = Balance /\ SwitchAllocated'
<1> USE DEF vmVars, mainVars, lockVars, memVars, srvVars, netVars, flagVars
<1>1. /\ outPc = "enqueue" /\ outPc' = "beforeAck"
      /\ queue' = Append(queue, out)
      /\ UNCHANGED <<heap, vmUpd, mainUpd, toServer, toLib, srv, srvJob>>
  BY DEF OutEnqueue, Enqueue, OutUnchanged
<1>2. out \in Ptr /\ heap[out] \in Updates
  BY <1>1 DEF IInv, TypeOK, PtrOrNull, Control
<1>3. /\ InQueue' = Append(InQueue, Wire(heap[out])) /\ InQueue \in Seq(LibMessages)
      /\ Wire(heap[out]) \in UpdateMessages /\ Wire(heap[out]) \in LibMessages
  <2>1. Wire(heap[out]) \in LibMessages /\ Wire(heap[out]).type = "DISPLAY_UPDATE"
    BY <1>2, WireType DEF Wire, Updates
  <2> QED
    BY <1>1, <1>2, <2>1, QueueMessagesAppend, OwnerFacts DEF UpdateMessages
<1>4. CountIn(InQueue', UpdateMessages) = CountIn(InQueue, UpdateMessages) + 1
  BY <1>3, CountAppend
<1>5. (Dequeued' <=> Dequeued) /\ (Reading' <=> Reading)
  BY <1>1 DEF Dequeued, Reading
<1>6. Transit' = Transit + 1
  <2>1. Transit' = (CountIn(InQueue, UpdateMessages) + 1) + (IF Dequeued THEN 1 ELSE 0)
                      + CountIn(toServer, UpdateMessages) + (IF Reading THEN 1 ELSE 0)
                      + CountIn(toLib, Acks)
    BY <1>1, <1>4, <1>5 DEF Transit
  <2> QED
    BY <2>1, TransitType DEF Transit
<1>7. Credit = 1 /\ Credit' = 0
  BY <1>1 DEF Credit
<1> QED
  BY <1>1, <1>6, <1>7, TransitType DEF Balance, SwitchAllocated

LEMMA FlowOutStep ==
  ASSUME IInv, SwitchAllocated, OutStep
  PROVE  Balance' = Balance /\ SwitchAllocated'
<1> USE DEF vmVars, mainVars, lockVars, memVars, srvVars, netVars, flagVars
<1>1. CASE OutEnqueue
  BY <1>1, FlowOutEnqueue
<1>2. CASE ~OutEnqueue
  <2>1. UNCHANGED <<transit, heap, vmUpd>>
    BY <1>2 DEF OutStep, OutTop, OutLock, OutTest, OutWaitUpdate, OutWaitAck,
       OutWokenAck, OutAcked, OutCleanup, OutUnchanged, transit
  <2>2. Credit' = Credit
    BY <1>2 DEF OutStep, OutTop, OutLock, OutTest, OutWaitUpdate, OutWaitAck,
       OutWokenAck, OutAcked, OutCleanup, StopSeen, Credit
  <2>3. Transit' = Transit
    BY <2>1, TransitFrame DEF transit
  <2> QED
    BY <2>1, <2>2, <2>3 DEF Balance, SwitchAllocated
<1> QED
  BY <1>1, <1>2

LEMMA FlowOutSpurious ==
  ASSUME IInv, SwitchAllocated, OutSpurious
  PROVE  /\ SwitchAllocated'
         /\ Balance' = IF outPc = "waitAck" THEN Balance + 1 ELSE Balance
<1> USE DEF vmVars, mainVars, memVars, srvVars, netVars
<1>1. UNCHANGED <<transit, heap, vmUpd>>
  BY DEF OutSpurious, OutUnchanged, transit
<1>2. Transit' = Transit
  BY <1>1, TransitFrame DEF transit
<1>3. Credit' = IF outPc = "waitAck" THEN Credit + 1 ELSE Credit
  BY DEF OutSpurious, Credit
<1> QED
  BY <1>1, <1>2, <1>3, TransitType DEF Balance, Credit, SwitchAllocated

-----------------------------------------------------------------------------
(***************************************************************************)
(* The main loop takes an update from the queue to the socket, and an      *)
(* acknowledgement from the socket; that one gives the credit back if      *)
(* mux_out_loop is waiting.                                                *)
(***************************************************************************)
LEMMA FlowMainDequeue ==
  ASSUME IInv, SwitchAllocated, MainDequeue
  PROVE  Balance' = Balance /\ SwitchAllocated'
<1> USE DEF vmVars, lockVars, memVars, srvVars, netVars, flagVars
<1>1. /\ mainPc = "dequeue"
      /\ queue # <<>> /\ queue' = Tail(queue) /\ mainUpd' = Head(queue)
      /\ UNCHANGED <<heap, vmUpd, toServer, toLib, srv, srvJob, outPc>>
  BY DEF MainDequeue, MainUnchanged
<1>2. /\ InQueue # <<>> /\ InQueue' = Tail(InQueue)
      /\ Head(InQueue) = Wire(heap[mainUpd']) /\ InQueue \in Seq(LibMessages)
  BY <1>1, OwnerFacts, QueueMessagesTail
<1>3. mainUpd = NULL /\ mainUpd' # NULL
  <2>1. mainUpd' \in QueuedPtrs
    BY <1>1 DEF IInv, TypeOK, QueuedPtrs
  <2> QED
    BY <1>1, <2>1, OwnerFacts DEF IInv, Control
<1>4. CountIn(InQueue, UpdateMessages)
        = CountIn(InQueue', UpdateMessages) + (IF Dequeued' THEN 1 ELSE 0)
  BY <1>1, <1>2, <1>3, CountTail DEF Dequeued
<1>5. CountIn(InQueue', UpdateMessages) \in Nat
  <2>1. InQueue' \in Seq(LibMessages)
    BY <1>2
  <2> QED
    BY <2>1, CountType
<1>6. ~Dequeued /\ (Reading' <=> Reading)
  BY <1>1, <1>3 DEF Dequeued, Reading
<1>7. Transit' = Transit
  BY <1>1, <1>4, <1>5, <1>6, TransitType DEF Transit
<1> QED
  BY <1>1, <1>7 DEF Balance, Credit, SwitchAllocated

LEMMA FlowMainSend ==
  ASSUME IInv, SwitchAllocated, MainSend
  PROVE  Balance' = Balance /\ SwitchAllocated'
<1> USE DEF vmVars, lockVars, memVars, srvVars, netVars, flagVars
<1>1. /\ mainPc = "send"
      /\ toServer' = Append(toServer, Wire(heap[mainUpd])) /\ mainUpd' = NULL
      /\ heap' = [heap EXCEPT ![mainUpd] = FREE]
      /\ UNCHANGED <<queue, vmUpd, toLib, srv, srvJob, outPc>>
  BY DEF MainSend, Send, MainUnchanged
<1>2. mainUpd # NULL /\ Wire(heap[mainUpd]) \in LibMessages /\ toServer \in Seq(LibMessages)
  BY <1>1, OwnerFacts DEF IInv, Control
<1>3. \A p \in {vmUpd} \cup QueuedPtrs : p # NULL => heap'[p] = heap[p]
  BY <1>1, <1>2, OwnerFacts DEF IInv, TypeOK, SingleOwner, DistinctOwners
<1>4. InQueue' = InQueue
  BY <1>1, <1>3, OwnerFacts, QueueMessagesFrame
<1>5. CountIn(toServer', UpdateMessages)
        = CountIn(toServer, UpdateMessages) + (IF Dequeued THEN 1 ELSE 0)
  BY <1>1, <1>2, CountAppend DEF Dequeued
<1>6. ~Dequeued' /\ (Reading' <=> Reading)
  BY <1>1 DEF Dequeued, Reading
<1>7. Transit' = Transit
  BY <1>1, <1>4, <1>5, <1>6, TransitType DEF Transit
<1> QED
  BY <1>1, <1>3, <1>7 DEF Balance, Credit, SwitchAllocated

LEMMA FlowMainReceive ==
  ASSUME IInv, SwitchAllocated, MainReceive
  PROVE  Balance' \in 0 .. Balance /\ SwitchAllocated'
<1> USE DEF vmVars, lockVars, memVars, srvVars, netVars, flagVars
<1>1. /\ toLib # <<>> /\ toLib' = Tail(toLib) /\ toLib \in Seq(ServerMessages)
      /\ UNCHANGED <<heap, queue, vmUpd, mainUpd, toServer, srv, srvJob>>
  BY DEF MainReceive, MainUnchanged, IInv, TypeOK
<1>2. Head(toLib) \in ServerMessages /\ toLib' \in Seq(ServerMessages)
  BY <1>1, TailFacts
<1>3. /\ CountIn(toLib, Acks)
           = CountIn(toLib', Acks) + (IF Head(toLib) \in Acks THEN 1 ELSE 0)
      /\ CountIn(toLib', Acks) \in Nat
  BY <1>1, <1>2, CountTail, CountType
<1>4. InQueue' = InQueue
  BY <1>1, OwnerFacts, QueueMessagesFrame
<1>5. (Dequeued' <=> Dequeued) /\ (Reading' <=> Reading)
  BY <1>1 DEF Dequeued, Reading
<1>6. /\ Transit = IF Head(toLib) \in Acks THEN Transit' + 1 ELSE Transit'
      /\ Transit \in Nat /\ Transit' \in Nat
  <2>1. /\ Transit' = CountIn(InQueue, UpdateMessages) + (IF Dequeued THEN 1 ELSE 0)
                      + CountIn(toServer, UpdateMessages) + (IF Reading THEN 1 ELSE 0)
                      + CountIn(toLib', Acks)
    BY <1>1, <1>4, <1>5 DEF Transit
  <2> QED
    BY <1>3, <2>1, TransitType DEF Transit
<1>7. CASE Head(toLib) \in Acks
  <2>1. Credit \in {0, 1} /\ Credit' \in {0, 1}
    BY DEF Credit
  <2>2. Transit = Transit' + 1
    BY <1>6, <1>7
  <2>3. Balance' \in 0 .. Balance
    BY <1>6, <2>1, <2>2, SumExchanges, Zenon DEF Balance
  <2> QED
    BY <1>1, <2>3 DEF SwitchAllocated
<1>8. CASE Head(toLib) \notin Acks
  <2>1. outPc' = outPc
    BY <1>2, <1>8 DEF MainReceive, Acks
  <2>2. Credit' = Credit /\ Credit \in Nat
    BY <2>1 DEF Credit
  <2>3. Transit' = Transit
    BY <1>6, <1>8
  <2>4. Balance' \in 0 .. Balance
    BY <1>6, <2>2, <2>3, SumSinks, Zenon DEF Balance
  <2> QED
    BY <1>1, <2>4 DEF SwitchAllocated
<1> QED
  BY <1>7, <1>8

LEMMA FlowMainShutdown ==
  ASSUME IInv, SwitchAllocated, MainSendShutdown
  PROVE  Balance' = Balance /\ SwitchAllocated'
<1> USE DEF vmVars, lockVars, memVars, srvVars, netVars, flagVars
<1>1. /\ toServer' = Append(toServer, Shutdown) /\ toServer \in Seq(LibMessages)
      /\ UNCHANGED <<heap, queue, vmUpd, mainUpd, toLib, srv, srvJob, outPc>>
  BY DEF MainSendShutdown, Send, MainUnchanged, IInv, TypeOK
<1>2. Shutdown \in LibMessages /\ Shutdown \notin UpdateMessages
  BY DEF LibMessages, Shutdown, UpdateMessages
<1>3. CountIn(toServer', UpdateMessages) = CountIn(toServer, UpdateMessages)
  BY <1>1, <1>2, CountAppend, TransitType
<1>4. InQueue' = InQueue
  BY <1>1, OwnerFacts, QueueMessagesFrame
<1>5. (Dequeued' <=> Dequeued) /\ (Reading' <=> Reading)
  BY <1>1 DEF Dequeued, Reading
<1>6. Transit' = Transit
  BY <1>1, <1>3, <1>4, <1>5 DEF Transit
<1> QED
  BY <1>1, <1>6 DEF Balance, Credit, SwitchAllocated

LEMMA FlowMainExitClear ==
  ASSUME IInv, SwitchAllocated, MainExitClear
  PROVE  Balance' \in 0 .. Balance /\ SwitchAllocated'
<1> USE DEF vmVars, lockVars, memVars, srvVars, netVars, flagVars
<1>1. /\ UNCHANGED <<vmUpd, mainUpd, toServer, toLib, srv, srvJob, outPc>>
      /\ QueueClear
  BY DEF MainExitClear, MainUnchanged
<1>2. Transit' <= Transit /\ Transit' \in Nat /\ Transit \in Nat
  BY <1>1, ClearSinks, TransitType
<1>3. vmUpd # NULL => heap'[vmUpd] = heap[vmUpd]
  BY <1>1, OwnerFacts DEF QueueClear, IInv, TypeOK, SingleOwner, DistinctOwners
<1>4. Credit' = Credit /\ Credit \in Nat
  BY <1>1 DEF Credit
<1>5. Balance' \in 0 .. Balance
  BY <1>2, <1>4, SumSinks, Zenon DEF Balance
<1> QED
  BY <1>1, <1>3, <1>5 DEF SwitchAllocated

\* The last signal of mux_mainloop (rdpmux.c:461) ends a wait, too.
LEMMA FlowMainWakeShm ==
  ASSUME IInv, SwitchAllocated, MainWakeShm
  PROVE  /\ SwitchAllocated'
         /\ Balance' = IF outPc = "waitAck" THEN Balance + 1 ELSE Balance
<1> USE DEF vmVars, memVars, srvVars, netVars, flagVars
<1>1. UNCHANGED <<transit, vmUpd, heap>> /\ SignalShmCond
  BY DEF MainWakeShm, MainUnchanged, transit
<1>2. Transit' = Transit
  BY <1>1, TransitFrame
<1> QED
  BY <1>1, <1>2, CreditWake, TransitType DEF Balance, SwitchAllocated

LEMMA FlowMainRest ==
  ASSUME IInv, SwitchAllocated,
         \/ MainCheckQueue \/ MainPollEmpty \/ MainStopCheck \/ MainExitUnlock
         \/ MainWakeUpdate
  PROVE  Balance' = Balance /\ SwitchAllocated'
<1> USE DEF vmVars, lockVars, memVars, srvVars, netVars, flagVars, MainUnchanged
<1>1. UNCHANGED <<transit, heap, vmUpd>>
  BY DEF MainCheckQueue, MainPollEmpty, MainStopCheck, MainExitUnlock,
     MainWakeUpdate, transit
<1>2. Transit' = Transit
  BY <1>1, TransitFrame DEF transit
<1>3. outPc' = outPc \/ (outPc = "waitUpdate" /\ outPc' = "wokenUpdate")
  BY DEF MainCheckQueue, MainPollEmpty, MainStopCheck, MainExitUnlock,
     MainWakeUpdate, SignalUpdateCond
<1> QED
  BY <1>1, <1>2, <1>3, CreditFrame DEF Balance, SwitchAllocated

-----------------------------------------------------------------------------
(***************************************************************************)
(* The rest of the program, and the server.                                *)
(***************************************************************************)
LEMMA FlowOutside ==
  ASSUME IInv, SwitchAllocated, MuxCleanup \/ MuxHandler \/ UNCHANGED vars
  PROVE  Balance' = Balance /\ SwitchAllocated'
<1> USE DEF vmVars, outVars, mainVars, lockVars, memVars, srvVars, netVars, flagVars
<1>1. UNCHANGED <<transit, heap, vmUpd, outPc>>
  BY DEF MuxCleanup, MuxHandler, vars, transit
<1>2. Transit' = Transit
  BY <1>1, TransitFrame DEF transit
<1> QED
  BY <1>1, <1>2 DEF Balance, Credit, SwitchAllocated

\* Steps of the server keep the queue and what mux_mainloop has taken from it.
LEMMA FlowServerFrame ==
  ASSUME IInv, SwitchAllocated, ServerUnchanged
  PROVE  /\ InQueue' = InQueue /\ (Dequeued' <=> Dequeued)
         /\ Credit' = Credit /\ SwitchAllocated'
<1> USE DEF ServerUnchanged, vmVars, outVars, mainVars, memVars
<1>1. InQueue' = InQueue
  BY OwnerFacts, QueueMessagesFrame
<1> QED
  BY <1>1 DEF Dequeued, Credit, SwitchAllocated

\* The server takes an update from the socket.
LEMMA FlowServerReads ==
  ASSUME IInv, SwitchAllocated,
         ServerReadUpdate \/ ServerReadSwitch \/ ServerShutdown
  PROVE  Balance' = Balance /\ SwitchAllocated'
<1>1. /\ toServer # <<>> /\ toServer' = Tail(toServer) /\ toServer \in Seq(LibMessages)
      /\ UNCHANGED toLib /\ srv = "idle" /\ ServerUnchanged
  BY DEF ServerReadUpdate, ServerReadSwitch, ServerShutdown, IInv, TypeOK
<1>2. Head(toServer) \in LibMessages /\ toServer' \in Seq(LibMessages)
  BY <1>1, TailFacts
<1>3. ~Reading /\ (Reading' <=> Head(toServer) \in UpdateMessages)
  <2>1. CASE ServerReadUpdate \/ ServerReadSwitch
    BY <1>1, <1>2, <2>1 DEF ServerReadUpdate, ServerReadSwitch, Reading, UpdateMessages
  <2>2. CASE ServerShutdown
    BY <1>1, <2>2 DEF ServerShutdown, Reading, UpdateMessages, Shutdown
  <2> QED
    BY <2>1, <2>2
<1>4. /\ CountIn(toServer, UpdateMessages)
           = CountIn(toServer', UpdateMessages) + (IF Reading' THEN 1 ELSE 0)
      /\ CountIn(toServer', UpdateMessages) \in Nat
  BY <1>1, <1>2, <1>3, CountTail, CountType
<1>5. Transit' = Transit
  <2>1. Transit' = CountIn(InQueue, UpdateMessages) + (IF Dequeued THEN 1 ELSE 0)
                      + CountIn(toServer', UpdateMessages) + (IF Reading' THEN 1 ELSE 0)
                      + CountIn(toLib, Acks)
    BY <1>1, FlowServerFrame DEF Transit
  <2>2. Transit = CountIn(InQueue, UpdateMessages) + (IF Dequeued THEN 1 ELSE 0)
                      + CountIn(toServer, UpdateMessages) + 0
                      + CountIn(toLib, Acks)
    BY <1>3 DEF Transit
  <2> QED
    BY <1>4, <2>1, <2>2, TransitType
<1> QED
  BY <1>1, <1>5, FlowServerFrame DEF Balance

\* It acknowledges the update, and nothing else.
LEMMA FlowServerAnswers ==
  ASSUME IInv, SwitchAllocated, ServerReadDone
  PROVE  Balance' = Balance /\ SwitchAllocated'
<1>1. /\ UNCHANGED toServer /\ srv = "reading" /\ srv' = "idle" /\ ServerUnchanged
      /\ toLib \in Seq(ServerMessages)
  BY DEF ServerReadDone, IInv, TypeOK
<1>2. ~Reading'
  BY <1>1 DEF Reading
<1>3. CountIn(toLib', Acks) = CountIn(toLib, Acks) + (IF Reading THEN 1 ELSE 0)
  <2>1. CASE Reading
    <3>1. PICK a \in ServerMessages : toLib' = Append(toLib, a) /\ IsAck(a)
      BY <2>1 DEF ServerReadDone, Reading, ServerMessages, Complete, NotComplete, IsAck
    <3> QED
      BY <1>1, <2>1, <3>1, CountAppend DEF Acks
  <2>2. CASE ~Reading
    <3>1. UNCHANGED toLib
      BY <1>1, <2>2 DEF ServerReadDone, Reading
    <3> QED
      BY <2>2, <3>1, TransitType
  <2> QED
    BY <2>1, <2>2
<1>4. Transit' = Transit
  <2>1. Transit' = CountIn(InQueue, UpdateMessages) + (IF Dequeued THEN 1 ELSE 0)
                      + CountIn(toServer, UpdateMessages) + 0
                      + (CountIn(toLib, Acks) + (IF Reading THEN 1 ELSE 0))
    BY <1>1, <1>2, <1>3, FlowServerFrame DEF Transit
  <2> QED
    BY <2>1, TransitType DEF Transit
<1> QED
  BY <1>1, <1>4, FlowServerFrame DEF Balance

LEMMA FlowServerInput ==
  ASSUME IInv, SwitchAllocated, ServerInput
  PROVE  Balance' = Balance /\ SwitchAllocated'
<1>1. /\ UNCHANGED <<toServer, srv, srvJob>> /\ toLib' = Append(toLib, Input)
      /\ toLib \in Seq(ServerMessages) /\ ServerUnchanged
  BY DEF ServerInput, srvVars, IInv, TypeOK
<1>2. Input \in ServerMessages /\ Input \notin Acks
  BY DEF ServerMessages, Acks, Input, IsAck
<1>3. CountIn(toLib', Acks) = CountIn(toLib, Acks)
  BY <1>1, <1>2, CountAppend, TransitType
<1>4. Reading' <=> Reading
  BY <1>1 DEF Reading
<1>5. Transit' = Transit
  BY <1>1, <1>3, <1>4, FlowServerFrame DEF Transit
<1> QED
  BY <1>1, <1>5, FlowServerFrame DEF Balance

-----------------------------------------------------------------------------
LEMMA FlowInvInit == FlowInit => FlowInv
<1> SUFFICES ASSUME FlowInit PROVE FlowInv
  OBVIOUS
<1>1. InQueue = <<>> /\ toServer = <<>> /\ toLib = <<>>
  BY DEF FlowInit, Init, InQueue
<1>2. ~Dequeued /\ ~Reading
  BY DEF FlowInit, Init, Dequeued, Reading
<1>3. Transit = 0
  BY <1>1, <1>2, CountEmpty DEF Transit
<1> QED
  BY <1>3 DEF FlowInit, Init, FlowInv, SwitchAllocated, Balance, Credit

\* Every step of the program keeps the balance, or is one of the three that end
\* the wait without an acknowledgement.
LEMMA FlowBalance ==
  IInv /\ SwitchAllocated /\ [Next]_vars =>
    SwitchAllocated' /\ (Balance' \in 0 .. Balance \/ (EndsEarly /\ Balance' = Balance + 1))
<1> SUFFICES ASSUME IInv, SwitchAllocated, [Next]_vars
             PROVE  /\ SwitchAllocated'
                    /\ \/ Balance' \in 0 .. Balance
                       \/ EndsEarly /\ Balance' = Balance + 1
  OBVIOUS
<1>1. Balance \in Nat
  BY TransitType DEF Balance, Credit
<1>2. ASSUME Balance' = Balance
      PROVE  Balance' \in 0 .. Balance
  <2>1. Balance \in 0 .. Balance
    BY <1>1
  <2> QED
    BY <1>2, <2>1
<1>3. CASE VmNext
  BY <1>2, <1>3, FlowRefresh, FlowSwitchBegin, FlowSwitchRest, FlowSwitchCopied
  DEF VmNext, VmReturn, EndsEarly
<1>4. CASE OutStep \/ OutSpurious
  BY <1>2, <1>4, FlowOutStep, FlowOutSpurious DEF EndsEarly
<1>5. CASE MainStep
  BY <1>2, <1>5, FlowMainDequeue, FlowMainSend, FlowMainReceive, FlowMainShutdown,
     FlowMainExitClear, FlowMainWakeShm, FlowMainRest DEF MainStep, EndsEarly
<1>6. CASE MuxCleanup \/ MuxHandler \/ UNCHANGED vars
  BY <1>2, <1>6, FlowOutside
<1>7. CASE ServerStep \/ ServerInput
  BY <1>2, <1>7, FlowServerReads, FlowServerAnswers, FlowServerInput DEF ServerStep
<1> QED
  BY <1>3, <1>4, <1>5, <1>6, <1>7 DEF Next, Alive

\* A wait that ends early pays for the update that may follow.
LEMMA EarlyPays ==
  ASSUME NEW b \in Nat, NEW e \in Nat, b <= 1 + e
  PROVE  /\ \A d \in 0 .. b : d <= 1 + e /\ d <= 1 + (e + 1)
         /\ b + 1 <= 1 + (e + 1)
OBVIOUS

LEMMA FlowInvStep == IInv /\ FlowInv /\ [FlowNext]_flowVars => FlowInv'
<1> SUFFICES ASSUME IInv, FlowInv, [FlowNext]_flowVars
             PROVE  FlowInv'
  OBVIOUS
<1>1. [Next]_vars /\ SwitchAllocated
  BY DEF FlowNext, flowVars, FlowInv
<1>2. /\ SwitchAllocated'
      /\ Balance' \in 0 .. Balance \/ (EndsEarly /\ Balance' = Balance + 1)
  BY <1>1, FlowBalance
<1>3. Balance \in Nat /\ early \in Nat /\ Balance <= 1 + early
  BY TransitType DEF Balance, Credit, FlowInv
<1>4. /\ \A d \in 0 .. Balance : d <= 1 + early /\ d <= 1 + (early + 1)
      /\ Balance + 1 <= 1 + (early + 1)
  BY <1>3, EarlyPays, Zenon
<1>5. CASE FlowNext
  <2>1. early' = IF EndsEarly THEN early + 1 ELSE early
    BY <1>5 DEF FlowNext
  <2>2. CASE EndsEarly
    <3>1. early' = early + 1 /\ early' \in Nat
      BY <1>3, <2>1, <2>2
    <3>2. Balance' <= 1 + (early + 1)
      BY <1>2, <1>4, Zenon
    <3> QED
      BY <1>2, <3>1, <3>2 DEF FlowInv
  <2>3. CASE ~EndsEarly
    <3>1. early' = early
      BY <2>1, <2>3
    <3>2. Balance' <= 1 + early
      BY <1>2, <1>4, <2>3, Zenon
    <3> QED
      BY <1>2, <1>3, <3>1, <3>2 DEF FlowInv
  <2> QED
    BY <2>2, <2>3
<1>6. CASE UNCHANGED flowVars
  <2>1. UNCHANGED vars /\ early' = early
    BY <1>6 DEF flowVars
  <2>2. Balance' = Balance
    BY <1>1, <2>1, FlowOutside
  <2> QED
    BY <1>2, <1>3, <2>1, <2>2, Zenon DEF FlowInv
<1> QED
  BY <1>5, <1>6

\* Every behaviour of RdpMuxFlow is one of RdpMux, so that what is proved of the
\* latter holds here.
LEMMA FlowIsSpec == FlowSpec => Spec
<1>1. FlowInit => Init
  BY DEF FlowInit
<1>2. [FlowNext]_flowVars => [Next]_vars
  BY DEF FlowNext, flowVars
<1> QED
  BY <1>1, <1>2, PTL DEF FlowSpec, Spec

\* FlowInv holds in every reachable state: the updates in transit, with the one
\* mux_out_loop may still queue, are at most one more than the waits for an
\* acknowledgement (rdpmux.c:347) that ended without one.
THEOREM FlowInvariant == FlowSpec => []FlowInv
<1>1. FlowInit => FlowInv
  BY FlowInvInit
<1>2. IInv /\ FlowInv /\ [FlowNext]_flowVars => FlowInv'
  BY FlowInvStep
<1> QED
  BY <1>1, <1>2, FlowIsSpec, Invariant, PTL DEF FlowSpec

(***************************************************************************)
(* Flow control (rdpmux.c:309-311, 341-347), for any number of switches,   *)
(* with spurious wakeups and interrupts: what the server has not answered  *)
(* is at most one update more than the waits that ended without an         *)
(* acknowledgement.                                                        *)
(***************************************************************************)
THEOREM UpdatesInFlight == FlowSpec => []InFlightPerWakeup
<1>1. IInv /\ FlowInv => InFlightPerWakeup
  <2> SUFFICES ASSUME IInv, FlowInv PROVE Transit <= 1 + early
    BY TransitIsInFlight DEF InFlightPerWakeup
  <2>1. /\ Transit \in Nat /\ Credit \in {0, 1} /\ early \in Nat
        /\ Transit + Credit <= 1 + early
    BY TransitType DEF Credit, FlowInv, Balance
  <2> QED
    BY <2>1
<1> QED
  BY <1>1, FlowIsSpec, Invariant, FlowInvariant, PTL

(***************************************************************************)
(* Until the first wait that ends without an acknowledgement, after        *)
(* mux_out_loop has queued an update no other one follows before the       *)
(* server has acknowledged it, as its comment says (rdpmux.c:309-311).     *)
(***************************************************************************)
THEOREM OneUntilEarlyWakeup == FlowSpec => [](early = 0 => OneUpdateInFlight)
<1>1. InFlightPerWakeup => (early = 0 => OneUpdateInFlight)
  BY DEF InFlightPerWakeup, OneUpdateInFlight
<1> QED
  BY <1>1, UpdatesInFlight, PTL

-----------------------------------------------------------------------------
(***************************************************************************)
(* How many such waits there are.  Without spurious wakeups each belongs   *)
(* to the copy of one mux_display_switch (rdpmux.c:206), or to the end of  *)
(* mux_mainloop (rdpmux.c:461).                                            *)
(***************************************************************************)
SignalsOnly == "spurious" \notin Events

Copying == IF Switching THEN 1 ELSE 0
Ended   == IF mainPc = "done" THEN 1 ELSE 0

WakeInv == early \in Nat /\ early + Copying <= switches + Ended

LEMMA SwitchesGrow ==
  ASSUME IInv, [Next]_vars
  PROVE  /\ mainPc = "done" => mainPc' = "done"
         /\ \/ switches' = switches /\ (Switching' => Switching)
            \/ switches' = switches + 1 /\ ~Switching
<1> USE DEF vmVars, mainVars, Switching
<1>1. CASE VmNext
  <2>1. UNCHANGED mainPc
    BY <1>1 DEF VmNext, VmReturn, MuxDisplayUpdate, RefreshDeferred, RefreshBegin,
       RefreshEnd, SwitchBegin, SwitchClear, SwitchLock, SwitchCopied, SwitchEnqueue
  <2>2. CASE \E s \in Surfaces : SwitchBegin(s)
    BY <2>1, <2>2 DEF SwitchBegin
  <2>3. CASE ~\E s \in Surfaces : SwitchBegin(s)
    <3>1. switches' = switches /\ (Switching' => Switching)
      BY <1>1, <2>3 DEF VmNext, VmReturn, MuxDisplayUpdate, RefreshDeferred, RefreshBegin,
         RefreshEnd, SwitchClear, SwitchLock, SwitchCopied, SwitchEnqueue
    <3> QED
      BY <2>1, <3>1
  <2> QED
    BY <2>2, <2>3
<1>2. CASE MainStep
  <2>1. UNCHANGED vmVars /\ mainPc # "done"
    BY <1>2 DEF MainStep, MainCheckQueue, MainDequeue, MainSend, MainReceive,
       MainPollEmpty, MainStopCheck, MainExitUnlock, MainExitClear,
       MainSendShutdown, MainWakeUpdate, MainWakeShm, MainUnchanged
  <2> QED
    BY <2>1
<1>3. CASE OutStep \/ OutSpurious
  BY <1>3 DEF OutStep, OutTop, OutLock, OutTest, OutWaitUpdate, OutEnqueue,
     OutWaitAck, OutWokenAck, OutAcked, OutCleanup, OutSpurious, OutUnchanged
<1>4. CASE MuxCleanup \/ MuxHandler
  BY <1>4 DEF MuxCleanup, MuxHandler
<1>5. CASE ServerStep \/ ServerInput
  BY <1>5 DEF ServerStep, ServerReadUpdate, ServerReadSwitch, ServerReadDone,
     ServerShutdown, ServerInput, ServerUnchanged
<1>6. CASE UNCHANGED vars
  BY <1>6 DEF vars
<1> QED
  BY <1>1, <1>2, <1>3, <1>4, <1>5, <1>6 DEF Next, Alive

LEMMA WakeStep ==
  ASSUME SignalsOnly
  PROVE  IInv /\ WakeInv /\ [FlowNext]_flowVars => WakeInv'
<1> SUFFICES ASSUME IInv, WakeInv, [FlowNext]_flowVars
             PROVE  WakeInv'
  OBVIOUS
<1>1. switches \in Nat /\ early \in Nat /\ early + Copying <= switches + Ended
  BY DEF IInv, TypeOK, WakeInv
<1>2. [Next]_vars
  BY DEF FlowNext, flowVars
<1>3. CASE early' = early
  BY <1>1, <1>2, <1>3, SwitchesGrow DEF WakeInv, Copying, Ended
<1>4. CASE early' = early + 1 /\ EndsEarly
  <2>1. CASE SwitchCopied
    <3>1. switches' = switches /\ mainPc' = mainPc /\ Switching /\ ~Switching'
      BY <2>1 DEF SwitchCopied, Switching, mainVars
    <3> QED
      BY <1>1, <1>4, <3>1 DEF WakeInv, Copying, Ended
  <2>2. CASE MainWakeShm
    <3>1. /\ switches' = switches /\ (Switching' <=> Switching)
          /\ mainPc # "done" /\ mainPc' = "done"
      BY <2>2 DEF MainWakeShm, MainUnchanged, vmVars, Switching
    <3> QED
      BY <1>1, <1>4, <3>1 DEF WakeInv, Copying, Ended
  <2> QED
    BY <1>4, <2>1, <2>2 DEF EndsEarly, OutSpurious, SignalsOnly
<1> QED
  BY <1>3, <1>4 DEF FlowNext, flowVars

(***************************************************************************)
(* If no wait ends without a signal, each mux_display_switch lets at most  *)
(* one more update into flight (its signal at rdpmux.c:206 ends the wait   *)
(* that rdpmux.c:347 starts), and the end of mux_mainloop one more         *)
(* (rdpmux.c:461).                                                         *)
(***************************************************************************)
THEOREM UpdatesPerSwitch ==
  ASSUME SignalsOnly
  PROVE  FlowSpec => [](InFlight <= 1 + switches + Ended)
<1>1. FlowInit => WakeInv
  BY DEF FlowInit, Init, WakeInv, Copying, Ended, Switching
<1>2. IInv /\ WakeInv /\ [FlowNext]_flowVars => WakeInv'
  BY WakeStep
<1>3. IInv /\ WakeInv /\ InFlightPerWakeup => InFlight <= 1 + switches + Ended
  <2> SUFFICES ASSUME IInv, WakeInv, InFlightPerWakeup
               PROVE  InFlight <= 1 + switches + Ended
    OBVIOUS
  <2>1. InFlight \in Nat /\ early \in Nat /\ InFlight <= 1 + early
    BY TransitIsInFlight, TransitType DEF InFlightPerWakeup, WakeInv
  <2>2. switches \in Nat /\ early + Copying <= switches + Ended
    BY DEF IInv, TypeOK, WakeInv
  <2> QED
    BY <2>1, <2>2 DEF Copying, Ended
<1> QED
  BY <1>1, <1>2, <1>3, FlowIsSpec, Invariant, UpdatesInFlight, PTL DEF FlowSpec
=============================================================================
