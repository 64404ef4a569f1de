------------------------- MODULE DBusPropertyProofs -------------------------
(***************************************************************************)
(* For any number of threads that set and flush the property, any values   *)
(* and any number of calls: what is recorded as the value before a change  *)
(* is what the clients know, and a recorded change is always on its way    *)
(* to them.                                                                *)
(***************************************************************************)
EXTENDS DBusProperty, FiniteSetTheorems, TLAPS

(***************************************************************************)
(* The invariant.  NULL is no value, so that a record is told from none;   *)
(* and nothing is recorded before there is a connection, when the clients  *)
(* are going to read the value itself.                                     *)
(***************************************************************************)
ValuesAreTyped == value \in Value /\ changed \in Value \cup {NULL}
NothingUnexported == ~exported => changed = NULL

IInv == ValuesAreTyped /\ NothingUnexported /\ OrigIsAnnounced

LEMMA InitIInv ==
  ASSUME Init
  PROVE  IInv
BY DEF Init, IInv, ValuesAreTyped, NothingUnexported, OrigIsAnnounced

LEMMA ExportKeepsIInv ==
  ASSUME IInv, Export
  PROVE  IInv'
BY DEF Export, IInv, ValuesAreTyped, NothingUnexported, OrigIsAnnounced

\* The first of several changes records the value, later ones keep the record.
LEMMA SetPropertyKeepsIInv ==
  ASSUME IInv, NEW t \in Setter, SetProperty(t)
  PROVE  IInv'
<1>1. PICK v \in Value :
        /\ value' = v
        /\ changed' = IF v # value /\ exported THEN ScheduleEmitChanged ELSE changed
        /\ announced' = IF exported THEN announced ELSE v
  BY DEF SetProperty
<1>2. exported' = exported
  BY DEF SetProperty
<1>3. CASE exported
  <2>1. CASE v = value
    BY <1>1, <1>2, <1>3, <2>1 DEF IInv, ValuesAreTyped, NothingUnexported, OrigIsAnnounced
  <2>2. CASE v # value /\ changed = NULL
    <3>1. changed' = value /\ announced' = value
      BY <1>1, <1>3, <2>2 DEF ScheduleEmitChanged, IInv, OrigIsAnnounced
    <3> QED
      BY <1>1, <1>2, <1>3, <3>1, PropertyAssumption
         DEF IInv, ValuesAreTyped, NothingUnexported, OrigIsAnnounced
  <2>3. CASE v # value /\ changed # NULL
    <3>1. changed' = changed /\ announced' = changed
      BY <1>1, <1>3, <2>3 DEF ScheduleEmitChanged, IInv, OrigIsAnnounced
    <3> QED
      BY <1>1, <1>2, <1>3, <2>3, <3>1
         DEF IInv, ValuesAreTyped, NothingUnexported, OrigIsAnnounced
  <2> QED
    BY <2>1, <2>2, <2>3
<1>4. CASE ~exported
  BY <1>1, <1>2, <1>4 DEF IInv, ValuesAreTyped, NothingUnexported, OrigIsAnnounced
<1> QED
  BY <1>3, <1>4

\* An emission tells the value, unless it has come back to the one before.
LEMMA EmitChangedKeepsIInv ==
  ASSUME IInv, NEW t \in Threads, EmitChanged(t)
  PROVE  IInv'
<1>1. /\ announced' = Emitted /\ changed' = NULL /\ UNCHANGED << value, exported >>
  BY DEF EmitChanged, EmitAndForget
<1>2. Emitted = value
  BY DEF Emitted, IInv, OrigIsAnnounced
<1> QED
  BY <1>1, <1>2 DEF IInv, ValuesAreTyped, NothingUnexported, OrigIsAnnounced

LEMMA StepKeepsIInv ==
  ASSUME IInv, [Next]_vars
  PROVE  IInv'
<1>1. ASSUME UNCHANGED << value, changed, exported, announced >>
      PROVE  IInv'
  BY <1>1 DEF IInv, ValuesAreTyped, NothingUnexported, OrigIsAnnounced
<1>2. ASSUME NEW t \in Setter, SetBegin(t) \/ SetterStep(t)
      PROVE  IInv'
  <2>1. CASE SetProperty(t)
    BY <2>1, SetPropertyKeepsIInv
  <2>2. CASE SetBegin(t) \/ Thaw(t) \/ Notify(t)
    BY <1>1, <2>2 DEF SetBegin, Thaw, Notify
  <2> QED
    BY <1>2, <2>1, <2>2 DEF SetterStep
<1>3. ASSUME NEW t \in Flusher, Flush(t)
      PROVE  IInv'
  BY <1>1, <1>3 DEF Flush
<1>4. CASE Dispatch
  BY <1>1, <1>4 DEF Dispatch
<1>5. CASE UNCHANGED vars
  BY <1>1, <1>5 DEF vars
<1> QED
  BY <1>2, <1>3, <1>4, <1>5, ExportKeepsIInv, EmitChangedKeepsIInv DEF Next

(***************************************************************************)
(* orig_value is what the clients were last told (connector.c:4743), in    *)
(* every interleaving of sets, emissions and flushes.                      *)
(***************************************************************************)
THEOREM OriginalIsAnnounced == Spec => []OrigIsAnnounced
<1>1. Init => IInv
  BY InitIInv
<1>2. IInv /\ [Next]_vars => IInv'
  BY StepKeepsIInv
<1>3. IInv => OrigIsAnnounced
  BY DEF IInv
<1> QED
  BY <1>1, <1>2, <1>3, PTL DEF Spec

-----------------------------------------------------------------------------
(***************************************************************************)
(* The freeze count is the number of threads inside g_object_set; only the *)
(* dispatcher and flush emit; and a recorded source is attached, or has    *)
(* just been dispatched and its emission is still to come.                 *)
(***************************************************************************)
Setting == {t \in Setter : pc[t] \in {"set", "thaw"}}

Roles ==
  \A t \in Threads :
    pc[t] \in IF t \in Setter THEN {"idle", "set", "thaw", "notify"} ELSE {"idle", "emit"}

CountIsSetters == frozen = Cardinality(Setting)

SourceIsLive ==
  idleSource # NULL => idleSource \in attached \/ \E t \in Threads : pc[t] = "emit"

PInv == TypeOK /\ Roles /\ CountIsSetters /\ SourceIsLive /\ ChangeIsPending

LEMMA SettingIsFinite ==
  /\ IsFiniteSet(Setting) /\ Cardinality(Setting) \in Nat
  /\ Cardinality(Setting) = 0 <=> Setting = {}
<1>1. Setting \subseteq Setter
  BY DEF Setting
<1>2. IsFiniteSet(Setting)
  BY <1>1, PropertyAssumption, FS_Subset
<1> QED
  BY <1>2, FS_CardinalityType, FS_EmptySet

LEMMA InitPInv ==
  ASSUME Init
  PROVE  PInv
<1>1. TypeOK
  <2>1. /\ value \in Value /\ announced \in Value /\ changed = NULL /\ idleSource = NULL
        /\ attached = {} /\ exported = FALSE /\ frozen = 0 /\ notifying = FALSE /\ sets = 0
    BY DEF Init
  <2>2. pc \in [Threads -> {"idle", "set", "thaw", "notify", "emit"}]
    BY DEF Init
  <2>3. sets \in 0 .. MaxSets
    BY <2>1, PropertyAssumption
  <2> QED
    BY <2>1, <2>2, <2>3 DEF TypeOK
<1>2. Roles
  BY DEF Init, Roles
<1>3. SourceIsLive /\ ChangeIsPending
  BY DEF Init, SourceIsLive, ChangeIsPending
<1>4. Setting = {}
  BY DEF Init, Setting, Threads
<1> QED
  BY <1>1, <1>2, <1>3, <1>4, FS_EmptySet DEF Init, PInv, CountIsSetters

\* The threads that emit, and the source, stay; so does what is pending.
LEMMA SetBeginKeepsPInv ==
  ASSUME PInv, NEW t \in Setter, SetBegin(t)
  PROVE  PInv'
<1>1. /\ t \in Threads /\ pc \in [Threads -> {"idle", "set", "thaw", "notify", "emit"}]
      /\ pc[t] = "idle" /\ pc' = [pc EXCEPT ![t] = "set"] /\ frozen' = frozen + 1
      /\ sets' = sets + 1 /\ sets < MaxSets
      /\ UNCHANGED << value, changed, idleSource, attached, exported, notifying, announced >>
  BY DEF SetBegin, Goto, Threads, PInv, TypeOK
<1>2. TypeOK'
  BY <1>1, PropertyAssumption DEF PInv, TypeOK
<1>3. Roles' /\ SourceIsLive'
  BY <1>1 DEF PInv, Roles, SourceIsLive
<1>4. CountIsSetters'
  <2>1. Setting' = Setting \cup {t} /\ t \notin Setting
    BY <1>1 DEF Setting, Threads
  <2> QED
    BY <1>1, <2>1, SettingIsFinite, FS_AddElement DEF PInv, CountIsSetters
<1>5. ChangeIsPending'
  <2>1. frozen > 0 => frozen' > 0
    BY <1>1 DEF PInv, TypeOK
  <2> QED
    BY <1>1, <2>1 DEF PInv, ChangeIsPending, Threads
<1> QED
  BY <1>2, <1>3, <1>4, <1>5 DEF PInv

\* The change is pending because the thread that made it will thaw.
LEMMA SetPropertyKeepsPInv ==
  ASSUME PInv, NEW t \in Setter, SetProperty(t)
  PROVE  PInv'
<1>1. /\ t \in Threads /\ pc \in [Threads -> {"idle", "set", "thaw", "notify", "emit"}]
      /\ pc[t] = "set" /\ pc' = [pc EXCEPT ![t] = "thaw"] /\ notifying' = TRUE
      /\ UNCHANGED << idleSource, attached, exported, frozen, sets >>
  BY DEF SetProperty, Goto, Threads, PInv, TypeOK
<1>2. PICK v \in Value :
        /\ value' = v
        /\ changed' = IF v # value /\ exported THEN ScheduleEmitChanged ELSE changed
        /\ announced' = IF exported THEN announced ELSE v
  BY DEF SetProperty
<1>3. TypeOK'
  BY <1>1, <1>2 DEF PInv, TypeOK, ScheduleEmitChanged
<1>4. Roles' /\ SourceIsLive'
  BY <1>1 DEF PInv, Roles, SourceIsLive
<1>5. Setting' = Setting /\ t \in Setting
  BY <1>1 DEF Setting, Threads
<1>6. CountIsSetters'
  BY <1>1, <1>5 DEF PInv, CountIsSetters
<1>7. frozen > 0
  BY <1>5, SettingIsFinite DEF PInv, CountIsSetters
<1>8. ChangeIsPending'
  BY <1>1, <1>7 DEF ChangeIsPending
<1> QED
  BY <1>3, <1>4, <1>6, <1>8 DEF PInv

\* The last thread to thaw notifies; before it, another one still has to.
LEMMA ThawKeepsPInv ==
  ASSUME PInv, NEW t \in Setter, Thaw(t)
  PROVE  PInv'
<1>1. /\ t \in Threads /\ pc \in [Threads -> {"idle", "set", "thaw", "notify", "emit"}]
      /\ pc[t] = "thaw" /\ frozen' = frozen - 1
      /\ UNCHANGED << value, changed, idleSource, attached, exported, sets, announced >>
  BY DEF Thaw, Threads, PInv, TypeOK
<1>2. /\ frozen = 1 /\ notifying =>
           pc' = [pc EXCEPT ![t] = "notify"] /\ notifying' = FALSE
      /\ ~(frozen = 1 /\ notifying) =>
           pc' = [pc EXCEPT ![t] = "idle"] /\ notifying' = notifying
  BY DEF Thaw, Goto
<1>3. PICK q \in {"notify", "idle"} : pc' = [pc EXCEPT ![t] = q]
  BY <1>2
<1>4. Setting' = Setting \ {t} /\ t \in Setting
  BY <1>1, <1>3 DEF Setting, Threads
<1>5. frozen \in Nat /\ frozen > 0
  BY <1>4, SettingIsFinite DEF PInv, TypeOK, CountIsSetters
<1>6. CountIsSetters'
  BY <1>1, <1>4, SettingIsFinite, FS_RemoveElement DEF PInv, CountIsSetters
<1>7. TypeOK'
  <2>1. frozen' \in Nat
    BY <1>1, <1>5
  <2>2. notifying' \in BOOLEAN
    BY <1>2 DEF PInv, TypeOK
  <2> QED
    BY <1>1, <1>3, <2>1, <2>2 DEF PInv, TypeOK
<1>8. Roles' /\ SourceIsLive'
  BY <1>1, <1>3 DEF PInv, Roles, SourceIsLive
<1>9. ChangeIsPending'
  <2> SUFFICES ASSUME changed # NULL
               PROVE  \/ attached # {} \/ \E s \in Threads : pc'[s] \in {"notify", "emit"}
                      \/ notifying' /\ frozen' > 0 /\ \E s \in Setter : pc'[s] \in {"set", "thaw"}
    BY <1>1 DEF ChangeIsPending
  <2>1. CASE attached # {} \/ \E s \in Threads : pc[s] \in {"notify", "emit"}
    BY <1>1, <1>3, <2>1
  <2>2. CASE notifying /\ frozen = 1
    BY <1>1, <1>2, <2>2
  <2>3. CASE notifying /\ frozen # 1
    <3>1. frozen' > 0 /\ notifying'
      BY <1>1, <1>2, <1>5, <2>3
    <3>2. Setting' # {}
      <4>1. Setting = {t} => Cardinality(Setting) = 1
        BY FS_Singleton
      <4> QED
        BY <1>4, <2>3, <4>1 DEF PInv, CountIsSetters
    <3> QED
      BY <3>1, <3>2 DEF Setting
  <2> QED
    BY <2>1, <2>2, <2>3 DEF PInv, ChangeIsPending
<1> QED
  BY <1>6, <1>7, <1>8, <1>9 DEF PInv

\* A change that is notified has a source, or an emission is under way.
LEMMA NotifyKeepsPInv ==
  ASSUME PInv, NEW t \in Setter, Notify(t)
  PROVE  PInv'
<1>1. /\ t \in Threads /\ pc \in [Threads -> {"idle", "set", "thaw", "notify", "emit"}]
      /\ pc[t] = "notify" /\ pc' = [pc EXCEPT ![t] = "idle"]
      /\ UNCHANGED << value, changed, exported, frozen, notifying, sets, announced >>
  BY DEF Notify, Goto, Threads, PInv, TypeOK
<1>2. \/ \E s \in Source : idleSource' = s /\ attached' = attached \cup {s}
      \/ (changed = NULL \/ idleSource # NULL) /\ UNCHANGED << idleSource, attached >>
  BY DEF Notify
<1>3. TypeOK'
  BY <1>1, <1>2 DEF PInv, TypeOK
<1>4. Roles'
  BY <1>1 DEF PInv, Roles
<1>5. Setting' = Setting
  BY <1>1 DEF Setting, Threads
<1>6. CountIsSetters'
  BY <1>1, <1>5 DEF PInv, CountIsSetters
<1>7. SourceIsLive'
  BY <1>1, <1>2 DEF PInv, SourceIsLive
<1>8. ChangeIsPending'
  BY <1>1, <1>2, <1>7 DEF ChangeIsPending, SourceIsLive
<1> QED
  BY <1>3, <1>4, <1>6, <1>7, <1>8 DEF PInv

\* The dispatcher and flush take the source away and are then about to emit.
LEMMA TakeSourceKeepsPInv ==
  ASSUME PInv, Dispatch \/ \E t \in Flusher : Flush(t)
  PROVE  PInv'
<1>1. PICK t \in Threads \ Setter :
        /\ pc' = [pc EXCEPT ![t] = "emit"]
        /\ UNCHANGED << value, changed, exported, frozen, notifying, sets, announced >>
        /\ attached' \subseteq attached /\ idleSource' \in {idleSource, NULL}
  <2>1. CASE Dispatch
    BY <2>1, PropertyAssumption DEF Dispatch, Goto, Threads
  <2>2. ASSUME NEW f \in Flusher, Flush(f)
        PROVE  /\ f \in Threads \ Setter /\ pc' = [pc EXCEPT ![f] = "emit"]
               /\ UNCHANGED << value, changed, exported, frozen, notifying, sets, announced >>
               /\ attached' \subseteq attached /\ idleSource' = NULL
    BY <2>2, PropertyAssumption DEF Flush, Goto, Threads
  <2> QED
    BY <2>1, <2>2
<1>2. pc \in [Threads -> {"idle", "set", "thaw", "notify", "emit"}]
  BY DEF PInv, TypeOK
<1>3. TypeOK'
  BY <1>1, <1>2 DEF PInv, TypeOK
<1>4. Roles' /\ SourceIsLive' /\ ChangeIsPending'
  BY <1>1, <1>2 DEF PInv, Roles, SourceIsLive, ChangeIsPending
<1>5. Setting' = Setting
  BY <1>1, <1>2 DEF Setting, Threads
<1>6. CountIsSetters'
  BY <1>1, <1>5 DEF PInv, CountIsSetters
<1> QED
  BY <1>3, <1>4, <1>6 DEF PInv

LEMMA EmitKeepsPInv ==
  ASSUME PInv, NEW t \in Threads, EmitChanged(t)
  PROVE  PInv'
<1>1. /\ pc \in [Threads -> {"idle", "set", "thaw", "notify", "emit"}]
      /\ pc[t] = "emit" /\ pc' = [pc EXCEPT ![t] = "idle"]
      /\ announced' = Emitted /\ changed' = NULL /\ idleSource' = NULL
      /\ UNCHANGED << value, attached, exported, frozen, notifying, sets >>
  BY DEF EmitChanged, EmitAndForget, Goto, PInv, TypeOK
<1>2. TypeOK'
  BY <1>1 DEF PInv, TypeOK, Emitted
<1>3. Roles' /\ SourceIsLive' /\ ChangeIsPending'
  BY <1>1 DEF PInv, Roles, SourceIsLive, ChangeIsPending
<1>4. Setting' = Setting
  BY <1>1 DEF Setting, Threads
<1>5. CountIsSetters'
  BY <1>1, <1>4 DEF PInv, CountIsSetters
<1> QED
  BY <1>2, <1>3, <1>5 DEF PInv

LEMMA StepKeepsPInv ==
  ASSUME PInv, [Next]_vars
  PROVE  PInv'
<1>1. ASSUME UNCHANGED << changed, idleSource, attached, pc, frozen, notifying, sets >>,
             TypeOK'
      PROVE  PInv'
  BY <1>1 DEF PInv, Roles, CountIsSetters, Setting, SourceIsLive, ChangeIsPending
<1>2. CASE Export
  BY <1>1, <1>2 DEF Export, PInv, TypeOK
<1>3. CASE UNCHANGED vars
  BY <1>1, <1>3 DEF vars, PInv, TypeOK
<1> QED
  BY <1>2, <1>3, SetBeginKeepsPInv, SetPropertyKeepsPInv, ThawKeepsPInv, NotifyKeepsPInv,
     TakeSourceKeepsPInv, EmitKeepsPInv
  DEF Next, SetterStep

\* PInv holds in every reachable state: freezes are counted by the setters in
\* their calls (g_object_freeze_notify and its thaw around the setters of
\* connector.c), and recorded changes have somebody who announces them.
THEOREM PendingInvariant == Spec => []PInv
<1>1. Init => PInv
  BY InitPInv
<1>2. PInv /\ [Next]_vars => PInv'
  BY StepKeepsPInv
<1> QED
  BY <1>1, <1>2, PTL DEF Spec

(***************************************************************************)
(* The variables keep their types; in particular the freeze count never    *)
(* becomes negative, however many threads set the property at once.        *)
(***************************************************************************)
THEOREM TypeCorrect == Spec => []TypeOK
<1>1. PInv => TypeOK
  BY DEF PInv
<1> QED
  BY <1>1, PendingInvariant, PTL

(***************************************************************************)
(* A recorded change is never forgotten (connector.c:4564-4753), in every  *)
(* interleaving of sets, emissions and flushes: a source will be           *)
(* dispatched, a thread is about to emit or to notify, or the last thread  *)
(* to thaw will notify.                                                    *)
(***************************************************************************)
THEOREM ChangesArePending == Spec => []ChangeIsPending
<1>1. PInv => ChangeIsPending
  BY DEF PInv
<1> QED
  BY <1>1, PendingInvariant, PTL
=============================================================================
