---------------------------- MODULE DBusProperty ----------------------------
(***************************************************************************)
(* How a D-Bus service announces the property SupportedProtocolVersions of *)
(* org.RDPMux.RDPMux: the skeleton object of lib/connector.c.  Threads set *)
(* the property; PropertiesChanged is emitted later, by an idle source of  *)
(* the main context, or at once when a thread flushes the skeleton.        *)
(*                                                                         *)
(* What the skeleton does while it holds priv->lock is one step: nothing   *)
(* in it waits.  GObject itself (freezing and thawing of notifications)    *)
(* and the main context are modelled from their use in this file.          *)
(***************************************************************************)
EXTENDS Naturals, FiniteSets

CONSTANTS
  Setter,      \* threads that set the property
  Flusher,     \* threads that flush the skeleton
  Value,       \* values of the property
  Source,      \* addresses of idle sources, enough for those attached at once
  NULL,
  MaxSets      \* bound: calls that set the property

ASSUME PropertyAssumption ==
  /\ NULL \notin Value \cup Source /\ MaxSets \in Nat
  /\ Setter \cap Flusher = {} /\ "context" \notin Setter \cup Flusher
  /\ IsFiniteSet(Setter)

VARIABLES
  value,       \* priv->properties[0]
  changed,     \* orig_value of the ChangedProperty in the list, NULL if none
  idleSource,  \* priv->changed_properties_idle_source
  attached,    \* sources attached to priv->context and not yet dispatched
  exported,    \* whether the skeleton has a connection
  pc,          \* where each thread is, the main context's among them
  frozen,      \* the freeze count of the GObject
  notifying,   \* a notification waits for the count to reach 0
  sets,        \* calls that set the property so far
  announced    \* history: what a client that reads at export and then listens knows

vars == << value, changed, idleSource, attached, exported, pc, frozen, notifying,
           sets, announced >>
Threads == Setter \cup Flusher \cup {"context"}

Init ==
  /\ value \in Value /\ changed = NULL /\ announced = value
  /\ idleSource = NULL /\ attached = {}
  /\ exported = FALSE
  /\ pc = [t \in Threads |-> "idle"]
  /\ frozen = 0 /\ notifying = FALSE /\ sets = 0

Goto(t, to) == pc' = [pc EXCEPT ![t] = to]

\* The service exports the object; a client reads the value it has then.
Export ==
  /\ ~exported /\ exported' = TRUE /\ announced' = value
  /\ UNCHANGED << value, changed, idleSource, attached, pc, frozen, notifying, sets >>

\* g_object_set freezes notifications,
SetBegin(t) ==
  /\ pc[t] = "idle" /\ sets < MaxSets
  /\ sets' = sets + 1 /\ frozen' = frozen + 1
  /\ Goto(t, "set")
  /\ UNCHANGED << value, changed, idleSource, attached, exported, notifying, announced >>

\* wrong: the list keeps the latest value before a change, not the first
LatestOrig == value

\* schedule_emit_changed records the value before the first change.
ScheduleEmitChanged == IF changed = NULL THEN value ELSE changed

\* calls set_property, which freezes once more and thaws after the unlock,
SetProperty(t) ==
  /\ pc[t] = "set"
  /\ \E v \in Value :
       /\ value' = v
       /\ changed' = IF v # value /\ exported THEN ScheduleEmitChanged ELSE changed
       /\ announced' = IF exported THEN announced ELSE v
  /\ notifying' = TRUE
  /\ Goto(t, "thaw")
  /\ UNCHANGED << idleSource, attached, exported, frozen, sets >>

\* and thaws them: the thread that undoes the last freeze delivers "notify".
Thaw(t) ==
  /\ pc[t] = "thaw"
  /\ frozen' = frozen - 1
  /\ IF frozen = 1 /\ notifying THEN Goto(t, "notify") /\ notifying' = FALSE
     ELSE Goto(t, "idle") /\ UNCHANGED notifying
  /\ UNCHANGED << value, changed, idleSource, attached, exported, sets, announced >>

\* skeleton_notify attaches an idle source unless there is one.
Notify(t) ==
  /\ pc[t] = "notify"
  /\ IF changed # NULL /\ idleSource = NULL
     THEN \E s \in Source \ attached :
            idleSource' = s /\ attached' = attached \cup {s}
     ELSE UNCHANGED << idleSource, attached >>
  /\ Goto(t, "idle")
  /\ UNCHANGED << value, changed, exported, frozen, notifying, sets, announced >>

\* wrong: the value that is emitted is the one before the change
OrigEmitted == IF changed # NULL /\ value # changed THEN changed ELSE announced

\* wrong: the original value is emitted, changed or not
RecordEmitted == changed

\* What the signal tells: the current value if it is not the original one.
Emitted == IF changed # NULL /\ value # changed THEN value ELSE announced

\* wrong: the source stays recorded after its emission
KeepSource == announced' = Emitted /\ changed' = NULL /\ UNCHANGED idleSource

EmitAndForget ==
  announced' = Emitted /\ changed' = NULL /\ idleSource' = NULL

\* emit_changed, called by the dispatcher and by flush.
EmitChanged(t) ==
  /\ pc[t] = "emit"
  /\ EmitAndForget
  /\ Goto(t, "idle")
  /\ UNCHANGED << value, attached, exported, frozen, notifying, sets >>

\* The main context dispatches a source, which it will not do again.
Dispatch ==
  /\ pc["context"] = "idle"
  /\ \E s \in attached : attached' = attached \ {s}
  /\ Goto("context", "emit")
  /\ UNCHANGED << value, changed, idleSource, exported, frozen, notifying, sets, announced >>

\* flush destroys the source and emits, but unlocks in between.
Flush(t) ==
  /\ pc[t] = "idle"
  /\ idleSource # NULL
  /\ attached' = attached \ {idleSource} /\ idleSource' = NULL
  /\ Goto(t, "emit")
  /\ UNCHANGED << value, changed, exported, frozen, notifying, sets, announced >>

SetterStep(t) == SetProperty(t) \/ Thaw(t) \/ Notify(t)

Next ==
  \/ Export
  \/ \E t \in Setter : SetBegin(t) \/ SetterStep(t)
  \/ \E t \in Flusher : Flush(t)
  \/ \E t \in Threads : EmitChanged(t)
  \/ Dispatch

Spec == Init /\ [][Next]_vars

\* A call goes on and the service runs its main context.
FairSpec ==
  /\ Spec /\ WF_vars(Dispatch)
  /\ \A t \in Setter : WF_vars(SetterStep(t))
  /\ \A t \in Threads : WF_vars(EmitChanged(t))

-----------------------------------------------------------------------------
(* Properties                                                              *)

TypeOK ==
  /\ value \in Value /\ changed \in Value \cup {NULL} /\ announced \in Value
  /\ idleSource \in Source \cup {NULL} /\ attached \subseteq Source
  /\ exported \in BOOLEAN /\ notifying \in BOOLEAN
  /\ pc \in [Threads -> {"idle", "set", "thaw", "notify", "emit"}]
  /\ frozen \in Nat /\ sets \in 0 .. MaxSets

\* orig_value, "the value before the change" (connector.c:54), is what clients
\* were last told, however many sets, emissions and flushes interleave, and
\* without a record they know the value.
OrigIsAnnounced == announced = IF changed = NULL THEN value ELSE changed

\* A recorded change is never forgotten: a source will be dispatched, a thread
\* is about to emit or to notify, or the thread that thaws last will notify.
ChangeIsPending ==
  changed # NULL =>
    \/ attached # {} \/ \E t \in Threads : pc[t] \in {"notify", "emit"}
    \/ notifying /\ frozen > 0 /\ \E t \in Setter : pc[t] \in {"set", "thaw"}

\* Clients are told the value the property ends up with.
EventuallyAnnounced == \A v \in Value : <>[](value = v) => <>[](announced = v)
=============================================================================
