------------------------------ MODULE MuxQueue ------------------------------
(***************************************************************************)
(* The queue of outgoing updates: queue.c on the singly linked tail queue  *)
(* of libqueue.h, a mutex and a condition.                                 *)
(*                                                                         *)
(* An update is the address of its object; "next" is the link in it.       *)
(* "last" is the address of the link the next element goes into: HEAD for  *)
(* the one in the queue head (sqh_first), or that of the last element.     *)
(* A step ends wherever a thread that only tests sqh_first, without the    *)
(* lock, can tell the difference, and at the lock and the condition.       *)
(***************************************************************************)
EXTENDS Naturals, Sequences, FiniteSets

CONSTANTS
  Thread, Update, NULL,
  HEAD,        \* the address of sqh_first
  Calls        \* the operations each thread calls

ASSUME QueueAssumption ==
  /\ NULL \notin Update /\ HEAD \notin Update /\ HEAD # NULL /\ NULL \notin Thread
  /\ NULL \notin {"empty", "enqueue", "dequeue", "clear"}
  /\ NULL \notin {<< v >> : v \in Update \cup {NULL} \cup BOOLEAN}
  /\ NULL \notin [op : {"empty", "enqueue", "dequeue", "clear"}, arg : Update \cup {NULL}]
  /\ Calls \in [Thread -> SUBSET {"empty", "enqueue", "dequeue", "clear"}]
  /\ IsFiniteSet(Thread) /\ IsFiniteSet(Update)

VARIABLES
  first,       \* sqh_first
  last,        \* sqh_last
  next,        \* sqe_next of every object
  allocated,   \* the objects in use
  mutex,       \* the holder of the lock, or NULL
  pc,          \* where each thread is
  op,          \* what it has called
  update,      \* the argument or result, an object its caller owns
  answer,      \* the result of mux_queue_check_is_empty
  list,        \* history: the objects linked from first
  dropped      \* history: those a clear in progress has already freed

vars == << first, last, next, allocated, mutex, pc, op, update, answer, list, dropped >>
links == << first, last, next, list, dropped >>

Init ==
  /\ first = NULL /\ last = HEAD                        \* SIMPLEQ_INIT
  /\ next = [u \in Update |-> NULL] /\ allocated = {}
  /\ mutex = NULL
  /\ pc = [t \in Thread |-> "idle"] /\ op = [t \in Thread |-> NULL]
  /\ update = [t \in Thread |-> NULL] /\ answer = [t \in Thread |-> FALSE]
  /\ list = << >> /\ dropped = << >>

Goto(t, to) == pc' = [pc EXCEPT ![t] = to]
Release == mutex' = NULL

\* A call; the update to enqueue is a new object.
Invoke(t) ==
  /\ pc[t] = "idle"
  /\ \E o \in Calls[t] :
       /\ op' = [op EXCEPT ![t] = o]
       /\ Goto(t, IF o = "empty" THEN "test" ELSE "lock")
       /\ IF o = "enqueue"
          THEN \E u \in Update \ allocated :
                 /\ allocated' = allocated \cup {u}
                 /\ update' = [update EXCEPT ![t] = u]
                 /\ next' = [next EXCEPT ![u] = NULL]     \* g_malloc0
          ELSE UNCHANGED << allocated, update, next >>
  /\ UNCHANGED << first, last, mutex, answer, list, dropped >>

\* mux_queue_check_is_empty, without the lock.
CheckIsEmpty(t) ==
  /\ pc[t] = "test"
  /\ answer' = [answer EXCEPT ![t] = (first = NULL)]
  /\ Goto(t, "return")
  /\ UNCHANGED << links, allocated, mutex, op, update >>

Entry(o) == CASE o = "enqueue" -> "insert" [] o = "dequeue" -> "check" [] OTHER -> "clear"

Lock(t) ==
  /\ pc[t] = "lock" /\ mutex = NULL
  /\ mutex' = t
  /\ Goto(t, Entry(op[t]))
  /\ UNCHANGED << links, allocated, op, update, answer >>

\* SIMPLEQ_INSERT_TAIL up to the store that links the element.
InsertTail(t) ==
  LET u == update[t]
  IN /\ pc[t] = "insert"
     /\ IF last = HEAD THEN first' = u /\ next' = [next EXCEPT ![u] = NULL]
        ELSE next' = [next EXCEPT ![u] = NULL, ![last] = u] /\ UNCHANGED first
     /\ list' = Append(list, u)
     /\ Goto(t, "signal")
     /\ UNCHANGED << last, allocated, mutex, op, update, answer, dropped >>

Sleepers == {t \in Thread : pc[t] = "wait"}

\* wrong: the signal is forgotten
NoSignal(t) == Goto(t, "return")

\* wrong: a waiter is woken only when the queue was empty
WakeIfFirst(t) ==
  IF Sleepers = {} \/ list # << update[t] >> THEN Goto(t, "return")
  ELSE \E s \in Sleepers : pc' = [pc EXCEPT ![t] = "return", ![s] = "woken"]

\* pthread_cond_signal wakes one waiter if there is one.
Wake(t) ==
  IF Sleepers = {} THEN Goto(t, "return")
  ELSE \E s \in Sleepers : pc' = [pc EXCEPT ![t] = "return", ![s] = "woken"]

\* The end of the insertion, the signal and the unlock.
SignalAndUnlock(t) ==
  /\ pc[t] = "signal"
  /\ last' = update[t]
  /\ Wake(t)
  /\ Release
  /\ UNCHANGED << first, next, list, dropped, allocated, op, update, answer >>

\* pthread_cond_wait releases the lock and sleeps,
Wait(t) ==
  /\ pc[t] = "check" /\ first = NULL
  /\ Goto(t, "wait") /\ Release
  /\ UNCHANGED << links, allocated, op, update, answer >>

\* may wake without a signal,
Spurious(t) ==
  /\ pc[t] = "wait" /\ Goto(t, "woken")
  /\ UNCHANGED << links, allocated, mutex, op, update, answer >>

\* wrong: a woken thread takes an element without another test
RelockAndTake(t) ==
  /\ pc[t] = "woken" /\ mutex = NULL
  /\ mutex' = t /\ Goto(t, "unlink")
  /\ update' = [update EXCEPT ![t] = first]
  /\ first' = IF first = NULL THEN NULL ELSE next[first]
  /\ list' = IF list = << >> THEN list ELSE Tail(list)
  /\ UNCHANGED << last, next, dropped, allocated, op, answer >>

\* and takes the lock again before the emptiness is tested again.
Relock(t) ==
  /\ pc[t] = "woken" /\ mutex = NULL
  /\ mutex' = t /\ Goto(t, "check")
  /\ UNCHANGED << links, allocated, op, update, answer >>

\* SIMPLEQ_FIRST and the first half of SIMPLEQ_REMOVE_HEAD.
RemoveHead(t) ==
  /\ pc[t] = "check" /\ first # NULL
  /\ update' = [update EXCEPT ![t] = first]
  /\ first' = next[first]
  /\ list' = Tail(list)
  /\ Goto(t, "unlink")
  /\ UNCHANGED << last, next, allocated, mutex, op, answer, dropped >>

\* wrong: sqh_last is not reset when the last element leaves
NotReset(l) == l

\* wrong: sqh_last gets the pointer itself for its address
WrongAddress(l) == first'

\* The second half of SIMPLEQ_REMOVE_HEAD: where the next element goes.
Emptied(l) == IF first' = NULL THEN HEAD ELSE l

ResetLastAndUnlock(t) ==
  /\ pc[t] = "unlink"
  /\ UNCHANGED << first, next, list, dropped, allocated, op, update, answer >>
  /\ last' = Emptied(last)
  /\ Goto(t, "return") /\ Release

\* mux_queue_clear removes and frees the first element,
ClearOne(t) ==
  /\ pc[t] = "clear" /\ first # NULL
  /\ first' = next[first]
  /\ last' = Emptied(last)
  /\ allocated' = allocated \ {first}
  /\ list' = Tail(list)
  /\ dropped' = IF Tail(list) = << >> THEN << >> ELSE Append(dropped, Head(list))
  /\ UNCHANGED << next, mutex, pc, op, update, answer >>

\* until there is none.
ClearDone(t) ==
  /\ pc[t] = "clear" /\ first = NULL
  /\ Goto(t, "return") /\ Release
  /\ UNCHANGED << links, allocated, op, update, answer >>

\* The caller goes on; it frees what it dequeued (mux_mainloop).
Return(t) ==
  /\ pc[t] = "return"
  /\ Goto(t, "idle")
  /\ op' = [op EXCEPT ![t] = NULL]
  /\ update' = [update EXCEPT ![t] = NULL]
  /\ allocated' = IF op[t] = "dequeue" THEN allocated \ {update[t]} ELSE allocated
  /\ UNCHANGED << links, mutex, answer >>

Work(t) ==
  \/ CheckIsEmpty(t) \/ InsertTail(t) \/ SignalAndUnlock(t) \/ Wait(t)
  \/ RemoveHead(t) \/ ResetLastAndUnlock(t) \/ ClearOne(t) \/ ClearDone(t)

Next == \E t \in Thread :
          Invoke(t) \/ Lock(t) \/ Relock(t) \/ Spurious(t) \/ Work(t) \/ Return(t)

Spec == Init /\ [][Next]_vars

\* A thread inside the queue keeps running, and a mutex that is released again
\* and again is granted at some point to a thread that waits for it.
FairSpec ==
  Spec /\ \A t \in Thread : /\ WF_vars(Work(t)) /\ WF_vars(Return(t))
                            /\ SF_vars(Lock(t)) /\ SF_vars(Relock(t))

-----------------------------------------------------------------------------
(* Properties                                                              *)

Pcs == {"idle", "test", "lock", "insert", "signal", "check", "wait", "woken",
        "unlink", "clear", "return"}
Critical == {"insert", "signal", "check", "unlink", "clear"}

TypeOK ==
  /\ first \in Update \cup {NULL} /\ last \in Update \cup {HEAD}
  /\ next \in [Update -> Update \cup {NULL}] /\ allocated \subseteq Update
  /\ mutex \in Thread \cup {NULL} /\ pc \in [Thread -> Pcs]
  /\ op \in [Thread -> {NULL, "empty", "enqueue", "dequeue", "clear"}]
  /\ update \in [Thread -> Update \cup {NULL}] /\ answer \in [Thread -> BOOLEAN]
  /\ list \in Seq(Update) /\ dropped \in Seq(Update)

\* What a thread has of its own: an update not yet linked, or already unlinked.
Owns(t) ==
  IF \/ op[t] = "enqueue" /\ pc[t] \in {"lock", "insert"}
     \/ op[t] = "dequeue" /\ pc[t] \in {"unlink", "return"}
  THEN {update[t]} ELSE {}

\* The objects met by following "next" from "first" to the end are those of c.
LinkedFromFirst(c) ==
  /\ first = IF c = << >> THEN NULL ELSE c[1]
  /\ \A i \in 1 .. Len(c) : next[c[i]] = IF i = Len(c) THEN NULL ELSE c[i + 1]

Chains == UNION {[1 .. n -> Update] : n \in 0 .. Cardinality(Update)}

\* The links form one list without a cycle, of allocated objects none of which a
\* caller still owns, and sqh_last is the link at its end, except between the two
\* halves of a macro (libqueue.h:345-360), which only the holder of the lock sees.
ListIsWellFormed ==
  \E c \in Chains :
    /\ LinkedFromFirst(c)
    /\ \A i, j \in 1 .. Len(c) : i # j => c[i] # c[j]
    /\ \A i \in 1 .. Len(c) : c[i] \in allocated /\ \A t \in Thread : c[i] \notin Owns(t)
    /\ \A t \in Thread : /\ Owns(t) \subseteq allocated
                         /\ \A s \in Thread \ {t} : Owns(t) \cap Owns(s) = {}
                         /\ pc[t] \notin {"signal", "unlink"} \/ mutex = t
    /\ (\A t \in Thread : pc[t] \notin {"signal", "unlink"}) =>
          last = IF c = << >> THEN HEAD ELSE c[Len(c)]

\* No wakeup is lost: while a thread sleeps in mux_queue_dequeue, every element
\* has a thread that is on its way to take one, or is about to be announced.
NoLostWakeup ==
  Sleepers # {} =>
    Len(list) <= Cardinality({t \in Thread : pc[t] \in {"woken", "check", "signal"}})

\* The queue as its callers see it: a clear takes effect when the last element
\* goes, because until then a test finds the queue filled.
Took(t) == pc[t] \in {"signal", "unlink", "return"} \/ (pc[t] = "clear" /\ first = NULL)

Result(t) == CASE op[t] = "empty" -> answer[t] [] op[t] = "dequeue" -> update[t] [] OTHER -> NULL

Fifo == INSTANCE FifoQueue WITH
  contents <- dropped \o list,
  request <- [t \in Thread |->
               IF op[t] = NULL THEN NULL
               ELSE [op |-> op[t], arg |-> IF op[t] = "enqueue" THEN update[t] ELSE NULL]],
  reply <- [t \in Thread |-> IF Took(t) THEN << Result(t) >> ELSE NULL]

\* queue.c implements a first-in first-out queue whose operations are atomic,
\* although the test for emptiness takes no lock and a clear frees one element
\* at a time.
IsFifo == Fifo!FifoSafe

\* mux_queue_dequeue does not sleep for good while the queue holds an element:
\* one signal per element, each woken thread testing again, is enough.
DequeueReturns == \A t \in Thread : ~ <>[](op[t] = "dequeue" /\ list # << >>)
=============================================================================
