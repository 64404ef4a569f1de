----------------------------- MODULE FifoQueue -----------------------------
(***************************************************************************)
(* What queue.h promises its callers: a queue shared by threads whose      *)
(* operations each take effect at one instant between call and return.  A  *)
(* dequeue waits for an element, the other operations never wait for one.  *)
(***************************************************************************)
EXTENDS Sequences

CONSTANTS Thread, Update, NULL

VARIABLES
  contents,  \* the queue
  request,   \* what a thread has called: [op, arg], or NULL
  reply      \* its result once the call took effect, NULL before

fifoVars == << contents, request, reply >>

Operations == {"empty", "enqueue", "dequeue", "clear"}
Requests == [op : Operations, arg : Update \cup {NULL}]
Pending(t, op) == request[t] # NULL /\ request[t].op = op /\ reply[t] = NULL
Answer(t, value) == reply' = [reply EXCEPT ![t] = << value >>]

FifoInit ==
  /\ contents = << >>
  /\ request = [t \in Thread |-> NULL] /\ reply = [t \in Thread |-> NULL]

Call(t) ==
  /\ request[t] = NULL
  /\ \E r \in Requests : request' = [request EXCEPT ![t] = r]
  /\ UNCHANGED << contents, reply >>

CheckIsEmpty(t) ==
  /\ Pending(t, "empty")
  /\ Answer(t, contents = << >>)
  /\ UNCHANGED << contents, request >>

Enqueue(t) ==
  /\ Pending(t, "enqueue")
  /\ contents' = Append(contents, request[t].arg)
  /\ Answer(t, NULL) /\ UNCHANGED request

Dequeue(t) ==
  /\ Pending(t, "dequeue") /\ contents # << >>
  /\ contents' = Tail(contents)
  /\ Answer(t, Head(contents)) /\ UNCHANGED request

Clear(t) ==
  /\ Pending(t, "clear")
  /\ contents' = << >>
  /\ Answer(t, NULL) /\ UNCHANGED request

Return(t) ==
  /\ reply[t] # NULL
  /\ request' = [request EXCEPT ![t] = NULL] /\ reply' = [reply EXCEPT ![t] = NULL]
  /\ UNCHANGED contents

Effect(t) == CheckIsEmpty(t) \/ Enqueue(t) \/ Dequeue(t) \/ Clear(t)

FifoNext == \E t \in Thread : Call(t) \/ Effect(t) \/ Return(t)

FifoSafe == FifoInit /\ [][FifoNext]_fifoVars

\* Every call takes effect, a dequeue if the queue does not stay empty.
FifoSpec == FifoSafe /\ \A t \in Thread : WF_fifoVars(Effect(t))
=============================================================================
