--------------------------- MODULE MuxQueueProofs ---------------------------
(***************************************************************************)
(* queue.c implements FifoQueue, for any number of threads and objects and *)
(* whatever each thread calls.                                             *)
(***************************************************************************)
EXTENDS MuxQueue, SequenceTheorems, FiniteSetTheorems, TLAPS

Operations == {"empty", "enqueue", "dequeue", "clear"}

(***************************************************************************)
(* The invariant.  Who is inside the critical sections holds the mutex.    *)
(***************************************************************************)
Locking == \A t \in Thread : pc[t] \in Critical <=> mutex = t

\* What a thread is doing is what it called, an enqueue with an object.
OpsAt(q) ==
  CASE q = "idle" -> {NULL}
    [] q = "test" -> {"empty"}
    [] q \in {"insert", "signal"} -> {"enqueue"}
    [] q \in {"check", "wait", "woken", "unlink"} -> {"dequeue"}
    [] q = "clear" -> {"clear"}
    [] q = "lock" -> {"enqueue", "dequeue", "clear"}
    [] q = "return" -> Operations

Calling ==
  \A t \in Thread : op[t] \in OpsAt(pc[t]) /\ (op[t] = "enqueue" => update[t] \in Update)

\* The links run through the list, which has no object twice,
Listed == {list[i] : i \in 1 .. Len(list)}

Chained ==
  /\ list = << >> => first = NULL
  /\ list # << >> => first = list[1] /\ next[list[Len(list)]] = NULL
  /\ \A i \in 1 .. Len(list) - 1 : next[list[i]] = list[i + 1]
  /\ \A i, j \in 1 .. Len(list) : list[i] = list[j] => i = j

\* and end where "last" says, except inside the two macros.
Ended ==
  /\ (\A t \in Thread : pc[t] \notin {"signal", "unlink"}) =>
        last = IF list = << >> THEN HEAD ELSE list[Len(list)]
  /\ \A t \in Thread :
       /\ pc[t] = "signal" => list # << >> /\ list[Len(list)] = update[t]
       /\ pc[t] = "unlink" /\ list # << >> => last = list[Len(list)]

\* No object has two owners, and all of them are allocated.
Owning ==
  /\ Listed \subseteq allocated
  /\ \A t \in Thread : /\ Owns(t) \subseteq allocated \ Listed
                       /\ \A s \in Thread \ {t} : Owns(t) \cap Owns(s) = {}

\* Only a clear that has not come to the end has dropped elements.
Dropping == dropped # << >> => list # << >> /\ \E t \in Thread : pc[t] = "clear"

IInv == TypeOK /\ Locking /\ Calling /\ Chained /\ Ended /\ Owning /\ Dropping

-----------------------------------------------------------------------------
(***************************************************************************)
(* Sequences.                                                              *)
(***************************************************************************)
LEMMA TailFacts ==
  ASSUME NEW S, NEW s \in Seq(S), s # << >>
  PROVE  /\ Tail(s) \in Seq(S) /\ Len(Tail(s)) = Len(s) - 1 /\ Len(s) \in Nat \ {0}
         /\ \A i \in 1 .. Len(s) - 1 : Tail(s)[i] = s[i + 1]
         /\ Head(s) = s[1] /\ s[1] \in S
OBVIOUS

LEMMA AppendFacts ==
  ASSUME NEW S, NEW s \in Seq(S), NEW e \in S
  PROVE  /\ Append(s, e) \in Seq(S) /\ Len(Append(s, e)) = Len(s) + 1 /\ Len(s) \in Nat
         /\ \A i \in 1 .. Len(s) : Append(s, e)[i] = s[i]
         /\ Append(s, e)[Len(s) + 1] = e /\ Append(s, e) # << >>
OBVIOUS

LEMMA MoveHead ==
  ASSUME NEW S, NEW d \in Seq(S), NEW s \in Seq(S), s # << >>
  PROVE  Append(d, Head(s)) \o Tail(s) = d \o s
<1> DEFINE a == Append(d, Head(s)) \o Tail(s)
           b == d \o s
<1>1. a \in Seq(S) /\ b \in Seq(S) /\ Len(a) = Len(d) + Len(s) /\ Len(b) = Len(d) + Len(s)
  BY TailFacts, AppendFacts
<1>2. \A i \in 1 .. Len(d) + Len(s) : a[i] = b[i]
  BY TailFacts, AppendFacts
<1> QED
  BY <1>1, <1>2, SeqEqual

LEMMA EmptyList ==
  ASSUME IInv
  PROVE  list = << >> <=> first = NULL
<1>1. ASSUME list # << >> PROVE first \in Update
  BY <1>1 DEF IInv, TypeOK, Chained
<1> QED
  BY <1>1, QueueAssumption DEF IInv, Chained

LEMMA InitIInv ==
  ASSUME Init
  PROVE  IInv
<1>1. TypeOK
  BY DEF Init, TypeOK, Pcs
<1>2. Locking /\ Calling
  BY QueueAssumption DEF Init, Locking, Calling, OpsAt, Critical
<1>3. Chained /\ Ended /\ Dropping
  BY DEF Init, Chained, Ended, Dropping
<1>4. Owning
  BY QueueAssumption DEF Init, Owning, Owns, Listed
<1> QED
  BY <1>1, <1>2, <1>3, <1>4 DEF IInv

(***************************************************************************)
(* The steps that leave the list alone.                                    *)
(***************************************************************************)
LEMMA ListFrame ==
  ASSUME IInv, UNCHANGED << first, list >>,
         \A i \in 1 .. Len(list) : next'[list[i]] = next[list[i]]
  PROVE  Chained' /\ Listed' = Listed
BY DEF IInv, TypeOK, Chained, Listed

\* A thread goes on with a call, or to another one, and the others stay.
LEMMA CallingFrame ==
  ASSUME IInv, NEW t \in Thread, NEW q \in Pcs, pc' = [pc EXCEPT ![t] = q],
         op'[t] \in OpsAt(q), op'[t] = "enqueue" => update'[t] \in Update,
         \A s \in Thread \ {t} : op'[s] = op[s] /\ update'[s] = update[s]
  PROVE  Calling'
<1>1. \A s \in Thread \ {t} : pc'[s] = pc[s]
  OBVIOUS
<1>2. pc'[t] = q
  BY DEF IInv, TypeOK
<1> QED
  BY <1>1, <1>2 DEF IInv, Calling

LEMMA InvokeKeepsIInv ==
  ASSUME IInv, NEW t \in Thread, Invoke(t)
  PROVE  IInv'
<1> USE DEF Goto
<1>1. PICK o \in Calls[t] :
        /\ op' = [op EXCEPT ![t] = o]
        /\ pc' = [pc EXCEPT ![t] = IF o = "empty" THEN "test" ELSE "lock"]
        /\ IF o = "enqueue"
           THEN \E u \in Update \ allocated :
                  /\ allocated' = allocated \cup {u}
                  /\ update' = [update EXCEPT ![t] = u]
                  /\ next' = [next EXCEPT ![u] = NULL]
           ELSE UNCHANGED << allocated, update, next >>
  BY DEF Invoke
<1>2. o \in Operations /\ pc[t] = "idle" /\ UNCHANGED << first, last, mutex, answer, list, dropped >>
  BY QueueAssumption DEF Invoke, Operations
<1> DEFINE q == IF o = "empty" THEN "test" ELSE "lock"
<1>3. TypeOK'
  <2>1. pc' \in [Thread -> Pcs] /\ op' \in [Thread -> {NULL} \cup Operations]
    BY <1>1, <1>2 DEF IInv, TypeOK, Pcs, Operations
  <2>2. /\ allocated' \subseteq Update /\ update' \in [Thread -> Update \cup {NULL}]
        /\ next' \in [Update -> Update \cup {NULL}]
    BY <1>1 DEF IInv, TypeOK
  <2> QED
    BY <1>2, <2>1, <2>2 DEF IInv, TypeOK, Operations
<1>4. Locking' /\ Dropping' /\ Ended'
  <2>1. /\ \A s \in Thread \ {t} : pc'[s] = pc[s] /\ update'[s] = update[s]
        /\ pc'[t] \in {"test", "lock"} /\ pc[t] = "idle"
    BY <1>1, <1>2 DEF IInv, TypeOK
  <2> QED
    BY <1>2, <2>1 DEF IInv, Locking, Dropping, Ended, Critical
<1>5. Calling'
  <2>1. op'[t] = o /\ q \in Pcs /\ o \in OpsAt(q)
    BY <1>1, <1>2 DEF IInv, TypeOK, OpsAt, Operations, Pcs
  <2>2. o = "enqueue" => update'[t] \in Update
    BY <1>1 DEF IInv, TypeOK
  <2>3. \A s \in Thread \ {t} : op'[s] = op[s] /\ update'[s] = update[s]
    BY <1>1 DEF IInv, TypeOK
  <2>4. pc' = [pc EXCEPT ![t] = q]
    BY <1>1
  <2> HIDE DEF q
  <2> QED
    BY <2>1, <2>2, <2>3, <2>4, CallingFrame
<1>6. Chained' /\ Listed' = Listed
  <2>1. \A i \in 1 .. Len(list) : next'[list[i]] = next[list[i]]
    BY <1>1 DEF IInv, TypeOK, Owning, Listed
  <2> QED
    BY <2>1, <1>2, ListFrame
<1>7. Owning'
  <2>1. CASE o = "enqueue"
    <3>1. PICK u \in Update \ allocated : allocated' = allocated \cup {u}
                                          /\ update' = [update EXCEPT ![t] = u]
      BY <1>1, <2>1
    <3>2. Owns(t)' = {u} /\ \A s \in Thread \ {t} : Owns(s)' = Owns(s)
      BY <1>1, <2>1, <3>1 DEF IInv, TypeOK, Owns
    <3> QED
      BY <1>6, <3>1, <3>2 DEF IInv, Owning
  <2>2. CASE o # "enqueue"
    <3>1. Owns(t)' = {} /\ \A s \in Thread \ {t} : Owns(s)' = Owns(s)
      BY <1>1, <2>2 DEF IInv, TypeOK, Owns
    <3> QED
      BY <1>1, <1>6, <2>2, <3>1 DEF IInv, Owning
  <2> QED
    BY <2>1, <2>2
<1> QED
  BY <1>3, <1>4, <1>5, <1>6, <1>7 DEF IInv

\* A thread goes from one place to another, and nothing else changes that the
\* invariant of the list is about.
LEMMA MoveKeepsIInv ==
  ASSUME IInv, NEW t \in Thread, NEW q \in Pcs \ {"signal", "unlink"},
         pc' = [pc EXCEPT ![t] = q], pc[t] \notin {"signal", "unlink"},
         UNCHANGED << links, allocated, op, update >>, answer' \in [Thread -> BOOLEAN],
         op[t] \in OpsAt(q), Owns(t)' = Owns(t),
         IF q \in Critical THEN mutex' = t ELSE mutex' = IF pc[t] \in Critical THEN NULL ELSE mutex,
         q \in Critical => pc[t] \in Critical \/ mutex = NULL,
         pc[t] = "clear" => first = NULL
  PROVE  IInv'
<1>1. TypeOK'
  BY DEF IInv, TypeOK, links, Pcs
<1>2. Locking'
  BY QueueAssumption DEF IInv, TypeOK, Locking
<1>3. Calling'
  BY DEF IInv, TypeOK, Calling
<1>4. Chained' /\ Listed' = Listed
  BY ListFrame DEF links
<1>5. Ended'
  BY DEF IInv, TypeOK, Ended, links
<1>6. Owning'
  <2>1. \A s \in Thread : Owns(s)' = Owns(s)
    BY DEF IInv, TypeOK, Owns
  <2> QED
    BY <1>4, <2>1 DEF IInv, Owning
<1>7. Dropping'
  BY EmptyList DEF IInv, TypeOK, Dropping, links
<1> QED
  BY <1>1, <1>2, <1>3, <1>4, <1>5, <1>6, <1>7 DEF IInv

LEMMA QuietKeepsIInv ==
  ASSUME IInv, NEW t \in Thread,
         CheckIsEmpty(t) \/ Lock(t) \/ Wait(t) \/ Spurious(t) \/ Relock(t) \/ ClearDone(t)
  PROVE  IInv'
<1> USE DEF Goto, Release
<1>1. CASE CheckIsEmpty(t)
  <2>1. op[t] = "empty" /\ answer' \in [Thread -> BOOLEAN] /\ mutex' = mutex
    BY <1>1 DEF CheckIsEmpty, IInv, TypeOK, Calling, OpsAt
  <2>2. Owns(t)' = Owns(t)
    BY <1>1, <2>1 DEF CheckIsEmpty, Owns
  <2> QED
    BY <1>1, <2>1, <2>2, MoveKeepsIInv DEF CheckIsEmpty, OpsAt, Operations, Pcs, Critical
<1>2. CASE Lock(t)
  <2>1. op[t] \in {"enqueue", "dequeue", "clear"} /\ op' = op /\ answer' = answer
    BY <1>2 DEF Lock, IInv, Calling, OpsAt
  <2>2. Entry(op[t]) \in {"insert", "check", "clear"} /\ op[t] \in OpsAt(Entry(op[t]))
    BY <2>1 DEF Entry, OpsAt
  <2>3. Owns(t)' = Owns(t)
    BY <1>2, <2>1 DEF Lock, Entry, Owns, IInv, TypeOK
  <2>4. answer' \in [Thread -> BOOLEAN]
    BY <2>1 DEF IInv, TypeOK
  <2> QED
    BY <1>2, <2>2, <2>3, <2>4, MoveKeepsIInv DEF Lock, Pcs, Critical
<1>3. CASE Wait(t)
  <2>1. op[t] = "dequeue"
    BY <1>3 DEF Wait, IInv, Calling, OpsAt
  <2>2. Owns(t)' = Owns(t)
    BY <1>3 DEF Wait, Owns, IInv, TypeOK
  <2> QED
    BY <1>3, <2>1, <2>2, MoveKeepsIInv DEF Wait, OpsAt, Pcs, Critical, IInv, TypeOK
<1>4. CASE Spurious(t)
  <2>1. op[t] = "dequeue"
    BY <1>4 DEF Spurious, IInv, Calling, OpsAt
  <2>2. Owns(t)' = Owns(t)
    BY <1>4 DEF Spurious, Owns, IInv, TypeOK
  <2> QED
    BY <1>4, <2>1, <2>2, MoveKeepsIInv DEF Spurious, OpsAt, Pcs, Critical, IInv, TypeOK
<1>5. CASE Relock(t)
  <2>1. op[t] = "dequeue"
    BY <1>5 DEF Relock, IInv, Calling, OpsAt
  <2>2. Owns(t)' = Owns(t)
    BY <1>5 DEF Relock, Owns, IInv, TypeOK
  <2> QED
    BY <1>5, <2>1, <2>2, MoveKeepsIInv DEF Relock, OpsAt, Pcs, Critical, IInv, TypeOK
<1>6. CASE ClearDone(t)
  <2>1. op[t] = "clear"
    BY <1>6 DEF ClearDone, IInv, Calling, OpsAt
  <2>2. Owns(t)' = Owns(t)
    BY <1>6, <2>1 DEF ClearDone, Owns
  <2> QED
    BY <1>6, <2>1, <2>2, MoveKeepsIInv DEF ClearDone, OpsAt, Operations, Pcs, Critical, IInv, TypeOK
<1> QED
  BY <1>1, <1>2, <1>3, <1>4, <1>5, <1>6

\* While a thread is in a critical section, no other one is.
LEMMA Alone ==
  ASSUME IInv, NEW t \in Thread, pc[t] \in Critical
  PROVE  mutex = t /\ \A s \in Thread \ {t} : pc[s] \notin Critical
BY DEF IInv, Locking

-----------------------------------------------------------------------------
(***************************************************************************)
(* The steps that change the list.                                         *)
(***************************************************************************)
LEMMA InsertTailKeepsIInv ==
  ASSUME IInv, NEW t \in Thread, InsertTail(t)
  PROVE  IInv'
<1> DEFINE u == update[t]
           n == Len(list)
<1>1. pc[t] = "insert" /\ op[t] = "enqueue" /\ u \in Update
  BY DEF InsertTail, IInv, Calling, OpsAt
<1>2. mutex = t /\ \A s \in Thread \ {t} : pc[s] \notin Critical
  BY <1>1, Alone DEF Critical
<1>3. last = IF list = << >> THEN HEAD ELSE list[n]
  BY <1>1, <1>2 DEF IInv, Ended, Critical
<1>4. Owns(t) = {u} /\ u \in allocated /\ u \notin Listed
  BY <1>1 DEF IInv, Owning, Owns
<1>5. /\ list' = Append(list, u) /\ n \in Nat /\ Len(list') = n + 1 /\ list' \in Seq(Update)
      /\ \A i \in 1 .. n : list'[i] = list[i]
      /\ list'[n + 1] = u /\ list' # << >>
  BY <1>1, AppendFacts DEF InsertTail, IInv, TypeOK
<1>6. \A i \in 1 .. n : list[i] \in Update /\ list[i] # u
  BY <1>4 DEF IInv, TypeOK, Listed
<1>7. /\ list = << >> => first' = u /\ next' = [next EXCEPT ![u] = NULL]
      /\ list # << >> => first' = first /\ n \in 1 .. n
                         /\ next' = [next EXCEPT ![u] = NULL, ![list[n]] = u]
  BY <1>3, <1>5, <1>6, QueueAssumption DEF InsertTail, IInv, TypeOK
<1>8. /\ pc' = [pc EXCEPT ![t] = "signal"]
      /\ UNCHANGED << last, allocated, mutex, op, update, answer, dropped >>
  BY DEF InsertTail, Goto
<1>9. TypeOK'
  BY <1>1, <1>5, <1>6, <1>7, <1>8 DEF IInv, TypeOK, Pcs
<1>10. Locking' /\ Calling'
  <2>1. Locking'
    BY <1>1, <1>2, <1>8 DEF IInv, TypeOK, Locking, Critical
  <2>2. Calling'
    BY <1>1, <1>8, CallingFrame DEF OpsAt, Pcs
  <2> QED
    BY <2>1, <2>2
<1>11. Chained'
  <2>1. CASE list = << >>
    <3>1. n = 0
      BY <2>1
    <3> QED
      BY <1>1, <1>5, <1>7, <2>1, <3>1 DEF IInv, TypeOK, Chained
  <2>2. CASE list # << >>
    <3>1. first' = list'[1]
      BY <1>5, <1>7, <2>2 DEF IInv, Chained
    <3>2. next'[list'[n + 1]] = NULL /\ next'[list'[n]] = u
      BY <1>1, <1>5, <1>6, <1>7, <2>2 DEF IInv, TypeOK
    <3>3. \A i \in 1 .. n - 1 : next'[list'[i]] = list'[i + 1]
      BY <1>5, <1>6, <1>7, <2>2 DEF IInv, TypeOK, Chained
    <3>4. \A i, j \in 1 .. n + 1 : list'[i] = list'[j] => i = j
      BY <1>5, <1>6 DEF IInv, Chained
    <3>5. \A i \in 1 .. n : next'[list'[i]] = list'[i + 1]
      BY <1>5, <3>2, <3>3
    <3>6. \A i \in 1 .. Len(list') - 1 : next'[list'[i]] = list'[i + 1]
      BY <1>5, <3>5
    <3>7. \A i, j \in 1 .. Len(list') : list'[i] = list'[j] => i = j
      BY <1>5, <3>4
    <3>8. next'[list'[Len(list')]] = NULL
      BY <1>5, <3>2
    <3> HIDE DEF n, u
    <3> QED
      BY <1>5, <3>1, <3>6, <3>7, <3>8 DEF Chained
  <2> QED
    BY <2>1, <2>2
<1>12. Ended'
  BY <1>1, <1>2, <1>5, <1>8 DEF IInv, TypeOK, Ended, Critical
<1>13. Owning'
  <2>1. Listed' = Listed \cup {u}
    BY <1>5 DEF Listed
  <2>2. Owns(t)' = {} /\ \A s \in Thread \ {t} : Owns(s)' = Owns(s)
    BY <1>1, <1>8 DEF IInv, TypeOK, Owns
  <2> QED
    BY <1>4, <1>8, <2>1, <2>2 DEF IInv, Owning
<1>14. Dropping'
  BY <1>2, <1>5, <1>8, <1>1 DEF IInv, TypeOK, Dropping, Critical
<1> QED
  BY <1>9, <1>10, <1>11, <1>12, <1>13, <1>14 DEF IInv

LEMMA SignalAndUnlockKeepsIInv ==
  ASSUME IInv, NEW t \in Thread, SignalAndUnlock(t)
  PROVE  IInv'
<1>1. pc[t] = "signal" /\ op[t] = "enqueue" /\ update[t] \in Update
  BY DEF SignalAndUnlock, IInv, Calling, OpsAt
<1>2. mutex = t /\ \A s \in Thread \ {t} : pc[s] \notin Critical
  BY <1>1, Alone DEF Critical
<1>3. /\ last' = update[t] /\ mutex' = NULL
      /\ UNCHANGED << first, next, list, dropped, allocated, op, update, answer >>
  BY DEF SignalAndUnlock, Release
<1>4. \/ pc' = [pc EXCEPT ![t] = "return"]
      \/ \E s \in Thread : pc[s] = "wait" /\ pc' = [pc EXCEPT ![t] = "return", ![s] = "woken"]
  BY DEF SignalAndUnlock, Wake, Goto, Sleepers
<1>5. /\ pc' \in [Thread -> Pcs] /\ pc'[t] = "return"
      /\ \A s \in Thread \ {t} : pc'[s] = pc[s] \/ (pc[s] = "wait" /\ pc'[s] = "woken")
  BY <1>1, <1>4 DEF IInv, TypeOK, Pcs
<1>6. TypeOK'
  BY <1>1, <1>3, <1>5 DEF IInv, TypeOK
<1>7. Locking'
  BY <1>2, <1>3, <1>5, QueueAssumption DEF IInv, Locking, Critical
<1>8. Calling'
  <2>1. OpsAt("woken") = OpsAt("wait") /\ op[t] \in OpsAt("return")
    BY <1>1 DEF OpsAt, Operations
  <2> QED
    BY <1>1, <1>3, <1>5, <2>1 DEF IInv, Calling
<1>9. Chained' /\ Listed' = Listed
  BY <1>3, ListFrame
<1>10. Ended'
  <2>1. list # << >> /\ list[Len(list)] = update[t]
    BY <1>1 DEF IInv, Ended
  <2>2. \A s \in Thread : pc'[s] \notin {"signal", "unlink"}
    BY <1>2, <1>5 DEF Critical
  <2> QED
    BY <1>3, <2>1, <2>2 DEF Ended
<1>11. Owning'
  <2>1. Owns(t)' = {} /\ \A s \in Thread \ {t} : Owns(s)' = Owns(s)
    BY <1>1, <1>3, <1>5 DEF Owns
  <2> QED
    BY <1>3, <1>9, <2>1 DEF IInv, Owning
<1>12. Dropping'
  BY <1>1, <1>2, <1>3 DEF IInv, Dropping, Critical
<1> QED
  BY <1>6, <1>7, <1>8, <1>9, <1>10, <1>11, <1>12 DEF IInv

\* The list without its first object.
LEMMA FirstLeaves ==
  ASSUME IInv, list # << >>, first' = next[first], list' = Tail(list), next' = next
  PROVE  /\ Chained' /\ list' \in Seq(Update)
         /\ first = list[1] /\ first \in Update /\ first' \in Update \cup {NULL}
         /\ first \in Listed /\ Listed' = Listed \ {first}
         /\ first' = NULL <=> list' = << >>
         /\ list' # << >> => list'[Len(list')] = list[Len(list)]
         /\ Len(list) = 1 <=> list' = << >>
<1> DEFINE n == Len(list)
<1>1. /\ list' \in Seq(Update) /\ Len(list') = n - 1 /\ n \in Nat \ {0}
      /\ \A i \in 1 .. n - 1 : list'[i] = list[i + 1]
  BY TailFacts DEF IInv, TypeOK
<1>2. first = list[1] /\ \A i \in 1 .. n : list[i] \in Update
  BY <1>1 DEF IInv, TypeOK, Chained
<1>3. CASE n = 1
  <2>1. first' = NULL /\ list' = << >>
    BY <1>1, <1>2, <1>3 DEF IInv, Chained
  <2>2. Listed = {first} /\ Listed' = {}
    BY <1>1, <1>2, <1>3 DEF Listed
  <2>3. Chained'
    <3>1. Len(list') = 0
      BY <1>1, <1>3
    <3> QED
      BY <2>1, <3>1 DEF Chained
  <2>4. first \in Listed /\ Listed' = Listed \ {first}
    BY <2>2
  <2>5. first \in Update /\ first' \in Update \cup {NULL}
    BY <1>1, <1>2, <1>3, <2>1
  <2> QED
    BY <1>1, <1>2, <1>3, <2>1, <2>3, <2>4, <2>5
<1>4. CASE n # 1
  <2>1. n - 1 \in Nat \ {0} /\ list' # << >>
    BY <1>1, <1>4
  <2>2. first' = list[2] /\ list'[1] = list[2]
    BY <1>1, <1>2, <2>1 DEF IInv, Chained
  <2>3. list'[Len(list')] = list[n]
    BY <1>1, <2>1
  <2>4. \A i \in 1 .. Len(list') - 1 : next[list'[i]] = list'[i + 1]
    BY <1>1, <2>1 DEF IInv, Chained
  <2>5. \A i, j \in 1 .. Len(list') : list'[i] = list'[j] => i = j
    BY <1>1, <2>1 DEF IInv, Chained
  <2>6. Chained'
    BY <2>1, <2>2, <2>3, <2>4, <2>5 DEF IInv, Chained
  <2>7. Listed' = Listed \ {first}
    <3>1. \A i \in 1 .. n - 1 : list'[i] \in Listed \ {first}
      BY <1>1, <1>2 DEF IInv, Chained, Listed
    <3>2. \A i \in 1 .. n : list[i] # first => i - 1 \in 1 .. n - 1 /\ list'[i - 1] = list[i]
      BY <1>1, <1>2
    <3> QED
      BY <1>1, <3>1, <3>2 DEF Listed
  <2>8. first \in Listed /\ list[2] \in Update
    BY <1>1, <1>2, <2>1 DEF Listed
  <2> QED
    BY <1>1, <1>2, <1>4, <2>1, <2>2, <2>3, <2>6, <2>7, <2>8, QueueAssumption
<1> QED
  BY <1>3, <1>4

LEMMA RemoveHeadKeepsIInv ==
  ASSUME IInv, NEW t \in Thread, RemoveHead(t)
  PROVE  IInv'
<1>1. /\ pc[t] = "check" /\ op[t] = "dequeue" /\ list # << >>
      /\ pc' = [pc EXCEPT ![t] = "unlink"] /\ update' = [update EXCEPT ![t] = first]
      /\ first' = next[first] /\ list' = Tail(list)
      /\ UNCHANGED << last, next, allocated, mutex, op, answer, dropped >>
  BY EmptyList DEF RemoveHead, Goto, IInv, Calling, OpsAt
<1>2. mutex = t /\ \A s \in Thread \ {t} : pc[s] \notin Critical
  BY <1>1, Alone DEF Critical
<1>3. /\ Chained' /\ list' \in Seq(Update)
      /\ first = list[1] /\ first \in Update /\ first' \in Update \cup {NULL}
      /\ first \in Listed /\ Listed' = Listed \ {first}
      /\ first' = NULL <=> list' = << >>
      /\ list' # << >> => list'[Len(list')] = list[Len(list)]
  BY <1>1, FirstLeaves
<1>4. TypeOK'
  BY <1>1, <1>3 DEF IInv, TypeOK, Pcs
<1>5. Locking' /\ Calling'
  <2>1. Locking'
    BY <1>1, <1>2 DEF IInv, TypeOK, Locking, Critical
  <2>2. \A s \in Thread \ {t} : update'[s] = update[s]
    BY <1>1 DEF IInv, TypeOK
  <2>3. op'[t] = "dequeue"
    BY <1>1
  <2>4. Calling'
    BY <1>1, <2>2, <2>3, CallingFrame DEF OpsAt, Pcs
  <2> QED
    BY <2>1, <2>4
<1>6. Ended'
  <2>1. last = list[Len(list)]
    BY <1>1, <1>2 DEF IInv, Ended, Critical
  <2> QED
    BY <1>1, <1>2, <1>3, <2>1 DEF IInv, TypeOK, Ended, Critical
<1>7. Owning'
  <2>1. Owns(t)' = {first} /\ Owns(t) = {}
    BY <1>1 DEF IInv, TypeOK, Owns
  <2>2. \A s \in Thread \ {t} : Owns(s)' = Owns(s)
    BY <1>1 DEF IInv, TypeOK, Owns
  <2>3. \A s \in Thread : first \notin Owns(s)
    BY <1>3 DEF IInv, Owning
  <2>4. first \in allocated
    BY <1>3 DEF IInv, Owning
  <2>5. Listed' \subseteq allocated' /\ \A s \in Thread : Owns(s)' \subseteq allocated' \ Listed'
    BY <1>1, <1>3, <2>1, <2>2, <2>4 DEF IInv, Owning
  <2>6. \A s, r \in Thread : s # r => Owns(s)' \cap Owns(r)' = {}
    BY <2>1, <2>2, <2>3 DEF IInv, Owning
  <2> QED
    BY <2>5, <2>6 DEF Owning
<1>8. Dropping'
  BY <1>1, <1>2 DEF IInv, TypeOK, Dropping, Critical
<1> QED
  BY <1>3, <1>4, <1>5, <1>6, <1>7, <1>8 DEF IInv

LEMMA ResetLastAndUnlockKeepsIInv ==
  ASSUME IInv, NEW t \in Thread, ResetLastAndUnlock(t)
  PROVE  IInv'
<1>1. /\ pc[t] = "unlink" /\ op[t] = "dequeue"
      /\ pc' = [pc EXCEPT ![t] = "return"] /\ mutex' = NULL
      /\ last' = (IF first = NULL THEN HEAD ELSE last)
      /\ UNCHANGED << first, next, list, dropped, allocated, op, update, answer >>
  BY DEF ResetLastAndUnlock, Emptied, Goto, Release, IInv, Calling, OpsAt
<1>2. mutex = t /\ \A s \in Thread \ {t} : pc[s] \notin Critical
  BY <1>1, Alone DEF Critical
<1>3. TypeOK'
  BY <1>1 DEF IInv, TypeOK, Pcs
<1>4. Locking' /\ Calling'
  <2>1. Locking'
    BY <1>1, <1>2, QueueAssumption DEF IInv, TypeOK, Locking, Critical
  <2>2. op'[t] = "dequeue" /\ "return" \in Pcs /\ op'[t] \in OpsAt("return")
    BY <1>1 DEF OpsAt, Operations, Pcs
  <2>3. Calling'
    BY <1>1, <2>2, CallingFrame
  <2> QED
    BY <2>1, <2>3
<1>5. Chained' /\ Listed' = Listed
  BY <1>1, ListFrame
<1>6. Ended'
  BY <1>1, <1>2, EmptyList DEF IInv, TypeOK, Ended, Critical
<1>7. Owning'
  <2>1. \A s \in Thread : Owns(s)' = Owns(s)
    BY <1>1 DEF IInv, TypeOK, Owns
  <2> QED
    BY <1>1, <1>5, <2>1 DEF IInv, Owning
<1>8. Dropping'
  BY <1>1, <1>2 DEF IInv, TypeOK, Dropping, Critical
<1> QED
  BY <1>3, <1>4, <1>5, <1>6, <1>7, <1>8 DEF IInv

LEMMA ClearOneKeepsIInv ==
  ASSUME IInv, NEW t \in Thread, ClearOne(t)
  PROVE  IInv'
<1>1. /\ pc[t] = "clear" /\ op[t] = "clear" /\ list # << >>
      /\ first' = next[first] /\ list' = Tail(list)
      /\ last' = (IF first' = NULL THEN HEAD ELSE last)
      /\ allocated' = allocated \ {first}
      /\ dropped' = (IF Tail(list) = << >> THEN << >> ELSE Append(dropped, Head(list)))
      /\ UNCHANGED << next, mutex, pc, op, update, answer >>
  BY EmptyList DEF ClearOne, Emptied, IInv, Calling, OpsAt
<1>2. mutex = t /\ \A s \in Thread \ {t} : pc[s] \notin Critical
  BY <1>1, Alone DEF Critical
<1>3. /\ Chained' /\ list' \in Seq(Update)
      /\ first = list[1] /\ first \in Update /\ first' \in Update \cup {NULL}
      /\ first \in Listed /\ Listed' = Listed \ {first}
      /\ first' = NULL <=> list' = << >>
      /\ list' # << >> => list'[Len(list')] = list[Len(list)]
  BY <1>1, FirstLeaves
<1>4. dropped' \in Seq(Update)
  <2>1. Head(list) = first
    BY <1>1, <1>3, TailFacts DEF IInv, TypeOK
  <2> QED
    BY <1>1, <1>3, <2>1, AppendFacts DEF IInv, TypeOK
<1>5. TypeOK'
  BY <1>1, <1>3, <1>4 DEF IInv, TypeOK
<1>6. Locking' /\ Calling'
  BY <1>1 DEF IInv, Locking, Calling
<1>7. Ended'
  <2>1. last = list[Len(list)]
    BY <1>1, <1>2 DEF IInv, Ended, Critical
  <2> QED
    BY <1>1, <1>2, <1>3, <2>1 DEF IInv, Ended, Critical
<1>8. Owning'
  <2>1. \A s \in Thread : Owns(s)' = Owns(s) /\ first \notin Owns(s)
    BY <1>1, <1>3 DEF IInv, Owning, Owns
  <2> QED
    BY <1>1, <1>3, <2>1 DEF IInv, Owning
<1>9. Dropping'
  BY <1>1 DEF Dropping
<1> QED
  BY <1>3, <1>5, <1>6, <1>7, <1>8, <1>9 DEF IInv

LEMMA ReturnKeepsIInv ==
  ASSUME IInv, NEW t \in Thread, Return(t)
  PROVE  IInv'
<1>1. /\ pc[t] = "return" /\ pc' = [pc EXCEPT ![t] = "idle"]
      /\ op' = [op EXCEPT ![t] = NULL] /\ update' = [update EXCEPT ![t] = NULL]
      /\ allocated' = (IF op[t] = "dequeue" THEN allocated \ {update[t]} ELSE allocated)
      /\ UNCHANGED << first, last, next, list, dropped, mutex, answer >>
  BY DEF Return, Goto, links
<1>2. TypeOK'
  BY <1>1 DEF IInv, TypeOK, Pcs
<1>3. Locking' /\ Calling' /\ Dropping' /\ Ended'
  <2>1. Locking'
    BY <1>1 DEF IInv, TypeOK, Locking, Critical
  <2>2. op'[t] = NULL /\ "idle" \in Pcs /\ op'[t] \in OpsAt("idle")
    BY <1>1 DEF IInv, TypeOK, OpsAt, Pcs
  <2>3. \A s \in Thread \ {t} : op'[s] = op[s] /\ update'[s] = update[s]
    BY <1>1 DEF IInv, TypeOK
  <2>4. Calling'
    BY <1>1, <2>2, <2>3, CallingFrame, QueueAssumption
  <2>5. Dropping' /\ Ended'
    BY <1>1 DEF IInv, TypeOK, Dropping, Ended
  <2> QED
    BY <2>1, <2>4, <2>5
<1>4. Chained' /\ Listed' = Listed
  BY <1>1, ListFrame
<1>5. Owning'
  <2>1. Owns(t)' = {} /\ \A s \in Thread \ {t} : Owns(s)' = Owns(s)
    BY <1>1 DEF IInv, TypeOK, Owns
  <2>2. allocated' = allocated \ Owns(t)
    BY <1>1, QueueAssumption DEF Owns
  <2> QED
    BY <1>4, <2>1, <2>2 DEF IInv, Owning
<1> QED
  BY <1>2, <1>3, <1>4, <1>5 DEF IInv

LEMMA StepKeepsIInv ==
  ASSUME IInv, [Next]_vars
  PROVE  IInv'
<1>1. CASE UNCHANGED vars
  <2>1. Chained' /\ Listed' = Listed
    BY <1>1, ListFrame DEF vars
  <2>2. \A s \in Thread : Owns(s)' = Owns(s)
    BY <1>1 DEF vars, Owns
  <2> QED
    BY <1>1, <2>1, <2>2 DEF vars, IInv, TypeOK, Locking, Calling, Ended, Owning, Dropping
<1>2. ASSUME NEW t \in Thread,
             Invoke(t) \/ Lock(t) \/ Relock(t) \/ Spurious(t) \/ Work(t) \/ Return(t)
      PROVE  IInv'
  BY <1>2, InvokeKeepsIInv, QuietKeepsIInv, InsertTailKeepsIInv, SignalAndUnlockKeepsIInv,
     RemoveHeadKeepsIInv, ResetLastAndUnlockKeepsIInv, ClearOneKeepsIInv, ReturnKeepsIInv
     DEF Work
<1> QED
  BY <1>1, <1>2 DEF Next

\* Spec => []IInv: the mutex protects the list, which has no cycle and no object
\* that is freed or has another owner, whatever the threads call.
THEOREM Invariant == Spec => []IInv
<1>1. Init => IInv
  BY InitIInv
<1>2. IInv /\ [Next]_vars => IInv'
  BY StepKeepsIInv
<1> QED
  BY <1>1, <1>2, PTL DEF Spec

\* The variables keep their types.
THEOREM TypeCorrect == Spec => []TypeOK
<1>1. IInv => TypeOK
  BY DEF IInv
<1> QED
  BY <1>1, Invariant, PTL

-----------------------------------------------------------------------------
(***************************************************************************)
(* The list in memory.  "list" is the chain that the links form.           *)
(***************************************************************************)
LEMMA ListIsChain ==
  ASSUME IInv
  PROVE  list \in Chains /\ LinkedFromFirst(list)
<1>1. list \in [1 .. Len(list) -> Update] /\ Len(list) \in Nat
  BY DEF IInv, TypeOK
<1>2. list \in Injection(1 .. Len(list), Update)
  BY <1>1 DEF IInv, Chained, Injection, IsInjective
<1>3. Len(list) <= Cardinality(Update) /\ Cardinality(Update) \in Nat
  <2>1. IsFiniteSet(1 .. Len(list)) /\ Cardinality(1 .. Len(list)) = Len(list)
    <3>1. 1 \in Int /\ Len(list) \in Int
      BY <1>1
    <3>2. Cardinality(1 .. Len(list)) = IF 1 > Len(list) THEN 0 ELSE Len(list) - 1 + 1
      BY <3>1, FS_Interval
    <3> QED
      BY <1>1, <3>1, <3>2, FS_Interval
  <2>2. IsFiniteSet(Update) /\ Cardinality(Update) \in Nat
    BY QueueAssumption, FS_CardinalityType
  <2>3. Cardinality(1 .. Len(list)) <= Cardinality(Update)
    BY <1>2, <2>2, FS_Injection
  <2> QED
    BY <2>1, <2>2, <2>3
<1>4. list \in Chains
  <2>1. Len(list) \in 0 .. Cardinality(Update)
    BY <1>1, <1>3
  <2> QED
    BY <1>1, <2>1 DEF Chains
<1>5. first = IF list = << >> THEN NULL ELSE list[1]
  BY DEF IInv, Chained
<1>6. ASSUME NEW i \in 1 .. Len(list)
      PROVE  next[list[i]] = IF i = Len(list) THEN NULL ELSE list[i + 1]
  <2>1. list # << >> /\ (i # Len(list) => i \in 1 .. Len(list) - 1)
    <3>1. Len(list) \in Nat \ {0} /\ i \in Nat
      BY <1>1
    <3>2. list # << >>
      BY <3>1
    <3> QED
      BY <3>1, <3>2
  <2> QED
    BY <2>1 DEF IInv, Chained
<1> QED
  BY <1>4, <1>5, <1>6 DEF LinkedFromFirst

(***************************************************************************)
(* The links of queue.c form one list without a cycle, and no object in it *)
(* is freed or owned by a caller, for any number of threads and whatever   *)
(* they call; sqh_last is right whenever the lock is free                  *)
(* (libqueue.h:345-360, queue.c:22-67).                                    *)
(***************************************************************************)
THEOREM LinksAreSound == Spec => []ListIsWellFormed
<1>1. IInv => ListIsWellFormed
  <2> SUFFICES ASSUME IInv PROVE ListIsWellFormed
    OBVIOUS
  <2>1. list \in Chains /\ LinkedFromFirst(list)
    BY ListIsChain
  <2>2. \A i, j \in 1 .. Len(list) : i # j => list[i] # list[j]
    BY DEF IInv, Chained
  <2>3. \A i \in 1 .. Len(list) :
          list[i] \in allocated /\ \A t \in Thread : list[i] \notin Owns(t)
    BY DEF IInv, Owning, Listed
  <2>4. \A t \in Thread : /\ Owns(t) \subseteq allocated
                          /\ \A s \in Thread \ {t} : Owns(t) \cap Owns(s) = {}
                          /\ pc[t] \notin {"signal", "unlink"} \/ mutex = t
    BY DEF IInv, Owning, Locking, Critical
  <2>5. (\A t \in Thread : pc[t] \notin {"signal", "unlink"}) =>
          last = IF list = << >> THEN HEAD ELSE list[Len(list)]
    BY DEF IInv, Ended
  <2> QED
    BY <2>1, <2>2, <2>3, <2>4, <2>5 DEF ListIsWellFormed
<1> QED
  BY <1>1, Invariant, PTL

-----------------------------------------------------------------------------
(***************************************************************************)
(* The condition.  The threads that will look at the list or announce an   *)
(* element of it:                                                          *)
(***************************************************************************)
Awake == {t \in Thread : pc[t] \in {"woken", "check", "signal"}}

LEMMA AwakeIsFinite == IsFiniteSet(Awake) /\ Cardinality(Awake) \in Nat
<1>1. Awake \subseteq Thread
  BY DEF Awake
<1> QED
  BY <1>1, QueueAssumption, FS_Subset, FS_CardinalityType

\* A step after which the sleepers are among those of before, the list is no
\* longer, and who was awake still is.
LEMMA WakeupFrame ==
  ASSUME IInv, NoLostWakeup, Sleepers' \subseteq Sleepers, Awake \subseteq Awake',
         Len(list') <= Len(list), Len(list') \in Nat
  PROVE  NoLostWakeup'
<1>1. CASE Sleepers' = {}
  BY <1>1 DEF NoLostWakeup
<1>2. CASE Sleepers' # {}
  <2>1. Len(list) <= Cardinality(Awake) /\ Len(list) \in Nat
    BY <1>2 DEF NoLostWakeup, Awake, IInv, TypeOK
  <2>2. IsFiniteSet(Awake') /\ Cardinality(Awake') \in Nat
    <3>1. Awake' \subseteq Thread
      BY DEF Awake
    <3> QED
      BY <3>1, QueueAssumption, FS_Subset, FS_CardinalityType
  <2>3. Cardinality(Awake) <= Cardinality(Awake')
    BY <2>2, FS_Subset
  <2>4. Len(list') <= Cardinality(Awake')
    BY <2>1, <2>2, <2>3, AwakeIsFinite
  <2> QED
    BY <2>4 DEF NoLostWakeup, Awake
<1> QED
  BY <1>1, <1>2

LEMMA InsertKeepsWakeup ==
  ASSUME IInv, NoLostWakeup, NEW t \in Thread, InsertTail(t)
  PROVE  NoLostWakeup'
<1>1. pc[t] = "insert" /\ pc' = [pc EXCEPT ![t] = "signal"] /\ pc \in [Thread -> Pcs]
  BY DEF InsertTail, Goto, IInv, TypeOK
<1>2. Len(list') = Len(list) + 1 /\ Len(list) \in Nat
  BY AppendFacts DEF InsertTail, IInv, TypeOK, Calling, OpsAt
<1>3. Sleepers' = Sleepers /\ Awake' = Awake \cup {t} /\ t \notin Awake
  BY <1>1 DEF Sleepers, Awake
<1>4. Cardinality(Awake') = Cardinality(Awake) + 1
  BY <1>3, AwakeIsFinite, FS_AddElement
<1> QED
  BY <1>2, <1>3, <1>4, AwakeIsFinite DEF NoLostWakeup, Awake

\* The signal passes the duty on to a sleeper.
LEMMA SignalKeepsWakeup ==
  ASSUME IInv, NoLostWakeup, NEW t \in Thread, SignalAndUnlock(t)
  PROVE  NoLostWakeup'
<1>1. pc[t] = "signal" /\ pc \in [Thread -> Pcs] /\ UNCHANGED list /\ Len(list) \in Nat
  BY DEF SignalAndUnlock, IInv, TypeOK
<1>2. CASE Sleepers = {}
  <2>1. Sleepers' = {}
    BY <1>1, <1>2 DEF SignalAndUnlock, Wake, Goto, Sleepers
  <2> QED
    BY <2>1 DEF NoLostWakeup
<1>3. CASE Sleepers # {}
  <2>1. PICK s \in Sleepers : pc' = [pc EXCEPT ![t] = "return", ![s] = "woken"]
    BY <1>3 DEF SignalAndUnlock, Wake
  <2>2. s \in Thread /\ pc[s] = "wait" /\ s # t
    BY <1>1 DEF Sleepers
  <2>3. Awake' = (Awake \ {t}) \cup {s} /\ t \in Awake /\ s \notin Awake \ {t}
    BY <1>1, <2>1, <2>2 DEF Awake
  <2>4. IsFiniteSet(Awake \ {t}) /\ Cardinality(Awake \ {t}) = Cardinality(Awake) - 1
    BY <2>3, AwakeIsFinite, FS_RemoveElement
  <2>5. Cardinality(Awake') = Cardinality(Awake \ {t}) + 1
    BY <2>3, <2>4, FS_AddElement
  <2>6. Cardinality(Awake') = Cardinality(Awake)
    BY <2>4, <2>5, AwakeIsFinite
  <2> QED
    BY <1>1, <1>3, <2>6 DEF NoLostWakeup, Awake
<1> QED
  BY <1>2, <1>3

LEMMA RemoveKeepsWakeup ==
  ASSUME IInv, NoLostWakeup, NEW t \in Thread, RemoveHead(t)
  PROVE  NoLostWakeup'
<1>1. pc[t] = "check" /\ pc' = [pc EXCEPT ![t] = "unlink"] /\ pc \in [Thread -> Pcs]
  BY DEF RemoveHead, Goto, IInv, TypeOK
<1>2. Len(list') = Len(list) - 1 /\ Len(list) \in Nat
  BY EmptyList, TailFacts DEF RemoveHead, IInv, TypeOK
<1>3. Sleepers' = Sleepers /\ Awake' = Awake \ {t} /\ t \in Awake
  BY <1>1 DEF Sleepers, Awake
<1>4. Cardinality(Awake') = Cardinality(Awake) - 1
  BY <1>3, AwakeIsFinite, FS_RemoveElement
<1> QED
  BY <1>2, <1>3, <1>4, AwakeIsFinite DEF NoLostWakeup, Awake

LEMMA StepKeepsWakeup == IInv /\ NoLostWakeup /\ [Next]_vars => NoLostWakeup'
<1> SUFFICES ASSUME IInv, NoLostWakeup, [Next]_vars PROVE NoLostWakeup'
  OBVIOUS
<1>1. CASE UNCHANGED vars
  BY <1>1 DEF vars, NoLostWakeup, Sleepers
<1>2. ASSUME NEW t \in Thread,
             Invoke(t) \/ Lock(t) \/ Relock(t) \/ Spurious(t) \/ Work(t) \/ Return(t)
      PROVE  NoLostWakeup'
  <2>1. pc \in [Thread -> Pcs] /\ Len(list) \in Nat
    BY DEF IInv, TypeOK
  <2>2. CASE Wait(t)
    <3>1. list' = << >>
      BY <2>2, EmptyList DEF Wait, links
    <3>2. Awake' \subseteq Thread
      BY DEF Awake
    <3>3. Cardinality(Awake') \in Nat
      BY <3>2, QueueAssumption, FS_Subset, FS_CardinalityType
    <3> QED
      BY <3>1, <3>3 DEF NoLostWakeup, Awake
  <2>3. CASE \/ Invoke(t) \/ CheckIsEmpty(t) \/ Lock(t) \/ Relock(t) \/ Spurious(t)
             \/ ResetLastAndUnlock(t) \/ ClearDone(t) \/ Return(t)
    <3>1. UNCHANGED list
      BY <2>3 DEF Invoke, CheckIsEmpty, Lock, Relock, Spurious, ResetLastAndUnlock,
         ClearDone, Return, links
    <3>2. PICK q \in {"idle", "test", "lock", "insert", "check", "clear", "woken", "return"} :
            /\ pc' = [pc EXCEPT ![t] = q]
            /\ pc[t] \in {"woken", "check", "signal"} => q = "check"
      BY <2>3 DEF Invoke, CheckIsEmpty, Lock, Entry, Relock, Spurious, ResetLastAndUnlock,
         ClearDone, Return, Goto
    <3>3. Sleepers' \subseteq Sleepers /\ Awake \subseteq Awake'
      BY <2>1, <3>2 DEF Sleepers, Awake
    <3> QED
      BY <2>1, <3>1, <3>3, WakeupFrame
  <2>4. CASE ClearOne(t)
    <3>1. UNCHANGED pc /\ Len(list') = Len(list) - 1 /\ Len(list') \in Nat
      BY <2>4, EmptyList, TailFacts DEF ClearOne, IInv, TypeOK
    <3>2. Sleepers' = Sleepers /\ Awake' = Awake
      BY <3>1 DEF Sleepers, Awake
    <3> QED
      BY <2>1, <3>1, <3>2, WakeupFrame
  <2> QED
    BY <1>2, <2>2, <2>3, <2>4, InsertKeepsWakeup, SignalKeepsWakeup, RemoveKeepsWakeup
    DEF Work
<1> QED
  BY <1>1, <1>2 DEF Next

(***************************************************************************)
(* While a thread sleeps in mux_queue_dequeue, every element has a thread  *)
(* that is on its way to take one, or is about to be announced: one signal *)
(* per element is enough, for any number of consumers (queue.c:22-51).     *)
(***************************************************************************)
THEOREM NoWakeupIsLost == Spec => []NoLostWakeup
<1>1. Init => NoLostWakeup
  BY DEF Init, NoLostWakeup, Sleepers
<1> QED
  BY <1>1, StepKeepsWakeup, Invariant, PTL DEF Spec

-----------------------------------------------------------------------------
(***************************************************************************)
(* The refinement.  What FifoQueue sees of the state:                      *)
(***************************************************************************)
Contents == dropped \o list

RequestOf(t) ==
  IF op[t] = NULL THEN NULL
  ELSE [op |-> op[t], arg |-> IF op[t] = "enqueue" THEN update[t] ELSE NULL]

ReplyOf(t) == IF Took(t) THEN << Result(t) >> ELSE NULL

Request == [t \in Thread |-> RequestOf(t)]
Reply == [t \in Thread |-> ReplyOf(t)]

\* A step of t that changes nothing the others can see.
LEMMA OthersKeep ==
  ASSUME IInv, NEW t \in Thread, NEW s \in Thread \ {t},
         pc'[s] = pc[s] \/ (pc[s] = "wait" /\ pc'[s] = "woken"),
         op'[s] = op[s], update'[s] = update[s], answer'[s] = answer[s],
         first' = first \/ pc[t] \in Critical
  PROVE  RequestOf(s)' = RequestOf(s) /\ ReplyOf(s)' = ReplyOf(s)
<1>1. RequestOf(s)' = RequestOf(s) /\ Result(s)' = Result(s)
  BY DEF RequestOf, Result
<1>2. Took(s)' = Took(s)
  <2>1. first' = first \/ pc[s] # "clear"
    BY Alone DEF Critical
  <2> QED
    BY <2>1 DEF Took
<1> QED
  BY <1>1, <1>2 DEF ReplyOf

\* A request has the shape of a record, so that it is not NULL; nor is a reply.
LEMMA Pending ==
  ASSUME IInv, NEW t \in Thread, op[t] # NULL
  PROVE  /\ RequestOf(t) # NULL /\ RequestOf(t).op = op[t]
         /\ op[t] = "enqueue" => RequestOf(t).arg = update[t]
         /\ RequestOf(t) \in [op : Operations, arg : Update \cup {NULL}]
<1>1. op[t] \in Operations /\ update[t] \in Update \cup {NULL}
  BY DEF IInv, TypeOK, Operations
<1>2. RequestOf(t) = [op |-> op[t], arg |-> IF op[t] = "enqueue" THEN update[t] ELSE NULL]
  BY DEF RequestOf
<1>3. RequestOf(t) \in [op : Operations, arg : Update \cup {NULL}]
  BY <1>1, <1>2
<1> QED
  BY <1>2, <1>3, QueueAssumption DEF Operations

LEMMA ReplyIsSome ==
  ASSUME IInv, NEW t \in Thread, Took(t)
  PROVE  ReplyOf(t) = << Result(t) >> /\ ReplyOf(t) # NULL
<1>1. Result(t) \in Update \cup {NULL} \cup BOOLEAN
  BY DEF Result, IInv, TypeOK
<1> QED
  BY <1>1, QueueAssumption DEF ReplyOf

\* How a step shows to FifoQueue: as no step,
LEMMA Stutters ==
  ASSUME Contents' = Contents, \A t \in Thread : RequestOf(t)' = RequestOf(t) /\ ReplyOf(t)' = ReplyOf(t)
  PROVE  UNCHANGED Fifo!fifoVars
<1>1. Request' = Request /\ Reply' = Reply
  BY DEF Request, Reply
<1> QED
  BY <1>1 DEF Contents, Request, Reply, RequestOf, ReplyOf, Fifo!fifoVars

\* and as the step of one thread.
LEMMA OneReplies ==
  ASSUME NEW t \in Thread,
         \A s \in Thread : RequestOf(s)' = RequestOf(s),
         \A s \in Thread \ {t} : ReplyOf(s)' = ReplyOf(s)
  PROVE  Request' = Request /\ Reply' = [Reply EXCEPT ![t] = ReplyOf(t)']
<1>1. Reply' = [s \in Thread |-> ReplyOf(s)'] /\ Request' = [s \in Thread |-> RequestOf(s)']
  BY DEF Reply, Request
<1> QED
  BY <1>1 DEF Reply, Request

LEMMA InvokeMaps ==
  ASSUME IInv, NEW t \in Thread, Invoke(t)
  PROVE  Fifo!Call(t)
<1>1. /\ pc[t] = "idle" /\ op[t] = NULL /\ pc'[t] \in {"test", "lock"} /\ op'[t] \in Operations
      /\ \A s \in Thread \ {t} : pc'[s] = pc[s] /\ op'[s] = op[s] /\ update'[s] = update[s]
      /\ UNCHANGED << first, answer, list, dropped >>
  <2>1. PICK o \in Calls[t] :
          /\ op' = [op EXCEPT ![t] = o]
          /\ pc' = [pc EXCEPT ![t] = IF o = "empty" THEN "test" ELSE "lock"]
          /\ \/ \E u \in Update : update' = [update EXCEPT ![t] = u]
             \/ update' = update
    BY DEF Invoke, Goto
  <2>2. o \in Operations
    BY QueueAssumption DEF Operations
  <2>3. pc[t] = "idle" /\ op[t] \in {NULL} /\ UNCHANGED << first, answer, list, dropped >>
    BY DEF Invoke, IInv, Calling, OpsAt
  <2> QED
    BY <2>1, <2>2, <2>3 DEF IInv, TypeOK
<1>2. IInv' /\ op'[t] # NULL
  BY <1>1, InvokeKeepsIInv, QueueAssumption DEF Operations
<1>3. Contents' = Contents
  BY <1>1 DEF Contents
<1>4. \A s \in Thread \ {t} : RequestOf(s)' = RequestOf(s) /\ ReplyOf(s)' = ReplyOf(s)
  BY <1>1, OthersKeep
<1>5. ReplyOf(t)' = ReplyOf(t)
  BY <1>1 DEF ReplyOf, Took
<1>6. RequestOf(t)' \in Fifo!Requests
  <2>1. op'[t] \in Operations /\ update'[t] \in Update \cup {NULL}
    BY <1>1, <1>2 DEF IInv, TypeOK
  <2>2. RequestOf(t)' = [op |-> op'[t], arg |-> IF op'[t] = "enqueue" THEN update'[t] ELSE NULL]
    BY <1>2 DEF RequestOf
  <2> QED
    BY <2>1, <2>2 DEF Fifo!Requests, Fifo!Operations, Operations
<1>7. Request[t] = NULL /\ Request' = [Request EXCEPT ![t] = RequestOf(t)'] /\ Reply' = Reply
  BY <1>1, <1>4, <1>5 DEF Request, Reply, RequestOf
<1> QED
  BY <1>3, <1>6, <1>7 DEF Fifo!Call, Contents, Request, Reply, RequestOf, ReplyOf

LEMMA CheckIsEmptyMaps ==
  ASSUME IInv, NEW t \in Thread, CheckIsEmpty(t)
  PROVE  Fifo!CheckIsEmpty(t)
<1>1. /\ pc[t] = "test" /\ op[t] = "empty" /\ pc'[t] = "return"
      /\ pc' = [pc EXCEPT ![t] = "return"] /\ answer' = [answer EXCEPT ![t] = (first = NULL)]
      /\ UNCHANGED << first, list, dropped, op, update >>
  BY DEF CheckIsEmpty, Goto, links, IInv, TypeOK, Calling, OpsAt
<1>2. first = NULL <=> Contents = << >>
  <2>1. list = << >> => dropped = << >>
    BY DEF IInv, Dropping
  <2>2. list \in Seq(Update) /\ dropped \in Seq(Update)
    BY DEF IInv, TypeOK
  <2>3. list # << >> => dropped \o list # << >>
    BY <2>2
  <2>4. list = << >> => dropped \o list = << >>
    BY <2>1, <2>2
  <2> QED
    BY <2>3, <2>4, EmptyList DEF Contents
<1>3. \A s \in Thread \ {t} : ReplyOf(s)' = ReplyOf(s)
  BY <1>1, OthersKeep DEF IInv, TypeOK
<1>4. \A s \in Thread : RequestOf(s)' = RequestOf(s)
  BY <1>1 DEF RequestOf
<1>5. Request' = Request /\ Reply' = [Reply EXCEPT ![t] = ReplyOf(t)'] /\ Contents' = Contents
  BY <1>1, <1>3, <1>4, OneReplies DEF Contents
<1>6. ReplyOf(t)' = << Contents = << >> >>
  <2>1. answer'[t] = (first = NULL)
    BY <1>1 DEF IInv, TypeOK
  <2>2. answer'[t] = (Contents = << >>)
    BY <1>2, <2>1, Zenon
  <2>3. ReplyOf(t)' = << answer'[t] >>
    BY <1>1 DEF ReplyOf, Took, Result
  <2> QED
    BY <2>2, <2>3, Zenon
<1>7. Fifo!Pending(t, "empty")
  <2>1. Request[t] # NULL /\ Request[t].op = "empty"
    BY <1>1, Pending, QueueAssumption DEF Request
  <2>2. Reply[t] = NULL
    BY <1>1 DEF Reply, ReplyOf, Took
  <2> QED
    BY <2>1, <2>2 DEF Fifo!Pending, Request, Reply, RequestOf, ReplyOf
<1> QED
  BY <1>5, <1>6, <1>7, Zenon DEF Fifo!CheckIsEmpty, Fifo!Answer, Contents, Request, Reply, RequestOf, ReplyOf

\* A step of t whose request takes effect.
LEMMA TakesEffect ==
  ASSUME IInv, NEW t \in Thread, op[t] \in Operations, ~ Took(t), Took(t)',
         UNCHANGED << op, update >> \/ (op' = op /\ op[t] # "enqueue"
                                        /\ \A s \in Thread \ {t} : update'[s] = update[s]),
         \A s \in Thread \ {t} : /\ pc'[s] = pc[s] /\ answer'[s] = answer[s]
                                 /\ first' = first \/ pc[t] \in Critical
  PROVE  /\ Request' = Request /\ Reply' = [Reply EXCEPT ![t] = << Result(t)' >>]
         /\ Request[t] # NULL /\ Request[t].op = op[t] /\ Reply[t] = NULL
         /\ op[t] = "enqueue" => Request[t].arg = update[t]
<1>1. \A s \in Thread : RequestOf(s)' = RequestOf(s)
  BY DEF RequestOf
<1>2. \A s \in Thread \ {t} : ReplyOf(s)' = ReplyOf(s)
  BY OthersKeep
<1>3. Request' = Request /\ Reply' = [Reply EXCEPT ![t] = ReplyOf(t)']
  BY <1>1, <1>2, OneReplies
<1>4. ReplyOf(t)' = << Result(t)' >> /\ Reply[t] = NULL
  BY DEF ReplyOf, Reply
<1>5. op[t] # NULL
  BY QueueAssumption DEF Operations
<1> QED
  BY <1>3, <1>4, <1>5, Pending DEF Request

LEMMA LockMaps ==
  ASSUME IInv, NEW t \in Thread, Lock(t)
  PROVE  UNCHANGED Fifo!fifoVars \/ Fifo!Clear(t)
<1>1. /\ pc[t] = "lock" /\ op[t] \in {"enqueue", "dequeue", "clear"} /\ pc'[t] = Entry(op[t])
      /\ \A s \in Thread \ {t} : pc'[s] = pc[s]
      /\ UNCHANGED << first, list, dropped, op, update, answer >>
  BY DEF Lock, Goto, links, IInv, TypeOK, Calling, OpsAt
<1>2. Contents' = Contents /\ \A s \in Thread : RequestOf(s)' = RequestOf(s)
  BY <1>1 DEF Contents, RequestOf
<1>3. CASE op[t] = "clear" /\ first = NULL
  <2>1. Took(t)' /\ ~ Took(t) /\ Result(t)' = NULL /\ op[t] \in Operations
    BY <1>1, <1>3 DEF Took, Entry, Result, Operations
  <2>2. Contents = << >>
    BY <1>3, EmptyList DEF IInv, Dropping, Contents
  <2>3. /\ Request' = Request /\ Reply' = [Reply EXCEPT ![t] = << NULL >>]
        /\ Request[t] # NULL /\ Request[t].op = "clear" /\ Reply[t] = NULL
    BY <1>1, <1>3, <2>1, TakesEffect
  <2> QED
    BY <1>2, <2>2, <2>3
       DEF Fifo!Clear, Fifo!Pending, Fifo!Answer, Contents, Request, Reply, RequestOf, ReplyOf
<1>4. CASE ~ (op[t] = "clear" /\ first = NULL)
  <2>1. ~ Took(t)' /\ ~ Took(t)
    BY <1>1, <1>4 DEF Took, Entry
  <2>2. ReplyOf(t)' = ReplyOf(t)
    BY <2>1 DEF ReplyOf
  <2>3. \A s \in Thread \ {t} : ReplyOf(s)' = ReplyOf(s)
    BY <1>1, OthersKeep
  <2> QED
    BY <1>2, <2>2, <2>3, Stutters
<1> QED
  BY <1>3, <1>4

LEMMA InsertTailMaps ==
  ASSUME IInv, NEW t \in Thread, InsertTail(t)
  PROVE  Fifo!Enqueue(t)
<1>1. /\ pc[t] = "insert" /\ op[t] = "enqueue" /\ pc' = [pc EXCEPT ![t] = "signal"]
      /\ list' = Append(list, update[t]) /\ update[t] \in Update
      /\ UNCHANGED << dropped, op, update, answer >>
  BY DEF InsertTail, Goto, IInv, Calling, OpsAt
<1>2. Took(t)' /\ ~ Took(t) /\ Result(t)' = NULL /\ op[t] \in Operations
  BY <1>1 DEF Took, Result, Operations, IInv, TypeOK
<1>3. Contents' = Append(Contents, update[t])
  BY <1>1 DEF Contents, IInv, TypeOK
<1>4. /\ Request' = Request /\ Reply' = [Reply EXCEPT ![t] = << NULL >>]
      /\ Request[t] # NULL /\ Request[t].op = "enqueue" /\ Reply[t] = NULL
      /\ Request[t].arg = update[t]
  BY <1>1, <1>2, TakesEffect DEF Critical, IInv, TypeOK
<1> QED
  BY <1>3, <1>4
     DEF Fifo!Enqueue, Fifo!Pending, Fifo!Answer, Contents, Request, Reply, RequestOf, ReplyOf

LEMMA RemoveHeadMaps ==
  ASSUME IInv, NEW t \in Thread, RemoveHead(t)
  PROVE  Fifo!Dequeue(t)
<1>1. /\ pc[t] = "check" /\ op[t] = "dequeue" /\ pc' = [pc EXCEPT ![t] = "unlink"]
      /\ list # << >> /\ list' = Tail(list) /\ update' = [update EXCEPT ![t] = first]
      /\ UNCHANGED << dropped, op, answer >>
  BY EmptyList DEF RemoveHead, Goto, IInv, Calling, OpsAt
<1>2. Took(t)' /\ ~ Took(t) /\ Result(t)' = first /\ op[t] \in Operations
  BY <1>1 DEF Took, Result, Operations, IInv, TypeOK
<1>3. dropped = << >>
  BY <1>1, Alone DEF IInv, Dropping, Critical
<1>4. Contents = list /\ Contents' = list' /\ Head(list) = first
  BY <1>1, <1>3, TailFacts DEF Contents, IInv, TypeOK, Chained
<1>5. /\ Request' = Request /\ Reply' = [Reply EXCEPT ![t] = << first >>]
      /\ Request[t] # NULL /\ Request[t].op = "dequeue" /\ Reply[t] = NULL
  BY <1>1, <1>2, TakesEffect DEF Critical, IInv, TypeOK
<1> QED
  BY <1>1, <1>4, <1>5
     DEF Fifo!Dequeue, Fifo!Pending, Fifo!Answer, Contents, Request, Reply, RequestOf, ReplyOf

LEMMA ClearOneMaps ==
  ASSUME IInv, NEW t \in Thread, ClearOne(t)
  PROVE  UNCHANGED Fifo!fifoVars \/ Fifo!Clear(t)
<1>1. /\ pc[t] = "clear" /\ op[t] = "clear" /\ list # << >> /\ first # NULL
      /\ first' = next[first] /\ list' = Tail(list)
      /\ dropped' = (IF Tail(list) = << >> THEN << >> ELSE Append(dropped, Head(list)))
      /\ UNCHANGED << next, pc, op, update, answer >>
  BY EmptyList DEF ClearOne, IInv, Calling, OpsAt
<1>2. first' = NULL <=> list' = << >>
  BY <1>1, FirstLeaves
<1>3. \A s \in Thread \ {t} : ReplyOf(s)' = ReplyOf(s)
  BY <1>1, OthersKeep DEF Critical
<1>4. \A s \in Thread : RequestOf(s)' = RequestOf(s)
  BY <1>1 DEF RequestOf
<1>5. CASE list' = << >>
  <2>1. Took(t)' /\ ~ Took(t) /\ Result(t)' = NULL /\ op[t] \in Operations
    BY <1>1, <1>2, <1>5 DEF Took, Result, Operations
  <2>2. Contents' = << >>
    BY <1>1, <1>5 DEF Contents
  <2>3. /\ Request' = Request /\ Reply' = [Reply EXCEPT ![t] = << NULL >>]
        /\ Request[t] # NULL /\ Request[t].op = "clear" /\ Reply[t] = NULL
    BY <1>1, <2>1, TakesEffect DEF Critical
  <2> QED
    BY <2>2, <2>3
       DEF Fifo!Clear, Fifo!Pending, Fifo!Answer, Contents, Request, Reply, RequestOf, ReplyOf
<1>6. CASE list' # << >>
  <2>1. ReplyOf(t)' = ReplyOf(t)
    BY <1>1, <1>2, <1>6 DEF ReplyOf, Took
  <2>2. Contents' = Contents
    BY <1>1, <1>6, MoveHead DEF Contents, IInv, TypeOK
  <2> QED
    BY <1>3, <1>4, <2>1, <2>2, Stutters
<1> QED
  BY <1>5, <1>6

LEMMA ReturnMaps ==
  ASSUME IInv, NEW t \in Thread, Return(t)
  PROVE  Fifo!Return(t)
<1>1. /\ pc[t] = "return" /\ pc' = [pc EXCEPT ![t] = "idle"]
      /\ op' = [op EXCEPT ![t] = NULL] /\ update' = [update EXCEPT ![t] = NULL]
      /\ UNCHANGED << first, list, dropped, answer >>
  BY DEF Return, Goto, links
<1>2. \A s \in Thread \ {t} : RequestOf(s)' = RequestOf(s) /\ ReplyOf(s)' = ReplyOf(s)
  BY <1>1, OthersKeep DEF IInv, TypeOK
<1>3. RequestOf(t)' = NULL /\ ReplyOf(t)' = NULL /\ Contents' = Contents
  BY <1>1 DEF RequestOf, ReplyOf, Took, Contents, IInv, TypeOK
<1>4. Reply[t] # NULL
  BY <1>1, ReplyIsSome DEF Reply, Took
<1>5. Request' = [Request EXCEPT ![t] = NULL] /\ Reply' = [Reply EXCEPT ![t] = NULL]
  BY <1>2, <1>3 DEF Request, Reply
<1> QED
  BY <1>3, <1>4, <1>5 DEF Fifo!Return, Contents, Request, Reply, RequestOf, ReplyOf

\* The steps FifoQueue does not see.
LEMMA InnerStutters ==
  ASSUME IInv, NEW t \in Thread,
         SignalAndUnlock(t) \/ Wait(t) \/ Spurious(t) \/ Relock(t)
         \/ ResetLastAndUnlock(t) \/ ClearDone(t)
  PROVE  UNCHANGED Fifo!fifoVars
<1>1. UNCHANGED << first, list, dropped, op, update, answer >>
  BY DEF SignalAndUnlock, Wait, Spurious, Relock, ResetLastAndUnlock, ClearDone, links
<1>2. Took(t)' = Took(t) /\ \A s \in Thread \ {t} : pc'[s] = pc[s] \/ (pc[s] = "wait" /\ pc'[s] = "woken")
  BY DEF SignalAndUnlock, Wait, Spurious, Relock, ResetLastAndUnlock, ClearDone,
         Goto, Wake, Sleepers, Took, IInv, TypeOK, links
<1>3. \A s \in Thread \ {t} : ReplyOf(s)' = ReplyOf(s)
  BY <1>1, <1>2, OthersKeep
<1>4. ReplyOf(t)' = ReplyOf(t)
  BY <1>1, <1>2 DEF ReplyOf, Result
<1>5. Contents' = Contents /\ \A s \in Thread : RequestOf(s)' = RequestOf(s)
  BY <1>1 DEF Contents, RequestOf
<1> QED
  BY <1>3, <1>4, <1>5, Stutters

\* queue.c implements the first-in first-out queue of FifoQueue: each call takes
\* effect at one instant, for all threads, objects and calls.
THEOREM ImplementsFifo == Spec => IsFifo
<1>1. Init => Fifo!FifoInit
  BY DEF Init, Fifo!FifoInit, Took
<1>2. IInv /\ [Next]_vars => [Fifo!FifoNext]_Fifo!fifoVars
  <2> SUFFICES ASSUME IInv, [Next]_vars PROVE [Fifo!FifoNext]_Fifo!fifoVars
    OBVIOUS
  <2>1. CASE UNCHANGED vars
    <3>1. Contents' = Contents
          /\ \A t \in Thread : RequestOf(t)' = RequestOf(t) /\ ReplyOf(t)' = ReplyOf(t)
      BY <2>1 DEF vars, Contents, RequestOf, ReplyOf, Took, Result
    <3> QED
      BY <3>1, Stutters
  <2>2. ASSUME NEW t \in Thread,
               Invoke(t) \/ Lock(t) \/ Relock(t) \/ Spurious(t) \/ Work(t) \/ Return(t)
        PROVE  Fifo!FifoNext \/ UNCHANGED Fifo!fifoVars
    <3>1. \/ Fifo!Call(t) \/ Fifo!CheckIsEmpty(t) \/ Fifo!Enqueue(t) \/ Fifo!Dequeue(t)
          \/ Fifo!Clear(t) \/ Fifo!Return(t) \/ UNCHANGED Fifo!fifoVars
      BY <2>2, InvokeMaps, CheckIsEmptyMaps, LockMaps, InsertTailMaps, RemoveHeadMaps,
         ClearOneMaps, ReturnMaps, InnerStutters DEF Work
    <3> QED
      BY <3>1, Zenon DEF Fifo!FifoNext, Fifo!Effect
  <2> QED
    BY <2>1, <2>2 DEF Next
<1> QED
  BY <1>1, <1>2, Invariant, PTL DEF Spec, IsFifo, Fifo!FifoSafe
=============================================================================
