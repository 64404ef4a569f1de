---------------------------- MODULE MuxMessages ----------------------------
(***************************************************************************)
(* Messages between the library and the server: msgpack.c, with the        *)
(* MessagePack library it calls (Cmp) instantiated with its two callbacks, *)
(* and the two wrappers of 0mq.c around the socket.                        *)
(*                                                                         *)
(* The main loop serialises an update and sends it, or receives a message  *)
(* and decodes it; each is one step, nothing in it can be observed by      *)
(* another thread.  The server answers with arrays of numbers, perhaps of  *)
(* another protocol version: shorter, longer, or not for this VM.          *)
(***************************************************************************)
EXTENDS Integers, Sequences

CONSTANTS
  BYTE, W16, W32, W64, FIXARRAY_SIZE, FIXMAP_SIZE, FIXSTR_SIZE,  \* see Cmp
  MinAlloc,    \* the least malloc_usable_size: 24
  Junk,        \* a byte nobody has written
  UUIDs, UUID, \* names of VMs, and of this one
  Updates,     \* what may be queued for sending; << >> is NULL
  Answers,     \* fields of the messages the server may send
  MaxMessages  \* bound: messages in both directions together

VARIABLES
  msg,         \* the nnStr of the last message written
  len,         \* what mux_write_outgoing_msg returned for it
  toServer,    \* frames on their way to the server
  toLibrary,   \* frames on their way to the library
  framerate,   \* display->framerate
  calls,       \* the callbacks invoked, in order
  held,        \* receive buffers allocated and not freed
  sent,        \* history: the updates serialised
  understood,  \* history: what the server decoded
  answered,    \* history: the messages the server sent
  handled      \* history: how many of them the library has taken

vars == << msg, len, toServer, toLibrary, framerate, calls, held,
           sent, understood, answered, handled >>

-----------------------------------------------------------------------------
(* The byte buffer and the callbacks given to the MessagePack library.     *)

mux_nnstr_init(buf, size) == [buf |-> buf, size |-> size, pos |-> 0]
NullBuf == << >>

Filled(n, value) == [i \in 1 .. n |-> value]

\* malloc_usable_size of a new block of n bytes.
Usable(n) == IF n < MinAlloc THEN MinAlloc ELSE n

\* The bytes copied at pos; beyond the size they overrun the block.
Copied(m, data) ==
  [m EXCEPT !.pos = @ + Len(data),
            !.buf = [i \in 1 .. (IF m.pos + Len(data) > Len(m.buf)
                                 THEN m.pos + Len(data) ELSE Len(m.buf)) |->
                       IF i \in m.pos + 1 .. m.pos + Len(data) THEN data[i - m.pos]
                       ELSE m.buf[i]]]

\* wrong: the block grows only once the place has left it
WrongWriter(c, data) ==
  LET m == c.buf
      n == Len(data)
      room == IF m.buf = NullBuf
              THEN [m EXCEPT !.buf = Filled(n, 0) \o Filled(Usable(n) - n, Junk),
                             !.size = Usable(n)]
              ELSE IF m.pos > m.size
              THEN [m EXCEPT !.buf = @ \o Filled(m.size, Junk), !.size = 2 * m.size]
              ELSE m
  IN [n |-> n, ctx |-> [c EXCEPT !.buf = Copied(room, data)]]

\* The cmp_writer: the first write allocates and clears n bytes, a later one
\* doubles the block once if it is too small.
mux_msg_writer(c, data) ==
  LET m == c.buf
      n == Len(data)
      room == IF m.buf = NullBuf
              THEN [m EXCEPT !.buf = Filled(n, 0) \o Filled(Usable(n) - n, Junk),
                             !.size = Usable(n)]
              ELSE IF m.pos + n > m.size
              THEN [m EXCEPT !.buf = @ \o Filled(m.size, Junk), !.size = 2 * m.size]
              ELSE m
  IN [n |-> n, ctx |-> [c EXCEPT !.buf = Copied(room, data)]]

\* The cmp_reader.
mux_msg_reader(c, limit) ==
  LET m == c.buf
  IN IF m.pos + limit > m.size THEN [ok |-> FALSE, ctx |-> c, data |-> << >>]
     ELSE [ok |-> TRUE, ctx |-> [c EXCEPT !.buf.pos = @ + limit],
           data |-> SubSeq(m.buf, m.pos + 1, m.pos + limit)]

Pack == INSTANCE Cmp WITH write <- mux_msg_writer, read <- mux_msg_reader

\* The least block holds any single write of the messages, and junk is no byte.
ASSUME MessageAssumption ==
  Pack!LayoutFits /\ MinAlloc \in Nat /\ W64 <= MinAlloc /\ Junk \notin 0 .. BYTE - 1

-----------------------------------------------------------------------------
(* Outgoing messages.                                                      *)

DISPLAY_UPDATE == 0
DISPLAY_SWITCH == 1
MOUSE == 2
KEYBOARD == 3
DISPLAY_UPDATE_COMPLETE == 4
SHUTDOWN == 5

\* The fields of an update are C ints.
HasNumbers(u) ==
  u = << >> \/ IF u[1].type = DISPLAY_UPDATE
               THEN {u[1].x1, u[1].y1, u[1].x2, u[1].y2} \subseteq Int
               ELSE {u[1].format, u[1].w, u[1].h} \subseteq Int

ASSUME UpdatesAssumption == \A u \in Updates : HasNumbers(u)

\* The numbers of an answer have 64 bits, their count 32.
ASSUME AnswersAssumption ==
  \A f \in Answers : f \in Seq(0 .. Pack!Values[W64] - 1) /\ Len(f) < Pack!Values[W32]

\* A number passed to cmp_write_uint is converted to uint64_t.
Uint64(v) == v % Pack!Values[W64]

\* The header of an array of n numbers, and its next number; a failed write is
\* logged and the next one tried.
PutArray(c, n) == Pack!cmp_write_array(c, n).ctx
PutUint(c, f) == Pack!cmp_write_uinteger(c, Uint64(f)).ctx

\* wrong: the far corner is sent instead of the size
WrongUpdate(c, u) ==
  LET corner == PutUint(PutUint(PutUint(PutArray(c, 5), DISPLAY_UPDATE), u.x1), u.y1)
  IN PutUint(PutUint(corner, u.x2), u.y2)

mux_write_outgoing_update_msg(c, u) ==
  LET type  == PutUint(PutArray(c, 5), DISPLAY_UPDATE)
      x     == PutUint(type, u.x1)
      y     == PutUint(x, u.y1)
      width == PutUint(y, u.x2 - u.x1)
  IN PutUint(width, u.y2 - u.y1)

\* wrong: the height is forgotten
WrongSwitch(c, u) ==
  PutUint(PutUint(PutUint(PutArray(c, 3), DISPLAY_SWITCH), u.format), u.w)

mux_write_outgoing_switch_msg(c, u) ==
  LET type   == PutUint(PutArray(c, 4), DISPLAY_SWITCH)
      format == PutUint(type, u.format)
      width  == PutUint(format, u.w)
  IN PutUint(width, u.h)

mux_write_outgoing_shutdown_msg(c) == PutUint(PutArray(c, 1), SHUTDOWN)

\* The serialised message and the length returned, the size of its block.
mux_write_outgoing_msg(u) ==
  LET c == Pack!cmp_init(mux_nnstr_init(NullBuf, 0))
      m == (IF u = << >> THEN mux_write_outgoing_shutdown_msg(c)
            ELSE IF u[1].type = DISPLAY_UPDATE THEN mux_write_outgoing_update_msg(c, u[1])
            ELSE mux_write_outgoing_switch_msg(c, u[1])).buf
  IN [msg |-> m, len |-> m.size]

-----------------------------------------------------------------------------
(* Incoming messages.                                                      *)

Call(type, args) == << [type |-> type, args |-> args] >>

\* wrong: a keyboard event is delivered although its flags could not be read
WrongKb(c) ==
  LET keycode == Pack!cmp_read_uint(c)
      flags   == Pack!cmp_read_uint(keycode.ctx)
  IN IF keycode.ok
     THEN Call(KEYBOARD, << keycode.val, IF flags.ok THEN flags.val ELSE 0 >>) ELSE << >>

\* The callback invoked; a failed read returns before it.
mux_process_incoming_kb_msg(c) ==
  LET keycode == Pack!cmp_read_uint(c)
      flags   == Pack!cmp_read_uint(keycode.ctx)
  IN IF keycode.ok /\ flags.ok
     THEN Call(KEYBOARD, << keycode.val, flags.val >>) ELSE << >>

mux_process_incoming_mouse_msg(c) ==
  LET mouse_x == Pack!cmp_read_uint(c)
      mouse_y == Pack!cmp_read_uint(mouse_x.ctx)
      flags   == Pack!cmp_read_uint(mouse_y.ctx)
  IN IF mouse_x.ok /\ mouse_y.ok /\ flags.ok
     THEN Call(MOUSE, << mouse_x.val, mouse_y.val, flags.val >>) ELSE << >>

\* wrong: the framerate of a failed update is taken as well
WrongComplete(c, rate) ==
  LET success       == Pack!cmp_read_uint(c)
      new_framerate == Pack!cmp_read_uint(success.ctx)
  IN IF success.ok /\ new_framerate.ok THEN new_framerate.val ELSE rate

\* The framerate afterwards; the first number must be 1.
mux_process_incoming_complete_msg(c, rate) ==
  LET success       == Pack!cmp_read_uint(c)
      new_framerate == Pack!cmp_read_uint(success.ctx)
  IN IF success.ok /\ success.val = 1 /\ new_framerate.ok
     THEN new_framerate.val ELSE rate

\* The effect of one message: callbacks, framerate, and whether the buffer is
\* freed, which the two early returns omit.
mux_process_incoming_msg(buf, rate) ==
  LET array == Pack!cmp_read_array(Pack!cmp_init(mux_nnstr_init(buf, Len(buf))))
      type == Pack!cmp_read_uint(array.ctx)
  IN IF ~array.ok \/ ~type.ok THEN [calls |-> << >>, framerate |-> rate, freed |-> FALSE]
     ELSE [calls |-> CASE type.val = MOUSE -> mux_process_incoming_mouse_msg(type.ctx)
                       [] type.val = KEYBOARD -> mux_process_incoming_kb_msg(type.ctx)
                       [] OTHER -> << >>,
           framerate |-> IF type.val = DISPLAY_UPDATE_COMPLETE
                         THEN mux_process_incoming_complete_msg(type.ctx, rate) ELSE rate,
           freed |-> TRUE]

-----------------------------------------------------------------------------
(* The socket.                                                             *)

\* Two frames: the name of the VM and the data.
mux_0mq_send_msg(buf, n) == << [uuid |-> UUID, data |-> SubSeq(buf, 1, n)] >>

\* wrong: the buffer is allocated before the name is looked at
WrongRecv(frame) ==
  [nbytes |-> IF frame.uuid # UUID THEN -1 ELSE Len(frame.data),
   buf |-> frame.data, allocated |-> 1]

\* A message of another VM is dropped; the buffer is allocated even when it is
\* empty, and then the main loop does not process it.
mux_0mq_recv_msg(frame) ==
  IF frame.uuid # UUID THEN [nbytes |-> -1, buf |-> NullBuf, allocated |-> 0]
  ELSE [nbytes |-> Len(frame.data), buf |-> frame.data, allocated |-> 1]

-----------------------------------------------------------------------------
Init ==
  /\ msg = mux_nnstr_init(NullBuf, 0) /\ len = 0
  /\ toServer = << >> /\ toLibrary = << >>
  /\ framerate = 20 /\ calls = << >> /\ held = 0
  /\ sent = << >> /\ understood = << >> /\ answered = << >> /\ handled = 0

MayTalk == Len(sent) + Len(answered) < MaxMessages

\* The main loop takes an update from the queue (or NULL at the end).
SendUpdate(u) ==
  /\ MayTalk
  /\ LET w == mux_write_outgoing_msg(u)
     IN /\ msg' = w.msg /\ len' = w.len
        /\ toServer' = toServer \o mux_0mq_send_msg(w.msg.buf, w.len)
        /\ sent' = Append(sent, u)
  /\ UNCHANGED << toLibrary, framerate, calls, held, understood, answered, handled >>

Send == \E u \in Updates : SendUpdate(u)

\* The main loop finds the socket readable.
Receive ==
  /\ toLibrary # << >>
  /\ LET r == mux_0mq_recv_msg(Head(toLibrary))
         p == mux_process_incoming_msg(r.buf, framerate)
     IN IF r.nbytes > 0
        THEN /\ calls' = calls \o p.calls /\ framerate' = p.framerate
             /\ held' = held + r.allocated - (IF p.freed THEN 1 ELSE 0)
        ELSE /\ held' = held + r.allocated /\ UNCHANGED << calls, framerate >>
  /\ toLibrary' = Tail(toLibrary) /\ handled' = handled + 1
  /\ UNCHANGED << msg, len, toServer, sent, understood, answered >>

-----------------------------------------------------------------------------
(* The server, as a user of the same format.                               *)

\* The numbers of an array, << >> when it is not one or is incomplete.
Decode(data) ==
  LET array == Pack!cmp_read_array(Pack!cmp_init(mux_nnstr_init(data, Len(data))))
      count == IF array.ok THEN array.val ELSE 0
      taken[k \in 0 .. count] ==
        IF k = 0 THEN [ok |-> array.ok, ctx |-> array.ctx, vals |-> << >>]
        ELSE LET before == taken[k - 1]
                 q == Pack!ReadUnsigned(before.ctx, 4)
             IN IF before.ok /\ q.ok
                THEN [ok |-> TRUE, ctx |-> q.ctx, vals |-> Append(before.vals, q.val)]
                ELSE [before EXCEPT !.ok = FALSE]
  IN IF taken[count].ok THEN taken[count].vals ELSE << >>

ServerReceive ==
  /\ toServer # << >>
  /\ understood' = Append(understood, Decode(Head(toServer).data))
  /\ toServer' = Tail(toServer)
  /\ UNCHANGED << msg, len, toLibrary, framerate, calls, held, sent, answered, handled >>

\* The bytes of numbers, with the header of their array unless they are bare.
Written(fields, bare) ==
  LET c == Pack!cmp_init(mux_nnstr_init(NullBuf, 0))
      put[k \in 0 .. Len(fields)] ==
        IF k = 0 THEN IF bare THEN c ELSE PutArray(c, Len(fields))
        ELSE PutUint(put[k - 1], fields[k])
      m == put[Len(fields)].buf
  IN SubSeq(m.buf, 1, m.pos)

\* A message, or a number instead of one (the server speaks another protocol).
ServerSend ==
  /\ MayTalk
  /\ \E u \in UUIDs, f \in Answers, bare \in BOOLEAN :
       /\ bare => Len(f) <= 1
       /\ answered' = Append(answered, [uuid |-> u, fields |-> f, bare |-> bare])
       /\ toLibrary' = Append(toLibrary, [uuid |-> u, data |-> Written(f, bare)])
  /\ UNCHANGED << msg, len, toServer, framerate, calls, held, sent, understood, handled >>

Next == Send \/ Receive \/ ServerReceive \/ ServerSend
Spec == Init /\ [][Next]_vars

-----------------------------------------------------------------------------
(* Properties                                                              *)

\* What the fields of an update are on the wire.
Fields(u) ==
  IF u = << >> THEN << SHUTDOWN >>
  ELSE IF u[1].type = DISPLAY_UPDATE
       THEN << DISPLAY_UPDATE, Uint64(u[1].x1), Uint64(u[1].y1),
               Uint64(u[1].x2 - u[1].x1), Uint64(u[1].y2 - u[1].y1) >>
       ELSE << DISPLAY_SWITCH, Uint64(u[1].format), Uint64(u[1].w), Uint64(u[1].h) >>

\* Every message of mux_write_outgoing_msg decodes, in order and for every size
\* of its numbers, to the fields of its update, although the block grows while
\* it is written and is sent with bytes behind the message that nobody wrote.
MessagesArrive ==
  \A k \in DOMAIN understood : understood[k] = Fields(sent[k])

\* mux_msg_writer stays inside its block (it doubles the block at most once for
\* a write), and no byte of the message itself is left unwritten.
BlockIsLargeEnough ==
  /\ Len(msg.buf) <= msg.size /\ msg.pos <= msg.size
  /\ \A i \in 1 .. msg.pos : msg.buf[i] # Junk

\* What an answer stands for by its numbers. One with too few of them, or with one
\* wider than 32 bits where the handler reads, is no event and no rate.
Arity(type) == CASE type = MOUSE -> 3
                 [] type \in {KEYBOARD, DISPLAY_UPDATE_COMPLETE} -> 2
                 [] OTHER -> 0
Complete(f) ==
  Len(f) > Arity(f[1]) /\ \A i \in 2 .. 1 + Arity(f[1]) : f[i] < Pack!Values[W32]
IsEvent(f) == f[1] \in {MOUSE, KEYBOARD} /\ Complete(f)
IsRate(f) == f[1] = DISPLAY_UPDATE_COMPLETE /\ Complete(f) /\ f[2] = 1
Unreadable(a) == a.bare \/ a.fields = << >> \/ a.fields[1] >= Pack!Values[W32]

\* The callbacks, the rate and the buffers kept, e, after one more answer.
Heard(e, a) ==
  IF a.uuid # UUID THEN e
  ELSE IF Unreadable(a) THEN [e EXCEPT !.held = @ + 1]
  ELSE [e EXCEPT !.calls = IF IsEvent(a.fields)
                           THEN @ \o Call(a.fields[1],
                                          SubSeq(a.fields, 2, 1 + Arity(a.fields[1])))
                           ELSE @,
                 !.framerate = IF IsRate(a.fields) THEN a.fields[3] ELSE @]

\* After the first n answers.
HeardOf(answers, n) ==
  LET after[k \in 0 .. n] ==
        IF k = 0 THEN [calls |-> << >>, framerate |-> 20, held |-> 0]
        ELSE Heard(after[k - 1], answers[k])
  IN after[n]

\* After all the answers that the library has taken.
Expected == HeardOf(answered, handled)

\* mux_process_incoming_msg invokes the callback of every complete input event
\* of this VM exactly once, in order and with its numbers, and nothing for any
\* other message, however a previous one ended.
EventsAreDelivered == calls = Expected.calls

\* display->framerate, which paces the out loop, is the one of the last complete
\* and successful DISPLAY_UPDATE_COMPLETE, or still the initial 20.
RateOfLastSuccess == framerate = Expected.framerate

\* mux_process_incoming_msg frees the buffer of every message it can read the
\* type of, however its handler ends. The early returns for a message that is
\* not an array, or has no type, come before the "clean up msg" (msgpack.c:238)
\* and leave their buffers behind, and only they do.
OnlyUnreadableLeak == held = Expected.held
=============================================================================
