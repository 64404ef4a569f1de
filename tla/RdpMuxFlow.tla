----------------------------- MODULE RdpMuxFlow -----------------------------
(***************************************************************************)
(* RdpMux with a history variable, for its flow control: how often the     *)
(* wait for the server's acknowledgement (rdpmux.c:347) has ended without  *)
(* one.  Nothing looks at the variable, so that the steps are those of     *)
(* RdpMux.                                                                 *)
(*                                                                         *)
(* The wait is not in a loop and tests nothing, so that it ends by         *)
(*   - the signal of mux_process_incoming_msg (msgpack.c:232): by an       *)
(*     acknowledgement, of this update or of an earlier one,               *)
(*   - the signal of mux_display_switch (rdpmux.c:206),                    *)
(*   - the last signal of mux_mainloop (rdpmux.c:461), after which the     *)
(*     loop goes on if "stop" is not set (the signal handler got there     *)
(*     first, 0mq.c:81), or                                                *)
(*   - nothing at all, which POSIX permits.                                *)
(***************************************************************************)
EXTENDS RdpMux

CONSTANT MaxEarly   \* bound: waits that end without an acknowledgement

ASSUME FlowAssumption == MaxEarly \in Nat

VARIABLE early      \* waits that have ended without an acknowledgement

flowVars == <<vars, early>>

EndsEarly == outPc = "waitAck" /\ (SwitchCopied \/ OutSpurious \/ MainWakeShm)

FlowInit == Init /\ early = 0

FlowNext ==
  /\ Next
  /\ early' = IF EndsEarly THEN early + 1 ELSE early
  /\ early' <= MaxEarly

FlowSpec == FlowInit /\ [][FlowNext]_flowVars

-----------------------------------------------------------------------------
(***************************************************************************)
(* Flow control (rdpmux.c:309-311, 341-347): the updates that the server   *)
(* has not answered are at most one more than the waits that ended without *)
(* an acknowledgement.  Each such wait lets one more update into flight,   *)
(* for good, since the acknowledgement of the one goes on to end the wait  *)
(* for the next; but nothing else does: not a refresh that merges and      *)
(* signals (rdpmux.c:286, 292), not an unsuccessful or a lost              *)
(* acknowledgement, not a switch that finds the loop elsewhere, and not    *)
(* the shutdown.                                                           *)
(***************************************************************************)
InFlightPerWakeup == InFlight <= 1 + early
=============================================================================
