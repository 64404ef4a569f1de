----------------------------- MODULE MCMuxQueue -----------------------------
(* The display thread and the main loop with the calls they make while the *)
(* loops run, and a third thread that enqueues as the out loop does and    *)
(* dequeues as well, so that two threads can wait for an element.          *)
EXTENDS MuxQueue

MCCalls ==
  [t \in Thread |-> CASE t = "vm" -> {"enqueue", "clear"}
                      [] t = "out" -> {"enqueue", "dequeue"}
                      [] OTHER -> {"empty", "dequeue"}]
=============================================================================
