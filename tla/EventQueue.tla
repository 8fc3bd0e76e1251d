------------------------------ MODULE EventQueue ------------------------------
(***************************************************************************)
(* What libsensors promises of input events, from the kernel's report to   *)
(* the driver that processes them: a queue.                                *)
(***************************************************************************)
EXTENDS Integers, Sequences

CONSTANT Event    \* what an event can be

VARIABLE queue

\* Events are added at the end.
Add ==
  /\ queue' \in Seq(Event)
  /\ Len(queue') >= Len(queue)
  /\ \A k \in 1 .. Len(queue) : queue'[k] = queue[k]

Take == queue # <<>> /\ queue' = Tail(queue)

Spec == queue = <<>> /\ [][Add \/ Take]_queue

=============================================================================
