------------------------------ MODULE Handlers ------------------------------
(***************************************************************************)
(* Request handlers in flight.  A NestJS service method is a sequence of   *)
(* awaited database calls; between two of them every other handler runs.   *)
(* call[c] is what handler c has read so far and the step it is about to   *)
(* take, or Idle.  A step that the code refuses with an exception is not   *)
(* enabled, and a handler may stop before any step: an exception, a lost   *)
(* connection or a restart of the process (Abandon).                       *)
(***************************************************************************)
CONSTANT Call  \* bound: handlers running at the same time

VARIABLE call

Idle == [op |-> "idle"]

Begin(c, state) ==
    /\ call[c] = Idle
    /\ call' = [call EXCEPT ![c] = state]

At(c, op, step) == call[c].op = op /\ call[c].step = step

Continue(c, state) == call' = [call EXCEPT ![c] = state]

Return(c) == call' = [call EXCEPT ![c] = Idle]

Abandon(c) ==
    /\ call[c] # Idle
    /\ Return(c)
=============================================================================
