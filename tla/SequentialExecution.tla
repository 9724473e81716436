------------------------- MODULE SequentialExecution -------------------------
(***************************************************************************)
(* What the parallel executor of the block builder promises (spec 4.D):    *)
(* the queued messages whose destination is admissible are executed, and   *)
(* their results applied to the block, one at a time in queue order; a      *)
(* message with no destination, or one outside the thread, is dropped; the *)
(* run ends when the queue is empty, or aborts on the first failed          *)
(* execution.  Parallelism is invisible at this level.                     *)
(***************************************************************************)
EXTENDS Sequences

CONSTANTS
  Kinds,           \* the kinds of run (the builder's execution functions)
  Inputs(_),       \* Inputs(k): the message queues a run of kind k may be handed
  Admissible(_, _) \* Admissible(k, m): whether m is executed rather than dropped

VARIABLES
  kind,      \* the kind of this run
  queue,     \* the admissible messages not yet applied, in order
  applied,   \* the messages whose results were applied, in order
  status     \* "load", "run", "done" or "error"

avars == <<kind, queue, applied, status>>

AInit ==
  /\ kind \in Kinds
  /\ queue = <<>>
  /\ applied = <<>>
  /\ status = "load"

\* the queue is handed over; inadmissible messages never execute
Load ==
  /\ status = "load"
  /\ \E q \in Inputs(kind) : queue' = SelectSeq(q, LAMBDA m : Admissible(kind, m))
  /\ status' = "run"
  /\ UNCHANGED <<kind, applied>>

\* the head is executed and its result applied
Apply ==
  /\ status = "run"
  /\ queue # <<>>
  /\ applied' = Append(applied, Head(queue))
  /\ queue' = Tail(queue)
  /\ UNCHANGED <<kind, status>>

\* the head fails to execute: the run aborts
Abort ==
  /\ status = "run"
  /\ queue # <<>>
  /\ queue' = Tail(queue)
  /\ status' = "error"
  /\ UNCHANGED <<kind, applied>>

Finish ==
  /\ status = "run"
  /\ queue = <<>>
  /\ status' = "done"
  /\ UNCHANGED <<kind, queue, applied>>

ANext == Load \/ Apply \/ Abort \/ Finish

\* a run that is handed a queue eventually ends
ASpec == AInit /\ [][ANext]_avars /\ WF_avars(Load) /\ WF_avars(Apply \/ Abort \/ Finish)

=============================================================================
