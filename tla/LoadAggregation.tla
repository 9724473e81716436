--------------------------- MODULE LoadAggregation ---------------------------
(***************************************************************************)
(* The aggregated load of a thread: a sliding window over the internal     *)
(* message queue lengths of its last blocks                                *)
(* (src/node/src/multithreading/load_balancing_service/                    *)
(*  aggregated_thread_load.rs).                                            *)
(*                                                                         *)
(* The window is a ring buffer with a cursor and a running sum.  The load   *)
(* is trusted (is_ready) only once the window has been filled since the    *)
(* last reset.  The accounts part of the load (InThreadAccountsLoad) is    *)
(* kept in the same slots by the same add-then-subtract steps and is left  *)
(* out: it follows the queue length part step for step.                    *)
(***************************************************************************)
EXTENDS Naturals, Sequences, SequencesExt, Functions

CONSTANTS
  WindowSize,   \* window_size
  Loads         \* queue lengths a block may report

ASSUME WindowSize \in Nat \ {0}

Slots == 0 .. WindowSize - 1

VARIABLES
  window,           \* window[i]: the queue length in slot i
  cursor,           \* cursor
  aggregatedValue,  \* aggregated_value.0
  isFilled,         \* is_filled
  recent,           \* ghost: the samples appended since the last reset, newest last, at most WindowSize
  sinceReset        \* ghost: appends since the last reset, capped at WindowSize

vars == <<window, cursor, aggregatedValue, isFilled, recent, sinceReset>>

-----------------------------------------------------------------------------

\* new(window_size)
Init ==
  /\ window = [i \in Slots |-> 0]
  /\ cursor = 0
  /\ aggregatedValue = 0
  /\ isFilled = FALSE
  /\ recent = <<>>
  /\ sinceReset = 0

\* the ghost history of one appended sample v
Record(v) ==
  /\ recent' = IF Len(recent) = WindowSize THEN Append(Tail(recent), v)
               ELSE Append(recent, v)
  /\ sinceReset' = IF sinceReset < WindowSize THEN sinceReset + 1 ELSE sinceReset

\* mutant: the evicted value is not subtracted
AppendFrom_NoEvict(v) ==
  LET next == cursor + 1
      c    == IF next >= WindowSize THEN 0 ELSE next
  IN /\ cursor' = c
     /\ isFilled' = (isFilled \/ next >= WindowSize)
     /\ window' = [window EXCEPT ![c] = v]
     /\ aggregatedValue' = aggregatedValue + v
     /\ Record(v)

\* append_from: advance the cursor, wrapping to 0 and marking the window
\* filled when it reaches the end; overwrite that slot with the block's
\* queue length and move the running sum by the new minus the evicted value
AppendFrom(v) ==
  LET next == cursor + 1
      c    == IF next >= WindowSize THEN 0 ELSE next
      prev == window[c]
  IN /\ cursor' = c
     /\ isFilled' = (isFilled \/ next >= WindowSize)
     /\ window' = [window EXCEPT ![c] = v]
     /\ aggregatedValue' = aggregatedValue + v - prev
     /\ Record(v)

\* mutant: reset clears the flag but leaves the cursor
Reset_KeepCursor ==
  /\ isFilled' = FALSE
  /\ recent' = <<>>
  /\ sinceReset' = 0
  /\ UNCHANGED <<window, aggregatedValue, cursor>>

\* reset: clear the filled flag and the cursor; the window and the sum stay
Reset ==
  /\ isFilled' = FALSE
  /\ cursor' = 0
  /\ recent' = <<>>
  /\ sinceReset' = 0
  /\ UNCHANGED <<window, aggregatedValue>>

Next ==
  \/ \E v \in Loads : AppendFrom(v)
  \/ Reset

Spec == Init /\ [][Next]_vars

\* is_ready and load_value
IsReady == isFilled
LoadValue == aggregatedValue

-----------------------------------------------------------------------------
(* Properties.                                                             *)

\* the sum of a sequence and the sum of the window's slots
SeqSum(s) == FoldLeft(+, 0, s)
WindowSum == FoldLeft(+, 0, [i \in 1 .. WindowSize |-> window[i - 1]])

(* The running sum is the sum of the slots: every append adds the value   *)
(* it writes and subtracts the value it overwrites; since the overwritten  *)
(* value is part of the sum, the usize subtraction cannot underflow.       *)
RunningSumIsWindowSum == LoadValue = WindowSum

(* A ready load is the load of the last WindowSize blocks since the last   *)
(* reset: the window is refilled after a reset before it is trusted again, *)
(* so no sample from before the reset is in a ready value.                 *)
ReadyLoadIsRecent ==
  IsReady => /\ sinceReset = WindowSize
             /\ LoadValue = SeqSum(recent)

=============================================================================
