--------------------------- MODULE ParallelExecutor ---------------------------
(***************************************************************************)
(* The parallel executor loops of the block builder that run the epoch     *)
(* touch messages and the DApp config touch messages                        *)
(* (src/node/src/block/producer/builder/special_messages.rs).               *)
(*                                                                         *)
(* The builder thread keeps a queue of pending messages, a FIFO pool of    *)
(* in-flight executions and the set of their destinations.  One loop       *)
(* iteration fills the pool from the head of the queue, then drains the    *)
(* finished executions at the front of the pool, then stops if both are    *)
(* empty.  Executor threads finish concurrently with the builder; the      *)
(* builder only polls them (try_recv).  A message is abstracted to an id   *)
(* and a destination account; after_transaction to appending the message   *)
(* to the sequence of applied results.                                     *)
(***************************************************************************)
EXTENDS Naturals, Sequences, SequencesExt, FiniteSets

CONSTANTS
  Level,       \* parallelization_level
  Accounts,    \* destination accounts
  InThread,    \* the accounts that belong to the builder's thread
  NoDst,       \* a message without a valid internal destination
  Loops,       \* the loops to check: "epoch" (execute_epoch_messages) and/or
               \* "dapp" (execute_dapp_config_messages)
  EpochData,   \* epoch_block_keeper_data: [epoch, address] of each keeper, in order
  MintedMap,   \* dapp_minted_map: dapp id -> minted shell
  CreditMap,   \* dapp_credit_map: dapp id -> is_unlimit, for the dapps it has
  ConfigAddr,  \* calculate_dapp_config_address: dapp id -> account
  Outcomes     \* the results an execution may send: "ok" or "err"

ASSUME Level \in Nat /\ InThread \subseteq Accounts /\ Loops \subseteq {"epoch", "dapp"}

VARIABLES
  loop,              \* the function the builder is in, fixed for a run
  pc,                \* "collect", "fill", "drain", "done" or "error"
  pending,           \* epoch_block_keeper_data / config_messages
  active,            \* active_ext_threads: [msg, st], st "running" or its result
  activeDst,         \* active_destinations
  applied,           \* the messages after_transaction applied, in order
  producedInternal,  \* config messages added to produced_internal_messages_to_the_current_thread
  outMsgDescr        \* config messages added to out_msg_descr

vars == <<loop, pc, pending, active, activeDst, applied, producedInternal, outMsgDescr>>

-----------------------------------------------------------------------------
(* Building the DApp config messages (the first loop of                    *)
(* execute_dapp_config_messages).  A dapp with nothing minted is skipped,  *)
(* and so is one the credit map has no entry for or marks unlimited.  The  *)
(* map is a HashMap: the messages come out in an order nobody chooses.     *)

ConfigDapps ==
  {d \in DOMAIN MintedMap : /\ MintedMap[d] # 0
                            /\ d \in DOMAIN CreditMap
                            /\ ~CreditMap[d]}

ConfigMessages == {[id |-> d, dst |-> ConfigAddr[d]] : d \in ConfigDapps}

\* create_epoch_touch_message: an external "touch" call to the epoch
\* contract at the keeper's address.  The address is the one
\* decode_epoch_data printed from the account, so it parses back and the
\* message always has that internal destination; the body (expire =
\* gen_utime + 5) is data.  The fill loop makes the message from the data at
\* the head each time it looks there, which is the same message each time.
TouchMessage(d) == [id |-> d.epoch, dst |-> d.address]

\* the queues loop l may be handed
InputsOf(l) ==
  IF l = "epoch" THEN {[i \in DOMAIN EpochData |-> TouchMessage(EpochData[i])]}
  ELSE SetToSeqs(ConfigMessages)

Inputs == InputsOf(loop)

\* the epoch loop drops a message outside the thread; the DApp loop has no
\* such check; both drop a message with no destination
AdmissibleIn(l, m) ==
  /\ m.dst # NoDst
  /\ l = "epoch" => m.dst \in InThread

Admissible(m) == AdmissibleIn(loop, m)

-----------------------------------------------------------------------------
(* The fill loop: while the pool has room and the queue is not empty, look *)
(* at the head; drop it if it has no destination (or, in the epoch loop,   *)
(* one outside the thread); start it if no execution to its destination is *)
(* in flight; otherwise stop filling (head-of-line blocking).  The state   *)
(* s is [pending, active, dsts].                                           *)

Start(s) ==
  [pending |-> Tail(s.pending),
   active  |-> Append(s.active, [msg |-> Head(s.pending), st |-> "running"]),
   dsts    |-> s.dsts \cup {Head(s.pending).dst}]

Drop(s) == [s EXCEPT !.pending = Tail(@)]

\* mutants: the pool bound checked one too late, no head-of-line blocking,
\* and the epoch loop without the thread membership check
RECURSIVE FillLoop_PastLevel(_)
FillLoop_PastLevel(s) ==
  IF s.pending = <<>> \/ Len(s.active) > Level THEN s
  ELSE LET m == Head(s.pending) IN
       IF ~Admissible(m) THEN FillLoop_PastLevel(Drop(s))
       ELSE IF m.dst \notin s.dsts THEN FillLoop_PastLevel(Start(s))
       ELSE s

RECURSIVE FillLoop_NoHeadOfLine(_)
FillLoop_NoHeadOfLine(s) ==
  IF s.pending = <<>> \/ Len(s.active) >= Level THEN s
  ELSE LET m == Head(s.pending) IN
       IF ~Admissible(m) THEN FillLoop_NoHeadOfLine(Drop(s))
       ELSE FillLoop_NoHeadOfLine(Start(s))

RECURSIVE FillLoop(_)
FillLoop(s) ==
  IF s.pending = <<>> \/ Len(s.active) >= Level THEN s
  ELSE LET m == Head(s.pending) IN
       IF ~Admissible(m) THEN FillLoop(Drop(s))
       ELSE IF m.dst \notin s.dsts THEN FillLoop(Start(s))
       ELSE s

-----------------------------------------------------------------------------
(* The builder's steps.                                                    *)

\* entry: the epoch loop is handed epoch_block_keeper_data; the DApp loop
\* first builds its config messages, enqueueing each as a produced internal
\* message and an out message before any is executed
Collect ==
  /\ pc = "collect"
  /\ \E q \in Inputs : pending' = q
  /\ producedInternal' = IF loop = "dapp" THEN ConfigMessages ELSE {}
  /\ outMsgDescr' = producedInternal'
  /\ pc' = "fill"
  /\ UNCHANGED <<loop, active, activeDst, applied>>

\* the fill part of one loop iteration (the outer `len < level` test is
\* the inner one's break taken before the first message)
Fill ==
  /\ pc = "fill"
  /\ LET s == FillLoop([pending |-> pending, active |-> active, dsts |-> activeDst])
     IN /\ pending' = s.pending
        /\ active' = s.active
        /\ activeDst' = s.dsts
  /\ pc' = "drain"
  /\ UNCHANGED <<loop, applied, producedInternal, outMsgDescr>>

\* mutant: drain the first finished execution wherever it is in the pool
DrainOne_AnyFinished ==
  /\ pc = "drain"
  /\ \E i \in DOMAIN active :
       /\ active[i].st # "running"
       /\ \A j \in 1 .. i - 1 : active[j].st = "running"
       /\ active' = RemoveAt(active, i)
       /\ IF active[i].st = "ok"
          THEN /\ applied' = Append(applied, active[i].msg)
               /\ activeDst' = activeDst \ {active[i].msg.dst}
               /\ UNCHANGED pc
          ELSE /\ pc' = "error"
               /\ UNCHANGED <<applied, activeDst>>
  /\ UNCHANGED <<loop, pending, producedInternal, outMsgDescr>>

\* the front execution has sent its result: pop it; an error result ends
\* the function (`?`) with the rest of the pool still in flight, a success
\* is applied and its destination freed
DrainOne ==
  /\ pc = "drain"
  /\ active # <<>>
  /\ Head(active).st # "running"
  /\ active' = Tail(active)
  /\ IF Head(active).st = "ok"
     THEN /\ applied' = Append(applied, Head(active).msg)
          /\ activeDst' = activeDst \ {Head(active).msg.dst}
          /\ UNCHANGED pc
     ELSE /\ pc' = "error"
          /\ UNCHANGED <<applied, activeDst>>
  /\ UNCHANGED <<loop, pending, producedInternal, outMsgDescr>>

\* the front execution is still running (or the pool is empty): the
\* iteration ends, and the loop stops once queue and pool are both empty
DrainStop ==
  /\ pc = "drain"
  /\ active # <<>> => Head(active).st = "running"
  /\ pc' = IF pending = <<>> /\ active = <<>> THEN "done" ELSE "fill"
  /\ UNCHANGED <<loop, pending, active, activeDst, applied, producedInternal, outMsgDescr>>

\* the executor thread of the i-th in-flight message sends its result
Complete(i) ==
  /\ active[i].st = "running"
  /\ \E r \in Outcomes : active' = [active EXCEPT ![i].st = r]
  /\ UNCHANGED <<loop, pc, pending, activeDst, applied, producedInternal, outMsgDescr>>

Init ==
  /\ loop \in Loops
  /\ pc = "collect"
  /\ pending = <<>>
  /\ active = <<>>
  /\ activeDst = {}
  /\ applied = <<>>
  /\ producedInternal = {}
  /\ outMsgDescr = {}

Builder == Collect \/ Fill \/ DrainOne \/ DrainStop

Next ==
  \/ Builder
  \/ \E i \in DOMAIN active : Complete(i)

\* the builder thread spins until it stops; an execution runs to completion
\* (NO_LIMITS, but the gas limit bounds it)
Fairness ==
  /\ WF_vars(Builder)
  /\ \A i \in 1 .. Level : WF_vars(i \in DOMAIN active /\ Complete(i))

Spec == Init /\ [][Next]_vars /\ Fairness

-----------------------------------------------------------------------------
(* Properties.                                                             *)

InFlight == {active[i].msg : i \in DOMAIN active}

(* A fill never overfills the pool and never stops early: after it the    *)
(* pool holds at most parallelization_level executions, and it holds fewer *)
(* only when the queue is empty or its head waits for an execution to the  *)
(* same account (head-of-line blocking), across any number of fill         *)
(* iterations interleaved with completions and drains (spec 4.D).         *)
FillSaturatesPool ==
  [][pc = "fill" /\ pc' = "drain" =>
       /\ Len(active') <= Level
       /\ \/ Len(active') = Level
          \/ pending' = <<>>
          \/ Admissible(Head(pending')) /\ Head(pending').dst \in activeDst']_vars

(* Executions are serial per account: no two in-flight executions have the *)
(* same destination, and active_destinations names exactly the in-flight  *)
(* destinations, although the executions finish in any order and only the *)
(* front of the pool is drained (spec 4.D and 8, per-account               *)
(* serialisation).  After an error return the locals are gone and the    *)
(* second part says nothing.                                               *)
OneInFlightPerAccount ==
  /\ \A i, j \in DOMAIN active : i # j => active[i].msg.dst # active[j].msg.dst
  /\ pc # "error" => activeDst = {m.dst : m \in InFlight}

\* the status of the abstract run
Status == CASE pc = "collect"          -> "load"
            [] pc \in {"fill", "drain"} -> "run"
            [] OTHER                    -> pc

SE == INSTANCE SequentialExecution
        WITH Kinds      <- Loops,
             Inputs     <- InputsOf,
             Admissible <- AdmissibleIn,
             kind       <- loop,
             queue      <- SelectSeq([i \in DOMAIN active |-> active[i].msg] \o pending, Admissible),
             applied    <- applied,
             status     <- Status

(* The loop implements sequential execution: the results are applied in    *)
(* queue order of the admissible messages, none twice and none skipped,    *)
(* the first failure aborts, and the loop terminates; the parallel pool,   *)
(* head-of-line blocking and the FIFO drain are invisible.                 *)
ImplementsSequentialExecution == SE!ASpec

=============================================================================
