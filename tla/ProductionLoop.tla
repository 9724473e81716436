---------------------------- MODULE ProductionLoop ----------------------------
(***************************************************************************)
(* The block producer process of one thread                                *)
(* (src/node/src/block/producer/process.rs): the node starts a production  *)
(* thread from a parent block, collects the blocks it produces, and stops  *)
(* it; the production thread loops over produce_next.                      *)
(*                                                                         *)
(* An iteration drains the shared input buffers (acks, nacks, epoch data), *)
(* builds a child of its current state, then checks the external control   *)
(* channel: if a stop was sent it returns without keeping the block,       *)
(* otherwise it commits: the block's state becomes its state, is stored in *)
(* the repository cache, and the block is pushed to produced_blocks.  The  *)
(* node takes the produced blocks with get_produced_blocks; stopping sends *)
(* the stop, joins the thread, caches its last state and discards the      *)
(* blocks not yet taken.                                                   *)
(*                                                                         *)
(* A block is [id, parent, seq, inputs]; an optimistic state is the block  *)
(* it is the state after.  Block building (the builder thread, its timeout *)
(* and the sleep) is one step.  Building fails when produce returns an     *)
(* error or the load balancing check answers ThreadIsNotInTheTable: the    *)
(* builder thread panics, and so does the production thread joining it.   *)
(***************************************************************************)
EXTENDS Naturals, Sequences, SequencesExt, FiniteSets

CONSTANTS
  Inputs,      \* acks, nacks and epoch data the node may receive (each once)
  MaxStarts,   \* bound on start_thread_production calls that spawn a thread
  MaxBlocks,   \* bound on the blocks built with a fresh id
  LoadBalancing, \* the answers the load balancing check may give
  SaveFreq       \* save_state_frequency of the node configuration

ASSUME SaveFreq \in Nat \ {0}

Genesis == [id |-> 0, parent |-> 0, seq |-> 0, inputs |-> {}]
NoBlock == [id |-> -1, parent |-> -1, seq |-> -1, inputs |-> {}]

VARIABLES
  handle,          \* active_producer_thread: the running thread's number, 0 if none
  prod,            \* prod[k]: production thread k: [tip, pc, stop, built];
                   \* pc "read", "built", "returned" or "dead" (panicked)
  producedBlocks,  \* produced_blocks, shared with the production threads
  cache,           \* optimistic_state_cache
  repo,            \* the optimistic states stored in the repository
  node,            \* the number of the thread the node is joining, 0 if none
  handedOut,       \* ghost: every block get_produced_blocks returned, in order
  buffer,          \* received_acks / received_nacks / the epoch channel
  received,        \* ghost: the inputs received so far
  nextId           \* the next fresh block id

vars == <<handle, prod, producedBlocks, cache, repo, node, handedOut, buffer, received, nextId>>

-----------------------------------------------------------------------------
(* The production thread k.                                                *)

\* the pre-processing and build_block of TVMBlockProducer::produce: the
\* drained nacks become slash messages, and the prepared block is a child
\* of the parent state carrying the drained acks and nacks
Prepared(tip, drained) == [parent |-> tip.id, seq |-> tip.seq + 1, inputs |-> drained]

\* its post-production: AckiNackiBlock::new names the prepared block; the
\* load balancing answer only sets its forward threads table (not modelled)
Produce(tip, id, drained) == [id |-> id] @@ Prepared(tip, drained)

\* produce_next up to the join of the builder: drain the buffers (under
\* their locks) and build a child of the current state.  Once MaxBlocks
\* fresh ids are used a thread builds again only to observe a stop.
ProduceBlock(k) ==
  /\ prod[k].pc = "read"
  /\ nextId <= MaxBlocks \/ prod[k].stop
  /\ \E lb \in LoadBalancing \ {"ThreadIsNotInTheTable"} :
       prod' = [prod EXCEPT ![k].pc = "built",
                  ![k].built = Produce(prod[k].tip, IF nextId <= MaxBlocks THEN nextId ELSE 0, buffer)]
  /\ buffer' = {}
  /\ nextId' = IF nextId <= MaxBlocks THEN nextId + 1 ELSE nextId
  /\ UNCHANGED <<handle, producedBlocks, cache, repo, node, handedOut, received>>

\* the buffers are drained, then the builder panics (the check answers
\* ThreadIsNotInTheTable) and the production thread's join of it panics
\* too: the thread is gone with what it drained
ProducePanics(k) ==
  /\ prod[k].pc = "read"
  /\ nextId <= MaxBlocks \/ prod[k].stop
  /\ "ThreadIsNotInTheTable" \in LoadBalancing
  /\ prod' = [prod EXCEPT ![k].pc = "dead"]
  /\ buffer' = {}
  /\ UNCHANGED <<handle, producedBlocks, cache, repo, node, handedOut, received, nextId>>

\* the external control channel holds a stop: produce_next returns true
\* and the thread stores its state (the block just built is dropped) and
\* returns it to the joiner
ReturnOnStop(k) ==
  /\ prod[k].pc = "built"
  /\ prod[k].stop
  /\ repo' = repo \cup {prod[k].tip}
  /\ prod' = [prod EXCEPT ![k].pc = "returned", ![k].built = NoBlock]
  /\ UNCHANGED <<handle, producedBlocks, cache, node, handedOut, buffer, received, nextId>>

\* no stop: the block's state becomes the thread's state and is stored in
\* the repository cache, and the block is pushed to produced_blocks
Commit(k) ==
  /\ prod[k].pc = "built"
  /\ ~prod[k].stop
  /\ prod' = [prod EXCEPT ![k].pc = "read", ![k].tip = prod[k].built, ![k].built = NoBlock]
  /\ repo' = repo \cup {prod[k].built}
  /\ producedBlocks' = Append(producedBlocks, prod[k].built)
  /\ UNCHANGED <<handle, cache, node, handedOut, buffer, received, nextId>>

\* mutant: the parent's bucket is computed from the block's own seq_no
must_save_state_on_seq_no_OwnSeq(seq, parentSeq, freq) ==
  IF parentSeq # -1 THEN seq \div freq # seq \div freq
                    ELSE seq % freq = 0

\* must_save_state_on_seq_no (config/mod.rs): whether the state after
\* block seq is written to disk as well as to the cache; parentSeq is -1
\* for a block without a parent (None)
must_save_state_on_seq_no(seq, parentSeq, freq) ==
  IF parentSeq # -1 THEN parentSeq \div freq # seq \div freq
                    ELSE seq % freq = 0

\* the states store_optimistic_in_cache also saves to disk (spec 4.F,
\* commit): the repository's call of must_save_state_on_seq_no with the
\* parent's seq_no; the zero state is the one every node starts from
StoredParent(b) == CHOOSE p \in repo \cup {Genesis} : p.id = b.parent
SavedOnDisk ==
  {Genesis} \cup {b \in repo : must_save_state_on_seq_no(b.seq, StoredParent(b).seq, SaveFreq)}

-----------------------------------------------------------------------------
(* The node's calls; each takes &mut self, so one runs at a time.          *)

\* the state start_thread_production begins from: the cached state if it
\* is prev's, else the repository's, else the zero state for the default
\* id (it panics otherwise: Known names only blocks whose state is stored)
InitialState(prev) ==
  CASE cache # NoBlock /\ cache.id = prev.id -> cache
    [] prev \in repo                          -> prev
    [] prev = Genesis                         -> Genesis

\* mutant: a second start while a thread runs is not refused
StartThreadProduction_NoGuard(prev) ==
  /\ node = 0
  /\ Len(prod) < MaxStarts
  /\ prod' = Append(prod, [tip |-> InitialState(prev), pc |-> "read", stop |-> FALSE, built |-> NoBlock])
  /\ handle' = Len(prod) + 1
  /\ UNCHANGED <<producedBlocks, cache, repo, node, handedOut, buffer, received, nextId>>

\* start_thread_production from block prev: refused (logged) while a
\* thread runs; otherwise a new thread with a new control channel
StartThreadProduction(prev) ==
  /\ node = 0
  /\ handle = 0
  /\ Len(prod) < MaxStarts
  /\ prod' = Append(prod, [tip |-> InitialState(prev), pc |-> "read", stop |-> FALSE, built |-> NoBlock])
  /\ handle' = Len(prod) + 1
  /\ UNCHANGED <<producedBlocks, cache, repo, node, handedOut, buffer, received, nextId>>

\* mutant: the thread is joined without the stop being sent
StopThreadProduction_NoSignal ==
  /\ node = 0
  /\ handle # 0
  /\ handle' = 0
  /\ node' = handle
  /\ UNCHANGED <<prod, producedBlocks, cache, repo, handedOut, buffer, received, nextId>>

\* stop_thread_production: take the handle, send the stop, and block in
\* join (JoinProducer)
StopThreadProduction ==
  /\ node = 0
  /\ handle # 0
  /\ prod[handle].pc # "dead"
  /\ handle' = 0
  /\ prod' = [prod EXCEPT ![handle].stop = TRUE]
  /\ node' = handle
  /\ UNCHANGED <<producedBlocks, cache, repo, handedOut, buffer, received, nextId>>

\* the thread has panicked and dropped its control receiver: the send
\* fails and stop_thread_production returns the error, the handle already
\* taken, before the join and the drain of produced_blocks
StopDeadThread ==
  /\ node = 0
  /\ handle # 0
  /\ prod[handle].pc = "dead"
  /\ handle' = 0
  /\ UNCHANGED <<prod, producedBlocks, cache, repo, node, handedOut, buffer, received, nextId>>

\* mutant: the blocks not yet taken are kept across the stop
JoinProducer_KeepBlocks ==
  /\ node # 0
  /\ prod[node].pc = "returned"
  /\ cache' = prod[node].tip
  /\ node' = 0
  /\ UNCHANGED <<handle, prod, producedBlocks, repo, handedOut, buffer, received, nextId>>

\* the join returns the thread's last state, which becomes the cache; the
\* produced blocks not yet taken are drained and dropped
JoinProducer ==
  /\ node # 0
  /\ prod[node].pc = "returned"
  /\ cache' = prod[node].tip
  /\ producedBlocks' = <<>>
  /\ node' = 0
  /\ UNCHANGED <<handle, prod, repo, handedOut, buffer, received, nextId>>

\* the thread panicked after the stop was sent: the join returns an error
\* and stop_thread_production returns it, leaving the cache and the
\* produced blocks as they are
JoinFails ==
  /\ node # 0
  /\ prod[node].pc = "dead"
  /\ node' = 0
  /\ UNCHANGED <<handle, prod, producedBlocks, cache, repo, handedOut, buffer, received, nextId>>

\* get_produced_blocks: drain produced_blocks, sorted by seq_no (the sort
\* is stable and the blocks of one thread are already in seq_no order)
GetProducedBlocks ==
  /\ node = 0
  /\ handle # 0 => prod[handle].pc # "dead"   \* else the assert panics the node
  /\ handedOut' = handedOut \o SortSeq(producedBlocks, LAMBDA a, b : a.seq < b.seq)
  /\ producedBlocks' = <<>>
  /\ UNCHANGED <<handle, prod, cache, repo, node, buffer, received, nextId>>

\* the network delivers an ack, a nack or epoch data
Receive(i) ==
  /\ i \notin received
  /\ received' = received \cup {i}
  /\ buffer' = buffer \cup {i}
  /\ UNCHANGED <<handle, prod, producedBlocks, cache, repo, node, handedOut, nextId>>

Init ==
  /\ handle = 0
  /\ prod = <<>>
  /\ producedBlocks = <<>>
  /\ cache = NoBlock
  /\ repo = {}
  /\ node = 0
  /\ handedOut = <<>>
  /\ buffer = {}
  /\ received = {}
  /\ nextId = 1

\* the blocks a caller may start from: genesis or a block it was handed
Known == {Genesis} \cup ToSet(handedOut)

Thread(k) == ProduceBlock(k) \/ ProducePanics(k) \/ ReturnOnStop(k) \/ Commit(k)

Next ==
  \/ \E k \in DOMAIN prod : Thread(k)
  \/ \E prev \in Known : StartThreadProduction(prev)
  \/ StopThreadProduction
  \/ StopDeadThread
  \/ JoinProducer
  \/ JoinFails
  \/ GetProducedBlocks
  \/ \E i \in Inputs : Receive(i)

\* a production thread runs its loop without waiting on the node
Fairness ==
  /\ \A k \in 1 .. MaxStarts : WF_vars(k \in DOMAIN prod /\ Thread(k))
  /\ WF_vars(JoinProducer \/ JoinFails)

Spec == Init /\ [][Next]_vars /\ Fairness

-----------------------------------------------------------------------------
(* Properties.                                                             *)

IsChain(s) == \A i \in 2 .. Len(s) : s[i].parent = s[i - 1].id

(* Per-thread linearity (spec 5):   the blocks waiting in produced_blocks  *)
(* form one chain, each the child of the one before, across any number of  *)
(* starts, stops and collections: a second start is refused while a thread *)
(* runs, and a stop discards what the stopped thread left behind.          *)
ProducedBlocksFormChain == IsChain(producedBlocks)

(* The same while no builder has panicked: with a dead production thread   *)
(* the stop fails before produced_blocks is drained (ProducedBlocksForm-   *)
(* Chain fails then); until then every start, stop and collection keeps    *)
(* the queue one chain.                                                    *)
ChainWhileNoPanic ==
  (\A k \in DOMAIN prod : prod[k].pc # "dead") => IsChain(producedBlocks)

(* stop_thread_production returns: the stop it sends is seen by the        *)
(* production thread at the end of its current iteration, which then       *)
(* returns its state to the join.                                          *)
StopReturns == node # 0 ~> node = 0

\* a stored state and its ancestors, down to the zero state
RECURSIVE Lineage(_)
Lineage(b) == IF b = Genesis THEN {Genesis} ELSE {b} \cup Lineage(StoredParent(b))

(* A node that loses its cache loses at most SaveFreq - 1 blocks of any    *)
(* line of states: every state the production threads stored (committed or *)
(* returned on a stop, across restarts from cached, stored or handed-out   *)
(* blocks) has an ancestor-or-self saved to disk fewer than SaveFreq seq   *)
(* numbers below it, by must_save_state_on_seq_no's bucket comparison.     *)
SavedWithinFrequency ==
  \A b \in repo : \E s \in Lineage(b) \cap SavedOnDisk : b.seq - s.seq < SaveFreq

=============================================================================
