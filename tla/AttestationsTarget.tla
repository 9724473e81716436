------------------------- MODULE AttestationsTarget -------------------------
(***************************************************************************)
(* The attestation-target service of a node                                *)
(* (src/node/src/node/services/attestations_target/service.rs).            *)
(*                                                                         *)
(* The block-state repository is the shared state: one record per block    *)
(* with its initial attestations target, the attestations it verified for  *)
(* its ancestors, the fork resolutions it carries and four flags           *)
(* (initial target met, target met in a resolved fork, invalidated,        *)
(* finalized).  The service repeatedly takes every non-finalized block as  *)
(* a tail, selects its unfinalized ancestor chain and walks it front to    *)
(* back, marking ancestors whose target is met and invalidating the tail   *)
(* when an ancestor's checkpoint on this chain failed it.                  *)
(*                                                                         *)
(* The block tree is static (Parent, ThreadOf); the environment stores     *)
(* blocks, sets their targets, records verified attestations and fork     *)
(* resolutions and finalizes blocks, all concurrently with the service.   *)
(***************************************************************************)
EXTENDS Naturals, Sequences, SequencesExt, FiniteSets

CONSTANTS
  Blocks,            \* identifiers of the blocks that may be produced
  Genesis,           \* the zero block: finalized from the start, root of every thread
  Parent,            \* Parent[b]: the parent of block b
  ThreadOf,          \* ThreadOf[b]: the thread identifier of block b
  Target,            \* Target[b]: b's initial attestations target
                     \*   [descendant_generations |-> k, count |-> n]
  AttestationCounts, \* numbers of verified signers a checkpoint may hold for an ancestor
  None,              \* an unset Option field
  Restarts           \* whether the node may restart (and run its startup pass)

AllBlocks == Blocks \cup {Genesis}

ASSUME Genesis \notin Blocks
ASSUME Parent \in [Blocks -> AllBlocks]
ASSUME \A b \in Blocks : Target[b].descendant_generations >= 1

VARIABLES
  stored,         \* blocks whose BlockState exists (parent, seq_no, thread set)
  targetSet,      \* blocks whose initial_attestations_target is set
  verified,       \* verified[c]: verified_attestations of c (ancestor -> signer count), or None
  resolvesForks,  \* resolvesForks[c]: winners of c's fork resolutions, or None
  initialMet,     \* has_initial_attestations_target_met
  forkMet,        \* has_attestations_target_met_in_a_resolved_fork_case
  invalidated,    \* is_invalidated
  finalized       \* is_finalized

vars == <<stored, targetSet, verified, resolvesForks, initialMet, forkMet,
          invalidated, finalized>>

-----------------------------------------------------------------------------
(* The block tree.                                                         *)

\* the tree is constant, so its derived maps are functions TLC computes once
SeqNo[b \in AllBlocks] == IF b = Genesis THEN 0 ELSE SeqNo[Parent[b]] + 1

RECURSIVE AncestorAt(_, _)
\* the ancestor k generations above c, or None above the genesis block
AncestorAt(c, k) ==
  IF k = 0 THEN c
  ELSE IF c = Genesis THEN None
  ELSE AncestorAt(Parent[c], k - 1)

Ancestors[b \in AllBlocks] ==
  IF b = Genesis THEN {} ELSE {Parent[b]} \cup Ancestors[Parent[b]]

\* the ancestors whose checkpoint c is: c is their descendant at the depth
\* of their target, so only their entries of c's attestations are ever read
CheckpointOf ==
  [c \in Blocks |-> {a \in Blocks : AncestorAt(c, Target[a].descendant_generations) = a}]

HasSibling(b) == \E s \in Blocks : s # b /\ Parent[s] = Parent[b]

\* has_attestations_target_met: either flag
Met == initialMet \cup forkMet

\* select_thread_last_finalized_block(thread).1 ; the zero block opens every thread
LastFinalizedSeqNo(t) ==
  LET seqs == {SeqNo[f] : f \in {x \in finalized \ {Genesis} : ThreadOf[x] = t}}
  IN IF seqs = {} THEN 0 ELSE CHOOSE m \in seqs : \A s \in seqs : s <= m

-----------------------------------------------------------------------------
(* select_unfinalized_ancestor_blocks(tail, cutoff): the chain from the    *)
(* first non-finalized ancestor down to the tail, or the error with the    *)
(* chain gathered so far.                                                  *)

RECURSIVE SelectFrom(_, _, _)
SelectFrom(b, cutoff, acc) ==
  CASE b \in invalidated  -> [err |-> "InvalidatedParent", chain |-> acc]
    [] b \in finalized    -> [err |-> "Ok", chain |-> acc]
    [] SeqNo[b] <= cutoff -> [err |-> "BlockSeqNoCutoff", chain |-> <<b>> \o acc]
    [] OTHER              -> SelectFrom(Parent[b], cutoff, <<b>> \o acc)

SelectUnfinalizedAncestorBlocks(tail, cutoff) == SelectFrom(tail, cutoff, <<>>)

-----------------------------------------------------------------------------
(* The TargetBlock trait: what the walk reads of a checkpoint.  A stored   *)
(* block answers from its block state; the phantom next block of the      *)
(* speculative check answers from the attestations and fork resolutions    *)
(* the producer would put in it, knows no attestations as the empty set,   *)
(* and never has its target met.                                           *)

BlockTarget(c) ==
  [thread |-> ThreadOf[c], forks |-> resolvesForks[c], att |-> verified[c], met |-> c \in Met]

PhantomTarget(t, att, forks) ==
  [thread |-> t, forks |-> forks, met |-> FALSE,
   att |-> [b \in Blocks |-> IF b \in DOMAIN att THEN att[b] ELSE 0]]

\* AsChain::peek over the popped chain, as positions of the whole chain:
\* the checkpoint of the block at position i is at position i + k
ChainPeeks(chain) == [j \in DOMAIN chain |-> BlockTarget(chain[j])]

\* mutant: peek(len - 1) taken for the phantom, so the chain's last block
\* is replaced by it
PhantomChainPeeks_AtLast(chain, ph) == SubSeq(ChainPeeks(chain), 1, Len(chain) - 1) \o <<ph>>

\* AsChain for (chain, phantom): one position past the chain is the phantom
PhantomChainPeeks(chain, ph) == ChainPeeks(chain) \o <<ph>>

-----------------------------------------------------------------------------
(* evaluate_block_attestations(block_id, checkpoint, count)                *)

\* mutants: the resolved-fork case without the checkpoint's own target
\* check, and an unresolved fork taken as a failure
EvaluateBlockAttestations_NoCheckpointMet(b, tb) ==
  CASE tb.forks = None -> "ForkResolutionsAreNotSet"
    [] tb.att = None \/ b \notin DOMAIN tb.att -> "AttestationsAreNotVerifiedYet"
    [] tb.att[b] >= Target[b].count -> "InitialAttestationsTargetMet"
    [] b \in tb.forks -> "SecondaryAttestationsTargetMet"
    [] OTHER -> "InvalidBlock_TailDoesNotMeetCriteria"

EvaluateBlockAttestations_ForkAsInvalid(b, tb) ==
  CASE tb.forks = None -> "ForkResolutionsAreNotSet"
    [] tb.att = None \/ b \notin DOMAIN tb.att -> "AttestationsAreNotVerifiedYet"
    [] tb.att[b] >= Target[b].count -> "InitialAttestationsTargetMet"
    [] b \in tb.forks /\ tb.met -> "SecondaryAttestationsTargetMet"
    [] OTHER -> "InvalidBlock_TailDoesNotMeetCriteria"

EvaluateBlockAttestations(b, tb) ==
  CASE tb.forks = None
         -> "ForkResolutionsAreNotSet"
    [] tb.att = None \/ b \notin DOMAIN tb.att
         -> "AttestationsAreNotVerifiedYet"
    [] tb.att[b] >= Target[b].count
         -> "InitialAttestationsTargetMet"
    [] b \in tb.forks /\ tb.met
         -> "SecondaryAttestationsTargetMet"
    [] b \in tb.forks
         -> "InitialAttestationsTargetIsNotMetResolvesFork"
    [] OTHER
         -> "InvalidBlock_TailDoesNotMeetCriteria"

\* mutants: the walk without the checkpoint thread check, and a walk that
\* stops at the first block already met instead of skipping it
RECURSIVE EvaluateFrom_AnyThread(_, _, _, _, _)
EvaluateFrom_AnyThread(chain, peek, i, ini, frk) ==
  IF i > Len(chain) THEN [ini |-> ini, frk |-> frk, err |-> "Ok"]
  ELSE
    LET b    == chain[i]
        k    == Target[b].descendant_generations
        next == EvaluateFrom_AnyThread(chain, peek, i + 1, ini, frk)
    IN
    CASE b \in Met                  -> next
      [] b \notin targetSet         -> [ini |-> ini, frk |-> frk,
                                        err |-> "NotAllInitialAttestationTargetsSet"]
      [] i + k > Len(peek)         -> next
      [] OTHER ->
           LET r == EvaluateBlockAttestations(b, peek[i + k]) IN
           CASE r = "InitialAttestationsTargetMet"
                  -> EvaluateFrom_AnyThread(chain, peek, i + 1, ini \cup {b}, frk)
             [] r = "SecondaryAttestationsTargetMet"
                  -> EvaluateFrom_AnyThread(chain, peek, i + 1, ini, frk \cup {b})
             [] r = "InvalidBlock_TailDoesNotMeetCriteria"
                  -> [ini |-> ini, frk |-> frk, err |-> r]
             [] OTHER -> next

RECURSIVE EvaluateFrom_StopAtMet(_, _, _, _, _)
EvaluateFrom_StopAtMet(chain, peek, i, ini, frk) ==
  IF i > Len(chain) THEN [ini |-> ini, frk |-> frk, err |-> "Ok"]
  ELSE
    LET b    == chain[i]
        k    == Target[b].descendant_generations
        next == EvaluateFrom_StopAtMet(chain, peek, i + 1, ini, frk)
    IN
    CASE b \in Met                  -> [ini |-> ini, frk |-> frk, err |-> "Ok"]
      [] b \notin targetSet         -> [ini |-> ini, frk |-> frk,
                                        err |-> "NotAllInitialAttestationTargetsSet"]
      [] i + k > Len(peek)         -> next
      [] peek[i + k].thread # ThreadOf[b] -> next
      [] OTHER ->
           LET r == EvaluateBlockAttestations(b, peek[i + k]) IN
           CASE r = "InitialAttestationsTargetMet"
                  -> EvaluateFrom_StopAtMet(chain, peek, i + 1, ini \cup {b}, frk)
             [] r = "SecondaryAttestationsTargetMet"
                  -> EvaluateFrom_StopAtMet(chain, peek, i + 1, ini, frk \cup {b})
             [] r = "InvalidBlock_TailDoesNotMeetCriteria"
                  -> [ini |-> ini, frk |-> frk, err |-> r]
             [] OTHER -> next

(* evaluate_attestations(chain, on_initial, on_secondary): the walk from   *)
(* position i on, with the blocks the callbacks have marked so far.  A     *)
(* block's checkpoint is chain.peek(k - 1) after the block is popped,      *)
(* i.e. position i + k.  The callbacks write as the walk goes, so marks    *)
(* made before an early return stay.                                       *)
RECURSIVE EvaluateFrom(_, _, _, _, _)
EvaluateFrom(chain, peek, i, ini, frk) ==
  IF i > Len(chain) THEN [ini |-> ini, frk |-> frk, err |-> "Ok"]
  ELSE
    LET b    == chain[i]
        k    == Target[b].descendant_generations
        next == EvaluateFrom(chain, peek, i + 1, ini, frk)
    IN
    CASE b \in Met                  -> next
      [] b \notin targetSet         -> [ini |-> ini, frk |-> frk,
                                        err |-> "NotAllInitialAttestationTargetsSet"]
      [] i + k > Len(peek)         -> next     \* chain is too short
      [] peek[i + k].thread # ThreadOf[b] -> next
      [] OTHER ->
           LET r == EvaluateBlockAttestations(b, peek[i + k]) IN
           CASE r = "InitialAttestationsTargetMet"
                  -> EvaluateFrom(chain, peek, i + 1, ini \cup {b}, frk)
             [] r = "SecondaryAttestationsTargetMet"
                  -> EvaluateFrom(chain, peek, i + 1, ini, frk \cup {b})
             [] r = "InvalidBlock_TailDoesNotMeetCriteria"
                  -> [ini |-> ini, frk |-> frk, err |-> r]
             [] OTHER -> next

EvaluateAttestations(chain) == EvaluateFrom(chain, ChainPeeks(chain), 1, {}, {})

-----------------------------------------------------------------------------
(* The service.                                                            *)

\* evaluate_chain(tail, cutoff): the blocks it marks met and invalidates
ChainOutcome(tail, cutoff) ==
  LET sel == SelectUnfinalizedAncestorBlocks(tail, cutoff)
      w   == EvaluateAttestations(sel.chain)
  IN IF sel.err = "Ok"
     THEN [ini |-> w.ini, frk |-> w.frk,
           inv |-> IF w.err = "InvalidBlock_TailDoesNotMeetCriteria"
                   THEN {tail} ELSE {}]
     \* BlockSeqNoCutoff(chain) or InvalidatedParent(chain): invalidate_blocks
     ELSE [ini |-> {}, frk |-> {}, inv |-> ToSet(sel.chain)]

\* mutant: the loop takes tails whose block state is not stored yet
EvaluateChain_AnyTail(tail) ==
  /\ tail \notin finalized
  /\ LET o == ChainOutcome(tail, LastFinalizedSeqNo(ThreadOf[tail])) IN
     /\ initialMet' = initialMet \cup o.ini
     /\ forkMet' = forkMet \cup o.frk
     /\ invalidated' = invalidated \cup o.inv
  /\ UNCHANGED <<stored, targetSet, verified, resolvesForks, finalized>>

\* evaluate(): one iteration of its loop, for one tail of the unfinalized
\* snapshot, cut off at the last finalized seq_no of the tail's thread
EvaluateChain(tail) ==
  /\ tail \in stored \ finalized
  /\ LET o == ChainOutcome(tail, LastFinalizedSeqNo(ThreadOf[tail])) IN
     /\ initialMet' = initialMet \cup o.ini
     /\ forkMet' = forkMet \cup o.frk
     /\ invalidated' = invalidated \cup o.inv
  /\ UNCHANGED <<stored, targetSet, verified, resolvesForks, finalized>>

-----------------------------------------------------------------------------
(* The producer's questions about the next block on a parent.              *)

\* evaluate_if_next_block_ancestors_required_attestations_will_be_met: the
\* parent's unfinalized chain walked with the phantom next block one past
\* it, and no marks written; "error" is the selection error it returns
SpeculativeCheck(t, parent, att, forks) ==
  LET sel == SelectUnfinalizedAncestorBlocks(parent, LastFinalizedSeqNo(t))
      w   == EvaluateFrom(sel.chain, PhantomChainPeeks(sel.chain, PhantomTarget(t, att, forks)),
                          1, {}, {})
  IN CASE parent \notin stored -> "false"
       [] sel.err # "Ok"       -> "error"
       [] w.err \in {"Ok", "ChainIsTooShort", "InitialAttestationsTargetIsNotMetResolvesFork"}
                               -> "true"
       [] OTHER                -> "false"

\* prepare_chain's loop: up from b until a finalized block; an invalidated
\* block or one at or below the cutoff is an error
RECURSIVE PrepareFrom(_, _, _)
PrepareFrom(b, cutoff, acc) ==
  CASE b \in invalidated  -> [ok |-> FALSE, chain |-> acc]
    [] b \in finalized    -> [ok |-> TRUE, chain |-> acc]
    [] SeqNo[b] <= cutoff -> [ok |-> FALSE, chain |-> <<b>> \o acc]
    [] OTHER              -> PrepareFrom(Parent[b], cutoff, <<b>> \o acc)

\* prepare_chain(tail): the chain from the first non-finalized block to the
\* tail, cut off at the last finalized seq_no of the tail's thread
PrepareChain(tail) ==
  IF tail \in finalized THEN [ok |-> tail \notin invalidated, chain |-> <<>>]
  ELSE PrepareFrom(tail, LastFinalizedSeqNo(ThreadOf[tail]), <<>>)

\* mutant: the chain length compared without the next block
FindNextBlockKnownDependants_OffByOne(parent) ==
  LET pc == PrepareChain(parent) IN
  [ok   |-> pc.ok /\ ToSet(pc.chain) \subseteq targetSet,
   deps |-> {pc.chain[j] : j \in {i \in DOMAIN pc.chain :
               Target[pc.chain[i]].descendant_generations = Len(pc.chain) - i}}]

\* find_next_block_known_dependants(parent): the blocks of the parent's
\* chain whose required chain length ends exactly at the next block; a
\* block without its target is an error
FindNextBlockKnownDependants(parent) ==
  LET pc == PrepareChain(parent) IN
  [ok   |-> pc.ok /\ ToSet(pc.chain) \subseteq targetSet,
   deps |-> {pc.chain[j] : j \in {i \in DOMAIN pc.chain :
               Target[pc.chain[i]].descendant_generations = Len(pc.chain) - i + 1}}]

-----------------------------------------------------------------------------
(* Node startup (src/node/src/bin/node.rs): before the services start,     *)
(* every unprocessed block state is walked back to the thread's last       *)
(* finalized block; a chain that meets an invalidated block or runs below   *)
(* the cutoff is invalidated.  The walk reads only persisted flags, so it   *)
(* is modelled as a step that may come at any time.                        *)

\* mutant: every selected chain is invalidated, whatever the walk answered
RecoverUnprocessedBlock_AnyAnswer(b) ==
  /\ b \in stored \ finalized
  /\ LET sel == SelectUnfinalizedAncestorBlocks(b, LastFinalizedSeqNo(ThreadOf[b]))
     IN invalidated' = invalidated \cup ToSet(sel.chain)
  /\ UNCHANGED <<stored, targetSet, verified, resolvesForks, initialMet, forkMet, finalized>>

\* one block of load_unprocessed_blocks: InvalidatedParent and
\* BlockSeqNoCutoff invalidate the chain they carry, Ok leaves it alone
RecoverUnprocessedBlock(b) ==
  /\ b \in stored \ finalized
  /\ LET sel == SelectUnfinalizedAncestorBlocks(b, LastFinalizedSeqNo(ThreadOf[b]))
     IN invalidated' = invalidated \cup
          (IF sel.err \in {"InvalidatedParent", "BlockSeqNoCutoff"} THEN ToSet(sel.chain) ELSE {})
  /\ UNCHANGED <<stored, targetSet, verified, resolvesForks, initialMet, forkMet, finalized>>

-----------------------------------------------------------------------------
(* The environment: the parts of the node that fill the repository.        *)

\* a block state is created once its parent's is known
StoreBlock(b) ==
  /\ b \notin stored
  /\ Parent[b] \in stored
  /\ stored' = stored \cup {b}
  /\ UNCHANGED <<targetSet, verified, resolvesForks, initialMet, forkMet,
                 invalidated, finalized>>

SetTarget(b) ==
  /\ b \in stored \ targetSet
  /\ targetSet' = targetSet \cup {b}
  /\ UNCHANGED <<stored, verified, resolvesForks, initialMet, forkMet,
                 invalidated, finalized>>

\* c was applied: its verified attestations (a signer count for every
\* ancestor it is the checkpoint of) and its fork resolutions (only winners
\* it is the checkpoint of matter) are recorded
RecordCheckpointData(c) ==
  /\ c \in stored
  /\ verified[c] = None
  /\ \E att \in [CheckpointOf[c] -> AttestationCounts],
       winners \in SUBSET {a \in CheckpointOf[c] : HasSibling(a)} :
       /\ verified' = [verified EXCEPT ![c] = att]
       /\ resolvesForks' = [resolvesForks EXCEPT ![c] = winners]
  /\ UNCHANGED <<stored, targetSet, initialMet, forkMet, invalidated, finalized>>

\* finalization: a valid block with its target met on a finalized parent,
\* none of its siblings finalized
Finalize(b) ==
  /\ b \in stored \ finalized
  /\ b \notin invalidated
  /\ b \in Met
  /\ Parent[b] \in finalized
  /\ ~\E s \in finalized \ {Genesis} : Parent[s] = Parent[b]
  /\ finalized' = finalized \cup {b}
  /\ UNCHANGED <<stored, targetSet, verified, resolvesForks, initialMet,
                 forkMet, invalidated>>

-----------------------------------------------------------------------------

Init ==
  /\ stored = {Genesis}
  /\ targetSet = {}
  /\ verified = [b \in Blocks |-> None]
  /\ resolvesForks = [b \in Blocks |-> None]
  /\ initialMet = {}
  /\ forkMet = {}
  /\ invalidated = {}
  /\ finalized = {Genesis}

Environment ==
  \E b \in Blocks :
    \/ StoreBlock(b)
    \/ SetTarget(b)
    \/ RecordCheckpointData(b)
    \/ Finalize(b)

Next ==
  \/ Environment
  \/ \E tail \in Blocks : EvaluateChain(tail)
  \/ Restarts /\ \E b \in Blocks : RecoverUnprocessedBlock(b)

\* The service is driven by a loop woken by the repository heartbeat, so
\* every tail that stays in the unfinalized snapshot is evaluated again.
Fairness == \A tail \in Blocks : WF_vars(EvaluateChain(tail))

Spec == Init /\ [][Next]_vars /\ Fairness

-----------------------------------------------------------------------------
(* Properties.                                                             *)

TypeOK ==
  /\ stored \subseteq AllBlocks
  /\ targetSet \subseteq Blocks
  /\ \A c \in Blocks : verified[c] = None
        \/ verified[c] \in [CheckpointOf[c] -> AttestationCounts]
  /\ \A c \in Blocks : resolvesForks[c] = None \/ resolvesForks[c] \subseteq Blocks
  /\ initialMet \cup forkMet \cup invalidated \subseteq stored \cap Blocks
  /\ finalized \subseteq AllBlocks

\* c is a checkpoint of a in a's own thread: the descendant at a's depth
IsCheckpoint(a, c) ==
  /\ AncestorAt(c, Target[a].descendant_generations) = a
  /\ ThreadOf[c] = ThreadOf[a]

(* evaluate_attestations marks a block only on the word of its checkpoint:  *)
(* a block has its initial target met only if some same-thread descendant  *)
(* at the target depth verified at least the required number of signers   *)
(* for it, and met in a resolved fork only if such a checkpoint names it    *)
(* winner and has its own target met.                                      *)
MetIsJustified ==
  /\ \A a \in initialMet : \E c \in stored \cap Blocks :
        /\ IsCheckpoint(a, c)
        /\ verified[c] # None
        /\ verified[c][a] >= Target[a].count
  /\ \A a \in forkMet : \E c \in stored \cap Blocks :
        /\ IsCheckpoint(a, c)
        /\ resolvesForks[c] # None
        /\ a \in resolvesForks[c]
        /\ c \in Met

\* a on b's path to its first finalized ancestor failed at its checkpoint c
\* on that path: too few verified signers and not named a fork winner
FailsOnPath(b) ==
  \E a \in Ancestors[b] \ finalized, c \in ({b} \cup Ancestors[b]) \cap Blocks :
     /\ IsCheckpoint(a, c)
     /\ resolvesForks[c] # None /\ a \notin resolvesForks[c]
     /\ verified[c] # None /\ verified[c][a] < Target[a].count

\* b, or an unfinalized block on its path, is at or below the last finalized
\* seq_no of b's thread or of the thread of one of b's descendants
Cutoff(b) ==
  \E a \in ({b} \cup Ancestors[b]) \ finalized,
     d \in {x \in stored \cap Blocks : x = b \/ b \in Ancestors[x]} :
       SeqNo[a] <= LastFinalizedSeqNo(ThreadOf[d])

(* The service invalidates a block only for a reason: a block of its path  *)
(* failed at its checkpoint on that path, the path reaches below the last  *)
(* finalized block of the thread, or an ancestor is invalid.  A walk that   *)
(* invalidated an ancestor instead of the tail, or treated an unresolved   *)
(* fork as a failure, would invalidate a block the protocol keeps.         *)
InvalidationIsJustified ==
  \A b \in invalidated :
     \/ \E a \in Ancestors[b] : a \in invalidated
     \/ FailsOnPath(b)
     \/ Cutoff(b)

(* Progress: once a same-thread checkpoint of a verified enough signers    *)
(* for it, a is eventually marked met, unless a or the checkpoint is       *)
(* invalidated or a is finalized meanwhile (targets of the path set).  The *)
(* walk must go on past blocks it cannot decide yet.                       *)
CheckpointPairs == {p \in Blocks \X Blocks : IsCheckpoint(p[1], p[2])}

CheckpointDecides ==
  \A <<a, c>> \in CheckpointPairs :
     (/\ c \in stored
      /\ ({c} \cup Ancestors[c]) \cap Blocks \subseteq targetSet
      /\ resolvesForks[c] # None
      /\ verified[c] # None /\ verified[c][a] >= Target[a].count)
     ~> (a \in Met \/ a \in invalidated \/ c \in invalidated \/ a \in finalized)

(* find_next_block_known_dependants names exactly the unfinalized blocks   *)
(* whose checkpoint the next block on the parent will be: the ancestors a  *)
(* (the parent included) that are descendant_generations - 1 generations   *)
(* above the parent.  The code counts positions in its own chain; the      *)
(* reference walks the block tree.                                         *)
KnownDependantsAreCheckpointed ==
  \A p \in stored \cap Blocks :
     FindNextBlockKnownDependants(p).ok =>
       FindNextBlockKnownDependants(p).deps =
         {a \in (({p} \cup Ancestors[p]) \cap Blocks) \ finalized :
            AncestorAt(p, Target[a].descendant_generations - 1) = a}

(* A producer that puts into its next block, for every block               *)
(* find_next_block_known_dependants names, as many attestations as that    *)
(* block's target requires, passes the speculative check, unless the       *)
(* parent's chain already fails on its own: the phantom next block is      *)
(* peeked at the right position and the two walks agree.                   *)
SufficientAttestationsPass ==
  \A p \in stored \cap Blocks :
     LET f == FindNextBlockKnownDependants(p) IN
     (f.ok /\ EvaluateAttestations(PrepareChain(p).chain).err = "Ok")
        => SpeculativeCheck(ThreadOf[p], p, [a \in f.deps |-> Target[a].count], {}) = "true"

=============================================================================
