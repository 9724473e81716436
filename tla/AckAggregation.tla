--------------------------- MODULE AckAggregation ---------------------------
(***************************************************************************)
(* The acknowledgement buffers of the block producer and their fold        *)
(* (src/node/src/block/producer/process.rs).                               *)
(*                                                                         *)
(* The transport appends ack and nack envelopes to two shared buffers.     *)
(* Each production iteration drains both under their locks and folds each *)
(* into one envelope per block id; the folded envelopes go into the common *)
(* section of the produced block, unless an external stop arrives first,   *)
(* in which case the iteration returns and the drained envelopes are gone. *)
(*                                                                         *)
(* An envelope is abstracted to its block id, its signer occurrences (a    *)
(* bag of signer indices) and its aggregated BLS signature, represented by *)
(* the bag of signer signatures multiplied into it: a BLS aggregate        *)
(* verifies against the occurrences exactly when the two bags are equal.   *)
(***************************************************************************)
EXTENDS Naturals, Sequences, SequencesExt, Bags, Functions, TLC

CONSTANTS
  BlockIds,   \* block ids an ack or nack may refer to
  Signers,    \* signer indices of the block keepers
  MaxBuffer   \* bound on the envelopes buffered between two iterations

\* an envelope as a single keeper signs it: each signer once
Envelope(b, S) == [block |-> b, occ |-> SetToBag(S), sig |-> SetToBag(S)]

Envelopes == {Envelope(b, S) : b \in BlockIds, S \in SUBSET Signers \ {{}}}

VARIABLES
  receivedAcks,   \* the received_acks buffer
  receivedNacks   \* the received_nacks buffer

vars == <<receivedAcks, receivedNacks>>

-----------------------------------------------------------------------------
(* aggregate_acks / aggregate_nacks: a left fold over the buffer into a    *)
(* map from block id to envelope.  The incoming occurrences are added to   *)
(* the aggregate's and zero counts pruned; the aggregate is replaced by    *)
(* the merged occurrences and the BLS-merged signature only if the number  *)
(* of distinct signers grew.                                               *)

\* mutants: the occurrences merged without the signature, the growth
\* measured against the incoming envelope, and a merge on equal growth
MergeEnvelope_OccurrencesOnly(a, e) ==
  LET merged == a.occ (+) e.occ
  IN IF Cardinality(BagToSet(merged)) > Cardinality(BagToSet(a.occ))
     THEN [block |-> a.block, occ |-> merged, sig |-> a.sig]
     ELSE a

MergeEnvelope_AgainstIncoming(a, e) ==
  LET merged == a.occ (+) e.occ
  IN IF Cardinality(BagToSet(merged)) > Cardinality(BagToSet(e.occ))
     THEN [block |-> a.block, occ |-> merged, sig |-> a.sig (+) e.sig]
     ELSE a

MergeEnvelope_GrowOrEqual(a, e) ==
  LET merged == a.occ (+) e.occ
  IN IF Cardinality(BagToSet(merged)) >= Cardinality(BagToSet(a.occ))
     THEN [block |-> a.block, occ |-> merged, sig |-> a.sig (+) e.sig]
     ELSE a

\* and_modify: merge an incoming envelope e into the aggregate a
MergeEnvelope(a, e) ==
  LET merged == a.occ (+) e.occ
  IN IF Cardinality(BagToSet(merged)) > Cardinality(BagToSet(a.occ))
     THEN [block |-> a.block, occ |-> merged, sig |-> a.sig (+) e.sig]
     ELSE a

\* one step of the loop: entry(block_id).and_modify(..).or_insert(e)
AddEnvelope(agg, e) ==
  IF e.block \in DOMAIN agg
  THEN [agg EXCEPT ![e.block] = MergeEnvelope(@, e)]
  ELSE agg @@ (e.block :> e)

AggregateAcks(envs) == FoldLeft(AddEnvelope, <<>>, envs)

AggregateNacks(envs) == FoldLeft(AddEnvelope, <<>>, envs)

-----------------------------------------------------------------------------
(* The buffers and the production iteration.                               *)

\* the transport pushes one ack (nack) envelope
ReceiveAck(e) ==
  /\ Len(receivedAcks) < MaxBuffer
  /\ receivedAcks' = Append(receivedAcks, e)
  /\ UNCHANGED receivedNacks

ReceiveNack(e) ==
  /\ Len(receivedNacks) < MaxBuffer
  /\ receivedNacks' = Append(receivedNacks, e)
  /\ UNCHANGED receivedAcks

\* produce_next copies and clears both buffers under their locks; the
\* folds of the copies, AggregateAcks(receivedAcks) and
\* AggregateNacks(receivedNacks), are what the new block carries
ProduceNext ==
  /\ receivedAcks' = <<>>
  /\ receivedNacks' = <<>>

Init ==
  /\ receivedAcks = <<>>
  /\ receivedNacks = <<>>

Next ==
  \/ \E e \in Envelopes : ReceiveAck(e) \/ ReceiveNack(e)
  \/ ProduceNext

Spec == Init /\ [][Next]_vars

-----------------------------------------------------------------------------
(* Properties.                                                             *)

\* the envelopes of envs for block b
For(envs, b) == {envs[i] : i \in {j \in DOMAIN envs : envs[j].block = b}}

\* the folds the next production iteration puts into its block, each with
\* the buffer it folds
Folds == {<<AggregateAcks(receivedAcks), receivedAcks>>,
          <<AggregateNacks(receivedNacks), receivedNacks>>}

(* Every envelope the fold puts into a block verifies: its aggregated     *)
(* signature was merged exactly as often as its occurrences count each     *)
(* signer.  Merging the occurrences without the signature, or the other    *)
(* way round, makes the block carry an envelope that fails verification.   *)
SignatureMatchesOccurrences ==
  \A <<agg, envs>> \in Folds : \A b \in DOMAIN agg : agg[b].sig = agg[b].occ

(* No signer is lost: the folded envelope of a block id names exactly the  *)
(* signers of the buffered envelopes for that id, although the fold keeps  *)
(* the old aggregate whenever the signer count did not grow.               *)
SignersAreKept ==
  \A <<agg, envs>> \in Folds :
    /\ DOMAIN agg = {envs[i].block : i \in DOMAIN envs}
    /\ \A b \in DOMAIN agg :
         BagToSet(agg[b].occ) = UNION {BagToSet(e.occ) : e \in For(envs, b)}

(* An envelope delivered again after the fold has seen it changes nothing: *)
(* folding the buffer twice over gives the same envelopes as folding it     *)
(* once (spec: aggregate(S + S) = aggregate(S)).                           *)
RedeliveryIsIgnored ==
  \A envs \in {receivedAcks, receivedNacks} :
    AggregateAcks(envs \o envs) = AggregateAcks(envs)

\* the sequences with the elements of s in every order
Reorderings(s) ==
  {[i \in DOMAIN s |-> s[p[i]]] : p \in Bijection(DOMAIN s, DOMAIN s)}

(* The order in which acks arrive does not matter: every order of the      *)
(* buffered envelopes folds to the same envelopes (spec: the ack/nack fold *)
(* is commutative).                                                        *)
FoldIsCommutative ==
  \A s \in Reorderings(receivedAcks) : AggregateAcks(s) = AggregateAcks(receivedAcks)

=============================================================================
