--------------------------- MODULE BlockKeeperEpoch ---------------------------
(***************************************************************************)
(* The block keeper sets of a thread and the touching of expired epochs    *)
(* (src/node/src/node/block_keeper_system.rs,                               *)
(*  src/node/src/block_keeper_system/epoch.rs), with the channel that       *)
(* carries a touch to the production thread and the production iterations  *)
(* that drain it (src/node/src/block/producer/process.rs).                 *)
(*                                                                         *)
(* The sets are versioned by block seq_no; a block's keeper changes make   *)
(* a new version from the latest one.  The producing node periodically     *)
(* checks the latest version: an epoch past its finish is touched and      *)
(* given 5 more seconds (CalledToFinish), then touched once more and       *)
(* marked Expired.  A touch is the keeper's data sent over a channel; the  *)
(* production thread drains the channel at the start of each iteration     *)
(* and puts the touches into the block, unless an external stop arrives    *)
(* first, in which case the thread returns and the drained data is gone.   *)
(*                                                                         *)
(* A keeper's data is abstracted to its signer index, its epoch contract   *)
(* (a model value), its finish timestamp and its status; an epoch          *)
(* contract's storage to the fields decode_epoch_data reads.               *)
(***************************************************************************)
EXTENDS Naturals, Sequences, SequencesExt, FiniteSets, FiniteSetsExt

CONSTANTS
  Epochs,       \* epoch contracts (the address of a BlockKeeperData)
  Storage,      \* Storage[e]: the epoch's storage, [fields, walletId, finish]
  InitialSet,   \* the first keeper set: signer index -> epoch
  Blocks,       \* blocks with keeper changes, in seq_no order: [seq, removed, added],
                \* added the epochs whose keepers the block adds, in order
  RetryDelta,   \* EPOCH_TOUCH_RETRY_TIME_DELTA
  MaxTime,      \* bound on the clock
  CheckOnlyWhileProducing  \* whether the caller checks epochs only while its production thread runs

VARIABLES
  bkSets,     \* block_keeper_sets[thread]: seq_no -> (signer index -> data)
  now,        \* the wall clock, in seconds
  applied,    \* the number of Blocks whose changes were applied
  sender,     \* epoch_block_keeper_data_senders: "none", or the channel's receiver "open" / "closed"
  chan,       \* the data sent and not yet drained, oldest first
  touches,    \* ghost: every touch sent, [epoch, time], in order
  included    \* ghost: the epochs a produced block carries a touch for

vars == <<bkSets, now, applied, sender, chan, touches, included>>

-----------------------------------------------------------------------------

\* the storage fields decode_epoch_data requires
Fields == {"_bls_pubkey", "_walletId", "_unixtimeFinish", "_stake"}

\* decode_epoch_data: the keeper's data when all four fields are there (a
\* field of another type counts as missing), none otherwise.  The wallet id
\* is cut to its low 16 bits (`as SignerIndex`, a u16); the finish keeps
\* its low 32 bits, which the checked finishes never exceed.
Decoded(e) ==
  IF Fields \subseteq Storage[e].fields
  THEN {[index  |-> Storage[e].walletId % 2^16,
         epoch  |-> e,
         finish |-> Storage[e].finish,
         status |-> "Active"]}
  ELSE {}

\* the keepers a block adds: signer index -> data; of two with one index
\* the later insert wins
AddedData(blk) ==
  LET adds  == UNION {Decoded(blk.added[k]) : k \in DOMAIN blk.added}
      at(i) == Max({k \in DOMAIN blk.added : \E d \in Decoded(blk.added[k]) : d.index = i})
  IN [i \in {d.index : d \in adds} |-> CHOOSE d \in Decoded(blk.added[at(i)]) : TRUE]

\* the greatest key of the versioned map (BTreeMap::last_key_value)
LastSeqNo == CHOOSE s \in DOMAIN bkSets : \A t \in DOMAIN bkSets : t <= s

\* get_block_keeper_set: the latest version at or before seq_no; it panics
\* when there is none, which the callers' seq_nos never reach
GetBlockKeeperSet(seqNo) ==
  LET older == {s \in DOMAIN bkSets : s <= seqNo}
  IN bkSets[CHOOSE s \in older : \A t \in older : t <= s]

\* mutant: the additions applied before the removals
ApplyChanges_AddsFirst(set, blk) ==
  LET add      == AddedData(blk)
      withAdds == [i \in DOMAIN set \cup DOMAIN add |->
                     IF i \in DOMAIN add THEN add[i] ELSE set[i]]
  IN [i \in DOMAIN withAdds \ blk.removed |-> withAdds[i]]

\* the new version: the latest one with the removals applied first, then
\* the additions ("remove and add can happen in one block")
ApplyChanges(set, blk) ==
  LET kept == DOMAIN set \ blk.removed
      add  == AddedData(blk)
  IN [i \in kept \cup DOMAIN add |-> IF i \in DOMAIN add THEN add[i] ELSE set[i]]

-----------------------------------------------------------------------------
(* The node's operations.                                                  *)

\* send_epoch_message: sent only if production was ever started; a send to
\* a receiver that is gone fails, and the failure is ignored
SendAll(ds) ==
  /\ chan' = IF sender = "open" THEN chan \o ds ELSE chan
  /\ touches' = touches \o [i \in DOMAIN ds |-> [epoch |-> ds[i].epoch, time |-> now]]

\* mutants: a touched epoch not given the extra RetryDelta seconds, and a
\* CalledToFinish epoch touched again but never marked Expired
Touched_NoRetryDelay(d) ==
  IF d.status = "Active" THEN [d EXCEPT !.status = "CalledToFinish"]
  ELSE [d EXCEPT !.status = "Expired"]

Touched_NeverExpire(d) ==
  IF d.status = "Active" THEN [d EXCEPT !.finish = @ + RetryDelta, !.status = "CalledToFinish"]
  ELSE d

\* the match on data.status of a keeper whose epoch finished before now:
\* an Active one gets RetryDelta more seconds and becomes CalledToFinish,
\* a CalledToFinish one becomes Expired
Touched(d) ==
  IF d.status = "Active" THEN [d EXCEPT !.finish = @ + RetryDelta, !.status = "CalledToFinish"]
  ELSE [d EXCEPT !.status = "Expired"]

\* check_and_touch_block_keeper_epochs, under the lock: every keeper of
\* the latest version whose epoch finished before now and is not Expired
\* is sent and Touched; the keepers are visited in HashMap order
CheckAndTouch ==
  LET cur == bkSets[LastSeqNo]
      due == {i \in DOMAIN cur : cur[i].finish < now /\ cur[i].status # "Expired"}
  IN /\ bkSets' = [bkSets EXCEPT ![LastSeqNo] =
                    [i \in DOMAIN cur |-> IF i \in due THEN Touched(cur[i]) ELSE cur[i]]]
     /\ \E order \in SetToSeqs(due) : SendAll([k \in DOMAIN order |-> cur[order[k]]])
     /\ UNCHANGED <<now, applied, sender, included>>

\* update_block_keeper_set_from_common_section for the next block with
\* keeper changes: the version at its seq_no (an insert, replacing one
\* already there), made from the latest
UpdateBlockKeeperSet ==
  /\ applied < Len(Blocks)
  /\ LET blk == Blocks[applied + 1]
     IN bkSets' = (blk.seq :> ApplyChanges(bkSets[LastSeqNo], blk)) @@ bkSets
  /\ applied' = applied + 1
  /\ UNCHANGED <<now, sender, chan, touches, included>>

\* start_thread_production: a new channel whose receiver the new
\* production thread owns
StartThreadProduction ==
  /\ sender # "open"
  /\ sender' = "open"
  /\ chan' = <<>>
  /\ UNCHANGED <<bkSets, now, applied, touches, included>>

\* one iteration of the production thread: produce_next drains the
\* channel with try_recv and commits a block carrying the drained data
ProduceNext ==
  /\ sender = "open"
  /\ included' = included \cup {chan[i].epoch : i \in DOMAIN chan}
  /\ chan' = <<>>
  /\ UNCHANGED <<bkSets, now, applied, sender, touches>>

\* the iteration in which the external stop (stop_thread_production)
\* arrives: the channel was drained, produce_next returns before building
\* the block, and the thread returns, dropping the receiver
ProduceNextStopped ==
  /\ sender = "open"
  /\ chan' = <<>>
  /\ sender' = "closed"
  /\ UNCHANGED <<bkSets, now, applied, touches, included>>

Tick ==
  /\ now < MaxTime
  /\ now' = now + 1
  /\ UNCHANGED <<bkSets, applied, sender, chan, touches, included>>

Init ==
  /\ bkSets = (0 :> [i \in DOMAIN InitialSet |-> CHOOSE d \in Decoded(InitialSet[i]) : TRUE])
  /\ now = 0
  /\ applied = 0
  /\ sender = "none"
  /\ chan = <<>>
  /\ touches = <<>>
  /\ included = {}

\* when the node calls check_and_touch_block_keeper_epochs (the caller is
\* outside this code): at any time, or only while it produces
CheckCalled == CheckOnlyWhileProducing => sender = "open"

Next ==
  \/ CheckCalled /\ CheckAndTouch
  \/ UpdateBlockKeeperSet
  \/ StartThreadProduction
  \/ ProduceNext
  \/ ProduceNextStopped
  \/ Tick

Spec == Init /\ [][Next]_vars

-----------------------------------------------------------------------------
(* Properties.                                                             *)

\* the touches sent for epoch e among the first k
TouchCount(e, k) == Cardinality({j \in 1 .. k : touches[j].epoch = e})

(* An epoch is touched at most twice: once when it is found finished and  *)
(* once more when it is still there after the retry delay; after that it   *)
(* is Expired and left alone, however often the node checks.               *)
AtMostTwoTouches == \A e \in Epochs : TouchCount(e, Len(touches)) <= 2

(* Every touch is sent after the epoch's finish, and the second one only   *)
(* after the retry delay too: the node never touches an epoch early and    *)
(* never retries before RetryDelta seconds have passed.                    *)
TouchesAreSpaced ==
  \A k \in DOMAIN touches :
    LET e == touches[k].epoch
    IN touches[k].time > Storage[e].finish + (TouchCount(e, k) - 1) * RetryDelta

\* reference: the epoch of signer index i after the first n blocks.  A
\* keeper is an epoch with all four fields and its signer index is its
\* wallet id; a block that both removes and adds i leaves the added epoch,
\* the last one if it adds two.
RECURSIVE KeeperAfter(_, _)
KeeperAfter(i, n) ==
  LET adding == {k \in DOMAIN Blocks[n].added :
                   /\ Fields \subseteq Storage[Blocks[n].added[k]].fields
                   /\ Storage[Blocks[n].added[k]].walletId = i}
  IN IF n = 0 THEN IF i \in DOMAIN InitialSet THEN InitialSet[i] ELSE "none"
     ELSE IF adding # {} THEN Blocks[n].added[Max(adding)]
     ELSE IF i \in Blocks[n].removed THEN "none"
     ELSE KeeperAfter(i, n - 1)

\* the signer indices the first set, a wallet id or a removal names
Indices == DOMAIN InitialSet \cup {Storage[e].walletId : e \in Epochs}
             \cup UNION {Blocks[n].removed : n \in DOMAIN Blocks}

(* The keeper set the node returns for any block seq_no is the one made by *)
(* the changes of every applied block up to that seq_no, though each       *)
(* version is built from the latest one and the removals and additions of *)
(* one block may name the same signer.                                     *)
KeeperSetsFollowChanges ==
  \A s \in 0 .. Blocks[Len(Blocks)].seq :
    LET n   == Cardinality({k \in 1 .. applied : Blocks[k].seq <= s})
        set == GetBlockKeeperSet(s)
    IN \A i \in Indices :
         KeeperAfter(i, n) = IF i \in DOMAIN set THEN set[i].epoch ELSE "none"

(* An epoch the node marks Expired was touched: a block carries a touch   *)
(* for it, or one is still in the channel to the production thread.       *)
ExpiredEpochWasTouched ==
  LET cur == bkSets[LastSeqNo]
  IN \A i \in DOMAIN cur :
       cur[i].status = "Expired" =>
         cur[i].epoch \in included \cup {chan[k].epoch : k \in DOMAIN chan}

=============================================================================
