--------------------------- MODULE PubSubReceiver ---------------------------
(***************************************************************************)
(* The receiver loop of one pub/sub connection                             *)
(* (src/network/src/pub_sub/receiver.rs).                                   *)
(*                                                                         *)
(* The loop selects among three events: an incoming uni stream            *)
(* (accept_uni), the result of a finished transfer (transfer_result_rx)    *)
(* and a change of the stop watch.  Each accepted stream is read by a      *)
(* spawned task that sends its result into a bounded channel; the loop     *)
(* forwards a successful result to the node (incoming_tx.send(..).await)   *)
(* and ends on a stop, on a failed accept, on a failed transfer or when    *)
(* the node's consumer is gone.  When the loop ends it drops the receiving *)
(* end of the result channel, so a task that finishes later cannot send.  *)
(*                                                                         *)
(* A message is a model value, one per stream the peer opens; a transfer   *)
(* is abstracted to its outcome.                                           *)
(***************************************************************************)
EXTENDS Naturals, Sequences, SequencesExt, FiniteSets

CONSTANTS
  Msgs,               \* the messages the peer sends, one uni stream each
  NoMsg,              \* no message
  ResultCapacity,     \* capacity of the transfer result channel (10 in the code)
  IncomingCap,        \* capacity of the node's incoming channel
  Outcomes,           \* what transfer() may return: "ok" or "err"
  PeerMayClose,       \* whether the connection may close under the loop
  ConsumerMayDetach   \* whether the node may drop the incoming receiver

ASSUME ResultCapacity \in Nat \ {0} /\ IncomingCap \in Nat \ {0}
       /\ Outcomes \subseteq {"ok", "err"} /\ NoMsg \notin Msgs

VARIABLES
  conn,        \* the connection: "open" or "closed"
  task,        \* per message: "none" (not accepted), "transfer", "ok" / "err"
               \* (finished, sending its result), "sent" or "dropped"
  chan,        \* transfer_result channel: [msg, res], oldest first
  rx,          \* the loop: "select", "forward" (awaiting incoming_tx.send)
               \* or "finished"
  fwd,         \* the message being forwarded, or NoMsg
  incoming,    \* the node's incoming channel
  consumer,    \* the node's end of it: "attached" or "detached"
  stop,        \* the value of the stop watch
  stopSeen,    \* whether stop_rx.changed() has reported the change
  delivered    \* ghost: the messages the node took, in order

vars == <<conn, task, chan, rx, fwd, incoming, consumer, stop, stopSeen, delivered>>

-----------------------------------------------------------------------------
(* The receiver loop, one select branch per action.                        *)

\* accept_uni returns a stream: spawn a task that transfers it
AcceptOk(m) ==
  /\ rx = "select"
  /\ conn = "open"
  /\ task[m] = "none"
  /\ task' = [task EXCEPT ![m] = "transfer"]
  /\ UNCHANGED <<conn, chan, rx, fwd, incoming, consumer, stop, stopSeen, delivered>>

\* accept_uni fails (the connection is closed): the loop ends
AcceptErr ==
  /\ rx = "select"
  /\ conn = "closed"
  /\ rx' = "finished"
  /\ UNCHANGED <<conn, task, chan, fwd, incoming, consumer, stop, stopSeen, delivered>>

\* mutant: a successful result forwarded with try_send, dropped when the
\* node's channel is full
RecvOk_TrySend ==
  /\ rx = "select"
  /\ chan # <<>>
  /\ Head(chan).res = "ok"
  /\ chan' = Tail(chan)
  /\ IF consumer = "attached" /\ Len(incoming) < IncomingCap
     THEN incoming' = Append(incoming, Head(chan).msg)
     ELSE UNCHANGED incoming
  /\ UNCHANGED <<conn, task, rx, fwd, consumer, stop, stopSeen, delivered>>

\* a successful transfer result: the loop starts forwarding it
RecvOk ==
  /\ rx = "select"
  /\ chan # <<>>
  /\ Head(chan).res = "ok"
  /\ chan' = Tail(chan)
  /\ rx' = "forward"
  /\ fwd' = Head(chan).msg
  /\ UNCHANGED <<conn, task, incoming, consumer, stop, stopSeen, delivered>>

\* a failed transfer result: the loop ends ("problem with this connection")
RecvErr ==
  /\ rx = "select"
  /\ chan # <<>>
  /\ Head(chan).res = "err"
  /\ chan' = Tail(chan)
  /\ rx' = "finished"
  /\ UNCHANGED <<conn, task, fwd, incoming, consumer, stop, stopSeen, delivered>>

\* incoming_tx.send completes once the node's channel has room
Forward ==
  /\ rx = "forward"
  /\ consumer = "attached"
  /\ Len(incoming) < IncomingCap
  /\ incoming' = Append(incoming, fwd)
  /\ rx' = "select"
  /\ fwd' = NoMsg
  /\ UNCHANGED <<conn, task, chan, consumer, stop, stopSeen, delivered>>

\* the send fails because the consumer was detached: the loop ends
ForwardFails ==
  /\ rx = "forward"
  /\ consumer = "detached"
  /\ rx' = "finished"
  /\ UNCHANGED <<conn, task, chan, fwd, incoming, consumer, stop, stopSeen, delivered>>

\* mutant: the stop branch without its break
StopChanged_NoBreak ==
  /\ rx = "select"
  /\ stop /\ ~stopSeen
  /\ stopSeen' = TRUE
  /\ UNCHANGED <<conn, task, chan, rx, fwd, incoming, consumer, stop, delivered>>

\* stop_rx.changed(): the watch now holds true, so the loop ends
StopChanged ==
  /\ rx = "select"
  /\ stop /\ ~stopSeen
  /\ stopSeen' = TRUE
  /\ rx' = "finished"
  /\ UNCHANGED <<conn, task, chan, fwd, incoming, consumer, stop, delivered>>

Loop ==
  \/ \E m \in Msgs : AcceptOk(m)
  \/ AcceptErr \/ RecvOk \/ RecvErr \/ Forward \/ ForwardFails \/ StopChanged

-----------------------------------------------------------------------------
(* The spawned transfer tasks.                                             *)

\* transfer(): read the stream to its end and deserialize it
Transfer(m) ==
  /\ task[m] = "transfer"
  /\ \E r \in Outcomes : task' = [task EXCEPT ![m] = r]
  /\ UNCHANGED <<conn, chan, rx, fwd, incoming, consumer, stop, stopSeen, delivered>>

\* mutant: the result sent with try_send, dropped when the channel is full
SendResult_TrySend(m) ==
  /\ task[m] \in {"ok", "err"}
  /\ rx # "finished"
  /\ IF Len(chan) < ResultCapacity
     THEN /\ chan' = Append(chan, [msg |-> m, res |-> task[m]])
          /\ task' = [task EXCEPT ![m] = "sent"]
     ELSE /\ task' = [task EXCEPT ![m] = "dropped"]
          /\ UNCHANGED chan
  /\ UNCHANGED <<conn, rx, fwd, incoming, consumer, stop, stopSeen, delivered>>

\* mutant: the capacity test one past the end
SendResult_PastCapacity(m) ==
  /\ task[m] \in {"ok", "err"}
  /\ rx # "finished"
  /\ Len(chan) <= ResultCapacity
  /\ chan' = Append(chan, [msg |-> m, res |-> task[m]])
  /\ task' = [task EXCEPT ![m] = "sent"]
  /\ UNCHANGED <<conn, rx, fwd, incoming, consumer, stop, stopSeen, delivered>>

\* transfer_result_tx.send(..).await: completes once the channel has room
SendResult(m) ==
  /\ task[m] \in {"ok", "err"}
  /\ rx # "finished"
  /\ Len(chan) < ResultCapacity
  /\ chan' = Append(chan, [msg |-> m, res |-> task[m]])
  /\ task' = [task EXCEPT ![m] = "sent"]
  /\ UNCHANGED <<conn, rx, fwd, incoming, consumer, stop, stopSeen, delivered>>

\* the loop has returned and dropped transfer_result_rx: the send fails and
\* the task's result is ignored
SendFails(m) ==
  /\ task[m] \in {"ok", "err"}
  /\ rx = "finished"
  /\ task' = [task EXCEPT ![m] = "dropped"]
  /\ UNCHANGED <<conn, chan, rx, fwd, incoming, consumer, stop, stopSeen, delivered>>

Task(m) == Transfer(m) \/ SendResult(m) \/ SendFails(m)

-----------------------------------------------------------------------------
(* The environment: the peer, the node's consumer and the owner of the     *)
(* stop watch.                                                             *)

CloseConnection ==
  /\ PeerMayClose
  /\ conn = "open"
  /\ conn' = "closed"
  /\ UNCHANGED <<task, chan, rx, fwd, incoming, consumer, stop, stopSeen, delivered>>

Consume ==
  /\ consumer = "attached"
  /\ incoming # <<>>
  /\ delivered' = Append(delivered, Head(incoming))
  /\ incoming' = Tail(incoming)
  /\ UNCHANGED <<conn, task, chan, rx, fwd, consumer, stop, stopSeen>>

\* dropping the receiver drops what it had buffered
Detach ==
  /\ ConsumerMayDetach
  /\ consumer = "attached"
  /\ consumer' = "detached"
  /\ incoming' = <<>>
  /\ UNCHANGED <<conn, task, chan, rx, fwd, stop, stopSeen, delivered>>

SetStop ==
  /\ ~stop
  /\ stop' = TRUE
  /\ UNCHANGED <<conn, task, chan, rx, fwd, incoming, consumer, stopSeen, delivered>>

Environment == CloseConnection \/ Consume \/ Detach \/ SetStop

Init ==
  /\ conn = "open"
  /\ task = [m \in Msgs |-> "none"]
  /\ chan = <<>>
  /\ rx = "select"
  /\ fwd = NoMsg
  /\ incoming = <<>>
  /\ consumer = "attached"
  /\ stop = FALSE
  /\ stopSeen = FALSE
  /\ delivered = <<>>

Next ==
  \/ Loop
  \/ \E m \in Msgs : Task(m)
  \/ Environment

\* the runtime polls the loop and every spawned task once it is woken; the
\* node's consumer keeps taking messages while attached
Fairness ==
  /\ WF_vars(Loop)
  /\ \A m \in Msgs : WF_vars(Task(m))
  /\ WF_vars(Consume)

Spec == Init /\ [][Next]_vars /\ Fairness

-----------------------------------------------------------------------------
(* Properties.                                                             *)

TypeOK ==
  /\ conn \in {"open", "closed"}
  /\ task \in [Msgs -> {"none", "transfer", "ok", "err", "sent", "dropped"}]
  /\ chan \in Seq([msg : Msgs, res : {"ok", "err"}]) /\ Len(chan) <= ResultCapacity
  /\ rx \in {"select", "forward", "finished"}
  /\ fwd \in Msgs \cup {NoMsg}
  /\ incoming \in Seq(Msgs) /\ Len(incoming) <= IncomingCap
  /\ consumer \in {"attached", "detached"}
  /\ stop \in BOOLEAN /\ stopSeen \in BOOLEAN
  /\ delivered \in Seq(Msgs)

\* the message is in the result channel, being forwarded, or with the node
Carried(m) ==
  m \in {chan[i].msg : i \in DOMAIN chan} \cup {fwd} \cup ToSet(incoming) \cup ToSet(delivered)

(* While the loop runs and the node's consumer is attached, no transfer   *)
(* result is dropped and every sent one is in the result channel, being   *)
(* forwarded or with the node (a failed one ends the loop when received), *)
(* though the tasks, the loop and the consumer run concurrently and both  *)
(* channels may be full: the tasks and the loop await their sends.       *)
NoLossWhileRunning ==
  (rx # "finished" /\ consumer = "attached") =>
    \A m \in Msgs : /\ task[m] # "dropped"
                    /\ task[m] = "sent" => Carried(m)

(* Every message whose transfer succeeded reaches the node, unless the     *)
(* loop ends or the node's consumer goes away first: its task waits for    *)
(* room in the result channel, the select! of the loop, which polls its    *)
(* branches in random order, takes the result, and the forwarding send     *)
(* waits for room in the node's channel.                                   *)
TransferredReachesNode ==
  \A m \in Msgs :
    task[m] = "ok" ~> (m \in ToSet(delivered) \/ rx = "finished" \/ consumer = "detached")

(* A stop always ends the loop, though the loop may be forwarding a       *)
(* message and each spawned task may be blocked on the full channel.      *)
StopEndsReceiver == stop ~> rx = "finished"

====
