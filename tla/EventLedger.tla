---------------------------- MODULE EventLedger ----------------------------
(***************************************************************************)
(* What the ingestion side of the system promises about one event, with    *)
(* no stream, worker, checkpoint or crash in sight:                        *)
(*                                                                         *)
(*   - an event is published at some time;                                 *)
(*   - it is then committed: its effect is part of the durable state the   *)
(*     worker restarts from, and nothing ever takes it out again;          *)
(*   - only a committed event is settled, that is, remembered as done and  *)
(*     never processed again.                                              *)
(*                                                                         *)
(* StreamIngestion is shown to implement this module.                      *)
(***************************************************************************)

CONSTANT Events      \* The payment and operational events.

VARIABLES published, \* Events that are in the streams.
          committed, \* Events whose effect is durable.
          settled    \* Events the consumer will never process again.

vars == <<published, committed, settled>>

Init ==
  /\ published = {}
  /\ committed = {}
  /\ settled = {}

Publish(e) ==
  /\ published' = published \cup {e}
  /\ UNCHANGED <<committed, settled>>

(* A whole batch becomes durable at once. *)
Commit(batch) ==
  /\ committed' = committed \cup batch
  /\ UNCHANGED <<published, settled>>

Settle(e) ==
  /\ e \in committed
  /\ settled' = settled \cup {e}
  /\ UNCHANGED <<published, committed>>

Next ==
  \/ \E e \in Events : Publish(e)
  \/ \E batch \in SUBSET published : Commit(batch)
  \/ \E e \in Events : Settle(e)

Spec == Init /\ [][Next]_vars
=============================================================================
