------------------------- MODULE MCIncidentAnalysis -------------------------
(* An instance of IncidentAnalysis for TLC. *)
EXTENDS IncidentAnalysis

Triple(region, method, version) ==
  [processing_region |-> region, payment_method |-> method, service_version |-> version]

(* The deployed version carries the wallets of SG, some of its cards and   *)
(* some wallets of US; the old version has wallets of SG too.              *)
MCObserved ==
  {Triple("SG", "WALLET", "new"), Triple("SG", "WALLET", "old"),
   Triple("SG", "CARD", "new"), Triple("US", "WALLET", "new")}

(* Windows where the traffic of some triples fails: of one triple, of the  *)
(* wallets of SG, of the new version, of none, of all; and all where the   *)
(* traffic of cards has stopped.                                           *)
Failing(triples, idle) ==
  [t \in MCObserved |->
     [attempts |-> IF t \in idle THEN 0 ELSE 4, errors |-> IF t \in triples \ idle THEN 3 ELSE 0]]

MCWindows ==
  {Failing({Triple("SG", "WALLET", "new")}, {}),
   Failing({Triple("SG", "WALLET", "new"), Triple("SG", "WALLET", "old")}, {}),
   Failing({t \in MCObserved : t.service_version = "new"}, {}),
   Failing({}, {}),
   Failing(MCObserved, {}),
   Failing(MCObserved, {Triple("SG", "CARD", "new")})}

(* The old version had an error before. *)
MCBaseline ==
  [t \in MCObserved |-> [attempts |-> 10, errors |-> IF t.service_version = "old" THEN 1 ELSE 0]]

Change(id, type, service, at) ==
  [event_id |-> id, event_type |-> type, status |-> "SUCCEEDED", affected_service |-> service,
   occurred_at |-> at, new_version |-> Unknown, from_version |-> Unknown, to_version |-> Unknown,
   affected_regions |-> {"SG"}, affected_payment_methods |-> {"WALLET"}, change_categories |-> {"TOKEN"}]

(* A deployment of the version to the wallets of SG, a later change of a   *)
(* dependency, and the rollback of the deployment after the start.         *)
MCChanges ==
  {[Change("deployment", "DEPLOYMENT", "PAYMENT_GATEWAY", -2) EXCEPT !.new_version = "new"],
   Change("dependency", "CONFIG_CHANGE", "TOKEN_SERVICE", -1),
   [Change("rollback", "ROLLBACK", "PAYMENT_GATEWAY", 3)
      EXCEPT !.from_version = "new", !.to_version = "old"]}

MCMinExcess == <<2, 1>>
MCMinIncrease == <<1, 10>>
MCRetention == <<13, 20>>
MCImprovement == <<1, 10>>
MCMinAnomaly == <<1, 10>>
MCMaxResidual == <<2, 5>>
=============================================================================
