------------------------- MODULE MCStreamIngestion -------------------------
(* Instances of StreamIngestion for TLC. *)
EXTENDS StreamIngestion, TLC

CONSTANTS p1, p2, p3, d1

MCPayments == {p1, p2, p3}
MCOperations == {d1}

(* p3 is so late after p1 that p1 leaves the retention and p2 does not;    *)
(* p1 and p2 are within the lateness of each other.                        *)
MCOccurredAt == (p1 :> 1) @@ (p2 :> 2) @@ (p3 :> 5) @@ (d1 :> 2)
=============================================================================
