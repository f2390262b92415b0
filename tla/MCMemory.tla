------------------------------ MODULE MCMemory ------------------------------
(* Memory with items of every kind the saved text tells apart.             *)
EXTENDS Memory

CONSTANTS a, b, c, d, someQuery

Mixed == {[id |-> a, content |-> "plain", meta |-> "none"],
          [id |-> b, content |-> "special", meta |-> "one"],
          [id |-> c, content |-> "plain", meta |-> "oneKey"],
          [id |-> d, content |-> "plain", meta |-> "many"]}

OneEntry == {[id |-> a, content |-> "plain", meta |-> "none"],
             [id |-> b, content |-> "plain", meta |-> "one"]}

(* b and d are alike for every score.                                      *)
SimilarityTable ==
  (<<someQuery, a>> :> 2) @@ (<<someQuery, b>> :> 1) @@
  (<<someQuery, c>> :> -1) @@ (<<someQuery, d>> :> 1)

AppealTable ==
  (<<someQuery, a>> :> 0) @@ (<<someQuery, b>> :> 1) @@
  (<<someQuery, c>> :> 2) @@ (<<someQuery, d>> :> 1)
=============================================================================
