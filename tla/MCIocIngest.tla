---------------------------- MODULE MCIocIngest ----------------------------
(* Instances of IocIngest for TLC: which requests are issued, and on what.  *)
EXTENDS IocIngest, TLC

CONSTANTS v1, v2, k1, k2

OneRule == k1 :> "new_ioc"
OneThreshold == k1 :> 0
TwoMetrics == k1 :> "new_ioc" @@ k2 :> "threat_score"
TwoThresholds == k1 :> 0 @@ k2 :> 60

(* Three analysts on one indicator: two submit it, one re-enriches it.      *)
OneValueKind == 1 :> "create" @@ 2 :> "create" @@ 3 :> "rerun"
OneValueItems == 1 :> <<v1>> @@ 2 :> <<v1>> @@ 3 :> <<v1>>

(* An import and a scheduled collector run take the same two indicators in  *)
(* opposite orders; the feed repeats one.                                    *)
CrossKind == 1 :> "bulk" @@ 2 :> "worker"
CrossItems == 1 :> <<v1, v2>> @@ 2 :> <<v2, v1, v2>>
=============================================================================
