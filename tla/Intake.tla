------------------------------- MODULE Intake -------------------------------
(***************************************************************************)
(* What taking in indicators promises, however requests overlap, fail or   *)
(* crash, and whatever savepoints, locks and caches are in between: every  *)
(* request takes effect at most once, all at once, and exactly as far as   *)
(* it reports.  What other requests counted meanwhile may be lost, what    *)
(* the request itself counts may not; and alerts are stored together with  *)
(* the items they are of, after they were pushed to subscribers.           *)
(***************************************************************************)
EXTENDS Integers, FiniteSets

CONSTANTS
  Requests,  (* the requests that are ever issued                           *)
  Values,    (* indicators                                                  *)
  Rules,     (* alert rules                                                 *)
  Items,     (* the indicators a request submits, in order                  *)
  Stored     (* indicators that are stored before the first request         *)

VARIABLES
  ended,     (* requests that are over                                      *)
  reported,  (* items reported as taken in: request and place               *)
  logged,    (* entries of the audit log, by indicator                      *)
  counted,   (* sightings, by indicator; 0 if it is not stored              *)
  pushed,    (* alerts that subscribers were sent: request, place, rule     *)
  kept       (* alerts that are stored                                      *)

vars == <<ended, reported, logged, counted, pushed, kept>>

Init ==
  /\ ended = {}
  /\ reported = {}
  /\ logged = [v \in Values |-> IF v \in Stored THEN 1 ELSE 0]
  /\ counted = logged
  /\ pushed = {}
  /\ kept = {}

(* An alert is pushed while its request is under way.                       *)
Push(r, i, k) ==
  /\ r \notin ended
  /\ pushed' = pushed \cup {<<r, i, k>>}
  /\ UNCHANGED <<ended, reported, logged, counted, kept>>

(* The places in S at which request r has indicator v.                      *)
Places(r, S, v) == {i \in S : Items[r][i] = v}

(* A request ends, having taken in its items at the places S: none if it    *)
(* failed.                                                                  *)
Take(r, S) ==
  /\ r \notin ended
  /\ ended' = ended \cup {r}
  /\ reported' = reported \cup ({r} \X S)
  /\ logged' = [v \in Values |-> logged[v] + Cardinality(Places(r, S, v))]
  /\ counted' \in [Values -> Nat]
  /\ \A v \in Values :
       LET n == Cardinality(Places(r, S, v)) IN
       IF n = 0 THEN counted'[v] = counted[v] ELSE counted'[v] \in n..logged'[v]
  /\ kept' = kept \cup {e \in pushed : e[1] = r /\ e[2] \in S}
  /\ UNCHANGED pushed

Next ==
  \E r \in Requests :
    \/ \E i \in DOMAIN Items[r], k \in Rules : Push(r, i, k)
    \/ \E S \in SUBSET DOMAIN Items[r] : Take(r, S)

Spec == Init /\ [][Next]_vars

=============================================================================
