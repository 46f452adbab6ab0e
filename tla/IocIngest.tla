------------------------------ MODULE IocIngest ------------------------------
(***************************************************************************)
(* Indicator ingestion: app/services/ioc_service.py with the alert rules   *)
(* of app/services/alert_service.py, the repositories underneath and the   *)
(* unit of work of app/database/session.py and app/workers/tasks.py.       *)
(*                                                                         *)
(* Every request owns one database transaction (PostgreSQL, READ           *)
(* COMMITTED): it sees its own writes over the committed ones, its writes  *)
(* lock their rows until it ends, and a batch wraps every item in a        *)
(* SAVEPOINT.  One step is the code between two points at which another    *)
(* transaction can interfere.                                              *)
(***************************************************************************)
EXTENDS Integers, Sequences, FiniteSets

CONSTANTS
  Requests,  (* the requests that are ever issued, each one transaction     *)
  Values,    (* normalised (type, value) pairs: the key of table iocs       *)
  Rules,     (* alert rules that are ever created                           *)
  Scores,    (* the threat scores compute_threat_score can return           *)
  Kind,      (* the operation a request runs                                *)
  Items,     (* the indicators a request submits, in order                  *)
  Metric,    (* AlertRule.metric                                            *)
  Threshold, (* AlertRule.threshold, with operator "gte"                    *)
  Stored,    (* indicators that are stored before the first request         *)
  Null       (* SQL NULL, and "no row"                                      *)

Kinds == {"create", "rerun", "bulk", "collect", "worker"}
Metrics == {"new_ioc", "threat_score"}

(* A row of iocs with its "engine" enrichment record: `explained` is the    *)
(* score kept in that record, the one GET /iocs/{id}/explain returns.       *)
Row == [sightings : Nat, score : Scores, explained : Scores]

(* A row of alerts.  `fk` is the rule_id column, which ON DELETE SET NULL   *)
(* clears.                                                                  *)
Alert == [req : Requests, item : Nat, rule : Rules, fk : Rules \cup {Null}]

(* What a transaction has written and not committed: rows, audit_logs       *)
(* entries per indicator, alerts.                                           *)
Tx == [rows : [Values -> Row \cup {Null}], audits : [Values -> Nat],
       alerts : SUBSET Alert]

EmptyTx == [rows |-> [v \in Values |-> Null], audits |-> [v \in Values |-> 0],
            alerts |-> {}]

ASSUME IngestAssumption ==
  /\ Scores \subseteq Nat /\ Scores # {}
  /\ Kind \in [Requests -> Kinds]
  /\ DOMAIN Items = Requests
  /\ \A r \in Requests : Items[r] \in Seq(Values) /\ Items[r] # <<>>
  /\ Metric \in [Rules -> Metrics]
  /\ Threshold \in [Rules -> Nat]
  /\ Stored \subseteq Values
  /\ Null \notin Row /\ Null \notin Rules

VARIABLES
  ioc,      (* committed rows: [Values -> Row or Null]                      *)
  audits,   (* committed audit_logs entries per indicator                   *)
  alerts,   (* committed alerts                                             *)
  rules,    (* committed state of each rule: absent, active or deleted      *)
  feed,     (* the alerts that were published on the event bus              *)
  pc,       (* where each request is                                        *)
  item,     (* index of the item a request works on                         *)
  tx, mark, (* uncommitted writes, and their value at the last SAVEPOINT    *)
  loaded,   (* the row the session's identity map holds for the item        *)
  score,    (* the score computed for the item                              *)
  todo,     (* matching rules the item has not been alerted for             *)
  status,   (* per item, what the request reports: pending/imported/failed  *)
  reply,    (* the HTTP response: none, ok, error                           *)
  outcome,  (* of the transaction: open, committed, rolledback              *)
  steady    (* history: rules active ever since the request began           *)

vars == <<ioc, audits, alerts, rules, feed, pc, item, tx, mark, loaded, score,
          todo, status, reply, outcome, steady>>

-----------------------------------------------------------------------------
Batch(r) == Kind[r] \in {"bulk", "collect", "worker"}

(* get_ioc_service injects an AlertService; the Celery task does not.       *)
EvaluatesAlerts(r) == Kind[r] # "worker"

Value(r) == Items[r][item[r]]

(* What a SELECT of transaction r returns for indicator v.                  *)
Visible(r, v) == IF tx[r].rows[v] # Null THEN tx[r].rows[v] ELSE ioc[v]

(* A row written by an open transaction stays locked until it ends.         *)
Lockers(r, v) == {q \in Requests \ {r} : tx[q].rows[v] # Null}

MatchesRule(k, s) ==
  \/ Metric[k] = "new_ioc"
  \/ Metric[k] = "threat_score" /\ s >= Threshold[k]

(* A rule row a transaction has referenced cannot be deleted under it.      *)
Referenced(k) == \E r \in Requests : \E a \in tx[r].alerts : a.fk = k

TypeOK ==
  /\ ioc \in [Values -> Row \cup {Null}]
  /\ audits \in [Values -> Nat]
  /\ alerts \subseteq Alert
  /\ rules \in [Rules -> {"absent", "active", "deleted"}]
  /\ feed \subseteq (Requests \X Nat \X Rules)
  /\ pc \in [Requests -> {"idle", "engine", "read", "write", "correlate",
                          "rules", "alerts", "deliver", "failing", "respond",
                          "commit", "done"}]
  /\ item \in [Requests -> Nat]
  /\ \A r \in Requests : item[r] \in DOMAIN Items[r]
  /\ tx \in [Requests -> Tx]
  /\ mark \in [Requests -> Tx]
  /\ loaded \in [Requests -> Row \cup {Null}]
  /\ score \in [Requests -> Scores]
  /\ todo \in [Requests -> SUBSET Rules]
  /\ DOMAIN status = Requests
  /\ \A r \in Requests :
       status[r] \in [DOMAIN Items[r] -> {"pending", "imported", "failed"}]
  /\ reply \in [Requests -> {"none", "ok", "error"}]
  /\ outcome \in [Requests -> {"open", "committed", "rolledback"}]
  /\ steady \in [Requests -> SUBSET Rules]

Init ==
  /\ \E s \in Scores :
       ioc = [v \in Values |->
                IF v \in Stored
                  THEN [sightings |-> 1, score |-> s, explained |-> s]
                  ELSE Null]
  /\ audits = [v \in Values |-> IF v \in Stored THEN 1 ELSE 0]
  /\ alerts = {}
  /\ rules \in [Rules -> {"absent", "active"}]
  /\ feed = {}
  /\ pc = [r \in Requests |-> "idle"]
  /\ item = [r \in Requests |-> 1]
  /\ tx = [r \in Requests |-> EmptyTx]
  /\ mark = [r \in Requests |-> EmptyTx]
  /\ loaded = [r \in Requests |-> Null]
  /\ score = [r \in Requests |-> CHOOSE s \in Scores : TRUE]
  /\ todo = [r \in Requests |-> {}]
  /\ status = [r \in Requests |-> [i \in DOMAIN Items[r] |-> "pending"]]
  /\ reply = [r \in Requests |-> "none"]
  /\ outcome = [r \in Requests |-> "open"]
  /\ steady = [r \in Requests |-> {}]

-----------------------------------------------------------------------------
(* A request arrives.  POST /iocs/{id}/enrich reads the indicator before    *)
(* it enriches it, and the session's identity map keeps that copy.          *)
Begin(r) ==
  /\ pc[r] = "idle"
  /\ Kind[r] = "rerun" => ioc[Value(r)] # Null
  /\ pc' = [pc EXCEPT ![r] = IF Kind[r] = "rerun" THEN "engine" ELSE "read"]
  /\ loaded' = [loaded EXCEPT ![r] =
                  IF Kind[r] = "rerun" THEN ioc[Value(r)] ELSE Null]
  /\ steady' = [steady EXCEPT ![r] = {k \in Rules : rules[k] = "active"}]
  /\ UNCHANGED <<ioc, audits, alerts, rules, feed, item, tx, mark, score, todo,
                 status, reply, outcome>>

(* The transaction of r is gone: nothing it wrote remains.                  *)
RolledBack(r) ==
  /\ pc' = [pc EXCEPT ![r] = "done"]
  /\ tx' = [tx EXCEPT ![r] = EmptyTx]
  /\ mark' = [mark EXCEPT ![r] = EmptyTx]
  /\ loaded' = [loaded EXCEPT ![r] = Null]
  /\ todo' = [todo EXCEPT ![r] = {}]
  /\ outcome' = [outcome EXCEPT ![r] = "rolledback"]
  /\ reply' = [reply EXCEPT ![r] = IF @ = "ok" THEN "ok" ELSE "error"]

NotFound(r) ==
  /\ pc[r] = "idle" /\ Kind[r] = "rerun" /\ ioc[Value(r)] = Null
  /\ RolledBack(r)
  /\ UNCHANGED <<ioc, audits, alerts, rules, feed, item, score, status, steady>>

(* Enrichment has answered; the indicator is fetched and scored.            *)
Read(r) ==
  /\ pc[r] = "read"
  /\ loaded' = [loaded EXCEPT ![r] =
                  IF @ # Null THEN @ ELSE Visible(r, Value(r))]
  /\ \E s \in Scores : score' = [score EXCEPT ![r] = s]
  /\ pc' = [pc EXCEPT ![r] =
              IF loaded[r] = Null /\ loaded'[r] # Null THEN "engine" ELSE "write"]
  /\ UNCHANGED <<ioc, audits, alerts, rules, feed, item, tx, mark, todo, status,
                 reply, outcome, steady>>

(* The second SELECT of a load (lazy="selectin"): the engine record.        *)
LoadEngine(r) ==
  /\ pc[r] = "engine"
  /\ loaded' = [loaded EXCEPT ![r].explained = Visible(r, Value(r)).explained]
  /\ pc' = [pc EXCEPT ![r] = IF Kind[r] = "rerun" THEN "read" ELSE "write"]
  /\ UNCHANGED <<ioc, audits, alerts, rules, feed, item, tx, mark, score, todo,
                 status, reply, outcome, steady>>

Fails(r) ==
  /\ pc' = [pc EXCEPT ![r] = "failing"]
  /\ UNCHANGED <<ioc, audits, alerts, rules, feed, item, tx, mark, loaded,
                 score, todo, status, reply, outcome, steady>>

(* classify_indicator rejects the value.  The importer only extracts values *)
(* it accepts, and a stored value was accepted before.                      *)
Reject(r) ==
  /\ pc[r] = "read" /\ Kind[r] \in {"create", "collect", "worker"}
  /\ Fails(r)

Writes(r, row) ==
  /\ tx' = [tx EXCEPT ![r].rows[Value(r)] = row]
  /\ pc' = [pc EXCEPT ![r] = "correlate"]
  /\ UNCHANGED <<ioc, audits, alerts, rules, feed, item, mark, loaded, score,
                 todo, status, reply, outcome, steady>>

(* The first sighting: INSERT, and the engine record with the same score.   *)
Insert(r) ==
  /\ pc[r] = "write" /\ loaded[r] = Null
  /\ Lockers(r, Value(r)) = {} /\ ioc[Value(r)] = Null
  /\ Writes(r, [sightings |-> 1, score |-> score[r], explained |-> score[r]])

(* uq_ioc_type_value: another transaction stored the indicator first.       *)
InsertConflict(r) ==
  /\ pc[r] = "write" /\ loaded[r] = Null
  /\ Lockers(r, Value(r)) = {} /\ ioc[Value(r)] # Null
  /\ Fails(r)

(* Mutant of Update: the engine record is not rewritten.                    *)
UpdateUnexplained(r) ==
  /\ pc[r] = "write" /\ loaded[r] # Null
  /\ Lockers(r, Value(r)) = {}
  /\ LET now == Visible(r, Value(r)) IN
     Writes(r, [now EXCEPT !.sightings = loaded[r].sightings + 1,
                           !.score = score[r]])

(* A later sighting: UPDATE of the columns whose value differs from the     *)
(* loaded one.  The engine record is rewritten when its payload differs,    *)
(* which it may do even if the score is the same (other contributions).     *)
Update(r) ==
  /\ pc[r] = "write" /\ loaded[r] # Null
  /\ Lockers(r, Value(r)) = {}
  /\ \E rewritten \in BOOLEAN :
       /\ score[r] # loaded[r].explained => rewritten
       /\ LET now == Visible(r, Value(r)) IN
          Writes(r, [sightings |-> loaded[r].sightings + 1,
                     score     |-> IF score[r] = loaded[r].score
                                     THEN now.score ELSE score[r],
                     explained |-> IF rewritten
                                     THEN score[r] ELSE now.explained])

(* A circle of requests, each waiting for a row the next one has locked:    *)
(* PostgreSQL ends the statement of one of them with an error.              *)
Waits(r) == pc[r] = "write" /\ Lockers(r, Value(r)) # {}

Deadlocked(r) ==
  \E S \in SUBSET Requests :
    /\ r \in S
    /\ \A q \in S : Waits(q)
    /\ UNION {Lockers(q, Value(q)) : q \in S} = S

DeadlockVictim(r) == Deadlocked(r) /\ Fails(r)

(* Mutant of Correlate: only a creation is audited.                         *)
CorrelateUnaudited(r) ==
  /\ pc[r] = "correlate"
  /\ tx' = [tx EXCEPT ![r].audits[Value(r)] = IF loaded[r] = Null THEN @ + 1 ELSE @]
  /\ pc' = [pc EXCEPT ![r] = IF EvaluatesAlerts(r) THEN "rules" ELSE "alerts"]
  /\ UNCHANGED <<ioc, audits, alerts, rules, feed, item, mark, loaded, score,
                 todo, status, reply, outcome, steady>>

(* _auto_correlate, then the audit entry of the upsert.                     *)
Correlate(r) ==
  /\ pc[r] = "correlate"
  /\ tx' = [tx EXCEPT ![r].audits[Value(r)] = @ + 1]
  /\ pc' = [pc EXCEPT ![r] = IF EvaluatesAlerts(r) THEN "rules" ELSE "alerts"]
  /\ UNCHANGED <<ioc, audits, alerts, rules, feed, item, mark, loaded, score,
                 todo, status, reply, outcome, steady>>

(* uq_edge_triple: a manual relationship stored the same edge meanwhile.    *)
EdgeConflict(r) == pc[r] = "correlate" /\ Fails(r)

-----------------------------------------------------------------------------
(* Mutant of ActiveRules: updates are not evaluated.                        *)
ActiveRulesOfNew(r) ==
  /\ pc[r] = "rules"
  /\ todo' = [todo EXCEPT ![r] =
                {k \in Rules : /\ loaded[r] = Null /\ rules[k] = "active"
                              /\ MatchesRule(k, score[r])}]
  /\ pc' = [pc EXCEPT ![r] = "alerts"]
  /\ UNCHANGED <<ioc, audits, alerts, rules, feed, item, tx, mark, loaded,
                 score, status, reply, outcome, steady>>

(* evaluate_ioc: one SELECT of the active rules, matched against the score  *)
(* just computed (not the one that will be stored).                         *)
ActiveRules(r) ==
  /\ pc[r] = "rules"
  /\ todo' = [todo EXCEPT ![r] =
                {k \in Rules : rules[k] = "active" /\ MatchesRule(k, score[r])}]
  /\ pc' = [pc EXCEPT ![r] = "alerts"]
  /\ UNCHANGED <<ioc, audits, alerts, rules, feed, item, tx, mark, loaded,
                 score, status, reply, outcome, steady>>

(* INSERT of one alert; the rules come in no particular order.              *)
RaiseAlert(r, k) ==
  /\ pc[r] = "alerts" /\ k \in todo[r] /\ rules[k] = "active"
  /\ tx' = [tx EXCEPT ![r].alerts = @ \cup
              {[req |-> r, item |-> item[r], rule |-> k, fk |-> k]}]
  /\ pc' = [pc EXCEPT ![r] = "deliver"]
  /\ UNCHANGED <<ioc, audits, alerts, rules, feed, item, mark, loaded, score,
                 todo, status, reply, outcome, steady>>

(* The rule was deleted after it was read: its foreign key is refused.      *)
RuleGone(r, k) ==
  /\ pc[r] = "alerts" /\ k \in todo[r] /\ rules[k] = "deleted"
  /\ Fails(r)

(* The webhook is called (whatever it answers is not an error), then the    *)
(* alert is published on the event bus, long before the commit.             *)
Deliver(r) ==
  /\ pc[r] = "deliver"
  /\ \E a \in tx[r].alerts :
       /\ a.item = item[r] /\ a.rule \in todo[r]
       /\ feed' = feed \cup {<<r, item[r], a.rule>>}
       /\ todo' = [todo EXCEPT ![r] = @ \ {a.rule}]
  /\ pc' = [pc EXCEPT ![r] = "alerts"]
  /\ UNCHANGED <<ioc, audits, alerts, rules, item, tx, mark, loaded, score,
                 status, reply, outcome, steady>>

(* Mutant of Advance: the loop runs once too often.                         *)
AdvanceTooFar(r, w) ==
  /\ tx' = [tx EXCEPT ![r] = w]
  /\ mark' = [mark EXCEPT ![r] = w]
  /\ loaded' = [loaded EXCEPT ![r] = Null]
  /\ todo' = [todo EXCEPT ![r] = {}]
  /\ item' = [item EXCEPT ![r] = @ + 1]
  /\ pc' = [pc EXCEPT ![r] = IF item[r] <= Len(Items[r]) THEN "read" ELSE "respond"]

(* The loop of a batch goes on with a new SAVEPOINT over writes w, or ends. *)
Advance(r, w) ==
  /\ tx' = [tx EXCEPT ![r] = w]
  /\ mark' = [mark EXCEPT ![r] = w]
  /\ loaded' = [loaded EXCEPT ![r] = Null]
  /\ todo' = [todo EXCEPT ![r] = {}]
  /\ IF item[r] < Len(Items[r])
       THEN /\ item' = [item EXCEPT ![r] = @ + 1]
            /\ pc' = [pc EXCEPT ![r] = "read"]
       ELSE /\ item' = item
            /\ pc' = [pc EXCEPT ![r] =
                        IF Kind[r] = "worker" THEN "commit" ELSE "respond"]

(* upsert returns: the SAVEPOINT of a batch item is released.               *)
Release(r) ==
  /\ pc[r] = "alerts" /\ todo[r] = {}
  /\ Advance(r, tx[r])
  /\ status' = [status EXCEPT ![r][item[r]] = "imported"]
  /\ UNCHANGED <<ioc, audits, alerts, rules, feed, score, reply, outcome,
                 steady>>

(* Mutants of ItemFails: the batch has no SAVEPOINT; the item is counted as *)
(* imported all the same; the batch tries the item again.                   *)
ItemFailsNoSavepoint(r) ==
  /\ pc[r] = "failing"
  /\ status' = [status EXCEPT ![r][item[r]] = "failed"]
  /\ IF Batch(r)
       THEN Advance(r, tx[r]) /\ UNCHANGED <<reply, outcome>>
       ELSE RolledBack(r) /\ UNCHANGED item
  /\ UNCHANGED <<ioc, audits, alerts, rules, feed, score, steady>>

ItemFailsCounted(r) ==
  /\ pc[r] = "failing"
  /\ status' = [status EXCEPT ![r][item[r]] = "imported"]
  /\ IF Batch(r)
       THEN Advance(r, mark[r]) /\ UNCHANGED <<reply, outcome>>
       ELSE RolledBack(r) /\ UNCHANGED item
  /\ UNCHANGED <<ioc, audits, alerts, rules, feed, score, steady>>

ItemFailsRetried(r) ==
  /\ pc[r] = "failing"
  /\ IF Batch(r)
       THEN /\ tx' = [tx EXCEPT ![r] = mark[r]]
            /\ pc' = [pc EXCEPT ![r] = "read"]
            /\ loaded' = [loaded EXCEPT ![r] = Null]
            /\ UNCHANGED <<mark, todo, reply, outcome>>
       ELSE RolledBack(r)
  /\ UNCHANGED <<ioc, audits, alerts, rules, feed, item, score, status, steady>>

(* An exception in upsert: a batch rolls its SAVEPOINT back, reports the    *)
(* item and goes on; any other request is rolled back.                      *)
ItemFails(r) ==
  /\ pc[r] = "failing"
  /\ status' = [status EXCEPT ![r][item[r]] = "failed"]
  /\ IF Batch(r)
       THEN Advance(r, mark[r]) /\ UNCHANGED <<reply, outcome>>
       ELSE RolledBack(r) /\ UNCHANGED item
  /\ UNCHANGED <<ioc, audits, alerts, rules, feed, score, steady>>

(* The response is sent before get_session resumes after its yield.         *)
Respond(r) ==
  /\ pc[r] = "respond"
  /\ pc' = [pc EXCEPT ![r] = "commit"]
  /\ reply' = [reply EXCEPT ![r] = "ok"]
  /\ UNCHANGED <<ioc, audits, alerts, rules, feed, item, tx, mark, loaded,
                 score, todo, status, outcome, steady>>

Commit(r) ==
  /\ pc[r] = "commit"
  /\ ioc' = [v \in Values |-> Visible(r, v)]
  /\ audits' = [v \in Values |-> audits[v] + tx[r].audits[v]]
  /\ alerts' = alerts \cup tx[r].alerts
  /\ tx' = [tx EXCEPT ![r] = EmptyTx]
  /\ mark' = [mark EXCEPT ![r] = EmptyTx]
  /\ pc' = [pc EXCEPT ![r] = "done"]
  /\ outcome' = [outcome EXCEPT ![r] = "committed"]
  /\ UNCHANGED <<rules, feed, item, loaded, score, todo, status, reply, steady>>

(* The process or its database connection dies: the server rolls back.      *)
Crash(r) ==
  /\ pc[r] \notin {"idle", "done"}
  /\ RolledBack(r)
  /\ UNCHANGED <<ioc, audits, alerts, rules, feed, item, score, status, steady>>

-----------------------------------------------------------------------------
CreateRule(k) ==
  /\ rules[k] = "absent"
  /\ rules' = [rules EXCEPT ![k] = "active"]
  /\ UNCHANGED <<ioc, audits, alerts, feed, pc, item, tx, mark, loaded, score,
                 todo, status, reply, outcome, steady>>

(* DELETE waits for the transactions whose alerts reference the rule, then  *)
(* clears rule_id in the stored alerts (ON DELETE SET NULL).                *)
DeleteRule(k) ==
  /\ rules[k] = "active" /\ ~Referenced(k)
  /\ rules' = [rules EXCEPT ![k] = "deleted"]
  /\ alerts' = {IF a.fk = k THEN [a EXCEPT !.fk = Null] ELSE a : a \in alerts}
  /\ steady' = [r \in Requests |-> steady[r] \ {k}]
  /\ UNCHANGED <<ioc, audits, feed, pc, item, tx, mark, loaded, score, todo,
                 status, reply, outcome>>

Step(r) ==
  \/ Begin(r) \/ NotFound(r) \/ Read(r) \/ LoadEngine(r) \/ Reject(r)
  \/ Insert(r) \/ InsertConflict(r) \/ Update(r) \/ DeadlockVictim(r)
  \/ Correlate(r) \/ EdgeConflict(r) \/ ActiveRules(r)
  \/ \E k \in Rules : RaiseAlert(r, k) \/ RuleGone(r, k)
  \/ Deliver(r) \/ Release(r) \/ ItemFails(r) \/ Respond(r) \/ Commit(r)

(* Every request has ended.                                                 *)
Quiescent == (\A r \in Requests : pc[r] = "done") /\ UNCHANGED vars

Next ==
  \/ \E r \in Requests : Step(r) \/ Crash(r)
  \/ \E k \in Rules : CreateRule(k) \/ DeleteRule(k)
  \/ Quiescent

Spec == Init /\ [][Next]_vars

(* The event loop and the worker run every request they have begun: the     *)
(* outbound calls have timeouts and PostgreSQL resolves deadlocks.          *)
FairSpec == Spec /\ \A r \in Requests : WF_vars(pc[r] # "idle" /\ Step(r))

-----------------------------------------------------------------------------
(* Every stored indicator has been submitted at least as often as it counts *)
(* sightings, and the audit log holds no submission of an indicator that is *)
(* not stored: savepoint and transaction rollbacks drop both or neither.    *)
SightingsAreAudited ==
  \A v \in Values :
    IF ioc[v] = Null
      THEN audits[v] = 0
      ELSE ioc[v].sightings \in 1..audits[v]

(* The items for indicator v that committed requests reported as imported.  *)
Imported(v) ==
  {p \in UNION {{r} \X DOMAIN Items[r] : r \in Requests} :
     /\ outcome[p[1]] = "committed"
     /\ Items[p[1]][p[2]] = v
     /\ status[p[1]][p[2]] = "imported"}

(* The audit log has one entry per item that a committed request reported   *)
(* as imported: an item reported as failed, or a request that was rolled    *)
(* back, leaves none, and no entry is lost to a concurrent request.         *)
AuditMatchesReport ==
  \A v \in Values :
    audits[v] = Cardinality(Stored \cap {v}) + Cardinality(Imported(v))

(* As long as no sighting of an indicator was lost to a concurrent upsert,  *)
(* the stored score is the one the engine record explains.                  *)
ExplainedUnlessLost ==
  \A v \in Values :
    ioc[v] # Null /\ ioc[v].sightings = audits[v]
      => ioc[v].score = ioc[v].explained

(* No two requests that are open at once submit the same indicator.         *)
Open(r) == pc[r] \notin {"idle", "done"}

NoneShared ==
  \A q, r \in Requests : q # r /\ Open(q) /\ Open(r) =>
    \A i \in DOMAIN Items[q], j \in DOMAIN Items[r] : Items[q][i] # Items[r][j]

(* No upsert is lost: a row counts every submission that is audited, and    *)
(* stores the score its engine record explains.  It holds where NoneShared  *)
(* does, which nothing in the code enforces: upsert adds one to the count   *)
(* it has loaded, and no row is locked from the load to the write.          *)
EveryUpsertCounts ==
  \A v \in Values : ioc[v] # Null =>
    /\ ioc[v].sightings = audits[v]
    /\ ioc[v].score = ioc[v].explained

(* A committed alert was pushed to the live feed, so polling GET /alerts    *)
(* shows nothing that a subscriber was not sent.                            *)
CommittedAlertsWerePublished ==
  \A a \in alerts : <<a.req, a.item, a.rule>> \in feed

(* A pushed alert that is not stored belongs to an item that is reported as *)
(* failed or to a request that has not committed.                           *)
PhantomsAreRolledBack ==
  \A e \in feed :
    \/ \E a \in alerts : <<a.req, a.item, a.rule>> = e
    \/ status[e[1]][e[2]] = "failed"
    \/ outcome[e[1]] # "committed"

(* An imported item raised an alert for each rule that was active all along *)
(* and matches every score; only a scheduled collection raises none, for    *)
(* its task builds the service without alerts.                              *)
EveryImportIsEvaluated ==
  \A r \in Requests : outcome[r] = "committed" /\ EvaluatesAlerts(r) =>
    \A i \in DOMAIN Items[r] : status[r][i] = "imported" =>
      \A k \in steady[r] : (\A s \in Scores : MatchesRule(k, s)) =>
        \E a \in alerts : a.req = r /\ a.item = i /\ a.rule = k

(* What Intake speaks of: requests that are over, items they report as      *)
(* taken in, sightings, stored alerts.                                      *)
Ended == {r \in Requests : pc[r] = "done"}
Reports == UNION {Imported(v) : v \in Values}
Counted == [v \in Values |-> IF ioc[v] = Null THEN 0 ELSE ioc[v].sightings]
StoredAlerts == {<<a.req, a.item, a.rule>> : a \in alerts}

(* Requests take effect as Intake promises: at most once, all at once, as   *)
(* far as they report, and with the alerts that were pushed for the items   *)
(* they report; a request counts all of its own sightings, and no row       *)
(* counts more than were submitted.                                         *)
Promise == INSTANCE Intake WITH
  ended <- Ended, reported <- Reports, logged <- audits, counted <- Counted,
  pushed <- feed, kept <- StoredAlerts

IntakeSpec == Promise!Spec

(* A request that has begun ends: neither the row locks of the batches nor  *)
(* those that an alert keeps during its webhook call block it for ever.     *)
RequestsEnd ==
  \A r \in Requests : pc[r] \in {"engine", "read"} ~> pc[r] = "done"

=============================================================================
