--------------------------- MODULE IocIngestProofs ---------------------------
(***************************************************************************)
(* Proofs about IocIngest, for any requests, indicators, rules and scores: *)
(* types, the ledger of sightings, audit entries and explained scores, and *)
(* what is announced, raised and reported; and that IocIngest implements   *)
(* Intake, the abstract specification of what ingestion promises.          *)
(***************************************************************************)
EXTENDS IocIngest, TLAPS, FiniteSetTheorems

(* The item a request works on is one of those it submits.                  *)
LEMMA ValueType ==
  ASSUME TypeOK, NEW r \in Requests PROVE Value(r) \in Values
<1>1. Items[r] \in Seq(Values) /\ item[r] \in DOMAIN Items[r]
  BY IngestAssumption DEF TypeOK
<1>2. QED
  BY <1>1 DEF Value

LEMMA VisibleType ==
  ASSUME TypeOK, NEW r \in Requests, NEW v \in Values
  PROVE  Visible(r, v) \in Row \cup {Null}
BY DEF TypeOK, Tx, Visible

LEMMA EmptyTxType == EmptyTx \in Tx
BY DEF EmptyTx, Tx

(* The kinds of step: a request fails, is rolled back, writes its row, or   *)
(* goes on to its next item with writes w.                                  *)
LEMMA FailsType ==
  ASSUME TypeOK, NEW r \in Requests, Fails(r) PROVE TypeOK'
BY DEF TypeOK, Fails

LEMMA RolledBackType ==
  ASSUME TypeOK, NEW r \in Requests, RolledBack(r),
         UNCHANGED <<ioc, audits, alerts, rules, feed, item, score, steady>>,
         DOMAIN status' = Requests,
         \A q \in Requests :
           status'[q] \in [DOMAIN Items[q] -> {"pending", "imported", "failed"}]
  PROVE  TypeOK'
BY EmptyTxType DEF TypeOK, RolledBack

LEMMA WritesType ==
  ASSUME TypeOK, NEW r \in Requests, NEW row \in Row, Writes(r, row)
  PROVE  TypeOK'
<1>1. Value(r) \in Values
  BY ValueType
<1> DEFINE t == [tx[r] EXCEPT !.rows[Value(r)] = row]
<1>2. tx' \in [Requests -> Tx]
  <2>1. tx' = [tx EXCEPT ![r] = t]
    BY DEF Writes
  <2>2. tx[r] \in Tx
    BY DEF TypeOK
  <2>3. t = [tx[r] EXCEPT !.rows = [tx[r].rows EXCEPT ![Value(r)] = row]]
    OBVIOUS
  <2>4. [tx[r].rows EXCEPT ![Value(r)] = row] \in [Values -> Row \cup {Null}]
    BY <1>1, <2>2 DEF Tx
  <2>5. t \in Tx
    BY <2>2, <2>3, <2>4 DEF Tx
  <2>6. QED
    BY <2>1, <2>5 DEF TypeOK
<1>3. pc' \in [Requests -> {"idle", "engine", "read", "write", "correlate",
                            "rules", "alerts", "deliver", "failing", "respond",
                            "commit", "done"}]
  BY DEF Writes, TypeOK
<1>4. QED
  BY <1>2, <1>3 DEF Writes, TypeOK

LEMMA AdvanceType ==
  ASSUME TypeOK, NEW r \in Requests, NEW w \in Tx, Advance(r, w),
         UNCHANGED <<ioc, audits, alerts, rules, feed, score, reply, outcome,
                     steady>>,
         DOMAIN status' = Requests,
         \A q \in Requests :
           status'[q] \in [DOMAIN Items[q] -> {"pending", "imported", "failed"}]
  PROVE  TypeOK'
<1>1. /\ tx' \in [Requests -> Tx] /\ mark' \in [Requests -> Tx]
      /\ loaded' \in [Requests -> Row \cup {Null}]
      /\ todo' \in [Requests -> SUBSET Rules]
  BY DEF Advance, TypeOK
<1>2. Items[r] \in Seq(Values) /\ item[r] \in 1..Len(Items[r])
  BY IngestAssumption DEF TypeOK
<1>3. /\ item' \in [Requests -> Nat]
      /\ \A q \in Requests : item'[q] \in DOMAIN Items[q]
  <2>1. CASE item[r] < Len(Items[r])
    <3>1. item' = [item EXCEPT ![r] = item[r] + 1]
      BY <2>1 DEF Advance
    <3>2. item[r] + 1 \in DOMAIN Items[r]
      BY <1>2, <2>1
    <3>3. QED
      BY <1>2, <3>1, <3>2 DEF TypeOK
  <2>2. CASE ~(item[r] < Len(Items[r]))
    BY <2>2 DEF Advance, TypeOK
  <2>3. QED
    BY <2>1, <2>2
<1>4. pc' \in [Requests -> {"idle", "engine", "read", "write", "correlate",
                            "rules", "alerts", "deliver", "failing", "respond",
                            "commit", "done"}]
  <2>1. \E p \in {"read", "commit", "respond"} : pc' = [pc EXCEPT ![r] = p]
    BY DEF Advance
  <2>2. QED
    BY <2>1 DEF TypeOK
<1>5. QED
  BY <1>1, <1>3, <1>4 DEF TypeOK

LEMMA StatusType ==
  ASSUME TypeOK, NEW r \in Requests, NEW x \in {"imported", "failed"},
         status' = [status EXCEPT ![r][item[r]] = x]
  PROVE  /\ DOMAIN status' = Requests
         /\ \A q \in Requests :
              status'[q] \in [DOMAIN Items[q] ->
                                {"pending", "imported", "failed"}]
BY DEF TypeOK

-----------------------------------------------------------------------------
(* A row that a request has loaded exists when it writes it: committed rows *)
(* are never removed.                                                       *)
LoadedExists ==
  \A r \in Requests :
    pc[r] \in {"engine", "read", "write"} /\ loaded[r] # Null
      => Visible(r, Value(r)) # Null

(* ... and its engine record is only looked for once there is a row.        *)
EngineOfLoaded == \A r \in Requests : pc[r] = "engine" => loaded[r] # Null

TypeInv == TypeOK /\ LoadedExists /\ EngineOfLoaded

LEMMA LoadEngineType ==
  ASSUME TypeInv, NEW r \in Requests, LoadEngine(r)
  PROVE  /\ TypeOK'
         /\ loaded'[r] = [loaded[r] EXCEPT
                            !.explained = Visible(r, Value(r)).explained]
<1>1. loaded[r] \in Row /\ Visible(r, Value(r)) \in Row
  BY ValueType, VisibleType DEF LoadEngine, TypeInv, TypeOK, LoadedExists,
                                EngineOfLoaded
<1>2. PICK e \in Scores : e = Visible(r, Value(r)).explained
  BY <1>1 DEF Row
<1> DEFINE row == [loaded[r] EXCEPT !.explained = e]
<1>3. loaded' = [loaded EXCEPT ![r] = row]
  BY <1>2 DEF LoadEngine
<1>4. row \in Row
  BY <1>1 DEF Row
<1> HIDE DEF row
<1>5. TypeOK'
  <2>1. loaded' \in [Requests -> Row \cup {Null}]
    BY <1>3, <1>4 DEF TypeInv, TypeOK
  <2>2. pc' \in [Requests -> {"idle", "engine", "read", "write", "correlate",
                              "rules", "alerts", "deliver", "failing",
                              "respond", "commit", "done"}]
    BY DEF LoadEngine, TypeInv, TypeOK
  <2>3. QED
    BY <2>1, <2>2 DEF LoadEngine, TypeInv, TypeOK
<1>6. loaded'[r] = row
  BY <1>3 DEF TypeInv, TypeOK
<1>7. QED
  BY <1>2, <1>5, <1>6 DEF row

LEMMA UpdateType ==
  ASSUME TypeInv, NEW r \in Requests, Update(r) PROVE TypeOK'
<1>1. loaded[r] \in Row /\ score[r] \in Scores
  BY DEF Update, TypeInv, TypeOK
<1> DEFINE now == Visible(r, Value(r))
<1>2. now \in Row
  BY ValueType, VisibleType DEF Update, TypeInv, LoadedExists
<1>3. PICK rewritten \in BOOLEAN :
        Writes(r, [sightings |-> loaded[r].sightings + 1,
                   score     |-> IF score[r] = loaded[r].score
                                   THEN now.score ELSE score[r],
                   explained |-> IF rewritten
                                   THEN score[r] ELSE now.explained])
  BY DEF Update
<1> DEFINE row == [sightings |-> loaded[r].sightings + 1,
                   score     |-> IF score[r] = loaded[r].score
                                   THEN now.score ELSE score[r],
                   explained |-> IF rewritten
                                   THEN score[r] ELSE now.explained]
<1>4. row \in Row
  BY <1>1, <1>2 DEF Row
<1> HIDE DEF row
<1>5. Writes(r, row)
  BY <1>3 DEF row
<1>6. QED
  BY <1>4, <1>5, WritesType DEF TypeInv

LEMMA CorrelateType ==
  ASSUME TypeOK, NEW r \in Requests, Correlate(r) PROVE TypeOK'
<1>1. Value(r) \in Values
  BY ValueType
<1> DEFINE t == [tx[r] EXCEPT !.audits[Value(r)] = @ + 1]
<1>2. tx' \in [Requests -> Tx]
  <2>1. tx' = [tx EXCEPT ![r] = t]
    BY DEF Correlate
  <2>2. tx[r] \in Tx
    BY DEF TypeOK
  <2>3. t = [tx[r] EXCEPT !.audits =
               [tx[r].audits EXCEPT ![Value(r)] = tx[r].audits[Value(r)] + 1]]
    OBVIOUS
  <2>4. [tx[r].audits EXCEPT ![Value(r)] = tx[r].audits[Value(r)] + 1]
          \in [Values -> Nat]
    BY <1>1, <2>2 DEF Tx
  <2>5. t \in Tx
    BY <2>2, <2>3, <2>4 DEF Tx
  <2>6. QED
    BY <2>1, <2>5 DEF TypeOK
<1>3. QED
  BY <1>2 DEF Correlate, TypeOK

LEMMA RaiseAlertType ==
  ASSUME TypeOK, NEW r \in Requests, NEW k \in Rules, RaiseAlert(r, k)
  PROVE  TypeOK'
<1> DEFINE a == [req |-> r, item |-> item[r], rule |-> k, fk |-> k]
           t == [tx[r] EXCEPT !.alerts = @ \cup {a}]
<1>1. a \in Alert
  BY DEF TypeOK, Alert
<1>2. tx' = [tx EXCEPT ![r] = t]
  BY DEF RaiseAlert
<1>3. t \in Tx
  <2>1. tx[r] \in Tx
    BY DEF TypeOK
  <2> HIDE DEF a
  <2>2. QED
    BY <1>1, <2>1 DEF Tx
<1>4. tx' \in [Requests -> Tx]
  BY <1>2, <1>3 DEF TypeOK
<1>5. QED
  BY <1>4 DEF RaiseAlert, TypeOK

LEMMA DeliverType ==
  ASSUME TypeOK, NEW r \in Requests, Deliver(r) PROVE TypeOK'
<1>1. PICK a \in tx[r].alerts :
        /\ feed' = feed \cup {<<r, item[r], a.rule>>}
        /\ todo' = [todo EXCEPT ![r] = @ \ {a.rule}]
  BY DEF Deliver
<1>2. a \in Alert
  BY DEF TypeOK, Tx
<1>3. feed' \subseteq (Requests \X Nat \X Rules)
  BY <1>1, <1>2 DEF TypeOK, Alert
<1>4. QED
  BY <1>1, <1>3 DEF Deliver, TypeOK

LEMMA CommitType ==
  ASSUME TypeOK, NEW r \in Requests, Commit(r) PROVE TypeOK'
<1>1. tx[r] \in Tx
  BY DEF TypeOK
<1>2. ioc' \in [Values -> Row \cup {Null}]
  BY VisibleType DEF Commit
<1>3. audits' \in [Values -> Nat]
  BY <1>1 DEF Commit, TypeOK, Tx
<1>4. alerts' \subseteq Alert
  BY <1>1 DEF Commit, TypeOK, Tx
<1>5. tx' \in [Requests -> Tx] /\ mark' \in [Requests -> Tx]
  BY EmptyTxType DEF Commit, TypeOK
<1>6. QED
  BY <1>2, <1>3, <1>4, <1>5 DEF Commit, TypeOK

LEMMA DeleteRuleType ==
  ASSUME TypeOK, NEW k \in Rules, DeleteRule(k) PROVE TypeOK'
<1>1. \A a \in Alert : [a EXCEPT !.fk = Null] \in Alert
  BY DEF Alert
<1>2. alerts' \subseteq Alert
  BY <1>1 DEF DeleteRule, TypeOK
<1>3. QED
  BY <1>2 DEF DeleteRule, TypeOK

LEMMA ItemFailsType ==
  ASSUME TypeOK, NEW r \in Requests, ItemFails(r) PROVE TypeOK'
<1>1. /\ DOMAIN status' = Requests
      /\ \A q \in Requests :
           status'[q] \in [DOMAIN Items[q] -> {"pending", "imported", "failed"}]
  BY StatusType DEF ItemFails
<1>2. CASE Batch(r)
  <2>1. mark[r] \in Tx
    BY DEF TypeOK
  <2>2. QED
    BY <1>1, <1>2, <2>1, AdvanceType DEF ItemFails
<1>3. CASE ~Batch(r)
  BY <1>1, <1>3, RolledBackType DEF ItemFails
<1>4. QED
  BY <1>2, <1>3

LEMMA ReleaseType ==
  ASSUME TypeOK, NEW r \in Requests, Release(r) PROVE TypeOK'
<1>1. /\ DOMAIN status' = Requests
      /\ \A q \in Requests :
           status'[q] \in [DOMAIN Items[q] -> {"pending", "imported", "failed"}]
  BY StatusType DEF Release
<1>2. tx[r] \in Tx
  BY DEF TypeOK
<1>3. QED
  BY <1>1, <1>2, AdvanceType DEF Release

LEMMA InitType == Init => TypeInv
<1> SUFFICES ASSUME Init PROVE TypeInv
  OBVIOUS
<1>1. ioc \in [Values -> Row \cup {Null}]
  BY DEF Init, Row
<1>2. audits \in [Values -> Nat]
  BY DEF Init
<1>3. score \in [Requests -> Scores]
  BY IngestAssumption DEF Init
<1>4. tx \in [Requests -> Tx] /\ mark \in [Requests -> Tx]
  BY EmptyTxType DEF Init
<1>5. item \in [Requests -> Nat] /\ \A r \in Requests : item[r] \in DOMAIN Items[r]
  BY IngestAssumption DEF Init
<1>6. /\ DOMAIN status = Requests
      /\ \A r \in Requests :
           status[r] \in [DOMAIN Items[r] -> {"pending", "imported", "failed"}]
  BY DEF Init
<1>7. TypeOK
  BY <1>1, <1>2, <1>3, <1>4, <1>5, <1>6 DEF Init, TypeOK
<1>8. QED
  BY <1>7 DEF Init, TypeInv, LoadedExists, EngineOfLoaded

(* Every step keeps the types.                                              *)
LEMMA StepType ==
  ASSUME TypeInv, [Next]_vars PROVE TypeOK'
<1> USE DEF TypeInv
<1>1. ASSUME NEW r \in Requests, Begin(r) PROVE TypeOK'
  <2>1. Value(r) \in Values
    BY ValueType
  <2>2. loaded' \in [Requests -> Row \cup {Null}]
    BY <1>1, <2>1 DEF Begin, TypeOK
  <2>3. QED
    BY <1>1, <2>2 DEF Begin, TypeOK
<1>2. ASSUME NEW r \in Requests, NotFound(r) PROVE TypeOK'
  BY <1>2, RolledBackType DEF NotFound, TypeOK
<1>3. ASSUME NEW r \in Requests, Read(r) PROVE TypeOK'
  <2>1. Visible(r, Value(r)) \in Row \cup {Null}
    BY ValueType, VisibleType
  <2>2. /\ loaded' \in [Requests -> Row \cup {Null}]
        /\ score' \in [Requests -> Scores]
    BY <1>3, <2>1 DEF Read, TypeOK
  <2>3. QED
    BY <1>3, <2>2 DEF Read, TypeOK
<1>3a. ASSUME NEW r \in Requests, LoadEngine(r) PROVE TypeOK'
  BY <1>3a, LoadEngineType
<1>4. ASSUME NEW r \in Requests,
             Reject(r) \/ InsertConflict(r) \/ DeadlockVictim(r)
               \/ EdgeConflict(r) \/ \E k \in Rules : RuleGone(r, k)
      PROVE TypeOK'
  BY <1>4, FailsType
  DEF Reject, InsertConflict, DeadlockVictim, EdgeConflict, RuleGone
<1>5. ASSUME NEW r \in Requests, Insert(r) PROVE TypeOK'
  <2>1. [sightings |-> 1, score |-> score[r], explained |-> score[r]] \in Row
    BY DEF TypeOK, Row
  <2>2. QED
    BY <1>5, <2>1, WritesType DEF Insert
<1>6. ASSUME NEW r \in Requests, Update(r) PROVE TypeOK'
  BY <1>6, UpdateType
<1>7. ASSUME NEW r \in Requests, Correlate(r) PROVE TypeOK'
  BY <1>7, CorrelateType
<1>8. ASSUME NEW r \in Requests, ActiveRules(r) PROVE TypeOK'
  BY <1>8 DEF ActiveRules, TypeOK
<1>9. ASSUME NEW r \in Requests, NEW k \in Rules, RaiseAlert(r, k)
      PROVE TypeOK'
  BY <1>9, RaiseAlertType
<1>10. ASSUME NEW r \in Requests, Deliver(r) PROVE TypeOK'
  BY <1>10, DeliverType
<1>11. ASSUME NEW r \in Requests, Release(r) PROVE TypeOK'
  BY <1>11, ReleaseType
<1>12. ASSUME NEW r \in Requests, ItemFails(r) PROVE TypeOK'
  BY <1>12, ItemFailsType
<1>13. ASSUME NEW r \in Requests, Respond(r) PROVE TypeOK'
  BY <1>13 DEF Respond, TypeOK
<1>14. ASSUME NEW r \in Requests, Commit(r) PROVE TypeOK'
  BY <1>14, CommitType
<1>15. ASSUME NEW r \in Requests, Crash(r) PROVE TypeOK'
  BY <1>15, RolledBackType DEF Crash, TypeOK
<1>16. ASSUME NEW k \in Rules, CreateRule(k) PROVE TypeOK'
  BY <1>16 DEF CreateRule, TypeOK
<1>17. ASSUME NEW k \in Rules, DeleteRule(k) PROVE TypeOK'
  BY <1>17, DeleteRuleType
<1>18. CASE UNCHANGED vars
  BY <1>18 DEF vars, TypeOK
<1>19. QED
  BY <1>1, <1>2, <1>3, <1>4, <1>5, <1>6, <1>7, <1>8, <1>9, <1>10, <1>11,
     <1>12, <1>13, <1>14, <1>15, <1>16, <1>17, <1>18, <1>3a
  DEF Next, Step, Quiescent

(* Committed rows are never removed, and no step but a request's own one    *)
(* changes what it has loaded or written.                                   *)
LEMMA StepLoaded ==
  ASSUME TypeInv, [Next]_vars PROVE LoadedExists'
<1> SUFFICES ASSUME NEW q \in Requests,
                    pc'[q] \in {"engine", "read", "write"}, loaded'[q] # Null
             PROVE  Visible(q, Value(q))' # Null
  BY DEF LoadedExists
<1> USE DEF TypeInv
<1>1. Value(q) \in Values
  BY ValueType
<1>2. ASSUME /\ pc[q] \in {"engine", "read", "write"} /\ loaded[q] # Null
             /\ item'[q] = item[q] /\ tx'[q] = tx[q]
             /\ ioc[Value(q)] # Null => ioc'[Value(q)] # Null
      PROVE  Visible(q, Value(q))' # Null
  BY <1>2 DEF LoadedExists, Visible, Value
<1>3. ASSUME NEW r \in Requests, Begin(r) PROVE Visible(q, Value(q))' # Null
  <2>1. CASE q = r
    BY <1>3, <2>1 DEF Begin, Visible, Value, TypeOK
  <2>2. CASE q # r
    BY <1>2, <1>3, <2>2 DEF Begin, TypeOK
  <2>3. QED
    BY <2>1, <2>2
<1>4. ASSUME NEW r \in Requests, Read(r) PROVE Visible(q, Value(q))' # Null
  <2>1. CASE q = r
    <3>1. Visible(q, Value(q))' = Visible(q, Value(q))
      BY <1>4 DEF Read, Visible, Value
    <3>2. loaded[q] # Null => Visible(q, Value(q)) # Null
      BY <1>4, <2>1 DEF Read, LoadedExists
    <3>3. QED
      BY <1>4, <2>1, <3>1, <3>2 DEF Read, TypeOK
  <2>2. CASE q # r
    BY <1>2, <1>4, <2>2 DEF Read, TypeOK
  <2>3. QED
    BY <2>1, <2>2
<1>4a. ASSUME NEW r \in Requests, LoadEngine(r)
       PROVE  Visible(q, Value(q))' # Null
  <2>1. loaded[r] # Null
    BY <1>4a DEF LoadEngine, EngineOfLoaded
  <2>2. QED
    BY <1>2, <1>4a, <2>1 DEF LoadEngine, TypeOK
<1>5. ASSUME NEW r \in Requests, Fails(r) \/ RolledBack(r),
             UNCHANGED <<ioc, item>>
      PROVE  Visible(q, Value(q))' # Null
  BY <1>2, <1>5 DEF Fails, RolledBack, TypeOK
<1>6. ASSUME NEW r \in Requests, NEW row, Writes(r, row)
      PROVE  Visible(q, Value(q))' # Null
  BY <1>2, <1>6 DEF Writes, TypeOK
<1>7. ASSUME NEW r \in Requests, NEW w \in Tx, Advance(r, w), UNCHANGED ioc
      PROVE  Visible(q, Value(q))' # Null
  BY <1>2, <1>7 DEF Advance, TypeOK
<1>8. ASSUME NEW r \in Requests,
             Correlate(r) \/ \E k \in Rules : RaiseAlert(r, k)
      PROVE  Visible(q, Value(q))' # Null
  BY <1>2, <1>8 DEF Correlate, RaiseAlert, TypeOK
<1>9. ASSUME NEW r \in Requests, ActiveRules(r) \/ Deliver(r) \/ Respond(r)
      PROVE  Visible(q, Value(q))' # Null
  BY <1>2, <1>9 DEF ActiveRules, Deliver, Respond, TypeOK
<1>10. ASSUME NEW r \in Requests, Commit(r)
       PROVE  Visible(q, Value(q))' # Null
  BY <1>1, <1>2, <1>10 DEF Commit, Visible, TypeOK
<1>11. ASSUME NEW k \in Rules, CreateRule(k) \/ DeleteRule(k)
       PROVE  Visible(q, Value(q))' # Null
  BY <1>2, <1>11 DEF CreateRule, DeleteRule
<1>12. CASE UNCHANGED vars
  BY <1>2, <1>12 DEF vars
<1>13. ASSUME NEW r \in Requests,
              Insert(r) \/ Update(r) \/ Release(r) \/ ItemFails(r)
       PROVE  Visible(q, Value(q))' # Null
  <2>1. tx[r] \in Tx /\ mark[r] \in Tx
    BY DEF TypeOK
  <2>2. CASE Insert(r) \/ Update(r)
    BY <1>6, <2>2 DEF Insert, Update
  <2>3. CASE Release(r) \/ ItemFails(r)
    BY <1>5, <1>7, <2>1, <2>3 DEF Release, ItemFails
  <2>4. QED
    BY <1>13, <2>2, <2>3
<1>14. ASSUME NEW r \in Requests,
              NotFound(r) \/ Reject(r) \/ InsertConflict(r) \/ DeadlockVictim(r)
                \/ EdgeConflict(r) \/ Crash(r) \/ \E k \in Rules : RuleGone(r, k)
       PROVE  Visible(q, Value(q))' # Null
  BY <1>5, <1>14 DEF NotFound, Reject, InsertConflict, DeadlockVictim,
                     EdgeConflict, Crash, RuleGone, Fails
<1>15. QED
  BY <1>3, <1>4, <1>8, <1>9, <1>10, <1>11, <1>12, <1>13, <1>14, <1>4a
  DEF Next, Step, Quiescent

LEMMA StepEngine ==
  ASSUME TypeInv, [Next]_vars PROVE EngineOfLoaded'
<1> SUFFICES ASSUME NEW q \in Requests, pc'[q] = "engine"
             PROVE  loaded'[q] # Null
  BY DEF EngineOfLoaded
<1> USE DEF TypeInv
<1>1. ASSUME pc[q] = "engine", loaded'[q] = loaded[q] PROVE loaded'[q] # Null
  BY <1>1 DEF EngineOfLoaded
<1>2. ASSUME NEW r \in Requests, Begin(r) \/ Read(r) \/ LoadEngine(r)
      PROVE  loaded'[q] # Null
  BY <1>1, <1>2 DEF Begin, Read, LoadEngine, TypeOK
<1>3. ASSUME NEW r \in Requests,
             Fails(r) \/ RolledBack(r) \/ Release(r) \/ ItemFails(r)
               \/ \E row : Writes(r, row)
      PROVE  loaded'[q] # Null
  BY <1>1, <1>3
  DEF Fails, RolledBack, Release, ItemFails, Advance, Writes, TypeOK
<1>4. ASSUME NEW r \in Requests,
             Correlate(r) \/ ActiveRules(r) \/ Deliver(r) \/ Respond(r)
               \/ Commit(r) \/ \E k \in Rules : RaiseAlert(r, k)
      PROVE  loaded'[q] # Null
  BY <1>1, <1>4
  DEF Correlate, ActiveRules, Deliver, Respond, Commit, RaiseAlert, TypeOK
<1>5. ASSUME (\E k \in Rules : CreateRule(k) \/ DeleteRule(k)) \/ UNCHANGED vars
      PROVE  loaded'[q] # Null
  BY <1>1, <1>5 DEF CreateRule, DeleteRule, vars
<1>6. ASSUME NEW r \in Requests,
             NotFound(r) \/ Reject(r) \/ InsertConflict(r) \/ DeadlockVictim(r)
               \/ EdgeConflict(r) \/ Crash(r) \/ Insert(r) \/ Update(r)
               \/ \E k \in Rules : RuleGone(r, k)
      PROVE  loaded'[q] # Null
  BY <1>3, <1>6 DEF NotFound, Reject, InsertConflict, DeadlockVictim,
                    EdgeConflict, Crash, RuleGone, Insert, Update
<1>7. QED
  BY <1>2, <1>3, <1>4, <1>5, <1>6 DEF Next, Step, Quiescent

LEMMA TypeInvariant == Spec => []TypeInv
<1>1. TypeInv /\ [Next]_vars => TypeInv'
  BY StepType, StepLoaded, StepEngine DEF TypeInv
<1>2. QED
  BY InitType, <1>1, PTL DEF Spec

(* Every variable keeps its type, for any requests, indicators and rules:   *)
(* in particular a batch never works on an item it does not have, and an    *)
(* UPDATE always finds the row it is for.                                   *)
THEOREM TypeCorrect == Spec => []TypeOK
BY TypeInvariant, PTL DEF TypeInv

-----------------------------------------------------------------------------
(* The ledger.  A row is good for n submissions of its indicator when it    *)
(* counts 1 to n of them and, if it counts them all, its score is the one   *)
(* its engine record explains.                                              *)
Good(row, n) ==
  /\ row.sightings \in 1..n
  /\ row.sightings = n => row.score = row.explained

(* The submission whose row is written and whose audit entry is not.        *)
Pending(r, v) == IF pc[r] = "correlate" /\ v = Value(r) THEN 1 ELSE 0

(* Writes t of an open transaction are good on top of the committed audit   *)
(* entries, of which other transactions can only add more.                  *)
TxSound(t, v, pending) ==
  IF t.rows[v] = Null
    THEN t.audits[v] = 0 /\ pending = 0
    ELSE /\ t.audits[v] + pending >= 1
         /\ Good(t.rows[v], audits[v] + t.audits[v] + pending)

(* A loaded row is good, and still the visible one if it counts everything. *)
LoadedSound(r) ==
  LET v == Value(r)
      n == audits[v] + tx[r].audits[v]
  IN  pc[r] \in {"engine", "read", "write"} /\ loaded[r] # Null =>
        /\ Good(loaded[r], n)
        /\ loaded[r].sightings = n => loaded[r] = Visible(r, v)

(* A failing request is about to go back to its SAVEPOINT.                  *)
Sound(r) ==
  /\ pc[r] = "idle" => tx[r] = EmptyTx
  /\ pc[r] # "failing" => \A v \in Values : TxSound(tx[r], v, Pending(r, v))
  /\ \A v \in Values : TxSound(mark[r], v, 0)
  /\ LoadedSound(r)

CommittedSound ==
  \A v \in Values :
    IF ioc[v] = Null THEN audits[v] = 0 ELSE Good(ioc[v], audits[v])

Ledger == CommittedSound /\ \A r \in Requests : Sound(r)

LEMMA InitLedger == Init => Ledger
<1> SUFFICES ASSUME Init PROVE Ledger
  OBVIOUS
<1>1. CommittedSound
  <2> SUFFICES ASSUME NEW v \in Values
               PROVE  IF ioc[v] = Null THEN audits[v] = 0
                                       ELSE Good(ioc[v], audits[v])
    BY DEF CommittedSound
  <2>1. PICK s \in Scores :
          ioc = [u \in Values |->
                   IF u \in Stored
                     THEN [sightings |-> 1, score |-> s, explained |-> s]
                     ELSE Null]
    BY DEF Init
  <2>2. CASE v \in Stored
    <3>1. /\ ioc[v] = [sightings |-> 1, score |-> s, explained |-> s]
          /\ audits[v] = 1
      BY <2>1, <2>2 DEF Init
    <3>2. Good(ioc[v], audits[v])
      BY <3>1 DEF Good
    <3>3. ioc[v] \in Row
      BY <3>1 DEF Row
    <3>4. QED
      BY <3>2, <3>3, IngestAssumption
  <2>3. CASE v \notin Stored
    BY <2>1, <2>3 DEF Init
  <2>4. QED
    BY <2>2, <2>3
<1>2. ASSUME NEW r \in Requests PROVE Sound(r)
  <2>1. /\ pc[r] = "idle" /\ tx[r] = EmptyTx /\ mark[r] = EmptyTx
        /\ loaded[r] = Null
    BY DEF Init
  <2>2. \A v \in Values : TxSound(EmptyTx, v, 0)
    BY DEF TxSound, EmptyTx
  <2>3. QED
    BY <2>1, <2>2 DEF Sound, Pending, LoadedSound
<1>3. QED
  BY <1>1, <1>2 DEF Ledger

(* A row stays good when more submissions are audited.                      *)
LEMMA GoodGrows ==
  ASSUME NEW row \in Row, NEW n \in Nat, NEW m \in Nat, n <= m, Good(row, n)
  PROVE  /\ Good(row, m)
         /\ n < m => row.sightings # m
BY DEF Good, Row

(* Nothing a request's soundness speaks of has changed.                     *)
LEMMA SoundFrame ==
  ASSUME TypeOK, NEW q \in Requests, Sound(q), UNCHANGED <<ioc, audits>>,
         pc'[q] = pc[q], item'[q] = item[q], tx'[q] = tx[q],
         mark'[q] = mark[q], loaded'[q] = loaded[q]
  PROVE  Sound(q)'
<1>1. Value(q)' = Value(q)
  BY DEF Value
<1>2. \A v \in Values : Pending(q, v)' = Pending(q, v)
  BY <1>1 DEF Pending
<1>3. LoadedSound(q)'
  BY <1>1 DEF Sound, LoadedSound, Good, Visible
<1>4. QED
  BY <1>2, <1>3 DEF Sound, TxSound, Good

LEMMA EmptySound == \A v \in Values : TxSound(EmptyTx, v, 0)
BY DEF TxSound, EmptyTx

LEMMA FailsSound ==
  ASSUME TypeOK, NEW r \in Requests, Sound(r), Fails(r) PROVE Sound(r)'
<1>1. pc'[r] = "failing"
  BY DEF Fails, TypeOK
<1>2. QED
  BY <1>1 DEF Fails, Sound, LoadedSound, TxSound, Good

LEMMA RolledBackSound ==
  ASSUME TypeOK, NEW r \in Requests, RolledBack(r) PROVE Sound(r)'
<1>1. pc'[r] = "done" /\ tx'[r] = EmptyTx /\ mark'[r] = EmptyTx
  BY DEF RolledBack, TypeOK
<1>2. \A v \in Values : TxSound(EmptyTx, v, 0)'
  BY DEF TxSound, EmptyTx
<1>3. QED
  BY <1>1, <1>2 DEF Sound, LoadedSound, Pending

LEMMA AdvanceSound ==
  ASSUME TypeOK, NEW r \in Requests, NEW w \in Tx, Advance(r, w),
         UNCHANGED audits, \A v \in Values : TxSound(w, v, 0)
  PROVE  Sound(r)'
<1>1. /\ pc'[r] \in {"read", "commit", "respond"}
      /\ tx'[r] = w /\ mark'[r] = w /\ loaded'[r] = Null
  BY DEF Advance, TypeOK
<1>2. \A v \in Values : TxSound(w, v, 0)'
  BY DEF TxSound, Good
<1>3. QED
  BY <1>1, <1>2 DEF Sound, LoadedSound, Pending

(* The written row is good for one submission more than are audited.        *)
LEMMA WritesSound ==
  ASSUME TypeOK, NEW r \in Requests, NEW row \in Row, Sound(r), Writes(r, row),
         pc[r] = "write",
         Good(row, audits[Value(r)] + tx[r].audits[Value(r)] + 1)
  PROVE  Sound(r)'
<1> DEFINE u == Value(r)
<1>1. u \in Values /\ tx[r] \in Tx /\ audits[u] \in Nat
  BY ValueType DEF TypeOK
<1>2. /\ pc'[r] = "correlate" /\ mark'[r] = mark[r]
      /\ Value(r)' = u /\ UNCHANGED audits
  BY DEF Writes, TypeOK, Value
<1>3. /\ tx'[r].audits = tx[r].audits
      /\ tx'[r].rows = [tx[r].rows EXCEPT ![u] = row]
  BY <1>1 DEF Writes, TypeOK, Tx
<1>4. \A v \in Values : TxSound(tx[r], v, 0) /\ TxSound(mark[r], v, 0)
  BY DEF Sound, Pending
<1>5. row # Null
  BY IngestAssumption
<1> HIDE DEF u
<1>6. ASSUME NEW v \in Values PROVE TxSound(tx[r], v, Pending(r, v))'
  <2>1. CASE v = u
    <3>1. Pending(r, v)' = 1
      BY <1>2, <2>1 DEF Pending
    <3>2. tx'[r].rows[v] = row /\ tx'[r].audits[v] = tx[r].audits[u]
      BY <1>1, <1>3, <2>1 DEF Tx
    <3>3. tx[r].audits[u] \in Nat
      BY <1>1 DEF Tx
    <3>4. Good(row, audits[u] + tx[r].audits[u] + 1)
      BY DEF u
    <3>5. QED
      BY <1>2, <1>5, <2>1, <3>1, <3>2, <3>3, <3>4 DEF TxSound, Good
  <2>2. CASE v # u
    <3>1. Pending(r, v)' = 0
      BY <1>2, <2>2 DEF Pending
    <3>2. tx'[r].rows[v] = tx[r].rows[v] /\ tx'[r].audits[v] = tx[r].audits[v]
      BY <1>1, <1>3, <2>2 DEF Tx
    <3>3. QED
      BY <1>2, <1>4, <3>1, <3>2 DEF TxSound, Good
  <2>3. QED
    BY <2>1, <2>2
<1>7. \A v \in Values : TxSound(mark[r], v, 0)'
  BY <1>2, <1>4 DEF TxSound, Good
<1>8. QED
  BY <1>2, <1>6, <1>7 DEF Sound, LoadedSound

LEMMA BeginSound ==
  ASSUME TypeOK, CommittedSound, NEW r \in Requests, Sound(r), Begin(r)
  PROVE  Sound(r)'
<1>0. PICK u \in Values : u = Value(r)
  BY ValueType
<1>1. u \in Values /\ audits[u] \in Nat
  BY DEF TypeOK
<1>2. /\ tx[r] = EmptyTx /\ tx'[r] = EmptyTx /\ mark'[r] = mark[r]
      /\ pc'[r] \in {"engine", "read"} /\ loaded'[r] \in {ioc[u], Null}
      /\ UNCHANGED <<ioc, audits>> /\ Value(r)' = u
  BY <1>0 DEF Begin, Sound, TypeOK, Value
<1>3. \A v \in Values : TxSound(EmptyTx, v, 0)'
  BY DEF TxSound, EmptyTx
<1>4. \A v \in Values : TxSound(mark[r], v, 0)'
  BY <1>2 DEF Sound, TxSound, Good
<1>5. LoadedSound(r)'
  <2>1. EmptyTx.audits[u] = 0 /\ EmptyTx.rows[u] = Null
    BY <1>1 DEF EmptyTx
  <2>2. audits[u] + tx'[r].audits[u] = audits[u]
    BY <1>1, <1>2, <2>1
  <2>3. ioc[u] # Null => Good(ioc[u], audits[u])
    BY <1>1 DEF CommittedSound
  <2>4. Visible(r, u)' = ioc[u]
    BY <1>2, <2>1 DEF Visible
  <2>5. QED
    BY <1>2, <2>2, <2>3, <2>4 DEF LoadedSound, Good, Visible
<1>6. QED
  BY <1>2, <1>3, <1>4, <1>5 DEF Sound, Pending

(* What a transaction sees is good for the submissions it sees.             *)
LEMMA VisibleGood ==
  ASSUME TypeOK, CommittedSound, NEW r \in Requests, NEW v \in Values,
         TxSound(tx[r], v, 0), Visible(r, v) # Null
  PROVE  Good(Visible(r, v), audits[v] + tx[r].audits[v])
<1>1. audits[v] \in Nat /\ tx[r].audits[v] \in Nat
  BY DEF TypeOK, Tx
<1>2. CASE tx[r].rows[v] # Null
  <2>1. Good(tx[r].rows[v], audits[v] + tx[r].audits[v] + 0)
    BY <1>2 DEF TxSound
  <2>2. audits[v] + tx[r].audits[v] + 0 = audits[v] + tx[r].audits[v]
    BY <1>1
  <2>3. QED
    BY <1>2, <2>1, <2>2 DEF Visible
<1>3. CASE tx[r].rows[v] = Null
  <2>1. Visible(r, v) = ioc[v] /\ tx[r].audits[v] = 0
    BY <1>3 DEF Visible, TxSound
  <2>2. Good(ioc[v], audits[v]) /\ audits[v] + tx[r].audits[v] = audits[v]
    BY <1>1, <2>1 DEF CommittedSound
  <2>3. QED
    BY <2>1, <2>2
<1>4. QED
  BY <1>2, <1>3

LEMMA ReadSound ==
  ASSUME TypeOK, CommittedSound, NEW r \in Requests, Sound(r), Read(r)
  PROVE  Sound(r)'
<1>1. PICK u \in Values : u = Value(r)
  BY ValueType
<1>2. /\ pc[r] = "read" /\ pc'[r] \in {"engine", "write"}
      /\ loaded'[r] = IF loaded[r] # Null THEN loaded[r] ELSE Visible(r, u)
      /\ UNCHANGED <<ioc, audits, tx, mark>> /\ Value(r)' = u
      /\ Visible(r, u)' = Visible(r, u)
  BY <1>1 DEF Read, TypeOK, Value, Visible
<1>3. \A v \in Values : TxSound(tx[r], v, 0) /\ TxSound(mark[r], v, 0)
  BY <1>2 DEF Sound, Pending
<1>4. \A v \in Values : TxSound(tx[r], v, 0)' /\ TxSound(mark[r], v, 0)'
  BY <1>2, <1>3 DEF TxSound, Good
<1>5. LoadedSound(r)'
  <2>1. Visible(r, u) # Null
          => Good(Visible(r, u), audits[u] + tx[r].audits[u])
    BY <1>1, <1>3, VisibleGood
  <2>2. loaded[r] # Null =>
          /\ Good(loaded[r], audits[u] + tx[r].audits[u])
          /\ loaded[r].sightings = audits[u] + tx[r].audits[u]
               => loaded[r] = Visible(r, u)
    BY <1>1, <1>2 DEF Sound, LoadedSound
  <2>3. QED
    BY <1>2, <2>1, <2>2 DEF LoadedSound, Good
<1>6. QED
  BY <1>2, <1>4, <1>5 DEF Sound, Pending

(* The engine record of a row that counts everything is the visible one.    *)
LEMMA LoadEngineSound ==
  ASSUME TypeInv, NEW r \in Requests, Sound(r), LoadEngine(r)
  PROVE  Sound(r)'
<1> USE DEF TypeInv
<1>1. PICK u \in Values : u = Value(r)
  BY ValueType
<1>2. /\ pc[r] = "engine" /\ pc'[r] \in {"read", "write"}
      /\ UNCHANGED <<ioc, audits, tx, mark>> /\ Value(r)' = u
      /\ Visible(r, u)' = Visible(r, u)
  BY <1>1 DEF LoadEngine, TypeOK, Value, Visible
<1>3. \A v \in Values : TxSound(tx[r], v, 0) /\ TxSound(mark[r], v, 0)
  BY <1>2 DEF Sound, Pending
<1>4. \A v \in Values : TxSound(tx[r], v, 0)' /\ TxSound(mark[r], v, 0)'
  BY <1>2, <1>3 DEF TxSound, Good
<1> DEFINE n == audits[u] + tx[r].audits[u]
           row == [loaded[r] EXCEPT !.explained = Visible(r, u).explained]
<1>5. loaded[r] \in Row /\ loaded'[r] = row
  BY <1>1, LoadEngineType DEF LoadEngine, EngineOfLoaded, TypeOK
<1>6. Good(loaded[r], n) /\ (loaded[r].sightings = n => loaded[r] = Visible(r, u))
  BY <1>1, <1>2, <1>5, IngestAssumption DEF Sound, LoadedSound
<1>7. row.sightings = loaded[r].sightings
  BY <1>5 DEF Row
<1>8. loaded[r] = Visible(r, u) => row = loaded[r]
  BY <1>5 DEF Row
<1>9. Good(row, n) /\ (row.sightings = n => row = Visible(r, u))
  BY <1>6, <1>7, <1>8 DEF Good
<1> HIDE DEF row
<1>10. LoadedSound(r)'
  BY <1>2, <1>5, <1>9 DEF LoadedSound, Good
<1>11. QED
  BY <1>2, <1>4, <1>10 DEF Sound, Pending

LEMMA InsertSound ==
  ASSUME TypeOK, NEW r \in Requests, Sound(r), Insert(r) PROVE Sound(r)'
<1> DEFINE row == [sightings |-> 1, score |-> score[r], explained |-> score[r]]
           u == Value(r)
<1>1. u \in Values
  BY ValueType
<1>2. audits[u] \in Nat /\ tx[r].audits[u] \in Nat
  BY <1>1 DEF TypeOK, Tx
<1>3. row \in Row
  BY DEF Row, TypeOK
<1>4. Good(row, audits[u] + tx[r].audits[u] + 1)
  BY <1>2 DEF Good
<1>5. QED
  BY <1>3, <1>4, WritesSound DEF Insert

(* The lost update is harmless for the explanation: a row that counts every *)
(* submission was loaded as it is now, so its columns are of one score.     *)
LEMMA UpdateSound ==
  ASSUME TypeInv, NEW r \in Requests, Sound(r), Update(r) PROVE Sound(r)'
<1> USE DEF TypeInv
<1> DEFINE u == Value(r)
           now == Visible(r, u)
           n == audits[u] + tx[r].audits[u]
<1>1. u \in Values
  BY ValueType
<1>2. n \in Nat
  BY <1>1 DEF TypeOK, Tx
<1>3. loaded[r] \in Row /\ score[r] \in Scores
  BY DEF Update, TypeOK
<1>4. now \in Row
  BY <1>1, VisibleType DEF Update, LoadedExists
<1>5. PICK rewritten \in BOOLEAN :
        /\ score[r] # loaded[r].explained => rewritten
        /\ Writes(r, [sightings |-> loaded[r].sightings + 1,
                      score     |-> IF score[r] = loaded[r].score
                                      THEN now.score ELSE score[r],
                      explained |-> IF rewritten
                                      THEN score[r] ELSE now.explained])
  BY DEF Update
<1> DEFINE row == [sightings |-> loaded[r].sightings + 1,
                   score     |-> IF score[r] = loaded[r].score
                                   THEN now.score ELSE score[r],
                   explained |-> IF rewritten
                                   THEN score[r] ELSE now.explained]
<1>6. /\ Good(loaded[r], n)
      /\ loaded[r].sightings = n => loaded[r] = now
  BY DEF Update, Sound, LoadedSound
<1> HIDE DEF u, now, n
<1>7. row \in Row
  BY <1>3, <1>4 DEF Row
<1>8. Good(row, n + 1)
  <2>1. loaded[r].sightings \in 1..n
    BY <1>6 DEF Good
  <2>2. row.sightings \in 1..(n + 1)
    BY <1>2, <2>1
  <2>3. row.sightings = n + 1 => loaded[r] = now
    BY <1>2, <1>6, <2>1
  <2>4. loaded[r] = now => row.score = row.explained
    BY <1>5
  <2>5. QED
    BY <2>2, <2>3, <2>4 DEF Good
<1> HIDE DEF row
<1>9. Writes(r, row)
  BY <1>5 DEF row
<1>10. QED
  BY <1>7, <1>8, <1>9, WritesSound DEF Update, u, n

LEMMA CorrelateSound ==
  ASSUME TypeOK, NEW r \in Requests, Sound(r), Correlate(r) PROVE Sound(r)'
<1> DEFINE u == Value(r)
<1>1. u \in Values /\ tx[r] \in Tx
  BY ValueType DEF TypeOK
<1>2. /\ pc[r] = "correlate" /\ pc'[r] \in {"rules", "alerts"}
      /\ mark'[r] = mark[r] /\ UNCHANGED audits
      /\ tx'[r].rows = tx[r].rows
      /\ tx'[r].audits = [tx[r].audits EXCEPT ![u] = @ + 1]
  BY <1>1 DEF Correlate, TypeOK, Tx
<1>3. \A v \in Values : TxSound(mark[r], v, 0)'
  BY <1>2 DEF Sound, TxSound, Good
<1>4. ASSUME NEW v \in Values PROVE TxSound(tx[r], v, 0)'
  <2>1. TxSound(tx[r], v, Pending(r, v))
    BY <1>2 DEF Sound
  <2>2. tx'[r].audits[v] = tx[r].audits[v] + Pending(r, v)
    BY <1>1, <1>2 DEF Pending, Tx
  <2>3. /\ tx[r].audits[v] \in Nat /\ Pending(r, v) \in Nat /\ audits[v] \in Nat
    BY <1>1 DEF Pending, TypeOK, Tx
  <2> HIDE DEF u
  <2>4. audits[v] + tx'[r].audits[v] + 0
          = audits[v] + tx[r].audits[v] + Pending(r, v)
    BY <2>2, <2>3
  <2>5. tx'[r].audits[v] + 0 = tx[r].audits[v] + Pending(r, v)
    BY <2>2, <2>3
  <2>6. QED
    BY <1>2, <2>1, <2>2, <2>3, <2>4, <2>5 DEF TxSound, Good
<1>5. QED
  BY <1>2, <1>3, <1>4 DEF Sound, LoadedSound, Pending

(* The steps that raise alerts change neither rows nor audit entries.       *)
LEMMA AlertingSound ==
  ASSUME TypeOK, NEW r \in Requests, Sound(r), UNCHANGED audits,
         pc[r] \in {"rules", "alerts", "deliver", "respond"},
         pc'[r] \in {"alerts", "deliver", "commit"},
         tx'[r].rows = tx[r].rows, tx'[r].audits = tx[r].audits,
         mark'[r] = mark[r]
  PROVE  Sound(r)'
<1>1. \A v \in Values : TxSound(tx[r], v, 0) /\ TxSound(mark[r], v, 0)
  BY DEF Sound, Pending
<1>2. \A v \in Values : TxSound(tx[r], v, 0)' /\ TxSound(mark[r], v, 0)'
  BY <1>1 DEF TxSound, Good
<1>3. QED
  BY <1>2 DEF Sound, LoadedSound, Pending

(* A commit publishes good rows, on as many audit entries as they count.    *)
LEMMA CommitCommitted ==
  ASSUME TypeOK, CommittedSound, NEW r \in Requests, Sound(r), Commit(r)
  PROVE  CommittedSound'
<1> SUFFICES ASSUME NEW v \in Values
             PROVE  (IF ioc[v] = Null THEN audits[v] = 0
                                      ELSE Good(ioc[v], audits[v]))'
  BY DEF CommittedSound
<1>1. TxSound(tx[r], v, 0)
  BY DEF Commit, Sound, Pending
<1>2. ioc'[v] = Visible(r, v) /\ audits'[v] = audits[v] + tx[r].audits[v]
  BY DEF Commit
<1>3. CASE Visible(r, v) # Null
  <2>1. Good(Visible(r, v), audits[v] + tx[r].audits[v])
    BY <1>1, <1>3, VisibleGood
  <2>2. QED
    BY <1>2, <1>3, <2>1 DEF Good
<1>4. CASE Visible(r, v) = Null
  <2>1. tx[r].rows[v] = Null /\ ioc[v] = Null
    BY <1>4 DEF Visible
  <2>2. tx[r].audits[v] = 0 /\ audits[v] = 0
    BY <1>1, <2>1 DEF TxSound, CommittedSound
  <2>3. QED
    BY <1>2, <1>4, <2>2
<1>5. QED
  BY <1>3, <1>4

(* ... and leaves the other requests sound: what they have written or       *)
(* loaded was good before, and the commit only adds audit entries, at least *)
(* one for each row it changes.                                             *)
LEMMA CommitOthers ==
  ASSUME TypeOK, CommittedSound, NEW r \in Requests, Sound(r), Commit(r),
         NEW q \in Requests, q # r, Sound(q)
  PROVE  Sound(q)'
<1>1. PICK u \in Values : u = Value(q)
  BY ValueType
<1>2. /\ pc'[q] = pc[q] /\ tx'[q] = tx[q] /\ mark'[q] = mark[q]
      /\ loaded'[q] = loaded[q] /\ Value(q)' = u
  BY <1>1 DEF Commit, TypeOK, Value
<1>3. \A v \in Values : Pending(q, v)' = Pending(q, v)
  BY <1>1, <1>2 DEF Pending
<1>4. ASSUME NEW v \in Values
      PROVE  /\ audits[v] \in Nat /\ audits'[v] \in Nat
             /\ audits[v] <= audits'[v]
             /\ audits'[v] = audits[v] => ioc'[v] = ioc[v]
  <2>1. audits[v] \in Nat /\ tx[r].audits[v] \in Nat
    BY DEF TypeOK, Tx
  <2>2. audits'[v] = audits[v] + tx[r].audits[v]
    BY DEF Commit
  <2>3. TxSound(tx[r], v, 0)
    BY DEF Commit, Sound, Pending
  <2>4. tx[r].audits[v] = 0 => tx[r].rows[v] = Null
    BY <2>1, <2>3 DEF TxSound
  <2>5. ioc'[v] = Visible(r, v)
    BY DEF Commit
  <2>6. QED
    BY <2>1, <2>2, <2>4, <2>5 DEF Visible
<1>5. ASSUME NEW t \in Tx, NEW v \in Values, NEW x \in {0, 1}, TxSound(t, v, x)
      PROVE  TxSound(t, v, x)'
  <2>1. t.audits[v] \in Nat /\ t.rows[v] \in Row \cup {Null}
    BY DEF Tx
  <2>2. CASE t.rows[v] # Null
    <3>1. /\ audits[v] + t.audits[v] + x \in Nat
          /\ audits'[v] + t.audits[v] + x \in Nat
          /\ audits[v] + t.audits[v] + x <= audits'[v] + t.audits[v] + x
      BY <1>4, <2>1
    <3>2. Good(t.rows[v], audits[v] + t.audits[v] + x) /\ t.audits[v] + x >= 1
      BY <1>5, <2>2 DEF TxSound
    <3>3. Good(t.rows[v], audits'[v] + t.audits[v] + x)
      BY <2>1, <2>2, <3>1, <3>2, GoodGrows
    <3>4. QED
      BY <2>2, <3>2, <3>3 DEF TxSound, Good
  <2>3. CASE t.rows[v] = Null
    BY <1>5, <2>3 DEF TxSound
  <2>4. QED
    BY <2>2, <2>3
<1>6. pc'[q] # "failing" => \A v \in Values : TxSound(tx[q], v, Pending(q, v))'
  <2> SUFFICES ASSUME NEW v \in Values, pc[q] # "failing"
               PROVE  TxSound(tx[q], v, Pending(q, v))'
    BY <1>2
  <2>1. PICK t \in Tx : t = tx[q]
    BY DEF TypeOK
  <2>2. PICK x \in {0, 1} : x = Pending(q, v)
    BY DEF Pending
  <2>3. TxSound(t, v, x)
    BY <2>1, <2>2 DEF Sound
  <2>4. TxSound(t, v, x)'
    BY <1>5, <2>3
  <2>5. QED
    BY <1>2, <1>3, <2>1, <2>2, <2>4 DEF TxSound, Good
<1>7. \A v \in Values : TxSound(mark[q], v, 0)'
  <2>1. PICK t \in Tx : t = mark[q]
    BY DEF TypeOK
  <2>2. \A v \in Values : TxSound(t, v, 0)'
    BY <1>5, <2>1 DEF Sound
  <2>3. QED
    BY <1>2, <2>1, <2>2 DEF TxSound, Good
<1>8. LoadedSound(q)'
  <2> SUFFICES ASSUME pc[q] \in {"engine", "read", "write"}, loaded[q] # Null
               PROVE  /\ Good(loaded[q], audits'[u] + tx[q].audits[u])
                      /\ loaded[q].sightings = audits'[u] + tx[q].audits[u]
                           => loaded[q] = Visible(q, u)'
    BY <1>2 DEF LoadedSound, Good, Visible
  <2>1. loaded[q] \in Row /\ tx[q].audits[u] \in Nat
    BY DEF TypeOK, Tx
  <2> DEFINE n == audits[u] + tx[q].audits[u]
             m == audits'[u] + tx[q].audits[u]
  <2>2. n \in Nat /\ m \in Nat /\ n <= m /\ (m = n => ioc'[u] = ioc[u])
    BY <1>4, <2>1
  <2>3. Good(loaded[q], n) /\ (loaded[q].sightings = n => loaded[q] = Visible(q, u))
    BY <1>1 DEF Sound, LoadedSound
  <2>4. ioc'[u] = ioc[u] => Visible(q, u)' = Visible(q, u)
    BY <1>2 DEF Visible
  <2> HIDE DEF n, m
  <2>5. Good(loaded[q], m) /\ (n < m => loaded[q].sightings # m)
    BY <2>1, <2>2, <2>3, GoodGrows
  <2>6. QED
    BY <2>2, <2>3, <2>4, <2>5 DEF m
<1>9. QED
  BY <1>2, <1>6, <1>7, <1>8 DEF Sound

(* A step of request r leaves the other requests alone.                     *)
LEMMA Others ==
  ASSUME TypeOK, Ledger, NEW r \in Requests, UNCHANGED <<ioc, audits>>,
         \A q \in Requests \ {r} :
           /\ pc'[q] = pc[q] /\ item'[q] = item[q] /\ tx'[q] = tx[q]
           /\ mark'[q] = mark[q] /\ loaded'[q] = loaded[q],
         Sound(r)'
  PROVE  Ledger'
<1>1. CommittedSound'
  BY DEF Ledger, CommittedSound, Good
<1>2. ASSUME NEW q \in Requests \ {r} PROVE Sound(q)'
  BY SoundFrame DEF Ledger
<1>3. QED
  BY <1>1, <1>2 DEF Ledger

LEMMA StepLedger ==
  ASSUME TypeInv, Ledger, [Next]_vars PROVE Ledger'
<1> USE DEF TypeInv
<1>1. ASSUME NEW r \in Requests,
             Fails(r) \/ (RolledBack(r) /\ UNCHANGED <<ioc, audits, item>>)
      PROVE  Ledger'
  <2>1. Sound(r)'
    BY <1>1, FailsSound, RolledBackSound DEF Ledger
  <2>2. QED
    BY <1>1, <2>1, Others DEF Fails, RolledBack, TypeOK
<1>2. ASSUME NEW r \in Requests, Begin(r) PROVE Ledger'
  <2>1. Sound(r)'
    BY <1>2, BeginSound DEF Ledger
  <2>2. QED
    BY <1>2, <2>1, Others DEF Begin, TypeOK
<1>3. ASSUME NEW r \in Requests, Read(r) PROVE Ledger'
  <2>1. Sound(r)'
    BY <1>3, ReadSound DEF Ledger
  <2>2. QED
    BY <1>3, <2>1, Others DEF Read, TypeOK
<1>3a. ASSUME NEW r \in Requests, LoadEngine(r) PROVE Ledger'
  <2>1. Sound(r)'
    BY <1>3a, LoadEngineSound DEF Ledger
  <2>2. QED
    BY <1>3a, <2>1, Others DEF LoadEngine, TypeOK
<1>4. ASSUME NEW r \in Requests, Insert(r) \/ Update(r) PROVE Ledger'
  <2>1. Sound(r)'
    BY <1>4, InsertSound, UpdateSound DEF Ledger
  <2>2. PICK row : Writes(r, row)
    BY <1>4 DEF Insert, Update
  <2>3. QED
    BY <2>1, <2>2, Others DEF Writes, TypeOK
<1>5. ASSUME NEW r \in Requests, Correlate(r) PROVE Ledger'
  <2>1. Sound(r)'
    BY <1>5, CorrelateSound DEF Ledger
  <2>2. QED
    BY <1>5, <2>1, Others DEF Correlate, TypeOK
<1>6. ASSUME NEW r \in Requests, ActiveRules(r) \/ Deliver(r) \/ Respond(r)
      PROVE  Ledger'
  <2>1. Sound(r)'
    BY <1>6, AlertingSound DEF Ledger, ActiveRules, Deliver, Respond, TypeOK
  <2>2. QED
    BY <1>6, <2>1, Others DEF ActiveRules, Deliver, Respond, TypeOK
<1>7. ASSUME NEW r \in Requests, NEW k \in Rules, RaiseAlert(r, k)
      PROVE  Ledger'
  <2>1. tx'[r].rows = tx[r].rows /\ tx'[r].audits = tx[r].audits
    BY <1>7 DEF RaiseAlert, TypeOK, Tx
  <2>2. Sound(r)'
    BY <1>7, <2>1, AlertingSound DEF Ledger, RaiseAlert, TypeOK
  <2>3. QED
    BY <1>7, <2>2, Others DEF RaiseAlert, TypeOK
<1>8. ASSUME NEW r \in Requests, NEW w \in Tx, Advance(r, w),
             UNCHANGED <<ioc, audits>>, \A v \in Values : TxSound(w, v, 0)
      PROVE  Ledger'
  <2>1. Sound(r)'
    BY <1>8, AdvanceSound DEF Ledger
  <2>2. QED
    BY <1>8, <2>1, Others DEF Advance, TypeOK
<1>9. ASSUME NEW r \in Requests, Release(r) PROVE Ledger'
  <2>1. tx[r] \in Tx
    BY DEF TypeOK
  <2>2. \A v \in Values : TxSound(tx[r], v, 0)
    BY <1>9 DEF Release, Ledger, Sound, Pending
  <2>3. QED
    BY <1>8, <1>9, <2>1, <2>2 DEF Release
<1>10. ASSUME NEW r \in Requests, ItemFails(r) PROVE Ledger'
  <2>1. mark[r] \in Tx /\ \A v \in Values : TxSound(mark[r], v, 0)
    BY DEF TypeOK, Ledger, Sound
  <2>2. CASE Batch(r)
    BY <1>8, <1>10, <2>1, <2>2 DEF ItemFails
  <2>3. CASE ~Batch(r)
    BY <1>1, <1>10, <2>3 DEF ItemFails
  <2>4. QED
    BY <2>2, <2>3
<1>11. ASSUME NEW r \in Requests, Commit(r) PROVE Ledger'
  <2>1. CommittedSound'
    BY <1>11, CommitCommitted DEF Ledger
  <2>2. Sound(r)'
    <3>1. /\ pc'[r] = "done" /\ tx'[r] = EmptyTx /\ mark'[r] = EmptyTx
      BY <1>11 DEF Commit, TypeOK
    <3>2. \A v \in Values : TxSound(EmptyTx, v, 0)'
      BY DEF TxSound, EmptyTx
    <3>3. QED
      BY <3>1, <3>2 DEF Sound, LoadedSound, Pending
  <2>3. \A q \in Requests \ {r} : Sound(q)'
    BY <1>11, CommitOthers DEF Ledger
  <2>4. QED
    BY <2>1, <2>2, <2>3 DEF Ledger
<1>12. ASSUME UNCHANGED <<ioc, audits, pc, item, tx, mark, loaded>>
       PROVE  Ledger'
  <2>1. CommittedSound'
    BY <1>12 DEF Ledger, CommittedSound, Good
  <2>2. \A q \in Requests : Sound(q)'
    BY <1>12, SoundFrame DEF Ledger
  <2>3. QED
    BY <2>1, <2>2 DEF Ledger
<1>13. ASSUME NEW k \in Rules, CreateRule(k) \/ DeleteRule(k) PROVE Ledger'
  BY <1>12, <1>13 DEF CreateRule, DeleteRule
<1>14. CASE UNCHANGED vars
  BY <1>12, <1>14 DEF vars
<1>15. ASSUME NEW r \in Requests,
              NotFound(r) \/ Reject(r) \/ InsertConflict(r) \/ DeadlockVictim(r)
                \/ EdgeConflict(r) \/ Crash(r) \/ \E k \in Rules : RuleGone(r, k)
       PROVE  Ledger'
  BY <1>1, <1>15 DEF NotFound, Reject, InsertConflict, DeadlockVictim,
                     EdgeConflict, Crash, RuleGone
<1>16. QED
  BY <1>2, <1>3, <1>4, <1>5, <1>6, <1>7, <1>9, <1>10, <1>11, <1>13, <1>14,
     <1>15, <1>3a
  DEF Next, Step, Quiescent

LEMMA LedgerInvariant == Spec => [](TypeInv /\ Ledger)
<1>1. Init => TypeInv /\ Ledger
  BY InitType, InitLedger
<1>2. TypeInv /\ Ledger /\ [Next]_vars => (TypeInv /\ Ledger)'
  BY StepType, StepLoaded, StepEngine, StepLedger DEF TypeInv
<1>3. QED
  BY <1>1, <1>2, PTL DEF Spec

(* Whatever requests overlap, fail or crash, the audit log holds an entry   *)
(* for every sighting that a stored indicator counts, and none for an       *)
(* indicator that is not stored.                                            *)
THEOREM SightingsCovered == Spec => []SightingsAreAudited
<1>1. Ledger => SightingsAreAudited
  BY DEF Ledger, CommittedSound, Good, SightingsAreAudited
<1>2. QED
  BY <1>1, LedgerInvariant, PTL

(* A stored score differs from the one its engine record explains only when *)
(* a sighting of the indicator was lost as well.                            *)
THEOREM ScoreExplained == Spec => []ExplainedUnlessLost
<1>1. Ledger => ExplainedUnlessLost
  BY DEF Ledger, CommittedSound, Good, ExplainedUnlessLost
<1>2. QED
  BY <1>1, LedgerInvariant, PTL

-----------------------------------------------------------------------------
(* The course of a request.  Its status says which items are behind it; its *)
(* transaction is the one at the last SAVEPOINT until the item's row is     *)
(* written, and in its alerts until an alert is raised for the item.        *)
Course(r) ==
  /\ pc[r] = "done" <=> outcome[r] # "open"
  /\ pc[r] = "idle" => item[r] = 1
  /\ outcome[r] = "open" =>
       \A i \in DOMAIN Items[r] :
         status[r][i] = "pending" <=>
           i >= item[r] /\ pc[r] \notin {"respond", "commit"}
  /\ pc[r] \in {"idle", "engine", "read", "write", "respond", "commit", "done"}
       => tx[r] = mark[r]
  /\ pc[r] \in {"correlate", "rules"} => tx[r].alerts = mark[r].alerts

OnCourse == \A r \in Requests : Course(r)

Published(a) == <<a.req, a.item, a.rule>> \in feed

(* The alerts of a transaction are published, but for the one that is being *)
(* delivered; those of the current item come after the SAVEPOINT, and the   *)
(* rules they are of are not raised again.                                  *)
Announced(r) ==
  /\ mark[r].alerts \subseteq tx[r].alerts
  /\ \A a \in mark[r].alerts :
       /\ a.req = r /\ Published(a)
       /\ a.item < item[r] \/ pc[r] \in {"respond", "commit"}
  /\ \A a \in tx[r].alerts \ mark[r].alerts : a.req = r /\ a.item = item[r]
  /\ pc[r] = "alerts" => \A a \in tx[r].alerts :
       /\ Published(a)
       /\ a.item = item[r] => a.rule \notin todo[r]
  /\ pc[r] = "deliver" => \E k \in todo[r] : \A a \in tx[r].alerts :
       /\ Published(a) \/ (a.item = item[r] /\ a.rule = k)
       /\ a.item = item[r] /\ a.rule \in todo[r] => a.rule = k

AllAnnounced == CommittedAlertsWerePublished /\ \A r \in Requests : Announced(r)

Raised(S, r, i, k) == \E a \in S : a.req = r /\ a.item = i /\ a.rule = k

(* What was announced is in the transaction, or stored once it has been     *)
(* committed, or its item has failed.                                       *)
Kept(e) ==
  /\ e[2] \in DOMAIN Items[e[1]]
  /\ status[e[1]][e[2]] = "failed"
       \/ (/\ outcome[e[1]] = "open" => Raised(tx[e[1]].alerts, e[1], e[2], e[3])
           /\ outcome[e[1]] = "committed" => Raised(alerts, e[1], e[2], e[3]))

NoneVanished == \A e \in feed : Kept(e)

Always(k) == \A s \in Scores : MatchesRule(k, s)

(* The rules that have been active all along and match any score are raised *)
(* for the items behind the SAVEPOINT, and are raised or to be raised for   *)
(* the current one.                                                         *)
Heeded(r) ==
  /\ \A k \in steady[r] : rules[k] = "active"
  /\ EvaluatesAlerts(r) => \A k \in steady[r] : Always(k) =>
       /\ \A i \in DOMAIN Items[r] : status[r][i] = "imported" =>
            /\ outcome[r] = "open" => Raised(mark[r].alerts, r, i, k)
            /\ outcome[r] = "committed" => Raised(alerts, r, i, k)
       /\ pc[r] \in {"alerts", "deliver"} =>
            k \in todo[r] \/ Raised(tx[r].alerts, r, item[r], k)

AllHeeded == \A r \in Requests : Heeded(r)

(* The audit entries of a transaction are the items it reports as imported, *)
(* and from its own audit entry on the current one.                         *)
DoneFor(r, v) ==
  {i \in DOMAIN Items[r] : Items[r][i] = v /\ status[r][i] = "imported"}

Entered(r, v) ==
  IF pc[r] \in {"rules", "alerts", "deliver"} /\ v = Value(r) THEN 1 ELSE 0

Reported(r) ==
  outcome[r] = "open" => \A v \in Values :
    /\ mark[r].audits[v] = Cardinality(DoneFor(r, v))
    /\ pc[r] # "failing" => tx[r].audits[v] = mark[r].audits[v] + Entered(r, v)

(* What a step of request r leaves to another one.                          *)
Same(q) ==
  /\ pc'[q] = pc[q] /\ item'[q] = item[q] /\ tx'[q] = tx[q] /\ mark'[q] = mark[q]
  /\ todo'[q] = todo[q] /\ status'[q] = status[q] /\ outcome'[q] = outcome[q]

LEMMA StepOfOne ==
  ASSUME TypeInv, NEW r \in Requests, Step(r) \/ Crash(r),
         NEW q \in Requests, q # r
  PROVE  Same(q) /\ steady'[q] = steady[q] /\ UNCHANGED rules
<1> USE DEF TypeInv, TypeOK, Same
<1>1. CASE Fails(r)
  BY <1>1 DEF Fails
<1>2. ASSUME RolledBack(r), UNCHANGED <<rules, item, steady>>,
             UNCHANGED status \/ \E x : status' = [status EXCEPT ![r][item[r]] = x]
      PROVE  Same(q) /\ steady'[q] = steady[q] /\ UNCHANGED rules
  BY <1>2 DEF RolledBack
<1>3. ASSUME NEW w, Advance(r, w), UNCHANGED <<rules, outcome, steady>>,
             \E x : status' = [status EXCEPT ![r][item[r]] = x]
      PROVE  Same(q) /\ steady'[q] = steady[q] /\ UNCHANGED rules
  BY <1>3 DEF Advance
<1>4. ASSUME NEW row, Writes(r, row)
      PROVE  Same(q) /\ steady'[q] = steady[q] /\ UNCHANGED rules
  BY <1>4 DEF Writes
<1>5. CASE Begin(r) \/ Read(r) \/ LoadEngine(r) \/ ActiveRules(r) \/ Respond(r)
  BY <1>5 DEF Begin, Read, LoadEngine, ActiveRules, Respond
<1>6. CASE Correlate(r) \/ \E k \in Rules : RaiseAlert(r, k)
  BY <1>6 DEF Correlate, RaiseAlert
<1>7. CASE Deliver(r) \/ Commit(r)
  BY <1>7 DEF Deliver, Commit
<1>8. CASE Reject(r) \/ InsertConflict(r) \/ DeadlockVictim(r) \/ EdgeConflict(r)
             \/ \E k \in Rules : RuleGone(r, k)
  BY <1>1, <1>8 DEF Reject, InsertConflict, DeadlockVictim, EdgeConflict, RuleGone
<1>9. CASE Insert(r) \/ Update(r)
  BY <1>4, <1>9 DEF Insert, Update
<1>10. CASE NotFound(r) \/ Crash(r)
  BY <1>2, <1>10 DEF NotFound, Crash
<1>11. CASE Release(r)
  BY <1>3, <1>11 DEF Release
<1>12. CASE ItemFails(r)
  BY <1>2, <1>3, <1>12 DEF ItemFails
<1>13. QED
  BY <1>5, <1>6, <1>7, <1>8, <1>9, <1>10, <1>11, <1>12 DEF Step

LEMMA CourseOfSame ==
  ASSUME NEW q \in Requests, Course(q), Same(q) PROVE Course(q)'
BY DEF Course, Same

LEMMA CourseOfAdvance ==
  ASSUME TypeInv, NEW r \in Requests, Course(r), NEW w, Advance(r, w),
         pc[r] \in {"alerts", "failing"}, UNCHANGED outcome,
         NEW x \in {"imported", "failed"},
         status' = [status EXCEPT ![r][item[r]] = x]
  PROVE  Course(r)'
<1> USE DEF TypeInv, TypeOK
<1>1. Items[r] \in Seq(Values) /\ item[r] \in 1..Len(Items[r])
  BY IngestAssumption
<1>2. /\ tx'[r] = mark'[r] /\ outcome'[r] = "open" /\ outcome[r] = "open"
      /\ pc'[r] \in {"read", "commit", "respond"}
  BY DEF Advance, Course
<1>3. ASSUME NEW i \in DOMAIN Items[r]
      PROVE  status'[r][i] = "pending" <=>
               i >= item'[r] /\ pc'[r] \notin {"respond", "commit"}
  <2>1. status'[r][i] = IF i = item[r] THEN x ELSE status[r][i]
    OBVIOUS
  <2>2. status[r][i] = "pending" <=> i >= item[r]
    BY <1>2 DEF Course
  <2>3. CASE item[r] < Len(Items[r])
    <3>1. item'[r] = item[r] + 1 /\ pc'[r] = "read"
      BY <2>3 DEF Advance
    <3>2. QED
      BY <1>1, <2>1, <2>2, <3>1
  <2>4. CASE ~(item[r] < Len(Items[r]))
    <3>1. item'[r] = item[r] /\ pc'[r] \in {"commit", "respond"}
      BY <2>4 DEF Advance
    <3>2. QED
      BY <1>1, <2>1, <2>2, <2>4, <3>1
  <2>5. QED
    BY <2>3, <2>4
<1>4. QED
  BY <1>2, <1>3 DEF Course

LEMMA CourseOfOne ==
  ASSUME TypeInv, NEW r \in Requests, Course(r), Step(r) \/ Crash(r)
  PROVE  Course(r)'
<1> USE DEF TypeInv, TypeOK
<1>1. ASSUME Fails(r), pc[r] \in {"read", "write", "correlate", "alerts"}
      PROVE  Course(r)'
  BY <1>1 DEF Fails, Course
<1>2. CASE RolledBack(r)
  BY <1>2 DEF RolledBack, Course
<1>3. ASSUME NEW row, Writes(r, row), pc[r] = "write" PROVE Course(r)'
  <2>1. tx'[r].alerts = tx[r].alerts
    BY <1>3 DEF Writes, Tx
  <2>2. QED
    BY <1>3, <2>1 DEF Writes, Course
<1>4. CASE Begin(r) \/ Read(r) \/ LoadEngine(r)
  BY <1>4 DEF Begin, Read, LoadEngine, Course
<1>5. CASE ActiveRules(r) \/ Respond(r)
  BY <1>5 DEF ActiveRules, Respond, Course
<1>6. CASE Correlate(r)
  <2>1. tx'[r].alerts = tx[r].alerts
    BY <1>6 DEF Correlate, Tx
  <2>2. QED
    BY <1>6, <2>1 DEF Correlate, Course
<1>7. ASSUME NEW k \in Rules, RaiseAlert(r, k) PROVE Course(r)'
  BY <1>7 DEF RaiseAlert, Course
<1>8. CASE Deliver(r)
  BY <1>8 DEF Deliver, Course
<1>9. CASE Commit(r)
  BY <1>9 DEF Commit, Course
<1>10. CASE Reject(r) \/ InsertConflict(r) \/ DeadlockVictim(r) \/ EdgeConflict(r)
              \/ \E k \in Rules : RuleGone(r, k)
  BY <1>1, <1>10
  DEF Reject, InsertConflict, DeadlockVictim, Deadlocked, Waits, EdgeConflict, RuleGone
<1>11. CASE Insert(r) \/ Update(r)
  BY <1>3, <1>11 DEF Insert, Update
<1>12. CASE NotFound(r) \/ Crash(r)
  BY <1>2, <1>12 DEF NotFound, Crash
<1>13. CASE Release(r)
  BY <1>13, CourseOfAdvance DEF Release
<1>14. CASE ItemFails(r)
  BY <1>2, <1>14, CourseOfAdvance DEF ItemFails
<1>15. QED
  BY <1>4, <1>5, <1>6, <1>7, <1>8, <1>9, <1>10, <1>11, <1>12, <1>13, <1>14 DEF Step

LEMMA InitCourse == Init => OnCourse
BY IngestAssumption DEF Init, OnCourse, Course

LEMMA StepCourse ==
  ASSUME TypeInv, OnCourse, [Next]_vars PROVE OnCourse'
<1> SUFFICES ASSUME NEW q \in Requests PROVE Course(q)'
  BY DEF OnCourse
<1>1. ASSUME NEW r \in Requests, Step(r) \/ Crash(r) PROVE Course(q)'
  BY <1>1, StepOfOne, CourseOfOne, CourseOfSame DEF OnCourse
<1>2. CASE (\E k \in Rules : CreateRule(k) \/ DeleteRule(k)) \/ UNCHANGED vars
  <2>1. Same(q)
    BY <1>2 DEF CreateRule, DeleteRule, vars, Same
  <2>2. QED
    BY <2>1, CourseOfSame DEF OnCourse
<1>3. QED
  BY <1>1, <1>2 DEF Next, Quiescent

-----------------------------------------------------------------------------
(* What is announced stays announced: events are never taken back.          *)
LEMMA FeedGrows ==
  ASSUME TypeInv, [Next]_vars PROVE feed \subseteq feed'
<1>1. ASSUME NEW r \in Requests, Step(r) \/ Crash(r) PROVE feed \subseteq feed'
  BY <1>1
  DEF Step, Crash, Begin, NotFound, Read, LoadEngine, Reject, Insert, InsertConflict,
      Update, DeadlockVictim, Correlate, EdgeConflict, ActiveRules, RaiseAlert, RuleGone,
      Deliver, Release, ItemFails, Respond, Commit, Fails, Writes
<1>2. QED
  BY <1>1 DEF Next, Quiescent, CreateRule, DeleteRule, vars

LEMMA AnnouncedOfSame ==
  ASSUME NEW q \in Requests, Announced(q), Same(q), feed \subseteq feed'
  PROVE  Announced(q)'
BY DEF Announced, Same, Published

LEMMA AnnouncedOfAdvance ==
  ASSUME TypeInv, NEW r \in Requests, Announced(r), NEW w \in Tx, Advance(r, w),
         feed \subseteq feed',
         \A a \in w.alerts : a.req = r /\ Published(a) /\ a.item <= item[r]
  PROVE  Announced(r)'
<1> USE DEF TypeInv, TypeOK
<1>1. tx'[r] = w /\ mark'[r] = w /\ pc'[r] \notin {"alerts", "deliver"}
  BY DEF Advance
<1>2. \A a \in w.alerts : Published(a)'
  BY DEF Published
<1>3. \A a \in w.alerts : a.item < item'[r] \/ pc'[r] \in {"respond", "commit"}
  <2>1. item[r] \in Nat /\ \A a \in w.alerts : a.item \in Nat
    BY DEF Tx, Alert
  <2>2. CASE item[r] < Len(Items[r])
    <3>1. item'[r] = item[r] + 1
      BY <2>2 DEF Advance
    <3>2. QED
      BY <2>1, <3>1
  <2>3. CASE ~(item[r] < Len(Items[r]))
    BY <2>3 DEF Advance
  <2>4. QED
    BY <2>2, <2>3
<1>4. QED
  BY <1>1, <1>2, <1>3 DEF Announced

(* An alert is raised for a rule that has no alert of this item yet, and    *)
(* whatever is announced next is that one.                                  *)
LEMMA AnnouncedOfRaise ==
  ASSUME TypeInv, NEW r \in Requests, Announced(r), NEW k \in Rules, RaiseAlert(r, k)
  PROVE  Announced(r)'
<1> USE DEF TypeInv, TypeOK
<1> DEFINE new == [req |-> r, item |-> item[r], rule |-> k, fk |-> k]
<1>1. /\ tx'[r].alerts = tx[r].alerts \cup {new}
      /\ mark'[r] = mark[r] /\ item'[r] = item[r] /\ todo'[r] = todo[r]
      /\ pc[r] = "alerts" /\ pc'[r] = "deliver" /\ k \in todo[r]
      /\ UNCHANGED feed
  BY DEF RaiseAlert, Tx
<1>2. new.req = r /\ new.item = item[r] /\ new.rule = k
  OBVIOUS
<1> HIDE DEF new
<1>3. \A a \in mark[r].alerts :
        /\ a.req = r /\ Published(a)' /\ a.item < item'[r]
  BY <1>1 DEF Announced, Published
<1>4. \A a \in tx[r].alerts : Published(a)' /\ (a.item = item[r] => a.rule \notin todo[r])
  BY <1>1 DEF Announced, Published
<1>5. \A a \in tx'[r].alerts :
        /\ Published(a)' \/ (a.item = item'[r] /\ a.rule = k)
        /\ a.item = item'[r] /\ a.rule \in todo'[r] => a.rule = k
  BY <1>1, <1>2, <1>4
<1>6. \A a \in tx'[r].alerts \ mark'[r].alerts : a.req = r /\ a.item = item'[r]
  BY <1>1, <1>2 DEF Announced
<1>7. mark'[r].alerts \subseteq tx'[r].alerts
  BY <1>1 DEF Announced
<1>8. QED
  BY <1>1, <1>3, <1>5, <1>6, <1>7 DEF Announced

LEMMA AnnouncedOfDeliver ==
  ASSUME TypeInv, NEW r \in Requests, Announced(r), Deliver(r)
  PROVE  Announced(r)'
<1> USE DEF TypeInv, TypeOK
<1>1. PICK a \in tx[r].alerts :
        /\ a.item = item[r] /\ a.rule \in todo[r]
        /\ feed' = feed \cup {<<r, item[r], a.rule>>}
        /\ todo' = [todo EXCEPT ![r] = @ \ {a.rule}]
  BY DEF Deliver
<1>2. PICK k \in todo[r] : \A b \in tx[r].alerts :
        /\ Published(b) \/ (b.item = item[r] /\ b.rule = k)
        /\ b.item = item[r] /\ b.rule \in todo[r] => b.rule = k
  BY DEF Deliver, Announced
<1>3. /\ pc'[r] = "alerts" /\ tx'[r] = tx[r] /\ mark'[r] = mark[r]
      /\ item'[r] = item[r] /\ a.rule = k /\ todo'[r] = todo[r] \ {k}
  BY <1>1, <1>2 DEF Deliver
<1>4. \A b \in tx[r].alerts : b.req = r
  BY DEF Announced
<1>5. \A b \in tx[r].alerts :
        Published(b)' /\ (b.item = item[r] => b.rule \notin todo'[r])
  BY <1>1, <1>2, <1>3, <1>4 DEF Published
<1>6. \A b \in mark[r].alerts : b.item < item[r]
  BY DEF Announced, Deliver
<1>7. QED
  BY <1>3, <1>4, <1>5, <1>6 DEF Announced

LEMMA AnnouncedOfOne ==
  ASSUME TypeInv, NEW r \in Requests, Course(r), Announced(r), Step(r) \/ Crash(r),
         feed \subseteq feed'
  PROVE  Announced(r)'
<1> USE DEF TypeInv, TypeOK
<1>0. \A b \in tx[r].alerts \cup mark[r].alerts : b.item \in Nat /\ item[r] \in Nat
  BY DEF Tx, Alert
<1>1. ASSUME Fails(r), pc[r] \in {"read", "write", "correlate", "alerts"}
      PROVE  Announced(r)'
  BY <1>1 DEF Fails, Announced, Published
<1>2. CASE RolledBack(r)
  BY <1>2 DEF RolledBack, Announced, EmptyTx
<1>3. ASSUME NEW row, Writes(r, row), pc[r] = "write" PROVE Announced(r)'
  <2>1. tx'[r].alerts = tx[r].alerts
    BY <1>3 DEF Writes, Tx
  <2>2. QED
    BY <1>3, <2>1 DEF Writes, Announced, Published
<1>4. CASE Begin(r) \/ Read(r) \/ LoadEngine(r) \/ Respond(r)
  BY <1>4 DEF Begin, Read, LoadEngine, Respond, Announced, Published
<1>5. CASE ActiveRules(r)
  <2>1. /\ tx'[r] = tx[r] /\ mark'[r] = mark[r] /\ item'[r] = item[r]
        /\ pc'[r] = "alerts" /\ pc[r] = "rules" /\ UNCHANGED feed
    BY <1>5 DEF ActiveRules
  <2>2. \A a \in tx[r].alerts :
          /\ a \in mark[r].alerts /\ Published(a)' /\ a.req = r /\ a.item < item[r]
    BY <2>1 DEF Course, Announced, Published
  <2>3. QED
    BY <1>0, <2>1, <2>2 DEF Announced
<1>6. CASE Correlate(r)
  <2>1. /\ tx'[r].alerts = tx[r].alerts /\ mark'[r] = mark[r] /\ item'[r] = item[r]
        /\ pc'[r] \in {"rules", "alerts"} /\ pc[r] = "correlate" /\ UNCHANGED feed
    BY <1>6 DEF Correlate, Tx
  <2>2. \A a \in tx[r].alerts :
          /\ a \in mark[r].alerts /\ Published(a)' /\ a.req = r /\ a.item < item[r]
    BY <2>1 DEF Course, Announced, Published
  <2>3. QED
    BY <1>0, <2>1, <2>2 DEF Announced
<1>7. CASE Commit(r)
  BY <1>7 DEF Commit, Announced, EmptyTx
<1>8. CASE Reject(r) \/ InsertConflict(r) \/ DeadlockVictim(r) \/ EdgeConflict(r)
             \/ \E k \in Rules : RuleGone(r, k)
  BY <1>1, <1>8
  DEF Reject, InsertConflict, DeadlockVictim, Deadlocked, Waits, EdgeConflict, RuleGone
<1>9. CASE Insert(r) \/ Update(r)
  BY <1>3, <1>9 DEF Insert, Update
<1>10. CASE NotFound(r) \/ Crash(r)
  BY <1>2, <1>10 DEF NotFound, Crash
<1>11. CASE Release(r)
  <2>1. tx[r] \in Tx /\ Advance(r, tx[r]) /\ pc[r] = "alerts"
    BY <1>11 DEF Release
  <2>2. \A a \in tx[r].alerts : a.req = r /\ Published(a) /\ a.item <= item[r]
    BY <1>0, <2>1 DEF Announced
  <2>3. QED
    BY <2>1, <2>2, AnnouncedOfAdvance
<1>12. CASE ItemFails(r)
  <2>1. CASE Batch(r)
    <3>1. mark[r] \in Tx /\ Advance(r, mark[r]) /\ pc[r] = "failing"
      BY <1>12, <2>1 DEF ItemFails
    <3>2. \A a \in mark[r].alerts : a.req = r /\ Published(a) /\ a.item <= item[r]
      BY <1>0, <3>1 DEF Announced
    <3>3. QED
      BY <3>1, <3>2, AnnouncedOfAdvance
  <2>2. CASE ~Batch(r)
    BY <1>2, <1>12, <2>2 DEF ItemFails
  <2>3. QED
    BY <2>1, <2>2
<1>13. QED
  BY <1>4, <1>5, <1>6, <1>7, <1>8, <1>9, <1>10, <1>11, <1>12,
     AnnouncedOfRaise, AnnouncedOfDeliver DEF Step

LEMMA InitAnnounced == Init => AllAnnounced
BY DEF Init, AllAnnounced, CommittedAlertsWerePublished, Announced, EmptyTx

LEMMA StepCommitted ==
  ASSUME TypeInv, OnCourse, AllAnnounced, [Next]_vars
  PROVE  CommittedAlertsWerePublished'
<1> USE DEF TypeInv, TypeOK
<1>1. feed \subseteq feed'
  BY FeedGrows
<1>2. ASSUME UNCHANGED alerts PROVE CommittedAlertsWerePublished'
  BY <1>1, <1>2 DEF AllAnnounced, CommittedAlertsWerePublished
<1>3. ASSUME NEW r \in Requests, Commit(r) PROVE CommittedAlertsWerePublished'
  <2>1. \A a \in tx[r].alerts : Published(a)
    BY <1>3 DEF Commit, OnCourse, Course, AllAnnounced, Announced
  <2>2. QED
    BY <1>1, <1>3, <2>1 DEF Commit, AllAnnounced, CommittedAlertsWerePublished, Published
<1>4. ASSUME NEW k \in Rules, DeleteRule(k) PROVE CommittedAlertsWerePublished'
  <2> SUFFICES ASSUME NEW a \in alerts'
               PROVE  <<a.req, a.item, a.rule>> \in feed'
    BY DEF CommittedAlertsWerePublished
  <2>1. PICK b \in alerts : a = IF b.fk = k THEN [b EXCEPT !.fk = Null] ELSE b
    BY <1>4 DEF DeleteRule
  <2>2. a.req = b.req /\ a.item = b.item /\ a.rule = b.rule
    BY <2>1 DEF Alert
  <2>3. QED
    BY <1>1, <2>2 DEF AllAnnounced, CommittedAlertsWerePublished
<1>5. ASSUME NEW r \in Requests, Step(r) \/ Crash(r), ~Commit(r) PROVE UNCHANGED alerts
  BY <1>5
  DEF Step, Crash, Begin, NotFound, Read, LoadEngine, Reject, Insert, InsertConflict,
      Update, DeadlockVictim, Correlate, EdgeConflict, ActiveRules, RaiseAlert, RuleGone,
      Deliver, Release, ItemFails, Respond, Fails, Writes
<1>6. QED
  BY <1>2, <1>3, <1>4, <1>5 DEF Next, Quiescent, CreateRule, vars

LEMMA StepAnnounced ==
  ASSUME TypeInv, OnCourse, AllAnnounced, [Next]_vars PROVE AllAnnounced'
<1> SUFFICES ASSUME NEW q \in Requests PROVE Announced(q)'
  BY StepCommitted DEF AllAnnounced
<1>0. feed \subseteq feed'
  BY FeedGrows
<1>1. ASSUME NEW r \in Requests, Step(r) \/ Crash(r) PROVE Announced(q)'
  BY <1>0, <1>1, StepOfOne, AnnouncedOfOne, AnnouncedOfSame DEF OnCourse, AllAnnounced
<1>2. CASE (\E k \in Rules : CreateRule(k) \/ DeleteRule(k)) \/ UNCHANGED vars
  <2>1. Same(q)
    BY <1>2 DEF CreateRule, DeleteRule, vars, Same
  <2>2. QED
    BY <1>0, <2>1, AnnouncedOfSame DEF AllAnnounced
<1>3. QED
  BY <1>1, <1>2 DEF Next, Quiescent

-----------------------------------------------------------------------------
(* Alerts that are stored stay, whatever becomes of their rule.             *)
LEMMA RaisedStays ==
  ASSUME TypeInv, [Next]_vars, NEW r, NEW i, NEW k, Raised(alerts, r, i, k)
  PROVE  Raised(alerts, r, i, k)'
<1> USE DEF TypeInv, TypeOK
<1>1. ASSUME alerts \subseteq alerts' PROVE Raised(alerts, r, i, k)'
  BY <1>1 DEF Raised
<1>2. ASSUME NEW q \in Requests, Step(q) \/ Crash(q) PROVE alerts \subseteq alerts'
  BY <1>2
  DEF Step, Crash, Begin, NotFound, Read, LoadEngine, Reject, Insert, InsertConflict,
      Update, DeadlockVictim, Correlate, EdgeConflict, ActiveRules, RaiseAlert, RuleGone,
      Deliver, Release, ItemFails, Respond, Commit, Fails, Writes
<1>3. ASSUME NEW l \in Rules, DeleteRule(l) PROVE Raised(alerts, r, i, k)'
  <2>1. PICK a \in alerts : a.req = r /\ a.item = i /\ a.rule = k
    BY DEF Raised
  <2> DEFINE b == IF a.fk = l THEN [a EXCEPT !.fk = Null] ELSE a
  <2>2. b \in alerts'
    <3>1. alerts' = {IF x.fk = l THEN [x EXCEPT !.fk = Null] ELSE x : x \in alerts}
      BY <1>3 DEF DeleteRule
    <3>2. QED
      BY <2>1, <3>1
  <2>3. b.req = r /\ b.item = i /\ b.rule = k
    BY <2>1 DEF Alert
  <2>4. QED
    BY <2>2, <2>3 DEF Raised
<1>4. QED
  BY <1>1, <1>2, <1>3 DEF Next, Quiescent, CreateRule, vars

(* Events of other requests are kept, for their items do not change.        *)
LEMMA KeptOfSame ==
  ASSUME TypeInv, [Next]_vars, NEW e \in feed, Kept(e), Same(e[1])
  PROVE  Kept(e)'
BY RaisedStays DEF Kept, Same, Raised

LEMMA KeptOfAdvance ==
  ASSUME TypeInv, NEW r \in Requests, Course(r), Announced(r), NEW w, Advance(r, w),
         pc[r] \in {"alerts", "failing"}, UNCHANGED outcome,
         NEW x \in {"imported", "failed"},
         status' = [status EXCEPT ![r][item[r]] = x],
         w = tx[r] \/ (w = mark[r] /\ x = "failed"),
         NEW e \in feed, e[1] = r, Kept(e)
  PROVE  Kept(e)'
<1> USE DEF TypeInv, TypeOK
<1>1. outcome[r] = "open" /\ e[2] \in DOMAIN Items[r] /\ tx'[r] = w
  BY DEF Course, Kept, Advance
<1>2. status'[r][e[2]] = IF e[2] = item[r] THEN x ELSE status[r][e[2]]
  BY <1>1
<1>3. CASE status[r][e[2]] = "failed"
  <2>1. e[2] # item[r]
    <3>1. item[r] >= item[r]
      OBVIOUS
    <3>2. QED
      BY <1>1, <1>3, <3>1 DEF Course
  <2>2. QED
    BY <1>1, <1>2, <1>3, <2>1 DEF Kept
<1>4. CASE Raised(tx[r].alerts, r, e[2], e[3])
  <2>1. CASE w = tx[r]
    BY <1>1, <1>4, <2>1 DEF Kept, Raised
  <2>2. CASE w = mark[r] /\ x = "failed"
    <3>1. PICK a \in tx[r].alerts : a.req = r /\ a.item = e[2] /\ a.rule = e[3]
      BY <1>4 DEF Raised
    <3>2. CASE a \in mark[r].alerts
      BY <1>1, <2>2, <3>1, <3>2 DEF Kept, Raised
    <3>3. CASE a \notin mark[r].alerts
      <4>1. e[2] = item[r]
        BY <3>1, <3>3 DEF Announced
      <4>2. QED
        BY <1>1, <1>2, <2>2, <4>1 DEF Kept
    <3>4. QED
      BY <3>2, <3>3
  <2>3. QED
    BY <2>1, <2>2
<1>5. QED
  BY <1>1, <1>3, <1>4 DEF Kept

LEMMA KeptOfOne ==
  ASSUME TypeInv, [Next]_vars, NEW r \in Requests, Course(r), Announced(r),
         Step(r) \/ Crash(r), NEW e \in feed, e[1] = r, Kept(e)
  PROVE  Kept(e)'
<1> USE DEF TypeInv, TypeOK
<1>1. ASSUME UNCHANGED <<status, outcome>>, tx[r].alerts \subseteq tx'[r].alerts
      PROVE  Kept(e)'
  <2>1. Raised(tx[r].alerts, r, e[2], e[3]) => Raised(tx'[r].alerts, r, e[2], e[3])
    BY <1>1 DEF Raised
  <2>2. Raised(alerts, r, e[2], e[3]) => Raised(alerts, r, e[2], e[3])'
    BY RaisedStays
  <2>3. Raised(tx[r].alerts, r, e[2], e[3])' <=> Raised(tx'[r].alerts, r, e[2], e[3])
    BY DEF Raised
  <2>4. QED
    BY <1>1, <2>1, <2>2, <2>3 DEF Kept
<1>2. ASSUME RolledBack(r), UNCHANGED status \/ status' = [status EXCEPT ![r][item[r]] = "failed"]
      PROVE  Kept(e)'
  <2>1. outcome'[r] = "rolledback" /\ e[2] \in DOMAIN Items[r]
    BY <1>2 DEF RolledBack, Kept
  <2>2. QED
    BY <2>1 DEF Kept
<1>3. CASE Commit(r)
  <2>1. /\ outcome'[r] = "committed" /\ UNCHANGED status
        /\ e[2] \in DOMAIN Items[r] /\ outcome[r] = "open"
    BY <1>3 DEF Commit, Course, Kept
  <2>2. Raised(tx[r].alerts, r, e[2], e[3]) => Raised(alerts, r, e[2], e[3])'
    BY <1>3 DEF Commit, Raised
  <2>3. QED
    BY <2>1, <2>2 DEF Kept
<1>4. CASE Fails(r)
  BY <1>1, <1>4 DEF Fails
<1>5. CASE \E row : Writes(r, row)
  BY <1>1, <1>5 DEF Writes, Tx
<1>6. CASE Begin(r) \/ Read(r) \/ LoadEngine(r) \/ Respond(r) \/ ActiveRules(r) \/ Deliver(r)
  BY <1>1, <1>6 DEF Begin, Read, LoadEngine, Respond, ActiveRules, Deliver
<1>7. CASE Correlate(r)
  BY <1>1, <1>7 DEF Correlate, Tx
<1>7a. ASSUME NEW k \in Rules, RaiseAlert(r, k) PROVE Kept(e)'
  <2>1. tx[r].alerts \subseteq tx'[r].alerts /\ UNCHANGED <<status, outcome>>
    BY <1>7a DEF RaiseAlert, Tx
  <2>2. QED
    BY <1>1, <2>1
<1>8. CASE Reject(r) \/ InsertConflict(r) \/ DeadlockVictim(r) \/ EdgeConflict(r)
             \/ \E k \in Rules : RuleGone(r, k)
  BY <1>4, <1>8 DEF Reject, InsertConflict, DeadlockVictim, EdgeConflict, RuleGone
<1>9. CASE Insert(r) \/ Update(r)
  BY <1>5, <1>9 DEF Insert, Update
<1>10. CASE NotFound(r) \/ Crash(r)
  BY <1>2, <1>10 DEF NotFound, Crash
<1>11. CASE Release(r)
  BY <1>11, KeptOfAdvance DEF Release
<1>12. CASE ItemFails(r)
  BY <1>2, <1>12, KeptOfAdvance DEF ItemFails
<1>13. QED
  BY <1>3, <1>6, <1>7, <1>7a, <1>8, <1>9, <1>10, <1>11, <1>12 DEF Step

(* A new event is of an alert that is in the transaction.                   *)
LEMMA NewIsKept ==
  ASSUME TypeInv, NEW r \in Requests, Course(r), Announced(r), Deliver(r),
         NEW e \in feed' \ feed
  PROVE  Kept(e)'
<1> USE DEF TypeInv, TypeOK
<1>1. PICK a \in tx[r].alerts : a.item = item[r] /\ feed' = feed \cup {<<r, item[r], a.rule>>}
  BY DEF Deliver
<1>2. /\ e = <<r, item[r], a.rule>> /\ a.req = r /\ UNCHANGED <<tx, outcome, item, status>>
      /\ outcome[r] = "open"
  BY <1>1 DEF Deliver, Announced, Course
<1>3. Raised(tx[r].alerts, r, item[r], a.rule)'
  BY <1>1, <1>2 DEF Raised
<1>4. QED
  BY <1>2, <1>3 DEF Kept

LEMMA StepVanished ==
  ASSUME TypeInv, OnCourse, AllAnnounced, NoneVanished, [Next]_vars PROVE NoneVanished'
<1> SUFFICES ASSUME NEW e \in feed' PROVE Kept(e)'
  BY DEF NoneVanished
<1> USE DEF TypeInv, TypeOK
<1>1. CASE e \in feed
  <2>1. e[1] \in Requests
    BY <1>1
  <2>2. ASSUME NEW r \in Requests, Step(r) \/ Crash(r) PROVE Kept(e)'
    BY <1>1, <2>1, <2>2, StepOfOne, KeptOfOne, KeptOfSame
    DEF OnCourse, AllAnnounced, NoneVanished
  <2>3. CASE (\E k \in Rules : CreateRule(k) \/ DeleteRule(k)) \/ UNCHANGED vars
    <3>1. Same(e[1])
      BY <2>3 DEF CreateRule, DeleteRule, vars, Same
    <3>2. QED
      BY <1>1, <3>1, KeptOfSame DEF NoneVanished
  <2>4. QED
    BY <2>2, <2>3 DEF Next, Quiescent
<1>2. CASE e \notin feed
  <2>1. ASSUME NEW r \in Requests, Step(r) \/ Crash(r), ~Deliver(r) PROVE UNCHANGED feed
    BY <2>1
    DEF Step, Crash, Begin, NotFound, Read, LoadEngine, Reject, Insert, InsertConflict,
        Update, DeadlockVictim, Correlate, EdgeConflict, ActiveRules, RaiseAlert, RuleGone,
        Release, ItemFails, Respond, Commit, Fails, Writes
  <2>2. PICK r \in Requests : Deliver(r)
    BY <1>2, <2>1 DEF Next, Quiescent, CreateRule, DeleteRule, vars
  <2>3. QED
    BY <1>2, <2>2, NewIsKept DEF OnCourse, AllAnnounced
<1>3. QED
  BY <1>1, <1>2

-----------------------------------------------------------------------------
LEMMA SteadyActive ==
  ASSUME TypeInv, [Next]_vars, NEW q \in Requests, Heeded(q)
  PROVE  \A k \in steady'[q] : rules'[k] = "active"
<1> USE DEF TypeInv, TypeOK
<1>1. ASSUME steady'[q] \subseteq steady[q], UNCHANGED rules
      PROVE  \A k \in steady'[q] : rules'[k] = "active"
  BY <1>1 DEF Heeded
<1>2. ASSUME NEW r \in Requests, Step(r) \/ Crash(r)
      PROVE  \A k \in steady'[q] : rules'[k] = "active"
  <2>1. CASE q # r
    BY <1>1, <1>2, <2>1, StepOfOne
  <2>2. ASSUME Begin(r), q = r PROVE \A k \in steady'[q] : rules'[k] = "active"
    BY <2>2 DEF Begin
  <2>3. CASE ~Begin(r)
    <3>1. UNCHANGED <<steady, rules>>
      BY <1>2, <2>3
      DEF Step, Crash, NotFound, Read, LoadEngine, Reject, Insert, InsertConflict,
          Update, DeadlockVictim, Correlate, EdgeConflict, ActiveRules, RaiseAlert,
          RuleGone, Deliver, Release, ItemFails, Respond, Commit, Fails, Writes
    <3>2. QED
      BY <1>1, <3>1
  <2>4. QED
    BY <2>1, <2>2, <2>3
<1>3. ASSUME NEW l \in Rules, CreateRule(l) PROVE \A k \in steady'[q] : rules'[k] = "active"
  BY <1>3 DEF CreateRule, Heeded
<1>4. ASSUME NEW l \in Rules, DeleteRule(l) PROVE \A k \in steady'[q] : rules'[k] = "active"
  BY <1>4 DEF DeleteRule, Heeded
<1>5. QED
  BY <1>1, <1>2, <1>3, <1>4 DEF Next, Quiescent, vars

(* What Heeded says of one rule.                                            *)
HeedsBehind(r, k) ==
  \A i \in DOMAIN Items[r] : status[r][i] = "imported" =>
    /\ outcome[r] = "open" => Raised(mark[r].alerts, r, i, k)
    /\ outcome[r] = "committed" => Raised(alerts, r, i, k)

HeedsNow(r, k) ==
  pc[r] \in {"alerts", "deliver"} =>
    k \in todo[r] \/ Raised(tx[r].alerts, r, item[r], k)

LEMMA HeededParts ==
  ASSUME NEW r, Heeded(r), EvaluatesAlerts(r), NEW k \in steady[r], Always(k)
  PROVE  HeedsBehind(r, k) /\ HeedsNow(r, k)
BY DEF Heeded, HeedsBehind, HeedsNow

LEMMA HeedsOfSame ==
  ASSUME TypeInv, [Next]_vars, NEW q \in Requests, NEW k, Same(q),
         HeedsBehind(q, k), HeedsNow(q, k)
  PROVE  (HeedsBehind(q, k) /\ HeedsNow(q, k))'
BY RaisedStays DEF HeedsBehind, HeedsNow, Same, Raised

(* The current item is never one that is reported yet.                      *)
LEMMA HeedsOfRelease ==
  ASSUME TypeInv, NEW r \in Requests, Course(r), Announced(r), Release(r), NEW k,
         HeedsBehind(r, k), HeedsNow(r, k)
  PROVE  (HeedsBehind(r, k) /\ HeedsNow(r, k))'
<1> USE DEF TypeInv, TypeOK
<1>1. /\ outcome'[r] = "open" /\ outcome[r] = "open" /\ mark'[r] = tx[r]
      /\ pc'[r] \notin {"alerts", "deliver"}
      /\ status' = [status EXCEPT ![r][item[r]] = "imported"]
      /\ pc[r] = "alerts" /\ todo[r] = {}
  BY DEF Release, Advance, Course
<1>2. \A i \in DOMAIN Items[r] :
        status'[r][i] = IF i = item[r] THEN "imported" ELSE status[r][i]
  BY <1>1
<1>3. Raised(tx[r].alerts, r, item[r], k)
  BY <1>1 DEF HeedsNow
<1>4. \A i \in DOMAIN Items[r] : status[r][i] = "imported" =>
        Raised(tx[r].alerts, r, i, k)
  <2>1. mark[r].alerts \subseteq tx[r].alerts
    BY DEF Announced
  <2>2. QED
    <3>1. ASSUME NEW i \in DOMAIN Items[r], status[r][i] = "imported"
          PROVE  Raised(tx[r].alerts, r, i, k)
      <4>1. Raised(mark[r].alerts, r, i, k)
        BY <1>1, <3>1 DEF HeedsBehind
      <4>2. QED
        BY <2>1, <4>1 DEF Raised
    <3>2. QED
      BY <3>1
<1>5. \A i \in DOMAIN Items[r] : status'[r][i] = "imported" =>
        Raised(tx[r].alerts, r, i, k)
  BY <1>2, <1>3, <1>4
<1>6. \A i \in DOMAIN Items[r] :
        Raised(mark[r].alerts, r, i, k)' <=> Raised(tx[r].alerts, r, i, k)
  BY <1>1 DEF Raised
<1>7. QED
  BY <1>1, <1>5, <1>6 DEF HeedsBehind, HeedsNow

LEMMA HeedsOfFailure ==
  ASSUME TypeInv, NEW r \in Requests, Course(r), ItemFails(r), NEW k,
         HeedsBehind(r, k)
  PROVE  (HeedsBehind(r, k) /\ HeedsNow(r, k))'
<1> USE DEF TypeInv, TypeOK
<1>1. /\ outcome[r] = "open" /\ pc'[r] \notin {"alerts", "deliver"}
      /\ status' = [status EXCEPT ![r][item[r]] = "failed"]
      /\ outcome'[r] = "rolledback" \/ (outcome'[r] = "open" /\ mark'[r] = mark[r])
  BY DEF ItemFails, Advance, RolledBack, Course
<1>2. \A i \in DOMAIN Items[r] : status'[r][i] = "imported" => status[r][i] = "imported"
  BY <1>1
<1>3. QED
  BY <1>1, <1>2 DEF HeedsBehind, HeedsNow, Raised

LEMMA HeedsOfOne ==
  ASSUME TypeInv, [Next]_vars, NEW r \in Requests, Course(r), Announced(r),
         Step(r) \/ Crash(r), ~Begin(r), EvaluatesAlerts(r),
         NEW k \in steady[r], rules[k] = "active", Always(k),
         HeedsBehind(r, k), HeedsNow(r, k)
  PROVE  (HeedsBehind(r, k) /\ HeedsNow(r, k))'
<1> USE DEF TypeInv, TypeOK
<1>1. ASSUME UNCHANGED <<status, outcome, mark>> PROVE HeedsBehind(r, k)'
  <2>1. \A i \in DOMAIN Items[r] : Raised(alerts, r, i, k) => Raised(alerts, r, i, k)'
    BY RaisedStays
  <2>2. \A i \in DOMAIN Items[r] :
          Raised(mark[r].alerts, r, i, k)' <=> Raised(mark[r].alerts, r, i, k)
    BY <1>1 DEF Raised
  <2>3. QED
    BY <1>1, <2>1, <2>2 DEF HeedsBehind
<1>2. ASSUME UNCHANGED <<status, outcome, mark>>, pc'[r] \notin {"alerts", "deliver"}
      PROVE  (HeedsBehind(r, k) /\ HeedsNow(r, k))'
  BY <1>1, <1>2 DEF HeedsNow
<1>3. ASSUME RolledBack(r), UNCHANGED status
      PROVE  (HeedsBehind(r, k) /\ HeedsNow(r, k))'
  BY <1>3 DEF RolledBack, HeedsBehind, HeedsNow
<1>4. CASE Read(r) \/ LoadEngine(r) \/ Respond(r) \/ Fails(r) \/ \E row : Writes(r, row)
  BY <1>2, <1>4 DEF Read, LoadEngine, Respond, Fails, Writes
<1>5. CASE Correlate(r)
  BY <1>2, <1>5 DEF Correlate
<1>6. CASE ActiveRules(r)
  <2>1. MatchesRule(k, score[r]) /\ k \in Rules
    BY DEF Always
  <2>2. k \in todo'[r]
    BY <1>6, <2>1 DEF ActiveRules
  <2>3. UNCHANGED <<status, outcome, mark>>
    BY <1>6 DEF ActiveRules
  <2>4. QED
    BY <1>1, <2>2, <2>3 DEF HeedsNow
<1>7. ASSUME NEW l \in Rules, RaiseAlert(r, l)
      PROVE  (HeedsBehind(r, k) /\ HeedsNow(r, k))'
  <2>1. /\ UNCHANGED <<status, outcome, mark, todo, item>> /\ pc[r] = "alerts"
        /\ tx[r].alerts \subseteq tx'[r].alerts
    BY <1>7 DEF RaiseAlert, Tx
  <2>2. HeedsNow(r, k)'
    BY <2>1 DEF HeedsNow, Raised
  <2>3. QED
    BY <1>1, <2>1, <2>2
<1>8. CASE Deliver(r)
  <2>1. PICK a \in tx[r].alerts : a.item = item[r] /\ todo' = [todo EXCEPT ![r] = @ \ {a.rule}]
    BY <1>8 DEF Deliver
  <2>2. UNCHANGED <<status, outcome, mark, tx, item>> /\ pc[r] = "deliver" /\ a.req = r
    BY <1>8, <2>1 DEF Deliver, Announced
  <2>3. CASE a.rule = k
    <3>1. Raised(tx[r].alerts, r, item[r], k)'
      BY <2>1, <2>2, <2>3 DEF Raised
    <3>2. QED
      BY <1>1, <2>2, <3>1 DEF HeedsNow
  <2>4. CASE a.rule # k
    <3>1. k \in todo[r] => k \in todo'[r]
      BY <2>1, <2>4
    <3>2. QED
      BY <1>1, <2>2, <3>1 DEF HeedsNow, Raised
  <2>5. QED
    BY <2>3, <2>4
<1>9. CASE Commit(r)
  <2>1. /\ outcome'[r] = "committed" /\ outcome[r] = "open" /\ UNCHANGED status
        /\ pc'[r] = "done" /\ alerts' = alerts \cup mark[r].alerts
    BY <1>9 DEF Commit, Course
  <2>2. \A i : Raised(mark[r].alerts, r, i, k) => Raised(alerts, r, i, k)'
    BY <2>1 DEF Raised
  <2>3. QED
    BY <2>1, <2>2 DEF HeedsBehind, HeedsNow
<1>10. CASE Reject(r) \/ InsertConflict(r) \/ DeadlockVictim(r) \/ EdgeConflict(r)
              \/ \E l \in Rules : RuleGone(r, l)
  BY <1>4, <1>10 DEF Reject, InsertConflict, DeadlockVictim, EdgeConflict, RuleGone
<1>11. CASE Insert(r) \/ Update(r)
  BY <1>4, <1>11 DEF Insert, Update
<1>12. CASE NotFound(r) \/ Crash(r)
  BY <1>3, <1>12 DEF NotFound, Crash
<1>13. QED
  BY <1>4, <1>5, <1>6, <1>7, <1>8, <1>9, <1>10, <1>11, <1>12,
     HeedsOfRelease, HeedsOfFailure DEF Step

LEMMA InitHeeded == Init => AllHeeded
BY DEF Init, AllHeeded, Heeded

LEMMA StepHeeded ==
  ASSUME TypeInv, OnCourse, AllAnnounced, AllHeeded, [Next]_vars PROVE AllHeeded'
<1> SUFFICES ASSUME NEW q \in Requests PROVE Heeded(q)'
  BY DEF AllHeeded
<1> USE DEF TypeInv, TypeOK
<1>1. \A k \in steady'[q] : rules'[k] = "active"
  BY SteadyActive DEF AllHeeded
<1>2. SUFFICES ASSUME EvaluatesAlerts(q), NEW k \in steady'[q], Always(k)
               PROVE  (HeedsBehind(q, k) /\ HeedsNow(q, k))'
  BY <1>1 DEF Heeded, HeedsBehind, HeedsNow, EvaluatesAlerts, Always, MatchesRule
<1>3. ASSUME Same(q), steady'[q] \subseteq steady[q]
      PROVE  (HeedsBehind(q, k) /\ HeedsNow(q, k))'
  <2>1. HeedsBehind(q, k) /\ HeedsNow(q, k)
    BY <1>2, <1>3, HeededParts DEF AllHeeded
  <2>2. QED
    BY <1>3, <2>1, HeedsOfSame
<1>4. ASSUME NEW r \in Requests, Step(r) \/ Crash(r)
      PROVE  (HeedsBehind(q, k) /\ HeedsNow(q, k))'
  <2>1. CASE q # r
    BY <1>3, <1>4, <2>1, StepOfOne
  <2>2. CASE q = r /\ Begin(r)
    <3>1. \A i \in DOMAIN Items[q] : status'[q][i] # "imported"
      <4>1. outcome[q] = "open" /\ item[q] = 1 /\ pc[q] = "idle" /\ UNCHANGED status
        BY <2>2 DEF Begin, OnCourse, Course
      <4>2. \A i \in DOMAIN Items[q] : i >= 1
        BY IngestAssumption
      <4>3. QED
        BY <4>1, <4>2 DEF OnCourse, Course
    <3>2. QED
      BY <2>2, <3>1 DEF Begin, HeedsBehind, HeedsNow
  <2>3. CASE q = r /\ ~Begin(r)
    <3>1. UNCHANGED steady
      BY <1>4, <2>3
      DEF Step, Crash, NotFound, Read, LoadEngine, Reject, Insert, InsertConflict,
          Update, DeadlockVictim, Correlate, EdgeConflict, ActiveRules, RaiseAlert,
          RuleGone, Deliver, Release, ItemFails, Respond, Commit, Fails, Writes
    <3>2. k \in steady[q]
      BY <1>2, <3>1
    <3>3. HeedsBehind(q, k) /\ HeedsNow(q, k) /\ rules[k] = "active"
      BY <1>2, <3>2, HeededParts DEF AllHeeded, Heeded
    <3>4. QED
      BY <1>2, <1>4, <2>3, <3>2, <3>3, HeedsOfOne DEF OnCourse, AllAnnounced
  <2>4. QED
    BY <2>1, <2>2, <2>3
<1>5. CASE (\E l \in Rules : CreateRule(l) \/ DeleteRule(l)) \/ UNCHANGED vars
  <2>1. Same(q) /\ steady'[q] \subseteq steady[q]
    BY <1>5 DEF CreateRule, DeleteRule, vars, Same
  <2>2. QED
    BY <1>3, <2>1
<1>6. QED
  BY <1>4, <1>5 DEF Next, Quiescent

-----------------------------------------------------------------------------
(* Counting.  The entries of a transaction are counted item by item, those  *)
(* of the audit log when it commits.                                        *)
LEMMA DoneFinite ==
  ASSUME TypeInv, NEW r \in Requests, NEW v
  PROVE  IsFiniteSet(DoneFor(r, v)) /\ Cardinality(DoneFor(r, v)) \in Nat
<1>1. Items[r] \in Seq(Values)
  BY IngestAssumption
<1>2. IsFiniteSet(1..Len(Items[r])) /\ DoneFor(r, v) \in SUBSET (1..Len(Items[r]))
  BY <1>1, FS_Interval DEF DoneFor
<1>3. QED
  BY <1>2, FS_Subset, FS_CardinalityType

LEMMA DoneOfRelease ==
  ASSUME TypeInv, NEW r \in Requests, Course(r), pc[r] = "alerts", NEW v,
         status' = [status EXCEPT ![r][item[r]] = "imported"]
  PROVE  Cardinality(DoneFor(r, v))' =
           Cardinality(DoneFor(r, v)) + IF v = Value(r) THEN 1 ELSE 0
<1> USE DEF TypeInv, TypeOK
<1>1. item[r] \in DOMAIN Items[r] /\ status[r][item[r]] = "pending"
  <2>1. item[r] >= item[r]
    OBVIOUS
  <2>2. QED
    BY <2>1 DEF Course
<1>2. \A i \in DOMAIN Items[r] :
        status'[r][i] = IF i = item[r] THEN "imported" ELSE status[r][i]
  OBVIOUS
<1>3. item[r] \notin DoneFor(r, v)
  BY <1>1 DEF DoneFor
<1>4. DoneFor(r, v)' = IF v = Value(r) THEN DoneFor(r, v) \cup {item[r]} ELSE DoneFor(r, v)
  BY <1>1, <1>2 DEF DoneFor, Value
<1>5. IsFiniteSet(DoneFor(r, v)) /\ Cardinality(DoneFor(r, v)) \in Nat
  BY DoneFinite
<1>6. Cardinality(DoneFor(r, v) \cup {item[r]}) = Cardinality(DoneFor(r, v)) + 1
  BY <1>3, <1>5, FS_AddElement
<1>7. Cardinality(DoneFor(r, v))' = Cardinality(DoneFor(r, v)')
  OBVIOUS
<1>8. QED
  BY <1>4, <1>5, <1>6, <1>7

LEMMA ReportedOfSame ==
  ASSUME NEW q \in Requests, Reported(q), Same(q) PROVE Reported(q)'
<1>1. \A v \in Values : DoneFor(q, v)' = DoneFor(q, v)
  BY DEF Same, DoneFor
<1>2. \A v \in Values : Cardinality(DoneFor(q, v))' = Cardinality(DoneFor(q, v))
  BY <1>1
<1>3. \A v \in Values : Entered(q, v)' = Entered(q, v)
  BY DEF Same, Entered, Value
<1>4. QED
  BY <1>2, <1>3 DEF Reported, Same

(* A step that leaves the transaction's audit entries, its SAVEPOINT and    *)
(* its report alone.                                                        *)
LEMMA ReportedOfQuiet ==
  ASSUME NEW r \in Requests, Reported(r), UNCHANGED <<status, mark, item, outcome>>,
         tx'[r].audits = tx[r].audits,
         \/ pc'[r] = "failing"
         \/ pc[r] # "failing" /\
              (pc'[r] \in {"rules", "alerts", "deliver"} <=>
                 pc[r] \in {"rules", "alerts", "deliver"})
  PROVE  Reported(r)'
<1>1. \A v \in Values : Cardinality(DoneFor(r, v))' = Cardinality(DoneFor(r, v))
  BY DEF DoneFor
<1>2. pc'[r] # "failing" =>
        pc[r] # "failing" /\ \A v \in Values : Entered(r, v)' = Entered(r, v)
  BY DEF Entered, Value
<1>3. QED
  BY <1>1, <1>2 DEF Reported

LEMMA ReportedOfOver ==
  ASSUME NEW r, outcome'[r] # "open" PROVE Reported(r)'
BY DEF Reported

LEMMA ReportedOfCorrelate ==
  ASSUME TypeInv, NEW r \in Requests, Reported(r), Correlate(r)
  PROVE  Reported(r)'
<1> USE DEF TypeInv, TypeOK
<1>1. /\ UNCHANGED <<status, mark, item, outcome>> /\ pc[r] = "correlate"
      /\ pc'[r] \in {"rules", "alerts"} /\ Value(r) \in Values
  BY ValueType DEF Correlate
<1>2. \A v \in Values :
        tx'[r].audits[v] = tx[r].audits[v] + IF v = Value(r) THEN 1 ELSE 0
  <2>1. tx[r] \in Tx
    OBVIOUS
  <2>2. tx'[r] = [tx[r] EXCEPT !.audits = [tx[r].audits EXCEPT ![Value(r)] = @ + 1]]
    BY DEF Correlate
  <2>3. tx'[r].audits = [tx[r].audits EXCEPT ![Value(r)] = @ + 1]
    BY <2>1, <2>2 DEF Tx
  <2>4. tx[r].audits \in [Values -> Nat]
    BY <2>1 DEF Tx
  <2>5. QED
    BY <2>3, <2>4
<1>3. \A v \in Values :
        /\ Entered(r, v) = 0
        /\ Entered(r, v)' = IF v = Value(r) THEN 1 ELSE 0
  BY <1>1 DEF Entered, Value
<1>4. \A v \in Values : Cardinality(DoneFor(r, v))' = Cardinality(DoneFor(r, v))
  BY <1>1 DEF DoneFor
<1>5. \A v \in Values : mark[r].audits[v] \in Nat /\ tx[r].audits[v] \in Nat
  BY DEF Tx
<1>6. QED
  BY <1>1, <1>2, <1>3, <1>4, <1>5 DEF Reported

LEMMA ReportedOfRelease ==
  ASSUME TypeInv, NEW r \in Requests, Course(r), Reported(r), Release(r)
  PROVE  Reported(r)'
<1> USE DEF TypeInv, TypeOK
<1>1. /\ outcome[r] = "open" /\ mark'[r] = tx[r] /\ tx'[r] = tx[r] /\ pc[r] = "alerts"
      /\ pc'[r] \notin {"rules", "alerts", "deliver"}
      /\ status' = [status EXCEPT ![r][item[r]] = "imported"]
  BY DEF Release, Advance, Course
<1> SUFFICES ASSUME NEW v \in Values
             PROVE  /\ tx[r].audits[v] = Cardinality(DoneFor(r, v))'
                    /\ Entered(r, v)' = 0
  <2>1. tx[r].audits \in [Values -> Nat]
    BY DEF Tx
  <2>2. QED
    BY <1>1, <2>1 DEF Reported
<1>2. Entered(r, v)' = 0
  BY <1>1 DEF Entered
<1>3. Entered(r, v) = IF v = Value(r) THEN 1 ELSE 0
  BY <1>1 DEF Entered
<1>4. tx[r].audits[v] = Cardinality(DoneFor(r, v)) + Entered(r, v)
  BY <1>1 DEF Reported
<1>5. Cardinality(DoneFor(r, v))' =
        Cardinality(DoneFor(r, v)) + IF v = Value(r) THEN 1 ELSE 0
  BY <1>1, DoneOfRelease
<1>6. QED
  BY <1>2, <1>3, <1>4, <1>5

LEMMA ReportedOfFailure ==
  ASSUME TypeInv, NEW r \in Requests, Course(r), Reported(r), ItemFails(r)
  PROVE  Reported(r)'
<1> USE DEF TypeInv, TypeOK
<1>1. CASE ~Batch(r)
  BY <1>1, ReportedOfOver DEF ItemFails, RolledBack
<1>2. CASE Batch(r)
  <2>1. /\ outcome[r] = "open" /\ mark'[r] = mark[r] /\ tx'[r] = mark[r] /\ pc[r] = "failing"
        /\ pc'[r] \notin {"rules", "alerts", "deliver"}
        /\ status' = [status EXCEPT ![r][item[r]] = "failed"]
    BY <1>2 DEF ItemFails, Advance, Course
  <2>2. item[r] \in DOMAIN Items[r] /\ status[r][item[r]] = "pending"
    <3>1. item[r] >= item[r]
      OBVIOUS
    <3>2. QED
      BY <2>1, <3>1 DEF Course
  <2>3. \A i \in DOMAIN Items[r] :
          status'[r][i] = IF i = item[r] THEN "failed" ELSE status[r][i]
    BY <2>1
  <2>4. \A v \in Values : DoneFor(r, v)' = DoneFor(r, v)
    <3>1. \A i \in DOMAIN Items[r] :
            status'[r][i] = "imported" <=> status[r][i] = "imported"
      BY <2>2, <2>3
    <3>2. ASSUME NEW v \in Values PROVE DoneFor(r, v)' = DoneFor(r, v)
      BY <3>1 DEF DoneFor
    <3>3. QED
      BY <3>2
  <2>5. \A v \in Values : Cardinality(DoneFor(r, v))' = Cardinality(DoneFor(r, v))
    BY <2>4
  <2>6. \A v \in Values : Entered(r, v)' = 0 /\ mark[r].audits[v] \in Nat
    BY <2>1 DEF Entered, Tx
  <2>7. QED
    BY <2>1, <2>5, <2>6 DEF Reported
<1>3. QED
  BY <1>1, <1>2

LEMMA ReportedOfOne ==
  ASSUME TypeInv, NEW r \in Requests, Course(r), Reported(r), Step(r) \/ Crash(r)
  PROVE  Reported(r)'
<1> USE DEF TypeInv, TypeOK
<1>1. CASE Fails(r)
  BY <1>1, ReportedOfQuiet DEF Fails
<1>2. CASE RolledBack(r) \/ Commit(r)
  BY <1>2, ReportedOfOver DEF RolledBack, Commit
<1>3. ASSUME NEW row, Writes(r, row), pc[r] = "write" PROVE Reported(r)'
  <2>1. tx'[r].audits = tx[r].audits
    BY <1>3 DEF Writes, Tx
  <2>2. QED
    BY <1>3, <2>1, ReportedOfQuiet DEF Writes
<1>4. CASE Begin(r) \/ LoadEngine(r)
  BY <1>4, ReportedOfQuiet DEF Begin, LoadEngine
<1>5. CASE Read(r)
  BY <1>5, ReportedOfQuiet DEF Read
<1>6. CASE ActiveRules(r) \/ Respond(r) \/ Deliver(r)
  BY <1>6, ReportedOfQuiet DEF ActiveRules, Respond, Deliver
<1>7. ASSUME NEW k \in Rules, RaiseAlert(r, k) PROVE Reported(r)'
  <2>1. tx'[r].audits = tx[r].audits
    BY <1>7 DEF RaiseAlert, Tx
  <2>2. QED
    BY <1>7, <2>1, ReportedOfQuiet DEF RaiseAlert
<1>8. CASE Reject(r) \/ InsertConflict(r) \/ DeadlockVictim(r) \/ EdgeConflict(r)
             \/ \E k \in Rules : RuleGone(r, k)
  BY <1>1, <1>8 DEF Reject, InsertConflict, DeadlockVictim, EdgeConflict, RuleGone
<1>9. CASE Insert(r) \/ Update(r)
  BY <1>3, <1>9 DEF Insert, Update
<1>10. CASE NotFound(r) \/ Crash(r)
  BY <1>2, <1>10 DEF NotFound, Crash
<1>11. QED
  BY <1>2, <1>4, <1>5, <1>6, <1>7, <1>8, <1>9, <1>10,
     ReportedOfCorrelate, ReportedOfRelease, ReportedOfFailure DEF Step

LEMMA ImportedIs ==
  ASSUME NEW v, NEW p
  PROVE  p \in Imported(v) <=>
           \E r \in Requests : \E i \in DOMAIN Items[r] :
             /\ p = <<r, i>>
             /\ outcome[r] = "committed" /\ i \in DoneFor(r, v)
<1>1. p \in UNION {{r} \X DOMAIN Items[r] : r \in Requests} <=>
        \E r \in Requests : \E i \in DOMAIN Items[r] : p = <<r, i>>
  OBVIOUS
<1>2. QED
  BY <1>1 DEF Imported, DoneFor

(* As many pairs as items.                                                  *)
LEMMA PairsCounted ==
  ASSUME NEW r, NEW S, IsFiniteSet(S)
  PROVE  IsFiniteSet({r} \X S) /\ Cardinality({r} \X S) = Cardinality(S)
<1> DEFINE f == [i \in S |-> <<r, i>>]
<1>1. f \in Bijection(S, {r} \X S)
  <2>1. f \in [S -> {r} \X S]
    OBVIOUS
  <2>2. \A i, j \in S : f[i] = f[j] => i = j
    OBVIOUS
  <2>3. \A p \in {r} \X S : \E i \in S : f[i] = p
    OBVIOUS
  <2> HIDE DEF f
  <2>4. QED
    BY <2>1, <2>2, <2>3 DEF Bijection, Injection, Surjection, IsInjective
<1>2. ExistsBijection(S, {r} \X S)
  BY <1>1 DEF ExistsBijection
<1>3. QED
  BY <1>2, FS_Bijection

(* The audit log counts a finite set of items, those reported as imported.  *)
Matches(v) ==
  /\ IsFiniteSet(Imported(v))
  /\ audits[v] = Cardinality(Stored \cap {v}) + Cardinality(Imported(v))

AllMatch == \A v \in Values : Matches(v)

LEMMA DisjointCount ==
  ASSUME NEW S, NEW T, IsFiniteSet(S), IsFiniteSet(T), S \cap T = {},
         Cardinality(S) \in Nat, Cardinality(T) \in Nat
  PROVE  /\ IsFiniteSet(S \cup T)
         /\ Cardinality(S \cup T) = Cardinality(S) + Cardinality(T)
<1>1. Cardinality(S \cap T) = 0
  BY FS_EmptySet
<1>2. Cardinality(S \cup T) = Cardinality(S) + Cardinality(T) - Cardinality(S \cap T)
  BY FS_Union
<1>3. QED
  BY <1>1, <1>2, FS_Union

LEMMA InitMatches == Init => AllMatch /\ \A r \in Requests : Reported(r)
<1> SUFFICES ASSUME Init PROVE AllMatch /\ \A r \in Requests : Reported(r)
  OBVIOUS
<1>1. ASSUME NEW v \in Values PROVE Matches(v)
  <2>1. Imported(v) = {}
    BY ImportedIs DEF Init
  <2>2. Cardinality(Stored \cap {v}) = IF v \in Stored THEN 1 ELSE 0
    <3>1. Stored \cap {v} = IF v \in Stored THEN {v} ELSE {}
      OBVIOUS
    <3>2. QED
      BY <3>1, FS_Singleton, FS_EmptySet
  <2>3. QED
    BY <2>1, <2>2, FS_EmptySet DEF Init, Matches
<1>2. ASSUME NEW r \in Requests PROVE Reported(r)
  <2>1. \A v \in Values : DoneFor(r, v) = {}
    BY DEF Init, DoneFor
  <2>2. \A v \in Values : mark[r].audits[v] = 0 /\ tx[r].audits[v] = 0 /\ Entered(r, v) = 0
    BY DEF Init, EmptyTx, Entered
  <2>3. QED
    BY <2>1, <2>2, FS_EmptySet DEF Reported
<1>3. QED
  BY <1>1, <1>2 DEF AllMatch

(* Only a commit turns what a request reports into entries of the log.      *)
LEMMA MatchesOfOthers ==
  ASSUME TypeInv, NEW v \in Values, Matches(v), UNCHANGED audits,
         \A q \in Requests :
           \/ Same(q)
           \/ outcome[q] # "committed" /\ outcome'[q] # "committed"
  PROVE  Matches(v)'
<1>1. ASSUME NEW p PROVE p \in Imported(v)' <=> p \in Imported(v)
  <2>1. p \in Imported(v)' <=>
          \E r \in Requests : \E i \in DOMAIN Items[r] :
            /\ p = <<r, i>>
            /\ outcome'[r] = "committed" /\ i \in DoneFor(r, v)'
    <3>1. p \in UNION {{r} \X DOMAIN Items[r] : r \in Requests} <=>
            \E r \in Requests : \E i \in DOMAIN Items[r] : p = <<r, i>>
      OBVIOUS
    <3>2. QED
      BY <3>1 DEF Imported, DoneFor
  <2>2. \A q \in Requests : outcome'[q] = "committed" <=> outcome[q] = "committed"
    BY DEF Same
  <2>3. \A q \in Requests : outcome[q] = "committed" => DoneFor(q, v)' = DoneFor(q, v)
    BY <2>2 DEF Same, DoneFor
  <2>4. QED
    BY <2>1, <2>2, <2>3, ImportedIs
<1>2. Imported(v)' = Imported(v)
  BY <1>1
<1>3. QED
  BY <1>2 DEF Matches

LEMMA MatchesOfCommit ==
  ASSUME TypeInv, OnCourse, NEW r \in Requests, Reported(r), Commit(r),
         NEW v \in Values, Matches(v)
  PROVE  Matches(v)'
<1> USE DEF TypeInv, TypeOK
<1>1. /\ outcome' = [outcome EXCEPT ![r] = "committed"] /\ outcome[r] = "open"
      /\ UNCHANGED status /\ pc[r] = "commit" /\ tx[r] = mark[r]
      /\ audits'[v] = audits[v] + tx[r].audits[v]
  BY DEF Commit, OnCourse, Course
<1>2. tx[r].audits[v] = Cardinality(DoneFor(r, v))
  BY <1>1 DEF Reported
<1> DEFINE new == {r} \X DoneFor(r, v)
<1>3. Imported(v)' = Imported(v) \cup new
  <2>1. ASSUME NEW p PROVE p \in Imported(v)' <=> p \in Imported(v) \cup new
    <3>1. p \in Imported(v)' <=>
            \E q \in Requests : \E i \in DOMAIN Items[q] :
              /\ p = <<q, i>>
              /\ outcome'[q] = "committed" /\ i \in DoneFor(q, v)
      <4>1. p \in UNION {{q} \X DOMAIN Items[q] : q \in Requests} <=>
              \E q \in Requests : \E i \in DOMAIN Items[q] : p = <<q, i>>
        OBVIOUS
      <4>2. QED
        BY <1>1, <4>1 DEF Imported, DoneFor
    <3>2. \A q \in Requests :
            outcome'[q] = "committed" <=> q = r \/ outcome[q] = "committed"
      BY <1>1
    <3>3. DoneFor(r, v) \subseteq DOMAIN Items[r]
      BY DEF DoneFor
    <3>4. p \in new <=> \E i \in DOMAIN Items[r] : p = <<r, i>> /\ i \in DoneFor(r, v)
      BY <3>3
    <3>5. QED
      BY <3>1, <3>2, <3>4, ImportedIs
  <2>2. QED
    BY <2>1
<1>4. Imported(v) \cap new = {}
  <2>1. \A p \in Imported(v) : p[1] # r
    BY <1>1, ImportedIs
  <2>2. QED
    BY <2>1
<1>5. /\ IsFiniteSet(DoneFor(r, v)) /\ Cardinality(DoneFor(r, v)) \in Nat
      /\ IsFiniteSet(Imported(v)) /\ Cardinality(Imported(v)) \in Nat
      /\ IsFiniteSet(Stored \cap {v}) /\ Cardinality(Stored \cap {v}) \in Nat
  <2>1. IsFiniteSet({v})
    BY FS_Singleton
  <2>2. IsFiniteSet(Stored \cap {v})
    BY <2>1, FS_Subset
  <2>3. QED
    BY <2>2, DoneFinite, FS_CardinalityType DEF Matches
<1>6. IsFiniteSet(new) /\ Cardinality(new) = Cardinality(DoneFor(r, v))
  BY <1>5, PairsCounted
<1> HIDE DEF new
<1>7. /\ IsFiniteSet(Imported(v) \cup new)
      /\ Cardinality(Imported(v) \cup new) = Cardinality(Imported(v)) + Cardinality(new)
  BY <1>4, <1>5, <1>6, DisjointCount
<1>8. audits[v] = Cardinality(Stored \cap {v}) + Cardinality(Imported(v))
  BY DEF Matches
<1>9. audits'[v] = Cardinality(Stored \cap {v}) + Cardinality(Imported(v) \cup new)
  BY <1>1, <1>2, <1>5, <1>6, <1>7, <1>8
<1>10. QED
  BY <1>3, <1>7, <1>9 DEF Matches

LEMMA StepMatches ==
  ASSUME TypeInv, OnCourse, AllMatch, \A r \in Requests : Reported(r), [Next]_vars
  PROVE  AllMatch' /\ \A r \in Requests : Reported(r)'
<1> USE DEF TypeInv, TypeOK
<1>1. ASSUME \A q \in Requests : Same(q), UNCHANGED audits
      PROVE  AllMatch' /\ \A r \in Requests : Reported(r)'
  BY <1>1, MatchesOfOthers, ReportedOfSame DEF AllMatch
<1>2. ASSUME NEW r \in Requests, Step(r) \/ Crash(r)
      PROVE  AllMatch' /\ \A q \in Requests : Reported(q)'
  <2>1. \A q \in Requests : Reported(q)'
    BY <1>2, StepOfOne, ReportedOfSame, ReportedOfOne DEF OnCourse
  <2>2. CASE Commit(r)
    <3>1. ASSUME NEW v \in Values PROVE Matches(v)'
      BY <2>2, MatchesOfCommit DEF AllMatch
    <3>2. QED
      BY <2>1, <3>1 DEF AllMatch
  <2>3. CASE ~Commit(r)
    <3>1. UNCHANGED audits
      BY <1>2, <2>3
      DEF Step, Crash, Begin, NotFound, Read, LoadEngine, Reject, Insert, InsertConflict,
          Update, DeadlockVictim, Correlate, EdgeConflict, ActiveRules, RaiseAlert,
          RuleGone, Deliver, Release, ItemFails, Respond, Fails, Writes
    <3>2. outcome[r] = "open" /\ outcome'[r] # "committed"
      <4>1. pc[r] # "done" /\ outcome[r] = "open"
        <5>1. pc[r] # "done"
          BY <1>2
          DEF Step, Crash, Begin, NotFound, Read, LoadEngine, Reject, Insert, InsertConflict,
              Update, DeadlockVictim, Deadlocked, Waits, Correlate, EdgeConflict, ActiveRules,
              RaiseAlert, RuleGone, Deliver, Release, ItemFails, Respond, Commit
        <5>2. QED
          BY <5>1 DEF OnCourse, Course
      <4>2. outcome'[r] = outcome[r] \/ outcome'[r] = "rolledback"
        BY <1>2, <2>3
        DEF Step, Crash, Begin, NotFound, Read, LoadEngine, Reject, Insert, InsertConflict,
            Update, DeadlockVictim, Correlate, EdgeConflict, ActiveRules, RaiseAlert,
            RuleGone, Deliver, Release, ItemFails, Respond, Fails, Writes, RolledBack
      <4>3. QED
        BY <4>1, <4>2
    <3>3. \A q \in Requests : Same(q) \/ (outcome[q] # "committed" /\ outcome'[q] # "committed")
      BY <1>2, <3>2, StepOfOne
    <3>4. QED
      BY <2>1, <3>1, <3>3, MatchesOfOthers DEF AllMatch
  <2>4. QED
    BY <2>1, <2>2, <2>3
<1>3. CASE (\E k \in Rules : CreateRule(k) \/ DeleteRule(k)) \/ UNCHANGED vars
  <2>1. (\A q \in Requests : Same(q)) /\ UNCHANGED audits
    BY <1>3 DEF CreateRule, DeleteRule, vars, Same
  <2>2. QED
    BY <1>1, <2>1
<1>4. QED
  BY <1>2, <1>3 DEF Next, Quiescent

-----------------------------------------------------------------------------
AlertInv ==
  /\ OnCourse
  /\ AllAnnounced /\ NoneVanished /\ AllHeeded
  /\ AllMatch /\ \A r \in Requests : Reported(r)

LEMMA AlertInvariant == Spec => [](TypeInv /\ AlertInv)
<1>1. Init => TypeInv /\ AlertInv
  <2>1. Init => NoneVanished
    BY DEF Init, NoneVanished
  <2>2. QED
    BY <2>1, InitType, InitCourse, InitAnnounced, InitHeeded, InitMatches DEF AlertInv
<1>2. TypeInv /\ AlertInv /\ [Next]_vars => (TypeInv /\ AlertInv)'
  BY StepType, StepLoaded, StepEngine, StepCourse, StepAnnounced, StepVanished,
     StepHeeded, StepMatches DEF TypeInv, AlertInv
<1>3. QED
  BY <1>1, <1>2, PTL DEF Spec

(* Whatever fails, crashes or is deleted meanwhile, no alert is stored that *)
(* was not pushed to the live feed before.                                  *)
THEOREM CommittedWerePublished == Spec => []CommittedAlertsWerePublished
BY AlertInvariant, PTL DEF AlertInv, AllAnnounced

(* An alert that was pushed and is not stored was of an item that is        *)
(* reported as failed, or of a request that has not committed.              *)
THEOREM PhantomsRolledBack == Spec => []PhantomsAreRolledBack
<1>1. TypeInv /\ AlertInv => PhantomsAreRolledBack
  <2> SUFFICES ASSUME TypeInv, AlertInv, NEW e \in feed,
                      status[e[1]][e[2]] # "failed", outcome[e[1]] = "committed"
               PROVE  \E a \in alerts : <<a.req, a.item, a.rule>> = e
    BY DEF PhantomsAreRolledBack
  <2>1. Raised(alerts, e[1], e[2], e[3])
    BY DEF AlertInv, NoneVanished, Kept
  <2>2. e \in Requests \X Nat \X Rules
    BY DEF TypeInv, TypeOK
  <2>3. e = <<e[1], e[2], e[3]>>
    BY <2>2
  <2>4. QED
    BY <2>1, <2>3 DEF Raised
<1>2. QED
  BY <1>1, AlertInvariant, PTL

(* Every item reported as imported by a request that evaluates alerts has   *)
(* an alert for each rule that was active all along and matches any score.  *)
THEOREM ImportsEvaluated == Spec => []EveryImportIsEvaluated
<1>1. TypeInv /\ AlertInv => EveryImportIsEvaluated
  BY DEF AlertInv, AllHeeded, Heeded, EveryImportIsEvaluated, Raised, Always
<1>2. QED
  BY <1>1, AlertInvariant, PTL

(* The audit log has exactly one entry for every item that a committed      *)
(* request reports as imported, for any number of overlapping requests.     *)
THEOREM AuditMatches == Spec => []AuditMatchesReport
<1>1. AlertInv => AuditMatchesReport
  BY DEF AlertInv, AllMatch, Matches, AuditMatchesReport
<1>2. QED
  BY <1>1, AlertInvariant, PTL

-----------------------------------------------------------------------------
(* The own sightings of a request: writes t count at least the submissions  *)
(* that they audit.                                                         *)
Counts(t, v, pending) ==
  t.rows[v] # Null => t.audits[v] + pending <= t.rows[v].sightings

(* The copy a request has loaded counts what it has written before, and it  *)
(* inserts only where it has written nothing.  Its alerts are of items that *)
(* it reports as imported.                                                  *)
OwnCounted(r) ==
  /\ pc[r] # "failing" => \A v \in Values : Counts(tx[r], v, Pending(r, v))
  /\ \A v \in Values : Counts(mark[r], v, 0)
  /\ pc[r] \in {"engine", "read", "write"} /\ loaded[r] # Null =>
       tx[r].audits[Value(r)] <= loaded[r].sightings
  /\ pc[r] = "write" /\ loaded[r] = Null => tx[r].rows[Value(r)] = Null

AlertsReported(r) ==
  \A a \in mark[r].alerts :
    a.item \in DOMAIN Items[r] /\ status[r][a.item] = "imported"

OwnInv == \A r \in Requests : OwnCounted(r) /\ AlertsReported(r)

LEMMA InitOwn == Init => OwnInv
<1> SUFFICES ASSUME Init, NEW r \in Requests PROVE OwnCounted(r) /\ AlertsReported(r)
  BY DEF OwnInv
<1>1. pc[r] = "idle" /\ tx[r] = EmptyTx /\ mark[r] = EmptyTx
  BY DEF Init
<1>2. QED
  BY <1>1 DEF OwnCounted, AlertsReported, Counts, EmptyTx

(* Another request leaves all this alone.                                   *)
LEMMA LoadedOfOthers ==
  ASSUME TypeInv, NEW r \in Requests, Step(r) \/ Crash(r),
         NEW q \in Requests, q # r
  PROVE  loaded'[q] = loaded[q]
<1> USE DEF TypeInv, TypeOK
<1>1. CASE Begin(r) \/ Read(r) \/ LoadEngine(r) \/ ActiveRules(r) \/ Respond(r)
             \/ Correlate(r) \/ Deliver(r) \/ Commit(r) \/ \E k \in Rules : RaiseAlert(r, k)
  BY <1>1 DEF Begin, Read, LoadEngine, ActiveRules, Respond, Correlate, Deliver, Commit,
              RaiseAlert
<1>2. CASE Reject(r) \/ InsertConflict(r) \/ DeadlockVictim(r) \/ EdgeConflict(r)
             \/ \E k \in Rules : RuleGone(r, k)
  BY <1>2 DEF Reject, InsertConflict, DeadlockVictim, EdgeConflict, RuleGone, Fails
<1>3. CASE Insert(r) \/ Update(r)
  BY <1>3 DEF Insert, Update, Writes
<1>4. CASE NotFound(r) \/ Crash(r) \/ Release(r) \/ ItemFails(r)
  BY <1>4 DEF NotFound, Crash, Release, ItemFails, RolledBack, Advance
<1>5. QED
  BY <1>1, <1>2, <1>3, <1>4 DEF Step

LEMMA OwnOfSame ==
  ASSUME NEW q \in Requests, Same(q), loaded'[q] = loaded[q],
         OwnCounted(q), AlertsReported(q)
  PROVE  OwnCounted(q)' /\ AlertsReported(q)'
<1>1. Value(q)' = Value(q)
  BY DEF Same, Value
<1>2. \A v \in Values : Pending(q, v)' = Pending(q, v)
  BY <1>1 DEF Same, Pending
<1>3. QED
  BY <1>1, <1>2 DEF Same, OwnCounted, AlertsReported, Counts

(* The rows of w count what w audits, and the next item starts from w.      *)
LEMMA OwnOfAdvance ==
  ASSUME TypeInv, NEW r \in Requests, NEW w \in Tx, Advance(r, w),
         \A v \in Values : Counts(w, v, 0)
  PROVE  OwnCounted(r)'
<1>1. /\ pc'[r] \in {"read", "commit", "respond"}
      /\ tx'[r] = w /\ mark'[r] = w /\ loaded'[r] = Null
  BY DEF Advance, TypeInv, TypeOK
<1>2. QED
  BY <1>1 DEF OwnCounted, Counts, Pending

LEMMA OwnOfOver ==
  ASSUME NEW r \in Requests, pc'[r] = "done", tx'[r] = EmptyTx, mark'[r] = EmptyTx
  PROVE  OwnCounted(r)' /\ AlertsReported(r)'
BY DEF OwnCounted, AlertsReported, Counts, EmptyTx

LEMMA OwnOfWrites ==
  ASSUME TypeInv, NEW r \in Requests, NEW row \in Row, OwnCounted(r), Writes(r, row),
         pc[r] = "write", tx[r].audits[Value(r)] + 1 <= row.sightings
  PROVE  OwnCounted(r)'
<1> USE DEF TypeInv, TypeOK
<1>1. PICK u \in Values : u = Value(r)
  BY ValueType
<1>2. /\ pc'[r] = "correlate" /\ mark'[r] = mark[r] /\ Value(r)' = u
  BY <1>1 DEF Writes, Value
<1>3. /\ tx'[r].audits = tx[r].audits
      /\ tx'[r].rows = [tx[r].rows EXCEPT ![u] = row]
      /\ tx[r].rows \in [Values -> Row \cup {Null}] /\ tx[r].audits \in [Values -> Nat]
  BY <1>1 DEF Writes, Tx
<1>4. ASSUME NEW v \in Values PROVE Counts(tx[r], v, Pending(r, v))'
  <2>1. CASE v = u
    BY <1>1, <1>2, <1>3, <2>1 DEF Counts, Pending
  <2>2. CASE v # u
    <3>1. Pending(r, v) = 0 /\ Pending(r, v)' = 0
      BY <1>2, <2>2 DEF Pending
    <3>2. Counts(tx[r], v, 0)
      BY <3>1 DEF OwnCounted
    <3>3. QED
      BY <1>3, <2>2, <3>1, <3>2 DEF Counts
  <2>3. QED
    BY <2>1, <2>2
<1>5. QED
  BY <1>2, <1>4 DEF OwnCounted, Counts

(* An update writes a row with one sighting more than the copy it loaded.   *)
LEMMA UpdateWrites ==
  ASSUME TypeInv, NEW r \in Requests, Update(r)
  PROVE  \E row \in Row : Writes(r, row) /\ row.sightings = loaded[r].sightings + 1
<1> DEFINE now == Visible(r, Value(r))
<1>1. loaded[r] \in Row /\ pc[r] = "write" /\ loaded[r] # Null /\ score[r] \in Scores
  BY DEF Update, TypeInv, TypeOK
<1>2. now \in Row
  BY <1>1, ValueType, VisibleType DEF TypeInv, LoadedExists
<1>3. PICK rewritten \in BOOLEAN :
        Writes(r, [sightings |-> loaded[r].sightings + 1,
                   score     |-> IF score[r] = loaded[r].score THEN now.score ELSE score[r],
                   explained |-> IF rewritten THEN score[r] ELSE now.explained])
  BY DEF Update
<1>4. now.score \in Scores /\ now.explained \in Scores
  BY <1>2 DEF Row
<1> HIDE DEF now
<1>5. PICK s \in Scores, e \in Scores :
        Writes(r, [sightings |-> loaded[r].sightings + 1, score |-> s, explained |-> e])
  BY <1>1, <1>3, <1>4
<1> DEFINE row == [sightings |-> loaded[r].sightings + 1, score |-> s, explained |-> e]
<1>6. row \in Row
  BY <1>1 DEF Row
<1>7. QED
  BY <1>5, <1>6

(* Each step of a request counts its own sightings.                         *)
LEMMA OwnOfOne ==
  ASSUME TypeInv, NEW r \in Requests, Sound(r), OwnCounted(r), Step(r) \/ Crash(r)
  PROVE  OwnCounted(r)'
<1> USE DEF TypeInv, TypeOK
<1>0. PICK u \in Values : u = Value(r)
  BY ValueType
<1>1. tx[r] \in Tx /\ mark[r] \in Tx
  OBVIOUS
<1>2. CASE Fails(r)
  <2>1. pc'[r] = "failing" /\ mark'[r] = mark[r]
    BY <1>2 DEF Fails
  <2>2. QED
    BY <2>1 DEF OwnCounted, Counts
<1>3. CASE RolledBack(r)
  BY <1>3, OwnOfOver DEF RolledBack
<1>4. CASE Begin(r)
  <2>1. /\ tx[r] = EmptyTx /\ tx'[r] = EmptyTx /\ mark'[r] = mark[r]
        /\ pc'[r] \in {"engine", "read"} /\ loaded'[r] \in {ioc[u], Null} /\ Value(r)' = u
    BY <1>0, <1>4 DEF Begin, Sound, Value
  <2>2. ioc[u] # Null => ioc[u].sightings \in Nat
    BY DEF Row
  <2>3. QED
    BY <2>1, <2>2 DEF OwnCounted, Counts, Pending, EmptyTx
<1>5. CASE Read(r)
  <2>1. /\ pc[r] = "read" /\ pc'[r] \in {"engine", "write"}
        /\ loaded'[r] = IF loaded[r] # Null THEN loaded[r] ELSE Visible(r, u)
        /\ tx'[r] = tx[r] /\ mark'[r] = mark[r] /\ Value(r)' = u
    BY <1>0, <1>5 DEF Read, Value
  <2>2. /\ \A v \in Values : Counts(tx[r], v, 0)
        /\ TxSound(tx[r], u, 0)
    BY <2>1 DEF OwnCounted, Sound, Pending
  <2>3. tx[r].audits[u] \in Nat /\ (ioc[u] # Null => ioc[u].sightings \in Nat)
    BY DEF Tx, Row
  <2>4. Visible(r, u) # Null => tx[r].audits[u] <= Visible(r, u).sightings
    BY <2>2, <2>3 DEF Visible, Counts, TxSound
  <2>5. Visible(r, u) = Null => tx[r].rows[u] = Null
    BY DEF Visible
  <2>6. QED
    BY <1>0, <2>1, <2>2, <2>4, <2>5 DEF OwnCounted, Counts, Pending
<1>6. CASE LoadEngine(r)
  <2>1. /\ pc[r] = "engine" /\ pc'[r] \in {"read", "write"}
        /\ tx'[r] = tx[r] /\ mark'[r] = mark[r] /\ Value(r)' = u
    BY <1>0, <1>6 DEF LoadEngine, Value
  <2>2. loaded[r] \in Row /\ loaded[r] # Null
    BY <1>6, IngestAssumption DEF LoadEngine, EngineOfLoaded
  <2>3. loaded'[r] = [loaded[r] EXCEPT !.explained = Visible(r, u).explained]
    BY <1>0, <1>6, LoadEngineType
  <2>4. loaded'[r].sightings = loaded[r].sightings /\ loaded'[r] # Null
    <3>1. Visible(r, u) # Null
      BY <1>0, <2>1, <2>2 DEF LoadedExists
    <3>2. Visible(r, u) \in Row
      BY <1>0, <3>1, VisibleType
    <3>3. loaded'[r] \in Row /\ loaded'[r].sightings = loaded[r].sightings
      BY <2>2, <2>3, <3>2 DEF Row
    <3>4. QED
      BY <3>3, IngestAssumption
  <2>5. QED
    BY <1>0, <2>1, <2>2, <2>4 DEF OwnCounted, Counts, Pending
<1>7. CASE Insert(r)
  <2> DEFINE row == [sightings |-> 1, score |-> score[r], explained |-> score[r]]
  <2>1. row \in Row
    BY DEF Row
  <2>2. pc[r] = "write" /\ tx[r].rows[Value(r)] = Null
    BY <1>7 DEF Insert, OwnCounted
  <2>3. tx[r].audits[Value(r)] = 0
    BY <1>0, <2>2 DEF Sound, TxSound, Pending
  <2>4. QED
    BY <1>7, <2>1, <2>2, <2>3, OwnOfWrites DEF Insert
<1>8. CASE Update(r)
  <2>1. loaded[r] \in Row /\ pc[r] = "write" /\ loaded[r] # Null
    BY <1>8 DEF Update
  <2>2. PICK row \in Row : Writes(r, row) /\ row.sightings = loaded[r].sightings + 1
    BY <1>8, UpdateWrites
  <2>3. tx[r].audits[u] <= loaded[r].sightings /\ tx[r].audits[u] \in Nat
    BY <1>0, <2>1 DEF OwnCounted, Tx
  <2>4. tx[r].audits[u] + 1 <= row.sightings
    BY <2>1, <2>2, <2>3 DEF Row
  <2>5. QED
    BY <1>0, <2>1, <2>2, <2>4, OwnOfWrites
<1>9. CASE Correlate(r)
  <2>1. /\ pc[r] = "correlate" /\ pc'[r] \in {"rules", "alerts"} /\ mark'[r] = mark[r]
        /\ tx'[r].rows = tx[r].rows
        /\ tx'[r].audits = [tx[r].audits EXCEPT ![u] = @ + 1]
        /\ tx[r].audits \in [Values -> Nat]
    BY <1>0, <1>1, <1>9 DEF Correlate, Tx
  <2>2. ASSUME NEW v \in Values PROVE Counts(tx[r], v, 0)'
    <3>1. Counts(tx[r], v, Pending(r, v))
      BY <2>1 DEF OwnCounted
    <3>2. tx'[r].audits[v] + 0 = tx[r].audits[v] + Pending(r, v)
      BY <1>0, <2>1 DEF Pending
    <3>3. QED
      BY <2>1, <3>1, <3>2 DEF Counts
  <2>3. QED
    BY <2>1, <2>2 DEF OwnCounted, Counts, Pending
<1>10. CASE ActiveRules(r) \/ Deliver(r) \/ Respond(r) \/ \E k \in Rules : RaiseAlert(r, k)
  <2>1. /\ pc[r] \in {"rules", "alerts", "deliver", "respond"}
        /\ pc'[r] \in {"alerts", "deliver", "commit"} /\ mark'[r] = mark[r]
        /\ tx'[r].rows = tx[r].rows /\ tx'[r].audits = tx[r].audits
    BY <1>1, <1>10 DEF ActiveRules, Deliver, Respond, RaiseAlert, Tx
  <2>2. QED
    BY <2>1 DEF OwnCounted, Counts, Pending
<1>11. CASE Release(r)
  <2>1. \A v \in Values : Counts(tx[r], v, 0)
    BY <1>11 DEF Release, OwnCounted, Pending
  <2>2. QED
    BY <1>1, <1>11, <2>1, OwnOfAdvance DEF Release
<1>12. CASE ItemFails(r)
  <2>1. \A v \in Values : Counts(mark[r], v, 0)
    BY DEF OwnCounted
  <2>2. QED
    BY <1>1, <1>3, <1>12, <2>1, OwnOfAdvance DEF ItemFails
<1>13. CASE Commit(r)
  BY <1>13, OwnOfOver DEF Commit
<1>14. QED
  BY <1>2, <1>3, <1>4, <1>5, <1>6, <1>7, <1>8, <1>9, <1>10, <1>11, <1>12, <1>13
  DEF Step, Crash, NotFound, Reject, InsertConflict, DeadlockVictim, EdgeConflict, RuleGone

(* ... and the alerts at its SAVEPOINT are of imported items.               *)
LEMMA AlertsOfOne ==
  ASSUME TypeInv, NEW r \in Requests, Announced(r), AlertsReported(r), Step(r) \/ Crash(r)
  PROVE  AlertsReported(r)'
<1> USE DEF TypeInv, TypeOK
<1>1. CASE mark'[r] = mark[r] /\ status'[r] = status[r]
  BY <1>1 DEF AlertsReported
<1>2. CASE mark'[r] = EmptyTx
  BY <1>2 DEF AlertsReported, EmptyTx
<1>3. ASSUME pc[r] \in {"alerts", "failing"} PROVE \A a \in mark[r].alerts : a.item # item[r]
  <2>1. mark[r].alerts \subseteq Alert /\ item[r] \in Nat
    BY DEF Tx
  <2>2. \A a \in Alert : a.item \in Nat
    BY DEF Alert
  <2>3. \A a \in mark[r].alerts : a.item < item[r]
    BY <1>3 DEF Announced
  <2>4. QED
    BY <2>1, <2>2, <2>3
<1>4. CASE Release(r)
  <2>1. /\ mark'[r] = tx[r] /\ pc[r] = "alerts"
        /\ status' = [status EXCEPT ![r][item[r]] = "imported"]
    BY <1>4 DEF Release, Advance
  <2>2. \A a \in tx[r].alerts : a \in mark[r].alerts \/ a.item = item[r]
    BY DEF Announced
  <2>3. QED
    BY <1>3, <2>1, <2>2 DEF AlertsReported
<1>5. CASE ItemFails(r) /\ Batch(r)
  <2>1. /\ mark'[r] = mark[r] /\ pc[r] = "failing"
        /\ status' = [status EXCEPT ![r][item[r]] = "failed"]
    BY <1>5 DEF ItemFails, Advance
  <2>2. QED
    BY <1>3, <2>1 DEF AlertsReported
<1>6. CASE Begin(r) \/ Read(r) \/ LoadEngine(r) \/ ActiveRules(r) \/ Respond(r)
             \/ Correlate(r) \/ Deliver(r) \/ \E k \in Rules : RaiseAlert(r, k)
  BY <1>1, <1>6 DEF Begin, Read, LoadEngine, ActiveRules, Respond, Correlate, Deliver,
                    RaiseAlert
<1>7. CASE Reject(r) \/ InsertConflict(r) \/ DeadlockVictim(r) \/ EdgeConflict(r)
             \/ \E k \in Rules : RuleGone(r, k)
  BY <1>1, <1>7 DEF Reject, InsertConflict, DeadlockVictim, EdgeConflict, RuleGone, Fails
<1>8. CASE Insert(r) \/ Update(r)
  BY <1>1, <1>8 DEF Insert, Update, Writes
<1>9. CASE NotFound(r) \/ Crash(r) \/ Commit(r) \/ (ItemFails(r) /\ ~Batch(r))
  BY <1>2, <1>9 DEF NotFound, Crash, Commit, ItemFails, RolledBack
<1>10. QED
  BY <1>4, <1>5, <1>6, <1>7, <1>8, <1>9 DEF Step

LEMMA StepOwn ==
  ASSUME TypeInv, Ledger, AllAnnounced, OwnInv, [Next]_vars PROVE OwnInv'
<1>1. ASSUME NEW r \in Requests, Step(r) \/ Crash(r) PROVE OwnInv'
  <2>1. OwnCounted(r)' /\ AlertsReported(r)'
    BY <1>1, OwnOfOne, AlertsOfOne DEF Ledger, AllAnnounced, OwnInv
  <2>2. ASSUME NEW q \in Requests, q # r PROVE OwnCounted(q)' /\ AlertsReported(q)'
    BY <1>1, <2>2, StepOfOne, LoadedOfOthers, OwnOfSame DEF OwnInv
  <2>3. QED
    BY <2>1, <2>2 DEF OwnInv
<1>2. CASE (\E k \in Rules : CreateRule(k) \/ DeleteRule(k)) \/ UNCHANGED vars
  <2>1. \A q \in Requests : Same(q) /\ loaded'[q] = loaded[q]
    BY <1>2 DEF CreateRule, DeleteRule, vars, Same
  <2>2. QED
    BY <2>1, OwnOfSame DEF OwnInv
<1>3. QED
  BY <1>1, <1>2 DEF Next, Quiescent

(* ... so that all of this holds in every reachable state.                  *)
LEMMA OwnInvariant == Spec => [](TypeInv /\ Ledger /\ AlertInv /\ OwnInv)
<1>1. Init => OwnInv
  BY InitOwn
<1>2. TypeInv /\ Ledger /\ AlertInv /\ OwnInv /\ [Next]_vars => OwnInv'
  BY StepOwn DEF AlertInv
<1>3. QED
  BY <1>1, <1>2, LedgerInvariant, AlertInvariant, PTL DEF Spec

-----------------------------------------------------------------------------
(* What NoneShared saves.  Writes t count every submission that is audited, *)
(* in the log or by t itself.                                               *)
CountsAll(t, v, pending) ==
  t.rows[v] # Null => t.rows[v].sightings = audits[v] + t.audits[v] + pending

Submits(r, v) == \E i \in DOMAIN Items[r] : Items[r][i] = v

(* A request writes only what it submits.                                   *)
Confined(r) ==
  \A v \in Values :
    tx[r].rows[v] # Null \/ mark[r].rows[v] # Null => Submits(r, v)

(* Its writes and the copy it has loaded count all there is to count.       *)
FullyCounted(r) ==
  /\ ~Open(r) => tx[r] = EmptyTx /\ mark[r] = EmptyTx
  /\ pc[r] # "failing" => \A v \in Values : CountsAll(tx[r], v, Pending(r, v))
  /\ \A v \in Values : CountsAll(mark[r], v, 0)
  /\ pc[r] \in {"engine", "read", "write"} /\ loaded[r] # Null =>
       loaded[r].sightings = audits[Value(r)] + tx[r].audits[Value(r)]

NothingLost == \A v \in Values : ioc[v] # Null => ioc[v].sightings = audits[v]

SerialInv == NothingLost /\ \A r \in Requests : Confined(r) /\ FullyCounted(r)

LEMMA InitSerial == Init => SerialInv
<1> SUFFICES ASSUME Init PROVE SerialInv
  OBVIOUS
<1>1. NothingLost
  BY DEF Init, NothingLost
<1>2. ASSUME NEW r \in Requests PROVE Confined(r) /\ FullyCounted(r)
  BY DEF Init, Confined, FullyCounted, CountsAll, EmptyTx
<1>3. QED
  BY <1>1, <1>2 DEF SerialInv

(* Only a commit moves what is committed.                                   *)
LEMMA OnlyCommitStores ==
  ASSUME NEW r \in Requests, Step(r) \/ Crash(r), ~Commit(r)
  PROVE  UNCHANGED <<ioc, audits>>
BY DEF Step, Crash, Begin, NotFound, Read, LoadEngine, Reject, Insert, InsertConflict,
       Update, DeadlockVictim, Correlate, EdgeConflict, ActiveRules, RaiseAlert, RuleGone,
       Deliver, Release, ItemFails, Respond, Fails, Writes

(* ... and moves only what the request submits.                             *)
LEMMA CommitConfined ==
  ASSUME TypeInv, NEW r \in Requests, Sound(r), Confined(r), Commit(r),
         NEW v \in Values, ~Submits(r, v)
  PROVE  audits'[v] = audits[v]
<1>1. tx[r].rows[v] = Null
  BY DEF Confined
<1>2. tx[r].audits[v] = 0
  BY <1>1 DEF Commit, Sound, TxSound
<1>3. audits'[v] = audits[v] + 0 /\ audits[v] \in Nat
  BY <1>2 DEF Commit, TypeInv, TypeOK
<1>4. QED
  BY <1>3

LEMMA ValueSubmitted ==
  ASSUME TypeInv, NEW r \in Requests PROVE Submits(r, Value(r))
BY DEF TypeInv, TypeOK, Submits, Value

LEMMA FullOfSame ==
  ASSUME TypeInv, NEW q \in Requests, Same(q), loaded'[q] = loaded[q],
         Confined(q), FullyCounted(q),
         \A v \in Values : Open(q) /\ Submits(q, v) => audits'[v] = audits[v]
  PROVE  Confined(q)' /\ FullyCounted(q)'
<1>1. /\ Value(q)' = Value(q) /\ Open(q)' = Open(q)
      /\ \A v \in Values : Pending(q, v)' = Pending(q, v) /\ Submits(q, v)' = Submits(q, v)
  BY DEF Same, Value, Open, Pending, Submits
<1>2. Confined(q)'
  BY <1>1 DEF Same, Confined
<1>3. CASE ~Open(q)
  <2>1. /\ tx'[q] = EmptyTx /\ mark'[q] = EmptyTx
        /\ pc'[q] \notin {"engine", "read", "write"}
    BY <1>3 DEF Same, FullyCounted, Open
  <2>2. QED
    BY <1>2, <2>1 DEF FullyCounted, CountsAll, EmptyTx
<1>4. CASE Open(q)
  <2>1. \A v \in Values : tx[q].rows[v] # Null \/ mark[q].rows[v] # Null
                            => audits'[v] = audits[v]
    BY <1>4 DEF Confined
  <2>2. audits'[Value(q)] = audits[Value(q)]
    BY <1>4, ValueSubmitted, ValueType DEF TypeInv
  <2>3. QED
    BY <1>1, <1>2, <1>4, <2>1, <2>2 DEF Same, FullyCounted, CountsAll
<1>5. QED
  BY <1>3, <1>4

LEMMA FullOfAdvance ==
  ASSUME TypeInv, NEW r \in Requests, NEW w \in Tx, Advance(r, w), UNCHANGED audits,
         \A v \in Values : CountsAll(w, v, 0)
  PROVE  FullyCounted(r)'
<1>1. /\ pc'[r] \in {"read", "commit", "respond"}
      /\ tx'[r] = w /\ mark'[r] = w /\ loaded'[r] = Null
  BY DEF Advance, TypeInv, TypeOK
<1>2. QED
  BY <1>1 DEF FullyCounted, CountsAll, Pending, Open

LEMMA FullOfOver ==
  ASSUME NEW r \in Requests, pc'[r] = "done", tx'[r] = EmptyTx, mark'[r] = EmptyTx
  PROVE  Confined(r)' /\ FullyCounted(r)'
BY DEF Confined, FullyCounted, CountsAll, EmptyTx

LEMMA FullOfWrites ==
  ASSUME TypeInv, NEW r \in Requests, NEW row \in Row, FullyCounted(r), Writes(r, row),
         pc[r] = "write", row.sightings = audits[Value(r)] + tx[r].audits[Value(r)] + 1
  PROVE  FullyCounted(r)'
<1> USE DEF TypeInv, TypeOK
<1>1. PICK u \in Values : u = Value(r)
  BY ValueType
<1>2. /\ pc'[r] = "correlate" /\ mark'[r] = mark[r] /\ Value(r)' = u /\ audits' = audits
  BY <1>1 DEF Writes, Value
<1>3. /\ tx'[r].audits = tx[r].audits
      /\ tx'[r].rows = [tx[r].rows EXCEPT ![u] = row]
      /\ tx[r].rows \in [Values -> Row \cup {Null}]
  BY <1>1 DEF Writes, Tx
<1>4. ASSUME NEW v \in Values PROVE CountsAll(tx[r], v, Pending(r, v))'
  <2>1. CASE v = u
    BY <1>1, <1>2, <1>3, <2>1 DEF CountsAll, Pending
  <2>2. CASE v # u
    <3>1. Pending(r, v) = 0 /\ Pending(r, v)' = 0
      BY <1>2, <2>2 DEF Pending
    <3>2. CountsAll(tx[r], v, 0)
      BY <3>1 DEF FullyCounted
    <3>3. QED
      BY <1>2, <1>3, <2>2, <3>1, <3>2 DEF CountsAll
  <2>3. QED
    BY <2>1, <2>2
<1>5. QED
  BY <1>2, <1>4 DEF FullyCounted, CountsAll, Open

LEMMA ConfinedOfOne ==
  ASSUME TypeInv, NEW r \in Requests, Confined(r), Step(r) \/ Crash(r)
  PROVE  Confined(r)'
<1> USE DEF TypeInv, TypeOK
<1>0. \A v \in Values : Submits(r, v)' = Submits(r, v)
  BY DEF Submits
<1>1. CASE tx'[r] \in {tx[r], mark[r], EmptyTx} /\ mark'[r] \in {tx[r], mark[r], EmptyTx}
  BY <1>0, <1>1 DEF Confined, EmptyTx
<1>2. CASE Begin(r) \/ Read(r) \/ LoadEngine(r) \/ ActiveRules(r) \/ Respond(r) \/ Fails(r)
  BY <1>1, <1>2 DEF Begin, Read, LoadEngine, ActiveRules, Respond, Fails
<1>3. CASE Commit(r) \/ RolledBack(r) \/ Release(r) \/ ItemFails(r)
  BY <1>1, <1>3 DEF Commit, RolledBack, Release, ItemFails, Advance
<1>4. CASE Correlate(r) \/ Deliver(r) \/ \E k \in Rules : RaiseAlert(r, k)
  <2>1. tx'[r].rows = tx[r].rows /\ mark'[r] = mark[r]
    BY <1>4 DEF Correlate, Deliver, RaiseAlert, Tx
  <2>2. QED
    BY <1>0, <2>1 DEF Confined
<1>5. CASE Insert(r) \/ Update(r)
  <2>1. PICK u \in Values : u = Value(r) /\ Submits(r, u)
    BY ValueType, ValueSubmitted
  <2>2. mark'[r] = mark[r] /\ \A v \in Values \ {u} : tx'[r].rows[v] = tx[r].rows[v]
    BY <1>5, <2>1 DEF Insert, Update, Writes, Tx
  <2>3. QED
    BY <1>0, <2>1, <2>2 DEF Confined
<1>6. QED
  BY <1>2, <1>3, <1>4, <1>5
  DEF Step, Crash, NotFound, Reject, InsertConflict, DeadlockVictim, EdgeConflict, RuleGone

(* Each step of a request counts all there is to count.                     *)
LEMMA FullOfOne ==
  ASSUME TypeInv, NEW r \in Requests, CommittedSound, NothingLost, Sound(r), OwnCounted(r),
         FullyCounted(r), Step(r) \/ Crash(r)
  PROVE  FullyCounted(r)'
<1> USE DEF TypeInv, TypeOK
<1>0. PICK u \in Values : u = Value(r)
  BY ValueType
<1>1. tx[r] \in Tx /\ mark[r] \in Tx
  OBVIOUS
<1>2. CASE Fails(r) /\ pc[r] \notin {"idle", "done"}
  <2>1. pc'[r] = "failing" /\ mark'[r] = mark[r] /\ audits' = audits
    BY <1>2 DEF Fails
  <2>2. QED
    BY <2>1 DEF FullyCounted, CountsAll, Open
<1>3. CASE RolledBack(r) \/ Commit(r)
  BY <1>3, FullOfOver DEF RolledBack, Commit
<1>4. CASE Begin(r)
  <2>1. /\ tx'[r] = EmptyTx /\ mark'[r] = EmptyTx /\ audits' = audits
        /\ pc'[r] \in {"engine", "read"} /\ loaded'[r] \in {ioc[u], Null} /\ Value(r)' = u
    BY <1>0, <1>4 DEF Begin, FullyCounted, Open, Value
  <2>2. ioc[u] # Null => ioc[u].sightings = audits[u] + 0
    BY DEF NothingLost
  <2>3. QED
    BY <2>1, <2>2 DEF FullyCounted, CountsAll, EmptyTx, Open
<1>5. CASE Read(r)
  <2>1. /\ pc[r] = "read" /\ pc'[r] \in {"engine", "write"} /\ audits' = audits
        /\ loaded'[r] = IF loaded[r] # Null THEN loaded[r] ELSE Visible(r, u)
        /\ tx'[r] = tx[r] /\ mark'[r] = mark[r] /\ Value(r)' = u
    BY <1>0, <1>5 DEF Read, Value
  <2>2. /\ \A v \in Values : CountsAll(tx[r], v, 0)
        /\ TxSound(tx[r], u, 0)
    BY <2>1 DEF FullyCounted, Sound, Pending
  <2>3. tx[r].audits[u] \in Nat
    BY DEF Tx
  <2>4. Visible(r, u) # Null => Visible(r, u).sightings = audits[u] + tx[r].audits[u]
    BY <2>2, <2>3 DEF Visible, CountsAll, TxSound, NothingLost
  <2>5. QED
    BY <1>0, <2>1, <2>2, <2>4 DEF FullyCounted, CountsAll, Pending, Open
<1>6. CASE LoadEngine(r)
  <2>1. /\ pc[r] = "engine" /\ pc'[r] \in {"read", "write"} /\ audits' = audits
        /\ tx'[r] = tx[r] /\ mark'[r] = mark[r] /\ Value(r)' = u
    BY <1>0, <1>6 DEF LoadEngine, Value
  <2>2. loaded'[r].sightings = loaded[r].sightings /\ loaded[r] # Null
    BY <1>0, <1>6, LoadEngineType, IngestAssumption DEF LoadEngine, EngineOfLoaded, Row
  <2>3. QED
    BY <1>0, <2>1, <2>2 DEF FullyCounted, CountsAll, Pending, Open
<1>7. CASE Insert(r)
  <2> DEFINE row == [sightings |-> 1, score |-> score[r], explained |-> score[r]]
  <2>1. row \in Row
    BY DEF Row
  <2>2. pc[r] = "write" /\ tx[r].rows[u] = Null /\ ioc[u] = Null
    BY <1>0, <1>7 DEF Insert, OwnCounted
  <2>3. tx[r].audits[u] = 0 /\ audits[u] = 0
    BY <2>2 DEF Sound, TxSound, Pending, CommittedSound
  <2>4. QED
    BY <1>0, <1>7, <2>1, <2>2, <2>3, FullOfWrites DEF Insert
<1>8. CASE Update(r)
  <2>1. /\ loaded[r] \in Row /\ pc[r] = "write" /\ loaded[r] # Null
        /\ loaded[r].sightings = audits[u] + tx[r].audits[u]
    BY <1>0, <1>8 DEF Update, FullyCounted
  <2>2. PICK row \in Row : Writes(r, row) /\ row.sightings = loaded[r].sightings + 1
    BY <1>8, UpdateWrites
  <2>3. QED
    BY <1>0, <2>1, <2>2, FullOfWrites
<1>9. CASE Correlate(r)
  <2>1. /\ pc[r] = "correlate" /\ pc'[r] \in {"rules", "alerts"} /\ mark'[r] = mark[r]
        /\ tx'[r].rows = tx[r].rows /\ audits' = audits
        /\ tx'[r].audits = [tx[r].audits EXCEPT ![u] = @ + 1]
        /\ tx[r].audits \in [Values -> Nat]
    BY <1>0, <1>1, <1>9 DEF Correlate, Tx
  <2>2. ASSUME NEW v \in Values PROVE CountsAll(tx[r], v, 0)'
    <3>1. CountsAll(tx[r], v, Pending(r, v))
      BY <2>1 DEF FullyCounted
    <3>2. audits[v] \in Nat /\ tx'[r].audits[v] + 0 = tx[r].audits[v] + Pending(r, v)
      BY <1>0, <2>1 DEF Pending
    <3>3. QED
      BY <2>1, <3>1, <3>2 DEF CountsAll, Pending
  <2>3. QED
    BY <2>1, <2>2 DEF FullyCounted, CountsAll, Pending, Open
<1>10. CASE ActiveRules(r) \/ Deliver(r) \/ Respond(r) \/ \E k \in Rules : RaiseAlert(r, k)
  <2>1. /\ pc[r] \in {"rules", "alerts", "deliver", "respond"} /\ audits' = audits
        /\ pc'[r] \in {"alerts", "deliver", "commit"} /\ mark'[r] = mark[r]
        /\ tx'[r].rows = tx[r].rows /\ tx'[r].audits = tx[r].audits
    BY <1>1, <1>10 DEF ActiveRules, Deliver, Respond, RaiseAlert, Tx
  <2>2. QED
    BY <2>1 DEF FullyCounted, CountsAll, Pending, Open
<1>11. CASE Release(r)
  <2>1. \A v \in Values : CountsAll(tx[r], v, 0)
    BY <1>11 DEF Release, FullyCounted, Pending
  <2>2. QED
    BY <1>1, <1>11, <2>1, FullOfAdvance DEF Release
<1>12. CASE ItemFails(r)
  <2>1. \A v \in Values : CountsAll(mark[r], v, 0)
    BY DEF FullyCounted
  <2>2. QED
    BY <1>1, <1>3, <1>12, <2>1, FullOfAdvance DEF ItemFails
<1>13. QED
  BY <1>2, <1>3, <1>4, <1>5, <1>6, <1>7, <1>8, <1>9, <1>10, <1>11, <1>12
  DEF Step, Crash, NotFound, Reject, InsertConflict, DeadlockVictim, Deadlocked, Waits,
      EdgeConflict, RuleGone

(* A commit stores rows that count everything.                              *)
LEMMA CommitLosesNothing ==
  ASSUME TypeInv, NEW r \in Requests, Sound(r), FullyCounted(r), NothingLost, Commit(r)
  PROVE  NothingLost'
<1> SUFFICES ASSUME NEW v \in Values, ioc'[v] # Null
             PROVE  ioc'[v].sightings = audits'[v]
  BY DEF NothingLost
<1>1. /\ ioc'[v] = Visible(r, v) /\ audits'[v] = audits[v] + tx[r].audits[v]
      /\ audits[v] \in Nat /\ tx[r].audits[v] \in Nat
  BY DEF Commit, TypeInv, TypeOK, Tx
<1>2. CountsAll(tx[r], v, 0) /\ TxSound(tx[r], v, 0)
  BY DEF Commit, FullyCounted, Sound, Pending
<1>3. QED
  BY <1>1, <1>2 DEF CountsAll, TxSound, Visible, NothingLost

LEMMA StepSerial ==
  ASSUME TypeInv, Ledger, OwnInv, NoneShared, SerialInv, [Next]_vars
  PROVE  SerialInv'
<1>1. ASSUME NEW r \in Requests, Step(r) \/ Crash(r) PROVE SerialInv'
  <2>1. NothingLost'
    <3>1. CASE Commit(r)
      BY <3>1, CommitLosesNothing DEF Ledger, SerialInv
    <3>2. CASE ~Commit(r)
      BY <1>1, <3>2, OnlyCommitStores DEF SerialInv, NothingLost
    <3>3. QED
      BY <3>1, <3>2
  <2>2. Confined(r)' /\ FullyCounted(r)'
    BY <1>1, ConfinedOfOne, FullOfOne DEF Ledger, OwnInv, SerialInv
  <2>3. ASSUME NEW q \in Requests, q # r PROVE Confined(q)' /\ FullyCounted(q)'
    <3>1. ASSUME NEW v \in Values, Open(q), Submits(q, v) PROVE audits'[v] = audits[v]
      <4>1. CASE Commit(r)
        <5>1. Open(r)
          BY <4>1 DEF Commit, Open
        <5>2. ~Submits(r, v)
          BY <2>3, <3>1, <5>1 DEF NoneShared, Submits
        <5>3. QED
          BY <4>1, <5>2, CommitConfined DEF Ledger, SerialInv
      <4>2. CASE ~Commit(r)
        BY <1>1, <4>2, OnlyCommitStores
      <4>3. QED
        BY <4>1, <4>2
    <3>2. Same(q) /\ loaded'[q] = loaded[q]
      BY <1>1, <2>3, StepOfOne, LoadedOfOthers
    <3>3. QED
      BY <3>1, <3>2, FullOfSame DEF SerialInv
  <2>4. QED
    BY <2>1, <2>2, <2>3 DEF SerialInv
<1>2. CASE (\E k \in Rules : CreateRule(k) \/ DeleteRule(k)) \/ UNCHANGED vars
  <2>1. /\ UNCHANGED <<ioc, audits>>
        /\ \A q \in Requests : Same(q) /\ loaded'[q] = loaded[q]
    BY <1>2 DEF CreateRule, DeleteRule, vars, Same
  <2>2. NothingLost'
    BY <2>1 DEF SerialInv, NothingLost
  <2>3. QED
    BY <2>1, <2>2, FullOfSame DEF SerialInv
<1>3. QED
  BY <1>1, <1>2 DEF Next, Quiescent

(* Wherever no two open requests submit the same indicator, no upsert is    *)
(* lost, however they interleave, fail, crash or deadlock and whatever a    *)
(* batch repeats (EveryUpsertCounts): a count that falls short is always    *)
(* the trace of two overlapping requests for that indicator.                *)
THEOREM DisjointLosesNothing ==
  Spec /\ []NoneShared => []EveryUpsertCounts
<1>1. Init => SerialInv
  BY InitSerial
<1>2. TypeInv /\ Ledger /\ AlertInv /\ OwnInv /\ NoneShared /\ SerialInv /\ [Next]_vars
        => SerialInv'
  BY StepSerial
<1>3. Ledger /\ SerialInv => EveryUpsertCounts
  BY DEF Ledger, CommittedSound, Good, SerialInv, NothingLost, EveryUpsertCounts
<1>4. QED
  BY <1>1, <1>2, <1>3, OwnInvariant, PTL DEF Spec

-----------------------------------------------------------------------------
(* Intake counts with the Cardinality of its own instance.                  *)
LEMMA SameCardinality ==
  ASSUME NEW S PROVE Promise!Cardinality(S) = Cardinality(S)
BY DEF Promise!Cardinality, Cardinality

(* The refinement of Intake.  What requests report, now and after a step.   *)
LEMMA ReportsAre ==
  ASSUME TypeInv, NEW p
  PROVE  p \in Reports <=>
           \E r \in Requests : \E i \in DOMAIN Items[r] :
             p = <<r, i>> /\ outcome[r] = "committed" /\ status[r][i] = "imported"
<1>1. p \in Reports <=> \E v \in Values : p \in Imported(v)
  BY DEF Reports
<1>2. \A r \in Requests : \A i \in DOMAIN Items[r] : Items[r][i] \in Values
  BY IngestAssumption
<1>3. QED
  BY <1>1, <1>2, ImportedIs DEF DoneFor

LEMMA ReportsNext ==
  ASSUME TypeInv, TypeInv', NEW p
  PROVE  p \in Reports' <=>
           \E r \in Requests : \E i \in DOMAIN Items[r] :
             p = <<r, i>> /\ outcome'[r] = "committed" /\ status'[r][i] = "imported"
<1>1. p \in Reports' <=> \E v \in Values : p \in Imported(v)'
  BY DEF Reports
<1>2. \A r \in Requests : \A i \in DOMAIN Items[r] : Items[r][i] \in Values
  BY IngestAssumption
<1>3. p \in UNION {{r} \X DOMAIN Items[r] : r \in Requests} <=>
        \E r \in Requests : \E i \in DOMAIN Items[r] : p = <<r, i>>
  OBVIOUS
<1>4. \A v : p \in Imported(v)' <=>
        /\ p \in UNION {{r} \X DOMAIN Items[r] : r \in Requests}
        /\ outcome'[p[1]] = "committed" /\ Items[p[1]][p[2]] = v
        /\ status'[p[1]][p[2]] = "imported"
  BY DEF Imported
<1>5. QED
  BY <1>1, <1>2, <1>3, <1>4

(* Reports change with an outcome only.                                     *)
LEMMA ReportsStay ==
  ASSUME TypeInv, TypeInv',
         \A q \in Requests :
           \/ outcome'[q] = outcome[q] /\ status'[q] = status[q]
           \/ outcome[q] # "committed" /\ outcome'[q] # "committed"
  PROVE  Reports' = Reports
<1>1. \A p : p \in Reports' <=> p \in Reports
  BY ReportsAre, ReportsNext
<1>2. QED
  BY <1>1

LEMMA CountedType ==
  ASSUME TypeOK PROVE Counted \in [Values -> Nat]
<1>1. \A v \in Values : ioc[v] # Null => ioc[v].sightings \in Nat
  BY DEF TypeOK, Row
<1>2. QED
  BY <1>1 DEF Counted

(* A request that ends with nothing done takes in none of its items.        *)
LEMMA NothingTaken ==
  ASSUME TypeInv, TypeInv', OnCourse, NEW r \in Requests, pc[r] # "done", pc'[r] = "done",
         UNCHANGED <<ioc, audits, alerts, feed>>, outcome'[r] # "committed",
         \A q \in Requests : q # r =>
            pc'[q] = pc[q] /\ outcome'[q] = outcome[q] /\ status'[q] = status[q]
  PROVE  Promise!Take(r, {})
<1>1. Ended' = Ended \cup {r} /\ r \notin Ended
  BY DEF Ended
<1>2. outcome[r] = "open"
  BY DEF OnCourse, Course
<1>3. Reports' = Reports
  BY <1>2, ReportsStay
<1>4. audits \in [Values -> Nat] /\ Counted \in [Values -> Nat]
  BY CountedType DEF TypeInv, TypeOK
<1>5. Counted' = Counted /\ StoredAlerts' = StoredAlerts
  BY DEF Counted, StoredAlerts
<1>6. \A v : Promise!Places(r, {}, v) = {}
  BY DEF Promise!Places
<1>7. Cardinality({}) = 0
  BY FS_EmptySet
<1>8. audits' = [v \in Values |-> audits[v] + Cardinality(Promise!Places(r, {}, v))]
  BY <1>4, <1>6, <1>7
<1>9. \A v \in Values : Cardinality(Promise!Places(r, {}, v)) = 0 /\ Counted'[v] = Counted[v]
  BY <1>5, <1>6, <1>7
<1>10. /\ Reports' = Reports \cup ({r} \X {})
       /\ StoredAlerts' = StoredAlerts \cup {e \in feed : e[1] = r /\ e[2] \in {}}
  BY <1>3, <1>5
<1>11. QED
  BY <1>1, <1>4, <1>5, <1>8, <1>9, <1>10, SameCardinality DEF Promise!Take

(* A commit takes in the items that its request reports.                    *)
LEMMA CommitTakes ==
  ASSUME TypeInv, TypeInv', AlertInv, Ledger, OwnInv, NEW r \in Requests, Commit(r)
  PROVE  \E S \in SUBSET DOMAIN Items[r] : Promise!Take(r, S)
<1> DEFINE S == {i \in DOMAIN Items[r] : status[r][i] = "imported"}
<1> USE DEF TypeInv, TypeOK
<1>1. /\ pc[r] = "commit" /\ pc' = [pc EXCEPT ![r] = "done"]
      /\ ioc' = [v \in Values |-> Visible(r, v)]
      /\ audits' = [v \in Values |-> audits[v] + tx[r].audits[v]]
      /\ alerts' = alerts \cup tx[r].alerts
      /\ outcome' = [outcome EXCEPT ![r] = "committed"]
      /\ UNCHANGED <<status, feed>>
  BY DEF Commit
<1>2. outcome[r] = "open" /\ tx[r] = mark[r]
  BY <1>1 DEF AlertInv, OnCourse, Course
<1>3. Ended' = Ended \cup {r} /\ r \notin Ended
  BY <1>1 DEF Ended
<1>4. Reports' = Reports \cup ({r} \X S)
  <2>1. ASSUME NEW p PROVE p \in Reports' <=> p \in Reports \cup ({r} \X S)
    <3>1. \A q \in Requests : outcome'[q] = "committed" <=> q = r \/ outcome[q] = "committed"
      BY <1>1
    <3>2. p \in {r} \X S <=>
            \E i \in DOMAIN Items[r] : p = <<r, i>> /\ status[r][i] = "imported"
      OBVIOUS
    <3>3. QED
      BY <1>1, <3>1, <3>2, ReportsAre, ReportsNext
  <2>2. QED
    BY <2>1
<1>5. ASSUME NEW v \in Values
      PROVE  LET n == Cardinality(Promise!Places(r, S, v)) IN
             /\ audits'[v] = audits[v] + n
             /\ IF n = 0 THEN Counted'[v] = Counted[v] ELSE Counted'[v] \in n..audits'[v]
  <2>1. Promise!Places(r, S, v) = DoneFor(r, v)
    BY DEF Promise!Places, DoneFor
  <2>2. tx[r].audits[v] = Cardinality(DoneFor(r, v))
    BY <1>2 DEF AlertInv, Reported
  <2> DEFINE n == Cardinality(DoneFor(r, v))
             row == tx[r].rows[v]
  <2>3. /\ n \in Nat /\ audits[v] \in Nat /\ audits'[v] = audits[v] + n
        /\ row \in Row \cup {Null}
    BY <1>1, <2>2 DEF Tx
  <2>4. TxSound(tx[r], v, 0) /\ Counts(tx[r], v, 0)
    BY <1>1, <1>2 DEF Ledger, Sound, OwnInv, OwnCounted
  <2>5. Counted'[v] = IF ioc'[v] = Null THEN 0 ELSE ioc'[v].sightings
    BY DEF Counted
  <2>6. Counted[v] = IF ioc[v] = Null THEN 0 ELSE ioc[v].sightings
    BY DEF Counted
  <2>7. ioc'[v] = IF row # Null THEN row ELSE ioc[v]
    BY <1>1 DEF Visible
  <2>8. CASE row = Null
    <3>1. n = 0
      BY <2>2, <2>4, <2>8 DEF TxSound
    <3>2. QED
      BY <2>1, <2>3, <2>5, <2>6, <2>7, <2>8, <3>1
  <2>9. CASE row # Null
    <3>1. /\ n + 0 >= 1 /\ row.sightings \in 1..(audits[v] + n + 0)
          /\ n + 0 <= row.sightings
      BY <2>2, <2>4, <2>9 DEF TxSound, Good, Counts
    <3>2. Counted'[v] = row.sightings
      BY <2>5, <2>7, <2>9
    <3> HIDE DEF n, row
    <3>3. n # 0 /\ Counted'[v] \in n..audits'[v]
      BY <2>3, <3>1, <3>2
    <3>4. QED
      BY <2>1, <2>3, <3>3 DEF n
  <2>10. QED
    BY <2>8, <2>9
<1>6. StoredAlerts' = StoredAlerts \cup {e \in feed : e[1] = r /\ e[2] \in S}
  <2>1. ASSUME NEW a \in tx[r].alerts
        PROVE  <<a.req, a.item, a.rule>> \in feed /\ a.req = r /\ a.item \in S
    BY <1>2 DEF AlertInv, AllAnnounced, Announced, Published, OwnInv, AlertsReported
  <2>2. ASSUME NEW e \in feed, e[1] = r, e[2] \in S
        PROVE  \E a \in tx[r].alerts : e = <<a.req, a.item, a.rule>>
    <3>1. e = <<e[1], e[2], e[3]>>
      OBVIOUS
    <3>2. Raised(tx[r].alerts, r, e[2], e[3])
      BY <1>2, <2>2 DEF AlertInv, NoneVanished, Kept
    <3>3. QED
      BY <2>2, <3>1, <3>2 DEF Raised
  <2>3. ASSUME NEW e
        PROVE  e \in StoredAlerts' <=>
                 \/ e \in StoredAlerts
                 \/ \E a \in tx[r].alerts : e = <<a.req, a.item, a.rule>>
    BY <1>1 DEF StoredAlerts
  <2> HIDE DEF S
  <2>4. ASSUME NEW e
        PROVE  (\E a \in tx[r].alerts : e = <<a.req, a.item, a.rule>>) <=>
                 e \in feed /\ e[1] = r /\ e[2] \in S
    BY <2>1, <2>2
  <2>5. QED
    BY <2>3, <2>4
<1>7. Counted' \in [Values -> Nat]
  <2>1. \A v \in Values : ioc'[v] # Null => ioc'[v].sightings \in Nat
    BY DEF Row
  <2>2. QED
    BY <2>1 DEF Counted
<1>8. S \in SUBSET DOMAIN Items[r]
  OBVIOUS
<1> HIDE DEF S
<1>9. audits' = [v \in Values |-> audits[v] + Cardinality(Promise!Places(r, S, v))]
  BY <1>1, <1>5
<1>10. Promise!Take(r, S)
  BY <1>1, <1>3, <1>4, <1>5, <1>6, <1>7, <1>9, SameCardinality DEF Promise!Take
<1>11. QED
  BY <1>8, <1>10

LEMMA DeliverPushes ==
  ASSUME TypeInv, TypeInv', NEW r \in Requests, Deliver(r)
  PROVE  \E i \in DOMAIN Items[r], k \in Rules : Promise!Push(r, i, k)
<1> USE DEF TypeInv, TypeOK
<1>1. PICK a \in tx[r].alerts : feed' = feed \cup {<<r, item[r], a.rule>>}
  BY DEF Deliver
<1>2. a.rule \in Rules
  BY DEF Tx, Alert
<1>3. /\ pc[r] = "deliver" /\ pc' = [pc EXCEPT ![r] = "alerts"]
      /\ UNCHANGED <<ioc, audits, alerts, status, outcome>>
  BY DEF Deliver
<1>4. Ended' = Ended /\ r \notin Ended
  BY <1>3 DEF Ended
<1>5. Reports' = Reports
  BY <1>3, ReportsStay
<1>6. Counted' = Counted /\ StoredAlerts' = StoredAlerts
  BY <1>3 DEF Counted, StoredAlerts
<1>7. QED
  BY <1>1, <1>2, <1>3, <1>4, <1>5, <1>6 DEF Promise!Push

(* Whatever else happens is invisible.                                      *)
LEMMA Invisible ==
  ASSUME TypeInv, TypeInv', UNCHANGED <<ioc, audits, feed>>, StoredAlerts' = StoredAlerts,
         \A q \in Requests :
           /\ pc'[q] = "done" <=> pc[q] = "done"
           /\ outcome'[q] = outcome[q]
           /\ status'[q] = status[q] \/ outcome[q] # "committed"
  PROVE  UNCHANGED Promise!vars
<1>1. Ended' = Ended
  BY DEF Ended
<1>2. Reports' = Reports
  BY ReportsStay
<1>3. Counted' = Counted
  BY DEF Counted
<1>4. QED
  BY <1>1, <1>2, <1>3 DEF Promise!vars

LEMMA StepPromised ==
  ASSUME TypeInv, TypeInv', AlertInv, Ledger, OwnInv, NEW r \in Requests, Step(r) \/ Crash(r)
  PROVE  [Promise!Next]_(Promise!vars)
<1> USE DEF TypeInv, TypeOK
<1>0. pc[r] # "done"
  BY DEF Step, Crash, Begin, NotFound, Read, LoadEngine, Reject, Insert, InsertConflict,
         Update, DeadlockVictim, Deadlocked, Waits, Correlate, EdgeConflict, ActiveRules,
         RaiseAlert, RuleGone, Deliver, Release, ItemFails, Respond, Commit
<1>1. outcome[r] = "open"
  BY <1>0 DEF AlertInv, OnCourse, Course
<1>2. \A q \in Requests : q # r => Same(q)
  BY StepOfOne
<1>3. OnCourse
  BY DEF AlertInv
<1>4. ASSUME pc'[r] # "done", UNCHANGED <<ioc, audits, alerts, feed>>,
             outcome'[r] = outcome[r]
      PROVE  UNCHANGED Promise!vars
  <2>1. StoredAlerts' = StoredAlerts
    BY <1>4 DEF StoredAlerts
  <2>2. QED
    BY <1>0, <1>1, <1>2, <1>4, <2>1, Invisible DEF Same
<1>5. ASSUME RolledBack(r), UNCHANGED <<ioc, audits, alerts, feed>>
      PROVE  Promise!Next
  <2>1. pc'[r] = "done" /\ outcome'[r] = "rolledback"
    BY <1>5 DEF RolledBack
  <2>2. Promise!Take(r, {})
    BY <1>0, <1>2, <1>3, <1>5, <2>1, NothingTaken DEF Same
  <2>3. QED
    BY <2>2 DEF Promise!Next
<1>6. CASE NotFound(r) \/ Crash(r) \/ (ItemFails(r) /\ ~Batch(r))
  BY <1>5, <1>6 DEF NotFound, Crash, ItemFails
<1>7. CASE Commit(r)
  BY <1>7, CommitTakes DEF Promise!Next
<1>8. CASE Deliver(r)
  BY <1>8, DeliverPushes DEF Promise!Next
<1>9. CASE Release(r) \/ (ItemFails(r) /\ Batch(r))
  BY <1>4, <1>9 DEF Release, ItemFails, Advance
<1>10. CASE Begin(r) \/ Read(r) \/ LoadEngine(r) \/ ActiveRules(r) \/ Respond(r)
              \/ Correlate(r) \/ \E k \in Rules : RaiseAlert(r, k)
  BY <1>4, <1>10 DEF Begin, Read, LoadEngine, ActiveRules, Respond, Correlate, RaiseAlert
<1>11. CASE Reject(r) \/ InsertConflict(r) \/ DeadlockVictim(r) \/ EdgeConflict(r)
              \/ \E k \in Rules : RuleGone(r, k)
  BY <1>4, <1>11 DEF Reject, InsertConflict, DeadlockVictim, EdgeConflict, RuleGone, Fails
<1>12. CASE Insert(r) \/ Update(r)
  BY <1>4, <1>12 DEF Insert, Update, Writes
<1>13. QED
  BY <1>6, <1>7, <1>8, <1>9, <1>10, <1>11, <1>12 DEF Step

(* A rule that goes leaves the stored alerts what they were.                *)
LEMMA RulesInvisible ==
  ASSUME TypeInv, TypeInv', NEW k \in Rules, CreateRule(k) \/ DeleteRule(k)
  PROVE  UNCHANGED Promise!vars
<1>1. StoredAlerts' = StoredAlerts
  <2>1. CASE CreateRule(k)
    BY <2>1 DEF CreateRule, StoredAlerts
  <2>2. CASE DeleteRule(k)
    <3> DEFINE Cleared(a) == IF a.fk = k THEN [a EXCEPT !.fk = Null] ELSE a
    <3>1. alerts' = {Cleared(a) : a \in alerts}
      BY <2>2 DEF DeleteRule
    <3>2. ASSUME NEW a \in alerts
          PROVE  /\ Cleared(a).req = a.req /\ Cleared(a).item = a.item
                 /\ Cleared(a).rule = a.rule
      BY DEF TypeInv, TypeOK, Alert
    <3> HIDE DEF Cleared
    <3>3. QED
      BY <3>1, <3>2 DEF StoredAlerts
  <2>3. QED
    BY <2>1, <2>2
<1>2. UNCHANGED <<ioc, audits, feed, pc, outcome, status>>
  BY DEF CreateRule, DeleteRule
<1>3. QED
  BY <1>1, <1>2, Invisible

(* Every request takes effect at most once, all at once, and exactly as far *)
(* as it reports, whatever overlaps, fails, crashes or deadlocks meanwhile  *)
(* (IntakeSpec).                                                            *)
THEOREM IngestIsIntake == Spec => IntakeSpec
<1> DEFINE PromiseInv == TypeInv /\ Ledger /\ AlertInv /\ OwnInv
<1>1. Init => Promise!Init
  <2> SUFFICES ASSUME Init PROVE Promise!Init
    OBVIOUS
  <2>1. TypeInv
    BY InitType
  <2>2. Reports = {}
    BY <2>1, ReportsAre DEF Init
  <2>3. Counted = audits
    <3>1. \A s \in Scores : [sightings |-> 1, score |-> s, explained |-> s] \in Row
      BY DEF Row
    <3>2. QED
      BY <3>1, IngestAssumption DEF Init, Counted
  <2>4. QED
    BY <2>2, <2>3 DEF Init, Promise!Init, Ended, StoredAlerts
<1>2. PromiseInv /\ TypeInv' /\ [Next]_vars => [Promise!Next]_(Promise!vars)
  <2> SUFFICES ASSUME PromiseInv, TypeInv', [Next]_vars
               PROVE  [Promise!Next]_(Promise!vars)
    OBVIOUS
  <2>1. ASSUME NEW r \in Requests, Step(r) \/ Crash(r)
        PROVE  [Promise!Next]_(Promise!vars)
    BY <2>1, StepPromised
  <2>2. ASSUME NEW k \in Rules, CreateRule(k) \/ DeleteRule(k)
        PROVE  [Promise!Next]_(Promise!vars)
    BY <2>2, RulesInvisible
  <2>3. CASE UNCHANGED vars
    <3>1. UNCHANGED <<ioc, audits, alerts, feed, pc, outcome, status>>
      BY <2>3 DEF vars
    <3>2. StoredAlerts' = StoredAlerts
      BY <3>1 DEF StoredAlerts
    <3>3. QED
      BY <3>1, <3>2, Invisible
  <2>4. QED
    BY <2>1, <2>2, <2>3 DEF Next, Quiescent
<1>3. Spec => []PromiseInv
  BY OwnInvariant
<1>4. QED
  BY <1>1, <1>2, <1>3, PTL DEF Spec, IntakeSpec, Promise!Spec

=============================================================================
