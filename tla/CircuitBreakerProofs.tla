------------------------ MODULE CircuitBreakerProofs ------------------------
(***************************************************************************)
(* Proofs about CircuitBreaker, for any set of callers, threshold, timeout *)
(* and number of attempts.                                                 *)
(***************************************************************************)
EXTENDS CircuitBreaker, TLAPS

(* The failure counter saturates: a further failure keeps its type.         *)
LEMMA CountedType ==
  ASSUME failures \in 0..Threshold PROVE Counted \in 0..Threshold
BY BreakerAssumption DEF Counted

(* Every variable keeps its type.                                           *)
THEOREM TypeCorrect == Spec => []TypeOK
<1>1. Init => TypeOK
  <2> SUFFICES ASSUME Init PROVE TypeOK
    OBVIOUS
  <2>1. failures \in 0..Threshold /\ since \in 0..Recovery
    BY BreakerAssumption DEF Init
  <2>2. attempt \in [Callers -> 0..Attempts]
    BY BreakerAssumption DEF Init
  <2>3. probe \in BOOLEAN /\ good \in [Callers -> BOOLEAN]
    BY DEF Init
  <2>4. QED
    BY <2>1, <2>2, <2>3 DEF Init, TypeOK
<1>2. TypeOK /\ [Next]_vars => TypeOK'
  <2> SUFFICES ASSUME TypeOK, [Next]_vars PROVE TypeOK'
    OBVIOUS
  <2> USE BreakerAssumption DEF TypeOK
  <2>1. ASSUME NEW c \in Callers, Collect(c) PROVE TypeOK'
    BY <2>1 DEF Collect
  <2>2. ASSUME NEW c \in Callers, AdmitClosed(c) PROVE TypeOK'
    BY <2>2 DEF AdmitClosed, Admit
  <2>3. ASSUME NEW c \in Callers, AdmitProbe(c) PROVE TypeOK'
    BY <2>3 DEF AdmitProbe, Admit
  <2>4. ASSUME NEW c \in Callers, Refuse(c) PROVE TypeOK'
    BY <2>4 DEF Refuse
  <2>5. ASSUME NEW c \in Callers, Answer(c) PROVE TypeOK'
    BY <2>5 DEF Answer, Ends
  <2>6. ASSUME NEW c \in Callers, Retry(c) PROVE TypeOK'
    BY <2>6 DEF Retry
  <2>7. ASSUME NEW c \in Callers, GiveUp(c) PROVE TypeOK'
    BY <2>7 DEF GiveUp, Ends
  <2>8. ASSUME NEW c \in Callers, RecordSuccess(c) PROVE TypeOK'
    <3>1. failures' \in 0..Threshold
      BY <2>8 DEF RecordSuccess
    <3>2. probe' \in BOOLEAN
      BY <2>8 DEF RecordSuccess
    <3>3. QED
      BY <2>8, <3>1, <3>2 DEF RecordSuccess, Reported
  <2>9. ASSUME NEW c \in Callers, RecordFailure(c) PROVE TypeOK'
    <3>1. failures' \in 0..Threshold /\ since' \in 0..Recovery
      BY <2>9, CountedType DEF RecordFailure
    <3>2. probe' \in BOOLEAN /\ state' \in {"closed", "open", "half_open"}
      BY <2>9 DEF RecordFailure
    <3>3. QED
      BY <2>9, <3>1, <3>2 DEF RecordFailure, Reported
  <2>10. CASE Tick
    BY <2>10 DEF Tick
  <2>11. CASE Provider
    BY <2>11 DEF Provider
  <2>12. CASE UNCHANGED vars
    BY <2>12 DEF vars
  <2>13. QED
    BY <2>1, <2>2, <2>3, <2>4, <2>5, <2>6, <2>7, <2>8, <2>9, <2>10, <2>11,
       <2>12 DEF Next, Work
<1>3. QED
  BY <1>1, <1>2, PTL DEF Spec

-----------------------------------------------------------------------------
(* The three fields of the breaker agree (FieldsAgree): the flag of a probe *)
(* cannot outlive the half-open state, and _can_attempt's last lines, which *)
(* would admit a second probe, are never reached.                           *)
THEOREM BreakerFieldsAgree == Spec => []FieldsAgree
<1>1. Init => FieldsAgree
  BY BreakerAssumption DEF Init, FieldsAgree
<1>2. TypeOK /\ FieldsAgree /\ [Next]_vars => FieldsAgree'
  <2> SUFFICES ASSUME TypeOK, FieldsAgree, [Next]_vars PROVE FieldsAgree'
    OBVIOUS
  <2> USE BreakerAssumption DEF TypeOK, FieldsAgree
  <2>1. ASSUME NEW c \in Callers, AdmitClosed(c) PROVE FieldsAgree'
    BY <2>1 DEF AdmitClosed, Admit
  <2>2. ASSUME NEW c \in Callers, AdmitProbe(c) PROVE FieldsAgree'
    BY <2>2 DEF AdmitProbe, Admit, MayProbe
  <2>3. ASSUME NEW c \in Callers, RecordSuccess(c) PROVE FieldsAgree'
    BY <2>3 DEF RecordSuccess
  <2>4. ASSUME NEW c \in Callers, RecordFailure(c) PROVE FieldsAgree'
    BY <2>4 DEF RecordFailure, Trips, Counted
  <2>5. ASSUME NEW c \in Callers,
               Collect(c) \/ Refuse(c) \/ Answer(c) \/ Retry(c) \/ GiveUp(c)
        PROVE FieldsAgree'
    BY <2>5 DEF Collect, Refuse, Answer, Retry, GiveUp, Ends
  <2>6. CASE Tick \/ Provider
    BY <2>6 DEF Tick, Provider
  <2>7. CASE UNCHANGED vars
    BY <2>7 DEF vars
  <2>8. QED
    BY <2>1, <2>2, <2>3, <2>4, <2>5, <2>6, <2>7 DEF Next, Work
<1>3. QED
  BY <1>1, <1>2, TypeCorrect, PTL DEF Spec

(* A half-open circuit waits for exactly one request of its own that is in  *)
(* flight, and an open one for none (ProbeIsOutstanding): the breaker can   *)
(* neither send two probes nor wait for a report that nobody owes.          *)
THEOREM OneProbeIsOutstanding == Spec => []ProbeIsOutstanding
<1>1. Init => ProbeIsOutstanding
  BY DEF Init, ProbeIsOutstanding
<1>2. TypeOK /\ FieldsAgree /\ ProbeIsOutstanding /\ [Next]_vars
        => ProbeIsOutstanding'
  <2> SUFFICES ASSUME TypeOK, FieldsAgree, ProbeIsOutstanding, [Next]_vars
               PROVE  ProbeIsOutstanding'
    OBVIOUS
  <2> USE DEF TypeOK, ProbeIsOutstanding, InFlight
  <2>1. ASSUME NEW c \in Callers, Collect(c) PROVE ProbeIsOutstanding'
    BY <2>1 DEF Collect
  <2>2. ASSUME NEW c \in Callers, AdmitClosed(c) PROVE ProbeIsOutstanding'
    BY <2>2 DEF AdmitClosed, Admit
  <2>3. ASSUME NEW c \in Callers, AdmitProbe(c) PROVE ProbeIsOutstanding'
    <3>1. state = "open" /\ fresh' = {c}
      BY <2>3 DEF AdmitProbe, MayProbe, FieldsAgree
    <3>2. QED
      BY <2>3, <3>1 DEF AdmitProbe, Admit
  <2>4. ASSUME NEW c \in Callers, Refuse(c) PROVE ProbeIsOutstanding'
    BY <2>4 DEF Refuse
  <2>5. ASSUME NEW c \in Callers, Answer(c) \/ GiveUp(c)
        PROVE  ProbeIsOutstanding'
    BY <2>5 DEF Answer, GiveUp, Ends
  <2>6. ASSUME NEW c \in Callers, Retry(c) PROVE ProbeIsOutstanding'
    BY <2>6 DEF Retry
  <2>7. ASSUME NEW c \in Callers, RecordSuccess(c) PROVE ProbeIsOutstanding'
    BY <2>7 DEF RecordSuccess, Reported
  <2>8. ASSUME NEW c \in Callers, RecordFailure(c) PROVE ProbeIsOutstanding'
    <3>1. CASE Trips
      BY <2>8, <3>1 DEF RecordFailure, Reported
    <3>2. CASE ~Trips
      <4>1. state = "closed"
        BY <3>2, BreakerAssumption DEF Trips, Counted, FieldsAgree
      <4>2. QED
        BY <2>8, <3>2, <4>1 DEF RecordFailure, Reported
    <3>3. QED
      BY <3>1, <3>2
  <2>9. CASE Tick \/ Provider
    BY <2>9 DEF Tick, Provider
  <2>10. CASE UNCHANGED vars
    BY <2>10 DEF vars
  <2>11. QED
    BY <2>1, <2>2, <2>3, <2>4, <2>5, <2>6, <2>7, <2>8, <2>9, <2>10
    DEF Next, Work
<1>3. QED
  BY <1>1, <1>2, TypeCorrect, BreakerFieldsAgree, PTL DEF Spec

=============================================================================
