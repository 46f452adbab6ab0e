------------------------- MODULE LoginThrottleProofs -------------------------
(***************************************************************************)
(* Proofs about LoginThrottle for any number of requests, replicas,        *)
(* attempts and faults: types, counters that expire, and the limits on the *)
(* passwords that are checked by one replica and by the whole fleet.       *)
(***************************************************************************)
EXTENDS LoginThrottle, FiniteSetTheorems, TLAPS


(* Only Tick, Restart and one request at a time take steps.                 *)
LEMMA OneMoves ==
  ASSUME TypeOK, NEW a \in Attempts, NEW step \in Steps, Goto(a, step)
  PROVE  /\ pc' \in [Attempts -> Steps]
         /\ pc'[a] = step
         /\ \A b \in Attempts \ {a} : pc'[b] = pc[b]
BY DEF TypeOK, Goto

-----------------------------------------------------------------------------
(* The variables keep their types.                                          *)
THEOREM TypeCorrect == Spec => []TypeOK
<1>1. Init => TypeOK
  BY ThrottleAssumption DEF Init, TypeOK, Forgiven, Steps
<1>2. TypeOK /\ [Next]_vars => TypeOK'
  <2> SUFFICES ASSUME TypeOK, [Next]_vars PROVE TypeOK'
    OBVIOUS
  <2> USE ThrottleAssumption
  <2>1. CASE UNCHANGED vars
    BY <2>1 DEF TypeOK, vars
  <2>2. ASSUME NEW a \in Attempts, Ask(a) PROVE TypeOK'
    BY <2>2 DEF Ask, Goto, TypeOK, Steps
  <2>3. ASSUME NEW a \in Attempts, Exists(a) PROVE TypeOK'
    BY <2>3 DEF Exists, Goto, TypeOK, Steps
  <2>4. ASSUME NEW a \in Attempts, AskLocal(a) PROVE TypeOK'
    BY <2>4 DEF AskLocal, Goto, TypeOK, Steps, LocalLock, Forgiven
  <2>5. ASSUME NEW a \in Attempts, VerifyWrong(a) PROVE TypeOK'
    <3>1. Failed(local[home[a]]) \in [failures : Nat, left : 0..Lockout]
      BY DEF TypeOK, Failed
    <3>2. local' \in [Replicas -> [failures : Nat, left : 0..Lockout]]
      BY <2>5, <3>1 DEF VerifyWrong, TypeOK
    <3>3. QED
      BY <2>5, <3>2 DEF VerifyWrong, Goto, TypeOK, Steps
  <2>6. ASSUME NEW a \in Attempts, VerifyInactive(a) PROVE TypeOK'
    BY <2>6 DEF VerifyInactive, Goto, TypeOK, Steps
  <2>7. ASSUME NEW a \in Attempts, VerifyRight(a) PROVE TypeOK'
    BY <2>7 DEF VerifyRight, Goto, TypeOK, Steps, Forgiven
  <2>8. ASSUME NEW a \in Attempts, Incr(a) PROVE TypeOK'
    <3>1. AfterIncr \in Steps
      BY DEF AfterIncr, Steps, TypeOK
    <3>2. count' \in 0..MaxAttempts
      BY <2>8 DEF Incr, IncrEffect, TypeOK
    <3>3. QED
      BY <2>8, <3>1, <3>2 DEF Incr, IncrEffect, Goto, TypeOK
  <2>9. ASSUME NEW a \in Attempts, Expire(a) PROVE TypeOK'
    BY <2>9 DEF Expire, ExpireEffect, Goto, TypeOK, Steps
  <2>10. ASSUME NEW a \in Attempts, SetLock(a) PROVE TypeOK'
    BY <2>10 DEF SetLock, SetLockEffect, Goto, TypeOK, Steps
  <2>11. ASSUME NEW a \in Attempts, Delete(a) PROVE TypeOK'
    BY <2>11 DEF Delete, DeleteEffect, Goto, TypeOK, Steps
  <2>12. ASSUME NEW a \in Attempts, Reply(a) PROVE TypeOK'
    BY <2>12 DEF Reply, Goto, TypeOK, Steps
  <2>13. ASSUME NEW a \in Attempts, CommandFails(a) PROVE TypeOK'
    <3>1. faults' \in 0..MaxFaults
      BY <2>13 DEF CommandFails, TypeOK
    <3>2. pc' \in [Attempts -> Steps]
      BY <2>13 DEF CommandFails, Goto, TypeOK, Steps
    <3>3. /\ count' \in 0..MaxAttempts /\ ttl' \in 0..Lockout
          /\ lock' \in 0..Lockout /\ checked' \in Nat
      BY <2>13 DEF CommandFails, Unharmed, IncrEffect, ExpireEffect,
                   SetLockEffect, DeleteEffect, TypeOK
    <3>4. QED
      BY <2>13, <3>1, <3>2, <3>3 DEF CommandFails, TypeOK
  <2>14. ASSUME NEW r \in Replicas, Restart(r) PROVE TypeOK'
    <3>1. faults' \in 0..MaxFaults
      BY <2>14 DEF Restart, TypeOK
    <3>2. QED
      BY <2>14, <3>1 DEF Restart, TypeOK, Forgiven, Steps
  <2>15. CASE Tick
    <3>1. local' \in [Replicas -> [failures : Nat, left : 0..Lockout]]
      BY <2>15 DEF Tick, TypeOK, Less
    <3>2. ttl' \in 0..Lockout /\ lock' \in 0..Lockout
      BY <2>15 DEF Tick, TypeOK, Less
    <3>3. QED
      BY <2>15, <3>1, <3>2 DEF Tick, TypeOK
  <2>16. QED
    BY <2>1, <2>2, <2>3, <2>4, <2>5, <2>6, <2>7, <2>8, <2>9, <2>10, <2>11,
       <2>12, <2>13, <2>14, <2>15 DEF Next, Step
<1>3. QED
  BY <1>1, <1>2, PTL DEF Spec

-----------------------------------------------------------------------------
(* Without faults the counter in Redis has a time to live, or is about to   *)
(* be given one by the request that created it.                             *)
THEOREM CountersDoExpire == Spec => []CountersExpire
<1>1. Init => CountersExpire
  BY DEF Init, CountersExpire
<1>2. TypeOK /\ CountersExpire /\ [Next]_vars => CountersExpire'
  <2> SUFFICES ASSUME TypeOK, CountersExpire, [Next]_vars,
                      faults' = 0, count' > 0, ttl' = 0
               PROVE  \E a \in Attempts : pc'[a] = "expire"
    BY DEF CountersExpire
  <2> USE ThrottleAssumption
  <2>1. CASE UNCHANGED vars
    BY <2>1 DEF CountersExpire, vars
  <2>2. CASE Tick
    BY <2>2 DEF Tick, Less, CountersExpire, TypeOK
  <2>3. ASSUME NEW r \in Replicas, Restart(r)
        PROVE  \E a \in Attempts : pc'[a] = "expire"
    BY <2>3 DEF Restart, TypeOK
  <2>4. ASSUME NEW a \in Attempts, CommandFails(a)
        PROVE  \E b \in Attempts : pc'[b] = "expire"
    BY <2>4 DEF CommandFails, TypeOK
  <2>5. ASSUME NEW a \in Attempts, Incr(a)
        PROVE  \E b \in Attempts : pc'[b] = "expire"
    <3>1. faults = 0 /\ ttl = 0
      BY <2>5 DEF Incr, IncrEffect
    <3>2. CASE count = 0
      <4>1. AfterIncr = "expire"
        BY <3>2 DEF AfterIncr
      <4>2. QED
        BY <2>5, <4>1 DEF Incr, Goto, TypeOK
    <3>3. CASE count > 0
      <4>1. PICK b \in Attempts : pc[b] = "expire"
        BY <3>1, <3>3 DEF CountersExpire
      <4>2. pc'[b] = "expire"
        BY <2>5, <4>1 DEF Incr, Goto, TypeOK
      <4>3. QED
        BY <4>2
    <3>4. QED
      BY <3>2, <3>3 DEF TypeOK
  <2>6. ASSUME NEW a \in Attempts, Expire(a)
        PROVE  \E b \in Attempts : pc'[b] = "expire"
    BY <2>6 DEF Expire, ExpireEffect, TypeOK
  <2>7. ASSUME NEW a \in Attempts, Delete(a)
        PROVE  \E b \in Attempts : pc'[b] = "expire"
    BY <2>7 DEF Delete, DeleteEffect
  <2>8. ASSUME NEW a \in Attempts,
               \/ Ask(a) \/ Exists(a) \/ AskLocal(a) \/ VerifyWrong(a)
               \/ VerifyInactive(a) \/ VerifyRight(a) \/ SetLock(a) \/ Reply(a)
        PROVE  \E b \in Attempts : pc'[b] = "expire"
    <3>1. count' = count /\ ttl' = ttl /\ faults' = faults
      BY <2>8 DEF Ask, Exists, AskLocal, VerifyWrong, VerifyInactive,
                  VerifyRight, SetLock, SetLockEffect, Reply
    <3>2. PICK b \in Attempts : pc[b] = "expire"
      BY <3>1 DEF CountersExpire
    <3>3. a # b
      BY <2>8, <3>2 DEF Ask, Exists, AskLocal, VerifyWrong, VerifyInactive,
                        VerifyRight, SetLock, Reply
    <3>4. pc'[b] = pc[b]
      BY <2>8, <3>3 DEF Ask, Exists, AskLocal, VerifyWrong, VerifyInactive,
                        VerifyRight, SetLock, Reply, Goto, TypeOK
    <3>5. QED
      BY <3>2, <3>4
  <2>9. QED
    BY <2>1, <2>2, <2>3, <2>4, <2>5, <2>6, <2>7, <2>8 DEF Next, Step
<1>3. QED
  BY <1>1, <1>2, TypeCorrect, PTL DEF Spec

-----------------------------------------------------------------------------
(* Counting requests by what they do next.                                  *)
Num(steps) == Cardinality({a \in Attempts : pc[a] \in steps})

Waiting(r) == {a \in Attempts : home[a] = r /\ pc[a] = "verify"}

LEMMA Counted ==
  ASSUME NEW T \in SUBSET Attempts
  PROVE  /\ IsFiniteSet(T) /\ Cardinality(T) \in Nat
         /\ Cardinality(T) <= Cardinality(Attempts)
         /\ Cardinality(Attempts) \in Nat
BY ThrottleAssumption, FS_Subset, FS_CardinalityType

(* When one request goes on, a count changes by its leaving and entering.   *)
LEMMA NumMoves ==
  ASSUME TypeOK, NEW a \in Attempts, NEW step \in Steps, Goto(a, step), NEW S
  PROVE  /\ Num(S) \in Nat /\ Num(S)' \in Nat
         /\ Num(S)' = Num(S) - (IF pc[a] \in S THEN 1 ELSE 0)
                              + (IF step \in S THEN 1 ELSE 0)
<1> DEFINE T == {b \in Attempts : pc[b] \in S}
           U == {b \in Attempts : pc'[b] \in S}
<1>1. \A b \in Attempts \ {a} : pc'[b] = pc[b]
  BY DEF Goto, TypeOK
<1>2. pc'[a] = step
  BY DEF Goto, TypeOK
<1>3. T \in SUBSET Attempts /\ U \in SUBSET Attempts
  OBVIOUS
<1>4. Num(S) = Cardinality(T) /\ Num(S)' = Cardinality(U)
  BY DEF Num
<1>5. /\ IsFiniteSet(T) /\ Cardinality(T) \in Nat
      /\ IsFiniteSet(U) /\ Cardinality(U) \in Nat
  BY <1>3, Counted
<1>6. T \ {a} = U \ {a}
  BY <1>1
<1>7. /\ Cardinality(T \ {a}) = IF a \in T THEN Cardinality(T) - 1
                                            ELSE Cardinality(T)
      /\ Cardinality(U \ {a}) = IF a \in U THEN Cardinality(U) - 1
                                            ELSE Cardinality(U)
  BY <1>5, FS_RemoveElement
<1>8. (a \in T <=> pc[a] \in S) /\ (a \in U <=> step \in S)
  BY <1>2
<1> HIDE DEF T, U
<1>9. Cardinality(U) = Cardinality(T) - (IF pc[a] \in S THEN 1 ELSE 0)
                                     + (IF step \in S THEN 1 ELSE 0)
  BY <1>5, <1>6, <1>7, <1>8
<1>10. QED
  BY <1>4, <1>5, <1>9

-----------------------------------------------------------------------------
(* Once a replica has reached the limit, what it has counted and what it is *)
(* about to count stay within the limit and one for each other request.     *)
ReplicaInv ==
  \A r \in Replicas :
    LocalLock(r) => local[r].failures + Cardinality(Waiting(r)) <= Overshoot

(* A replica that counts no failure and takes no request in keeps it.       *)
LEMMA ReplicaKeeps ==
  ASSUME TypeOK, TypeOK', ReplicaInv, NEW r \in Replicas,
         local'[r].failures = local[r].failures,
         Waiting(r)' \subseteq Waiting(r), LocalLock(r)'
  PROVE  local'[r].failures + Cardinality(Waiting(r)') <= Overshoot
<1> DEFINE W == Waiting(r)
           V == Waiting(r)'
<1>1. W \in SUBSET Attempts
  BY DEF Waiting
<1>2. V \in SUBSET W
  OBVIOUS
<1>3. IsFiniteSet(W) /\ Cardinality(W) \in Nat
  BY <1>1, Counted
<1>4. Cardinality(V) <= Cardinality(W)
  BY <1>2, <1>3, FS_Subset
<1>5. Cardinality(V) \in Nat
  BY <1>1, <1>2, Counted
<1>6. LocalLock(r) /\ local[r].failures \in Nat
  BY DEF LocalLock, TypeOK
<1>7. local[r].failures + Cardinality(W) <= Overshoot
  BY <1>6 DEF ReplicaInv
<1>8. Overshoot \in Int
  BY Counted, ThrottleAssumption DEF Overshoot
<1> HIDE DEF W, V
<1>9. local'[r].failures + Cardinality(V) <= Overshoot
  BY <1>3, <1>4, <1>5, <1>6, <1>7, <1>8
<1>10. QED
  BY <1>9 DEF V

LEMMA ReplicaInit == Init => ReplicaInv
BY ThrottleAssumption DEF Init, ReplicaInv, LocalLock, Forgiven

LEMMA ReplicaStep == TypeOK /\ TypeOK' /\ ReplicaInv /\ [Next]_vars => ReplicaInv'
<1> SUFFICES ASSUME TypeOK, TypeOK', ReplicaInv, [Next]_vars,
                    NEW r \in Replicas, LocalLock(r)'
             PROVE  local'[r].failures + Cardinality(Waiting(r)') <= Overshoot
  BY DEF ReplicaInv, Overshoot
<1> USE ThrottleAssumption
<1>1. CASE UNCHANGED vars
  BY <1>1, ReplicaKeeps DEF vars, Waiting
<1>2. CASE Tick
  <2>1. local'[r].failures = local[r].failures
    BY <1>2 DEF Tick, TypeOK
  <2>2. QED
    BY <1>2, <2>1, ReplicaKeeps DEF Tick, Waiting
<1>3. ASSUME NEW q \in Replicas, Restart(q)
      PROVE  local'[r].failures + Cardinality(Waiting(r)') <= Overshoot
  <2>1. r # q
    BY <1>3 DEF Restart, TypeOK, LocalLock, Forgiven
  <2>2. local'[r].failures = local[r].failures
    BY <1>3, <2>1 DEF Restart, TypeOK
  <2>3. Waiting(r)' \subseteq Waiting(r)
    BY <1>3 DEF Restart, Waiting
  <2>4. QED
    BY <2>2, <2>3, ReplicaKeeps
<1>4. ASSUME NEW a \in Attempts, Ask(a)
      PROVE  local'[r].failures + Cardinality(Waiting(r)') <= Overshoot
  <2>1. Waiting(r)' \subseteq Waiting(r)
    BY <1>4 DEF Ask, Goto, Waiting, TypeOK
  <2>2. QED
    BY <1>4, <2>1, ReplicaKeeps DEF Ask
<1>5. ASSUME NEW a \in Attempts,
             \/ Exists(a) \/ VerifyInactive(a) \/ Incr(a) \/ Expire(a)
             \/ SetLock(a) \/ Delete(a) \/ Reply(a) \/ CommandFails(a)
      PROVE  local'[r].failures + Cardinality(Waiting(r)') <= Overshoot
  <2>1. local' = local /\ home' = home
    BY <1>5 DEF Exists, VerifyInactive, Incr, Expire, SetLock, Delete, Reply,
                CommandFails
  <2>2. PICK step \in Steps \ {"verify"} : Goto(a, step)
    <3>1. AfterIncr \in Steps \ {"verify"}
      BY DEF AfterIncr, Steps, TypeOK
    <3>2. QED
      BY <1>5, <3>1 DEF Exists, VerifyInactive, Incr, Expire, SetLock, Delete,
                        Reply, CommandFails, Steps
  <2>3. Waiting(r)' \subseteq Waiting(r)
    BY <2>1, <2>2 DEF Goto, Waiting, TypeOK
  <2>4. QED
    BY <2>1, <2>3, ReplicaKeeps
<1>6. ASSUME NEW a \in Attempts, AskLocal(a)
      PROVE  local'[r].failures + Cardinality(Waiting(r)') <= Overshoot
  <2>1. local'[r].failures = local[r].failures
    BY <1>6 DEF AskLocal, LocalLock, Forgiven, TypeOK
  <2>2. home[a] = r => Goto(a, "idle")
    BY <1>6, <2>1 DEF AskLocal, LocalLock, Forgiven, TypeOK
  <2>3. Waiting(r)' \subseteq Waiting(r)
    BY <1>6, <2>2 DEF AskLocal, Goto, Waiting, TypeOK
  <2>4. QED
    BY <2>1, <2>3, ReplicaKeeps
<1>7. ASSUME NEW a \in Attempts, VerifyRight(a)
      PROVE  local'[r].failures + Cardinality(Waiting(r)') <= Overshoot
  <2>1. local'[r].failures = local[r].failures
    BY <1>7 DEF VerifyRight, LocalLock, Forgiven, TypeOK
  <2>2. Waiting(r)' \subseteq Waiting(r)
    BY <1>7 DEF VerifyRight, Goto, Waiting, TypeOK
  <2>3. QED
    BY <2>1, <2>2, ReplicaKeeps
<1>8. ASSUME NEW a \in Attempts, VerifyWrong(a)
      PROVE  local'[r].failures + Cardinality(Waiting(r)') <= Overshoot
  <2>1. CASE home[a] # r
    <3>1. local'[r].failures = local[r].failures
      BY <1>8, <2>1 DEF VerifyWrong, TypeOK
    <3>2. Waiting(r)' \subseteq Waiting(r)
      BY <1>8 DEF VerifyWrong, Goto, Waiting, TypeOK
    <3>3. QED
      BY <3>1, <3>2, ReplicaKeeps
  <2>2. CASE home[a] = r
    <3> DEFINE W == Waiting(r)
    <3>1. Waiting(r)' = W \ {a} /\ a \in W
      BY <1>8, <2>2 DEF VerifyWrong, Goto, Waiting, TypeOK
    <3>2. W \in SUBSET Attempts
      BY DEF Waiting
    <3>3. /\ IsFiniteSet(W) /\ Cardinality(W) \in Nat
          /\ Cardinality(W) <= Cardinality(Attempts)
          /\ Cardinality(Attempts) \in Nat
      BY <3>2, Counted
    <3>4. Cardinality(Waiting(r)') = Cardinality(W) - 1
      <4>1. Cardinality(W \ {a}) = Cardinality(W) - 1
        <5> HIDE DEF W
        <5>1. QED
          BY <3>1, <3>3, FS_RemoveElement
      <4>2. QED
        BY <3>1, <4>1
    <3>5. local'[r].failures = local[r].failures + 1 /\ local[r].failures \in Nat
      BY <1>8, <2>2 DEF VerifyWrong, Failed, TypeOK
    <3>6. LocalLock(r) => local[r].failures + Cardinality(W) <= Overshoot
      BY DEF ReplicaInv
    <3>7. ~LocalLock(r) => local[r].failures <= MaxAttempts - 1
      BY <3>5 DEF LocalLock
    <3> HIDE DEF W
    <3>8. QED
      BY <3>3, <3>4, <3>5, <3>6, <3>7 DEF Overshoot
  <2>3. QED
    BY <2>1, <2>2
<1>9. QED
  BY <1>1, <1>2, <1>3, <1>4, <1>5, <1>6, <1>7, <1>8 DEF Next, Step

(* One replica checks at most MaxAttempts passwords and those of the other  *)
(* requests that were past the check, even while Redis answers nothing.     *)
THEOREM ReplicaIsLimited == Spec => []ReplicaStaysLimited
<1>1. TypeOK /\ ReplicaInv => ReplicaStaysLimited
  <2> SUFFICES ASSUME TypeOK, ReplicaInv, NEW r \in Replicas
               PROVE  local[r].failures <= Overshoot
    BY DEF ReplicaStaysLimited
  <2>1. Waiting(r) \in SUBSET Attempts
    BY DEF Waiting
  <2>2. Cardinality(Waiting(r)) \in Nat /\ Cardinality(Attempts) \in Nat
    BY <2>1, Counted
  <2>3. local[r].failures \in Nat
    BY DEF TypeOK
  <2>4. QED
    BY <2>2, <2>3, ThrottleAssumption DEF ReplicaInv, LocalLock, Overshoot
<1>2. QED
  BY <1>1, ReplicaInit, ReplicaStep, TypeCorrect, PTL DEF Spec

-----------------------------------------------------------------------------
(* While Redis answers, the requests fall into those that have a wrong      *)
(* password to report, those that will set the lock, and those that may     *)
(* still check a password.                                                  *)
Pending == Num({"incr"})
Free == Num(Steps \ {"incr", "set_lock"})
Passed == Num({"local", "verify"})

FleetInv ==
  faults = 0 =>
    /\ count < MaxAttempts => checked <= count + Pending
    /\ count = MaxAttempts /\ lock = 0 => checked + Free <= Overshoot
    /\ lock > 0 => checked + Passed <= Overshoot

LEMMA Shares ==
  ASSUME TypeOK
  PROVE  /\ Pending \in Nat /\ Free \in Nat /\ Passed \in Nat
         /\ Cardinality(Attempts) \in Nat
         /\ Pending + Free <= Cardinality(Attempts)
         /\ Passed <= Free
<1> DEFINE P == {a \in Attempts : pc[a] \in {"incr"}}
           F == {a \in Attempts : pc[a] \in Steps \ {"incr", "set_lock"}}
           V == {a \in Attempts : pc[a] \in {"local", "verify"}}
<1>1. /\ P \in SUBSET Attempts /\ F \in SUBSET Attempts
      /\ V \in SUBSET F /\ P \cap F = {} /\ P \cup F \in SUBSET Attempts
  BY DEF Steps
<1>2. /\ IsFiniteSet(P) /\ Cardinality(P) \in Nat
      /\ IsFiniteSet(F) /\ Cardinality(F) \in Nat
      /\ Cardinality(Attempts) \in Nat
      /\ Cardinality(P \cup F) <= Cardinality(Attempts)
  BY <1>1, Counted
<1>3. V \in SUBSET Attempts
  BY <1>1
<1>4. Cardinality(V) \in Nat
  BY <1>3, Counted
<1>5. Cardinality(V) <= Cardinality(F)
  BY <1>1, <1>2, FS_Subset
<1>6. Cardinality(P \cup F) = Cardinality(P) + Cardinality(F)
  <2>1. Cardinality(P \cap F) = 0
    BY <1>1, FS_EmptySet
  <2>2. Cardinality(P \cup F)
          = Cardinality(P) + Cardinality(F) - Cardinality(P \cap F)
    BY <1>2, FS_Union
  <2> HIDE DEF P, F
  <2>3. QED
    BY <1>2, <2>1, <2>2
<1>7. Pending = Cardinality(P) /\ Free = Cardinality(F) /\ Passed = Cardinality(V)
  BY DEF Pending, Free, Passed, Num
<1> HIDE DEF P, F, V
<1>8. QED
  BY <1>2, <1>4, <1>5, <1>6, <1>7

(* How the shares change when a request goes on.                            *)
LEMMA ShareMoves ==
  ASSUME TypeOK, NEW a \in Attempts, NEW step \in Steps, Goto(a, step)
  PROVE  /\ Pending' \in Nat /\ Free' \in Nat /\ Passed' \in Nat
         /\ Pending' = Pending - (IF pc[a] = "incr" THEN 1 ELSE 0)
                               + (IF step = "incr" THEN 1 ELSE 0)
         /\ Free' = Free - (IF pc[a] \notin {"incr", "set_lock"} THEN 1 ELSE 0)
                         + (IF step \notin {"incr", "set_lock"} THEN 1 ELSE 0)
         /\ Passed' = Passed - (IF pc[a] \in {"local", "verify"} THEN 1 ELSE 0)
                             + (IF step \in {"local", "verify"} THEN 1 ELSE 0)
<1>1. pc[a] \in Steps
  BY DEF TypeOK
<1>2. Pending' = Pending - (IF pc[a] \in {"incr"} THEN 1 ELSE 0)
                         + (IF step \in {"incr"} THEN 1 ELSE 0)
  BY NumMoves DEF Pending
<1>3. Free' = Free
        - (IF pc[a] \in Steps \ {"incr", "set_lock"} THEN 1 ELSE 0)
        + (IF step \in Steps \ {"incr", "set_lock"} THEN 1 ELSE 0)
  BY NumMoves DEF Free
<1>4. Passed' = Passed - (IF pc[a] \in {"local", "verify"} THEN 1 ELSE 0)
                       + (IF step \in {"local", "verify"} THEN 1 ELSE 0)
  BY NumMoves DEF Passed
<1>5. (pc[a] \in {"incr"} <=> pc[a] = "incr") /\ (step \in {"incr"} <=> step = "incr")
  OBVIOUS
<1>6. /\ pc[a] \in Steps \ {"incr", "set_lock"} <=> pc[a] \notin {"incr", "set_lock"}
      /\ step \in Steps \ {"incr", "set_lock"} <=> step \notin {"incr", "set_lock"}
  BY <1>1
<1>7. Pending' \in Nat /\ Free' \in Nat /\ Passed' \in Nat
  BY NumMoves DEF Pending, Free, Passed
<1>8. QED
  BY <1>2, <1>3, <1>4, <1>5, <1>6, <1>7

LEMMA FleetInit == TypeOK /\ Init => FleetInv
BY Shares, ThrottleAssumption DEF Init, FleetInv, Overshoot

LEMMA FleetStep == TypeOK /\ TypeOK' /\ FleetInv /\ [Next]_vars => FleetInv'
<1> SUFFICES ASSUME TypeOK, TypeOK', FleetInv, [Next]_vars, faults' = 0
             PROVE  /\ count' < MaxAttempts => checked' <= count' + Pending'
                    /\ count' = MaxAttempts /\ lock' = 0
                         => checked' + Free' <= Overshoot
                    /\ lock' > 0 => checked' + Passed' <= Overshoot
  BY DEF FleetInv, Overshoot
<1> DEFINE Goal == /\ count' < MaxAttempts => checked' <= count' + Pending'
                   /\ count' = MaxAttempts /\ lock' = 0
                        => checked' + Free' <= Overshoot
                   /\ lock' > 0 => checked' + Passed' <= Overshoot
<1> USE ThrottleAssumption
<1>a. /\ Pending \in Nat /\ Free \in Nat /\ Passed \in Nat
      /\ Cardinality(Attempts) \in Nat
      /\ Pending + Free <= Cardinality(Attempts)
      /\ Passed <= Free
  BY Shares
<1>b. /\ count \in 0..MaxAttempts /\ lock \in 0..Lockout /\ checked \in Nat
      /\ ttl \in 0..Lockout
  BY DEF TypeOK
<1>c. Overshoot = MaxAttempts - 1 + Cardinality(Attempts)
  BY DEF Overshoot
<1>d. faults = 0 => /\ count < MaxAttempts => checked <= count + Pending
                    /\ count = MaxAttempts /\ lock = 0
                         => checked + Free <= Overshoot
                    /\ lock > 0 => checked + Passed <= Overshoot
  BY DEF FleetInv
<1>1. CASE UNCHANGED vars
  BY <1>1, <1>d DEF vars, Pending, Free, Passed, Num
<1>2. CASE Tick
  <2>1. /\ Pending' = Pending /\ Free' = Free /\ Passed' = Passed /\ faults = 0
    BY <1>2 DEF Tick, Pending, Free, Passed, Num
  <2>2. \/ checked' = 0
        \/ /\ checked' = checked /\ count' = count
           /\ lock' > 0 <=> lock > 0
           /\ lock' = 0 <=> lock = 0
    BY <1>2, <1>b DEF Tick, Less
  <2>3. count' \in 0..MaxAttempts
    BY DEF TypeOK
  <2>4. QED
    BY <2>1, <2>2, <2>3, <1>a, <1>b, <1>c, <1>d
<1>3. ASSUME NEW r \in Replicas, Restart(r) PROVE Goal
  BY <1>3 DEF Restart, TypeOK
<1>4. ASSUME NEW a \in Attempts, CommandFails(a) PROVE Goal
  BY <1>4 DEF CommandFails, TypeOK
<1>5. ASSUME NEW a \in Attempts,
             \/ Ask(a) \/ Exists(a) \/ AskLocal(a) \/ VerifyInactive(a)
             \/ VerifyRight(a) \/ Expire(a) \/ Reply(a)
      PROVE  Goal
  <2>1. /\ count' = count /\ lock' = lock /\ checked' = checked /\ faults = 0
    BY <1>5 DEF Ask, Exists, AskLocal, VerifyInactive, VerifyRight, Expire,
                ExpireEffect, Reply
  <2>2. PICK step \in Steps \ {"incr", "set_lock"} :
          /\ Goto(a, step)
          /\ step \in {"local", "verify"}
               => pc[a] \in {"local", "verify"} \/ lock = 0
    BY <1>5, <1>b DEF Ask, Exists, AskLocal, VerifyInactive, VerifyRight, Expire,
                Reply, Steps
  <2>3. pc[a] \notin {"incr", "set_lock"}
    BY <1>5 DEF Ask, Exists, AskLocal, VerifyInactive, VerifyRight, Expire, Reply
  <2>4. /\ Pending' = Pending /\ Free' = Free
        /\ Passed' = Passed - (IF pc[a] \in {"local", "verify"} THEN 1 ELSE 0)
                            + (IF step \in {"local", "verify"} THEN 1 ELSE 0)
    BY <2>2, <2>3, <1>a, ShareMoves
  <2>5. lock > 0 => Passed' <= Passed
    BY <2>2, <2>4, <1>a, <1>b
  <2>6. Passed' \in Nat
    BY <2>2, <1>a, ShareMoves
  <2>7. QED
    BY <2>1, <2>4, <2>5, <2>6, <1>a, <1>b, <1>c, <1>d
<1>6. ASSUME NEW a \in Attempts, VerifyWrong(a) PROVE Goal
  <2>1. /\ Pending' = Pending + 1 /\ Free' = Free - 1 /\ Passed' = Passed - 1
    BY <1>6, <1>a, ShareMoves DEF VerifyWrong, Steps
  <2>2. /\ count' = count /\ lock' = lock /\ checked' = checked + 1 /\ faults = 0
    BY <1>6 DEF VerifyWrong
  <2>3. QED
    BY <2>1, <2>2, <1>a, <1>b, <1>c, <1>d
<1>7. ASSUME NEW a \in Attempts, Incr(a) PROVE Goal
  <2>1. lock' = lock /\ checked' = checked /\ faults = 0
    BY <1>7 DEF Incr, IncrEffect
  <2>2. CASE count + 1 < MaxAttempts
    <3>1. PICK step \in {"expire", "idle"} : Goto(a, step)
      <4>1. AfterIncr \in {"expire", "idle"}
        BY <2>2, <1>b DEF AfterIncr
      <4>2. QED
        BY <1>7, <4>1 DEF Incr
    <3>2. Pending' = Pending - 1 /\ Passed' = Passed
      BY <1>7, <3>1, <1>a, ShareMoves DEF Incr, Steps
    <3>3. count' = count + 1
      BY <1>7, <2>2, <1>b DEF Incr, IncrEffect
    <3>4. QED
      BY <2>1, <2>2, <3>2, <3>3, <1>a, <1>b, <1>c, <1>d
  <2>3. CASE count + 1 >= MaxAttempts
    <3>1. Goto(a, "set_lock")
      BY <1>7, <2>3, <1>b DEF Incr, AfterIncr
    <3>2. Pending' = Pending - 1 /\ Free' = Free /\ Passed' = Passed
      BY <1>7, <3>1, <1>a, ShareMoves DEF Incr, Steps
    <3>3. count' = MaxAttempts
      BY <1>7, <2>3, <1>b DEF Incr, IncrEffect
    <3>4. QED
      BY <2>1, <2>3, <3>2, <3>3, <1>a, <1>b, <1>c, <1>d
  <2>4. QED
    BY <2>2, <2>3, <1>b
<1>8. ASSUME NEW a \in Attempts, SetLock(a) PROVE Goal
  <2>1. Pending' = Pending /\ Passed' = Passed
    BY <1>8, <1>a, ShareMoves DEF SetLock, Steps
  <2>2. /\ count' = count /\ lock' > 0 /\ checked' = checked /\ faults = 0
    BY <1>8 DEF SetLock, SetLockEffect
  <2>3. QED
    BY <2>1, <2>2, <1>a, <1>b, <1>c, <1>d
<1>9. ASSUME NEW a \in Attempts, Delete(a) PROVE Goal
  <2>1. count' = 0 /\ lock' = 0 /\ checked' = 0
    BY <1>9 DEF Delete, DeleteEffect
  <2>2. PICK n \in Nat : Pending' = n
    BY <1>9, ShareMoves DEF Delete, Steps
  <2>3. checked' <= count' + Pending'
    BY <2>1, <2>2
  <2>4. count' # MaxAttempts
    <3>1. 0 # MaxAttempts
      OBVIOUS
    <3>2. QED
      BY <2>1, <3>1
  <2>5. ~(lock' > 0)
    BY <2>1
  <2>6. QED
    BY <2>3, <2>4, <2>5
<1>10. QED
  BY <1>1, <1>2, <1>3, <1>4, <1>5, <1>6, <1>7, <1>8, <1>9 DEF Next, Step

(* While Redis answers, the replicas together check at most MaxAttempts     *)
(* passwords and one for each other request before the lock holds.          *)
THEOREM FleetIsLimited == Spec => []FleetStaysLimited
<1>1. TypeOK /\ FleetInv => FleetStaysLimited
  <2> SUFFICES ASSUME TypeOK, FleetInv, faults = 0 PROVE checked <= Overshoot
    BY DEF FleetStaysLimited
  <2>1. /\ Pending \in Nat /\ Free \in Nat /\ Passed \in Nat
        /\ Cardinality(Attempts) \in Nat
        /\ Pending + Free <= Cardinality(Attempts)
    BY Shares
  <2>2. count \in 0..MaxAttempts /\ lock \in 0..Lockout /\ checked \in Nat
    BY DEF TypeOK
  <2>3. QED
    BY <2>1, <2>2, ThrottleAssumption DEF FleetInv, Overshoot
<1>2. QED
  BY <1>1, FleetInit, FleetStep, TypeCorrect, PTL DEF Spec
==============================================================================
