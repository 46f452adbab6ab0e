------------------------- MODULE AdminAccountsProofs -------------------------
(***************************************************************************)
(* Proofs about AdminAccounts, for any accounts, keys, roles and number of *)
(* requests at a time: types, and that the check for the last active       *)
(* administrator is right unless transactions overlap.                     *)
(***************************************************************************)
EXTENDS AdminAccounts, FiniteSetTheorems, TLAPS

(* What TypeOK does not say of a request under way: an API request has a    *)
(* principal, a handler that has read its row knows it, a key to revoke     *)
(* exists.                                                                  *)
UnderWay ==
  \A s \in Slots : pc[s] # "idle" =>
    /\ request[s].op # "script" => actor[s] \in Users
    /\ pc[s] \in {"count", "write", "commit"} => seen[s] \in Account
    /\ pc[s] \in {"count", "write", "commit"} /\ request[s].op = "revoke"
         => key[Target(s)] # Nobody

TypeInv == TypeOK /\ UnderWay

(* What an operation writes to.                                             *)
LEMMA OperationParts ==
  ASSUME NEW o \in Operation
  PROVE  /\ o.op \in {"set_role", "set_active", "mint", "revoke", "script"}
         /\ o.op \in {"mint", "revoke"} => o.target \in Keys
         /\ o.op \notin {"mint", "revoke"} => o.target \in Users
         /\ o.op = "set_role" => o.value \in Roles
         /\ o.op = "set_active" => o.value \in Statuses
BY DEF Operation

(* A user row stays an account, whatever is written to it.                  *)
LEMMA WrittenType ==
  ASSUME NEW o \in Operation, NEW old \in Account, NEW a \in Account
  PROVE  Written(o, old, a) \in Account
<1>1. CASE o.op = "set_role"
  BY <1>1, OperationParts DEF Written, Account
<1>2. CASE o.op = "set_active"
  BY <1>2, OperationParts DEF Written, Account
<1>3. CASE o.op = "script"
  BY <1>3, AdminAssumption DEF Written, Account, Statuses
<1>4. CASE o.op \in {"mint", "revoke"}
  BY <1>4 DEF Written
<1>5. QED
  BY <1>1, <1>2, <1>3, <1>4, OperationParts

(* The start of a request keeps the types.                                  *)
LEMMA BeginType ==
  ASSUME TypeInv, NEW s \in Slots, NEW o \in Operation,
         NEW a \in Users \cup {Nobody}, NEW k \in Keys \cup {Nobody},
         NEW next \in {"owner", "read"}, Begin(s, o, a, k, next),
         o.op # "script" => a \in Users
  PROVE  TypeInv'
<1>1. TypeOK'
  BY DEF Begin, TypeInv, TypeOK
<1>2. UnderWay'
  BY DEF Begin, TypeInv, TypeOK, UnderWay, Target
<1>3. QED
  BY <1>1, <1>2 DEF TypeInv

(* So does a step that leaves the committed rows alone.                     *)
LEMMA GoesType ==
  ASSUME TypeInv, NEW s \in Slots, pc[s] # "idle",
         NEW next \in {"read", "count", "write", "commit"}, Goes(s, next),
         seen' \in [Slots -> Account \cup {Nobody}],
         holds' \in [Slots -> SUBSET (Users \cup Keys)],
         \A t \in Slots \ {s} : seen'[t] = seen[t],
         next \in {"count", "write", "commit"} => seen'[s] \in Account,
         next \in {"count", "write", "commit"} /\ request[s].op = "revoke"
           => key[Target(s)] # Nobody
  PROVE  TypeInv'
<1>1. TypeOK'
  BY DEF Goes, TypeInv, TypeOK
<1>2. UnderWay'
  BY DEF Goes, TypeInv, TypeOK, UnderWay, Target
<1>3. QED
  BY <1>1, <1>2 DEF TypeInv

LEMMA RolledBackType ==
  ASSUME TypeInv, NEW s \in Slots, RolledBack(s)
  PROVE  TypeInv'
<1>1. TypeOK'
  BY DEF RolledBack, Ends, TypeInv, TypeOK
<1>2. UnderWay'
  BY DEF RolledBack, Ends, TypeInv, TypeOK, UnderWay, Target
<1>3. QED
  BY <1>1, <1>2 DEF TypeInv

LEMMA CommitType ==
  ASSUME TypeInv, NEW s \in Slots, Commit(s)
  PROVE  TypeInv'
<1>1. /\ request[s] \in Operation
      /\ request[s].op # "script" => actor[s] \in Users
      /\ seen[s] \in Account
      /\ request[s].op = "revoke" => key[Target(s)] # Nobody
  BY DEF Commit, TypeInv, TypeOK, UnderWay
<1>2. /\ pc' \in [Slots -> {"idle", "owner", "read", "count", "write", "commit"}]
      /\ request' \in [Slots -> Operation \cup {Nobody}]
      /\ actor' \in [Slots -> Users \cup {Nobody}]
      /\ via' \in [Slots -> Keys \cup {Nobody}]
      /\ seen' \in [Slots -> Account \cup {Nobody}]
      /\ holds' \in [Slots -> SUBSET (Users \cup Keys)]
      /\ \A t \in Slots : pc'[t] # "idle" => request'[t] \in Operation
  BY DEF Commit, Ends, TypeInv, TypeOK
<1>3. overlapped' \in [Slots -> BOOLEAN]
  BY DEF Commit, TypeInv, TypeOK
<1>4. CASE Target(s) \in Keys
  <2>1. request[s].op \in {"mint", "revoke"}
    BY <1>1, <1>4, OperationParts, AdminAssumption DEF Target
  <2>2. WrittenKey(s) \in Key
    <3>1. CASE request[s].op = "mint"
      BY <1>1, <3>1 DEF WrittenKey, Key, Account, Statuses
    <3>2. CASE request[s].op = "revoke"
      <4>1. key[Target(s)] \in Key
        BY <1>1, <1>4, <3>2 DEF TypeInv, TypeOK
      <4>2. QED
        BY <4>1, <3>2 DEF WrittenKey, Key, Statuses
    <3>3. QED
      BY <2>1, <3>1, <3>2
  <2>3. /\ key' \in [Keys -> Key \cup {Nobody}]
        /\ account' \in [Users -> Account]
        /\ told' \in Operation \cup {Nobody}
    BY <1>4, <2>2 DEF Commit, TypeInv, TypeOK
  <2>4. TypeOK'
    BY <1>2, <1>3, <2>3 DEF TypeOK
  <2>5. \A k \in Keys : key[k] # Nobody => key'[k] # Nobody
    BY <1>4, <2>2, AdminAssumption DEF Commit, TypeInv, TypeOK
  <2>6. UnderWay'
    BY <2>5, OperationParts DEF Commit, Ends, UnderWay, TypeInv, TypeOK, Target
  <2>7. QED
    BY <2>4, <2>6 DEF TypeInv
<1>5. CASE Target(s) \notin Keys
  <2>1. Target(s) \in Users
    BY <1>1, <1>5, OperationParts DEF Target
  <2>2. /\ Written(request[s], seen[s], account[Target(s)]) \in Account
        /\ Audited(request[s], told) \in Operation \cup {Nobody}
    BY <1>1, <2>1, WrittenType DEF Audited, TypeInv, TypeOK
  <2>3. /\ key' = key
        /\ account' \in [Users -> Account]
        /\ told' \in Operation \cup {Nobody}
    BY <1>5, <2>1, <2>2 DEF Commit, TypeInv, TypeOK
  <2>4. TypeOK'
    BY <1>2, <1>3, <2>3 DEF TypeOK, TypeInv
  <2>5. UnderWay'
    BY <2>3 DEF Commit, Ends, UnderWay, TypeInv, TypeOK, Target
  <2>6. QED
    BY <2>4, <2>5 DEF TypeInv
<1>6. QED
  BY <1>4, <1>5

LEMMA ReadType ==
  ASSUME TypeInv, NEW s \in Slots, Read(s)
  PROVE  TypeInv'
<1>1. pc[s] = "read" /\ request[s] \in Operation
  BY DEF Read, TypeInv, TypeOK
<1>2. CASE (request[s].op = "revoke" /\ ~Mine(s, Target(s))) \/ SelfRemoval(s)
  BY <1>2, RolledBackType DEF Read
<1>3. CASE ~((request[s].op = "revoke" /\ ~Mine(s, Target(s))) \/ SelfRemoval(s))
  <2>1. RowRead(s) \in Account
    <3>1. CASE request[s].op = "mint"
      BY <1>1, <3>1 DEF RowRead, TypeInv, TypeOK, UnderWay
    <3>2. CASE request[s].op = "revoke"
      <4>1. key[Target(s)] \in Key
        BY <1>1, <1>3, <3>2, OperationParts DEF Mine, Target, TypeInv, TypeOK
      <4>2. QED
        BY <4>1, <3>2 DEF RowRead, Key, Account
    <3>3. CASE request[s].op \notin {"mint", "revoke"}
      BY <1>1, <3>3, OperationParts DEF RowRead, Target, TypeInv, TypeOK
    <3>4. QED
      BY <3>1, <3>2, <3>3
  <2> DEFINE next == IF Removes(request[s]) /\ RowRead(s).role = "admin"
                       THEN "count" ELSE "write"
  <2>2. /\ seen' = [seen EXCEPT ![s] = RowRead(s)]
        /\ holds' = [holds EXCEPT ![s] = @ \cup ({via[s]} \ {Nobody})]
        /\ Goes(s, next)
    BY <1>3 DEF Read
  <2>3. /\ seen' \in [Slots -> Account \cup {Nobody}]
        /\ seen'[s] \in Account
        /\ \A t \in Slots \ {s} : seen'[t] = seen[t]
    BY <2>1, <2>2 DEF TypeInv, TypeOK
  <2>4. holds' \in [Slots -> SUBSET (Users \cup Keys)]
    BY <2>2 DEF TypeInv, TypeOK
  <2>5. request[s].op = "revoke" => key[Target(s)] # Nobody
    BY <1>3 DEF Mine
  <2>6. next \in {"read", "count", "write", "commit"}
    OBVIOUS
  <2> HIDE DEF next
  <2>7. QED
    BY <1>1, <2>2, <2>3, <2>4, <2>5, <2>6, GoesType
<1>4. QED
  BY <1>2, <1>3

(* Every variable keeps its type, and requests under way are well formed.   *)
LEMMA TypeInvariant == Spec => []TypeInv
<1>1. Init => TypeInv
  BY DEF Init, TypeInv, TypeOK, UnderWay
<1>2. TypeInv /\ [Next]_vars => TypeInv'
  <2> SUFFICES ASSUME TypeInv, [Next]_vars PROVE TypeInv'
    OBVIOUS
  <2>1. ASSUME NEW s \in Slots, NEW o \in Operation, NEW u \in Users,
               Bearer(s, o, u)
        PROVE TypeInv'
    BY <2>1, BeginType DEF Bearer
  <2>2. ASSUME NEW s \in Slots, NEW o \in Operation, NEW k \in Keys,
               ApiKey(s, o, k)
        PROVE TypeInv'
    <3>1. key[k].owner \in Users
      BY <2>2 DEF ApiKey, TypeInv, TypeOK, Key
    <3>2. QED
      BY <2>2, <3>1, BeginType DEF ApiKey
  <2>3. ASSUME NEW s \in Slots, NEW u \in Users, Script(s, u) PROVE TypeInv'
    <3> DEFINE o == [op |-> "script", target |-> u, value |-> Nobody]
    <3>1. o \in Operation /\ o.op = "script"
      BY DEF Operation
    <3>2. Begin(s, o, Nobody, Nobody, "read")
      BY <2>3 DEF Script
    <3> HIDE DEF o
    <3>3. QED
      BY <3>1, <3>2, BeginType
  <2>4. ASSUME NEW s \in Slots, Owner(s) PROVE TypeInv'
    <3>1. CASE account[actor[s]].status = "active"
      <4>1. /\ pc[s] = "owner" /\ Goes(s, "read")
            /\ seen' = seen /\ holds' = holds
        BY <2>4, <3>1 DEF Owner
      <4>2. QED
        BY <4>1, GoesType DEF TypeInv, TypeOK
    <3>2. CASE account[actor[s]].status # "active"
      BY <2>4, <3>2, RolledBackType DEF Owner
    <3>3. QED
      BY <3>1, <3>2
  <2>5. ASSUME NEW s \in Slots, Read(s) PROVE TypeInv'
    BY <2>5, ReadType
  <2>6. ASSUME NEW s \in Slots, RefuseLast(s) PROVE TypeInv'
    BY <2>6, RolledBackType DEF RefuseLast
  <2>7. ASSUME NEW s \in Slots, Count(s) PROVE TypeInv'
    <3>1. /\ pc[s] = "count" /\ Goes(s, "write")
          /\ seen' = seen /\ holds' = holds
      BY <2>7 DEF Count
    <3>2. /\ seen[s] \in Account
          /\ request[s].op = "revoke" => key[Target(s)] # Nobody
      BY <3>1 DEF TypeInv, UnderWay
    <3>3. QED
      BY <3>1, <3>2, GoesType DEF TypeInv, TypeOK
  <2>8. ASSUME NEW s \in Slots, Write(s) PROVE TypeInv'
    <3>1. /\ pc[s] = "write" /\ Goes(s, "commit") /\ seen' = seen
          /\ holds' = [holds EXCEPT ![s] =
                         IF Updates(s) THEN @ \cup {Target(s)} ELSE @]
      BY <2>8 DEF Write
    <3>2. Target(s) \in Users \cup Keys
      BY <3>1, OperationParts DEF Target, TypeInv, TypeOK
    <3>3. holds' \in [Slots -> SUBSET (Users \cup Keys)]
      BY <3>1, <3>2 DEF TypeInv, TypeOK
    <3>4. /\ seen[s] \in Account
          /\ request[s].op = "revoke" => key[Target(s)] # Nobody
      BY <3>1 DEF TypeInv, UnderWay
    <3>5. QED
      BY <3>1, <3>3, <3>4, GoesType DEF TypeInv, TypeOK
  <2>9. ASSUME NEW s \in Slots, Commit(s) PROVE TypeInv'
    BY <2>9, CommitType
  <2>10. ASSUME NEW s \in Slots, DeadlockVictim(s) PROVE TypeInv'
    BY <2>10, RolledBackType DEF DeadlockVictim
  <2>11. ASSUME NEW s \in Slots, Abort(s) PROVE TypeInv'
    BY <2>11, RolledBackType DEF Abort
  <2>12. CASE UNCHANGED vars
    BY <2>12 DEF vars, TypeInv, TypeOK, UnderWay, Target
  <2>13. QED
    BY <2>1, <2>2, <2>3, <2>4, <2>5, <2>6, <2>7, <2>8, <2>9, <2>10, <2>11,
       <2>12 DEF Next, Arrive, Serve
<1>3. QED
  BY <1>1, <1>2, PTL DEF Spec

(* Every row and every request under way keeps its type.                    *)
THEOREM TypeCorrect == Spec => []TypeOK
<1>1. TypeInv => TypeOK
  BY DEF TypeInv
<1>2. QED
  BY <1>1, TypeInvariant, PTL

-----------------------------------------------------------------------------
(* What a request has checked still holds when it commits, unless another   *)
(* transaction committed meanwhile: the row it read is the current one, and *)
(* a removal takes a non-administrator or leaves another administrator.     *)
Checked ==
  \A s \in Slots :
    pc[s] \in {"count", "write", "commit"} /\ Administrative(request[s])
      /\ ~overlapped[s] =>
        /\ seen[s] = account[Target(s)]
        /\ pc[s] # "count" /\ Removes(request[s]) =>
             \/ account[Target(s)].role # "admin"
             \/ Admins \ {Target(s)} # {}

(* A step of s that commits nothing says nothing new of the other requests. *)
LEMMA OthersStayChecked ==
  ASSUME Checked, NEW s \in Slots, account' = account,
         TypeInv,
         \A t \in Slots \ {s} :
           /\ pc'[t] = pc[t] /\ request'[t] = request[t]
           /\ seen'[t] = seen[t] /\ overlapped'[t] = overlapped[t]
  PROVE  \A t \in Slots \ {s} :
           pc'[t] \in {"count", "write", "commit"}
             /\ Administrative(request'[t]) /\ ~overlapped'[t] =>
               /\ seen'[t] = account'[request'[t].target]
               /\ pc'[t] # "count" /\ Removes(request'[t]) =>
                    \/ account'[request'[t].target].role # "admin"
                    \/ Admins' \ {request'[t].target} # {}
BY DEF Checked, Target, Admins

(* More than one administrator: one remains without u.                      *)
LEMMA AnotherAdmin ==
  ASSUME TypeInv, NEW u, ~(Cardinality(Admins) <= 1)
  PROVE  Admins \ {u} # {}
<1>1. IsFiniteSet(Admins)
  BY AdminAssumption, FS_Subset DEF Admins
<1>2. Cardinality(Admins) \in Nat
  BY <1>1, FS_CardinalityType
<1>3. SUFFICES ASSUME Admins \ {u} = {} PROVE FALSE
  OBVIOUS
<1>4. Admins \subseteq {u}
  BY <1>3
<1>5. IsFiniteSet({u}) /\ Cardinality({u}) = 1
  BY FS_Singleton
<1>6. Cardinality(Admins) <= 1
  BY <1>4, <1>5, FS_Subset
<1>7. QED
  BY <1>6

LEMMA CheckedInvariant == Spec => []Checked
<1>1. Init => Checked
  BY DEF Init, Checked
<1>2. TypeInv /\ Checked /\ [Next]_vars => Checked'
  <2> SUFFICES ASSUME TypeInv, Checked, [Next]_vars PROVE Checked'
    OBVIOUS
  <2>1. ASSUME NEW s \in Slots, RolledBack(s) PROVE Checked'
    BY <2>1, OthersStayChecked
    DEF RolledBack, Ends, Checked, TypeInv, TypeOK, Target
  <2>2. ASSUME NEW s \in Slots, Arrive(s) PROVE Checked'
    <3>1. ASSUME NEW o, NEW a, NEW k, NEW next \in {"owner", "read"},
                 Begin(s, o, a, k, next)
          PROVE  Checked'
      BY <3>1, OthersStayChecked DEF Begin, Checked, TypeInv, TypeOK, Target
    <3>2. QED
      BY <2>2, <3>1 DEF Arrive, Bearer, ApiKey, Script
  <2>3. ASSUME NEW s \in Slots, Owner(s) PROVE Checked'
    <3>1. CASE account[actor[s]].status = "active"
      BY <2>3, <3>1, OthersStayChecked
      DEF Owner, Goes, Checked, TypeInv, TypeOK, Target
    <3>2. CASE account[actor[s]].status # "active"
      BY <2>1, <2>3, <3>2 DEF Owner
    <3>3. QED
      BY <3>1, <3>2
  <2>4. ASSUME NEW s \in Slots, Read(s) PROVE Checked'
    <3>1. CASE (request[s].op = "revoke" /\ ~Mine(s, Target(s)))
                 \/ SelfRemoval(s)
      BY <2>1, <2>4, <3>1 DEF Read
    <3>2. CASE ~((request[s].op = "revoke" /\ ~Mine(s, Target(s)))
                   \/ SelfRemoval(s))
      <4>1. /\ seen' = [seen EXCEPT ![s] = RowRead(s)]
            /\ Goes(s, IF Removes(request[s]) /\ RowRead(s).role = "admin"
                         THEN "count" ELSE "write")
        BY <2>4, <3>2 DEF Read
      <4>2. Administrative(request[s]) => RowRead(s) = account[Target(s)]
        BY DEF Administrative, RowRead
      <4>3. account' = account /\ request' = request
        BY <4>1 DEF Goes
      <4>4. /\ seen'[s] = RowRead(s)
            /\ pc'[s] # "count" /\ Removes(request[s])
                 => RowRead(s).role # "admin"
        BY <4>1 DEF Goes, TypeInv, TypeOK
      <4>5. \A t \in Slots \ {s} :
              /\ pc'[t] = pc[t] /\ request'[t] = request[t]
              /\ seen'[t] = seen[t] /\ overlapped'[t] = overlapped[t]
        BY <4>1 DEF Goes, TypeInv, TypeOK
      <4>6. QED
        BY <4>2, <4>3, <4>4, <4>5, OthersStayChecked DEF Checked, Target
    <3>3. QED
      BY <3>1, <3>2
  <2>5. ASSUME NEW s \in Slots, Count(s) PROVE Checked'
    <3>1. ~(Cardinality(Admins) <= 1)
      BY <2>5 DEF Count, Last
    <3>2. Admins \ {Target(s)} # {}
      BY <3>1, AnotherAdmin
    <3>3. /\ pc[s] = "count" /\ Goes(s, "write") /\ seen' = seen
      BY <2>5 DEF Count
    <3>4. Admins' = Admins /\ account' = account /\ request' = request
      BY <3>3 DEF Admins, Goes
    <3>5. QED
      BY <3>2, <3>3, <3>4, OthersStayChecked
      DEF Checked, Goes, Target, TypeInv, TypeOK
  <2>6. ASSUME NEW s \in Slots, Write(s) PROVE Checked'
    <3>1. /\ pc[s] = "write" /\ Goes(s, "commit") /\ seen' = seen
      BY <2>6 DEF Write
    <3>2. Admins' = Admins /\ account' = account /\ request' = request
      BY <3>1 DEF Admins, Goes
    <3>3. QED
      BY <3>1, <3>2, OthersStayChecked
      DEF Checked, Goes, Target, TypeInv, TypeOK
  <2>7. ASSUME NEW s \in Slots, Commit(s) PROVE Checked'
    BY <2>7 DEF Commit, Ends, Checked, TypeInv, TypeOK
  <2>8. CASE UNCHANGED vars
    BY <2>8 DEF vars, Checked, Target, Admins
  <2>9. QED
    BY <2>1, <2>2, <2>3, <2>4, <2>5, <2>6, <2>7, <2>8
    DEF Next, Serve, RefuseLast, DeadlockVictim, Abort
<1>3. QED
  BY <1>1, <1>2, TypeInvariant, PTL DEF Spec

(* Only the commit of a request can end the last administrator, and only    *)
(* if another transaction committed while it was served.                    *)
LEMMA CommitKeepsAdmin ==
  ASSUME TypeInv, Checked, NEW s \in Slots, Commit(s), ~overlapped[s],
         Admins # {}
  PROVE  Admins' # {}
<1> DEFINE o == request[s]
           t == Target(s)
<1>1. o \in Operation /\ seen[s] \in Account
  BY DEF Commit, TypeInv, TypeOK, UnderWay
<1>2. CASE t \in Keys
  BY <1>2 DEF Commit, Admins
<1>3. CASE t \notin Keys
  <2>1. /\ t \in Users
        /\ o.op \in {"set_role", "set_active", "script"}
    BY <1>1, <1>3, OperationParts DEF Target
  <2>2. /\ account' = [account EXCEPT ![t] = Written(o, seen[s], account[t])]
        /\ account[t] \in Account
    BY <1>3, <2>1 DEF Commit, TypeInv, TypeOK
  <2>3. \A u \in Admins \ {t} : u \in Admins'
    BY <2>1, <2>2 DEF Admins, TypeInv, TypeOK
  <2>4. account'[t] = Written(o, seen[s], account[t])
    BY <2>1, <2>2 DEF TypeInv, TypeOK
  <2>5. CASE Removes(o)
    <3>1. account[t].role # "admin" \/ Admins \ {t} # {}
      BY <2>5 DEF Checked, Commit, Removes, Demotes, Disables, Administrative
    <3>2. QED
      BY <2>3, <3>1 DEF Admins, IsAdmin
  <2>6. CASE ~Removes(o)
    <3>1. IsAdmin(account[t]) => IsAdmin(account'[t])
      <4>1. CASE o.op = "set_role"
        BY <2>2, <2>4, <2>6, <4>1
        DEF Written, IsAdmin, Removes, Demotes, Account
      <4>2. CASE o.op = "set_active"
        BY <1>1, <2>2, <2>4, <2>6, <4>2, OperationParts
        DEF Written, IsAdmin, Removes, Disables, Account, Statuses
      <4>3. CASE o.op = "script"
        BY <2>2, <2>4, <4>3 DEF Written, IsAdmin, Account
      <4>4. QED
        BY <2>1, <4>1, <4>2, <4>3
    <3>2. QED
      BY <2>1, <2>3, <3>1 DEF Admins
  <2>7. QED
    BY <2>5, <2>6
<1>4. QED
  BY <1>2, <1>3

(* The last active administrator falls only to a request during which       *)
(* another transaction committed.                                           *)
THEOREM LastAdminProtected == Spec => LastAdminFallsOnlyToOverlap
<1> DEFINE Protects == Admins # {} /\ Admins' = {} =>
                         \E s \in Slots : pc[s] = "commit" /\ overlapped[s]
<1>1. TypeInv /\ Checked /\ [Next]_vars => [Protects]_vars
  <2> SUFFICES ASSUME TypeInv, Checked, Next, Admins # {}, Admins' = {}
               PROVE  \E s \in Slots : pc[s] = "commit" /\ overlapped[s]
    OBVIOUS
  <2>1. account' # account
    BY DEF Admins
  <2>2. PICK s \in Slots : Commit(s)
    BY <2>1 DEF Next, Arrive, Bearer, ApiKey, Script, Begin, Serve, Owner, Read,
                RefuseLast, Count, Write, DeadlockVictim, Abort, Goes,
                RolledBack
  <2>3. overlapped[s]
    BY <2>2, CommitKeepsAdmin DEF TypeInv, TypeOK
  <2>4. QED
    BY <2>2, <2>3 DEF Commit
<1>2. QED
  BY <1>1, TypeInvariant, CheckedInvariant, PTL
  DEF Spec, LastAdminFallsOnlyToOverlap

(* Every loss of a role or of access is in the audit log at once.           *)
THEOREM LossesAudited == Spec => LossIsAudited
<1> DEFINE Tells(u) ==
      /\ account'[u].role \notin {account[u].role, "admin"}
           => told' = [op |-> "set_role", target |-> u,
                       value |-> account'[u].role]
      /\ account'[u].status \notin {account[u].status, "active"}
           => told' = [op |-> "set_active", target |-> u,
                       value |-> account'[u].status]
<1>1. TypeInv /\ [Next]_vars => [\A u \in Users : Tells(u)]_vars
  <2> SUFFICES ASSUME TypeInv, Next, NEW u \in Users PROVE Tells(u)
    OBVIOUS
  <2>1. CASE account' = account
    BY <2>1
  <2>2. ASSUME NEW s \in Slots, Commit(s), account' # account PROVE Tells(u)
    <3> DEFINE o == request[s]
               t == Target(s)
    <3>1. o \in Operation /\ seen[s] \in Account
      BY <2>2 DEF Commit, TypeInv, TypeOK, UnderWay
    <3>2. /\ account' = [account EXCEPT ![t] = Written(o, seen[s], account[t])]
          /\ told' = Audited(o, told)
      BY <2>2 DEF Commit
    <3>3. CASE u # t
      BY <3>2, <3>3 DEF TypeInv, TypeOK
    <3>4. CASE u = t
      <4>1. /\ account'[u] = Written(o, seen[s], account[u])
            /\ told' = Audited(o, told) /\ o.target = u
            /\ account[u] \in Account
        BY <3>2, <3>4 DEF TypeInv, TypeOK, Target
      <4>2. CASE o.op = "set_role"
        <5>1. o = [op |-> "set_role", target |-> u, value |-> o.value]
          BY <3>1, <4>1, <4>2 DEF Operation
        <5>2. told' = o
          BY <4>1, <4>2 DEF Audited, Administrative
        <5>3. QED
          BY <4>1, <4>2, <5>1, <5>2 DEF Written, Account
      <4>3. CASE o.op = "set_active"
        <5>1. o = [op |-> "set_active", target |-> u, value |-> o.value]
          BY <3>1, <4>1, <4>3 DEF Operation
        <5>2. told' = o
          BY <4>1, <4>3 DEF Audited, Administrative
        <5>3. QED
          BY <4>1, <4>3, <5>1, <5>2 DEF Written, Account
      <4>4. CASE o.op = "script"
        BY <4>1, <4>4 DEF Written, Account
      <4>5. CASE o.op \in {"mint", "revoke"}
        BY <4>1, <4>5 DEF Written
      <4>6. QED
        BY <3>1, <4>2, <4>3, <4>4, <4>5, OperationParts
    <3>5. QED
      BY <3>3, <3>4
  <2>3. QED
    BY <2>1, <2>2
    DEF Next, Arrive, Bearer, ApiKey, Script, Begin, Serve, Owner, Read,
        RefuseLast, Count, Write, DeadlockVictim, Abort, Goes, RolledBack
<1>2. QED
  BY <1>1, TypeInvariant, PTL DEF Spec, LossIsAudited

(* While requests come one after the other there is always an active        *)
(* administrator, whatever they ask for and whichever API keys they use.    *)
THEOREM SerialAdminRemains ==
  ASSUME \A s, t \in Slots : s = t
  PROVE  Spec => []AdminRemains
<1> DEFINE Alone == \A s \in Slots : ~overlapped[s]
<1>1. Init => Alone /\ AdminRemains
  BY DEF Init, AdminRemains
<1>2. Alone /\ TypeInv /\ [Next]_vars => Alone'
  <2> SUFFICES ASSUME Alone, TypeInv, [Next]_vars PROVE Alone'
    OBVIOUS
  <2>1. ASSUME NEW s \in Slots, Commit(s) PROVE Alone'
    BY <2>1 DEF Commit
  <2>2. CASE overlapped' = overlapped
    BY <2>2
  <2>3. ASSUME NEW s \in Slots, overlapped' = [overlapped EXCEPT ![s] = FALSE]
        PROVE  Alone'
    BY <2>3 DEF TypeInv, TypeOK
  <2>4. QED
    BY <2>1, <2>2, <2>3
    DEF Next, Arrive, Bearer, ApiKey, Script, Begin, Serve, Owner, Read,
        RefuseLast, Count, Write, DeadlockVictim, Abort, Goes, RolledBack, vars
<1>3. Alone /\ TypeInv /\ Checked /\ AdminRemains /\ [Next]_vars
        => AdminRemains'
  <2> SUFFICES ASSUME Alone, TypeInv, Checked, AdminRemains, [Next]_vars
               PROVE  AdminRemains'
    OBVIOUS
  <2>1. ASSUME NEW s \in Slots, Commit(s) PROVE AdminRemains'
    BY <2>1, CommitKeepsAdmin DEF AdminRemains
  <2>2. CASE account' = account
    BY <2>2 DEF AdminRemains, Admins
  <2>3. QED
    BY <2>1, <2>2
    DEF Next, Arrive, Bearer, ApiKey, Script, Begin, Serve, Owner, Read,
        RefuseLast, Count, Write, DeadlockVictim, Abort, Goes, RolledBack, vars
<1>4. QED
  BY <1>1, <1>2, <1>3, TypeInvariant, CheckedInvariant, PTL DEF Spec

=============================================================================
