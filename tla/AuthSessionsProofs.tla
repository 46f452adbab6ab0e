-------------------------- MODULE AuthSessionsProofs --------------------------
(***************************************************************************)
(* Proofs about AuthSessions for any number of requests and tokens, any    *)
(* lifetimes and any resolution of the clock.                              *)
(***************************************************************************)
EXTENDS AuthSessions, TLAPS

Long == Longest * Second

LEMMA Lengths ==
  /\ Longest \in Nat \ {0} /\ Long \in Nat
  /\ Second <= Long
  /\ AccessLife * Second \in Nat /\ AccessLife * Second <= Long
  /\ RefreshLife * Second \in Nat /\ RefreshLife * Second <= Long
  /\ Second <= AccessLife * Second /\ Second <= RefreshLife * Second
<1>1. /\ Longest \in Nat \ {0} /\ AccessLife <= Longest /\ RefreshLife <= Longest
      /\ AccessLife \in Nat \ {0} /\ RefreshLife \in Nat \ {0} /\ Second \in Nat \ {0}
  BY SessionAssumption DEF Longest
<1>2. \A m, n \in Nat : m <= n => m * Second \in Nat /\ m * Second <= n * Second
  BY <1>1
<1>3. QED
  <2>1. Longest \in Nat /\ AccessLife \in Nat /\ RefreshLife \in Nat /\ 1 \in Nat
    BY <1>1
  <2>2. 1 <= AccessLife /\ 1 <= RefreshLife /\ 1 <= Longest
    BY <1>1
  <2>3. 1 * Second = Second
    BY <1>1
  <2>4. QED
    BY <1>1, <1>2, <2>1, <2>2, <2>3 DEF Long

(* Whole seconds cover all of a token's time but less than one of them.     *)
LEMMA TtlCovers ==
  ASSUME TypeOK, NEW t \in Tokens
  PROVE  /\ Ttl(t) \in 0..Longest
         /\ Ttl(t) * Second \in 0..Long
         /\ left[t] < Ttl(t) * Second + Second
<1>1. left[t] \in 0..Longest * Second
  BY DEF TypeOK
<1>2. Longest \in Nat \ {0} /\ Second \in Nat \ {0}
  BY Lengths, SessionAssumption
<1>3. CASE left[t] < Second
  <2>1. Ttl(t) = 1
    BY <1>3 DEF Ttl
  <2>2. Ttl(t) * Second = Second
    BY <1>2, <2>1
  <2>3. QED
    BY <1>1, <1>2, <1>3, <2>1, <2>2, Lengths
<1>4. CASE ~(left[t] < Second)
  <2>1. Ttl(t) = left[t] \div Second
    BY <1>4 DEF Ttl
  <2>2. PICK n \in 0..Longest * Second : n = left[t]
    BY <1>1
  <2>3. PICK d \in Nat : d = n \div Second
    BY <1>2, <2>2
  <2>4. d * Second <= n /\ n < d * Second + Second
    BY <1>2, <2>2, <2>3
  <2>5. d <= Longest
    BY <1>2, <2>2, <2>3, <2>4
  <2>6. d * Second \in Nat /\ d * Second <= Long
    BY <1>2, <2>2, <2>3, <2>4 DEF Long
  <2>7. QED
    BY <2>1, <2>2, <2>3, <2>4, <2>5, <2>6, Lengths
<1>5. QED
  BY <1>3, <1>4

LEMMA IdleIsRequest == Idle \in Request
BY Lengths DEF Idle, Request

LEMMA LessFacts ==
  ASSUME NEW n \in Nat, NEW m \in 0..n
  PROVE  Less(m) \in 0..n
BY DEF Less

(* What a request brings fits its operation, and its next step both.        *)
Shape(u) ==
  /\ u.step \in {"check", "account"} => u.op \in {"refresh", "call"}
  /\ u.step = "revoke" => u.op \in {"refresh", "logout"} /\ u.token \in Refresh
  /\ u.step \in {"issue", "issued"} => u.op \in {"login", "refresh"}
  /\ u.step = "admitted" => u.op = "call"
  /\ u.step \in {"access", "revoke_access", "done"} => u.op = "logout"
  /\ u.step = "revoke_access" => u.other \in Access
  /\ u.op = "refresh" => u.token \in Refresh /\ u.other = NoToken
  /\ u.op = "call" => u.token \in Access
  /\ u.op = "login" => u.token = NoToken

Typed == TypeOK /\ \A q \in Requests : Shape(req[q])

(* A request that goes on into another well-shaped one.                     *)
LEMMA GoesOn ==
  ASSUME Typed, NEW q \in Requests, NEW u \in Request, Shape(u),
         req' = [req EXCEPT ![q] = u]
  PROVE  /\ req' \in [Requests -> Request]
         /\ \A p \in Requests : Shape(req'[p])
         /\ req'[q] = u /\ \A p \in Requests \ {q} : req'[p] = req[p]
<1>1. /\ req' \in [Requests -> Request] /\ req'[q] = u
      /\ \A p \in Requests \ {q} : req'[p] = req[p]
  BY DEF Typed, TypeOK
<1>2. QED
  BY <1>1 DEF Typed

LEMMA IdleShape == Idle \in Request /\ Shape(Idle)
BY IdleIsRequest DEF Idle, Shape

(* Every step of a request replaces its record as a whole.                  *)
Started(q, op, step, token, other, ttl) ==
  [Idle EXCEPT !.op = op, !.step = step, !.token = token, !.other = other,
               !.ttl = ttl, !.late = token \in ended, !.off = ~active]

LEMMA StartMoves ==
  ASSUME Typed, NEW q \in Requests, Start(q)
  PROVE  \E u \in Request :
           /\ Shape(u) /\ req' = [req EXCEPT ![q] = u]
           /\ u.step \in {"issue", "check", "revoke", "access"}
           /\ u.late => u.token \in ended
           /\ u.step = "issue" => u.token = NoToken
           /\ u.step = "revoke" => u.op = "logout" /\ u.ttl = Ttl(u.token)
           /\ u.step = "access" => u.token = NoToken
           /\ u.off <=> ~active
           /\ u.step = "issue" => active
<1> USE SessionAssumption
<1>a. Longest \in Nat \ {0}
  BY Lengths
<1>1. ASSUME NEW op \in {"login", "refresh", "logout", "call"},
             NEW step \in {"check", "revoke", "issue", "access"},
             NEW token \in Tokens \cup {NoToken},
             NEW other \in Access \cup {NoToken},
             NEW ttl \in 0..Longest, Begin(q, op, step, token, other, ttl)
      PROVE  LET u == Started(q, op, step, token, other, ttl) IN
             /\ u \in Request /\ req' = [req EXCEPT ![q] = u]
             /\ u.op = op /\ u.step = step /\ u.token = token /\ u.other = other
             /\ u.ttl = ttl /\ (u.late <=> token \in ended) /\ (u.off <=> ~active)
  <2> DEFINE u == Started(q, op, step, token, other, ttl)
  <2>1. (token \in ended) \in BOOLEAN /\ (~active) \in BOOLEAN
    OBVIOUS
  <2>2. DOMAIN u = {"step", "op", "token", "other", "ttl", "late", "last", "off"}
    BY DEF Started, Idle
  <2>3. /\ u.op = op /\ u.step = step /\ u.token = token /\ u.other = other
        /\ u.ttl = ttl /\ u.last = FALSE
    BY DEF Started, Idle
  <2>6. u.late = (token \in ended) /\ u.off = ~active
    BY DEF Started, Idle
  <2>4. u \in Request
    <3>1. u = [x \in DOMAIN u |-> u[x]]
      BY DEF Started
    <3> HIDE DEF u
    <3>2. QED
      BY <2>1, <2>2, <2>3, <2>6, <3>1 DEF Request
  <2>5. req' = [req EXCEPT ![q] = u]
    BY <1>1 DEF Begin, Started
  <2> HIDE DEF u
  <2>7. QED
    BY <2>3, <2>4, <2>5, <2>6 DEF u
<1>2. CASE Login(q)
  BY <1>1, <1>2, <1>a DEF Login, Shape
<1>3. ASSUME NEW t \in Refresh, StartRefresh(q, t)
      PROVE  LET u == Started(q, "refresh", "check", t, NoToken, 0) IN
             /\ u \in Request /\ Shape(u) /\ req' = [req EXCEPT ![q] = u]
             /\ u.step = "check" /\ (u.late => u.token \in ended)
             /\ (u.off <=> ~active)
  BY <1>1, <1>3, <1>a DEF StartRefresh, Shape, Tokens
<1>4. ASSUME NEW t \in Access, Call(q, t)
      PROVE  LET u == Started(q, "call", "check", t, NoToken, 0) IN
             /\ u \in Request /\ Shape(u) /\ req' = [req EXCEPT ![q] = u]
             /\ u.step = "check" /\ (u.late => u.token \in ended)
             /\ (u.off <=> ~active)
  BY <1>1, <1>4, <1>a DEF Call, Shape, Tokens
<1>5. ASSUME NEW t \in Refresh, NEW a \in Access \cup {NoToken},
             StartLogout(q, t, a), Valid(t)
      PROVE  LET u == Started(q, "logout", "revoke", t, a, Ttl(t)) IN
             /\ u \in Request /\ Shape(u) /\ req' = [req EXCEPT ![q] = u]
             /\ u.step = "revoke" /\ u.op = "logout" /\ u.ttl = Ttl(u.token)
             /\ (u.late => u.token \in ended) /\ (u.off <=> ~active)
  <2>1. t \in Tokens /\ Ttl(t) \in 0..Longest
    BY TtlCovers DEF Typed, Tokens
  <2>2. QED
    BY <1>1, <1>5, <2>1 DEF StartLogout, Shape
<1>6. ASSUME NEW t \in Refresh, NEW a \in Access \cup {NoToken},
             StartLogout(q, t, a), ~Valid(t)
      PROVE  LET u == Started(q, "logout", "access", NoToken, a, 0) IN
             /\ u \in Request /\ Shape(u) /\ req' = [req EXCEPT ![q] = u]
             /\ u.step = "access" /\ u.token = NoToken
             /\ (u.late => u.token \in ended) /\ (u.off <=> ~active)
  BY <1>1, <1>6, <1>a DEF StartLogout, Shape
<1>7. QED
  BY <1>2, <1>3, <1>4, <1>5, <1>6 DEF Start

(* The next record of a request that takes a step, whatever it is.          *)
LEMMA StepMoves ==
  ASSUME Typed, NEW q \in Requests, Step(q) \/ Fails(q)
  PROVE  \E u \in Request : Shape(u) /\ req' = [req EXCEPT ![q] = u]
<1> USE SessionAssumption
<1>a. req[q] \in Request /\ Shape(req[q]) /\ 0 \in 0..Longest
  BY Lengths DEF Typed, TypeOK
<1>b. \A t \in Tokens : Ttl(t) \in 0..Longest
  BY TtlCovers DEF Typed
<1>1. ASSUME Over(q) PROVE \E u \in Request : Shape(u) /\ req' = [req EXCEPT ![q] = u]
  BY <1>1, IdleShape DEF Over
<1>2. ASSUME NEW step \in {"admitted", "issued"}, Goto(q, step),
             Shape([req[q] EXCEPT !.step = step])
      PROVE  \E u \in Request : Shape(u) /\ req' = [req EXCEPT ![q] = u]
  <2> DEFINE u == [req[q] EXCEPT !.step = step]
  <2>1. u \in Request
    BY <1>a DEF Request
  <2>2. req' = [req EXCEPT ![q] = u]
    BY <1>2 DEF Goto
  <2>3. QED
    BY <1>2, <2>1, <2>2
<1>4. CASE Check(q)
  <2>1. CASE revoked[req[q].token] > 0
    BY <1>1, <1>4, <2>1 DEF Check
  <2>2. CASE ~(revoked[req[q].token] > 0)
    <3> DEFINE l == req[q].late /\ left[req[q].token] < Second
               u == [req[q] EXCEPT !.step = "account", !.last = l]
    <3>1. l \in BOOLEAN
      OBVIOUS
    <3>2. req' = [req EXCEPT ![q] = u]
      BY <1>4, <2>2 DEF Check
    <3> HIDE DEF l
    <3>3. u \in Request
      BY <1>a, <3>1 DEF Request
    <3>4. Shape(u)
      BY <1>4, <1>a DEF Shape, Check, Request
    <3>5. QED
      BY <3>2, <3>3, <3>4
  <2>3. QED
    BY <2>1, <2>2
<1>5. CASE Account(q)
  <2>1. CASE ~active
    BY <1>1, <1>5, <2>1 DEF Account
  <2>2. CASE active /\ req[q].op = "call"
    <3>1. Shape([req[q] EXCEPT !.step = "admitted"])
      BY <1>a, <2>2 DEF Shape, Request
    <3>2. QED
      BY <1>2, <1>5, <2>2, <3>1 DEF Account
  <2>3. CASE active /\ req[q].op # "call"
    <3>1. req[q].op = "refresh" /\ req[q].token \in Tokens
      BY <1>5, <1>a, <2>3 DEF Account, Shape, Tokens
    <3>2. Ttl(req[q].token) \in 0..Longest
      BY <1>b, <3>1
    <3> DEFINE u == [req[q] EXCEPT !.step = "revoke", !.ttl = Ttl(req[q].token)]
    <3>3. req' = [req EXCEPT ![q] = u]
      BY <1>5, <2>3 DEF Account
    <3>4. u \in Request
      BY <1>a, <3>2 DEF Request
    <3>5. Shape(u)
      BY <1>a, <3>1 DEF Shape, Request
    <3>6. QED
      BY <3>3, <3>4, <3>5
  <2>4. QED
    BY <2>1, <2>2, <2>3
<1>6. CASE Revoke(q)
  <2> DEFINE u == [req[q] EXCEPT !.ttl = 0,
                    !.step = IF req[q].op = "refresh" THEN "issue" ELSE "access"]
  <2>1. req' = [req EXCEPT ![q] = u]
    BY <1>6 DEF Revoke
  <2>2. u \in Request
    BY <1>a DEF Request
  <2>3. Shape(u)
    BY <1>6, <1>a DEF Revoke, Shape, Request
  <2>4. QED
    BY <2>1, <2>2, <2>3
<1>7. CASE DecodeAccess(q)
  <2>1. CASE Valid(req[q].other)
    <3>1. req[q].other \in Access
      BY <1>a, <2>1 DEF Valid, Tokens, Request
    <3>2. Ttl(req[q].other) \in 0..Longest
      BY <1>b, <3>1 DEF Tokens
    <3> DEFINE u == [req[q] EXCEPT !.step = "revoke_access", !.ttl = Ttl(req[q].other)]
    <3>3. req' = [req EXCEPT ![q] = u]
      BY <1>7, <2>1 DEF DecodeAccess
    <3>4. u \in Request
      BY <1>a, <3>2 DEF Request
    <3>5. Shape(u)
      BY <1>7, <1>a, <3>1 DEF Shape, Request, DecodeAccess
    <3>6. QED
      BY <3>3, <3>4, <3>5
  <2>2. CASE ~Valid(req[q].other)
    <3> DEFINE u == [req[q] EXCEPT !.step = "done", !.other = NoToken]
    <3>1. req' = [req EXCEPT ![q] = u]
      BY <1>7, <2>2 DEF DecodeAccess
    <3>2. u \in Request
      BY <1>a DEF Request
    <3>3. Shape(u)
      BY <1>7, <1>a DEF Shape, Request, DecodeAccess
    <3>4. QED
      BY <3>1, <3>2, <3>3
  <2>3. QED
    BY <2>1, <2>2
<1>8. CASE RevokeAccess(q)
  <2> DEFINE u == [req[q] EXCEPT !.step = "done", !.ttl = 0]
  <2>1. req' = [req EXCEPT ![q] = u]
    BY <1>8 DEF RevokeAccess
  <2>2. u \in Request
    BY <1>a DEF Request
  <2>3. Shape(u)
    BY <1>8, <1>a DEF RevokeAccess, Shape, Request
  <2>4. QED
    BY <2>1, <2>2, <2>3
<1>9. CASE Issue(q)
  <2>1. Shape([req[q] EXCEPT !.step = "issued"])
    BY <1>9, <1>a DEF Issue, Shape, Request
  <2>2. QED
    BY <1>2, <1>9, <2>1 DEF Issue
<1>10. CASE Reply(q)
  BY <1>1, <1>10 DEF Reply
<1>11. CASE Fails(q)
  <2>1. CASE Over(q)
    BY <1>1, <2>1
  <2>2. CASE ~Over(q)
    <3> DEFINE u == [req[q] EXCEPT !.step = "done", !.ttl = 0, !.other = NoToken]
    <3>1. req' = [req EXCEPT ![q] = u] /\ req[q].step = "revoke_access"
      BY <1>11, <2>2 DEF Fails
    <3>2. u \in Request
      BY <1>a DEF Request
    <3>3. Shape(u)
      BY <1>a, <3>1 DEF Shape, Request
    <3>4. QED
      BY <3>1, <3>2, <3>3
  <2>3. QED
    BY <2>1, <2>2
<1>12. QED
  BY <1>4, <1>5, <1>6, <1>7, <1>8, <1>9, <1>10, <1>11 DEF Step

LEMMA SetRevokedType ==
  ASSUME TypeOK, NEW t, NEW ttl \in 0..Longest, SetRevoked(t, ttl)
  PROVE  revoked' \in [Tokens -> 0..Longest * Second]
<1>1. Longest \in Nat /\ Second \in Nat
  BY Lengths, SessionAssumption
<1>2. ttl * Second \in Nat /\ ttl * Second <= Longest * Second
  BY <1>1
<1>3. Longest * Second \in Nat
  BY <1>1
<1>4. ttl * Second \in 0..Longest * Second
  BY <1>2, <1>3
<1>5. QED
  BY <1>4 DEF SetRevoked, TypeOK

LEMMA TypedInit == Init => Typed
<1>1. 0 \in 0..Longest * Second
  BY Lengths DEF Long
<1>2. QED
  BY <1>1, IdleShape, SessionAssumption DEF Init, Typed, TypeOK

LEMMA TypedStep == Typed /\ [Next]_vars => Typed'
<1> SUFFICES ASSUME Typed, [Next]_vars PROVE Typed'
  OBVIOUS
<1> USE SessionAssumption
<1>a. TypeOK /\ Longest \in Nat /\ Long \in Nat /\ Long = Longest * Second
  BY Lengths DEF Typed, Long
<1>1. ASSUME NEW q \in Requests, Start(q) \/ Step(q) \/ Fails(q)
      PROVE  req' \in [Requests -> Request] /\ \A p \in Requests : Shape(req'[p])
  <2>1. \E u \in Request : Shape(u) /\ req' = [req EXCEPT ![q] = u]
    BY <1>1, StartMoves, StepMoves
  <2>2. QED
    BY <2>1, GoesOn
<1>2. CASE UNCHANGED vars
  BY <1>2 DEF vars, Typed, TypeOK
<1>3. ASSUME NEW q \in Requests, Start(q) PROVE Typed'
  <2>1. UNCHANGED <<active, phase, left, revoked, ended>>
    BY <1>3 DEF Start, Login, StartRefresh, StartLogout, Call, Begin
  <2>2. QED
    BY <1>1, <1>3, <2>1, <1>a DEF Typed, TypeOK
<1>4. ASSUME NEW q \in Requests, Step(q) \/ Fails(q) PROVE Typed'
  <2>1. revoked' \in [Tokens -> 0..Longest * Second]
    <3>1. req[q].ttl \in 0..Longest
      BY <1>a DEF TypeOK, Request
    <3>2. CASE revoked' = revoked
      BY <3>2, <1>a DEF TypeOK
    <3>3. CASE revoked' # revoked
      <4>1. \/ SetRevoked(req[q].token, req[q].ttl)
            \/ SetRevoked(req[q].other, req[q].ttl)
        BY <1>4, <3>3 DEF Step, Check, Account, Revoke, DecodeAccess,
                          RevokeAccess, Issue, Reply, Fails
      <4>2. QED
        BY <3>1, <4>1, <1>a, SetRevokedType
    <3>4. QED
      BY <3>2, <3>3
  <2>2. left' \in [Tokens -> 0..Longest * Second]
    <3>1. CASE Issue(q)
      <4>1. /\ AccessLife * Second - phase \in 0..Longest * Second
            /\ RefreshLife * Second - phase \in 0..Longest * Second
        BY <1>a, Lengths DEF TypeOK
      <4>2. QED
        BY <3>1, <4>1, <1>a DEF Issue, TypeOK
    <3>2. CASE ~Issue(q)
      BY <1>4, <3>2, <1>a DEF Step, Check, Account, Revoke, DecodeAccess,
                              RevokeAccess, Reply, Fails, TypeOK
    <3>3. QED
      BY <3>1, <3>2
  <2>3. ended' \subseteq Tokens
    BY <1>4, <1>a DEF Step, Check, Account, Revoke, DecodeAccess, RevokeAccess,
                      Issue, Reply, Fails, TypeOK, Valid
  <2>4. active' = active /\ phase' = phase
    BY <1>4 DEF Step, Check, Account, Revoke, DecodeAccess, RevokeAccess,
                Issue, Reply, Fails
  <2>5. QED
    BY <1>1, <1>4, <2>1, <2>2, <2>3, <2>4, <1>a DEF Typed, TypeOK
<1>5. ASSUME NEW on \in BOOLEAN, SetActive(on) PROVE Typed'
  <2>1. \A q \in Requests : req[q] \in Request /\ Shape(req[q])
    BY <1>a DEF Typed, TypeOK
  <2>2. \A q \in Requests : [req[q] EXCEPT !.off = @ /\ ~on] \in Request
    <3>1. ASSUME NEW u \in Request PROVE [u EXCEPT !.off = @ /\ ~on] \in Request
      BY DEF Request
    <3>2. QED
      BY <2>1, <3>1
  <2>3. \A q \in Requests : Shape([req[q] EXCEPT !.off = @ /\ ~on])
    BY <2>1 DEF Shape, Request
  <2>4. QED
    BY <1>5, <2>2, <2>3, <1>a DEF SetActive, Typed, TypeOK
<1>6. CASE Tick
  <2>1. phase' \in 0..Second - 1
    BY <1>6, <1>a DEF Tick, TypeOK
  <2>2. /\ left' \in [Tokens -> 0..Longest * Second]
        /\ revoked' \in [Tokens -> 0..Longest * Second]
    BY <1>6, <1>a, LessFacts DEF Tick, TypeOK
  <2>3. QED
    BY <1>6, <2>1, <2>2, <1>a DEF Tick, Typed, TypeOK
<1>7. QED
  BY <1>2, <1>3, <1>4, <1>5, <1>6 DEF Next

(* The variables keep their types.                                          *)
THEOREM TypeCorrect == Spec => []TypeOK
<1>1. Typed => TypeOK
  BY DEF Typed
<1>2. QED
  BY <1>1, TypedInit, TypedStep, PTL DEF Spec

-----------------------------------------------------------------------------
(* A token's revocation outlasts it, but for less than a second.            *)
Covers(lf, rv, t) == lf[t] < rv[t] + Second

Past(u) == u.step \in {"account", "issue", "issued", "admitted"}
           \/ (u.op = "refresh" /\ u.step = "revoke")

Revoked(u) == \/ u.op = "refresh" /\ u.step \in {"issue", "issued"}
              \/ u.op = "logout" /\ u.step \in {"access", "revoke_access", "done"}

(* What a request has computed is long enough, what it has revoked is       *)
(* covered, and if it came late its token is past its end or past its exp.  *)
Good(u, lf, rv, en) ==
  /\ u.step = "revoke" => lf[u.token] < u.ttl * Second + Second
  /\ u.step = "revoke_access" => lf[u.other] < u.ttl * Second + Second
  /\ Revoked(u) /\ u.token \in Tokens => Covers(lf, rv, u.token)
  /\ u.step = "done" /\ u.other \in Tokens => Covers(lf, rv, u.other)
  /\ u.late => u.token \in Tokens /\ (u.token \in en \/ lf[u.token] = 0)
  /\ u.late /\ Past(u) => u.last

SessionInv ==
  /\ \A t \in ended : Covers(left, revoked, t)
  /\ \A q \in Requests : Good(req[q], left, revoked, ended)

LEMMA IdleGood == \A lf, rv, en : Good(Idle, lf, rv, en)
BY DEF Idle, Good, Past, Revoked

(* Good survives what other requests and the clock do to tokens.            *)
LEMMA Keeps ==
  ASSUME Typed, Typed', NEW u \in Request, Shape(u), Good(u, left, revoked, ended),
         \A t \in Tokens \cap {u.token, u.other} :
           /\ left'[t] <= left[t]
           /\ Covers(left, revoked, t) => Covers(left', revoked', t)
           /\ t \in ended \/ left[t] = 0 => t \in ended' \/ left'[t] = 0
  PROVE  Good(u, left', revoked', ended')
<1>1. u.step = "revoke" => left'[u.token] < u.ttl * Second + Second
  <2> SUFFICES ASSUME u.step = "revoke"
               PROVE  left'[u.token] < u.ttl * Second + Second
    OBVIOUS
  <2>1. u.token \in Tokens
    BY DEF Shape, Tokens
  <2>2. left'[u.token] <= left[u.token] /\ left[u.token] < u.ttl * Second + Second
    BY <2>1 DEF Good
  <2>3. left'[u.token] \in Int /\ left[u.token] \in Int
    BY <2>1 DEF Typed, TypeOK
  <2>4. u.ttl * Second + Second \in Int
    BY SessionAssumption, Lengths DEF Request
  <2>5. QED
    BY <2>2, <2>3, <2>4
<1>2. u.step = "revoke_access" => left'[u.other] < u.ttl * Second + Second
  <2> SUFFICES ASSUME u.step = "revoke_access"
               PROVE  left'[u.other] < u.ttl * Second + Second
    OBVIOUS
  <2>1. u.other \in Tokens
    BY DEF Shape, Tokens
  <2>2. left'[u.other] <= left[u.other] /\ left[u.other] < u.ttl * Second + Second
    BY <2>1 DEF Good
  <2>3. left'[u.other] \in Int /\ left[u.other] \in Int
    BY <2>1 DEF Typed, TypeOK
  <2>4. u.ttl * Second + Second \in Int
    BY SessionAssumption, Lengths DEF Request
  <2>5. QED
    BY <2>2, <2>3, <2>4
<1>3. QED
  BY <1>1, <1>2 DEF Good

(* A revocation that lasts long enough uncovers no token.                   *)
LEMMA SetCovers ==
  ASSUME Typed, NEW s \in Tokens, NEW ttl \in 0..Longest, SetRevoked(s, ttl),
         left[s] < ttl * Second + Second, left' = left
  PROVE  /\ Covers(left', revoked', s)
         /\ \A t \in Tokens : Covers(left, revoked, t) => Covers(left', revoked', t)
<1>1. revoked'[s] = ttl * Second /\ \A t \in Tokens \ {s} : revoked'[t] = revoked[t]
  BY DEF SetRevoked, Typed, TypeOK
<1>2. QED
  BY <1>1 DEF Covers

(* What is left to show of a step of request q.                             *)
LEMMA OthersKeep ==
  ASSUME Typed, Typed', SessionInv, NEW q \in Requests,
         \A p \in Requests \ {q} : req'[p] = req[p],
         Good(req'[q], left', revoked', ended'),
         \A t \in ended' : Covers(left', revoked', t),
         \A p \in Requests \ {q} : \A t \in Tokens \cap {req[p].token, req[p].other} :
           /\ left'[t] <= left[t]
           /\ Covers(left, revoked, t) => Covers(left', revoked', t)
           /\ t \in ended \/ left[t] = 0 => t \in ended' \/ left'[t] = 0
  PROVE  SessionInv'
<1>1. ASSUME NEW p \in Requests \ {q} PROVE Good(req'[p], left', revoked', ended')
  <2>1. req[p] \in Request /\ Shape(req[p]) /\ Good(req[p], left, revoked, ended)
    BY DEF Typed, TypeOK, SessionInv
  <2>2. Good(req[p], left', revoked', ended')
    BY <2>1, Keeps
  <2>3. QED
    BY <2>2
<1>2. QED
  BY <1>1 DEF SessionInv

(* Steps that touch no token.                                               *)
LEMMA Quiet ==
  ASSUME Typed, Typed', SessionInv, NEW q \in Requests,
         \A p \in Requests \ {q} : req'[p] = req[p],
         Good(req'[q], left, revoked, ended),
         UNCHANGED <<left, revoked, ended>>
  PROVE  SessionInv'
<1>1. \A t \in ended' : Covers(left', revoked', t)
  BY DEF SessionInv
<1>2. Good(req'[q], left', revoked', ended')
  OBVIOUS
<1>3. \A t \in Tokens : left'[t] <= left[t]
  BY DEF Typed, TypeOK
<1>4. \A p \in Requests \ {q} : \A t \in Tokens \cap {req[p].token, req[p].other} :
        /\ left'[t] <= left[t]
        /\ Covers(left, revoked, t) => Covers(left', revoked', t)
        /\ t \in ended \/ left[t] = 0 => t \in ended' \/ left'[t] = 0
  BY <1>3
<1>5. QED
  BY <1>1, <1>2, <1>4, OthersKeep

(* Steps that set a revocation which is long enough.                        *)
LEMMA Sets ==
  ASSUME Typed, Typed', SessionInv, NEW q \in Requests,
         \A p \in Requests \ {q} : req'[p] = req[p],
         NEW s \in Tokens, NEW ttl \in 0..Longest, SetRevoked(s, ttl),
         left[s] < ttl * Second + Second, UNCHANGED <<left, ended>>,
         Good(req'[q], left', revoked', ended')
  PROVE  SessionInv'
<1>1. \A t \in Tokens : Covers(left, revoked, t) => Covers(left', revoked', t)
  BY SetCovers
<1>2. \A t \in ended' : Covers(left', revoked', t)
  BY <1>1 DEF SessionInv, Typed, TypeOK
<1>3. \A t \in Tokens : left'[t] <= left[t]
  BY DEF Typed, TypeOK
<1>4. \A p \in Requests \ {q} : \A t \in Tokens \cap {req[p].token, req[p].other} :
        /\ left'[t] <= left[t]
        /\ Covers(left, revoked, t) => Covers(left', revoked', t)
        /\ t \in ended \/ left[t] = 0 => t \in ended' \/ left'[t] = 0
  BY <1>1, <1>3
<1>5. QED
  BY <1>2, <1>4, OthersKeep

LEMMA StartKeeps ==
  ASSUME Typed, Typed', SessionInv, NEW q \in Requests, Start(q)
  PROVE  SessionInv'
<1>1. PICK u \in Request :
        /\ Shape(u) /\ req' = [req EXCEPT ![q] = u]
        /\ u.step \in {"issue", "check", "revoke", "access"}
        /\ u.late => u.token \in ended
        /\ u.step = "issue" => u.token = NoToken
        /\ u.step = "revoke" => u.op = "logout" /\ u.ttl = Ttl(u.token)
        /\ u.step = "access" => u.token = NoToken
  BY StartMoves
<1>2. UNCHANGED <<left, revoked, ended>>
  BY DEF Start, Login, StartRefresh, StartLogout, Call, Begin
<1>3. req'[q] = u /\ \A p \in Requests \ {q} : req'[p] = req[p]
  BY <1>1, GoesOn
<1>4. NoToken \notin Tokens /\ ended \subseteq Tokens
  BY SessionAssumption DEF Tokens, Typed, TypeOK
<1>5. u.step = "revoke" => left[u.token] < u.ttl * Second + Second
  <2>1. u.step = "revoke" => u.token \in Tokens
    BY <1>1 DEF Shape, Tokens
  <2>2. QED
    BY <1>1, <2>1, TtlCovers DEF Typed
<1>6. Good(u, left, revoked, ended)
  BY <1>1, <1>4, <1>5 DEF Good, Past, Revoked, Shape
<1>7. QED
  BY <1>2, <1>3, <1>6, Quiet

LEMMA SessionInit == Init => SessionInv
BY IdleGood DEF Init, SessionInv

(* What the request of a step was, and that the step leaves the others.     *)
LEMMA Mine ==
  ASSUME Typed, SessionInv, NEW q \in Requests
  PROVE  /\ req[q] \in Request /\ Shape(req[q])
         /\ Good(req[q], left, revoked, ended)
         /\ \A u : req' = [req EXCEPT ![q] = u] =>
                   req'[q] = u /\ \A p \in Requests \ {q} : req'[p] = req[p]
BY DEF Typed, TypeOK, SessionInv

LEMMA OverKeeps ==
  ASSUME Typed, Typed', SessionInv, NEW q \in Requests, Over(q),
         UNCHANGED <<left, revoked, ended>>
  PROVE  SessionInv'
<1>1. req'[q] = Idle /\ \A p \in Requests \ {q} : req'[p] = req[p]
  BY Mine DEF Over
<1>2. Good(req'[q], left, revoked, ended)
  BY <1>1, IdleGood
<1>3. QED
  BY <1>1, <1>2, Quiet

LEMMA CheckKeeps ==
  ASSUME Typed, Typed', SessionInv, NEW q \in Requests, Check(q)
  PROVE  SessionInv'
<1>1. UNCHANGED <<left, revoked, ended>>
  BY DEF Check
<1>2. CASE revoked[req[q].token] > 0
  BY <1>1, <1>2, OverKeeps DEF Check
<1>3. CASE ~(revoked[req[q].token] > 0)
  <2> DEFINE t == req[q].token
             u == [req[q] EXCEPT !.step = "account",
                                 !.last = req[q].late /\ left[t] < Second]
  <2>1. req' = [req EXCEPT ![q] = u]
    BY <1>3 DEF Check
  <2>2. req'[q] = u /\ \A p \in Requests \ {q} : req'[p] = req[p]
    BY <2>1, Mine
  <2>3. /\ u.step = "account" /\ u.op = req[q].op /\ u.token = t
        /\ u.other = req[q].other /\ u.late = req[q].late
        /\ u.last = (req[q].late /\ left[t] < Second)
    BY Mine DEF Request
  <2>4. req[q].late => left[t] < Second
    <3> SUFFICES ASSUME req[q].late PROVE left[t] < Second
      OBVIOUS
    <3>1. t \in Tokens /\ (t \in ended \/ left[t] = 0)
      BY Mine DEF Good
    <3>2. revoked[t] = 0 /\ left[t] \in Nat
      BY <1>3, <3>1, Lengths DEF Typed, TypeOK, Long
    <3>3. t \in ended => left[t] < revoked[t] + Second
      BY DEF SessionInv, Covers
    <3>4. QED
      BY <3>1, <3>2, <3>3, SessionAssumption
  <2>5. u.late => u.last
    BY <2>3, <2>4
  <2> HIDE DEF u
  <2>6. Good(u, left, revoked, ended)
    BY <2>3, <2>5, Mine DEF Good, Past, Revoked
  <2>7. QED
    BY <1>1, <2>2, <2>6, Quiet
<1>4. QED
  BY <1>2, <1>3

LEMMA AccountKeeps ==
  ASSUME Typed, Typed', SessionInv, NEW q \in Requests, Account(q)
  PROVE  SessionInv'
<1>1. UNCHANGED <<left, revoked, ended>>
  BY DEF Account
<1>2. CASE ~active
  BY <1>1, <1>2, OverKeeps DEF Account
<1>3. CASE active /\ req[q].op = "call"
  <2> DEFINE u == [req[q] EXCEPT !.step = "admitted"]
  <2>1. req' = [req EXCEPT ![q] = u]
    BY <1>3 DEF Account, Goto
  <2>2. req'[q] = u /\ \A p \in Requests \ {q} : req'[p] = req[p]
    BY <2>1, Mine
  <2>3. /\ u.step = "admitted" /\ u.op = "call" /\ u.token = req[q].token
        /\ u.late = req[q].late /\ u.last = req[q].last
    BY <1>3, Mine DEF Request
  <2>4. req[q].step = "account"
    BY DEF Account
  <2> HIDE DEF u
  <2>5. Good(u, left, revoked, ended)
    BY <2>3, <2>4, Mine DEF Good, Past, Revoked
  <2>6. QED
    BY <1>1, <2>2, <2>5, Quiet
<1>4. CASE active /\ req[q].op # "call"
  <2> DEFINE t == req[q].token
             u == [req[q] EXCEPT !.step = "revoke", !.ttl = Ttl(t)]
  <2>1. req' = [req EXCEPT ![q] = u]
    BY <1>4 DEF Account
  <2>2. req'[q] = u /\ \A p \in Requests \ {q} : req'[p] = req[p]
    BY <2>1, Mine
  <2>3. /\ u.step = "revoke" /\ u.token = t /\ u.ttl = Ttl(t)
        /\ u.late = req[q].late /\ u.last = req[q].last
    BY Mine DEF Request
  <2>4. req[q].step = "account" /\ t \in Tokens
    BY <1>4, Mine DEF Account, Shape, Tokens
  <2>5. left[t] < Ttl(t) * Second + Second
    BY <2>4, TtlCovers DEF Typed
  <2> HIDE DEF u
  <2>6. Good(u, left, revoked, ended)
    BY <2>3, <2>4, <2>5, Mine DEF Good, Past, Revoked
  <2>7. QED
    BY <1>1, <2>2, <2>6, Quiet
<1>5. QED
  BY <1>2, <1>3, <1>4

LEMMA RevokeKeeps ==
  ASSUME Typed, Typed', SessionInv, NEW q \in Requests, Revoke(q)
  PROVE  SessionInv'
<1> DEFINE t == req[q].token
           u == [req[q] EXCEPT !.ttl = 0,
                  !.step = IF req[q].op = "refresh" THEN "issue" ELSE "access"]
<1>1. /\ req' = [req EXCEPT ![q] = u] /\ UNCHANGED <<left, ended>>
      /\ SetRevoked(t, req[q].ttl) /\ req[q].step = "revoke"
  BY DEF Revoke
<1> HIDE DEF u
<1>2. req'[q] = u /\ \A p \in Requests \ {q} : req'[p] = req[p]
  BY <1>1, Mine
<1>3. /\ u.step \in {"issue", "access"} /\ u.op = req[q].op /\ u.token = t
      /\ u.late = req[q].late /\ u.last = req[q].last
      /\ u.step = "issue" => req[q].op = "refresh"
  BY Mine DEF Request, u
<1>4. /\ t \in Tokens /\ req[q].ttl \in 0..Longest
      /\ left[t] < req[q].ttl * Second + Second
  BY <1>1, Mine DEF Shape, Good, Request, Tokens
<1>5. Covers(left', revoked', t)
  BY <1>1, <1>4, SetCovers
<1>6. Good(u, left', revoked', ended')
  BY <1>1, <1>3, <1>5, Mine DEF Good, Past, Revoked
<1>7. QED
  BY <1>1, <1>2, <1>4, <1>6, Sets

LEMMA DecodeAccessKeeps ==
  ASSUME Typed, Typed', SessionInv, NEW q \in Requests, DecodeAccess(q)
  PROVE  SessionInv'
<1>1. UNCHANGED <<left, revoked, ended>> /\ req[q].step = "access"
  BY DEF DecodeAccess
<1>2. req[q].op = "logout"
  BY <1>1, Mine DEF Shape
<1>3. CASE Valid(req[q].other)
  <2> DEFINE a == req[q].other
             u == [req[q] EXCEPT !.step = "revoke_access", !.ttl = Ttl(a)]
  <2>1. req' = [req EXCEPT ![q] = u]
    BY <1>3 DEF DecodeAccess
  <2>2. req'[q] = u /\ \A p \in Requests \ {q} : req'[p] = req[p]
    BY <2>1, Mine
  <2>3. /\ u.step = "revoke_access" /\ u.op = "logout" /\ u.token = req[q].token
        /\ u.other = a /\ u.ttl = Ttl(a) /\ u.late = req[q].late
    BY <1>2, Mine DEF Request
  <2>4. left[a] < Ttl(a) * Second + Second
    BY <1>3, TtlCovers DEF Typed, Valid
  <2> HIDE DEF u
  <2>5. Good(u, left, revoked, ended)
    BY <1>1, <1>2, <2>3, <2>4, Mine DEF Good, Past, Revoked
  <2>6. QED
    BY <1>1, <2>2, <2>5, Quiet
<1>4. CASE ~Valid(req[q].other)
  <2> DEFINE u == [req[q] EXCEPT !.step = "done", !.other = NoToken]
  <2>1. req' = [req EXCEPT ![q] = u]
    BY <1>4 DEF DecodeAccess
  <2>2. req'[q] = u /\ \A p \in Requests \ {q} : req'[p] = req[p]
    BY <2>1, Mine
  <2>3. /\ u.step = "done" /\ u.op = "logout" /\ u.token = req[q].token
        /\ u.other = NoToken /\ u.late = req[q].late
    BY <1>2, Mine DEF Request
  <2>4. NoToken \notin Tokens
    BY SessionAssumption DEF Tokens
  <2> HIDE DEF u
  <2>5. Good(u, left, revoked, ended)
    BY <1>1, <1>2, <2>3, <2>4, Mine DEF Good, Past, Revoked
  <2>6. QED
    BY <1>1, <2>2, <2>5, Quiet
<1>5. QED
  BY <1>3, <1>4

LEMMA RevokeAccessKeeps ==
  ASSUME Typed, Typed', SessionInv, NEW q \in Requests, RevokeAccess(q)
  PROVE  SessionInv'
<1> DEFINE a == req[q].other
           u == [req[q] EXCEPT !.step = "done", !.ttl = 0]
<1>1. /\ req' = [req EXCEPT ![q] = u] /\ UNCHANGED <<left, ended>>
      /\ SetRevoked(a, req[q].ttl) /\ req[q].step = "revoke_access"
  BY DEF RevokeAccess
<1> HIDE DEF u
<1>2. req'[q] = u /\ \A p \in Requests \ {q} : req'[p] = req[p]
  BY <1>1, Mine
<1>3. /\ u.step = "done" /\ u.op = req[q].op /\ u.token = req[q].token
      /\ u.other = a /\ u.late = req[q].late /\ u.last = req[q].last
  BY Mine DEF Request, u
<1>4. /\ a \in Tokens /\ req[q].ttl \in 0..Longest /\ req[q].op = "logout"
      /\ left[a] < req[q].ttl * Second + Second
  BY <1>1, Mine DEF Shape, Good, Request, Tokens
<1>5. /\ Covers(left', revoked', a)
      /\ \A t \in Tokens : Covers(left, revoked, t) => Covers(left', revoked', t)
  BY <1>1, <1>4, SetCovers
<1>6. Good(u, left', revoked', ended')
  BY <1>1, <1>3, <1>4, <1>5, Mine DEF Good, Past, Revoked
<1>7. QED
  BY <1>1, <1>2, <1>4, <1>6, Sets

(* The tokens of a new pair are nobody's yet.                               *)
LEMMA IssueKeeps ==
  ASSUME Typed, Typed', SessionInv, NEW q \in Requests, Issue(q)
  PROVE  SessionInv'
<1>1. PICK a \in Access, r \in Refresh :
        /\ \A p \in Requests : {a, r} \cap {req[p].token, req[p].other} = {}
        /\ \A t \in Tokens \ {a, r} : left'[t] = left[t]
        /\ ended' = ended \ {a, r}
  BY DEF Issue, Fresh, Typed, TypeOK
<1> DEFINE u == [req[q] EXCEPT !.step = "issued"]
<1>2. req' = [req EXCEPT ![q] = u] /\ revoked' = revoked /\ req[q].step = "issue"
  BY DEF Issue, Goto
<1> HIDE DEF u
<1>3. req'[q] = u /\ \A p \in Requests \ {q} : req'[p] = req[p]
  BY <1>2, Mine
<1>4. /\ u.step = "issued" /\ u.op = req[q].op /\ u.token = req[q].token
      /\ u.late = req[q].late /\ u.last = req[q].last
  BY Mine DEF Request, u
<1>5. \A p \in Requests : \A t \in Tokens \cap {req[p].token, req[p].other} :
        /\ left'[t] = left[t] /\ left'[t] <= left[t]
        /\ Covers(left, revoked, t) => Covers(left', revoked', t)
        /\ t \in ended => t \in ended'
  <2> SUFFICES ASSUME NEW p \in Requests,
                      NEW t \in Tokens \cap {req[p].token, req[p].other}
               PROVE  /\ left'[t] = left[t] /\ left'[t] <= left[t]
                      /\ Covers(left, revoked, t) => Covers(left', revoked', t)
                      /\ t \in ended => t \in ended'
    OBVIOUS
  <2>1. t \notin {a, r} /\ left'[t] = left[t]
    BY <1>1
  <2>2. left[t] \in Nat
    BY Lengths DEF Typed, TypeOK, Long
  <2>3. QED
    BY <1>1, <1>2, <2>1, <2>2 DEF Covers
<1>6. Good(u, left', revoked', ended')
  <2>1. u.op = "refresh" \/ u.op = "login"
    BY <1>2, <1>4, Mine DEF Shape
  <2>2. u.token \in Tokens /\ Revoked(u) => Covers(left', revoked', u.token)
    BY <1>2, <1>4, <1>5, <2>1, Mine DEF Good, Revoked
  <2>3. u.late => u.token \in Tokens /\ (u.token \in ended' \/ left'[u.token] = 0)
    <3>1. req[q].late => /\ req[q].token \in Tokens
                         /\ req[q].token \in ended \/ left[req[q].token] = 0
      BY Mine DEF Good
    <3>2. req[q].token \in Tokens =>
            /\ left'[req[q].token] = left[req[q].token]
            /\ req[q].token \in ended => req[q].token \in ended'
      BY <1>5
    <3>3. QED
      BY <1>4, <3>1, <3>2
  <2>4. u.late => u.last
    BY <1>2, <1>4, Mine DEF Good, Past
  <2>5. QED
    BY <1>4, <2>2, <2>3, <2>4 DEF Good
<1>7. \A t \in ended' : Covers(left', revoked', t)
  BY <1>1, <1>2 DEF SessionInv, Covers, Typed, TypeOK
<1>8. \A p \in Requests \ {q} : \A t \in Tokens \cap {req[p].token, req[p].other} :
        /\ left'[t] <= left[t]
        /\ Covers(left, revoked, t) => Covers(left', revoked', t)
        /\ t \in ended \/ left[t] = 0 => t \in ended' \/ left'[t] = 0
  BY <1>5
<1>9. QED
  BY <1>3, <1>6, <1>7, <1>8, OthersKeep

(* What a reply acknowledges has been revoked.                              *)
LEMMA ReplyKeeps ==
  ASSUME Typed, Typed', SessionInv, NEW q \in Requests, Reply(q)
  PROVE  SessionInv'
<1>1. /\ req' = [req EXCEPT ![q] = Idle] /\ left' = left /\ revoked' = revoked
      /\ req[q].step \in {"issued", "admitted", "done"}
  BY DEF Reply, Over
<1>2. req'[q] = Idle /\ \A p \in Requests \ {q} : req'[p] = req[p]
  BY <1>1, Mine
<1>3. ended \subseteq ended'
  BY DEF Reply
<1>4. \A t \in ended' \ ended : Covers(left, revoked, t)
  <2> SUFFICES ASSUME NEW t \in ended' \ ended PROVE Covers(left, revoked, t)
    OBVIOUS
  <2>1. /\ req[q].op \in {"refresh", "logout"} /\ t \in Tokens
        /\ t \in {req[q].token, req[q].other}
    BY DEF Reply, Valid
  <2>2. CASE req[q].op = "refresh"
    <3>1. req[q].step = "issued" /\ t = req[q].token
      BY <1>1, <2>1, <2>2, Mine, SessionAssumption DEF Shape, Tokens
    <3>2. QED
      BY <2>1, <2>2, <3>1, Mine DEF Good, Revoked
  <2>3. CASE req[q].op = "logout"
    <3>1. req[q].step = "done"
      BY <1>1, <2>3, Mine DEF Shape
    <3>2. QED
      BY <2>1, <2>3, <3>1, Mine DEF Good, Revoked
  <2>4. QED
    BY <2>1, <2>2, <2>3
<1>5. \A t \in ended' : Covers(left', revoked', t)
  BY <1>1, <1>4 DEF SessionInv
<1>6. \A t \in Tokens : left'[t] <= left[t]
  BY <1>1 DEF Typed, TypeOK
<1>7. \A p \in Requests \ {q} : \A t \in Tokens \cap {req[p].token, req[p].other} :
        /\ left'[t] <= left[t]
        /\ Covers(left, revoked, t) => Covers(left', revoked', t)
        /\ t \in ended \/ left[t] = 0 => t \in ended' \/ left'[t] = 0
  BY <1>1, <1>3, <1>6
<1>8. Good(req'[q], left', revoked', ended')
  BY <1>2, IdleGood
<1>9. QED
  BY <1>2, <1>5, <1>7, <1>8, OthersKeep

LEMMA FailsKeeps ==
  ASSUME Typed, Typed', SessionInv, NEW q \in Requests, Fails(q)
  PROVE  SessionInv'
<1>1. UNCHANGED <<left, ended>>
  BY DEF Fails
<1>2. CASE Over(q) /\ UNCHANGED revoked
  BY <1>1, <1>2, OverKeeps
<1>3. CASE req[q].step = "revoke" /\ Over(q) /\ SetRevoked(req[q].token, req[q].ttl)
  <2>1. /\ req[q].token \in Tokens /\ req[q].ttl \in 0..Longest
        /\ left[req[q].token] < req[q].ttl * Second + Second
    BY <1>3, Mine DEF Shape, Good, Request, Tokens
  <2>2. req'[q] = Idle /\ \A p \in Requests \ {q} : req'[p] = req[p]
    BY <1>3, Mine DEF Over
  <2>3. Good(req'[q], left', revoked', ended')
    BY <2>2, IdleGood
  <2>4. QED
    BY <1>1, <1>3, <2>1, <2>2, <2>3, Sets
<1>4. CASE /\ req[q].step = "revoke_access"
           /\ req' = [req EXCEPT ![q].step = "done", ![q].ttl = 0,
                                  ![q].other = NoToken]
           /\ SetRevoked(req[q].other, req[q].ttl) \/ UNCHANGED revoked
  <2> DEFINE a == req[q].other
             u == [req[q] EXCEPT !.step = "done", !.ttl = 0, !.other = NoToken]
  <2>1. req' = [req EXCEPT ![q] = u]
    BY <1>4
  <2> HIDE DEF u
  <2>2. req'[q] = u /\ \A p \in Requests \ {q} : req'[p] = req[p]
    BY <2>1, Mine
  <2>3. /\ u.step = "done" /\ u.op = req[q].op /\ u.token = req[q].token
        /\ u.other = NoToken /\ u.late = req[q].late
    BY Mine DEF Request, u
  <2>4. NoToken \notin Tokens /\ req[q].op = "logout"
    BY <1>4, Mine, SessionAssumption DEF Tokens, Shape
  <2>5. CASE UNCHANGED revoked
    <3>1. Good(u, left, revoked, ended)
      BY <1>4, <2>3, <2>4, Mine DEF Good, Past, Revoked
    <3>2. QED
      BY <1>1, <2>2, <2>5, <3>1, Quiet
  <2>6. CASE SetRevoked(a, req[q].ttl)
    <3>1. /\ a \in Tokens /\ req[q].ttl \in 0..Longest
          /\ left[a] < req[q].ttl * Second + Second
      BY <1>4, Mine DEF Shape, Good, Request, Tokens
    <3>2. \A t \in Tokens : Covers(left, revoked, t) => Covers(left', revoked', t)
      BY <1>1, <2>6, <3>1, SetCovers
    <3>3. Good(u, left', revoked', ended')
      BY <1>1, <1>4, <2>3, <2>4, <3>2, Mine DEF Good, Past, Revoked
    <3>4. QED
      BY <1>1, <2>2, <2>6, <3>1, <3>3, Sets
  <2>7. QED
    BY <1>4, <2>5, <2>6
<1>5. QED
  BY <1>2, <1>3, <1>4 DEF Fails

LEMMA SetActiveKeeps ==
  ASSUME Typed, SessionInv, NEW on \in BOOLEAN, SetActive(on)
  PROVE  SessionInv'
<1>1. UNCHANGED <<left, revoked, ended>>
  BY DEF SetActive
<1>2. ASSUME NEW q \in Requests PROVE Good(req'[q], left, revoked, ended)
  <2> DEFINE o == req[q].off /\ ~on
             u == [req[q] EXCEPT !.off = o]
  <2>1. req'[q] = u
    BY DEF SetActive
  <2> HIDE DEF o
  <2>2. /\ u.step = req[q].step /\ u.op = req[q].op /\ u.token = req[q].token
        /\ u.other = req[q].other /\ u.ttl = req[q].ttl
        /\ u.late = req[q].late /\ u.last = req[q].last
    BY Mine DEF Request
  <2> HIDE DEF u
  <2>3. Good(u, left, revoked, ended)
    BY <2>2, Mine DEF Good, Past, Revoked
  <2>4. QED
    BY <2>1, <2>3
<1>3. QED
  BY <1>1, <1>2 DEF SessionInv

(* Time runs for a token and for its revocation alike.                      *)
LEMMA TickKeeps ==
  ASSUME Typed, Typed', SessionInv, Tick
  PROVE  SessionInv'
<1>1. ASSUME NEW t \in Tokens
      PROVE  /\ left'[t] <= left[t]
             /\ Covers(left, revoked, t) => Covers(left', revoked', t)
             /\ t \in ended \/ left[t] = 0 => t \in ended' \/ left'[t] = 0
  <2>1. left[t] \in Nat /\ revoked[t] \in Nat
    BY Lengths DEF Typed, TypeOK, Long
  <2>2. left'[t] = Less(left[t]) /\ revoked'[t] = Less(revoked[t])
    BY DEF Tick
  <2>3. Second \in Nat \ {0}
    BY SessionAssumption
  <2>4. left'[t] <= left[t] /\ (left'[t] > 0 \/ left'[t] = 0)
    BY <2>1, <2>2 DEF Less
  <2>5. Covers(left, revoked, t) => Covers(left', revoked', t)
    BY <2>1, <2>2, <2>3 DEF Covers, Less
  <2>6. t \in ended /\ left'[t] > 0 => t \in ended'
    BY DEF Tick
  <2>7. left[t] = 0 => left'[t] = 0
    BY <2>2 DEF Less
  <2>8. QED
    BY <2>4, <2>5, <2>6, <2>7
<1>2. ASSUME NEW q \in Requests PROVE Good(req'[q], left', revoked', ended')
  <2>1. /\ req[q] \in Request /\ Shape(req[q])
        /\ Good(req[q], left, revoked, ended)
    BY Mine
  <2>2. Good(req[q], left', revoked', ended')
    BY <1>1, <2>1, Keeps
  <2>3. QED
    BY <2>2 DEF Tick
<1>3. \A t \in ended' : t \in ended /\ t \in Tokens
  BY DEF Tick, Typed, TypeOK
<1>4. QED
  BY <1>1, <1>2, <1>3 DEF SessionInv

LEMMA SessionStep == Typed /\ Typed' /\ SessionInv /\ [Next]_vars => SessionInv'
<1> SUFFICES ASSUME Typed, Typed', SessionInv, [Next]_vars PROVE SessionInv'
  OBVIOUS
<1>1. ASSUME NEW q \in Requests, Start(q) \/ Step(q) \/ Fails(q)
      PROVE  SessionInv'
  BY <1>1, StartKeeps, CheckKeeps, AccountKeeps, RevokeKeeps, DecodeAccessKeeps,
     RevokeAccessKeeps, IssueKeeps, ReplyKeeps, FailsKeeps DEF Step
<1>2. CASE UNCHANGED vars
  BY <1>2 DEF vars, SessionInv
<1>3. QED
  BY <1>1, <1>2, SetActiveKeeps, TickKeeps DEF Next

(* Once a refresh or a logout has been acknowledged its token opens nothing *)
(* any more, but perhaps in its last second.                                *)
THEOREM EndedStaysRefused == Spec => []EndedIsRefused
<1>1. SessionInv => EndedIsRefused
  BY DEF SessionInv, EndedIsRefused, Good, Past, PastCheck
<1>2. QED
  BY <1>1, TypedInit, TypedStep, SessionInit, SessionStep, PTL DEF Spec

(* Only Check leads to the account's row, and it leaves the tokens alone.   *)
LEMMA OnlyCheckPasses ==
  ASSUME Typed, [Next]_vars, NEW q \in Requests,
         req[q].step = "check", req'[q].step = "account"
  PROVE  Check(q)
<1> USE DEF Typed, TypeOK
<1>1. req' # req
  OBVIOUS
<1>2. ASSUME NEW p \in Requests, Start(p) \/ Step(p) \/ Fails(p), p # q PROVE FALSE
  <2>1. \E u : req' = [req EXCEPT ![p] = u]
    BY <1>2, StartMoves, StepMoves
  <2>2. req'[q] = req[q]
    BY <1>2, <2>1
  <2>3. QED
    BY <2>2
<1>3. ~Start(q)
  BY DEF Start, Login, StartRefresh, StartLogout, Call, Begin
<1>4. ~Fails(q)
  BY DEF Fails, Over, Idle
<1>5. Step(q) => Check(q)
  BY DEF Step, Account, Revoke, DecodeAccess, RevokeAccess, Issue, Reply
<1>6. ASSUME NEW on \in BOOLEAN, SetActive(on) PROVE FALSE
  <2>1. req'[q] = [req[q] EXCEPT !.off = @ /\ ~on] /\ req[q] \in Request
    BY <1>6 DEF SetActive
  <2>2. req'[q].step = req[q].step
    BY <2>1 DEF Request
  <2>3. QED
    BY <2>2
<1>7. ~Tick /\ ~UNCHANGED vars
  BY <1>1 DEF Tick, vars
<1>8. QED
  BY <1>2, <1>3, <1>4, <1>5, <1>6, <1>7 DEF Next

(* Two pairs are issued for one refresh token only to requests that were    *)
(* past the check before either had revoked it, or in its last second.      *)
THEOREM SpentStaysRefused == Spec => SpentIsRefused
<1> DEFINE Refused ==
      \A p, q \in Requests, t \in Refresh :
        /\ Spends(p, t)
        /\ req[q].step = "check" /\ req[q].token = t /\ req'[q].step = "account"
        => left[t] < Second
<1>1. Typed /\ SessionInv /\ [Next]_vars => Refused
  <2> SUFFICES ASSUME Typed, SessionInv, [Next]_vars,
                      NEW p \in Requests, NEW q \in Requests, NEW t \in Refresh,
                      Spends(p, t), req[q].step = "check", req[q].token = t,
                      req'[q].step = "account"
               PROVE  left[t] < Second
    OBVIOUS
  <2>1. Check(q)
    BY OnlyCheckPasses
  <2>2. ~(revoked[t] > 0)
    BY <2>1 DEF Check, Over, Idle, Typed, TypeOK
  <2>3. t \in Tokens /\ left[t] \in Nat /\ revoked[t] \in Nat
    BY Lengths DEF Tokens, Typed, TypeOK, Long
  <2>4. left[t] < revoked[t] + Second
    BY <2>3 DEF SessionInv, Good, Revoked, Spends, Covers
  <2>5. QED
    BY <2>2, <2>3, <2>4, SessionAssumption
<1>2. QED
  BY <1>1, TypedInit, TypedStep, SessionInit, SessionStep, PTL
  DEF Spec, SpentIsRefused

-----------------------------------------------------------------------------
(* Off means disabled now, and that the row is still to be read.            *)
OffStays(u) ==
  u.off => /\ ~active
           /\ u.step \notin {"issue", "issued", "admitted"}
           /\ ~(u.step = "revoke" /\ u.op = "refresh")

OffInv == \A q \in Requests : OffStays(req[q])

LEMMA OffStart ==
  ASSUME Typed, OffInv, NEW q \in Requests, Start(q)
  PROVE  OffInv'
<1>1. PICK u \in Request :
        /\ Shape(u) /\ req' = [req EXCEPT ![q] = u]
        /\ u.step \in {"issue", "check", "revoke", "access"}
        /\ u.step = "revoke" => u.op = "logout"
        /\ u.off <=> ~active
        /\ u.step = "issue" => active
  BY StartMoves
<1>2. active' = active
  BY DEF Start, Login, StartRefresh, StartLogout, Call, Begin
<1>3. req'[q] = u /\ \A p \in Requests \ {q} : req'[p] = req[p]
  BY <1>1, GoesOn
<1>4. QED
  BY <1>1, <1>2, <1>3 DEF OffInv, OffStays

LEMMA OffStep ==
  ASSUME Typed, OffInv, NEW q \in Requests, Step(q) \/ Fails(q)
  PROVE  OffInv'
<1>1. active' = active
  BY DEF Step, Check, Account, Revoke, DecodeAccess, RevokeAccess, Issue, Reply,
         Fails
<1>2. PICK u : u \in Request /\ req' = [req EXCEPT ![q] = u]
  BY StepMoves
<1>3. req'[q] = u /\ \A p \in Requests \ {q} : req'[p] = req[p]
  BY <1>2 DEF Typed, TypeOK
<1>4. /\ req[q] \in Request /\ Shape(req[q])
      /\ OffStays(req[q])
  BY DEF Typed, TypeOK, OffInv
<1>5. OffStays(u)
  <2>1. CASE Over(q)
    BY <1>3, <2>1, <1>4, IdleShape DEF Over, Idle, OffStays, Typed, TypeOK
  <2>2. CASE ~Over(q)
    <3>1. u.off = req[q].off
      BY <1>3, <1>4, <2>2 DEF Step, Check, Account, Revoke, DecodeAccess,
         RevokeAccess, Issue, Reply, Fails, Goto, Request, Typed, TypeOK
    <3>2. u.op = req[q].op
      BY <1>3, <1>4, <2>2 DEF Step, Check, Account, Revoke, DecodeAccess,
         RevokeAccess, Issue, Reply, Fails, Goto, Request, Typed, TypeOK
    <3>3. \/ u.step \in {"account", "access", "revoke_access", "done"}
          \/ active
          \/ u.step = "issue" /\ req[q].step = "revoke" /\ req[q].op = "refresh"
          \/ u.step = "issued" /\ req[q].step = "issue"
      BY <1>3, <1>4, <2>2 DEF Step, Check, Account, Revoke, DecodeAccess,
         RevokeAccess, Issue, Reply, Fails, Goto, Request, Typed, TypeOK
    <3>4. QED
      BY <1>4, <3>1, <3>2, <3>3 DEF OffStays
  <2>3. QED
    BY <2>1, <2>2
<1>6. QED
  BY <1>1, <1>3, <1>5 DEF OffInv, OffStays

LEMMA OffNext == Typed /\ OffInv /\ [Next]_vars => OffInv'
<1> SUFFICES ASSUME Typed, OffInv, [Next]_vars PROVE OffInv'
  OBVIOUS
<1>1. CASE UNCHANGED vars
  BY <1>1 DEF vars, OffInv, OffStays
<1>2. ASSUME NEW on \in BOOLEAN, SetActive(on) PROVE OffInv'
  <2> SUFFICES ASSUME NEW q \in Requests PROVE OffStays(req[q])'
    BY DEF OffInv
  <2> DEFINE o == req[q].off /\ ~on
             u == [req[q] EXCEPT !.off = o]
  <2>1. req'[q] = u /\ active' = on
    BY <1>2 DEF SetActive
  <2>2. req[q] \in Request /\ OffStays(req[q])
    BY DEF Typed, TypeOK, OffInv
  <2>3. o => req[q].off /\ ~on
    OBVIOUS
  <2> HIDE DEF o
  <2>4. u.step = req[q].step /\ u.op = req[q].op /\ u.off = o
    BY <2>2 DEF Request
  <2> HIDE DEF u
  <2>5. QED
    BY <2>1, <2>2, <2>3, <2>4 DEF OffStays
<1>3. CASE Tick
  BY <1>3 DEF Tick, OffInv, OffStays
<1>4. QED
  BY <1>1, <1>2, <1>3, OffStart, OffStep DEF Next

(* A disabled account gets nothing more.                                    *)
THEOREM DisabledStaysRefused == Spec => []DisabledIsRefused
<1>1. Init => OffInv
  BY DEF Init, OffInv, OffStays, Idle
<1>2. OffInv => DisabledIsRefused
  BY DEF OffInv, OffStays, DisabledIsRefused
<1>3. QED
  BY <1>1, <1>2, TypedInit, TypedStep, OffNext, PTL DEF Spec
==============================================================================
