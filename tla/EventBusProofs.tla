---------------------------- MODULE EventBusProofs ----------------------------
(***************************************************************************)
(* Proofs about EventBus, for any set of clients, queue size and number of *)
(* events: what the queues hold, and that the bus is a live feed.          *)
(***************************************************************************)
EXTENDS EventBus, SequenceTheorems, TLAPS

(* An offer to a bounded queue: its length, and what is in it.              *)
LEMMA OfferFacts ==
  ASSUME NEW q \in Seq(1..MaxEvents), NEW e \in 1..MaxEvents,
         Len(q) <= QueueSize
  PROVE  /\ Offer(q, e) \in Seq(1..MaxEvents)
         /\ Len(Offer(q, e)) = IF Len(q) < QueueSize THEN Len(q) + 1
                               ELSE QueueSize
         /\ \A i \in 1..Len(Offer(q, e)) :
              Offer(q, e)[i] =
                IF i = Len(Offer(q, e)) THEN e
                ELSE IF Len(q) < QueueSize THEN q[i] ELSE q[i + 1]
<1>1. CASE Len(q) < QueueSize
  BY <1>1 DEF Offer
<1>2. CASE ~(Len(q) < QueueSize)
  <2>1. q # <<>> /\ Len(q) = QueueSize
    BY <1>2, BusAssumption
  <2>2. /\ Tail(q) \in Seq(1..MaxEvents)
        /\ Len(Tail(q)) = QueueSize - 1
        /\ \A i \in 1..QueueSize - 1 : Tail(q)[i] = q[i + 1]
    BY <2>1, BusAssumption
  <2>3. Offer(q, e) = Append(Tail(q), e)
    BY <1>2 DEF Offer
  <2>4. QED
    BY <1>2, <2>1, <2>2, <2>3, BusAssumption
<1>3. QED
  BY <1>1, <1>2

(* Taking the head of a queue.                                              *)
LEMMA TakeFacts ==
  ASSUME NEW q \in Seq(1..MaxEvents), q # <<>>
  PROVE  /\ Head(q) \in 1..MaxEvents /\ Head(q) = q[1]
         /\ Tail(q) \in Seq(1..MaxEvents)
         /\ Len(q) \in Nat \ {0}
         /\ Len(Tail(q)) = Len(q) - 1
         /\ \A i \in 1..Len(q) - 1 : Tail(q)[i] = q[i + 1]
<1>1. Len(q) \in Nat \ {0}
  OBVIOUS
<1>2. /\ Head(q) = q[1]
      /\ Head(q) \in 1..MaxEvents
  <2>1. Head(q) = q[1]
    OBVIOUS
  <2>2. Head(q) \in 1..MaxEvents
    BY HeadTailProperties
  <2>3. QED
    BY <2>1, <2>2
<1>3. /\ Tail(q) \in Seq(1..MaxEvents) /\ Len(Tail(q)) = Len(q) - 1
  BY <1>1
<1>4. \A i \in 1..Len(q) - 1 : Tail(q)[i] = q[i + 1]
  BY <1>1
<1>5. QED
  BY <1>1, <1>2, <1>3, <1>4

(* Every variable keeps its type and every queue its bound.                 *)
THEOREM TypeCorrect == Spec => []TypeOK
<1>1. Init => TypeOK
  BY BusAssumption DEF Init, TypeOK
<1>2. TypeOK /\ [Next]_vars => TypeOK'
  <2> SUFFICES ASSUME TypeOK, [Next]_vars PROVE TypeOK'
    OBVIOUS
  <2> USE BusAssumption DEF TypeOK
  <2>1. CASE Publish
    <3>1. published + 1 \in 1..MaxEvents
      BY <2>1 DEF Publish
    <3>2. \A c \in Clients :
            /\ Offer(queue[c], published + 1) \in Seq(1..MaxEvents)
            /\ Len(Offer(queue[c], published + 1)) <= QueueSize
      BY <3>1, OfferFacts
    <3>3. /\ queue' \in [Clients -> Seq(1..MaxEvents)]
          /\ \A c \in Clients : Len(queue'[c]) <= QueueSize
      BY <2>1, <3>2 DEF Publish
    <3>4. QED
      BY <2>1, <3>1, <3>3 DEF Publish
  <2>2. ASSUME NEW c \in Clients, Connect(c) PROVE TypeOK'
    BY <2>2 DEF Connect
  <2>3. ASSUME NEW c \in Clients, Take(c) PROVE TypeOK'
    <3>1. /\ Head(queue[c]) \in 1..MaxEvents
          /\ Tail(queue[c]) \in Seq(1..MaxEvents)
          /\ Len(Tail(queue[c])) <= QueueSize
      BY <2>3, TakeFacts DEF Take
    <3>2. /\ queue' \in [Clients -> Seq(1..MaxEvents)]
          /\ \A d \in Clients : Len(queue'[d]) <= QueueSize
      BY <2>3, <3>1 DEF Take
    <3>3. QED
      BY <2>3, <3>1, <3>2 DEF Take
  <2>4. ASSUME NEW c \in Clients, Wait(c) PROVE TypeOK'
    BY <2>4 DEF Wait
  <2>5. ASSUME NEW c \in Clients, Heartbeat(c) PROVE TypeOK'
    BY <2>5 DEF Heartbeat
  <2>6. ASSUME NEW c \in Clients, Sent(c) PROVE TypeOK'
    BY <2>6 DEF Sent
  <2>7. ASSUME NEW c \in Clients, Disconnect(c) PROVE TypeOK'
    BY <2>7 DEF Disconnect
  <2>8. CASE UNCHANGED vars
    BY <2>8 DEF vars
  <2>9. QED
    BY <2>1, <2>2, <2>3, <2>4, <2>5, <2>6, <2>7, <2>8 DEF Next, Stream
<1>3. QED
  BY <1>1, <1>2, PTL DEF Spec

-----------------------------------------------------------------------------
(* QueueHoldsNewest for one queue q, when h was the last event taken and p   *)
(* events are published.                                                    *)
HoldsNewest(q, h, p) ==
  /\ p - h >= 0
  /\ Len(q) = IF p - h < QueueSize THEN p - h ELSE QueueSize
  /\ \A i \in 1..Len(q) : q[i] = p - Len(q) + i

LEMMA HoldsNewestIsInvariantPart ==
  QueueHoldsNewest <=>
    \A c \in Clients : Subscribed(c) => HoldsNewest(queue[c], hand[c], published)
BY DEF QueueHoldsNewest, HoldsNewest

(* A queue with the newest events has the newest ones after an offer, ...   *)
LEMMA OfferKeepsNewest ==
  ASSUME NEW q \in Seq(1..MaxEvents), NEW h \in Nat, NEW p \in Nat,
         p < MaxEvents, Len(q) <= QueueSize, HoldsNewest(q, h, p)
  PROVE  HoldsNewest(Offer(q, p + 1), h, p + 1)
<1> DEFINE o == Offer(q, p + 1)
<1>1. p + 1 \in 1..MaxEvents
  BY BusAssumption
<1>2. /\ Len(o) = IF Len(q) < QueueSize THEN Len(q) + 1 ELSE QueueSize
      /\ \A i \in 1..Len(o) :
           o[i] = IF i = Len(o) THEN p + 1
                  ELSE IF Len(q) < QueueSize THEN q[i] ELSE q[i + 1]
  BY <1>1, OfferFacts
<1>3. Len(q) \in Nat
  OBVIOUS
<1> HIDE DEF o
<1>4. (p + 1) - h >= 0
  BY DEF HoldsNewest
<1>5. Len(o) = IF (p + 1) - h < QueueSize THEN (p + 1) - h ELSE QueueSize
  BY <1>2, <1>3, BusAssumption DEF HoldsNewest
<1>6. ASSUME NEW i \in 1..Len(o) PROVE o[i] = (p + 1) - Len(o) + i
  <2>1. CASE i = Len(o)
    <3>1. o[i] = p + 1
      BY <1>2, <2>1
    <3>2. Len(o) \in Nat
      BY <1>2, <1>3, BusAssumption
    <3>3. QED
      BY <2>1, <3>1, <3>2
  <2>2. CASE i # Len(o) /\ Len(q) < QueueSize
    <3>1. Len(o) = Len(q) + 1 /\ i \in 1..Len(q) /\ o[i] = q[i]
      BY <1>2, <1>3, <1>6, <2>2
    <3>2. q[i] = p - Len(q) + i
      BY <3>1 DEF HoldsNewest
    <3>3. QED
      BY <1>3, <3>1, <3>2
  <2>3. CASE i # Len(o) /\ ~(Len(q) < QueueSize)
    <3>1. Len(o) = Len(q) /\ i + 1 \in 1..Len(q) /\ o[i] = q[i + 1]
      BY <1>2, <1>3, <1>6, <2>3, BusAssumption
    <3>2. q[i + 1] = p - Len(q) + (i + 1)
      BY <3>1 DEF HoldsNewest
    <3>3. QED
      BY <1>3, <1>6, <3>1, <3>2
  <2>4. QED
    BY <2>1, <2>2, <2>3
<1>7. HoldsNewest(o, h, p + 1)
  BY <1>4, <1>5, <1>6 DEF HoldsNewest
<1>8. QED
  BY <1>7 DEF o

(* ... and after its head was taken.                                        *)
LEMMA TakeKeepsNewest ==
  ASSUME NEW q \in Seq(1..MaxEvents), NEW h \in Nat, NEW p \in Nat,
         q # <<>>, HoldsNewest(q, h, p)
  PROVE  HoldsNewest(Tail(q), Head(q), p)
<1>1. /\ Head(q) = q[1] /\ Len(q) \in Nat \ {0}
      /\ Len(Tail(q)) = Len(q) - 1
      /\ \A i \in 1..Len(q) - 1 : Tail(q)[i] = q[i + 1]
  BY TakeFacts
<1>2. Head(q) = p - Len(q) + 1
  BY <1>1 DEF HoldsNewest
<1>3. Len(q) <= QueueSize
  BY <1>1, BusAssumption DEF HoldsNewest
<1>4. ASSUME NEW i \in 1..Len(Tail(q))
      PROVE  Tail(q)[i] = p - Len(Tail(q)) + i
  <2>1. i + 1 \in 1..Len(q) /\ Tail(q)[i] = q[i + 1]
    BY <1>1
  <2>2. q[i + 1] = p - Len(q) + (i + 1)
    BY <2>1 DEF HoldsNewest
  <2>3. QED
    BY <1>1, <2>1, <2>2
<1> DEFINE t == Tail(q)
           e == Head(q)
<1>5. /\ e = p - Len(q) + 1 /\ Len(t) = Len(q) - 1
      /\ \A i \in 1..Len(t) : t[i] = p - Len(t) + i
  BY <1>1, <1>2, <1>4
<1> HIDE DEF t, e
<1>6. HoldsNewest(t, e, p)
  BY <1>1, <1>3, <1>5, BusAssumption DEF HoldsNewest
<1>7. QED
  BY <1>6 DEF t, e

(* A subscriber's queue always holds the newest events it has not taken.    *)
THEOREM QueuesHoldNewest == Spec => []QueueHoldsNewest
<1>1. Init => QueueHoldsNewest
  BY DEF Init, QueueHoldsNewest, Subscribed
<1>2. TypeOK /\ QueueHoldsNewest /\ [Next]_vars => QueueHoldsNewest'
  <2> SUFFICES ASSUME TypeOK, QueueHoldsNewest, [Next]_vars,
                      NEW c \in Clients, Subscribed(c)'
               PROVE  HoldsNewest(queue'[c], hand'[c], published')
    BY DEF QueueHoldsNewest, HoldsNewest, Subscribed
  <2>1. /\ queue[c] \in Seq(1..MaxEvents) /\ Len(queue[c]) <= QueueSize
        /\ hand[c] \in Nat /\ published \in Nat
        /\ Subscribed(c) => HoldsNewest(queue[c], hand[c], published)
    BY HoldsNewestIsInvariantPart DEF TypeOK
  <2>2. CASE Publish
    <3>1. Subscribed(c)
      BY <2>2 DEF Publish, Subscribed
    <3>2. /\ queue'[c] = Offer(queue[c], published + 1)
          /\ hand' = hand /\ published' = published + 1
          /\ published < MaxEvents
      BY <2>2, <3>1 DEF Publish
    <3>3. QED
      BY <2>1, <3>1, <3>2, OfferKeepsNewest
  <2>3. ASSUME NEW d \in Clients, Connect(d)
        PROVE  HoldsNewest(queue'[c], hand'[c], published')
    <3>1. CASE c = d
      <4>1. /\ queue'[c] = <<>> /\ hand'[c] = published
            /\ published' = published
        BY <2>3, <3>1 DEF Connect, TypeOK
      <4>2. Len(<<>>) = 0
        OBVIOUS
      <4>3. QED
        BY <2>1, <4>1, <4>2, BusAssumption DEF HoldsNewest
    <3>2. CASE c # d
      BY <2>1, <2>3, <3>2 DEF Connect, TypeOK, Subscribed
    <3>3. QED
      BY <3>1, <3>2
  <2>4. ASSUME NEW d \in Clients, Take(d)
        PROVE  HoldsNewest(queue'[c], hand'[c], published')
    <3>1. CASE c = d
      <4>1. Subscribed(c) /\ queue[c] # <<>>
        BY <2>4, <3>1 DEF Take, Subscribed
      <4>2. /\ queue'[c] = Tail(queue[c]) /\ hand'[c] = Head(queue[c])
            /\ published' = published
        BY <2>4, <3>1 DEF Take, TypeOK
      <4>3. QED
        BY <2>1, <4>1, <4>2, TakeKeepsNewest
    <3>2. CASE c # d
      BY <2>1, <2>4, <3>2 DEF Take, TypeOK, Subscribed
    <3>3. QED
      BY <3>1, <3>2
  <2>5. ASSUME NEW d \in Clients, Wait(d) \/ Heartbeat(d) \/ Sent(d)
        PROVE  HoldsNewest(queue'[c], hand'[c], published')
    BY <2>1, <2>5 DEF Wait, Heartbeat, Sent, TypeOK, Subscribed
  <2>6. ASSUME NEW d \in Clients, Disconnect(d)
        PROVE  HoldsNewest(queue'[c], hand'[c], published')
    BY <2>1, <2>6 DEF Disconnect, TypeOK, Subscribed
  <2>7. CASE UNCHANGED vars
    BY <2>1, <2>7 DEF vars, Subscribed
  <2>8. QED
    BY <2>2, <2>3, <2>4, <2>5, <2>6, <2>7 DEF Next, Stream
<1>3. QED
  BY <1>1, <1>2, TypeCorrect, PTL DEF Spec

-----------------------------------------------------------------------------
(* Taking an event is a step of the abstract feed: it skips only events     *)
(* that have QueueSize newer ones.                                          *)
LEMMA TakeIsSee ==
  ASSUME TypeOK, QueueHoldsNewest, NEW c \in Clients, Take(c)
  PROVE  Feed!See(c)
<1> DEFINE e == Head(queue[c])
<1>1. /\ queue[c] \in Seq(1..MaxEvents) /\ queue[c] # <<>>
      /\ hand[c] \in Nat /\ published \in Nat
      /\ HoldsNewest(queue[c], hand[c], published)
  BY HoldsNewestIsInvariantPart DEF Take, TypeOK, Subscribed
<1>2. /\ e = queue[c][1] /\ Len(queue[c]) \in Nat \ {0} /\ e \in Nat
  BY <1>1, TakeFacts
<1>3. e = published - Len(queue[c]) + 1
  BY <1>1, <1>2 DEF HoldsNewest
<1> HIDE DEF e
<1>4. PICK n \in Nat \ {0} : n = Len(queue[c])
  BY <1>2
<1>5. /\ QueueSize \in Nat /\ n <= QueueSize /\ n <= published - hand[c]
      /\ n < published - hand[c] => n = QueueSize
      /\ e = published - n + 1
  <2>1. n = IF published - hand[c] < QueueSize THEN published - hand[c] ELSE QueueSize
    BY <1>1, <1>4 DEF HoldsNewest
  <2>2. QueueSize \in Nat /\ published - hand[c] \in Int
    BY <1>1, BusAssumption
  <2>3. QED
    BY <1>3, <1>4, <2>1, <2>2
<1>6. e \in hand[c] + 1 .. published
  BY <1>1, <1>2, <1>5
<1>7. \A skipped \in hand[c] + 1 .. e - 1 : published - skipped >= QueueSize
  BY <1>1, <1>2, <1>5
<1>8. published - e < QueueSize
  BY <1>1, <1>2, <1>5
<1>9. /\ hand' = [hand EXCEPT ![c] = e]
      /\ published' = published
      /\ {d \in Clients : Subscribed(d)'} = {d \in Clients : Subscribed(d)}
      /\ c \in {d \in Clients : Subscribed(d)}
  BY DEF Take, Subscribed, TypeOK, e
<1>10. QED
  BY <1>6, <1>7, <1>8, <1>9 DEF Feed!See

(* The bus, with its bounded queues, delivers what a live feed promises.    *)
THEOREM BusIsFeed == Spec => FeedSpec
<1>1. Init => Feed!Init
  BY DEF Init, Feed!Init, Subscribed
<1>2. TypeOK /\ QueueHoldsNewest /\ [Next]_vars => [Feed!Next]_(Feed!vars)
  <2> SUFFICES ASSUME TypeOK, QueueHoldsNewest, [Next]_vars
               PROVE  [Feed!Next]_(Feed!vars)
    OBVIOUS
  <2>1. CASE Publish
    BY <2>1 DEF Publish, Feed!Next, Feed!Publish, Subscribed
  <2>2. ASSUME NEW c \in Clients, Connect(c) PROVE Feed!Join(c)
    BY <2>2 DEF Connect, Feed!Join, Subscribed, TypeOK
  <2>3. ASSUME NEW c \in Clients, Take(c) PROVE Feed!See(c)
    BY <2>3, TakeIsSee
  <2>4. ASSUME NEW c \in Clients, Wait(c) \/ Heartbeat(c) \/ Sent(c)
        PROVE  UNCHANGED Feed!vars
    BY <2>4 DEF Wait, Heartbeat, Sent, Feed!vars, Subscribed, TypeOK
  <2>5. ASSUME NEW c \in Clients, Disconnect(c) PROVE Feed!Leave(c)
    BY <2>5 DEF Disconnect, Feed!Leave, Subscribed, TypeOK
  <2>6. CASE UNCHANGED vars
    BY <2>6 DEF vars, Feed!vars, Subscribed
  <2>7. QED
    BY <2>1, <2>2, <2>3, <2>4, <2>5, <2>6 DEF Next, Stream, Feed!Next
<1>3. QED
  BY <1>1, <1>2, TypeCorrect, QueuesHoldNewest, PTL
  DEF Spec, FeedSpec, Feed!Spec

-----------------------------------------------------------------------------
(* Between two events a client has got what was taken for it; what is being *)
(* sent is the next event unless the client is more than a queue behind.    *)
NextInHand(c) ==
  Subscribed(c) =>
    /\ pc[c] \in {"loop", "waiting"} => hand[c] = received[c]
    /\ \/ hand[c] \in {received[c], received[c] + 1}
       \/ published - received[c] > QueueSize

HandInv == \A c \in Clients : NextInHand(c)

(* Whoever is at most QueueSize behind is handed the next event.            *)
LEMMA TakeIsNext ==
  ASSUME TypeOK, QueueHoldsNewest, NEW c \in Clients, Take(c),
         published - hand[c] <= QueueSize
  PROVE  hand'[c] = hand[c] + 1
<1>1. PICK e \in hand[c] + 1 .. published :
        /\ \A skipped \in hand[c] + 1 .. e - 1 : published - skipped >= QueueSize
        /\ hand' = [hand EXCEPT ![c] = e]
  BY TakeIsSee DEF Feed!See
<1>2. hand[c] \in Nat /\ published \in Nat /\ hand'[c] = e /\ QueueSize \in Nat
  BY <1>1, BusAssumption DEF TypeOK
<1>3. ~(e > hand[c] + 1)
  BY <1>1, <1>2
<1>4. QED
  BY <1>1, <1>2, <1>3

LEMMA HandStep == TypeOK /\ QueueHoldsNewest /\ HandInv /\ [Next]_vars => HandInv'
<1> SUFFICES ASSUME TypeOK, QueueHoldsNewest, HandInv, [Next]_vars,
                    NEW c \in Clients
             PROVE  NextInHand(c)'
  BY DEF HandInv
<1>1. /\ NextInHand(c) /\ QueueSize \in Nat /\ published \in Nat
      /\ hand[c] \in Nat /\ received[c] \in Nat
  BY BusAssumption DEF HandInv, TypeOK
<1>2. CASE Publish
  <2>1. published' = published + 1 /\ UNCHANGED <<pc, hand, received>>
    BY <1>2 DEF Publish
  <2>2. QED
    BY <1>1, <2>1 DEF NextInHand, Subscribed
<1>3. CASE Connect(c)
  BY <1>1, <1>3 DEF Connect, NextInHand, TypeOK
<1>4. CASE Take(c)
  <2>1. /\ pc[c] \in {"loop", "waiting"} /\ pc'[c] = "sending"
        /\ published' = published /\ received' = received
    BY <1>4 DEF Take, TypeOK
  <2>2. hand[c] = received[c]
    BY <1>1, <2>1 DEF NextInHand, Subscribed
  <2>3. published - hand[c] <= QueueSize => hand'[c] = hand[c] + 1
    BY <1>4, TakeIsNext
  <2>4. QED
    BY <1>1, <2>1, <2>2, <2>3 DEF NextInHand
<1>5. CASE Sent(c)
  <2>1. received'[c] = hand[c] /\ hand' = hand
    BY <1>5 DEF Sent, TypeOK
  <2>2. QED
    BY <2>1 DEF NextInHand
<1>6. CASE Wait(c) \/ Heartbeat(c) \/ Disconnect(c)
  <2>1. /\ UNCHANGED <<published, hand, received>>
        /\ pc'[c] \in {"waiting", "sending", "off"}
        /\ pc'[c] = "waiting" => pc[c] = "loop"
        /\ pc'[c] # "off" => pc[c] # "off"
    BY <1>6 DEF Wait, Heartbeat, Disconnect, TypeOK
  <2>2. QED
    BY <1>1, <2>1 DEF NextInHand, Subscribed
<1>7. ASSUME NEW d \in Clients, d # c, Connect(d) \/ Stream(d) \/ Disconnect(d)
      PROVE  NextInHand(c)'
  <2>1. /\ pc'[c] = pc[c] /\ hand'[c] = hand[c] /\ received'[c] = received[c]
        /\ published' = published
    BY <1>7 DEF Connect, Stream, Take, Wait, Heartbeat, Sent, Disconnect, TypeOK
  <2>2. QED
    BY <1>1, <2>1 DEF NextInHand, Subscribed
<1>8. CASE UNCHANGED vars
  BY <1>1, <1>8 DEF vars, NextInHand, Subscribed
<1>9. QED
  BY <1>2, <1>3, <1>4, <1>5, <1>6, <1>7, <1>8 DEF Next, Stream

(* While a client is at most QueueSize events behind, each event it gets is *)
(* the one after the last.                                                  *)
THEOREM PromptGetsAll == Spec => PromptMissesNothing
<1> DEFINE Prompt ==
      \A c \in Clients :
        Subscribed(c) /\ published - received[c] <= QueueSize
          => received'[c] \in {received[c], received[c] + 1}
<1>1. Init => HandInv
  BY DEF Init, HandInv, NextInHand, Subscribed
<1>2. TypeOK /\ HandInv /\ [Next]_vars => Prompt
  <2> SUFFICES ASSUME TypeOK, HandInv, [Next]_vars, NEW c \in Clients, Subscribed(c),
                      published - received[c] <= QueueSize
               PROVE  received'[c] \in {received[c], received[c] + 1}
    OBVIOUS
  <2>1. /\ hand[c] \in {received[c], received[c] + 1}
        /\ published - received[c] \in Int /\ QueueSize \in Nat
    BY BusAssumption DEF HandInv, NextInHand, TypeOK
  <2>2. CASE Sent(c)
    BY <2>1, <2>2 DEF Sent, TypeOK
  <2>3. CASE received'[c] = received[c]
    BY <2>3
  <2>4. ~Connect(c)
    BY DEF Connect, Subscribed
  <2>5. QED
    BY <2>2, <2>3, <2>4
    DEF Next, Publish, Connect, Stream, Take, Wait, Heartbeat, Sent, Disconnect,
        TypeOK, vars
<1>3. QED
  BY <1>1, <1>2, HandStep, TypeCorrect, QueuesHoldNewest, PTL
  DEF Spec, PromptMissesNothing

=============================================================================
