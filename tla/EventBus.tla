------------------------------- MODULE EventBus -------------------------------
(***************************************************************************)
(* The in-process bus of app/core/events.py and the Server-Sent Events     *)
(* connections that app/api/v1/stream.py opens on it.  Publisher and       *)
(* streams are coroutines of one event loop: a step is the code between    *)
(* two awaits.                                                             *)
(***************************************************************************)
EXTENDS Integers, Sequences

CONSTANTS
  Clients,    (* connections to GET /stream/alerts, over and over           *)
  QueueSize,  (* events buffered per subscriber                             *)
  MaxEvents   (* bound: events published in a behaviour                     *)

ASSUME BusAssumption == QueueSize \in Nat \ {0} /\ MaxEvents \in Nat

VARIABLES
  published,  (* events published so far, numbered from 1                   *)
  pc,         (* of each stream: off, loop, waiting (in queue.get), sending *)
  queue,      (* of each subscriber: its bounded queue                      *)
  hand,       (* of each stream: the last event it took from its queue      *)
  received    (* of each stream: the last event written to the client       *)

vars == <<published, pc, queue, hand, received>>

TypeOK ==
  /\ published \in 0..MaxEvents
  /\ pc \in [Clients -> {"off", "loop", "waiting", "sending"}]
  /\ queue \in [Clients -> Seq(1..MaxEvents)]
  /\ \A c \in Clients : Len(queue[c]) <= QueueSize
  /\ hand \in [Clients -> 0..MaxEvents]
  /\ received \in [Clients -> 0..MaxEvents]

Init ==
  /\ published = 0
  /\ pc = [c \in Clients |-> "off"]
  /\ queue = [c \in Clients |-> <<>>]
  /\ hand = [c \in Clients |-> 0]
  /\ received = [c \in Clients |-> 0]

-----------------------------------------------------------------------------
Subscribed(c) == pc[c] # "off"

(* Mutants of Offer: a full queue grows; a full queue refuses the new event.*)
OfferGrowing(q, e) == Append(q, e)

OfferRefusing(q, e) == IF Len(q) < QueueSize THEN Append(q, e) ELSE q

(* put_nowait; a full queue first loses its oldest event.                   *)
Offer(q, e) == Append(IF Len(q) < QueueSize THEN q ELSE Tail(q), e)

(* AlertService publishes an event: every subscriber is offered it.         *)
Publish ==
  /\ published < MaxEvents
  /\ published' = published + 1
  /\ queue' = [c \in Clients |->
                 IF Subscribed(c) THEN Offer(queue[c], published + 1)
                 ELSE queue[c]]
  /\ UNCHANGED <<pc, hand, received>>

(* The stream subscribes, then writes ": connected".                        *)
Connect(c) ==
  /\ pc[c] = "off"
  /\ pc' = [pc EXCEPT ![c] = "sending"]
  /\ queue' = [queue EXCEPT ![c] = <<>>]
  /\ hand' = [hand EXCEPT ![c] = published]
  /\ received' = [received EXCEPT ![c] = published]
  /\ UNCHANGED published

(* queue.get() returns at once, or when the getter is woken by an offer.    *)
Take(c) ==
  /\ pc[c] \in {"loop", "waiting"} /\ queue[c] # <<>>
  /\ hand' = [hand EXCEPT ![c] = Head(queue[c])]
  /\ queue' = [queue EXCEPT ![c] = Tail(@)]
  /\ pc' = [pc EXCEPT ![c] = "sending"]
  /\ UNCHANGED <<published, received>>

Wait(c) ==
  /\ pc[c] = "loop" /\ queue[c] = <<>>
  /\ pc' = [pc EXCEPT ![c] = "waiting"]
  /\ UNCHANGED <<published, queue, hand, received>>

(* Mutant of Heartbeat: the cancelled get has already taken the event.      *)
HeartbeatLoses(c) ==
  /\ pc[c] = "waiting"
  /\ queue' = [queue EXCEPT ![c] = IF @ = <<>> THEN @ ELSE Tail(@)]
  /\ pc' = [pc EXCEPT ![c] = "sending"]
  /\ UNCHANGED <<published, hand, received>>

(* wait_for times out and cancels the get, possibly after an offer has      *)
(* woken it: the event stays in the queue.  ": heartbeat" is written.       *)
Heartbeat(c) ==
  /\ pc[c] = "waiting"
  /\ pc' = [pc EXCEPT ![c] = "sending"]
  /\ UNCHANGED <<published, queue, hand, received>>

(* The client has taken the frame.                                          *)
Sent(c) ==
  /\ pc[c] = "sending"
  /\ pc' = [pc EXCEPT ![c] = "loop"]
  /\ received' = [received EXCEPT ![c] = hand[c]]
  /\ UNCHANGED <<published, queue, hand>>

(* The client goes away, wherever its stream is: the subscription ends.     *)
Disconnect(c) ==
  /\ Subscribed(c)
  /\ pc' = [pc EXCEPT ![c] = "off"]
  /\ queue' = [queue EXCEPT ![c] = <<>>]
  /\ UNCHANGED <<published, hand, received>>

Stream(c) == Take(c) \/ Wait(c) \/ Heartbeat(c) \/ Sent(c)

Next ==
  \/ Publish
  \/ \E c \in Clients : Connect(c) \/ Stream(c) \/ Disconnect(c)

Spec == Init /\ [][Next]_vars

(* A stream whose client reads goes on.                                     *)
FairSpec == Spec /\ \A c \in Clients : WF_vars(Stream(c))

-----------------------------------------------------------------------------
(* A queue is bounded and holds the newest events that were not taken, in   *)
(* order and without a gap, however far the client has fallen behind.       *)
QueueHoldsNewest ==
  \A c \in Clients : Subscribed(c) =>
    LET missing == published - hand[c]
        n == Len(queue[c])
    IN  /\ missing >= 0
        /\ n = IF missing < QueueSize THEN missing ELSE QueueSize
        /\ \A i \in 1..n : queue[c][i] = published - n + i

(* A client that is not more than a queue behind misses nothing and gets    *)
(* nothing twice: what is written to it next is the next event.             *)
PromptMissesNothing ==
  [][\A c \in Clients :
       Subscribed(c) /\ published - received[c] <= QueueSize
         => received'[c] \in {received[c], received[c] + 1}]_vars

(* The bus is a live feed as AlertFeed describes it.                        *)
Feed == INSTANCE AlertFeed WITH
          Capacity <- QueueSize,
          joined <- {c \in Clients : Subscribed(c)},
          seen <- hand

FeedSpec == Feed!Spec

(* A client that stays connected and reads gets, for every event, that      *)
(* event or a newer one.                                                    *)
ClientsCatchUp ==
  \A c \in Clients : \A n \in 1..MaxEvents :
    (Subscribed(c) /\ published >= n) ~> (received[c] >= n \/ ~Subscribed(c))

=============================================================================
