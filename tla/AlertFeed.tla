------------------------------ MODULE AlertFeed ------------------------------
(***************************************************************************)
(* What the live stream promises a connected operator, whatever buffers    *)
(* are in between: the events published since the connection was made, in  *)
(* order and at most once, of which only those may be missing that had     *)
(* Capacity newer ones when the next event was taken.                      *)
(***************************************************************************)
EXTENDS Integers

CONSTANTS Clients, Capacity, MaxEvents

VARIABLES
  published,  (* number of events so far: event n is the n-th               *)
  joined,     (* clients that are connected                                 *)
  seen        (* of each client: the last event that was taken for it       *)

vars == <<published, joined, seen>>

Init ==
  /\ published = 0
  /\ joined = {}
  /\ seen = [c \in Clients |-> 0]

(* Publishing waits for nobody.                                             *)
Publish ==
  /\ published < MaxEvents
  /\ published' = published + 1
  /\ UNCHANGED <<joined, seen>>

Join(c) ==
  /\ c \notin joined
  /\ joined' = joined \cup {c}
  /\ seen' = [seen EXCEPT ![c] = published]
  /\ UNCHANGED published

See(c) ==
  /\ c \in joined
  /\ \E e \in seen[c] + 1 .. published :
       /\ \A skipped \in seen[c] + 1 .. e - 1 : published - skipped >= Capacity
       /\ published - e < Capacity
       /\ seen' = [seen EXCEPT ![c] = e]
  /\ UNCHANGED <<published, joined>>

Leave(c) ==
  /\ c \in joined
  /\ joined' = joined \ {c}
  /\ UNCHANGED <<published, seen>>

Next == Publish \/ \E c \in Clients : Join(c) \/ See(c) \/ Leave(c)

Spec == Init /\ [][Next]_vars

=============================================================================
