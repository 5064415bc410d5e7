------------------------- MODULE ReplicatedSession -------------------------
(***************************************************************************)
(* What the event stream promises, without connections, queues or fences:  *)
(* the Server's Session is a growing sequence of changes, and each Client  *)
(* shows some prefix of it, which only ever grows: by the next change, or  *)
(* by being replaced with a Session the Server offered it whole, which may *)
(* be lost before it arrives (ADR 0009).                                   *)
(***************************************************************************)
EXTENDS Naturals

CONSTANTS Clients

VARIABLES
    length,   \* how many changes the Server has published
    offered,  \* per Client: the prefixes on their way to it whole
    view      \* per Client: how many of the changes the Session it shows reflects

vars == <<length, offered, view>>

Init == length = 0 /\ view = [c \in Clients |-> 0] /\ offered = [c \in Clients |-> {}]

(* Whatever else happens, offers may get lost.                             *)
NoNewOffer == \A c \in Clients : offered'[c] \subseteq offered[c]

Publish == length' = length + 1 /\ UNCHANGED view /\ NoNewOffer

Offer(c) ==
    /\ offered' = [offered EXCEPT ![c] = @ \union {length}]
    /\ UNCHANGED <<length, view>>

ApplyNext(c) ==
    /\ view[c] < length
    /\ view' = [view EXCEPT ![c] = @ + 1]
    /\ UNCHANGED length
    /\ NoNewOffer

Replace(c) ==
    /\ \E n \in offered[c] : n >= view[c] /\ view' = [view EXCEPT ![c] = n]
    /\ UNCHANGED length
    /\ NoNewOffer

Lose == UNCHANGED <<length, view>> /\ NoNewOffer

Next == Publish \/ Lose \/ \E c \in Clients : Offer(c) \/ ApplyNext(c) \/ Replace(c)

Spec == Init /\ [][Next]_vars
=============================================================================
