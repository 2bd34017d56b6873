---- MODULE ChannelTable ----
(***************************************************************************)
(* What the session layer promises, without saying how: a channel is a     *)
(* table with one seat.  A qambler sits down with a stake, may double it   *)
(* while seated, and leaves; everybody is gone when the process dies.      *)
(* Nobody is ever replaced in a seat, and no seat has two occupants.       *)
(* SoloSession implements this table (SeatRefinement there).               *)
(***************************************************************************)
EXTENDS Integers

CONSTANTS
    Users,
    Channels,
    Vacant,     \* the mark of an empty seat
    Stakes      \* the stakes one may sit down with

Occupant == [who: Users, stake: Int]

VARIABLE seat       \* [Channels -> Occupant \cup {Vacant}]

TableInit == seat = [c \in Channels |-> Vacant]

Sit(c, u, b) ==
    /\ seat[c] = Vacant
    /\ seat' = [seat EXCEPT ![c] = [who |-> u, stake |-> b]]

Double(c) ==
    /\ seat[c] # Vacant
    /\ seat' = [seat EXCEPT ![c] = [who |-> seat[c].who, stake |-> 2 * seat[c].stake]]

Leave(c) ==
    /\ seat[c] # Vacant
    /\ seat' = [seat EXCEPT ![c] = Vacant]

Clear == seat' = [c \in Channels |-> Vacant]

TableNext ==
    \/ \E c \in Channels, u \in Users, b \in Stakes : Sit(c, u, b)
    \/ \E c \in Channels : Double(c) \/ Leave(c)
    \/ Clear

TableSpec == TableInit /\ [][TableNext]_seat
====
