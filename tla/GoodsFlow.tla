------------------------------ MODULE GoodsFlow ------------------------------
(***************************************************************************)
(* What the warehouse workflow promises about the goods themselves: a unit *)
(* is in a warehouse or on one trip; a trip takes goods that were there,   *)
(* brings the same goods to the one destination it set out for, or to a    *)
(* customer, and ends once.  Statuses, pick lists, reservations and the    *)
(* ledger are how the code keeps this promise and do not appear.           *)
(***************************************************************************)
EXTENDS Integers

CONSTANTS Warehouses, Products, Trips, Customer, InitialGoods

VARIABLES
    goods,  \* goods[w][p]: units of p in warehouse w
    trip    \* state, destination, goods loaded and goods unloaded of every trip

flowVars == <<goods, trip>>

NoGoods == [p \in Products |-> 0]

NoTrip == [state |-> "none", to |-> Customer, load |-> NoGoods, unloaded |-> NoGoods]

FlowInit == goods = InitialGoods /\ trip = [t \in Trips |-> NoTrip]

\* Goods appear or disappear by a receipt or a correction, not below zero.
Adjust(w) ==
    /\ goods'[w] \in [Products -> Nat]
    /\ goods' = [goods EXCEPT ![w] = goods'[w]]
    /\ UNCHANGED trip

\* The load and the destination are those the trip has from now on.
Depart(t, w) ==
    LET load == trip'[t].load
        dest == trip'[t].to
    IN  /\ trip[t].state = "none"
        /\ load \in [Products -> Nat] /\ load # NoGoods
        /\ dest \in (Warehouses \cup {Customer}) \ {w}
        /\ \A p \in Products : load[p] <= goods[w][p]
        /\ goods' = [goods EXCEPT ![w] = [p \in Products |-> goods[w][p] - load[p]]]
        /\ trip' = [trip EXCEPT ![t] = [NoTrip EXCEPT !.state = "moving",
                                                      !.to = dest, !.load = load]]

Arrive(t) ==
    /\ trip[t].state = "moving"
    /\ IF trip[t].to = Customer
       THEN trip' = [trip EXCEPT ![t].state = "ended"] /\ UNCHANGED goods
       ELSE /\ trip' = [trip EXCEPT ![t] = [trip[t] EXCEPT !.state = "ended",
                                                          !.unloaded = trip[t].load]]
            /\ goods' = [goods EXCEPT ![trip[t].to] =
                             [p \in Products |-> goods[trip[t].to][p] + trip[t].load[p]]]

FlowNext ==
    \/ \E w \in Warehouses : Adjust(w)
    \/ \E t \in Trips, w \in Warehouses : Depart(t, w)
    \/ \E t \in Trips : Arrive(t)

FlowSpec == FlowInit /\ [][FlowNext]_flowVars

=============================================================================
