----------------------------- MODULE WarehouseOps -----------------------------
(***************************************************************************)
(* The warehouse workflow when requests do not overlap: every handler of   *)
(* outbound_service, inventory_service and procurement_service, and the    *)
(* worker's reservation pass, is one atomic action from its status check   *)
(* to its commit.  A rejected request (409) changes nothing and is no      *)
(* step.  SessionOps splits the same handlers into their database steps.   *)
(***************************************************************************)
EXTENDS WarehouseProps

FaultyMovement(w, delta) ==
    /\ onHand' = [onHand EXCEPT ![w] = Plus(onHand[w], delta)]
    /\ ledger' = [ledger EXCEPT ![w] = Plus(ledger[w], delta)]

FaultySync(w, delta) ==
    /\ \A p \in Products : onHand[w][p] + delta[p] >= 0
    /\ onHand' = [onHand EXCEPT ![w] = Plus(onHand[w], delta)]
    /\ UNCHANGED ledger

\* inventory_service.apply_movement, for every product of one call: the ledger
\* rows and quantity_on_hand move together and never below zero.
ApplyMovement(w, delta) ==
    /\ \A p \in Products : onHand[w][p] + delta[p] >= 0
    /\ onHand' = [onHand EXCEPT ![w] = Plus(onHand[w], delta)]
    /\ ledger' = [ledger EXCEPT ![w] = Plus(ledger[w], delta)]

\* The ledger rows that carry document d as their reference_id.
PutIn(d, qty) == moved' = [moved EXCEPT ![d].in = Plus(moved[d].in, qty)]

FaultyTakeOut(d, qty) == moved' = [moved EXCEPT ![d].out = Minus(moved[d].out, qty)]

TakeOut(d, qty) == moved' = [moved EXCEPT ![d].out = Plus(moved[d].out, qty)]

FaultyReserve(w, qty) ==
    /\ \A p \in Products : qty[p] <= onHand[w][p]
    /\ reserved' = [reserved EXCEPT ![w] = Plus(reserved[w], qty)]

\* complete_pick_list reserves within what is available, line by line.
Reserve(w, qty) ==
    /\ \A p \in Products : qty[p] > 0 => qty[p] <= onHand[w][p] - reserved[w][p]
    /\ reserved' = [reserved EXCEPT ![w] = Plus(reserved[w], qty)]

FaultyRelease(w, qty) == UNCHANGED reserved

\* ship() gives the reservation back.
Release(w, qty) ==
    reserved' = [reserved EXCEPT ![w] = [p \in Products |-> Max0(reserved[w][p] - qty[p])]]

-----------------------------------------------------------------------------
(* Picking.                                                                *)

GeneratePickList(r, l) ==
    /\ NeedsPickList(r)
    /\ pickList[l].status = "absent"
    /\ pickList' = [pickList EXCEPT ![l] =
                       [status |-> "open", request |-> r, picked |-> NoLines]]
    /\ request' = [request EXCEPT ![r].status = "picking"]
    /\ UNCHANGED <<stockVars, active, shipment, order, manuals>>

RecordPick(l, p, q) ==
    /\ StillOpen(l)
    /\ PickAllowed(l, p, q)
    /\ pickList' = [pickList EXCEPT ![l] =
                       [pickList[l] EXCEPT !.status = "in_progress",
                                           !.picked = [pickList[l].picked EXCEPT ![p] = q]]]
    /\ UNCHANGED <<stockVars, active, request, shipment, order, manuals>>

CompletePickList(l) ==
    LET r == pickList[l].request
    IN  /\ StillOpen(l)
        /\ Reserve(request[r].source, pickList[l].picked)
        /\ pickList' = [pickList EXCEPT ![l].status = "complete"]
        /\ request' = [request EXCEPT ![r].status = "packed"]
        /\ UNCHANGED <<onHand, ledger, moved, active, shipment, order, manuals>>

-----------------------------------------------------------------------------
(* Shipping and delivery.                                                  *)

Ship(r, s) ==
    LET w == request[r].source
        picked == PickedQuantities(r)
    IN  /\ ReadyToShip(r)
        /\ shipment[s].status = "absent"
        /\ shipment' = [shipment EXCEPT ![s] = [status |-> "shipped", request |-> r]]
        /\ Release(w, picked)
        /\ ApplyMovement(w, Minus(NoLines, picked))
        /\ TakeOut(s, picked)
        /\ request' = [request EXCEPT ![r].status = "shipped"]
        /\ UNCHANGED <<active, pickList, order, manuals>>

Deliver(s) ==
    LET r == shipment[s].request
        picked == PickedQuantities(r)
    IN  /\ UnderWay(s)
        /\ IF IsInternalTransfer(r)
           THEN ApplyMovement(request[r].dest, picked) /\ PutIn(s, picked)
           ELSE UNCHANGED <<onHand, ledger, moved>>
        /\ shipment' = [shipment EXCEPT ![s].status = "delivered"]
        /\ request' = [request EXCEPT ![r].status = "delivered"]
        /\ UNCHANGED <<reserved, active, pickList, order, manuals>>

-----------------------------------------------------------------------------
(* Receipts, manual transactions and the worker.                           *)

FaultyClose(o, got) == order' = [order EXCEPT ![o].received = Plus(order[o].received, got)]

Close(o, got) ==
    order' = [order EXCEPT ![o] =
                 [order[o] EXCEPT !.status = "received",
                                  !.received = Plus(order[o].received, got)]]

ReceivePurchaseOrder(o, got) ==
    /\ Receivable(o, got)
    /\ ApplyMovement(order[o].dest, got)
    /\ PutIn(o, got)
    /\ Close(o, got)
    /\ UNCHANGED <<reserved, active, request, pickList, shipment, manuals>>

\* inventory_service.create_manual_transaction; no rule reads the type it sends.
ManualTransaction(w, p, d, ref) ==
    LET delta == [NoLines EXCEPT ![p] = d]
    IN  /\ manuals < MaxManual
        /\ manuals' = manuals + 1
        /\ ApplyMovement(w, delta)
        /\ BookManually(ref, delta)
        /\ UNCHANGED <<reserved, active, request, pickList, shipment, order>>

\* worker.recalculate_reservations: rebuild the column from the pick lists.
RecalculateReservations ==
    /\ reserved' = ReservationTarget
    /\ UNCHANGED <<onHand, ledger, moved, docVars>>

-----------------------------------------------------------------------------
Next ==
    \/ Creation
    \/ \E r \in Requests, l \in PickLists : GeneratePickList(r, l)
    \/ \E l \in PickLists, p \in Products, q \in 0..MaxQty : RecordPick(l, p, q)
    \/ \E l \in PickLists : CompletePickList(l)
    \/ \E r \in Requests, s \in Shipments : Ship(r, s)
    \/ \E s \in Shipments : Deliver(s)
    \/ \E o \in Orders, got \in Lines : ReceivePurchaseOrder(o, got)
    \/ \E w \in Warehouses, p \in Products, d \in ManualDeltas, ref \in References \cup {None} :
          ManualTransaction(w, p, d, ref)
    \/ RecalculateReservations

Spec == DataInit /\ [][Next]_dataVars

-----------------------------------------------------------------------------
(* The workflow implements GoodsFlow: a shipment is a trip, loaded and     *)
(* unloaded by the ledger rows that ship() and deliver() write under its   *)
(* id; what a manual transaction books under it is an adjustment.          *)

TripState(status) ==
    CASE status = "absent" -> "none" [] status = "shipped" -> "moving"
      [] status = "delivered" -> "ended"

TripOf(s) ==
    [state |-> TripState(shipment[s].status),
     to |-> IF shipment[s].status = "absent" THEN None ELSE request[shipment[s].request].dest,
     load |-> ShippedUnder(s),
     unloaded |-> ReceivedUnder(s)]

Flow == INSTANCE GoodsFlow WITH
            Trips <- Shipments, Customer <- None, InitialGoods <- Opening,
            goods <- onHand, trip <- [s \in Shipments |-> TripOf(s)]

\* Every unit that leaves a warehouse on a shipment arrives once, at the
\* destination the transfer was created for, whatever happens in between.
ImplementsGoodsFlow == Flow!FlowSpec

=============================================================================
