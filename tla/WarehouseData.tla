---------------------------- MODULE WarehouseData ----------------------------
(***************************************************************************)
(* The database the request handlers and the worker share: the stock rows, *)
(* the inventory ledger and the documents that move stock (outbound        *)
(* requests, pick lists, shipments, purchase orders), with the queries     *)
(* several components make of them.                                        *)
(*                                                                         *)
(* A column of one row per (warehouse, product) is a function from         *)
(* warehouses to vectors of quantities; a document that has not been       *)
(* created yet has status "absent".                                        *)
(***************************************************************************)
EXTENDS Sums

CONSTANTS
    Warehouses, Products,
    Requests, PickLists, Shipments, Orders,  \* identifiers of the documents
    None,             \* NULL; as a destination: an external customer
    MaxQty,           \* bound on the quantity of one order line
    MaxManual,        \* bound on the number of manual transactions
    ManualDeltas,     \* the quantity_delta values a manual transaction may carry
    Deactivatable,    \* the warehouses whose is_active flag is toggled
    Opening           \* stock on hand when the history starts

ASSUME ConstantsAssumption ==
    /\ None \notin Warehouses \cup Requests \cup Shipments \cup Orders
    /\ MaxQty \in Nat /\ MaxManual \in Nat
    /\ ManualDeltas \subseteq Int
    /\ Deactivatable \subseteq Warehouses
    /\ Opening \in [Warehouses -> [Products -> Nat]]
    /\ IsFiniteSet(PickLists)
    /\ Shipments \cap Orders = {}

VARIABLES
    onHand,    \* warehouse_stock.quantity_on_hand
    reserved,  \* warehouse_stock.quantity_reserved
    ledger,    \* sum of inventory_transactions.quantity_delta per stock row
    moved,     \* the same rows by the reference_id they carry
    active,    \* the warehouses with is_active
    request,   \* outbound_requests and their lines
    pickList,  \* pick_lists and their lines
    shipment,  \* shipments
    order,     \* purchase_orders and their lines
    manuals    \* number of manual transactions so far (bounded by MaxManual)

stockVars == <<onHand, reserved, ledger, moved>>
docVars   == <<active, request, pickList, shipment, order, manuals>>
dataVars  == <<stockVars, docVars>>

-----------------------------------------------------------------------------
(* Quantities and row types.                                               *)

NoLines == [p \in Products |-> 0]
Lines   == [Products -> 0..MaxQty]

Plus(v, d)  == [p \in Products |-> v[p] + d[p]]
Minus(v, d) == [p \in Products |-> v[p] - d[p]]

References == Shipments \cup Orders

RequestStatus  == {"requested", "picking", "packed", "shipped", "delivered"}
PickListStatus == {"open", "in_progress", "complete"}
ShipmentStatus == {"shipped", "delivered"}
OrderStatus    == {"pending", "received"}

NoRequest  == [status |-> "absent", source |-> None, dest |-> None, lines |-> NoLines]
NoPickList == [status |-> "absent", request |-> None, picked |-> NoLines]
NoShipment == [status |-> "absent", request |-> None]
NoOrder    == [status |-> "absent", dest |-> None, ordered |-> NoLines, received |-> NoLines]

RequestRows ==
    [status: RequestStatus, source: Warehouses, dest: Warehouses \cup {None},
     lines: [Products -> Nat]] \cup {NoRequest}
PickListRows ==
    [status: PickListStatus, request: Requests, picked: [Products -> Nat]] \cup {NoPickList}
ShipmentRows == [status: ShipmentStatus, request: Requests] \cup {NoShipment}
\* Of the ledger rows that carry one reference_id: all that was taken out and put
\* in, and the part of each that manual transactions booked (history: nothing in
\* a row tells it from one that ship(), deliver() or a receipt wrote).
MovedRows == [out: [Products -> Nat], in: [Products -> Nat],
              manualOut: [Products -> Nat], manualIn: [Products -> Nat]]
NothingMoved == [out |-> NoLines, in |-> NoLines, manualOut |-> NoLines, manualIn |-> NoLines]
OrderRows ==
    [status: OrderStatus, dest: Warehouses, ordered: [Products -> Nat],
     received: [Products -> Nat]] \cup {NoOrder}

-----------------------------------------------------------------------------
(* Queries.                                                                *)

ListsOf(r) == {l \in PickLists : pickList[l].request = r}

IsInternalTransfer(r) == request[r].dest # None

\* outbound_service._picked_quantities: what the completed pick lists of a
\* request say was picked, per product.
PickedQuantities(r) ==
    LET done == {l \in ListsOf(r) : pickList[l].status = "complete"}
    IN  [p \in Products |-> Total([l \in done |-> pickList[l].picked[p]])]

\* The lists worker.recalculate_reservations counts for a warehouse.
ReservingLists(w) ==
    {l \in PickLists : /\ pickList[l].status = "complete"
                       /\ pickList[l].request # None
                       /\ request[pickList[l].request].status = "packed"
                       /\ request[pickList[l].request].source = w}

\* The value the worker's query computes for every stock row.
ReservationTarget ==
    [w \in Warehouses |->
        [p \in Products |-> Total([l \in ReservingLists(w) |-> pickList[l].picked[p]])]]

\* What the handlers of document d took out and put in under its id.
ShippedUnder(d)  == Minus(moved[d].out, moved[d].manualOut)
ReceivedUnder(d) == Minus(moved[d].in, moved[d].manualIn)

-----------------------------------------------------------------------------
(* Preconditions: the checks that answer 409.  A variant whose name begins *)
(* with Faulty is a plausible mistake; no specification uses it.           *)

FaultyNeedsPickList(r) == request[r].status # "absent"

\* generate_pick_list
NeedsPickList(r) == request[r].status = "requested"

FaultyStillOpen(l) == pickList[l].status # "absent"

\* record_pick and complete_pick_list
StillOpen(l) == pickList[l].status \notin {"absent", "complete"}

FaultyPickAllowed(l, p, q) == request[pickList[l].request].lines[p] > 0

\* record_pick; a pick list copies the lines of its request.
PickAllowed(l, p, q) ==
    /\ request[pickList[l].request].lines[p] > 0
    /\ q <= request[pickList[l].request].lines[p]

\* ship
ReadyToShip(r) == request[r].status = "packed" /\ PickedQuantities(r) # NoLines

FaultyUnderWay(s) == shipment[s].status # "absent"

\* deliver
UnderWay(s) == shipment[s].status = "shipped"

\* receive_purchase_order; got is the items payload, or the ordered quantities
\* without one, less the payload lines that are not on the order.
Receivable(o, got) ==
    /\ order[o].status \notin {"absent", "received"}
    /\ \A p \in Products : got[p] > 0 => order[o].ordered[p] > 0

-----------------------------------------------------------------------------
DataInit ==
    /\ onHand = Opening
    /\ reserved = [w \in Warehouses |-> NoLines]
    /\ ledger = [w \in Warehouses |-> NoLines]
    /\ moved = [d \in References |-> NothingMoved]
    /\ active = Warehouses
    /\ request = [r \in Requests |-> NoRequest]
    /\ pickList = [l \in PickLists |-> NoPickList]
    /\ shipment = [s \in Shipments |-> NoShipment]
    /\ order = [o \in Orders |-> NoOrder]
    /\ manuals = 0

-----------------------------------------------------------------------------
(* Manual transactions.                                                    *)

\* create_manual_transaction writes the reference_id its client sent: NULL, or
\* the id of any document, which may be at any stage or not exist yet.
BookManually(ref, delta) ==
    LET takenOut == [p \in Products |-> Max0(0 - delta[p])]
        putIn    == [p \in Products |-> Max0(delta[p])]
    IN  moved' = [d \in References |->
            IF d # ref THEN moved[d]
            ELSE [out |-> Plus(moved[d].out, takenOut),
                  in |-> Plus(moved[d].in, putIn),
                  manualOut |-> Plus(moved[d].manualOut, takenOut),
                  manualIn |-> Plus(moved[d].manualIn, putIn)]]

-----------------------------------------------------------------------------
(* Creation of documents and warehouse maintenance.  Each is one insert or *)
(* one update in a transaction of its own.                                 *)

AddRequest(r, w, d, lines) ==
    /\ request[r].status = "absent"
    /\ lines # NoLines
    /\ request' = [request EXCEPT ![r] =
                      [status |-> "requested", source |-> w, dest |-> d, lines |-> lines]]
    /\ UNCHANGED <<stockVars, active, pickList, shipment, order, manuals>>

\* outbound_service.create_sales_order
CreateSalesOrder(r, w, lines) == AddRequest(r, w, None, lines)

\* outbound_service.create_internal_transfer
CreateInternalTransfer(r, w, d, lines) ==
    /\ w # d
    /\ {w, d} \subseteq active
    /\ AddRequest(r, w, d, lines)

\* procurement_service.create_purchase_order
CreatePurchaseOrder(o, w, lines) ==
    /\ order[o].status = "absent"
    /\ lines # NoLines
    /\ order' = [order EXCEPT ![o] =
                    [status |-> "pending", dest |-> w, ordered |-> lines, received |-> NoLines]]
    /\ UNCHANGED <<stockVars, active, request, pickList, shipment, manuals>>

\* warehouse_service.update_warehouse, the is_active column
UpdateWarehouse(w) ==
    /\ active' = IF w \in active THEN active \ {w} ELSE active \cup {w}
    /\ UNCHANGED <<stockVars, request, pickList, shipment, order, manuals>>

Creation ==
    \/ \E r \in Requests, w \in Warehouses, lines \in Lines :
          \/ CreateSalesOrder(r, w, lines)
          \/ \E d \in Warehouses : CreateInternalTransfer(r, w, d, lines)
    \/ \E o \in Orders, w \in Warehouses, lines \in Lines : CreatePurchaseOrder(o, w, lines)
    \/ \E w \in Deactivatable : UpdateWarehouse(w)

=============================================================================
