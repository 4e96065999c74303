---------------------------- MODULE WarehouseProps ----------------------------
(***************************************************************************)
(* What must be true of the stored data, as state predicates and action    *)
(* formulas over the shared tables.  WarehouseOps is checked against all   *)
(* of them; SessionOps shows which survive overlapping requests.           *)
(***************************************************************************)
EXTENDS WarehouseData

\* Type invariant: every row is of its table's type.
TypeOK ==
    /\ onHand \in [Warehouses -> [Products -> Int]]
    /\ reserved \in [Warehouses -> [Products -> Int]]
    /\ ledger \in [Warehouses -> [Products -> Int]]
    /\ moved \in [References -> MovedRows]
    /\ active \subseteq Warehouses
    /\ request \in [Requests -> RequestRows]
    /\ pickList \in [PickLists -> PickListRows]
    /\ shipment \in [Shipments -> ShipmentRows]
    /\ order \in [Orders -> OrderRows]
    /\ manuals \in 0..MaxManual

-----------------------------------------------------------------------------
(* Stock.                                                                  *)

\* Stock is never taken below zero and no reservation is negative
\* (apply_movement's check, ship()'s max(0, ...)).
NeverNegative ==
    \A w \in Warehouses, p \in Products : onHand[w][p] >= 0 /\ reserved[w][p] >= 0

\* apply_movement keeps quantity_on_hand equal to what the ledger rows add up to.
LedgerInSync ==
    \A w \in Warehouses, p \in Products : onHand[w][p] = Opening[w][p] + ledger[w][p]

\* The reservations that complete_pick_list and ship() keep by increments are
\* what the worker computes from scratch, so its pass has nothing to correct.
ReservationsExact == reserved = ReservationTarget

\* Reserved goods are in the building, so that a packed request can ship, until
\* the first manual transaction: those ignore reservations.
ReservedCovered ==
    manuals = 0 => \A w \in Warehouses, p \in Products : reserved[w][p] <= onHand[w][p]

-----------------------------------------------------------------------------
(* Documents.                                                              *)

OneListPerRequest ==
    \A l, m \in PickLists :
        pickList[l].status # "absent" /\ pickList[l].request = pickList[m].request => l = m

ListFollowsRequest ==
    /\ \A r \in Requests :
          request[r].status \notin {"absent", "requested"} =>
              \E l \in PickLists : pickList[l].request = r
    /\ \A l \in PickLists :
          LET stage == request[pickList[l].request].status
          IN  pickList[l].status # "absent" =>
                /\ stage \notin {"absent", "requested"}
                /\ pickList[l].status = "complete" <=> stage # "picking"

OneShipmentPerRequest ==
    \A s, t \in Shipments :
        shipment[s].status # "absent" /\ shipment[s].request = shipment[t].request => s = t

ShipmentFollowsRequest ==
    /\ \A r \in Requests :
          request[r].status \in {"shipped", "delivered"} =>
              \E s \in Shipments : shipment[s].request = r
    /\ \A s \in Shipments :
          shipment[s].status # "absent" =>
              request[shipment[s].request].status = shipment[s].status

\* A request has one pick list and one shipment at most, and the statuses of
\* the three documents, which different handlers write, agree at all times.
DocumentsAgree ==
    /\ OneListPerRequest
    /\ ListFollowsRequest
    /\ OneShipmentPerRequest
    /\ ShipmentFollowsRequest

\* No request is ever packed with more than its lines asked for.
PickedWithinOrdered ==
    \A r \in Requests, p \in Products : PickedQuantities(r)[p] <= request[r].lines[p]

\* The ledger rows that carry the id of a shipment take out what was picked, once,
\* and put the same quantities in when an internal transfer is delivered, beside
\* what manual transactions booked under that id; before ship() there are no
\* others.
ShipmentsMoveWhatWasPicked ==
    \A s \in Shipments :
        LET r == shipment[s].request
            packed == IF shipment[s].status = "absent" THEN NoLines ELSE PickedQuantities(r)
            arrived == IF shipment[s].status = "delivered" /\ IsInternalTransfer(r)
                       THEN packed ELSE NoLines
        IN  /\ moved[s].out = Plus(packed, moved[s].manualOut)
            /\ moved[s].in = Plus(arrived, moved[s].manualIn)

\* quantity_received of an order's lines is what the ledger rows with its id
\* brought in, beside what manual transactions booked under it; nothing else is
\* booked under it before the one receipt, and nothing is taken out.
ReceiptsBooked ==
    \A o \in Orders :
        /\ moved[o].in = Plus(order[o].received, moved[o].manualIn)
        /\ moved[o].out = moved[o].manualOut
        /\ order[o].status # "received" => order[o].received = NoLines

\* An order closes only when everything ordered has come in, so that a partial
\* receipt can be followed by another (journeys.md, procurement edge cases).
PartialReceiptStaysOpen ==
    \A o \in Orders :
        order[o].status = "received" =>
            \A p \in Products : order[o].received[p] >= order[o].ordered[p]

-----------------------------------------------------------------------------
(* Steps.                                                                  *)

Rank(status) ==
    CASE status = "absent" -> 0 [] status = "requested" -> 1 [] status = "picking" -> 2
      [] status = "packed" -> 3 [] status = "shipped" -> 4 [] status = "delivered" -> 5

\* The status of a request advances one stage at a time and never goes back.
StatusNeverReverts ==
    [][\A r \in Requests :
          Rank(request'[r].status) \in {Rank(request[r].status), Rank(request[r].status) + 1}]_request

\* What a completed pick list says was picked is what gets reserved, shipped and
\* delivered later: the list never changes again.
CompletedListsAreFrozen ==
    [][\A l \in PickLists :
          pickList[l].status = "complete" => pickList'[l] = pickList[l]]_pickList

=============================================================================
