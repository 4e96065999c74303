----------------------------- MODULE StockProofs -----------------------------
(***************************************************************************)
(* Proofs about the stock columns of WarehouseOps, for any number of       *)
(* warehouses, products and documents: they are typed, never negative and  *)
(* agree with the ledger; the reservations that complete_pick_list and     *)
(* ship() keep by increments are at all times what the worker would        *)
(* compute from the pick lists, and the stock on hand covers them until    *)
(* the first manual transaction.                                           *)
(***************************************************************************)
EXTENDS WarehouseOps, SumsProofs

\* What the completed pick lists of a request hold is a vector of naturals.
LEMMA PickedType ==
    ASSUME TypeOK, ConstantsAssumption, NEW r
    PROVE  PickedQuantities(r) \in [Products -> Nat]
<1> DEFINE done == {l \in ListsOf(r) : pickList[l].status = "complete"}
<1>1. SUFFICES ASSUME NEW p \in Products
              PROVE  Total([l \in done |-> pickList[l].picked[p]]) \in Nat
  BY DEF PickedQuantities
<1>2. IsFiniteSet(done)
  BY FS_Subset DEF ConstantsAssumption, ListsOf
<1>3. [l \in done |-> pickList[l].picked[p]] \in [done -> Nat]
  BY DEF TypeOK, PickListRows, NoPickList, NoLines, ListsOf
<1>4. QED
  BY <1>2, <1>3, TotalType

\* So is what the worker computes for a warehouse.
LEMMA TargetType ==
    ASSUME TypeOK, ConstantsAssumption
    PROVE  ReservationTarget \in [Warehouses -> [Products -> Nat]]
<1>1. SUFFICES ASSUME NEW w \in Warehouses, NEW p \in Products
              PROVE  Total([l \in ReservingLists(w) |-> pickList[l].picked[p]]) \in Nat
  BY DEF ReservationTarget
<1>2. IsFiniteSet(ReservingLists(w))
  BY FS_Subset DEF ConstantsAssumption, ReservingLists
<1>3. [l \in ReservingLists(w) |-> pickList[l].picked[p]] \in [ReservingLists(w) -> Nat]
  BY DEF TypeOK, PickListRows, NoPickList, NoLines, ReservingLists
<1>4. QED
  BY <1>2, <1>3, TotalType

-----------------------------------------------------------------------------
(* Type correctness.                                                       *)

\* Replacing one value of a function by one of the same type.
LEMMA UpdateType ==
    ASSUME NEW D, NEW R, NEW f \in [D -> R], NEW x, NEW v, x \in D => v \in R
    PROVE  [f EXCEPT ![x] = v] \in [D -> R]
OBVIOUS

LEMMA PlusInt ==
    ASSUME NEW v \in [Products -> Int], NEW d \in [Products -> Int]
    PROVE  Plus(v, d) \in [Products -> Int]
BY DEF Plus

LEMMA PlusNat ==
    ASSUME NEW v \in [Products -> Nat], NEW d \in [Products -> Nat]
    PROVE  Plus(v, d) \in [Products -> Nat]
BY DEF Plus

LEMMA TypeInit == ConstantsAssumption /\ DataInit => TypeOK
BY DEF DataInit, ConstantsAssumption, TypeOK, MovedRows, NothingMoved, NoLines, NoRequest, NoPickList, NoShipment, NoOrder,
       RequestRows, PickListRows, ShipmentRows, OrderRows

\* A movement of integer quantities keeps the stock columns and the ledger typed.
LEMMA MovementType ==
    ASSUME TypeOK, NEW w, NEW delta \in [Products -> Int], ApplyMovement(w, delta)
    PROVE  /\ onHand' \in [Warehouses -> [Products -> Int]]
           /\ ledger' \in [Warehouses -> [Products -> Int]]
<1>1. w \in Warehouses => Plus(onHand[w], delta) \in [Products -> Int]
  BY PlusInt DEF TypeOK
<1>2. [onHand EXCEPT ![w] = Plus(onHand[w], delta)] \in [Warehouses -> [Products -> Int]]
  BY <1>1, UpdateType DEF TypeOK
<1>3. w \in Warehouses => Plus(ledger[w], delta) \in [Products -> Int]
  BY PlusInt DEF TypeOK
<1>4. [ledger EXCEPT ![w] = Plus(ledger[w], delta)] \in [Warehouses -> [Products -> Int]]
  BY <1>3, UpdateType DEF TypeOK
<1>5. QED
  BY <1>2, <1>4 DEF ApplyMovement

LEMMA PutInType ==
    ASSUME TypeOK, NEW d, NEW qty \in [Products -> Nat], PutIn(d, qty)
    PROVE  moved' \in [References -> MovedRows]
<1> DEFINE new == Plus(moved[d].in, qty)
           row == [moved[d] EXCEPT !.in = new]
<1>1. ASSUME d \in References PROVE row \in MovedRows
  <2>1. moved[d] \in MovedRows
    BY <1>1 DEF TypeOK
  <2>2. new \in [Products -> Nat]
    BY <2>1, PlusNat DEF MovedRows
  <2> HIDE DEF new
  <2>3. QED
    BY <2>1, <2>2 DEF MovedRows
<1>2. moved' = [moved EXCEPT ![d] = row]
  BY DEF PutIn
<1>3. QED
  BY <1>1, <1>2, UpdateType DEF TypeOK

LEMMA TakeOutType ==
    ASSUME TypeOK, NEW d, NEW qty \in [Products -> Nat], TakeOut(d, qty)
    PROVE  moved' \in [References -> MovedRows]
<1> DEFINE new == Plus(moved[d].out, qty)
           row == [moved[d] EXCEPT !.out = new]
<1>1. ASSUME d \in References PROVE row \in MovedRows
  <2>1. moved[d] \in MovedRows
    BY <1>1 DEF TypeOK
  <2>2. new \in [Products -> Nat]
    BY <2>1, PlusNat DEF MovedRows
  <2> HIDE DEF new
  <2>3. QED
    BY <2>1, <2>2 DEF MovedRows
<1>2. moved' = [moved EXCEPT ![d] = row]
  BY DEF TakeOut
<1>3. QED
  BY <1>1, <1>2, UpdateType DEF TypeOK

LEMMA ManualType ==
    ASSUME TypeOK, NEW ref, NEW delta \in [Products -> Int], BookManually(ref, delta)
    PROVE  moved' \in [References -> MovedRows]
<1> DEFINE takenOut == [p \in Products |-> Max0(0 - delta[p])]
           putIn == [p \in Products |-> Max0(delta[p])]
           row(d) == [out |-> Plus(moved[d].out, takenOut), in |-> Plus(moved[d].in, putIn),
                      manualOut |-> Plus(moved[d].manualOut, takenOut),
                      manualIn |-> Plus(moved[d].manualIn, putIn)]
<1>1. takenOut \in [Products -> Nat] /\ putIn \in [Products -> Nat]
  BY DEF Max0
<1>2. ASSUME NEW d \in References PROVE moved[d] \in MovedRows /\ row(d) \in MovedRows
  <2>1. moved[d] \in MovedRows
    BY DEF TypeOK
  <2>2. QED
    BY <1>1, <2>1, PlusNat DEF MovedRows
<1>3. moved' = [d \in References |-> IF d # ref THEN moved[d] ELSE row(d)]
  BY DEF BookManually
<1>4. QED
  BY <1>2, <1>3

\* The row of an existing document refers to rows that exist.
LEMMA RowsExist ==
    ASSUME TypeOK, DocumentsAgree
    PROVE  /\ \A l \in PickLists : pickList[l].status # "absent" =>
                 /\ pickList[l].request \in Requests
                 /\ pickList[l].picked \in [Products -> Nat]
                 /\ request[pickList[l].request].status # "absent"
           /\ \A s \in Shipments : shipment[s].status # "absent" =>
                 /\ shipment[s].request \in Requests
                 /\ request[shipment[s].request].status \in {"shipped", "delivered"}
           /\ \A r \in Requests : request[r].status # "absent" =>
                 /\ request[r].source \in Warehouses
                 /\ request[r].dest \in Warehouses \cup {None}
           /\ \A o \in Orders : order[o].status # "absent" =>
                 /\ order[o].dest \in Warehouses
                 /\ order[o].received \in [Products -> Nat]
<1>1. \A l \in PickLists : pickList[l].status # "absent" =>
                 /\ pickList[l].request \in Requests
                 /\ pickList[l].picked \in [Products -> Nat]
                 /\ request[pickList[l].request].status # "absent"
  BY DEF TypeOK, DocumentsAgree, ListFollowsRequest, PickListRows, NoPickList
<1>2. \A s \in Shipments : shipment[s].status # "absent" =>
                 /\ shipment[s].request \in Requests
                 /\ request[shipment[s].request].status \in {"shipped", "delivered"}
  BY DEF TypeOK, DocumentsAgree, ShipmentFollowsRequest, ShipmentRows, ShipmentStatus, NoShipment
<1>3. \A r \in Requests : request[r].status # "absent" =>
                 /\ request[r].source \in Warehouses
                 /\ request[r].dest \in Warehouses \cup {None}
  BY DEF TypeOK, RequestRows, NoRequest
<1>4. \A o \in Orders : order[o].status # "absent" =>
                 /\ order[o].dest \in Warehouses
                 /\ order[o].received \in [Products -> Nat]
  BY DEF TypeOK, OrderRows, NoOrder
<1>5. QED
  BY <1>1, <1>2, <1>3, <1>4

\* Changing the status of an existing request to another one keeps its type.
LEMMA StatusType ==
    ASSUME TypeOK, NEW r, r \in Requests => request[r].status # "absent",
           NEW status \in RequestStatus,
           request' = [request EXCEPT ![r].status = status]
    PROVE  request' \in [Requests -> RequestRows]
<1> DEFINE row == [request[r] EXCEPT !.status = status]
<1>1. ASSUME r \in Requests PROVE row \in RequestRows
  <2>1. request[r] \in [status: RequestStatus, source: Warehouses, dest: Warehouses \cup {None},
                        lines: [Products -> Nat]]
    BY <1>1 DEF TypeOK, RequestRows, NoRequest
  <2>2. QED
    BY <2>1 DEF RequestRows
<1>2. request' = [request EXCEPT ![r] = row]
  OBVIOUS
<1>3. QED
  BY <1>1, <1>2, UpdateType DEF TypeOK

LEMMA TypeStep ==
    ConstantsAssumption /\ TypeOK /\ DocumentsAgree /\ [Next]_dataVars => TypeOK'
<1> SUFFICES ASSUME ConstantsAssumption, TypeOK, DocumentsAgree, [Next]_dataVars PROVE TypeOK'
  OBVIOUS
<1> USE DEF dataVars, stockVars, docVars
<1>1. ASSUME NEW r \in Requests, NEW w \in Warehouses, NEW d \in Warehouses \cup {None},
             NEW lines \in Lines, AddRequest(r, w, d, lines)
      PROVE  TypeOK'
  BY <1>1 DEF AddRequest, TypeOK, RequestRows, RequestStatus, Lines
<1>2. CASE Creation
  <2>1. ASSUME NEW o \in Orders, NEW w \in Warehouses, NEW lines \in Lines,
               CreatePurchaseOrder(o, w, lines)
        PROVE  TypeOK'
    BY <2>1 DEF CreatePurchaseOrder, TypeOK, OrderRows, OrderStatus, Lines, NoLines
  <2>2. ASSUME NEW w \in Deactivatable, UpdateWarehouse(w) PROVE TypeOK'
    BY <2>2 DEF UpdateWarehouse, TypeOK, ConstantsAssumption
  <2>3. QED
    BY <1>1, <1>2, <2>1, <2>2 DEF Creation, CreateSalesOrder, CreateInternalTransfer
<1>3. ASSUME NEW r \in Requests, NEW l \in PickLists, GeneratePickList(r, l) PROVE TypeOK'
  <2>1. pickList' \in [PickLists -> PickListRows]
    BY <1>3 DEF GeneratePickList, TypeOK, PickListRows, PickListStatus, NoLines
  <2>2. request' \in [Requests -> RequestRows]
    BY <1>3, StatusType DEF GeneratePickList, NeedsPickList, RequestStatus
  <2>3. QED
    BY <1>3, <2>1, <2>2 DEF GeneratePickList, TypeOK
<1>4. ASSUME NEW l \in PickLists, NEW p \in Products, NEW q \in 0..MaxQty, RecordPick(l, p, q)
      PROVE  TypeOK'
  <2> DEFINE picked == [pickList[l].picked EXCEPT ![p] = q]
             row == [pickList[l] EXCEPT !.status = "in_progress", !.picked = picked]
  <2>1. pickList[l] \in [status: PickListStatus, request: Requests, picked: [Products -> Nat]]
    BY <1>4 DEF RecordPick, StillOpen, TypeOK, PickListRows, NoPickList
  <2>2. picked \in [Products -> Nat]
    BY <2>1 DEF ConstantsAssumption
  <2>3. row \in [status: PickListStatus, request: Requests, picked: [Products -> Nat]]
    BY <2>1, <2>2 DEF PickListStatus
  <2>4. pickList' = [pickList EXCEPT ![l] = row] /\ row \in PickListRows
    BY <1>4, <2>3 DEF RecordPick, PickListRows
  <2>5. pickList' \in [PickLists -> PickListRows]
    BY <2>4, UpdateType DEF TypeOK
  <2>6. QED
    BY <1>4, <2>5 DEF RecordPick, TypeOK
<1>5. ASSUME NEW l \in PickLists, CompletePickList(l) PROVE TypeOK'
  <2>1. pickList' \in [PickLists -> PickListRows]
    BY <1>5 DEF CompletePickList, StillOpen, TypeOK, PickListRows, PickListStatus, NoPickList
  <2>2. pickList[l].picked \in [Products -> Int]
    BY <1>5, RowsExist DEF CompletePickList, StillOpen
  <2> DEFINE w == request[pickList[l].request].source
  <2>6. w \in Warehouses => Plus(reserved[w], pickList[l].picked) \in [Products -> Int]
    BY <2>2, PlusInt DEF TypeOK
  <2>3. reserved' \in [Warehouses -> [Products -> Int]]
    BY <1>5, <2>6, UpdateType DEF CompletePickList, Reserve, TypeOK
  <2>4. request' \in [Requests -> RequestRows]
    BY <1>5, RowsExist, StatusType DEF CompletePickList, StillOpen, RequestStatus
  <2>5. QED
    BY <1>5, <2>1, <2>3, <2>4 DEF CompletePickList, TypeOK
<1>6. ASSUME NEW r \in Requests, NEW s \in Shipments, Ship(r, s) PROVE TypeOK'
  <2> DEFINE picked == PickedQuantities(r)
             taken == Minus(NoLines, picked)
             w == request[r].source
             rest == [p \in Products |-> Max0(reserved[w][p] - picked[p])]
  <2>1. picked \in [Products -> Nat] /\ taken \in [Products -> Int]
    BY PickedType DEF Minus, NoLines
  <2>2. shipment' \in [Shipments -> ShipmentRows]
    BY <1>6 DEF Ship, TypeOK, ShipmentRows, ShipmentStatus
  <2>3. reserved' \in [Warehouses -> [Products -> Int]]
    <3>1. w \in Warehouses => rest \in [Products -> Int]
      BY <2>1 DEF TypeOK, Max0
    <3>2. reserved' = [reserved EXCEPT ![w] = rest]
      BY <1>6 DEF Ship, Release
    <3>3. QED
      BY <3>1, <3>2, UpdateType DEF TypeOK
  <2>4. /\ onHand' \in [Warehouses -> [Products -> Int]]
        /\ ledger' \in [Warehouses -> [Products -> Int]]
    BY <1>6, <2>1, MovementType DEF Ship
  <2>5. moved' \in [References -> MovedRows]
    BY <1>6, <2>1, TakeOutType DEF Ship
  <2>6. request' \in [Requests -> RequestRows]
    BY <1>6, StatusType DEF Ship, ReadyToShip, RequestStatus
  <2>7. QED
    BY <1>6, <2>2, <2>3, <2>4, <2>5, <2>6 DEF Ship, TypeOK
<1>7. ASSUME NEW s \in Shipments, Deliver(s) PROVE TypeOK'
  <2> DEFINE r == shipment[s].request
             picked == PickedQuantities(r)
  <2>1. picked \in [Products -> Nat] /\ picked \in [Products -> Int]
    BY PickedType DEF Minus, NoLines
  <2>2. shipment' \in [Shipments -> ShipmentRows]
    <3>1. [shipment[s] EXCEPT !.status = "delivered"] \in ShipmentRows
      BY <1>7 DEF Deliver, UnderWay, TypeOK, ShipmentRows, ShipmentStatus, NoShipment
    <3>2. QED
      BY <1>7, <3>1, UpdateType DEF Deliver, TypeOK
  <2>3. /\ onHand' \in [Warehouses -> [Products -> Int]]
        /\ ledger' \in [Warehouses -> [Products -> Int]]
        /\ moved' \in [References -> MovedRows]
    <3>1. CASE IsInternalTransfer(r)
      BY <1>7, <2>1, <3>1, MovementType, PutInType DEF Deliver
    <3>2. CASE ~IsInternalTransfer(r)
      BY <1>7, <3>2 DEF Deliver, TypeOK
    <3>3. QED
      BY <3>1, <3>2
  <2>4. request' \in [Requests -> RequestRows]
    <3>1. r \in Requests => request[r].status # "absent"
      BY <1>7, RowsExist DEF Deliver, UnderWay
    <3>2. QED
      BY <1>7, <3>1, StatusType DEF Deliver, RequestStatus
  <2>5. QED
    BY <1>7, <2>2, <2>3, <2>4 DEF Deliver, TypeOK
<1>8. ASSUME NEW o \in Orders, NEW got \in Lines, ReceivePurchaseOrder(o, got) PROVE TypeOK'
  <2>1. got \in [Products -> Nat] /\ got \in [Products -> Int]
    BY DEF Lines
  <2>2. order' \in [Orders -> OrderRows]
    <3> DEFINE sum == Plus(order[o].received, got)
               row == [order[o] EXCEPT !.status = "received", !.received = sum]
    <3>1. order[o] \in [status: OrderStatus, dest: Warehouses, ordered: [Products -> Nat],
                        received: [Products -> Nat]]
      BY <1>8 DEF ReceivePurchaseOrder, Receivable, TypeOK, OrderRows, NoOrder
    <3>2. row \in OrderRows
      <4>1. sum \in [Products -> Nat]
        BY <2>1, <3>1, PlusNat
      <4>2. row \in [status: OrderStatus, dest: Warehouses, ordered: [Products -> Nat],
                     received: [Products -> Nat]]
        BY <3>1, <4>1 DEF OrderStatus
      <4>3. QED
        BY <4>2 DEF OrderRows
    <3>3. order' = [order EXCEPT ![o] = row]
      BY <1>8 DEF ReceivePurchaseOrder, Close
    <3>4. QED
      BY <3>2, <3>3, UpdateType DEF TypeOK
  <2>3. /\ onHand' \in [Warehouses -> [Products -> Int]]
        /\ ledger' \in [Warehouses -> [Products -> Int]]
        /\ moved' \in [References -> MovedRows]
    BY <1>8, <2>1, MovementType, PutInType DEF ReceivePurchaseOrder
  <2>4. QED
    BY <1>8, <2>2, <2>3 DEF ReceivePurchaseOrder, TypeOK
<1>9. ASSUME NEW w \in Warehouses, NEW p \in Products, NEW d \in ManualDeltas,
             NEW ref \in References \cup {None}, ManualTransaction(w, p, d, ref)
      PROVE  TypeOK'
  <2>1. [NoLines EXCEPT ![p] = d] \in [Products -> Int]
    BY DEF NoLines, ConstantsAssumption
  <2>2. manuals' \in 0..MaxManual
    BY <1>9 DEF ManualTransaction, TypeOK, ConstantsAssumption
  <2>3. QED
    BY <1>9, <2>1, <2>2, MovementType, ManualType DEF ManualTransaction, TypeOK
<1>10. CASE RecalculateReservations
  <2>1. reserved' \in [Warehouses -> [Products -> Int]]
    BY <1>10, TargetType DEF RecalculateReservations
  <2>2. QED
    BY <1>10, <2>1 DEF RecalculateReservations, TypeOK
<1>11. CASE UNCHANGED dataVars
  BY <1>11 DEF TypeOK
<1>12. QED
  BY <1>2, <1>3, <1>4, <1>5, <1>6, <1>7, <1>8, <1>9, <1>10, <1>11 DEF Next

-----------------------------------------------------------------------------
(* Agreement of the documents.                                             *)

\* A row of status "absent" is the empty row.
LEMMA AbsentRows ==
    ASSUME TypeOK
    PROVE  /\ \A l \in PickLists : pickList[l].status = "absent" => pickList[l] = NoPickList
           /\ \A s \in Shipments : shipment[s].status = "absent" => shipment[s] = NoShipment
           /\ \A r \in Requests : request[r].status = "absent" => request[r] = NoRequest
<1>1. ASSUME NEW l \in PickLists, pickList[l].status = "absent" PROVE pickList[l] = NoPickList
  BY <1>1 DEF TypeOK, PickListRows, PickListStatus
<1>2. ASSUME NEW s \in Shipments, shipment[s].status = "absent" PROVE shipment[s] = NoShipment
  BY <1>2 DEF TypeOK, ShipmentRows, ShipmentStatus
<1>3. ASSUME NEW r \in Requests, request[r].status = "absent" PROVE request[r] = NoRequest
  BY <1>3 DEF TypeOK, RequestRows, RequestStatus
<1>4. QED
  BY <1>1, <1>2, <1>3

\* What the documents of a request look like after each action that changes them.
LEMMA GenerateEffect ==
    ASSUME TypeOK, NEW r \in Requests, NEW l \in PickLists, GeneratePickList(r, l)
    PROVE  /\ pickList[l].status = "absent" /\ pickList[l].request = None
           /\ pickList'[l].status = "open" /\ pickList'[l].request = r
           /\ \A m \in PickLists : m # l => pickList'[m] = pickList[m]
           /\ request[r].status = "requested" /\ request'[r].status = "picking"
           /\ \A q \in Requests : q # r => request'[q] = request[q]
           /\ shipment' = shipment
<1>1. pickList[l].request = None
  BY AbsentRows DEF GeneratePickList, NoPickList
<1>2. QED
  BY <1>1 DEF GeneratePickList, NeedsPickList, TypeOK

LEMMA RecordEffect ==
    ASSUME TypeOK, NEW l \in PickLists, NEW p \in Products, NEW q \in 0..MaxQty, RecordPick(l, p, q)
    PROVE  /\ pickList[l].status \notin {"absent", "complete"}
           /\ pickList'[l].status = "in_progress" /\ pickList'[l].request = pickList[l].request
           /\ \A m \in PickLists : m # l => pickList'[m] = pickList[m]
           /\ request' = request /\ shipment' = shipment
<1>1. pickList[l] \in [status: PickListStatus, request: Requests, picked: [Products -> Nat]]
  BY DEF RecordPick, StillOpen, TypeOK, PickListRows, NoPickList
<1>2. QED
  BY <1>1 DEF RecordPick, StillOpen, TypeOK

LEMMA CompleteEffect ==
    ASSUME TypeOK, DocumentsAgree, NEW l \in PickLists, CompletePickList(l)
    PROVE  LET r == pickList[l].request
           IN  /\ pickList[l].status \notin {"absent", "complete"}
               /\ pickList'[l].status = "complete" /\ pickList'[l].request = r
               /\ pickList'[l].picked = pickList[l].picked
               /\ \A m \in PickLists : m # l => pickList'[m] = pickList[m]
               /\ r \in Requests /\ request[r].status = "picking" /\ request'[r].status = "packed"
               /\ request'[r].source = request[r].source
               /\ \A q \in Requests : q # r => request'[q] = request[q]
               /\ shipment' = shipment
<1> DEFINE r == pickList[l].request
<1>1. pickList[l] \in [status: PickListStatus, request: Requests, picked: [Products -> Nat]]
  BY DEF CompletePickList, StillOpen, TypeOK, PickListRows, NoPickList
<1>2. r \in Requests /\ request[r].status = "picking"
  BY <1>1 DEF CompletePickList, StillOpen, DocumentsAgree, ListFollowsRequest
<1>3. request[r] \in [status: RequestStatus, source: Warehouses, dest: Warehouses \cup {None},
                      lines: [Products -> Nat]]
  BY <1>2 DEF TypeOK, RequestRows, NoRequest
<1>4. request'[r].status = "packed" /\ request'[r].source = request[r].source
  BY <1>2, <1>3 DEF CompletePickList, TypeOK
<1>5. QED
  BY <1>1, <1>2, <1>4 DEF CompletePickList, StillOpen, TypeOK

LEMMA ShipEffect ==
    ASSUME TypeOK, NEW r \in Requests, NEW s \in Shipments, Ship(r, s)
    PROVE  /\ shipment[s].status = "absent" /\ shipment[s].request = None
           /\ shipment'[s].status = "shipped" /\ shipment'[s].request = r
           /\ \A n \in Shipments : n # s => shipment'[n] = shipment[n]
           /\ request[r].status = "packed" /\ request'[r].status = "shipped"
           /\ \A q \in Requests : q # r => request'[q] = request[q]
           /\ pickList' = pickList
<1>1. shipment[s].request = None
  BY AbsentRows DEF Ship, NoShipment
<1>2. QED
  BY <1>1 DEF Ship, ReadyToShip, TypeOK

LEMMA DeliverEffect ==
    ASSUME TypeOK, DocumentsAgree, NEW s \in Shipments, Deliver(s)
    PROVE  LET r == shipment[s].request
           IN  /\ shipment[s].status = "shipped"
               /\ shipment'[s].status = "delivered" /\ shipment'[s].request = r
               /\ \A n \in Shipments : n # s => shipment'[n] = shipment[n]
               /\ r \in Requests /\ request[r].status = "shipped" /\ request'[r].status = "delivered"
               /\ \A q \in Requests : q # r => request'[q] = request[q]
               /\ pickList' = pickList
<1> DEFINE r == shipment[s].request
<1>1. shipment[s] \in [status: ShipmentStatus, request: Requests]
  BY DEF Deliver, UnderWay, TypeOK, ShipmentRows, NoShipment
<1>2. r \in Requests /\ request[r].status = "shipped"
  BY <1>1 DEF Deliver, UnderWay, DocumentsAgree, ShipmentFollowsRequest
<1>3. QED
  BY <1>1, <1>2 DEF Deliver, UnderWay, TypeOK

LEMMA AddRequestEffect ==
    ASSUME TypeOK, NEW r \in Requests, NEW w, NEW d, NEW lines, AddRequest(r, w, d, lines)
    PROVE  /\ request[r].status = "absent" /\ request'[r].status = "requested"
           /\ \A q \in Requests : q # r => request'[q] = request[q]
           /\ pickList' = pickList /\ shipment' = shipment
BY DEF AddRequest, TypeOK

LEMMA DocsInit == ConstantsAssumption /\ DataInit => DocumentsAgree
BY DEF DataInit, ConstantsAssumption, DocumentsAgree, OneListPerRequest, ListFollowsRequest,
       OneShipmentPerRequest, ShipmentFollowsRequest, NoRequest, NoPickList, NoShipment

\* A list or a shipment refers to a request exactly when it exists.
LEMMA ReferenceRows ==
    ASSUME ConstantsAssumption, TypeOK
    PROVE  /\ \A l \in PickLists : pickList[l].request \in Requests \cup {None}
           /\ \A l \in PickLists : pickList[l].request # None <=> pickList[l].status # "absent"
           /\ \A s \in Shipments : shipment[s].request \in Requests \cup {None}
           /\ \A s \in Shipments : shipment[s].request # None <=> shipment[s].status # "absent"
           /\ \A s \in Shipments : shipment[s].status \in {"absent", "shipped", "delivered"}
           /\ None \notin Requests
<1>1. None \notin Requests
  BY DEF ConstantsAssumption
<1>2. ASSUME NEW l \in PickLists
      PROVE  /\ pickList[l].request \in Requests \cup {None}
             /\ pickList[l].request # None <=> pickList[l].status # "absent"
  <2>1. pickList[l] \in PickListRows
    BY DEF TypeOK
  <2>2. QED
    BY <1>1, <2>1 DEF PickListRows, NoPickList, PickListStatus
<1>3. ASSUME NEW s \in Shipments
      PROVE  /\ shipment[s].request \in Requests \cup {None}
             /\ shipment[s].request # None <=> shipment[s].status # "absent"
             /\ shipment[s].status \in {"absent", "shipped", "delivered"}
  <2>1. shipment[s] \in ShipmentRows
    BY DEF TypeOK
  <2>2. QED
    BY <1>1, <2>1 DEF ShipmentRows, NoShipment, ShipmentStatus
<1>4. QED
  BY <1>1, <1>2, <1>3

LEMMA DocsStep ==
    ConstantsAssumption /\ TypeOK /\ DocumentsAgree /\ [Next]_dataVars => DocumentsAgree'
<1> SUFFICES ASSUME ConstantsAssumption, TypeOK, DocumentsAgree, [Next]_dataVars
             PROVE  DocumentsAgree'
  OBVIOUS
<1> USE DEF DocumentsAgree, OneListPerRequest, ListFollowsRequest, OneShipmentPerRequest,
            ShipmentFollowsRequest
<1>2. ASSUME UNCHANGED <<request, pickList, shipment>> PROVE DocumentsAgree'
  BY <1>2
<1>3. ASSUME NEW r \in Requests, NEW w \in Warehouses, NEW d, NEW lines, AddRequest(r, w, d, lines)
      PROVE  DocumentsAgree'
  BY ReferenceRows, <1>3, AddRequestEffect
<1>4. CASE Creation
  BY <1>2, <1>3, <1>4 DEF Creation, CreateSalesOrder, CreateInternalTransfer, CreatePurchaseOrder,
                          UpdateWarehouse
<1>5. ASSUME NEW r \in Requests, NEW l \in PickLists, GeneratePickList(r, l) PROVE DocumentsAgree'
  <2>1. OneListPerRequest'
    BY ReferenceRows, <1>5, GenerateEffect
  <2>2. ListFollowsRequest'
    BY ReferenceRows, <1>5, GenerateEffect
  <2>3. OneShipmentPerRequest'
    BY ReferenceRows, <1>5, GenerateEffect
  <2>4. ShipmentFollowsRequest'
    BY ReferenceRows, <1>5, GenerateEffect
  <2>5. QED
    BY <2>1, <2>2, <2>3, <2>4
<1>6. ASSUME NEW l \in PickLists, NEW p \in Products, NEW q \in 0..MaxQty, RecordPick(l, p, q)
      PROVE  DocumentsAgree'
  BY ReferenceRows, <1>6, RecordEffect
<1>7. ASSUME NEW l \in PickLists, CompletePickList(l) PROVE DocumentsAgree'
  <2>1. OneListPerRequest'
    BY ReferenceRows, <1>7, CompleteEffect
  <2>2. ListFollowsRequest'
    BY ReferenceRows, <1>7, CompleteEffect
  <2>3. OneShipmentPerRequest'
    BY ReferenceRows, <1>7, CompleteEffect
  <2>4. ShipmentFollowsRequest'
    BY ReferenceRows, <1>7, CompleteEffect
  <2>5. QED
    BY <2>1, <2>2, <2>3, <2>4
<1>8. ASSUME NEW r \in Requests, NEW s \in Shipments, Ship(r, s) PROVE DocumentsAgree'
  <2>1. OneListPerRequest'
    BY ReferenceRows, <1>8, ShipEffect
  <2>2. ListFollowsRequest'
    BY ReferenceRows, <1>8, ShipEffect
  <2>3. OneShipmentPerRequest'
    BY ReferenceRows, <1>8, ShipEffect
  <2>4. ShipmentFollowsRequest'
    BY ReferenceRows, <1>8, ShipEffect
  <2>5. QED
    BY <2>1, <2>2, <2>3, <2>4
<1>9. ASSUME NEW s \in Shipments, Deliver(s) PROVE DocumentsAgree'
  BY ReferenceRows, <1>9, DeliverEffect
<1>10. ASSUME NEW o \in Orders, NEW got \in Lines, ReceivePurchaseOrder(o, got)
       PROVE  DocumentsAgree'
  BY <1>2, <1>10 DEF ReceivePurchaseOrder
<1>11. ASSUME NEW w \in Warehouses, NEW p \in Products, NEW d \in ManualDeltas,
              NEW ref \in References \cup {None}, ManualTransaction(w, p, d, ref)
       PROVE  DocumentsAgree'
  BY <1>2, <1>11 DEF ManualTransaction
<1>12. CASE RecalculateReservations
  BY <1>2, <1>12 DEF RecalculateReservations, docVars
<1>13. CASE UNCHANGED dataVars
  BY <1>2, <1>13 DEF dataVars, docVars
<1>14. QED
  BY <1>4, <1>5, <1>6, <1>7, <1>8, <1>9, <1>10, <1>11, <1>12, <1>13 DEF Next

-----------------------------------------------------------------------------
(* Stock that is never negative and agrees with its ledger.                *)

\* apply_movement keeps every row non-negative and in step with its ledger.
LEMMA MovementKeeps ==
    ASSUME TypeOK, ConstantsAssumption, NEW w, NEW delta \in [Products -> Int],
           ApplyMovement(w, delta), NEW v \in Warehouses, NEW p \in Products
    PROVE  /\ onHand[v][p] >= 0 => onHand'[v][p] >= 0
           /\ onHand[v][p] = Opening[v][p] + ledger[v][p] =>
                  onHand'[v][p] = Opening[v][p] + ledger'[v][p]
<1>1. /\ onHand[v][p] \in Int /\ ledger[v][p] \in Int
      /\ Opening[v][p] \in Int /\ delta[p] \in Int
  BY DEF TypeOK, ConstantsAssumption
<1>2. CASE v = w
  <2>1. onHand[w][p] + delta[p] >= 0
    BY DEF ApplyMovement
  <2>2. onHand'[w] = Plus(onHand[w], delta) /\ ledger'[w] = Plus(ledger[w], delta)
    BY <1>2 DEF ApplyMovement, TypeOK
  <2>3. onHand'[w][p] = onHand[w][p] + delta[p] /\ ledger'[w][p] = ledger[w][p] + delta[p]
    BY <2>2 DEF Plus
  <2>4. QED
    BY <1>1, <1>2, <2>1, <2>3
<1>3. CASE v # w
  BY <1>3 DEF ApplyMovement, TypeOK
<1>4. QED
  BY <1>2, <1>3

\* Every step moves on hand and ledger by apply_movement or leaves both alone.
LEMMA StockSteps ==
    ASSUME ConstantsAssumption, TypeOK, DocumentsAgree, [Next]_dataVars
    PROVE  \/ UNCHANGED <<onHand, ledger>>
           \/ \E w \in Warehouses, delta \in [Products -> Int] : ApplyMovement(w, delta)
<1> DEFINE Move == \E w \in Warehouses, delta \in [Products -> Int] : ApplyMovement(w, delta)
<1> USE DEF dataVars, stockVars, docVars
<1>1. ASSUME NEW r \in Requests, NEW s \in Shipments, Ship(r, s) PROVE Move
  <2>1. PickedQuantities(r) \in [Products -> Nat]
    BY PickedType
  <2>2. Minus(NoLines, PickedQuantities(r)) \in [Products -> Int]
    BY <2>1 DEF Minus, NoLines
  <2>3. request[r].source \in Warehouses
    BY <1>1, RowsExist DEF Ship, ReadyToShip
  <2>4. QED
    BY <1>1, <2>2, <2>3 DEF Ship
<1>2. ASSUME NEW s \in Shipments, Deliver(s) PROVE Move \/ UNCHANGED <<onHand, ledger>>
  <2> DEFINE r == shipment[s].request
  <2>1. PickedQuantities(r) \in [Products -> Int]
    BY PickedType
  <2>2. CASE IsInternalTransfer(r)
    <3>1. request[r].dest \in Warehouses
      BY <1>2, <2>2, RowsExist DEF Deliver, UnderWay, IsInternalTransfer
    <3>2. QED
      BY <1>2, <2>1, <2>2, <3>1 DEF Deliver
  <2>3. CASE ~IsInternalTransfer(r)
    BY <1>2, <2>3 DEF Deliver
  <2>4. QED
    BY <2>2, <2>3
<1>3. ASSUME NEW o \in Orders, NEW got \in Lines, ReceivePurchaseOrder(o, got) PROVE Move
  <2>1. got \in [Products -> Int]
    BY DEF Lines
  <2>2. order[o].dest \in Warehouses
    BY <1>3, RowsExist DEF ReceivePurchaseOrder, Receivable
  <2>3. QED
    BY <1>3, <2>1, <2>2 DEF ReceivePurchaseOrder
<1>4. ASSUME NEW w \in Warehouses, NEW p \in Products, NEW d \in ManualDeltas,
             NEW ref \in References \cup {None}, ManualTransaction(w, p, d, ref)
      PROVE  Move
  <2>1. [NoLines EXCEPT ![p] = d] \in [Products -> Int]
    BY DEF NoLines, ConstantsAssumption
  <2>2. QED
    BY <1>4, <2>1 DEF ManualTransaction
<1>5. CASE Creation
  BY <1>5 DEF Creation, CreateSalesOrder, CreateInternalTransfer, AddRequest, CreatePurchaseOrder,
              UpdateWarehouse
<1>6. ASSUME NEW r \in Requests, NEW l \in PickLists, GeneratePickList(r, l)
      PROVE  UNCHANGED <<onHand, ledger>>
  BY <1>6 DEF GeneratePickList
<1>7. ASSUME NEW l \in PickLists, NEW p \in Products, NEW q \in 0..MaxQty, RecordPick(l, p, q)
      PROVE  UNCHANGED <<onHand, ledger>>
  BY <1>7 DEF RecordPick
<1>8. ASSUME NEW l \in PickLists, CompletePickList(l) PROVE UNCHANGED <<onHand, ledger>>
  BY <1>8 DEF CompletePickList
<1>9. CASE RecalculateReservations
  BY <1>9 DEF RecalculateReservations
<1>10. CASE UNCHANGED dataVars
  BY <1>10
<1>11. QED
  BY <1>1, <1>2, <1>3, <1>4, <1>5, <1>6, <1>7, <1>8, <1>9, <1>10 DEF Next

\* quantity_on_hand and the ledger agree after every step if they agreed before.
LEMMA LedgerStep ==
    ASSUME ConstantsAssumption, TypeOK, DocumentsAgree, LedgerInSync, [Next]_dataVars
    PROVE  LedgerInSync'
<1>1. CASE UNCHANGED <<onHand, ledger>>
  BY <1>1 DEF LedgerInSync
<1>2. ASSUME NEW w \in Warehouses, NEW delta \in [Products -> Int], ApplyMovement(w, delta)
      PROVE  LedgerInSync'
  BY <1>2, MovementKeeps DEF LedgerInSync
<1>3. QED
  BY <1>1, <1>2, StockSteps

\* Every step leaves the reservations non-negative.
LEMMA ReservedStep ==
    ASSUME ConstantsAssumption, TypeOK, DocumentsAgree, NeverNegative, [Next]_dataVars,
           NEW v \in Warehouses, NEW p \in Products
    PROVE  reserved'[v][p] >= 0
<1> USE DEF dataVars, stockVars, docVars
<1>1. reserved[v][p] >= 0 /\ reserved[v][p] \in Int
  BY DEF NeverNegative, TypeOK
<1>2. ASSUME NEW l \in PickLists, CompletePickList(l) PROVE reserved'[v][p] >= 0
  <2> DEFINE w == request[pickList[l].request].source
  <2>1. pickList[l].picked[p] \in Nat
    BY <1>2, RowsExist DEF CompletePickList, StillOpen
  <2>2. reserved' = [reserved EXCEPT ![w] = Plus(reserved[w], pickList[l].picked)]
    BY <1>2 DEF CompletePickList, Reserve
  <2>3. CASE v = w
    <3>1. reserved'[v][p] = reserved[v][p] + pickList[l].picked[p]
      BY <2>2, <2>3 DEF Plus, TypeOK
    <3>2. QED
      BY <1>1, <2>1, <3>1
  <2>4. CASE v # w
    BY <1>1, <2>2, <2>4 DEF TypeOK
  <2>5. QED
    BY <2>3, <2>4
<1>3. ASSUME NEW r \in Requests, NEW s \in Shipments, Ship(r, s) PROVE reserved'[v][p] >= 0
  <2> DEFINE w == request[r].source
             rest == [q \in Products |-> Max0(reserved[w][q] - PickedQuantities(r)[q])]
  <2>1. PickedQuantities(r)[p] \in Nat
    BY PickedType
  <2>2. reserved' = [reserved EXCEPT ![w] = rest]
    BY <1>3 DEF Ship, Release
  <2>3. CASE v = w
    <3>1. reserved'[v][p] = Max0(reserved[v][p] - PickedQuantities(r)[p])
      BY <2>2, <2>3 DEF TypeOK
    <3>2. QED
      BY <1>1, <2>1, <3>1 DEF Max0
  <2>4. CASE v # w
    BY <1>1, <2>2, <2>4 DEF TypeOK
  <2>5. QED
    BY <2>3, <2>4
<1>4. CASE RecalculateReservations
  BY <1>4, TargetType DEF RecalculateReservations
<1>5. CASE UNCHANGED reserved
  BY <1>1, <1>5
<1>6. ASSUME NEW s \in Shipments, Deliver(s) PROVE UNCHANGED reserved
  BY <1>6 DEF Deliver
<1>7. ASSUME NEW o \in Orders, NEW got \in Lines, ReceivePurchaseOrder(o, got)
      PROVE  UNCHANGED reserved
  BY <1>7 DEF ReceivePurchaseOrder
<1>8. ASSUME NEW w \in Warehouses, NEW q \in Products, NEW d \in ManualDeltas,
             NEW ref \in References \cup {None}, ManualTransaction(w, q, d, ref)
      PROVE  UNCHANGED reserved
  BY <1>8 DEF ManualTransaction
<1>9. CASE Creation
  BY <1>5, <1>9 DEF Creation, CreateSalesOrder, CreateInternalTransfer, AddRequest,
                    CreatePurchaseOrder, UpdateWarehouse
<1>10. ASSUME NEW r \in Requests, NEW l \in PickLists, GeneratePickList(r, l)
       PROVE  UNCHANGED reserved
  BY <1>10 DEF GeneratePickList
<1>11. ASSUME NEW l \in PickLists, NEW q \in Products, NEW n \in 0..MaxQty, RecordPick(l, q, n)
       PROVE  UNCHANGED reserved
  BY <1>11 DEF RecordPick
<1>12. CASE UNCHANGED dataVars
  BY <1>5, <1>12
<1>13. QED
  BY <1>2, <1>3, <1>4, <1>5, <1>6, <1>7, <1>8, <1>9, <1>10, <1>11, <1>12 DEF Next

LEMMA NonNegativeStep ==
    ASSUME ConstantsAssumption, TypeOK, DocumentsAgree, NeverNegative, [Next]_dataVars
    PROVE  NeverNegative'
<1> SUFFICES ASSUME NEW v \in Warehouses, NEW p \in Products
             PROVE  onHand'[v][p] >= 0 /\ reserved'[v][p] >= 0
  BY DEF NeverNegative
<1>1. reserved'[v][p] >= 0
  BY ReservedStep
<1>2. CASE UNCHANGED <<onHand, ledger>>
  BY <1>1, <1>2 DEF NeverNegative
<1>3. ASSUME NEW w \in Warehouses, NEW delta \in [Products -> Int], ApplyMovement(w, delta)
      PROVE  onHand'[v][p] >= 0
  BY <1>3, MovementKeeps DEF NeverNegative
<1>4. QED
  BY <1>1, <1>2, <1>3, StockSteps

-----------------------------------------------------------------------------
(* The theorems.                                                           *)

\* The inductive invariant: the type of the rows needs the agreement of the
\* documents (a list or a shipment refers to a request that exists).
StockInv == TypeOK /\ DocumentsAgree /\ NeverNegative /\ LedgerInSync

LEMMA StockInit == ConstantsAssumption /\ DataInit => StockInv
<1>1. ConstantsAssumption /\ DataInit => NeverNegative /\ LedgerInSync
  BY DEF ConstantsAssumption, DataInit, NeverNegative, LedgerInSync, NoLines
<1>2. QED
  BY <1>1, TypeInit, DocsInit DEF StockInv

\* All four hold in every reachable state of the workflow.
THEOREM StockCorrect == Spec => []StockInv
<1>1. DataInit => StockInv
  BY StockInit, ConstantsAssumption
<1>2. StockInv /\ [Next]_dataVars => StockInv'
  BY ConstantsAssumption, TypeStep, DocsStep, NonNegativeStep, LedgerStep DEF StockInv
<1>3. QED
  BY <1>1, <1>2, PTL DEF Spec

\* Every row stays of its table's type.
THEOREM TypeCorrect == Spec => []TypeOK
<1>1. StockInv => TypeOK
  BY DEF StockInv
<1>2. QED
  BY <1>1, StockCorrect, PTL

\* generate_pick_list and ship() never make a second pick list or shipment of a
\* request, and the statuses the handlers write agree.
THEOREM DocumentsCorrect == Spec => []DocumentsAgree
<1>1. StockInv => DocumentsAgree
  BY DEF StockInv
<1>2. QED
  BY <1>1, StockCorrect, PTL

\* No handler takes stock or a reservation below zero.
THEOREM NeverNegativeCorrect == Spec => []NeverNegative
<1>1. StockInv => NeverNegative
  BY DEF StockInv
<1>2. QED
  BY <1>1, StockCorrect, PTL

\* apply_movement keeps the on-hand quantity equal to the ledger.
THEOREM LedgerCorrect == Spec => []LedgerInSync
<1>1. StockInv => LedgerInSync
  BY DEF StockInv
<1>2. QED
  BY <1>1, StockCorrect, PTL

-----------------------------------------------------------------------------
(* What a pick list holds and what the reservations come from.             *)

\* A request has one pick list, so what a complete list holds is all of it.
LEMMA PickedOfList ==
    ASSUME TypeOK, DocumentsAgree, NEW l \in PickLists, pickList[l].status = "complete"
    PROVE  PickedQuantities(pickList[l].request) = pickList[l].picked
<1> DEFINE r == pickList[l].request
           done == {m \in ListsOf(r) : pickList[m].status = "complete"}
           picked == pickList[l].picked
<1>1. done = {l}
  BY DEF ListsOf, DocumentsAgree, OneListPerRequest
<1>2. picked \in [Products -> Nat]
  BY RowsExist
<1>3. ASSUME NEW p \in Products PROVE Total([m \in done |-> pickList[m].picked[p]]) = picked[p]
  <2>1. [m \in done |-> pickList[m].picked[p]] = [m \in {l} |-> picked[p]]
    BY <1>1
  <2> DEFINE n == picked[p]
  <2>2. n \in Nat
    BY <1>2
  <2> HIDE DEF n
  <2>3. Total([m \in {l} |-> n]) = n
    BY <2>2, TotalSingleton
  <2>4. QED
    BY <2>1, <2>3 DEF n
<1>4. PickedQuantities(r) = [p \in Products |-> picked[p]]
  BY <1>3 DEF PickedQuantities
<1>5. QED
  BY <1>2, <1>4

\* The lists a warehouse's reservations come from, and their sum for a product.
Reserving(w, p) == Total([l \in ReservingLists(w) |-> pickList[l].picked[p]])

\* Reservations that come from the same lists with the same quantities are equal.
LEMMA SameReserving ==
    ASSUME NEW w, NEW p, ReservingLists(w)' = ReservingLists(w),
           \A l \in ReservingLists(w) : pickList'[l].picked = pickList[l].picked
    PROVE  Reserving(w, p)' = Reserving(w, p)
<1>1. [l \in ReservingLists(w) |-> pickList[l].picked[p]]' =
      [l \in ReservingLists(w) |-> pickList[l].picked[p]]
  OBVIOUS
<1>2. QED
  BY <1>1 DEF Reserving

\* The lists a warehouse's reservations come from are finitely many and typed.
LEMMA ReservingFinite ==
    ASSUME ConstantsAssumption, TypeOK, NEW w
    PROVE  /\ IsFiniteSet(ReservingLists(w))
           /\ \A m \in ReservingLists(w), p \in Products : pickList[m].picked[p] \in Nat
<1>1. IsFiniteSet(ReservingLists(w))
  BY FS_Subset DEF ConstantsAssumption, ReservingLists
<1>2. QED
  BY <1>1 DEF TypeOK, PickListRows, NoPickList, NoLines, ReservingLists

\* The same property read row by row.
LEMMA ExactRows ==
    ASSUME TypeOK
    PROVE  ReservationsExact <=>
               \A w \in Warehouses, p \in Products : reserved[w][p] = Reserving(w, p)
<1>1. reserved = [w \in Warehouses |-> [p \in Products |-> reserved[w][p]]]
  BY DEF TypeOK
<1>2. QED
  BY <1>1 DEF ReservationsExact, ReservationTarget, Reserving

-----------------------------------------------------------------------------
(* ReservationsExact, step by step.                                        *)

\* A step that changes neither a reservation nor which lists reserve, nor what
\* those hold, keeps the row of a stock item exact.
LEMMA QuietStep ==
    ASSUME NEW w \in Warehouses, NEW p \in Products, reserved[w][p] = Reserving(w, p),
           reserved' = reserved,
           \A l \in PickLists : l \in ReservingLists(w)' <=> l \in ReservingLists(w),
           \A l \in ReservingLists(w) : pickList'[l].picked = pickList[l].picked
    PROVE  reserved'[w][p] = Reserving(w, p)'
<1>1. ReservingLists(w)' = ReservingLists(w)
  BY DEF ReservingLists
<1>2. QED
  BY <1>1, SameReserving

LEMMA CompleteExact ==
    ASSUME ConstantsAssumption, TypeOK, DocumentsAgree, NEW w \in Warehouses,
           NEW p \in Products, reserved[w][p] = Reserving(w, p),
           NEW l \in PickLists, CompletePickList(l)
    PROVE  reserved'[w][p] = Reserving(w, p)'
<1> DEFINE r == pickList[l].request
           src == request[r].source
           S == ReservingLists(w)
<1>1. reserved' = [reserved EXCEPT ![src] = Plus(reserved[src], pickList[l].picked)]
  BY DEF CompletePickList, Reserve
<1>2. \A m \in PickLists : m # l => (m \in S' <=> m \in S)
  BY CompleteEffect, ReferenceRows DEF ReservingLists, DocumentsAgree, OneListPerRequest
<1>3. l \notin S
  BY CompleteEffect DEF ReservingLists
<1>4. \A m \in S : pickList'[m].picked = pickList[m].picked
  BY CompleteEffect DEF ReservingLists
<1>5. CASE w = src
  <2>1. l \in S'
    BY <1>5, CompleteEffect, ReferenceRows DEF ReservingLists
  <2>2. S' \ {l} = S
    BY <1>2, <1>3, <2>1 DEF ReservingLists
  <2>3. IsFiniteSet(S') /\ \A m \in S' : pickList'[m].picked[p] \in Nat
    <3>1. S' = S \cup {l} /\ IsFiniteSet(S')
      BY <2>1, <2>2, ReservingFinite, FS_AddElement
    <3>2. pickList[l].picked[p] \in Nat
      BY CompleteEffect, RowsExist
    <3>3. QED
      BY <1>4, <3>1, <3>2, ReservingFinite, CompleteEffect
  <2> DEFINE f == [m \in S' |-> pickList'[m].picked[p]]
             g == [m \in S |-> pickList[m].picked[p]]
  <2>4. /\ f \in [S' -> Nat] /\ f[l] = pickList[l].picked[p]
        /\ S = S' \ {l} /\ g \in [S -> Nat] /\ \A m \in S : g[m] = f[m]
    BY <1>4, <2>1, <2>2, <2>3, CompleteEffect
  <2>8. Reserving(w, p)' = Total(f) /\ Reserving(w, p) = Total(g)
    BY DEF Reserving
  <2>9. Total(f) = Total(g) + f[l]
    <3>1. f \in [S' -> Nat] /\ IsFiniteSet(S') /\ l \in S'
      BY <2>1, <2>3, <2>4
    <3>2. S = S' \ {l} /\ g \in [S -> Nat] /\ \A m \in S : g[m] = f[m]
      BY <2>4
    <3> HIDE DEF S, f, g
    <3>3. QED
      BY ONLY <3>1, <3>2, TotalSplit
  <2>5. Reserving(w, p)' = Reserving(w, p) + pickList[l].picked[p]
    BY <2>4, <2>8, <2>9
  <2>6. reserved'[w][p] = reserved[w][p] + pickList[l].picked[p]
    BY <1>1, <1>5 DEF Plus, TypeOK
  <2>7. QED
    BY <2>5, <2>6
<1>6. CASE w # src
  <2>1. l \notin S'
    BY <1>6, CompleteEffect DEF ReservingLists
  <2>2. S' = S
    BY <1>2, <1>3, <2>1 DEF ReservingLists
  <2>3. Reserving(w, p)' = Reserving(w, p)
    BY <1>4, <2>2, SameReserving
  <2>4. reserved'[w][p] = reserved[w][p]
    BY <1>1, <1>6 DEF TypeOK
  <2>5. QED
    BY <2>3, <2>4
<1>7. QED
  BY <1>5, <1>6

LEMMA ShipExact ==
    ASSUME ConstantsAssumption, TypeOK, DocumentsAgree, NEW w \in Warehouses,
           NEW p \in Products, reserved[w][p] = Reserving(w, p),
           NEW r \in Requests, NEW s \in Shipments, Ship(r, s)
    PROVE  reserved'[w][p] = Reserving(w, p)'
<1> DEFINE src == request[r].source
           S == ReservingLists(w)
           rest == [q \in Products |-> Max0(reserved[src][q] - PickedQuantities(r)[q])]
<1>1. reserved' = [reserved EXCEPT ![src] = rest]
  BY DEF Ship, Release
<1>2. PICK l \in PickLists : pickList[l].request = r /\ pickList[l].status = "complete"
  <2>1. PICK m \in PickLists : pickList[m].request = r
    BY ShipEffect DEF DocumentsAgree, ListFollowsRequest
  <2>2. pickList[m].status # "absent"
    BY <2>1, ReferenceRows
  <2>3. QED
    BY <2>1, <2>2, ShipEffect DEF DocumentsAgree, ListFollowsRequest
<1>3. \A m \in PickLists : m # l => (m \in S' <=> m \in S)
  BY <1>2, ShipEffect, ReferenceRows DEF ReservingLists, DocumentsAgree, OneListPerRequest
<1>4. l \notin S'
  BY <1>2, ShipEffect DEF ReservingLists
<1>5. pickList' = pickList
  BY ShipEffect
<1>6. PickedQuantities(r) = pickList[l].picked
  BY <1>2, PickedOfList
<1>7. CASE w = src
  <2>1. l \in S
    BY <1>2, <1>7, ShipEffect, ReferenceRows DEF ReservingLists
  <2>2. S' = S \ {l}
    BY <1>3, <1>4, <2>1 DEF ReservingLists
  <2> DEFINE f == [m \in S |-> pickList[m].picked[p]]
             g == [m \in S' |-> pickList'[m].picked[p]]
  <2>3. IsFiniteSet(S) /\ \A m \in S : pickList[m].picked[p] \in Nat
    BY ReservingFinite
  <2>4. /\ f \in [S -> Nat] /\ f[l] = pickList[l].picked[p]
        /\ S' = S \ {l} /\ g \in [S' -> Nat] /\ \A m \in S' : g[m] = f[m]
    BY <1>5, <2>1, <2>2, <2>3
  <2>5. Reserving(w, p) = Total(f) /\ Reserving(w, p)' = Total(g)
    BY DEF Reserving
  <2>6. Total(f) = Total(g) + f[l] /\ Total(g) \in Nat
    <3>1. f \in [S -> Nat] /\ IsFiniteSet(S) /\ l \in S
      BY <2>1, <2>3, <2>4
    <3>2. S' = S \ {l} /\ g \in [S' -> Nat] /\ \A m \in S' : g[m] = f[m]
      BY <2>4
    <3> HIDE DEF S, f, g
    <3>3. QED
      BY ONLY <3>1, <3>2, TotalSplit
  <2>7. reserved'[w][p] = Max0(reserved[w][p] - pickList[l].picked[p])
    BY <1>1, <1>6, <1>7 DEF TypeOK
  <2>8. pickList[l].picked[p] \in Nat
    BY <1>2, RowsExist
  <2>9. QED
    BY <2>4, <2>5, <2>6, <2>7, <2>8 DEF Max0
<1>8. CASE w # src
  <2>1. l \notin S
    BY <1>2, <1>8 DEF ReservingLists
  <2>2. S' = S
    BY <1>3, <1>4, <2>1 DEF ReservingLists
  <2>3. Reserving(w, p)' = Reserving(w, p)
    BY <1>5, <2>2, SameReserving
  <2>4. reserved'[w][p] = reserved[w][p]
    BY <1>1, <1>8 DEF TypeOK
  <2>5. QED
    BY <2>3, <2>4
<1>9. QED
  BY <1>7, <1>8

LEMMA ExactStep ==
    ASSUME ConstantsAssumption, TypeOK, TypeOK', DocumentsAgree, ReservationsExact, [Next]_dataVars
    PROVE  ReservationsExact'
<1> SUFFICES ASSUME NEW w \in Warehouses, NEW p \in Products
             PROVE  reserved'[w][p] = Reserving(w, p)'
  <2>1. TypeOK' => (ReservationsExact' <=>
            \A v \in Warehouses, q \in Products : reserved'[v][q] = Reserving(v, q)')
    <3>1. TypeOK' => reserved' = [v \in Warehouses |-> [q \in Products |-> reserved'[v][q]]]
      BY DEF TypeOK
    <3>2. QED
      BY <3>1 DEF ReservationsExact, ReservationTarget, Reserving
  <2>2. QED
    BY <2>1
<1> USE DEF dataVars, stockVars, docVars
<1>1. reserved[w][p] = Reserving(w, p)
  BY ExactRows
<1>2. ASSUME UNCHANGED <<reserved, request, pickList>> PROVE reserved'[w][p] = Reserving(w, p)'
  BY <1>1, <1>2, QuietStep DEF ReservingLists
<1>3. ASSUME NEW r \in Requests, NEW v \in Warehouses, NEW d, NEW lines, AddRequest(r, v, d, lines)
      PROVE  reserved'[w][p] = Reserving(w, p)'
  <2>1. reserved' = reserved /\ pickList' = pickList
    BY <1>3 DEF AddRequest
  <2>2. ASSUME NEW l \in PickLists PROVE l \in ReservingLists(w)' <=> l \in ReservingLists(w)
    BY <1>3, AddRequestEffect, ReferenceRows DEF ReservingLists
  <2>3. QED
    BY <1>1, <2>1, <2>2, QuietStep
<1>4. CASE Creation
  BY <1>2, <1>3, <1>4 DEF Creation, CreateSalesOrder, CreateInternalTransfer, CreatePurchaseOrder,
                          UpdateWarehouse
<1>5. ASSUME NEW r \in Requests, NEW l \in PickLists, GeneratePickList(r, l)
      PROVE  reserved'[w][p] = Reserving(w, p)'
  <2>1. reserved' = reserved
    BY <1>5 DEF GeneratePickList
  <2>2. ASSUME NEW m \in PickLists PROVE m \in ReservingLists(w)' <=> m \in ReservingLists(w)
    BY <1>5, GenerateEffect, ReferenceRows DEF ReservingLists
  <2>3. \A m \in ReservingLists(w) : pickList'[m].picked = pickList[m].picked
    BY <1>5, GenerateEffect DEF ReservingLists
  <2>4. QED
    BY <1>1, <2>1, <2>2, <2>3, QuietStep
<1>6. ASSUME NEW l \in PickLists, NEW q \in Products, NEW n \in 0..MaxQty, RecordPick(l, q, n)
      PROVE  reserved'[w][p] = Reserving(w, p)'
  <2>1. reserved' = reserved
    BY <1>6 DEF RecordPick
  <2>2. ASSUME NEW m \in PickLists PROVE m \in ReservingLists(w)' <=> m \in ReservingLists(w)
    BY <1>6, RecordEffect DEF ReservingLists
  <2>3. \A m \in ReservingLists(w) : pickList'[m].picked = pickList[m].picked
    BY <1>6, RecordEffect DEF ReservingLists
  <2>4. QED
    BY <1>1, <2>1, <2>2, <2>3, QuietStep
<1>7. ASSUME NEW l \in PickLists, CompletePickList(l) PROVE reserved'[w][p] = Reserving(w, p)'
  BY <1>1, <1>7, CompleteExact
<1>8. ASSUME NEW r \in Requests, NEW s \in Shipments, Ship(r, s)
      PROVE  reserved'[w][p] = Reserving(w, p)'
  BY <1>1, <1>8, ShipExact
<1>9. ASSUME NEW s \in Shipments, Deliver(s) PROVE reserved'[w][p] = Reserving(w, p)'
  <2>1. reserved' = reserved
    BY <1>9 DEF Deliver
  <2>2. ASSUME NEW m \in PickLists PROVE m \in ReservingLists(w)' <=> m \in ReservingLists(w)
    BY <1>9, DeliverEffect, ReferenceRows DEF ReservingLists
  <2>3. \A m \in ReservingLists(w) : pickList'[m].picked = pickList[m].picked
    BY <1>9, DeliverEffect
  <2>4. QED
    BY <1>1, <2>1, <2>2, <2>3, QuietStep
<1>10. ASSUME NEW o \in Orders, NEW got \in Lines, ReceivePurchaseOrder(o, got)
       PROVE  reserved'[w][p] = Reserving(w, p)'
  BY <1>2, <1>10 DEF ReceivePurchaseOrder
<1>11. ASSUME NEW v \in Warehouses, NEW q \in Products, NEW d \in ManualDeltas,
              NEW ref \in References \cup {None}, ManualTransaction(v, q, d, ref)
       PROVE  reserved'[w][p] = Reserving(w, p)'
  BY <1>2, <1>11 DEF ManualTransaction
<1>12. CASE RecalculateReservations
  BY <1>12 DEF RecalculateReservations, ReservationTarget, Reserving, ReservingLists
<1>13. CASE UNCHANGED dataVars
  BY <1>2, <1>13
<1>14. QED
  BY <1>4, <1>5, <1>6, <1>7, <1>8, <1>9, <1>10, <1>11, <1>12, <1>13 DEF Next

LEMMA ExactInit == ConstantsAssumption /\ DataInit => ReservationsExact
<1>1. ConstantsAssumption /\ DataInit => StockInv
  BY StockInit
<1>2. ASSUME DataInit, NEW w \in Warehouses, NEW p \in Products
      PROVE  reserved[w][p] = Reserving(w, p)
  <2>1. ReservingLists(w) = {}
    BY <1>2 DEF DataInit, ReservingLists, NoPickList
  <2>2. Reserving(w, p) = 0
    BY <2>1, TotalEmpty DEF Reserving
  <2>3. QED
    BY <1>2, <2>2 DEF DataInit, NoLines
<1>3. QED
  BY <1>1, <1>2, ExactRows DEF StockInv

\* complete_pick_list and ship() keep quantity_reserved at what the worker would
\* compute: without overlapping requests its pass never changes a row.
THEOREM ReservationsCorrect == Spec => []ReservationsExact
<1>1. DataInit => ReservationsExact
  BY ExactInit, ConstantsAssumption
<1>2. StockInv /\ StockInv' /\ ReservationsExact /\ [Next]_dataVars => ReservationsExact'
  BY ConstantsAssumption, ExactStep DEF StockInv
<1>3. QED
  BY <1>1, <1>2, StockCorrect, PTL DEF Spec

-----------------------------------------------------------------------------
(* ReservedCovered.                                                        *)

\* Goods that come in keep the reservations covered.
LEMMA IncomingCovered ==
    ASSUME TypeOK, NEW v, NEW got \in [Products -> Nat], ApplyMovement(v, got),
           reserved' = reserved, NEW w \in Warehouses, NEW p \in Products,
           reserved[w][p] <= onHand[w][p]
    PROVE  reserved'[w][p] <= onHand'[w][p]
<1>1. reserved[w][p] \in Int /\ onHand[w][p] \in Int /\ got[p] \in Nat
  BY DEF TypeOK
<1>2. onHand'[w][p] = onHand[w][p] + got[p] \/ onHand'[w][p] = onHand[w][p]
  <2>1. CASE v = w
    BY <2>1 DEF ApplyMovement, Plus, TypeOK
  <2>2. CASE v # w
    BY <2>2 DEF ApplyMovement, TypeOK
  <2>3. QED
    BY <2>1, <2>2
<1>3. QED
  BY <1>1, <1>2

LEMMA CoveredStep ==
    ASSUME ConstantsAssumption, TypeOK, DocumentsAgree, NeverNegative, ReservationsExact,
           ReservedCovered, [Next]_dataVars
    PROVE  ReservedCovered'
<1> SUFFICES ASSUME manuals' = 0, NEW w \in Warehouses, NEW p \in Products
             PROVE  reserved'[w][p] <= onHand'[w][p]
  BY DEF ReservedCovered
<1> USE DEF dataVars, stockVars, docVars
<1>1. /\ reserved[w][p] \in Int /\ onHand[w][p] \in Int
      /\ reserved[w][p] >= 0 /\ onHand[w][p] >= 0
      /\ manuals = 0 => reserved[w][p] <= onHand[w][p]
  BY DEF TypeOK, NeverNegative, ReservedCovered
<1>2. ASSUME UNCHANGED <<reserved, onHand, manuals>> PROVE reserved'[w][p] <= onHand'[w][p]
  BY <1>1, <1>2
<1>3. CASE Creation
  BY <1>2, <1>3 DEF Creation, CreateSalesOrder, CreateInternalTransfer, AddRequest,
                    CreatePurchaseOrder, UpdateWarehouse
<1>4. ASSUME NEW r \in Requests, NEW l \in PickLists, GeneratePickList(r, l)
      PROVE  reserved'[w][p] <= onHand'[w][p]
  BY <1>2, <1>4 DEF GeneratePickList
<1>5. ASSUME NEW l \in PickLists, NEW q \in Products, NEW n \in 0..MaxQty, RecordPick(l, q, n)
      PROVE  reserved'[w][p] <= onHand'[w][p]
  BY <1>2, <1>5 DEF RecordPick
<1>6. ASSUME NEW l \in PickLists, CompletePickList(l) PROVE reserved'[w][p] <= onHand'[w][p]
  <2> DEFINE src == request[pickList[l].request].source
             qty == pickList[l].picked
  <2>1. /\ onHand' = onHand /\ manuals = 0
        /\ reserved' = [reserved EXCEPT ![src] = Plus(reserved[src], qty)]
        /\ qty[p] > 0 => qty[p] <= onHand[src][p] - reserved[src][p]
    BY <1>6 DEF CompletePickList, Reserve
  <2>2. qty[p] \in Nat
    BY <1>6, RowsExist DEF CompletePickList, StillOpen
  <2>3. CASE w = src
    <3>1. reserved'[w][p] = reserved[w][p] + qty[p]
      BY <2>1, <2>3 DEF Plus, TypeOK
    <3>2. QED
      BY <1>1, <2>1, <2>2, <2>3, <3>1
  <2>4. CASE w # src
    BY <1>1, <2>1, <2>4 DEF TypeOK
  <2>5. QED
    BY <2>3, <2>4
<1>7. ASSUME NEW r \in Requests, NEW s \in Shipments, Ship(r, s)
      PROVE  reserved'[w][p] <= onHand'[w][p]
  <2> DEFINE src == request[r].source
             picked == PickedQuantities(r)
             rest == [q \in Products |-> Max0(reserved[src][q] - picked[q])]
             taken == Minus(NoLines, picked)
  <2>1. /\ onHand' = [onHand EXCEPT ![src] = Plus(onHand[src], taken)] /\ manuals = 0
        /\ reserved' = [reserved EXCEPT ![src] = rest]
        /\ onHand[src][p] + taken[p] >= 0
    BY <1>7 DEF Ship, Release, ApplyMovement
  <2>2. picked[p] \in Nat /\ taken[p] = 0 - picked[p]
    BY PickedType DEF Minus, NoLines
  <2>3. CASE w = src
    <3>1. reserved'[w][p] = Max0(reserved[w][p] - picked[p])
      BY <2>1, <2>3 DEF TypeOK
    <3>2. onHand'[w][p] = onHand[w][p] + taken[p]
      BY <2>1, <2>3 DEF Plus, TypeOK
    <3>3. QED
      BY <1>1, <2>1, <2>2, <2>3, <3>1, <3>2 DEF Max0
  <2>4. CASE w # src
    BY <1>1, <2>1, <2>4 DEF TypeOK
  <2>5. QED
    BY <2>3, <2>4
<1>8. ASSUME NEW s \in Shipments, Deliver(s) PROVE reserved'[w][p] <= onHand'[w][p]
  <2>1. PickedQuantities(shipment[s].request) \in [Products -> Nat]
    BY PickedType
  <2>2. CASE IsInternalTransfer(shipment[s].request)
    BY <1>1, <1>8, <2>1, <2>2, IncomingCovered DEF Deliver
  <2>3. CASE ~IsInternalTransfer(shipment[s].request)
    BY <1>1, <1>8, <2>3 DEF Deliver
  <2>4. QED
    BY <2>2, <2>3
<1>9. ASSUME NEW o \in Orders, NEW got \in Lines, ReceivePurchaseOrder(o, got)
      PROVE  reserved'[w][p] <= onHand'[w][p]
  <2>1. got \in [Products -> Nat]
    BY DEF Lines
  <2>2. QED
    BY <1>1, <1>9, <2>1, IncomingCovered DEF ReceivePurchaseOrder
<1>10. ASSUME NEW v \in Warehouses, NEW q \in Products, NEW d \in ManualDeltas,
              NEW ref \in References \cup {None}, ManualTransaction(v, q, d, ref)
       PROVE  FALSE
  BY <1>10 DEF ManualTransaction, TypeOK
<1>11. CASE RecalculateReservations
  BY <1>2, <1>11 DEF RecalculateReservations, ReservationsExact
<1>12. CASE UNCHANGED dataVars
  BY <1>2, <1>12
<1>13. QED
  BY <1>3, <1>4, <1>5, <1>6, <1>7, <1>8, <1>9, <1>10, <1>11, <1>12 DEF Next

\* What is reserved is in the building until a manual transaction, which does
\* not look at reservations, has taken stock away.
THEOREM CoveredCorrect == Spec => []ReservedCovered
<1>1. DataInit => ReservedCovered
  BY ConstantsAssumption DEF DataInit, ReservedCovered, NoLines, ConstantsAssumption
<1>2. StockInv /\ ReservationsExact /\ ReservedCovered /\ [Next]_dataVars => ReservedCovered'
  BY ConstantsAssumption, CoveredStep DEF StockInv
<1>3. QED
  BY <1>1, <1>2, StockCorrect, ReservationsCorrect, PTL DEF Spec

=============================================================================
