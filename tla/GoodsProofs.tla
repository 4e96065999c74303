----------------------------- MODULE GoodsProofs -----------------------------
(***************************************************************************)
(* Where the goods go: documents that are never taken back, shipments and  *)
(* receipts that move what their documents say, and the proof that         *)
(* WarehouseOps implements GoodsFlow.                                      *)
(***************************************************************************)
EXTENDS StockProofs

\* ShipmentsMoveWhatWasPicked for one shipment, by what was booked beside the
\* manual transactions.
MovesPicked(s) ==
    LET r == shipment[s].request
    IN  /\ ShippedUnder(s) = IF shipment[s].status = "absent" THEN NoLines ELSE PickedQuantities(r)
        /\ ReceivedUnder(s) = IF shipment[s].status = "delivered" /\ IsInternalTransfer(r)
                              THEN PickedQuantities(r)
                              ELSE NoLines

\* The same of a purchase order.
BooksReceived(o) ==
    /\ ReceivedUnder(o) = order[o].received
    /\ ShippedUnder(o) = NoLines
    /\ order[o].status # "received" => order[o].received = NoLines

\* A step that books nothing under an id but manual transactions.
SameUnder(d) == ShippedUnder(d)' = ShippedUnder(d) /\ ReceivedUnder(d)' = ReceivedUnder(d)

\* A transfer leads to another warehouse.
TransfersLeave ==
    \A r \in Requests : request[r].status # "absent" => request[r].source # request[r].dest

\* What is picked for a request depends on its lists alone.
LEMMA PickedSame ==
    ASSUME NEW r,
           \A l \in PickLists : (pickList[l].request = r \/ pickList'[l].request = r)
                                    => pickList'[l] = pickList[l]
    PROVE  PickedQuantities(r)' = PickedQuantities(r)
<1> DEFINE done == {l \in ListsOf(r) : pickList[l].status = "complete"}
           doneNow == {l \in PickLists : pickList'[l].request = r /\ pickList'[l].status = "complete"}
<1>1. doneNow = done
  BY DEF ListsOf
<1>2. ASSUME NEW p \in Products
      PROVE  [l \in doneNow |-> pickList'[l].picked[p]] = [l \in done |-> pickList[l].picked[p]]
  <2>1. \A l \in done : pickList'[l] = pickList[l]
    BY DEF ListsOf
  <2> HIDE DEF done, doneNow
  <2> QED BY <1>1, <2>1
<1>3. PickedQuantities(r)' =
          [p \in Products |-> Total([l \in doneNow |-> pickList'[l].picked[p]])]
  <2>1. ListsOf(r)' = {l \in PickLists : pickList'[l].request = r}
    BY DEF ListsOf
  <2>2. {l \in ListsOf(r)' : pickList'[l].status = "complete"} = doneNow
    BY <2>1
  <2> QED BY <2>2 DEF PickedQuantities
<1>4. PickedQuantities(r) = [p \in Products |-> Total([l \in done |-> pickList[l].picked[p]])]
  BY DEF PickedQuantities
<1> HIDE DEF done, doneNow
<1> QED BY <1>2, <1>3, <1>4

-----------------------------------------------------------------------------
(* What is booked under an id beside manual transactions.                  *)

\* Taking off what manual transactions booked says what the rest is.
LEMMA TakeOff ==
    ASSUME NEW v \in [Products -> Nat], NEW a \in [Products -> Nat], NEW m \in [Products -> Nat]
    PROVE  v = Plus(a, m) <=> Minus(v, m) = a
<1>1. v = Plus(a, m) <=> \A p \in Products : v[p] = a[p] + m[p]
  BY DEF Plus
<1>2. Minus(v, m) = a <=> \A p \in Products : v[p] - m[p] = a[p]
  BY DEF Minus
<1>3. \A p \in Products : v[p] \in Nat /\ a[p] \in Nat /\ m[p] \in Nat
  OBVIOUS
<1> QED BY <1>1, <1>2, <1>3

LEMMA NoLinesType == NoLines \in [Products -> Nat]
BY DEF NoLines

LEMMA DeltaType ==
    ASSUME ConstantsAssumption, NEW p \in Products, NEW d \in ManualDeltas
    PROVE  [NoLines EXCEPT ![p] = d] \in [Products -> Int]
BY DEF NoLines, ConstantsAssumption

LEMMA RowType ==
    ASSUME TypeOK, NEW d \in References
    PROVE  /\ moved[d].out \in [Products -> Nat] /\ moved[d].manualOut \in [Products -> Nat]
           /\ moved[d].in \in [Products -> Nat] /\ moved[d].manualIn \in [Products -> Nat]
<1>1. moved[d] \in MovedRows
  BY DEF TypeOK
<1> QED BY <1>1 DEF MovedRows

LEMMA SameAlike ==
    ASSUME NEW d, moved'[d] = moved[d]
    PROVE  SameUnder(d)
BY DEF SameUnder, ShippedUnder, ReceivedUnder

\* A manual transaction leaves the rest alone, whatever id it names.
LEMMA ManualSame ==
    ASSUME TypeOK, NEW ref, NEW delta \in [Products -> Int], BookManually(ref, delta),
           NEW d \in References
    PROVE  SameUnder(d)
<1> DEFINE takenOut == [p \in Products |-> Max0(0 - delta[p])]
           putIn == [p \in Products |-> Max0(delta[p])]
<1>1. takenOut \in [Products -> Nat] /\ putIn \in [Products -> Nat]
  BY DEF Max0
<1>2. ASSUME NEW v \in [Products -> Nat], NEW m \in [Products -> Nat], NEW x \in [Products -> Nat]
      PROVE  Minus(Plus(v, x), Plus(m, x)) = Minus(v, m)
  BY DEF Plus, Minus
<1>3. CASE d = ref
  <2>1. /\ moved'[d].out = Plus(moved[d].out, takenOut) /\ moved'[d].in = Plus(moved[d].in, putIn)
        /\ moved'[d].manualOut = Plus(moved[d].manualOut, takenOut)
        /\ moved'[d].manualIn = Plus(moved[d].manualIn, putIn)
    BY <1>3 DEF BookManually
  <2> HIDE DEF takenOut, putIn
  <2>2. ShippedUnder(d)' = ShippedUnder(d)
    BY <1>1, <1>2, <2>1, RowType DEF ShippedUnder
  <2>3. ReceivedUnder(d)' = ReceivedUnder(d)
    BY <1>1, <1>2, <2>1, RowType DEF ReceivedUnder
  <2> QED BY <2>2, <2>3 DEF SameUnder
<1>4. CASE d # ref
  BY <1>4, SameAlike DEF BookManually
<1> QED BY <1>3, <1>4

-----------------------------------------------------------------------------
(* Steps that make no shipment go on.                                      *)

\* What such a step leaves alone.
ShipmentsStay ==
    /\ shipment' = shipment
    /\ \A s \in Shipments : SameUnder(s)
    /\ \A s \in Shipments : shipment[s].status # "absent" =>
          /\ request'[shipment[s].request].dest = request[shipment[s].request].dest
          /\ \A l \in PickLists :
                 pickList[l].request = shipment[s].request \/ pickList'[l].request = shipment[s].request
                     => pickList'[l] = pickList[l]

\* Statuses that are set keep what else the request says.
LEMMA SameDest ==
    ASSUME TypeOK, NEW q, NEW status, request' = [request EXCEPT ![q].status = status], NEW r \in Requests
    PROVE  /\ request'[r].dest = request[r].dest /\ request'[r].source = request[r].source
           /\ request'[r].lines = request[r].lines
<1>1. CASE q = r
  <2>1. request'[r] = [request[r] EXCEPT !.status = status]
    BY <1>1 DEF TypeOK
  <2>2. request[r] \in RequestRows
    BY DEF TypeOK
  <2> QED BY <2>1, <2>2 DEF RequestRows, NoRequest
<1>2. CASE q # r
  BY <1>2 DEF TypeOK
<1> QED BY <1>1, <1>2

LEMMA StepKinds ==
    ASSUME ConstantsAssumption, TypeOK, DocumentsAgree, [Next]_dataVars
    PROVE  \/ ShipmentsStay
           \/ \E r \in Requests, s \in Shipments : Ship(r, s)
           \/ \E s \in Shipments : Deliver(s)
<1> USE RowsExist
<1>0. ASSUME moved' = moved PROVE \A s \in Shipments : SameUnder(s)
  BY <1>0, SameAlike
<1>1. ASSUME NEW r \in Requests, NEW w \in Warehouses, NEW d, NEW lines, AddRequest(r, w, d, lines)
      PROVE  ShipmentsStay
  BY <1>0, <1>1, AddRequestEffect DEF AddRequest, ShipmentsStay, stockVars
<1>2. CASE Creation
  <2>1. ASSUME NEW o \in Orders, NEW w \in Warehouses, NEW lines \in Lines,
               CreatePurchaseOrder(o, w, lines)
        PROVE  ShipmentsStay
    BY <1>0, <2>1 DEF CreatePurchaseOrder, ShipmentsStay, stockVars
  <2>2. ASSUME NEW w \in Deactivatable, UpdateWarehouse(w) PROVE ShipmentsStay
    BY <1>0, <2>2 DEF UpdateWarehouse, ShipmentsStay, stockVars
  <2> QED BY <1>1, <1>2, <2>1, <2>2 DEF Creation, CreateSalesOrder, CreateInternalTransfer
<1>3. ASSUME NEW r \in Requests, NEW l \in PickLists, GeneratePickList(r, l) PROVE ShipmentsStay
  <2>1. \A q \in Requests : request'[q].dest = request[q].dest
    BY <1>3, SameDest DEF GeneratePickList
  <2>2. \A s \in Shipments : shipment[s].status # "absent" =>
            shipment[s].request \in Requests /\ shipment[s].request # r
    BY <1>3, GenerateEffect
  <2>3. /\ pickList[l].request \notin Requests /\ pickList'[l].request = r
        /\ \A m \in PickLists : m # l => pickList'[m] = pickList[m]
    BY <1>3, GenerateEffect DEF ConstantsAssumption
  <2>4. shipment' = shipment /\ moved' = moved
    BY <1>3 DEF GeneratePickList, stockVars
  <2>6. \A s \in Shipments : SameUnder(s)
    BY <1>0, <2>4
  <2> QED BY ONLY <2>1, <2>2, <2>3, <2>4, <2>6 DEF ShipmentsStay
<1>4. ASSUME NEW l \in PickLists, NEW p \in Products, NEW q \in 0..MaxQty, RecordPick(l, p, q)
      PROVE  ShipmentsStay
  <2>1. pickList[l].status \notin {"absent", "complete"}
    BY <1>4, RecordEffect
  <2>2. request[pickList[l].request].status = "picking"
    BY <2>1 DEF DocumentsAgree, ListFollowsRequest
  <2>3. \A s \in Shipments : shipment[s].status # "absent" =>
            shipment[s].request \in Requests /\ shipment[s].request # pickList[l].request
    BY <2>2
  <2>4. /\ pickList'[l].request = pickList[l].request
        /\ \A m \in PickLists : m # l => pickList'[m] = pickList[m]
    BY <1>4, RecordEffect
  <2>5. shipment' = shipment /\ moved' = moved /\ request' = request
    BY <1>4 DEF RecordPick, stockVars
  <2>6. \A s \in Shipments : SameUnder(s)
    BY <1>0, <2>5
  <2> QED BY ONLY <2>3, <2>4, <2>5, <2>6 DEF ShipmentsStay
<1>5. ASSUME NEW l \in PickLists, CompletePickList(l) PROVE ShipmentsStay
  <2> DEFINE r == pickList[l].request
  <2>1. \A q \in Requests : request'[q].dest = request[q].dest
    BY <1>5, SameDest DEF CompletePickList
  <2>2. \A s \in Shipments : shipment[s].status # "absent" =>
            shipment[s].request \in Requests /\ shipment[s].request # r
    BY <1>5, CompleteEffect
  <2>3. /\ pickList'[l].request = r
        /\ \A m \in PickLists : m # l => pickList'[m] = pickList[m]
    BY <1>5, CompleteEffect
  <2>4. shipment' = shipment /\ moved' = moved
    BY <1>5 DEF CompletePickList
  <2> HIDE DEF r
  <2>5. pickList[l].request = r
    BY DEF r
  <2>6. \A s \in Shipments : SameUnder(s)
    BY <1>0, <2>4
  <2> QED BY ONLY <2>1, <2>2, <2>3, <2>4, <2>5, <2>6 DEF ShipmentsStay
<1>6. ASSUME NEW o \in Orders, NEW got \in Lines, ReceivePurchaseOrder(o, got) PROVE ShipmentsStay
  <2>1. \A s \in Shipments : s # o /\ moved'[s] = moved[s]
    BY <1>6 DEF ReceivePurchaseOrder, PutIn, ConstantsAssumption, TypeOK, References
  <2>2. \A s \in Shipments : SameUnder(s)
    BY <2>1, SameAlike
  <2> QED BY <1>6, <2>2 DEF ReceivePurchaseOrder, ShipmentsStay
<1>7. ASSUME NEW w \in Warehouses, NEW p \in Products, NEW d \in ManualDeltas,
             NEW ref \in References \cup {None}, ManualTransaction(w, p, d, ref)
      PROVE  ShipmentsStay
  <2>1. [NoLines EXCEPT ![p] = d] \in [Products -> Int]
    BY DeltaType
  <2>2. \A s \in Shipments : SameUnder(s)
    BY <1>7, <2>1, ManualSame DEF ManualTransaction, References
  <2> QED BY <1>7, <2>2 DEF ManualTransaction, ShipmentsStay
<1>8. CASE RecalculateReservations
  BY <1>0, <1>8 DEF RecalculateReservations, ShipmentsStay, docVars
<1>9. CASE UNCHANGED dataVars
  BY <1>0, <1>9 DEF dataVars, ShipmentsStay, docVars, stockVars
<1> QED BY <1>2, <1>3, <1>4, <1>5, <1>6, <1>7, <1>8, <1>9 DEF Next

-----------------------------------------------------------------------------
(* What is true of the goods in every reachable state.                     *)

LEMMA MovedBy ==
    ASSUME TypeOK, NEW d \in References, NEW qty \in [Products -> Nat]
    PROVE  /\ PutIn(d, qty) => /\ ReceivedUnder(d) = NoLines => ReceivedUnder(d)' = qty
                               /\ ShippedUnder(d)' = ShippedUnder(d)
                               /\ \A x \in References \ {d} : SameUnder(x)
           /\ TakeOut(d, qty) => /\ ShippedUnder(d) = NoLines => ShippedUnder(d)' = qty
                                 /\ ReceivedUnder(d)' = ReceivedUnder(d)
                                 /\ \A x \in References \ {d} : SameUnder(x)
<1>1. moved[d] \in MovedRows
  BY DEF TypeOK
<1>2. ASSUME NEW v \in [Products -> Nat], NEW m \in [Products -> Nat], Minus(v, m) = NoLines
      PROVE  Minus(Plus(v, qty), m) = qty
  <2>1. v = Plus(NoLines, m)
    BY <1>2, TakeOff, NoLinesType
  <2>2. ASSUME NEW p \in Products PROVE v[p] = m[p] /\ m[p] \in Nat /\ qty[p] \in Nat
    BY <2>1 DEF Plus, NoLines
  <2>3. Minus(Plus(v, qty), m) = [p \in Products |-> (v[p] + qty[p]) - m[p]]
    BY DEF Minus, Plus
  <2> QED BY <2>2, <2>3
<1>3. ASSUME PutIn(d, qty)
      PROVE  /\ ReceivedUnder(d) = NoLines => ReceivedUnder(d)' = qty
             /\ ShippedUnder(d)' = ShippedUnder(d)
             /\ \A x \in References \ {d} : SameUnder(x)
  <2> DEFINE new == Plus(moved[d].in, qty)
  <2>1. moved' = [moved EXCEPT ![d].in = new]
    BY <1>3 DEF PutIn
  <2> HIDE DEF new
  <2>2. /\ moved'[d].in = new /\ moved'[d].manualIn = moved[d].manualIn
        /\ moved'[d].out = moved[d].out /\ moved'[d].manualOut = moved[d].manualOut
    BY <1>1, <2>1 DEF TypeOK, MovedRows
  <2>3. \A x \in References \ {d} : moved'[x] = moved[x]
    BY <2>1 DEF TypeOK
  <2>4. ReceivedUnder(d) = NoLines => ReceivedUnder(d)' = qty
    BY <1>2, <2>2, RowType DEF ReceivedUnder, new
  <2> QED BY <2>2, <2>3, <2>4, SameAlike DEF ShippedUnder
<1>4. ASSUME TakeOut(d, qty)
      PROVE  /\ ShippedUnder(d) = NoLines => ShippedUnder(d)' = qty
             /\ ReceivedUnder(d)' = ReceivedUnder(d)
             /\ \A x \in References \ {d} : SameUnder(x)
  <2> DEFINE new == Plus(moved[d].out, qty)
  <2>1. moved' = [moved EXCEPT ![d].out = new]
    BY <1>4 DEF TakeOut
  <2> HIDE DEF new
  <2>2. /\ moved'[d].in = moved[d].in /\ moved'[d].manualIn = moved[d].manualIn
        /\ moved'[d].out = new /\ moved'[d].manualOut = moved[d].manualOut
    BY <1>1, <2>1 DEF TypeOK, MovedRows
  <2>3. \A x \in References \ {d} : moved'[x] = moved[x]
    BY <2>1 DEF TypeOK
  <2>4. ShippedUnder(d) = NoLines => ShippedUnder(d)' = qty
    BY <1>2, <2>2, RowType DEF ShippedUnder, new
  <2> QED BY <2>2, <2>3, <2>4, SameAlike DEF ReceivedUnder
<1> QED BY <1>3, <1>4

GoodsInv == StockInv /\ ShipmentsMoveWhatWasPicked /\ TransfersLeave /\ ReceiptsBooked

LEMMA MovesPickedAll ==
    TypeOK => (ShipmentsMoveWhatWasPicked <=> \A s \in Shipments : MovesPicked(s))
<1> SUFFICES ASSUME TypeOK
             PROVE  ShipmentsMoveWhatWasPicked <=> \A s \in Shipments : MovesPicked(s)
  OBVIOUS
<1>1. ASSUME NEW s \in Shipments, NEW a \in [Products -> Nat], NEW b \in [Products -> Nat]
      PROVE  /\ moved[s].out = Plus(a, moved[s].manualOut) <=> ShippedUnder(s) = a
             /\ moved[s].in = Plus(b, moved[s].manualIn) <=> ReceivedUnder(s) = b
  BY <1>1, RowType, TakeOff DEF ShippedUnder, ReceivedUnder, References
<1>2. ASSUME NEW s \in Shipments PROVE PickedQuantities(shipment[s].request) \in [Products -> Nat]
  BY PickedType, ConstantsAssumption
<1> QED BY <1>1, <1>2, NoLinesType DEF ShipmentsMoveWhatWasPicked, MovesPicked

LEMMA BooksReceivedAll ==
    TypeOK => (ReceiptsBooked <=> \A o \in Orders : BooksReceived(o))
<1> SUFFICES ASSUME TypeOK PROVE ReceiptsBooked <=> \A o \in Orders : BooksReceived(o)
  OBVIOUS
<1>1. ASSUME NEW o \in Orders PROVE order[o].received \in [Products -> Nat]
  BY NoLinesType DEF TypeOK, OrderRows, NoOrder
<1>2. ASSUME NEW o \in Orders
      PROVE  /\ moved[o].in = Plus(order[o].received, moved[o].manualIn)
                    <=> ReceivedUnder(o) = order[o].received
             /\ moved[o].out = moved[o].manualOut <=> ShippedUnder(o) = NoLines
  <2>1. o \in References
    BY DEF References
  <2>2. moved[o].manualOut = Plus(NoLines, moved[o].manualOut)
    BY <2>1, RowType DEF Plus, NoLines
  <2> QED BY <1>1, <2>1, <2>2, RowType, TakeOff, NoLinesType DEF ShippedUnder, ReceivedUnder
<1> QED BY <1>2 DEF ReceiptsBooked, BooksReceived

LEMMA GoodsInit == ConstantsAssumption /\ DataInit => GoodsInv
<1> SUFFICES ASSUME ConstantsAssumption, DataInit PROVE GoodsInv
  OBVIOUS
<1>1. StockInv
  BY StockInit
<1>2. ShipmentsMoveWhatWasPicked
  BY DEF DataInit, ShipmentsMoveWhatWasPicked, NothingMoved, NoLines, Plus, NoShipment, References
<1>3. TransfersLeave
  BY DEF DataInit, TransfersLeave, NoRequest
<1>4. ReceiptsBooked
  BY DEF DataInit, ReceiptsBooked, NothingMoved, NoLines, Plus, NoOrder, References
<1> QED BY <1>1, <1>2, <1>3, <1>4 DEF GoodsInv

\* A shipment that stays moves what it moved.
LEMMA StayKeeps ==
    ASSUME ConstantsAssumption, GoodsInv, ShipmentsStay, NEW s \in Shipments
    PROVE  MovesPicked(s)'
<1>1. MovesPicked(s)
  BY MovesPickedAll DEF GoodsInv, StockInv
<1> DEFINE r == shipment[s].request
<1>2. shipment'[s] = shipment[s] /\ SameUnder(s)
  BY DEF ShipmentsStay
<1>3. CASE shipment[s].status # "absent"
  <2>1. PickedQuantities(r)' = PickedQuantities(shipment[s].request)
    <3>1. \A l \in PickLists : (pickList[l].request = r \/ pickList'[l].request = r)
                                    => pickList'[l] = pickList[l]
      BY <1>3 DEF ShipmentsStay
    <3>2. ASSUME NEW q, q = r PROVE PickedQuantities(q)' = PickedQuantities(q)
      BY <3>1, <3>2, PickedSame
    <3> QED BY <3>2, <1>2
  <2>2. IsInternalTransfer(shipment[s].request)' <=> IsInternalTransfer(shipment[s].request)
    BY <1>2, <1>3 DEF IsInternalTransfer, ShipmentsStay
  <2> QED BY <1>1, <1>2, <1>3, <2>1, <2>2 DEF MovesPicked, SameUnder
<1>4. CASE shipment[s].status = "absent"
  BY <1>1, <1>2, <1>4 DEF MovesPicked, SameUnder
<1> QED BY <1>3, <1>4

\* What ship() does to the goods and to the trip.
LEMMA ShipMoves ==
    ASSUME ConstantsAssumption, GoodsInv, NEW r \in Requests, NEW s \in Shipments, Ship(r, s)
    PROVE  LET picked == PickedQuantities(r)
           IN  /\ shipment[s].status = "absent"
               /\ shipment'[s].status = "shipped" /\ shipment'[s].request = r
               /\ ShippedUnder(s)' = picked /\ ReceivedUnder(s)' = NoLines
               /\ picked \in [Products -> Nat] /\ picked # NoLines
               /\ pickList' = pickList
               /\ \A t \in Shipments \ {s} : shipment'[t] = shipment[t] /\ SameUnder(t)
               /\ \A o \in Orders : SameUnder(o)
               /\ \A q \in Requests : /\ request'[q].dest = request[q].dest
                                      /\ request'[q].source = request[q].source
<1> DEFINE picked == PickedQuantities(r)
<1>1. TypeOK /\ picked \in [Products -> Nat]
  BY PickedType DEF GoodsInv, StockInv
<1>2. shipment[s].status = "absent" /\ ShippedUnder(s) = NoLines /\ ReceivedUnder(s) = NoLines
  BY <1>1, MovesPickedAll DEF Ship, GoodsInv, MovesPicked
<1>3. s \in References /\ s \notin Orders /\ Orders \subseteq References /\ Shipments \subseteq References
  BY DEF References, ConstantsAssumption
<1>4. TakeOut(s, picked)
  BY DEF Ship
<1>5. /\ ShippedUnder(s)' = picked /\ ReceivedUnder(s)' = NoLines
      /\ \A x \in References \ {s} : SameUnder(x)
  BY <1>1, <1>2, <1>3, <1>4, MovedBy
<1>6. \A q \in Requests : /\ request'[q].dest = request[q].dest
                         /\ request'[q].source = request[q].source
  BY <1>1, SameDest DEF Ship
<1>7. picked # NoLines
  BY DEF Ship, ReadyToShip
<1> QED BY <1>1, <1>2, <1>3, <1>5, <1>6, <1>7, ShipEffect

\* What deliver() does.
LEMMA DeliverMoves ==
    ASSUME ConstantsAssumption, GoodsInv, NEW s \in Shipments, Deliver(s)
    PROVE  LET r == shipment[s].request
           IN  /\ r \in Requests /\ request[r].status = "shipped"
               /\ shipment[s].status = "shipped"
               /\ shipment'[s].status = "delivered" /\ shipment'[s].request = r
               /\ ShippedUnder(s) = PickedQuantities(r) /\ ReceivedUnder(s) = NoLines
               /\ ShippedUnder(s)' = ShippedUnder(s)
               /\ ReceivedUnder(s)' = IF IsInternalTransfer(r) THEN PickedQuantities(r) ELSE NoLines
               /\ PickedQuantities(r) \in [Products -> Nat]
               /\ pickList' = pickList
               /\ \A t \in Shipments \ {s} : shipment'[t] = shipment[t] /\ SameUnder(t)
               /\ \A o \in Orders : SameUnder(o)
               /\ \A q \in Requests : /\ request'[q].dest = request[q].dest
                                      /\ request'[q].source = request[q].source
<1> DEFINE r == shipment[s].request
           picked == PickedQuantities(r)
<1>1. TypeOK /\ DocumentsAgree /\ picked \in [Products -> Nat]
  BY PickedType DEF GoodsInv, StockInv
<1>2. shipment[s].status = "shipped" /\ ShippedUnder(s) = picked /\ ReceivedUnder(s) = NoLines
  <2>1. shipment[s].status = "shipped" /\ MovesPicked(s)
    BY <1>1, MovesPickedAll DEF Deliver, UnderWay, GoodsInv
  <2> QED BY <2>1 DEF MovesPicked
<1>3. s \in References /\ s \notin Orders /\ Orders \subseteq References /\ Shipments \subseteq References
  BY DEF References, ConstantsAssumption
<1>4. /\ ReceivedUnder(s)' = IF IsInternalTransfer(r) THEN picked ELSE NoLines
      /\ ShippedUnder(s)' = ShippedUnder(s)
      /\ \A x \in References \ {s} : SameUnder(x)
  <2>1. CASE IsInternalTransfer(r)
    BY <1>1, <1>2, <1>3, <2>1, MovedBy DEF Deliver
  <2>2. CASE ~IsInternalTransfer(r)
    <3>1. moved' = moved
      BY <2>2 DEF Deliver
    <3> QED BY <1>2, <2>2, <3>1, SameAlike DEF SameUnder
  <2> QED BY <2>1, <2>2
<1>5. \A q \in Requests : /\ request'[q].dest = request[q].dest
                         /\ request'[q].source = request[q].source
  BY <1>1, SameDest DEF Deliver
<1> QED BY <1>1, <1>2, <1>3, <1>4, <1>5, DeliverEffect

\* Shipments beside the one that goes on.
LEMMA OthersKeep ==
    ASSUME ConstantsAssumption, GoodsInv, NEW t \in Shipments, pickList' = pickList,
           shipment'[t] = shipment[t], SameUnder(t),
           \A q \in Requests : request'[q].dest = request[q].dest
    PROVE  MovesPicked(t)'
<1>1. MovesPicked(t) /\ (shipment[t].status # "absent" => shipment[t].request \in Requests)
  BY MovesPickedAll, RowsExist DEF GoodsInv, StockInv
<1>2. ASSUME NEW q PROVE PickedQuantities(q)' = PickedQuantities(q)
  BY PickedSame
<1> QED BY <1>1, <1>2 DEF MovesPicked, IsInternalTransfer, SameUnder

LEMMA ShipmentsStep ==
    ASSUME ConstantsAssumption, GoodsInv, TypeOK', [Next]_dataVars
    PROVE  ShipmentsMoveWhatWasPicked'
<1>0. (TypeOK => (ShipmentsMoveWhatWasPicked <=> \A s \in Shipments : MovesPicked(s)))'
  BY MovesPickedAll, PTL
<1> SUFFICES ASSUME NEW t \in Shipments PROVE MovesPicked(t)'
  BY <1>0
<1>1. CASE ShipmentsStay
  BY <1>1, StayKeeps
<1>2. ASSUME NEW q PROVE pickList' = pickList => PickedQuantities(q)' = PickedQuantities(q)
  BY PickedSame
<1>3. ASSUME NEW r \in Requests, NEW s \in Shipments, Ship(r, s) PROVE MovesPicked(t)'
  <2>1. CASE t = s
    BY <1>2, <1>3, <2>1, ShipMoves DEF MovesPicked
  <2>2. CASE t # s
    BY <1>3, <2>2, ShipMoves, OthersKeep
  <2> QED BY <2>1, <2>2
<1>4. ASSUME NEW s \in Shipments, Deliver(s) PROVE MovesPicked(t)'
  <2>1. CASE t = s
    BY <1>2, <1>4, <2>1, DeliverMoves DEF MovesPicked, IsInternalTransfer
  <2>2. CASE t # s
    BY <1>4, <2>2, DeliverMoves, OthersKeep
  <2> QED BY <2>1, <2>2
<1> QED BY <1>1, <1>3, <1>4, StepKinds DEF GoodsInv, StockInv

\* A request is made between two different ends, and keeps them.
LEMMA TransfersStep ==
    ASSUME ConstantsAssumption, TypeOK, DocumentsAgree, TransfersLeave, [Next]_dataVars
    PROVE  TransfersLeave'
<1>1. ASSUME NEW q, NEW status, request' = [request EXCEPT ![q].status = status],
             q \in Requests => request[q].status # "absent"
      PROVE  TransfersLeave'
  <2>1. \A r \in Requests : request'[r].status # "absent" => request[r].status # "absent"
    BY <1>1 DEF TypeOK
  <2> QED BY <1>1, <2>1, SameDest DEF TransfersLeave
<1>2. ASSUME NEW r \in Requests, NEW w \in Warehouses, NEW d \in Warehouses \cup {None}, NEW lines,
             w # d, AddRequest(r, w, d, lines)
      PROVE  TransfersLeave'
  BY <1>2 DEF AddRequest, TransfersLeave, TypeOK
<1>3. CASE UNCHANGED request
  BY <1>3 DEF TransfersLeave
<1>4. CASE Creation
  BY <1>2, <1>3, <1>4 DEF Creation, CreateSalesOrder, CreateInternalTransfer, CreatePurchaseOrder,
                          UpdateWarehouse, ConstantsAssumption
<1>5. ASSUME NEW r \in Requests, NEW l \in PickLists, GeneratePickList(r, l) PROVE TransfersLeave'
  BY <1>1, <1>5 DEF GeneratePickList, NeedsPickList
<1>6. ASSUME NEW l \in PickLists, CompletePickList(l) PROVE TransfersLeave'
  BY <1>1, <1>6, CompleteEffect DEF CompletePickList
<1>7. ASSUME NEW r \in Requests, NEW s \in Shipments, Ship(r, s) PROVE TransfersLeave'
  BY <1>1, <1>7 DEF Ship, ReadyToShip
<1>8. ASSUME NEW s \in Shipments, Deliver(s) PROVE TransfersLeave'
  BY <1>1, <1>8, DeliverEffect DEF Deliver
<1>9. ASSUME NEW l \in PickLists, NEW p \in Products, NEW q \in 0..MaxQty, RecordPick(l, p, q)
      PROVE  TransfersLeave'
  BY <1>3, <1>9 DEF RecordPick
<1>10. ASSUME NEW o \in Orders, NEW got \in Lines, ReceivePurchaseOrder(o, got)
       PROVE  TransfersLeave'
  BY <1>3, <1>10 DEF ReceivePurchaseOrder
<1>11. ASSUME NEW w \in Warehouses, NEW p \in Products, NEW d \in ManualDeltas,
              NEW ref \in References \cup {None}, ManualTransaction(w, p, d, ref)
       PROVE  TransfersLeave'
  BY <1>3, <1>11 DEF ManualTransaction
<1>12. CASE RecalculateReservations
  BY <1>3, <1>12 DEF RecalculateReservations, docVars
<1>13. CASE UNCHANGED dataVars
  BY <1>3, <1>13 DEF dataVars, docVars
<1> QED BY <1>4, <1>5, <1>6, <1>7, <1>8, <1>9, <1>10, <1>11, <1>12, <1>13 DEF Next

\* quantity_received and the receipt rows grow together, once.
LEMMA ReceiptsStep ==
    ASSUME ConstantsAssumption, GoodsInv, TypeOK', [Next]_dataVars
    PROVE  ReceiptsBooked'
<1> USE DEF GoodsInv, StockInv
<1>0. /\ \A o \in Orders : BooksReceived(o)
      /\ (\A o \in Orders : BooksReceived(o)') => ReceiptsBooked'
      /\ moved' = moved => \A o \in Orders : SameUnder(o)
  <2>1. \A o \in Orders : BooksReceived(o)
    BY BooksReceivedAll
  <2>2. (\A o \in Orders : BooksReceived(o)') => ReceiptsBooked'
    <3>1. (TypeOK => (ReceiptsBooked <=> \A o \in Orders : BooksReceived(o)))'
      BY BooksReceivedAll, PTL
    <3> QED BY <3>1
  <2> QED BY <2>1, <2>2, SameAlike
<1>1. ASSUME order' = order, \A o \in Orders : SameUnder(o) PROVE ReceiptsBooked'
  BY <1>0, <1>1 DEF BooksReceived, SameUnder
<1>2. ASSUME NEW o \in Orders, NEW got \in Lines, ReceivePurchaseOrder(o, got) PROVE ReceiptsBooked'
  <2> DEFINE sum == Plus(order[o].received, got)
             row == [order[o] EXCEPT !.status = "received", !.received = sum]
  <2>1. o \in References /\ Orders \subseteq References /\ got \in [Products -> Nat]
    BY DEF References, Lines
  <2>2. order[o] \in [status: OrderStatus, dest: Warehouses, ordered: [Products -> Nat],
                      received: [Products -> Nat]] /\ order[o].status # "received"
    BY <1>2 DEF ReceivePurchaseOrder, Receivable, TypeOK, OrderRows, NoOrder
  <2>3. order[o].received = NoLines /\ ReceivedUnder(o) = NoLines /\ ShippedUnder(o) = NoLines
    BY <1>0, <2>2 DEF BooksReceived
  <2>4. sum = got
    BY <2>1, <2>3 DEF Plus, NoLines
  <2>5. /\ ReceivedUnder(o)' = got /\ ShippedUnder(o)' = NoLines
        /\ \A x \in Orders \ {o} : SameUnder(x)
    BY <1>2, <2>1, <2>3, MovedBy DEF ReceivePurchaseOrder
  <2>6. order' = [order EXCEPT ![o] = row]
    BY <1>2 DEF ReceivePurchaseOrder, Close
  <2>7. row.status = "received" /\ row.received = sum
    BY <2>2
  <2> HIDE DEF row, sum
  <2>8. /\ order'[o].status = "received" /\ order'[o].received = got
        /\ \A x \in Orders \ {o} : order'[x] = order[x]
    BY <2>4, <2>6, <2>7 DEF TypeOK
  <2> QED BY <1>0, <2>5, <2>8 DEF BooksReceived, SameUnder
<1>3. ASSUME NEW o \in Orders, NEW w \in Warehouses, NEW lines \in Lines,
             CreatePurchaseOrder(o, w, lines)
      PROVE  ReceiptsBooked'
  <2>1. order[o].status = "absent" /\ \A x \in Orders : SameUnder(x)
    BY <1>0, <1>3 DEF CreatePurchaseOrder, stockVars
  <2>2. ReceivedUnder(o) = NoLines
    BY <1>0, <2>1 DEF BooksReceived
  <2>3. order'[o].status = "pending" /\ order'[o].received = NoLines
        /\ \A x \in Orders \ {o} : order'[x] = order[x]
    BY <1>3 DEF CreatePurchaseOrder, TypeOK
  <2> QED BY <1>0, <2>1, <2>2, <2>3 DEF BooksReceived, SameUnder
<1>4. CASE Creation
  <2>1. ASSUME NEW r \in Requests, NEW w \in Warehouses, NEW d, NEW lines, AddRequest(r, w, d, lines)
        PROVE  ReceiptsBooked'
    BY <1>0, <1>1, <2>1 DEF AddRequest, stockVars
  <2>2. ASSUME NEW w \in Deactivatable, UpdateWarehouse(w) PROVE ReceiptsBooked'
    BY <1>0, <1>1, <2>2 DEF UpdateWarehouse, stockVars
  <2> QED BY <1>3, <1>4, <2>1, <2>2 DEF Creation, CreateSalesOrder, CreateInternalTransfer
<1>5. ASSUME NEW r \in Requests, NEW l \in PickLists, GeneratePickList(r, l) PROVE ReceiptsBooked'
  BY <1>0, <1>1, <1>5 DEF GeneratePickList, stockVars
<1>6. ASSUME NEW l \in PickLists, NEW p \in Products, NEW q \in 0..MaxQty, RecordPick(l, p, q)
      PROVE  ReceiptsBooked'
  BY <1>0, <1>1, <1>6 DEF RecordPick, stockVars
<1>7. ASSUME NEW l \in PickLists, CompletePickList(l) PROVE ReceiptsBooked'
  BY <1>0, <1>1, <1>7 DEF CompletePickList
<1>8. ASSUME NEW r \in Requests, NEW s \in Shipments, Ship(r, s) PROVE ReceiptsBooked'
  BY <1>1, <1>8, ShipMoves DEF Ship
<1>9. ASSUME NEW s \in Shipments, Deliver(s) PROVE ReceiptsBooked'
  BY <1>1, <1>9, DeliverMoves DEF Deliver
<1>10. ASSUME NEW w \in Warehouses, NEW p \in Products, NEW d \in ManualDeltas,
              NEW ref \in References \cup {None}, ManualTransaction(w, p, d, ref)
       PROVE  ReceiptsBooked'
  <2>1. [NoLines EXCEPT ![p] = d] \in [Products -> Int]
    BY DeltaType
  <2>2. \A o \in Orders : SameUnder(o)
    BY <1>10, <2>1, ManualSame DEF ManualTransaction, References
  <2> QED BY <1>1, <1>10, <2>2 DEF ManualTransaction
<1>11. CASE RecalculateReservations
  BY <1>0, <1>1, <1>11 DEF RecalculateReservations, docVars
<1>12. CASE UNCHANGED dataVars
  BY <1>0, <1>1, <1>12 DEF dataVars, docVars, stockVars
<1> QED BY <1>2, <1>4, <1>5, <1>6, <1>7, <1>8, <1>9, <1>10, <1>11, <1>12 DEF Next

-----------------------------------------------------------------------------
(* The theorems about documents and ledger rows.                           *)

LEMMA GoodsInvCorrect == Spec => []GoodsInv
<1>1. DataInit => GoodsInv
  BY GoodsInit, ConstantsAssumption
<1>2. GoodsInv /\ [Next]_dataVars => GoodsInv'
  <2> SUFFICES ASSUME GoodsInv, [Next]_dataVars PROVE GoodsInv'
    OBVIOUS
  <2>1. StockInv'
    BY ConstantsAssumption, TypeStep, DocsStep, NonNegativeStep, LedgerStep DEF GoodsInv, StockInv
  <2> QED BY <2>1, ConstantsAssumption, ShipmentsStep, TransfersStep, ReceiptsStep
             DEF GoodsInv, StockInv
<1> QED BY <1>1, <1>2, PTL DEF Spec

\* ship() takes out what was picked and deliver() puts the same in, once.
THEOREM ShipmentsCorrect == Spec => []ShipmentsMoveWhatWasPicked
<1>1. GoodsInv => ShipmentsMoveWhatWasPicked
  BY DEF GoodsInv
<1> QED BY <1>1, GoodsInvCorrect, PTL

\* quantity_received is what the receipt rows of the ledger brought in.
THEOREM ReceiptsCorrect == Spec => []ReceiptsBooked
<1>1. GoodsInv => ReceiptsBooked
  BY DEF GoodsInv
<1> QED BY <1>1, GoodsInvCorrect, PTL

\* A completed pick list never changes again.
THEOREM FrozenCorrect == Spec => CompletedListsAreFrozen
<1>1. ASSUME StockInv, [Next]_dataVars, NEW l \in PickLists, pickList[l].status = "complete"
      PROVE  pickList'[l] = pickList[l]
  <2> USE <1>1 DEF StockInv
  <2>1. ASSUME NEW r \in Requests, NEW m \in PickLists, GeneratePickList(r, m)
        PROVE  pickList'[l] = pickList[l]
    BY <2>1, GenerateEffect
  <2>2. ASSUME NEW m \in PickLists, NEW p \in Products, NEW q \in 0..MaxQty, RecordPick(m, p, q)
        PROVE  pickList'[l] = pickList[l]
    BY <2>2, RecordEffect
  <2>3. ASSUME NEW m \in PickLists, CompletePickList(m) PROVE pickList'[l] = pickList[l]
    BY <2>3, CompleteEffect
  <2>4. CASE Creation
    BY <2>4 DEF Creation, CreateSalesOrder, CreateInternalTransfer, AddRequest, CreatePurchaseOrder,
                UpdateWarehouse
  <2>5. ASSUME NEW r \in Requests, NEW s \in Shipments, Ship(r, s) PROVE pickList'[l] = pickList[l]
    BY <2>5 DEF Ship
  <2>6. ASSUME NEW s \in Shipments, Deliver(s) PROVE pickList'[l] = pickList[l]
    BY <2>6 DEF Deliver
  <2>7. ASSUME NEW o \in Orders, NEW got \in Lines, ReceivePurchaseOrder(o, got)
        PROVE  pickList'[l] = pickList[l]
    BY <2>7 DEF ReceivePurchaseOrder
  <2>8. ASSUME NEW w \in Warehouses, NEW p \in Products, NEW d \in ManualDeltas,
               NEW ref \in References \cup {None}, ManualTransaction(w, p, d, ref)
        PROVE  pickList'[l] = pickList[l]
    BY <2>8 DEF ManualTransaction
  <2>9. CASE RecalculateReservations
    BY <2>9 DEF RecalculateReservations, docVars
  <2>10. CASE UNCHANGED dataVars
    BY <2>10 DEF dataVars, docVars
  <2> QED BY <2>1, <2>2, <2>3, <2>4, <2>5, <2>6, <2>7, <2>8, <2>9, <2>10 DEF Next
<1>2. StockInv /\ [Next]_dataVars =>
          [\A l \in PickLists : pickList[l].status = "complete" => pickList'[l] = pickList[l]]_pickList
  BY <1>1
<1> QED BY <1>2, StockCorrect, PTL DEF Spec, CompletedListsAreFrozen

LEMMA Ranks ==
    /\ Rank("absent") = 0 /\ Rank("requested") = 1 /\ Rank("picking") = 2 /\ Rank("packed") = 3
    /\ Rank("shipped") = 4 /\ Rank("delivered") = 5
BY DEF Rank

\* No handler skips a stage of a request or takes one back.
THEOREM StatusCorrect == Spec => StatusNeverReverts
<1> DEFINE Forward(r) == Rank(request'[r].status) \in {Rank(request[r].status), Rank(request[r].status) + 1}
<1>1. ASSUME StockInv, [Next]_dataVars, NEW r \in Requests PROVE Forward(r)
  <2> USE <1>1 DEF StockInv
  <2>1. request[r].status \in {"absent", "requested", "picking", "packed", "shipped", "delivered"}
    BY DEF TypeOK, RequestRows, RequestStatus, NoRequest
  <2>2. CASE request'[r].status = request[r].status
    BY <2>2 DEF Rank
  <2>3. ASSUME NEW q \in Requests, NEW w \in Warehouses, NEW d, NEW lines, AddRequest(q, w, d, lines)
        PROVE  Forward(r)
    BY <2>2, <2>3, AddRequestEffect, Ranks
  <2>4. ASSUME NEW q \in Requests, NEW l \in PickLists, GeneratePickList(q, l) PROVE Forward(r)
    BY <2>2, <2>4, GenerateEffect, Ranks
  <2>5. ASSUME NEW l \in PickLists, CompletePickList(l) PROVE Forward(r)
    BY <2>2, <2>5, CompleteEffect, Ranks
  <2>6. ASSUME NEW q \in Requests, NEW s \in Shipments, Ship(q, s) PROVE Forward(r)
    BY <2>2, <2>6, ShipEffect, Ranks
  <2>7. ASSUME NEW s \in Shipments, Deliver(s) PROVE Forward(r)
    BY <2>2, <2>7, DeliverEffect, Ranks
  <2>8. CASE UNCHANGED request
    BY <2>2, <2>8
  <2>9. CASE Creation
    BY <2>3, <2>8, <2>9 DEF Creation, CreateSalesOrder, CreateInternalTransfer, CreatePurchaseOrder,
                            UpdateWarehouse
  <2>10. ASSUME NEW l \in PickLists, NEW p \in Products, NEW q \in 0..MaxQty, RecordPick(l, p, q)
         PROVE  Forward(r)
    BY <2>8, <2>10 DEF RecordPick
  <2>11. ASSUME NEW o \in Orders, NEW got \in Lines, ReceivePurchaseOrder(o, got) PROVE Forward(r)
    BY <2>8, <2>11 DEF ReceivePurchaseOrder
  <2>12. ASSUME NEW w \in Warehouses, NEW p \in Products, NEW d \in ManualDeltas,
                NEW ref \in References \cup {None}, ManualTransaction(w, p, d, ref)
         PROVE  Forward(r)
    BY <2>8, <2>12 DEF ManualTransaction
  <2>13. CASE RecalculateReservations
    BY <2>8, <2>13 DEF RecalculateReservations, docVars
  <2>14. CASE UNCHANGED dataVars
    BY <2>8, <2>14 DEF dataVars, docVars
  <2> QED BY <2>4, <2>5, <2>6, <2>7, <2>9, <2>10, <2>11, <2>12, <2>13, <2>14 DEF Next
<1>2. StockInv /\ [Next]_dataVars => [\A r \in Requests : Forward(r)]_request
  BY <1>1
<1> QED BY <1>2, StockCorrect, PTL DEF Spec, StatusNeverReverts

-----------------------------------------------------------------------------
(* Picked quantities.                                                      *)

\* No line of a pick list holds more than the line of the request it copies.
LinesKept ==
    \A l \in PickLists, p \in Products :
        pickList[l].status # "absent" =>
            pickList[l].picked[p] <= request[pickList[l].request].lines[p]

LEMMA LinesStep ==
    ASSUME ConstantsAssumption, TypeOK, DocumentsAgree, LinesKept, [Next]_dataVars
    PROVE  LinesKept'
<1> USE DEF dataVars, stockVars, docVars
<1>1. ASSUME UNCHANGED <<request, pickList>> PROVE LinesKept'
  BY <1>1 DEF LinesKept
<1>2. ASSUME NEW r \in Requests, NEW w \in Warehouses, NEW d, NEW lines, AddRequest(r, w, d, lines)
      PROVE  LinesKept'
  BY <1>2, AddRequestEffect, RowsExist DEF LinesKept
<1>3. CASE Creation
  BY <1>1, <1>2, <1>3 DEF Creation, CreateSalesOrder, CreateInternalTransfer, CreatePurchaseOrder,
                          UpdateWarehouse
<1>4. ASSUME NEW q, NEW status, request' = [request EXCEPT ![q].status = status],
             \A m \in PickLists : /\ pickList'[m].picked = pickList[m].picked
                                  /\ pickList'[m].request = pickList[m].request
                                  /\ pickList'[m].status # "absent" => pickList[m].status # "absent"
      PROVE  LinesKept'
  BY <1>4, SameDest, RowsExist DEF LinesKept
<1>5. ASSUME NEW r \in Requests, NEW l \in PickLists, GeneratePickList(r, l) PROVE LinesKept'
  <2>1. pickList'[l].request = r /\ pickList'[l].picked = NoLines
    BY <1>5 DEF GeneratePickList, TypeOK
  <2>2. request[r].lines \in [Products -> Nat]
    BY <1>5 DEF GeneratePickList, NeedsPickList, TypeOK, RequestRows, NoRequest
  <2>3. \A q \in Requests : request'[q].lines = request[q].lines
    BY <1>5, SameDest DEF GeneratePickList
  <2>4. \A m \in PickLists : m # l => pickList'[m] = pickList[m]
    BY <1>5, GenerateEffect
  <2>5. \A p \in Products : pickList'[l].picked[p] <= request'[pickList'[l].request].lines[p]
    BY <2>1, <2>2, <2>3 DEF NoLines
  <2> QED BY <2>3, <2>4, <2>5, RowsExist DEF LinesKept
<1>6. ASSUME NEW l \in PickLists, NEW p \in Products, NEW q \in 0..MaxQty, RecordPick(l, p, q)
      PROVE  LinesKept'
  <2>1. /\ pickList[l].status # "absent" /\ q <= request[pickList[l].request].lines[p]
        /\ request' = request
    BY <1>6 DEF RecordPick, StillOpen, PickAllowed
  <2>2. pickList[l] \in [status: PickListStatus, request: Requests, picked: [Products -> Nat]]
    BY <2>1 DEF TypeOK, PickListRows, NoPickList
  <2>3. /\ pickList'[l].request = pickList[l].request
        /\ pickList'[l].picked = [pickList[l].picked EXCEPT ![p] = q]
    BY <1>6, <2>2 DEF RecordPick, TypeOK
  <2>4. \A m \in PickLists : m # l => pickList'[m] = pickList[m]
    BY <1>6, RecordEffect
  <2>5. \A k \in Products : pickList'[l].picked[k] <= request'[pickList'[l].request].lines[k]
    BY <2>1, <2>2, <2>3 DEF LinesKept
  <2> QED BY <2>1, <2>4, <2>5 DEF LinesKept
<1>7. ASSUME NEW l \in PickLists, CompletePickList(l) PROVE LinesKept'
  <2>1. \A m \in PickLists : /\ pickList'[m].picked = pickList[m].picked
                             /\ pickList'[m].request = pickList[m].request
                             /\ pickList'[m].status # "absent" => pickList[m].status # "absent"
    BY <1>7, CompleteEffect
  <2> QED BY <1>4, <1>7, <2>1 DEF CompletePickList
<1>8. ASSUME NEW r \in Requests, NEW s \in Shipments, Ship(r, s) PROVE LinesKept'
  BY <1>4, <1>8 DEF Ship
<1>9. ASSUME NEW s \in Shipments, Deliver(s) PROVE LinesKept'
  BY <1>4, <1>9 DEF Deliver
<1>10. ASSUME NEW o \in Orders, NEW got \in Lines, ReceivePurchaseOrder(o, got) PROVE LinesKept'
  BY <1>1, <1>10 DEF ReceivePurchaseOrder
<1>11. ASSUME NEW w \in Warehouses, NEW p \in Products, NEW d \in ManualDeltas,
              NEW ref \in References \cup {None}, ManualTransaction(w, p, d, ref)
       PROVE  LinesKept'
  BY <1>1, <1>11 DEF ManualTransaction
<1>12. CASE RecalculateReservations
  BY <1>1, <1>12 DEF RecalculateReservations
<1>13. CASE UNCHANGED dataVars
  BY <1>1, <1>13
<1> QED BY <1>3, <1>5, <1>6, <1>7, <1>8, <1>9, <1>10, <1>11, <1>12, <1>13 DEF Next

\* What is packed for a request is what its one completed list holds, or nothing.
LEMMA LinesBoundPicked ==
    ASSUME ConstantsAssumption, TypeOK, DocumentsAgree, LinesKept
    PROVE  PickedWithinOrdered
<1> SUFFICES ASSUME NEW r \in Requests, NEW p \in Products
             PROVE  PickedQuantities(r)[p] <= request[r].lines[p]
  BY DEF PickedWithinOrdered
<1>1. CASE \E l \in PickLists : pickList[l].request = r /\ pickList[l].status = "complete"
  <2>1. PICK l \in PickLists : pickList[l].request = r /\ pickList[l].status = "complete"
    BY <1>1
  <2>2. PickedQuantities(r) = pickList[l].picked
    BY <2>1, PickedOfList
  <2> QED BY <2>1, <2>2 DEF LinesKept
<1>2. CASE ~\E l \in PickLists : pickList[l].request = r /\ pickList[l].status = "complete"
  <2> DEFINE done == {l \in ListsOf(r) : pickList[l].status = "complete"}
  <2>1. done = {}
    BY <1>2 DEF ListsOf
  <2>2. Total([l \in done |-> pickList[l].picked[p]]) = 0
    BY <2>1, TotalEmpty
  <2>3. request[r].lines[p] \in Nat
    BY DEF TypeOK, RequestRows, NoRequest, NoLines
  <2> QED BY <2>2, <2>3 DEF PickedQuantities
<1> QED BY <1>1, <1>2

\* record_pick and complete_pick_list never pack more of a product than the
\* request asked for.
THEOREM PickedWithinCorrect == Spec => []PickedWithinOrdered
<1>1. DataInit => LinesKept
  BY DEF DataInit, LinesKept, NoPickList
<1>2. StockInv /\ LinesKept /\ [Next]_dataVars => LinesKept'
  BY ConstantsAssumption, LinesStep DEF StockInv
<1>3. StockInv /\ LinesKept => PickedWithinOrdered
  BY ConstantsAssumption, LinesBoundPicked DEF StockInv
<1> QED BY <1>1, <1>2, <1>3, StockCorrect, PTL DEF Spec

-----------------------------------------------------------------------------
(* WarehouseOps implements GoodsFlow.                                      *)

Trip == [s \in Shipments |-> TripOf(s)]

LEMMA TripStates ==
    /\ TripState("absent") = "none" /\ TripState("shipped") = "moving"
    /\ TripState("delivered") = "ended"
BY DEF TripState

\* Two rows with the same columns are the same.
LEMMA SameRow ==
    ASSUME NEW S, NEW T, NEW U,
           NEW x \in [state: S, to: T, load: U, unloaded: U],
           NEW y \in [state: S, to: T, load: U, unloaded: U],
           x.state = y.state, x.to = y.to, x.load = y.load, x.unloaded = y.unloaded
    PROVE  x = y
OBVIOUS

\* The row of a trip that departs, and of one that arrives.
LEMMA DepartedRow ==
    ASSUME NEW x, NEW y, NEW c, NEW n, NEW d, NEW l,
           x = [state |-> "none", to |-> c, load |-> n, unloaded |-> n],
           y = [x EXCEPT !.state = "moving", !.to = d, !.load = l]
    PROVE  y = [state |-> "moving", to |-> d, load |-> l, unloaded |-> n]
<1> DEFINE z == [state |-> "moving", to |-> d, load |-> l, unloaded |-> n]
           R == [state: {"none", "moving"}, to: {c, d}, load: {l, n}, unloaded: {l, n}]
<1>1. x \in R /\ x.unloaded = n
  OBVIOUS
<1>2. y \in R /\ y.state = "moving" /\ y.to = d /\ y.load = l /\ y.unloaded = n
  BY <1>1
<1>3. z \in R /\ z.state = "moving" /\ z.to = d /\ z.load = l /\ z.unloaded = n
  OBVIOUS
<1> HIDE DEF z
<1>4. y = z
  BY ONLY <1>2, <1>3, SameRow
<1> QED BY <1>4 DEF z

LEMMA ArrivedRow ==
    ASSUME NEW x, NEW y, NEW d, NEW l, NEW n,
           x = [state |-> "moving", to |-> d, load |-> l, unloaded |-> n],
           y = [x EXCEPT !.state = "ended", !.unloaded = x.load]
    PROVE  y = [state |-> "ended", to |-> d, load |-> l, unloaded |-> l]
<1> DEFINE z == [state |-> "ended", to |-> d, load |-> l, unloaded |-> l]
           R == [state: {"moving", "ended"}, to: {d}, load: {l, n}, unloaded: {l, n}]
<1>1. x \in R /\ x.to = d /\ x.load = l
  OBVIOUS
<1>2. y \in R /\ y.state = "ended" /\ y.to = d /\ y.load = l /\ y.unloaded = l
  BY <1>1
<1>3. z \in R /\ z.state = "ended" /\ z.to = d /\ z.load = l /\ z.unloaded = l
  OBVIOUS
<1> HIDE DEF z
<1>4. y = z
  BY ONLY <1>2, <1>3, SameRow
<1> QED BY <1>4 DEF z

LEMMA FlowInitial == ConstantsAssumption /\ DataInit => Flow!FlowInit
<1> SUFFICES ASSUME ConstantsAssumption, DataInit PROVE Flow!FlowInit
  OBVIOUS
<1>1. ASSUME NEW s \in Shipments PROVE TripOf(s) = Flow!NoTrip
  <2>1. shipment[s].status = "absent" /\ ShippedUnder(s) = NoLines /\ ReceivedUnder(s) = NoLines
    BY DEF DataInit, NoShipment, References, ShippedUnder, ReceivedUnder, NothingMoved, NoLines, Minus
  <2> QED BY <2>1, TripStates DEF TripOf, Flow!NoTrip, Flow!NoGoods, NoLines
<1> QED BY <1>1 DEF Flow!FlowInit, DataInit

\* A shipment that does not go on is the same trip.
LEMMA SameTrip ==
    ASSUME GoodsInv, NEW s \in Shipments, shipment'[s] = shipment[s], SameUnder(s),
           shipment[s].status # "absent" =>
               request'[shipment[s].request].dest = request[shipment[s].request].dest
    PROVE  TripOf(s)' = TripOf(s)
BY DEF TripOf, SameUnder

\* Goods that change without a shipment are an adjustment of one warehouse.
LEMMA AdjustStep ==
    ASSUME ConstantsAssumption, GoodsInv, GoodsInv', ShipmentsStay,
           \/ UNCHANGED <<onHand, ledger>>
           \/ \E w \in Warehouses, delta \in [Products -> Int] : ApplyMovement(w, delta)
    PROVE  [Flow!FlowNext]_(Flow!flowVars)
<1>1. Trip' = Trip
  BY SameTrip DEF ShipmentsStay, Trip
<1>2. CASE UNCHANGED onHand
  BY <1>1, <1>2 DEF Flow!flowVars, Trip
<1>3. ASSUME NEW w \in Warehouses, NEW delta \in [Products -> Int], ApplyMovement(w, delta)
      PROVE  Flow!Adjust(w)
  <2>1. onHand'[w] \in [Products -> Int] /\ \A p \in Products : onHand'[w][p] >= 0
    BY DEF GoodsInv, StockInv, TypeOK, NeverNegative
  <2>2. onHand'[w] \in [Products -> Nat]
    BY <2>1
  <2>3. onHand' = [onHand EXCEPT ![w] = onHand'[w]]
    BY <1>3 DEF ApplyMovement, GoodsInv, StockInv, TypeOK
  <2> QED BY <1>1, <2>2, <2>3 DEF Flow!Adjust, Trip
<1> QED BY <1>2, <1>3 DEF Flow!FlowNext

LEMMA DepartStep ==
    ASSUME ConstantsAssumption, GoodsInv, NEW r \in Requests, NEW s \in Shipments, Ship(r, s)
    PROVE  Flow!Depart(s, request[r].source) /\ request[r].source \in Warehouses
<1> DEFINE w == request[r].source
           picked == PickedQuantities(r)
           row == [Flow!NoTrip EXCEPT !.state = "moving", !.to = request[r].dest, !.load = picked]
<1>1. request[r].status = "packed" /\ w \in Warehouses /\ request[r].dest \in Warehouses \cup {None}
      /\ w # request[r].dest
  BY RowsExist DEF Ship, ReadyToShip, GoodsInv, StockInv, TransfersLeave
<1>2. Trip[s].state = "none"
  BY ShipMoves, TripStates DEF Trip, TripOf
<1>3. Trip'[s] = row
  <2>1. TripOf(s)' = [state |-> "moving", to |-> request[r].dest, load |-> picked, unloaded |-> NoLines]
    BY ShipMoves, TripStates DEF TripOf
  <2>2. row = [state |-> "moving", to |-> request[r].dest, load |-> picked, unloaded |-> NoLines]
    <3>1. Flow!NoGoods = NoLines
      BY DEF Flow!NoGoods, NoLines
    <3>2. Flow!NoTrip = [state |-> "none", to |-> None, load |-> NoLines, unloaded |-> NoLines]
      BY <3>1 DEF Flow!NoTrip
    <3> DEFINE x == Flow!NoTrip
               y == [x EXCEPT !.state = "moving", !.to = request[r].dest, !.load = picked]
    <3>3. x = [state |-> "none", to |-> None, load |-> NoLines, unloaded |-> NoLines]
      BY <3>2
    <3>4. row = y
      OBVIOUS
    <3> HIDE DEF row, picked, x
    <3>5. y = [state |-> "moving", to |-> request[r].dest, load |-> picked, unloaded |-> NoLines]
      <4>1. ASSUME NEW z, z = y
            PROVE  z = [state |-> "moving", to |-> request[r].dest, load |-> picked, unloaded |-> NoLines]
        BY <3>3, <4>1, DepartedRow
      <4> QED BY <4>1
    <3> QED BY <3>4, <3>5
  <2> HIDE DEF row, picked
  <2> QED BY <2>1, <2>2 DEF Trip
<1>4. \A t \in Shipments \ {s} : TripOf(t)' = TripOf(t)
  BY ShipMoves, SameTrip, RowsExist DEF GoodsInv, StockInv
<1>5. Trip' = [Trip EXCEPT ![s] = row]
  BY <1>3, <1>4 DEF Trip
<1>6. Trip'[s].load = picked /\ Trip'[s].to = request[r].dest
  BY <1>3 DEF Flow!NoTrip
<1>7. picked \in [Products -> Nat] /\ picked # Flow!NoGoods
  BY ShipMoves DEF Flow!NoGoods, NoLines
<1>8. onHand[w] \in [Products -> Int]
  BY <1>1 DEF GoodsInv, StockInv, TypeOK
<1>9. \A p \in Products : picked[p] <= onHand[w][p]
  <2>1. \A p \in Products : onHand[w][p] + Minus(NoLines, picked)[p] >= 0
    BY DEF Ship, ApplyMovement
  <2>2. \A p \in Products : Minus(NoLines, picked)[p] = 0 - picked[p]
    BY DEF Minus, NoLines
  <2> QED BY <1>7, <1>8, <2>1, <2>2
<1>10. onHand' = [onHand EXCEPT ![w] = [p \in Products |-> onHand[w][p] - picked[p]]]
  <2>1. Plus(onHand[w], Minus(NoLines, picked)) = [p \in Products |-> onHand[w][p] - picked[p]]
    BY <1>7, <1>8 DEF Plus, Minus, NoLines
  <2> QED BY <2>1 DEF Ship, ApplyMovement
<1> HIDE DEF picked, row
<1> QED BY <1>1, <1>2, <1>5, <1>6, <1>7, <1>9, <1>10 DEF Flow!Depart, Trip, row

LEMMA ArriveStep ==
    ASSUME ConstantsAssumption, GoodsInv, NEW s \in Shipments, Deliver(s)
    PROVE  Flow!Arrive(s)
<1> DEFINE r == shipment[s].request
           picked == PickedQuantities(r)
<1>1. /\ r \in Requests /\ request[r].dest \in Warehouses \cup {None}
      /\ ShippedUnder(s) = picked /\ ReceivedUnder(s) = NoLines /\ picked \in [Products -> Nat]
  BY DeliverMoves, RowsExist DEF GoodsInv, StockInv
<1>2. TripOf(s) = [state |-> "moving", to |-> request[r].dest, load |-> picked, unloaded |-> NoLines]
  BY <1>1, DeliverMoves, TripStates DEF TripOf
<1>3. TripOf(s)' = [state |-> "ended", to |-> request[r].dest, load |-> picked,
                    unloaded |-> IF request[r].dest # None THEN picked ELSE NoLines]
  BY <1>1, DeliverMoves, TripStates DEF TripOf, IsInternalTransfer
<1>4. \A t \in Shipments \ {s} : TripOf(t)' = TripOf(t)
  BY DeliverMoves, SameTrip, RowsExist DEF GoodsInv, StockInv
<1> HIDE DEF picked
<1>5. CASE request[r].dest = None
  <2>1. Trip' = [Trip EXCEPT ![s].state = "ended"]
    <3>1. TripOf(s)' = [TripOf(s) EXCEPT !.state = "ended"]
      BY <1>2, <1>3, <1>5
    <3> DEFINE new == [TripOf(s) EXCEPT !.state = "ended"]
    <3>2. [Trip EXCEPT ![s].state = "ended"] = [Trip EXCEPT ![s] = new]
      BY DEF Trip
    <3> HIDE DEF new
    <3>3. TripOf(s)' = new
      BY <3>1 DEF new
    <3> QED BY <1>4, <3>2, <3>3 DEF Trip
  <2>2. UNCHANGED onHand
    BY <1>5 DEF Deliver, IsInternalTransfer
  <2>3. Trip[s].state = "moving" /\ Trip[s].to = None
    BY <1>2, <1>5 DEF Trip
  <2> QED BY <2>1, <2>2, <2>3 DEF Flow!Arrive, Trip
<1>6. CASE request[r].dest # None
  <2> DEFINE w == request[r].dest
  <2>1. Trip' = [Trip EXCEPT ![s] = [Trip[s] EXCEPT !.state = "ended", !.unloaded = Trip[s].load]]
    <3> DEFINE new == [Trip[s] EXCEPT !.state = "ended", !.unloaded = Trip[s].load]
    <3>1. Trip[s] = [state |-> "moving", to |-> request[r].dest, load |-> picked, unloaded |-> NoLines]
      BY <1>2 DEF Trip
    <3>2. TripOf(s)' = [state |-> "ended", to |-> request[r].dest, load |-> picked, unloaded |-> picked]
      BY <1>3, <1>6
    <3>3. new = [state |-> "ended", to |-> request[r].dest, load |-> picked, unloaded |-> picked]
      <4> DEFINE x == Trip[s]
      <4>1. x = [state |-> "moving", to |-> request[r].dest, load |-> picked, unloaded |-> NoLines]
        BY <3>1
      <4>2. new = [x EXCEPT !.state = "ended", !.unloaded = x.load]
        OBVIOUS
      <4> HIDE DEF x, new
      <4> QED BY <4>1, <4>2, ArrivedRow
    <3> HIDE DEF new
    <3>4. Trip' = [Trip EXCEPT ![s] = new]
      BY <1>4, <3>2, <3>3 DEF Trip
    <3> QED BY <3>4 DEF new
  <2>2. onHand' = [onHand EXCEPT ![w] = [p \in Products |-> onHand[w][p] + picked[p]]]
    BY <1>6 DEF Deliver, IsInternalTransfer, ApplyMovement, Plus, picked
  <2>3. Trip[s].state = "moving" /\ Trip[s].to = w /\ Trip[s].load = picked
    BY <1>2 DEF Trip
  <2> HIDE DEF w
  <2> QED BY <1>6, <2>1, <2>2, <2>3 DEF Flow!Arrive, Trip, w
<1> QED BY <1>5, <1>6

\* Every unit that leaves on a shipment arrives once, where the transfer was
\* created for: each step is one of GoodsFlow or changes no goods and no trip.
THEOREM GoodsFlowImplemented == Spec => ImplementsGoodsFlow
<1>1. DataInit => Flow!FlowInit
  BY FlowInitial, ConstantsAssumption
<1>2. ASSUME GoodsInv, GoodsInv', [Next]_dataVars PROVE [Flow!FlowNext]_(Flow!flowVars)
  <2>1. ASSUME NEW r \in Requests, NEW s \in Shipments, Ship(r, s) PROVE Flow!FlowNext
    BY <1>2, <2>1, DepartStep, ConstantsAssumption DEF Flow!FlowNext
  <2>2. ASSUME NEW s \in Shipments, Deliver(s) PROVE Flow!FlowNext
    BY <1>2, <2>2, ArriveStep, ConstantsAssumption DEF Flow!FlowNext
  <2>3. CASE ShipmentsStay
    BY <1>2, <2>3, AdjustStep, StockSteps, ConstantsAssumption DEF GoodsInv, StockInv
  <2> QED BY <1>2, <2>1, <2>2, <2>3, StepKinds, ConstantsAssumption DEF GoodsInv, StockInv
<1> QED BY <1>1, <1>2, GoodsInvCorrect, PTL DEF Spec, ImplementsGoodsFlow, Flow!FlowSpec

=============================================================================
