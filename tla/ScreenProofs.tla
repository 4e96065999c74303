----------------------------- MODULE ScreenProofs -----------------------------
(***************************************************************************)
(* The page of an outbound request over the handlers, for any number of    *)
(* clerks, documents and clicks: an up-to-date page offers what the        *)
(* backend accepts, and "Saved" beside a row means that it is stored.      *)
(***************************************************************************)
EXTENDS GoodsProofs, OutboundScreen

-----------------------------------------------------------------------------
(* The inductive invariant.                                                *)

\* What was rendered: the documents of some moment.
SeenRows ==
    [request: RequestRows, pickList: [PickLists -> PickListRows],
     shipment: [Shipments -> ShipmentRows]]

CallOps    == {"generate", "pick", "complete", "ship", "deliver"}
CallStates == {"sent", "done", "refused"}
CallRows   ==
    [op: CallOps, id: PickLists \cup Shipments \cup {None}, row: PickRows \cup {NoRow},
     qty: Nat, state: CallStates]

\* The arguments of a call fit its operation.
CallFits(c) ==
    /\ c.op = "pick" => c.row \in PickRows
    /\ c.op = "complete" => c.id \in PickLists
    /\ c.op = "deliver" => c.id \in Shipments

ScreenRows ==
    /\ seen \in [Clerks -> SeenRows]
    /\ quantity \in [Clerks -> [PickRows -> Nat]]
    /\ rowSaved \in [Clerks -> SUBSET PickRows]
    /\ calls \in [Clerks -> Seq(CallRows)]
    /\ writer \in [PickRows -> Clerks \cup {None}]
    /\ typedDuring \in [Clerks -> SUBSET PickRows]

Elements(s)  == {s[i] : i \in DOMAIN s}
UnderWayOf(u) == Elements(calls[u])

\* A list that was rendered as the request's still is.
ListsStay == \A u \in Clerks : ListsSeen(u) \subseteq ListsOf(Viewed)

\* What SavedMeansStored says of one row of one clerk.
Stored(u, row) ==
    \/ pickList[row[1]].picked[row[2]] = quantity[u][row]
    \/ row \in typedDuring[u]
    \/ writer[row] # u

\* A save under way carries the quantity of its row, which no rendering changes
\* as the list is on the page; once it is done, the row is stored.
SaveOK(u, c) ==
    /\ c.state = "sent" =>
          /\ c.row[1] \in ListsSeen(u)
          /\ quantity[u][c.row] = c.qty \/ c.row \in typedDuring[u]
    /\ c.state = "done" => Stored(u, c.row)

CallsOK ==
    \A u \in Clerks : \A c \in UnderWayOf(u) : CallFits(c) /\ (c.op = "pick" => SaveOK(u, c))

\* Nothing is asked for beyond the bound on one line.
LinesInBounds == \A r \in Requests, p \in Products : request[r].lines[p] \in 0..MaxQty

ScreenInv ==
    /\ StockInv /\ LinesInBounds
    /\ ScreenRows /\ ListsStay /\ CallsOK
    /\ SavedMeansStored

-----------------------------------------------------------------------------
(* Calls under way.                                                        *)

LEMMA AppendElements ==
    ASSUME NEW S, NEW s \in Seq(S), NEW e \in S
    PROVE  Append(s, e) \in Seq(S) /\ Elements(Append(s, e)) \subseteq Elements(s) \cup {e}
<1>1. Append(s, e) \in Seq(S)
  OBVIOUS
<1>2. ASSUME NEW i \in DOMAIN Append(s, e) PROVE Append(s, e)[i] \in Elements(s) \cup {e}
  <2>1. i \in 1..(Len(s) + 1) /\ DOMAIN s = 1..Len(s)
    OBVIOUS
  <2>2. CASE i = Len(s) + 1
    BY <2>2
  <2>3. CASE i # Len(s) + 1
    <3>1. i \in 1..Len(s) /\ Append(s, e)[i] = s[i]
      BY <2>1, <2>3
    <3> QED BY <2>1, <3>1 DEF Elements
  <2> QED BY <2>2, <2>3
<1> QED BY <1>1, <1>2 DEF Elements

LEMMA TailElements ==
    ASSUME NEW S, NEW s \in Seq(S), s # <<>>
    PROVE  Tail(s) \in Seq(S) /\ Elements(Tail(s)) \subseteq Elements(s) /\ Head(s) \in Elements(s)
BY DEF Elements

\* The state of the first call is set.
LEMMA HeadElements ==
    ASSUME NEW s \in Seq(CallRows), s # <<>>, NEW x \in CallStates
    PROVE  /\ [s EXCEPT ![1].state = x] \in Seq(CallRows)
           /\ Elements([s EXCEPT ![1].state = x])
                  \subseteq Elements(s) \cup {[Head(s) EXCEPT !.state = x]}
<1> DEFINE e == [s[1] EXCEPT !.state = x]
<1>1. s[1] \in CallRows /\ Head(s) = s[1]
  OBVIOUS
<1>2. e \in CallRows
  BY <1>1 DEF CallRows
<1>3. [s EXCEPT ![1].state = x] = [s EXCEPT ![1] = e]
  OBVIOUS
<1> HIDE DEF e
<1>4. [s EXCEPT ![1] = e] \in Seq(CallRows)
  BY <1>2
<1>5. Elements([s EXCEPT ![1] = e]) \subseteq Elements(s) \cup {e}
  BY DEF Elements
<1> QED BY <1>1, <1>3, <1>4, <1>5 DEF e

-----------------------------------------------------------------------------
(* The documents under the page.                                           *)

\* The lines of a request are set when it is created and never again.
LEMMA BoundedLines ==
    ASSUME ConstantsAssumption, TypeOK, DocumentsAgree, LinesInBounds, [Next]_dataVars
    PROVE  LinesInBounds'
<1> USE DEF dataVars, stockVars, docVars
<1>1. ASSUME UNCHANGED request PROVE LinesInBounds'
  BY <1>1 DEF LinesInBounds
<1>2. ASSUME NEW r \in Requests, NEW w \in Warehouses, NEW d, NEW lines \in Lines,
             AddRequest(r, w, d, lines)
      PROVE  LinesInBounds'
  BY <1>2 DEF LinesInBounds, AddRequest, Lines, TypeOK
<1>3. ASSUME NEW q, NEW status, request' = [request EXCEPT ![q].status = status]
      PROVE  LinesInBounds'
  BY <1>3, SameDest DEF LinesInBounds
<1>4. CASE Creation
  BY <1>1, <1>2, <1>4 DEF Creation, CreateSalesOrder, CreateInternalTransfer, CreatePurchaseOrder,
                          UpdateWarehouse
<1>5. ASSUME NEW r \in Requests, NEW l \in PickLists, GeneratePickList(r, l) PROVE LinesInBounds'
  BY <1>3, <1>5 DEF GeneratePickList
<1>6. ASSUME NEW l \in PickLists, NEW p \in Products, NEW q \in 0..MaxQty, RecordPick(l, p, q)
      PROVE  LinesInBounds'
  BY <1>1, <1>6 DEF RecordPick
<1>7. ASSUME NEW l \in PickLists, CompletePickList(l) PROVE LinesInBounds'
  BY <1>3, <1>7 DEF CompletePickList
<1>8. ASSUME NEW r \in Requests, NEW s \in Shipments, Ship(r, s) PROVE LinesInBounds'
  BY <1>3, <1>8 DEF Ship
<1>9. ASSUME NEW s \in Shipments, Deliver(s) PROVE LinesInBounds'
  BY <1>3, <1>9 DEF Deliver
<1>10. ASSUME NEW o \in Orders, NEW got \in Lines, ReceivePurchaseOrder(o, got)
       PROVE  LinesInBounds'
  BY <1>1, <1>10 DEF ReceivePurchaseOrder
<1>11. ASSUME NEW w \in Warehouses, NEW p \in Products, NEW d \in ManualDeltas,
              NEW ref \in References \cup {None}, ManualTransaction(w, p, d, ref)
       PROVE  LinesInBounds'
  BY <1>1, <1>11 DEF ManualTransaction
<1>12. CASE RecalculateReservations
  BY <1>1, <1>12 DEF RecalculateReservations
<1>13. CASE UNCHANGED dataVars
  BY <1>1, <1>13
<1> QED BY <1>4, <1>5, <1>6, <1>7, <1>8, <1>9, <1>10, <1>11, <1>12, <1>13 DEF Next

\* What a call does to the documents is a step of WarehouseOps.
LEMMA CallIsStep ==
    ASSUME ConstantsAssumption, ScreenAssumption, StockInv, LinesInBounds,
           NEW c \in CallRows, CallFits(c), Accepts(c), Perform(c)
    PROVE  Next
<1>1. CASE c.op = "generate"
  BY <1>1 DEF Perform, Next, ScreenAssumption
<1>2. CASE c.op = "pick"
  <2>1. c.row[1] \in PickLists /\ c.row[2] \in Products
    BY <1>2 DEF CallFits, PickRows
  <2>2. StillOpen(c.row[1]) /\ PickAllowed(c.row[1], c.row[2], c.qty)
    BY <1>2 DEF Accepts
  <2>3. pickList[c.row[1]].request \in Requests
    BY <2>1, <2>2, RowsExist DEF StillOpen, StockInv
  <2>4. c.qty \in 0..MaxQty
    BY <2>1, <2>2, <2>3 DEF PickAllowed, LinesInBounds, CallRows, ConstantsAssumption
  <2>5. RecordPick(c.row[1], c.row[2], c.qty)
    BY <1>2 DEF Perform
  <2> QED BY <2>1, <2>4, <2>5 DEF Next
<1>3. CASE c.op = "complete"
  BY <1>3 DEF Perform, Next, CallFits
<1>4. CASE c.op = "ship"
  BY <1>4 DEF Perform, Next, ScreenAssumption
<1>5. CASE c.op = "deliver"
  BY <1>5 DEF Perform, Next, CallFits
<1> QED BY <1>1, <1>2, <1>3, <1>4, <1>5 DEF CallRows, CallOps

LEMMA HeadIsCall ==
    ASSUME ScreenRows, CallsOK, NEW u \in Clerks, calls[u] # <<>>
    PROVE  /\ calls[u] \in Seq(CallRows) /\ Head(calls[u]) \in CallRows
           /\ Head(calls[u]) \in UnderWayOf(u) /\ CallFits(Head(calls[u]))
<1>1. calls[u] \in Seq(CallRows)
  BY DEF ScreenRows
<1>2. Head(calls[u]) \in UnderWayOf(u)
  BY <1>1, TailElements DEF UnderWayOf
<1> QED BY <1>1, <1>2 DEF CallsOK

\* Every step of the page leaves the documents alone or is one of WarehouseOps.
LEMMA ScreenIsWorkflow ==
    ASSUME ConstantsAssumption, ScreenAssumption, ScreenInv,
           [ScreenNext]_<<dataVars, screenVars>>
    PROVE  [Next]_dataVars
<1>1. CASE Background
  BY <1>1 DEF Background, Next
<1>2. ASSUME NEW u \in Clerks, ActionRunsFor(u) PROVE [Next]_dataVars
  <2> DEFINE c == Head(calls[u])
  <2>1. c \in CallRows /\ CallFits(c)
    BY <1>2, HeadIsCall DEF ScreenInv, ActionRunsFor
  <2>2. CASE Accepts(c)
    <3>1. Perform(c)
      BY <1>2, <2>2 DEF ActionRunsFor
    <3> HIDE DEF c
    <3> QED BY <2>1, <2>2, <3>1, CallIsStep DEF ScreenInv
  <2>3. CASE ~Accepts(c)
    BY <1>2, <2>3 DEF ActionRunsFor
  <2> QED BY <2>2, <2>3
<1>3. ASSUME NEW u \in Clerks, Reload(u) PROVE UNCHANGED dataVars
  BY <1>3 DEF Reload
<1>4. ASSUME NEW u \in Clerks, AnswerTo(u) PROVE UNCHANGED dataVars
  BY <1>4 DEF AnswerTo
<1>5. ASSUME NEW u \in Clerks, NEW row \in PickRows, SaveRow(u, row) PROVE UNCHANGED dataVars
  BY <1>5 DEF SaveRow
<1>6. ASSUME NEW u \in Clerks, NEW row \in PickRows, NEW q \in Typed, TypeQuantity(u, row, q)
      PROVE  UNCHANGED dataVars
  BY <1>6 DEF TypeQuantity
<1>7. ASSUME NEW u \in Clerks, NEW c \in Offers(u), Press(u, c) PROVE UNCHANGED dataVars
  BY <1>7 DEF Press
<1>8. CASE UNCHANGED <<dataVars, screenVars>>
  BY <1>8
<1> QED BY <1>1, <1>2, <1>3, <1>4, <1>5, <1>6, <1>7, <1>8 DEF ScreenNext

-----------------------------------------------------------------------------
(* The page, step by step.                                                 *)

\* What is offered is a call.
LEMMA OffersAreCalls ==
    ASSUME NEW u, NEW c \in Offers(u)
    PROVE  c \in CallRows /\ CallFits(c) /\ c.op # "pick"
<1>1. CASE c = GenerateCall
  BY <1>1 DEF GenerateCall, Call, CallRows, CallOps, CallStates, CallFits
<1>2. CASE c = ShipCall
  BY <1>2 DEF ShipCall, Call, CallRows, CallOps, CallStates, CallFits
<1>3. ASSUME NEW l \in PickLists, c = CompleteCall(l) PROVE c \in CallRows /\ CallFits(c) /\ c.op # "pick"
  BY <1>3 DEF CompleteCall, Call, CallRows, CallOps, CallStates, CallFits
<1>4. ASSUME NEW s \in Shipments, c = DeliverCall(s) PROVE c \in CallRows /\ CallFits(c) /\ c.op # "pick"
  BY <1>4 DEF DeliverCall, Call, CallRows, CallOps, CallStates, CallFits
<1> QED BY <1>1, <1>2, <1>3, <1>4 DEF Offers, ShipmentsSeen

LEMMA DocsAreRows ==
    ASSUME ScreenAssumption, TypeOK
    PROVE  /\ Docs \in SeenRows
           /\ [row \in PickRows |-> pickList[row[1]].picked[row[2]]] \in [PickRows -> Nat]
<1>1. Docs \in SeenRows
  BY DEF Docs, SeenRows, TypeOK, ScreenAssumption
<1>2. ASSUME NEW row \in PickRows PROVE pickList[row[1]].picked[row[2]] \in Nat
  BY DEF PickRows, TypeOK, PickListRows, NoPickList, NoLines
<1> QED BY <1>1, <1>2

LEMMA RowsStep ==
    ASSUME ConstantsAssumption, ScreenAssumption, ScreenInv,
           [ScreenNext]_<<dataVars, screenVars>>
    PROVE  ScreenRows'
<1> USE DEF ScreenRows
<1>0. ScreenRows /\ TypeOK
  BY DEF ScreenInv, StockInv
<1>1. CASE Background
  BY <1>0, <1>1 DEF Background, screenVars
<1>2. ASSUME NEW u \in Clerks, ActionRunsFor(u) PROVE ScreenRows'
  <2> DEFINE c == Head(calls[u])
  <2>1. c \in CallRows /\ CallFits(c) /\ calls[u] \in Seq(CallRows)
    BY <1>2, HeadIsCall DEF ScreenInv, ActionRunsFor
  <2>2. PICK x \in CallStates : calls' = [calls EXCEPT ![u][1].state = x]
    BY <1>2 DEF ActionRunsFor, CallStates
  <2> DEFINE new == [calls[u] EXCEPT ![1].state = x]
  <2>3. new \in Seq(CallRows)
    BY <1>2, <2>1, HeadElements DEF ActionRunsFor
  <2>4. calls' = [calls EXCEPT ![u] = new]
    BY <2>2
  <2> HIDE DEF new
  <2>5. calls' \in [Clerks -> Seq(CallRows)]
    BY <1>0, <2>3, <2>4
  <2>6. writer' \in [PickRows -> Clerks \cup {None}]
    BY <1>0, <1>2 DEF ActionRunsFor
  <2> QED BY <1>0, <1>2, <2>5, <2>6 DEF ActionRunsFor
<1>3. ASSUME NEW u \in Clerks, Reload(u) PROVE ScreenRows'
  BY <1>0, <1>3, DocsAreRows DEF Reload
<1>4. ASSUME NEW u \in Clerks, AnswerTo(u) PROVE ScreenRows'
  <2>1. Tail(calls[u]) \in Seq(CallRows) /\ Head(calls[u]) \in CallRows /\ CallFits(Head(calls[u]))
    BY <1>0, <1>4, TailElements, HeadIsCall DEF AnswerTo, ScreenInv
  <2>2. calls' \in [Clerks -> Seq(CallRows)]
    BY <1>0, <1>4, <2>1 DEF AnswerTo
  <2>3. CASE UNCHANGED <<seen, quantity, rowSaved>>
    BY <1>0, <1>4, <2>2, <2>3 DEF AnswerTo
  <2>4. CASE Rendered(u) /\ rowSaved' = IF Head(calls[u]).op = "pick"
                         THEN [rowSaved EXCEPT ![u] = @ \cup {Head(calls[u]).row}] ELSE rowSaved
    <3> DEFINE q == [row \in PickRows |-> IF row[1] \in ListsSeen(u) THEN quantity[u][row]
                                             ELSE pickList[row[1]].picked[row[2]]]
    <3>1. q \in [PickRows -> Nat]
      BY <1>0, DocsAreRows
    <3>2. quantity' = [quantity EXCEPT ![u] = q]
      BY <2>4 DEF Rendered
    <3> HIDE DEF q
    <3>3. quantity' \in [Clerks -> [PickRows -> Nat]]
      BY <1>0, <3>1, <3>2
    <3>4. rowSaved' \in [Clerks -> SUBSET PickRows]
      BY <1>0, <2>1, <2>4 DEF CallFits
    <3>5. seen' \in [Clerks -> SeenRows]
      BY <1>0, <2>4, DocsAreRows DEF Rendered
    <3> QED BY <1>0, <1>4, <2>2, <3>3, <3>4, <3>5 DEF AnswerTo
  <2> QED BY <1>4, <2>3, <2>4 DEF AnswerTo
<1>5. ASSUME NEW u \in Clerks, NEW row \in PickRows, SaveRow(u, row) PROVE ScreenRows'
  <2> DEFINE c == PickCall(row, quantity[u][row])
  <2>1. c \in CallRows
    BY <1>0 DEF PickCall, Call, CallRows, CallOps, CallStates
  <2>2. calls' = [calls EXCEPT ![u] = Append(calls[u], c)]
    BY <1>5 DEF SaveRow, Start
  <2> HIDE DEF c
  <2>3. calls' \in [Clerks -> Seq(CallRows)]
    BY <1>0, <2>1, <2>2, AppendElements
  <2> QED BY <1>0, <1>5, <2>3 DEF SaveRow
<1>6. ASSUME NEW u \in Clerks, NEW row \in PickRows, NEW q \in Typed, TypeQuantity(u, row, q)
      PROVE  ScreenRows'
  <2>1. q \in Nat
    BY DEF ScreenAssumption
  <2>2. quantity' \in [Clerks -> [PickRows -> Nat]]
    BY <1>0, <1>6, <2>1 DEF TypeQuantity
  <2> QED BY <1>0, <1>6, <2>2 DEF TypeQuantity, Edited
<1>7. ASSUME NEW u \in Clerks, NEW c \in Offers(u), Press(u, c) PROVE ScreenRows'
  <2>1. calls' = [calls EXCEPT ![u] = Append(calls[u], c)] /\ c \in CallRows
    BY <1>7, OffersAreCalls DEF Press, Start
  <2>2. calls' \in [Clerks -> Seq(CallRows)]
    BY <1>0, <2>1, AppendElements
  <2> QED BY <1>0, <1>7, <2>2 DEF Press
<1>8. CASE UNCHANGED <<dataVars, screenVars>>
  BY <1>0, <1>8 DEF screenVars
<1> QED BY <1>1, <1>2, <1>3, <1>4, <1>5, <1>6, <1>7, <1>8 DEF ScreenNext

\* The step keeps the lists of the request and what they hold.
ListsSame ==
    \A l \in PickLists :
        /\ pickList'[l].picked = pickList[l].picked
        /\ pickList[l].request = Viewed => pickList'[l].request = Viewed

\* What of the page and of its rows stays valid together.
PageOK == ListsStay /\ CallsOK /\ SavedMeansStored

LEMMA CallKeepsLists ==
    ASSUME ConstantsAssumption, ScreenAssumption, StockInv,
           NEW c \in CallRows, CallFits(c), c.op # "pick", Perform(c)
    PROVE  ListsSame
<1>1. TypeOK /\ DocumentsAgree /\ Viewed \in Requests /\ Viewed # None
  BY DEF StockInv, ScreenAssumption, ConstantsAssumption
<1>2. CASE c.op = "generate"
  <2>1. PICK l \in PickLists : GeneratePickList(Viewed, l)
    BY <1>2 DEF Perform
  <2>2. pickList[l] = NoPickList
    BY <1>1, <2>1, AbsentRows DEF GeneratePickList
  <2>3. pickList' = [pickList EXCEPT ![l] = [status |-> "open", request |-> Viewed, picked |-> NoLines]]
    BY <2>1 DEF GeneratePickList
  <2> QED BY <1>1, <2>2, <2>3 DEF ListsSame, NoPickList, TypeOK
<1>3. CASE c.op = "complete"
  <2>1. c.id \in PickLists /\ CompletePickList(c.id)
    BY <1>3 DEF Perform, CallFits
  <2> QED BY <1>1, <2>1, CompleteEffect DEF ListsSame
<1>4. CASE c.op = "ship"
  BY <1>4 DEF Perform, Ship, ListsSame
<1>5. CASE c.op = "deliver"
  BY <1>5 DEF Perform, Deliver, ListsSame
<1> QED BY <1>2, <1>3, <1>4, <1>5 DEF CallRows, CallOps

\* Recording a line sets this one quantity.
LEMMA PickSets ==
    ASSUME TypeOK, NEW l \in PickLists, NEW p \in Products, NEW q \in Nat, RecordPick(l, p, q)
    PROVE  /\ pickList'[l].picked[p] = q
           /\ \A m \in PickLists : pickList'[m].request = pickList[m].request
           /\ \A m \in PickLists, k \in Products :
                 <<m, k>> # <<l, p>> => pickList'[m].picked[k] = pickList[m].picked[k]
<1>1. pickList[l] \in [status: PickListStatus, request: Requests, picked: [Products -> Nat]]
  BY DEF RecordPick, StillOpen, TypeOK, PickListRows, NoPickList
<1> DEFINE picked == [pickList[l].picked EXCEPT ![p] = q]
           row == [pickList[l] EXCEPT !.status = "in_progress", !.picked = picked]
<1>2. picked[p] = q /\ \A k \in Products : k # p => picked[k] = pickList[l].picked[k]
  BY <1>1
<1>3. pickList' = [pickList EXCEPT ![l] = row]
  BY DEF RecordPick
<1> HIDE DEF picked
<1>4. row.picked = picked /\ row.request = pickList[l].request
  BY <1>1
<1> HIDE DEF row
<1>5. pickList'[l] = row /\ \A m \in PickLists : m # l => pickList'[m] = pickList[m]
  BY <1>3 DEF TypeOK
<1> QED BY <1>2, <1>4, <1>5

\* Documents that change without their lists leave every page as it was.
LEMMA QuietPage ==
    ASSUME ScreenRows, PageOK, ListsSame, NEW u \in Clerks,
           seen'[u] = seen[u], quantity'[u] = quantity[u], rowSaved'[u] = rowSaved[u],
           typedDuring'[u] = typedDuring[u], writer' = writer,
           \A c \in UnderWayOf(u)' :
               CallFits(c) /\ (c \in UnderWayOf(u) \/ c.op # "pick" \/ c.state = "refused")
    PROVE  /\ ListsSeen(u)' \subseteq ListsOf(Viewed)'
           /\ \A c \in UnderWayOf(u)' : CallFits(c) /\ (c.op = "pick" => SaveOK(u, c)')
           /\ \A row \in rowSaved'[u] : Stored(u, row)'
<1>1. ListsSeen(u)' = ListsSeen(u) /\ ListsSeen(u) \subseteq ListsOf(Viewed)
  BY DEF PageOK, ListsStay, ListsSeen
<1>2. ListsSeen(u)' \subseteq ListsOf(Viewed)'
  BY <1>1 DEF ListsOf, ListsSame
<1>3. ASSUME NEW row \in PickRows, Stored(u, row) PROVE Stored(u, row)'
  BY <1>3 DEF Stored, ListsSame, PickRows
<1>4. ASSUME NEW c \in UnderWayOf(u)' PROVE CallFits(c) /\ (c.op = "pick" => SaveOK(u, c)')
  <2>1. CASE c \in UnderWayOf(u)
    <3>1. CallFits(c) /\ (c.op = "pick" => SaveOK(u, c))
      BY <2>1 DEF PageOK, CallsOK
    <3>2. c.op = "pick" => c.row \in PickRows
      BY <3>1 DEF CallFits
    <3> QED BY <1>1, <1>3, <3>1, <3>2 DEF SaveOK
  <2>2. CASE c.op # "pick" \/ c.state = "refused"
    BY <1>4, <2>2 DEF SaveOK
  <2> QED BY <1>4, <2>1, <2>2
<1>5. \A row \in rowSaved[u] : row \in PickRows /\ Stored(u, row)
  BY DEF PageOK, SavedMeansStored, Stored, ScreenRows
<1> QED BY <1>2, <1>3, <1>4, <1>5

\* The three parts, clerk by clerk.
LEMMA PageParts ==
    ASSUME \A u \in Clerks :
              /\ ListsSeen(u)' \subseteq ListsOf(Viewed)'
              /\ \A c \in UnderWayOf(u)' : CallFits(c) /\ (c.op = "pick" => SaveOK(u, c)')
              /\ \A row \in rowSaved'[u] : Stored(u, row)'
    PROVE  PageOK'
BY DEF PageOK, ListsStay, CallsOK, SavedMeansStored, Stored

\* The other clerks' pages when only u acts and the lists stay.
LEMMA OthersQuiet ==
    ASSUME ScreenRows, PageOK, ListsSame, writer' = writer, NEW u \in Clerks, NEW v \in Clerks,
           u # v, seen'[v] = seen[v], quantity'[v] = quantity[v], rowSaved'[v] = rowSaved[v],
           typedDuring'[v] = typedDuring[v], calls'[v] = calls[v]
    PROVE  /\ ListsSeen(v)' \subseteq ListsOf(Viewed)'
           /\ \A c \in UnderWayOf(v)' : CallFits(c) /\ (c.op = "pick" => SaveOK(v, c)')
           /\ \A row \in rowSaved'[v] : Stored(v, row)'
<1>1. UnderWayOf(v)' = UnderWayOf(v)
  BY DEF UnderWayOf, Elements
<1>2. \A c \in UnderWayOf(v) : CallFits(c)
  BY DEF PageOK, CallsOK
<1> QED BY <1>1, <1>2, QuietPage

LEMMA PressPage ==
    ASSUME ScreenRows, PageOK, NEW u \in Clerks, NEW c \in Offers(u), Press(u, c)
    PROVE  PageOK'
<1>0. c \in CallRows /\ CallFits(c) /\ c.op # "pick"
  BY OffersAreCalls
<1>1. calls' = [calls EXCEPT ![u] = Append(calls[u], c)]
  BY DEF Press, Start
<1>2. ListsSame
  BY DEF Press, dataVars, docVars, ListsSame
<1>3. UnderWayOf(u)' \subseteq UnderWayOf(u) \cup {c}
  BY <1>0, <1>1, AppendElements DEF UnderWayOf, ScreenRows
<1>4. \A d \in UnderWayOf(u)' : CallFits(d) /\ (d \in UnderWayOf(u) \/ d.op # "pick" \/ d.state = "refused")
  BY <1>0, <1>3 DEF PageOK, CallsOK
<1>5. \A v \in Clerks : v # u => calls'[v] = calls[v]
  BY <1>1 DEF ScreenRows
<1>6. /\ seen' = seen /\ quantity' = quantity /\ rowSaved' = rowSaved /\ writer' = writer
      /\ typedDuring' = typedDuring
  BY DEF Press
<1>7. ASSUME NEW v \in Clerks
      PROVE  /\ ListsSeen(v)' \subseteq ListsOf(Viewed)'
             /\ \A d \in UnderWayOf(v)' : CallFits(d) /\ (d.op = "pick" => SaveOK(v, d)')
             /\ \A row \in rowSaved'[v] : Stored(v, row)'
  <2>1. CASE v = u
    BY <1>2, <1>4, <1>6, <2>1, QuietPage
  <2>2. CASE v # u
    BY <1>2, <1>5, <1>6, <2>2, OthersQuiet
  <2> QED BY <2>1, <2>2
<1> QED BY <1>7, PageParts

\* The row that is edited is no longer marked, and its save no longer vouched for.
LEMMA TypePage ==
    ASSUME ScreenRows, PageOK, NEW u \in Clerks, NEW row \in PickRows, NEW q \in Nat,
           TypeQuantity(u, row, q)
    PROVE  PageOK'
<1>1. ListsSame /\ writer' = writer /\ seen' = seen /\ calls' = calls
  BY DEF TypeQuantity, dataVars, docVars, ListsSame
<1>2. /\ quantity'[u][row] = q /\ \A x \in PickRows : x # row => quantity'[u][x] = quantity[u][x]
      /\ rowSaved'[u] = rowSaved[u] \ {row}
      /\ typedDuring[u] \subseteq typedDuring'[u]
      /\ RowPending(u, row) => row \in typedDuring'[u]
  BY DEF TypeQuantity, Edited, ScreenRows
<1>3. \A v \in Clerks : v # u => /\ quantity'[v] = quantity[v] /\ rowSaved'[v] = rowSaved[v]
                                 /\ typedDuring'[v] = typedDuring[v]
  BY DEF TypeQuantity, Edited, ScreenRows
<1>4. ListsSeen(u)' = ListsSeen(u) /\ ListsSeen(u) \subseteq ListsOf(Viewed)'
  BY <1>1 DEF PageOK, ListsStay, ListsSeen, ListsOf, ListsSame
<1>5. ASSUME NEW x \in PickRows, x # row, Stored(u, x) PROVE Stored(u, x)'
  BY <1>1, <1>2, <1>5 DEF Stored, ListsSame, PickRows
<1>6. ASSUME NEW c \in UnderWayOf(u)' PROVE CallFits(c) /\ (c.op = "pick" => SaveOK(u, c)')
  <2>1. c \in UnderWayOf(u)
    BY <1>1 DEF UnderWayOf
  <2>2. CallFits(c) /\ (c.op = "pick" => SaveOK(u, c) /\ c.row \in PickRows)
    BY <2>1 DEF PageOK, CallsOK, CallFits
  <2>3. CASE c.row = row
    <3>1. RowPending(u, row)
      BY <2>1, <2>3 DEF RowPending, UnderWayOf, Elements
    <3>2. row \in typedDuring'[u]
      BY <1>2, <3>1
    <3> QED BY <1>4, <2>2, <2>3, <3>2 DEF SaveOK, Stored
  <2>4. CASE c.row # row
    BY <1>2, <1>4, <1>5, <2>2, <2>4 DEF SaveOK
  <2> QED BY <2>3, <2>4
<1>7. \A x \in rowSaved'[u] : Stored(u, x)'
  BY <1>2, <1>5 DEF PageOK, SavedMeansStored, Stored, ScreenRows
<1>8. ASSUME NEW v \in Clerks
      PROVE  /\ ListsSeen(v)' \subseteq ListsOf(Viewed)'
             /\ \A d \in UnderWayOf(v)' : CallFits(d) /\ (d.op = "pick" => SaveOK(v, d)')
             /\ \A x \in rowSaved'[v] : Stored(v, x)'
  <2>1. CASE v = u
    BY <1>4, <1>6, <1>7, <2>1
  <2>2. CASE v # u
    BY <1>1, <1>3, <2>2, OthersQuiet
  <2> QED BY <2>1, <2>2
<1> QED BY <1>8, PageParts

\* Nothing is under way for the row that is saved, so no older call relies on
\* what was typed during it.
LEMMA SavePage ==
    ASSUME ScreenRows, PageOK, NEW u \in Clerks, NEW row \in PickRows, SaveRow(u, row)
    PROVE  PageOK'
<1> DEFINE c == PickCall(row, quantity[u][row])
<1>1. /\ c \in CallRows /\ CallFits(c) /\ c.op = "pick" /\ c.row = row /\ c.state = "sent"
      /\ c.qty = quantity[u][row]
  BY DEF PickCall, Call, CallRows, CallOps, CallStates, CallFits, ScreenRows
<1>2. calls' = [calls EXCEPT ![u] = Append(calls[u], c)]
  BY DEF SaveRow, Start
<1> HIDE DEF c
<1>3. UnderWayOf(u)' \subseteq UnderWayOf(u) \cup {c}
  BY <1>1, <1>2, AppendElements DEF UnderWayOf, ScreenRows
<1>4. \A v \in Clerks : v # u => calls'[v] = calls[v]
  BY <1>2 DEF ScreenRows
<1>5. ListsSame /\ seen' = seen /\ quantity' = quantity /\ writer' = writer
  BY DEF SaveRow, dataVars, docVars, ListsSame
<1>6. /\ rowSaved'[u] = rowSaved[u] \ {row} /\ typedDuring'[u] = typedDuring[u] \ {row}
      /\ \A v \in Clerks : v # u => /\ rowSaved'[v] = rowSaved[v]
                                    /\ typedDuring'[v] = typedDuring[v]
  BY DEF SaveRow, ScreenRows
<1>7. ListsSeen(u)' = ListsSeen(u) /\ ListsSeen(u) \subseteq ListsOf(Viewed)'
  BY <1>5 DEF PageOK, ListsStay, ListsSeen, ListsOf, ListsSame
<1>8. ASSUME NEW x \in PickRows, x # row, Stored(u, x) PROVE Stored(u, x)'
  BY <1>5, <1>6, <1>8 DEF Stored, ListsSame, PickRows
<1>9. ASSUME NEW d \in UnderWayOf(u)' PROVE CallFits(d) /\ (d.op = "pick" => SaveOK(u, d)')
  <2>1. CASE d = c
    <3>1. row[1] \in ListsSeen(u)
      BY DEF SaveRow, Editable
    <3> QED BY <1>1, <1>5, <1>7, <2>1, <3>1 DEF SaveOK
  <2>2. CASE d \in UnderWayOf(u)
    <3>1. CallFits(d) /\ (d.op = "pick" => SaveOK(u, d) /\ d.row \in PickRows)
      BY <2>2 DEF PageOK, CallsOK, CallFits
    <3>2. d.row # row
      BY <2>2 DEF SaveRow, RowPending, UnderWayOf, Elements
    <3> QED BY <1>5, <1>6, <1>7, <1>8, <3>1, <3>2 DEF SaveOK
  <2> QED BY <1>3, <1>9, <2>1, <2>2
<1>10. \A x \in rowSaved'[u] : Stored(u, x)'
  BY <1>6, <1>8 DEF PageOK, SavedMeansStored, Stored, ScreenRows
<1>11. ASSUME NEW v \in Clerks
       PROVE  /\ ListsSeen(v)' \subseteq ListsOf(Viewed)'
              /\ \A d \in UnderWayOf(v)' : CallFits(d) /\ (d.op = "pick" => SaveOK(v, d)')
              /\ \A x \in rowSaved'[v] : Stored(v, x)'
  <2>1. CASE v = u
    BY <1>7, <1>9, <1>10, <2>1
  <2>2. CASE v # u
    BY <1>4, <1>5, <1>6, <2>2, OthersQuiet
  <2> QED BY <2>1, <2>2
<1> QED BY <1>11, PageParts

\* A page that is loaded anew has no calls and no marks.
LEMMA ReloadPage ==
    ASSUME ScreenAssumption, ScreenRows, PageOK, NEW u \in Clerks, Reload(u)
    PROVE  PageOK'
<1>1. ListsSame /\ writer' = writer /\ calls' = calls /\ pickList' = pickList
  BY DEF Reload, dataVars, docVars, ListsSame
<1>2. /\ seen'[u] = Docs /\ rowSaved'[u] = {}
      /\ \A v \in Clerks : v # u => /\ seen'[v] = seen[v] /\ quantity'[v] = quantity[v]
                                    /\ rowSaved'[v] = rowSaved[v]
                                    /\ typedDuring'[v] = typedDuring[v]
  BY DEF Reload, ScreenRows
<1>3. ListsSeen(u)' \subseteq ListsOf(Viewed)'
  BY <1>1, <1>2 DEF ListsSeen, ListsOf, Docs
<1>4. UnderWayOf(u)' = {}
  BY <1>1 DEF Reload, UnderWayOf, Elements
<1>5. ASSUME NEW v \in Clerks
      PROVE  /\ ListsSeen(v)' \subseteq ListsOf(Viewed)'
             /\ \A d \in UnderWayOf(v)' : CallFits(d) /\ (d.op = "pick" => SaveOK(v, d)')
             /\ \A x \in rowSaved'[v] : Stored(v, x)'
  <2>1. CASE v = u
    BY <1>2, <1>3, <1>4, <2>1
  <2>2. CASE v # u
    BY <1>1, <1>2, <2>2, OthersQuiet
  <2> QED BY <2>1, <2>2
<1> QED BY <1>5, PageParts

\* An answer renders the documents again.  The rows of the saves that are left
\* keep their quantities, as their lists were on the page before.
LEMMA AnswerPage ==
    ASSUME ScreenAssumption, ScreenRows, PageOK, NEW u \in Clerks, AnswerTo(u)
    PROVE  PageOK'
<1> DEFINE c == Head(calls[u])
<1>1. ListsSame /\ writer' = writer /\ typedDuring' = typedDuring /\ pickList' = pickList
  BY DEF AnswerTo, dataVars, docVars, ListsSame
<1>2. UnderWayOf(u)' \subseteq UnderWayOf(u) /\ c \in UnderWayOf(u)
  BY TailElements DEF AnswerTo, UnderWayOf, ScreenRows
<1>3. \A v \in Clerks : v # u => calls'[v] = calls[v]
  BY DEF AnswerTo, ScreenRows
<1>4. \A d \in UnderWayOf(u) : CallFits(d) /\ (d.op = "pick" => SaveOK(u, d) /\ d.row \in PickRows)
  BY DEF PageOK, CallsOK, CallFits
<1>5. CASE UNCHANGED <<seen, quantity, rowSaved>>
  <2>1. ASSUME NEW v \in Clerks
        PROVE  /\ ListsSeen(v)' \subseteq ListsOf(Viewed)'
               /\ \A d \in UnderWayOf(v)' : CallFits(d) /\ (d.op = "pick" => SaveOK(v, d)')
               /\ \A x \in rowSaved'[v] : Stored(v, x)'
    <3>1. CASE v = u
      BY <1>1, <1>2, <1>4, <1>5, <3>1, QuietPage
    <3>2. CASE v # u
      BY <1>1, <1>3, <1>5, <3>2, OthersQuiet
    <3> QED BY <3>1, <3>2
  <2> QED BY <2>1, PageParts
<1>6. CASE /\ c.state = "done" /\ Rendered(u)
           /\ rowSaved' = IF c.op = "pick" THEN [rowSaved EXCEPT ![u] = @ \cup {c.row}] ELSE rowSaved
  <2>1. /\ seen'[u] = Docs
        /\ \A row \in PickRows : quantity'[u][row] = IF row[1] \in ListsSeen(u) THEN quantity[u][row]
                                                     ELSE pickList[row[1]].picked[row[2]]
        /\ \A x \in rowSaved'[u] : x \in rowSaved[u] \/ (c.op = "pick" /\ x = c.row)
    BY <1>6 DEF Rendered, ScreenRows
  <2>2. \A v \in Clerks : v # u =>
            seen'[v] = seen[v] /\ quantity'[v] = quantity[v] /\ rowSaved'[v] = rowSaved[v]
    BY <1>6 DEF Rendered, ScreenRows
  <2>3. ListsSeen(u)' = ListsOf(Viewed) /\ ListsOf(Viewed)' = ListsOf(Viewed)
    BY <1>1, <2>1 DEF ListsSeen, ListsOf, Docs
  <2>4. ListsSeen(u) \subseteq ListsSeen(u)'
    BY <2>3 DEF PageOK, ListsStay
  <2>5. ASSUME NEW x \in PickRows, Stored(u, x) PROVE Stored(u, x)'
    BY <1>1, <2>1, <2>5 DEF Stored
  <2>6. ASSUME NEW d \in UnderWayOf(u)' PROVE CallFits(d) /\ (d.op = "pick" => SaveOK(u, d)')
    <3>1. CallFits(d) /\ (d.op = "pick" => SaveOK(u, d) /\ d.row \in PickRows)
      BY <1>2, <1>4
    <3> QED BY <1>1, <2>1, <2>4, <2>5, <3>1 DEF SaveOK
  <2>7. ASSUME NEW x \in rowSaved'[u] PROVE Stored(u, x)'
    <3>1. CASE x \in rowSaved[u]
      BY <2>5, <3>1 DEF PageOK, SavedMeansStored, Stored, ScreenRows
    <3>2. CASE c.op = "pick" /\ x = c.row
      BY <1>2, <1>4, <1>6, <2>5, <3>2 DEF SaveOK
    <3> QED BY <2>1, <3>1, <3>2
  <2>8. ASSUME NEW v \in Clerks
        PROVE  /\ ListsSeen(v)' \subseteq ListsOf(Viewed)'
               /\ \A d \in UnderWayOf(v)' : CallFits(d) /\ (d.op = "pick" => SaveOK(v, d)')
               /\ \A x \in rowSaved'[v] : Stored(v, x)'
    <3>1. CASE v = u
      BY <2>3, <2>6, <2>7, <3>1
    <3>2. CASE v # u
      BY <1>1, <1>3, <2>2, <3>2, OthersQuiet
    <3> QED BY <3>1, <3>2
  <2> QED BY <2>8, PageParts
<1> QED BY <1>5, <1>6 DEF AnswerTo

\* Apart from a save, a call that runs leaves the lines as they are.
LEMMA OtherCallPage ==
    ASSUME ConstantsAssumption, ScreenAssumption, StockInv, ScreenRows, PageOK,
           NEW u \in Clerks, ActionRunsFor(u),
           Head(calls[u]).op # "pick" \/ ~Accepts(Head(calls[u]))
    PROVE  PageOK'
<1> DEFINE c == Head(calls[u])
           x == IF Accepts(c) THEN "done" ELSE "refused"
           ran == [c EXCEPT !.state = x]
<1>1. c \in CallRows /\ CallFits(c) /\ calls[u] \in Seq(CallRows) /\ calls[u] # <<>>
  BY HeadIsCall DEF PageOK, ActionRunsFor
<1>2. ListsSame
  <2>1. CASE Accepts(c)
    <3>1. Perform(c) /\ c.op # "pick"
      BY <2>1 DEF ActionRunsFor
    <3> HIDE DEF c
    <3> QED BY <1>1, <3>1, CallKeepsLists
  <2>2. CASE ~Accepts(c)
    BY <2>2 DEF ActionRunsFor, dataVars, docVars, ListsSame
  <2> QED BY <2>1, <2>2
<1>3. /\ seen' = seen /\ quantity' = quantity /\ rowSaved' = rowSaved
      /\ typedDuring' = typedDuring /\ writer' = writer
  BY DEF ActionRunsFor
<1>4. calls' = [calls EXCEPT ![u] = [calls[u] EXCEPT ![1].state = x]]
  BY DEF ActionRunsFor
<1>5. x \in CallStates
  BY DEF CallStates
<1>6. ran.op = c.op /\ ran.state = x /\ CallFits(ran)
  BY <1>1 DEF CallRows, CallFits
<1>7. ran.op # "pick" \/ ran.state = "refused"
  BY <1>6
<1> HIDE DEF x, ran
<1>8. UnderWayOf(u)' \subseteq UnderWayOf(u) \cup {ran}
  <2>1. calls'[u] = [calls[u] EXCEPT ![1].state = x]
    BY <1>4 DEF ScreenRows
  <2>2. Elements([calls[u] EXCEPT ![1].state = x]) \subseteq Elements(calls[u]) \cup {[c EXCEPT !.state = x]}
    BY <1>1, <1>5, HeadElements
  <2> QED BY <2>1, <2>2 DEF UnderWayOf, ran
<1>9. \A d \in UnderWayOf(u)' : CallFits(d) /\ (d \in UnderWayOf(u) \/ d.op # "pick" \/ d.state = "refused")
  BY <1>6, <1>7, <1>8 DEF PageOK, CallsOK
<1>10. \A v \in Clerks : v # u => calls'[v] = calls[v]
  BY <1>4 DEF ScreenRows
<1>11. ASSUME NEW v \in Clerks
       PROVE  /\ ListsSeen(v)' \subseteq ListsOf(Viewed)'
              /\ \A d \in UnderWayOf(v)' : CallFits(d) /\ (d.op = "pick" => SaveOK(v, d)')
              /\ \A row \in rowSaved'[v] : Stored(v, row)'
  <2>1. CASE v = u
    BY <1>2, <1>3, <1>9, <2>1, QuietPage
  <2>2. CASE v # u
    BY <1>2, <1>3, <1>10, <2>2, OthersQuiet
  <2> QED BY <2>1, <2>2
<1> QED BY <1>11, PageParts

\* A save that runs stores its quantity in the clerk's name: her row is stored,
\* and whoever recorded the line before is no longer its writer.
LEMMA PickCallPage ==
    ASSUME ConstantsAssumption, ScreenAssumption, StockInv, ScreenRows, PageOK,
           NEW u \in Clerks, ActionRunsFor(u),
           Head(calls[u]).op = "pick", Accepts(Head(calls[u]))
    PROVE  PageOK'
<1> DEFINE c == Head(calls[u])
           row == c.row
           ran == [c EXCEPT !.state = "done"]
<1>1. c \in CallRows /\ CallFits(c) /\ calls[u] \in Seq(CallRows) /\ calls[u] # <<>>
      /\ c \in UnderWayOf(u) /\ c.op = "pick" /\ c.state = "sent"
  BY HeadIsCall DEF PageOK, ActionRunsFor
<1>2. row \in PickRows /\ c.qty \in Nat /\ RecordPick(row[1], row[2], c.qty)
  <2>1. Perform(c)
    BY DEF ActionRunsFor
  <2> HIDE DEF c
  <2> QED BY <1>1, <2>1 DEF Perform, CallFits, CallRows
<1>3. writer' = [writer EXCEPT ![row] = u]
  BY DEF ActionRunsFor
<1>4. calls' = [calls EXCEPT ![u] = [calls[u] EXCEPT ![1].state = "done"]]
  BY DEF ActionRunsFor
<1>5. seen' = seen /\ quantity' = quantity /\ rowSaved' = rowSaved /\ typedDuring' = typedDuring
  BY DEF ActionRunsFor
<1>6. SaveOK(u, c)
  BY <1>1 DEF PageOK, CallsOK
<1>7. ran.op = "pick" /\ ran.state = "done" /\ ran.row = row /\ CallFits(ran)
  BY <1>1, <1>2 DEF CallRows, CallFits
<1>8. UnderWayOf(u)' \subseteq UnderWayOf(u) \cup {ran}
  <2>1. calls'[u] = [calls[u] EXCEPT ![1].state = "done"]
    BY <1>4 DEF ScreenRows
  <2>2. Elements([calls[u] EXCEPT ![1].state = "done"]) \subseteq Elements(calls[u]) \cup {ran}
    BY <1>1, HeadElements DEF CallStates
  <2> QED BY <2>1, <2>2 DEF UnderWayOf
<1>9. \A v \in Clerks : v # u => UnderWayOf(v)' = UnderWayOf(v)
  BY <1>4 DEF ScreenRows, UnderWayOf, Elements
<1> HIDE DEF c, ran, row
<1>10. /\ pickList'[row[1]].picked[row[2]] = c.qty
       /\ \A m \in PickLists : pickList'[m].request = pickList[m].request
       /\ \A m \in PickLists, k \in Products :
             <<m, k>> # <<row[1], row[2]>> => pickList'[m].picked[k] = pickList[m].picked[k]
  BY <1>2, PickSets DEF PickRows, StockInv
<1>11. ASSUME NEW v \in Clerks, NEW y \in PickRows, Stored(v, y) \/ (v = u /\ y = row)
       PROVE  Stored(v, y)'
  <2>1. CASE y = row /\ v = u
    BY <1>1, <1>5, <1>6, <1>10, <2>1 DEF SaveOK, Stored, row
  <2>2. CASE y = row /\ v # u
    BY <1>2, <1>3, <2>2 DEF Stored, ScreenRows
  <2>3. CASE y # row
    <3>1. <<y[1], y[2]>> # <<row[1], row[2]>> /\ y[1] \in PickLists /\ y[2] \in Products
      BY <1>2, <2>3 DEF PickRows
    <3>2. pickList'[y[1]].picked[y[2]] = pickList[y[1]].picked[y[2]]
      BY <1>10, <3>1
    <3>3. writer'[y] = writer[y]
      BY <1>3, <2>3 DEF ScreenRows
    <3> QED BY <1>5, <1>11, <2>3, <3>2, <3>3 DEF Stored
  <2> QED BY <2>1, <2>2, <2>3
<1>12. ASSUME NEW v \in Clerks, NEW d \in UnderWayOf(v), d.op = "pick" PROVE SaveOK(v, d)'
  <2>1. SaveOK(v, d) /\ d.row \in PickRows
    BY <1>12 DEF PageOK, CallsOK, CallFits
  <2>2. ListsSeen(v)' = ListsSeen(v)
    BY <1>5 DEF ListsSeen
  <2> QED BY <1>5, <1>11, <2>1, <2>2 DEF SaveOK
<1>13. ASSUME NEW d, d = ran PROVE CallFits(d) /\ SaveOK(u, d)'
  <2>1. d.state = "done" /\ d.row \in PickRows /\ d.row = row /\ CallFits(d)
    BY <1>2, <1>7, <1>13
  <2> QED BY <1>11, <2>1 DEF SaveOK
<1>14. ASSUME NEW v \in Clerks
       PROVE  /\ ListsSeen(v)' \subseteq ListsOf(Viewed)'
              /\ \A d \in UnderWayOf(v)' : CallFits(d) /\ (d.op = "pick" => SaveOK(v, d)')
              /\ \A y \in rowSaved'[v] : Stored(v, y)'
  <2>1. ListsSeen(v)' \subseteq ListsOf(Viewed)'
    BY <1>5, <1>10 DEF PageOK, ListsStay, ListsSeen, ListsOf
  <2>2. \A d \in UnderWayOf(v) : CallFits(d)
    BY DEF PageOK, CallsOK
  <2>3. \A d \in UnderWayOf(v)' : d \in UnderWayOf(v) \/ (v = u /\ d = ran)
    BY <1>8, <1>9
  <2>4. \A y \in rowSaved'[v] : y \in PickRows /\ Stored(v, y)
    BY <1>5 DEF PageOK, SavedMeansStored, Stored, ScreenRows
  <2> QED BY <1>7, <1>11, <1>12, <1>13, <2>1, <2>2, <2>3, <2>4
<1> QED BY <1>14, PageParts

\* A step that leaves every page and every list alone.
LEMMA StillPage ==
    ASSUME PageOK, UNCHANGED screenVars, UNCHANGED pickList
    PROVE  PageOK'
BY DEF PageOK, ListsStay, CallsOK, SavedMeansStored, SaveOK, Stored, ListsSeen, ListsOf,
       UnderWayOf, Elements, screenVars

LEMMA PageStep ==
    ASSUME ConstantsAssumption, ScreenAssumption, ScreenInv,
           [ScreenNext]_<<dataVars, screenVars>>
    PROVE  PageOK'
<1>0. StockInv /\ ScreenRows /\ PageOK
  BY DEF ScreenInv, PageOK
<1>1. CASE Background
  <2>1. UNCHANGED pickList
    BY <1>1 DEF Background, ManualTransaction, Creation, CreateSalesOrder, CreateInternalTransfer,
                AddRequest, CreatePurchaseOrder, UpdateWarehouse
  <2> QED BY <1>0, <1>1, <2>1, StillPage DEF Background
<1>2. ASSUME NEW u \in Clerks, ActionRunsFor(u) PROVE PageOK'
  BY <1>0, <1>2, OtherCallPage, PickCallPage
<1>3. ASSUME NEW u \in Clerks, Reload(u) PROVE PageOK'
  BY <1>0, <1>3, ReloadPage
<1>4. ASSUME NEW u \in Clerks, AnswerTo(u) PROVE PageOK'
  BY <1>0, <1>4, AnswerPage
<1>5. ASSUME NEW u \in Clerks, NEW row \in PickRows, SaveRow(u, row) PROVE PageOK'
  BY <1>0, <1>5, SavePage
<1>6. ASSUME NEW u \in Clerks, NEW row \in PickRows, NEW q \in Typed, TypeQuantity(u, row, q)
      PROVE  PageOK'
  <2>1. q \in Nat
    BY DEF ScreenAssumption
  <2> QED BY <1>0, <1>6, <2>1, TypePage
<1>7. ASSUME NEW u \in Clerks, NEW c \in Offers(u), Press(u, c) PROVE PageOK'
  BY <1>0, <1>7, PressPage
<1>8. CASE UNCHANGED <<dataVars, screenVars>>
  BY <1>0, <1>8, StillPage DEF dataVars, docVars
<1> QED BY <1>1, <1>2, <1>3, <1>4, <1>5, <1>6, <1>7, <1>8 DEF ScreenNext

LEMMA ScreenInvInit == ConstantsAssumption /\ ScreenAssumption /\ ScreenInit => ScreenInv
<1> SUFFICES ASSUME ConstantsAssumption, ScreenAssumption, ScreenInit PROVE ScreenInv
  OBVIOUS
<1>1. StockInv
  BY StockInit DEF ScreenInit
<1>2. LinesInBounds
  BY DEF ScreenInit, DataInit, LinesInBounds, NoRequest, NoLines, ConstantsAssumption
<1>3. ScreenRows
  <2>1. Docs \in SeenRows
    BY <1>1, DocsAreRows DEF StockInv
  <2>2. calls \in [Clerks -> Seq(CallRows)]
    BY DEF ScreenInit
  <2> QED BY <2>1, <2>2 DEF ScreenInit, ScreenRows
<1>4. \A u \in Clerks : UnderWayOf(u) = {} /\ rowSaved[u] = {} /\ seen[u] = Docs
  BY DEF ScreenInit, UnderWayOf, Elements
<1>5. ListsStay
  BY <1>4 DEF ListsStay, ListsSeen, ListsOf, Docs
<1> QED BY <1>1, <1>2, <1>3, <1>4, <1>5 DEF ScreenInv, CallsOK, SavedMeansStored

LEMMA ScreenInvStep ==
    ScreenInv /\ [ScreenNext]_<<dataVars, screenVars>> => ScreenInv'
<1> SUFFICES ASSUME ScreenInv, [ScreenNext]_<<dataVars, screenVars>> PROVE ScreenInv'
  OBVIOUS
<1>1. [Next]_dataVars
  BY ScreenIsWorkflow, ConstantsAssumption, ScreenAssumption
<1>2. StockInv'
  BY <1>1, ConstantsAssumption, TypeStep, DocsStep, NonNegativeStep, LedgerStep DEF ScreenInv, StockInv
<1>3. LinesInBounds'
  BY <1>1, ConstantsAssumption, BoundedLines DEF ScreenInv, StockInv
<1>4. ScreenRows' /\ PageOK'
  BY RowsStep, PageStep, ConstantsAssumption, ScreenAssumption
<1> QED BY <1>2, <1>3, <1>4 DEF ScreenInv, PageOK

-----------------------------------------------------------------------------
(* The theorems.                                                           *)

\* The pages and the documents agree: what was rendered, typed and is under way
\* fits the lists of the request, which never go away.
THEOREM ScreenCorrect == ScreenSpec => []ScreenInv
<1>1. ScreenInit => ScreenInv
  BY ScreenInvInit, ConstantsAssumption, ScreenAssumption
<1> QED BY <1>1, ScreenInvStep, PTL DEF ScreenSpec

\* PickRow's "Saved" is only shown beside a quantity that record_pick stored,
\* unless the clerk typed on or another clerk recorded the line since.
THEOREM SavedMeansStoredCorrect == ScreenSpec => []SavedMeansStored
<1>1. ScreenInv => SavedMeansStored
  BY DEF ScreenInv
<1> QED BY <1>1, ScreenCorrect, PTL

\* Of the documents, what an up-to-date page offers and the backend accepts
\* differ by the stock and the empty pick list alone.
LEMMA OffersFollow ==
    ASSUME ConstantsAssumption, ScreenAssumption, StockInv
    PROVE  OffersMatchTheBackend
<1> SUFFICES ASSUME NEW u \in Clerks, seen[u] = Docs
             PROVE  /\ \A c \in Steps : Accepts(c) => c \in Offers(u)
                    /\ \A c \in Offers(u) :
                          \/ Accepts(c)
                          \/ c.op = "ship" /\ PickedQuantities(Viewed) = NoLines
                          \/ c.op = "ship" /\ ~InStock(Viewed, onHand)
                          \/ c.op = "complete" /\ ~InStock(Viewed, Unreserved)
  BY DEF OffersMatchTheBackend
<1> DEFINE status == request[Viewed].status
           SentOut == {s \in Shipments : shipment[s].request = Viewed}
<1>1. TypeOK /\ DocumentsAgree /\ Viewed \in Requests /\ Viewed # None
  BY DEF StockInv, ScreenAssumption, ConstantsAssumption
<1>2. /\ seen[u].request.status = status /\ seen[u].pickList = pickList
      /\ ListsSeen(u) = ListsOf(Viewed) /\ ShipmentsSeen(u) = SentOut
  BY DEF Docs, ListsSeen, ListsOf, ShipmentsSeen
<1>3. \A l \in ListsOf(Viewed) :
          /\ l \in PickLists /\ pickList[l].status # "absent"
          /\ status \notin {"absent", "requested"}
          /\ pickList[l].status = "complete" <=> status # "picking"
  BY <1>1, ReferenceRows DEF ListsOf, DocumentsAgree, ListFollowsRequest
<1>4. status \notin {"absent", "requested"} => ListsOf(Viewed) # {}
  BY <1>1 DEF ListsOf, DocumentsAgree, ListFollowsRequest
<1>5. \A s \in SentOut : shipment[s].status = status /\ status \in {"shipped", "delivered"}
  BY <1>1, ReferenceRows DEF DocumentsAgree, ShipmentFollowsRequest
<1>6. status \in RequestStatus \cup {"absent"}
  BY <1>1 DEF TypeOK, RequestRows, NoRequest
<1> HIDE DEF SentOut
<1>7. /\ GenerateCall.op = "generate" /\ ShipCall.op = "ship"
      /\ \A l : CompleteCall(l).op = "complete" /\ CompleteCall(l).id = l
      /\ \A s : DeliverCall(s).op = "deliver" /\ DeliverCall(s).id = s
  BY DEF GenerateCall, ShipCall, CompleteCall, DeliverCall, Call
<1>8. /\ Accepts(GenerateCall) <=> status = "requested"
      /\ Accepts(ShipCall) <=> ReadyToShip(Viewed) /\ InStock(Viewed, onHand)
      /\ \A l : Accepts(CompleteCall(l)) <=> StillOpen(l) /\ InStock(Viewed, Unreserved)
      /\ \A s : Accepts(DeliverCall(s)) <=> UnderWay(s)
  <2>1. ASSUME NEW c
        PROVE  /\ c.op = "generate" => (Accepts(c) <=> NeedsPickList(Viewed))
               /\ c.op = "ship" => (Accepts(c) <=> ReadyToShip(Viewed) /\ InStock(Viewed, onHand))
               /\ c.op = "complete" =>
                     (Accepts(c) <=> StillOpen(c.id) /\ InStock(Viewed, Unreserved))
               /\ c.op = "deliver" => (Accepts(c) <=> UnderWay(c.id))
    <3>1. c.op = "generate" => (Accepts(c) <=> NeedsPickList(Viewed))
      BY DEF Accepts
    <3>2. c.op = "ship" => (Accepts(c) <=> ReadyToShip(Viewed) /\ InStock(Viewed, onHand))
      BY DEF Accepts
    <3>3. c.op = "complete" => (Accepts(c) <=> StillOpen(c.id) /\ InStock(Viewed, Unreserved))
      BY DEF Accepts
    <3>4. c.op = "deliver" => (Accepts(c) <=> UnderWay(c.id))
      BY DEF Accepts
    <3> QED BY <3>1, <3>2, <3>3, <3>4
  <2>2. NeedsPickList(Viewed) <=> status = "requested"
    BY DEF NeedsPickList
  <2> QED BY <1>7, <2>1, <2>2
<1>9. BeforePacking(u) <=> status \in {"requested", "picking"}
  BY <1>2 DEF BeforePacking
<1>10. CanCreatePickList(u) <=> status = "requested"
  BY <1>2, <1>3, <1>4, <1>9 DEF CanCreatePickList
<1>11. ASSUME NEW l \in ListsOf(Viewed) PROVE Editable(u, l) <=> StillOpen(l)
  BY <1>2, <1>3, <1>9 DEF Editable, StillOpen
<1>12. \A l \in PickLists : Editable(u, l) => l \in ListsOf(Viewed)
  BY <1>2 DEF Editable
<1>13. ASSUME NEW c \in Steps, Accepts(c) PROVE c \in Offers(u)
  <2>1. CASE c = GenerateCall
    BY <1>8, <1>10, <1>13, <2>1 DEF Offers
  <2>2. CASE c = ShipCall
    <3>1. status = "packed"
      BY <1>8, <1>13, <2>2 DEF ReadyToShip
    <3>2. SentOut = {}
      BY <1>5, <3>1
    <3> QED BY <1>2, <2>2, <3>1, <3>2 DEF Offers
  <2>3. ASSUME NEW l \in ListsOf(Viewed), c = CompleteCall(l) PROVE c \in Offers(u)
    BY <1>3, <1>8, <1>11, <1>13, <2>3 DEF Offers
  <2>4. ASSUME NEW s \in SentOut, c = DeliverCall(s) PROVE c \in Offers(u)
    BY <1>2, <1>5, <1>8, <1>13, <2>4 DEF Offers, UnderWay
  <2> QED BY <2>1, <2>2, <2>3, <2>4 DEF Steps, SentOut
<1>14. ASSUME NEW c \in Offers(u)
       PROVE  \/ Accepts(c)
              \/ c.op = "ship" /\ PickedQuantities(Viewed) = NoLines
              \/ c.op = "ship" /\ ~InStock(Viewed, onHand)
              \/ c.op = "complete" /\ ~InStock(Viewed, Unreserved)
  <2>1. CASE CanCreatePickList(u) /\ c = GenerateCall
    BY <1>8, <1>10, <2>1
  <2>2. CASE status = "packed" /\ c = ShipCall
    BY <1>7, <1>8, <2>2 DEF ReadyToShip
  <2>3. ASSUME NEW l \in PickLists, Editable(u, l), c = CompleteCall(l)
        PROVE  Accepts(c) \/ (c.op = "complete" /\ ~InStock(Viewed, Unreserved))
    BY <1>7, <1>8, <1>11, <1>12, <2>3
  <2>4. ASSUME NEW s \in SentOut, status = "shipped", c = DeliverCall(s) PROVE Accepts(c)
    BY <1>5, <1>8, <2>4 DEF UnderWay
  <2> QED BY <1>2, <2>1, <2>2, <2>3, <2>4 DEF Offers
<1> QED BY <1>13, <1>14

\* OutboundWorkflow's buttons follow the documents: a page that is up to date
\* offers every step the handlers accept, and one they refuse only for want of
\* stock or because nothing was picked.
THEOREM OffersCorrect == ScreenSpec => []OffersMatchTheBackend
<1>1. ScreenInv => OffersMatchTheBackend
  BY OffersFollow, ConstantsAssumption, ScreenAssumption DEF ScreenInv
<1> QED BY <1>1, ScreenCorrect, PTL

=============================================================================
