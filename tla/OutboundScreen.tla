---------------------------- MODULE OutboundScreen ----------------------------
(***************************************************************************)
(* The page of one outbound request (OutboundWorkflow and its rows) in the *)
(* browsers of several clerks, over the handlers of WarehouseOps.  A page  *)
(* shows the documents as of its last render and offers what they allow;   *)
(* a server action that succeeds renders the page again, one that fails    *)
(* does not.  A browser runs one server action at a time.                  *)
(***************************************************************************)
EXTENDS WarehouseOps, Sequences

CONSTANTS
    Clerks,
    Viewed,       \* the request whose page is open
    Typed,        \* the quantities that may be typed
    MaxClicks     \* bound on clicks and edits

ASSUME ScreenAssumption ==
    Viewed \in Requests /\ Typed \subseteq Nat /\ MaxClicks \in Nat

VARIABLES
    seen,      \* the documents as rendered
    quantity,  \* the picked quantity in each row
    rowSaved,  \* "Saved" beside the row
    calls,     \* server actions started and not answered, in order
    clicks,
    writer,      \* history: who recorded the row last
    typedDuring  \* history: the row was edited while it was being saved

screenVars == <<seen, quantity, rowSaved, calls, clicks, writer, typedDuring>>

PickRows == PickLists \X Products

Docs == [request |-> request[Viewed], pickList |-> pickList, shipment |-> shipment]

ScreenInit ==
    /\ DataInit
    /\ seen = [u \in Clerks |-> Docs]
    /\ quantity = [u \in Clerks |-> [row \in PickRows |-> 0]]
    /\ rowSaved = [u \in Clerks |-> {}]
    /\ calls = [u \in Clerks |-> <<>>]
    /\ clicks = 0
    /\ writer = [row \in PickRows |-> None]
    /\ typedDuring = [u \in Clerks |-> {}]

OneMoreClick == clicks < MaxClicks /\ clicks' = clicks + 1

-----------------------------------------------------------------------------
(* What a page offers.  A call is an operation with its arguments.         *)

Call(op, id, row, qty) == [op |-> op, id |-> id, row |-> row, qty |-> qty, state |-> "sent"]

NoRow == <<None, None>>

GenerateCall    == Call("generate", None, NoRow, 0)
CompleteCall(l) == Call("complete", l, NoRow, 0)
ShipCall        == Call("ship", None, NoRow, 0)
DeliverCall(s)  == Call("deliver", s, NoRow, 0)
PickCall(row, q) == Call("pick", None, row, q)

ListsSeen(u)     == {l \in PickLists : seen[u].pickList[l].request = Viewed}
ShipmentsSeen(u) == {s \in Shipments : seen[u].shipment[s].request = Viewed}
BeforePacking(u) == seen[u].request.status \in {"requested", "picking"}

FaultyCanCreatePickList(u) == BeforePacking(u)

CanCreatePickList(u) == ListsSeen(u) = {} /\ BeforePacking(u)

Editable(u, l) ==
    l \in ListsSeen(u) /\ seen[u].pickList[l].status # "complete" /\ BeforePacking(u)

Offers(u) ==
    (IF CanCreatePickList(u) THEN {GenerateCall} ELSE {})
    \cup {CompleteCall(l) : l \in {x \in PickLists : Editable(u, x)}}
    \cup (IF ShipmentsSeen(u) = {} /\ seen[u].request.status = "packed" THEN {ShipCall} ELSE {})
    \cup (IF seen[u].request.status = "shipped"
          THEN {DeliverCall(s) : s \in ShipmentsSeen(u)} ELSE {})

\* The buttons share one isPending, each row has its own.
WorkflowPending(u) == \E i \in DOMAIN calls[u] : calls[u][i].op # "pick"
RowPending(u, row) == \E i \in DOMAIN calls[u] : calls[u][i].row = row

-----------------------------------------------------------------------------
(* The clerk.                                                              *)

Start(u, c) ==
    /\ OneMoreClick
    /\ calls' = [calls EXCEPT ![u] = Append(@, c)]

Press(u, c) ==
    /\ c \in Offers(u) /\ ~WorkflowPending(u)
    /\ Start(u, c)
    /\ UNCHANGED <<dataVars, seen, quantity, rowSaved, writer, typedDuring>>

FaultyEdited(u, row) == UNCHANGED rowSaved

Edited(u, row) == rowSaved' = [rowSaved EXCEPT ![u] = @ \ {row}]

TypeQuantity(u, row, q) ==
    /\ OneMoreClick
    /\ Editable(u, row[1]) /\ q # quantity[u][row]
    /\ quantity' = [quantity EXCEPT ![u][row] = q]
    /\ Edited(u, row)
    /\ typedDuring' = IF RowPending(u, row)
                      THEN [typedDuring EXCEPT ![u] = @ \cup {row}] ELSE typedDuring
    /\ UNCHANGED <<dataVars, seen, calls, writer>>

SaveRow(u, row) ==
    /\ Editable(u, row[1]) /\ ~RowPending(u, row)
    /\ rowSaved' = [rowSaved EXCEPT ![u] = @ \ {row}]
    /\ Start(u, PickCall(row, quantity[u][row]))
    /\ typedDuring' = [typedDuring EXCEPT ![u] = @ \ {row}]
    /\ UNCHANGED <<dataVars, seen, quantity, writer>>

\* The page shows the documents; a row that appears starts with what they say.
Rendered(u) ==
    /\ seen' = [seen EXCEPT ![u] = Docs]
    /\ quantity' = [quantity EXCEPT ![u] =
                       [row \in PickRows |-> IF row[1] \in ListsSeen(u) THEN @[row]
                                             ELSE pickList[row[1]].picked[row[2]]]]

\* The page is loaded anew.
Reload(u) ==
    /\ calls[u] = <<>> /\ seen[u] # Docs
    /\ seen' = [seen EXCEPT ![u] = Docs]
    /\ quantity' = [quantity EXCEPT ![u] =
                       [row \in PickRows |-> pickList[row[1]].picked[row[2]]]]
    /\ rowSaved' = [rowSaved EXCEPT ![u] = {}]
    /\ typedDuring' = [typedDuring EXCEPT ![u] = {}]
    /\ UNCHANGED <<dataVars, calls, clicks, writer>>

-----------------------------------------------------------------------------
(* The backend.                                                            *)

InStock(r, free) ==
    \A p \in Products : \A l \in ListsOf(r) :
        pickList[l].picked[p] > 0 => pickList[l].picked[p] <= free[request[r].source][p]

Unreserved == [w \in Warehouses |-> Minus(onHand[w], reserved[w])]

Accepts(c) ==
    CASE c.op = "generate" -> NeedsPickList(Viewed)
      [] c.op = "pick"     -> StillOpen(c.row[1]) /\ PickAllowed(c.row[1], c.row[2], c.qty)
      [] c.op = "complete" -> StillOpen(c.id) /\ InStock(Viewed, Unreserved)
      [] c.op = "ship"     -> ReadyToShip(Viewed) /\ InStock(Viewed, onHand)
      [] c.op = "deliver"  -> UnderWay(c.id)

Perform(c) ==
    CASE c.op = "generate" -> \E l \in PickLists : GeneratePickList(Viewed, l)
      [] c.op = "pick"     -> RecordPick(c.row[1], c.row[2], c.qty)
      [] c.op = "complete" -> CompletePickList(c.id)
      [] c.op = "ship"     -> \E s \in Shipments : Ship(Viewed, s)
      [] c.op = "deliver"  -> Deliver(c.id)

\* The first call in line reaches the backend.
ActionRunsFor(u) ==
    /\ calls[u] # <<>> /\ Head(calls[u]).state = "sent"
    /\ LET c == Head(calls[u])
       IN  /\ IF Accepts(c) THEN Perform(c) ELSE UNCHANGED dataVars
           /\ calls' = [calls EXCEPT ![u][1].state = IF Accepts(c) THEN "done" ELSE "refused"]
           /\ writer' = IF c.op = "pick" /\ Accepts(c) THEN [writer EXCEPT ![c.row] = u]
                        ELSE writer
    /\ UNCHANGED <<seen, quantity, rowSaved, clicks, typedDuring>>

\* The answer; it may be an error although the call was done.
AnswerTo(u) ==
    /\ calls[u] # <<>> /\ Head(calls[u]).state # "sent"
    /\ calls' = [calls EXCEPT ![u] = Tail(@)]
    /\ \/ /\ Head(calls[u]).state = "done"
          /\ Rendered(u)
          /\ rowSaved' = IF Head(calls[u]).op = "pick"
                         THEN [rowSaved EXCEPT ![u] = @ \cup {Head(calls[u]).row}] ELSE rowSaved
       \/ UNCHANGED <<seen, quantity, rowSaved>>
    /\ UNCHANGED <<dataVars, clicks, writer, typedDuring>>

\* The request is created, and someone else corrects the stock.
Background ==
    /\ Creation \/ \E w \in Warehouses, p \in Products, d \in ManualDeltas,
                       ref \in References \cup {None} : ManualTransaction(w, p, d, ref)
    /\ UNCHANGED screenVars

ScreenNext ==
    \/ Background
    \/ \E u \in Clerks :
          \/ \E c \in Offers(u) : Press(u, c)
          \/ \E row \in PickRows : SaveRow(u, row) \/ \E q \in Typed : TypeQuantity(u, row, q)
          \/ Reload(u) \/ ActionRunsFor(u) \/ AnswerTo(u)

ScreenSpec == ScreenInit /\ [][ScreenNext]_<<dataVars, screenVars>>

-----------------------------------------------------------------------------
ScreenTypeOK ==
    /\ quantity \in [Clerks -> [PickRows -> Nat]]
    /\ rowSaved \in [Clerks -> SUBSET PickRows]
    /\ writer \in [PickRows -> Clerks \cup {None}]

\* The backend's operations on the request, other than picking.
Steps == {GenerateCall, ShipCall} \cup {CompleteCall(l) : l \in ListsOf(Viewed)}
             \cup {DeliverCall(s) : s \in {x \in Shipments : shipment[x].request = Viewed}}

\* The page and the handlers agree on the workflow: a page that is up to date
\* offers every step the backend would accept, and a step it offers is refused
\* only for want of stock or because nothing was picked.
OffersMatchTheBackend ==
    \A u \in Clerks : seen[u] = Docs =>
        /\ \A c \in Steps : Accepts(c) => c \in Offers(u)
        /\ \A c \in Offers(u) :
              \/ Accepts(c)
              \/ c.op = "ship" /\ PickedQuantities(Viewed) = NoLines
              \/ c.op = "ship" /\ ~InStock(Viewed, onHand)
              \/ c.op = "complete" /\ ~InStock(Viewed, Unreserved)

\* "Saved" beside a quantity: the pick list says so, unless the clerk went on
\* typing while it was saved or another clerk recorded the line since.
SavedMeansStored ==
    \A u \in Clerks : \A row \in rowSaved[u] :
        \/ pickList[row[1]].picked[row[2]] = quantity[u][row]
        \/ row \in typedDuring[u]
        \/ writer[row] # u

=============================================================================
