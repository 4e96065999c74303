----------------------------- MODULE SessionProofs -----------------------------
(***************************************************************************)
(* Proofs about overlapping requests: whatever the interleaving, no column *)
(* goes below zero and no stock row is inserted twice; and as long as no   *)
(* commit was computed from values another one had replaced, every step of *)
(* the database is a step of WarehouseOps, so all that is proved about the *)
(* workflow without overlap holds.                                         *)
(***************************************************************************)
EXTENDS GoodsProofs, SessionOps

-----------------------------------------------------------------------------
(* The specification without overlap is the one extended here.             *)

\* The instance's operators are those of the module that is extended here.
LEMMA SameOperators ==
    /\ Serial!NoLines = NoLines /\ Serial!Lines = Lines
    /\ \A v, d : Serial!Plus(v, d) = Plus(v, d) /\ Serial!Minus(v, d) = Minus(v, d)
    /\ \A n : Serial!Max0(n) = Max0(n)
    /\ \A f : Serial!Total(f) = Total(f)
<1>1. ASSUME NEW f PROVE Serial!Total(f) = Total(f)
  <2>1. Serial!Units(f) = Units(f)
    BY DEF Serial!Units, Units
  <2>2. Serial!Cardinality(Units(f)) = Cardinality(Units(f))
    BY DEF Serial!Cardinality, Cardinality
  <2> QED BY <2>1, <2>2 DEF Serial!Total, Total
<1>2. \A v, d : Serial!Plus(v, d) = Plus(v, d) /\ Serial!Minus(v, d) = Minus(v, d)
  BY DEF Serial!Plus, Plus, Serial!Minus, Minus
<1>3. Serial!NoLines = NoLines /\ Serial!Lines = Lines /\ \A n : Serial!Max0(n) = Max0(n)
  BY DEF Serial!NoLines, NoLines, Serial!Lines, Lines, Serial!Max0, Max0
<1> QED BY <1>1, <1>2, <1>3

LEMMA SameQueries ==
    /\ \A r : Serial!PickedQuantities(r) = PickedQuantities(r)
    /\ \A r : Serial!IsInternalTransfer(r) <=> IsInternalTransfer(r)
    /\ Serial!ReservationTarget = ReservationTarget
<1>1. ASSUME NEW r PROVE Serial!PickedQuantities(r) = PickedQuantities(r)
  BY SameOperators DEF Serial!PickedQuantities, PickedQuantities, Serial!ListsOf, ListsOf
<1>2. \A r : Serial!IsInternalTransfer(r) <=> IsInternalTransfer(r)
  BY DEF Serial!IsInternalTransfer, IsInternalTransfer
<1>3. Serial!ReservationTarget = ReservationTarget
  BY SameOperators DEF Serial!ReservationTarget, ReservationTarget, Serial!ReservingLists, ReservingLists
<1> QED BY <1>1, <1>2, <1>3

LEMMA SameMovements ==
    /\ \A w, delta : Serial!ApplyMovement(w, delta) <=> ApplyMovement(w, delta)
    /\ \A d, qty : Serial!PutIn(d, qty) <=> PutIn(d, qty)
    /\ \A d, qty : Serial!TakeOut(d, qty) <=> TakeOut(d, qty)
    /\ \A w, qty : Serial!Reserve(w, qty) <=> Reserve(w, qty)
    /\ \A w, qty : Serial!Release(w, qty) <=> Release(w, qty)
BY SameOperators DEF Serial!ApplyMovement, ApplyMovement, Serial!PutIn, PutIn, Serial!TakeOut, TakeOut,
       Serial!Reserve, Reserve, Serial!Release, Release

LEMMA SameBookings ==
    \A ref, delta : Serial!BookManually(ref, delta) <=> BookManually(ref, delta)
<1> SUFFICES ASSUME NEW ref, NEW delta
             PROVE  Serial!BookManually(ref, delta) <=> BookManually(ref, delta)
  OBVIOUS
<1> DEFINE takenOut == [p \in Products |-> Max0(0 - delta[p])]
           putIn == [p \in Products |-> Max0(delta[p])]
<1>1. /\ takenOut = [p \in Products |-> Serial!Max0(0 - delta[p])]
      /\ putIn = [p \in Products |-> Serial!Max0(delta[p])]
  BY SameOperators
<1>2. Serial!References = References
  BY DEF Serial!References, References
<1>3. BookManually(ref, delta) <=>
        moved' = [d \in References |->
            IF d # ref THEN moved[d]
            ELSE [out |-> Plus(moved[d].out, takenOut), in |-> Plus(moved[d].in, putIn),
                  manualOut |-> Plus(moved[d].manualOut, takenOut),
                  manualIn |-> Plus(moved[d].manualIn, putIn)]]
  BY DEF BookManually
<1> HIDE DEF takenOut, putIn
<1> QED BY <1>1, <1>2, <1>3, SameOperators DEF Serial!BookManually

LEMMA SameCreation == Serial!Creation <=> Creation
<1> USE DEF Serial!stockVars, stockVars
<1>1. \A r, w, d, lines : Serial!AddRequest(r, w, d, lines) <=> AddRequest(r, w, d, lines)
  BY SameOperators DEF Serial!AddRequest, AddRequest
<1>2. \A o, w, lines : Serial!CreatePurchaseOrder(o, w, lines) <=> CreatePurchaseOrder(o, w, lines)
  BY SameOperators DEF Serial!CreatePurchaseOrder, CreatePurchaseOrder
<1>3. \A w : Serial!UpdateWarehouse(w) <=> UpdateWarehouse(w)
  BY SameOperators DEF Serial!UpdateWarehouse, UpdateWarehouse
<1> QED BY <1>1, <1>2, <1>3, SameOperators
        DEF Serial!Creation, Creation, Serial!CreateSalesOrder, CreateSalesOrder,
            Serial!CreateInternalTransfer, CreateInternalTransfer

LEMMA SerialNext == Serial!Next <=> Next
<1> USE DEF Serial!stockVars, stockVars, Serial!docVars, docVars
<1>1. \A r, l : Serial!GeneratePickList(r, l) <=> GeneratePickList(r, l)
  BY SameOperators DEF Serial!GeneratePickList, GeneratePickList, Serial!NeedsPickList, NeedsPickList
<1>2. \A l, p, q : Serial!RecordPick(l, p, q) <=> RecordPick(l, p, q)
  BY SameOperators DEF Serial!RecordPick, RecordPick, Serial!StillOpen, StillOpen, Serial!PickAllowed,
                       PickAllowed
<1>3. \A l : Serial!CompletePickList(l) <=> CompletePickList(l)
  BY SameMovements DEF Serial!CompletePickList, CompletePickList, Serial!StillOpen, StillOpen
<1>4. \A r, s : Serial!Ship(r, s) <=> Ship(r, s)
  BY SameOperators, SameQueries, SameMovements DEF Serial!Ship, Ship, Serial!ReadyToShip, ReadyToShip
<1>5. \A s : Serial!Deliver(s) <=> Deliver(s)
  BY SameQueries, SameMovements DEF Serial!Deliver, Deliver, Serial!UnderWay, UnderWay
<1>6. \A o, got : Serial!ReceivePurchaseOrder(o, got) <=> ReceivePurchaseOrder(o, got)
  BY SameOperators, SameMovements DEF Serial!ReceivePurchaseOrder, ReceivePurchaseOrder,
        Serial!Receivable, Receivable, Serial!Close, Close
<1>7. \A w, p, d, ref : Serial!ManualTransaction(w, p, d, ref) <=> ManualTransaction(w, p, d, ref)
  BY SameOperators, SameMovements, SameBookings DEF Serial!ManualTransaction, ManualTransaction
<1>8. Serial!RecalculateReservations <=> RecalculateReservations
  BY SameOperators, SameQueries DEF Serial!RecalculateReservations, RecalculateReservations
<1>9. Serial!References = References
  BY DEF Serial!References, References
<1> QED BY <1>1, <1>2, <1>3, <1>4, <1>5, <1>6, <1>7, <1>8, <1>9, SameCreation, SameOperators
        DEF Serial!Next, Next

-----------------------------------------------------------------------------
(* The invariant of a session.                                             *)

\* PickedQuantities of the pick lists a session has loaded.
PickedIn(lists) ==
    LET done == {l \in DOMAIN lists : lists[l].status = "complete"}
    IN  [p \in Products |-> Total([l \in done |-> lists[l].picked[p]])]

\* The columns of a session, the stock rows it has read and has yet to read.
Wellformed(s) ==
    /\ s = [op |-> s.op, doc |-> s.doc, arg |-> s.arg, wh |-> s.wh, move |-> s.move, hold |-> s.hold,
            todo |-> s.todo, seen |-> s.seen, making |-> s.making, made |-> s.made, loaded |-> s.loaded]
    /\ s.move \in [Products -> Int] /\ s.hold \in [Products -> Int]
    /\ s.todo \subseteq Products
    /\ DOMAIN s.seen \subseteq Products
    /\ \A p \in DOMAIN s.seen :
          /\ Allowed(s, p, s.seen[p])
          /\ s.wh \in Warehouses => s.seen[p].onHand \in Int /\ s.seen[p].reserved \in Int
    /\ s.making # None => s.making \in Products /\ Allowed(s, s.making, MissingRow)
    /\ \A p \in Products : p \notin s.todo \cup DOMAIN s.seen => s.move[p] = 0 /\ s.hold[p] = 0

\* What the session is to do follows from the documents it has loaded, and
\* those passed the status check of its handler.
Job(s) ==
    /\ s.op \in {"idle", "generate", "pick", "complete", "ship", "deliver", "receive", "manual"}
    /\ s.op = "generate" => s.loaded.request.status = "requested"
    /\ s.op = "pick" => /\ s.arg[1] \in Products /\ s.arg[2] \in 0..MaxQty
                        /\ s.loaded.lists[s.doc].status \notin {"absent", "complete"}
    /\ s.op = "complete" => /\ s.loaded.lists[s.doc].status \notin {"absent", "complete"}
                            /\ s.wh = s.loaded.request.source
                            /\ s.move = NoLines
                            /\ s.hold = s.loaded.lists[s.doc].picked
    /\ s.op = "ship" => /\ s.loaded.request.status = "packed"
                        /\ s.wh = s.loaded.request.source
                        /\ PickedIn(s.loaded.lists) \in [Products -> Nat] \ {NoLines}
                        /\ s.move = Negated(PickedIn(s.loaded.lists))
                        /\ s.hold = Negated(PickedIn(s.loaded.lists))
    /\ s.op = "deliver" => /\ s.loaded.shipment.status = "shipped"
                           /\ s.wh = s.loaded.request.dest
                           /\ s.move = IF s.wh # None THEN PickedIn(s.loaded.lists) ELSE NoLines
                           /\ s.move \in [Products -> Nat] /\ s.hold = NoLines
    /\ s.op = "receive" => /\ s.loaded.order.status \notin {"absent", "received"}
                           /\ s.loaded.order.received \in [Products -> Nat]
                           /\ s.wh = s.loaded.order.dest
                           /\ s.move \in Lines /\ s.hold = NoLines
                           /\ \A p \in Products : s.move[p] > 0 => s.loaded.order.ordered[p] > 0
    /\ s.op = "manual" => /\ s.wh \in Warehouses /\ s.hold = NoLines
                          /\ s.arg \in References \cup {None}
                          /\ \E p \in Products, d \in ManualDeltas : s.move = [NoLines EXCEPT ![p] = d]

\* The document the session works on exists, and the line it picks is there.
DocsThere(s) ==
    /\ s.op \in {"generate", "ship"} => s.doc \in Requests /\ request[s.doc].status # "absent"
    /\ s.op \in {"pick", "complete"} => s.doc \in PickLists /\ pickList[s.doc].status # "absent"
    /\ s.op = "pick" => PickAllowed(s.doc, s.arg[1], s.arg[2])
    /\ s.op = "deliver" => s.doc \in Shipments /\ shipment[s.doc].status # "absent"
    /\ s.op = "receive" => s.doc \in Orders /\ order[s.doc].status # "absent"

\* A row the session has read without inserting it exists.
RowsThere(s) == \A p \in DOMAIN s.seen \ s.made : <<s.wh, p>> \in rows

Fixed(s) == Wellformed(s) /\ Job(s)
There(s) == DocsThere(s) /\ RowsThere(s)

SessionsOK ==
    /\ DOMAIN session = Threads
    /\ \A t \in Threads : Fixed(session[t]) /\ There(session[t])

WorkerOK ==
    /\ worker = [stage |-> worker.stage, target |-> worker.target,
                 seen |-> worker.seen, rows |-> worker.rows]
    /\ worker.stage # "idle" => worker.target \in [Warehouses -> [Products -> Nat]]

\* The manual transactions booked and under way stay within the bound.
ManualSessions == {u \in Threads : session[u].op = "manual"}
ManualsBounded == manuals + Cardinality(ManualSessions) <= MaxManual

\* A list or a shipment refers to a request that exists.
RequestsThere ==
    /\ \A l \in PickLists :
          pickList[l].status # "absent" => request[pickList[l].request].status # "absent"
    /\ \A n \in Shipments :
          shipment[n].status # "absent" => request[shipment[n].request].status # "absent"

DataOK == TypeOK /\ NeverNegative /\ RequestsThere

\* Documents and stock rows do not disappear; requests keep their lines.
Kept ==
    /\ rows \subseteq rows'
    /\ \A r \in Requests : request[r].status # "absent" =>
          request'[r].status # "absent" /\ request'[r].lines = request[r].lines
    /\ \A l \in PickLists : pickList[l].status # "absent" =>
          pickList'[l].status # "absent" /\ pickList'[l].request = pickList[l].request
    /\ \A n \in Shipments : shipment[n].status # "absent" => shipment'[n].status # "absent"
    /\ \A o \in Orders : order[o].status # "absent" => order'[o].status # "absent"

\* What a session relies on is still there after any step.
LEMMA KeptThere ==
    ASSUME ConstantsAssumption, TypeOK, RequestsThere, Kept, NEW s, There(s)
    PROVE  There(s)'
<1>1. RowsThere(s)'
  BY DEF There, RowsThere, Kept
<1>2. ASSUME s.op = "pick" PROVE PickAllowed(s.doc, s.arg[1], s.arg[2])'
  <2>1. /\ s.doc \in PickLists /\ pickList[s.doc].status # "absent"
        /\ PickAllowed(s.doc, s.arg[1], s.arg[2])
    BY <1>2 DEF There, DocsThere
  <2>2. pickList[s.doc].request \in Requests /\ request[pickList[s.doc].request].status # "absent"
    BY <2>1, ReferenceRows DEF RequestsThere
  <2> QED BY <2>1, <2>2 DEF Kept, PickAllowed
<1>3. DocsThere(s)'
  BY <1>2 DEF There, DocsThere, Kept
<1> QED BY <1>1, <1>3 DEF There

LEMMA SessionSet ==
    ASSUME SessionsOK, NEW t \in Threads, NEW x, session' = [session EXCEPT ![t] = x],
           Fixed(x), There(x)', \A u \in Threads \ {t} : There(session[u])'
    PROVE  SessionsOK'
<1>1. /\ DOMAIN session' = Threads /\ session'[t] = x
      /\ \A u \in Threads \ {t} : session'[u] = session[u]
  BY DEF SessionsOK
<1> QED BY <1>1 DEF SessionsOK

-----------------------------------------------------------------------------
(* The stock rows a commit writes.                                         *)

\* Whatever was read, columns stay typed and are not taken below zero.
LEMMA WriteKeeps ==
    ASSUME TypeOK, NeverNegative, NEW t, Wellformed(session[t]), WriteStock(t)
    PROVE  /\ onHand' \in [Warehouses -> [Products -> Int]]
           /\ reserved' \in [Warehouses -> [Products -> Int]]
           /\ ledger' \in [Warehouses -> [Products -> Int]]
           /\ NeverNegative'
<1> DEFINE s == session[t]
<1>1. ASSUME NEW w \in Warehouses, NEW p \in Products
      PROVE  /\ onHand'[w][p] \in Int /\ onHand'[w][p] >= 0
             /\ reserved'[w][p] \in Int /\ reserved'[w][p] >= 0
             /\ ledger'[w][p] \in Int
  <2>1. /\ onHand[w][p] \in Int /\ onHand[w][p] >= 0 /\ reserved[w][p] \in Int
        /\ reserved[w][p] >= 0 /\ ledger[w][p] \in Int
    BY DEF TypeOK, NeverNegative
  <2>2. CASE Holds(s, w, p)
    <3>1. /\ s.seen[p].onHand \in Int /\ s.seen[p].reserved \in Int
          /\ s.move[p] \in Int /\ s.hold[p] \in Int /\ s.seen[p].onHand + s.move[p] >= 0
      BY <2>2 DEF Wellformed, Allowed, Holds
    <3>2. /\ onHand'[w][p] \in {onHand[w][p], s.seen[p].onHand + s.move[p]}
          /\ reserved'[w][p] \in {reserved[w][p], Max0(s.seen[p].reserved + s.hold[p])}
          /\ ledger'[w][p] = ledger[w][p] + s.move[p]
      BY <2>2 DEF WriteStock, WriteLedger, Written
    <3>3. ledger'[w][p] \in Int
      BY <2>1, <3>1, <3>2
    <3>4. onHand'[w][p] \in Int /\ onHand'[w][p] >= 0
      BY <2>1, <3>1, <3>2
    <3>5. Max0(s.seen[p].reserved + s.hold[p]) \in Int /\ Max0(s.seen[p].reserved + s.hold[p]) >= 0
      BY <3>1 DEF Max0
    <3>6. reserved'[w][p] \in Int /\ reserved'[w][p] >= 0
      BY <2>1, <3>2, <3>5
    <3> QED BY <3>3, <3>4, <3>6
  <2>3. CASE ~Holds(s, w, p)
    BY <2>1, <2>3 DEF WriteStock, WriteLedger
  <2> QED BY <2>2, <2>3
<1>2. /\ onHand' = [w \in Warehouses |-> [p \in Products |-> onHand'[w][p]]]
      /\ reserved' = [w \in Warehouses |-> [p \in Products |-> reserved'[w][p]]]
      /\ ledger' = [w \in Warehouses |-> [p \in Products |-> ledger'[w][p]]]
  BY DEF WriteStock, WriteLedger
<1>3. /\ \A w \in Warehouses : [p \in Products |-> onHand'[w][p]] \in [Products -> Int]
      /\ \A w \in Warehouses : [p \in Products |-> reserved'[w][p]] \in [Products -> Int]
      /\ \A w \in Warehouses : [p \in Products |-> ledger'[w][p]] \in [Products -> Int]
  BY <1>1
<1>4. /\ onHand' \in [Warehouses -> [Products -> Int]]
      /\ reserved' \in [Warehouses -> [Products -> Int]]
      /\ ledger' \in [Warehouses -> [Products -> Int]]
  BY <1>2, <1>3
<1> QED BY <1>1, <1>4 DEF NeverNegative

\* If the rows read are still what the database has, the commit adds the
\* session's quantities to them, within the limits the handler has checked.
LEMMA WriteFresh ==
    ASSUME TypeOK, NeverNegative, NEW t, Wellformed(session[t]), session[t].todo = {},
           WriteStock(t), \A p \in DOMAIN session[t].seen :
                              session[t].seen[p] = StockRow(session[t].wh, p)
    PROVE  LET s == session[t]
           IN  /\ onHand' = [onHand EXCEPT ![s.wh] = Plus(onHand[s.wh], s.move)]
               /\ ledger' = [ledger EXCEPT ![s.wh] = Plus(ledger[s.wh], s.move)]
               /\ reserved' = [reserved EXCEPT ![s.wh] =
                                  [p \in Products |-> Max0(reserved[s.wh][p] + s.hold[p])]]
               /\ s.wh \in Warehouses =>
                      \A p \in Products :
                          /\ onHand[s.wh][p] + s.move[p] >= 0
                          /\ s.hold[p] > 0 => s.hold[p] <= onHand[s.wh][p] - reserved[s.wh][p]
<1> DEFINE s == session[t]
           v == s.wh
<1>1. ASSUME NEW w \in Warehouses, NEW p \in Products
      PROVE  /\ onHand[w][p] \in Int /\ onHand[w][p] >= 0 /\ reserved[w][p] \in Int
             /\ reserved[w][p] >= 0 /\ ledger[w][p] \in Int
             /\ s.move[p] \in Int /\ s.hold[p] \in Int
  BY DEF TypeOK, NeverNegative, Wellformed
<1>2. ASSUME NEW p \in Products, p \notin DOMAIN s.seen PROVE s.move[p] = 0 /\ s.hold[p] = 0
  BY <1>2 DEF Wellformed
<1>3. ASSUME NEW p \in DOMAIN s.seen
      PROVE  /\ p \in Products
             /\ s.seen[p].onHand = onHand[v][p] /\ s.seen[p].reserved = reserved[v][p]
             /\ onHand[v][p] + s.move[p] >= 0
             /\ s.hold[p] > 0 => s.hold[p] <= onHand[v][p] - reserved[v][p]
  <2>1. p \in Products /\ Allowed(s, p, s.seen[p])
    BY DEF Wellformed
  <2>2. s.seen[p].onHand = onHand[v][p] /\ s.seen[p].reserved = reserved[v][p]
    <3>1. s.seen[p] = StockRow(v, p)
      OBVIOUS
    <3> HIDE DEF v
    <3> QED BY <3>1 DEF StockRow
  <2> QED BY <2>1, <2>2 DEF Allowed
<1>4. ASSUME NEW w \in Warehouses, NEW p \in Products, w = v
      PROVE  /\ onHand'[w][p] = onHand[w][p] + s.move[p]
             /\ ledger'[w][p] = ledger[w][p] + s.move[p]
             /\ reserved'[w][p] = Max0(reserved[w][p] + s.hold[p])
             /\ onHand[w][p] + s.move[p] >= 0
             /\ s.hold[p] > 0 => s.hold[p] <= onHand[w][p] - reserved[w][p]
  <2>1. CASE p \in DOMAIN s.seen
    <3>1. Holds(s, w, p)
      BY <1>4, <2>1 DEF Holds
    <3>2. /\ onHand'[w][p] = Written(onHand[w][p], onHand[w][p] + s.move[p], onHand[w][p])
          /\ reserved'[w][p] = Written(reserved[w][p], Max0(reserved[w][p] + s.hold[p]), reserved[w][p])
          /\ ledger'[w][p] = ledger[w][p] + s.move[p]
      BY <1>3, <1>4, <2>1, <3>1 DEF WriteStock, WriteLedger
    <3> QED BY <1>3, <1>4, <2>1, <3>2 DEF Written
  <2>2. CASE p \notin DOMAIN s.seen
    <3>1. ~Holds(s, w, p)
      BY <2>2 DEF Holds
    <3>2. /\ onHand'[w][p] = onHand[w][p] /\ reserved'[w][p] = reserved[w][p]
          /\ ledger'[w][p] = ledger[w][p]
      BY <3>1 DEF WriteStock, WriteLedger
    <3> QED BY <1>1, <1>2, <2>2, <3>2 DEF Max0
  <2> QED BY <2>1, <2>2
<1>5. ASSUME NEW w \in Warehouses, NEW p \in Products, w # v
      PROVE  /\ onHand'[w][p] = onHand[w][p] /\ reserved'[w][p] = reserved[w][p]
             /\ ledger'[w][p] = ledger[w][p]
  BY <1>5 DEF WriteStock, WriteLedger, Holds
<1>6. onHand' = [onHand EXCEPT ![v] = Plus(onHand[v], s.move)]
  <2>1. onHand' = [w \in Warehouses |-> [p \in Products |-> onHand'[w][p]]]
    BY DEF WriteStock
  <2> DEFINE new == Plus(onHand[v], s.move)
  <2>2. ASSUME NEW w \in Warehouses PROVE onHand'[w] = IF w = v THEN new ELSE onHand[w]
    BY <1>4, <1>5, <2>1 DEF Plus, TypeOK
  <2>3. onHand' = [onHand EXCEPT ![v] = new]
    <3> HIDE DEF new, v
    <3> QED BY <2>1, <2>2 DEF TypeOK
  <2> QED BY <2>3
<1>7. ledger' = [ledger EXCEPT ![v] = Plus(ledger[v], s.move)]
  <2>1. ledger' = [w \in Warehouses |-> [p \in Products |-> ledger'[w][p]]]
    BY DEF WriteStock, WriteLedger
  <2> DEFINE new == Plus(ledger[v], s.move)
  <2>2. ASSUME NEW w \in Warehouses PROVE ledger'[w] = IF w = v THEN new ELSE ledger[w]
    BY <1>4, <1>5, <2>1 DEF Plus, TypeOK
  <2>3. ledger' = [ledger EXCEPT ![v] = new]
    <3> HIDE DEF new, v
    <3> QED BY <2>1, <2>2 DEF TypeOK
  <2> QED BY <2>3
<1>8. reserved' = [reserved EXCEPT ![v] = [p \in Products |-> Max0(reserved[v][p] + s.hold[p])]]
  <2>1. reserved' = [w \in Warehouses |-> [p \in Products |-> reserved'[w][p]]]
    BY DEF WriteStock
  <2> DEFINE new == [p \in Products |-> Max0(reserved[v][p] + s.hold[p])]
  <2>2. ASSUME NEW w \in Warehouses PROVE reserved'[w] = IF w = v THEN new ELSE reserved[w]
    BY <1>4, <1>5, <2>1 DEF TypeOK
  <2>3. reserved' = [reserved EXCEPT ![v] = new]
    <3> HIDE DEF new, v
    <3> QED BY <2>1, <2>2 DEF TypeOK
  <2> QED BY <2>3
<1> QED BY <1>4, <1>6, <1>7, <1>8

-----------------------------------------------------------------------------
(* Every commit, fresh or stale, keeps the tables typed and the documents. *)

\* It is enough that requests, lists and shipments are updated in place or new
\* and about a request that exists.
LEMMA DocsKeep ==
    ASSUME ConstantsAssumption, TypeOK, RequestsThere, rows \subseteq rows',
           \A r \in Requests : request[r].status # "absent" =>
               request'[r].status # "absent" /\ request'[r].lines = request[r].lines,
           \A l \in PickLists :
               \/ /\ pickList'[l].request = pickList[l].request
                  /\ pickList'[l].status = "absent" <=> pickList[l].status = "absent"
               \/ /\ pickList[l].status = "absent" /\ pickList'[l].status # "absent"
                  /\ pickList'[l].request \in Requests
                  /\ request[pickList'[l].request].status # "absent",
           \A n \in Shipments :
               \/ /\ shipment'[n].request = shipment[n].request
                  /\ shipment'[n].status = "absent" <=> shipment[n].status = "absent"
               \/ /\ shipment[n].status = "absent" /\ shipment'[n].status # "absent"
                  /\ shipment'[n].request \in Requests
                  /\ request[shipment'[n].request].status # "absent",
           \A o \in Orders : order[o].status # "absent" => order'[o].status # "absent"
    PROVE  Kept /\ RequestsThere'
<1>1. Kept
  BY DEF Kept
<1>2. ASSUME NEW l \in PickLists, pickList'[l].status # "absent"
      PROVE  request'[pickList'[l].request].status # "absent"
  BY <1>2, ReferenceRows DEF RequestsThere
<1>3. ASSUME NEW n \in Shipments, shipment'[n].status # "absent"
      PROVE  request'[shipment'[n].request].status # "absent"
  BY <1>3, ReferenceRows DEF RequestsThere
<1> QED BY <1>1, <1>2, <1>3 DEF RequestsThere

\* A status that is set leaves the request and its lines there.
LEMMA StatusKeeps ==
    ASSUME TypeOK, NEW q, NEW status, status # "absent",
           request' = [request EXCEPT ![q].status = status]
    PROVE  \A r \in Requests : request[r].status # "absent" =>
               request'[r].status # "absent" /\ request'[r].lines = request[r].lines
<1> SUFFICES ASSUME NEW r \in Requests, request[r].status # "absent"
             PROVE  request'[r].status # "absent" /\ request'[r].lines = request[r].lines
  OBVIOUS
<1>1. request'[r].lines = request[r].lines
  BY SameDest
<1>2. request[r] \in RequestRows
  BY DEF TypeOK
<1>3. request'[r] = [request[r] EXCEPT !.status = status] \/ request'[r] = request[r]
  BY DEF TypeOK
<1>4. request'[r].status # "absent"
  BY <1>2, <1>3 DEF RequestRows, NoRequest
<1> QED BY <1>1, <1>4

\* A status written by SQLAlchemy is the new one or the one that is there.
LEMMA WrittenStatus ==
    ASSUME TypeOK, NEW r \in Requests, request[r].status # "absent", NEW old, NEW new \in RequestStatus
    PROVE  Written(old, new, request[r].status) \in RequestStatus
BY DEF Written, TypeOK, RequestRows, NoRequest

LEMMA GenerateKeeps ==
    ASSUME ConstantsAssumption, DataOK, NEW t, Fixed(session[t]), There(session[t]),
           NEW l \in PickLists, CommitGenerate(t, l)
    PROVE  DataOK' /\ Kept
<1> DEFINE r == session[t].doc
           row == [status |-> "open", request |-> r, picked |-> NoLines]
<1> USE DEF DataOK, stockVars, NoStock
<1>1. r \in Requests /\ request[r].status # "absent" /\ pickList[l].status = "absent"
  BY DEF CommitGenerate, There, DocsThere
<1>2. pickList' = [pickList EXCEPT ![l] = row]
  BY DEF CommitGenerate
<1>3. row \in PickListRows
  BY <1>1 DEF PickListRows, PickListStatus, NoLines
<1>4. pickList' \in [PickLists -> PickListRows]
  BY <1>2, <1>3, UpdateType DEF TypeOK
<1>5. request' = [request EXCEPT ![r].status = "picking"]
  BY DEF CommitGenerate
<1>6. request' \in [Requests -> RequestRows]
  BY <1>1, <1>5, StatusType DEF RequestStatus
<1>7. TypeOK' /\ NeverNegative'
  BY <1>4, <1>6 DEF CommitGenerate, EndCommit, TypeOK, NeverNegative
<1>8. /\ pickList'[l].status # "absent" /\ pickList'[l].request = r
      /\ \A m \in PickLists : m # l => pickList'[m] = pickList[m]
  BY <1>2 DEF TypeOK
<1>9. rows' = rows /\ shipment' = shipment /\ order' = order
  BY DEF CommitGenerate
<1>10. Kept /\ RequestsThere'
  BY <1>1, <1>5, <1>8, <1>9, StatusKeeps, DocsKeep
<1> QED BY <1>7, <1>10

LEMMA PickKeeps ==
    ASSUME ConstantsAssumption, DataOK, NEW t, Fixed(session[t]), There(session[t]), CommitPick(t)
    PROVE  DataOK' /\ Kept
<1> DEFINE s == session[t]
           l == s.doc
           p == s.arg[1]
           old == s.loaded.lists[l]
           qty == Written(old.picked[p], s.arg[2], pickList[l].picked[p])
           status == Written(old.status, "in_progress", pickList[l].status)
           picked == [pickList[l].picked EXCEPT ![p] = qty]
           row == [pickList[l] EXCEPT !.status = status, !.picked = picked]
<1> USE DEF DataOK, stockVars, NoStock
<1>1. /\ l \in PickLists /\ pickList[l].status # "absent"
      /\ p \in Products /\ s.arg[2] \in 0..MaxQty
  BY DEF CommitPick, There, DocsThere, Fixed, Job
<1>2. pickList[l] \in [status: PickListStatus, request: Requests, picked: [Products -> Nat]]
  BY <1>1 DEF TypeOK, PickListRows, NoPickList
<1>3. qty \in Nat /\ status \in PickListStatus
  BY <1>1, <1>2 DEF Written, ConstantsAssumption, PickListStatus
<1>4. pickList' = [pickList EXCEPT ![l].picked[p] = qty, ![l].status = status]
  BY DEF CommitPick
<1>5. pickList' = [pickList EXCEPT ![l] = row]
  <2> DEFINE once == [pickList[l] EXCEPT !.picked[p] = qty]
  <2> HIDE DEF l, p, qty, status
  <2>1. row = [once EXCEPT !.status = status]
    BY <1>2
  <2>2. pickList' = [pickList EXCEPT ![l] = [once EXCEPT !.status = status]]
    BY <1>1, <1>4 DEF TypeOK
  <2> HIDE DEF row, once
  <2> QED BY <2>1, <2>2
<1>6. row \in [status: PickListStatus, request: Requests, picked: [Products -> Nat]]
  <2>1. picked \in [Products -> Nat]
    BY <1>1, <1>2, <1>3
  <2> HIDE DEF picked, l, status
  <2> QED BY <1>2, <1>3, <2>1
<1>7. row.request = pickList[l].request /\ row.status # "absent"
  <2> HIDE DEF picked, l, status
  <2> QED BY <1>2, <1>3 DEF PickListStatus
<1> HIDE DEF row
<1>8. pickList' \in [PickLists -> PickListRows]
  BY <1>5, <1>6, UpdateType DEF TypeOK, PickListRows
<1>9. TypeOK' /\ NeverNegative'
  BY <1>8 DEF CommitPick, EndCommit, TypeOK, NeverNegative
<1>10. /\ pickList'[l].request = pickList[l].request /\ pickList'[l].status # "absent"
       /\ \A m \in PickLists : m # l => pickList'[m] = pickList[m]
  BY <1>1, <1>5, <1>7 DEF TypeOK
<1>11. rows' = rows /\ request' = request /\ shipment' = shipment /\ order' = order
  BY DEF CommitPick
<1>12. Kept /\ RequestsThere'
  <2> HIDE DEF l
  <2> QED BY <1>1, <1>10, <1>11, DocsKeep
<1> QED BY <1>9, <1>12

LEMMA CompleteKeeps ==
    ASSUME ConstantsAssumption, DataOK, NEW t, Fixed(session[t]), There(session[t]), CommitComplete(t)
    PROVE  DataOK' /\ Kept
<1> DEFINE s == session[t]
           l == s.doc
           r == pickList[l].request
           status == Written(s.loaded.request.status, "packed", request[r].status)
           row == [pickList[l] EXCEPT !.status = "complete"]
<1> USE DEF DataOK
<1>1. l \in PickLists /\ pickList[l].status # "absent"
  BY DEF CommitComplete, There, DocsThere
<1>2. r \in Requests /\ request[r].status # "absent"
  BY <1>1, ReferenceRows DEF RequestsThere
<1>3. pickList[l] \in [status: PickListStatus, request: Requests, picked: [Products -> Nat]]
  BY <1>1 DEF TypeOK, PickListRows, NoPickList
<1>4. pickList' = [pickList EXCEPT ![l] = row]
  BY DEF CommitComplete
<1>5. /\ row \in [status: PickListStatus, request: Requests, picked: [Products -> Nat]]
      /\ row.request = r /\ row.status = "complete"
  BY <1>3 DEF PickListStatus
<1>6. request' = [request EXCEPT ![r].status = status] /\ status \in RequestStatus
  BY <1>2, WrittenStatus DEF CommitComplete, RequestStatus
<1> HIDE DEF row, status
<1>7. pickList' \in [PickLists -> PickListRows]
  BY <1>4, <1>5, UpdateType DEF TypeOK, PickListRows
<1>8. request' \in [Requests -> RequestRows]
  BY <1>2, <1>6, StatusType
<1>9. TypeOK' /\ NeverNegative'
  BY <1>7, <1>8, WriteKeeps DEF CommitComplete, EndCommit, TypeOK, Fixed
<1>10. /\ pickList'[l].request = r /\ pickList'[l].status # "absent"
       /\ \A m \in PickLists : m # l => pickList'[m] = pickList[m]
  BY <1>1, <1>4, <1>5 DEF TypeOK
<1>11. rows \subseteq rows' /\ shipment' = shipment /\ order' = order /\ status # "absent"
  BY <1>6 DEF CommitComplete, WriteStock, RequestStatus
<1>12. Kept /\ RequestsThere'
  <2>1. \A q \in Requests : request[q].status # "absent" =>
            request'[q].status # "absent" /\ request'[q].lines = request[q].lines
    BY <1>6, <1>11, StatusKeeps
  <2> HIDE DEF l
  <2> QED BY <1>1, <1>10, <1>11, <2>1, DocsKeep
<1> QED BY <1>9, <1>12

LEMMA ShipKeeps ==
    ASSUME ConstantsAssumption, DataOK, NEW t, Fixed(session[t]), There(session[t]),
           NEW n \in Shipments, CommitShip(t, n)
    PROVE  DataOK' /\ Kept
<1> DEFINE s == session[t]
           r == s.doc
           picked == PickedIn(s.loaded.lists)
           row == [status |-> "shipped", request |-> r]
           left == Minus(moved[n].out, s.move)
           entry == [moved[n] EXCEPT !.out = left]
<1> USE DEF DataOK
<1>1. r \in Requests /\ request[r].status # "absent" /\ shipment[n].status = "absent"
  BY DEF CommitShip, There, DocsThere
<1>2. picked \in [Products -> Nat] /\ s.move = Negated(picked)
  BY DEF CommitShip, Fixed, Job
<1>3. shipment' = [shipment EXCEPT ![n] = row] /\ row \in ShipmentRows
  BY <1>1 DEF CommitShip, ShipmentRows, ShipmentStatus
<1>4. shipment' \in [Shipments -> ShipmentRows]
  BY <1>3, UpdateType DEF TypeOK
<1>5. request' = [request EXCEPT ![r].status = "shipped"]
  BY DEF CommitShip
<1>6. request' \in [Requests -> RequestRows]
  BY <1>1, <1>5, StatusType DEF RequestStatus
<1>7. moved' \in [References -> MovedRows]
  <2>1. moved[n] \in MovedRows /\ moved[n].out \in [Products -> Nat]
    BY DEF TypeOK, References, MovedRows
  <2>2. left \in [Products -> Nat]
    <3> HIDE DEF picked, s
    <3> QED BY <1>2, <2>1 DEF Minus, Negated, NoLines
  <2>3. entry \in MovedRows
    <3> HIDE DEF left
    <3> QED BY <2>1, <2>2 DEF MovedRows
  <2>4. moved' = [moved EXCEPT ![n] = entry]
    BY DEF CommitShip
  <2> QED BY <2>3, <2>4, UpdateType DEF TypeOK
<1>8. TypeOK' /\ NeverNegative'
  BY <1>4, <1>6, <1>7, WriteKeeps DEF CommitShip, EndCommit, TypeOK, Fixed
<1>9. /\ shipment'[n].status # "absent" /\ shipment'[n].request = r
      /\ \A m \in Shipments : m # n => shipment'[m] = shipment[m]
  BY <1>3 DEF TypeOK
<1>10. rows \subseteq rows' /\ pickList' = pickList /\ order' = order
  BY DEF CommitShip, WriteStock
<1>11. Kept /\ RequestsThere'
  <2>1. \A q \in Requests : request[q].status # "absent" =>
            request'[q].status # "absent" /\ request'[q].lines = request[q].lines
    BY <1>5, StatusKeeps
  <2> HIDE DEF r
  <2> QED BY <1>1, <1>9, <1>10, <2>1, DocsKeep
<1> QED BY <1>8, <1>11

LEMMA DeliverKeeps ==
    ASSUME ConstantsAssumption, DataOK, NEW t, Fixed(session[t]), There(session[t]), CommitDeliver(t)
    PROVE  DataOK' /\ Kept
<1> DEFINE s == session[t]
           n == s.doc
           r == shipment[n].request
           status == Written(s.loaded.request.status, "delivered", request[r].status)
           row == [shipment[n] EXCEPT !.status = "delivered"]
           sum == Plus(moved[n].in, s.move)
           entry == [moved[n] EXCEPT !.in = sum]
<1> USE DEF DataOK
<1>1. n \in Shipments /\ shipment[n].status # "absent" /\ s.move \in [Products -> Nat]
  BY DEF CommitDeliver, There, DocsThere, Fixed, Job
<1>2. r \in Requests /\ request[r].status # "absent"
  BY <1>1, ReferenceRows DEF RequestsThere
<1>3. shipment[n] \in [status: ShipmentStatus, request: Requests]
  BY <1>1 DEF TypeOK, ShipmentRows, NoShipment
<1>4. shipment' = [shipment EXCEPT ![n] = row]
  BY DEF CommitDeliver
<1>5. /\ row \in [status: ShipmentStatus, request: Requests]
      /\ row.request = r /\ row.status = "delivered"
  BY <1>3 DEF ShipmentStatus
<1>6. request' = [request EXCEPT ![r].status = status] /\ status \in RequestStatus
  BY <1>2, WrittenStatus DEF CommitDeliver, RequestStatus
<1>7. moved' \in [References -> MovedRows]
  <2>1. moved[n] \in MovedRows /\ moved[n].in \in [Products -> Nat]
    BY <1>1 DEF TypeOK, References, MovedRows
  <2>2. sum \in [Products -> Nat]
    BY <1>1, <2>1, PlusNat
  <2>3. entry \in MovedRows
    <3> HIDE DEF sum
    <3> QED BY <2>1, <2>2 DEF MovedRows
  <2>4. moved' = [moved EXCEPT ![n] = entry]
    BY DEF CommitDeliver
  <2> QED BY <2>3, <2>4, UpdateType DEF TypeOK
<1> HIDE DEF row, status, entry
<1>8. shipment' \in [Shipments -> ShipmentRows]
  BY <1>4, <1>5, UpdateType DEF TypeOK, ShipmentRows
<1>9. request' \in [Requests -> RequestRows]
  BY <1>2, <1>6, StatusType
<1>10. TypeOK' /\ NeverNegative'
  BY <1>7, <1>8, <1>9, WriteKeeps DEF CommitDeliver, EndCommit, TypeOK, Fixed
<1>11. /\ shipment'[n].request = r /\ shipment'[n].status # "absent"
       /\ \A m \in Shipments : m # n => shipment'[m] = shipment[m]
  BY <1>1, <1>4, <1>5 DEF TypeOK
<1>12. rows \subseteq rows' /\ pickList' = pickList /\ order' = order /\ status # "absent"
  BY <1>6 DEF CommitDeliver, WriteStock, RequestStatus
<1>13. Kept /\ RequestsThere'
  <2>1. \A q \in Requests : request[q].status # "absent" =>
            request'[q].status # "absent" /\ request'[q].lines = request[q].lines
    BY <1>6, <1>12, StatusKeeps
  <2> HIDE DEF n
  <2> QED BY <1>1, <1>11, <1>12, <2>1, DocsKeep
<1> QED BY <1>10, <1>13

LEMMA ReceiveKeeps ==
    ASSUME ConstantsAssumption, DataOK, NEW t, Fixed(session[t]), There(session[t]), CommitReceive(t)
    PROVE  DataOK' /\ Kept
<1> DEFINE s == session[t]
           o == s.doc
           old == s.loaded.order.received
           received == [p \in Products |-> Written(old[p], old[p] + s.move[p], order[o].received[p])]
           row == [order[o] EXCEPT !.status = "received", !.received = received]
           sum == Plus(moved[o].in, s.move)
           entry == [moved[o] EXCEPT !.in = sum]
<1> USE DEF DataOK
<1>1. o \in Orders /\ order[o].status # "absent"
  BY DEF CommitReceive, There, DocsThere
<1>2. s.move \in [Products -> Nat] /\ old \in [Products -> Nat]
  BY DEF CommitReceive, Fixed, Job, Lines
<1>3. order[o] \in [status: OrderStatus, dest: Warehouses, ordered: [Products -> Nat],
                    received: [Products -> Nat]]
  BY <1>1 DEF TypeOK, OrderRows, NoOrder
<1>4. received \in [Products -> Nat]
  <2> HIDE DEF s, o, old
  <2> QED BY <1>2, <1>3 DEF Written
<1>5. order' = [order EXCEPT ![o] = row]
  <2> HIDE DEF o, received
  <2>1. order' = [order EXCEPT ![o].status = "received", ![o].received = received]
    BY DEF CommitReceive, o, received
  <2> QED BY <1>1, <2>1 DEF TypeOK
<1>6. row \in OrderRows /\ row.status = "received"
  <2> HIDE DEF received, o
  <2> QED BY <1>3, <1>4 DEF OrderRows, OrderStatus
<1>7. moved' \in [References -> MovedRows]
  <2>1. moved[o] \in MovedRows /\ moved[o].in \in [Products -> Nat]
    BY <1>1 DEF TypeOK, References, MovedRows
  <2>2. sum \in [Products -> Nat]
    BY <1>2, <2>1, PlusNat
  <2>3. entry \in MovedRows
    <3> HIDE DEF sum
    <3> QED BY <2>1, <2>2 DEF MovedRows
  <2>4. moved' = [moved EXCEPT ![o] = entry]
    BY DEF CommitReceive
  <2> QED BY <2>3, <2>4, UpdateType DEF TypeOK
<1> HIDE DEF row, entry
<1>8. order' \in [Orders -> OrderRows]
  BY <1>5, <1>6, UpdateType DEF TypeOK
<1>9. TypeOK' /\ NeverNegative'
  BY <1>7, <1>8, WriteKeeps DEF CommitReceive, EndCommit, TypeOK, Fixed
<1>10. order'[o].status # "absent" /\ \A x \in Orders : x # o => order'[x] = order[x]
  BY <1>1, <1>5, <1>6 DEF TypeOK
<1>11. rows \subseteq rows' /\ pickList' = pickList /\ request' = request /\ shipment' = shipment
  BY DEF CommitReceive, WriteStock
<1>12. Kept /\ RequestsThere'
  <2> HIDE DEF o
  <2> QED BY <1>1, <1>10, <1>11, DocsKeep
<1> QED BY <1>9, <1>12

LEMMA ManualKeeps ==
    ASSUME ConstantsAssumption, DataOK, manuals < MaxManual, NEW t, Fixed(session[t]), CommitManual(t)
    PROVE  DataOK' /\ Kept
<1> USE DEF DataOK
<1>1. manuals' \in 0..MaxManual
  BY DEF CommitManual, TypeOK, ConstantsAssumption
<1>4. moved' \in [References -> MovedRows]
  <2>1. session[t].move \in [Products -> Int] /\ BookManually(session[t].arg, session[t].move)
    BY DEF Fixed, Wellformed, CommitManual
  <2> QED BY <2>1, ManualType
<1>2. TypeOK' /\ NeverNegative'
  BY <1>1, <1>4, WriteKeeps DEF CommitManual, EndCommit, TypeOK, Fixed
<1>3. rows \subseteq rows' /\ UNCHANGED <<request, pickList, shipment, order>>
  BY DEF CommitManual, WriteStock
<1> QED BY <1>2, <1>3, DocsKeep

LEMMA WorkerKeeps ==
    ASSUME ConstantsAssumption, DataOK, WorkerOK, WorkerCommit
    PROVE  DataOK' /\ Kept
<1> USE DEF DataOK
<1>1. worker.target \in [Warehouses -> [Products -> Nat]]
  BY DEF WorkerOK, WorkerCommit
<1>2. ASSUME NEW w \in Warehouses, NEW p \in Products
      PROVE  reserved'[w][p] \in Int /\ reserved'[w][p] >= 0
  <2>1. reserved'[w][p] \in {worker.target[w][p], reserved[w][p]}
    BY DEF WorkerCommit
  <2>2. worker.target[w][p] \in Nat /\ reserved[w][p] \in Int /\ reserved[w][p] >= 0
    BY <1>1 DEF TypeOK, NeverNegative
  <2> QED BY <2>1, <2>2
<1>3. reserved' = [w \in Warehouses |-> [p \in Products |-> reserved'[w][p]]]
  BY DEF WorkerCommit
<1>4. reserved' \in [Warehouses -> [Products -> Int]]
  BY <1>2, <1>3
<1>5. TypeOK' /\ NeverNegative'
  BY <1>2, <1>4 DEF WorkerCommit, docVars, TypeOK, NeverNegative
<1>6. rows' = rows /\ UNCHANGED <<request, pickList, shipment, order>>
  BY DEF WorkerCommit, docVars
<1> QED BY <1>5, <1>6, DocsKeep

LEMMA CreationKeeps ==
    ASSUME ConstantsAssumption, DataOK, Creation, rows' = rows
    PROVE  DataOK' /\ Kept
<1> USE DEF DataOK, stockVars
<1>1. ASSUME NEW r \in Requests, NEW w \in Warehouses, NEW d \in Warehouses \cup {None},
             NEW lines \in Lines, AddRequest(r, w, d, lines)
      PROVE  DataOK' /\ Kept
  <2>1. TypeOK' /\ NeverNegative'
    BY <1>1 DEF AddRequest, TypeOK, RequestRows, RequestStatus, Lines, NeverNegative
  <2>2. pickList' = pickList /\ shipment' = shipment /\ order' = order
    BY <1>1 DEF AddRequest
  <2> QED BY <1>1, <2>1, <2>2, AddRequestEffect, DocsKeep
<1>2. ASSUME NEW o \in Orders, NEW w \in Warehouses, NEW lines \in Lines,
             CreatePurchaseOrder(o, w, lines)
      PROVE  DataOK' /\ Kept
  <2>1. TypeOK' /\ NeverNegative'
    BY <1>2 DEF CreatePurchaseOrder, TypeOK, OrderRows, OrderStatus, Lines, NoLines, NeverNegative
  <2>2. UNCHANGED <<request, pickList, shipment>>
    BY <1>2 DEF CreatePurchaseOrder
  <2>3. \A x \in Orders : order[x].status # "absent" => order'[x].status # "absent"
    BY <1>2 DEF CreatePurchaseOrder, TypeOK
  <2> QED BY <2>1, <2>2, <2>3, DocsKeep
<1>3. ASSUME NEW w \in Deactivatable, UpdateWarehouse(w) PROVE DataOK' /\ Kept
  <2>1. TypeOK' /\ NeverNegative'
    BY <1>3 DEF UpdateWarehouse, TypeOK, ConstantsAssumption, NeverNegative
  <2>2. UNCHANGED <<request, pickList, shipment, order>>
    BY <1>3 DEF UpdateWarehouse
  <2> QED BY <2>1, <2>2, DocsKeep
<1> QED BY <1>1, <1>2, <1>3 DEF Creation, CreateSalesOrder, CreateInternalTransfer

-----------------------------------------------------------------------------
(* The manual transactions booked and under way.                           *)

LEMMA ManualsFinite ==
    ASSUME ThreadsAssumption
    PROVE  IsFiniteSet(ManualSessions) /\ Cardinality(ManualSessions) \in Nat
BY FS_Subset, FS_CardinalityType DEF ManualSessions, ThreadsAssumption

\* A manual transaction under way is not yet counted among those booked.
LEMMA ManualRoom ==
    ASSUME ConstantsAssumption, ThreadsAssumption, TypeOK, ManualsBounded,
           NEW t \in Threads, session[t].op = "manual"
    PROVE  manuals < MaxManual
<1>1. t \in ManualSessions
  BY DEF ManualSessions
<1>2. Cardinality(ManualSessions) # 0
  BY <1>1, ManualsFinite, FS_EmptySet
<1>3. manuals \in Nat /\ MaxManual \in Nat /\ Cardinality(ManualSessions) \in Nat
  BY ManualsFinite DEF TypeOK, ConstantsAssumption
<1> QED BY <1>2, <1>3 DEF ManualsBounded

LEMMA ManualsStep ==
    ASSUME ConstantsAssumption, ThreadsAssumption, TypeOK, SessionsOK, ManualsBounded,
           NEW t \in Threads, NEW x, session' = [session EXCEPT ![t] = x],
           \/ manuals' = manuals /\ (x.op = "manual" => session[t].op = "manual")
           \/ manuals' = manuals /\ manuals + Cardinality(ManualSessions) < MaxManual
           \/ manuals' = manuals + 1 /\ session[t].op = "manual" /\ x.op # "manual"
    PROVE  ManualsBounded'
<1> DEFINE S == ManualSessions
<1>1. /\ session'[t] = x /\ \A u \in Threads \ {t} : session'[u] = session[u]
  BY DEF SessionsOK
<1>2. /\ manuals \in Nat /\ MaxManual \in Nat /\ manuals + Cardinality(S) <= MaxManual
      /\ IsFiniteSet(S) /\ Cardinality(S) \in Nat
  BY ManualsFinite DEF ManualsBounded, TypeOK, ConstantsAssumption
<1>3. CASE manuals' = manuals /\ (x.op = "manual" => session[t].op = "manual")
  <2>1. S' \subseteq S
    BY <1>1, <1>3 DEF ManualSessions
  <2>2. Cardinality(S') <= Cardinality(S) /\ Cardinality(S') \in Nat
    BY <1>2, <2>1, FS_Subset, FS_CardinalityType
  <2> QED BY <1>2, <1>3, <2>2 DEF ManualsBounded
<1>4. CASE manuals' = manuals /\ manuals + Cardinality(S) < MaxManual
  <2>1. S' \subseteq S \cup {t}
    BY <1>1 DEF ManualSessions
  <2>2. /\ IsFiniteSet(S \cup {t}) /\ Cardinality(S \cup {t}) <= Cardinality(S) + 1
        /\ Cardinality(S \cup {t}) \in Nat
    <3> HIDE DEF S
    <3>1. /\ IsFiniteSet(S \cup {t})
          /\ Cardinality(S \cup {t}) = IF t \in S THEN Cardinality(S) ELSE Cardinality(S) + 1
      BY <1>2, FS_AddElement
    <3> QED BY <1>2, <3>1
  <2>3. Cardinality(S') <= Cardinality(S \cup {t}) /\ Cardinality(S') \in Nat
    BY <2>1, <2>2, FS_Subset, FS_CardinalityType
  <2> QED BY <1>2, <1>4, <2>2, <2>3 DEF ManualsBounded
<1>5. CASE manuals' = manuals + 1 /\ session[t].op = "manual" /\ x.op # "manual"
  <2>1. S' = S \ {t} /\ t \in S
    BY <1>1, <1>5 DEF ManualSessions
  <2>2. Cardinality(S') = Cardinality(S) - 1
    BY <1>2, <2>1, FS_RemoveElement
  <2> QED BY <1>2, <1>5, <2>2 DEF ManualsBounded
<1> QED BY <1>3, <1>4, <1>5

-----------------------------------------------------------------------------
(* Loading and reading.                                                    *)

\* The columns of what a session loads, by the call it serves.
LEMMA DocsOfFields ==
    ASSUME NEW doc
    PROVE  /\ DocsOf("generate", doc).request = request[doc]
           /\ DocsOf("pick", doc).lists[doc] = pickList[doc]
           /\ DocsOf("complete", doc).request = request[pickList[doc].request]
           /\ DocsOf("complete", doc).lists[doc] = pickList[doc]
           /\ DocsOf("ship", doc).request = request[doc]
           /\ DocsOf("ship", doc).lists = [l \in ListsOf(doc) |-> pickList[l]]
           /\ DocsOf("deliver", doc).request = request[shipment[doc].request]
           /\ DocsOf("deliver", doc).lists = [l \in ListsOf(shipment[doc].request) |-> pickList[l]]
           /\ DocsOf("deliver", doc).shipment = shipment[doc]
           /\ DocsOf("receive", doc).order = order[doc]
<1>1. DocsOf("generate", doc).request = request[doc]
  BY DEF DocsOf, NoDocs
<1>2. DocsOf("pick", doc).lists[doc] = pickList[doc]
  BY DEF DocsOf, NoDocs
<1>3. /\ DocsOf("complete", doc).request = request[pickList[doc].request]
      /\ DocsOf("complete", doc).lists[doc] = pickList[doc]
  BY DEF DocsOf, NoDocs
<1>4. /\ DocsOf("ship", doc).request = request[doc]
      /\ DocsOf("ship", doc).lists = [l \in ListsOf(doc) |-> pickList[l]]
  BY DEF DocsOf, NoDocs
<1>5. /\ DocsOf("deliver", doc).request = request[shipment[doc].request]
      /\ DocsOf("deliver", doc).lists = [l \in ListsOf(shipment[doc].request) |-> pickList[l]]
      /\ DocsOf("deliver", doc).shipment = shipment[doc]
  BY DEF DocsOf, NoDocs
<1>6. DocsOf("receive", doc).order = order[doc]
  BY DEF DocsOf, NoDocs
<1> QED BY <1>1, <1>2, <1>3, <1>4, <1>5, <1>6

\* What the loaded lists of a request add up to is what is picked for it now.
LEMMA PickedLoaded ==
    ASSUME NEW r
    PROVE  PickedIn([l \in ListsOf(r) |-> pickList[l]]) = PickedQuantities(r)
<1> DEFINE lists == [l \in ListsOf(r) |-> pickList[l]]
           done == {l \in ListsOf(r) : pickList[l].status = "complete"}
           same == {l \in DOMAIN lists : lists[l].status = "complete"}
<1>1. same = done /\ \A l \in done : lists[l] = pickList[l]
  OBVIOUS
<1>2. PickedQuantities(r) = [p \in Products |-> Total([l \in done |-> pickList[l].picked[p]])]
  BY DEF PickedQuantities
<1>3. PickedIn(lists) = [p \in Products |-> Total([l \in same |-> lists[l].picked[p]])]
  BY DEF PickedIn
<1>4. ASSUME NEW p \in Products
      PROVE  [l \in same |-> lists[l].picked[p]] = [l \in done |-> pickList[l].picked[p]]
  <2> HIDE DEF same, done, lists
  <2> QED BY <1>1
<1> HIDE DEF same, done, lists
<1>5. PickedIn(lists) = PickedQuantities(r)
  BY <1>2, <1>3, <1>4
<1> QED BY <1>5 DEF lists

\* A session that has just loaded its documents has read no row.
NewSession(x) ==
    /\ x = [op |-> x.op, doc |-> x.doc, arg |-> x.arg, wh |-> x.wh, move |-> x.move, hold |-> x.hold,
            todo |-> x.todo, seen |-> x.seen, making |-> x.making, made |-> x.made, loaded |-> x.loaded]
    /\ x.seen = <<>> /\ x.making = None /\ x.made = {}

LEMMA LoadedSession ==
    ASSUME NEW x, NewSession(x), x.move \in [Products -> Int], x.hold \in [Products -> Int],
           x.todo \subseteq Products,
           \A p \in Products : p \notin x.todo => x.move[p] = 0 /\ x.hold[p] = 0
    PROVE  Wellformed(x) /\ RowsThere(x) /\ x.made = {}
<1>1. DOMAIN x.seen = {} /\ x.making = None /\ x.made = {}
  <2>1. x.seen = <<>>
    BY DEF NewSession
  <2> QED BY <2>1 DEF NewSession
<1>2. Wellformed(x)
  BY <1>1 DEF Wellformed, NewSession
<1> QED BY <1>1, <1>2 DEF RowsThere

\* A session that begins: typed, with its job, its document and no row read.
Started(t, x) ==
    /\ session' = [session EXCEPT ![t] = x]
    /\ Fixed(x) /\ There(x) /\ x.made = {}
    /\ x.op = "manual" => manuals + Cardinality(ManualSessions) < MaxManual

LEMMA LoadOK ==
    ASSUME ConstantsAssumption, DataOK, NEW t, Load(t)
    PROVE  /\ \E x : Started(t, x)
           /\ UNCHANGED <<dataVars, worker, rows, stale>>
<1> USE DEF DataOK
<1>0. NoLines \in [Products -> Int] /\ {} \in SUBSET Products /\ \A p \in Products : NoLines[p] = 0
  BY DEF NoLines
<1>1. ASSUME NEW r \in Requests, LoadGenerate(t, r) PROVE \E x : Started(t, x)
  <2> DEFINE loaded == DocsOf("generate", r)
  <2>1. PICK x : x = [op |-> "generate", doc |-> r, arg |-> None, wh |-> None, move |-> NoLines,
                      hold |-> NoLines, todo |-> {}, seen |-> <<>>, making |-> None, made |-> {},
                      loaded |-> loaded]
    OBVIOUS
  <2>2. session' = [session EXCEPT ![t] = x] /\ request[r].status = "requested"
    BY <1>1, <2>1 DEF LoadGenerate, Begin, NeedsPickList
  <2>4. loaded.request = request[r]
    BY DocsOfFields
  <2> HIDE DEF loaded
  <2>8. /\ NewSession(x) /\ x.op = "generate" /\ x.doc = r /\ x.loaded = loaded
        /\ x.move = NoLines /\ x.hold = NoLines /\ x.todo = {}
    BY <2>1 DEF NewSession
  <2>3. Wellformed(x) /\ RowsThere(x) /\ x.made = {}
    BY <1>0, <2>8, LoadedSession
  <2> QED BY <2>2, <2>3, <2>4, <2>8 DEF Started, Fixed, There, Job, DocsThere
<1>2. ASSUME NEW l \in PickLists, NEW p \in Products, NEW q \in 0..MaxQty, LoadPick(t, l, p, q)
      PROVE  \E x : Started(t, x)
  <2> DEFINE loaded == DocsOf("pick", l)
             arg == <<p, q>>
  <2>1. PICK x : x = [op |-> "pick", doc |-> l, arg |-> arg, wh |-> None, move |-> NoLines,
                      hold |-> NoLines, todo |-> {}, seen |-> <<>>, making |-> None, made |-> {},
                      loaded |-> loaded]
    OBVIOUS
  <2>2. /\ session' = [session EXCEPT ![t] = x] /\ pickList[l].status \notin {"absent", "complete"}
        /\ PickAllowed(l, p, q)
    BY <1>2, <2>1 DEF LoadPick, Begin, StillOpen
  <2>4. loaded.lists[l] = pickList[l]
    BY DocsOfFields
  <2>5. arg[1] = p /\ arg[2] = q
    OBVIOUS
  <2> HIDE DEF loaded, arg
  <2>8. /\ NewSession(x) /\ x.op = "pick" /\ x.doc = l /\ x.arg = arg /\ x.loaded = loaded
        /\ x.move = NoLines /\ x.hold = NoLines /\ x.todo = {}
    BY <2>1 DEF NewSession
  <2>3. Wellformed(x) /\ RowsThere(x) /\ x.made = {}
    BY <1>0, <2>8, LoadedSession
  <2> QED BY <2>2, <2>3, <2>4, <2>5, <2>8 DEF Started, Fixed, There, Job, DocsThere
<1>3. ASSUME NEW l \in PickLists, LoadComplete(t, l) PROVE \E x : Started(t, x)
  <2> DEFINE loaded == DocsOf("complete", l)
             picked == pickList[l].picked
             w == request[pickList[l].request].source
             todo == Support(picked)
  <2>1. PICK x : x = [op |-> "complete", doc |-> l, arg |-> None, wh |-> w, move |-> NoLines,
                      hold |-> picked, todo |-> todo, seen |-> <<>>, making |-> None, made |-> {},
                      loaded |-> loaded]
    OBVIOUS
  <2>2. session' = [session EXCEPT ![t] = x] /\ pickList[l].status \notin {"absent", "complete"}
    BY <1>3, <2>1 DEF LoadComplete, Begin, StillOpen
  <2>3. /\ picked \in [Products -> Int] /\ todo \in SUBSET Products
        /\ \A p \in Products : p \notin todo => NoLines[p] = 0 /\ picked[p] = 0
    BY <1>0, <2>2 DEF TypeOK, PickListRows, NoPickList, Support
  <2>4. /\ loaded.lists[l] = pickList[l] /\ loaded.request.source = w
    BY DocsOfFields
  <2> HIDE DEF loaded, picked, todo, w
  <2>8. /\ NewSession(x) /\ x.op = "complete" /\ x.doc = l /\ x.wh = w /\ x.loaded = loaded
        /\ x.move = NoLines /\ x.hold = picked /\ x.todo = todo
    BY <2>1 DEF NewSession
  <2>5. Wellformed(x) /\ RowsThere(x) /\ x.made = {}
    BY <1>0, <2>3, <2>8, LoadedSession
  <2>6. picked = pickList[l].picked
    BY DEF picked
  <2> QED BY <2>2, <2>4, <2>5, <2>6, <2>8 DEF Started, Fixed, There, Job, DocsThere
<1>4. ASSUME NEW r \in Requests, LoadShip(t, r) PROVE \E x : Started(t, x)
  <2> DEFINE loaded == DocsOf("ship", r)
             picked == PickedQuantities(r)
             taken == Negated(picked)
             w == request[r].source
             todo == Support(picked)
  <2>1. PICK x : x = [op |-> "ship", doc |-> r, arg |-> None, wh |-> w, move |-> taken,
                      hold |-> taken, todo |-> todo, seen |-> <<>>, making |-> None, made |-> {},
                      loaded |-> loaded]
    OBVIOUS
  <2>2. session' = [session EXCEPT ![t] = x] /\ request[r].status = "packed" /\ picked # NoLines
    BY <1>4, <2>1 DEF LoadShip, Begin, ReadyToShip
  <2>3. picked \in [Products -> Nat]
    BY PickedType
  <2>4. /\ taken \in [Products -> Int] /\ todo \in SUBSET Products
        /\ \A p \in Products : p \notin todo => taken[p] = 0
    <3> HIDE DEF picked
    <3> QED BY <2>3 DEF Negated, Minus, NoLines, Support
  <2>5. loaded.request = request[r] /\ PickedIn(loaded.lists) = picked
    BY DocsOfFields, PickedLoaded
  <2>6. w = request[r].source /\ taken = Negated(picked)
    OBVIOUS
  <2> HIDE DEF loaded, picked, todo, w, taken
  <2>8. /\ NewSession(x) /\ x.op = "ship" /\ x.doc = r /\ x.wh = w /\ x.loaded = loaded
        /\ x.move = taken /\ x.hold = taken /\ x.todo = todo
    BY <2>1 DEF NewSession
  <2>7. Wellformed(x) /\ RowsThere(x) /\ x.made = {}
    BY <2>4, <2>8, LoadedSession
  <2> QED BY <2>2, <2>3, <2>5, <2>6, <2>7, <2>8 DEF Started, Fixed, There, Job, DocsThere
<1>5. ASSUME NEW n \in Shipments, LoadDeliver(t, n) PROVE \E x : Started(t, x)
  <2> DEFINE r == shipment[n].request
             loaded == DocsOf("deliver", n)
             picked == IF IsInternalTransfer(r) THEN PickedQuantities(r) ELSE NoLines
             w == request[r].dest
             todo == Support(picked)
  <2>1. PICK x : x = [op |-> "deliver", doc |-> n, arg |-> None, wh |-> w, move |-> picked,
                      hold |-> NoLines, todo |-> todo, seen |-> <<>>, making |-> None, made |-> {},
                      loaded |-> loaded]
    OBVIOUS
  <2>2. session' = [session EXCEPT ![t] = x] /\ shipment[n].status = "shipped"
    BY <1>5, <2>1 DEF LoadDeliver, Begin, UnderWay
  <2>3. picked \in [Products -> Nat] /\ picked \in [Products -> Int]
    BY PickedType DEF NoLines
  <2>4. /\ todo \in SUBSET Products /\ \A p \in Products : p \notin todo => picked[p] = 0
    BY DEF Support
  <2>5. /\ loaded.shipment = shipment[n] /\ loaded.request = request[r]
        /\ PickedIn(loaded.lists) = PickedQuantities(r)
    BY DocsOfFields, PickedLoaded
  <2>6. /\ w = request[r].dest
        /\ picked = IF w # None THEN PickedQuantities(r) ELSE NoLines
    BY DEF IsInternalTransfer
  <2> HIDE DEF loaded, picked, todo, w, r
  <2>8. /\ NewSession(x) /\ x.op = "deliver" /\ x.doc = n /\ x.wh = w /\ x.loaded = loaded
        /\ x.move = picked /\ x.hold = NoLines /\ x.todo = todo
    BY <2>1 DEF NewSession
  <2>7. Wellformed(x) /\ RowsThere(x) /\ x.made = {}
    BY <1>0, <2>3, <2>4, <2>8, LoadedSession
  <2> QED BY <2>2, <2>3, <2>5, <2>6, <2>7, <2>8 DEF Started, Fixed, There, Job, DocsThere
<1>6. ASSUME NEW o \in Orders, NEW got \in Lines, LoadReceive(t, o, got) PROVE \E x : Started(t, x)
  <2> DEFINE loaded == DocsOf("receive", o)
             w == order[o].dest
             todo == Support(got)
  <2>1. PICK x : x = [op |-> "receive", doc |-> o, arg |-> None, wh |-> w, move |-> got,
                      hold |-> NoLines, todo |-> todo, seen |-> <<>>, making |-> None, made |-> {},
                      loaded |-> loaded]
    OBVIOUS
  <2>2. /\ session' = [session EXCEPT ![t] = x] /\ order[o].status \notin {"absent", "received"}
        /\ \A p \in Products : got[p] > 0 => order[o].ordered[p] > 0
    BY <1>6, <2>1 DEF LoadReceive, Begin, Receivable
  <2>3. /\ got \in [Products -> Int] /\ todo \in SUBSET Products
        /\ \A p \in Products : p \notin todo => got[p] = 0
    BY DEF Lines, Support
  <2>4. order[o].received \in [Products -> Nat]
    BY <2>2 DEF TypeOK, OrderRows, NoOrder
  <2>5. loaded.order = order[o] /\ w = order[o].dest
    BY DocsOfFields
  <2> HIDE DEF loaded, todo, w
  <2>8. /\ NewSession(x) /\ x.op = "receive" /\ x.doc = o /\ x.wh = w /\ x.loaded = loaded
        /\ x.move = got /\ x.hold = NoLines /\ x.todo = todo
    BY <2>1 DEF NewSession
  <2>6. Wellformed(x) /\ RowsThere(x) /\ x.made = {}
    BY <1>0, <2>3, <2>8, LoadedSession
  <2> QED BY <2>2, <2>4, <2>5, <2>6, <2>8 DEF Started, Fixed, There, Job, DocsThere
<1>7. ASSUME NEW w \in Warehouses, NEW p \in Products, NEW d \in ManualDeltas,
             NEW ref \in References \cup {None}, LoadManual(t, w, p, d, ref)
      PROVE  \E x : Started(t, x)
  <2> DEFINE loaded == DocsOf("manual", None)
             delta == [NoLines EXCEPT ![p] = d]
             todo == {p}
  <2>1. PICK x : x = [op |-> "manual", doc |-> None, arg |-> ref, wh |-> w, move |-> delta,
                      hold |-> NoLines, todo |-> todo, seen |-> <<>>, making |-> None, made |-> {},
                      loaded |-> loaded]
    OBVIOUS
  <2>2. /\ session' = [session EXCEPT ![t] = x]
        /\ manuals + Cardinality(ManualSessions) < MaxManual
    BY <1>7, <2>1 DEF LoadManual, Begin, ManualSessions
  <2>3. /\ delta \in [Products -> Int] /\ todo \in SUBSET Products
        /\ \A k \in Products : k \notin todo => delta[k] = 0
    BY DEF NoLines, ConstantsAssumption
  <2>4. delta = [NoLines EXCEPT ![p] = d]
    OBVIOUS
  <2> HIDE DEF loaded, todo, delta
  <2>8. /\ NewSession(x) /\ x.op = "manual" /\ x.arg = ref /\ x.wh = w /\ x.loaded = loaded
        /\ x.move = delta /\ x.hold = NoLines /\ x.todo = todo
    BY <2>1 DEF NewSession
  <2>5. Wellformed(x) /\ RowsThere(x) /\ x.made = {}
    BY <1>0, <2>3, <2>8, LoadedSession
  <2> QED BY <2>2, <2>4, <2>5, <2>8 DEF Started, Fixed, There, Job, DocsThere
<1>8. UNCHANGED <<dataVars, worker, rows, stale>>
  BY DEF Load, LoadGenerate, LoadPick, LoadComplete, LoadShip, LoadDeliver, LoadReceive, LoadManual,
         Begin
<1> QED BY <1>1, <1>2, <1>3, <1>4, <1>5, <1>6, <1>7, <1>8 DEF Load

-----------------------------------------------------------------------------
(* The steps of one session, seen by the invariant.                        *)

\* A step of session t that loses no document leaves every session in order.
LEMMA SessionStep ==
    ASSUME ConstantsAssumption, DataOK, SessionsOK, Kept, NEW t \in Threads, NEW x,
           session' = [session EXCEPT ![t] = x], Fixed(x), There(x)'
    PROVE  SessionsOK'
<1>1. ASSUME NEW u \in Threads \ {t} PROVE There(session[u])'
  <2>1. PICK y : y = session[u]
    OBVIOUS
  <2>2. There(y)'
    BY <2>1, KeptThere DEF DataOK, SessionsOK
  <2>3. session'[u] = y
    BY <2>1 DEF SessionsOK
  <2> QED BY <2>2, <2>3
<1> QED BY <1>1, SessionSet

\* A step that touches no session and loses no document.
LEMMA SessionsStay ==
    ASSUME ConstantsAssumption, DataOK, SessionsOK, Kept, UNCHANGED session
    PROVE  SessionsOK'
<1>1. ASSUME NEW u \in Threads PROVE Fixed(session[u])' /\ There(session[u])'
  <2>1. PICK y : y = session[u]
    OBVIOUS
  <2>2. There(y)' /\ Fixed(y)
    BY <2>1, KeptThere DEF DataOK, SessionsOK
  <2>3. session'[u] = y
    BY <2>1
  <2> QED BY <2>2, <2>3
<1> QED BY <1>1 DEF SessionsOK

LEMMA SameData ==
    ASSUME DataOK, UNCHANGED <<dataVars, rows>>
    PROVE  DataOK' /\ Kept
BY DEF DataOK, TypeOK, NeverNegative, RequestsThere, Kept, dataVars, docVars, stockVars

\* A session that is idle needs nothing.
LEMMA IdleFits ==
    /\ Fixed(IdleSession) /\ There(IdleSession)
    /\ IdleSession.made = {} /\ IdleSession.op = "idle"
<1> DEFINE x == IdleSession
<1>1. NewSession(x) /\ x.op = "idle" /\ x.move = NoLines /\ x.hold = NoLines /\ x.todo = {}
  BY DEF IdleSession, NewSession
<1>2. NoLines \in [Products -> Int] /\ \A p \in Products : NoLines[p] = 0
  BY DEF NoLines
<1> HIDE DEF x
<1>3. Wellformed(x) /\ RowsThere(x) /\ x.made = {}
  BY <1>1, <1>2, LoadedSession
<1>4. Fixed(x) /\ There(x) /\ x.made = {} /\ x.op = "idle"
  BY <1>1, <1>3 DEF Fixed, Job, There, DocsThere
<1> QED BY <1>4 DEF x

\* What a session is to do is told by the columns that do not change while it
\* reads its stock rows.
SameCall(x, s) ==
    /\ x.op = s.op /\ x.doc = s.doc /\ x.arg = s.arg /\ x.wh = s.wh
    /\ x.move = s.move /\ x.hold = s.hold /\ x.loaded = s.loaded

LEMMA SameCallFits ==
    ASSUME NEW s, NEW x, SameCall(x, s), Job(s), DocsThere(s)
    PROVE  Job(x) /\ DocsThere(x)
<1>1. Job(x)
  BY DEF SameCall, Job
<1>2. DocsThere(x)
  BY DEF SameCall, DocsThere
<1> QED BY <1>1, <1>2

\* A stock row read, or inserted, is one more row seen.
LEMMA RowSeen ==
    ASSUME NEW t, NEW s, s = session[t], Wellformed(s), NEW p \in Products, NEW row,
           Allowed(s, p, row),
           s.wh \in Warehouses => row.onHand \in Int /\ row.reserved \in Int,
           NEW x, x = KeepRow(t, p, row)
    PROVE  /\ Wellformed(x) /\ SameCall(x, s)
           /\ x.made = s.made /\ DOMAIN x.seen = DOMAIN s.seen \cup {p}
<1> DEFINE seen == [q \in DOMAIN s.seen \cup {p} |-> IF q = p THEN row ELSE s.seen[q]]
           todo == s.todo \ {p}
<1>1. x = [s EXCEPT !.todo = todo, !.making = None, !.seen = seen]
  BY DEF KeepRow
<1>2. /\ DOMAIN seen = DOMAIN s.seen \cup {p} /\ seen[p] = row
      /\ \A q \in DOMAIN s.seen : q # p => seen[q] = s.seen[q]
      /\ todo = s.todo \ {p}
  OBVIOUS
<1> HIDE DEF seen, todo
<1>3. s = [op |-> s.op, doc |-> s.doc, arg |-> s.arg, wh |-> s.wh, move |-> s.move, hold |-> s.hold,
           todo |-> s.todo, seen |-> s.seen, making |-> s.making, made |-> s.made, loaded |-> s.loaded]
  BY DEF Wellformed
<1>4. x = [op |-> s.op, doc |-> s.doc, arg |-> s.arg, wh |-> s.wh, move |-> s.move, hold |-> s.hold,
           todo |-> todo, seen |-> seen, making |-> None, made |-> s.made, loaded |-> s.loaded]
  BY <1>1, <1>3
<1>5. /\ x = [op |-> x.op, doc |-> x.doc, arg |-> x.arg, wh |-> x.wh, move |-> x.move, hold |-> x.hold,
              todo |-> x.todo, seen |-> x.seen, making |-> x.making, made |-> x.made, loaded |-> x.loaded]
      /\ SameCall(x, s) /\ x.todo = todo /\ x.seen = seen /\ x.making = None /\ x.made = s.made
  BY <1>4 DEF SameCall
<1>6. \A q \in Products : \A r : Allowed(s, q, r) => Allowed(x, q, r)
  BY <1>5 DEF SameCall, Allowed
<1>7. \A q \in DOMAIN x.seen :
          /\ Allowed(x, q, x.seen[q])
          /\ x.wh \in Warehouses => x.seen[q].onHand \in Int /\ x.seen[q].reserved \in Int
  BY <1>2, <1>5, <1>6 DEF Wellformed, SameCall
<1>8. /\ x.move \in [Products -> Int] /\ x.hold \in [Products -> Int]
      /\ x.todo \subseteq Products /\ DOMAIN x.seen \subseteq Products
      /\ \A q \in Products : q \notin x.todo \cup DOMAIN x.seen => x.move[q] = 0 /\ x.hold[q] = 0
  BY <1>2, <1>5 DEF Wellformed, SameCall
<1>9. Wellformed(x)
  BY <1>5, <1>7, <1>8 DEF Wellformed
<1> QED BY <1>2, <1>5, <1>9

\* A step that reads or inserts a stock row goes on with the same call.
GoesOn(t, x) ==
    /\ session' = [session EXCEPT ![t] = x]
    /\ Fixed(x) /\ There(x)
    /\ x.op = session[t].op /\ x.wh = session[t].wh

LEMMA ReadOK ==
    ASSUME DataOK, SessionsOK, NEW t \in Threads, NEW p \in Products, ReadStock(t, p)
    PROVE  \E x : GoesOn(t, x) /\ x.made = session[t].made
<1>1. PICK s : s = session[t]
  OBVIOUS
<1>2. PICK row : row = StockRow(s.wh, p)
  OBVIOUS
<1>3. PICK x : x = KeepRow(t, p, row)
  OBVIOUS
<1>4. /\ session' = [session EXCEPT ![t] = x] /\ <<s.wh, p>> \in rows /\ Allowed(s, p, row)
      /\ Wellformed(s) /\ Job(s) /\ DocsThere(s) /\ RowsThere(s)
  BY <1>1, <1>2, <1>3 DEF ReadStock, SessionsOK, Fixed, There
<1>5. ASSUME s.wh \in Warehouses PROVE row.onHand \in Int /\ row.reserved \in Int
  BY <1>2, <1>5 DEF StockRow, DataOK, TypeOK
<1>6. Wellformed(x) /\ SameCall(x, s) /\ x.made = s.made /\ DOMAIN x.seen = DOMAIN s.seen \cup {p}
  BY <1>1, <1>3, <1>4, <1>5, RowSeen
<1>7. RowsThere(x)
  BY <1>4, <1>6 DEF RowsThere, SameCall
<1>8. Job(x) /\ DocsThere(x)
  BY <1>4, <1>6, SameCallFits
<1> QED BY <1>1, <1>4, <1>6, <1>7, <1>8 DEF GoesOn, Fixed, There, SameCall

LEMMA MissOK ==
    ASSUME SessionsOK, NEW t \in Threads, NEW p \in Products, MissStock(t, p)
    PROVE  \E x : GoesOn(t, x) /\ x.made = session[t].made
<1>1. PICK s : s = session[t]
  OBVIOUS
<1>2. PICK x : x = [s EXCEPT !.making = p]
  OBVIOUS
<1>3. /\ session' = [session EXCEPT ![t] = x] /\ Allowed(s, p, MissingRow)
      /\ Wellformed(s) /\ Job(s) /\ DocsThere(s) /\ RowsThere(s)
  BY <1>1, <1>2 DEF MissStock, SessionsOK, Fixed, There
<1>4. s = [op |-> s.op, doc |-> s.doc, arg |-> s.arg, wh |-> s.wh, move |-> s.move, hold |-> s.hold,
           todo |-> s.todo, seen |-> s.seen, making |-> s.making, made |-> s.made, loaded |-> s.loaded]
  BY <1>3 DEF Wellformed
<1>5. x = [op |-> s.op, doc |-> s.doc, arg |-> s.arg, wh |-> s.wh, move |-> s.move, hold |-> s.hold,
           todo |-> s.todo, seen |-> s.seen, making |-> p, made |-> s.made, loaded |-> s.loaded]
  BY <1>2, <1>4
<1>6. /\ x = [op |-> x.op, doc |-> x.doc, arg |-> x.arg, wh |-> x.wh, move |-> x.move, hold |-> x.hold,
              todo |-> x.todo, seen |-> x.seen, making |-> x.making, made |-> x.made, loaded |-> x.loaded]
      /\ SameCall(x, s) /\ x.todo = s.todo /\ x.seen = s.seen /\ x.making = p /\ x.made = s.made
  BY <1>5 DEF SameCall
<1>7. \A q \in Products : \A r : Allowed(s, q, r) => Allowed(x, q, r)
  BY <1>6 DEF SameCall, Allowed
<1>8. Wellformed(x)
  BY <1>3, <1>6, <1>7 DEF Wellformed, SameCall
<1>9. RowsThere(x)
  BY <1>3, <1>6 DEF RowsThere, SameCall
<1>10. Job(x) /\ DocsThere(x)
  BY <1>3, <1>6, SameCallFits
<1> QED BY <1>1, <1>3, <1>6, <1>8, <1>9, <1>10 DEF GoesOn, Fixed, There, SameCall

LEMMA InsertOK ==
    ASSUME SessionsOK, NEW t \in Threads, InsertStock(t)
    PROVE  \E x : /\ GoesOn(t, x) /\ x.made = session[t].made \cup {session[t].making}
                  /\ <<session[t].wh, session[t].making>> \notin rows
                  /\ \A u \in Threads :
                        session[u].wh = session[t].wh => session[t].making \notin session[u].made
<1>1. PICK s : s = session[t]
  OBVIOUS
<1>2. PICK p : p = s.making
  OBVIOUS
<1>3. PICK y : y = KeepRow(t, p, MissingRow)
  OBVIOUS
<1>4. PICK x : x = [y EXCEPT !.made = @ \cup {p}]
  OBVIOUS
<1>5. /\ session' = [session EXCEPT ![t] = x] /\ p # None /\ <<s.wh, p>> \notin rows
      /\ \A u \in Threads : session[u].wh = s.wh => p \notin session[u].made
      /\ Wellformed(s) /\ Job(s) /\ DocsThere(s) /\ RowsThere(s)
  BY <1>1, <1>2, <1>3, <1>4 DEF InsertStock, SessionsOK, Fixed, There
<1>6. p \in Products /\ Allowed(s, p, MissingRow)
  BY <1>2, <1>5 DEF Wellformed
<1>7. MissingRow.onHand \in Int /\ MissingRow.reserved \in Int
  BY DEF MissingRow
<1>8. Wellformed(y) /\ SameCall(y, s) /\ y.made = s.made /\ DOMAIN y.seen = DOMAIN s.seen \cup {p}
  BY <1>1, <1>3, <1>5, <1>6, <1>7, RowSeen
<1>9. y = [op |-> y.op, doc |-> y.doc, arg |-> y.arg, wh |-> y.wh, move |-> y.move, hold |-> y.hold,
           todo |-> y.todo, seen |-> y.seen, making |-> y.making, made |-> y.made, loaded |-> y.loaded]
  BY <1>8 DEF Wellformed
<1>10. x = [op |-> y.op, doc |-> y.doc, arg |-> y.arg, wh |-> y.wh, move |-> y.move, hold |-> y.hold,
            todo |-> y.todo, seen |-> y.seen, making |-> y.making, made |-> y.made \cup {p},
            loaded |-> y.loaded]
  BY <1>4, <1>9
<1>11. /\ x = [op |-> x.op, doc |-> x.doc, arg |-> x.arg, wh |-> x.wh, move |-> x.move, hold |-> x.hold,
               todo |-> x.todo, seen |-> x.seen, making |-> x.making, made |-> x.made, loaded |-> x.loaded]
       /\ SameCall(x, y) /\ x.todo = y.todo /\ x.seen = y.seen /\ x.making = y.making
       /\ x.made = y.made \cup {p}
  BY <1>10 DEF SameCall
<1>12. \A q \in Products : \A r : Allowed(y, q, r) => Allowed(x, q, r)
  BY <1>11 DEF SameCall, Allowed
<1>13. (y.making # None => Allowed(y, y.making, MissingRow)) => 
       (x.making # None => Allowed(x, x.making, MissingRow))
  BY <1>11 DEF SameCall, Allowed
<1>14. Wellformed(x)
  BY <1>8, <1>11, <1>12, <1>13 DEF Wellformed, SameCall
<1>15. SameCall(x, s)
  BY <1>8, <1>11 DEF SameCall
<1>16. RowsThere(x)
  BY <1>5, <1>8, <1>11, <1>15 DEF RowsThere, SameCall
<1>17. Job(x) /\ DocsThere(x)
  BY <1>5, <1>15, SameCallFits
<1> QED BY <1>1, <1>2, <1>5, <1>8, <1>11, <1>14, <1>15, <1>16, <1>17 DEF GoesOn, Fixed, There, SameCall

-----------------------------------------------------------------------------
(* Rows are inserted once.                                                 *)

\* A session that goes on without inserting a row.
LEMMA OnceGoesOn ==
    ASSUME SessionsOK, RowsInsertedOnce, NEW t \in Threads, NEW x,
           session' = [session EXCEPT ![t] = x], rows' = rows,
           x.wh = session[t].wh, x.made = session[t].made
    PROVE  RowsInsertedOnce'
<1>1. \A u \in Threads : session'[u].wh = session[u].wh /\ session'[u].made = session[u].made
  BY DEF SessionsOK
<1> QED BY <1>1 DEF RowsInsertedOnce

\* The INSERT waits for the other session's transaction, so that no two of them
\* hold the same row.
LEMMA OnceInserts ==
    ASSUME SessionsOK, RowsInsertedOnce, NEW t \in Threads, NEW x, NEW p,
           session' = [session EXCEPT ![t] = x], rows' = rows,
           x.wh = session[t].wh, x.made = session[t].made \cup {p},
           <<session[t].wh, p>> \notin rows,
           \A u \in Threads : session[u].wh = session[t].wh => p \notin session[u].made
    PROVE  RowsInsertedOnce'
<1>1. /\ \A u \in Threads : session'[u].wh = session[u].wh
      /\ session'[t].made = session[t].made \cup {p}
      /\ \A u \in Threads \ {t} : session'[u].made = session[u].made
  BY DEF SessionsOK
<1> SUFFICES ASSUME NEW a \in Threads, NEW b \in Threads, NEW k \in session'[a].made
             PROVE  /\ <<session'[a].wh, k>> \notin rows'
                    /\ a # b /\ session'[b].wh = session'[a].wh => k \notin session'[b].made
  BY DEF RowsInsertedOnce
<1>2. CASE k \in session[a].made
  <2>1. CASE b = t /\ a # b
    BY <1>1, <1>2, <2>1 DEF RowsInsertedOnce
  <2>2. CASE ~(b = t /\ a # b)
    BY <1>1, <1>2, <2>2 DEF RowsInsertedOnce
  <2> QED BY <2>1, <2>2
<1>3. CASE k \notin session[a].made
  <2>1. a = t /\ k = p
    BY <1>1, <1>3
  <2> QED BY <1>1, <2>1
<1> QED BY <1>2, <1>3

\* A commit makes only rows that exist already or that the session has
\* inserted itself, so that no other session is inserting one of them.
LEMMA OnceEnds ==
    ASSUME SessionsOK, RowsInsertedOnce, NEW t \in Threads, NEW x,
           session' = [session EXCEPT ![t] = x], x.made = {},
           rows' \subseteq rows \cup {<<session[t].wh, p>> : p \in DOMAIN session[t].seen}
    PROVE  RowsInsertedOnce'
<1>1. /\ session'[t].made = {}
      /\ \A u \in Threads \ {t} : session'[u].made = session[u].made /\ session'[u].wh = session[u].wh
  BY DEF SessionsOK
<1> SUFFICES ASSUME NEW a \in Threads, NEW b \in Threads, NEW k \in session'[a].made
             PROVE  /\ <<session'[a].wh, k>> \notin rows'
                    /\ a # b /\ session'[b].wh = session'[a].wh => k \notin session'[b].made
  BY DEF RowsInsertedOnce
<1>2. a # t /\ k \in session[a].made /\ session'[a].wh = session[a].wh /\ <<session[a].wh, k>> \notin rows
  BY <1>1 DEF RowsInsertedOnce
<1>3. ASSUME <<session[a].wh, k>> \in rows' PROVE FALSE
  <2>1. PICK p \in DOMAIN session[t].seen : <<session[a].wh, k>> = <<session[t].wh, p>>
    BY <1>2, <1>3
  <2>2. session[a].wh = session[t].wh /\ k = p
    BY <2>1
  <2>3. p \notin session[t].made
    BY <1>2, <2>2 DEF RowsInsertedOnce
  <2>4. <<session[t].wh, p>> \in rows
    BY <2>3 DEF SessionsOK, There, RowsThere
  <2> QED BY <1>2, <2>2, <2>4
<1>4. a # b /\ session'[b].wh = session'[a].wh => k \notin session'[b].made
  BY <1>1, <1>2 DEF RowsInsertedOnce
<1> QED BY <1>2, <1>3, <1>4

-----------------------------------------------------------------------------
(* The invariant of any interleaving.                                      *)

SessionInv == DataOK /\ SessionsOK /\ WorkerOK /\ ManualsBounded /\ RowsInsertedOnce

LEMMA CommitShape ==
    ASSUME NEW t, Commit(t)
    PROVE  /\ session' = [session EXCEPT ![t] = IdleSession]
           /\ worker' = worker /\ session[t].todo = {} /\ stale' = (stale \/ ~Fresh(t))
           /\ rows' \subseteq rows \cup {<<session[t].wh, p>> : p \in DOMAIN session[t].seen}
           /\ \/ manuals' = manuals
              \/ manuals' = manuals + 1 /\ session[t].op = "manual"
<1>1. EndCommit(t)
  BY DEF Commit, CommitGenerate, CommitPick, CommitComplete, CommitShip, CommitDeliver, CommitReceive,
         CommitManual
<1>2. rows' = rows \/ rows' = rows \cup {<<session[t].wh, p>> : p \in DOMAIN session[t].seen}
  BY DEF Commit, CommitGenerate, CommitPick, CommitComplete, CommitShip, CommitDeliver, CommitReceive,
         CommitManual, WriteStock, NoStock
<1>3. \/ manuals' = manuals
      \/ manuals' = manuals + 1 /\ session[t].op = "manual"
  BY DEF Commit, CommitGenerate, CommitPick, CommitComplete, CommitShip, CommitDeliver, CommitReceive,
         CommitManual
<1> QED BY <1>1, <1>2, <1>3 DEF EndCommit

LEMMA CommitKeeps ==
    ASSUME ConstantsAssumption, ThreadsAssumption, SessionInv, NEW t \in Threads, Commit(t)
    PROVE  DataOK' /\ Kept
<1>1. DataOK /\ Fixed(session[t]) /\ There(session[t])
  BY DEF SessionInv, SessionsOK
<1>2. ASSUME CommitManual(t) PROVE DataOK' /\ Kept
  <2>1. manuals < MaxManual
    BY <1>2, ManualRoom DEF CommitManual, SessionInv, DataOK
  <2> QED BY <1>1, <1>2, <2>1, ManualKeeps
<1>3. ASSUME NEW l \in PickLists, CommitGenerate(t, l) PROVE DataOK' /\ Kept
  BY <1>1, <1>3, GenerateKeeps
<1>4. ASSUME NEW n \in Shipments, CommitShip(t, n) PROVE DataOK' /\ Kept
  BY <1>1, <1>4, ShipKeeps
<1>5. CASE CommitPick(t) \/ CommitComplete(t) \/ CommitDeliver(t) \/ CommitReceive(t)
  BY <1>1, <1>5, PickKeeps, CompleteKeeps, DeliverKeeps, ReceiveKeeps
<1> QED BY <1>2, <1>3, <1>4, <1>5 DEF Commit

LEMMA CommitInv ==
    ASSUME ConstantsAssumption, ThreadsAssumption, SessionInv, NEW t \in Threads, Commit(t)
    PROVE  SessionInv'
<1>1. DataOK' /\ Kept
  BY CommitKeeps
<1>2. PICK x : x = IdleSession
  OBVIOUS
<1>3. Fixed(x) /\ There(x) /\ x.made = {} /\ x.op = "idle"
  BY <1>2, IdleFits
<1>4. session' = [session EXCEPT ![t] = x]
  BY <1>2, CommitShape
<1>5. SessionsOK'
  BY <1>1, <1>3, <1>4, KeptThere, SessionStep DEF SessionInv, DataOK
<1>6. RowsInsertedOnce'
  BY <1>3, <1>4, CommitShape, OnceEnds DEF SessionInv
<1>7. ManualsBounded'
  <2>1. \/ manuals' = manuals /\ (x.op = "manual" => session[t].op = "manual")
        \/ manuals' = manuals + 1 /\ session[t].op = "manual" /\ x.op # "manual"
    BY <1>3, CommitShape
  <2> QED BY <1>4, <2>1, ManualsStep DEF SessionInv, DataOK
<1>8. WorkerOK'
  BY CommitShape DEF SessionInv, WorkerOK
<1> QED BY <1>1, <1>5, <1>6, <1>7, <1>8 DEF SessionInv

\* Loading, reading, inserting and rolling back change one session only.
LEMMA QuietInv ==
    ASSUME ConstantsAssumption, ThreadsAssumption, SessionInv, NEW t \in Threads,
           \/ Load(t) \/ InsertStock(t) \/ Rollback(t)
           \/ \E p \in Products : ReadStock(t, p) \/ MissStock(t, p)
    PROVE  SessionInv' /\ UNCHANGED <<dataVars, stale>>
<1>0. DataOK /\ SessionsOK /\ RowsInsertedOnce /\ ManualsBounded /\ TypeOK /\ RequestsThere
  BY DEF SessionInv, DataOK
<1>1. UNCHANGED <<dataVars, worker, rows, stale>>
  <2>1. CASE Load(t)
    BY <1>0, <2>1, LoadOK
  <2>2. CASE ~Load(t)
    BY <2>2 DEF InsertStock, Rollback, ReadStock, MissStock
  <2> QED BY <2>1, <2>2
<1>2. DataOK' /\ Kept
  BY <1>0, <1>1, SameData
<1>3. WorkerOK'
  BY <1>1 DEF WorkerOK, SessionInv
<1>4. manuals' = manuals
  BY <1>1 DEF dataVars, docVars
<1>5. ASSUME NEW x, session' = [session EXCEPT ![t] = x], Fixed(x), There(x) \/ There(x)',
             x.op = "manual" =>
                 session[t].op = "manual" \/ manuals + Cardinality(ManualSessions) < MaxManual
      PROVE  SessionsOK' /\ ManualsBounded'
  <2>1. There(x)'
    BY <1>0, <1>2, <1>5, KeptThere
  <2>2. SessionsOK'
    BY <1>0, <1>2, <1>5, <2>1, SessionStep
  <2>3. ManualsBounded'
    BY <1>0, <1>4, <1>5, ManualsStep
  <2> QED BY <2>2, <2>3
<1>6. CASE Load(t)
  <2>1. PICK x : Started(t, x)
    BY <1>0, <1>6, LoadOK
  <2>2. SessionsOK' /\ ManualsBounded'
    BY <1>5, <2>1 DEF Started
  <2>3. RowsInsertedOnce'
    BY <1>0, <1>1, <2>1, OnceEnds DEF Started
  <2> QED BY <1>1, <1>2, <1>3, <2>2, <2>3 DEF SessionInv
<1>7. CASE Rollback(t)
  <2>1. PICK x : x = IdleSession
    OBVIOUS
  <2>2. Fixed(x) /\ There(x) /\ x.made = {} /\ x.op = "idle"
    BY <2>1, IdleFits
  <2>3. session' = [session EXCEPT ![t] = x]
    BY <1>7, <2>1 DEF Rollback
  <2>4. SessionsOK' /\ ManualsBounded'
    BY <1>5, <2>2, <2>3
  <2>5. RowsInsertedOnce'
    BY <1>0, <1>1, <2>2, <2>3, OnceEnds
  <2> QED BY <1>1, <1>2, <1>3, <2>4, <2>5 DEF SessionInv
<1>8. CASE InsertStock(t)
  <2>1. PICK x : /\ GoesOn(t, x) /\ x.made = session[t].made \cup {session[t].making}
                 /\ <<session[t].wh, session[t].making>> \notin rows
                 /\ \A u \in Threads :
                       session[u].wh = session[t].wh => session[t].making \notin session[u].made
    BY <1>0, <1>8, InsertOK
  <2>2. SessionsOK' /\ ManualsBounded'
    BY <1>5, <2>1 DEF GoesOn
  <2>3. RowsInsertedOnce'
    BY <1>0, <1>1, <2>1, OnceInserts DEF GoesOn
  <2> QED BY <1>1, <1>2, <1>3, <2>2, <2>3 DEF SessionInv
<1>9. ASSUME NEW p \in Products, ReadStock(t, p) \/ MissStock(t, p) PROVE SessionInv'
  <2>1. PICK x : GoesOn(t, x) /\ x.made = session[t].made
    BY <1>0, <1>9, ReadOK, MissOK
  <2>2. SessionsOK' /\ ManualsBounded'
    BY <1>5, <2>1 DEF GoesOn
  <2>3. RowsInsertedOnce'
    BY <1>0, <1>1, <2>1, OnceGoesOn DEF GoesOn
  <2> QED BY <1>1, <1>2, <1>3, <2>2, <2>3 DEF SessionInv
<1> QED BY <1>1, <1>6, <1>7, <1>8, <1>9

-----------------------------------------------------------------------------
(* A commit whose values are still current is an action of WarehouseOps.   *)

\* What it writes to the stock rows, in the words of WarehouseOps.
LEMMA FreshStock ==
    ASSUME TypeOK, NeverNegative, NEW t, NEW s, s = session[t], Wellformed(s), s.todo = {},
           WriteStock(t), Fresh(t)
    PROVE  /\ s.wh \in Warehouses => ApplyMovement(s.wh, s.move)
           /\ s.move = NoLines => UNCHANGED <<onHand, ledger>>
           /\ s.hold = NoLines => UNCHANGED reserved
           /\ s.wh \in Warehouses /\ s.hold \in [Products -> Nat] => Reserve(s.wh, s.hold)
           /\ \A qty \in [Products -> Nat] : s.hold = Negated(qty) => Release(s.wh, qty)
<1> DEFINE v == s.wh
<1>1. /\ onHand' = [onHand EXCEPT ![v] = Plus(onHand[v], s.move)]
      /\ ledger' = [ledger EXCEPT ![v] = Plus(ledger[v], s.move)]
      /\ reserved' = [reserved EXCEPT ![v] = [p \in Products |-> Max0(reserved[v][p] + s.hold[p])]]
      /\ v \in Warehouses =>
             \A p \in Products : /\ onHand[v][p] + s.move[p] >= 0
                                 /\ s.hold[p] > 0 => s.hold[p] <= onHand[v][p] - reserved[v][p]
  <2>1. Wellformed(session[t]) /\ session[t].todo = {}
    OBVIOUS
  <2>2. \A p \in DOMAIN session[t].seen : session[t].seen[p] = StockRow(session[t].wh, p)
    BY DEF Fresh
  <2> QED BY <2>1, <2>2, WriteFresh
<1> HIDE DEF v
<1>2. v = s.wh
  BY DEF v
<1>3. v \in Warehouses =>
        /\ onHand[v] \in [Products -> Int] /\ ledger[v] \in [Products -> Int]
        /\ reserved[v] \in [Products -> Int] /\ \A p \in Products : reserved[v][p] >= 0
  BY DEF TypeOK, NeverNegative
<1>4. v \in Warehouses => ApplyMovement(v, s.move)
  BY <1>1 DEF ApplyMovement
<1>5. ASSUME s.move = NoLines PROVE UNCHANGED <<onHand, ledger>>
  <2>1. v \in Warehouses => Plus(onHand[v], s.move) = onHand[v] /\ Plus(ledger[v], s.move) = ledger[v]
    BY <1>3, <1>5 DEF Plus, NoLines
  <2> QED BY <1>1, <2>1 DEF TypeOK
<1>6. ASSUME s.hold = NoLines PROVE UNCHANGED reserved
  <2> DEFINE new == [p \in Products |-> Max0(reserved[v][p] + s.hold[p])]
  <2>1. v \in Warehouses => new = reserved[v]
    BY <1>3, <1>6 DEF Max0, NoLines
  <2> HIDE DEF new
  <2>2. reserved' = [reserved EXCEPT ![v] = new]
    BY <1>1 DEF new
  <2> QED BY <2>1, <2>2 DEF TypeOK
<1>7. ASSUME v \in Warehouses, s.hold \in [Products -> Nat] PROVE Reserve(v, s.hold)
  <2>1. [p \in Products |-> Max0(reserved[v][p] + s.hold[p])] = Plus(reserved[v], s.hold)
    <3>1. \A p \in Products : Max0(reserved[v][p] + s.hold[p]) = reserved[v][p] + s.hold[p]
      BY <1>3, <1>7 DEF Max0
    <3> QED BY <3>1 DEF Plus
  <2> QED BY <1>1, <1>7, <2>1 DEF Reserve
<1>8. ASSUME NEW qty \in [Products -> Nat], s.hold = Negated(qty) PROVE Release(v, qty)
  <2> DEFINE new == [p \in Products |-> Max0(reserved[v][p] + s.hold[p])]
             rest == [p \in Products |-> Max0(reserved[v][p] - qty[p])]
  <2>1. v \in Warehouses => new = rest
    <3> SUFFICES ASSUME v \in Warehouses, NEW p \in Products
                 PROVE  reserved[v][p] + s.hold[p] = reserved[v][p] - qty[p]
      OBVIOUS
    <3>1. s.hold[p] = 0 - qty[p]
      BY <1>8 DEF Negated, Minus, NoLines
    <3> QED BY <1>3, <3>1
  <2>2. reserved' = [reserved EXCEPT ![v] = new]
    BY <1>1
  <2>3. reserved' = [reserved EXCEPT ![v] = rest]
    <3> HIDE DEF new, rest
    <3> QED BY <2>1, <2>2 DEF TypeOK
  <2> QED BY <2>3 DEF Release
<1> QED BY <1>2, <1>4, <1>5, <1>6, <1>7, <1>8

LEMMA FreshGenerate ==
    ASSUME NEW t, Fixed(session[t]), There(session[t]), Fresh(t), NEW l \in PickLists,
           CommitGenerate(t, l)
    PROVE  Next
<1> DEFINE r == session[t].doc
<1>1. r \in Requests /\ session[t].loaded.request.status = "requested"
  BY DEF CommitGenerate, There, DocsThere, Fixed, Job
<1>2. session[t].loaded.request = request[r]
  <2>1. session[t].loaded = DocsOf("generate", r)
    BY DEF Fresh, CommitGenerate
  <2> HIDE DEF r
  <2> QED BY <2>1, DocsOfFields
<1>3. GeneratePickList(r, l)
  BY <1>1, <1>2 DEF CommitGenerate, GeneratePickList, NeedsPickList, NoStock, EndCommit
<1> QED BY <1>1, <1>3 DEF Next

LEMMA FreshPick ==
    ASSUME TypeOK, NEW t, Fixed(session[t]), There(session[t]), Fresh(t), CommitPick(t)
    PROVE  Next
<1> DEFINE s == session[t]
           l == s.doc
           p == s.arg[1]
           q == s.arg[2]
<1>1. /\ l \in PickLists /\ p \in Products /\ q \in 0..MaxQty
      /\ s.loaded.lists[l].status \notin {"absent", "complete"} /\ PickAllowed(l, p, q)
  BY DEF CommitPick, There, DocsThere, Fixed, Job
<1>2. s.loaded.lists[l] = pickList[l]
  <2>1. s.loaded = DocsOf("pick", l)
    BY DEF Fresh, CommitPick
  <2> HIDE DEF l
  <2> QED BY <2>1, DocsOfFields
<1>3. pickList[l] \in [status: PickListStatus, request: Requests, picked: [Products -> Nat]]
  BY <1>1, <1>2 DEF TypeOK, PickListRows, NoPickList
<1>4. pickList' = [pickList EXCEPT ![l].picked[p] = q, ![l].status = "in_progress"]
  <2> DEFINE old == s.loaded.lists[l]
  <2>1. pickList' = [pickList EXCEPT
                        ![l].picked[p] = Written(old.picked[p], q, pickList[l].picked[p]),
                        ![l].status = Written(old.status, "in_progress", pickList[l].status)]
    BY DEF CommitPick
  <2>2. /\ Written(old.picked[p], q, pickList[l].picked[p]) = q
        /\ Written(old.status, "in_progress", pickList[l].status) = "in_progress"
    BY <1>2 DEF Written
  <2> HIDE DEF old, l, p, q
  <2> QED BY <2>1, <2>2
<1>5. pickList' = [pickList EXCEPT ![l] = [pickList[l] EXCEPT !.status = "in_progress",
                                              !.picked = [pickList[l].picked EXCEPT ![p] = q]]]
  <2> DEFINE once == [pickList[l] EXCEPT !.picked[p] = q]
             row == [pickList[l] EXCEPT !.status = "in_progress",
                                        !.picked = [pickList[l].picked EXCEPT ![p] = q]]
  <2> HIDE DEF l, p, q
  <2>1. row = [once EXCEPT !.status = "in_progress"]
    BY <1>3
  <2>2. pickList' = [pickList EXCEPT ![l] = [once EXCEPT !.status = "in_progress"]]
    BY <1>1, <1>4 DEF TypeOK
  <2>3. pickList' = [pickList EXCEPT ![l] = row]
    <3> HIDE DEF row, once
    <3> QED BY <2>1, <2>2
  <2> QED BY <2>3
<1>6. StillOpen(l)
  BY <1>1, <1>2 DEF StillOpen
<1>7. RecordPick(l, p, q)
  BY <1>1, <1>5, <1>6 DEF RecordPick, CommitPick, NoStock, EndCommit
<1> QED BY <1>1, <1>7 DEF Next

LEMMA FreshComplete ==
    ASSUME DataOK, NEW t, Fixed(session[t]), There(session[t]), Fresh(t), CommitComplete(t)
    PROVE  Next
<1> DEFINE s == session[t]
           l == s.doc
           r == pickList[l].request
<1>1. /\ l \in PickLists /\ s.loaded.lists[l].status \notin {"absent", "complete"}
      /\ s.wh = s.loaded.request.source /\ s.move = NoLines /\ s.hold = s.loaded.lists[l].picked
  BY DEF CommitComplete, There, DocsThere, Fixed, Job
<1>2. s.loaded.lists[l] = pickList[l] /\ s.loaded.request = request[r]
  <2>1. s.loaded = DocsOf("complete", l)
    BY DEF Fresh, CommitComplete
  <2> HIDE DEF l
  <2> QED BY <2>1, DocsOfFields
<1>3. /\ pickList[l] \in [status: PickListStatus, request: Requests, picked: [Products -> Nat]]
      /\ request[r].status # "absent"
  BY <1>1, <1>2 DEF DataOK, RequestsThere, TypeOK, PickListRows, NoPickList
<1>4. request[r].source \in Warehouses
  BY <1>3 DEF DataOK, TypeOK, RequestRows, NoRequest
<1>5. UNCHANGED <<onHand, ledger>> /\ Reserve(request[r].source, pickList[l].picked)
  <2>1. PICK x : x = s
    OBVIOUS
  <2>2. /\ Wellformed(x) /\ x.todo = {} /\ x.move = NoLines /\ x.wh = request[r].source
        /\ x.hold = pickList[l].picked /\ x.hold \in [Products -> Nat]
    BY <1>1, <1>2, <1>3, <2>1 DEF Fixed, CommitComplete, EndCommit
  <2> QED BY <1>4, <2>1, <2>2, FreshStock DEF CommitComplete, DataOK
<1>6. request' = [request EXCEPT ![r].status = "packed"]
  BY <1>2 DEF CommitComplete, Written
<1>7. CompletePickList(l)
  BY <1>1, <1>2, <1>5, <1>6 DEF CompletePickList, StillOpen, CommitComplete, EndCommit
<1> QED BY <1>1, <1>7 DEF Next

LEMMA FreshShip ==
    ASSUME ConstantsAssumption, DataOK, NEW t, Fixed(session[t]), There(session[t]), Fresh(t),
           NEW n \in Shipments, CommitShip(t, n)
    PROVE  Next
<1> DEFINE s == session[t]
           r == s.doc
           w == request[r].source
           picked == PickedQuantities(r)
<1>1. /\ r \in Requests /\ s.loaded.request.status = "packed" /\ s.wh = s.loaded.request.source
      /\ PickedIn(s.loaded.lists) # NoLines
      /\ s.move = Negated(PickedIn(s.loaded.lists)) /\ s.hold = Negated(PickedIn(s.loaded.lists))
  BY DEF CommitShip, There, DocsThere, Fixed, Job
<1>2. s.loaded.request = request[r] /\ PickedIn(s.loaded.lists) = picked
  <2>1. s.loaded = DocsOf("ship", r)
    BY DEF Fresh, CommitShip
  <2> HIDE DEF r
  <2> QED BY <2>1, DocsOfFields, PickedLoaded
<1>3. w \in Warehouses /\ picked \in [Products -> Nat]
  <2>1. picked \in [Products -> Nat]
    BY PickedType DEF DataOK
  <2> HIDE DEF picked
  <2> QED BY <1>1, <1>2, <2>1 DEF DataOK, TypeOK, RequestRows, NoRequest
<1> HIDE DEF picked
<1>4. ApplyMovement(w, Minus(NoLines, picked)) /\ Release(w, picked)
  <2>1. PICK x : x = s
    OBVIOUS
  <2>2. /\ Wellformed(x) /\ x.todo = {} /\ x.wh = w
        /\ x.move = Negated(picked) /\ x.hold = Negated(picked)
    BY <1>1, <1>2, <2>1 DEF Fixed, CommitShip, EndCommit
  <2> QED BY <1>3, <2>1, <2>2, FreshStock DEF CommitShip, DataOK, Negated
<1>5. TakeOut(n, picked)
  <2>1. moved[n].out \in [Products -> Nat]
    BY RowType DEF DataOK, References
  <2>2. Minus(moved[n].out, Negated(picked)) = Plus(moved[n].out, picked)
    BY <1>3, <2>1 DEF Minus, Plus, Negated, NoLines
  <2>3. moved' = [moved EXCEPT ![n].out = Minus(moved[n].out, Negated(picked))]
    BY <1>1, <1>2 DEF CommitShip
  <2> QED BY <2>2, <2>3 DEF TakeOut
<1>6. ReadyToShip(r) /\ PickedQuantities(r) = picked
  BY <1>1, <1>2 DEF ReadyToShip, picked
<1>7. Ship(r, n)
  BY <1>4, <1>5, <1>6 DEF Ship, CommitShip, EndCommit
<1> QED BY <1>1, <1>7 DEF Next

LEMMA FreshDeliver ==
    ASSUME ConstantsAssumption, DataOK, NEW t, Fixed(session[t]), There(session[t]), Fresh(t),
           CommitDeliver(t)
    PROVE  Next
<1> DEFINE s == session[t]
           n == s.doc
           r == shipment[n].request
           d == request[r].dest
           picked == PickedQuantities(r)
<1>1. /\ n \in Shipments /\ shipment[n].status # "absent"
      /\ s.loaded.shipment.status = "shipped" /\ s.wh = s.loaded.request.dest
      /\ s.move = IF s.wh # None THEN PickedIn(s.loaded.lists) ELSE NoLines
      /\ s.hold = NoLines
  BY DEF CommitDeliver, There, DocsThere, Fixed, Job
<1>2. /\ s.loaded.shipment = shipment[n] /\ s.loaded.request = request[r]
      /\ PickedIn(s.loaded.lists) = picked
  <2>1. s.loaded = DocsOf("deliver", n)
    BY DEF Fresh, CommitDeliver
  <2>2. PickedIn([l \in ListsOf(r) |-> pickList[l]]) = picked
    <3> HIDE DEF r
    <3> QED BY PickedLoaded
  <2>3. /\ s.loaded.shipment = shipment[n] /\ s.loaded.request = request[r]
        /\ s.loaded.lists = [l \in ListsOf(r) |-> pickList[l]]
    <3> HIDE DEF n
    <3> QED BY <2>1, DocsOfFields
  <2> QED BY <2>2, <2>3
<1>3. d \in Warehouses \cup {None}
  <2>1. r \in Requests /\ request[r].status # "absent"
    BY <1>1, ReferenceRows DEF DataOK, RequestsThere
  <2> QED BY <2>1 DEF DataOK, TypeOK, RequestRows, NoRequest
<1> HIDE DEF picked
<1>4. /\ s.wh \in Warehouses => ApplyMovement(s.wh, s.move)
      /\ s.move = NoLines => UNCHANGED <<onHand, ledger>>
      /\ UNCHANGED reserved
  <2>1. PICK x : x = s
    OBVIOUS
  <2>2. Wellformed(x) /\ x.todo = {} /\ x.hold = NoLines
    BY <1>1, <2>1 DEF Fixed, CommitDeliver, EndCommit
  <2> QED BY <2>1, <2>2, FreshStock DEF CommitDeliver, DataOK
<1>5. moved' = [moved EXCEPT ![n].in = Plus(moved[n].in, s.move)]
  BY DEF CommitDeliver
<1>6. IF IsInternalTransfer(r)
      THEN ApplyMovement(request[r].dest, picked) /\ PutIn(n, picked)
      ELSE UNCHANGED <<onHand, ledger, moved>>
  <2>1. CASE IsInternalTransfer(r)
    <3>1. s.wh \in Warehouses /\ s.wh = d /\ s.move = picked
      BY <1>1, <1>2, <1>3, <2>1 DEF IsInternalTransfer
    <3> QED BY <1>4, <1>5, <2>1, <3>1 DEF PutIn
  <2>2. CASE ~IsInternalTransfer(r)
    <3>1. s.move = NoLines
      BY <1>1, <1>2, <2>2 DEF IsInternalTransfer
    <3>2. moved[n] \in MovedRows /\ moved[n].in \in [Products -> Nat]
      BY <1>1 DEF DataOK, TypeOK, References, MovedRows
    <3>3. Plus(moved[n].in, NoLines) = moved[n].in
      BY <3>2 DEF Plus, NoLines
    <3>4. moved' = [moved EXCEPT ![n].in = moved[n].in]
      BY <1>5, <3>1, <3>3
    <3>5. moved' = moved
      <4> HIDE DEF n
      <4> QED BY <1>1, <3>2, <3>4 DEF DataOK, TypeOK, MovedRows
    <3> QED BY <1>4, <2>2, <3>1, <3>5
  <2> QED BY <2>1, <2>2
<1>7. request' = [request EXCEPT ![r].status = "delivered"]
  BY <1>2 DEF CommitDeliver, Written
<1>8. UnderWay(n) /\ PickedQuantities(r) = picked
  BY <1>1, <1>2 DEF UnderWay, picked
<1>9. Deliver(n)
  BY <1>4, <1>6, <1>7, <1>8 DEF Deliver, CommitDeliver, EndCommit
<1> QED BY <1>1, <1>9 DEF Next

LEMMA FreshReceive ==
    ASSUME ConstantsAssumption, DataOK, NEW t, Fixed(session[t]), There(session[t]), Fresh(t),
           CommitReceive(t)
    PROVE  Next
<1> DEFINE s == session[t]
           o == s.doc
           got == s.move
<1>1. /\ o \in Orders /\ got \in Lines /\ s.hold = NoLines /\ s.wh = s.loaded.order.dest
      /\ s.loaded.order.status \notin {"absent", "received"}
      /\ \A p \in Products : got[p] > 0 => s.loaded.order.ordered[p] > 0
  BY DEF CommitReceive, There, DocsThere, Fixed, Job
<1>2. s.loaded.order = order[o]
  <2>1. s.loaded = DocsOf("receive", o)
    BY DEF Fresh, CommitReceive
  <2> HIDE DEF o
  <2> QED BY <2>1, DocsOfFields
<1>3. order[o] \in [status: OrderStatus, dest: Warehouses, ordered: [Products -> Nat],
                    received: [Products -> Nat]]
  BY <1>1, <1>2 DEF DataOK, TypeOK, OrderRows, NoOrder
<1>4. ApplyMovement(order[o].dest, got) /\ UNCHANGED reserved
  <2>1. PICK x : x = s
    OBVIOUS
  <2>2. /\ Wellformed(x) /\ x.todo = {} /\ x.hold = NoLines /\ x.wh = order[o].dest
        /\ x.wh \in Warehouses /\ x.move = got
    BY <1>1, <1>2, <1>3, <2>1 DEF Fixed, CommitReceive, EndCommit
  <2> QED BY <2>1, <2>2, FreshStock DEF CommitReceive, DataOK
<1>5. Close(o, got)
  <2> DEFINE new == [p \in Products |-> Written(order[o].received[p], order[o].received[p] + got[p],
                                                order[o].received[p])]
  <2>1. new = Plus(order[o].received, got)
    BY <1>1, <1>3 DEF Written, Plus, Lines, ConstantsAssumption
  <2>2. order' = [order EXCEPT ![o].status = "received", ![o].received = new]
    BY <1>2 DEF CommitReceive
  <2> HIDE DEF new, o, got
  <2>3. order' = [order EXCEPT ![o] = [order[o] EXCEPT !.status = "received", !.received = new]]
    BY <1>1, <2>2 DEF DataOK, TypeOK
  <2> QED BY <2>1, <2>3 DEF Close
<1>6. Receivable(o, got) /\ PutIn(o, got)
  BY <1>1, <1>2 DEF Receivable, PutIn, CommitReceive
<1>7. ReceivePurchaseOrder(o, got)
  BY <1>4, <1>5, <1>6 DEF ReceivePurchaseOrder, CommitReceive, EndCommit
<1> QED BY <1>1, <1>7 DEF Next

LEMMA FreshManual ==
    ASSUME ConstantsAssumption, DataOK, manuals < MaxManual, NEW t, Fixed(session[t]), Fresh(t),
           CommitManual(t)
    PROVE  Next
<1> DEFINE s == session[t]
<1>1. PICK p \in Products, d \in ManualDeltas : s.move = [NoLines EXCEPT ![p] = d]
  BY DEF CommitManual, Fixed, Job
<1>2. s.wh \in Warehouses /\ s.hold = NoLines
  BY DEF CommitManual, Fixed, Job
<1>3. ApplyMovement(s.wh, s.move) /\ UNCHANGED reserved
  <2>1. PICK x : x = s
    OBVIOUS
  <2>2. Wellformed(x) /\ x.todo = {} /\ x.hold = NoLines /\ x.wh \in Warehouses
    BY <1>2, <2>1 DEF Fixed, CommitManual, EndCommit
  <2> QED BY <2>1, <2>2, FreshStock DEF CommitManual, DataOK
<1>4. ManualTransaction(s.wh, p, d, s.arg) /\ s.arg \in References \cup {None}
  BY <1>1, <1>3 DEF Fixed, Job, ManualTransaction, CommitManual, EndCommit
<1> QED BY <1>1, <1>2, <1>4 DEF Next

\* The worker's pass writes what it computed: where that differs from what it
\* read, and the rest is that already.
LEMMA FreshWorker ==
    ASSUME ConstantsAssumption, DataOK, WorkerOK, ReservationsExact, WorkerFresh, WorkerCommit
    PROVE  Next
<1>1. worker.target = ReservationTarget /\ worker.seen = reserved
  BY DEF WorkerFresh
<1>2. \A w \in Warehouses, p \in Products : reserved'[w][p] = ReservationTarget[w][p]
  BY <1>1 DEF WorkerCommit, Corrected, ReservationsExact
<1>3. reserved' = [w \in Warehouses |-> [p \in Products |-> reserved'[w][p]]]
  BY DEF WorkerCommit
<1>4. reserved' = ReservationTarget
  <2>1. ReservationTarget = [w \in Warehouses |-> [p \in Products |-> ReservationTarget[w][p]]]
    BY TargetType DEF DataOK
  <2> QED BY <1>2, <1>3, <2>1
<1> QED BY <1>4 DEF RecalculateReservations, WorkerCommit, Next

\* The same for every commit of the API.
LEMMA FreshCommit ==
    ASSUME ConstantsAssumption, ThreadsAssumption, SessionInv, NEW t \in Threads, Commit(t), Fresh(t)
    PROVE  Next
<1>1. DataOK /\ TypeOK /\ Fixed(session[t]) /\ There(session[t])
  BY DEF SessionInv, SessionsOK, DataOK
<1>2. ASSUME CommitManual(t) PROVE Next
  <2>1. manuals < MaxManual
    BY <1>1, <1>2, ManualRoom DEF CommitManual, SessionInv
  <2> QED BY <1>1, <1>2, <2>1, FreshManual
<1>3. ASSUME NEW l \in PickLists, CommitGenerate(t, l) PROVE Next
  BY <1>1, <1>3, FreshGenerate
<1>4. ASSUME NEW n \in Shipments, CommitShip(t, n) PROVE Next
  BY <1>1, <1>4, FreshShip
<1>5. CASE CommitPick(t)
  BY <1>1, <1>5, FreshPick
<1>6. CASE CommitComplete(t)
  BY <1>1, <1>6, FreshComplete
<1>7. CASE CommitDeliver(t)
  BY <1>1, <1>7, FreshDeliver
<1>8. CASE CommitReceive(t)
  BY <1>1, <1>8, FreshReceive
<1> QED BY <1>2, <1>3, <1>4, <1>5, <1>6, <1>7, <1>8 DEF Commit

-----------------------------------------------------------------------------
(* The theorems.                                                           *)

\* What WarehouseOps keeps, as one invariant.
SafeInv == GoodsInv /\ ReservationsExact /\ LinesKept

LEMMA SafeInit == ConstantsAssumption /\ DataInit => SafeInv
<1>1. ConstantsAssumption /\ DataInit => LinesKept
  BY DEF DataInit, LinesKept, NoPickList
<1> QED BY <1>1, GoodsInit, ExactInit DEF SafeInv

LEMMA SafeStep ==
    ASSUME ConstantsAssumption, SafeInv, [Next]_dataVars
    PROVE  SafeInv'
<1>1. /\ GoodsInv /\ StockInv /\ TypeOK /\ DocumentsAgree /\ NeverNegative /\ LedgerInSync
      /\ TransfersLeave /\ ReservationsExact /\ LinesKept
  BY DEF SafeInv, GoodsInv, StockInv
<1>2. TypeOK' /\ DocumentsAgree'
  BY <1>1, TypeStep, DocsStep
<1>3. NeverNegative' /\ LedgerInSync'
  BY <1>1, NonNegativeStep, LedgerStep
<1>4. ShipmentsMoveWhatWasPicked' /\ TransfersLeave' /\ ReceiptsBooked'
  BY <1>1, <1>2, ShipmentsStep, TransfersStep, ReceiptsStep
<1>5. ReservationsExact' /\ LinesKept'
  BY <1>1, <1>2, ExactStep, LinesStep
<1> QED BY <1>2, <1>3, <1>4, <1>5 DEF SafeInv, GoodsInv, StockInv

LEMMA SessionInit ==
    ASSUME ConstantsAssumption, ThreadsAssumption, SessInit
    PROVE  SessionInv /\ SafeInv /\ stale = FALSE
<1>1. SafeInv
  BY SafeInit DEF SessInit
<1>2. DataOK
  <2>1. RequestsThere
    BY DEF SessInit, DataInit, RequestsThere, NoPickList, NoShipment
  <2> QED BY <1>1, <2>1 DEF DataOK, SafeInv, GoodsInv, StockInv
<1>3. SessionsOK
  <2>1. DOMAIN session = Threads /\ \A t \in Threads : session[t] = IdleSession
    BY DEF SessInit
  <2> QED BY <2>1, IdleFits DEF SessionsOK
<1>4. WorkerOK
  BY DEF SessInit, WorkerOK, IdleWorker
<1>5. ManualSessions = {} /\ manuals = 0
  BY IdleFits DEF SessInit, DataInit, ManualSessions
<1>6. ManualsBounded
  BY <1>5, FS_EmptySet DEF ManualsBounded, ConstantsAssumption
<1>7. RowsInsertedOnce
  BY IdleFits DEF SessInit, RowsInsertedOnce
<1> QED BY <1>1, <1>2, <1>3, <1>4, <1>6, <1>7 DEF SessionInv, SessInit

\* Every step keeps the invariant of any interleaving, never forgets that a
\* commit was stale, and unless it is one is a step of WarehouseOps.
LEMMA SessionStepInv ==
    ASSUME ConstantsAssumption, ThreadsAssumption, SessionInv, ~stale => SafeInv,
           [SessNext]_<<dataVars, sessVars>>
    PROVE  /\ SessionInv'
           /\ ~stale' => [Next]_dataVars /\ ~stale
<1> DEFINE Goal == SessionInv' /\ (~stale' => [Next]_dataVars /\ ~stale)
<1>0. DataOK /\ SessionsOK /\ WorkerOK /\ ManualsBounded /\ RowsInsertedOnce /\ TypeOK
  BY DEF SessionInv, DataOK
<1>1. ASSUME UNCHANGED session, DataOK', Kept, WorkerOK', manuals' = manuals, rows' = rows
      PROVE  SessionInv'
  <2>1. SessionsOK'
    BY <1>0, <1>1, SessionsStay
  <2>2. ManualsBounded'
    BY <1>0, <1>1 DEF ManualsBounded, ManualSessions
  <2>3. RowsInsertedOnce'
    BY <1>0, <1>1 DEF RowsInsertedOnce
  <2> QED BY <1>1, <2>1, <2>2, <2>3 DEF SessionInv
<1>2. CASE Creation /\ UNCHANGED sessVars
  <2>1. UNCHANGED <<session, worker, rows, stale>>
    BY <1>2 DEF sessVars
  <2>2. DataOK' /\ Kept
    BY <1>0, <1>2, <2>1, CreationKeeps
  <2>3. WorkerOK'
    BY <1>0, <2>1 DEF WorkerOK
  <2>4. manuals' = manuals
    BY <1>2 DEF Creation, CreateSalesOrder, CreateInternalTransfer, AddRequest, CreatePurchaseOrder,
                UpdateWarehouse
  <2>5. Next
    BY <1>2 DEF Next
  <2> QED BY <1>1, <2>1, <2>2, <2>3, <2>4, <2>5
<1>3. ASSUME NEW t \in Threads,
             \/ Load(t) \/ InsertStock(t) \/ Rollback(t)
             \/ \E p \in Products : ReadStock(t, p) \/ MissStock(t, p)
      PROVE  Goal
  BY <1>3, QuietInv
<1>4. ASSUME NEW t \in Threads, Commit(t) PROVE Goal
  <2>1. SessionInv'
    BY <1>4, CommitInv
  <2>2. stale' = (stale \/ ~Fresh(t))
    BY <1>4, CommitShape
  <2>3. ASSUME Fresh(t) PROVE Next
    BY <1>4, <2>3, FreshCommit
  <2> QED BY <2>1, <2>2, <2>3
<1>5. ASSUME UNCHANGED <<dataVars, session, rows, stale>>, WorkerOK' PROVE Goal
  <2>1. DataOK' /\ Kept
    BY <1>0, <1>5, SameData
  <2>2. manuals' = manuals
    BY <1>5 DEF dataVars, docVars
  <2> QED BY <1>1, <1>5, <2>1, <2>2
<1>6. CASE WorkerCount
  <2>1. PICK x : x = ReservationTarget
    OBVIOUS
  <2>2. x \in [Warehouses -> [Products -> Nat]]
    BY <1>0, <2>1, TargetType
  <2>3. worker' = [stage |-> "counted", target |-> x, seen |-> <<>>, rows |-> {}]
    BY <1>6, <2>1 DEF WorkerCount, IdleWorker
  <2>4. WorkerOK'
    BY <2>2, <2>3 DEF WorkerOK
  <2> QED BY <1>5, <1>6, <2>4 DEF WorkerCount
<1>7. CASE WorkerScan
  <2>1. worker.stage = "counted" /\ worker' = [worker EXCEPT !.stage = "scanned", !.seen = reserved,
                                                             !.rows = rows]
    BY <1>7 DEF WorkerScan
  <2>2. worker' = [stage |-> "scanned", target |-> worker.target, seen |-> reserved, rows |-> rows]
    BY <1>0, <2>1 DEF WorkerOK
  <2>3. WorkerOK'
    BY <1>0, <2>1, <2>2 DEF WorkerOK
  <2> QED BY <1>5, <1>7, <2>3 DEF WorkerScan
<1>8. CASE WorkerFail
  <2>1. WorkerOK'
    BY <1>8 DEF WorkerFail, WorkerOK, IdleWorker
  <2> QED BY <1>5, <1>8, <2>1 DEF WorkerFail
<1>9. CASE WorkerCommit
  <2>1. DataOK' /\ Kept
    BY <1>0, <1>9, WorkerKeeps
  <2>2. WorkerOK'
    BY <1>9 DEF WorkerCommit, WorkerOK, IdleWorker
  <2>3. SessionInv'
    BY <1>1, <1>9, <2>1, <2>2 DEF WorkerCommit, docVars
  <2>4. stale' = (stale \/ ~WorkerFresh)
    BY <1>9 DEF WorkerCommit
  <2>5. ASSUME ~stale' PROVE Next
    <3>1. ~stale /\ WorkerFresh
      BY <2>4, <2>5
    <3> QED BY <1>0, <1>9, <3>1, FreshWorker DEF SafeInv
  <2> QED BY <2>3, <2>4, <2>5
<1>10. CASE UNCHANGED <<dataVars, sessVars>>
  <2>1. UNCHANGED <<dataVars, session, rows, stale>> /\ worker' = worker
    BY <1>10 DEF sessVars
  <2>2. WorkerOK'
    BY <1>0, <2>1 DEF WorkerOK
  <2> QED BY <1>5, <2>1, <2>2
<1> QED BY <1>2, <1>3, <1>4, <1>6, <1>7, <1>8, <1>9, <1>10 DEF SessNext

\* The inductive invariant of the whole system.
SystemInv == SessionInv /\ (~stale => SafeInv)

LEMMA SystemStep ==
    ASSUME ConstantsAssumption, ThreadsAssumption, SystemInv, [SessNext]_<<dataVars, sessVars>>
    PROVE  SystemInv' /\ (stale' \/ [Next]_dataVars)
<1>1. SessionInv' /\ (~stale' => [Next]_dataVars /\ ~stale)
  BY SessionStepInv DEF SystemInv
<1>2. ~stale' => SafeInv'
  BY <1>1, SafeStep DEF SystemInv
<1> QED BY <1>1, <1>2 DEF SystemInv

\* Sessions and database agree on what was read, inserted and is to be committed,
\* and until a commit is stale the database is as the handlers alone leave it.
THEOREM SystemCorrect == SessSpec => []SystemInv
<1>1. SessInit => SystemInv
  BY SessionInit, ConstantsAssumption, ThreadsAssumption DEF SystemInv
<1>2. SystemInv /\ [SessNext]_<<dataVars, sessVars>> => SystemInv'
  BY SystemStep, ConstantsAssumption, ThreadsAssumption
<1> QED BY <1>1, <1>2, PTL DEF SessSpec

\* Whatever requests overlap and however stale their values, apply_movement and
\* ship() take no stock and no reservation below zero.
THEOREM OverlapNeverNegative == SessSpec => []NeverNegative
<1>1. SystemInv => NeverNegative
  BY DEF SystemInv, SessionInv, DataOK
<1> QED BY <1>1, SystemCorrect, PTL

\* Two sessions of get_or_create_stock_row never insert the same row, nor one
\* that another has committed.
THEOREM OverlapInsertsOnce == SessSpec => []RowsInsertedOnce
<1>1. SystemInv => RowsInsertedOnce
  BY DEF SystemInv, SessionInv
<1> QED BY <1>1, SystemCorrect, PTL

\* Until a commit overwrites values another one had changed, overlapping
\* requests keep everything the handlers keep when they run one at a time.
THEOREM OverlapSafe == SessSpec => []SafeUnlessStale
<1>1. SystemInv => SafeUnlessStale
  <2>1. SafeInv => PickedWithinOrdered
    BY LinesBoundPicked, ConstantsAssumption DEF SafeInv, GoodsInv, StockInv
  <2> QED BY <2>1 DEF SystemInv, SafeInv, GoodsInv, StockInv, SafeUnlessStale
<1> QED BY <1>1, SystemCorrect, PTL

\* Until then every commit is a step of the specification without overlap: the
\* separate reads of a session are not visible in the database.
THEOREM OverlapSerial == SessSpec => SerialUnlessStale
<1>1. SystemInv /\ [SessNext]_<<dataVars, sessVars>> => [stale' \/ Serial!Next]_dataVars
  BY SystemStep, SerialNext, ConstantsAssumption, ThreadsAssumption
<1> QED BY <1>1, SystemCorrect, PTL DEF SessSpec, SerialUnlessStale
=============================================================================
