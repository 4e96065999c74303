------------------------------ MODULE SessionOps ------------------------------
(***************************************************************************)
(* The same handlers as WarehouseOps, as the database sees them.  Every    *)
(* request runs in a thread with a SQLAlchemy session of its own: the      *)
(* router loads the documents of the call, the handler checks their status *)
(* in that copy and reads one stock row after another, and one commit      *)
(* writes the changed columns as absolute values computed from what was    *)
(* read.  Nothing is locked or version-checked and the isolation level is  *)
(* READ COMMITTED, so another commit may fall between any two steps.  The  *)
(* worker's reservation pass is one more such transaction, in a process of *)
(* its own.                                                                *)
(***************************************************************************)
EXTENDS WarehouseProps

CONSTANTS
    Threads  \* the API's request threads

ASSUME ThreadsAssumption == IsFiniteSet(Threads)

VARIABLES
    session,  \* the request a thread is serving and the session's identity map
    worker,   \* the same for the worker's reservation pass
    rows,     \* the stock rows that exist; a missing one counts as zeros
    stale     \* has a commit ever been computed from values no longer current?

sessVars == <<session, worker, rows, stale>>

\* The specification of the same workflow without overlap.
Serial == INSTANCE WarehouseOps

-----------------------------------------------------------------------------
(* Sessions.                                                               *)

NoDocs == [request |-> NoRequest, lists |-> <<>>, shipment |-> NoShipment, order |-> NoOrder]

IdleSession ==
    [op |-> "idle", doc |-> None, arg |-> None, wh |-> None, move |-> NoLines, hold |-> NoLines,
     todo |-> {}, seen |-> <<>>, making |-> None, made |-> {}, loaded |-> NoDocs]

IdleWorker == [stage |-> "idle", target |-> <<>>, seen |-> <<>>, rows |-> {}]

StockRow(w, p) == [onHand |-> onHand[w][p], reserved |-> reserved[w][p]]
MissingRow     == [onHand |-> 0, reserved |-> 0]

\* The documents that decide what a call does, as the database has them now.
DocsOf(op, doc) ==
    CASE op = "generate" -> [NoDocs EXCEPT !.request = request[doc]]
      [] op = "pick" -> [NoDocs EXCEPT !.lists = [l \in {doc} |-> pickList[l]]]
      [] op = "complete" ->
           [NoDocs EXCEPT !.request = request[pickList[doc].request],
                          !.lists = [l \in {doc} |-> pickList[l]]]
      [] op = "ship" ->
           [NoDocs EXCEPT !.request = request[doc],
                          !.lists = [l \in ListsOf(doc) |-> pickList[l]]]
      [] op = "deliver" ->
           [NoDocs EXCEPT !.request = request[shipment[doc].request],
                          !.lists = [l \in ListsOf(shipment[doc].request) |-> pickList[l]],
                          !.shipment = shipment[doc]]
      [] op = "receive" -> [NoDocs EXCEPT !.order = order[doc]]
      [] op = "manual" -> NoDocs

\* SQLAlchemy writes a column only if the session changed the value it loaded.
Written(loaded, new, current) == IF new = loaded THEN current ELSE new

Support(qty) == {p \in Products : qty[p] # 0}
Negated(qty) == Minus(NoLines, qty)

SessInit ==
    /\ DataInit
    /\ session = [t \in Threads |-> IdleSession]
    /\ worker = IdleWorker
    /\ rows = {k \in Warehouses \X Products : Opening[k[1]][k[2]] > 0}
    /\ stale = FALSE

-----------------------------------------------------------------------------
(* Loading: the router reads the documents and the handler checks their    *)
(* status.  A call that fails the check is answered 409 and is no step.    *)

Begin(t, op, doc, arg, w, move, hold, todo) ==
    /\ session[t].op = "idle"
    /\ session' = [session EXCEPT ![t] =
                      [op |-> op, doc |-> doc, arg |-> arg, wh |-> w,
                       move |-> move, hold |-> hold, todo |-> todo, seen |-> <<>>,
                       making |-> None, made |-> {}, loaded |-> DocsOf(op, doc)]]
    /\ UNCHANGED <<dataVars, worker, rows, stale>>

LoadGenerate(t, r) ==
    /\ NeedsPickList(r)
    /\ Begin(t, "generate", r, None, None, NoLines, NoLines, {})

LoadPick(t, l, p, q) ==
    /\ StillOpen(l)
    /\ PickAllowed(l, p, q)
    /\ Begin(t, "pick", l, <<p, q>>, None, NoLines, NoLines, {})

LoadComplete(t, l) ==
    LET picked == pickList[l].picked
    IN  /\ StillOpen(l)
        /\ Begin(t, "complete", l, None, request[pickList[l].request].source,
                 NoLines, picked, Support(picked))

LoadShip(t, r) ==
    LET picked == PickedQuantities(r)
    IN  /\ ReadyToShip(r)
        /\ Begin(t, "ship", r, None, request[r].source,
                 Negated(picked), Negated(picked), Support(picked))

FaultyLoadDeliver(t, s) ==
    LET r == shipment[s].request
        picked == IF IsInternalTransfer(r) THEN PickedQuantities(r) ELSE NoLines
    IN  /\ shipment[s].status # "absent"
        /\ Begin(t, "deliver", s, None, request[r].dest, picked, NoLines, Support(picked))

LoadDeliver(t, s) ==
    LET r == shipment[s].request
        picked == IF IsInternalTransfer(r) THEN PickedQuantities(r) ELSE NoLines
    IN  /\ UnderWay(s)
        /\ Begin(t, "deliver", s, None, request[r].dest, picked, NoLines, Support(picked))

LoadReceive(t, o, got) ==
    /\ Receivable(o, got)
    /\ Begin(t, "receive", o, None, order[o].dest, got, NoLines, Support(got))

LoadManual(t, w, p, d, ref) ==
    /\ manuals + Cardinality({u \in Threads : session[u].op = "manual"}) < MaxManual
    /\ Begin(t, "manual", None, ref, w, [NoLines EXCEPT ![p] = d], NoLines, {p})

-----------------------------------------------------------------------------
(* Stock rows: get_or_create_stock_row and the check made on its values.   *)

FaultyAllowed(s, p, row) == s.hold[p] > 0 => s.hold[p] <= row.onHand - row.reserved

\* apply_movement's "below zero" and complete_pick_list's "available" checks.
Allowed(s, p, row) ==
    /\ row.onHand + s.move[p] >= 0
    /\ s.hold[p] > 0 => s.hold[p] <= row.onHand - row.reserved

KeepRow(t, p, row) ==
    [session[t] EXCEPT !.todo = @ \ {p}, !.making = None,
        !.seen = [q \in DOMAIN session[t].seen \cup {p} |->
                     IF q = p THEN row ELSE session[t].seen[q]]]

ReadStock(t, p) ==
    LET s == session[t]
    IN  /\ p \in s.todo /\ s.making = None
        /\ <<s.wh, p>> \in rows
        /\ Allowed(s, p, StockRow(s.wh, p))
        /\ session' = [session EXCEPT ![t] = KeepRow(t, p, StockRow(s.wh, p))]
        /\ UNCHANGED <<dataVars, worker, rows, stale>>

\* The row is not there: the session is about to flush an INSERT for it.
MissStock(t, p) ==
    LET s == session[t]
    IN  /\ p \in s.todo /\ s.making = None
        /\ <<s.wh, p>> \notin rows
        /\ Allowed(s, p, MissingRow)
        /\ session' = [session EXCEPT ![t].making = p]
        /\ UNCHANGED <<dataVars, worker, rows, stale>>

FaultyInsertStock(t) ==
    LET s == session[t]
    IN  /\ s.making # None
        /\ session' = [session EXCEPT ![t] =
                          [KeepRow(t, s.making, MissingRow) EXCEPT !.made = @ \cup {s.making}]]
        /\ UNCHANGED <<dataVars, worker, rows, stale>>

\* The primary key makes the INSERT wait for another session's uncommitted one.
InsertStock(t) ==
    LET s == session[t]
    IN  /\ s.making # None
        /\ <<s.wh, s.making>> \notin rows
        /\ \A u \in Threads : ~(session[u].wh = s.wh /\ s.making \in session[u].made)
        /\ session' = [session EXCEPT ![t] =
                          [KeepRow(t, s.making, MissingRow) EXCEPT !.made = @ \cup {s.making}]]
        /\ UNCHANGED <<dataVars, worker, rows, stale>>

-----------------------------------------------------------------------------
(* Commit: the changed columns, absolute, in one atomic step.              *)

\* Would the values the session read be read again now?
Fresh(t) ==
    LET s == session[t]
    IN  /\ s.loaded = DocsOf(s.op, s.doc)
        /\ \A p \in DOMAIN s.seen : s.seen[p] = StockRow(s.wh, p)

EndCommit(t) ==
    /\ session[t].todo = {}
    /\ session' = [session EXCEPT ![t] = IdleSession]
    /\ stale' = (stale \/ ~Fresh(t))
    /\ UNCHANGED <<active, worker>>

\* Is this one of the stock rows the session has read?
Holds(s, w, p) == w = s.wh /\ p \in DOMAIN s.seen

FaultyWriteLedger(t) == UNCHANGED ledger

\* The inventory_transactions rows apply_movement added.
WriteLedger(t) ==
    LET s == session[t]
    IN  ledger' = [w \in Warehouses |-> [p \in Products |->
            IF Holds(s, w, p) THEN ledger[w][p] + s.move[p] ELSE ledger[w][p]]]

WriteStock(t) ==
    LET s == session[t]
    IN  /\ onHand' = [w \in Warehouses |-> [p \in Products |->
              IF Holds(s, w, p)
              THEN Written(s.seen[p].onHand, s.seen[p].onHand + s.move[p], onHand[w][p])
              ELSE onHand[w][p]]]
        /\ reserved' = [w \in Warehouses |-> [p \in Products |->
              IF Holds(s, w, p)
              THEN Written(s.seen[p].reserved, Max0(s.seen[p].reserved + s.hold[p]), reserved[w][p])
              ELSE reserved[w][p]]]
        /\ WriteLedger(t)
        /\ rows' = rows \cup {<<s.wh, p>> : p \in DOMAIN s.seen}

NoStock == UNCHANGED <<stockVars, rows>>

FaultyRollback(t) ==
    /\ session[t].op # "idle"
    /\ session' = [session EXCEPT ![t] = IdleSession]
    /\ WriteStock(t)
    /\ UNCHANGED <<moved, docVars, worker, stale>>

\* The session ends and its transaction rolls back: a check on a stock row
\* failed, the INSERT met a committed row, the connection or the process died.
Rollback(t) ==
    /\ session[t].op # "idle"
    /\ session' = [session EXCEPT ![t] = IdleSession]
    /\ UNCHANGED <<dataVars, worker, rows, stale>>

CommitGenerate(t, l) ==
    LET s == session[t]
    IN  /\ s.op = "generate"
        /\ pickList[l].status = "absent"
        /\ pickList' = [pickList EXCEPT ![l] =
                           [status |-> "open", request |-> s.doc, picked |-> NoLines]]
        /\ request' = [request EXCEPT ![s.doc].status = "picking"]
        /\ NoStock /\ UNCHANGED <<shipment, order, manuals>>
        /\ EndCommit(t)

CommitPick(t) ==
    LET s == session[t]
        l == s.doc
        p == s.arg[1]
        old == s.loaded.lists[l]
    IN  /\ s.op = "pick"
        /\ pickList' = [pickList EXCEPT
                           ![l].picked[p] = Written(old.picked[p], s.arg[2], pickList[l].picked[p]),
                           ![l].status = Written(old.status, "in_progress", pickList[l].status)]
        /\ NoStock /\ UNCHANGED <<request, shipment, order, manuals>>
        /\ EndCommit(t)

CommitComplete(t) ==
    LET s == session[t]
        l == s.doc
        r == pickList[l].request
    IN  /\ s.op = "complete"
        /\ pickList' = [pickList EXCEPT ![l].status = "complete"]
        /\ request' = [request EXCEPT ![r].status =
                          Written(s.loaded.request.status, "packed", request[r].status)]
        /\ WriteStock(t) /\ UNCHANGED <<moved, shipment, order, manuals>>
        /\ EndCommit(t)

CommitShip(t, n) ==
    LET s == session[t]
    IN  /\ s.op = "ship"
        /\ shipment[n].status = "absent"
        /\ shipment' = [shipment EXCEPT ![n] = [status |-> "shipped", request |-> s.doc]]
        /\ request' = [request EXCEPT ![s.doc].status = "shipped"]
        /\ moved' = [moved EXCEPT ![n].out = Minus(moved[n].out, s.move)]
        /\ WriteStock(t) /\ UNCHANGED <<pickList, order, manuals>>
        /\ EndCommit(t)

CommitDeliver(t) ==
    LET s == session[t]
        n == s.doc
        r == shipment[n].request
    IN  /\ s.op = "deliver"
        /\ shipment' = [shipment EXCEPT ![n].status = "delivered"]
        /\ request' = [request EXCEPT ![r].status =
                          Written(s.loaded.request.status, "delivered", request[r].status)]
        /\ moved' = [moved EXCEPT ![n].in = Plus(moved[n].in, s.move)]
        /\ WriteStock(t) /\ UNCHANGED <<pickList, order, manuals>>
        /\ EndCommit(t)

CommitReceive(t) ==
    LET s == session[t]
        o == s.doc
        old == s.loaded.order.received
    IN  /\ s.op = "receive"
        /\ order' = [order EXCEPT
                        ![o].status = "received",
                        ![o].received = [p \in Products |->
                            Written(old[p], old[p] + s.move[p], order[o].received[p])]]
        /\ moved' = [moved EXCEPT ![o].in = Plus(moved[o].in, s.move)]
        /\ WriteStock(t) /\ UNCHANGED <<request, pickList, shipment, manuals>>
        /\ EndCommit(t)

CommitManual(t) ==
    /\ session[t].op = "manual"
    /\ manuals' = manuals + 1
    /\ BookManually(session[t].arg, session[t].move)
    /\ WriteStock(t) /\ UNCHANGED <<request, pickList, shipment, order>>
    /\ EndCommit(t)

-----------------------------------------------------------------------------
(* The worker: recalculate_reservations queries the pick lists, then reads *)
(* every stock row, then writes the rows whose value differs.              *)

WorkerCount ==
    /\ worker.stage = "idle"
    /\ worker' = [IdleWorker EXCEPT !.stage = "counted", !.target = ReservationTarget]
    /\ UNCHANGED <<dataVars, session, rows, stale>>

WorkerScan ==
    /\ worker.stage = "counted"
    /\ worker' = [worker EXCEPT !.stage = "scanned", !.seen = reserved, !.rows = rows]
    /\ UNCHANGED <<dataVars, session, rows, stale>>

WorkerFresh ==
    worker.target = ReservationTarget /\ worker.seen = reserved /\ worker.rows = rows

FaultyCorrected(w, p) == <<w, p>> \in worker.rows /\ worker.target[w][p] > worker.seen[w][p]

\* Rows whose value the pass found different from its target.
Corrected(w, p) == <<w, p>> \in worker.rows /\ worker.target[w][p] # worker.seen[w][p]

WorkerCommit ==
    /\ worker.stage = "scanned"
    /\ reserved' = [w \in Warehouses |-> [p \in Products |->
          IF Corrected(w, p) THEN worker.target[w][p] ELSE reserved[w][p]]]
    /\ worker' = IdleWorker
    /\ stale' = (stale \/ ~WorkerFresh)
    /\ UNCHANGED <<onHand, ledger, moved, docVars, session, rows>>

\* The tick fails and rolls back; main() retries at the next interval.
WorkerFail ==
    /\ worker.stage # "idle"
    /\ worker' = IdleWorker
    /\ UNCHANGED <<dataVars, session, rows, stale>>

-----------------------------------------------------------------------------
Load(t) ==
    \/ \E r \in Requests : LoadGenerate(t, r) \/ LoadShip(t, r)
    \/ \E l \in PickLists :
          \/ LoadComplete(t, l)
          \/ \E p \in Products, q \in 0..MaxQty : LoadPick(t, l, p, q)
    \/ \E s \in Shipments : LoadDeliver(t, s)
    \/ \E o \in Orders, got \in Lines : LoadReceive(t, o, got)
    \/ \E w \in Warehouses, p \in Products, d \in ManualDeltas, ref \in References \cup {None} :
          LoadManual(t, w, p, d, ref)

Commit(t) ==
    \/ \E l \in PickLists : CommitGenerate(t, l)
    \/ CommitPick(t) \/ CommitComplete(t)
    \/ \E n \in Shipments : CommitShip(t, n)
    \/ CommitDeliver(t) \/ CommitReceive(t) \/ CommitManual(t)

SessNext ==
    \/ Creation /\ UNCHANGED sessVars
    \/ \E t \in Threads :
          \/ Load(t)
          \/ \E p \in Products : ReadStock(t, p) \/ MissStock(t, p)
          \/ InsertStock(t) \/ Commit(t) \/ Rollback(t)
    \/ WorkerCount \/ WorkerScan \/ WorkerCommit \/ WorkerFail

SessSpec == SessInit /\ [][SessNext]_<<dataVars, sessVars>>

\* main() starts a tick at every interval for ever, and not every tick fails at
\* the same place.
\* Nothing is assumed of the clients that send requests.
WorkerFairness ==
    /\ WF_<<dataVars, sessVars>>(WorkerCount)
    /\ SF_<<dataVars, sessVars>>(WorkerScan)
    /\ SF_<<dataVars, sessVars>>(WorkerCommit)

SessFairSpec == SessSpec /\ WorkerFairness

-----------------------------------------------------------------------------
(* Properties.                                                             *)

\* Two sessions never insert the same stock row, nor one that exists: the first
\* movement of a product cannot reset what another session has booked.
RowsInsertedOnce ==
    \A t, u \in Threads : \A p \in session[t].made :
        /\ <<session[t].wh, p>> \notin rows
        /\ t # u /\ session[u].wh = session[t].wh => p \notin session[u].made

\* As long as no commit was computed from values another one had replaced, the
\* data satisfies everything the workflow guarantees without overlap.
SafeUnlessStale ==
    ~stale => /\ LedgerInSync
              /\ ReservationsExact
              /\ DocumentsAgree
              /\ PickedWithinOrdered
              /\ ShipmentsMoveWhatWasPicked
              /\ ReceiptsBooked

\* Up to the first stale commit every step of the database is one step of the
\* workflow without overlap: the interleaving of reads shows nowhere.
SerialUnlessStale == [][stale' \/ Serial!Next]_dataVars

\* Once the API is quiet, the worker's passes make the reservations exact, and
\* they stay so, whatever overlapping requests or an earlier pass did to them.
ReservationsHeal ==
    <>[](\A t \in Threads : session[t].op = "idle") => <>[]ReservationsExact

=============================================================================
