------------------------------ MODULE ApiServer -------------------------------
(***************************************************************************)
(* The requests of the HTTP API that read the ERP database (server.go,     *)
(* handlers/price_stock.go and sql.go, both price_stock.go) and the        *)
(* queries of the order worker (send_order.go), sharing one pool of        *)
(* database connections (db/connect.go) while the ERP goes on changing its *)
(* data.                                                                   *)
(*                                                                         *)
(* What the ERP holds is named by a version that grows with every change:  *)
(* a price or a stock is known by whose it is and the version it was read  *)
(* from. A statement sees the version it runs in, several statements of a  *)
(* request may see several. The context of a request ends at its deadline  *)
(* (12 s, 8 s) or when the client leaves; the worker's has no deadline.    *)
(***************************************************************************)
EXTENDS SapPrices, PriceMerge, SqlStatement, ImportRecord

CONSTANTS
  Requests,       \* HTTP requests
  Worker,         \* the order worker
  Loads,          \* what the daemon may find: its configuration, requests, an order
  MaxOpenConns,   \* size of the pool
  sqlMaxRows,     \* rows POST /api/sql returns at most
  Today,          \* the date a SAP request without a date is priced at
  Rated,          \* currencies with a row in Rates
  MaxChanges,     \* bound: changes of the ERP's data
  MaxFaults       \* bound: errors of the database

Clients == Requests \cup {Worker}

ASSUME ApiAssumption ==
  /\ Worker \notin Requests
  /\ MaxOpenConns \in Nat \ {0}
  /\ sqlMaxRows \in Nat \ {0}
  /\ MaxChanges \in Nat /\ MaxFaults \in Nat

\* A request is no JSON, a statement and the record sets it would return, at
\* least one, or lists of SKUs and warehouses.
ASSUME LoadsAssumption ==
  \A l \in Loads, r \in Requests :
    LET a == l.ask[r]
    IN  \/ a.kind = "garbled"
        \/ /\ a.kind = "sql"
           /\ a.query \in Seq(Range(a.query))
           /\ a.sets \in Seq(Nat) /\ a.sets # <<>>
        \/ /\ a.kind = "price"
           /\ a.skus \in Seq(Range(a.skus)) /\ a.warehouses \in Seq(Range(a.warehouses))

NoOrder == [type |-> "none"]

\* An order is one that validateOrderRequest lets through.
ASSUME OrdersAssumption ==
  \A l \in Loads : l.order # NoOrder =>
    /\ l.order.type \in {"ORDER", "QUOATE", "RETURN"}
    /\ l.order.details \in Seq(Range(l.order.details)) /\ l.order.details # <<>>

\* What SAP's tables hold, and that NULL is no number.
ASSUME SapAssumption ==
  Null \notin Int /\ \A l \in Loads : IsSapDatabase(l.sap)

VARIABLES
  load,      \* the configuration, requests, order and SAP data of this behaviour
  version,   \* of the ERP's data
  pc,        \* where each client is
  query,     \* the query it is at
  since,     \* the version when it was received
  got,       \* what it has read so far
  gone,      \* requests whose context has ended
  conns,     \* clients that hold a connection of the pool
  getprice,  \* the ERP's table GETPRICE
  answer,    \* what it was answered, or wrote
  faults,    \* errors of the database so far
  cut,       \* history: clients whose statement was broken off
  failed     \* history: clients that met an error of the database

clientVars == <<pc, query, got, answer>>
vars == <<load, version, clientVars, since, gone, conns, getprice, faults, cut, failed>>

Nothing == [prices |-> <<>>, totals |-> <<>>, sets |-> <<>>, rows |-> 0, total |-> 0]
NoAnswer == [code |-> "none", body |-> <<>>]
Answered(code, body) == [code |-> code, body |-> body]
Running == {"running", "inserted", "priced", "closing"}

Ask(r) == load.ask[r]
Skus(r) == uniqueStrings(Ask(r).skus)
Warehouses(r) == stockWarehouses(Ask(r).warehouses)
SapQuery(r) ==
  [card |-> Ask(r).card, warehouse |-> firstNonEmpty(Ask(r).warehouses),
   skus |-> Range(Skus(r)), asOf |-> IF Ask(r).date = Blank THEN Today ELSE Ask(r).date]

ApiTypeOK ==
  /\ load \in Loads
  /\ version \in 0..MaxChanges
  /\ pc \in [Clients -> {"new", "asking", "done"} \cup Running]
  /\ query \in [Clients -> {"none", "GPRICE_Bulk", "GetOnHandStockForSkus", "sap", "sql",
                            "account", "rate"}]
  /\ since \in [Clients -> 0..version]
  /\ gone \subseteq Requests
  /\ conns = {c \in Clients : pc[c] \in Running}
  /\ Cardinality(conns) <= MaxOpenConns
  /\ \A row \in getprice : row.station \in Requests /\ row.price.at \in -1..version
  /\ faults \in 0..MaxFaults
  /\ cut \subseteq Clients /\ failed \subseteq Clients

Init ==
  /\ load \in Loads
  /\ version = 0
  /\ pc = [c \in Clients |-> "new"]
  /\ query = [c \in Clients |-> "none"]
  /\ since = [c \in Clients |-> 0]
  /\ got = [c \in Clients |-> Nothing]
  /\ gone = {}
  /\ conns = {}
  /\ getprice = {}
  /\ answer = [c \in Clients |-> NoAnswer]
  /\ faults = 0
  /\ cut = {}
  /\ failed = {}

-----------------------------------------------------------------------------
(* Steps shared by the handlers.                                           *)

\* The handler asks the pool for a connection for its next query.
AsksFor(c, q) ==
  /\ pc' = [pc EXCEPT ![c] = "asking"]
  /\ query' = [query EXCEPT ![c] = q]
  /\ answer' = answer

Answers(c, code, body) ==
  /\ pc' = [pc EXCEPT ![c] = "done"]
  /\ answer' = [answer EXCEPT ![c] = Answered(code, body)]
  /\ query' = query

\* The rows are closed and the connection goes back to the pool.
Closes(c) == conns' = conns \ {c}

\* QueryContext returns the context's error instead of a connection.
GetsConnection(c) ==
  /\ pc[c] = "asking"
  /\ c \notin gone
  /\ Cardinality(conns) < MaxOpenConns
  /\ conns' = conns \cup {c}
  /\ pc' = [pc EXCEPT ![c] = "running"]
  /\ UNCHANGED <<load, version, query, got, answer, since, gone, getprice, faults, cut, failed>>

\* What a handler answers when a query of it returns an error.
ErrorCode(c) ==
  CASE query[c] = "sql" -> IF c \in gone THEN "SQL_TIMEOUT" ELSE "DB_ERROR"
    [] query[c] \in {"GPRICE_Bulk", "GetOnHandStockForSkus", "sap"} -> "PRICE_STOCK_FAILED"

-----------------------------------------------------------------------------
(* Requests arrive.                                                        *)

\* What is answered before the database is asked anything, if something is. The
\* handlers' DB_UNAVAILABLE is left out: the daemon does not come to serve
\* without a pool (app.go:82-88).
EarlyAnswer(r) ==
  CASE Ask(r).kind = "garbled" -> Answered("INVALID_JSON", <<>>)
    [] Ask(r).kind = "sql" ->
         IF validateReadOnlySQL(Ask(r).query) = "OK" THEN NoAnswer
         ELSE Answered(validateReadOnlySQL(Ask(r).query), <<>>)
    [] Ask(r).kind = "price" ->
         IF load.erp \notin {"SAP", "HASAVSHEVET"} THEN Answered("ERP_NOT_SUPPORTED", <<>>)
         ELSE IF load.erp = "HASAVSHEVET" /\ load.database = Blank
           THEN Answered("PRICE_STOCK_FAILED", <<>>)
         ELSE IF Skus(r) = <<>> THEN Answered("OK", <<>>)
         ELSE IF load.erp = "SAP"
                 /\ (Ask(r).card = Blank \/ firstNonEmpty(Ask(r).warehouses) = Blank)
           THEN Answered("PRICE_STOCK_FAILED", <<>>)
         ELSE NoAnswer

FirstQuery(r) ==
  CASE Ask(r).kind = "sql"                             -> "sql"
    [] Ask(r).kind = "price" /\ load.erp = "SAP"         -> "sap"
    [] Ask(r).kind = "price" /\ load.erp = "HASAVSHEVET" -> "GPRICE_Bulk"

Receive(r) ==
  /\ pc[r] = "new"
  /\ since' = [since EXCEPT ![r] = version]
  /\ IF EarlyAnswer(r) = NoAnswer THEN AsksFor(r, FirstQuery(r))
     ELSE Answers(r, EarlyAnswer(r).code, EarlyAnswer(r).body)
  /\ UNCHANGED <<load, version, got, gone, conns, getprice, faults, cut, failed>>

\* The deadline of a request passes, or its client leaves.
ContextEnds(r) ==
  /\ pc[r] \in {"asking"} \cup (Running \ {"closing"})
  /\ r \notin gone
  /\ gone' = gone \cup {r}
  /\ UNCHANGED <<load, version, clientVars, since, conns, getprice, faults, cut, failed>>

\* Mutant: the pool is asked with a context that does not end.
BreaksOffRunning(r) ==
  /\ r \in gone
  /\ pc[r] \in {"running", "inserted", "priced"}
  /\ Answers(r, ErrorCode(r), <<>>)
  /\ Closes(r)
  /\ cut' = cut \cup (conns \cap {r})
  /\ UNCHANGED <<load, version, got, since, gone, getprice, faults, failed>>

\* The driver gives up the statement and the handler answers the error. A
\* statement that is broken off is not caught inside the procedure it runs.
BreaksOff(r) ==
  /\ r \in gone
  /\ pc[r] \in {"asking", "running", "inserted", "priced"}
  /\ Answers(r, ErrorCode(r), <<>>)
  /\ Closes(r)
  /\ cut' = cut \cup (conns \cap {r})
  /\ UNCHANGED <<load, version, got, since, gone, getprice, faults, failed>>

-----------------------------------------------------------------------------
(* Price and stock in Hasavshevet.                                         *)

Price(r, sku, at) == [of |-> <<Ask(r).card, sku>>, at |-> at]
Unset == -1

\* Mutant: one station name for every call.
stationOfService(r) == CHOOSE s \in Requests : TRUE

\* GPRICE_Bulk enters a row for every SKU under a station name of its own...
station(r) == r

BulkInserts(r) ==
  /\ pc[r] = "running" /\ query[r] = "GPRICE_Bulk"
  /\ pc' = [pc EXCEPT ![r] = "inserted"]
  /\ getprice' = getprice \cup
       {[station |-> station(r), account |-> Ask(r).card, item |-> s,
         price |-> Price(r, s, Unset)] : s \in Range(Skus(r))}
  /\ UNCHANGED <<load, version, query, got, answer, since, gone, conns, faults, cut, failed>>

\* ...the ERP's own procedure GPRICE prices the rows of the station...
GPRICE(r) ==
  /\ pc[r] = "inserted"
  /\ pc' = [pc EXCEPT ![r] = "priced"]
  /\ getprice' =
       {row \in getprice : row.station # station(r)} \cup
       {[row EXCEPT !.price.at = version] : row \in {x \in getprice : x.station = station(r)}}
  /\ UNCHANGED <<load, version, query, got, answer, since, gone, conns, faults, cut, failed>>

Priced(r, sku) ==
  {row \in getprice :
     row.station = station(r) /\ row.item = sku /\ row.account = Ask(r).card}

\* ...which are read back by station, item and account, and deleted. Of
\* several rows of one SKU the last to come is kept.
BulkReturns(r) ==
  /\ pc[r] = "priced"
  /\ \E kept \in [{s \in Range(Skus(r)) : Priced(r, s) # {}} -> getprice] :
       /\ \A s \in DOMAIN kept : kept[s] \in Priced(r, s)
       /\ got' = [got EXCEPT ![r].prices = [s \in DOMAIN kept |-> kept[s].price]]
  /\ getprice' = {row \in getprice : row.station # station(r)}
  /\ Closes(r)
  /\ AsksFor(r, "GetOnHandStockForSkus")
  /\ UNCHANGED <<load, version, since, gone, faults, cut, failed>>

Total(warehouse, sku) == [of |-> <<warehouse, sku>>, at |-> version]

\* One query for each warehouse, and a total for each SKU.
StockReturns(r) ==
  LET warehouse == Warehouses(r)[Len(got[r].totals) + 1]
      totals    == Append(got[r].totals,
                     [warehouse |-> warehouse,
                      total |-> [s \in Range(Skus(r)) |-> Total(warehouse, s)]])
  IN  /\ pc[r] = "running" /\ query[r] = "GetOnHandStockForSkus"
      /\ Closes(r)
      /\ got' = [got EXCEPT ![r].totals = totals]
      /\ IF Len(totals) < Len(Warehouses(r)) THEN AsksFor(r, query[r])
         ELSE Answers(r, "OK", mergedItems(Skus(r), got[r].prices, totals))
      /\ UNCHANGED <<load, version, since, gone, getprice, faults, cut, failed>>

-----------------------------------------------------------------------------
(* Price and stock in SAP, and POST /api/sql.                              *)

SapReturns(r) ==
  /\ pc[r] = "running" /\ query[r] = "sap"
  /\ Closes(r)
  /\ Answers(r, "OK", SapRows(load.sap, SapQuery(r)))
  /\ UNCHANGED <<load, version, got, since, gone, getprice, faults, cut, failed>>

\* The record sets a statement returns, each known by its number of rows.
Sets(r) == Ask(r).sets
SqlReads(r) == pc[r] = "running" /\ query[r] = "sql"
CurrentSet(r) == Sets(r)[Len(got[r].sets) + 1]

NextRow(r) ==
  /\ SqlReads(r)
  /\ got[r].rows < CurrentSet(r)
  /\ got[r].total < sqlMaxRows
  /\ got' = [got EXCEPT ![r].rows = @ + 1, ![r].total = @ + 1]
  /\ UNCHANGED <<load, version, pc, query, answer, since, gone, conns, getprice, faults, cut, failed>>

\* The handler answers first: its deferred rows.Close comes after.
AnswersThenCloses(r, code, body) ==
  /\ pc' = [pc EXCEPT ![r] = "closing"]
  /\ answer' = [answer EXCEPT ![r] = Answered(code, body)]
  /\ query' = query

\* Mutant: over the row limit the rows are never closed.
RowLimitReturns(r) ==
  /\ SqlReads(r)
  /\ got[r].rows < CurrentSet(r)
  /\ got[r].total >= sqlMaxRows
  /\ Answers(r, "SQL_ROW_LIMIT", <<>>)
  /\ UNCHANGED <<load, version, got, since, gone, conns, getprice, faults, cut, failed>>

RowLimit(r) ==
  /\ SqlReads(r)
  /\ got[r].rows < CurrentSet(r)
  /\ got[r].total >= sqlMaxRows
  /\ AnswersThenCloses(r, "SQL_ROW_LIMIT", <<>>)
  /\ UNCHANGED <<load, version, got, since, gone, conns, getprice, faults, cut, failed>>

\* Mutant: rows.Err is not looked at when rows.Next says there are no more.
EndOfSetUnchecked(r) ==
  LET sets == Append(got[r].sets, got[r].rows)
  IN  /\ SqlReads(r)
      /\ got[r].rows = CurrentSet(r) \/ r \in gone
      /\ got' = [got EXCEPT ![r].sets = sets, ![r].rows = 0]
      /\ \/ /\ Len(sets) < Len(Sets(r))
            /\ UNCHANGED <<pc, query, answer>>
         \/ /\ Len(sets) = Len(Sets(r)) \/ r \in gone
            /\ AnswersThenCloses(r, "OK", sets)
      /\ UNCHANGED <<load, version, since, gone, conns, getprice, faults, cut, failed>>

\* A set is at its end: on to the next, or to the answer when there is none.
\* NextResultSet also says there is none when the context has just ended.
EndOfSet(r) ==
  LET sets == Append(got[r].sets, got[r].rows)
  IN  /\ SqlReads(r)
      /\ got[r].rows = CurrentSet(r)
      /\ got' = [got EXCEPT ![r].sets = sets, ![r].rows = 0]
      /\ \/ /\ Len(sets) < Len(Sets(r))
            /\ UNCHANGED <<pc, query, answer>>
         \/ /\ Len(sets) = Len(Sets(r)) \/ r \in gone
            /\ AnswersThenCloses(r, "OK", sets)
      /\ UNCHANGED <<load, version, since, gone, conns, getprice, faults, cut, failed>>

CloseRows(r) ==
  /\ pc[r] = "closing"
  /\ pc' = [pc EXCEPT ![r] = "done"]
  /\ Closes(r)
  /\ UNCHANGED <<load, version, query, got, answer, since, gone, getprice, faults, cut, failed>>

-----------------------------------------------------------------------------
(* The worker's queries, and the import record it makes of them.           *)

WorkerTakes ==
  /\ pc[Worker] = "new"
  /\ load.order # NoOrder
  /\ since' = [since EXCEPT ![Worker] = version]
  /\ AsksFor(Worker, "account")
  /\ UNCHANGED <<load, version, got, gone, conns, getprice, faults, cut, failed>>

WorkerQueries(q) == pc[Worker] = "running" /\ query[Worker] = q

AccountFound ==
  /\ WorkerQueries("account")
  /\ load.order.known
  /\ Closes(Worker)
  /\ AsksFor(Worker, "rate")
  /\ UNCHANGED <<load, version, got, since, gone, getprice, faults, cut, failed>>

AccountNotFound ==
  /\ WorkerQueries("account")
  /\ ~load.order.known
  /\ Closes(Worker)
  /\ Answers(Worker, "failed", <<>>)
  /\ UNCHANGED <<load, version, got, since, gone, getprice, faults, cut, failed>>

\* In hundredths: the rate of a version, and the fallback.
RateAt(v) == 350 + v
NoRate == 100

Writes(rate) ==
  Answers(Worker, "written",
          generateDOC(Header(load.order.number, load.order.account, load.order, rate),
                      Moves(load.order)))

queryRate == IF load.order.currency.text \in Rated THEN RateAt(version) ELSE NoRate

RateReturns ==
  /\ WorkerQueries("rate")
  /\ Closes(Worker)
  /\ Writes(queryRate)
  /\ UNCHANGED <<load, version, got, since, gone, getprice, faults, cut, failed>>

-----------------------------------------------------------------------------
(* The database.                                                           *)

ErpChanges ==
  /\ version < MaxChanges
  /\ version' = version + 1
  /\ UNCHANGED <<load, clientVars, since, gone, conns, getprice, faults, cut, failed>>

\* A query fails: the account's fails the order, the rate's only its rate.
FailedQuery(c) ==
  CASE query[c] = "account" -> Answers(c, "failed", <<>>)
    [] query[c] = "rate"    -> Writes(NoRate)
    [] OTHER                -> Answers(c, ErrorCode(c), <<>>)

DatabaseFails(c) ==
  /\ faults < MaxFaults
  /\ pc[c] \in {"running", "inserted", "priced"}
  /\ faults' = faults + 1
  /\ failed' = failed \cup {c}
  /\ Closes(c)
  /\ FailedQuery(c)

\* Mutant: GPRICE_Bulk without its CATCH block.
StatementFailsUncaught(c) ==
  /\ DatabaseFails(c)
  /\ UNCHANGED <<load, version, got, since, gone, getprice, cut>>

\* An error inside a statement: GPRICE_Bulk catches it and deletes its rows.
StatementFails(c) ==
  /\ DatabaseFails(c)
  /\ getprice' = {row \in getprice : c = Worker \/ row.station # station(c)}
  /\ UNCHANGED <<load, version, got, since, gone, cut>>

\* The connection is lost, and the statement with it.
ConnectionLost(c) ==
  /\ DatabaseFails(c)
  /\ cut' = cut \cup {c}
  /\ UNCHANGED <<load, version, got, since, gone, getprice>>

-----------------------------------------------------------------------------

Handler(r) ==
  \/ Receive(r) \/ BreaksOff(r)
  \/ BulkInserts(r) \/ GPRICE(r) \/ BulkReturns(r) \/ StockReturns(r)
  \/ SapReturns(r)
  \/ NextRow(r) \/ RowLimit(r) \/ EndOfSet(r) \/ CloseRows(r)

WorkerStep == WorkerTakes \/ AccountFound \/ AccountNotFound \/ RateReturns

Database ==
  \/ ErpChanges
  \/ \E c \in Clients : GetsConnection(c) \/ StatementFails(c) \/ ConnectionLost(c)

Next ==
  \/ \E r \in Requests : Handler(r) \/ ContextEnds(r)
  \/ WorkerStep
  \/ Database

Spec == Init /\ [][Next]_vars

\* Deadlines pass and handlers notice; the database owes nothing.
FairSpec ==
  /\ Spec
  /\ \A r \in Requests :
       WF_vars(ContextEnds(r)) /\ WF_vars(BreaksOff(r)) /\ WF_vars(CloseRows(r))

-----------------------------------------------------------------------------
(* Properties.                                                             *)

\* Read while r was being answered, and not before.
Fresh(r, datum) == datum.at \in since[r]..version

HasavshevetAnswerIsTrue(r) ==
  LET items == answer[r].body
  IN  /\ Len(items) = Len(Skus(r))
      /\ \A k \in DOMAIN items :
           /\ items[k].sku = Skus(r)[k]
           /\ \E p \in items[k].prices :
                /\ items[k].prices = {p}
                /\ p.of = <<Ask(r).card, items[k].sku>>
                /\ Fresh(r, p)
           /\ {s[1] : s \in items[k].stockByWarehouse} = Range(Warehouses(r))
           /\ \A s \in items[k].stockByWarehouse :
                s[2].of = <<s[1], items[k].sku>> /\ Fresh(r, s[2])

\* An answer of Hasavshevet holds an item for every SKU asked for, whatever is
\* repeated or blank in the request: its one price is the price of that customer
\* and each stock that of its warehouse, both read from the ERP during this very
\* request, though several are served at once over one GETPRICE table.
HasavshevetAnswersAreTrue ==
  \A r \in Requests :
    (Ask(r).kind = "price" /\ load.erp = "HASAVSHEVET" /\ answer[r].code = "OK"
       /\ Skus(r) # <<>>) => HasavshevetAnswerIsTrue(r)

\* An answer of SAP is, in the order of the item codes, what the price list,
\* special prices, discount groups and promotions owe the customer, for exactly
\* the SKUs asked for that are on the customer's price list. The other SKUs, and
\* all SKUs of a card SAP does not know, are left out without a word.
SapAnswersAreOwed ==
  \A r \in Requests :
    (Ask(r).kind = "price" /\ load.erp = "SAP" /\ answer[r].code = "OK" /\ Skus(r) # <<>>) =>
      LET rows == answer[r].body
          q    == SapQuery(r)
      IN  /\ \A k \in DOMAIN rows : Owed(load.sap, q, rows[k])
          /\ \A j, k \in DOMAIN rows : j < k => rows[j].sku <= rows[k].sku
          /\ {rows[k].sku : k \in DOMAIN rows} = ListPriced(load.sap, q)

\* Rows stay behind in the ERP's GETPRICE table only when the statement that
\* entered them was broken off, where the procedure cannot catch it.
LeftoversOnlyWhenCut ==
  \A row \in getprice :
    row.station \in cut \/ pc[row.station] \in {"inserted", "priced"}

\* The rows of all the record sets together.
TotalRows(sets) ==
  LET total[n \in 0..Len(sets)] == IF n = 0 THEN 0 ELSE total[n - 1] + sets[n]
  IN  total[Len(sets)]

\* An SQL answer is never part of a record set and never over the row limit. A
\* row limit, time-out or database error is answered for that reason only. Whole
\* record sets at its end may be missing without a word, but only if the context
\* had ended: rows.NextResultSet says no more then, and the error it leaves is not
\* looked at (sql.go:358).
SqlAnswersAreHonest ==
  \A r \in Requests : Ask(r).kind = "sql" =>
    LET sets == answer[r].body
    IN  /\ answer[r].code = "OK" =>
             /\ IsPrefix(sets, Sets(r)) /\ sets # <<>>
             /\ TotalRows(sets) <= sqlMaxRows
             /\ sets = Sets(r) \/ r \in gone
        /\ answer[r].code = "SQL_ROW_LIMIT" => TotalRows(Sets(r)) > sqlMaxRows
        /\ answer[r].code = "SQL_TIMEOUT" => r \in gone
        /\ answer[r].code = "DB_ERROR" => r \in failed

\* The rate of the header and of the row, whole below 100000.
ReadsRate(record, rate) ==
  \A l \in {21, 27} :
    Reads(record, l, ToString(rate)) /\ (rate \in OfDigits(7) => Whole(record, l))

\* The import record says what was ordered, and carries a rate the ERP had
\* while the order was in hand; 1.0 stands only for a currency without a rate or
\* a lookup that failed (send_order.go:150-155).
ImportCarriesOrder ==
  answer[Worker].code = "written" =>
    LET doc == answer[Worker].body
    IN  /\ SaysWhatWasOrdered(doc, load.order.number, load.order.account, load.order)
        /\ \A k \in DOMAIN doc :
             \/ \E v \in since[Worker]..version : ReadsRate(doc[k], RateAt(v))
             \/ /\ ReadsRate(doc[k], NoRate)
                /\ load.order.currency.text \notin Rated \/ Worker \in failed

\* Every request that reads the database is answered and gives its connection
\* back, even if the database never answers it and whoever holds the others.
RequestsAreAnswered ==
  \A r \in Requests : pc[r] = "asking" ~> (pc[r] = "done" /\ answer[r] # NoAnswer)
=============================================================================
