--------------------------- MODULE OrderLifecycle ---------------------------
(***************************************************************************)
(* The admin's order and product endpoints over the orders, products and   *)
(* customers tables (app/routers/order.py, product.py, customer.py).       *)
(*                                                                         *)
(* FastAPI runs every handler in a thread pool, so handlers interleave.  A *)
(* handler reads and checks in one step (the Load action) and writes and   *)
(* commits in a later one (the Commit action); the two UPDATEs of a patch  *)
(* are one transaction whose row locks make the commit one step.  An order *)
(* is named by its request_key, which the table keeps unique.              *)
(***************************************************************************)
EXTENDS Integers, FiniteSets

CONSTANTS Keys,        \* values of Order.request_key
          Products,    \* product ids
          Customers,   \* customer ids
          Requests,    \* request handlers that may run at the same time
          Quantities,  \* quantities a client orders
          StockLevels, \* stock an admin enters for a product
          MaxInt,      \* largest value of an INTEGER column
          MaxVersion   \* largest value of Order.version

ASSUME QuantitiesAssumption == Quantities \subseteq Nat \ {0}
ASSUME MaxIntAssumption == MaxInt \in Nat
ASSUME StockLevelsAssumption == StockLevels \subseteq 0..MaxInt
ASSUME MaxVersionAssumption == MaxVersion \in Nat \ {0}

VARIABLES orders,    \* the orders table: request_key -> row
          stock,     \* the products table: product id -> Product.stock
          customers, \* the ids in the customers table
          gone,      \* ids of deleted customers (an id is not issued again)
          supplied,  \* history: units put on sale per product id ever issued
          req        \* what every handler has loaded and not yet committed

vars == <<orders, stock, customers, gone, supplied, req>>

Book == INSTANCE OrderBook
          WITH book <- [o \in DOMAIN orders |->
                          [product  |-> orders[o].product,
                           quantity |-> orders[o].quantity,
                           status   |-> orders[o].status]]

Statuses == Book!Statuses
Transitions == Book!Transitions

-----------------------------------------------------------------------------
(* Types                                                                   *)

Row == [customer : Customers, product : Products, quantity : Quantities,
        status : Statuses, tracking : BOOLEAN, version : 1..MaxVersion,
        receipt : BOOLEAN]

Idle == [op |-> "idle"]

PatchRequest == [op : {"patch"}, order : Keys, version : 1..MaxVersion,
                 status : Statuses, tracking : BOOLEAN, previous : Statuses,
                 product : Products, quantity : Quantities]
CreateRequest == [op : {"create"}, key : Keys, customer : Customers,
                  product : Products, quantity : Quantities]
EditRequest == [op : {"edit"}, product : Products, loaded : 0..MaxInt,
                entered : StockLevels]
DropRequest == [op : {"dropProduct"}, product : Products]
                 \cup [op : {"dropCustomer"}, customer : Customers]

Request == {Idle} \cup PatchRequest \cup CreateRequest \cup EditRequest
             \cup DropRequest

(* Rows have the columns' types; no stock is negative or beyond its column. *)
TypeOK == /\ DOMAIN orders \subseteq Keys
          /\ orders \in [DOMAIN orders -> Row]
          /\ DOMAIN stock \subseteq Products
          /\ stock \in [DOMAIN stock -> 0..MaxInt]
          /\ customers \subseteq Customers
          /\ gone \subseteq Customers
          /\ DOMAIN stock \subseteq DOMAIN supplied
          /\ supplied \in [DOMAIN supplied -> Int]
          /\ req \in [Requests -> Request]

-----------------------------------------------------------------------------

Init == /\ orders = [o \in {} |-> Idle]
        /\ stock \in UNION {[P -> StockLevels] : P \in SUBSET Products}
        /\ customers = {}
        /\ gone = {}
        /\ supplied = stock
        /\ req = [r \in Requests |-> Idle]

Begin(r, request) == /\ req[r] = Idle
                     /\ req' = [req EXCEPT ![r] = request]

End(r) == req' = [req EXCEPT ![r] = Idle]

(* A handler that raises, or whose process dies: its session rolls back.   *)
Fail(r) == /\ req[r] # Idle
           /\ End(r)
           /\ UNCHANGED <<orders, stock, customers, gone, supplied>>

(* The server restarts: every request in flight is forgotten.              *)
Crash == /\ req' = [r \in Requests |-> Idle]
         /\ UNCHANGED <<orders, stock, customers, gone, supplied>>

-----------------------------------------------------------------------------
(* POST /orders                                                            *)

CreateLoad(r, o, c, p, q) ==
  /\ o \notin DOMAIN orders
  /\ c \in customers
  /\ p \in DOMAIN stock
  /\ stock[p] >= q
  /\ Begin(r, [op |-> "create", key |-> o, customer |-> c,
               product |-> p, quantity |-> q])
  /\ UNCHANGED <<orders, stock, customers, gone, supplied>>

(* Broken: an insert that only the unique request_key can stop.            *)
InsertKeyOnly(w) == w.key \notin DOMAIN orders

(* The insert keeps the unique key and both foreign keys, or it raises     *)
(* IntegrityError: then the handler answers the existing row or fails.     *)
InsertAllowed(w) == /\ w.key \notin DOMAIN orders
                    /\ w.customer \in customers
                    /\ w.product \in DOMAIN stock

NewRow(w) == [customer |-> w.customer, product |-> w.product,
              quantity |-> w.quantity, status |-> "pending",
              tracking |-> FALSE, version |-> 1, receipt |-> FALSE]

CreateCommit(r) ==
  /\ req[r].op = "create"
  /\ orders' = IF InsertAllowed(req[r])
               THEN Book!Insert(orders, req[r].key, NewRow(req[r]))
               ELSE orders
  /\ End(r)
  /\ UNCHANGED <<stock, customers, gone, supplied>>

-----------------------------------------------------------------------------
(* PATCH /orders/{id}                                                      *)

(* Broken: a transition check that forgets the tracking code.              *)
MoveUntracked(row, status, tracking) ==
  status = row.status \/ status \in Transitions[row.status]

(* The checks before the first write; the client's version is the row's or *)
(* the handler answers 409 here.                                           *)
MoveAllowed(row, status, tracking) ==
  /\ status = row.status \/ status \in Transitions[row.status]
  /\ status = "shipped" => tracking

PatchLoad(r, o, status, tracking) ==
  /\ o \in DOMAIN orders
  /\ MoveAllowed(orders[o], status, tracking)
  /\ Begin(r, [op |-> "patch", order |-> o, version |-> orders[o].version,
               status |-> status, tracking |-> tracking,
               previous |-> orders[o].status,
               product |-> orders[o].product, quantity |-> orders[o].quantity])
  /\ UNCHANGED <<orders, stock, customers, gone, supplied>>

(* Broken: an UPDATE of the order without "AND version = :version".        *)
CasById(w) == orders[w.order].version < MaxVersion

(* UPDATE orders ... WHERE id = :id AND version = :version hits one row.   *)
CasHits(w) == /\ orders[w.order].version = w.version
              /\ w.version < MaxVersion

(* Broken: an UPDATE of the stock without "AND stock >= :quantity".        *)
StockUnguarded(w) == w.product \in DOMAIN stock

(* UPDATE products: refused when the units are missing or do not fit.      *)
StockHits(w) ==
  Book!StockAllows(w.previous, w.status, stock[w.product], w.quantity)

(* Broken: a patch that forgets "version = version + 1".                   *)
PatchedSameVersion(w) == [orders[w.order] EXCEPT !.status = w.status,
                                                 !.tracking = w.tracking]

PatchedRow(w) == [orders[w.order] EXCEPT !.status = w.status,
                                         !.tracking = w.tracking,
                                         !.version = @ + 1]

PatchCommit(r) ==
  LET w == req[r]
  IN  /\ w.op = "patch"
      /\ CasHits(w)
      /\ StockHits(w)
      /\ orders' = [orders EXCEPT ![w.order] = PatchedRow(w)]
      /\ stock' = [stock EXCEPT ![w.product] =
                     Book!StockAfter(w.previous, w.status, @, w.quantity)]
      /\ End(r)
      /\ UNCHANGED <<customers, gone, supplied>>

(* 409: the row or the stock is no longer what the handler needs.          *)
PatchRefused(r) ==
  /\ req[r].op = "patch"
  /\ ~ (CasHits(req[r]) /\ StockHits(req[r]))
  /\ End(r)
  /\ UNCHANGED <<orders, stock, customers, gone, supplied>>

(* POST /orders/{id}/receipt writes the receipt columns and no other.      *)
UploadReceipt(o) ==
  /\ o \in DOMAIN orders
  /\ orders' = [orders EXCEPT ![o].receipt = TRUE]
  /\ UNCHANGED <<stock, customers, gone, supplied, req>>

-----------------------------------------------------------------------------
(* POST, PUT and DELETE /products                                          *)

CreateProduct(p, n) ==
  /\ p \notin DOMAIN supplied
  /\ stock' = Book!Insert(stock, p, n)
  /\ supplied' = Book!Insert(supplied, p, n)
  /\ UNCHANGED <<orders, customers, gone, req>>

EditLoad(r, p, n) ==
  /\ p \in DOMAIN stock
  /\ Begin(r, [op |-> "edit", product |-> p, loaded |-> stock[p], entered |-> n])
  /\ UNCHANGED <<orders, stock, customers, gone, supplied>>

(* The ORM writes the column only when the value differs from the one it   *)
(* loaded, and writes the absolute value, whatever the row holds by then.  *)
EditCommit(r) ==
  LET w == req[r]
      writes == w.product \in DOMAIN stock /\ w.entered # w.loaded
  IN  /\ w.op = "edit"
      /\ stock' = IF writes THEN [stock EXCEPT ![w.product] = w.entered] ELSE stock
      /\ supplied' = IF writes
                     THEN [supplied EXCEPT ![w.product] = @ + w.entered - stock[w.product]]
                     ELSE supplied
      /\ End(r)
      /\ UNCHANGED <<orders, customers, gone>>

DropProductLoad(r, p) ==
  /\ p \in DOMAIN stock
  /\ \A o \in DOMAIN orders : orders[o].product # p
  /\ Begin(r, [op |-> "dropProduct", product |-> p])
  /\ UNCHANGED <<orders, stock, customers, gone, supplied>>

(* The foreign key of the orders table is checked again by the DELETE.     *)
DropProductCommit(r) ==
  /\ req[r].op = "dropProduct"
  /\ stock' = IF \A o \in DOMAIN orders : orders[o].product # req[r].product
              THEN Book!Without(stock, req[r].product)
              ELSE stock
  /\ End(r)
  /\ UNCHANGED <<orders, customers, gone, supplied>>

-----------------------------------------------------------------------------
(* Customers: written by the inbound pipeline, deleted by the admin.       *)

CustomerArrives(c) ==
  /\ c \notin customers \cup gone
  /\ customers' = customers \cup {c}
  /\ UNCHANGED <<orders, stock, gone, supplied, req>>

DropCustomerLoad(r, c) ==
  /\ c \in customers
  /\ \A o \in DOMAIN orders : orders[o].customer # c
  /\ Begin(r, [op |-> "dropCustomer", customer |-> c])
  /\ UNCHANGED <<orders, stock, customers, gone, supplied>>

DropCustomerCommit(r) ==
  LET c == req[r].customer
      unreferenced == \A o \in DOMAIN orders : orders[o].customer # c
  IN  /\ req[r].op = "dropCustomer"
      /\ customers' = IF unreferenced THEN customers \ {c} ELSE customers
      /\ gone' = IF unreferenced THEN gone \cup {c} ELSE gone
      /\ End(r)
      /\ UNCHANGED <<orders, stock, supplied>>

-----------------------------------------------------------------------------

Handler(r) ==
  \/ \E o \in Keys, c \in Customers, p \in Products, q \in Quantities :
       CreateLoad(r, o, c, p, q)
  \/ CreateCommit(r)
  \/ \E o \in Keys, status \in Statuses, tracking \in BOOLEAN :
       PatchLoad(r, o, status, tracking)
  \/ PatchCommit(r)
  \/ PatchRefused(r)
  \/ \E p \in Products, n \in StockLevels : EditLoad(r, p, n)
  \/ EditCommit(r)
  \/ \E p \in Products : DropProductLoad(r, p)
  \/ DropProductCommit(r)
  \/ \E c \in Customers : DropCustomerLoad(r, c)
  \/ DropCustomerCommit(r)
  \/ Fail(r)

Next == \/ \E r \in Requests : Handler(r)
        \/ \E o \in Keys : UploadReceipt(o)
        \/ \E p \in Products, n \in StockLevels : CreateProduct(p, n)
        \/ \E c \in Customers : CustomerArrives(c)
        \/ Crash

Spec == Init /\ [][Next]_vars

-----------------------------------------------------------------------------
(* Properties                                                              *)

(* No patch in flight is ahead of its row, and one whose version is still  *)
(* the row's has also loaded the status, product and quantity the row has  *)
(* now: the CAS of update_order on the version alone is enough for the     *)
(* transition check and the stock arithmetic made on the loaded row.       *)
OptimisticLock ==
  \A r \in Requests :
    req[r].op = "patch" =>
      LET w == req[r]
          row == orders[w.order]
      IN  /\ w.order \in DOMAIN orders
          /\ w.version <= row.version
          /\ w.version = row.version => w.previous = row.status
          /\ w.product = row.product /\ w.quantity = row.quantity
          /\ MoveAllowed([row EXCEPT !.status = w.previous], w.status, w.tracking)

(* The units ever put on sale are either on the shelf or in confirmed and  *)
(* shipped orders: no interleaving of confirmations, cancellations, edits, *)
(* refused patches or crashes takes or gives units twice or loses them.    *)
Holds(o, p) == /\ orders[o].product = p
               /\ orders[o].status \in {"confirmed", "shipped"}

Units(o) == {o} \X (1..orders[o].quantity)

Committed(p) == Cardinality(UNION {Units(o) : o \in {k \in DOMAIN orders : Holds(k, p)}})

StockConservation ==
  \A p \in DOMAIN stock : stock[p] + Committed(p) = supplied[p]

(* The deletions of products and customers check for orders before the     *)
(* order of a concurrent request is inserted, and the other way round:     *)
(* still every order has its customer and its product.                     *)
ReferentialIntegrity ==
  \A o \in DOMAIN orders : /\ orders[o].customer \in customers
                           /\ orders[o].product \in DOMAIN stock

(* An order marked shipped has a tracking code, also after later patches   *)
(* that keep the status and rewrite the code.                              *)
ShippedIsTracked ==
  \A o \in DOMAIN orders : orders[o].status = "shipped" => orders[o].tracking

(* Whatever interleaves, a committed order only moves along the transition *)
(* table, every change of status or tracking takes a new version, and what *)
(* was ordered, by whom and an uploaded receipt stay.                      *)
LegalRowStep(row, next) ==
  /\ next.version \in {row.version, row.version + 1}
  /\ next.version = row.version => /\ next.status = row.status
                                   /\ next.tracking = row.tracking
  /\ next.status # row.status => next.status \in Transitions[row.status]
  /\ next.customer = row.customer
  /\ next.product = row.product
  /\ next.quantity = row.quantity
  /\ row.receipt => next.receipt

LegalStep == \A o \in DOMAIN orders : /\ o \in DOMAIN orders'
                                      /\ LegalRowStep(orders[o], orders'[o])

LegalMoves == [][LegalStep]_vars

(* The concurrent handlers behave like the indivisible steps of OrderBook. *)
ImplementsOrderBook == Book!Spec
=============================================================================
