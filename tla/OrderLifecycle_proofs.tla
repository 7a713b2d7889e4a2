------------------------ MODULE OrderLifecycle_proofs ------------------------
(***************************************************************************)
(* Proofs about OrderLifecycle for every set of orders, products,          *)
(* customers and concurrent handlers, and every column width.              *)
(***************************************************************************)
EXTENDS OrderLifecycle, FiniteSetTheorems, TLAPS

(* What an admin may enter for a stock fits the column.                     *)
LEMMA StockLevelFacts == /\ \A n \in StockLevels : n \in 0..MaxInt
                         /\ \A n \in 0..MaxInt : n \in Int
<1>1. \A n \in StockLevels : n \in 0..MaxInt
  BY StockLevelsAssumption
<1>2. \A n \in 0..MaxInt : n \in Int
  BY MaxIntAssumption
<1> QED
  BY <1>1, <1>2

LEMMA TypeInit == Init => TypeOK
<1> SUFFICES ASSUME Init PROVE TypeOK
  OBVIOUS
<1> PICK P \in SUBSET Products : stock \in [P -> StockLevels]
  BY DEF Init
<1>1. \A p \in DOMAIN stock : stock[p] \in 0..MaxInt /\ stock[p] \in Int
  BY StockLevelFacts
<1>2. DOMAIN orders = {} /\ DOMAIN stock \in SUBSET Products
  BY DEF Init
<1>3. req \in [Requests -> Request]
  BY DEF Init, Request
<1> QED
  BY <1>1, <1>2, <1>3 DEF Init, TypeOK

(* Loading keeps the tables and gives the handler a well-typed request.    *)
LEMMA BeginType ==
  ASSUME TypeOK, NEW r \in Requests, NEW w \in Request, Begin(r, w),
         UNCHANGED <<orders, stock, customers, gone, supplied>>
  PROVE  TypeOK'
  BY DEF TypeOK, Begin

LEMMA CreateType ==
  ASSUME TypeOK, NEW r \in Requests, CreateCommit(r)
  PROVE  TypeOK'
<1>1. req[r] \in CreateRequest
  BY DEF TypeOK, CreateCommit, Request, Idle, PatchRequest, CreateRequest,
         EditRequest, DropRequest
<1>2. NewRow(req[r]) \in Row
  BY <1>1, MaxVersionAssumption DEF NewRow, Row, CreateRequest, Statuses, Book!Statuses
<1>3. req[r].key \in Keys
  BY <1>1 DEF CreateRequest
<1>4. DOMAIN orders' \subseteq Keys /\ orders' \in [DOMAIN orders' -> Row]
  <2>1. CASE InsertAllowed(req[r])
    <3>1. orders' = Book!Insert(orders, req[r].key, NewRow(req[r]))
      BY <2>1 DEF CreateCommit
    <3> QED
      BY <1>2, <1>3, <3>1 DEF TypeOK, Book!Insert
  <2>2. CASE ~InsertAllowed(req[r])
    BY <2>2 DEF CreateCommit, TypeOK
  <2> QED
    BY <2>1, <2>2
<1>5. req' \in [Requests -> Request]
  BY DEF TypeOK, CreateCommit, End, Request
<1> QED
  BY <1>4, <1>5 DEF TypeOK, CreateCommit

LEMMA PatchType ==
  ASSUME TypeOK, NEW r \in Requests, PatchCommit(r)
  PROVE  TypeOK'
<1> DEFINE w == req[r]
<1>1. w \in PatchRequest
  BY DEF TypeOK, PatchCommit, Request, Idle, PatchRequest, CreateRequest,
         EditRequest, DropRequest
<1>2. ASSUME NEW o \in DOMAIN orders'
      PROVE  orders'[o] \in Row
  <2>1. o \in DOMAIN orders /\ orders[o] \in Row
    BY DEF PatchCommit, TypeOK
  <2>2. CASE o = w.order
    <3>1. orders[o].version \in 1..MaxVersion /\ orders[o].version + 1 \in 1..MaxVersion
      BY <1>1, <2>1, <2>2, MaxVersionAssumption DEF PatchCommit, CasHits, Row, PatchRequest
    <3>2. orders'[o] = PatchedRow(w)
      BY <2>1, <2>2 DEF PatchCommit
    <3> QED
      BY <1>1, <2>1, <2>2, <3>1, <3>2 DEF PatchedRow, Row, PatchRequest
  <2>3. CASE o # w.order
    BY <2>1, <2>3 DEF PatchCommit
  <2> QED
    BY <2>2, <2>3
<1>3. ASSUME NEW p \in DOMAIN stock'
      PROVE  stock'[p] \in 0..MaxInt
  <2>1. p \in DOMAIN stock /\ stock[p] \in 0..MaxInt
    BY DEF PatchCommit, TypeOK
  <2>2. CASE p = w.product
    <3>1. w.quantity \in Nat
      BY <1>1, QuantitiesAssumption DEF PatchRequest
    <3>2. stock'[p] = Book!StockAfter(w.previous, w.status, stock[p], w.quantity)
      BY <2>1, <2>2 DEF PatchCommit
    <3>3. Book!StockAllows(w.previous, w.status, stock[p], w.quantity)
      BY <2>2 DEF PatchCommit, StockHits
    <3> QED
      BY <2>1, <3>1, <3>2, <3>3, MaxIntAssumption DEF Book!StockAfter, Book!StockAllows,
         Book!TakesStock, Book!GivesBack
  <2>3. CASE p # w.product
    BY <2>1, <2>3 DEF PatchCommit
  <2> QED
    BY <2>2, <2>3
<1>4. req' \in [Requests -> Request]
  BY DEF TypeOK, PatchCommit, End, Request
<1>5. DOMAIN orders' = DOMAIN orders /\ DOMAIN stock' = DOMAIN stock
  BY DEF PatchCommit
<1> QED
  BY <1>2, <1>3, <1>4, <1>5 DEF TypeOK, PatchCommit

LEMMA EditType ==
  ASSUME TypeOK, NEW r \in Requests, EditCommit(r)
  PROVE  TypeOK'
<1> DEFINE w == req[r]
<1>1. w \in EditRequest
  BY DEF TypeOK, EditCommit, Request, Idle, PatchRequest, CreateRequest,
         EditRequest, DropRequest
<1>2. w.entered \in 0..MaxInt /\ w.entered \in Int
  <2>1. w.entered \in StockLevels
    BY <1>1 DEF EditRequest
  <2> QED
    BY <2>1, StockLevelFacts
<1>3. DOMAIN stock' = DOMAIN stock /\ DOMAIN supplied' = DOMAIN supplied
  BY DEF EditCommit
<1>4. \A p \in DOMAIN stock' : stock'[p] \in 0..MaxInt
  BY <1>2, <1>3 DEF EditCommit, TypeOK
<1>5. \A p \in DOMAIN supplied' : supplied'[p] \in Int
  <2> SUFFICES ASSUME NEW p \in DOMAIN supplied' PROVE supplied'[p] \in Int
    OBVIOUS
  <2>1. supplied[p] \in Int
    BY <1>3 DEF TypeOK
  <2>2. CASE w.product \in DOMAIN stock /\ w.entered # w.loaded /\ p = w.product
    <3>1. stock[p] \in Int
      BY <2>2 DEF TypeOK
    <3>2. supplied'[p] = supplied[p] + w.entered - stock[p]
      BY <1>3, <2>2 DEF EditCommit
    <3> QED
      BY <1>2, <2>1, <3>1, <3>2
  <2>3. CASE ~(w.product \in DOMAIN stock /\ w.entered # w.loaded /\ p = w.product)
    BY <1>3, <2>1, <2>3 DEF EditCommit
  <2> QED
    BY <2>2, <2>3
<1>6. req' \in [Requests -> Request]
  BY DEF TypeOK, EditCommit, End, Request
<1> QED
  BY <1>3, <1>4, <1>5, <1>6 DEF TypeOK, EditCommit

(* Every Load action ends in one of the well-typed requests.               *)
LEMMA LoadType ==
  ASSUME TypeOK, NEW r \in Requests,
         \/ \E o \in Keys, c \in Customers, p \in Products, q \in Quantities :
              CreateLoad(r, o, c, p, q)
         \/ \E o \in Keys, status \in Statuses, tracking \in BOOLEAN :
              PatchLoad(r, o, status, tracking)
         \/ \E p \in Products, n \in StockLevels : EditLoad(r, p, n)
         \/ \E p \in Products : DropProductLoad(r, p)
         \/ \E c \in Customers : DropCustomerLoad(r, c)
  PROVE  \E w \in Request : Begin(r, w) /\ UNCHANGED <<orders, stock, customers, gone, supplied>>
<1>1. ASSUME NEW o \in Keys, NEW c \in Customers, NEW p \in Products,
             NEW q \in Quantities, CreateLoad(r, o, c, p, q)
      PROVE  \E w \in CreateRequest : Begin(r, w)
  BY <1>1 DEF CreateLoad, CreateRequest
<1>2. ASSUME NEW o \in Keys, NEW status \in Statuses, NEW tracking \in BOOLEAN,
             PatchLoad(r, o, status, tracking)
      PROVE  \E w \in PatchRequest : Begin(r, w)
  <2>1. orders[o] \in Row
    BY <1>2 DEF PatchLoad, TypeOK
  <2> QED
    BY <1>2, <2>1 DEF PatchLoad, PatchRequest, Row
<1>3. ASSUME NEW p \in Products, NEW n \in StockLevels, EditLoad(r, p, n)
      PROVE  \E w \in EditRequest : Begin(r, w)
  BY <1>3 DEF EditLoad, EditRequest, TypeOK
<1>4. ASSUME NEW p \in Products, DropProductLoad(r, p)
      PROVE  \E w \in DropRequest : Begin(r, w)
  BY <1>4 DEF DropProductLoad, DropRequest
<1>5. ASSUME NEW c \in Customers, DropCustomerLoad(r, c)
      PROVE  \E w \in DropRequest : Begin(r, w)
  BY <1>5 DEF DropCustomerLoad, DropRequest
<1>6. UNCHANGED <<orders, stock, customers, gone, supplied>>
  BY DEF CreateLoad, PatchLoad, EditLoad, DropProductLoad, DropCustomerLoad
<1> QED
  BY <1>1, <1>2, <1>3, <1>4, <1>5, <1>6 DEF Request

LEMMA TypeStep == TypeOK /\ [Next]_vars => TypeOK'
<1> SUFFICES ASSUME TypeOK, [Next]_vars PROVE TypeOK'
  OBVIOUS
<1>1. CASE UNCHANGED vars
  BY <1>1 DEF vars, TypeOK
<1>2. ASSUME NEW r \in Requests, Handler(r)
      PROVE  TypeOK'
  <2>1. CASE CreateCommit(r)
    BY <2>1, CreateType
  <2>2. CASE PatchCommit(r)
    BY <2>2, PatchType
  <2>3. CASE PatchRefused(r) \/ Fail(r)
    BY <2>3 DEF PatchRefused, Fail, End, TypeOK, Request
  <2>4. CASE EditCommit(r)
    BY <2>4, EditType
  <2>5. CASE DropProductCommit(r)
    <3>1. DOMAIN stock' \subseteq DOMAIN stock /\ stock' \in [DOMAIN stock' -> 0..MaxInt]
      BY <2>5 DEF DropProductCommit, Book!Without, TypeOK
    <3> QED
      BY <2>5, <3>1 DEF DropProductCommit, End, TypeOK, Request
  <2>6. CASE DropCustomerCommit(r)
    <3>1. req[r].customer \in Customers
      BY <2>6 DEF DropCustomerCommit, TypeOK, Request, Idle, PatchRequest,
                  CreateRequest, EditRequest, DropRequest
    <3> QED
      BY <2>6, <3>1 DEF DropCustomerCommit, End, TypeOK, Request
  <2>7. CASE \E w \in Request : Begin(r, w) /\ UNCHANGED <<orders, stock, customers, gone, supplied>>
    BY <2>7, BeginType
  <2> QED
    BY <1>2, <2>1, <2>2, <2>3, <2>4, <2>5, <2>6, <2>7, LoadType DEF Handler
<1>3. ASSUME NEW o \in Keys, UploadReceipt(o)
      PROVE  TypeOK'
  BY <1>3 DEF UploadReceipt, TypeOK, Row
<1>4. ASSUME NEW p \in Products, NEW n \in StockLevels, CreateProduct(p, n)
      PROVE  TypeOK'
  BY <1>4, StockLevelFacts DEF CreateProduct, TypeOK, Book!Insert
<1>5. ASSUME NEW c \in Customers, CustomerArrives(c)
      PROVE  TypeOK'
  BY <1>5 DEF CustomerArrives, TypeOK
<1>6. CASE Crash
  BY <1>6 DEF Crash, TypeOK, Request
<1> QED
  BY <1>1, <1>2, <1>3, <1>4, <1>5, <1>6 DEF Next

(* Rows, stocks and requests keep their types in every reachable state; in *)
(* particular no stock is ever negative.                                   *)
THEOREM TypeCorrect == Spec => []TypeOK
<1> QED
  BY TypeInit, TypeStep, PTL DEF Spec

-----------------------------------------------------------------------------
(* The inductive invariant behind the safety properties.                   *)

Lock == TypeOK /\ OptimisticLock

(* A patch that commits makes a legal step of its row: its CAS hit, so the *)
(* row still has the status the transition check was made on.              *)
LEMMA PatchIsLegal ==
  ASSUME Lock, NEW r \in Requests, PatchCommit(r)
  PROVE  LegalStep
<1> DEFINE w == req[r]
           row == orders[w.order]
<1>1. w.order \in DOMAIN orders /\ row \in Row
  BY DEF Lock, OptimisticLock, PatchCommit, TypeOK
<1>2. row.version = w.version /\ row.status = w.previous
  BY DEF Lock, OptimisticLock, PatchCommit, CasHits
<1>3. MoveAllowed([row EXCEPT !.status = w.previous], w.status, w.tracking)
  BY DEF Lock, OptimisticLock, PatchCommit
<1>4. w.status # row.status => w.status \in Transitions[row.status]
  BY <1>1, <1>2, <1>3 DEF MoveAllowed, Row
<1>5. LegalRowStep(row, PatchedRow(w))
  BY <1>1, <1>4 DEF LegalRowStep, PatchedRow, Row
<1>6. ASSUME NEW o \in DOMAIN orders, o # w.order
      PROVE  LegalRowStep(orders[o], orders'[o])
  <2>1. orders[o] \in Row /\ orders'[o] = orders[o]
    BY <1>6 DEF PatchCommit, Lock, TypeOK
  <2> QED
    BY <2>1 DEF LegalRowStep, Row
<1>7. orders'[w.order] = PatchedRow(w) /\ DOMAIN orders' = DOMAIN orders
  BY <1>1 DEF PatchCommit
<1> QED
  BY <1>5, <1>6, <1>7 DEF LegalStep

LEMMA StepIsLegal == Lock /\ [Next]_vars => LegalStep
<1> SUFFICES ASSUME Lock, [Next]_vars PROVE LegalStep
  OBVIOUS
<1>0. \A o \in DOMAIN orders : orders[o] \in Row
  BY DEF Lock, TypeOK
<1>1. CASE UNCHANGED orders
  BY <1>0, <1>1 DEF LegalStep, LegalRowStep, Row
<1>2. ASSUME NEW r \in Requests, PatchCommit(r)
      PROVE  LegalStep
  BY <1>2, PatchIsLegal
<1>3. ASSUME NEW r \in Requests, CreateCommit(r)
      PROVE  LegalStep
  <2>1. CASE InsertAllowed(req[r])
    <3>1. \A o \in DOMAIN orders : o \in DOMAIN orders' /\ orders'[o] = orders[o]
      BY <1>3, <2>1 DEF CreateCommit, InsertAllowed, Book!Insert
    <3> QED
      BY <1>0, <3>1 DEF LegalStep, LegalRowStep, Row
  <2>2. CASE ~InsertAllowed(req[r])
    BY <1>1, <1>3, <2>2 DEF CreateCommit
  <2> QED
    BY <2>1, <2>2
<1>4. ASSUME NEW k \in Keys, UploadReceipt(k)
      PROVE  LegalStep
  <2> SUFFICES ASSUME NEW o \in DOMAIN orders
               PROVE  o \in DOMAIN orders' /\ LegalRowStep(orders[o], orders'[o])
    BY DEF LegalStep
  <2>1. o \in DOMAIN orders' /\ orders'[o] \in {orders[o], [orders[o] EXCEPT !.receipt = TRUE]}
    BY <1>4 DEF UploadReceipt
  <2> QED
    BY <1>0, <2>1 DEF LegalRowStep, Row
<1>5. \/ UNCHANGED orders
      \/ \E r \in Requests : PatchCommit(r) \/ CreateCommit(r)
      \/ \E k \in Keys : UploadReceipt(k)
  BY DEF vars, Next, Handler, CreateLoad, PatchLoad, PatchRefused, EditLoad, EditCommit,
         DropProductLoad, DropProductCommit, DropCustomerLoad, DropCustomerCommit,
         Fail, CreateProduct, CustomerArrives, Crash
<1> QED
  BY <1>1, <1>2, <1>3, <1>4, <1>5

LEMMA LockStep == Lock /\ [Next]_vars => OptimisticLock'
<1> SUFFICES ASSUME Lock, [Next]_vars, NEW r \in Requests, req'[r].op = "patch"
             PROVE  LET w == req'[r]
                        row == orders'[w.order]
                    IN  /\ w.order \in DOMAIN orders'
                        /\ w.version <= row.version
                        /\ w.version = row.version => w.previous = row.status
                        /\ w.product = row.product /\ w.quantity = row.quantity
                        /\ MoveAllowed([row EXCEPT !.status = w.previous],
                                       w.status, w.tracking)
  BY DEF OptimisticLock
<1> DEFINE w == req[r]
<1>1. CASE req'[r] = w
  <2>1. /\ w.order \in DOMAIN orders
        /\ w.version <= orders[w.order].version
        /\ w.version = orders[w.order].version => w.previous = orders[w.order].status
        /\ w.product = orders[w.order].product
        /\ w.quantity = orders[w.order].quantity
        /\ MoveAllowed([orders[w.order] EXCEPT !.status = w.previous], w.status, w.tracking)
    BY <1>1 DEF Lock, OptimisticLock
  <2>2. /\ w.order \in DOMAIN orders'
        /\ LegalRowStep(orders[w.order], orders'[w.order])
    BY <2>1, StepIsLegal DEF LegalStep
  <2>3. /\ orders[w.order] \in Row
        /\ orders'[w.order] \in Row
    BY <2>1, <2>2, TypeStep DEF Lock, TypeOK
  <2>4. w \in PatchRequest
    BY <1>1 DEF Lock, TypeOK, Request, Idle, PatchRequest, CreateRequest,
                EditRequest, DropRequest
  <2>5. /\ w.version \in Nat
        /\ orders[w.order].version \in Nat
        /\ orders'[w.order].version \in Nat
    BY <2>3, <2>4, MaxVersionAssumption DEF Row, PatchRequest
  <2>6. MoveAllowed([orders'[w.order] EXCEPT !.status = w.previous], w.status, w.tracking)
    BY <2>1, <2>3 DEF MoveAllowed, Row
  <2> QED
    BY <1>1, <2>1, <2>2, <2>5, <2>6 DEF LegalRowStep
<1>2. CASE req'[r] # w
  <2>1. PICK o \in Keys, status \in Statuses, tracking \in BOOLEAN :
          PatchLoad(r, o, status, tracking)
    <3>1. PICK h \in Requests : Handler(h)
      BY <1>2 DEF vars, Next, UploadReceipt, CreateProduct, CustomerArrives, Crash, Idle,
                  Lock, TypeOK
    <3>2. req \in [Requests -> Request]
      BY DEF Lock, TypeOK
    <3>3. ASSUME NEW x, Begin(h, x)
          PROVE  h = r /\ x.op = "patch"
      BY <1>2, <3>2, <3>3 DEF Begin
    <3>4. ~ End(h)
      BY <1>2, <3>2 DEF End, Idle
    <3>5. \E o \in Keys, status \in Statuses, tracking \in BOOLEAN :
            PatchLoad(h, o, status, tracking)
      <4>1. ASSUME NEW o \in Keys, NEW c \in Customers, NEW p \in Products,
                   NEW q \in Quantities, CreateLoad(h, o, c, p, q)
            PROVE  FALSE
        BY <3>3, <4>1 DEF CreateLoad
      <4>2. ASSUME NEW p \in Products, NEW n \in StockLevels, EditLoad(h, p, n)
            PROVE  FALSE
        BY <3>3, <4>2 DEF EditLoad
      <4>3. ASSUME NEW p \in Products, DropProductLoad(h, p)
            PROVE  FALSE
        BY <3>3, <4>3 DEF DropProductLoad
      <4>4. ASSUME NEW c \in Customers, DropCustomerLoad(h, c)
            PROVE  FALSE
        BY <3>3, <4>4 DEF DropCustomerLoad
      <4> QED
        BY <3>1, <3>4, <4>1, <4>2, <4>3, <4>4
           DEF Handler, CreateCommit, PatchCommit, PatchRefused, EditCommit,
               DropProductCommit, DropCustomerCommit, Fail
    <3>6. h = r
      BY <3>3, <3>5 DEF PatchLoad
    <3> QED
      BY <3>5, <3>6
  <2>2. orders[o] \in Row /\ orders' = orders
    BY <2>1 DEF PatchLoad, Lock, TypeOK
  <2>3. req'[r] = [op |-> "patch", order |-> o, version |-> orders[o].version,
                   status |-> status, tracking |-> tracking,
                   previous |-> orders[o].status,
                   product |-> orders[o].product, quantity |-> orders[o].quantity]
    BY <2>1 DEF PatchLoad, Begin, Lock, TypeOK
  <2> QED
    BY <2>1, <2>2, <2>3, MaxVersionAssumption DEF PatchLoad, MoveAllowed, Row
<1> QED
  BY <1>1, <1>2

LEMMA LockInit == Init => Lock
  BY TypeInit DEF Init, Lock, OptimisticLock, Idle

LEMMA LockInvariant == Spec => []Lock
<1>1. Lock /\ [Next]_vars => Lock'
  BY TypeStep, LockStep DEF Lock
<1> QED
  BY LockInit, <1>1, PTL DEF Spec

(* The version check alone makes the checks on the loaded row current.     *)
THEOREM VersionLocks == Spec => []OptimisticLock
<1>1. Lock => OptimisticLock
  BY DEF Lock
<1> QED
  BY LockInvariant, <1>1, PTL

(* Committed orders only move along the transition table, with a new       *)
(* version for every change, whatever handlers run concurrently.           *)
THEOREM OnlyLegalMoves == Spec => LegalMoves
<1>1. Lock /\ [Next]_vars => [LegalStep]_vars
  BY StepIsLegal
<1> QED
  BY LockInvariant, <1>1, PTL DEF Spec, LegalMoves

-----------------------------------------------------------------------------
(* A shipped order has a tracking code.                                    *)

LEMMA TrackedStep == Lock /\ ShippedIsTracked /\ [Next]_vars => ShippedIsTracked'
<1> SUFFICES ASSUME Lock, ShippedIsTracked, [Next]_vars, NEW o \in DOMAIN orders',
                    orders'[o].status = "shipped"
             PROVE  orders'[o].tracking
  BY DEF ShippedIsTracked
<1>1. CASE \E r \in Requests : PatchCommit(r)
  <2> PICK r \in Requests : PatchCommit(r)
    BY <1>1
  <2>1. o \in DOMAIN orders /\ orders[o] \in Row
    BY DEF PatchCommit, Lock, TypeOK
  <2>2. CASE o = req[r].order
    <3>1. MoveAllowed([orders[o] EXCEPT !.status = req[r].previous],
                      req[r].status, req[r].tracking)
      BY <2>2 DEF PatchCommit, Lock, OptimisticLock
    <3>2. /\ orders'[o].status = req[r].status
          /\ orders'[o].tracking = req[r].tracking
      BY <2>1, <2>2 DEF PatchCommit, PatchedRow, Row
    <3> QED
      BY <3>1, <3>2 DEF MoveAllowed
  <2>3. CASE o # req[r].order
    BY <2>1, <2>3 DEF PatchCommit, ShippedIsTracked
  <2> QED
    BY <2>2, <2>3
<1>2. CASE \E r \in Requests : CreateCommit(r)
  BY <1>2 DEF CreateCommit, NewRow, Book!Insert, ShippedIsTracked
<1>3. CASE \E k \in Keys : UploadReceipt(k)
  BY <1>3 DEF UploadReceipt, Lock, TypeOK, Row, ShippedIsTracked
<1>4. CASE UNCHANGED orders
  BY <1>4 DEF ShippedIsTracked
<1> QED
  BY <1>1, <1>2, <1>3, <1>4
     DEF vars, Next, Handler, CreateLoad, PatchLoad, PatchRefused, EditLoad, EditCommit,
         DropProductLoad, DropProductCommit, DropCustomerLoad, DropCustomerCommit,
         Fail, CreateProduct, CustomerArrives, Crash

(* No order is shipped without a tracking code, also after later patches.  *)
THEOREM ShippedHasCode == Spec => []ShippedIsTracked
<1>1. Init => ShippedIsTracked
  BY DEF Init, ShippedIsTracked
<1> QED
  BY <1>1, LockInvariant, TrackedStep, PTL DEF Spec

-----------------------------------------------------------------------------
(* Orders never lose their customer or product.                            *)

LEMMA ReferenceStep ==
  Lock /\ ReferentialIntegrity /\ [Next]_vars => ReferentialIntegrity'
<1> SUFFICES ASSUME Lock, ReferentialIntegrity, [Next]_vars, NEW o \in DOMAIN orders'
             PROVE  orders'[o].customer \in customers' /\ orders'[o].product \in DOMAIN stock'
  BY DEF ReferentialIntegrity
<1>1. CASE o \in DOMAIN orders
  <2>1. /\ orders'[o].customer = orders[o].customer
        /\ orders'[o].product = orders[o].product
    BY <1>1, StepIsLegal DEF LegalStep, LegalRowStep
  <2>2. orders[o].customer \in customers /\ orders[o].product \in DOMAIN stock
    BY <1>1 DEF ReferentialIntegrity
  <2>3. orders[o].customer \in customers'
    <3>1. CASE \E r \in Requests : DropCustomerCommit(r)
      BY <1>1, <2>2, <3>1 DEF DropCustomerCommit
    <3>2. CASE \E c \in Customers : CustomerArrives(c)
      BY <2>2, <3>2 DEF CustomerArrives
    <3>3. CASE UNCHANGED customers
      BY <2>2, <3>3
    <3> QED
      BY <3>1, <3>2, <3>3
         DEF vars, Next, Handler, CreateLoad, CreateCommit, PatchLoad, PatchCommit,
             PatchRefused, EditLoad, EditCommit, DropProductLoad, DropProductCommit,
             DropCustomerLoad, Fail, UploadReceipt, CreateProduct, Crash
  <2>4. orders[o].product \in DOMAIN stock'
    <3>1. CASE \E r \in Requests : DropProductCommit(r)
      BY <1>1, <2>2, <3>1 DEF DropProductCommit, Book!Without
    <3>2. CASE \E p \in Products, n \in StockLevels : CreateProduct(p, n)
      BY <2>2, <3>2 DEF CreateProduct, Book!Insert
    <3>3. CASE \E r \in Requests : PatchCommit(r) \/ EditCommit(r)
      BY <2>2, <3>3 DEF PatchCommit, EditCommit
    <3>4. CASE UNCHANGED stock
      BY <2>2, <3>4
    <3> QED
      BY <3>1, <3>2, <3>3, <3>4
         DEF vars, Next, Handler, CreateLoad, CreateCommit, PatchLoad, PatchRefused,
             EditLoad, DropProductLoad, DropCustomerLoad, DropCustomerCommit, Fail,
             UploadReceipt, CustomerArrives, Crash
  <2> QED
    BY <2>1, <2>3, <2>4
<1>2. CASE o \notin DOMAIN orders
  <2>1. PICK r \in Requests : CreateCommit(r)
    BY <1>2 DEF vars, Next, Handler, CreateLoad, PatchLoad, PatchCommit, PatchRefused,
         EditLoad, EditCommit, DropProductLoad, DropProductCommit, DropCustomerLoad,
         DropCustomerCommit, Fail, UploadReceipt, CreateProduct, CustomerArrives, Crash
  <2>2. InsertAllowed(req[r]) /\ orders'[o] = NewRow(req[r])
    BY <1>2, <2>1 DEF CreateCommit, Book!Insert
  <2> QED
    BY <2>1, <2>2 DEF CreateCommit, InsertAllowed, NewRow
<1> QED
  BY <1>1, <1>2

(* Every order keeps its customer and its product through all races        *)
(* between order creation and the deletion of products and customers.      *)
THEOREM OrdersKeepReferences == Spec => []ReferentialIntegrity
<1>1. Init => ReferentialIntegrity
  BY DEF Init, ReferentialIntegrity
<1> QED
  BY <1>1, LockInvariant, ReferenceStep, PTL DEF Spec

-----------------------------------------------------------------------------
(* OrderLifecycle implements OrderBook.                                    *)

BookRow(row) == [product |-> row.product, quantity |-> row.quantity,
                 status |-> row.status]
Booked == [o \in DOMAIN orders |-> BookRow(orders[o])]

LEMMA BookedIsTheMapping ==
  Booked = [o \in DOMAIN orders |-> [product  |-> orders[o].product,
                                     quantity |-> orders[o].quantity,
                                     status   |-> orders[o].status]]
  BY DEF Booked, BookRow

LEMMA BookInit == Init => Book!Init
<1> SUFFICES ASSUME Init PROVE Book!Init
  OBVIOUS
<1>1. stock \in UNION {[P -> 0..MaxInt] : P \in SUBSET Products}
  <2> PICK P \in SUBSET Products : stock \in [P -> StockLevels]
    BY DEF Init
  <2> QED
    BY StockLevelFacts
<1>2. DOMAIN orders = {}
  BY DEF Init
<1> QED
  BY <1>1, <1>2 DEF Book!Init

LEMMA CreateImplements ==
  ASSUME Lock, NEW r \in Requests, CreateCommit(r)
  PROVE  Book!Next \/ UNCHANGED Book!vars
<1> DEFINE w == req[r]
<1>1. CASE InsertAllowed(w)
  <2>1. w \in CreateRequest
    BY DEF CreateCommit, Lock, TypeOK, Request, Idle, PatchRequest, CreateRequest,
           EditRequest, DropRequest
  <2>2. w.key \in Keys /\ w.product \in Products /\ w.quantity \in Quantities
    BY <2>1 DEF CreateRequest
  <2>3. orders' = Book!Insert(orders, w.key, NewRow(w))
    BY <1>1 DEF CreateCommit
  <2>4. Booked' = Book!Insert(Booked, w.key, [product |-> w.product,
                                              quantity |-> w.quantity,
                                              status |-> "pending"])
    BY <2>3 DEF Booked, BookRow, NewRow, Book!Insert
  <2>5. PICK o \in Keys, p \in Products, q \in Quantities :
          o = w.key /\ p = w.product /\ q = w.quantity
    BY <2>2
  <2>6. Book!Place(o, p, q)
    BY <1>1, <2>4, <2>5 DEF Book!Place, Booked, BookRow, InsertAllowed, CreateCommit
  <2>7. Book!Next
    BY <2>6 DEF Book!Next
  <2> QED
    BY <2>7
<1>2. CASE ~InsertAllowed(w)
  BY <1>2 DEF CreateCommit, Book!vars
<1> QED
  BY <1>1, <1>2

LEMMA PatchImplements ==
  ASSUME Lock, ReferentialIntegrity, NEW r \in Requests, PatchCommit(r)
  PROVE  Book!Next \/ UNCHANGED Book!vars
<1> DEFINE w == req[r]
           row == orders[w.order]
<1>1. w.order \in DOMAIN orders /\ row \in Row
  BY DEF Lock, OptimisticLock, PatchCommit, TypeOK
<1>2. /\ row.status = w.previous
      /\ row.product = w.product
      /\ row.quantity = w.quantity
  BY DEF Lock, OptimisticLock, PatchCommit, CasHits
<1>3. MoveAllowed([row EXCEPT !.status = w.previous], w.status, w.tracking)
  BY DEF Lock, OptimisticLock, PatchCommit
<1>4. w.status = w.previous \/ w.status \in Transitions[w.previous]
  BY <1>1, <1>3 DEF MoveAllowed, Row
<1>5. w.status \in Statuses
  BY DEF PatchCommit, Lock, TypeOK, Request, Idle, PatchRequest, CreateRequest,
         EditRequest, DropRequest
<1>6. Booked' = [Booked EXCEPT ![w.order].status = w.status]
  BY <1>1 DEF PatchCommit, PatchedRow, Booked, BookRow, Row
<1>7. Booked[w.order] = BookRow(row)
  BY <1>1 DEF Booked
<1>8. CASE w.status = w.previous
  <2>1. Booked' = Booked
    BY <1>1, <1>2, <1>6, <1>8 DEF Booked, BookRow
  <2>2. stock' = [stock EXCEPT ![w.product] = stock[w.product]]
    BY <1>8 DEF PatchCommit, Book!StockAfter, Book!TakesStock, Book!GivesBack
  <2>3. stock' = stock
    BY <2>2 DEF Lock, TypeOK
  <2> QED
    BY <2>1, <2>3, BookedIsTheMapping DEF Book!vars, Booked, BookRow
<1>9. CASE w.status \in Transitions[w.previous]
  <2>1. /\ Booked[w.order].status = w.previous
        /\ Booked[w.order].product = w.product
        /\ Booked[w.order].quantity = w.quantity
    BY <1>2, <1>7 DEF BookRow
  <2>2. /\ Book!StockAllows(w.previous, w.status, stock[w.product], w.quantity)
        /\ stock' = [stock EXCEPT ![w.product] =
                       Book!StockAfter(w.previous, w.status, @, w.quantity)]
    BY DEF PatchCommit, StockHits
  <2>3. PICK o \in DOMAIN orders, to \in Book!Statuses : o = w.order /\ to = w.status
    BY <1>1, <1>5 DEF Statuses
  <2>4. Book!Move(o, to)
    BY <1>6, <1>9, <2>1, <2>2, <2>3 DEF Book!Move, Booked, BookRow, Transitions
  <2>5. Book!Next
    BY <2>4 DEF Book!Next
  <2> QED
    BY <2>5
<1> QED
  BY <1>4, <1>8, <1>9

LEMMA StockImplements ==
  ASSUME Lock, UNCHANGED orders,
         \/ \E r \in Requests : EditCommit(r) \/ DropProductCommit(r)
         \/ \E p \in Products, n \in StockLevels : CreateProduct(p, n)
  PROVE  Book!Next \/ UNCHANGED Book!vars
<1>1. ASSUME NEW r \in Requests, EditCommit(r)
      PROVE  Book!Next \/ UNCHANGED Book!vars
  <2>1. req[r].entered \in 0..MaxInt
    <3>1. req[r] \in EditRequest
      BY <1>1 DEF EditCommit, Lock, TypeOK, Request, Idle, PatchRequest, CreateRequest,
                  EditRequest, DropRequest
    <3>2. req[r].entered \in StockLevels
      BY <3>1 DEF EditRequest
    <3> QED
      BY <3>2, StockLevelFacts
  <2>2. CASE req[r].product \in DOMAIN stock /\ req[r].entered # req[r].loaded
    <3>1. Book!SetStock(req[r].product, req[r].entered)
      BY <1>1, <2>2 DEF EditCommit, Book!SetStock
    <3> QED
      BY <2>1, <2>2, <3>1 DEF Book!Next
  <2>3. CASE ~(req[r].product \in DOMAIN stock /\ req[r].entered # req[r].loaded)
    BY <1>1, <2>3 DEF EditCommit, Book!vars
  <2> QED
    BY <2>2, <2>3
<1>2. ASSUME NEW r \in Requests, DropProductCommit(r)
      PROVE  Book!Next \/ UNCHANGED Book!vars
  <2> DEFINE p == req[r].product
  <2>1. CASE /\ p \in DOMAIN stock
             /\ \A o \in DOMAIN orders : orders[o].product # p
    <3>1. Book!Delist(p)
      BY <1>2, <2>1 DEF DropProductCommit, Book!Delist
    <3> QED
      BY <2>1, <3>1 DEF Book!Next
  <2>2. CASE p \notin DOMAIN stock
    <3>1. stock' = stock
      BY <1>2, <2>2 DEF DropProductCommit, Book!Without, Lock, TypeOK
    <3> QED
      BY <1>2, <3>1 DEF Book!vars
  <2>3. CASE ~ \A o \in DOMAIN orders : orders[o].product # p
    BY <1>2, <2>3 DEF DropProductCommit, Book!vars
  <2> QED
    BY <2>1, <2>2, <2>3
<1>3. ASSUME NEW p \in Products, NEW n \in StockLevels, CreateProduct(p, n)
      PROVE  Book!Next \/ UNCHANGED Book!vars
  <2>1. Book!List(p, n)
    BY <1>3 DEF CreateProduct, Book!List, Lock, TypeOK
  <2> QED
    BY <2>1, StockLevelFacts DEF Book!Next
<1> QED
  BY <1>1, <1>2, <1>3

LEMMA BookStep ==
  Lock /\ ReferentialIntegrity /\ [Next]_vars => [Book!Next]_(Book!vars)
<1> SUFFICES ASSUME Lock, ReferentialIntegrity, [Next]_vars
             PROVE  Book!Next \/ UNCHANGED Book!vars
  OBVIOUS
<1>1. CASE UNCHANGED <<orders, stock>>
  BY <1>1 DEF Book!vars
<1>2. ASSUME NEW k \in Keys, UploadReceipt(k)
      PROVE  UNCHANGED Book!vars
  <2>1. DOMAIN orders' = DOMAIN orders
    BY <1>2 DEF UploadReceipt
  <2>2. \A o \in DOMAIN orders : /\ orders'[o].product = orders[o].product
                                 /\ orders'[o].quantity = orders[o].quantity
                                 /\ orders'[o].status = orders[o].status
    BY <1>2 DEF UploadReceipt, Lock, TypeOK, Row
  <2> QED
    BY <1>2, <2>1, <2>2 DEF UploadReceipt, Book!vars
<1>3. ASSUME NEW r \in Requests, CreateCommit(r)
      PROVE  Book!Next \/ UNCHANGED Book!vars
  BY <1>3, CreateImplements
<1>4. ASSUME NEW r \in Requests, PatchCommit(r)
      PROVE  Book!Next \/ UNCHANGED Book!vars
  BY <1>4, PatchImplements
<1>5. CASE /\ UNCHANGED orders
           /\ \/ \E r \in Requests : EditCommit(r) \/ DropProductCommit(r)
              \/ \E p \in Products, n \in StockLevels : CreateProduct(p, n)
  BY <1>5, StockImplements
<1> QED
  BY <1>1, <1>2, <1>3, <1>4, <1>5
     DEF vars, Next, Handler, CreateLoad, PatchLoad, PatchRefused, EditLoad, EditCommit,
         DropProductLoad, DropProductCommit, DropCustomerLoad, DropCustomerCommit, Fail,
         CreateProduct, CustomerArrives, Crash

(* The interleaved handlers implement the indivisible order book: every    *)
(* commit is one of its steps and every other step leaves it unchanged.    *)
THEOREM Refinement == Spec => ImplementsOrderBook
<1>1. Init => Book!Init
  BY BookInit
<1> QED
  BY <1>1, LockInvariant, OrdersKeepReferences, BookStep, PTL
     DEF Spec, ImplementsOrderBook, Book!Spec

-----------------------------------------------------------------------------
(* No unit is taken twice, given back twice or lost.                       *)

HoldsIn(table, o, p) == /\ table[o].product = p
                        /\ table[o].status \in {"confirmed", "shipped"}
Block(o, n) == {o} \X (1..n)
Held(table, p) == UNION {Block(o, table[o].quantity) :
                           o \in {k \in DOMAIN table : HoldsIn(table, k, p)}}

(* Every product's units in confirmed and shipped orders can be counted.   *)
Countable == \A p \in Products : IsFiniteSet(Held(orders, p))

StockInv == Countable /\ StockConservation

LEMMA CommittedIsHeld == \A p : Committed(p) = Cardinality(Held(orders, p))
  BY DEF Committed, Units, Held, Block, Holds, HoldsIn

LEMMA BlockSize ==
  ASSUME NEW o, NEW n \in Nat
  PROVE  IsFiniteSet(Block(o, n)) /\ Cardinality(Block(o, n)) = n
<1> DEFINE S == {o}
           T == 1..n
<1>1. IsFiniteSet(S) /\ Cardinality(S) = 1
  BY FS_Singleton
<1>2. IsFiniteSet(T) /\ Cardinality(T) = n
  BY FS_Interval
<1>3. IsFiniteSet(S \X T) /\ Cardinality(S \X T) = 1 * n
  <2> HIDE DEF S, T
  <2> QED
    BY <1>1, <1>2, FS_Product
<1>4. 1 * n = n
  OBVIOUS
<1> QED
  BY <1>3, <1>4, Zenon DEF Block

(* Two tables with the same rows, or with rows that hold the same units.   *)
LEMMA SameUnits ==
  ASSUME NEW old, NEW new, NEW p,
         \A o \in DOMAIN old \cup DOMAIN new :
           (o \in DOMAIN old /\ HoldsIn(old, o, p)) <=> (o \in DOMAIN new /\ HoldsIn(new, o, p)),
         \A o \in DOMAIN old \cap DOMAIN new : new[o].quantity = old[o].quantity
  PROVE  Held(new, p) = Held(old, p)
<1> DEFINE S == {k \in DOMAIN old : HoldsIn(old, k, p)}
           T == {k \in DOMAIN new : HoldsIn(new, k, p)}
<1>1. S = T
  OBVIOUS
<1>2. \A o \in S : Block(o, new[o].quantity) = Block(o, old[o].quantity)
  BY <1>1
<1>3. {Block(o, new[o].quantity) : o \in T} = {Block(o, old[o].quantity) : o \in S}
  <2> HIDE DEF S, T
  <2> QED
    BY <1>1, <1>2
<1> QED
  BY <1>3 DEF Held

(* One more row holds its units.                                           *)
LEMMA MoreUnits ==
  ASSUME NEW old, NEW new, NEW p, NEW k \in DOMAIN old,
         DOMAIN new = DOMAIN old,
         \A o \in DOMAIN old : new[o].quantity = old[o].quantity,
         \A o \in DOMAIN old \ {k} : HoldsIn(old, o, p) <=> HoldsIn(new, o, p),
         ~HoldsIn(old, k, p), HoldsIn(new, k, p),
         old[k].quantity \in Nat,
         IsFiniteSet(Held(old, p))
  PROVE  /\ IsFiniteSet(Held(new, p))
         /\ Cardinality(Held(new, p)) = Cardinality(Held(old, p)) + old[k].quantity
<1> DEFINE n == old[k].quantity
<1>1. Held(new, p) = Held(old, p) \cup Block(k, n)
  <2>1. {o \in DOMAIN new : HoldsIn(new, o, p)} = {o \in DOMAIN old : HoldsIn(old, o, p)} \cup {k}
    OBVIOUS
  <2> QED
    BY <2>1 DEF Held
<1>2. Held(old, p) \cap Block(k, n) = {}
  BY DEF Held, Block
<1>3. IsFiniteSet(Block(k, n)) /\ Cardinality(Block(k, n)) = n
  BY BlockSize
<1>4. /\ IsFiniteSet(Held(new, p))
      /\ Cardinality(Held(new, p)) = Cardinality(Held(old, p)) + Cardinality(Block(k, n))
                                       - Cardinality({})
  BY <1>1, <1>2, <1>3, FS_Union
<1>5. Cardinality({}) = 0 /\ Cardinality(Held(old, p)) \in Nat
  BY FS_EmptySet, FS_CardinalityType
<1> QED
  BY <1>3, <1>4, <1>5

LEMMA StockInit == Init => StockInv
<1> SUFFICES ASSUME Init PROVE StockInv
  OBVIOUS
<1>1. TypeOK
  BY TypeInit
<1>2. \A p : Held(orders, p) = {}
  BY DEF Init, Held
<1>3. IsFiniteSet({}) /\ Cardinality({}) = 0
  BY FS_EmptySet
<1>4. Countable
  BY <1>2, <1>3 DEF Countable
<1>5. ASSUME NEW p \in DOMAIN stock
      PROVE  stock[p] + Committed(p) = supplied[p]
  <2>1. stock[p] \in Int /\ supplied[p] = stock[p]
    BY <1>1, <1>5, StockLevelFacts DEF Init, TypeOK
  <2>2. Committed(p) = 0
    BY <1>2, <1>3, CommittedIsHeld
  <2> QED
    BY <2>1, <2>2
<1> QED
  BY <1>4, <1>5 DEF StockInv, StockConservation

(* A step that leaves stock and supply alone and holds the same units.     *)
LEMMA SameStock ==
  ASSUME StockInv, UNCHANGED <<stock, supplied>>,
         \A p \in Products \cup DOMAIN stock : Held(orders', p) = Held(orders, p)
  PROVE  StockInv'
<1>1. Countable'
  BY DEF StockInv, Countable
<1>2. ASSUME NEW p \in DOMAIN stock'
      PROVE  stock'[p] + Committed(p)' = supplied'[p]
  <2>1. Committed(p)' = Committed(p)
    <3>1. Committed(p)' = Cardinality(Held(orders', p))
      BY DEF Committed, Units, Held, Block, Holds, HoldsIn
    <3> QED
      BY <1>2, <3>1, CommittedIsHeld
  <2> QED
    BY <2>1 DEF StockInv, StockConservation
<1> QED
  BY <1>1, <1>2 DEF StockInv, StockConservation

LEMMA CreateKeepsStock ==
  ASSUME StockInv, NEW r \in Requests, CreateCommit(r)
  PROVE  StockInv'
<1>1. ASSUME NEW p
      PROVE  Held(orders', p) = Held(orders, p)
  <2>1. CASE InsertAllowed(req[r])
    <3>1. orders' = Book!Insert(orders, req[r].key, NewRow(req[r]))
      BY <2>1 DEF CreateCommit
    <3>2. req[r].key \notin DOMAIN orders
      BY <2>1 DEF InsertAllowed
    <3>3. ~HoldsIn(orders', req[r].key, p)
      BY <3>1 DEF Book!Insert, HoldsIn, NewRow
    <3>4. \A o \in DOMAIN orders : o \in DOMAIN orders' /\ orders'[o] = orders[o]
      BY <3>1, <3>2 DEF Book!Insert
    <3>5. DOMAIN orders' = DOMAIN orders \cup {req[r].key}
      BY <3>1 DEF Book!Insert
    <3> QED
      BY <3>2, <3>3, <3>4, <3>5, SameUnits DEF HoldsIn
  <2>2. CASE ~InsertAllowed(req[r])
    BY <2>2 DEF CreateCommit
  <2> QED
    BY <2>1, <2>2
<1> QED
  BY <1>1, SameStock DEF CreateCommit

LEMMA ReceiptKeepsStock ==
  ASSUME TypeOK, StockInv, NEW k \in Keys, UploadReceipt(k)
  PROVE  StockInv'
<1>1. DOMAIN orders' = DOMAIN orders
  BY DEF UploadReceipt
<1>2. \A o \in DOMAIN orders : /\ orders'[o].product = orders[o].product
                               /\ orders'[o].quantity = orders[o].quantity
                               /\ orders'[o].status = orders[o].status
  BY DEF UploadReceipt, TypeOK, Row
<1>3. ASSUME NEW p
      PROVE  Held(orders', p) = Held(orders, p)
  BY <1>1, <1>2, SameUnits DEF HoldsIn
<1> QED
  BY <1>3, SameStock DEF UploadReceipt

(* A patch that commits moves units between its order and its product.     *)
LEMMA PatchKeepsStock ==
  ASSUME Lock, StockInv, ReferentialIntegrity, NEW r \in Requests, PatchCommit(r)
  PROVE  StockInv'
<1> DEFINE w == req[r]
           k == w.order
           q == w.product
           n == w.quantity
<1>1. k \in DOMAIN orders /\ orders[k] \in Row
  BY DEF Lock, OptimisticLock, PatchCommit, TypeOK
<1>2. orders[k].status = w.previous /\ orders[k].product = q /\ orders[k].quantity = n
  BY DEF Lock, OptimisticLock, PatchCommit, CasHits
<1>3. w.status = w.previous \/ w.status \in Transitions[w.previous]
  <2>1. MoveAllowed([orders[k] EXCEPT !.status = w.previous], w.status, w.tracking)
    BY DEF Lock, OptimisticLock, PatchCommit
  <2> QED
    BY <1>1, <2>1 DEF MoveAllowed, Row
<1>4. /\ DOMAIN orders' = DOMAIN orders
      /\ orders'[k] = [orders[k] EXCEPT !.status = w.status, !.tracking = w.tracking,
                                        !.version = @ + 1]
      /\ \A o \in DOMAIN orders \ {k} : orders'[o] = orders[o]
  BY <1>1 DEF PatchCommit, PatchedRow
<1>5. /\ orders'[k].status = w.status
      /\ orders'[k].product = q
      /\ orders'[k].quantity = n
  BY <1>1, <1>2, <1>4 DEF Row
<1>6. \A o \in DOMAIN orders : orders'[o].quantity = orders[o].quantity
  BY <1>2, <1>4, <1>5
<1>7. n \in Nat /\ q \in Products /\ q \in DOMAIN stock /\ stock[q] \in Int
  <2>1. n \in Nat /\ q \in Products
    BY <1>1, <1>2, QuantitiesAssumption DEF Row
  <2>2. q \in DOMAIN stock
    BY <1>1, <1>2 DEF ReferentialIntegrity
  <2> QED
    BY <2>1, <2>2, StockLevelFacts DEF Lock, TypeOK
<1>8. /\ stock' = [stock EXCEPT ![q] = Book!StockAfter(w.previous, w.status, stock[q], n)]
      /\ supplied' = supplied
  BY DEF PatchCommit
<1>9. w.status \in {"confirmed", "shipped"} <=>
        \/ w.previous \in {"confirmed", "shipped"} /\ ~Book!GivesBack(w.previous, w.status)
        \/ Book!TakesStock(w.previous, w.status)
  <2>1. w.previous \in {"pending", "confirmed", "shipped", "cancelled"}
    BY <1>1, <1>2 DEF Row, Statuses, Book!Statuses
  <2> QED
    BY <1>3, <2>1 DEF Transitions, Book!Transitions, Book!GivesBack, Book!TakesStock
<1>10. \A p : Committed(p)' = Cardinality(Held(orders', p))
  BY DEF Committed, Units, Held, Block, Holds, HoldsIn
<1>11. ASSUME NEW p, p # q
       PROVE  Held(orders', p) = Held(orders, p)
  <2>1. \A o \in DOMAIN orders : HoldsIn(orders, o, p) <=> HoldsIn(orders', o, p)
    BY <1>2, <1>4, <1>5, <1>11 DEF HoldsIn
  <2> QED
    BY <1>4, <1>6, <2>1, SameUnits
<1>12. /\ IsFiniteSet(Held(orders', q))
       /\ stock'[q] + Cardinality(Held(orders', q)) = stock[q] + Cardinality(Held(orders, q))
  <2>1. IsFiniteSet(Held(orders, q)) /\ Cardinality(Held(orders, q)) \in Nat
    BY <1>7, FS_CardinalityType DEF StockInv, Countable
  <2>2. CASE Book!TakesStock(w.previous, w.status)
    <3>1. stock'[q] = stock[q] - n
      BY <1>7, <1>8, <2>2 DEF Book!StockAfter, Book!TakesStock, Book!GivesBack
    <3>2. ~HoldsIn(orders, k, q) /\ HoldsIn(orders', k, q)
      BY <1>2, <1>5, <2>2 DEF HoldsIn, Book!TakesStock
    <3>3. \A o \in DOMAIN orders \ {k} : HoldsIn(orders, o, q) <=> HoldsIn(orders', o, q)
      BY <1>4 DEF HoldsIn
    <3>4. /\ IsFiniteSet(Held(orders', q))
          /\ Cardinality(Held(orders', q)) = Cardinality(Held(orders, q)) + n
      BY <1>1, <1>2, <1>4, <1>6, <1>7, <2>1, <3>2, <3>3, MoreUnits
    <3> QED
      BY <1>7, <2>1, <3>1, <3>4
  <2>3. CASE Book!GivesBack(w.previous, w.status)
    <3>1. stock'[q] = stock[q] + n
      BY <1>7, <1>8, <2>3 DEF Book!StockAfter, Book!TakesStock, Book!GivesBack
    <3>2. HoldsIn(orders, k, q) /\ ~HoldsIn(orders', k, q)
      BY <1>2, <1>5, <2>3 DEF HoldsIn, Book!GivesBack
    <3>3. \A o \in DOMAIN orders \ {k} : HoldsIn(orders', o, q) <=> HoldsIn(orders, o, q)
      BY <1>4 DEF HoldsIn
    <3>4. IsFiniteSet(Held(orders', q))
      <4>1. Held(orders', q) \subseteq Held(orders, q)
        BY <1>4, <1>6, <3>2, <3>3 DEF Held
      <4> QED
        BY <2>1, <4>1, FS_Subset
    <3>5. Cardinality(Held(orders, q)) = Cardinality(Held(orders', q)) + n
      BY <1>1, <1>4, <1>5, <1>6, <1>7, <3>2, <3>3, <3>4, MoreUnits
    <3>6. Cardinality(Held(orders', q)) \in Nat
      BY <3>4, FS_CardinalityType
    <3> QED
      BY <1>7, <2>1, <3>1, <3>4, <3>5, <3>6
  <2>4. CASE ~Book!TakesStock(w.previous, w.status) /\ ~Book!GivesBack(w.previous, w.status)
    <3>1. stock'[q] = stock[q]
      BY <1>7, <1>8, <2>4 DEF Book!StockAfter
    <3>2. \A o \in DOMAIN orders : HoldsIn(orders, o, q) <=> HoldsIn(orders', o, q)
      BY <1>2, <1>4, <1>5, <1>9, <2>4 DEF HoldsIn
    <3>3. Held(orders', q) = Held(orders, q)
      BY <1>4, <1>6, <3>2, SameUnits
    <3> QED
      BY <2>1, <3>1, <3>3
  <2> QED
    BY <2>2, <2>3, <2>4
<1>13. Countable'
  BY <1>11, <1>12 DEF StockInv, Countable
<1>14. ASSUME NEW p \in DOMAIN stock'
       PROVE  stock'[p] + Committed(p)' = supplied'[p]
  <2>1. p \in DOMAIN stock /\ stock[p] + Cardinality(Held(orders, p)) = supplied[p]
    BY <1>8, <1>14, CommittedIsHeld DEF StockInv, StockConservation
  <2>2. CASE p = q
    BY <1>8, <1>10, <1>12, <2>1, <2>2
  <2>3. CASE p # q
    BY <1>8, <1>10, <1>11, <2>1, <2>3
  <2> QED
    BY <2>2, <2>3
<1> QED
  BY <1>13, <1>14 DEF StockInv, StockConservation

(* Edits are corrections of the supply; a product that is listed or taken  *)
(* off the list has no orders.                                             *)
LEMMA ProductKeepsStock ==
  ASSUME TypeOK, StockInv, ReferentialIntegrity, UNCHANGED orders,
         \/ \E r \in Requests : EditCommit(r) \/ DropProductCommit(r)
         \/ \E p \in Products, n \in StockLevels : CreateProduct(p, n)
  PROVE  StockInv'
<1>1. Countable'
  BY DEF StockInv, Countable
<1>2. \A p : /\ Committed(p)' = Committed(p)
             /\ p \in Products => Committed(p) \in Nat
  BY CommittedIsHeld, FS_CardinalityType DEF Committed, Units, Holds, StockInv, Countable
<1>3. ASSUME NEW r \in Requests, EditCommit(r), NEW p \in DOMAIN stock'
      PROVE  stock'[p] + Committed(p)' = supplied'[p]
  <2> DEFINE w == req[r]
  <2>1. p \in DOMAIN stock /\ p \in DOMAIN supplied /\ p \in Products
    BY <1>3 DEF EditCommit, TypeOK
  <2>2. stock[p] \in Int /\ supplied[p] \in Int /\ stock[p] + Committed(p) = supplied[p]
    BY <2>1, StockLevelFacts DEF TypeOK, StockInv, StockConservation
  <2>3. CASE w.product \in DOMAIN stock /\ w.entered # w.loaded /\ p = w.product
    <3>1. w.entered \in Int
      <4>1. w \in EditRequest
        BY <1>3 DEF TypeOK, EditCommit, Request, Idle, PatchRequest, CreateRequest,
               EditRequest, DropRequest
      <4> QED
        BY <4>1, StockLevelFacts DEF EditRequest
    <3>2. stock'[p] = w.entered /\ supplied'[p] = supplied[p] + w.entered - stock[p]
      BY <1>3, <2>1, <2>3 DEF EditCommit
    <3> QED
      BY <1>2, <2>1, <2>2, <3>1, <3>2
  <2>4. CASE ~(w.product \in DOMAIN stock /\ w.entered # w.loaded /\ p = w.product)
    <3>1. stock'[p] = stock[p] /\ supplied'[p] = supplied[p]
      BY <1>3, <2>1, <2>4 DEF EditCommit
    <3> QED
      BY <1>2, <2>2, <3>1
  <2> QED
    BY <2>3, <2>4
<1>4. ASSUME NEW r \in Requests, DropProductCommit(r), NEW p \in DOMAIN stock'
      PROVE  stock'[p] + Committed(p)' = supplied'[p]
  <2>1. p \in DOMAIN stock /\ stock'[p] = stock[p] /\ supplied' = supplied
    BY <1>4 DEF DropProductCommit, Book!Without
  <2> QED
    BY <1>2, <2>1 DEF StockInv, StockConservation
<1>5. ASSUME NEW q \in Products, NEW n \in StockLevels, CreateProduct(q, n),
             NEW p \in DOMAIN stock'
      PROVE  stock'[p] + Committed(p)' = supplied'[p]
  <2>1. CASE p = q
    <3>1. stock'[p] = n /\ supplied'[p] = n /\ n \in Int
      BY <1>5, <2>1, StockLevelFacts DEF CreateProduct, Book!Insert
    <3>2. q \notin DOMAIN stock
      BY <1>5 DEF CreateProduct, TypeOK
    <3>3. \A o \in DOMAIN orders : ~HoldsIn(orders, o, p)
      BY <2>1, <3>2 DEF HoldsIn, ReferentialIntegrity
    <3>4. Held(orders, p) = {}
      BY <3>3 DEF Held
    <3>5. Committed(p) = 0
      BY <3>4, FS_EmptySet, CommittedIsHeld
    <3> QED
      BY <1>2, <3>1, <3>5
  <2>2. CASE p # q
    <3>1. p \in DOMAIN stock /\ p \in DOMAIN supplied
      BY <1>5, <2>2 DEF CreateProduct, Book!Insert, TypeOK
    <3>2. stock'[p] = stock[p] /\ supplied'[p] = supplied[p]
      BY <1>5, <2>2, <3>1 DEF CreateProduct, Book!Insert
    <3> QED
      BY <1>2, <3>1, <3>2 DEF StockInv, StockConservation
  <2> QED
    BY <2>1, <2>2
<1> QED
  BY <1>1, <1>3, <1>4, <1>5 DEF StockInv, StockConservation

LEMMA StockStep ==
  Lock /\ ReferentialIntegrity /\ StockInv /\ [Next]_vars => StockInv'
<1> SUFFICES ASSUME Lock, ReferentialIntegrity, StockInv, [Next]_vars
             PROVE  StockInv'
  OBVIOUS
<1>1. CASE UNCHANGED <<orders, stock, supplied>>
  BY <1>1, SameStock
<1>2. ASSUME NEW r \in Requests, CreateCommit(r)
      PROVE  StockInv'
  BY <1>2, CreateKeepsStock
<1>3. ASSUME NEW r \in Requests, PatchCommit(r)
      PROVE  StockInv'
  BY <1>3, PatchKeepsStock
<1>4. ASSUME NEW k \in Keys, UploadReceipt(k)
      PROVE  StockInv'
  BY <1>4, ReceiptKeepsStock DEF Lock
<1>5. CASE /\ UNCHANGED orders
           /\ \/ \E r \in Requests : EditCommit(r) \/ DropProductCommit(r)
              \/ \E p \in Products, n \in StockLevels : CreateProduct(p, n)
  BY <1>5, ProductKeepsStock DEF Lock
<1> QED
  BY <1>1, <1>2, <1>3, <1>4, <1>5
     DEF vars, Next, Handler, CreateLoad, PatchLoad, PatchRefused, EditLoad, EditCommit,
         DropProductLoad, DropProductCommit, DropCustomerLoad, DropCustomerCommit, Fail,
         CreateProduct, CustomerArrives, Crash

(* Every unit ever put on sale is on the shelf or in a confirmed or        *)
(* shipped order, for any number of handlers, orders and products: no      *)
(* interleaving takes units twice, gives them back twice or loses them.    *)
THEOREM StockIsConserved == Spec => []StockConservation
<1>1. Spec => []StockInv
  BY StockInit, LockInvariant, OrdersKeepReferences, StockStep, PTL DEF Spec
<1>2. StockInv => StockConservation
  BY DEF StockInv
<1> QED
  BY <1>1, <1>2, PTL

=============================================================================
