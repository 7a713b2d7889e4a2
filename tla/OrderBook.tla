------------------------------ MODULE OrderBook ------------------------------
(***************************************************************************)
(* What the order and product endpoints promise, one indivisible step per  *)
(* promise: an order is placed without reserving stock, confirming takes   *)
(* its units, cancelling a confirmed order gives them back, a shipped or   *)
(* cancelled order never moves again.  Requests, row versions, checks that *)
(* precede the commit and crashes are absent here: OrderLifecycle has them *)
(* and is shown to implement this module.                                  *)
(***************************************************************************)
EXTENDS Naturals

CONSTANTS Keys,       \* idempotency keys, one per order
          Products,   \* product ids
          Quantities, \* quantities an order may have
          MaxInt      \* largest value of the stock column

VARIABLES book,       \* the placed orders: key -> [product, quantity, status]
          stock       \* the units on sale of every listed product

vars == <<book, stock>>

(* A table with a row more, and with a row less.                           *)
Insert(f, k, row) == [x \in DOMAIN f \cup {k} |-> IF x = k THEN row ELSE f[x]]

Without(f, k) == [x \in DOMAIN f \ {k} |-> f[x]]

(* The statuses of an order and the moves update_order allows.             *)
Statuses == {"pending", "confirmed", "shipped", "cancelled"}

Transitions == [pending   |-> {"confirmed", "cancelled"},
                confirmed |-> {"shipped", "cancelled"},
                shipped   |-> {},
                cancelled |-> {}]

(* The units a status change moves: negative when they leave the stock.    *)
TakesStock(from, to) == from = "pending" /\ to = "confirmed"
GivesBack(from, to)  == from = "confirmed" /\ to = "cancelled"

StockAfter(from, to, units, quantity) ==
  CASE TakesStock(from, to) -> units - quantity
    [] GivesBack(from, to)  -> units + quantity
    [] OTHER                -> units

StockAllows(from, to, units, quantity) ==
  /\ TakesStock(from, to) => units >= quantity
  /\ GivesBack(from, to)  => units + quantity <= MaxInt

-----------------------------------------------------------------------------

Init == /\ book = [o \in {} |-> {}]
        /\ stock \in UNION {[P -> 0..MaxInt] : P \in SUBSET Products}

Place(o, p, q) ==
  /\ o \notin DOMAIN book
  /\ p \in DOMAIN stock
  /\ book' = Insert(book, o, [product |-> p, quantity |-> q, status |-> "pending"])
  /\ UNCHANGED stock

Move(o, to) ==
  LET from  == book[o].status
      p     == book[o].product
      units == book[o].quantity
  IN  /\ to \in Transitions[from]
      /\ StockAllows(from, to, stock[p], units)
      /\ book' = [book EXCEPT ![o].status = to]
      /\ stock' = [stock EXCEPT ![p] = StockAfter(from, to, @, units)]

SetStock(p, n) == /\ stock' = [stock EXCEPT ![p] = n]
                  /\ UNCHANGED book

List(p, n) == /\ p \notin DOMAIN stock
              /\ stock' = Insert(stock, p, n)
              /\ UNCHANGED book

Delist(p) == /\ \A o \in DOMAIN book : book[o].product # p
             /\ stock' = Without(stock, p)
             /\ UNCHANGED book

Next == \/ \E o \in Keys, p \in Products, q \in Quantities : Place(o, p, q)
        \/ \E o \in DOMAIN book, to \in Statuses : Move(o, to)
        \/ \E p \in DOMAIN stock, n \in 0..MaxInt : SetStock(p, n)
        \/ \E p \in Products, n \in 0..MaxInt : List(p, n)
        \/ \E p \in DOMAIN stock : Delist(p)

Spec == Init /\ [][Next]_vars
=============================================================================
