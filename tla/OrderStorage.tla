---------------------------- MODULE OrderStorage ----------------------------
(***************************************************************************)
(* order_storage.vhd: a block RAM of orders, addressed by the low bits of  *)
(* the order reference, with a read that takes two clocks.                 *)
(***************************************************************************)
EXTENDS Integers, FiniteSets

CONSTANT Orders       \* MAX_ORDERS (1024)

ASSUME StorageAssumption == Orders \in Nat \ {0}

VARIABLES
    orders,           \* the orders
    storRd1, storRd2, \* the read pipeline
    validBits,        \* which addresses hold a valid order
    orderCount        \* order_count_reg

storageVars == <<orders, storRd1, storRd2, validBits, orderCount>>

OrderAddr == 0..(Orders - 1)

NoOrder == [ref |-> 0, price |-> 0, shares |-> 0, side |-> "buy", valid |-> FALSE]
NoRead == [valid |-> FALSE, order |-> NoOrder]
NoWrite == [en |-> FALSE, addr |-> 0, order |-> NoOrder]
NoLookup == [en |-> FALSE, addr |-> 0]

HashOrderRef(ref) == ref % Orders

StorageInit ==
    /\ orders = [a \in OrderAddr |-> NoOrder]
    /\ storRd1 = NoRead /\ storRd2 = NoRead
    /\ validBits = {} /\ orderCount = 0

(* The counter follows the valid bits.  The mutant counts every write.     *)
CountEveryWrite(wr) ==
    IF wr.order.valid THEN orderCount + 1
    ELSE IF orderCount > 0 THEN orderCount - 1 ELSE 0
NewOrderCount(wr) ==
    CASE wr.order.valid /\ wr.addr \notin validBits -> orderCount + 1
      [] ~wr.order.valid /\ wr.addr \in validBits /\ orderCount > 0 -> orderCount - 1
      [] OTHER -> orderCount

(* One rising edge, with wr on the write port and rd on the read port.     *)
StorageClock(wr, rd) ==
    /\ IF wr.en
         THEN /\ orders' = [orders EXCEPT ![wr.addr] = wr.order]
              /\ validBits' = IF wr.order.valid THEN validBits \cup {wr.addr}
                              ELSE validBits \ {wr.addr}
              /\ orderCount' = NewOrderCount(wr)
         ELSE UNCHANGED <<orders, validBits, orderCount>>
    /\ storRd1' = IF rd.en THEN [valid |-> TRUE, order |-> orders[rd.addr]] ELSE NoRead
    /\ storRd2' = storRd1
============================================================================
