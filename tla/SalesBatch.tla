----------------------------- MODULE SalesBatch -----------------------------
(***************************************************************************)
(* The daily sales report over yesterday's orders: their ids are collected *)
(* once, then summed chunk by chunk in statements of their own; the naive  *)
(* batch reads all orders in one.  Meanwhile orders are cancelled.         *)
(***************************************************************************)
EXTENDS Integers, FiniteSets, Functions

CONSTANTS
    Past, Total,    \* the number of yesterday's orders, and their total_price
    Batches, Chunk  \* the chunk size of each batch; 0: the naive one

ASSUME SalesAssumption == Past \in Nat /\ Total \in [1 .. Past -> Nat]

VARIABLES
    sold,           \* the orders in one of COMPLETED_STATUSES
    report          \* each batch's ids, those still to sum, and its revenue

salesVars == <<sold, report>>

NoReport == [collected |-> FALSE, ids |-> {}, left |-> {}, revenue |-> 0]
Collected(b) == report[b].collected
Complete(b) == Collected(b) /\ report[b].left = {}
Revenue(orders) == SumFunctionOnSet(Total, orders)

\* The first n of a list of ids in ascending order.
FirstOf(ids, n) == {i \in ids : Cardinality({j \in ids : j < i}) < n}

SalesInit ==
    /\ sold = 1 .. Past
    /\ report = [b \in Batches |-> NoReport]

CancelSale(o) ==
    /\ sold' = sold \ {o}
    /\ UNCHANGED report

\* filter(created_at in the window, status in COMPLETED_STATUSES), ordered by id.
Collect(b) ==
    /\ ~Collected(b) /\ Chunk[b] > 0
    /\ report' = [report EXCEPT ![b] =
                    [collected |-> TRUE, ids |-> sold, left |-> sold, revenue |-> 0]]
    /\ UNCHANGED sold

\* Mutant of SumChunk: the chunk is a slice of the filtered query.
SumSlice(b) ==
    LET r == report[b]
        from == Cardinality(r.ids \ r.left)
        chunk == FirstOf(sold, from + Chunk[b]) \ FirstOf(sold, from)
    IN  /\ Collected(b) /\ ~Complete(b)
        /\ report' = [report EXCEPT ![b] =
                        [collected |-> TRUE, ids |-> r.ids, left |-> r.left \ FirstOf(r.left, Chunk[b]),
                         revenue |-> r.revenue + Revenue(chunk)]]
        /\ UNCHANGED sold

\* filter(id__in=chunk_ids).aggregate(Sum("total_price")).
SumChunk(b) ==
    LET r == report[b]
        chunk == FirstOf(r.left, Chunk[b])
    IN  /\ Collected(b) /\ ~Complete(b)
        /\ report' = [report EXCEPT ![b] =
                        [collected |-> TRUE, ids |-> r.ids, left |-> r.left \ chunk,
                         revenue |-> r.revenue + Revenue(chunk)]]
        /\ UNCHANGED sold

ReadAllOrders(b) ==
    /\ ~Collected(b) /\ Chunk[b] = 0
    /\ report' = [report EXCEPT ![b] =
                    [collected |-> TRUE, ids |-> sold, left |-> {}, revenue |-> Revenue(sold)]]
    /\ UNCHANGED sold
----------------------------------------------------------------------------
\* A report counts every order it collected once, whatever is cancelled while
\* it runs, and no order that is still sold is missing from it.
CountsEachSaleOnce ==
    \A b \in Batches : Complete(b) =>
        /\ report[b].revenue = Revenue(report[b].ids)
        /\ sold \subseteq report[b].ids
============================================================================
