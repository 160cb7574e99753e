--------------------------- MODULE ConcurrentCalls ---------------------------
(***************************************************************************)
(* Calls that overlap.  Under READ COMMITTED a handler reads the status of *)
(* its document, and what a cancel has to undo, from the last commit and   *)
(* without a lock; it then locks one stock_states row FOR UPDATE, adds its *)
(* change to what it read there, and commits.  Other calls run in between. *)
(*                                                                         *)
(* One product, two warehouses, one transfer that is on the road and one   *)
(* sale that was shipped.  The calls: TransferAccept and TransferCancel of *)
(* that transfer, TransactionCancel of that sale, TransactionCreate of     *)
(* further orders.  Items, racks and batches play no part here.            *)
(***************************************************************************)
EXTENDS Integers

CONSTANTS
    Calls,      \* the calls, each made by one client
    Op,         \* Op[c]: what call c asks for
    OnHand      \* units in the source warehouse when the behaviour starts

Ops == {"TransferAccept", "TransferCancel", "TransactionCancel", "OrderCreate"}

ASSUME CallsAssumption == Op \in [Calls -> Ops] /\ OnHand \in Nat

Warehouses == {"source", "destination"}
Documents  == {"transfer", "sale"}

VARIABLES
    stock,      \* stock_states.stock_ready, committed
    logged,     \* SUM(change) of stock_batch_logs per warehouse, committed
    status,     \* of the transfer and of the sale, committed
    legNet,     \* SUM(change) of the transfer's OUT leg and of the sale
    arrivals,   \* IN legs committed for the transfer
    phase,      \* per call: where its handler is
    undo,       \* per call: the net its cancel read
    seen,       \* per call: the count it read under the row lock
    holder      \* per warehouse: the calls holding the row, at most one

vars == <<stock, logged, status, legNet, arrivals, phase, undo, seen, holder>>

committed == <<stock, logged, status, legNet, arrivals>>

Phases == {"ready", "checked", "read", "locked", "ok", "refused", "failed"}
Open   == {"checked", "read", "locked"}

Document(c) == IF Op[c] = "TransactionCancel" THEN "sale" ELSE "transfer"
Row(c)      == IF Op[c] = "TransferAccept" THEN "destination" ELSE "source"
Cancels(c)  == Op[c] \in {"TransferCancel", "TransactionCancel"}

Goto(c, p) == phase' = [phase EXCEPT ![c] = p]

-----------------------------------------------------------------------------
(* The status check: done already, refused, or on.                          *)

Final(c) == CASE Op[c] = "TransferAccept"    -> "accepted"
              [] Op[c] = "TransferCancel"    -> "canceled"
              [] Op[c] = "TransactionCancel" -> "canceled"

CheckStatus(c) ==
    /\ phase[c] = "ready"
    /\ Op[c] # "OrderCreate"
    /\ Goto(c, CASE status[Document(c)] = Final(c)  -> "ok"
                 [] status[Document(c)] = "open"    -> "checked"
                 [] OTHER                           -> "refused")
    /\ UNCHANGED <<committed, undo, seen, holder>>

\* reconstructCancel sums the rows before it locks anything.
ReadNets(c) ==
    /\ phase[c] = "checked"
    /\ Cancels(c)
    /\ undo' = [undo EXCEPT ![c] = legNet[Document(c)]]
    /\ Goto(c, "read")
    /\ UNCHANGED <<committed, seen, holder>>

-----------------------------------------------------------------------------
(* SELECT ... FOR UPDATE waits for the holder, then reads the latest commit *)

NeedsRow(c) ==
    CASE Op[c] = "OrderCreate"    -> phase[c] = "ready"
      [] Op[c] = "TransferAccept" -> phase[c] = "checked"
      [] OTHER                    -> phase[c] = "read" /\ undo[c] # 0

\* Mutant of LockRow: a plain SELECT.
ReadRow(c) ==
    /\ NeedsRow(c)
    /\ holder' = [holder EXCEPT ![Row(c)] = @ \cup {c}]
    /\ seen' = [seen EXCEPT ![c] = stock[Row(c)]]
    /\ Goto(c, "locked")
    /\ UNCHANGED <<committed, undo>>

LockRow(c) ==
    /\ NeedsRow(c)
    /\ holder[Row(c)] = {}
    /\ holder' = [holder EXCEPT ![Row(c)] = {c}]
    /\ seen' = [seen EXCEPT ![c] = stock[Row(c)]]
    /\ Goto(c, "locked")
    /\ UNCHANGED <<committed, undo>>

Release(c) == holder' = [w \in Warehouses |-> holder[w] \ {c}]

\* The handler returns: its locks and its local variables are gone.
End(c, p) ==
    /\ Release(c)
    /\ Goto(c, p)
    /\ undo' = [undo EXCEPT ![c] = 0]
    /\ seen' = [seen EXCEPT ![c] = 0]

\* Mutant of Change: a cancel repeats what it should undo.
Repeat(c) == CASE Op[c] = "OrderCreate"    -> -1
               [] Op[c] = "TransferAccept" -> 1
               [] OTHER                    -> undo[c]

\* The change each kind of call makes to its row: every document is one unit.
Change(c) == CASE Op[c] = "OrderCreate"    -> -1
               [] Op[c] = "TransferAccept" -> 1
               [] OTHER                    -> -undo[c]

\* Mutant of Enough: the last unit is sold twice.
EnoughOrNone(c) == Op[c] = "OrderCreate" => seen[c] >= 0

\* applyOrderOutbound: an order needs its unit in stock.
Enough(c) == Op[c] = "OrderCreate" => seen[c] >= 1

Commit(c) ==
    /\ phase[c] = "locked"
    /\ Enough(c)
    /\ stock' = [stock EXCEPT ![Row(c)] = seen[c] + Change(c)]
    /\ logged' = [logged EXCEPT ![Row(c)] = @ + Change(c)]
    /\ legNet' = IF Cancels(c)
                 THEN [legNet EXCEPT ![Document(c)] = @ + Change(c)] ELSE legNet
    /\ arrivals' = IF Op[c] = "TransferAccept" THEN arrivals + 1 ELSE arrivals
    /\ status' = IF Op[c] = "OrderCreate"
                 THEN status ELSE [status EXCEPT ![Document(c)] = Final(c)]
    /\ End(c, "ok")

\* Too little in stock.
RejectOrder(c) ==
    /\ phase[c] = "locked"
    /\ ~Enough(c)
    /\ End(c, "refused")
    /\ UNCHANGED committed

\* The net was zero: the cancel only flips the status.
CommitStatus(c) ==
    /\ phase[c] = "read"
    /\ undo[c] = 0
    /\ status' = [status EXCEPT ![Document(c)] = "canceled"]
    /\ Goto(c, "ok")
    /\ UNCHANGED <<stock, logged, legNet, arrivals, undo, seen, holder>>

\* An error, a crash or a lost connection before the commit.
Rollback(c) ==
    /\ phase[c] \in Open
    /\ End(c, "failed")
    /\ UNCHANGED committed

\* The client tries again what failed, and what it got no answer to.
Retry(c) ==
    /\ \/ phase[c] = "failed"
       \/ phase[c] = "ok" /\ Op[c] # "OrderCreate"
    /\ Goto(c, "ready")
    /\ UNCHANGED <<committed, undo, seen, holder>>

-----------------------------------------------------------------------------
Init ==
    /\ stock = [w \in Warehouses |-> IF w = "source" THEN OnHand ELSE 0]
    /\ logged = [w \in Warehouses |-> 0]
    /\ status = [d \in Documents |-> "open"]
    /\ legNet = [d \in Documents |-> -1]
    /\ arrivals = 0
    /\ phase = [c \in Calls |-> "ready"]
    /\ undo = [c \in Calls |-> 0]
    /\ seen = [c \in Calls |-> 0]
    /\ holder = [w \in Warehouses |-> {}]

Step(c) ==
    \/ CheckStatus(c)
    \/ ReadNets(c)
    \/ LockRow(c)
    \/ Commit(c)
    \/ RejectOrder(c)
    \/ CommitStatus(c)
    \/ Rollback(c)
    \/ Retry(c)

Next == \E c \in Calls : Step(c)

Spec == Init /\ [][Next]_vars

-----------------------------------------------------------------------------
TypeOK ==
    /\ stock \in [Warehouses -> Int] /\ logged \in [Warehouses -> Int]
    /\ status \in [Documents -> {"open", "accepted", "canceled"}]
    /\ legNet \in [Documents -> Int] /\ arrivals \in Nat
    /\ phase \in [Calls -> Phases]
    /\ undo \in [Calls -> Int] /\ seen \in [Calls -> Int]
    /\ holder \in [Warehouses -> SUBSET Calls]

\* The engine writes an absolute count it computed in memory.  Because it
\* read the row FOR UPDATE no change of another call is lost: the state stays
\* the running total of the log however the calls overlap.
NoLostUpdate ==
    \A w \in Warehouses :
        stock[w] = (IF w = "source" THEN OnHand ELSE 0) + logged[w]

\* The guard of an order and its decrement happen under one row lock, so
\* overlapping orders never sell the same unit, whatever returns in between:
\* the count falls below zero only when a cancel takes back what two earlier
\* ones returned twice.
OversoldOnlyByDoubleReturns ==
    [][stock'["source"] < 0 /\ stock'["source"] < stock["source"] =>
          \E c \in Calls : /\ phase[c] = "locked" /\ phase'[c] = "ok"
                          /\ Cancels(c) /\ undo[c] > 0]_vars

\* A row has one holder at a time, the calls past their FOR UPDATE.
RowLocked ==
    /\ \A w \in Warehouses : \A c, d \in holder[w] : c = d
    /\ \A w \in Warehouses, c \in Calls :
          c \in holder[w] <=> phase[c] = "locked" /\ Row(c) = w

\* What a call read under the lock is still what is committed when it writes.
SeenIsFresh == \A c \in Calls : phase[c] = "locked" => seen[c] = stock[Row(c)]

\* "Re-accepting is a no-op", "a second cancel is a no-op", "an accepted
\* transfer cannot be canceled": the transfer arrives at most once, goes back
\* at most once, and never both.
TransferSettledOnce ==
    /\ legNet["transfer"] \in {-1, 0}
    /\ arrivals + (legNet["transfer"] + 1) <= 1

\* "Idempotent - a second cancel is a no-op": the sale comes back at most once.
SaleReturnedOnce == legNet["sale"] \in {-1, 0}

\* Both hold until a call commits that found its document open and whose
\* document another call has settled since: no retry, no repeated call and no
\* order of calls one after the other settles a document twice.
SettledTwiceOnlyByOverlap ==
    [][TransferSettledOnce /\ SaleReturnedOnce =>
          \/ (TransferSettledOnce /\ SaleReturnedOnce)'
          \/ \E c \in Calls : /\ phase[c] = "locked" /\ phase'[c] = "ok"
                            /\ Op[c] # "OrderCreate"
                            /\ status[Document(c)] # "open"]_vars
=============================================================================
