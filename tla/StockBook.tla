------------------------------ MODULE StockBook ------------------------------
(***************************************************************************)
(* What the inventory service promises about stock, whatever the document  *)
(* and whatever the engine: a posting moves the counts of one place once,  *)
(* it can be voided once, voiding it moves the counts back, and nothing    *)
(* else ever changes a count.                                              *)
(***************************************************************************)
EXTENDS Integers

CONSTANTS Places, Goods, Ids, Initial

VARIABLES onHand, book

Posting == [state : {"posted"}, at : Places, amount : [Goods -> Int]]
Unused  == [state |-> "unused"]
Voided  == [state |-> "voided"]

Moved(posting, sign) ==
    [onHand EXCEPT ![posting.at] =
        [g \in Goods |-> @[g] + sign * posting.amount[g]]]

Init ==
    /\ onHand = Initial
    /\ book = [id \in Ids |-> Unused]

\* The poster chooses the place and the amounts.
Post(id) ==
    /\ book[id] = Unused
    /\ book'[id] \in Posting
    /\ book' = [book EXCEPT ![id] = book'[id]]
    /\ onHand' = Moved(book'[id], 1)

Void(id) ==
    /\ book[id] \in Posting
    /\ book' = [book EXCEPT ![id] = Voided]
    /\ onHand' = Moved(book[id], -1)

Next == \E id \in Ids : Post(id) \/ Void(id)

Spec == Init /\ [][Next]_<<onHand, book>>
=============================================================================
