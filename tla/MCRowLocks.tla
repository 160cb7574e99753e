----------------------------- MODULE MCRowLocks -----------------------------
(* Values for the constants of RowLocks: two products, three racks.  Of each *)
(* product two units are on rack 1 and one on rack 2; product 1 has an empty *)
(* row on rack 3, product 2 none.                                            *)
EXTENDS RowLocks, TLC

SomeRows  == RackRows \ {<<2, 3>>}
SomeCount == [k \in Rows |-> CASE k[2] = 0 -> 3 [] k[2] = 1 -> 2
                               [] k[2] = 2 -> 1 [] k[2] = 3 -> 0]

Order(n1, n2)  == [kind |-> "order", units |-> <<n1, n2>>]
Move(change)   == [kind |-> "move", change |-> change]
Place(change)  == [kind |-> "place", change |-> change]
Cancel(change) == [kind |-> "cancel", change |-> change]
Count(counted) == [kind |-> "count", counted |-> counted]
Discard        == [kind |-> "discard"]
Delete(r)      == [kind |-> "delete", rack |-> r]

Unit(p, r) == <<p, r>> :> 1
Shift(p, from, to) == <<p, from>> :> -1 @@ <<p, to>> :> 1
NewRow == <<2, 1>> :> 0 @@ <<2, 3>> :> 2

\* Orders of several products and of one; moves against each other and
\* against orders; stock-takes, also of a row that does not exist yet, and
\* completed twice or canceled meanwhile; cancels; a rack that is deleted.
SomeScenarios ==
    {<<Order(1, 1), Order(1, 1), Move(Shift(1, 1, 2))>>,
     <<Order(2, 0), Order(3, 0), Move(Shift(1, 1, 3))>>,
     <<Order(3, 0), Move(Shift(1, 1, 2)), Move(Shift(1, 2, 3))>>,
     <<Order(0, 3), Move(Shift(2, 1, 2)), Count(<<2, 2>> :> 3)>>,
     <<Order(2, 0), Move(Shift(1, 1, 2)), Place(Unit(1, 1))>>,
     <<Move(Shift(1, 1, 2) @@ Shift(2, 1, 2)), Move(Shift(1, 2, 1)), Move(Shift(2, 1, 3))>>,
     <<Count(NewRow), Count(NewRow), Place(Unit(2, 1) @@ Unit(2, 3))>>,
     <<Count(NewRow), Move(Shift(2, 2, 3)), Order(0, 1)>>,
     <<Count(<<2, 2>> :> 3), Discard, Order(0, 1)>>,
     <<Count(<<2, 2>> :> 0), Discard, Discard>>,
     <<Count(<<1, 1>> :> 3 @@ <<1, 2>> :> 0), Order(2, 0), Cancel(Unit(1, 1))>>,
     <<Cancel(Unit(1, 1) @@ Unit(2, 1)), Order(1, 1), Move(Shift(2, 1, 2))>>,
     <<Cancel(Unit(1, 1) @@ Unit(1, 2)), Place(Unit(1, 2) @@ Unit(1, 1)), Order(2, 0)>>,
     <<Delete(2), Place(Unit(1, 2)), Move(Shift(1, 1, 2))>>,
     <<Delete(2), Cancel(Unit(1, 2)), Delete(2)>>}
=============================================================================
