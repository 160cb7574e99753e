------------------------ MODULE ConcurrentCallsProofs ------------------------
(***************************************************************************)
(* No update of a stock row is lost, for any number of overlapping calls   *)
(* of any kind.  NoLostUpdate alone is not inductive: a call writes a      *)
(* count it computed from an earlier read, so the proof carries what that  *)
(* read is worth (SeenIsFresh) and why nobody else wrote the row in the    *)
(* meantime (RowLocked).                                                   *)
(***************************************************************************)
EXTENDS ConcurrentCalls, TLAPS

IInv == TypeOK /\ RowLocked /\ SeenIsFresh /\ NoLostUpdate

LEMMA CallFacts ==
  ASSUME NEW c \in Calls
  PROVE  Row(c) \in Warehouses /\ Document(c) \in Documents /\ Op[c] \in Ops
BY CallsAssumption DEF Row, Document, Warehouses, Documents, Ops

LEMMA InitInv == Init => IInv
BY CallsAssumption
   DEF Init, IInv, TypeOK, RowLocked, SeenIsFresh, NoLostUpdate, Warehouses,
       Documents, Phases

\* Steps that neither commit nor touch a lock.
LEMMA QuietStep ==
  ASSUME IInv, NEW c \in Calls,
         CheckStatus(c) \/ ReadNets(c) \/ CommitStatus(c) \/ Retry(c)
  PROVE  IInv'
<1>1. /\ phase[c] # "locked" /\ phase' \in [Calls -> Phases]
      /\ phase'[c] # "locked" /\ \A d \in Calls \ {c} : phase'[d] = phase[d]
  BY CallFacts
     DEF IInv, TypeOK, Phases, CheckStatus, ReadNets, CommitStatus, Retry, Goto,
         Documents, Ops, Final, Document
<1>2. /\ stock' = stock /\ logged' = logged /\ legNet' = legNet
      /\ arrivals' = arrivals /\ seen' = seen /\ holder' = holder
  BY DEF CheckStatus, ReadNets, CommitStatus, Retry, committed
<1>3. status' \in [Documents -> {"open", "accepted", "canceled"}]
  BY DEF IInv, TypeOK, CheckStatus, ReadNets, CommitStatus, Retry, committed
<1>4. undo' \in [Calls -> Int]
  BY CallFacts DEF IInv, TypeOK, CheckStatus, ReadNets, CommitStatus, Retry
<1>5. TypeOK'
  BY <1>1, <1>2, <1>3, <1>4 DEF IInv, TypeOK
<1>6. RowLocked' /\ SeenIsFresh'
  BY <1>1, <1>2 DEF IInv, RowLocked, SeenIsFresh, Row
<1>7. NoLostUpdate'
  BY <1>2 DEF IInv, NoLostUpdate
<1> QED BY <1>5, <1>6, <1>7 DEF IInv

LEMMA LockStep ==
  ASSUME IInv, NEW c \in Calls, LockRow(c)
  PROVE  IInv'
<1>1. /\ holder[Row(c)] = {} /\ phase[c] # "locked"
      /\ holder' = [holder EXCEPT ![Row(c)] = {c}]
      /\ seen' = [seen EXCEPT ![c] = stock[Row(c)]]
      /\ phase' = [phase EXCEPT ![c] = "locked"]
      /\ UNCHANGED <<stock, logged, status, legNet, arrivals, undo>>
  BY CallFacts DEF LockRow, NeedsRow, Goto, committed, Ops
<1>2. TypeOK'
  BY <1>1, CallFacts DEF IInv, TypeOK, Phases
<1>3. RowLocked'
  BY <1>1, CallFacts DEF IInv, TypeOK, RowLocked, Row
<1>4. SeenIsFresh'
  BY <1>1, CallFacts DEF IInv, TypeOK, SeenIsFresh, Row
<1>5. NoLostUpdate'
  BY <1>1 DEF IInv, NoLostUpdate
<1> QED BY <1>2, <1>3, <1>4, <1>5 DEF IInv

\* A lock is given back, with or without a commit.
LEMMA ReleaseStep ==
  ASSUME IInv, NEW c \in Calls, NEW p \in Phases \ {"locked"}, End(c, p),
         \A w \in Warehouses : w # Row(c) => stock'[w] = stock[w],
         phase[c] # "locked" => stock' = stock
  PROVE  RowLocked' /\ SeenIsFresh'
<1>1. /\ phase' = [phase EXCEPT ![c] = p] /\ p # "locked"
      /\ seen' = [seen EXCEPT ![c] = 0]
  BY DEF End, Goto
<1>2. \A w \in Warehouses : holder'[w] = holder[w] \ {c}
  BY DEF End, Release
<1>3. RowLocked'
  BY <1>1, <1>2 DEF IInv, TypeOK, RowLocked, Row
<1>4. ASSUME NEW d \in Calls, phase'[d] = "locked"
      PROVE  seen'[d] = stock'[Row(d)]
  <2>1. d # c /\ phase[d] = "locked" /\ seen'[d] = stock[Row(d)]
    BY <1>1, <1>4 DEF IInv, TypeOK, SeenIsFresh
  <2>2. CASE phase[c] = "locked"
    <3>1. c \in holder[Row(c)] /\ d \in holder[Row(d)]
      BY <2>1, <2>2, CallFacts DEF IInv, RowLocked
    <3>2. Row(d) # Row(c)
      BY <2>1, <3>1, CallFacts DEF IInv, RowLocked
    <3> QED BY <2>1, <3>2, CallFacts
  <2>3. CASE phase[c] # "locked"
    BY <2>1, <2>3
  <2> QED BY <2>2, <2>3
<1> QED BY <1>3, <1>4 DEF SeenIsFresh, Row

LEMMA ReleaseType ==
  ASSUME IInv, NEW c \in Calls, NEW p \in Phases, End(c, p)
  PROVE  /\ holder' \in [Warehouses -> SUBSET Calls] /\ phase' \in [Calls -> Phases]
         /\ undo' \in [Calls -> Int] /\ seen' \in [Calls -> Int]
BY DEF IInv, TypeOK, End, Release, Goto

LEMMA CommitStep ==
  ASSUME IInv, NEW c \in Calls, Commit(c)
  PROVE  IInv'
<1> DEFINE row == Row(c)
<1>1. row \in Warehouses /\ Document(c) \in Documents /\ Op[c] \in Ops
  BY CallFacts
<1>2. Change(c) \in Int /\ seen[c] = stock[row]
  BY CallFacts DEF Commit, Change, IInv, TypeOK, SeenIsFresh
<1>3. Final(c) \in {"accepted", "canceled"} \/ Op[c] = "OrderCreate"
  BY <1>1 DEF Final, Ops
<1>4. /\ stock' = [stock EXCEPT ![row] = seen[c] + Change(c)]
      /\ logged' = [logged EXCEPT ![row] = @ + Change(c)]
      /\ End(c, "ok") /\ phase[c] = "locked"
  BY DEF Commit
<1>5. TypeOK'
  <2>1. legNet' \in [Documents -> Int]
    BY <1>1, <1>2 DEF Commit, IInv, TypeOK
  <2>2. arrivals' \in Nat
    BY DEF Commit, IInv, TypeOK
  <2>3. status' \in [Documents -> {"open", "accepted", "canceled"}]
    BY <1>1, <1>3 DEF Commit, IInv, TypeOK
  <2>4. "ok" \in Phases
    BY DEF Phases
  <2>5. stock' \in [Warehouses -> Int] /\ logged' \in [Warehouses -> Int]
    BY <1>1, <1>2, <1>4 DEF IInv, TypeOK
  <2> QED BY <1>4, <2>1, <2>2, <2>3, <2>4, <2>5, ReleaseType DEF IInv, TypeOK
<1>6. RowLocked' /\ SeenIsFresh'
  <2>1. \A w \in Warehouses : w # Row(c) => stock'[w] = stock[w]
    BY <1>4 DEF IInv, TypeOK
  <2>2. "ok" \in Phases \ {"locked"}
    BY DEF Phases
  <2> QED BY <1>4, <2>1, <2>2, ReleaseStep
<1>7. NoLostUpdate'
  BY <1>1, <1>2, <1>4, CallsAssumption DEF IInv, TypeOK, NoLostUpdate, Warehouses
<1> QED BY <1>5, <1>6, <1>7 DEF IInv

\* A transaction that ends without a commit.
LEMMA AbortStep ==
  ASSUME IInv, NEW c \in Calls, RejectOrder(c) \/ Rollback(c)
  PROVE  IInv'
<1>1. PICK p \in {"refused", "failed"} : End(c, p)
  BY DEF RejectOrder, Rollback
<1>2. UNCHANGED <<stock, logged, status, legNet, arrivals>>
  BY DEF RejectOrder, Rollback, committed
<1>3. p \in Phases \ {"locked"}
  BY <1>1 DEF Phases
<1>4. TypeOK'
  BY <1>1, <1>2, <1>3, ReleaseType DEF IInv, TypeOK
<1>5. RowLocked' /\ SeenIsFresh'
  BY <1>1, <1>2, <1>3, ReleaseStep
<1>6. NoLostUpdate'
  BY <1>2 DEF IInv, NoLostUpdate
<1> QED BY <1>4, <1>5, <1>6 DEF IInv

LEMMA NextInv == IInv /\ [Next]_vars => IInv'
<1> SUFFICES ASSUME IInv, [Next]_vars PROVE IInv'
  OBVIOUS
<1>1. ASSUME NEW c \in Calls, Step(c) PROVE IInv'
  BY <1>1, QuietStep, LockStep, CommitStep, AbortStep DEF Step
<1>2. CASE UNCHANGED vars
  BY <1>2 DEF vars, IInv, TypeOK, RowLocked, SeenIsFresh, NoLostUpdate, Row
<1> QED BY <1>1, <1>2 DEF Next

\* However calls overlap, fail and are retried, the committed stock row is the
\* starting count plus everything stock_batch_logs recorded: the engine's
\* read-modify-write under FOR UPDATE loses nothing, and no table loses its type.
THEOREM NoLostUpdateHolds == Spec => [](TypeOK /\ NoLostUpdate)
<1>1. IInv => TypeOK /\ NoLostUpdate
  BY DEF IInv
<1> QED BY InitInv, NextInv, <1>1, PTL DEF Spec

\* A row has one holder, and what the holder read is still what is committed.
THEOREM LockProtectsRead == Spec => [](RowLocked /\ SeenIsFresh)
<1>1. IInv => RowLocked /\ SeenIsFresh
  BY DEF IInv
<1> QED BY InitInv, NextInv, <1>1, PTL DEF Spec

LEMMA SourceFalls ==
  ASSUME IInv, [Next]_vars, stock'["source"] < 0, stock'["source"] < stock["source"]
  PROVE  \E c \in Calls : /\ phase[c] = "locked" /\ phase'[c] = "ok"
                         /\ Cancels(c) /\ undo[c] > 0
<1>1. PICK c \in Calls : Commit(c)
  BY DEF Next, Step, CheckStatus, ReadNets, LockRow, RejectOrder, CommitStatus,
         Rollback, Retry, committed, vars, IInv, TypeOK, Warehouses
<1>2. /\ phase[c] = "locked" /\ Enough(c) /\ phase' = [phase EXCEPT ![c] = "ok"]
      /\ stock' = [stock EXCEPT ![Row(c)] = seen[c] + Change(c)]
  BY <1>1 DEF Commit, End, Goto
<1>3. /\ seen[c] = stock[Row(c)] /\ undo[c] \in Int
      /\ stock \in [Warehouses -> Int] /\ Op[c] \in Ops
  BY <1>2, CallFacts DEF IInv, TypeOK, SeenIsFresh
<1>4. phase'[c] = "ok"
  BY <1>2 DEF IInv, TypeOK
<1>5. Row(c) = "source"
  BY <1>2, <1>3, CallFacts DEF Warehouses
<1>6. stock'["source"] = stock["source"] + Change(c) /\ stock["source"] \in Int
  BY <1>2, <1>3, <1>5 DEF Warehouses
<1>7. Op[c] # "OrderCreate"
  BY <1>2, <1>3, <1>5, <1>6 DEF Change, Enough
<1>8. Cancels(c)
  BY <1>3, <1>5, <1>7 DEF Row, Cancels, Ops
<1>9. undo[c] > 0
  BY <1>3, <1>6, <1>8 DEF Cancels, Change
<1> QED BY <1>2, <1>4, <1>8, <1>9

\* An order never takes a unit that is not there, for any calls that overlap:
\* the count of the source falls below zero only in the commit of a cancel that
\* read a net two earlier cancels had made positive.
THEOREM OnlyReturnsOversell == Spec => OversoldOnlyByDoubleReturns
<1>1. IInv /\ [Next]_vars =>
        [stock'["source"] < 0 /\ stock'["source"] < stock["source"] =>
           \E c \in Calls : /\ phase[c] = "locked" /\ phase'[c] = "ok"
                           /\ Cancels(c) /\ undo[c] > 0]_vars
  BY SourceFalls
<1> QED BY InitInv, NextInv, <1>1, PTL DEF Spec, OversoldOnlyByDoubleReturns


\* A document nobody settled still has its shipped unit out, and the cancels
\* that are on their way read it so.
OpenIsUntouched ==
    /\ \A d \in Documents : status[d] = "open" => legNet[d] = -1
    /\ status["transfer"] = "open" => arrivals = 0
    /\ \A c \in Calls :
          Cancels(c) /\ phase[c] \in {"read", "locked"} /\ status[Document(c)] = "open" =>
              undo[c] = -1

LEMMA OpenInit == Init => OpenIsUntouched
BY DEF Init, OpenIsUntouched, Documents

LEMMA CommitSettles ==
  ASSUME IInv, OpenIsUntouched, NEW c \in Calls, Commit(c)
  PROVE  OpenIsUntouched'
<1>1. /\ phase' = [phase EXCEPT ![c] = "ok"] /\ undo' = [undo EXCEPT ![c] = 0]
      /\ phase[c] = "locked"
  BY DEF Commit, End, Goto
<1>2. Document(c) \in Documents /\ Op[c] \in Ops
  BY CallFacts
<1>3. CASE Op[c] = "OrderCreate"
  <2>1. status' = status /\ legNet' = legNet /\ arrivals' = arrivals
    BY <1>3 DEF Commit, Cancels
  <2> QED BY <1>1, <2>1 DEF IInv, TypeOK, OpenIsUntouched, Cancels, Document
<1>4. CASE Op[c] # "OrderCreate"
  <2>1. /\ status' = [status EXCEPT ![Document(c)] = Final(c)]
        /\ Final(c) # "open"
    BY <1>2, <1>4 DEF Commit, Final, Ops
  <2>2. /\ \A d \in Documents \ {Document(c)} : legNet'[d] = legNet[d] /\ status'[d] = status[d]
        /\ status'[Document(c)] # "open"
    BY <1>2, <2>1 DEF Commit, IInv, TypeOK
  <2>3. Document(c) # "transfer" => arrivals' = arrivals
    BY DEF Commit, Document
  <2>4. \A d \in Documents : status'[d] = "open" => legNet'[d] = -1
    BY <2>2 DEF OpenIsUntouched
  <2>5. status'["transfer"] = "open" => arrivals' = 0
    BY <2>2, <2>3 DEF OpenIsUntouched, Documents
  <2>6. ASSUME NEW b \in Calls, Cancels(b), phase'[b] \in {"read", "locked"},
               status'[Document(b)] = "open"
        PROVE  undo'[b] = -1
    <3>1. b # c /\ phase'[b] = phase[b] /\ undo'[b] = undo[b]
      BY <1>1, <2>6 DEF IInv, TypeOK
    <3>2. Document(b) # Document(c) /\ status[Document(b)] = "open"
      BY <2>2, <2>6, CallFacts
    <3> QED BY <2>6, <3>1, <3>2 DEF OpenIsUntouched
  <2> QED BY <2>4, <2>5, <2>6 DEF OpenIsUntouched, Cancels, Document
<1> QED BY <1>3, <1>4

LEMMA OpenStep ==
  ASSUME IInv, OpenIsUntouched, [Next]_vars
  PROVE  OpenIsUntouched'
<1>1. CASE UNCHANGED vars
  BY <1>1 DEF vars, OpenIsUntouched, Cancels, Document
<1>2. ASSUME NEW c \in Calls, CheckStatus(c) \/ LockRow(c) \/ RejectOrder(c) \/ Rollback(c) \/ Retry(c)
      PROVE  OpenIsUntouched'
  <2>1. status' = status /\ legNet' = legNet /\ arrivals' = arrivals
    BY <1>2 DEF CheckStatus, LockRow, RejectOrder, Rollback, Retry, committed
  <2>2. \A b \in Calls : Cancels(b) /\ phase'[b] \in {"read", "locked"} =>
                            phase[b] \in {"read", "locked"} /\ undo'[b] = undo[b]
    BY <1>2, CallFacts
       DEF CheckStatus, LockRow, RejectOrder, Rollback, Retry, End, Goto, NeedsRow,
           Cancels, IInv, TypeOK, Ops, Documents
  <2> QED BY <2>1, <2>2 DEF OpenIsUntouched, Cancels, Document
<1>3. ASSUME NEW c \in Calls, ReadNets(c) PROVE OpenIsUntouched'
  <2>1. /\ status' = status /\ legNet' = legNet /\ arrivals' = arrivals
        /\ undo' = [undo EXCEPT ![c] = legNet[Document(c)]]
        /\ phase' = [phase EXCEPT ![c] = "read"]
    BY <1>3 DEF ReadNets, committed, Goto
  <2> QED BY <2>1, CallFacts DEF OpenIsUntouched, Cancels, Document, IInv, TypeOK
<1>4. ASSUME NEW c \in Calls, CommitStatus(c) PROVE OpenIsUntouched'
  <2>1. /\ status' = [status EXCEPT ![Document(c)] = "canceled"]
        /\ phase' = [phase EXCEPT ![c] = "ok"]
        /\ UNCHANGED <<legNet, arrivals, undo>>
    BY <1>4 DEF CommitStatus, Goto
  <2> QED BY <2>1, CallFacts DEF OpenIsUntouched, Cancels, Document, IInv, TypeOK, Documents
<1> QED BY <1>1, <1>2, <1>3, <1>4, CommitSettles DEF Next, Step

LEMMA OnlyLateCommitsSettleAgain ==
  ASSUME IInv, OpenIsUntouched, Next, TransferSettledOnce, SaleReturnedOnce,
         ~(TransferSettledOnce /\ SaleReturnedOnce)'
  PROVE  \E c \in Calls : /\ phase[c] = "locked" /\ phase'[c] = "ok"
                         /\ Op[c] # "OrderCreate"
                         /\ status[Document(c)] # "open"
<1>1. PICK c \in Calls : Commit(c)
  BY DEF Next, Step, CheckStatus, ReadNets, LockRow, RejectOrder, CommitStatus,
         Rollback, Retry, committed, TransferSettledOnce, SaleReturnedOnce
<1>2. /\ phase[c] = "locked" /\ phase'[c] = "ok"
      /\ Document(c) \in Documents /\ Op[c] \in Ops
  BY <1>1, CallFacts DEF Commit, End, Goto, IInv, TypeOK
<1>3. Op[c] # "OrderCreate"
  BY <1>1 DEF Commit, Cancels, TransferSettledOnce, SaleReturnedOnce
<1>4. ASSUME status[Document(c)] = "open" PROVE FALSE
  <2>1. CASE Op[c] = "TransferAccept"
    <3>1. legNet' = legNet /\ arrivals' = arrivals + 1
      BY <1>1, <2>1 DEF Commit, Cancels
    <3>2. legNet["transfer"] = -1 /\ arrivals = 0
      BY <1>4, <2>1 DEF OpenIsUntouched, Document, Documents
    <3> QED BY <3>1, <3>2 DEF TransferSettledOnce, SaleReturnedOnce
  <2>2. CASE Cancels(c)
    <3>1. legNet[Document(c)] = -1 /\ undo[c] = -1
      BY <1>2, <1>4, <2>2 DEF OpenIsUntouched
    <3>2. Change(c) = 1
      <4>1. Op[c] # "OrderCreate" /\ Op[c] # "TransferAccept"
        BY <2>2 DEF Cancels
      <4>2. Change(c) = -undo[c]
        BY <4>1 DEF Change
      <4>3. undo[c] \in Int /\ undo[c] + 1 = 0
        BY <3>1
      <4>4. -undo[c] = 1
        BY <4>3
      <4> QED BY <4>2, <4>4
    <3>3. /\ legNet' = [legNet EXCEPT ![Document(c)] = 0] /\ arrivals' = arrivals
      BY <1>1, <1>2, <2>2, <3>1, <3>2 DEF Commit, Cancels, IInv, TypeOK
    <3>4. Document(c) = "transfer" => arrivals = 0
      BY <1>4 DEF OpenIsUntouched
    <3> QED BY <1>2, <3>3, <3>4
            DEF TransferSettledOnce, SaleReturnedOnce, Documents, IInv, TypeOK
  <2> QED BY <1>2, <1>3, <2>1, <2>2 DEF Cancels, Ops
<1> QED BY <1>2, <1>3, <1>4

\* No retry, no repeated call and no order of calls one after the other settles
\* a transfer or returns a sale twice, for any number of calls: the commit that
\* does it found its document open and finds it settled by another since.
THEOREM SettledTwiceByOverlap == Spec => SettledTwiceOnlyByOverlap
<1>1. IInv /\ OpenIsUntouched /\ [Next]_vars =>
        [TransferSettledOnce /\ SaleReturnedOnce =>
          \/ (TransferSettledOnce /\ SaleReturnedOnce)'
          \/ \E c \in Calls : /\ phase[c] = "locked" /\ phase'[c] = "ok"
                            /\ Op[c] # "OrderCreate"
                            /\ status[Document(c)] # "open"]_vars
  BY OnlyLateCommitsSettleAgain
<1> QED BY InitInv, NextInv, OpenInit, OpenStep, <1>1, PTL DEF Spec, SettledTwiceOnlyByOverlap
=============================================================================
