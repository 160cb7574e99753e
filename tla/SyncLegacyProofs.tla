-------------------------- MODULE SyncLegacyProofs --------------------------
(* Theorems about SyncLegacy, for any rows and any limit but zero.  The two *)
(* counters are explained by the workers: limit by those that have a call,  *)
(* wg by those that have not ended; where each row is says what is sent.    *)
EXTENDS SyncLegacy, FiniteSetTheorems, TLAPS

Live == {s \in Skus : worker[s] \notin {"none", "ended"}}

\* What the limit counts beside calls: the token the producer has just taken.
Taken == IF producer = "spawn" THEN 1 ELSE 0

\* The row between scan and spawn is new, and there is one exactly then.
ItemIsNew ==
    /\ producer \in {"take", "spawn"} => \E s \in Skus : item = {s}
    /\ producer \notin {"take", "spawn"} => item = {}
    /\ \A s \in rows \cup item : worker[s] = "none"
    /\ rows \cap item = {}

CountersExplained ==
    /\ limit = Cardinality(Calling) + Taken
    /\ wg = Cardinality(Live)
    /\ closed => producer = "ended" /\ wg = 0
    /\ producer = "ended" => closed

IInv == TypeOK /\ ItemIsNew /\ CountersExplained

-----------------------------------------------------------------------------
\* The sets that are counted are finite.
LEMMA CountedFinite ==
    /\ IsFiniteSet(Calling) /\ Cardinality(Calling) \in Nat
    /\ IsFiniteSet(Live) /\ Cardinality(Live) \in Nat
  <1>1. Calling \subseteq Skus /\ Live \subseteq Skus  BY DEF Calling, Live
  <1>2. QED  BY <1>1, SyncAssumption, FS_Subset, FS_CardinalityType

\* A counted set that gains or loses one element.
LEMMA OneMore ==
    ASSUME NEW S, IsFiniteSet(S), NEW T, NEW s, s \notin S, T = S \cup {s}
    PROVE  Cardinality(T) = Cardinality(S) + 1
  BY FS_AddElement

LEMMA OneLess ==
    ASSUME NEW S, IsFiniteSet(S), NEW T, NEW s, s \in S, T = S \ {s}
    PROVE  Cardinality(T) = Cardinality(S) - 1
  BY FS_RemoveElement

\* Nothing is counted when the command starts.
LEMMA InitIInv == Init => IInv
  <1> SUFFICES ASSUME Init PROVE IInv  OBVIOUS
  <1>1. TypeOK
    <2>1. 0 \in 0 .. Concurrency /\ 0 \in Int /\ <<>> \in Seq(Skus) /\ Len(<<>>) <= Concurrency
      BY SyncAssumption
    <2>2. worker \in [Skus -> WorkerStates] /\ reported \in [Skus -> Nat]
      BY DEF Init, WorkerStates
    <2>3. /\ rows \subseteq Skus /\ item \subseteq Skus
          /\ closed \in BOOLEAN /\ producer \in ProducerStates /\ main \in MainStates
      BY Zenon DEF Init, ProducerStates, MainStates
    <2>4. /\ limit \in 0 .. Concurrency /\ wg \in Int
          /\ syncitems \in Seq(Skus) /\ Len(syncitems) <= Concurrency
      BY <2>1, Zenon DEF Init
    <2>5. QED  BY <2>2, <2>3, <2>4 DEF TypeOK
  <1>2. Calling = {} /\ Live = {}  BY DEF Init, Calling, Live
  <1>3. CountersExplained  BY <1>2, FS_EmptySet DEF Init, CountersExplained, Taken
  <1>4. ItemIsNew  BY DEF Init, ItemIsNew
  <1>5. QED  BY <1>1, <1>3, <1>4 DEF IInv

\* A worker that goes on is in none of the sets of the producer.
LEMMA WorkerIsNotNew ==
    ASSUME IInv, NEW s \in Skus, worker[s] # "none", UNCHANGED <<rows, producer, item>>,
           NEW place \in WorkerStates, worker' = [worker EXCEPT ![s] = place]
    PROVE  ItemIsNew'
  BY DEF IInv, ItemIsNew, TypeOK

\* Every step of every goroutine keeps the counters explained.
LEMMA StepIInv == IInv /\ [Next]_vars => IInv'
  <1> SUFFICES ASSUME IInv, [Next]_vars PROVE IInv'  OBVIOUS
  <1> USE DEF IInv
  <1> DEFINE Kept == UNCHANGED <<rows, item, worker, producer, limit, wg, closed>>
  <1>a. ASSUME Kept PROVE ItemIsNew' /\ CountersExplained'
    <2>1. Calling' = Calling /\ Live' = Live /\ Taken' = Taken
      BY <1>a DEF Calling, Live, Taken
    <2>2. QED  BY <1>a, <2>1 DEF ItemIsNew, CountersExplained
  <1>1. ASSUME NEW s \in Skus, Scan(s) PROVE IInv'
    <2>1. TypeOK'  BY <1>1 DEF Scan, TypeOK, ProducerStates
    <2>2. Calling' = Calling /\ Live' = Live /\ Taken' = Taken
      BY <1>1 DEF Scan, Calling, Live, Taken
    <2>3. ItemIsNew'  BY <1>1 DEF Scan, ItemIsNew, TypeOK
    <2>4. CountersExplained'  BY <1>1, <2>2 DEF Scan, CountersExplained
    <2>5. QED  BY <2>1, <2>3, <2>4
  <1>2. CASE RowsEnd
    <2>1. TypeOK'  BY <1>2 DEF RowsEnd, TypeOK, ProducerStates
    <2>2. Calling' = Calling /\ Live' = Live /\ Taken' = Taken
      BY <1>2 DEF RowsEnd, Calling, Live, Taken
    <2>3. ItemIsNew'  BY <1>2 DEF RowsEnd, ItemIsNew, TypeOK
    <2>4. CountersExplained'  BY <1>2, <2>2 DEF RowsEnd, CountersExplained
    <2>5. QED  BY <2>1, <2>3, <2>4
  <1>3. CASE TakeToken
    <2>1. TypeOK'
      BY <1>3, SyncAssumption DEF TakeToken, TypeOK, ProducerStates
    <2>2. Calling' = Calling /\ Live' = Live /\ Taken = 0 /\ Taken' = 1
      BY <1>3 DEF TakeToken, Calling, Live, Taken
    <2>3. ItemIsNew'  BY <1>3 DEF TakeToken, ItemIsNew, TypeOK
    <2>4. CountersExplained'
      BY <1>3, <2>2, CountedFinite DEF TakeToken, CountersExplained
    <2>5. QED  BY <2>1, <2>3, <2>4
  <1>4. CASE Spawn
    <2>1. PICK s \in Skus : item = {s}  BY <1>4 DEF Spawn, ItemIsNew
    <2>2. worker[s] = "none" /\ worker' = [worker EXCEPT ![s] = "calling"]
      BY <1>4, <2>1 DEF Spawn, ItemIsNew, TypeOK
    <2>3. TypeOK'
      BY <1>4, <2>2 DEF Spawn, TypeOK, ProducerStates, WorkerStates
    <2>4. /\ s \notin Calling /\ Calling' = Calling \cup {s}
          /\ s \notin Live /\ Live' = Live \cup {s}
      BY <2>2 DEF Calling, Live, TypeOK
    <2>5. /\ Cardinality(Calling') = Cardinality(Calling) + 1
          /\ Cardinality(Live') = Cardinality(Live) + 1
      BY <2>4, CountedFinite, OneMore
    <2>6. ItemIsNew'
      BY <1>4, <2>1, <2>2 DEF Spawn, ItemIsNew, TypeOK
    <2>7. Taken = 1 /\ Taken' = 0  BY <1>4 DEF Spawn, Taken
    <2>8. CountersExplained'
      BY <1>4, <2>5, <2>7, CountedFinite DEF Spawn, CountersExplained
    <2>9. QED  BY <2>3, <2>6, <2>8
  <1>5. CASE WaitAndClose
    <2>1. TypeOK'  BY <1>5 DEF WaitAndClose, TypeOK, ProducerStates
    <2>2. Calling' = Calling /\ Live' = Live /\ Taken' = Taken
      BY <1>5 DEF WaitAndClose, Calling, Live, Taken
    <2>3. ItemIsNew'  BY <1>5 DEF WaitAndClose, ItemIsNew, TypeOK
    <2>4. CountersExplained'  BY <1>5, <2>2 DEF WaitAndClose, CountersExplained
    <2>5. QED  BY <2>1, <2>3, <2>4
  <1>6. CASE ScanPanics
    <2>1. TypeOK'  BY <1>6 DEF ScanPanics, TypeOK, MainStates
    <2>2. QED  BY <1>6, <1>a, <2>1 DEF ScanPanics
  <1>7. ASSUME NEW s \in Skus, CallEnds(s) PROVE IInv'
    <2>1. TypeOK'  BY <1>7 DEF CallEnds, TypeOK, WorkerStates
    <2>2. Calling' = Calling /\ Live' = Live /\ Taken' = Taken
      BY <1>7 DEF CallEnds, Calling, Live, Taken, TypeOK
    <2>3. ItemIsNew'  BY <1>7, WorkerIsNotNew DEF CallEnds, WorkerStates
    <2>4. CountersExplained'  BY <1>7, <2>2 DEF CallEnds, CountersExplained
    <2>5. QED  BY <2>1, <2>3, <2>4
  <1>8. ASSUME NEW s \in Skus, ReturnToken(s) PROVE IInv'
    <2>1. TypeOK'  BY <1>8, SyncAssumption DEF ReturnToken, TypeOK, WorkerStates
    <2>2. s \in Calling /\ Calling' = Calling \ {s} /\ Live' = Live /\ Taken' = Taken
      BY <1>8 DEF ReturnToken, Calling, Live, Taken, TypeOK
    <2>3. Cardinality(Calling') = Cardinality(Calling) - 1
      BY <2>2, CountedFinite, OneLess
    <2>4. ItemIsNew'  BY <1>8, WorkerIsNotNew DEF ReturnToken, WorkerStates
    <2>5. CountersExplained'
      BY <1>8, <2>2, <2>3, CountedFinite DEF ReturnToken, CountersExplained, Taken
    <2>6. QED  BY <2>1, <2>4, <2>5
  <1>9. ASSUME NEW s \in Skus, Send(s) PROVE IInv'
    <2>1. CASE closed
      <3>1. TypeOK'  BY <1>9, <2>1 DEF Send, TypeOK, MainStates
      <3>2. QED  BY <1>9, <1>a, <2>1, <3>1 DEF Send
    <2>2. CASE ~closed
      <3>1. worker[s] = "send" /\ worker' = [worker EXCEPT ![s] = "done"]
            /\ UNCHANGED <<rows, item, producer, limit, wg, closed, reported, main>>
            /\ syncitems' = Append(syncitems, s) /\ Len(syncitems) < Concurrency
        BY <1>9, <2>2 DEF Send
      <3>2. TypeOK'  BY <3>1, SyncAssumption DEF TypeOK, WorkerStates
      <3>3. Calling' = Calling /\ Live' = Live /\ Taken' = Taken
        BY <3>1 DEF Calling, Live, Taken, TypeOK
      <3>4. ItemIsNew'  BY <3>1, WorkerIsNotNew DEF WorkerStates
      <3>5. CountersExplained'  BY <3>1, <3>3 DEF CountersExplained
      <3>6. QED  BY <3>2, <3>4, <3>5
    <2>3. QED  BY <2>1, <2>2
  <1>10. ASSUME NEW s \in Skus, Done(s) PROVE IInv'
    <2>1. TypeOK'  BY <1>10 DEF Done, TypeOK, WorkerStates
    <2>2. s \in Live /\ Live' = Live \ {s} /\ Calling' = Calling /\ Taken' = Taken
      BY <1>10 DEF Done, Calling, Live, Taken, TypeOK
    <2>3. Cardinality(Live') = Cardinality(Live) - 1
      BY <2>2, CountedFinite, OneLess
    <2>4. ~closed
      <3>1. Cardinality(Live) # 0  BY <2>2, CountedFinite, FS_EmptySet
      <3>2. QED  BY <3>1 DEF CountersExplained
    <2>5. ItemIsNew'  BY <1>10, WorkerIsNotNew DEF Done, WorkerStates
    <2>6. CountersExplained'
      BY <1>10, <2>2, <2>3, <2>4, CountedFinite DEF Done, CountersExplained
    <2>7. QED  BY <2>1, <2>5, <2>6
  <1>11. CASE Receive
    <2>1. TypeOK'
      <3>1. /\ Tail(syncitems) \in Seq(Skus) /\ Len(Tail(syncitems)) <= Concurrency
            /\ Head(syncitems) \in Skus
        BY <1>11, SyncAssumption DEF Receive, TypeOK
      <3>2. QED  BY <1>11, <3>1 DEF Receive, TypeOK
    <2>2. QED  BY <1>11, <1>a, <2>1 DEF Receive
  <1>12. CASE Return
    <2>1. TypeOK'  BY <1>12 DEF Return, TypeOK, MainStates
    <2>2. QED  BY <1>12, <1>a, <2>1 DEF Return
  <1>13. CASE UNCHANGED vars
    <2>1. TypeOK'  BY <1>13 DEF vars, TypeOK
    <2>2. QED  BY <1>13, <1>a, <2>1 DEF vars
  <1>14. QED
    BY <1>1, <1>2, <1>3, <1>4, <1>5, <1>6, <1>7, <1>8, <1>9, <1>10, <1>11, <1>12, <1>13
    DEF Next, Producer, Worker, Main

LEMMA IInvHolds == Spec => []IInv
  BY InitIInv, StepIInv, PTL DEF Spec

-----------------------------------------------------------------------------
\* However many rows there are, the tokens of limit bound the reconciles the
\* service is asked for at a time: TakeToken waits, and ReturnToken gives back
\* only what was taken.
THEOREM CallsAreBounded == Spec => [](TypeOK /\ CallsBounded)
  <1>1. IInv => TypeOK /\ CallsBounded
    BY CountedFinite, SyncAssumption DEF IInv, CountersExplained, TypeOK, CallsBounded, Taken
  <1>2. QED  BY <1>1, IInvHolds, PTL

\* The wait group closes the channel after the last send: no worker panics.
THEOREM NobodySendsAfterClose == Spec => []NoSendAfterClose
  <1>1. IInv => NoSendAfterClose
    <2> SUFFICES ASSUME IInv, closed PROVE Live = {}
      BY DEF NoSendAfterClose, Live
    <2>1. QED  BY CountedFinite, FS_EmptySet DEF IInv, CountersExplained
  <1>2. QED  BY <1>1, IInvHolds, PTL

-----------------------------------------------------------------------------
\* Where each row is: to be read, with the producer, with its worker, in the
\* channel, or reported.
SentOnce ==
    /\ \A i, j \in 1 .. Len(syncitems) : i # j => syncitems[i] # syncitems[j]
    /\ \A i \in 1 .. Len(syncitems) :
          worker[syncitems[i]] \in {"done", "ended"} /\ reported[syncitems[i]] = 0
    /\ \A s \in Skus :
          \/ reported[s] = 0 /\ worker[s] \notin {"done", "ended"}
          \/ reported[s] = 0 /\ \E i \in 1 .. Len(syncitems) : syncitems[i] = s
          \/ reported[s] = 1 /\ worker[s] \in {"done", "ended"}
    /\ \A s \in Skus : worker[s] = "none" => s \in rows \cup item
    /\ main = "returned" => closed /\ syncitems = <<>>

\* A worker that goes on before or after its send, and a row that is read or
\* gets its worker, change nothing of it.
LEMMA SentOnceKept ==
    ASSUME IInv, SentOnce, UNCHANGED <<syncitems, reported, main>>, closed => closed',
           rows \cup item \subseteq rows' \cup item' \cup {s \in Skus : worker'[s] # "none"},
           \A s \in Skus : worker[s] # "none" => worker'[s] # "none",
           \A s \in Skus : worker'[s] \in {"done", "ended"} <=> worker[s] \in {"done", "ended"}
    PROVE  SentOnce'
  <1>1. \A i \in 1 .. Len(syncitems) : syncitems[i] \in Skus
    BY DEF IInv, TypeOK
  <1>2. QED  BY <1>1 DEF SentOnce

\* Only a send puts a row into the channel, and only the main goroutine takes
\* it out.
LEMMA StepSentOnce == IInv /\ SentOnce /\ [Next]_vars => SentOnce'
  <1> SUFFICES ASSUME IInv, SentOnce, [Next]_vars PROVE SentOnce'  OBVIOUS
  <1> USE DEF IInv
  <1>1. ASSUME NEW s \in Skus, Scan(s) PROVE SentOnce'
    <2>1. item = {} /\ s \in rows /\ item' = {s} /\ rows' = rows \ {s}
      BY <1>1 DEF Scan, ItemIsNew
    <2>2. rows \cup item \subseteq rows' \cup item'  BY <2>1
    <2>3. QED  BY <1>1, <2>2, SentOnceKept DEF Scan
  <1>2. CASE RowsEnd  BY <1>2, SentOnceKept DEF RowsEnd
  <1>3. CASE TakeToken  BY <1>3, SentOnceKept DEF TakeToken
  <1>4. CASE Spawn
    <2>1. PICK s \in Skus : item = {s}  BY <1>4 DEF Spawn, ItemIsNew
    <2>2. worker[s] = "none" /\ worker' = [worker EXCEPT ![s] = "calling"]
      BY <1>4, <2>1 DEF Spawn, ItemIsNew, TypeOK
    <2>3. QED  BY <1>4, <2>1, <2>2, SentOnceKept DEF Spawn, TypeOK
  <1>5. CASE WaitAndClose  BY <1>5, SentOnceKept DEF WaitAndClose
  <1>6. CASE ScanPanics  BY <1>6 DEF ScanPanics, SentOnce
  <1>7. ASSUME NEW s \in Skus, CallEnds(s) PROVE SentOnce'
    BY <1>7, SentOnceKept DEF CallEnds, TypeOK
  <1>8. ASSUME NEW s \in Skus, ReturnToken(s) PROVE SentOnce'
    BY <1>8, SentOnceKept DEF ReturnToken, TypeOK
  <1>9. ASSUME NEW s \in Skus, Send(s) PROVE SentOnce'
    <2>1. CASE closed  BY <1>9, <2>1 DEF Send, SentOnce
    <2>2. CASE ~closed
      <3>1. /\ worker[s] = "send" /\ worker' = [worker EXCEPT ![s] = "done"]
            /\ UNCHANGED <<rows, item, closed, reported, main>>
            /\ syncitems' = Append(syncitems, s)
        BY <1>9, <2>2 DEF Send
      <3>2. /\ syncitems \in Seq(Skus) /\ worker \in [Skus -> WorkerStates]
            /\ \A i \in 1 .. Len(syncitems) : syncitems[i] \in Skus
        BY DEF TypeOK
      <3>3. /\ Len(syncitems') = Len(syncitems) + 1 /\ Len(syncitems) \in Nat
            /\ syncitems'[Len(syncitems) + 1] = s
            /\ \A i \in 1 .. Len(syncitems) : syncitems'[i] = syncitems[i]
        BY <3>1, <3>2
      <3>4. /\ reported[s] = 0
            /\ \A i \in 1 .. Len(syncitems) : syncitems[i] # s
        BY <3>1 DEF SentOnce
      <3>5. \A i \in 1 .. Len(syncitems') : i \in 1 .. Len(syncitems) \/ i = Len(syncitems) + 1
        BY <3>3
      <3>6. \A i, j \in 1 .. Len(syncitems') : i # j => syncitems'[i] # syncitems'[j]
        BY <3>3, <3>4, <3>5 DEF SentOnce
      <3>7. \A i \in 1 .. Len(syncitems') :
               worker'[syncitems'[i]] \in {"done", "ended"} /\ reported'[syncitems'[i]] = 0
        BY <3>1, <3>2, <3>3, <3>4, <3>5 DEF SentOnce
      <3>8. ASSUME NEW q \in Skus
            PROVE  \/ reported'[q] = 0 /\ worker'[q] \notin {"done", "ended"}
                   \/ reported'[q] = 0 /\ \E i \in 1 .. Len(syncitems') : syncitems'[i] = q
                   \/ reported'[q] = 1 /\ worker'[q] \in {"done", "ended"}
        <4>1. CASE q = s
          BY <3>1, <3>3, <3>4, <4>1
        <4>2. CASE q # s
          <5>1. worker'[q] = worker[q] /\ reported'[q] = reported[q]
            BY <3>1, <3>2, <4>2
          <5>2. (\E i \in 1 .. Len(syncitems) : syncitems[i] = q)
                => \E i \in 1 .. Len(syncitems') : syncitems'[i] = q
            BY <3>3
          <5>3. QED  BY <5>1, <5>2 DEF SentOnce
        <4>3. QED  BY <4>1, <4>2
      <3>9. (\A q \in Skus : worker[q] = "none" => q \in rows \cup item)'
        BY <3>1, <3>2 DEF SentOnce
      <3>10. main' # "returned"
        BY <1>9, <3>1 DEF Send, Running
      <3>11. QED  BY <3>6, <3>7, <3>8, <3>9, <3>10 DEF SentOnce
    <2>3. QED  BY <2>1, <2>2
  <1>10. ASSUME NEW s \in Skus, Done(s) PROVE SentOnce'
    BY <1>10, SentOnceKept DEF Done, TypeOK
  <1>11. CASE Receive
    <2> DEFINE q == Head(syncitems)
    <2>1. /\ syncitems \in Seq(Skus) /\ syncitems # <<>>
          /\ reported' = [reported EXCEPT ![q] = @ + 1] /\ syncitems' = Tail(syncitems)
          /\ UNCHANGED <<rows, item, worker, closed, main>>
          /\ reported \in [Skus -> Nat] /\ Running
      BY <1>11 DEF Receive, TypeOK
    <2>2. /\ Len(syncitems) \in Nat /\ Len(syncitems) > 0 /\ 1 \in 1 .. Len(syncitems)
          /\ q = syncitems[1] /\ q \in Skus
          /\ Len(syncitems') = Len(syncitems) - 1
          /\ \A i \in 1 .. Len(syncitems') : /\ i + 1 \in 1 .. Len(syncitems)
                                             /\ syncitems'[i] = syncitems[i + 1]
      BY <2>1
    <2>3. \A i \in 1 .. Len(syncitems) :
             i # 1 => i - 1 \in 1 .. Len(syncitems') /\ syncitems[i] = syncitems'[i - 1]
      BY <2>1, <2>2
    <2>4. reported[q] = 0 /\ reported'[q] = 1 /\ worker[q] \in {"done", "ended"}
      BY <2>1, <2>2 DEF SentOnce
    <2>5. \A i \in 1 .. Len(syncitems') : syncitems'[i] # q /\ syncitems'[i] \in Skus
      BY <2>1, <2>2 DEF SentOnce
    <2>6. \A p \in Skus : p # q => reported'[p] = reported[p]
      BY <2>1
    <2>7. \A i, j \in 1 .. Len(syncitems') : i # j => syncitems'[i] # syncitems'[j]
      BY <2>2 DEF SentOnce
    <2>8. \A i \in 1 .. Len(syncitems') :
             worker'[syncitems'[i]] \in {"done", "ended"} /\ reported'[syncitems'[i]] = 0
      <3>1. ASSUME NEW i \in 1 .. Len(syncitems')
            PROVE  worker[syncitems'[i]] \in {"done", "ended"} /\ reported'[syncitems'[i]] = 0
        <4>1. worker[syncitems'[i]] \in {"done", "ended"} /\ reported[syncitems'[i]] = 0
          BY <2>2 DEF SentOnce
        <4>2. QED  BY <2>5, <2>6, <4>1
      <3>2. QED  BY <2>1, <3>1
    <2>9. ASSUME NEW p \in Skus
          PROVE  \/ reported'[p] = 0 /\ worker'[p] \notin {"done", "ended"}
                 \/ reported'[p] = 0 /\ \E i \in 1 .. Len(syncitems') : syncitems'[i] = p
                 \/ reported'[p] = 1 /\ worker'[p] \in {"done", "ended"}
      <3>1. CASE p = q  BY <2>1, <2>4, <3>1
      <3>2. CASE p # q
        <4>1. (\E i \in 1 .. Len(syncitems) : syncitems[i] = p)
              => \E i \in 1 .. Len(syncitems') : syncitems'[i] = p
          BY <2>2, <2>3, <3>2
        <4>2. QED  BY <2>1, <2>6, <3>2, <4>1 DEF SentOnce
      <3>3. QED  BY <3>1, <3>2
    <2>10. (\A p \in Skus : worker[p] = "none" => p \in rows \cup item)'
      BY <2>1 DEF SentOnce
    <2>11. main' # "returned"  BY <2>1 DEF Running
    <2>12. QED  BY <2>7, <2>8, <2>9, <2>10, <2>11 DEF SentOnce
  <1>12. CASE Return  BY <1>12 DEF Return, SentOnce
  <1>13. CASE UNCHANGED vars  BY <1>13 DEF vars, SentOnce
  <1>14. QED
    BY <1>1, <1>2, <1>3, <1>4, <1>5, <1>6, <1>7, <1>8, <1>9, <1>10, <1>11, <1>12, <1>13
    DEF Next, Producer, Worker, Main

\* The command that returned has reported each row it read, once: the channel
\* was closed after every worker had sent, and is read to its end.
THEOREM RowsReportedOnce == Spec => []ReportedOnce
  <1>1. Init => SentOnce
    BY DEF Init, SentOnce
  <1>2. IInv /\ SentOnce => ReportedOnce
    <2> SUFFICES ASSUME IInv, SentOnce, main = "returned", NEW s \in Skus
                 PROVE  reported[s] = IF s \in rows THEN 0 ELSE 1
      BY DEF ReportedOnce
    <2>1. closed /\ syncitems = <<>> /\ Len(syncitems) = 0  BY DEF SentOnce
    <2>2. item = {}  BY <2>1 DEF IInv, CountersExplained, ItemIsNew
    <2>3. Live = {}
      BY <2>1, CountedFinite, FS_EmptySet DEF IInv, CountersExplained
    <2>4. worker[s] \in {"none", "ended"}  BY <2>3 DEF Live
    <2>5. worker[s] = "none" <=> s \in rows
      BY <2>2 DEF SentOnce, IInv, ItemIsNew
    <2>6. \A i \in 1 .. Len(syncitems) : FALSE  BY <2>1
    <2>7. QED  BY <2>4, <2>5, <2>6 DEF SentOnce
  <1>3. QED  BY <1>1, <1>2, IInvHolds, StepSentOnce, PTL DEF Spec

-----------------------------------------------------------------------------
\* Some goroutine has its guard true.
SomeoneCanGoOn ==
    \/ producer = "scan" \/ producer = "spawn"
    \/ producer = "take" /\ limit < Concurrency
    \/ producer = "wait" /\ wg = 0
    \/ \E s \in Skus : \/ worker[s] \in {"calling", "done"}
                       \/ worker[s] = "release" /\ limit > 0
                       \/ worker[s] = "send" /\ Len(syncitems) < Concurrency
    \/ syncitems # <<>> \/ closed

\* As long as the command runs the two channels and the wait group do not all
\* wait for each other: when none can go on, the channel of results is empty,
\* so no worker is left, so the limit has room and the wait group is zero.
THEOREM CommandIsNeverStuck == Spec => [](Running => SomeoneCanGoOn)
  <1>1. IInv => SomeoneCanGoOn
    <2> SUFFICES ASSUME IInv, ~SomeoneCanGoOn PROVE FALSE  OBVIOUS
    <2>1. syncitems = <<>> /\ Len(syncitems) < Concurrency
      <3>1. syncitems = <<>>  BY DEF SomeoneCanGoOn
      <3>2. QED  BY <3>1, SyncAssumption
    <2>2. \A s \in Skus : worker[s] \in {"none", "ended"} \/ (worker[s] = "release" /\ limit <= 0)
      <3>1. limit \in Int /\ worker \in [Skus -> WorkerStates]
        BY SyncAssumption DEF IInv, TypeOK
      <3>2. QED  BY <2>1, <3>1 DEF SomeoneCanGoOn, WorkerStates
    <2>3. producer # "spawn" /\ Taken = 0  BY DEF SomeoneCanGoOn, Taken
    <2>4. limit = Cardinality(Calling) /\ limit \in Nat
      BY <2>3, CountedFinite DEF IInv, CountersExplained
    <2>5. Calling = {}
      <3>1. ASSUME NEW s \in Calling PROVE FALSE
        <4>1. Cardinality(Calling) # 0  BY CountedFinite, FS_EmptySet
        <4>2. s \in Skus /\ worker[s] \in {"calling", "release"}  BY DEF Calling
        <4>3. QED  BY <2>2, <2>4, <4>1, <4>2
      <3>2. QED  BY <3>1
    <2>6. limit = 0  BY <2>4, <2>5, FS_EmptySet
    <2>7. Live = {}
      <3>1. ASSUME NEW s \in Live PROVE FALSE
        <4>1. s \in Skus /\ worker[s] \notin {"none", "ended"}  BY DEF Live
        <4>2. s \in Calling  BY <2>2, <4>1 DEF Calling
        <4>3. QED  BY <2>5, <4>2
      <3>2. QED  BY <3>1
    <2>8. wg = 0  BY <2>7, FS_EmptySet DEF IInv, CountersExplained
    <2>9. limit < Concurrency  BY <2>6, SyncAssumption
    <2>10. producer \in ProducerStates  BY DEF IInv, TypeOK
    <2>11. producer = "ended"  BY <2>8, <2>9, <2>10 DEF SomeoneCanGoOn, ProducerStates
    <2>12. closed  BY <2>11 DEF IInv, CountersExplained
    <2>13. QED  BY <2>12 DEF SomeoneCanGoOn
  <1>2. QED  BY <1>1, IInvHolds, PTL
=============================================================================
