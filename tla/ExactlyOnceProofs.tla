-------------------------- MODULE ExactlyOnceProofs --------------------------
(***************************************************************************)
(* For any messages and any number of overlapping deliveries: the inbox    *)
(* row makes each message's work take effect at most once, and what the    *)
(* subscription sees is EventEffects.  The strengthening says what a       *)
(* request that got past its insert may rely on: it is alone with the      *)
(* message (OneAtATime) and the message was not worked before              *)
(* (HoldsFresh).                                                           *)
(***************************************************************************)
EXTENDS ExactlyOnce, TLAPS

\* A request that inserted the row works on a message nobody has committed.
HoldsFresh == \A q \in Requests : Holds(q) => job[q] \notin inbox

\* A cancel that was worked found its source.
WorkedHasSource ==
    \A q \in Requests :
        phase[q] = "worked" /\ job[q] \in Reversals =>
            \E n \in Needs[job[q]] : effects[n] > 0

IInv ==
    /\ TypeOK
    /\ AtMostOnce
    /\ InboxIsTruth
    /\ OneAtATime
    /\ AckedIsApplied
    /\ HoldsFresh
    /\ WorkedHasSource

LEMMA InitInv == Init => IInv
BY DEF Init, IInv, TypeOK, AtMostOnce, InboxIsTruth, OneAtATime,
       AckedIsApplied, HoldsFresh, WorkedHasSource, Holds, Phases

\* The subscription's steps.
LEMMA SubscriptionStep ==
  ASSUME IInv, (\E m \in Messages : Publish(m))
               \/ (\E q \in Requests, m \in Messages : Deliver(q, m))
  PROVE  IInv'
<1>1. CASE \E m \in Messages : Publish(m)
  BY <1>1 DEF Publish, IInv, TypeOK, AtMostOnce, InboxIsTruth, OneAtATime,
              AckedIsApplied, HoldsFresh, WorkedHasSource, Holds
<1>2. ASSUME NEW q \in Requests, NEW m \in Messages, Deliver(q, m) PROVE IInv'
  <2>1. /\ phase[q] = "idle" /\ phase' = [phase EXCEPT ![q] = "received"]
        /\ job' = [job EXCEPT ![q] = m]
        /\ UNCHANGED <<published, acked, inbox, effects, net, delta>>
    BY <1>2 DEF Deliver
  <2>2. TypeOK'
    BY <2>1 DEF IInv, TypeOK, Phases
  <2>3. AtMostOnce' /\ InboxIsTruth'
    BY <2>1 DEF IInv, AtMostOnce, InboxIsTruth
  <2>4. OneAtATime'
    BY <2>1 DEF IInv, TypeOK, OneAtATime, Holds
  <2>5. AckedIsApplied' /\ HoldsFresh'
    BY <2>1 DEF IInv, TypeOK, AckedIsApplied, HoldsFresh, Holds
  <2>6. WorkedHasSource'
    BY <2>1 DEF IInv, TypeOK, WorkedHasSource, Needs
  <2> QED BY <2>2, <2>3, <2>4, <2>5, <2>6 DEF IInv
<1> QED BY <1>1, <1>2

LEMMA InsertStep ==
  ASSUME IInv, NEW q \in Requests, InsertSeen(q)
  PROVE  IInv'
<1>1. /\ UNCHANGED <<published, acked, inbox, effects, net, job, delta>>
      /\ phase' = [phase EXCEPT ![q] =
                    IF job[q] \in inbox THEN "answering" ELSE "inserted"]
      /\ phase[q] = "received"
      /\ \A r \in Requests : Holds(r) => job[r] # job[q]
  BY DEF InsertSeen
<1>2. TypeOK'
  BY <1>1 DEF IInv, TypeOK, Phases
<1>3. AtMostOnce' /\ InboxIsTruth'
  BY <1>1 DEF IInv, AtMostOnce, InboxIsTruth
<1>4. OneAtATime'
  BY <1>1 DEF IInv, TypeOK, OneAtATime, Holds
<1>5. AckedIsApplied' /\ HoldsFresh'
  BY <1>1 DEF IInv, TypeOK, AckedIsApplied, HoldsFresh, Holds
<1>6. WorkedHasSource'
  BY <1>1 DEF IInv, TypeOK, WorkedHasSource, Needs
<1> QED BY <1>2, <1>3, <1>4, <1>5, <1>6 DEF IInv

LEMMA WorkStep ==
  ASSUME IInv, NEW q \in Requests, Work(q)
  PROVE  IInv'
<1>1. /\ phase[q] = "inserted"
      /\ phase' = [phase EXCEPT ![q] = "worked"]
      /\ UNCHANGED <<published, acked, inbox, effects, net, job>>
  BY DEF Work, ApplyItems, Reconstruct, NothingToDo, Worked
<1>2. delta' \in [Requests -> Int]
  BY MessagesAssumption
     DEF Work, ApplyItems, Reconstruct, NothingToDo, Worked, IInv, TypeOK
<1>3. job[q] \in Reversals => \E n \in Needs[job[q]] : effects[n] > 0
  BY DEF Work, ApplyItems, Reconstruct, NothingToDo, Logged, Reversals
<1>4. TypeOK'
  BY <1>1, <1>2 DEF IInv, TypeOK, Phases
<1>5. AtMostOnce' /\ InboxIsTruth'
  BY <1>1 DEF IInv, AtMostOnce, InboxIsTruth
<1>6. OneAtATime'
  BY <1>1 DEF IInv, TypeOK, OneAtATime, Holds
<1>7. AckedIsApplied' /\ HoldsFresh'
  BY <1>1 DEF IInv, TypeOK, AckedIsApplied, HoldsFresh, Holds
<1>8. WorkedHasSource'
  BY <1>1, <1>3 DEF IInv, TypeOK, WorkedHasSource, Needs
<1> QED BY <1>4, <1>5, <1>6, <1>7, <1>8 DEF IInv

\* The committed work of a message nobody had worked.
LEMMA CommitEffect ==
  ASSUME IInv, NEW q \in Requests, Commit(q)
  PROVE  /\ job[q] \in Messages /\ effects[job[q]] = 0
         /\ effects' = [effects EXCEPT ![job[q]] = 1]
<1>1. job[q] \in Messages /\ job[q] \notin inbox
  BY DEF IInv, TypeOK, HoldsFresh, Holds, Commit
<1>2. effects[job[q]] = 0
  BY <1>1 DEF IInv, TypeOK, InboxIsTruth
<1> QED BY <1>1, <1>2 DEF Commit

LEMMA CommitStep ==
  ASSUME IInv, NEW q \in Requests, Commit(q)
  PROVE  IInv'
<1>1. /\ inbox' = inbox \cup {job[q]} /\ phase[q] = "worked"
      /\ phase' = [phase EXCEPT ![q] = "answering"]
      /\ UNCHANGED <<published, acked, job, delta>>
  BY DEF Commit
<1>2. /\ job[q] \in Messages /\ effects[job[q]] = 0
      /\ effects' = [effects EXCEPT ![job[q]] = 1]
  BY CommitEffect
<1>3. net' \in [Sources -> Int]
  <2> DEFINE s == Subject[job[q]]
  <2>1. s \in Sources
    BY <1>2, MessagesAssumption
  <2>2. net \in [Sources -> Int] /\ delta[q] \in Int
    BY DEF IInv, TypeOK
  <2>3. net' = [net EXCEPT ![s] = @ + delta[q]]
    BY DEF Commit
  <2> HIDE DEF s
  <2> QED BY <2>1, <2>2, <2>3
<1>4. TypeOK'
  BY <1>1, <1>2, <1>3 DEF IInv, TypeOK, Phases
<1>5. AtMostOnce' /\ InboxIsTruth'
  BY <1>1, <1>2 DEF IInv, TypeOK, AtMostOnce, InboxIsTruth
<1>6. OneAtATime'
  BY <1>1 DEF IInv, TypeOK, OneAtATime, Holds
<1>7. AckedIsApplied'
  BY <1>1 DEF IInv, TypeOK, AckedIsApplied
<1>8. HoldsFresh'
  BY <1>1 DEF IInv, TypeOK, HoldsFresh, OneAtATime, Holds
<1>9. WorkedHasSource'
  BY <1>1, <1>2 DEF IInv, TypeOK, WorkedHasSource, Needs
<1> QED BY <1>4, <1>5, <1>6, <1>7, <1>8, <1>9 DEF IInv

\* The ends of a request: failed before the commit, or answered.
LEMMA EndStep ==
  ASSUME IInv, NEW q \in Requests,
         SourceMissing(q) \/ Fail(q) \/ Ack(q) \/ LoseAnswer(q)
  PROVE  IInv'
<1>1. /\ phase' = [phase EXCEPT ![q] = "idle"]
      /\ UNCHANGED <<published, inbox, effects, net, job, delta>>
  BY DEF SourceMissing, Fail, Ack, LoseAnswer, Rollback
<1>2. acked' \subseteq inbox /\ acked' \subseteq Messages
  BY DEF SourceMissing, Fail, Ack, LoseAnswer, Rollback, IInv, TypeOK, AckedIsApplied
<1>3. TypeOK'
  BY <1>1, <1>2 DEF IInv, TypeOK, Phases
<1>4. AtMostOnce' /\ InboxIsTruth'
  BY <1>1 DEF IInv, AtMostOnce, InboxIsTruth
<1>5. OneAtATime'
  BY <1>1 DEF IInv, TypeOK, OneAtATime, Holds
<1>6. AckedIsApplied' /\ HoldsFresh'
  BY <1>1, <1>2 DEF IInv, TypeOK, AckedIsApplied, HoldsFresh, Holds
<1>7. WorkedHasSource'
  BY <1>1 DEF IInv, TypeOK, WorkedHasSource, Needs
<1> QED BY <1>3, <1>4, <1>5, <1>6, <1>7 DEF IInv

LEMMA NextInv == IInv /\ [Next]_vars => IInv'
<1> SUFFICES ASSUME IInv, [Next]_vars PROVE IInv'
  OBVIOUS
<1>1. CASE Next
  BY <1>1, SubscriptionStep, InsertStep, WorkStep, CommitStep, EndStep DEF Next, Work
<1>2. CASE UNCHANGED vars
  BY <1>2 DEF vars, IInv, TypeOK, AtMostOnce, InboxIsTruth, OneAtATime,
              AckedIsApplied, HoldsFresh, WorkedHasSource, Holds, Needs
<1> QED BY <1>1, <1>2

\* The exactly-once claim of the push handler: however deliveries repeat,
\* overlap, fail and lose their answers, a message's work is committed at most
\* once, and the inbox row is there exactly when the work is.
THEOREM ExactlyOnceEffect == Spec => [](TypeOK /\ AtMostOnce /\ InboxIsTruth)
<1>1. IInv => TypeOK /\ AtMostOnce /\ InboxIsTruth
  BY DEF IInv
<1> QED BY InitInv, NextInv, <1>1, PTL DEF Spec

\* The subscription never stops delivering a message whose work is not done.
THEOREM NothingLost == Spec => []AckedIsApplied
<1>1. IInv => AckedIsApplied
  BY DEF IInv
<1> QED BY InitInv, NextInv, <1>1, PTL DEF Spec

LEMMA EffectsStep ==
  ASSUME IInv, [Next]_vars
  PROVE  [Effects!Next]_<<effects, acked>>
<1>1. ASSUME NEW q \in Requests, Commit(q) PROVE Effects!Next
  <2>1. /\ job[q] \in Messages /\ effects[job[q]] = 0
        /\ effects' = [effects EXCEPT ![job[q]] = 1]
    BY <1>1, CommitEffect
  <2>2. job[q] \in Reversals => \E n \in Needs[job[q]] : effects[n] > 0
    BY <1>1 DEF Commit, IInv, WorkedHasSource
  <2>3. \A n \in Messages : effects[n] > 0 => effects[n] = 1
    BY DEF IInv, TypeOK, AtMostOnce
  <2>4. Needs[job[q]] \subseteq Messages
    BY <2>1 DEF Needs
  <2>5. UNCHANGED acked
    BY <1>1 DEF Commit
  <2>6. Effects!TakeEffect(job[q])
    BY <2>1, <2>2, <2>3, <2>4, <2>5 DEF Effects!TakeEffect
  <2> QED BY <2>1, <2>6 DEF Effects!Next
<1>2. ASSUME NEW q \in Requests, Ack(q) PROVE Effects!Next
  <2>1. job[q] \in Messages /\ job[q] \in inbox
    BY <1>2 DEF Ack, IInv, TypeOK, AckedIsApplied
  <2>2. effects[job[q]] = 1
    BY <2>1 DEF IInv, TypeOK, AtMostOnce, InboxIsTruth
  <2>3. Effects!Acknowledge(job[q])
    BY <1>2, <2>2 DEF Ack, Effects!Acknowledge
  <2> QED BY <2>1, <2>3 DEF Effects!Next
<1>3. CASE Next
  <2>1. CASE \E q \in Requests : Commit(q) \/ Ack(q)
    BY <1>1, <1>2, <2>1
  <2>2. CASE ~ \E q \in Requests : Commit(q) \/ Ack(q)
    BY <1>3, <2>2
       DEF Next, Publish, Deliver, InsertSeen, ApplyItems, Reconstruct,
           NothingToDo, Worked, SourceMissing, Fail, LoseAnswer, Rollback
  <2> QED BY <2>1, <2>2
<1>4. CASE UNCHANGED vars
  BY <1>4 DEF vars
<1> QED BY <1>3, <1>4

\* Seen from outside, the handler is EventEffects: each message takes effect
\* once, a cancel only after its source, an acknowledgement only after both.
THEOREM HandlerImplementsEffects == Spec => ImplementsEffects
<1>1. Init => Effects!Init
  BY DEF Init, Effects!Init
<1> QED BY InitInv, NextInv, EffectsStep, <1>1, PTL
        DEF Spec, ImplementsEffects, Effects!Spec


-----------------------------------------------------------------------------
(* What the messages leave of a source                                      *)

\* The publisher's side: one event applies a source and one cancels it.
OneEventEach ==
    \A m, n \in Messages :
        Subject[m] = Subject[n] /\ Kind[m] = Kind[n] /\ Kind[m] # "other" => m = n

\* The source event took effect and its cancel did not.
Stands(s) ==
    /\ \E m \in inbox : Kind[m] = "apply" /\ Subject[m] = s
    /\ ~ \E m \in inbox : Kind[m] = "cancel" /\ Subject[m] = s

NetFollowsInbox == \A s \in Sources : net[s] = IF Stands(s) THEN 1 ELSE 0

\* The net a reversal read before it took any lock is still the net it undoes.
DeltaFollowsKind ==
    \A q \in Requests : phase[q] = "worked" =>
        delta[q] = CASE Kind[job[q]] = "apply"  -> 1
                     [] Kind[job[q]] = "cancel" -> -1
                     [] OTHER -> 0

CancelHasSource == \A m \in inbox : Kind[m] = "cancel" => Logged(m)

NetInv == NetFollowsInbox /\ DeltaFollowsKind /\ CancelHasSource

LEMMA NetInit == Init => NetInv
BY DEF Init, NetInv, NetFollowsInbox, DeltaFollowsKind, CancelHasSource, Stands

\* A message that is being worked on finds its source as the inbox says.
LEMMA FreshSource ==
  ASSUME IInv, NetInv, OneEventEach, NEW q \in Requests, Holds(q)
  PROVE  LET s == Subject[job[q]] IN
         /\ job[q] \in Messages /\ job[q] \notin inbox /\ s \in Sources
         /\ Kind[job[q]] \in Kinds
         /\ Kind[job[q]] = "apply" =>
               /\ ~ \E m \in inbox : Kind[m] = "apply" /\ Subject[m] = s
               /\ ~ \E m \in inbox : Kind[m] = "cancel" /\ Subject[m] = s
         /\ Kind[job[q]] = "cancel" =>
               /\ ~ \E m \in inbox : Kind[m] = "cancel" /\ Subject[m] = s
               /\ Logged(job[q]) => \E m \in inbox : Kind[m] = "apply" /\ Subject[m] = s
<1> DEFINE j == job[q]
           s == Subject[j]
<1>1. j \in Messages /\ j \notin inbox /\ inbox \subseteq Messages
  BY DEF IInv, TypeOK, HoldsFresh
<1>2. s \in Sources /\ Kind[j] \in Kinds
  BY <1>1, MessagesAssumption
<1>3. \A m \in inbox : Subject[m] = s /\ Kind[m] = Kind[j] => Kind[j] = "other"
  BY <1>1 DEF OneEventEach
<1>4. ASSUME NEW m \in Messages, Logged(m)
      PROVE  \E n \in inbox : Kind[n] = "apply" /\ Subject[n] = Subject[m]
  <2>1. PICK n \in Needs[m] : effects[n] > 0
    BY <1>4 DEF Logged
  <2>2. n \in Messages /\ Kind[n] = "apply" /\ Subject[n] = Subject[m]
    BY <1>4, <2>1 DEF Needs
  <2> QED BY <2>1, <2>2 DEF IInv, InboxIsTruth
<1>5. ASSUME Kind[j] = "apply", NEW m \in inbox, Kind[m] = "cancel", Subject[m] = s
      PROVE  FALSE
  <2>1. Logged(m)
    BY <1>5 DEF NetInv, CancelHasSource
  <2>2. \E n \in inbox : Kind[n] = "apply" /\ Subject[n] = s
    BY <1>1, <1>4, <1>5, <2>1
  <2> QED BY <1>3, <1>5, <2>2
<1> QED BY <1>1, <1>2, <1>3, <1>4, <1>5

\* A step that commits nothing leaves every net, and only a request that has
\* just been worked has a new delta.
LEMMA NetQuiet ==
  ASSUME IInv, NetInv, UNCHANGED <<inbox, effects, net>>,
         \A q \in Requests : phase'[q] = "worked" =>
            \/ phase[q] = "worked" /\ job'[q] = job[q] /\ delta'[q] = delta[q]
            \/ delta'[q] = CASE Kind[job'[q]] = "apply"  -> 1
                             [] Kind[job'[q]] = "cancel" -> -1
                             [] OTHER -> 0
  PROVE  NetInv'
<1>1. NetFollowsInbox' /\ CancelHasSource'
  BY DEF NetInv, NetFollowsInbox, CancelHasSource, Stands, Logged, Needs
<1>2. DeltaFollowsKind'
  BY DEF NetInv, DeltaFollowsKind
<1> QED BY <1>1, <1>2 DEF NetInv

LEMMA NetWork ==
  ASSUME IInv, NetInv, OneEventEach, NEW q \in Requests, Work(q)
  PROVE  NetInv'
<1> DEFINE j == job[q]
<1>1. /\ phase[q] = "inserted" /\ Holds(q)
      /\ phase' = [phase EXCEPT ![q] = "worked"]
      /\ UNCHANGED <<published, acked, inbox, effects, net, job>>
      /\ \A r \in Requests \ {q} : delta'[r] = delta[r] /\ phase'[r] = phase[r]
  BY DEF Work, ApplyItems, Reconstruct, NothingToDo, Worked, Holds, IInv, TypeOK
<1>2. /\ j \in Messages /\ Subject[j] \in Sources /\ q \in DOMAIN delta
      /\ Kind[j] = "cancel" =>
            /\ ~ \E m \in inbox : Kind[m] = "cancel" /\ Subject[m] = Subject[j]
            /\ Logged(j) => \E m \in inbox : Kind[m] = "apply" /\ Subject[m] = Subject[j]
  BY <1>1, FreshSource DEF IInv, TypeOK
<1>3. delta'[q] = CASE Kind[j] = "apply"  -> 1
                    [] Kind[j] = "cancel" -> -1
                    [] OTHER -> 0
  <2>1. CASE ApplyItems(q)
    BY <1>2, <2>1 DEF ApplyItems, Worked
  <2>2. CASE Reconstruct(q)
    <3>1. Kind[j] = "cancel" /\ Logged(j) /\ delta'[q] = -net[Subject[j]]
      BY <1>2, <2>2 DEF Reconstruct, Worked
    <3>2. Stands(Subject[j])
      BY <1>2, <3>1 DEF Stands
    <3>3. net[Subject[j]] = 1
      BY <1>2, <3>2 DEF NetInv, NetFollowsInbox
    <3> QED BY <3>1, <3>3
  <2>3. CASE NothingToDo(q)
    BY <1>2, <2>3 DEF NothingToDo, Worked
  <2> QED BY <2>1, <2>2, <2>3 DEF Work
<1>4. \A r \in Requests : phase'[r] = "worked" =>
         \/ phase[r] = "worked" /\ job'[r] = job[r] /\ delta'[r] = delta[r]
         \/ delta'[r] = CASE Kind[job'[r]] = "apply"  -> 1
                          [] Kind[job'[r]] = "cancel" -> -1
                          [] OTHER -> 0
  BY <1>1, <1>3
<1> QED BY <1>1, <1>4, NetQuiet

LEMMA NetCommit ==
  ASSUME IInv, NetInv, OneEventEach, NEW q \in Requests, Commit(q)
  PROVE  NetInv'
<1> DEFINE j == job[q]
           s == Subject[j]
<1>1. /\ inbox' = inbox \cup {j} /\ phase[q] = "worked" /\ Holds(q)
      /\ phase' = [phase EXCEPT ![q] = "answering"]
      /\ net' = [net EXCEPT ![s] = @ + delta[q]]
      /\ UNCHANGED <<job, delta>>
  BY DEF Commit, Holds
<1>2. /\ j \in Messages /\ effects[j] = 0 /\ effects' = [effects EXCEPT ![j] = 1]
  BY CommitEffect
<1>3. /\ s \in Sources /\ Kind[j] \in Kinds
      /\ Kind[j] = "apply" =>
            /\ ~ \E m \in inbox : Kind[m] = "apply" /\ Subject[m] = s
            /\ ~ \E m \in inbox : Kind[m] = "cancel" /\ Subject[m] = s
      /\ Kind[j] = "cancel" =>
            /\ ~ \E m \in inbox : Kind[m] = "cancel" /\ Subject[m] = s
            /\ Logged(j) => \E m \in inbox : Kind[m] = "apply" /\ Subject[m] = s
  BY <1>1, FreshSource
<1>4. Kind[j] = "cancel" => Logged(j)
  BY <1>1, <1>2 DEF IInv, WorkedHasSource, Reversals, Logged
<1>5. /\ net'[s] = net[s] + delta[q]
      /\ \A t \in Sources \ {s} : net'[t] = net[t]
  BY <1>1, <1>3 DEF IInv, TypeOK
<1>6. delta[q] = CASE Kind[j] = "apply" -> 1 [] Kind[j] = "cancel" -> -1 [] OTHER -> 0
  BY <1>1 DEF NetInv, DeltaFollowsKind
<1>7. \A t \in Sources : net[t] = IF Stands(t) THEN 1 ELSE 0
  BY DEF NetInv, NetFollowsInbox
<1>8. \A t \in Sources \ {s} : Stands(t)' <=> Stands(t)
  BY <1>1 DEF Stands
<1>9. net'[s] = IF Stands(s)' THEN 1 ELSE 0
  <2>1. CASE Kind[j] = "apply"
    <3>1. ~Stands(s) /\ Stands(s)'
      BY <1>1, <1>3, <2>1 DEF Stands
    <3> QED BY <1>3, <1>5, <1>6, <1>7, <2>1, <3>1
  <2>2. CASE Kind[j] = "cancel"
    <3>1. Stands(s) /\ ~Stands(s)'
      BY <1>1, <1>3, <1>4, <2>2 DEF Stands
    <3>2. delta[q] = -1 /\ net[s] = 1
      BY <1>3, <1>6, <1>7, <2>2, <3>1
    <3> QED BY <1>5, <3>1, <3>2
  <2>3. CASE Kind[j] = "other"
    <3>1. Stands(s)' <=> Stands(s)
      BY <1>1, <2>3 DEF Stands
    <3>2. delta[q] = 0
      BY <1>6, <2>3
    <3> QED BY <1>3, <1>5, <1>7, <3>1, <3>2
  <2> QED BY <1>3, <2>1, <2>2, <2>3 DEF Kinds
<1>10. NetFollowsInbox'
  <2> HIDE DEF s
  <2>1. ASSUME NEW t \in Sources PROVE net'[t] = IF Stands(t)' THEN 1 ELSE 0
    <3>1. CASE t = s
      <4>1. Stands(t)' <=> Stands(s)'
        BY <1>1, <3>1 DEF Stands, s
      <4> QED BY <1>9, <3>1, <4>1
    <3>2. CASE t # s
      BY <1>5, <1>7, <1>8, <3>2
    <3> QED BY <3>1, <3>2
  <2> QED BY <2>1 DEF NetFollowsInbox
<1>11. DeltaFollowsKind'
  BY <1>1 DEF NetInv, DeltaFollowsKind, IInv, TypeOK
<1>12. CancelHasSource'
  <2>1. ASSUME NEW m \in Messages, Logged(m) PROVE Logged(m)'
    <3>1. PICK n \in Needs[m] : effects[n] > 0
      BY <2>1 DEF Logged
    <3>2. n \in Messages
      BY <2>1, <3>1 DEF Needs
    <3>3. effects'[n] > 0
      BY <1>2, <3>1, <3>2 DEF IInv, TypeOK
    <3> QED BY <3>1, <3>3 DEF Logged
  <2>2. inbox \subseteq Messages
    BY DEF IInv, TypeOK
  <2>3. \A m \in inbox' : Kind[m] = "cancel" => m \in Messages /\ Logged(m)
    BY <1>1, <1>2, <1>4, <2>2 DEF NetInv, CancelHasSource
  <2> QED BY <2>1, <2>3 DEF CancelHasSource
<1> QED BY <1>10, <1>11, <1>12 DEF NetInv

LEMMA NetStep ==
  ASSUME OneEventEach
  PROVE  IInv /\ NetInv /\ [Next]_vars => NetInv'
<1> SUFFICES ASSUME IInv, NetInv, [Next]_vars PROVE NetInv'
  OBVIOUS
<1>1. CASE \E q \in Requests : Work(q)
  BY <1>1, NetWork
<1>2. CASE \E q \in Requests : Commit(q)
  BY <1>2, NetCommit
<1>3. CASE UNCHANGED vars
  BY <1>3, NetQuiet DEF vars
<1>4. ASSUME UNCHANGED <<inbox, effects, net, delta>>, NEW q \in Requests,
             phase' = [phase EXCEPT ![q] = phase'[q]], phase'[q] # "worked",
             \A r \in Requests \ {q} : job'[r] = job[r]
      PROVE  NetInv'
  <2>1. \A r \in Requests : phase'[r] = "worked" =>
           r # q /\ phase[r] = "worked" /\ job'[r] = job[r] /\ delta'[r] = delta[r]
    BY <1>4 DEF IInv, TypeOK
  <2> QED BY <1>4, <2>1, NetQuiet
<1>5. ASSUME NEW m \in Messages, Publish(m) PROVE NetInv'
  BY <1>5, NetQuiet DEF Publish
<1>6. ASSUME NEW q \in Requests, NEW m \in Messages, Deliver(q, m) PROVE NetInv'
  BY <1>4, <1>6 DEF Deliver, IInv, TypeOK
<1>7. ASSUME NEW q \in Requests, InsertSeen(q) PROVE NetInv'
  BY <1>4, <1>7 DEF InsertSeen, IInv, TypeOK
<1>8. ASSUME NEW q \in Requests,
             SourceMissing(q) \/ Fail(q) \/ Ack(q) \/ LoseAnswer(q)
      PROVE  NetInv'
  BY <1>4, <1>8 DEF SourceMissing, Fail, Ack, LoseAnswer, Rollback, IInv, TypeOK
<1> QED BY <1>1, <1>2, <1>3, <1>5, <1>6, <1>7, <1>8 DEF Next, Work

\* A source event and its cancel leave nothing behind, in whatever order, how
\* often and with whatever failures they are delivered: a reversal undoes the
\* net it read before any lock, and that net is still the one it undoes.  The
\* publisher must publish one event of each kind for a source: with two, two
\* cancels would both undo the same net.
THEOREM SourceNetsOut ==
  ASSUME OneEventEach
  PROVE  Spec => []SourceNets
<1>1. IInv /\ NetInv => SourceNets
  BY DEF IInv, TypeOK, NetInv, NetFollowsInbox, Stands, SourceNets
<1> QED BY InitInv, NextInv, NetInit, NetStep, <1>1, PTL DEF Spec
=============================================================================
