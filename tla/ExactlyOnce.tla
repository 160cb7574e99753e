----------------------------- MODULE ExactlyOnce -----------------------------
(***************************************************************************)
(* The Pub/Sub push handler and its inbox, inventory_exactly_once_logs.    *)
(* Each delivery is one request: it inserts the message's inbox row, does  *)
(* the work, and commits both in one READ COMMITTED transaction, then      *)
(* answers.  Deliveries overlap, fail, crash and lose their answer; the    *)
(* subscription delivers a message again until it is acknowledged.         *)
(***************************************************************************)
EXTENDS Integers, FiniteSets

CONSTANTS
    Messages,   \* (message id, subscription) pairs: the inbox's primary key
    Requests,   \* the deliveries that may be in progress at once
    Sources,    \* the source transactions the events are about
    Subject,    \* Subject[m]: the source transaction of message m
    Kind        \* Kind[m]: "apply", "cancel", or "other", which has no effect

Kinds == {"apply", "cancel", "other"}

ASSUME MessagesAssumption ==
    /\ Subject \in [Messages -> Sources]
    /\ Kind \in [Messages -> Kinds]

VARIABLES
    published,  \* handed to the subscription
    acked,      \* acknowledged: never delivered again
    inbox,      \* committed rows of inventory_exactly_once_logs
    effects,    \* how many committed transactions did the work of a message
    net,        \* SUM(change) of the source's rows in stock_batch_logs, in
                \* units of what the source event moves
    phase, job, \* per request: where it is, and for which message
    delta       \* per request: what its open transaction adds to the net

vars == <<published, acked, inbox, effects, net, phase, job, delta>>

Phases == {"idle", "received", "inserted", "worked", "answering"}

Reversals == {m \in Messages : Kind[m] = "cancel"}

\* The source events about the same transaction.
Needs == [m \in Messages |->
             {n \in Messages : Kind[n] = "apply" /\ Subject[n] = Subject[m]}]

\* stock_batch_logs has rows of the message's source.
Logged(m) == \E n \in Needs[m] : effects[n] > 0

-----------------------------------------------------------------------------
(* The subscription                                                        *)

Publish(m) ==
    /\ m \notin published
    /\ published' = published \cup {m}
    /\ UNCHANGED <<acked, inbox, effects, net, phase, job, delta>>

Deliver(q, m) ==
    /\ m \in published \ acked
    /\ phase[q] = "idle"
    /\ phase' = [phase EXCEPT ![q] = "received"]
    /\ job' = [job EXCEPT ![q] = m]
    /\ UNCHANGED <<published, acked, inbox, effects, net, delta>>

-----------------------------------------------------------------------------
(* The handler                                                             *)

\* A request whose transaction has inserted the row and is still open: an
\* insert of the same key waits for it to end.
Holds(q) == phase[q] \in {"inserted", "worked"}

\* Mutants of InsertSeen: the row is not looked at; an open insert of the same
\* key is not waited for; a row that exists already is an error.
InsertBlindly(q) ==
    /\ phase[q] = "received"
    /\ \A r \in Requests : Holds(r) => job[r] # job[q]
    /\ phase' = [phase EXCEPT ![q] = "inserted"]
    /\ UNCHANGED <<published, acked, inbox, effects, net, job, delta>>

InsertAtOnce(q) ==
    /\ phase[q] = "received"
    /\ phase' = [phase EXCEPT ![q] =
                    IF job[q] \in inbox THEN "answering" ELSE "inserted"]
    /\ UNCHANGED <<published, acked, inbox, effects, net, job, delta>>

InsertOrError(q) ==
    /\ phase[q] = "received"
    /\ \A r \in Requests : Holds(r) => job[r] # job[q]
    /\ phase' = [phase EXCEPT ![q] =
                    IF job[q] \in inbox THEN "idle" ELSE "inserted"]
    /\ UNCHANGED <<published, acked, inbox, effects, net, job, delta>>

\* INSERT ... ON CONFLICT DO NOTHING; no row inserted means already processed.
InsertSeen(q) ==
    /\ phase[q] = "received"
    /\ \A r \in Requests : Holds(r) => job[r] # job[q]
    /\ phase' = [phase EXCEPT ![q] =
                    IF job[q] \in inbox THEN "answering" ELSE "inserted"]
    /\ UNCHANGED <<published, acked, inbox, effects, net, job, delta>>

Worked(q, change) ==
    /\ phase' = [phase EXCEPT ![q] = "worked"]
    /\ delta' = [delta EXCEPT ![q] = change]
    /\ UNCHANGED <<published, acked, inbox, effects, net, job>>

\* applyTxItems: the rows of the source, from its legacy items.
ApplyItems(q) ==
    /\ phase[q] = "inserted"
    /\ Kind[job[q]] = "apply"
    /\ Worked(q, 1)

\* Mutant of Reconstruct: a cancel that finds no rows is done.
ReconstructNothing(q) ==
    /\ phase[q] = "inserted"
    /\ Kind[job[q]] = "cancel"
    /\ Worked(q, -net[Subject[job[q]]])

\* reconstructCancel: the committed net, read before any row is locked, is
\* what the reversing rows will undo.
Reconstruct(q) ==
    /\ phase[q] = "inserted"
    /\ Kind[job[q]] = "cancel"
    /\ Logged(job[q])
    /\ Worked(q, -net[Subject[job[q]]])

\* A deferred variant, or a subscription the handler does not know.
NothingToDo(q) ==
    /\ phase[q] = "inserted"
    /\ Kind[job[q]] = "other"
    /\ Worked(q, 0)

Commit(q) ==
    /\ phase[q] = "worked"
    /\ inbox' = inbox \cup {job[q]}
    /\ effects' = [effects EXCEPT ![job[q]] = @ + 1]
    /\ net' = [net EXCEPT ![Subject[job[q]]] = @ + delta[q]]
    /\ phase' = [phase EXCEPT ![q] = "answering"]
    /\ UNCHANGED <<published, acked, job, delta>>

\* The transaction rolls back and the inbox row goes with the work; the error
\* is no acknowledgement.
Rollback(q) ==
    /\ phase' = [phase EXCEPT ![q] = "idle"]
    /\ UNCHANGED <<published, acked, inbox, effects, net, job, delta>>

\* Mutant of SourceMissing: the error is answered with success.
SourceIgnored(q) ==
    /\ phase[q] = "inserted"
    /\ Kind[job[q]] = "cancel"
    /\ ~Logged(job[q])
    /\ phase' = [phase EXCEPT ![q] = "answering"]
    /\ UNCHANGED <<published, acked, inbox, effects, net, job, delta>>

\* reconstructCancel refuses to cancel what was never applied.
SourceMissing(q) ==
    /\ phase[q] = "inserted"
    /\ Kind[job[q]] = "cancel"
    /\ ~Logged(job[q])
    /\ Rollback(q)

\* Any other error before the commit, a crash, or a lost connection.
Fail(q) ==
    /\ phase[q] \in {"received", "inserted", "worked"}
    /\ Rollback(q)

Ack(q) ==
    /\ phase[q] = "answering"
    /\ acked' = acked \cup {job[q]}
    /\ phase' = [phase EXCEPT ![q] = "idle"]
    /\ UNCHANGED <<published, inbox, effects, net, job, delta>>

\* The crash or the lost answer after the commit.
LoseAnswer(q) ==
    /\ phase[q] = "answering"
    /\ phase' = [phase EXCEPT ![q] = "idle"]
    /\ UNCHANGED <<published, acked, inbox, effects, net, job, delta>>

Work(q) == ApplyItems(q) \/ Reconstruct(q) \/ NothingToDo(q)

-----------------------------------------------------------------------------
Init ==
    /\ published = {} /\ acked = {} /\ inbox = {}
    /\ effects = [m \in Messages |-> 0]
    /\ net = [s \in Sources |-> 0]
    /\ phase = [q \in Requests |-> "idle"]
    /\ job \in [Requests -> Messages]
    /\ delta = [q \in Requests |-> 0]

Next ==
    \/ \E m \in Messages : Publish(m)
    \/ \E q \in Requests, m \in Messages : Deliver(q, m)
    \/ \E q \in Requests :
          \/ InsertSeen(q)
          \/ ApplyItems(q)
          \/ Reconstruct(q)
          \/ NothingToDo(q)
          \/ SourceMissing(q)
          \/ Commit(q)
          \/ Fail(q)
          \/ Ack(q)
          \/ LoseAnswer(q)

Spec == Init /\ [][Next]_vars

\* What the handler does of itself: a step that is only a failure is none of it.
Proceed(q)  == InsertSeen(q) \/ Work(q) \/ SourceMissing(q) \/ Commit(q) \/ Ack(q)
Accident(q) == (Fail(q) \/ LoseAnswer(q)) /\ ~Proceed(q)

\* The subscription keeps delivering what is not acknowledged, a request that
\* was received goes on, and errors, crashes and lost answers do not go on
\* forever.  A cancel without its source may fail as often as it likes.
Fairness ==
    /\ \A q \in Requests : WF_vars(Proceed(q))
    /\ \A m \in Messages : SF_vars(\E q \in Requests : Deliver(q, m))
    /\ <>[][~\E q \in Requests : Accident(q)]_vars

FairSpec == Spec /\ Fairness

-----------------------------------------------------------------------------
(* Correctness                                                             *)

TypeOK ==
    /\ published \subseteq Messages /\ acked \subseteq Messages
    /\ inbox \subseteq Messages
    /\ effects \in [Messages -> Nat]
    /\ net \in [Sources -> Int]
    /\ phase \in [Requests -> Phases]
    /\ job \in [Requests -> Messages]
    /\ delta \in [Requests -> Int]

\* However often a message is delivered, to however many requests at once, and
\* wherever they fail, its work is committed at most once.
AtMostOnce == \A m \in Messages : effects[m] <= 1

\* The inbox tells the truth: the row is there exactly when the work is.
InboxIsTruth == \A m \in Messages : m \in inbox <=> effects[m] > 0

\* Two open transactions never work on the same message.
OneAtATime ==
    \A q, r \in Requests : Holds(q) /\ Holds(r) /\ q # r => job[q] # job[r]

\* Nothing is acknowledged, or about to be, before its work is committed.
AckedIsApplied ==
    /\ acked \subseteq inbox
    /\ \A q \in Requests : phase[q] = "answering" => job[q] \in inbox

Effects == INSTANCE EventEffects

\* Deliveries, retries and crashes are invisible: what is left is each
\* message taking effect once, a cancel after its source.
ImplementsEffects == Effects!Spec

\* A source event and its cancel leave nothing behind, in whatever order they
\* are delivered: with both applied the net is zero, and it is never negative.
SourceNets ==
    \A s \in Sources :
        /\ net[s] >= 0
        /\ (\E m \in Messages : Kind[m] = "cancel" /\ Subject[m] = s /\ m \in inbox)
              => net[s] = 0

\* A published message is acknowledged in the end, provided the event it
\* reverses, if it is a cancel, is published too.
EveryMessageAcked ==
    \A m \in Messages :
        (/\ m \in published
         /\ m \in Reversals => Needs[m] \cap published # {}) ~> m \in acked
=============================================================================
