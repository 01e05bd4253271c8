---------------------------- MODULE WebhookQueue ----------------------------
(***************************************************************************)
(* How a Stripe event travels from the HTTP endpoint to its handler:       *)
(* webhook.controller.ts acknowledges an event once webhook.service.ts     *)
(* (enqueueWebhookEvent) recorded it in WebhookEvent and added it to the   *)
(* BullMQ queue under its own id; webhook.processor.ts runs                *)
(* processWebhookJob, which skips an event already PROCESSED, runs the     *)
(* handler and marks the event PROCESSED or FAILED.                        *)
(*                                                                         *)
(* Stripe delivers an event at least once, possibly twice at a time.       *)
(* BullMQ gives a job to one worker, retries it after a backoff, and takes *)
(* it back when the worker's lock expires, because it died or was cut off  *)
(* from Redis: then it goes on, not knowing.  The handler is the one of    *)
(* checkout.session.completed, whose award of points commits on a          *)
(* connection of its own before the handler's transaction does; the rule   *)
(* for the points of a booking, if there is one, gives some.                *)
(***************************************************************************)
EXTENDS Naturals, FiniteSets

CONSTANTS
    Events,         \* checkout.session.completed events
    Deliveries,     \* HTTP requests of Stripe that run at once
    Workers,        \* webhook processors, one job each
    MaxDeliveries,  \* bound: how often Stripe delivers one event
    Attempts,       \* attempts of a job
    MaxStalled,     \* how often a job may lose its worker and be requeued
    NoWorker        \* the owner of a job nobody runs

ASSUME WebhookQueueAssumption ==
    /\ MaxDeliveries \in Nat /\ MaxStalled \in Nat
    /\ Attempts \in Nat \ {0}
    /\ NoWorker \notin Workers

VARIABLES
    sent,      \* sent[e]: deliveries of e begun
    acked,     \* the events Stripe got a 2xx for
    delivery,  \* delivery[d]: where the HTTP request d stands
    record,    \* record[e]: WebhookEvent.status, "none" without a row
    job,       \* job[e]: the BullMQ job whose id is e
    worker,    \* worker[w]: the job w believes it is running
    awarded,   \* awarded[e]: RewardPoints rows made for e
    handled    \* handled[e]: the handler's transaction committed

vars == <<sent, acked, delivery, record, job, worker, awarded, handled>>

IdleDelivery == [pc |-> "idle"]
Delivery == [pc : {"create", "add"}, event : Events]

JobState == {"none", "waiting", "active", "delayed", "completed", "failed"}
Job == [state : JobState, attempts : 0..Attempts, stalls : 0..(MaxStalled + 1),
        owner : Workers \cup {NoWorker}]
NoJob == [state |-> "none", attempts |-> 0, stalls |-> 0, owner |-> NoWorker]

IdleWorker == [pc |-> "idle"]
Run == [pc : {"check", "award", "commit", "mark", "error", "complete", "throw"},
        event : Events]

WebhookTypeOK ==
    /\ sent \in [Events -> 0..MaxDeliveries]
    /\ acked \subseteq Events
    /\ delivery \in [Deliveries -> Delivery \cup {IdleDelivery}]
    /\ record \in [Events -> {"none", "PENDING", "PROCESSED", "FAILED"}]
    /\ job \in [Events -> Job]
    /\ worker \in [Workers -> Run \cup {IdleWorker}]
    /\ awarded \in [Events -> Nat]
    /\ handled \in [Events -> BOOLEAN]

Init ==
    /\ sent = [e \in Events |-> 0]
    /\ acked = {}
    /\ delivery = [d \in Deliveries |-> IdleDelivery]
    /\ record = [e \in Events |-> "none"]
    /\ job = [e \in Events |-> NoJob]
    /\ worker = [w \in Workers |-> IdleWorker]
    /\ awarded = [e \in Events |-> 0]
    /\ handled = [e \in Events |-> FALSE]

-----------------------------------------------------------------------------
(* The HTTP endpoint                                                       *)

\* enqueueWebhookEvent looks the event up: one already PROCESSED is
\* acknowledged at once.
Receive(d, e) ==
    /\ delivery[d] = IdleDelivery
    /\ sent[e] < MaxDeliveries
    /\ sent' = [sent EXCEPT ![e] = @ + 1]
    /\ IF record[e] = "PROCESSED"
       THEN acked' = acked \cup {e} /\ UNCHANGED delivery
       ELSE /\ delivery' = [delivery EXCEPT ![d] =
                  [pc |-> IF record[e] = "none" THEN "create" ELSE "add",
                   event |-> e]]
            /\ UNCHANGED acked
    /\ UNCHANGED <<record, job, worker, awarded, handled>>

InDelivery(d, pc) == delivery[d] # IdleDelivery /\ delivery[d].pc = pc

\* stripeEventId is unique: a delivery that lost the race answers 500.
CreateRecord(d) ==
    /\ InDelivery(d, "create")
    /\ LET e == delivery[d].event IN
          IF record[e] = "none"
          THEN /\ record' = [record EXCEPT ![e] = "PENDING"]
               /\ delivery' = [delivery EXCEPT ![d].pc = "add"]
          ELSE /\ delivery' = [delivery EXCEPT ![d] = IdleDelivery]
               /\ UNCHANGED record
    /\ UNCHANGED <<sent, acked, job, worker, awarded, handled>>

\* queue.add does nothing while Redis keeps a job of this id, in any state.
Enqueue(e) ==
    IF job[e].state = "none" THEN [job EXCEPT ![e].state = "waiting"] ELSE job

\* A slip: the answer is sent without waiting for queue.add.
AddJobNotAwaited(d) ==
    /\ InDelivery(d, "add")
    /\ LET e == delivery[d].event IN
          /\ job' \in {job, Enqueue(e)}
          /\ acked' = acked \cup {e}
    /\ delivery' = [delivery EXCEPT ![d] = IdleDelivery]
    /\ UNCHANGED <<sent, record, worker, awarded, handled>>

\* The request answers 2xx, unless it dies with the job already in the queue.
AddJob(d) ==
    /\ InDelivery(d, "add")
    /\ LET e == delivery[d].event IN
          /\ job' = Enqueue(e)
          /\ acked' \in {acked, acked \cup {e}}
    /\ delivery' = [delivery EXCEPT ![d] = IdleDelivery]
    /\ UNCHANGED <<sent, record, worker, awarded, handled>>

DeliveryFails(d) ==
    /\ delivery[d] # IdleDelivery
    /\ delivery' = [delivery EXCEPT ![d] = IdleDelivery]
    /\ UNCHANGED <<sent, acked, record, job, worker, awarded, handled>>

-----------------------------------------------------------------------------
(* BullMQ                                                                  *)

TakeJob(w, e) ==
    /\ worker[w] = IdleWorker
    /\ job[e].state = "waiting"
    /\ job' = [job EXCEPT ![e].state = "active", ![e].owner = w]
    /\ worker' = [worker EXCEPT ![w] = [pc |-> "check", event |-> e]]
    /\ UNCHANGED <<sent, acked, delivery, record, awarded, handled>>

\* The backoff is over.
Promote(e) ==
    /\ job[e].state = "delayed"
    /\ job' = [job EXCEPT ![e].state = "waiting"]
    /\ UNCHANGED <<sent, acked, delivery, record, worker, awarded, handled>>

Owns(w, e) == job[e].state = "active" /\ job[e].owner = w

\* Nobody renewed the lock of an active job: it waits again, or fails when
\* that happened too often.  Its worker, if alive, goes on without the lock.
LockExpires(e) ==
    /\ job[e].state = "active"
    /\ job' = [job EXCEPT
          ![e].state = IF job[e].stalls < MaxStalled THEN "waiting" ELSE "failed",
          ![e].stalls = @ + 1,
          ![e].owner = NoWorker]
    /\ UNCHANGED <<sent, acked, delivery, record, worker, awarded, handled>>

WorkerDies(w) ==
    /\ worker[w] # IdleWorker
    /\ worker' = [worker EXCEPT ![w] = IdleWorker]
    /\ UNCHANGED <<sent, acked, delivery, record, job, awarded, handled>>

\* removeOnComplete and removeOnFail keep the latest jobs only.
ForgetJob(e) ==
    /\ job[e].state \in {"completed", "failed"}
    /\ job' = [job EXCEPT ![e] = NoJob]
    /\ UNCHANGED <<sent, acked, delivery, record, worker, awarded, handled>>

-----------------------------------------------------------------------------
(* The processor                                                           *)

Step(w, from, to) ==
    /\ worker[w] # IdleWorker /\ worker[w].pc = from
    /\ worker' = [worker EXCEPT ![w].pc = to]

\* processWebhookJob looks the event up and skips one that is PROCESSED.  When
\* the look-up fails nothing is recorded.
CheckRecord(w) ==
    /\ \/ /\ Step(w, "check", "complete")
          /\ record[worker[w].event] = "PROCESSED"
       \/ /\ Step(w, "check", "award")
          /\ record[worker[w].event] # "PROCESSED"
       \/ Step(w, "check", "throw")
    /\ UNCHANGED <<sent, acked, delivery, record, job, awarded, handled>>

\* awardPoints, on its own connection, inside the handler's transaction.
AwardPoints(w) ==
    /\ Step(w, "award", "commit")
    /\ awarded' = [awarded EXCEPT ![worker[w].event] = @ + 1]
    /\ UNCHANGED <<sent, acked, delivery, record, job, handled>>

CommitHandler(w) ==
    /\ Step(w, "commit", "mark")
    /\ handled' = [handled EXCEPT ![worker[w].event] = TRUE]
    /\ UNCHANGED <<sent, acked, delivery, record, job, awarded>>

\* There is no rule for the points, the transaction times out or fails, or the
\* event cannot be marked.
HandlerThrows(w) ==
    /\ \E pc \in {"award", "commit", "mark"} : Step(w, pc, "error")
    /\ UNCHANGED <<sent, acked, delivery, record, job, awarded, handled>>

MarkProcessed(w) ==
    /\ Step(w, "mark", "complete")
    /\ record' = [record EXCEPT ![worker[w].event] = "PROCESSED"]
    /\ UNCHANGED <<sent, acked, delivery, job, awarded, handled>>

\* A slip: the error is recorded and swallowed.
MarkFailedSwallowed(w) ==
    /\ Step(w, "error", "complete")
    /\ record' = [record EXCEPT ![worker[w].event] = "FAILED"]
    /\ UNCHANGED <<sent, acked, delivery, job, awarded, handled>>

\* The error is recorded, if that does not fail as well, and thrown again.
MarkFailed(w) ==
    /\ Step(w, "error", "throw")
    /\ \/ record' = [record EXCEPT ![worker[w].event] = "FAILED"]
       \/ UNCHANGED record
    /\ UNCHANGED <<sent, acked, delivery, job, awarded, handled>>

\* Without the lock, BullMQ refuses to move the job.
EndJob(w, moved) ==
    /\ worker' = [worker EXCEPT ![w] = IdleWorker]
    /\ job' = IF Owns(w, worker[w].event)
              THEN [job EXCEPT ![worker[w].event] = moved] ELSE job
    /\ UNCHANGED <<sent, acked, delivery, record, awarded, handled>>

CompleteJob(w) ==
    /\ worker[w] # IdleWorker /\ worker[w].pc = "complete"
    /\ EndJob(w, [job[worker[w].event] EXCEPT
                     !.state = "completed", !.owner = NoWorker])

RetryOnceMore(n) == IF n <= Attempts THEN "delayed" ELSE "failed"  \* a slip
RetryOrFail(n) == IF n < Attempts THEN "delayed" ELSE "failed"

FailJob(w) ==
    /\ worker[w] # IdleWorker /\ worker[w].pc = "throw"
    /\ LET j == job[worker[w].event] IN
          EndJob(w, [j EXCEPT !.attempts = @ + 1,
                              !.state = RetryOrFail(j.attempts + 1),
                              !.owner = NoWorker])

-----------------------------------------------------------------------------
\* projectCleanup deletes the PROCESSED rows after 30 days: Stripe gave up
\* long before, and the job is over.
CleanupRecord(e) ==
    /\ record[e] = "PROCESSED"
    /\ sent[e] = MaxDeliveries
    /\ \A d \in Deliveries :
          delivery[d] # IdleDelivery => delivery[d].event # e
    /\ job[e].state \in {"none", "completed", "failed"}
    /\ record' = [record EXCEPT ![e] = "none"]
    /\ UNCHANGED <<sent, acked, delivery, job, worker, awarded, handled>>

Processing(w) ==
    \/ CheckRecord(w) \/ AwardPoints(w) \/ CommitHandler(w)
    \/ HandlerThrows(w) \/ MarkProcessed(w) \/ MarkFailed(w)
    \/ CompleteJob(w) \/ FailJob(w)

Next ==
    \/ \E d \in Deliveries :
          \/ \E e \in Events : Receive(d, e)
          \/ CreateRecord(d) \/ AddJob(d) \/ DeliveryFails(d)
    \/ \E w \in Workers :
          \/ \E e \in Events : TakeJob(w, e)
          \/ Processing(w) \/ WorkerDies(w)
    \/ \E e \in Events :
          Promote(e) \/ LockExpires(e) \/ ForgetJob(e) \/ CleanupRecord(e)

\* The job's worker is gone: nobody will renew its lock.
Orphaned(e) ==
    /\ job[e].state = "active"
    /\ ~ \E w \in Workers : /\ worker[w] # IdleWorker
                            /\ job[e].owner = w /\ worker[w].event = e

\* Workers poll the queue and run to the end of a job unless they die, the
\* backoff of a job ends, and the stalled-job check finds an orphan.  Nothing
\* obliges Stripe to deliver, or BullMQ to forget.
Fairness ==
    /\ \A w \in Workers : WF_vars(Processing(w))
    /\ \A e \in Events :
          /\ WF_vars(\E w \in Workers : TakeJob(w, e))
          /\ WF_vars(Promote(e))
          /\ WF_vars(Orphaned(e) /\ LockExpires(e))

Spec == Init /\ [][Next]_vars
FairSpec == Spec /\ Fairness

-----------------------------------------------------------------------------
(* Properties                                                              *)

\* An event is PROCESSED, and its job completed, only after its handler
\* committed and the points were awarded, whoever retried, lost the job or
\* delivered the event twice (processWebhookJob).
ProcessedMeansHandled ==
    \A e \in Events :
        record[e] = "PROCESSED" \/ job[e].state = "completed" =>
            handled[e] /\ awarded[e] > 0

\* However deliveries are duplicated and workers die, an event is worked on no
\* more often than the attempts and the stalls of one job per delivery allow.
RerunsAreBounded ==
    \A e \in Events : awarded[e] <= sent[e] * (Attempts + MaxStalled)

\* An event Stripe was told is received is handled some time, or its job ends as
\* failed, in spite of crashes: it is never left in the database alone.
AckedEventSettles ==
    \A e \in Events :
        <>(e \in acked) => <>(handled[e] \/ job[e].state = "failed")

\* The points for a booking are awarded once, however often the event is
\* delivered and its job retried.
PointsOncePerEvent == \A e \in Events : awarded[e] <= 1
=============================================================================
