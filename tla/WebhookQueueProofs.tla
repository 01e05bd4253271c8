------------------------- MODULE WebhookQueueProofs -------------------------
(***************************************************************************)
(* Theorems about WebhookQueue, for any number of events, deliveries and   *)
(* workers and any number of attempts and stalls: an event is PROCESSED    *)
(* only after its handler, and it is worked on a bounded number of times.  *)
(***************************************************************************)
EXTENDS WebhookQueue, FiniteSetTheorems, TLAPS

-----------------------------------------------------------------------------
(* Type correctness                                                        *)

\* A job that is not over has attempts and stalls left; one that was never
\* added, or was forgotten, starts anew.
JobInv ==
    \A e \in Events :
        /\ job[e].state \in {"waiting", "active", "delayed"} =>
              job[e].attempts < Attempts /\ job[e].stalls <= MaxStalled
        /\ job[e].state = "none" => job[e] = NoJob

QueueTypes == WebhookTypeOK /\ JobInv

LEMMA QueueTypesInit == Init => QueueTypes
<1>1. NoJob \in Job
  BY WebhookQueueAssumption DEF NoJob, Job, JobState
<1> QED BY <1>1, WebhookQueueAssumption
        DEF Init, QueueTypes, WebhookTypeOK, JobInv, NoJob

\* A worker that is running a job knows its event.
LEMMA RunType ==
    ASSUME WebhookTypeOK, NEW w \in Workers, worker[w] # IdleWorker
    PROVE  worker[w] \in Run /\ worker[w].event \in Events
  BY DEF WebhookTypeOK, Run

\* So does a delivery.
LEMMA DeliveryType ==
    ASSUME WebhookTypeOK, NEW d \in Deliveries, delivery[d] # IdleDelivery
    PROVE  delivery[d] \in Delivery /\ delivery[d].event \in Events
  BY DEF WebhookTypeOK, Delivery

LEMMA EndpointType ==
    ASSUME QueueTypes, NEW d \in Deliveries,
           \/ \E e \in Events : Receive(d, e)
           \/ CreateRecord(d) \/ AddJob(d) \/ DeliveryFails(d)
    PROVE  QueueTypes'
<1> USE DEF QueueTypes
<1>1. ASSUME NEW e \in Events, Receive(d, e) PROVE QueueTypes'
  <2>1. \A pc \in {"create", "add"} : [pc |-> pc, event |-> e] \in Delivery
    BY DEF Delivery
  <2>2. sent' \in [Events -> 0..MaxDeliveries]
    <3>1. sent[e] + 1 \in 0..MaxDeliveries
      BY <1>1, WebhookQueueAssumption DEF Receive, WebhookTypeOK
    <3> QED BY <1>1, <3>1 DEF Receive, WebhookTypeOK
  <2>3. delivery' \in [Deliveries -> Delivery \cup {IdleDelivery}]
    BY <1>1, <2>1 DEF Receive, WebhookTypeOK
  <2> QED BY <1>1, <2>2, <2>3 DEF Receive, WebhookTypeOK, JobInv
<1>2. CASE CreateRecord(d)
  <2>1. delivery[d] \in Delivery /\ delivery[d].event \in Events
    BY <1>2, DeliveryType DEF CreateRecord, InDelivery
  <2>2. [delivery[d] EXCEPT !.pc = "add"] \in Delivery
    BY <2>1 DEF Delivery
  <2> QED BY <1>2, <2>1, <2>2 DEF CreateRecord, WebhookTypeOK, JobInv
<1>3. CASE AddJob(d)
  <2>1. delivery[d] \in Delivery /\ delivery[d].event \in Events
    BY <1>3, DeliveryType DEF AddJob, InDelivery
  <2> DEFINE e == delivery[d].event
             j == [job[e] EXCEPT !.state = "waiting"]
  <2>2. job[e] \in Job
    BY <2>1 DEF WebhookTypeOK
  <2>3. j \in Job
    BY <2>2 DEF Job, JobState
  <2>4. job' = IF job[e].state = "none" THEN [job EXCEPT ![e] = j] ELSE job
    BY <1>3 DEF AddJob, Enqueue
  <2>5. job[e].state = "none" => j.attempts < Attempts /\ j.stalls <= MaxStalled
                                 /\ j.state = "waiting"
    BY <2>1, WebhookQueueAssumption DEF JobInv, NoJob
  <2> HIDE DEF j
  <2>6. job' \in [Events -> Job] /\ JobInv'
    BY <2>1, <2>3, <2>4, <2>5 DEF WebhookTypeOK, JobInv
  <2> QED BY <1>3, <2>1, <2>6 DEF AddJob, WebhookTypeOK
<1>4. CASE DeliveryFails(d)
  BY <1>4 DEF DeliveryFails, WebhookTypeOK, JobInv
<1> QED BY <1>1, <1>2, <1>3, <1>4

\* A job that is replaced by a well-formed one keeps the types.
LEMMA JobType ==
    ASSUME QueueTypes, NEW e \in Events, NEW j \in Job,
           job' = [job EXCEPT ![e] = j],
           /\ j.state \in {"waiting", "active", "delayed"} =>
                 j.attempts < Attempts /\ j.stalls <= MaxStalled
           /\ j.state = "none" => j = NoJob
    PROVE  job' \in [Events -> Job] /\ JobInv'
  BY DEF QueueTypes, WebhookTypeOK, JobInv

LEMMA BullMQType ==
    ASSUME QueueTypes, NEW e \in Events,
           \/ \E w \in Workers : TakeJob(w, e)
           \/ Promote(e) \/ LockExpires(e) \/ ForgetJob(e)
    PROVE  QueueTypes'
<1>1. job[e] \in Job
  BY DEF QueueTypes, WebhookTypeOK
<1>2. ASSUME NEW w \in Workers, TakeJob(w, e) PROVE QueueTypes'
  <2> DEFINE j == [job[e] EXCEPT !.state = "active", !.owner = w]
  <2>1. j \in Job /\ j.state = "active"
        /\ j.attempts = job[e].attempts /\ j.stalls = job[e].stalls
    BY <1>1 DEF Job, JobState
  <2>2. job[e].attempts < Attempts /\ job[e].stalls <= MaxStalled
    BY <1>2 DEF TakeJob, QueueTypes, JobInv
  <2>3. job' = [job EXCEPT ![e] = j]
    BY <1>1, <1>2 DEF TakeJob, QueueTypes, WebhookTypeOK
  <2> HIDE DEF j
  <2>4. job' \in [Events -> Job] /\ JobInv'
    BY <2>1, <2>2, <2>3, JobType
  <2>5. [pc |-> "check", event |-> e] \in Run
    BY DEF Run
  <2> QED BY <1>2, <2>4, <2>5 DEF TakeJob, QueueTypes, WebhookTypeOK
<1>3. CASE Promote(e)
  <2> DEFINE j == [job[e] EXCEPT !.state = "waiting"]
  <2>1. j \in Job /\ j.state = "waiting"
        /\ j.attempts = job[e].attempts /\ j.stalls = job[e].stalls
    BY <1>1 DEF Job, JobState
  <2>2. job[e].attempts < Attempts /\ job[e].stalls <= MaxStalled
    BY <1>3 DEF Promote, QueueTypes, JobInv
  <2>3. job' = [job EXCEPT ![e] = j]
    BY <1>3 DEF Promote
  <2> HIDE DEF j
  <2>4. job' \in [Events -> Job] /\ JobInv'
    BY <2>1, <2>2, <2>3, JobType
  <2> QED BY <1>3, <2>4 DEF Promote, QueueTypes, WebhookTypeOK
<1>4. CASE LockExpires(e)
  <2> DEFINE st == IF job[e].stalls < MaxStalled THEN "waiting" ELSE "failed"
             n == job[e].stalls + 1
             j == [job[e] EXCEPT !.state = st, !.stalls = n, !.owner = NoWorker]
  <2>1. job[e].attempts < Attempts /\ job[e].stalls <= MaxStalled
        /\ job[e].stalls \in Nat
    BY <1>1, <1>4 DEF LockExpires, QueueTypes, JobInv, Job
  <2>2. n \in 0..(MaxStalled + 1) /\ st \in {"waiting", "failed"}
        /\ (st = "waiting" => n <= MaxStalled)
    BY <2>1, WebhookQueueAssumption
  <2>3. job' = [job EXCEPT ![e] = j]
    BY <1>1, <1>4 DEF LockExpires, QueueTypes, WebhookTypeOK
  <2> HIDE DEF st, n
  <2>4. j \in Job /\ j.state = st /\ j.attempts = job[e].attempts /\ j.stalls = n
    BY <1>1, <2>2 DEF Job, JobState
  <2> HIDE DEF j
  <2>5. job' \in [Events -> Job] /\ JobInv'
    BY <2>1, <2>2, <2>3, <2>4, JobType
  <2> QED BY <1>4, <2>5 DEF LockExpires, QueueTypes, WebhookTypeOK
<1>5. CASE ForgetJob(e)
  <2>1. NoJob \in Job
    BY WebhookQueueAssumption DEF NoJob, Job, JobState
  <2>2. job' \in [Events -> Job] /\ JobInv'
    BY <1>5, <2>1 DEF ForgetJob, QueueTypes, WebhookTypeOK, JobInv, NoJob
  <2> QED BY <1>5, <2>2 DEF ForgetJob, QueueTypes, WebhookTypeOK
<1> QED BY <1>2, <1>3, <1>4, <1>5

\* Where a worker may go in one step of its own.
LEMMA StepType ==
    ASSUME WebhookTypeOK, NEW w \in Workers,
           NEW from, NEW to \in {"award", "commit", "mark", "error", "complete",
                                 "throw"},
           Step(w, from, to)
    PROVE  /\ worker' \in [Workers -> Run \cup {IdleWorker}]
           /\ worker[w].event \in Events
<1>1. worker[w] \in Run /\ worker[w].event \in Events
  BY RunType DEF Step
<1>2. [worker[w] EXCEPT !.pc = to] \in Run
  BY <1>1 DEF Run
<1> QED BY <1>1, <1>2 DEF Step, WebhookTypeOK

LEMMA ProcessorType ==
    ASSUME QueueTypes, NEW w \in Workers, Processing(w) \/ WorkerDies(w)
    PROVE  QueueTypes'
<1> USE DEF QueueTypes
<1>1. CASE CheckRecord(w)
  BY <1>1, StepType DEF CheckRecord, WebhookTypeOK, JobInv
<1>2. CASE AwardPoints(w)
  BY <1>2, StepType DEF AwardPoints, WebhookTypeOK, JobInv
<1>3. CASE CommitHandler(w)
  BY <1>3, StepType DEF CommitHandler, WebhookTypeOK, JobInv
<1>4. CASE HandlerThrows(w)
  BY <1>4, StepType DEF HandlerThrows, WebhookTypeOK, JobInv
<1>5. CASE MarkProcessed(w)
  BY <1>5, StepType DEF MarkProcessed, WebhookTypeOK, JobInv
<1>6. CASE MarkFailed(w)
  BY <1>6, StepType DEF MarkFailed, WebhookTypeOK, JobInv
<1>7. CASE WorkerDies(w)
  BY <1>7 DEF WorkerDies, WebhookTypeOK, JobInv
<1>8. ASSUME NEW j \in Job, EndJob(w, j), worker[w] # IdleWorker,
             j.state \in {"completed", "failed", "delayed"},
             j.state = "delayed" => j.attempts < Attempts /\ j.stalls <= MaxStalled
      PROVE  QueueTypes'
  <2>1. worker[w].event \in Events
    BY <1>8, RunType
  <2>2. job' \in [Events -> Job] /\ JobInv'
    BY <1>8, <2>1, JobType DEF EndJob, WebhookTypeOK, JobInv
  <2> QED BY <1>8, <2>2 DEF EndJob, WebhookTypeOK
<1>9. CASE CompleteJob(w)
  <2> DEFINE j == [job[worker[w].event] EXCEPT !.state = "completed",
                                               !.owner = NoWorker]
  <2>1. worker[w].event \in Events
    BY <1>9, RunType DEF CompleteJob
  <2>2. job[worker[w].event] \in Job
    BY <2>1 DEF WebhookTypeOK
  <2>3. j \in Job /\ j.state = "completed"
    BY <2>2 DEF Job, JobState
  <2>4. EndJob(w, j) /\ worker[w] # IdleWorker
    BY <1>9 DEF CompleteJob
  <2> HIDE DEF j
  <2> QED BY <1>8, <2>3, <2>4
<1>10. CASE FailJob(w)
  <2> DEFINE i == job[worker[w].event]
             n == i.attempts + 1
             st == RetryOrFail(n)
             j == [i EXCEPT !.attempts = n, !.state = st, !.owner = NoWorker]
  <2>1. worker[w].event \in Events
    BY <1>10, RunType DEF FailJob
  <2>2. i \in Job
    BY <2>1 DEF WebhookTypeOK
  <2>3. CASE ~Owns(w, worker[w].event)
    BY <1>10, <2>3 DEF FailJob, EndJob, WebhookTypeOK, JobInv
  <2>4. CASE Owns(w, worker[w].event)
    <3>1. i.attempts < Attempts /\ i.stalls <= MaxStalled /\ i.attempts \in Nat
      BY <2>1, <2>2, <2>4 DEF Owns, JobInv, Job
    <3>2. n \in 0..Attempts /\ st \in {"delayed", "failed"}
          /\ (st = "delayed" => n < Attempts)
      BY <3>1, WebhookQueueAssumption DEF RetryOrFail
    <3>3. EndJob(w, j) /\ worker[w] # IdleWorker
      BY <1>10 DEF FailJob
    <3> HIDE DEF n, st
    <3>4. j \in Job /\ j.state = st /\ j.attempts = n /\ j.stalls = i.stalls
      BY <2>2, <3>2 DEF Job, JobState
    <3> HIDE DEF j
    <3> QED BY <1>8, <3>1, <3>2, <3>3, <3>4
  <2> QED BY <2>3, <2>4
<1> QED BY <1>1, <1>2, <1>3, <1>4, <1>5, <1>6, <1>7, <1>9, <1>10 DEF Processing

LEMMA QueueTypesStep == QueueTypes /\ [Next]_vars => QueueTypes'
<1>1. ASSUME QueueTypes, NEW e \in Events, CleanupRecord(e) PROVE QueueTypes'
  BY <1>1 DEF CleanupRecord, QueueTypes, WebhookTypeOK, JobInv
<1>2. ASSUME QueueTypes, UNCHANGED vars PROVE QueueTypes'
  BY <1>2 DEF vars, QueueTypes, WebhookTypeOK, JobInv
<1> QED BY <1>1, <1>2, EndpointType, BullMQType, ProcessorType DEF Next

\* Rows, jobs and the processor's variables are well formed (the counters of a
\* job never pass their limits).
THEOREM WebhookTypeCorrect == Spec => []WebhookTypeOK
<1>1. QueueTypes => WebhookTypeOK
  BY DEF QueueTypes
<1> QED BY <1>1, QueueTypesInit, QueueTypesStep, PTL DEF Spec

-----------------------------------------------------------------------------
(* Processed means handled                                                 *)

\* What a worker has reached by its own steps was done for its event, and the
\* points come before the handler's commit.
HandledInv ==
    /\ ProcessedMeansHandled
    /\ \A w \in Workers : worker[w] # IdleWorker =>
          /\ worker[w].pc \in {"commit", "mark", "complete"} =>
                awarded[worker[w].event] > 0
          /\ worker[w].pc \in {"mark", "complete"} => handled[worker[w].event]

\* What was awarded and committed stays so.
LEMMA DoneStaysDone ==
    ASSUME QueueTypes, [Next]_vars, NEW e \in Events
    PROVE  /\ awarded[e] \in Nat /\ awarded'[e] \in Nat
           /\ awarded[e] <= awarded'[e]
           /\ handled[e] => handled'[e]
<1>1. awarded[e] \in Nat /\ awarded \in [Events -> Nat]
  BY DEF QueueTypes, WebhookTypeOK
<1>2. ASSUME NEW w \in Workers, AwardPoints(w)
      PROVE  awarded'[e] = awarded[e] \/ awarded'[e] = awarded[e] + 1
  BY <1>1, <1>2 DEF AwardPoints
<1>3. awarded'[e] = awarded[e] \/ awarded'[e] = awarded[e] + 1
  BY <1>2
  DEF Next, vars, Receive, CreateRecord, AddJob, DeliveryFails, TakeJob,
      Processing, CheckRecord, CommitHandler, HandlerThrows, MarkProcessed,
      MarkFailed, CompleteJob, FailJob, EndJob, WorkerDies, Promote,
      LockExpires, ForgetJob, CleanupRecord
<1>4. ASSUME NEW w \in Workers, CommitHandler(w), handled[e] PROVE handled'[e]
  BY <1>4 DEF CommitHandler, QueueTypes, WebhookTypeOK
<1>5. handled[e] => handled'[e]
  BY <1>4
  DEF Next, vars, Receive, CreateRecord, AddJob, DeliveryFails, TakeJob,
      Processing, CheckRecord, AwardPoints, HandlerThrows, MarkProcessed,
      MarkFailed, CompleteJob, FailJob, EndJob, WorkerDies, Promote,
      LockExpires, ForgetJob, CleanupRecord
<1> QED BY <1>1, <1>3, <1>5

\* Where a worker is after a step, and what that means.
LEMMA WorkerKnows ==
    ASSUME QueueTypes, HandledInv, [Next]_vars, NEW w \in Workers,
           worker'[w] # IdleWorker, worker'[w] # worker[w]
    PROVE  /\ worker'[w].event \in Events
           /\ worker'[w].pc \in {"commit", "mark", "complete"} =>
                 awarded'[worker'[w].event] > 0
           /\ worker'[w].pc \in {"mark", "complete"} =>
                 handled'[worker'[w].event]
<1> USE DEF QueueTypes
<1>1. ASSUME NEW u \in Workers, NEW e \in Events, TakeJob(u, e)
      PROVE  worker'[w].event \in Events /\ worker'[w].pc = "check"
  BY <1>1 DEF TakeJob, WebhookTypeOK
<1>2. ASSUME NEW u \in Workers, NEW from,
             NEW to \in {"award", "commit", "mark", "error", "complete", "throw"},
             Step(u, from, to)
      PROVE  /\ u = w /\ worker[w] \in Run /\ worker[w].pc = from
             /\ worker'[w].pc = to /\ worker'[w].event = worker[w].event
             /\ worker[w] # IdleWorker /\ worker[w].event \in Events
  <2>1. u = w
    BY <1>2 DEF Step, WebhookTypeOK
  <2>2. worker[w] \in Run /\ worker[w].event \in Events
    BY <1>2, <2>1, RunType DEF Step
  <2>3. worker'[w] = [worker[w] EXCEPT !.pc = to]
    BY <1>2, <2>1 DEF Step, WebhookTypeOK
  <2> QED BY <1>2, <2>1, <2>2, <2>3 DEF Step, Run
<1>3. ASSUME NEW u \in Workers, CheckRecord(u)
      PROVE  /\ worker'[w].event \in Events
             /\ worker'[w].pc \in {"award", "throw"}
                \/ (/\ worker'[w].pc = "complete"
                    /\ awarded'[worker'[w].event] > 0
                    /\ handled'[worker'[w].event])
  <2>1. CASE Step(u, "check", "complete") /\ record[worker[u].event] = "PROCESSED"
    <3>1. /\ worker'[w].pc = "complete" /\ worker'[w].event = worker[w].event
          /\ worker[w].event \in Events /\ record[worker[w].event] = "PROCESSED"
      BY <1>2, <2>1
    <3>2. handled[worker[w].event] /\ awarded[worker[w].event] > 0
      BY <3>1 DEF HandledInv, ProcessedMeansHandled
    <3> QED BY <1>3, <3>1, <3>2 DEF CheckRecord
  <2> QED BY <1>2, <1>3, <2>1 DEF CheckRecord
<1>4. ASSUME NEW u \in Workers, AwardPoints(u)
      PROVE  /\ worker'[w].event \in Events /\ worker'[w].pc = "commit"
             /\ awarded'[worker'[w].event] > 0
  <2>1. /\ u = w /\ worker'[w].pc = "commit"
        /\ worker'[w].event = worker[w].event /\ worker[w].event \in Events
    BY <1>2, <1>4 DEF AwardPoints
  <2> QED BY <1>4, <2>1 DEF AwardPoints, WebhookTypeOK
<1>5. ASSUME NEW u \in Workers, CommitHandler(u)
      PROVE  /\ worker'[w].event \in Events /\ worker'[w].pc = "mark"
             /\ awarded'[worker'[w].event] > 0 /\ handled'[worker'[w].event]
  <2>1. /\ u = w /\ worker'[w].pc = "mark" /\ worker[w].pc = "commit"
        /\ worker'[w].event = worker[w].event /\ worker[w].event \in Events
        /\ worker[w] # IdleWorker
    BY <1>2, <1>5 DEF CommitHandler
  <2>2. awarded[worker[w].event] > 0
    BY <2>1 DEF HandledInv
  <2> QED BY <1>5, <2>1, <2>2 DEF CommitHandler, WebhookTypeOK
<1>6. ASSUME NEW u \in Workers, HandlerThrows(u) \/ MarkFailed(u)
      PROVE  worker'[w].event \in Events /\ worker'[w].pc \in {"error", "throw"}
  BY <1>2, <1>6 DEF HandlerThrows, MarkFailed
<1>7. ASSUME NEW u \in Workers, MarkProcessed(u)
      PROVE  /\ worker'[w].event \in Events
             /\ awarded'[worker'[w].event] > 0 /\ handled'[worker'[w].event]
  <2>1. /\ u = w /\ worker[w].pc = "mark" /\ worker[w] # IdleWorker
        /\ worker'[w].event = worker[w].event /\ worker[w].event \in Events
    BY <1>2, <1>7 DEF MarkProcessed
  <2>2. awarded[worker[w].event] > 0 /\ handled[worker[w].event]
    BY <2>1 DEF HandledInv
  <2> QED BY <1>7, <2>1, <2>2 DEF MarkProcessed
<1>8. ASSUME NEW u \in Workers, CompleteJob(u) \/ FailJob(u) \/ WorkerDies(u)
      PROVE  FALSE
  BY <1>8 DEF CompleteJob, FailJob, EndJob, WorkerDies, WebhookTypeOK
<1>9. CASE UNCHANGED worker
  BY <1>9
<1> QED BY <1>1, <1>3, <1>4, <1>5, <1>6, <1>7, <1>8, <1>9
        DEF Next, vars, Receive, CreateRecord, AddJob, DeliveryFails, Processing,
            Promote, LockExpires, ForgetJob, CleanupRecord

\* An event becomes PROCESSED, or its job completed, by a worker that is done.
LEMMA BecomesProcessed ==
    ASSUME QueueTypes, HandledInv, [Next]_vars, NEW e \in Events,
           record'[e] = "PROCESSED" \/ job'[e].state = "completed"
    PROVE  handled'[e] /\ awarded'[e] > 0
<1> USE DEF QueueTypes
<1>1. ASSUME NEW w \in Workers, MarkProcessed(w), record[e] # "PROCESSED",
             record'[e] = "PROCESSED"
      PROVE  handled[e] /\ awarded[e] > 0
  <2>1. worker[w].event = e /\ worker[w].pc = "mark" /\ worker[w] # IdleWorker
    BY <1>1 DEF MarkProcessed, Step, WebhookTypeOK
  <2> QED BY <2>1 DEF HandledInv
<1>2. ASSUME NEW w \in Workers, CompleteJob(w), job[e].state # "completed",
             job'[e].state = "completed"
      PROVE  handled[e] /\ awarded[e] > 0
  <2>1. worker[w].event = e /\ worker[w].pc = "complete" /\ worker[w] # IdleWorker
    BY <1>2 DEF CompleteJob, EndJob, WebhookTypeOK
  <2> QED BY <2>1 DEF HandledInv
<1>3. ASSUME NEW w \in Workers, FailJob(w), job'[e].state = "completed"
      PROVE  job[e].state = "completed"
  <2> DEFINE f == worker[w].event
             st == RetryOrFail(job[f].attempts + 1)
             n == job[f].attempts + 1
             j == [job[f] EXCEPT !.attempts = n, !.state = st, !.owner = NoWorker]
  <2>1. f \in Events
    BY <1>3, RunType DEF FailJob
  <2>2. job[f] \in Job
    BY <2>1 DEF WebhookTypeOK
  <2>3. st \in {"delayed", "failed"}
    BY DEF RetryOrFail
  <2>4. job' = job \/ job' = [job EXCEPT ![f] = j]
    BY <1>3 DEF FailJob, EndJob
  <2> HIDE DEF st, n
  <2>5. j.state = st
    BY <2>2 DEF Job
  <2> HIDE DEF j
  <2> QED BY <1>3, <2>1, <2>3, <2>4, <2>5 DEF WebhookTypeOK
<1>4. ASSUME NEW f \in Events,
             \/ \E w \in Workers : TakeJob(w, f)
             \/ Promote(f) \/ LockExpires(f) \/ ForgetJob(f),
             job'[e].state = "completed"
      PROVE  job[e].state = "completed"
  <2>1. job[f] \in Job /\ job \in [Events -> Job]
    BY DEF WebhookTypeOK
  <2>2. CASE e # f
    BY <1>4, <2>1, <2>2 DEF TakeJob, Promote, LockExpires, ForgetJob
  <2>3. CASE e = f
    <3>1. \A w \in Workers : ~TakeJob(w, f)
      BY <1>4, <2>1, <2>3 DEF TakeJob, Job
    <3>2. ~Promote(f) /\ ~ForgetJob(f)
      BY <1>4, <2>1, <2>3 DEF Promote, ForgetJob, NoJob, Job
    <3>3. ~LockExpires(f)
      <4> DEFINE st == IF job[f].stalls < MaxStalled THEN "waiting" ELSE "failed"
                 n == job[f].stalls + 1
      <4>1. LockExpires(f) => job'[f] = [job[f] EXCEPT !.state = st, !.stalls = n,
                                                     !.owner = NoWorker]
        BY <2>1 DEF LockExpires
      <4>2. st # "completed"
        OBVIOUS
      <4> HIDE DEF st, n
      <4> QED BY <1>4, <2>1, <2>3, <4>1, <4>2 DEF Job
    <3> QED BY <1>4, <3>1, <3>2, <3>3
  <2> QED BY <2>2, <2>3
<1>5. ASSUME NEW d \in Deliveries, AddJob(d), job'[e].state = "completed"
      PROVE  job[e].state = "completed"
  BY <1>5 DEF AddJob, Enqueue, WebhookTypeOK, Job
<1>6. ASSUME NEW d \in Deliveries, CreateRecord(d), record'[e] = "PROCESSED"
      PROVE  record[e] = "PROCESSED"
  BY <1>6 DEF CreateRecord, WebhookTypeOK
<1>7. ASSUME NEW w \in Workers, MarkFailed(w), record'[e] = "PROCESSED"
      PROVE  record[e] = "PROCESSED"
  BY <1>7 DEF MarkFailed, WebhookTypeOK
<1>8. ASSUME NEW f \in Events, CleanupRecord(f), record'[e] = "PROCESSED"
      PROVE  record[e] = "PROCESSED"
  BY <1>8 DEF CleanupRecord, WebhookTypeOK
<1>9. \/ record[e] = "PROCESSED" \/ job[e].state = "completed"
      \/ handled[e] /\ awarded[e] > 0
  BY <1>1, <1>2, <1>3, <1>4, <1>5, <1>6, <1>7, <1>8
  DEF Next, vars, Receive, CreateRecord, AddJob, DeliveryFails, TakeJob,
      Processing, CheckRecord, AwardPoints, CommitHandler, HandlerThrows,
      MarkProcessed, MarkFailed, CompleteJob, FailJob, EndJob, WorkerDies,
      Promote, LockExpires, ForgetJob, CleanupRecord
<1>10. handled[e] /\ awarded[e] > 0
  BY <1>9 DEF HandledInv, ProcessedMeansHandled
<1> QED BY <1>10, DoneStaysDone

LEMMA HandledStep == QueueTypes /\ HandledInv /\ [Next]_vars => HandledInv'
<1> SUFFICES ASSUME QueueTypes, HandledInv, [Next]_vars PROVE HandledInv'
  OBVIOUS
<1>1. ProcessedMeansHandled'
  BY BecomesProcessed DEF ProcessedMeansHandled
<1>2. ASSUME NEW w \in Workers, worker'[w] # IdleWorker
      PROVE  /\ worker'[w].pc \in {"commit", "mark", "complete"} =>
                   awarded'[worker'[w].event] > 0
             /\ worker'[w].pc \in {"mark", "complete"} =>
                   handled'[worker'[w].event]
  <2>1. CASE worker'[w] = worker[w]
    <3>1. worker[w].event \in Events
      BY <1>2, <2>1, RunType DEF QueueTypes
    <3>2. /\ worker[w].pc \in {"commit", "mark", "complete"} =>
                awarded[worker[w].event] > 0
          /\ worker[w].pc \in {"mark", "complete"} => handled[worker[w].event]
      BY <1>2, <2>1 DEF HandledInv
    <3> QED BY <2>1, <3>1, <3>2, DoneStaysDone
  <2>2. CASE worker'[w] # worker[w]
    BY <1>2, <2>2, WorkerKnows
  <2> QED BY <2>1, <2>2
<1> QED BY <1>1, <1>2 DEF HandledInv

\* An event is PROCESSED, and its job completed, only after its handler
\* committed and awarded the points, whatever was retried, lost or doubled
\* (processWebhookJob).
THEOREM ProcessedHandled == Spec => []ProcessedMeansHandled
<1>1. Init => HandledInv
  BY DEF Init, HandledInv, ProcessedMeansHandled, NoJob
<1>2. HandledInv => ProcessedMeansHandled
  BY DEF HandledInv
<1> QED BY <1>1, <1>2, HandledStep, QueueTypesInit, QueueTypesStep, PTL DEF Spec

-----------------------------------------------------------------------------
(* Bounded reruns                                                          *)

\* What one job may be taken: a take ends in a failed attempt, in a stall, or
\* ends the job.
Takes == Attempts + MaxStalled

\* The takes a job has left.
Left(j) ==
    CASE j.state \in {"waiting", "delayed"} -> Takes - (j.attempts + j.stalls)
      [] j.state = "active" -> Takes - (j.attempts + j.stalls + 1)
      [] OTHER -> 0

\* The deliveries that may add a job for e, and the workers that may still
\* award its points.
Delivering(e) ==
    {d \in Deliveries : delivery[d] # IdleDelivery /\ delivery[d].event = e}
Ahead(e) ==
    {w \in Workers : /\ worker[w] # IdleWorker /\ worker[w].event = e
                     /\ worker[w].pc \in {"check", "award"}}

\* Each delivery of an event brings it the takes of one job: they are in the
\* deliveries under way, in the job, in the workers ahead of the award, in the
\* awards made, or lost.
Fits(made, ahead, left, delivering, begun) ==
    made + ahead + left + delivering * Takes <= begun * Takes

BudgetInv ==
    \A e \in Events :
        /\ IsFiniteSet(Delivering(e)) /\ IsFiniteSet(Ahead(e))
        /\ Fits(awarded[e], Cardinality(Ahead(e)), Left(job[e]),
                Cardinality(Delivering(e)), sent[e])

LEMMA Distributes ==
    ASSUME NEW m \in Nat, NEW n \in Nat
    PROVE  /\ m * n \in Nat /\ (m + 1) * n = m * n + n
           /\ m > 0 => (m - 1) * n = m * n - n
  OBVIOUS

LEMMA TakesType == Takes \in Nat /\ Takes > 0
  BY WebhookQueueAssumption DEF Takes

\* The sum of a budget, when its parts change as a step may change them.
LEMMA SumStays ==
    ASSUME NEW a \in Nat, NEW w \in Nat, NEW l \in Nat, NEW d \in Nat,
           NEW s \in Nat, Fits(a, w, l, d, s),
           NEW a1 \in Nat, NEW w1 \in Nat, NEW l1 \in Nat, NEW d1 \in Nat,
           NEW s1 \in Nat, s1 >= s,
           \/ a1 + w1 + l1 <= a + w + l /\ d1 <= d
           \/ a1 + w1 + l1 <= a + w + l + Takes /\ d > 0 /\ d1 = d - 1
           \/ a1 + w1 + l1 <= a + w + l /\ d1 = d + 1 /\ s1 = s + 1
    PROVE  Fits(a1, w1, l1, d1, s1)
<1> USE DEF Fits
<1>1. Takes \in Nat
  BY TakesType
<1>2. \A x, y \in Nat : x <= y => x * Takes <= y * Takes /\ x * Takes \in Nat
  BY <1>1
<1>3. s * Takes <= s1 * Takes /\ s * Takes \in Nat /\ s1 * Takes \in Nat
      /\ d * Takes \in Nat /\ d1 * Takes \in Nat
  BY <1>2
<1>4. CASE a1 + w1 + l1 <= a + w + l /\ d1 <= d
  <2>1. d1 * Takes <= d * Takes
    BY <1>2, <1>4
  <2> QED BY <1>3, <1>4, <2>1
<1>5. CASE a1 + w1 + l1 <= a + w + l + Takes /\ d > 0 /\ d1 = d - 1
  <2>1. d1 * Takes = d * Takes - Takes
    BY <1>1, <1>5, Distributes
  <2> QED BY <1>1, <1>3, <1>5, <2>1
<1>6. CASE a1 + w1 + l1 <= a + w + l /\ d1 = d + 1 /\ s1 = s + 1
  <2>1. d1 * Takes = d * Takes + Takes /\ s1 * Takes = s * Takes + Takes
    BY <1>1, <1>6, Distributes
  <2> QED BY <1>1, <1>3, <1>6, <2>1
<1> QED BY <1>4, <1>5, <1>6

\* A job never owes takes.
LEMMA LeftType ==
    ASSUME QueueTypes, NEW e \in Events
    PROVE  Left(job[e]) \in Nat
<1>1. /\ job[e].attempts \in Nat /\ job[e].stalls \in Nat
      /\ job[e].state \in JobState
  BY WebhookQueueAssumption DEF QueueTypes, WebhookTypeOK, Job
<1>2. job[e].state \in {"waiting", "active", "delayed"} =>
          job[e].attempts < Attempts /\ job[e].stalls <= MaxStalled
  BY DEF QueueTypes, JobInv
<1> QED BY <1>1, <1>2, WebhookQueueAssumption DEF Left, Takes

\* How a step that adds no job changes the deliveries of an event.
LEMMA DeliveringMoves ==
    ASSUME QueueTypes, [Next]_vars, \A d \in Deliveries : ~AddJob(d),
           NEW e \in Events
    PROVE  \/ /\ Delivering(e)' \subseteq Delivering(e)
              /\ sent'[e] \in {sent[e], sent[e] + 1}
           \/ \E d \in Deliveries :
                 /\ d \notin Delivering(e)
                 /\ Delivering(e)' = Delivering(e) \cup {d}
                 /\ sent'[e] = sent[e] + 1
<1> USE DEF QueueTypes, WebhookTypeOK
<1>1. ASSUME NEW d \in Deliveries, NEW f \in Events, Receive(d, f)
      PROVE  \/ /\ Delivering(e)' \subseteq Delivering(e)
                /\ sent'[e] \in {sent[e], sent[e] + 1}
             \/ /\ d \notin Delivering(e)
                /\ Delivering(e)' = Delivering(e) \cup {d}
                /\ sent'[e] = sent[e] + 1
  <2>1. sent'[e] \in {sent[e], sent[e] + 1}
        /\ (f = e => sent'[e] = sent[e] + 1)
    BY <1>1 DEF Receive
  <2>2. d \notin Delivering(e)
    BY <1>1 DEF Receive, Delivering
  <2>3. CASE delivery' = delivery
    BY <2>1, <2>3 DEF Delivering
  <2>4. CASE delivery' # delivery
    <3>1. PICK pc : delivery' = [delivery EXCEPT ![d] = [pc |-> pc, event |-> f]]
                    /\ pc # "idle"
      BY <1>1, <2>4 DEF Receive
    <3>2. [pc |-> pc, event |-> f] # IdleDelivery
      BY <3>1 DEF IdleDelivery
    <3>3. f = e => Delivering(e)' = Delivering(e) \cup {d}
      BY <3>1, <3>2 DEF Delivering
    <3>4. f # e => Delivering(e)' \subseteq Delivering(e)
      BY <3>1, <3>2 DEF Delivering
    <3> QED BY <1>1, <2>1, <2>2, <3>3, <3>4 DEF Receive
  <2> QED BY <2>3, <2>4
<1>2. ASSUME NEW d \in Deliveries, CreateRecord(d)
      PROVE  Delivering(e)' \subseteq Delivering(e) /\ sent' = sent
  <2>1. delivery[d] \in Delivery
    BY <1>2, DeliveryType DEF CreateRecord, InDelivery
  <2>2. /\ [delivery[d] EXCEPT !.pc = "add"].event = delivery[d].event
        /\ delivery[d] # IdleDelivery
    BY <1>2, <2>1 DEF Delivery, CreateRecord, InDelivery
  <2> QED BY <1>2, <2>2 DEF CreateRecord, Delivering
<1>3. ASSUME NEW d \in Deliveries, DeliveryFails(d)
      PROVE  Delivering(e)' \subseteq Delivering(e) /\ sent' = sent
  BY <1>3 DEF DeliveryFails, Delivering
<1>4. ASSUME UNCHANGED <<delivery, sent>>
      PROVE  Delivering(e)' \subseteq Delivering(e) /\ sent' = sent
  BY <1>4 DEF Delivering
<1> QED BY <1>1, <1>2, <1>3, <1>4
        DEF Next, vars, TakeJob, Processing, CheckRecord, AwardPoints,
            CommitHandler, HandlerThrows, MarkProcessed, MarkFailed, CompleteJob,
            FailJob, EndJob, WorkerDies, Promote, LockExpires, ForgetJob,
            CleanupRecord

\* What workers and the job still have to do.
Work(e) == awarded[e] + Cardinality(Ahead(e)) + Left(job[e])

\* A step of a worker that has a job does not bring it ahead of an award it was
\* not ahead of.
LEMMA WorkerSteps ==
    ASSUME QueueTypes, NEW e \in Events, IsFiniteSet(Ahead(e)),
           NEW w \in Workers, Processing(w) \/ WorkerDies(w)
    PROVE  /\ Ahead(e)' \subseteq Ahead(e)
           /\ \/ awarded'[e] = awarded[e]
              \/ awarded'[e] = awarded[e] + 1 /\ Ahead(e)' = Ahead(e) \ {w}
                 /\ w \in Ahead(e) /\ job' = job
<1> USE DEF QueueTypes, WebhookTypeOK
<1>1. ASSUME NEW from, NEW to \in {"award", "commit", "mark", "error", "complete",
                                   "throw"},
             Step(w, from, to), from = "check" \/ to # "award"
      PROVE  Ahead(e)' \subseteq Ahead(e)
  <2>1. worker[w] \in Run /\ worker[w] # IdleWorker
    BY <1>1, RunType DEF Step
  <2>2. /\ worker' = [worker EXCEPT ![w] = [worker[w] EXCEPT !.pc = to]]
        /\ [worker[w] EXCEPT !.pc = to].event = worker[w].event
        /\ [worker[w] EXCEPT !.pc = to].pc = to
        /\ worker[w].pc = from
    BY <1>1, <2>1 DEF Step, Run
  <2> QED BY <1>1, <2>1, <2>2 DEF Ahead
<1>2. CASE AwardPoints(w)
  <2>1. /\ worker[w] \in Run /\ worker[w] # IdleWorker
        /\ worker[w].event \in Events /\ worker[w].pc = "award"
    BY <1>2, RunType DEF AwardPoints, Step
  <2>2. /\ worker' = [worker EXCEPT ![w] = [worker[w] EXCEPT !.pc = "commit"]]
        /\ [worker[w] EXCEPT !.pc = "commit"].event = worker[w].event
        /\ [worker[w] EXCEPT !.pc = "commit"].pc = "commit"
    BY <1>2, <2>1 DEF AwardPoints, Step, Run
  <2>3. Ahead(e)' \subseteq Ahead(e)
    BY <1>1, <1>2 DEF AwardPoints
  <2>4. worker[w].event = e =>
           /\ awarded'[e] = awarded[e] + 1 /\ Ahead(e)' = Ahead(e) \ {w}
           /\ w \in Ahead(e) /\ job' = job
    BY <1>2, <2>1, <2>2 DEF AwardPoints, Ahead
  <2>5. worker[w].event # e => awarded'[e] = awarded[e]
    BY <1>2 DEF AwardPoints
  <2> QED BY <2>3, <2>4, <2>5
<1>3. CASE CheckRecord(w)
  BY <1>1, <1>3 DEF CheckRecord
<1>4. CASE CommitHandler(w)
  BY <1>1, <1>4 DEF CommitHandler
<1>5. CASE HandlerThrows(w)
  BY <1>1, <1>5 DEF HandlerThrows
<1>6. CASE MarkProcessed(w)
  BY <1>1, <1>6 DEF MarkProcessed
<1>7. CASE MarkFailed(w)
  BY <1>1, <1>7 DEF MarkFailed
<1>8. CASE CompleteJob(w) \/ FailJob(w) \/ WorkerDies(w)
  BY <1>8 DEF CompleteJob, FailJob, EndJob, WorkerDies, Ahead
<1> QED BY <1>2, <1>3, <1>4, <1>5, <1>6, <1>7, <1>8 DEF Processing

\* Ending a job, or an attempt of it, leaves it as many takes at most.
LEMMA EndingLeavesLess ==
    ASSUME QueueTypes, NEW e \in Events, NEW w \in Workers,
           Processing(w) \/ WorkerDies(w)
    PROVE  Left(job'[e]) <= Left(job[e])
<1> USE DEF QueueTypes, WebhookTypeOK
<1>1. Left(job[e]) \in Nat
  BY LeftType
<1>2. CASE UNCHANGED job
  BY <1>1, <1>2
<1>3. CASE CompleteJob(w)
  <2>1. worker[w].event \in Events /\ job[worker[w].event] \in Job
    BY <1>3, RunType DEF CompleteJob
  <2> DEFINE f == worker[w].event
             j == [job[f] EXCEPT !.state = "completed", !.owner = NoWorker]
  <2>2. job' = job \/ job' = [job EXCEPT ![f] = j]
    BY <1>3 DEF CompleteJob, EndJob
  <2>3. Left(j) = 0
    <3>1. j.state = "completed"
      BY <2>1 DEF Job
    <3> QED BY <3>1 DEF Left
  <2> HIDE DEF j
  <2> QED BY <1>1, <2>1, <2>2, <2>3
<1>4. CASE FailJob(w) /\ ~Owns(w, worker[w].event)
  BY <1>2, <1>4 DEF FailJob, EndJob
<1>5. CASE FailJob(w) /\ Owns(w, worker[w].event)
  <2> DEFINE f == worker[w].event
             n == job[f].attempts + 1
             st == RetryOrFail(n)
             j == [job[f] EXCEPT !.attempts = n, !.state = st, !.owner = NoWorker]
  <2>1. f \in Events /\ job[f] \in Job /\ job[f].state = "active"
    BY <1>5, RunType DEF FailJob, Owns
  <2>2. job' = [job EXCEPT ![f] = j]
    BY <1>5 DEF FailJob, EndJob
  <2>3. st \in {"delayed", "failed"}
    BY DEF RetryOrFail
  <2>4. n = job[f].attempts + 1
    OBVIOUS
  <2> HIDE DEF n, st
  <2>5. j.state = st /\ j.attempts = n /\ j.stalls = job[f].stalls
    BY <2>1 DEF Job
  <2> HIDE DEF j
  <2>6. Left(job[f]) = Takes - (job[f].attempts + job[f].stalls + 1)
        /\ Left(job[f]) \in Nat
    BY <2>1, LeftType DEF Left
  <2>7. Left(j) \in {0, Takes - (j.attempts + j.stalls)}
    BY <2>3, <2>5 DEF Left
  <2>8. job[f].attempts \in Nat /\ job[f].stalls \in Nat /\ Takes \in Nat
    BY <2>1, TakesType DEF Job
  <2>9. Left(j) <= Left(job[f])
    BY <2>4, <2>5, <2>6, <2>7, <2>8
  <2> QED BY <1>1, <2>1, <2>2, <2>9
<1> QED BY <1>2, <1>3, <1>4, <1>5
        DEF Processing, CheckRecord, AwardPoints, CommitHandler, HandlerThrows,
            MarkProcessed, MarkFailed, WorkerDies

\* BullMQ gives a take to a worker, and takes one back from a job it takes back.
LEMMA BullMQSteps ==
    ASSUME QueueTypes, NEW e \in Events, NEW f \in Events, IsFiniteSet(Ahead(e)),
           \/ \E w \in Workers : TakeJob(w, f)
           \/ Promote(f) \/ LockExpires(f) \/ ForgetJob(f)
    PROVE  /\ awarded' = awarded
           /\ \/ Ahead(e)' \subseteq Ahead(e) /\ Left(job'[e]) <= Left(job[e])
              \/ /\ \E w \in Workers : Ahead(e)' = Ahead(e) \cup {w}
                 /\ Left(job'[e]) = Left(job[e]) - 1
<1> USE DEF QueueTypes, WebhookTypeOK
<1>1. awarded' = awarded
  BY DEF TakeJob, Promote, LockExpires, ForgetJob
<1>2. /\ job[f] \in Job /\ job[f].attempts \in Nat /\ job[f].stalls \in Nat
      /\ Takes \in Nat /\ Left(job[e]) \in Nat /\ Left(job[f]) \in Nat
  BY TakesType, LeftType, WebhookQueueAssumption DEF Job
<1>3. ASSUME NEW w \in Workers, TakeJob(w, f)
      PROVE  \/ Ahead(e)' \subseteq Ahead(e) /\ Left(job'[e]) <= Left(job[e])
             \/ /\ Ahead(e)' = Ahead(e) \cup {w}
                /\ Left(job'[e]) = Left(job[e]) - 1
  <2> DEFINE j == [job[f] EXCEPT !.state = "active", !.owner = w]
  <2>1. /\ j.state = "active" /\ j.attempts = job[f].attempts
        /\ j.stalls = job[f].stalls
    BY <1>2 DEF Job
  <2>2. job' = [job EXCEPT ![f] = j] /\ job[f].state = "waiting"
    BY <1>3 DEF TakeJob
  <2> HIDE DEF j
  <2>3. Left(j) = Left(job[f]) - 1
    BY <1>2, <2>1, <2>2 DEF Left
  <2>4. /\ [pc |-> "check", event |-> f] # IdleWorker
        /\ worker' = [worker EXCEPT ![w] = [pc |-> "check", event |-> f]]
    BY <1>3 DEF TakeJob, IdleWorker
  <2>5. worker[w] = IdleWorker
    BY <1>3 DEF TakeJob
  <2>6. CASE e = f
    <3>1. Ahead(e)' = Ahead(e) \cup {w}
      BY <2>4, <2>5, <2>6 DEF Ahead
    <3> QED BY <2>2, <2>3, <2>6, <3>1
  <2>7. CASE e # f
    <3>1. Ahead(e)' \subseteq Ahead(e)
      BY <2>4, <2>5, <2>7 DEF Ahead
    <3> QED BY <1>2, <2>2, <2>7, <3>1
  <2> QED BY <2>6, <2>7
<1>4. CASE Promote(f)
  <2> DEFINE j == [job[f] EXCEPT !.state = "waiting"]
  <2>1. /\ j.state = "waiting" /\ j.attempts = job[f].attempts
        /\ j.stalls = job[f].stalls
    BY <1>2 DEF Job
  <2>2. /\ job' = [job EXCEPT ![f] = j] /\ job[f].state = "delayed"
        /\ worker' = worker
    BY <1>4 DEF Promote
  <2> HIDE DEF j
  <2>3. Left(j) = Left(job[f])
    BY <1>2, <2>1, <2>2 DEF Left
  <2>4. Ahead(e)' = Ahead(e)
    BY <2>2 DEF Ahead
  <2>5. e = f => job'[e] = j
    BY <2>2
  <2>6. e # f => job'[e] = job[e]
    BY <2>2
  <2>7. Left(job'[e]) = Left(job[e])
    BY <2>3, <2>5, <2>6
  <2> QED BY <1>1, <1>2, <2>4, <2>7
<1>5. CASE LockExpires(f)
  <2> DEFINE st == IF job[f].stalls < MaxStalled THEN "waiting" ELSE "failed"
             n == job[f].stalls + 1
             j == [job[f] EXCEPT !.state = st, !.stalls = n, !.owner = NoWorker]
  <2>1. n = job[f].stalls + 1 /\ st \in {"waiting", "failed"}
    OBVIOUS
  <2>2. /\ job' = [job EXCEPT ![f] = j] /\ job[f].state = "active"
        /\ worker' = worker
    BY <1>5 DEF LockExpires
  <2> HIDE DEF st, n
  <2>3. j.state = st /\ j.attempts = job[f].attempts /\ j.stalls = n
    BY <1>2 DEF Job
  <2> HIDE DEF j
  <2>4. Left(job[f]) = Takes - (job[f].attempts + job[f].stalls + 1)
    BY <2>2 DEF Left
  <2>5. Left(j) \in {0, Takes - (j.attempts + j.stalls)}
    BY <2>1, <2>3 DEF Left
  <2>6. Left(j) <= Left(job[f])
    BY <1>2, <2>1, <2>3, <2>4, <2>5
  <2>7. Ahead(e)' = Ahead(e)
    BY <2>2 DEF Ahead
  <2>8. e = f => job'[e] = j
    BY <2>2
  <2>9. e # f => job'[e] = job[e]
    BY <2>2
  <2>10. Left(job'[e]) <= Left(job[e])
    <3>1. CASE e = f
      BY <2>6, <2>8, <3>1
    <3>2. CASE e # f
      <4>1. Left(job'[e]) = Left(job[e])
        BY <2>9, <3>2
      <4> QED BY <1>2, <4>1
    <3> QED BY <3>1, <3>2
  <2> QED BY <1>1, <2>7, <2>10
<1>6. CASE ForgetJob(f)
  <2>1. Left(NoJob) = 0
    BY DEF Left, NoJob
  <2> QED BY <1>2, <1>6, <2>1 DEF ForgetJob, Ahead
<1> QED BY <1>1, <1>3, <1>4, <1>5, <1>6

\* So no step that adds no job makes more work.
LEMMA WorkShrinks ==
    ASSUME QueueTypes, QueueTypes', [Next]_vars,
           \A d \in Deliveries : ~AddJob(d),
           NEW e \in Events, IsFiniteSet(Ahead(e))
    PROVE  IsFiniteSet(Ahead(e)') /\ Work(e)' <= Work(e)
<1>1. /\ awarded[e] \in Nat /\ awarded'[e] \in Nat
      /\ Left(job[e]) \in Nat /\ Left(job'[e]) \in Nat
  <2>1. Left(job[e])' \in Nat
    <3>1. QueueTypes => Left(job[e]) \in Nat
      BY LeftType
    <3>2. (QueueTypes => Left(job[e]) \in Nat)'
      BY LeftType, WebhookQueueAssumption DEF QueueTypes, WebhookTypeOK, JobInv,
         Left, Takes, Job, JobState
    <3> QED BY <3>2
  <2> QED BY <2>1, LeftType DEF QueueTypes, WebhookTypeOK
<1>2. Cardinality(Ahead(e)) \in Nat
  BY FS_CardinalityType
<1>3. ASSUME Ahead(e)' \subseteq Ahead(e)
      PROVE  /\ IsFiniteSet(Ahead(e)')
             /\ Cardinality(Ahead(e)') \in Nat
             /\ Cardinality(Ahead(e)') <= Cardinality(Ahead(e))
  BY <1>3, FS_Subset, FS_CardinalityType
<1>4. ASSUME Ahead(e)' \subseteq Ahead(e), awarded'[e] = awarded[e],
             Left(job'[e]) <= Left(job[e])
      PROVE  IsFiniteSet(Ahead(e)') /\ Work(e)' <= Work(e)
  BY <1>1, <1>2, <1>3, <1>4 DEF Work
<1>5. ASSUME NEW w \in Workers, Processing(w) \/ WorkerDies(w)
      PROVE  IsFiniteSet(Ahead(e)') /\ Work(e)' <= Work(e)
  <2>1. Left(job'[e]) <= Left(job[e]) /\ Ahead(e)' \subseteq Ahead(e)
    BY <1>5, WorkerSteps, EndingLeavesLess
  <2>2. CASE awarded'[e] = awarded[e]
    BY <1>4, <2>1, <2>2
  <2>3. CASE awarded'[e] # awarded[e]
    <3>1. /\ awarded'[e] = awarded[e] + 1 /\ Ahead(e)' = Ahead(e) \ {w}
          /\ w \in Ahead(e)
      BY <1>5, <2>3, WorkerSteps
    <3>2. IsFiniteSet(Ahead(e)')
          /\ Cardinality(Ahead(e)') = Cardinality(Ahead(e)) - 1
      BY <3>1, FS_RemoveElement
    <3> QED BY <1>1, <1>2, <2>1, <3>1, <3>2 DEF Work
  <2> QED BY <2>2, <2>3
<1>6. ASSUME NEW f \in Events,
             \/ \E w \in Workers : TakeJob(w, f)
             \/ Promote(f) \/ LockExpires(f) \/ ForgetJob(f)
      PROVE  IsFiniteSet(Ahead(e)') /\ Work(e)' <= Work(e)
  <2>1. awarded' = awarded
    BY <1>6, BullMQSteps
  <2>2. CASE Ahead(e)' \subseteq Ahead(e) /\ Left(job'[e]) <= Left(job[e])
    BY <1>4, <2>1, <2>2
  <2>3. ASSUME NEW w \in Workers, Ahead(e)' = Ahead(e) \cup {w},
               Left(job'[e]) = Left(job[e]) - 1
        PROVE  IsFiniteSet(Ahead(e)') /\ Work(e)' <= Work(e)
    <3>1. /\ IsFiniteSet(Ahead(e)')
          /\ Cardinality(Ahead(e)') \in {Cardinality(Ahead(e)),
                                         Cardinality(Ahead(e)) + 1}
      BY <2>3, FS_AddElement
    <3> QED BY <1>1, <1>2, <2>1, <2>3, <3>1 DEF Work
  <2> QED BY <1>6, <2>2, <2>3, BullMQSteps
<1>7. CASE UNCHANGED <<awarded, worker, job>>
  <2>1. Ahead(e)' = Ahead(e)
    BY <1>7 DEF Ahead
  <2> QED BY <1>1, <1>4, <1>7, <2>1
<1> QED BY <1>5, <1>6, <1>7
        DEF Next, vars, Receive, CreateRecord, DeliveryFails, CleanupRecord

\* A delivery that adds a job hands it the takes it stood for.
LEMMA AddingHandsOver ==
    ASSUME QueueTypes, NEW d \in Deliveries, AddJob(d), NEW e \in Events,
           IsFiniteSet(Ahead(e)), IsFiniteSet(Delivering(e))
    PROVE  /\ Ahead(e)' = Ahead(e) /\ sent' = sent /\ awarded' = awarded
           /\ Delivering(e)' = Delivering(e) \ {d}
           /\ \/ Left(job'[e]) = Left(job[e])
              \/ /\ Left(job'[e]) <= Left(job[e]) + Takes
                 /\ d \in Delivering(e)
<1> USE DEF QueueTypes, WebhookTypeOK
<1>1. /\ Ahead(e)' = Ahead(e) /\ sent' = sent /\ awarded' = awarded
      /\ Delivering(e)' = Delivering(e) \ {d}
  BY DEF AddJob, Ahead, Delivering
<1> DEFINE f == delivery[d].event
           j == [job[f] EXCEPT !.state = "waiting"]
<1>2. f \in Events /\ job[f] \in Job /\ d \in Delivering(f)
  BY DeliveryType DEF AddJob, InDelivery, Delivering
<1>3. job' = IF job[f].state = "none" THEN [job EXCEPT ![f] = j] ELSE job
  BY DEF AddJob, Enqueue
<1>4. job[f].state = "none" => Left(job[f]) = 0 /\ Left(j) = Takes
  <2>1. ASSUME job[f].state = "none"
        PROVE  j.attempts = 0 /\ j.stalls = 0 /\ j.state = "waiting"
    BY <1>2, <2>1 DEF JobInv, NoJob
  <2> HIDE DEF j
  <2> QED BY <2>1, TakesType DEF Left
<1> HIDE DEF j
<1>5. CASE e = f /\ job[f].state = "none"
  BY <1>1, <1>2, <1>3, <1>4, <1>5, TakesType
<1>6. CASE ~(e = f /\ job[f].state = "none")
  BY <1>1, <1>2, <1>3, <1>6
<1> QED BY <1>5, <1>6

LEMMA BudgetStep ==
    ASSUME QueueTypes, QueueTypes', BudgetInv, [Next]_vars
    PROVE  BudgetInv'
<1> SUFFICES ASSUME NEW e \in Events
             PROVE  /\ IsFiniteSet(Delivering(e)') /\ IsFiniteSet(Ahead(e)')
                    /\ Fits(awarded'[e], Cardinality(Ahead(e)'), Left(job'[e]),
                            Cardinality(Delivering(e)'), sent'[e])
  BY DEF BudgetInv
<1>1. /\ IsFiniteSet(Delivering(e)) /\ IsFiniteSet(Ahead(e))
      /\ Fits(awarded[e], Cardinality(Ahead(e)), Left(job[e]),
              Cardinality(Delivering(e)), sent[e])
  BY DEF BudgetInv
<1>2. /\ awarded[e] \in Nat /\ awarded'[e] \in Nat /\ Left(job[e]) \in Nat
      /\ sent[e] \in Nat /\ sent'[e] \in Nat
      /\ Cardinality(Ahead(e)) \in Nat /\ Cardinality(Delivering(e)) \in Nat
  BY <1>1, LeftType, FS_CardinalityType, WebhookQueueAssumption
     DEF QueueTypes, WebhookTypeOK
<1>3. Left(job'[e]) \in Nat
  BY WebhookQueueAssumption
     DEF QueueTypes, WebhookTypeOK, JobInv, Left, Takes, Job, JobState
<1>4. CASE \A d \in Deliveries : ~AddJob(d)
  <2>1. IsFiniteSet(Ahead(e)') /\ Work(e)' <= Work(e)
    BY <1>1, <1>4, WorkShrinks
  <2>7. awarded'[e] + Cardinality(Ahead(e)') + Left(job'[e])
           <= awarded[e] + Cardinality(Ahead(e)) + Left(job[e])
    BY <2>1 DEF Work
  <2>2. Cardinality(Ahead(e)') \in Nat
    BY <2>1, FS_CardinalityType
  <2>3. CASE Delivering(e)' \subseteq Delivering(e)
             /\ sent'[e] \in {sent[e], sent[e] + 1}
    <3>1. /\ IsFiniteSet(Delivering(e)')
          /\ Cardinality(Delivering(e)') \in Nat
          /\ Cardinality(Delivering(e)') <= Cardinality(Delivering(e))
      BY <1>1, <2>3, FS_Subset, FS_CardinalityType
    <3>2. sent'[e] >= sent[e]
      BY <1>2, <2>3
    <3> QED BY <1>1, <1>2, <1>3, <2>1, <2>2, <2>7, <3>1, <3>2, SumStays
  <2>4. ASSUME NEW d \in Deliveries, d \notin Delivering(e),
               Delivering(e)' = Delivering(e) \cup {d}, sent'[e] = sent[e] + 1
        PROVE  /\ IsFiniteSet(Delivering(e)')
               /\ Fits(awarded'[e], Cardinality(Ahead(e)'), Left(job'[e]),
                       Cardinality(Delivering(e)'), sent'[e])
    <3>1. /\ IsFiniteSet(Delivering(e)')
          /\ Cardinality(Delivering(e)') = Cardinality(Delivering(e)) + 1
      BY <1>1, <2>4, FS_AddElement
    <3>2. sent'[e] >= sent[e] /\ Cardinality(Delivering(e)') \in Nat
      BY <1>2, <2>4, <3>1
    <3> QED BY <1>1, <1>2, <1>3, <2>1, <2>2, <2>4, <2>7, <3>1, <3>2, SumStays
  <2> QED BY <1>4, <2>1, <2>3, <2>4, DeliveringMoves
<1>5. ASSUME NEW d \in Deliveries, AddJob(d)
      PROVE  /\ IsFiniteSet(Delivering(e)') /\ IsFiniteSet(Ahead(e)')
             /\ Fits(awarded'[e], Cardinality(Ahead(e)'), Left(job'[e]),
                     Cardinality(Delivering(e)'), sent'[e])
  <2>1. /\ Ahead(e)' = Ahead(e) /\ sent' = sent /\ awarded' = awarded
        /\ Delivering(e)' = Delivering(e) \ {d}
        /\ \/ Left(job'[e]) = Left(job[e])
           \/ Left(job'[e]) <= Left(job[e]) + Takes /\ d \in Delivering(e)
    BY <1>1, <1>5, AddingHandsOver
  <2>2. /\ IsFiniteSet(Delivering(e)')
        /\ Cardinality(Delivering(e)') =
              IF d \in Delivering(e) THEN Cardinality(Delivering(e)) - 1
                                     ELSE Cardinality(Delivering(e))
    BY <1>1, <2>1, FS_RemoveElement
  <2>3. Cardinality(Delivering(e)') \in Nat
    BY <2>2, FS_CardinalityType
  <2>4. CASE d \in Delivering(e)
    <3>1. /\ Cardinality(Delivering(e)) > 0
          /\ Cardinality(Delivering(e)') = Cardinality(Delivering(e)) - 1
      BY <1>2, <2>2, <2>3, <2>4
    <3>2. awarded'[e] + Cardinality(Ahead(e)') + Left(job'[e])
             <= awarded[e] + Cardinality(Ahead(e)) + Left(job[e]) + Takes
      BY <1>2, <1>3, <2>1, TakesType
    <3>3. Cardinality(Ahead(e)') \in Nat /\ sent'[e] >= sent[e]
      BY <1>2, <2>1
    <3>4. Fits(awarded'[e], Cardinality(Ahead(e)'), Left(job'[e]),
               Cardinality(Delivering(e)'), sent'[e])
      BY <1>1, <1>2, <1>3, <2>3, <3>1, <3>2, <3>3, TakesType, SumStays
    <3> QED BY <1>1, <2>1, <2>2, <3>4
  <2>5. CASE d \notin Delivering(e)
    BY <1>1, <2>1, <2>2, <2>5
  <2> QED BY <2>4, <2>5
<1> QED BY <1>4, <1>5

LEMMA BudgetInit == Init => BudgetInv
<1> SUFFICES ASSUME Init, NEW e \in Events
             PROVE  /\ IsFiniteSet(Delivering(e)) /\ IsFiniteSet(Ahead(e))
                    /\ Fits(awarded[e], Cardinality(Ahead(e)), Left(job[e]),
                            Cardinality(Delivering(e)), sent[e])
  BY DEF BudgetInv
<1>1. Delivering(e) = {} /\ Ahead(e) = {}
  BY DEF Init, Delivering, Ahead
<1>2. awarded[e] = 0 /\ sent[e] = 0 /\ Left(job[e]) = 0
  BY DEF Init, Left, NoJob
<1>3. Fits(0, 0, 0, 0, 0)
  BY TakesType DEF Fits
<1> QED BY <1>1, <1>2, <1>3, FS_EmptySet

\* However deliveries are doubled, jobs retried and workers lost, an event is
\* worked on at most once for each attempt and stall of one job per delivery.
THEOREM RerunsBounded == Spec => []RerunsAreBounded
<1>1. QueueTypes /\ BudgetInv => RerunsAreBounded
  <2> SUFFICES ASSUME QueueTypes, BudgetInv, NEW e \in Events
               PROVE  awarded[e] <= sent[e] * (Attempts + MaxStalled)
    BY DEF RerunsAreBounded
  <2>1. /\ awarded[e] \in Nat /\ Left(job[e]) \in Nat /\ sent[e] \in Nat
        /\ Cardinality(Ahead(e)) \in Nat /\ Cardinality(Delivering(e)) \in Nat
    BY LeftType, FS_CardinalityType, WebhookQueueAssumption
       DEF BudgetInv, QueueTypes, WebhookTypeOK
  <2>2. Cardinality(Delivering(e)) * Takes \in Nat /\ sent[e] * Takes \in Nat
    BY <2>1, TakesType, Distributes
  <2>3. awarded[e] <= sent[e] * Takes
    BY <2>1, <2>2 DEF BudgetInv, Fits
  <2> QED BY <2>3 DEF Takes
<1> QED BY <1>1, BudgetInit, BudgetStep, QueueTypesInit, QueueTypesStep, PTL
        DEF Spec
=============================================================================
