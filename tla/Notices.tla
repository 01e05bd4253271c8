------------------------------- MODULE Notices -------------------------------
(***************************************************************************)
(* Notifications (notification.service.ts, notification.processor.ts):     *)
(* a request decides by the member's settings whether one is queued, a     *)
(* worker takes the job and starts its listener without waiting for it,    *)
(* and the listener creates the row and publishes it to the gateway.       *)
(*                                                                         *)
(* Three kinds go to every member, whoever they were sent to and whatever  *)
(* the settings say.  A job is complete once its listener has started: a   *)
(* row that cannot be created is not tried again, and a worker that dies   *)
(* before the job is complete leaves it to be run again.                   *)
(***************************************************************************)
EXTENDS FiniteSets, Integers

CONSTANTS
    Users,          \* users
    Single,         \* kinds that settings turn on and off
    Fanned,         \* kinds that go to everyone: SYSTEM, NOTIFY, ALERT
    MaxJobs,        \* bound: jobs are 1..MaxJobs
    MaxDeaths       \* bound: times the worker dies

Kinds == Single \cup Fanned
Jobs == 1..MaxJobs

ASSUME NoticesAssumption ==
    /\ MaxJobs \in Nat /\ Single \cap Fanned = {} /\ MaxDeaths \in Nat
    /\ IsFiniteSet(Users)

VARIABLES
    settings,    \* settings[m]: kinds the member allows
    sending,     \* the sender between the settings and the queue
    job,         \* job[j]: the job of that id
    listeners,   \* listeners[j]: listeners of the job under way
    rows,        \* rows[j]: rows the job's listeners ever created
    lost,        \* lost[j]: listeners of the job that failed
    unread,      \* jobs with a row that is there and unread
    deaths       \* times the worker died

noticeVars == <<settings, sending, job, listeners, rows, lost, unread, deaths>>

(* late: the settings of the member changed after they were asked. *)
NoJob == [pc |-> "none"]
Job == [pc : {"queued", "taken", "completed"}, to : Users, kind : Kinds,
        late : BOOLEAN]
NotSending == [pc |-> "idle"]
Sending == [pc : {"queue"}, to : Users, kind : Single, late : BOOLEAN]

NoticesTypeOK ==
    /\ settings \in [Users -> SUBSET Kinds]
    /\ sending \in Sending \cup {NotSending}
    /\ job \in [Jobs -> Job \cup {NoJob}]
    /\ listeners \in [Jobs -> 0..(MaxDeaths + 1)]
    /\ rows \in [Jobs -> 0..(MaxDeaths + 1)]
    /\ lost \in [Jobs -> 0..(MaxDeaths + 1)]
    /\ unread \subseteq Jobs
    /\ deaths \in 0..MaxDeaths

NoticesInit ==
    /\ settings \in [Users -> {Kinds, {}}]
    /\ sending = NotSending
    /\ job = [j \in Jobs |-> NoJob]
    /\ listeners = [j \in Jobs |-> 0]
    /\ rows = [j \in Jobs |-> 0]
    /\ lost = [j \in Jobs |-> 0]
    /\ unread = {}
    /\ deaths = 0

-----------------------------------------------------------------------------
(* Senders. *)

NewJob(m, k, late) == [pc |-> "queued", to |-> m, kind |-> k, late |-> late]

\* A slip: the settings are parsed, and not looked at.
AllKinds(m, k) == TRUE
isNotificationEnabled(m, k) == k \in settings[m]

createAndQueueNotification(m, k) ==
    /\ sending = NotSending
    /\ isNotificationEnabled(m, k)
    /\ sending' = [pc |-> "queue", to |-> m, kind |-> k, late |-> FALSE]
    /\ UNCHANGED <<settings, job, listeners, rows, lost, unread, deaths>>

Used == Cardinality({j \in Jobs : job[j] # NoJob})

(* The add is not waited for: a Redis that fails loses the job. *)
AddJob ==
    /\ sending # NotSending
    /\ \/ /\ Used < MaxJobs
          /\ job' = [job EXCEPT ![Used + 1] =
                         NewJob(sending.to, sending.kind, sending.late)]
       \/ UNCHANGED job
    /\ sending' = NotSending
    /\ UNCHANGED <<settings, listeners, rows, lost, unread, deaths>>

(* To all members, one job each, or to those of the chunks that were added
   before Redis failed. *)
fanoutNotification(k) ==
    \E S \in SUBSET Users :
      \E f \in [S -> Used + 1 .. Used + Cardinality(S)] :
        /\ Used + Cardinality(S) <= MaxJobs
        /\ \A m, n \in S : m # n => f[m] # f[n]
        /\ job' = [j \in Jobs |->
                     IF \E m \in S : f[m] = j
                     THEN NewJob(CHOOSE m \in S : f[m] = j, k, FALSE)
                     ELSE job[j]]
        /\ UNCHANGED <<settings, sending, listeners, rows, lost, unread,
                       deaths>>

(* Whoever it was sent to. *)
sendNotification(m, k) ==
    IF k \in Fanned THEN fanoutNotification(k)
    ELSE createAndQueueNotification(m, k)

ChangeSettings(m, S) ==
    /\ settings' = [settings EXCEPT ![m] = S]
    /\ job' = [j \in Jobs |-> IF job[j] # NoJob /\ job[j].to = m
                              THEN [job[j] EXCEPT !.late = TRUE] ELSE job[j]]
    /\ sending' = IF sending # NotSending /\ sending.to = m
                  THEN [sending EXCEPT !.late = TRUE] ELSE sending
    /\ UNCHANGED <<listeners, rows, lost, unread, deaths>>

-----------------------------------------------------------------------------
(* The worker. *)

\* A slip: a job of a name the worker does not know is taken for done.
StartsNothing(j) == listeners
Starts(j) == [listeners EXCEPT ![j] = @ + 1]

TakeJob(j) ==
    /\ job[j].pc = "queued"
    /\ job' = [job EXCEPT ![j].pc = "taken"]
    /\ listeners' = Starts(j)
    /\ UNCHANGED <<settings, sending, rows, lost, unread, deaths>>

\* A slip: the job is put back although it was completed.
Requeues(j) == [job EXCEPT ![j].pc = "queued"]
Completes(j) == [job EXCEPT ![j].pc = "completed"]

CompleteJob(j) ==
    /\ job[j].pc = "taken"
    /\ job' = Completes(j)
    /\ UNCHANGED <<settings, sending, listeners, rows, lost, unread, deaths>>

notificationQueueListener(j) ==
    /\ listeners[j] > 0
    /\ listeners' = [listeners EXCEPT ![j] = @ - 1]
    /\ \/ /\ rows' = [rows EXCEPT ![j] = @ + 1]
          /\ unread' = unread \cup {j}
          /\ UNCHANGED lost
       \/ /\ lost' = [lost EXCEPT ![j] = @ + 1]
          /\ UNCHANGED <<rows, unread>>
    /\ UNCHANGED <<settings, sending, job, deaths>>

(* The worker dies with all its listeners; jobs it had taken are stalled,
   and queued again. *)
WorkerDies ==
    /\ \E j \in Jobs : listeners[j] > 0 \/ job[j].pc = "taken"
    /\ listeners' = [j \in Jobs |-> 0]
    /\ lost' = [j \in Jobs |-> lost[j] + listeners[j]]
    /\ job' = [j \in Jobs |-> IF job[j].pc = "taken"
                              THEN [job[j] EXCEPT !.pc = "queued"] ELSE job[j]]
    /\ deaths < MaxDeaths /\ deaths' = deaths + 1
    /\ UNCHANGED <<settings, sending, rows, unread>>

-----------------------------------------------------------------------------
(* The member. *)

markAsRead(j) ==
    /\ j \in unread
    /\ unread' = unread \ {j}
    /\ UNCHANGED <<settings, sending, job, listeners, rows, lost, deaths>>

markAllAsRead(m) ==
    /\ \E j \in unread : job[j].to = m
    /\ unread' = {j \in unread : job[j].to # m}
    /\ UNCHANGED <<settings, sending, job, listeners, rows, lost, deaths>>

clearNotifications(m) ==
    /\ \E j \in Jobs : rows[j] > 0 /\ job[j].to = m
    /\ unread' = {j \in unread : job[j].to # m}
    /\ UNCHANGED <<settings, sending, job, listeners, rows, lost, deaths>>

NoticesNext ==
    \/ \E m \in Users, k \in Kinds : sendNotification(m, k)
    \/ AddJob \/ WorkerDies
    \/ \E m \in Users, S \in {Kinds, {}} : ChangeSettings(m, S)
    \/ \E m \in Users : markAllAsRead(m) \/ clearNotifications(m)
    \/ \E j \in Jobs : \/ TakeJob(j) \/ CompleteJob(j)
                       \/ notificationQueueListener(j) \/ markAsRead(j)

(* The workers run what is queued, and the database answers. *)
NoticesFairness ==
    \A j \in Jobs : /\ WF_noticeVars(TakeJob(j))
                    /\ WF_noticeVars(CompleteJob(j))
                    /\ WF_noticeVars(notificationQueueListener(j))

NoticesSpec == NoticesInit /\ [][NoticesNext]_noticeVars /\ NoticesFairness

-----------------------------------------------------------------------------
(* Properties. *)

(* A notification of a kind its member has turned off is one of the three
   that go to everyone, or its member changed the settings after the sender
   had read them. *)
UnwantedIsLate ==
    \A j \in Jobs :
        job[j] # NoJob /\ job[j].kind \in Single =>
            job[j].late \/ job[j].kind \in settings[job[j].to]

(* A member is notified twice of one job only if a worker died over it. *)
NoticesAreNotRepeated == \A j \in Jobs : rows[j] + listeners[j] <= 1 + deaths

(* A job that was queued ends in a row or in a listener that failed: the
   queue never loses it, whatever the listener does. *)
JobsAreSettled ==
    \A j \in Jobs : job[j].pc = "queued" ~> rows[j] + lost[j] > 0
=============================================================================
