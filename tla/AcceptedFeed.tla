---------------------------- MODULE AcceptedFeed ----------------------------
(***************************************************************************)
(* How an accepted job reaches its task window: the queue of acceptances   *)
(* in the Job Registry (src-tauri/src/job_registry.rs, commands.rs), the   *)
(* Main Window's replaying subscription to it (src/desktop/jobFeed.ts) and *)
(* the handoff that opens one task window per job                          *)
(* (src/app/controllers/jobHandoffController.ts).                          *)
(*                                                                         *)
(* The page is one thread of callbacks: what runs between two awaits is    *)
(* one step. Its calls, their answers and the messages of a channel come   *)
(* in any order, except that one channel keeps the order of its messages.  *)
(* A job is named by its acceptance revision.                              *)
(***************************************************************************)
EXTENDS Integers, Sequences, SequencesExt, FiniteSets

CONSTANTS
  MaxJobs,      \* bound: jobs accepted
  MaxFailures   \* bound: presentations and subscriptions that fail

ASSUME BoundAssumption == MaxJobs \in Nat /\ MaxFailures \in Nat

Job == 1 .. MaxJobs

VARIABLES
  \* the registry
  acceptance,      \* next_acceptance_revision
  accepted,        \* accepted_jobs: accepted and not acknowledged
  live,            \* accepted-job subscriptions the registry holds
  \* the connection of the current generation
  stage,           \* how far connect() has come
  from,            \* last revision its subscription was asked to start after
  sent,            \* last_sent of its stream
  channel,         \* messages on their way to onmessage
  stray,           \* a reconnect overtook the initial connect(), whose
                   \* subscription is open but not known to the page
  \* the subscription object
  reconnecting, timer, lastDelivered, lastAcknowledged,
  chain,           \* deliveryChain: accepted messages not settled yet
  phase,           \* what the callback at the head of the chain awaits
  \* the handoff controller
  delivered,       \* deliveredJobs
  presenting,      \* presentations
  answered,        \* jobs whose start command has been answered
  opened,          \* task windows opened for each job
  \* history: jobs that failed behind the replay that was to bring them back
  overlooked,
  \* bound
  failures

registryVars == <<acceptance, accepted>>
streamVars   == <<stage, from, sent, channel, stray, live>>
cursorVars   == <<reconnecting, timer, lastDelivered, lastAcknowledged>>
chainVars    == <<chain, phase, overlooked>>
handoffVars  == <<delivered, presenting, answered, opened>>
vars == <<registryVars, streamVars, cursorVars, chainVars, handoffVars, failures>>

Fails == failures < MaxFailures /\ failures' = failures + 1

----------------------------------------------------------------------------
(* The registry *)

\* try_accept_job adds the job to the queue.
AcceptJob ==
  /\ acceptance < MaxJobs
  /\ acceptance' = acceptance + 1
  /\ accepted' = Append(accepted, acceptance + 1)
  /\ UNCHANGED <<streamVars, cursorVars, chainVars, handoffVars, failures>>

\* subscribe_accepted_jobs: the subscription starts after the revision asked
\* for, or is refused (subscription_capacity).
Subscribe ==
  /\ stage = "asked"
  /\ \/ stage' = "open" /\ live' = live + 1 /\ sent' = from /\ UNCHANGED failures
     \/ stage' = "refused" /\ Fails /\ UNCHANGED <<live, sent>>
  /\ UNCHANGED <<registryVars, from, channel, stray, cursorVars, chainVars, handoffVars>>

\* What is queued, in the order of acceptance, after what was sent.
Unsent ==
  LET n == Cardinality({i \in DOMAIN accepted : accepted[i] <= sent})
  IN  SubSeq(accepted, n + 1, Len(accepted))

\* The stream task sends what is queued and was not sent yet.
Forward ==
  /\ stage \in {"open", "up"}
  /\ Unsent # <<>>
  /\ channel' = channel \o Unsent
  /\ sent' = Last(Unsent)
  /\ UNCHANGED <<registryVars, stage, from, stray, live, cursorVars, chainVars,
                 handoffVars, failures>>

\* acknowledge_accepted_job: everything up to the acknowledged entry leaves the
\* queue, or accepted_job_not_found.
AcknowledgeAccepted ==
  /\ phase = "acking"
  /\ \/ \E n \in DOMAIN accepted :
          /\ accepted[n] = Head(chain)
          /\ accepted' = SubSeq(accepted, n + 1, Len(accepted))
          /\ phase' = "acked"
     \/ /\ ~Contains(accepted, Head(chain))
        /\ phase' = "unknown"
        /\ UNCHANGED accepted
  /\ UNCHANGED <<acceptance, streamVars, cursorVars, chain, overlooked, handoffVars, failures>>

----------------------------------------------------------------------------
(* The connection *)

\* reconnect(): leave the connection at once; its messages are ignored from
\* here on. A known subscription is given up first, else connect() at once. A
\* connect() still under way finds out when it is answered.
Reconnect ==
  IF reconnecting THEN UNCHANGED <<streamVars, reconnecting>>
  ELSE /\ reconnecting' = TRUE
       /\ channel' = <<>>
       /\ stage' = IF stage = "up" THEN "leaving" ELSE "asked"
       /\ from' = IF stage = "up" THEN from ELSE lastAcknowledged
       /\ stray' = (stray \/ stage = "open")
       /\ UNCHANGED <<sent, live>>

\* unsubscribe_job of the former subscription is answered; connect() asks for a
\* new one after the last acknowledged revision.
Leave ==
  /\ stage = "leaving"
  /\ live' = live - 1
  /\ stage' = "asked"
  /\ from' = lastAcknowledged
  /\ UNCHANGED <<registryVars, sent, channel, stray, cursorVars, chainVars,
                 handoffVars, failures>>

\* connect() is answered: it is up, or it is tried again in a while.
Connected ==
  /\ \/ stage = "open"    /\ stage' = "up"   /\ UNCHANGED timer
     \/ stage = "refused" /\ stage' = "down" /\ timer' = TRUE
  /\ reconnecting' = FALSE
  /\ UNCHANGED <<registryVars, from, sent, channel, stray, live, lastDelivered,
                 lastAcknowledged, chainVars, handoffVars, failures>>

\* Mutant of StrayConnected: nobody gives the subscription up.
StrayForgotten ==
  /\ stray /\ stray' = FALSE
  /\ UNCHANGED <<registryVars, stage, from, sent, channel, live, cursorVars,
                 chainVars, handoffVars, failures>>

\* The overtaken connect() is answered: it gives its subscription up.
StrayConnected ==
  /\ stray /\ stray' = FALSE
  /\ live' = live - 1
  /\ UNCHANGED <<registryVars, stage, from, sent, channel, cursorVars, chainVars,
                 handoffVars, failures>>

RetryTimer ==
  /\ timer /\ timer' = FALSE
  /\ Reconnect
  /\ UNCHANGED <<registryVars, lastDelivered, lastAcknowledged, chainVars,
                 handoffVars, failures>>

\* channel.onmessage of the current generation.
Receive ==
  /\ channel # <<>>
  /\ channel' = Tail(channel)
  /\ IF Head(channel) > lastDelivered
     THEN lastDelivered' = Head(channel) /\ chain' = Append(chain, Head(channel))
     ELSE UNCHANGED <<lastDelivered, chain>>
  /\ UNCHANGED <<registryVars, stage, from, sent, stray, live, reconnecting, timer,
                 lastAcknowledged, phase, overlooked, handoffVars, failures>>

----------------------------------------------------------------------------
(* Delivery *)

\* A failure joins the reconnect under way, and the stream of that reconnect,
\* whose subscription is not answered yet, sent the job already.
BehindReplay ==
  /\ reconnecting /\ stage = "open"
  /\ Head(chain) <= sent /\ ~Contains(channel, Head(chain))

Overlook == overlooked' = IF BehindReplay THEN overlooked \cup {Head(chain)} ELSE overlooked

\* Mutant of DeliveryFails: the revision to take next is not reset.
DeliveryFailsForGood ==
  /\ chain' = Tail(chain) /\ phase' = "idle"
  /\ Reconnect /\ Overlook
  /\ UNCHANGED <<timer, lastDelivered, lastAcknowledged>>

\* What the head of the chain awaits fails: the next revision to take is the
\* one after the last acknowledged, and the feed connects anew.
DeliveryFails ==
  /\ chain' = Tail(chain) /\ phase' = "idle"
  /\ lastDelivered' = lastAcknowledged
  /\ Reconnect /\ Overlook
  /\ UNCHANGED <<timer, lastAcknowledged>>

\* handoffAcceptedJob of a job that is not delivered: open its window, or wait
\* for whoever is opening it.
Present(r) == presenting' = presenting \cup {r} /\ UNCHANGED <<delivered, opened>>

\* Mutant of Deliver: jobs that were presented already are not remembered.
DeliverAgain ==
  /\ phase = "idle" /\ chain # <<>>
  /\ Present(Head(chain)) /\ phase' = "presenting"
  /\ UNCHANGED <<registryVars, streamVars, cursorVars, chain, overlooked, answered, failures>>

\* The next callback of the chain hands its job off.
Deliver ==
  /\ phase = "idle" /\ chain # <<>>
  /\ IF Head(chain) \in delivered
     THEN phase' = "acking" /\ UNCHANGED <<delivered, presenting, opened>>
     ELSE phase' = "presenting" /\ Present(Head(chain))
  /\ UNCHANGED <<registryVars, streamVars, cursorVars, chain, overlooked, answered, failures>>

\* The start command is answered, and the page hands the job off by itself.
HandOffAnswer(r) ==
  /\ r \in 1 .. acceptance /\ r \notin answered
  /\ answered' = answered \cup {r}
  /\ IF r \in delivered THEN UNCHANGED <<delivered, presenting, opened>> ELSE Present(r)
  /\ UNCHANGED <<registryVars, streamVars, cursorVars, chainVars, failures>>

Awaited(r) == phase = "presenting" /\ Head(chain) = r

\* presentTaskWindow succeeds for everyone who waits for it ...
Presented(r) ==
  /\ r \in presenting
  /\ presenting' = presenting \ {r}
  /\ delivered' = delivered \cup {r}
  /\ opened' = [opened EXCEPT ![r] = @ + 1]
  /\ phase' = IF Awaited(r) THEN "acking" ELSE phase
  /\ UNCHANGED <<registryVars, streamVars, cursorVars, chain, overlooked, answered, failures>>

\* ... or fails for everyone.
NotPresented(r) ==
  /\ r \in presenting /\ Fails
  /\ presenting' = presenting \ {r}
  /\ IF Awaited(r) THEN DeliveryFails
                   ELSE UNCHANGED <<streamVars, cursorVars, chainVars>>
  /\ UNCHANGED <<registryVars, delivered, answered, opened>>

\* The answer to the acknowledgement.
Acknowledged ==
  /\ \/ /\ phase = "acked"
        /\ lastAcknowledged' = Head(chain)
        /\ chain' = Tail(chain) /\ phase' = "idle"
        /\ UNCHANGED <<streamVars, reconnecting, timer, lastDelivered, overlooked>>
     \/ phase = "unknown" /\ DeliveryFails
  /\ UNCHANGED <<registryVars, handoffVars, failures>>

----------------------------------------------------------------------------
Init ==
  /\ acceptance = 0 /\ accepted = <<>> /\ live = 0
  /\ stage = "asked" /\ from = 0 /\ sent = 0 /\ channel = <<>> /\ stray = FALSE
  /\ reconnecting = FALSE /\ timer = FALSE
  /\ lastDelivered = 0 /\ lastAcknowledged = 0
  /\ chain = <<>> /\ phase = "idle"
  /\ delivered = {} /\ presenting = {} /\ answered = {}
  /\ opened = [r \in Job |-> 0]
  /\ overlooked = {}
  /\ failures = 0

\* What the registry, the runtime and the page do of themselves.
Progress ==
  \/ Subscribe \/ Forward \/ AcknowledgeAccepted
  \/ Leave \/ Connected \/ StrayConnected \/ RetryTimer \/ Receive
  \/ Deliver \/ Acknowledged
  \/ \E r \in Job : Presented(r) \/ NotPresented(r)

Next == Progress \/ AcceptJob \/ (\E r \in Job : HandOffAnswer(r))

\* Every call is answered, every message and timer comes, every presentation
\* ends; which of them comes first is open.
Fairness ==
  /\ WF_vars(Subscribe) /\ WF_vars(Forward) /\ WF_vars(AcknowledgeAccepted)
  /\ WF_vars(Leave) /\ WF_vars(Connected) /\ WF_vars(StrayConnected)
  /\ WF_vars(RetryTimer) /\ WF_vars(Receive) /\ WF_vars(Deliver)
  /\ WF_vars(Acknowledged)
  /\ \A r \in Job : WF_vars(Presented(r) \/ NotPresented(r))

Spec == Init /\ [][Next]_vars /\ Fairness

----------------------------------------------------------------------------
(* Properties *)

\* The state is what the variables of the two programs hold; in particular a
\* callback of the chain is only under way when the chain has one, and at most
\* the initial connect() is ever overtaken.
TypeOK ==
  /\ acceptance \in 0 .. MaxJobs
  /\ accepted \in Seq(Job)
  /\ live \in 0 .. 2
  /\ stage \in {"asked", "open", "refused", "up", "leaving", "down"}
  /\ from \in 0 .. MaxJobs /\ sent \in 0 .. MaxJobs
  /\ channel \in Seq(Job)
  /\ stray \in BOOLEAN
  /\ reconnecting \in BOOLEAN /\ timer \in BOOLEAN
  /\ lastDelivered \in 0 .. MaxJobs /\ lastAcknowledged \in 0 .. MaxJobs
  /\ chain \in Seq(Job)
  /\ phase \in {"idle", "presenting", "acking", "acked", "unknown"}
  /\ phase # "idle" => chain # <<>>
  /\ delivered \subseteq Job /\ presenting \subseteq Job /\ answered \subseteq Job
  /\ opened \in [Job -> Nat]
  /\ overlooked \subseteq Job
  /\ failures \in 0 .. MaxFailures

\* A job gets one task window, however the feed's replays, the answer to its
\* start command and failed attempts interleave.
OneWindowPerJob == \A r \in Job : opened[r] <= 1

\* No subscription is lost to the page: what the registry holds (of a bounded
\* number) is the current connection's, or one that is about to be given up.
SubscriptionsAccountedFor ==
  live = (IF stage \in {"open", "up", "leaving"} THEN 1 ELSE 0)
         + (IF stray THEN 1 ELSE 0)

\* Only a job whose window the page has opened is acknowledged.
AcknowledgedAfterPresentation ==
  [][accepted' # accepted /\ acceptance' = acceptance => Head(chain) \in delivered]_vars

\* An accepted job does not stay in the queue, however presentations and
\* subscriptions fail, with one limit: a job whose delivery failed behind the replay
\* of a reconnect that was still under way stays until a later one is accepted and
\* not overlooked in its turn, because that failure starts no other reconnect.
AcceptedJobsLeave ==
  \A r \in Job :
    []<>(Contains(accepted, r) => \A q \in r .. acceptance : q \in overlooked)

\* Whatever left the queue was presented (public-docs/ARCHITECTURE.md: the feed
\* is replayable, acknowledgements are sent only after presentation). A later
\* job's acknowledgement takes an earlier one along whose window failed to
\* open.
NothingLeavesUnpresented ==
  [][\A r \in Job : Contains(accepted, r) /\ ~Contains(accepted', r) => r \in delivered]_vars
=============================================================================
