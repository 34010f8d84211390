----------------------------- MODULE NativeInbox -----------------------------
(***************************************************************************)
(* The Native Launch Inbox: the queue that keeps what the operating system *)
(* asks of the application until its Main Window is ready                  *)
(* (src-tauri/src/native_launch_inbox.rs), and the controller that works   *)
(* the events off there (src/app/controllers/nativeInboundController.ts).  *)
(*                                                                         *)
(* An operation that may deliver takes the lock twice, once for itself and *)
(* once in deliver_pending to collect what is to be emitted, and emits     *)
(* without it; operations of other threads come in between.                *)
(*                                                                         *)
(* Events are numbered in the order in which they are taken in. The queue  *)
(* only ever grows at its end, so it is in the order of these numbers, and *)
(* so is what is collected from it.                                        *)
(***************************************************************************)
EXTENDS Integers, Sequences, FiniteSets, Functions

CONSTANTS
  Thread,       \* threads that ingest; "main" also runs setup and commands
  Event,        \* event ids
  Key,          \* the idempotency key of each event, itself if it has none
  QueueLimit,   \* DEFAULT_QUEUE_LIMIT
  MaxAttempts,  \* MAX_DELIVERY_ATTEMPTS
  MaxThrows     \* bound: handlers that fail

ASSUME ThreadAssumption == "main" \in Thread /\ IsFiniteSet(Thread)
ASSUME LimitAssumption ==
  QueueLimit \in Nat \ {0} /\ MaxAttempts \in Nat \ {0} /\ MaxThrows \in Nat

\* Two threads ingest, and an event is attempted three times.
ASSUME AttemptsAssumption == Cardinality(Thread) <= MaxAttempts

VARIABLES
  log,       \* events taken in so far (seen_ids), in order
  queue,     \* window and delivery attempts of the queued ones, by number
  attached,  \* emitter
  ready,     \* ready_windows holds the Main Window
  shutdown,
  task,      \* what each thread is doing, and the numbers it has still to emit
  listening, \* the page has its listener
  chain,     \* deliveryChain: emitted events the page has not worked off
  phase,     \* what the callback at its head awaits
  completed, \* completedEventIds
  begun,     \* events whose handler was called
  effects,   \* completed handlers of each event
  failed     \* events whose handler failed, once for each time

stateVars == <<queue, log, attached, ready, shutdown>>
pageVars  == <<listening, chain, phase, completed, begun, effects, failed>>
inboxVars == <<stateVars, task, pageVars>>

Idle(t) == task[t].pc = "idle"

\* The operation of thread t goes on with deliver_pending.
ThenDeliver(t) == task' = [task EXCEPT ![t].pc = "deliver"]

----------------------------------------------------------------------------
(* The inbox *)

\* An event id or an idempotency key that was seen before.
Duplicate(e) == \E i \in DOMAIN log : log[i] = e \/ Key[log[i]] = Key[e]

\* The event becomes the last of the queue, for no window as yet.
Enqueue(e) ==
  /\ log' = Append(log, e)
  /\ queue' = [n \in DOMAIN queue \cup {Len(log) + 1} |->
                IF n \in DOMAIN queue THEN queue[n]
                                      ELSE [assigned |-> FALSE, attempts |-> 0]]

\* Mutant of Ingest: off by one.
IngestOverfull(t, e) ==
  /\ Idle(t) /\ ~shutdown
  /\ ~Duplicate(e)
  /\ Cardinality(DOMAIN queue) <= QueueLimit
  /\ Enqueue(e)
  /\ ThenDeliver(t)
  /\ UNCHANGED <<attached, ready, shutdown, pageVars>>

\* ingest: a duplicate and an event for which there is no room are refused.
Ingest(t, e) ==
  /\ Idle(t) /\ ~shutdown
  /\ ~Duplicate(e)
  /\ Cardinality(DOMAIN queue) < QueueLimit
  /\ Enqueue(e)
  /\ ThenDeliver(t)
  /\ UNCHANGED <<attached, ready, shutdown, pageVars>>

\* attach_emitter, once the application is set up.
Attach ==
  /\ Idle("main") /\ ~attached /\ ~shutdown
  /\ attached' = TRUE
  /\ ThenDeliver("main")
  /\ UNCHANGED <<queue, log, ready, shutdown, pageVars>>

\* Mutant of FrontendReady: the page declares itself ready before it listens.
FrontendReadyEarly ==
  /\ Idle("main") /\ attached /\ ~ready /\ ~shutdown
  /\ ready' = TRUE
  /\ ThenDeliver("main")
  /\ UNCHANGED <<queue, log, attached, shutdown, pageVars>>

\* frontend_ready, which the page calls when it listens.
FrontendReady ==
  /\ Idle("main") /\ listening /\ ~ready /\ ~shutdown
  /\ ready' = TRUE
  /\ ThenDeliver("main")
  /\ UNCHANGED <<queue, log, attached, shutdown, pageVars>>

\* Mutant of Due: an event is emitted once, not until it is acknowledged.
DueOnce(q) == (q.assigned \/ ready) /\ q.attempts = 0

\* What deliver_pending emits: all that is queued for a window and was not
\* attempted too often.
Due(q) == (q.assigned \/ ready) /\ q.attempts < MaxAttempts

DueNow == {n \in DOMAIN queue : Due(queue[n])}

Collected ==
  [n \in DOMAIN queue |->
     [assigned |-> queue[n].assigned \/ ready,
      attempts |-> queue[n].attempts + (IF Due(queue[n]) THEN 1 ELSE 0)]]

Collect(t) ==
  /\ task[t].pc = "deliver"
  /\ IF shutdown \/ ~attached
     THEN task' = [task EXCEPT ![t].pc = "idle"] /\ UNCHANGED queue
     ELSE /\ task' = [task EXCEPT ![t] = [pc    |-> IF DueNow = {} THEN "idle" ELSE "emit",
                                          batch |-> DueNow]]
          /\ queue' = Collected
  /\ UNCHANGED <<log, attached, ready, shutdown, pageVars>>

\* The emitter, in the order of the queue: what is emitted to a page without a
\* listener is lost.
Emit(t, n) ==
  /\ \A m \in task[t].batch : n <= m
  /\ chain' = IF listening THEN Append(chain, log[n]) ELSE chain
  /\ task' = [task EXCEPT ![t] = [pc    |-> IF task[t].batch = {n} THEN "idle" ELSE "emit",
                                  batch |-> task[t].batch \ {n}]]

EmitNext(t) ==
  /\ task[t].pc = "emit"
  /\ \E n \in task[t].batch : Emit(t, n)
  /\ UNCHANGED <<stateVars, listening, phase, completed, begun, effects, failed>>

Shutdown ==
  /\ Idle("main") /\ ~shutdown
  /\ shutdown' = TRUE
  /\ queue' = <<>> /\ ready' = FALSE /\ attached' = FALSE
  /\ UNCHANGED <<log, task, pageVars>>

----------------------------------------------------------------------------
(* The page *)

Listen ==
  /\ ~listening /\ listening' = TRUE
  /\ UNCHANGED <<stateVars, task, chain, phase, completed, begun, effects, failed>>

\* Mutant of Process: what was completed is handled again.
ProcessAgain ==
  /\ phase = "idle" /\ chain # <<>>
  /\ phase' = "handling"
  /\ begun' = begun \cup {Head(chain)}
  /\ UNCHANGED <<stateVars, task, listening, chain, completed, effects, failed>>

\* The next event of the chain: a replay of a completed one is only
\* acknowledged, another one is handled.
Process ==
  /\ phase = "idle" /\ chain # <<>>
  /\ IF Head(chain) \in completed
     THEN phase' = "acking" /\ UNCHANGED begun
     ELSE phase' = "handling" /\ begun' = begun \cup {Head(chain)}
  /\ UNCHANGED <<stateVars, task, listening, chain, completed, effects, failed>>

Handled ==
  /\ phase = "handling" /\ phase' = "acking"
  /\ completed' = completed \cup {Head(chain)}
  /\ effects' = [effects EXCEPT ![Head(chain)] = @ + 1]
  /\ UNCHANGED <<stateVars, task, listening, chain, begun, failed>>

\* The handler throws: the event stays with the inbox.
NotHandled ==
  /\ phase = "handling" /\ phase' = "idle"
  /\ Len(failed) < MaxThrows
  /\ failed' = Append(failed, Head(chain))
  /\ chain' = Tail(chain)
  /\ UNCHANGED <<stateVars, task, listening, completed, begun, effects>>

\* acknowledge: the event leaves the queue. An event that is not there, or not
\* for this window, is an error, which is reported and ends the callback just the
\* same.
Acknowledge ==
  /\ phase = "acking" /\ phase' = "idle"
  /\ queue' = Restrict(queue, {n \in DOMAIN queue :
                                log[n] = Head(chain) => ~queue[n].assigned})
  /\ chain' = Tail(chain)
  /\ UNCHANGED <<log, attached, ready, shutdown, task, listening, completed, begun,
                 effects, failed>>

----------------------------------------------------------------------------
InboxInit ==
  /\ queue = <<>> /\ log = <<>>
  /\ attached = FALSE /\ ready = FALSE /\ shutdown = FALSE
  /\ task = [t \in Thread |-> [pc |-> "idle", batch |-> {}]]
  /\ listening = FALSE
  /\ chain = <<>> /\ phase = "idle" /\ completed = {} /\ begun = {}
  /\ effects = [e \in Event |-> 0] /\ failed = <<>>

InboxNext ==
  \/ \E t \in Thread : (\E e \in Event : Ingest(t, e)) \/ Collect(t) \/ EmitNext(t)
  \/ Attach \/ FrontendReady \/ Shutdown
  \/ Listen \/ Process \/ Handled \/ NotHandled \/ Acknowledge

\* The application is set up, the page loads, threads run on, handlers end and
\* acknowledgements are answered.
InboxFairness ==
  /\ WF_inboxVars(Attach) /\ WF_inboxVars(Listen) /\ WF_inboxVars(FrontendReady)
  /\ \A t \in Thread : WF_inboxVars(Collect(t)) /\ WF_inboxVars(EmitNext(t))
  /\ WF_inboxVars(Process) /\ WF_inboxVars(Handled \/ NotHandled) /\ WF_inboxVars(Acknowledge)

InboxSpec == InboxInit /\ [][InboxNext]_inboxVars /\ InboxFairness

----------------------------------------------------------------------------
(* Properties *)

\* The state is what the inbox and the controller hold; attempts and the queue
\* keep to their limits.
InboxTypeOK ==
  /\ log \in Seq(Event)
  /\ queue \in [DOMAIN queue -> [assigned : BOOLEAN, attempts : 0 .. MaxAttempts]]
  /\ DOMAIN queue \subseteq DOMAIN log
  /\ Cardinality(DOMAIN queue) <= QueueLimit
  /\ {attached, ready, shutdown, listening} \subseteq BOOLEAN
  /\ task \in [Thread -> [pc : {"idle", "deliver", "emit"}, batch : SUBSET DOMAIN log]]
  /\ \A t \in Thread : task[t].pc = "emit" <=> task[t].batch # {}
  /\ chain \in Seq(Event)
  /\ phase \in {"idle", "handling", "acking"}
  /\ phase # "idle" => chain # <<>>
  /\ completed \subseteq Event /\ begun \subseteq Event
  /\ effects \in [Event -> Nat]
  /\ failed \in Seq(Event)

\* At-least-once delivery repeats acknowledgements, never an operation: neither
\* replays of an event nor a second event with its idempotency key complete it
\* twice.
EffectsAtMostOnce ==
  \A e \in Event :
    /\ effects[e] <= 1
    /\ \A f \in Event \ {e} : Key[f] = Key[e] /\ effects[e] > 0 => effects[f] = 0

\* Events are first handled in the order they were taken in, although they are
\* emitted outside the lock by several threads.
FirstHandledInOrder ==
  \A j \in DOMAIN log : log[j] \in begun => \A i \in 1 .. j : log[i] \in begun

\* Nothing that was taken in, however early, is lost unless its handler fails
\* or the application exits first.
EventsAreHandled ==
  \A e \in Event :
    e \in Range(log) ~> (e \in completed \/ e \in Range(failed) \/ shutdown)
==============================================================================
