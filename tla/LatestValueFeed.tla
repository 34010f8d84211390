--------------------------- MODULE LatestValueFeed ---------------------------
(***************************************************************************)
(* How a window follows one retained value, a job's snapshot or the job    *)
(* catalog: forward_latest_values and acknowledge_subscription in          *)
(* src-tauri/src/job_registry.rs, subscribe_job and subscribe_job_catalog  *)
(* in commands.rs, subscribeWithReconnect in src/desktop/jobFeed.ts.       *)
(*                                                                         *)
(* The forwarder is a task of its own. It shares a flow state with the     *)
(* command that takes acknowledgements, under a lock it takes and leaves   *)
(* several times while it handles one acknowledgement or one change; each  *)
(* time is a step. A value is its revision.                                *)
(***************************************************************************)
EXTENDS Integers, Sequences, FiniteSets

CONSTANTS
  MaxRevision,  \* bound: revisions published
  MaxRefusals   \* bound: subscriptions refused for want of capacity

ASSUME BoundAssumption == MaxRevision \in Nat \ {0} /\ MaxRefusals \in Nat

VARIABLES
  published,  \* the value of the watch channel
  gone,       \* the job was dismissed or evicted
  stage,      \* of the page's connection
  held,       \* the registry holds the subscription
  flow,       \* SubscriptionFlowState, 0 for no revision in flight
  forwarder,  \* pc and locals of forward_latest_values
  commands,   \* SubscriptionCommands on their way to the forwarder
  wire,       \* messages of the channel
  acks,       \* ack_subscription calls on their way
  highest,    \* newest revision the page accepted
  refusals

flowVars == <<held, flow, forwarder, commands>>
pageVars == <<stage, wire, acks, highest>>
vars == <<published, gone, flowVars, pageVars, refusals>>

Stop == 0  \* revisions start at 1: an acknowledgement is its revision

NoFlow == [inFlight |-> 0, ackQueued |-> FALSE]
NotForwarding == [pc |-> "done", current |-> 0, inFlight |-> 0, acked |-> 0]

----------------------------------------------------------------------------
(* The registry *)

Publish ==
  /\ published < MaxRevision /\ ~gone
  /\ published' = published + 1
  /\ UNCHANGED <<gone, flowVars, pageVars, refusals>>

\* cancel_job_subscriptions and the removal of the record: the subscription is
\* dropped with a Stop.
RemoveJob ==
  /\ ~gone /\ gone' = TRUE
  /\ held' = FALSE
  /\ commands' = IF held THEN Append(commands, Stop) ELSE commands
  /\ UNCHANGED <<published, flow, forwarder, pageVars, refusals>>

\* register_job_subscription, then the forwarder is spawned.
Subscribe ==
  /\ stage = "asked"
  /\ \/ /\ ~gone
        /\ stage' = "open" /\ held' = TRUE /\ flow' = NoFlow /\ commands' = <<>>
        /\ forwarder' = [NotForwarding EXCEPT !.pc = "start"]
        /\ UNCHANGED refusals
     \/ /\ gone \/ refusals < MaxRefusals
        /\ refusals' = IF gone THEN refusals ELSE refusals + 1
        /\ stage' = "refused"
        /\ UNCHANGED flowVars
  /\ UNCHANGED <<published, gone, wire, acks, highest>>

\* acknowledge_subscription queues an acknowledgement ...
Accepts(r) == flow.inFlight = r /\ ~flow.ackQueued

\* ... refuses it ...
Refuses(r) == ~held \/ (flow.inFlight # 0 /\ r > flow.inFlight)

\* ... or returns without doing anything. A refusal makes the page connect anew.
TakeAck(r) ==
  /\ r \in acks /\ acks' = acks \ {r}
  /\ IF Refuses(r)
     THEN /\ stage' = IF stage = "closed" THEN "closed" ELSE "asked"
          /\ wire' = <<>>
          /\ held' = FALSE
          /\ commands' = IF held THEN Append(commands, Stop) ELSE commands
          /\ UNCHANGED flow
     ELSE IF Accepts(r)
          THEN /\ flow' = [flow EXCEPT !.ackQueued = TRUE]
               /\ commands' = Append(commands, r)
               /\ UNCHANGED <<stage, wire, held>>
          ELSE UNCHANGED <<stage, wire, held, flow, commands>>
  /\ UNCHANGED <<published, gone, forwarder, highest, refusals>>

----------------------------------------------------------------------------
(* forward_latest_values *)

At(pc) == forwarder.pc = pc

\* A message is only ever seen by the page of the present connection.
Send == wire' = IF stage = "open" THEN Append(wire, forwarder.inFlight) ELSE wire

\* Mutant of Start: the value the channel held when it was made is put in flight.
StartUnread ==
  /\ At("start")
  /\ forwarder' = [forwarder EXCEPT !.pc = "send"]
  /\ flow' = NoFlow
  /\ UNCHANGED <<published, gone, held, commands, pageVars, refusals>>

\* The first value, whatever it is by now, is put in flight.
Start ==
  /\ At("start")
  /\ forwarder' = [forwarder EXCEPT !.pc = "send", !.current = published,
                                    !.inFlight = published]
  /\ flow' = [inFlight |-> published, ackQueued |-> FALSE]
  /\ UNCHANGED <<published, gone, held, commands, pageVars, refusals>>

SendValue ==
  /\ At("send")
  /\ Send
  /\ forwarder' = [forwarder EXCEPT !.pc = "wait"]
  /\ UNCHANGED <<published, gone, held, flow, commands, stage, acks, highest, refusals>>

\* A command is taken: an acknowledgement of what is in flight frees the queue
\* for the next one, any other acknowledgement is dropped.
TakeCommand ==
  /\ At("wait") /\ commands # <<>>
  /\ commands' = Tail(commands)
  /\ IF Head(commands) = Stop
     THEN forwarder' = NotForwarding /\ UNCHANGED flow
     ELSE IF Head(commands) = forwarder.inFlight
          THEN /\ flow' = [flow EXCEPT !.ackQueued = FALSE]
               /\ forwarder' = [forwarder EXCEPT !.pc = "acked", !.acked = Head(commands)]
          ELSE UNCHANGED <<flow, forwarder>>
  /\ UNCHANGED <<published, gone, held, pageVars, refusals>>

\* Mutant of AfterAck: the newest value is sent before it is put in flight.
AfterAckSendFirst ==
  /\ At("acked")
  /\ IF forwarder.current > forwarder.acked
     THEN /\ forwarder' = [forwarder EXCEPT !.pc = "free", !.inFlight = forwarder.current]
          /\ wire' = IF stage = "open" THEN Append(wire, forwarder.current) ELSE wire
          /\ UNCHANGED flow
     ELSE /\ forwarder' = [forwarder EXCEPT !.pc = "wait"]
          /\ flow' = [flow EXCEPT !.inFlight = 0]
          /\ UNCHANGED wire
  /\ UNCHANGED <<published, gone, held, commands, stage, acks, highest, refusals>>

\* The newest value seen goes out if it is newer than the acknowledged one.
AfterAck ==
  /\ At("acked")
  /\ IF forwarder.current > forwarder.acked
     THEN /\ forwarder' = [forwarder EXCEPT !.pc = "send", !.inFlight = forwarder.current]
          /\ flow' = [flow EXCEPT !.inFlight = forwarder.current]
     ELSE /\ forwarder' = [forwarder EXCEPT !.pc = "wait"]
          /\ flow' = [flow EXCEPT !.inFlight = 0]
  /\ UNCHANGED <<published, gone, held, commands, pageVars, refusals>>

\* Mutant of TakeChange: a change goes out although one is in flight.
TakeChangeEagerly ==
  /\ At("wait") /\ forwarder.current < published
  /\ forwarder' = [forwarder EXCEPT !.current = published, !.pc = "free"]
  /\ UNCHANGED <<published, gone, held, flow, commands, pageVars, refusals>>

\* The value changed: remember it, and send it unless one is in flight.
TakeChange ==
  /\ At("wait") /\ forwarder.current < published
  /\ forwarder' = [forwarder EXCEPT !.current = published,
                                    !.pc = IF flow.inFlight = 0 THEN "free" ELSE "wait"]
  /\ UNCHANGED <<published, gone, held, flow, commands, pageVars, refusals>>

Free ==
  /\ At("free")
  /\ forwarder' = [forwarder EXCEPT !.pc = "send", !.inFlight = forwarder.current]
  /\ flow' = [flow EXCEPT !.inFlight = forwarder.current]
  /\ UNCHANGED <<published, gone, held, commands, pageVars, refusals>>

\* The record is gone and with it the channel.
Closed ==
  /\ At("wait") /\ gone /\ forwarder.current = published
  /\ forwarder' = NotForwarding
  /\ UNCHANGED <<published, gone, held, flow, commands, pageVars, refusals>>

----------------------------------------------------------------------------
(* The page *)

\* channel.onmessage: accept what is newer, acknowledge what came.
Receive ==
  /\ wire # <<>>
  /\ wire' = Tail(wire)
  /\ highest' = IF Head(wire) > highest THEN Head(wire) ELSE highest
  /\ acks' = acks \cup {Head(wire)}
  /\ UNCHANGED <<published, gone, flowVars, stage, refusals>>

\* scheduleReconnect: ask again in a while.
Retry ==
  /\ stage = "refused" /\ stage' = "asked"
  /\ UNCHANGED <<published, gone, flowVars, wire, acks, highest, refusals>>

\* The window is destroyed, and cleanup_owner_subscriptions stops its forwarder.
Leave ==
  /\ stage # "closed" /\ stage' = "closed"
  /\ wire' = <<>>
  /\ held' = FALSE
  /\ commands' = IF held THEN Append(commands, Stop) ELSE commands
  /\ UNCHANGED <<published, gone, flow, forwarder, acks, highest, refusals>>

----------------------------------------------------------------------------
Init ==
  /\ published = 1 /\ gone = FALSE
  /\ stage = "asked" /\ held = FALSE
  /\ flow = NoFlow /\ forwarder = NotForwarding /\ commands = <<>>
  /\ wire = <<>> /\ acks = {} /\ highest = 0
  /\ refusals = 0

Forwarding ==
  Start \/ SendValue \/ TakeCommand \/ AfterAck \/ TakeChange \/ Free \/ Closed

\* What goes on between the page and the registry, but for the messages.
Subscription ==
  \/ Subscribe \/ Retry
  \/ \E r \in 1 .. MaxRevision : TakeAck(r)
  \/ Forwarding

Next == Publish \/ RemoveJob \/ Subscription \/ Receive \/ Leave

Spec == Init /\ [][Next]_vars

----------------------------------------------------------------------------
(* Properties *)

\* The state is what the flow, the forwarder and the page hold; commands never
\* outgrow the channel of four.
TypeOK ==
  /\ published \in 1 .. MaxRevision /\ gone \in BOOLEAN
  /\ stage \in {"asked", "refused", "open", "closed"} /\ held \in BOOLEAN
  /\ flow \in [inFlight : 0 .. MaxRevision, ackQueued : BOOLEAN]
  /\ forwarder \in [pc : {"done", "start", "send", "wait", "acked", "free"},
                    current : 0 .. MaxRevision, inFlight : 0 .. MaxRevision,
                    acked : 0 .. MaxRevision]
  /\ commands \in Seq(0 .. MaxRevision) /\ Len(commands) <= 4
  /\ wire \in Seq(1 .. MaxRevision)
  /\ acks \subseteq 1 .. MaxRevision
  /\ highest \in 0 .. MaxRevision
  /\ refusals \in 0 .. MaxRefusals

\* Backpressure: one message about to be sent, under way or on its way back as
\* an acknowledgement, never two, whatever is published meanwhile.
OneInFlight ==
  held => Len(wire) + Cardinality(acks) + Len(commands)
          + (IF forwarder.pc \in {"start", "send", "acked", "free"} THEN 1 ELSE 0) <= 1

\* An acknowledgement is refused only when the subscription is gone: however
\* the forwarder's steps interleave with it, it finds its revision in flight
\* and no other acknowledgement of it queued.
AcksAreTaken == [][\A r \in acks \ acks' : held => Accepts(r)]_vars
=============================================================================
