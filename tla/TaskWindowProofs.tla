-------------------------- MODULE TaskWindowProofs --------------------------
(***************************************************************************)
(* Proofs about LatestValueFeed and about TaskWindow, which runs it, for   *)
(* any number of revisions and refusals.  The feed's properties follow     *)
(* from its own specification, which every task behaviour obeys: one       *)
(* revision is in flight, and it is in one place (InFlight, OnePlace).     *)
(* Those of the window rest on what a snapshot can show (Shown).           *)
(***************************************************************************)
EXTENDS TaskWindow, SequenceTheorems, FiniteSetTheorems, TLAPS

\* An acknowledgement of the revision in flight waits for the forwarder.
AckWaits ==
  /\ flow.inFlight # 0
  /\ commands \in {<<flow.inFlight>>, <<flow.inFlight, Stop>>}

\* No revision is ahead of the last one published.
Bounded ==
  /\ flow.inFlight <= published /\ forwarder.current <= published
  /\ highest <= published

\* What is on its way, to the page or back, is the revision in flight, which the
\* forwarder and the flow state agree on.
InFlight ==
  /\ wire \in {<<>>, <<flow.inFlight>>}
  /\ acks \subseteq {flow.inFlight}
  /\ commands \in {<<>>, <<Stop>>} \/ AckWaits
  /\ flow.ackQueued <=> AckWaits
  /\ forwarder.pc # "done" /\ flow.inFlight # 0 => forwarder.inFlight = flow.inFlight
  /\ forwarder.pc = "send" => flow.inFlight # 0
  /\ forwarder.pc = "acked" => forwarder.acked = flow.inFlight /\ flow.inFlight # 0
  /\ forwarder.pc = "free" => flow.inFlight = 0 /\ forwarder.current # 0
  /\ forwarder.pc = "start" => flow = NoFlow

\* It is in one place at a time: with the forwarder, on the wire, in a call of
\* the page or among the commands.
OnePlace ==
  /\ forwarder.pc \in {"start", "send", "acked", "free"} =>
       wire = <<>> /\ acks = {} /\ ~AckWaits
  /\ wire # <<>> => acks = {} /\ ~AckWaits
  /\ acks # {} => ~AckWaits

\* A subscription that is held has its forwarder and its page; a page that asks
\* for one has nothing of the last one left.
Connected ==
  /\ held => /\ stage = "open" /\ ~gone /\ forwarder.pc # "done"
             /\ commands \in {<<>>, <<flow.inFlight>>} /\ commands # <<Stop>>
  /\ stage \in {"asked", "refused"} => wire = <<>> /\ acks = {}

FeedInv == TypeOK /\ Bounded /\ InFlight /\ OnePlace /\ Connected

\* A live window shows a job that has not ended, and nothing that is not published.
Shown ==
  /\ shown <= highest
  /\ Live => ShownStatus \notin TerminalStatus

IInv == FeedInv /\ TaskTypeOK /\ Shown /\ PhaseIsSettled
----------------------------------------------------------------------------
(* The feed *)

FlowSet == [inFlight : 0 .. MaxRevision, ackQueued : BOOLEAN]

ForwarderSet ==
  [pc : {"done", "start", "send", "wait", "acked", "free"},
   current : 0 .. MaxRevision, inFlight : 0 .. MaxRevision, acked : 0 .. MaxRevision]

Typed ==
  /\ published \in 1 .. MaxRevision /\ gone \in BOOLEAN
  /\ stage \in {"asked", "refused", "open", "closed"} /\ held \in BOOLEAN
  /\ flow \in FlowSet /\ forwarder \in ForwarderSet
  /\ commands \in Seq(0 .. MaxRevision) /\ Len(commands) <= 4
  /\ wire \in Seq(1 .. MaxRevision)
  /\ acks \subseteq 1 .. MaxRevision
  /\ highest \in 0 .. MaxRevision
  /\ refusals \in 0 .. MaxRefusals

\* The type invariant of the feed, with the types of the flow and of the
\* forwarder named, before a step and after it.
LEMMA Types == (TypeOK <=> Typed) /\ (TypeOK' <=> Typed')
BY Zenon DEF TypeOK, Typed, FlowSet, ForwarderSet

\* The short queues of the feed are sequences.
LEMMA ShortQueues ==
  ASSUME NEW S, NEW r \in S, NEW q \in S
  PROVE  /\ <<>> \in Seq(S) /\ Len(<<>>) = 0
         /\ <<r>> \in Seq(S) /\ Len(<<r>>) = 1
         /\ <<r, q>> \in Seq(S) /\ Len(<<r, q>>) = 2
         /\ Append(<<>>, r) = <<r>> /\ Append(<<r>>, q) = <<r, q>>
<1>1. <<>> \in Seq(S) /\ Len(<<>>) = 0 /\ Append(<<>>, r) = <<r>>
  OBVIOUS
<1>2. <<r>> \in Seq(S) /\ Len(<<r>>) = 1 /\ <<r>>[1] = r
  OBVIOUS
<1>3. /\ <<r, q>> \in Seq(S) /\ Len(<<r, q>>) = 2
      /\ <<r, q>>[1] = r /\ <<r, q>>[2] = q
  OBVIOUS
<1>4. /\ Append(<<r>>, q) \in Seq(S) /\ Len(Append(<<r>>, q)) = 2
      /\ \A i \in 1 .. 2 : Append(<<r>>, q)[i] = <<r, q>>[i]
  BY <1>2, <1>3, AppendProperties
<1> QED
  BY <1>1, <1>2, <1>3, <1>4, SeqEqual

\* Short queues differ by their lengths and by what they hold.
LEMMA QueuesDiffer ==
  ASSUME NEW a, NEW b, NEW c
  PROVE  /\ <<a>> = <<b>> => a = b
         /\ <<a>> # <<b, c>> /\ <<>> # <<a>> /\ <<>> # <<a, b>>
<1>1. <<a>> = <<b>> => a = b
  OBVIOUS
<1>2. <<a>> # <<b, c>>
  OBVIOUS
<1>3. <<>> # <<a>> /\ <<>> # <<a, b>>
  OBVIOUS
<1> QED
  BY <1>1, <1>2, <1>3

\* Where the commands are one of these, they are well-typed.
LEMMA CommandTypes ==
  ASSUME NEW r \in 0 .. MaxRevision, NEW c, c \in {<<>>, <<Stop>>, <<r>>, <<r, Stop>>}
  PROVE  c \in Seq(0 .. MaxRevision) /\ Len(c) <= 4
<1>1. Stop \in 0 .. MaxRevision
  BY BoundAssumption DEF Stop
<1>2. /\ <<>> \in Seq(0 .. MaxRevision) /\ Len(<<>>) = 0
      /\ <<Stop>> \in Seq(0 .. MaxRevision) /\ Len(<<Stop>>) = 1
      /\ <<r>> \in Seq(0 .. MaxRevision) /\ Len(<<r>>) = 1
      /\ <<r, Stop>> \in Seq(0 .. MaxRevision) /\ Len(<<r, Stop>>) = 2
  BY <1>1, ShortQueues
<1>3. CASE c = <<>>
  BY <1>2, <1>3
<1>4. CASE c = <<Stop>>
  BY <1>2, <1>4
<1>5. CASE c = <<r>>
  BY <1>2, <1>5
<1>6. CASE c = <<r, Stop>>
  BY <1>2, <1>6
<1> QED
  BY <1>3, <1>4, <1>5, <1>6

LEMMA InitFeedInv == Init => FeedInv
<1> SUFFICES ASSUME Init PROVE FeedInv
  OBVIOUS
<1>1. /\ flow = NoFlow /\ flow \in FlowSet /\ flow.inFlight = 0 /\ flow.ackQueued = FALSE
  BY BoundAssumption DEF Init, NoFlow, FlowSet
<1>2. forwarder \in ForwarderSet /\ forwarder.pc = "done" /\ forwarder.current = 0
  BY BoundAssumption DEF Init, NotForwarding, ForwarderSet
<1>3. TypeOK
  <2>1. <<>> \in Seq(0 .. MaxRevision) /\ Len(<<>>) <= 4 /\ <<>> \in Seq(1 .. MaxRevision)
    BY EmptySeq
  <2>2. /\ published \in 1 .. MaxRevision /\ highest \in 0 .. MaxRevision
        /\ refusals \in 0 .. MaxRefusals /\ acks \subseteq 1 .. MaxRevision
    BY BoundAssumption DEF Init
  <2>3. Typed
    BY <1>1, <1>2, <2>1, <2>2 DEF Init, Typed
  <2> QED
    BY <2>3, Types
<1>4. Bounded /\ InFlight /\ OnePlace /\ Connected
  BY <1>1, <1>2 DEF Init, Bounded, InFlight, OnePlace, Connected, AckWaits
<1> QED
  BY <1>3, <1>4 DEF FeedInv

\* A revision is published.
LEMMA PublishKeeps == FeedInv /\ Publish => FeedInv'
<1> SUFFICES ASSUME FeedInv, Publish PROVE FeedInv'
  OBVIOUS
<1>1. published' = published + 1 /\ published' \in 1 .. MaxRevision
  BY BoundAssumption DEF FeedInv, TypeOK, Publish
<1>2. TypeOK'
  BY <1>1, Types DEF FeedInv, Typed, Publish, flowVars, pageVars
<1>3. Bounded'
  <2>1. /\ published \in Int /\ flow.inFlight \in Int /\ forwarder.current \in Int
        /\ highest \in Int
    BY Types DEF FeedInv, Typed, FlowSet, ForwarderSet
  <2> QED
    BY <1>1, <2>1 DEF FeedInv, Bounded, Publish, flowVars, pageVars
<1>4. InFlight' /\ OnePlace' /\ Connected'
  BY DEF FeedInv, InFlight, OnePlace, Connected, AckWaits, Publish, flowVars, pageVars
<1> QED
  BY <1>2, <1>3, <1>4 DEF FeedInv

\* The registry drops a subscription, and stops its forwarder if it holds one.
LEMMA StopQueued ==
  ASSUME FeedInv, commands' = IF held THEN Append(commands, Stop) ELSE commands,
         UNCHANGED flow
  PROVE  /\ commands' \in {<<>>, <<Stop>>} \/ AckWaits'
         /\ AckWaits' <=> AckWaits
         /\ commands' \in Seq(0 .. MaxRevision) /\ Len(commands') <= 4
<1>1. flow.inFlight \in 0 .. MaxRevision
  BY Types DEF FeedInv, Typed, FlowSet
<1>2. CASE ~held
  BY <1>2 DEF FeedInv, InFlight, AckWaits, TypeOK
<1>3. CASE held
  <2>1. CASE commands = <<>>
    <3>1. commands' = <<Stop>>
      BY <1>3, <2>1
    <3>2. ~AckWaits /\ ~AckWaits'
      BY <2>1, <3>1 DEF AckWaits, Stop
    <3> QED
      BY <1>1, <3>1, <3>2, CommandTypes
  <2>2. CASE commands = <<flow.inFlight>> /\ flow.inFlight # 0
    <3>1. commands' = <<flow.inFlight, Stop>>
      BY <1>1, <1>3, <2>2, ShortQueues, BoundAssumption DEF Stop
    <3>2. AckWaits /\ AckWaits'
      BY <2>2, <3>1 DEF AckWaits
    <3> QED
      BY <1>1, <3>1, <3>2, CommandTypes
  <2> QED
    BY <1>3, <2>1, <2>2 DEF FeedInv, Connected, Stop
<1> QED
  BY <1>2, <1>3

LEMMA RemoveJobKeeps == FeedInv /\ RemoveJob => FeedInv'
<1> SUFFICES ASSUME FeedInv, RemoveJob PROVE FeedInv'
  OBVIOUS
<1>1. /\ commands' \in {<<>>, <<Stop>>} \/ AckWaits'
      /\ AckWaits' <=> AckWaits
      /\ commands' \in Seq(0 .. MaxRevision) /\ Len(commands') <= 4
  BY StopQueued DEF RemoveJob
<1>2. TypeOK'
  BY <1>1, Types DEF FeedInv, Typed, RemoveJob, pageVars
<1>3. Bounded' /\ InFlight' /\ OnePlace' /\ Connected'
  BY <1>1 DEF FeedInv, Bounded, InFlight, OnePlace, Connected, RemoveJob, pageVars
<1> QED
  BY <1>2, <1>3 DEF FeedInv

\* A page is destroyed: what was under way to it is not.
LEMMA LeaveKeeps == FeedInv /\ Leave => FeedInv'
<1> SUFFICES ASSUME FeedInv, Leave PROVE FeedInv'
  OBVIOUS
<1>1. /\ commands' \in {<<>>, <<Stop>>} \/ AckWaits'
      /\ AckWaits' <=> AckWaits
      /\ commands' \in Seq(0 .. MaxRevision) /\ Len(commands') <= 4
  BY StopQueued DEF Leave
<1>2. TypeOK'
  <2>1. <<>> \in Seq(1 .. MaxRevision)
    BY EmptySeq
  <2> QED
    BY <1>1, <2>1, Types DEF FeedInv, Typed, Leave
<1>3. Bounded' /\ InFlight' /\ OnePlace' /\ Connected'
  BY <1>1 DEF FeedInv, Bounded, InFlight, OnePlace, Connected, Leave
<1> QED
  BY <1>2, <1>3 DEF FeedInv

\* A page that asks has nothing left of an earlier subscription.
LEMMA SubscribeKeeps == FeedInv /\ Subscribe => FeedInv'
<1> SUFFICES ASSUME FeedInv, Subscribe PROVE FeedInv'
  OBVIOUS
<1>1. wire = <<>> /\ acks = {}
  BY DEF FeedInv, Connected, Subscribe
<1>2. CASE /\ ~gone /\ stage' = "open" /\ held' = TRUE /\ flow' = NoFlow /\ commands' = <<>>
           /\ forwarder' = [NotForwarding EXCEPT !.pc = "start"]
           /\ UNCHANGED refusals
  <2>1. flow' \in FlowSet /\ flow'.inFlight = 0 /\ flow'.ackQueued = FALSE
    BY <1>2, BoundAssumption DEF NoFlow, FlowSet
  <2>2. forwarder' \in ForwarderSet /\ forwarder'.pc = "start" /\ forwarder'.current = 0
    BY <1>2, BoundAssumption DEF NotForwarding, ForwarderSet
  <2>3. TypeOK'
    BY <1>2, <2>1, <2>2, Types DEF FeedInv, Typed, Subscribe
  <2>4. Bounded' /\ InFlight' /\ OnePlace' /\ Connected'
    BY <1>1, <1>2, <2>1, <2>2
    DEF FeedInv, TypeOK, Bounded, InFlight, OnePlace, Connected, AckWaits, Subscribe
  <2> QED
    BY <2>3, <2>4 DEF FeedInv
<1>3. CASE /\ gone \/ refusals < MaxRefusals
           /\ refusals' = IF gone THEN refusals ELSE refusals + 1
           /\ stage' = "refused"
           /\ UNCHANGED flowVars
  <2>1. refusals' \in 0 .. MaxRefusals
    BY <1>3, BoundAssumption DEF FeedInv, TypeOK
  <2>2. TypeOK'
    BY <1>3, <2>1, Types DEF FeedInv, Typed, Subscribe, flowVars
  <2>3. Bounded' /\ InFlight' /\ OnePlace' /\ Connected'
    BY <1>1, <1>3
    DEF FeedInv, Bounded, InFlight, OnePlace, Connected, AckWaits, Subscribe, flowVars
  <2> QED
    BY <2>2, <2>3 DEF FeedInv
<1> QED
  BY <1>2, <1>3 DEF Subscribe

LEMMA RetryKeeps == FeedInv /\ Retry => FeedInv'
<1> SUFFICES ASSUME FeedInv, Retry PROVE FeedInv'
  OBVIOUS
<1>1. TypeOK'
  BY Types DEF FeedInv, Typed, Retry, flowVars
<1>2. Bounded' /\ InFlight' /\ OnePlace' /\ Connected'
  BY DEF FeedInv, Bounded, InFlight, OnePlace, Connected, AckWaits, Retry, flowVars
<1> QED
  BY <1>1, <1>2 DEF FeedInv

\* An acknowledgement is accepted, ignored or refused.
LEMMA TakeAckKeeps ==
  ASSUME FeedInv, NEW r \in 1 .. MaxRevision, TakeAck(r)
  PROVE  FeedInv'
<1>1. /\ acks = {r} /\ flow.inFlight = r /\ acks' = {} /\ wire = <<>> /\ ~AckWaits
      /\ flow.ackQueued = FALSE /\ forwarder.pc \notin {"start", "send", "acked", "free"}
  BY Types DEF FeedInv, InFlight, OnePlace, TakeAck, Typed, FlowSet
<1>2. flow \in FlowSet /\ r \in 0 .. MaxRevision
  BY Types DEF FeedInv, Typed
<1>3. CASE Refuses(r)
  <2>1. /\ commands' \in {<<>>, <<Stop>>} \/ AckWaits'
        /\ AckWaits' <=> AckWaits
        /\ commands' \in Seq(0 .. MaxRevision) /\ Len(commands') <= 4
    BY <1>3, StopQueued DEF TakeAck
  <2>2. /\ stage' \in {"closed", "asked"} /\ wire' = <<>> /\ held' = FALSE
        /\ UNCHANGED <<published, gone, flow, forwarder, highest, refusals>>
    BY <1>3 DEF TakeAck
  <2>3. TypeOK'
    BY <1>1, <2>1, <2>2, Types DEF FeedInv, Typed
  <2>4. Bounded' /\ InFlight' /\ OnePlace' /\ Connected'
    BY <1>1, <2>1, <2>2 DEF FeedInv, Bounded, InFlight, OnePlace, Connected
  <2> QED
    BY <2>3, <2>4 DEF FeedInv
<1>4. CASE ~Refuses(r)
  <2>1. /\ held /\ Accepts(r)
    BY <1>1, <1>4 DEF Refuses, Accepts
  <2>2. /\ flow' = [flow EXCEPT !.ackQueued = TRUE] /\ commands' = Append(commands, r)
        /\ UNCHANGED <<published, gone, stage, wire, held, forwarder, highest, refusals>>
    BY <1>4, <2>1 DEF TakeAck
  <2>3. commands = <<>>
    BY <1>1, <2>1 DEF FeedInv, Connected, AckWaits, Stop
  <2>4. commands' = <<r>>
    BY <2>2, <2>3
  <2>5. flow' \in FlowSet /\ flow'.inFlight = r /\ flow'.ackQueued = TRUE
    BY <1>1, <1>2, <2>2 DEF FlowSet
  <2>6. AckWaits' /\ commands' \in Seq(0 .. MaxRevision) /\ Len(commands') <= 4
    BY <1>2, <2>4, <2>5, CommandTypes DEF AckWaits
  <2>7. TypeOK'
    BY <1>1, <2>2, <2>5, <2>6, Types DEF FeedInv, Typed
  <2>8. Bounded' /\ InFlight'
    BY <1>1, <2>2, <2>4, <2>5, <2>6 DEF FeedInv, Bounded, InFlight, NoFlow
  <2>9. OnePlace' /\ Connected'
    BY <1>1, <2>1, <2>2, <2>4, <2>5 DEF FeedInv, OnePlace, Connected, Stop
  <2> QED
    BY <2>7, <2>8, <2>9 DEF FeedInv
<1> QED
  BY <1>3, <1>4

\* What the forwarder and the flow hold, and that another revision in flight
\* finds no acknowledgement of it waiting.
LEMMA ForwarderBefore ==
  ASSUME FeedInv
  PROVE  /\ flow \in FlowSet /\ forwarder \in ForwarderSet /\ published \in 1 .. MaxRevision
         /\ published \in 0 .. MaxRevision
         /\ flow.inFlight \in 0 .. MaxRevision /\ forwarder.current \in 0 .. MaxRevision
         /\ flow.ackQueued \in BOOLEAN
         /\ forwarder.inFlight \in 0 .. MaxRevision
         /\ ~AckWaits => commands \in {<<>>, <<Stop>>}
         /\ ~AckWaits /\ commands' = commands /\ flow'.inFlight \in Nat => ~AckWaits'
         /\ ~AckWaits /\ held => commands = <<>>
<1>1. /\ flow \in FlowSet /\ forwarder \in ForwarderSet /\ published \in 1 .. MaxRevision
      /\ published \in 0 .. MaxRevision
  BY BoundAssumption, Types DEF FeedInv, Typed
<1>2. /\ flow.inFlight \in 0 .. MaxRevision /\ forwarder.current \in 0 .. MaxRevision
      /\ flow.ackQueued \in BOOLEAN /\ forwarder.inFlight \in 0 .. MaxRevision
  BY <1>1 DEF FlowSet, ForwarderSet
<1>3. ~AckWaits => commands \in {<<>>, <<Stop>>}
  BY DEF FeedInv, InFlight
<1>4. ~AckWaits /\ commands' = commands /\ flow'.inFlight \in Nat => ~AckWaits'
  BY <1>3, QueuesDiffer DEF AckWaits, Stop
<1>5. ~AckWaits /\ held => commands = <<>>
  BY DEF FeedInv, Connected, AckWaits, Stop
<1> QED
  BY <1>1, <1>2, <1>3, <1>4, <1>5

\* The forwarder puts a revision in flight, or nothing, while the commands wait
\* and nothing else is under way.
LEMMA PutsInFlight ==
  ASSUME FeedInv, ~AckWaits, wire = <<>>, acks = {}, forwarder.pc # "done",
         flow' \in FlowSet, flow'.ackQueued = FALSE, flow'.inFlight <= published,
         forwarder' \in ForwarderSet, forwarder'.current <= published,
         \/ /\ forwarder'.pc = "send" /\ flow'.inFlight # 0
            /\ forwarder'.inFlight = flow'.inFlight
         \/ forwarder'.pc = "wait" /\ flow'.inFlight = 0,
         UNCHANGED <<published, gone, held, commands, pageVars, refusals>>
  PROVE  FeedInv'
<1>1. flow'.inFlight \in Nat
  BY BoundAssumption DEF FlowSet
<1>2. /\ ~AckWaits' /\ commands \in {<<>>, <<Stop>>} /\ (held => commands = <<>>)
  BY <1>1, ForwarderBefore
<1>3. TypeOK'
  BY Types DEF FeedInv, Typed, pageVars
<1>4. Bounded' /\ OnePlace'
  BY <1>2 DEF FeedInv, Bounded, OnePlace, pageVars
<1>5. InFlight'
  BY <1>2 DEF FeedInv, InFlight, pageVars
<1>6. Connected'
  BY <1>2 DEF FeedInv, Connected, Stop, pageVars
<1> QED
  BY <1>3, <1>4, <1>5, <1>6 DEF FeedInv

\* The first value, the newest one after an acknowledgement, or a change.
LEMMA InFlightKeeps ==
  ASSUME FeedInv, Start \/ AfterAck \/ Free
  PROVE  FeedInv'
<1>1. /\ ~AckWaits /\ wire = <<>> /\ acks = {} /\ forwarder.pc # "done"
      /\ forwarder.current <= published
  BY DEF FeedInv, OnePlace, Bounded, Start, AfterAck, Free, At
<1>2. published \in Int /\ forwarder.current \in Int /\ 0 \in 0 .. MaxRevision
  BY ForwarderBefore, BoundAssumption
<1>3. CASE Start
  <2>1. /\ flow' \in FlowSet /\ flow'.ackQueued = FALSE /\ flow'.inFlight = published
        /\ published # 0
    BY <1>3, ForwarderBefore DEF Start, FlowSet
  <2>2. /\ forwarder' \in ForwarderSet /\ forwarder'.pc = "send"
        /\ forwarder'.current = published /\ forwarder'.inFlight = published
    BY <1>3, ForwarderBefore DEF Start, ForwarderSet
  <2>3. UNCHANGED <<published, gone, held, commands, pageVars, refusals>>
    BY <1>3 DEF Start
  <2>4. flow'.inFlight <= published /\ forwarder'.current <= published
    BY <1>2, <2>1, <2>2
  <2>5. flow'.inFlight # 0 /\ forwarder'.inFlight = flow'.inFlight
    BY <2>1, <2>2
  <2> QED
    BY <1>1, <2>1, <2>2, <2>3, <2>4, <2>5, PutsInFlight
<1>4. CASE AfterAck
  <2>1. /\ flow.ackQueued = FALSE /\ forwarder.acked \in 0 .. MaxRevision
        /\ UNCHANGED <<published, gone, held, commands, pageVars, refusals>>
    BY <1>1, <1>4, ForwarderBefore DEF FeedInv, InFlight, AfterAck, ForwarderSet
  <2>2. CASE forwarder.current > forwarder.acked
    <3>1. /\ forwarder' = [forwarder EXCEPT !.pc = "send", !.inFlight = forwarder.current]
          /\ flow' = [flow EXCEPT !.inFlight = forwarder.current]
          /\ forwarder.current # 0
      BY <1>4, <2>1, <2>2, <1>2 DEF AfterAck
    <3>2. /\ flow' \in FlowSet /\ flow'.ackQueued = FALSE
          /\ flow'.inFlight = forwarder.current
      BY <2>1, <3>1, ForwarderBefore DEF FlowSet
    <3>3. /\ forwarder' \in ForwarderSet /\ forwarder'.pc = "send"
          /\ forwarder'.current = forwarder.current
          /\ forwarder'.inFlight = forwarder.current
      BY <3>1, ForwarderBefore DEF ForwarderSet
    <3> QED
      BY <1>1, <2>1, <3>1, <3>2, <3>3, PutsInFlight
  <2>3. CASE ~(forwarder.current > forwarder.acked)
    <3>1. /\ forwarder' = [forwarder EXCEPT !.pc = "wait"]
          /\ flow' = [flow EXCEPT !.inFlight = 0]
      BY <1>4, <2>3 DEF AfterAck
    <3>2. flow' \in FlowSet /\ flow'.ackQueued = FALSE /\ flow'.inFlight = 0
      BY <1>2, <2>1, <3>1, ForwarderBefore DEF FlowSet
    <3>3. /\ forwarder' \in ForwarderSet /\ forwarder'.pc = "wait"
          /\ forwarder'.current = forwarder.current
      BY <3>1, ForwarderBefore DEF ForwarderSet
    <3>4. 0 <= published
      BY ForwarderBefore
    <3> QED
      BY <1>1, <2>1, <3>2, <3>3, <3>4, PutsInFlight
  <2> QED
    BY <2>2, <2>3
<1>5. CASE Free
  <2>1. /\ flow.ackQueued = FALSE /\ forwarder.current # 0
        /\ UNCHANGED <<published, gone, held, commands, pageVars, refusals>>
    BY <1>1, <1>5, ForwarderBefore DEF FeedInv, InFlight, Free, At
  <2>2. /\ flow' \in FlowSet /\ flow'.ackQueued = FALSE
        /\ flow'.inFlight = forwarder.current
    BY <1>5, <2>1, ForwarderBefore DEF Free, FlowSet
  <2>3. /\ forwarder' \in ForwarderSet /\ forwarder'.pc = "send"
        /\ forwarder'.current = forwarder.current
        /\ forwarder'.inFlight = forwarder.current
    BY <1>5, ForwarderBefore DEF Free, ForwarderSet
  <2> QED
    BY <1>1, <2>1, <2>2, <2>3, PutsInFlight
<1> QED
  BY <1>3, <1>4, <1>5

\* The value goes on the wire of the page that is there, if it still is.
LEMMA SendValueKeeps == FeedInv /\ SendValue => FeedInv'
<1> SUFFICES ASSUME FeedInv, SendValue PROVE FeedInv'
  OBVIOUS
<1>1. /\ wire = <<>> /\ acks = {} /\ ~AckWaits
      /\ forwarder.inFlight = flow.inFlight /\ flow.inFlight # 0
  BY DEF FeedInv, OnePlace, InFlight, SendValue, At
<1>2. /\ forwarder' \in ForwarderSet /\ forwarder'.pc = "wait"
      /\ forwarder'.current = forwarder.current /\ forwarder'.inFlight = forwarder.inFlight
  BY ForwarderBefore DEF SendValue, ForwarderSet
<1>3. flow.inFlight \in 1 .. MaxRevision
  BY <1>1, ForwarderBefore
<1>4. wire' \in {<<>>, <<flow.inFlight>>} /\ wire' \in Seq(1 .. MaxRevision)
      /\ (stage # "open" => wire' = <<>>)
  BY <1>1, <1>3, ShortQueues DEF SendValue, Send
<1>5. TypeOK'
  BY <1>2, <1>4, Types DEF FeedInv, Typed, SendValue
<1>6. Bounded' /\ Connected'
  BY <1>2, <1>4 DEF FeedInv, Bounded, Connected, SendValue, At
<1>7. InFlight' /\ OnePlace'
  BY <1>1, <1>2, <1>4 DEF FeedInv, InFlight, OnePlace, AckWaits, SendValue
<1> QED
  BY <1>5, <1>6, <1>7 DEF FeedInv

\* A Stop ends the forwarder; an acknowledgement is of what is in flight.
LEMMA TakeCommandKeeps == FeedInv /\ TakeCommand => FeedInv'
<1> SUFFICES ASSUME FeedInv, TakeCommand PROVE FeedInv'
  OBVIOUS
<1> DEFINE r == flow.inFlight
<1>1. r \in 0 .. MaxRevision /\ Stop \in 0 .. MaxRevision
  BY ForwarderBefore, BoundAssumption DEF Stop
<1>2. CASE ~AckWaits
  <2>1. commands = <<Stop>>
    BY <1>2, ForwarderBefore DEF TakeCommand
  <2>2. /\ commands' = <<>> /\ forwarder' = NotForwarding
        /\ UNCHANGED <<published, gone, held, flow, pageVars, refusals>>
    BY <2>1 DEF TakeCommand
  <2>3. /\ forwarder' \in ForwarderSet /\ forwarder'.pc = "done" /\ forwarder'.current = 0
    BY <2>2, BoundAssumption DEF NotForwarding, ForwarderSet
  <2>4. ~held /\ ~AckWaits'
    BY <2>1, <2>2 DEF FeedInv, Connected, AckWaits
  <2>5. TypeOK'
    BY <1>1, <2>2, <2>3, ShortQueues, Types DEF FeedInv, Typed, pageVars
  <2>6. Bounded'
    BY <2>2, <2>3, ForwarderBefore DEF FeedInv, Bounded, pageVars
  <2>7. InFlight' /\ OnePlace' /\ Connected'
    BY <1>2, <2>2, <2>3, <2>4 DEF FeedInv, InFlight, OnePlace, Connected, pageVars
  <2> QED
    BY <2>5, <2>6, <2>7 DEF FeedInv
<1>3. CASE AckWaits
  <2>1. commands \in {<<r>>, <<r, Stop>>} /\ r # Stop
    BY <1>3 DEF AckWaits, Stop
  <2>2. Head(commands) = r /\ commands' \in {<<>>, <<Stop>>} /\ (held => commands' = <<>>)
    <3>1. CASE commands = <<r>>
      BY <3>1 DEF TakeCommand
    <3>2. CASE commands = <<r, Stop>>
      <4>1. Head(commands) = r /\ Tail(commands) = <<Stop>>
        BY <3>2
      <4>2. ~held
        BY <1>1, <3>2, ShortQueues DEF FeedInv, Connected
      <4> QED
        BY <4>1, <4>2 DEF TakeCommand
    <3> QED
      BY <2>1, <3>1, <3>2
  <2>3. forwarder.inFlight = r
    BY <1>3 DEF FeedInv, InFlight, AckWaits, TakeCommand, At
  <2>4. /\ flow' = [flow EXCEPT !.ackQueued = FALSE]
        /\ forwarder' = [forwarder EXCEPT !.pc = "acked", !.acked = r]
        /\ UNCHANGED <<published, gone, held, pageVars, refusals>>
    BY <2>1, <2>2, <2>3 DEF TakeCommand
  <2>5. flow' \in FlowSet /\ flow'.inFlight = r /\ flow'.ackQueued = FALSE
    BY <2>4, ForwarderBefore DEF FlowSet
  <2>6. /\ forwarder' \in ForwarderSet /\ forwarder'.pc = "acked" /\ forwarder'.acked = r
        /\ forwarder'.current = forwarder.current /\ forwarder'.inFlight = forwarder.inFlight
    BY <1>1, <2>4, ForwarderBefore DEF ForwarderSet
  <2>7. /\ commands' \in Seq(0 .. MaxRevision) /\ Len(commands') <= 4
        /\ commands' \in {<<>>, <<Stop>>}
    BY <1>1, <2>2, CommandTypes
  <2>8. ~AckWaits'
    BY <2>1, <2>5, <2>7, QueuesDiffer DEF AckWaits, Stop
  <2>9. TypeOK'
    BY <2>4, <2>5, <2>6, <2>7, Types DEF FeedInv, Typed, pageVars
  <2>10. Bounded'
    BY <2>4, <2>5, <2>6 DEF FeedInv, Bounded, pageVars
  <2>11. InFlight'
    BY <2>1, <2>3, <2>4, <2>5, <2>6, <2>7, <2>8 DEF FeedInv, InFlight, pageVars, Stop
  <2>12. OnePlace' /\ Connected'
    BY <1>3, <2>2, <2>4, <2>6, <2>8 DEF FeedInv, OnePlace, Connected, pageVars, Stop
  <2> QED
    BY <2>9, <2>10, <2>11, <2>12 DEF FeedInv
<1> QED
  BY <1>2, <1>3

\* The forwarder sees a change, and is about to send it if nothing is in flight.
LEMMA TakeChangeKeeps == FeedInv /\ TakeChange => FeedInv'
<1> SUFFICES ASSUME FeedInv, TakeChange PROVE FeedInv'
  OBVIOUS
<1> DEFINE pc == IF flow.inFlight = 0 THEN "free" ELSE "wait"
<1>1. /\ forwarder' \in ForwarderSet /\ forwarder'.pc = pc
      /\ forwarder'.current = published /\ forwarder'.inFlight = forwarder.inFlight
  <2>1. /\ forwarder' = [forwarder EXCEPT !.current = published, !.pc = pc]
        /\ pc \in {"free", "wait"}
    BY DEF TakeChange
  <2> HIDE DEF pc
  <2> QED
    BY <2>1, ForwarderBefore DEF ForwarderSet
<1>2. published # 0 /\ published <= published
  BY ForwarderBefore
<1>3. TypeOK'
  BY <1>1, Types DEF FeedInv, Typed, TakeChange, pageVars
<1>4. Bounded'
  BY <1>1, <1>2 DEF FeedInv, Bounded, TakeChange, pageVars
<1>5. InFlight' /\ Connected'
  BY <1>1, <1>2 DEF FeedInv, InFlight, Connected, AckWaits, TakeChange, At, pageVars
<1>6. OnePlace'
  <2>1. CASE flow.inFlight = 0
    <3>1. wire = <<>> /\ acks = {} /\ ~AckWaits
      <4>1. 0 \notin 1 .. MaxRevision /\ acks \subseteq 1 .. MaxRevision
            /\ wire \in Seq(1 .. MaxRevision)
        BY Types DEF FeedInv, Typed
      <4>2. << 0 >> \notin Seq(1 .. MaxRevision)
        <5> SUFFICES ASSUME << 0 >> \in Seq(1 .. MaxRevision) PROVE FALSE
          OBVIOUS
        <5>1. << 0 >>[1] \in 1 .. MaxRevision
          BY ElementOfSeq
        <5> QED
          BY <4>1, <5>1
      <4> QED
        BY <2>1, <4>1, <4>2 DEF FeedInv, InFlight, AckWaits
    <3> QED
      BY <3>1 DEF OnePlace, AckWaits, TakeChange, pageVars
  <2>2. CASE flow.inFlight # 0
    BY <1>1, <2>2 DEF FeedInv, OnePlace, AckWaits, TakeChange, pageVars
  <2> QED
    BY <2>1, <2>2
<1> QED
  BY <1>3, <1>4, <1>5, <1>6 DEF FeedInv

LEMMA ClosedKeeps == FeedInv /\ Closed => FeedInv'
<1> SUFFICES ASSUME FeedInv, Closed PROVE FeedInv'
  OBVIOUS
<1>1. /\ forwarder' \in ForwarderSet /\ forwarder'.pc = "done" /\ forwarder'.current = 0
  BY BoundAssumption DEF Closed, NotForwarding, ForwarderSet
<1>2. TypeOK'
  BY <1>1, Types DEF FeedInv, Typed, Closed, pageVars
<1>3. Bounded'
  BY <1>1, ForwarderBefore DEF FeedInv, Bounded, Closed, pageVars
<1>4. InFlight' /\ OnePlace' /\ Connected'
  BY <1>1 DEF FeedInv, InFlight, OnePlace, Connected, AckWaits, Closed, pageVars
<1> QED
  BY <1>2, <1>3, <1>4 DEF FeedInv

\* The page takes the message and is to acknowledge it.
LEMMA ReceiveKeeps ==
  ASSUME FeedInv, Receive
  PROVE  FeedInv' /\ Head(wire) = flow.inFlight /\ Head(wire) \in 1 .. MaxRevision
                  /\ Head(wire) <= published
<1>1. /\ wire = <<flow.inFlight>> /\ acks = {} /\ ~AckWaits
      /\ forwarder.pc \notin {"start", "send", "acked", "free"}
  BY DEF FeedInv, InFlight, OnePlace, Receive
<1>2. flow.inFlight \in 1 .. MaxRevision
  <2>1. wire \in Seq(1 .. MaxRevision) /\ wire # <<>>
    BY Types DEF FeedInv, Typed, Receive
  <2>2. Head(wire) \in 1 .. MaxRevision
    BY <2>1, HeadTailProperties
  <2> QED
    BY <1>1, <2>2
<1>3. /\ wire' = <<>> /\ acks' = {flow.inFlight} /\ Head(wire) = flow.inFlight
      /\ highest' = IF flow.inFlight > highest THEN flow.inFlight ELSE highest
      /\ flow.inFlight <= published
  BY <1>1 DEF Receive, FeedInv, Bounded
<1>4. /\ highest' \in 0 .. MaxRevision /\ highest' <= published
      /\ <<>> \in Seq(1 .. MaxRevision)
  BY <1>2, <1>3, EmptySeq, Types DEF FeedInv, Bounded, Typed
<1>5. TypeOK'
  BY <1>2, <1>3, <1>4, Types DEF FeedInv, Typed, Receive, flowVars
<1>6. Bounded' /\ InFlight' /\ OnePlace' /\ Connected'
  <2>1. stage \notin {"asked", "refused"}
    BY DEF FeedInv, Connected, Receive
  <2> QED
    BY <1>1, <1>3, <1>4, <2>1
    DEF FeedInv, Bounded, InFlight, OnePlace, Connected, AckWaits, Receive, flowVars
<1> QED
  BY <1>2, <1>3, <1>5, <1>6 DEF FeedInv

LEMMA FeedStep == FeedInv /\ [Next]_vars => FeedInv'
<1> SUFFICES ASSUME FeedInv, [Next]_vars PROVE FeedInv'
  OBVIOUS
<1>1. CASE Publish \/ RemoveJob \/ Receive \/ Leave
  BY <1>1, PublishKeeps, RemoveJobKeeps, ReceiveKeeps, LeaveKeeps
<1>2. CASE Subscription
  BY <1>2, SubscribeKeeps, RetryKeeps, TakeAckKeeps, InFlightKeeps, SendValueKeeps,
     TakeCommandKeeps, TakeChangeKeeps, ClosedKeeps DEF Subscription, Forwarding
<1>3. CASE UNCHANGED vars
  BY <1>3 DEF vars, flowVars, pageVars, FeedInv, TypeOK, Bounded, InFlight, OnePlace,
              Connected, AckWaits
<1> QED
  BY <1>1, <1>2, <1>3 DEF Next

\* The feed's inductive invariant.
THEOREM FeedInvariant == Spec => []FeedInv
<1>1. Init => FeedInv
  BY InitFeedInv
<1>2. FeedInv /\ [Next]_vars => FeedInv'
  BY FeedStep
<1> QED
  BY <1>1, <1>2, PTL DEF Spec

\* Type correctness of the feed: the channel of four never holds more than two
\* commands, and no revision is invented.
THEOREM FeedTypeCorrect == Spec => []TypeOK
<1>1. FeedInv => TypeOK
  BY DEF FeedInv
<1> QED
  BY <1>1, FeedInvariant, PTL

\* Backpressure, for any number of revisions: while a subscription is held, one
\* message is about to be sent, under way, or on its way back as an
\* acknowledgement, never two.
THEOREM Backpressure == Spec => []OneInFlight
<1>1. FeedInv => OneInFlight
  <2> SUFFICES ASSUME FeedInv, held PROVE
        Len(wire) + Cardinality(acks) + Len(commands)
          + (IF forwarder.pc \in {"start", "send", "acked", "free"} THEN 1 ELSE 0) <= 1
    BY DEF OneInFlight
  <2> DEFINE busy == IF forwarder.pc \in {"start", "send", "acked", "free"} THEN 1 ELSE 0
  <2>1. /\ wire \in {<<>>, <<flow.inFlight>>} /\ acks \subseteq {flow.inFlight}
        /\ commands \in {<<>>, <<flow.inFlight>>} /\ commands # <<Stop>>
    BY DEF FeedInv, InFlight, Connected
  <2>2. commands = <<>> \/ AckWaits
    BY <2>1 DEF FeedInv, InFlight
  <2>3. /\ Len(<<>>) = 0 /\ Len(<<flow.inFlight>>) = 1
        /\ Cardinality({}) = 0 /\ Cardinality({flow.inFlight}) = 1
    BY FS_EmptySet, FS_Singleton
  <2>4. /\ wire = <<>> => Len(wire) = 0
        /\ Len(wire) \in {0, 1}
        /\ acks = {} => Cardinality(acks) = 0
        /\ Cardinality(acks) \in {0, 1}
        /\ commands = <<>> => Len(commands) = 0
        /\ Len(commands) \in {0, 1}
    <3>1. acks = {} \/ acks = {flow.inFlight}
      BY <2>1
    <3> QED
      BY <2>1, <2>3, <3>1
  <2>5. /\ busy \in {0, 1}
        /\ busy = 1 => wire = <<>> /\ acks = {} /\ ~AckWaits
        /\ wire # <<>> => acks = {} /\ ~AckWaits
        /\ acks # {} => ~AckWaits
    BY DEF FeedInv, OnePlace
  <2> HIDE DEF busy
  <2>6. Len(wire) + Cardinality(acks) + Len(commands) + busy <= 1
    <3>1. CASE busy = 1
      BY <2>2, <2>4, <2>5, <3>1
    <3>2. CASE busy = 0 /\ wire # <<>>
      BY <2>2, <2>4, <2>5, <3>2
    <3>3. CASE busy = 0 /\ wire = <<>>
      <4>1. Len(wire) = 0 /\ (Cardinality(acks) = 0 \/ Len(commands) = 0)
        BY <2>2, <2>4, <2>5, <3>3
      <4>2. /\ Cardinality(acks) = 0 \/ Cardinality(acks) = 1
            /\ Len(commands) = 0 \/ Len(commands) = 1
        BY <2>4
      <4>3. \A x, y \in {0, 1} : x = 0 \/ y = 0 => 0 + x + y + 0 <= 1
        OBVIOUS
      <4> QED
        BY <3>3, <4>1, <4>2, <4>3
    <3> QED
      BY <2>5, <3>1, <3>2, <3>3
  <2> QED
    BY <2>6 DEF busy
<1> QED
  BY <1>1, FeedInvariant, PTL

\* No acknowledgement of a held subscription is refused or lost, however the
\* forwarder's steps interleave with it: its revision is the one in flight.
THEOREM AcksTaken == Spec => AcksAreTaken
<1>1. FeedInv /\ [Next]_vars => [\A r \in acks \ acks' : held => Accepts(r)]_vars
  <2> SUFFICES ASSUME FeedInv, NEW r \in acks PROVE Accepts(r)
    OBVIOUS
  <2>1. r = flow.inFlight /\ ~AckWaits
    BY DEF FeedInv, InFlight, OnePlace
  <2> QED
    BY <2>1 DEF Accepts, FeedInv, InFlight
<1> QED
  BY <1>1, FeedInvariant, PTL DEF Spec, AcksAreTaken

----------------------------------------------------------------------------
(* The window *)

\* What a step of the window does to the feed is a step of the feed.
LEMMA TaskStepIsFeedStep == [TaskNext]_taskVars => [Next]_vars
<1> SUFFICES ASSUME [TaskNext]_taskVars PROVE [Next]_vars
  OBVIOUS
<1>1. CASE Work \/ JobLeaves
  BY <1>1 DEF Work, Becomes, JobLeaves, Next
<1>2. CASE Control
  BY <1>2 DEF Control, Becomes, Next
<1>3. CASE ReceiveSnapshot \/ SubscriptionStep
  BY <1>3 DEF ReceiveSnapshot, SubscriptionStep, Next
<1>4. CASE Buttons
  BY <1>4 DEF Buttons, Cancel, Pause, Resume, CloseRequested, KeepOpen,
              ContinueInBackground, Retrying, Call, Dispatch
<1>5. CASE RetryEnds \/ AutoClose
  BY <1>5 DEF RetryEnds, AutoClose, Dispatch
<1>6. CASE Destroy
  BY <1>6 DEF Destroy, Next
<1>7. CASE UNCHANGED taskVars
  BY <1>7 DEF taskVars
<1> QED
  BY <1>1, <1>2, <1>3, <1>4, <1>5, <1>6, <1>7 DEF TaskNext

\* The window follows its job through the feed as specified: whatever the
\* buttons, the reducer and the job do, the feed's promises hold.
THEOREM TaskRunsFeed == TaskSpec => Spec
<1>1. TaskInit => Init
  BY DEF TaskInit
<1>2. [TaskNext]_taskVars => [Next]_vars
  BY TaskStepIsFeedStep
<1> QED
  BY <1>1, <1>2, PTL DEF TaskSpec, Spec

\* The phase of a status is live exactly when the status has not ended.
LEMMA PhaseOfStatus ==
  ASSUME NEW s \in JobStatus
  PROVE  /\ PhaseForStatus(s) \in LivePhase \cup {"succeeded", "failed", "cancelled"}
         /\ PhaseForStatus(s) \in LivePhase <=> s \notin TerminalStatus
BY DEF PhaseForStatus, JobStatus, TerminalStatus, LivePhase

\* What the window shows was published.
LEMMA ShownBefore ==
  ASSUME IInv
  PROVE  /\ published \in 1 .. MaxRevision /\ highest \in 0 .. published
         /\ shown \in 0 .. published /\ shown <= highest
         /\ statuses \in Seq(JobStatus) /\ Len(statuses) = published
         /\ \A r \in 1 .. published : statuses[r] \in JobStatus
         /\ ShownStatus \in JobStatus
<1>1. /\ published \in 1 .. MaxRevision /\ highest \in 0 .. MaxRevision
      /\ highest <= published /\ shown \in 0 .. highest
      /\ statuses \in Seq(JobStatus) /\ Len(statuses) = published
  BY DEF IInv, FeedInv, TypeOK, Bounded, TaskTypeOK
<1>2. \A r \in 1 .. published : statuses[r] \in JobStatus
  BY <1>1, ElementOfSeq
<1>3. highest \in 0 .. published /\ shown \in 0 .. published /\ shown <= highest
  BY <1>1
<1>4. shown # 0 => shown \in 1 .. published
  BY <1>3
<1>5. ShownStatus \in JobStatus
  BY <1>2, <1>4 DEF ShownStatus, JobStatus
<1> QED
  BY <1>1, <1>2, <1>3, <1>5

LEMMA InitIInv == TaskInit => IInv
<1> SUFFICES ASSUME TaskInit PROVE IInv
  OBVIOUS
<1>1. FeedInv
  BY InitFeedInv DEF TaskInit
<1>2. published = 1 /\ highest = 0
  BY DEF TaskInit, Init
<1>3. <<"queued">> \in Seq(JobStatus) /\ Len(<<"queued">>) = 1
  BY DEF JobStatus
<1>4. <<>> \in Seq({"cancel", "pause", "resume"})
  BY EmptySeq
<1>5. TaskTypeOK
  <2>1. /\ TypeOK /\ shown \in 0 .. highest /\ Len(statuses) = published
        /\ statuses \in Seq(JobStatus)
    BY <1>1, <1>2, <1>3 DEF TaskInit, FeedInv
  <2>2. phase = "starting" /\ prompt = FALSE /\ controls = <<>> /\ retry = "none"
    BY DEF TaskInit
  <2> QED
    BY <1>4, <2>1, <2>2 DEF TaskTypeOK, LivePhase
<1>6. Shown
  BY <1>2 DEF TaskInit, Shown, ShownStatus, TerminalStatus
<1>7. PhaseIsSettled
  BY DEF TaskInit, PhaseIsSettled, PhaseForStatus, ShownStatus
<1> QED
  BY <1>1, <1>5, <1>6, <1>7 DEF IInv

\* A step that leaves the job and what is shown of it keeps the invariant, if
\* the phase stays, closes, returns to the snapshot's, or goes ahead of it with
\* a cancellation that was called.
LEMMA PhaseStep ==
  ASSUME IInv, FeedInv',
         published' = published, highest' = highest,
         statuses' = statuses, shown' = shown,
         controls' \in Seq({"cancel", "pause", "resume"}),
         retry' \in {"none", "asked", "unpresented"},
         prompt' \in BOOLEAN, prompt' => phase' \in LivePhase,
         \/ /\ phase' = phase
            /\ \/ Contains(controls, "cancel") => Contains(controls', "cancel")
               \/ phase = "cancelling" => shown < published
         \/ phase' = "closing"
         \/ Live /\ phase' = PhaseForStatus(ShownStatus)
         \/ Live /\ phase' = "cancelling" /\ Contains(controls', "cancel")
  PROVE  IInv'
<1>1. ShownStatus' = ShownStatus /\ ShownStatus \in JobStatus
  BY ShownBefore DEF ShownStatus
<1>2. phase' \in LivePhase \cup {"succeeded", "failed", "cancelled", "closing"}
  BY <1>1, PhaseOfStatus DEF IInv, TaskTypeOK, LivePhase
<1>3. TaskTypeOK'
  BY <1>2 DEF IInv, TaskTypeOK, FeedInv, Live
<1>4. Live' => ShownStatus' \notin TerminalStatus
  BY <1>1, PhaseOfStatus DEF IInv, Shown, Live, LivePhase
<1>5. Shown'
  BY <1>4, ShownBefore DEF Shown
<1>6. PhaseIsSettled'
  BY <1>1 DEF IInv, PhaseIsSettled
<1> QED
  BY <1>3, <1>5, <1>6 DEF IInv

\* The job publishes another status: what is shown of it is behind.
LEMMA BecomesKeeps ==
  ASSUME IInv, FeedInv', NEW s \in JobStatus, Becomes(s), UNCHANGED <<reducerVars, retry>>,
         controls' \in Seq({"cancel", "pause", "resume"})
  PROVE  IInv'
<1>1. /\ published' = published + 1 /\ highest' = highest
      /\ statuses' = Append(statuses, s)
  BY DEF Becomes, Publish, pageVars
<1>2. /\ statuses' \in Seq(JobStatus) /\ Len(statuses') = published'
      /\ \A r \in 1 .. published : statuses'[r] = statuses[r]
  BY <1>1, ShownBefore, AppendProperties
<1>3. shown # 0 => shown \in 1 .. published
  BY ShownBefore
<1>4. ShownStatus' = ShownStatus /\ shown' = shown /\ shown < published'
  BY <1>1, <1>2, <1>3, ShownBefore DEF ShownStatus, reducerVars
<1>5. TaskTypeOK'
  BY <1>1, <1>2 DEF IInv, TaskTypeOK, FeedInv, Live, reducerVars
<1>6. Shown'
  BY <1>1, <1>4 DEF IInv, Shown, Live, reducerVars
<1>7. PhaseIsSettled'
  BY <1>4 DEF IInv, PhaseIsSettled, reducerVars
<1> QED
  BY <1>5, <1>6, <1>7 DEF IInv

\* A call that is taken from the head, or put at the end, of the calls.
LEMMA Calls ==
  ASSUME controls \in Seq({"cancel", "pause", "resume"})
  PROVE  /\ controls # <<>> =>
              /\ Tail(controls) \in Seq({"cancel", "pause", "resume"})
              /\ Contains(controls, "cancel") /\ Head(controls) # "cancel" =>
                   Contains(Tail(controls), "cancel")
         /\ \A c \in {"cancel", "pause", "resume"} :
              /\ Append(controls, c) \in Seq({"cancel", "pause", "resume"})
              /\ Contains(controls, "cancel") \/ c = "cancel" =>
                   Contains(Append(controls, c), "cancel")
<1>1. ASSUME controls # <<>>
      PROVE  /\ Tail(controls) \in Seq({"cancel", "pause", "resume"})
             /\ Contains(controls, "cancel") /\ Head(controls) # "cancel" =>
                  Contains(Tail(controls), "cancel")
  <2>1. /\ Tail(controls) \in Seq({"cancel", "pause", "resume"})
        /\ Len(Tail(controls)) = Len(controls) - 1
        /\ \A i \in 1 .. Len(Tail(controls)) : Tail(controls)[i] = controls[i + 1]
    BY <1>1, HeadTailProperties
  <2>2. ASSUME NEW i \in 1 .. Len(controls), controls[i] = "cancel",
               Head(controls) # "cancel"
        PROVE  Contains(Tail(controls), "cancel")
    <3>1. i # 1 /\ Len(controls) \in Nat
      BY <2>2
    <3>2. i - 1 \in 1 .. Len(Tail(controls)) /\ (i - 1) + 1 = i
      BY <2>1, <3>1
    <3>3. Tail(controls)[i - 1] = "cancel"
      BY <2>1, <2>2, <3>2
    <3> QED
      BY <3>2, <3>3 DEF Contains
  <2> QED
    BY <2>1, <2>2 DEF Contains
<1>2. ASSUME NEW c \in {"cancel", "pause", "resume"}
      PROVE  /\ Append(controls, c) \in Seq({"cancel", "pause", "resume"})
             /\ Contains(controls, "cancel") \/ c = "cancel" =>
                  Contains(Append(controls, c), "cancel")
  <2>1. /\ Append(controls, c) \in Seq({"cancel", "pause", "resume"})
        /\ Len(Append(controls, c)) = Len(controls) + 1 /\ Len(controls) \in Nat
        /\ \A i \in 1 .. Len(controls) : Append(controls, c)[i] = controls[i]
        /\ Append(controls, c)[Len(controls) + 1] = c
    BY AppendProperties, LenProperties
  <2>2. \A i \in 1 .. Len(controls) : i \in 1 .. Len(Append(controls, c))
    BY <2>1
  <2>3. Len(controls) + 1 \in 1 .. Len(Append(controls, c))
    BY <2>1
  <2> QED
    BY <2>1, <2>2, <2>3 DEF Contains
<1> QED
  BY <1>1, <1>2

\* The job works on, and leaves the registry once it has ended.
LEMMA JobKeeps ==
  ASSUME IInv, FeedInv', Work \/ JobLeaves
  PROVE  IInv'
<1>1. CASE Work
  <2>1. PICK s \in Progress : Becomes(s)
    BY <1>1 DEF Work
  <2>2. s \in JobStatus
    BY DEF Progress, JobStatus, TerminalStatus
  <2>3. controls' \in Seq({"cancel", "pause", "resume"})
    BY <1>1 DEF Work, IInv, TaskTypeOK
  <2> QED
    BY <1>1, <2>1, <2>2, <2>3, BecomesKeeps DEF Work
<1>2. CASE JobLeaves
  BY <1>2, PhaseStep
  DEF JobLeaves, RemoveJob, pageVars, reducerVars, IInv, TaskTypeOK, Live
<1> QED
  BY <1>1, <1>2

\* A call is answered: with an effect, without one, or with a refusal.
LEMMA ControlKeeps == IInv /\ FeedInv' /\ Control => IInv'
<1> SUFFICES ASSUME IInv, FeedInv', Control PROVE IInv'
  OBVIOUS
<1>1. /\ controls \in Seq({"cancel", "pause", "resume"}) /\ controls # <<>>
      /\ controls' = Tail(controls) /\ retry' = retry
  BY DEF IInv, TaskTypeOK, Control
<1>2. /\ controls' \in Seq({"cancel", "pause", "resume"})
      /\ Contains(controls, "cancel") /\ Head(controls) # "cancel" =>
           Contains(controls', "cancel")
      /\ retry' \in {"none", "asked", "unpresented"}
  BY <1>1, Calls DEF IInv, TaskTypeOK
<1>3. CASE gone
  <2>1. /\ UNCHANGED <<vars, statuses, shown>>
        /\ IF Live THEN phase' = PhaseForStatus(ShownStatus) /\ prompt' = FALSE
                   ELSE UNCHANGED <<phase, prompt>>
    BY <1>3 DEF Control
  <2>2. published' = published /\ highest' = highest /\ statuses' = statuses /\ shown' = shown
    BY <2>1 DEF vars, pageVars
  <2>3. CASE Live
    BY <1>2, <2>1, <2>2, <2>3, PhaseStep
  <2>4. CASE ~Live
    <3>1. phase' = phase /\ phase # "cancelling" /\ prompt' = prompt /\ prompt = FALSE
      BY <2>1, <2>4 DEF IInv, TaskTypeOK, Live, LivePhase
    <3> QED
      BY <1>2, <2>2, <3>1, PhaseStep
  <2> QED
    BY <2>3, <2>4
<1>4. CASE ~gone /\ Effect(Head(controls)) = {}
  <2>1. UNCHANGED <<vars, statuses>> /\ UNCHANGED reducerVars
    BY <1>4 DEF Control
  <2>2. /\ published' = published /\ highest' = highest /\ statuses' = statuses
        /\ shown' = shown /\ phase' = phase /\ prompt' = prompt
    BY <2>1 DEF vars, pageVars, reducerVars
  <2>3. Head(controls) = "cancel" => Ended
    BY <1>4 DEF Effect
  <2>4. Ended /\ phase = "cancelling" => shown < published
    <3> SUFFICES ASSUME Ended, phase = "cancelling", shown = published PROVE FALSE
      BY ShownBefore
    <3>1. ShownStatus \notin TerminalStatus
      BY DEF IInv, Shown, Live, LivePhase
    <3>2. ShownStatus = Status
      BY ShownBefore DEF ShownStatus, Status
    <3> QED
      BY <3>1, <3>2 DEF Ended
  <2>5. prompt' \in BOOLEAN /\ (prompt' => phase' \in LivePhase)
    BY <2>2 DEF IInv, TaskTypeOK, Live
  <2> QED
    BY <1>2, <2>2, <2>3, <2>4, <2>5, PhaseStep
<1>5. CASE ~gone /\ Effect(Head(controls)) # {}
  <2>1. PICK s \in Effect(Head(controls)) : Becomes(s)
    BY <1>5 DEF Control
  <2>2. s \in JobStatus
    BY DEF Effect, JobStatus
  <2>3. UNCHANGED reducerVars
    BY <1>5 DEF Control
  <2> QED
    BY <1>1, <1>2, <2>1, <2>2, <2>3, BecomesKeeps
<1> QED
  BY <1>3, <1>4, <1>5

\* A newer snapshot is shown as it is, as long as the task lives.
LEMMA ReceiveSnapshotKeeps == IInv /\ FeedInv' /\ ReceiveSnapshot => IInv'
<1> SUFFICES ASSUME IInv, FeedInv', ReceiveSnapshot PROVE IInv'
  OBVIOUS
<1> DEFINE r == Head(wire)
<1>1. /\ r \in 1 .. MaxRevision /\ r <= published
      /\ published' = published /\ statuses' = statuses
      /\ controls' = controls /\ retry' = retry
      /\ highest' = IF r > highest THEN r ELSE highest
  BY ReceiveKeeps DEF IInv, ReceiveSnapshot, Receive
<1>2. r \in 1 .. published /\ highest' \in Int /\ highest <= highest'
  BY <1>1, ShownBefore
<1>3. CASE UNCHANGED reducerVars
  <2>1. ShownStatus' = ShownStatus /\ shown' = shown /\ phase' = phase /\ prompt' = prompt
    BY <1>1, <1>3 DEF ShownStatus, reducerVars
  <2>2. shown' \in 0 .. highest'
    BY <1>2, <2>1, ShownBefore
  <2>3. TaskTypeOK'
    BY <1>1, <2>1, <2>2 DEF IInv, TaskTypeOK, FeedInv, Live
  <2>4. Shown' /\ PhaseIsSettled'
    BY <1>1, <2>1, <2>2 DEF IInv, Shown, Live, PhaseIsSettled
  <2> QED
    BY <2>3, <2>4 DEF IInv
<1>4. CASE /\ r > highest
           /\ phase' = PhaseForStatus(statuses[r]) /\ shown' = r /\ prompt' = FALSE
  <2>1. statuses[r] \in JobStatus /\ r # 0
    BY <1>2, ShownBefore
  <2>2. ShownStatus' = statuses[r]
    BY <1>1, <1>4, <2>1 DEF ShownStatus
  <2>3. shown' \in 0 .. highest'
    BY <1>1, <1>2, <1>4
  <2>4. TaskTypeOK'
    BY <1>1, <1>4, <2>1, <2>3, PhaseOfStatus DEF IInv, TaskTypeOK, FeedInv
  <2>5. Shown' /\ PhaseIsSettled'
    BY <1>4, <2>1, <2>2, <2>3, PhaseOfStatus DEF Shown, Live, PhaseIsSettled
  <2> QED
    BY <2>4, <2>5 DEF IInv
<1> QED
  BY <1>3, <1>4 DEF ReceiveSnapshot, JobUpdated

\* What goes on in the subscription, and the destruction of the window, leave the
\* reducer and the calls as they are.
LEMMA AsideKeeps ==
  ASSUME IInv, FeedInv', SubscriptionStep \/ Destroy
  PROVE  IInv'
<1>1. published' = published /\ highest' = highest
  BY DEF SubscriptionStep, Subscription, Subscribe, Retry, TakeAck, Forwarding, Start,
         SendValue, TakeCommand, AfterAck, TakeChange, Free, Closed, Destroy, Leave, pageVars
<1>2. /\ statuses' = statuses /\ shown' = shown /\ phase' = phase /\ prompt' = prompt
      /\ controls' = controls /\ retry' = retry
  BY DEF SubscriptionStep, Aside, Destroy, reducerVars
<1> QED
  BY <1>1, <1>2, PhaseStep DEF IInv, TaskTypeOK, Live

\* The buttons that call a control of the job.
LEMMA CallKeeps ==
  ASSUME IInv, FeedInv', Cancel \/ Pause \/ Resume
  PROVE  IInv'
<1>1. controls \in Seq({"cancel", "pause", "resume"})
  BY DEF IInv, TaskTypeOK
<1>2. /\ published' = published /\ highest' = highest /\ statuses' = statuses
      /\ shown' = shown /\ retry' = retry /\ retry \in {"none", "asked", "unpresented"}
  BY DEF IInv, TaskTypeOK, Cancel, Pause, Resume, Call, vars, pageVars
<1>3. CASE Cancel
  <2>1. /\ Live /\ phase' = "cancelling" /\ prompt' = FALSE
        /\ controls' = Append(controls, "cancel")
    BY <1>3 DEF Cancel, Call
  <2> QED
    BY <1>1, <1>2, <2>1, Calls, PhaseStep
<1>4. CASE Pause \/ Resume
  <2>1. PICK c \in {"cancel", "pause", "resume"} : controls' = Append(controls, c)
    BY <1>4 DEF Pause, Resume, Call
  <2>2. phase' = phase /\ prompt' = prompt
    BY <1>4 DEF Pause, Resume
  <2>3. prompt' \in BOOLEAN /\ (prompt' => phase' \in LivePhase)
    BY <2>2 DEF IInv, TaskTypeOK, Live
  <2> QED
    BY <1>1, <1>2, <2>1, <2>2, <2>3, Calls, PhaseStep
<1> QED
  BY <1>3, <1>4

\* What only the reducer hears of: the close button, the prompt, the timer and
\* the retry.
LEMMA DispatchKeeps ==
  ASSUME IInv, FeedInv',
         CloseRequested \/ KeepOpen \/ ContinueInBackground \/ Retrying \/ RetryEnds
           \/ AutoClose
  PROVE  IInv'
<1>1. /\ published' = published /\ highest' = highest /\ statuses' = statuses
      /\ shown' = shown /\ controls' = controls
      /\ controls \in Seq({"cancel", "pause", "resume"})
  BY DEF IInv, TaskTypeOK, CloseRequested, KeepOpen, ContinueInBackground, Retrying,
         RetryEnds, AutoClose, Dispatch, vars, pageVars
<1>2. retry' \in {"none", "asked", "unpresented"}
  BY DEF IInv, TaskTypeOK, CloseRequested, KeepOpen, ContinueInBackground, Retrying,
         RetryEnds, AutoClose
<1>3. \/ phase' = phase /\ prompt' \in BOOLEAN /\ (prompt' => Live)
      \/ phase' = "closing" /\ prompt' = FALSE
  BY DEF IInv, TaskTypeOK, CloseRequested, KeepOpen, ContinueInBackground, Retrying,
         RetryEnds, AutoClose
<1> QED
  BY <1>1, <1>2, <1>3, PhaseStep DEF Live

LEMMA TaskStep == IInv /\ [TaskNext]_taskVars => IInv'
<1> SUFFICES ASSUME IInv, [TaskNext]_taskVars PROVE IInv'
  OBVIOUS
<1>1. FeedInv'
  BY FeedStep, TaskStepIsFeedStep DEF IInv
<1>2. CASE TaskNext
  BY <1>1, <1>2, JobKeeps, ControlKeeps, ReceiveSnapshotKeeps, AsideKeeps, CallKeeps,
     DispatchKeeps DEF TaskNext, Buttons
<1>3. CASE UNCHANGED taskVars
  BY <1>1, <1>3, PhaseStep
  DEF taskVars, vars, pageVars, reducerVars, IInv, TaskTypeOK, Live
<1> QED
  BY <1>2, <1>3

\* The inductive invariant of the window and its feed.
THEOREM Invariant == TaskSpec => []IInv
<1>1. TaskInit => IInv
  BY InitIInv
<1>2. IInv /\ [TaskNext]_taskVars => IInv'
  BY TaskStep
<1> QED
  BY <1>1, <1>2, PTL DEF TaskSpec

\* Type correctness of the window: the prompt is about a task that lives, and no
\* snapshot is shown that was not accepted.
THEOREM TaskTypeCorrect == TaskSpec => []TaskTypeOK
<1>1. IInv => TaskTypeOK
  BY DEF IInv
<1> QED
  BY <1>1, Invariant, PTL

\* The window shows the job as its newest snapshot has it, but for a cancellation
\* that was asked for and is still on the way or whose outcome is: no sequence of
\* snapshots, refusals and controls leaves it cancelling what goes on.
THEOREM PhaseSettled == TaskSpec => []PhaseIsSettled
<1>1. IInv => PhaseIsSettled
  BY DEF IInv
<1> QED
  BY <1>1, Invariant, PTL

----------------------------------------------------------------------------
(* The life of the job behind the window *)

\* The job as JobLifecycle sees it: the status of the last revision, until the
\* record leaves.
Seen == [j \in {"task"} |-> IF gone THEN "absent" ELSE Status]

Life == INSTANCE JobLifecycle WITH Job <- {"task"}, status <- Seen, spent <- {"task"}

\* What follows a status, by work or by a control, is what JobLifecycle allows.
LEMMA NextStatus ==
  ASSUME Status \in JobStatus,
         \/ Status' \in Progress
         \/ \E c \in {"cancel", "pause", "resume"} : Status' \in Effect(c)
  PROVE  \/ Status' = Status
         \/ Status = "queued" /\ Status' = "running"
         \/ Status \in {"queued", "running"} /\ Status' = "paused"
         \/ Status = "paused" /\ Status' \in {"queued", "running"}
         \/ Status \in {"queued", "running", "paused"} /\ Status' = "cancelling"
         \/ Status \in {"queued", "running", "paused"} /\ Status' \in TerminalStatus
         \/ Status = "cancelling" /\ Status' = "cancelled"
<1>1. CASE Status' \in Progress
  BY <1>1 DEF Progress, JobStatus, TerminalStatus
<1>2. CASE Status' \in Effect("cancel")
  BY <1>2 DEF Effect, JobStatus, Ended, TerminalStatus
<1>3. CASE Status' \in Effect("pause")
  BY <1>3 DEF Effect, JobStatus, TerminalStatus
<1>4. CASE Status' \in Effect("resume")
  BY <1>4 DEF Effect, JobStatus, TerminalStatus
<1> QED
  BY <1>1, <1>2, <1>3, <1>4

\* A new revision says what became of the job.
LEMMA BecomesLives ==
  ASSUME IInv, NEW s \in JobStatus, Becomes(s),
         s \in Progress \/ \E c \in {"cancel", "pause", "resume"} : s \in Effect(c)
  PROVE  Life!Next \/ Seen' = Seen
<1>1. /\ ~gone /\ gone' = gone /\ published' = published + 1 /\ published \in Nat
      /\ statuses \in Seq(JobStatus) /\ Len(statuses) = published
      /\ statuses' = Append(statuses, s) /\ published >= 1
  BY ShownBefore DEF Becomes, Publish
<1>2. Status' = s
  BY <1>1, AppendProperties DEF Status
<1>3. Status \in JobStatus
  BY ShownBefore DEF Status
<1>4. /\ Seen["task"] = Status /\ Life!Become("task", s)
      /\ s = Status => Seen' = Seen
  BY <1>1, <1>2 DEF Seen, Life!Become
<1>5. \/ s = Status
      \/ Life!Start("task") \/ Life!Pause("task") \/ Life!Resume("task")
      \/ Life!Cancel("task") \/ Life!End("task")
  BY <1>2, <1>3, <1>4, NextStatus
  DEF Life!Start, Life!Pause, Life!Resume, Life!Cancel, Life!End, TerminalStatus
<1> QED
  BY <1>4, <1>5 DEF Life!Next

\* The job that the window follows and controls lives as JobLifecycle promises,
\* from its first revision on; the calls of the window find it in whatever status
\* it has by then.
THEOREM TaskJobLives == TaskSpec => [][Life!Next]_Seen
<1>1. IInv /\ [TaskNext]_taskVars => [Life!Next]_Seen
  <2> SUFFICES ASSUME IInv, [TaskNext]_taskVars PROVE Life!Next \/ Seen' = Seen
    OBVIOUS
  <2>1. /\ statuses \in Seq(JobStatus) /\ Len(statuses) = published
        /\ Status \in JobStatus /\ controls \in Seq({"cancel", "pause", "resume"})
    BY ShownBefore DEF Status, IInv, TaskTypeOK
  <2>2. CASE statuses' = statuses /\ published' = published /\ gone' = gone
    BY <2>2 DEF Seen, Status
  <2>3. CASE Work
    <3>1. PICK s \in Progress : Becomes(s)
      BY <2>3 DEF Work
    <3>2. s \in JobStatus
      BY <2>1 DEF Progress, JobStatus, TerminalStatus
    <3> QED
      BY <3>1, <3>2, BecomesLives
  <2>4. CASE Control
    <3>1. controls # <<>> /\ Head(controls) \in {"cancel", "pause", "resume"}
      BY <2>1, <2>4, HeadTailProperties DEF Control
    <3>2. CASE UNCHANGED <<vars, statuses>>
      BY <2>2, <3>2 DEF vars
    <3>3. ASSUME NEW s \in Effect(Head(controls)), Becomes(s)
          PROVE  Life!Next \/ Seen' = Seen
      <4>1. s \in JobStatus
        BY <3>3 DEF Effect, JobStatus
      <4> QED
        BY <3>1, <3>3, <4>1, BecomesLives
    <3> QED
      BY <2>4, <3>2, <3>3 DEF Control
  <2>5. CASE JobLeaves
    <3>1. Ended /\ ~gone /\ gone' = TRUE
      BY <2>5 DEF JobLeaves, RemoveJob
    <3>2. Life!Dismiss("task")
      BY <3>1 DEF Life!Dismiss, Life!Ended, Life!Become, Seen, Ended, TerminalStatus
    <3> QED
      BY <3>2 DEF Life!Next
  <2>6. CASE ReceiveSnapshot \/ SubscriptionStep \/ Buttons \/ RetryEnds \/ AutoClose \/ Destroy
    <3>1. UNCHANGED <<published, gone, statuses>>
      BY <2>6
      DEF ReceiveSnapshot, Receive, SubscriptionStep, Subscription, Forwarding, Subscribe, TakeAck,
          Retry, StartUnread, Start, SendValue, TakeCommand, AfterAck, TakeChange, Free, Closed,
          Aside, Buttons, Cancel, Pause, Resume, Call, Dispatch, CloseRequested, KeepOpen,
          ContinueInBackground, Retrying, RetryEnds, AutoClose, Destroy, Leave, vars
    <3> QED
      BY <2>2, <3>1
  <2>7. CASE UNCHANGED taskVars
    BY <2>2, <2>7 DEF taskVars, vars
  <2> QED
    BY <2>3, <2>4, <2>5, <2>6, <2>7 DEF TaskNext
<1> QED
  BY <1>1, Invariant, PTL DEF TaskSpec
=============================================================================
