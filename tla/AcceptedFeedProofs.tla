------------------------- MODULE AcceptedFeedProofs -------------------------
(***************************************************************************)
(* Proofs about AcceptedFeed, for any number of jobs and failures.         *)
(*                                                                         *)
(* Three facts are inductive together with the types: what the page's      *)
(* connection and the registry know of each other (ConnectionInv), that a  *)
(* job is presented by nobody once it was presented (WindowInv), and that  *)
(* the head of the delivery chain was presented when it is acknowledged    *)
(* (AckInv).                                                               *)
(***************************************************************************)
EXTENDS AcceptedFeed, FiniteSetTheorems, SequenceTheorems, TLAPS

\* A connect() that is not part of a reconnect is the initial one, so nothing
\* overtook it; a subscription is only given up by a reconnect.
ConnectionInv ==
  /\ SubscriptionsAccountedFor
  /\ ~reconnecting /\ stage \in {"asked", "open", "refused"} => ~stray
  /\ stage = "leaving" => reconnecting

\* A job has a window once its presentation succeeded, and is not presented
\* again after that.
WindowInv ==
  \A r \in Job :
    /\ opened[r] = IF r \in delivered THEN 1 ELSE 0
    /\ r \in presenting => r \notin delivered

AckInv == phase \in {"acking", "acked", "unknown"} => Head(chain) \in delivered

IInv == TypeOK /\ ConnectionInv /\ WindowInv /\ AckInv

----------------------------------------------------------------------------
(* Sequences *)

\* The head of a sequence survives what is appended to it.
LEMMA HeadOfAppend ==
  ASSUME NEW S, NEW s \in Seq(S), NEW e \in S
  PROVE  /\ Append(s, e) \in Seq(S)
         /\ Append(s, e) # <<>>
         /\ s # <<>> => Head(Append(s, e)) = Head(s)
  BY AppendProperties, HeadTailAppend

\* What the stream task sends is jobs, and ends with one.
LEMMA UnsentJobs ==
  ASSUME TypeOK
  PROVE  /\ Unsent \in Seq(Job)
         /\ Unsent # <<>> => Last(Unsent) \in Job
<1> DEFINE old == {i \in DOMAIN accepted : accepted[i] <= sent}
<1>1. accepted \in Seq(Job) /\ Len(accepted) \in Nat /\ DOMAIN accepted = 1 .. Len(accepted)
  BY LenProperties DEF TypeOK
<1>2. Cardinality(old) \in Nat
  <2>1. IsFiniteSet(1 .. Len(accepted))
    BY <1>1, FS_Interval
  <2>2. IsFiniteSet(old)
    BY <1>1, <2>1, FS_Subset
  <2> QED
    BY <2>2, FS_CardinalityType
<1>3. Unsent = SubSeq(accepted, Cardinality(old) + 1, Len(accepted))
  BY DEF Unsent
<1> HIDE DEF old
<1>4. \A i \in Cardinality(old) + 1 .. Len(accepted) : accepted[i] \in Job
  BY <1>1, <1>2, ElementOfSeq
<1>5. Unsent \in Seq(Job)
  BY <1>1, <1>2, <1>3, <1>4, SubSeqProperties
<1>6. Unsent # <<>> => Last(Unsent) \in Job
  BY <1>5, EmptySeq, ElementOfSeq DEF Last
<1> QED
  BY <1>5, <1>6

\* What is left of the queue after an acknowledgement is a queue.
LEMMA RestOfQueue ==
  ASSUME TypeOK, NEW n \in DOMAIN accepted
  PROVE  SubSeq(accepted, n + 1, Len(accepted)) \in Seq(Job)
<1>1. accepted \in Seq(Job) /\ Len(accepted) \in Nat /\ DOMAIN accepted = 1 .. Len(accepted)
  BY LenProperties DEF TypeOK
<1>2. \A i \in n + 1 .. Len(accepted) : accepted[i] \in Job
  BY <1>1, ElementOfSeq
<1> QED
  BY <1>1, <1>2, SubSeqProperties

----------------------------------------------------------------------------
(* The connection *)

\* reconnect() keeps account of the subscriptions, whatever state the
\* connection was in.
LEMMA ReconnectKeeps ==
  ASSUME IInv, Reconnect
  PROVE  /\ ConnectionInv'
         /\ live' \in 0 .. 2 /\ stage' \in {"asked", "open", "refused", "up", "leaving", "down"}
         /\ from' \in 0 .. MaxJobs /\ sent' \in 0 .. MaxJobs
         /\ channel' \in Seq(Job)
         /\ stray' \in BOOLEAN /\ reconnecting' \in BOOLEAN
<1>1. CASE reconnecting
  BY <1>1 DEF Reconnect, streamVars, IInv, TypeOK, ConnectionInv, SubscriptionsAccountedFor
<1>2. CASE ~reconnecting
  <2>1. channel' \in Seq(Job)
    BY <1>2, EmptySeq DEF Reconnect
  <2>2. from' \in 0 .. MaxJobs /\ sent' \in 0 .. MaxJobs
    BY <1>2 DEF Reconnect, IInv, TypeOK
  <2>3. /\ live' = live /\ reconnecting' = TRUE
        /\ stage' = IF stage = "up" THEN "leaving" ELSE "asked"
        /\ stray' = (stray \/ stage = "open")
    BY <1>2 DEF Reconnect
  <2>4. stray \in BOOLEAN /\ live \in 0 .. 2 /\ stage # "leaving"
    BY <1>2 DEF IInv, TypeOK, ConnectionInv
  <2>5. stage \in {"asked", "open", "refused"} => ~stray
    BY <1>2 DEF IInv, ConnectionInv
  <2>6. live = (IF stage \in {"open", "up", "leaving"} THEN 1 ELSE 0)
               + (IF stray THEN 1 ELSE 0)
    BY DEF IInv, ConnectionInv, SubscriptionsAccountedFor
  <2>7. SubscriptionsAccountedFor'
    <3>1. CASE stage = "open"
      <4>1. ~stray /\ stray' /\ stage' = "asked"
        BY <2>3, <2>5, <3>1
      <4> QED
        BY <2>3, <2>4, <2>6, <3>1, <4>1 DEF SubscriptionsAccountedFor
    <3>2. CASE stage # "open"
      <4>1. stray' <=> stray
        BY <2>3, <3>2
      <4>2. stage \in {"open", "up", "leaving"} <=> stage' \in {"open", "up", "leaving"}
        BY <2>3, <2>4, <3>2
      <4> QED
        BY <2>3, <2>4, <2>6, <4>1, <4>2 DEF SubscriptionsAccountedFor
    <3> QED
      BY <3>1, <3>2
  <2> QED
    BY <2>1, <2>2, <2>3, <2>4, <2>7 DEF ConnectionInv
<1> QED
  BY <1>1, <1>2

\* The failure of the head of the chain keeps everything but the windows,
\* which it does not touch.
LEMMA DeliveryFailsKeeps ==
  ASSUME IInv, DeliveryFails, phase # "idle"
  PROVE  /\ ConnectionInv' /\ AckInv'
         /\ live' \in 0 .. 2 /\ stage' \in {"asked", "open", "refused", "up", "leaving", "down"}
         /\ from' \in 0 .. MaxJobs /\ sent' \in 0 .. MaxJobs
         /\ channel' \in Seq(Job)
         /\ stray' \in BOOLEAN /\ reconnecting' \in BOOLEAN /\ timer' \in BOOLEAN
         /\ lastDelivered' \in 0 .. MaxJobs /\ lastAcknowledged' \in 0 .. MaxJobs
         /\ chain' \in Seq(Job) /\ phase' = "idle" /\ overlooked' \subseteq Job
<1>1. Reconnect /\ chain' = Tail(chain) /\ phase' = "idle"
  BY DEF DeliveryFails
<1>2. chain' \in Seq(Job)
  BY <1>1, HeadTailProperties DEF IInv, TypeOK
<1>3. overlooked' \subseteq Job
  <2>1. Head(chain) \in Job /\ overlooked \subseteq Job
    BY HeadTailProperties DEF IInv, TypeOK
  <2>2. overlooked' \in {overlooked, overlooked \cup {Head(chain)}}
    BY DEF DeliveryFails, Overlook
  <2> QED
    BY <2>1, <2>2
<1> QED
  BY <1>1, <1>2, <1>3, ReconnectKeeps DEF DeliveryFails, IInv, TypeOK, AckInv

----------------------------------------------------------------------------
(* The inductive invariant *)

\* The application starts with one connect() under way and nothing accepted.
LEMMA InitIInv == Init => IInv
<1> SUFFICES ASSUME Init PROVE IInv
  OBVIOUS
<1>1. <<>> \in Seq(Job)
  BY EmptySeq
<1>2. TypeOK
  <2>1. /\ accepted \in Seq(Job) /\ channel \in Seq(Job) /\ chain \in Seq(Job)
        /\ phase = "idle"
    BY <1>1 DEF Init
  <2>2. {acceptance, from, sent, lastDelivered, lastAcknowledged} \subseteq 0 .. MaxJobs
    BY BoundAssumption DEF Init
  <2>3. opened \in [Job -> Nat] /\ live \in 0 .. 2 /\ failures \in 0 .. MaxFailures
    BY BoundAssumption DEF Init
  <2> QED
    BY <2>1, <2>2, <2>3 DEF Init, TypeOK
<1>3. ConnectionInv
  <2>1. live = 0 /\ stage = "asked" /\ ~stray
    BY DEF Init
  <2> QED
    BY <2>1 DEF ConnectionInv, SubscriptionsAccountedFor
<1>4. WindowInv /\ AckInv
  BY DEF Init, WindowInv, AckInv
<1> QED
  BY <1>2, <1>3, <1>4 DEF IInv

\* Acceptances, acknowledgements and what the stream sends leave page and
\* connection alone.
LEMMA RegistryKeeps ==
  ASSUME IInv, AcceptJob \/ Forward \/ AcknowledgeAccepted
  PROVE  IInv'
<1>1. CASE AcceptJob
  <2>1. acceptance + 1 \in Job /\ acceptance' \in 0 .. MaxJobs
    BY <1>1, BoundAssumption DEF AcceptJob, IInv, TypeOK, Job
  <2>2. accepted' \in Seq(Job)
    BY <1>1, <2>1, AppendProperties DEF AcceptJob, IInv, TypeOK
  <2> QED
    BY <1>1, <2>1, <2>2 DEF AcceptJob, streamVars, cursorVars, chainVars, handoffVars,
       IInv, TypeOK, ConnectionInv, SubscriptionsAccountedFor, WindowInv, AckInv
<1>2. CASE Forward
  <2>1. channel' \in Seq(Job) /\ sent' \in 0 .. MaxJobs
    BY <1>2, UnsentJobs, ConcatProperties DEF Forward, IInv, TypeOK, Job
  <2> QED
    BY <1>2, <2>1 DEF Forward, registryVars, cursorVars, chainVars, handoffVars,
       IInv, TypeOK, ConnectionInv, SubscriptionsAccountedFor, WindowInv, AckInv
<1>3. CASE AcknowledgeAccepted
  <2>1. accepted' \in Seq(Job) /\ phase = "acking" /\ phase' \in {"acked", "unknown"}
    BY <1>3, RestOfQueue DEF AcknowledgeAccepted, IInv, TypeOK
  <2> QED
    BY <1>3, <2>1 DEF AcknowledgeAccepted, streamVars, cursorVars, handoffVars,
       IInv, TypeOK, ConnectionInv, SubscriptionsAccountedFor, WindowInv, AckInv
<1> QED
  BY <1>1, <1>2, <1>3

\* Connecting, leaving and giving up keep account of every subscription.
LEMMA ConnectionKeeps ==
  ASSUME IInv, Subscribe \/ Leave \/ Connected \/ StrayConnected \/ RetryTimer
  PROVE  IInv'
<1> USE DEF IInv, TypeOK, WindowInv, AckInv, registryVars, cursorVars, chainVars, handoffVars
<1>1. CASE Subscribe
  BY <1>1, BoundAssumption DEF Subscribe, Fails, ConnectionInv, SubscriptionsAccountedFor
<1>2. CASE Leave
  BY <1>2 DEF Leave, ConnectionInv, SubscriptionsAccountedFor
<1>3. CASE Connected
  BY <1>3 DEF Connected, ConnectionInv, SubscriptionsAccountedFor
<1>4. CASE StrayConnected
  <2>1. stray /\ ~stray' /\ live' = live - 1 /\ UNCHANGED <<stage, reconnecting>>
    BY <1>4 DEF StrayConnected
  <2>2. live' = IF stage' \in {"open", "up", "leaving"} THEN 1 ELSE 0
    BY <2>1 DEF ConnectionInv, SubscriptionsAccountedFor
  <2>3. ConnectionInv'
    BY <2>1, <2>2 DEF ConnectionInv, SubscriptionsAccountedFor
  <2>4. live' \in 0 .. 2
    BY <2>2
  <2>5. TypeOK'
    <3>1. UNCHANGED <<acceptance, accepted, stage, from, sent, channel, reconnecting,
                      timer, lastDelivered, lastAcknowledged, chain, phase, overlooked,
                      delivered, presenting, answered, opened, failures>>
      BY <1>4 DEF StrayConnected
    <3>2. stray' \in BOOLEAN
      BY <1>4, Zenon DEF StrayConnected
    <3> QED
      BY <2>4, <3>1, <3>2
  <2>6. WindowInv' /\ AckInv'
    BY <1>4 DEF StrayConnected
  <2> QED
    BY <2>3, <2>5, <2>6
<1>5. CASE RetryTimer
  BY <1>5, ReconnectKeeps DEF RetryTimer
<1> QED
  BY <1>1, <1>2, <1>3, <1>4, <1>5

\* The page takes messages and works its chain off.
LEMMA ChainKeeps ==
  ASSUME IInv, Receive \/ Deliver \/ Acknowledged
  PROVE  IInv'
<1> USE DEF IInv, TypeOK
<1>1. CASE Receive
  <2>1. Head(channel) \in Job /\ channel' \in Seq(Job)
    BY <1>1, HeadTailProperties DEF Receive
  <2>2. CASE Head(channel) > lastDelivered
    <3>1. lastDelivered' = Head(channel) /\ chain' = Append(chain, Head(channel))
      BY <1>1, <2>2 DEF Receive
    <3>2. /\ chain' \in Seq(Job)
          /\ chain # <<>> => chain' # <<>> /\ Head(chain') = Head(chain)
          /\ lastDelivered' \in 0 .. MaxJobs
      <4>1. chain \in Seq(Job) /\ Head(channel) \in Job
        BY <2>1
      <4>2. lastDelivered' \in 0 .. MaxJobs
        BY <3>1, <4>1 DEF Job
      <4>3. /\ Append(chain, Head(channel)) \in Seq(Job)
            /\ Append(chain, Head(channel)) # <<>>
            /\ chain # <<>> => Head(Append(chain, Head(channel))) = Head(chain)
        BY <4>1, Zenon, HeadOfAppend
      <4> QED
        BY <3>1, <4>2, <4>3
    <3>3. /\ channel' \in Seq(Job)
          /\ UNCHANGED <<acceptance, accepted, stage, from, sent, stray, live, reconnecting,
                         timer, lastAcknowledged, phase, overlooked, delivered,
                         presenting, answered, opened, failures>>
      BY <1>1, <2>1 DEF Receive, registryVars, handoffVars
    <3>4. TypeOK'
      BY <3>2, <3>3
    <3>5. ConnectionInv' /\ WindowInv'
      BY <3>3 DEF ConnectionInv, SubscriptionsAccountedFor, WindowInv
    <3>6. AckInv'
      BY <3>2, <3>3 DEF AckInv
    <3> QED
      BY <3>4, <3>5, <3>6
  <2>3. CASE ~(Head(channel) > lastDelivered)
    BY <1>1, <2>1, <2>3 DEF Receive, registryVars, handoffVars,
       ConnectionInv, SubscriptionsAccountedFor, WindowInv, AckInv
  <2> QED
    BY <2>2, <2>3
<1>2. CASE Deliver
  <2>1. Head(chain) \in Job
    BY <1>2, HeadTailProperties DEF Deliver
  <2> QED
    BY <1>2, <2>1 DEF Deliver, Present, registryVars, streamVars, cursorVars,
       ConnectionInv, SubscriptionsAccountedFor, WindowInv, AckInv
<1>3. CASE Acknowledged
  <2>1. CASE phase = "acked" /\ UNCHANGED <<streamVars, reconnecting, timer, lastDelivered,
                                              overlooked>>
                             /\ lastAcknowledged' = Head(chain)
                             /\ chain' = Tail(chain) /\ phase' = "idle"
    <3>1. Head(chain) \in Job /\ chain' \in Seq(Job)
      BY <2>1, HeadTailProperties
    <3> QED
      BY <1>3, <2>1, <3>1 DEF Acknowledged, Job, registryVars, streamVars, handoffVars,
         ConnectionInv, SubscriptionsAccountedFor, WindowInv, AckInv
  <2>2. CASE phase = "unknown" /\ DeliveryFails
    <3>1. /\ UNCHANGED <<acceptance, accepted, delivered, presenting, answered, opened, failures>>
          /\ WindowInv'
      BY <1>3 DEF Acknowledged, registryVars, handoffVars, WindowInv
    <3> QED
      BY <2>2, <3>1, DeliveryFailsKeeps
  <2> QED
    BY <1>3, <2>1, <2>2 DEF Acknowledged
<1> QED
  BY <1>1, <1>2, <1>3

\* The handoff controller opens windows only for jobs that have none.
LEMMA HandoffKeeps ==
  ASSUME IInv, NEW r \in Job, HandOffAnswer(r) \/ Presented(r) \/ NotPresented(r)
  PROVE  IInv'
<1> USE DEF IInv, TypeOK
<1>1. CASE HandOffAnswer(r)
  <2>1. /\ answered' \subseteq Job /\ presenting' \subseteq Job
        /\ UNCHANGED <<delivered, opened>>
        /\ presenting' \in {presenting, IF r \in delivered THEN presenting
                                                       ELSE presenting \cup {r}}
    BY <1>1 DEF HandOffAnswer, Present
  <2>2. WindowInv'
    BY <2>1 DEF WindowInv
  <2> QED
    BY <1>1, <2>1, <2>2 DEF HandOffAnswer, registryVars, streamVars, cursorVars, chainVars,
       ConnectionInv, SubscriptionsAccountedFor, AckInv
<1>2. CASE Presented(r)
  <2>1. WindowInv' /\ opened' \in [Job -> Nat]
    BY <1>2 DEF Presented, WindowInv
  <2>2. AckInv' /\ phase' \in {"idle", "presenting", "acking", "acked", "unknown"}
        /\ (phase' # "idle" => chain' # <<>>)
    BY <1>2 DEF Presented, Awaited, AckInv
  <2> QED
    BY <1>2, <2>1, <2>2 DEF Presented, registryVars, streamVars, cursorVars,
       ConnectionInv, SubscriptionsAccountedFor
<1>3. CASE NotPresented(r)
  <2>1. failures' \in 0 .. MaxFailures /\ presenting' = presenting \ {r}
        /\ UNCHANGED <<registryVars, delivered, answered, opened>>
    BY <1>3, BoundAssumption DEF NotPresented, Fails
  <2>2. WindowInv'
    BY <2>1 DEF WindowInv
  <2>3. CASE Awaited(r)
    BY <1>3, <2>1, <2>2, <2>3, DeliveryFailsKeeps DEF NotPresented, Awaited, registryVars
  <2>4. CASE ~Awaited(r)
    BY <1>3, <2>1, <2>2, <2>4 DEF NotPresented, registryVars, streamVars, cursorVars, chainVars,
       ConnectionInv, SubscriptionsAccountedFor, AckInv
  <2> QED
    BY <2>3, <2>4
<1> QED
  BY <1>1, <1>2, <1>3

\* The invariant holds of every behaviour.
LEMMA Invariance == Spec => []IInv
<1>1. IInv /\ [Next]_vars => IInv'
  <2> SUFFICES ASSUME IInv, [Next]_vars PROVE IInv'
    OBVIOUS
  <2>1. CASE UNCHANGED vars
    BY <2>1 DEF vars, registryVars, streamVars, cursorVars, chainVars, handoffVars,
       IInv, TypeOK, ConnectionInv, SubscriptionsAccountedFor, WindowInv, AckInv
  <2>2. CASE Next
    BY <2>2, RegistryKeeps, ConnectionKeeps, ChainKeeps, HandoffKeeps DEF Next, Progress
  <2> QED
    BY <2>1, <2>2
<1> QED
  BY InitIInv, <1>1, PTL DEF Spec

----------------------------------------------------------------------------
(* Theorems *)

\* The page's cursors, chain and connection and the registry's queue keep
\* their types.
THEOREM FeedTypeCorrect == Spec => []TypeOK
<1>1. IInv => TypeOK
  BY DEF IInv
<1> QED
  BY <1>1, Invariance, PTL

\* A job gets one task window, however replays, the answer to its start command
\* and failed attempts interleave (jobHandoffController.ts).
THEOREM OneWindow == Spec => []OneWindowPerJob
<1>1. IInv => OneWindowPerJob
  BY DEF IInv, WindowInv, OneWindowPerJob
<1> QED
  BY <1>1, Invariance, PTL

\* The page never loses a subscription the registry holds (jobFeed.ts).
THEOREM NoSubscriptionLost == Spec => []SubscriptionsAccountedFor
<1>1. IInv => SubscriptionsAccountedFor
  BY DEF IInv, ConnectionInv
<1> QED
  BY <1>1, Invariance, PTL

\* Only a job whose window the page has opened is acknowledged.
THEOREM AcknowledgedPresented == Spec => AcknowledgedAfterPresentation
<1> DEFINE A == accepted' # accepted /\ acceptance' = acceptance => Head(chain) \in delivered
<1>1. ASSUME IInv, [Next]_vars PROVE [A]_vars
  <2> SUFFICES ASSUME Next, accepted' # accepted, acceptance' = acceptance
               PROVE  Head(chain) \in delivered
    BY <1>1
  <2>1. CASE AcknowledgeAccepted
    BY <1>1, <2>1 DEF AcknowledgeAccepted, IInv, AckInv
  <2>2. ~AcceptJob
    BY <1>1 DEF AcceptJob, IInv, TypeOK
  <2> QED
    BY <2>1, <2>2 DEF Next, Progress, Subscribe, Forward, Leave, Connected, StrayConnected,
       RetryTimer, Receive, Deliver, Acknowledged, Presented, NotPresented, HandOffAnswer,
       registryVars
<1> QED
  BY <1>1, Invariance, PTL DEF Spec, AcknowledgedAfterPresentation
=============================================================================
