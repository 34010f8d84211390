--------------------------- MODULE RequestProofs ---------------------------
(***************************************************************************)
(* Proofs about what a request of the operating system goes through:       *)
(* NativeInbox, where it waits and from where it is handed to the page,    *)
(* for any number of events, any queue limit and any threads; Coordinator, *)
(* whose process stays until the request is settled and the jobs it        *)
(* started have ended, for any number of jobs, requests and reveals.       *)
(*                                                                         *)
(* The order in which events are handled rests on where an event can be:   *)
(* in the queue, with a thread, in the chain of the page, or begun         *)
(* (InOrder). What the page may conclude from a catalog rests on how far   *)
(* the catalog, the page's sets and the registry can be apart (Knowledge). *)
(***************************************************************************)
EXTENDS NativeInbox, Coordinator, FiniteSetTheorems, SequenceTheorems, TLAPS

----------------------------------------------------------------------------
(* NativeInbox: the invariant *)

\* No event is taken in twice, nor two of one key.
Distinct == \A m, n \in DOMAIN log : Key[log[m]] = Key[log[n]] => m = n

\* The page works off what was taken in, and remembers what it completed.
Worked ==
  /\ \A p \in DOMAIN chain : chain[p] \in Range(log)
  /\ begun \subseteq Range(log) /\ completed \subseteq begun
  /\ phase = "handling" => Head(chain) \in begun \ completed
  /\ phase = "acking" => Head(chain) \in completed
  /\ \A e \in Event : effects[e] = IF e \in completed THEN 1 ELSE 0

\* Nothing is emitted to a page without a listener.
Heard ==
  /\ ready => listening
  /\ \A t \in Thread : task[t].batch # {} => listening
  /\ \A n \in DOMAIN queue : queue[n].assigned => ready

\* An event that the page has heard of.
Put(m) == log[m] \in begun \/ \E p \in DOMAIN chain : chain[p] = log[m]

\* Whatever is emitted, or is to be, comes after all that was taken in before.
InChain ==
  \A p \in DOMAIN chain, m, n \in DOMAIN log :
    chain[p] = log[n] /\ m < n =>
      log[m] \in begun \/ \E q \in DOMAIN chain : q < p /\ chain[q] = log[m]

InBatch ==
  \A t \in Thread, m, n \in DOMAIN log :
    n \in task[t].batch /\ m < n => m \in task[t].batch \/ Put(m)

\* An event stays in the queue until it was handled ...
Kept == ~shutdown => \A m \in DOMAIN log : m \in DOMAIN queue \/ log[m] \in begun

\* ... and each attempt that the page has not heard of is with a thread.
Holders(m) == {t \in Thread : m \in task[t].batch}

Tries == \A m \in DOMAIN queue : Put(m) \/ queue[m].attempts <= Cardinality(Holders(m))

InOrder == InChain /\ InBatch /\ Kept /\ Tries /\ FirstHandledInOrder

InboxInv == InboxTypeOK /\ Distinct /\ Worked /\ Heard /\ InOrder

----------------------------------------------------------------------------
(* NativeInbox: data and initial states *)

Entry == [assigned : BOOLEAN, attempts : 0 .. MaxAttempts]

Numbers == DOMAIN log

\* Numbers are positions, and name events.
LEMMA NumbersAreNat ==
  ASSUME InboxTypeOK
  PROVE  /\ Numbers = 1 .. Len(log) /\ Len(log) \in Nat /\ Numbers \subseteq Nat
         /\ \A n \in Numbers : log[n] \in Event
<1>1. log \in Seq(Event)
  BY DEF InboxTypeOK
<1>2. Len(log) \in Nat /\ DOMAIN log = 1 .. Len(log)
  BY <1>1, LenProperties
<1>3. \A n \in 1 .. Len(log) : log[n] \in Event
  BY <1>1, ElementOfSeq
<1> QED
  BY <1>2, <1>3 DEF Numbers

\* An empty queue is a queue.
LEMMA NoQueue == <<>> \in [DOMAIN <<>> -> Entry] /\ DOMAIN <<>> = {}
OBVIOUS

\* The holders of an event are finitely many.
LEMMA HoldersFinite ==
  ASSUME NEW S \in SUBSET Thread
  PROVE  IsFiniteSet(S) /\ Cardinality(S) \in Nat /\ Cardinality(S) <= Cardinality(Thread)
<1>1. IsFiniteSet(S) /\ Cardinality(S) <= Cardinality(Thread)
  BY ThreadAssumption, FS_Subset
<1> QED
  BY <1>1, FS_CardinalityType

\* The chain with one event more.
LEMMA ChainAppended ==
  ASSUME NEW s \in Seq(Event), NEW e \in Event
  PROVE  /\ Append(s, e) \in Seq(Event) /\ Append(s, e) # <<>>
         /\ DOMAIN Append(s, e) = DOMAIN s \cup {Len(s) + 1}
         /\ Append(s, e)[Len(s) + 1] = e
         /\ \A p \in DOMAIN s : Append(s, e)[p] = s[p] /\ p < Len(s) + 1 /\ p \in Nat
         /\ Len(s) + 1 \notin DOMAIN s
         /\ s # <<>> => Head(Append(s, e)) = Head(s)
<1>1. Len(s) \in Nat /\ DOMAIN s = 1 .. Len(s)
  BY LenProperties
<1>2. /\ Append(s, e) \in Seq(Event) /\ Len(Append(s, e)) = Len(s) + 1
      /\ \A p \in 1 .. Len(s) + 1 : Append(s, e)[p] = IF p <= Len(s) THEN s[p] ELSE e
  BY AppendProperties
<1>3. DOMAIN Append(s, e) = 1 .. Len(s) + 1
  BY <1>2, LenProperties
<1>4. Append(s, e) # <<>> /\ (s # <<>> => Head(Append(s, e)) = Head(s))
  BY AppendProperties, HeadTailAppend
<1> QED
  BY <1>1, <1>2, <1>3, <1>4

\* The chain without its head.
LEMMA ChainShortened ==
  ASSUME NEW s \in Seq(Event), s # <<>>
  PROVE  /\ Tail(s) \in Seq(Event) /\ Head(s) \in Event /\ Head(s) = s[1]
         /\ 1 \in DOMAIN s /\ DOMAIN s \subseteq Nat
         /\ \A p \in DOMAIN Tail(s) : p \in Nat /\ p + 1 \in DOMAIN s /\ Tail(s)[p] = s[p + 1]
         /\ \A p \in DOMAIN s : p # 1 => p - 1 \in DOMAIN Tail(s) /\ Tail(s)[p - 1] = s[p]
<1>1. Len(s) \in Nat \ {0} /\ DOMAIN s = 1 .. Len(s)
  BY LenProperties, EmptySeq
<1>2. /\ Head(s) \in Event /\ Tail(s) \in Seq(Event) /\ Len(Tail(s)) = Len(s) - 1
      /\ \A p \in 1 .. Len(Tail(s)) : Tail(s)[p] = s[p + 1]
  BY HeadTailProperties
<1>3. DOMAIN Tail(s) = 1 .. Len(s) - 1
  BY <1>2, LenProperties
<1>4. Head(s) = s[1]
  OBVIOUS
<1> QED
  BY <1>1, <1>2, <1>3, <1>4

LEMMA InitInboxInv == InboxInit => InboxInv
<1> SUFFICES ASSUME InboxInit PROVE InboxInv
  OBVIOUS
<1>1. <<>> \in Seq(Event) /\ DOMAIN <<>> = {}
  BY EmptySeq, NoQueue
<1>2. InboxTypeOK
  <2>1. Cardinality(DOMAIN queue) <= QueueLimit
    BY <1>1, FS_EmptySet, LimitAssumption DEF InboxInit
  <2>2. queue \in [DOMAIN queue -> [assigned : BOOLEAN, attempts : 0 .. MaxAttempts]]
    BY NoQueue DEF InboxInit, Entry
  <2>3. /\ {attached, ready, shutdown, listening} \subseteq BOOLEAN
        /\ task \in [Thread -> [pc : {"idle", "deliver", "emit"}, batch : SUBSET DOMAIN log]]
        /\ \A t \in Thread : task[t].pc = "emit" <=> task[t].batch # {}
        /\ effects \in [Event -> Nat]
    BY DEF InboxInit
  <2> QED
    BY <1>1, <2>1, <2>2, <2>3 DEF InboxInit, InboxTypeOK
<1>3. Distinct /\ Worked /\ Heard
  BY <1>1 DEF InboxInit, Distinct, Worked, Heard
<1>4. InOrder
  BY <1>1 DEF InboxInit, InOrder, InChain, InBatch, Kept, Tries, FirstHandledInOrder
<1> QED
  BY <1>2, <1>3, <1>4 DEF InboxInv

----------------------------------------------------------------------------
(* NativeInbox: setting up and shutting down *)

TaskSet == [Thread -> [pc : {"idle", "deliver", "emit"}, batch : SUBSET Numbers]]

\* A thread that goes on to deliver has nothing to emit yet.
LEMMA GoesOn ==
  ASSUME InboxTypeOK, NEW t \in Thread, Idle(t), ThenDeliver(t)
  PROVE  /\ task' \in TaskSet
         /\ \A u \in Thread : task'[u].pc = "emit" <=> task'[u].batch # {}
         /\ \A u \in Thread : task'[u].batch = task[u].batch
<1>1. /\ task \in TaskSet /\ task[t].pc = "idle"
      /\ \A u \in Thread : task[u].pc = "emit" <=> task[u].batch # {}
      /\ task' = [task EXCEPT ![t].pc = "deliver"]
  BY DEF InboxTypeOK, Idle, ThenDeliver, TaskSet, Numbers
<1>2. \A u \in Thread : /\ task'[u].batch = task[u].batch
                        /\ task'[u].pc = IF u = t THEN "deliver" ELSE task[u].pc
  BY <1>1 DEF TaskSet
<1>3. task' \in TaskSet
  BY <1>1 DEF TaskSet
<1> QED
  BY <1>1, <1>2, <1>3

\* Whatever leaves the events alone leaves their order alone.
LEMMA SameOrder ==
  ASSUME InOrder, UNCHANGED <<log, queue, chain, begun>>, shutdown' = shutdown,
         \A u \in Thread : task'[u].batch = task[u].batch
  PROVE  InOrder'
<1>1. InChain' /\ Kept' /\ FirstHandledInOrder'
  BY DEF InOrder, InChain, Kept, FirstHandledInOrder
<1>2. InBatch'
  BY DEF InOrder, InBatch, Put
<1>3. \A m : Holders(m)' = Holders(m)
  BY DEF Holders
<1>4. Tries'
  BY <1>3 DEF InOrder, Tries, Put
<1> QED
  BY <1>1, <1>2, <1>4 DEF InOrder

LEMMA SetUpKeeps ==
  ASSUME InboxInv, Attach \/ FrontendReady \/ Listen
  PROVE  InboxInv'
<1>1. InboxTypeOK /\ Distinct /\ Worked /\ Heard /\ InOrder
  BY DEF InboxInv
<1>2. UNCHANGED <<log, queue, shutdown, chain, phase, completed, begun, effects, failed>>
  BY DEF Attach, FrontendReady, Listen, stateVars, pageVars
<1>3. /\ task' \in TaskSet
      /\ \A u \in Thread : task'[u].pc = "emit" <=> task'[u].batch # {}
      /\ \A u \in Thread : task'[u].batch = task[u].batch
  <2>1. CASE Attach \/ FrontendReady
    BY <1>1, <2>1, GoesOn, ThreadAssumption DEF Attach, FrontendReady
  <2>2. CASE Listen
    BY <1>1, <2>2 DEF Listen, InboxTypeOK, TaskSet, Numbers
  <2> QED
    BY <2>1, <2>2
<1>4. /\ attached' \in BOOLEAN /\ ready' \in BOOLEAN /\ listening' \in BOOLEAN
      /\ shutdown' \in BOOLEAN
      /\ (listening => listening') /\ (ready' => ready \/ listening) /\ (ready => ready')
  <2>1. /\ attached' = attached \/ attached' = TRUE
        /\ ready' = ready \/ (ready' = TRUE /\ listening)
        /\ listening' = listening \/ listening' = TRUE
    BY DEF Attach, FrontendReady, Listen, stateVars, pageVars
  <2>2. /\ attached \in BOOLEAN /\ ready \in BOOLEAN /\ listening \in BOOLEAN
        /\ shutdown \in BOOLEAN
    BY <1>1 DEF InboxTypeOK
  <2>3. attached' \in BOOLEAN /\ listening' \in BOOLEAN /\ (listening => listening')
    BY <2>1, <2>2
  <2>4. ready' \in BOOLEAN /\ (ready' => ready \/ listening) /\ (ready => ready')
    <3>1. CASE ready' = ready
      BY <2>2, <3>1, Zenon
    <3>2. CASE ready' = TRUE /\ listening
      BY <3>2
    <3> QED
      BY <2>1, <3>1, <3>2
  <2>5. shutdown' \in BOOLEAN
    BY <1>2, <2>2
  <2> QED
    BY <2>3, <2>4, <2>5
<1>5. InboxTypeOK'
  BY <1>1, <1>2, <1>3, <1>4 DEF InboxTypeOK, TaskSet, Numbers
<1>6. Distinct' /\ Worked'
  BY <1>1, <1>2 DEF Distinct, Worked
<1>7. Heard'
  BY <1>1, <1>2, <1>3, <1>4 DEF Heard
<1>8. InOrder'
  BY <1>1, <1>2, <1>3, SameOrder
<1> QED
  BY <1>5, <1>6, <1>7, <1>8 DEF InboxInv

\* The exit drops the queue; what was collected may still be emitted.
LEMMA ShutdownKeeps ==
  ASSUME InboxInv, Shutdown
  PROVE  InboxInv'
<1>1. InboxTypeOK /\ Distinct /\ Worked /\ Heard /\ InOrder
  BY DEF InboxInv
<1>2. /\ UNCHANGED <<log, task, listening, chain, phase, completed, begun, effects, failed>>
      /\ queue' = <<>> /\ ready' = FALSE /\ attached' = FALSE /\ shutdown' = TRUE
  BY DEF Shutdown, pageVars
<1>3. InboxTypeOK'
  <2>1. /\ queue' \in [DOMAIN queue' -> [assigned : BOOLEAN, attempts : 0 .. MaxAttempts]]
        /\ DOMAIN queue' = {}
    BY <1>2, NoQueue DEF Entry
  <2>2. Cardinality(DOMAIN queue') <= QueueLimit
    BY <2>1, FS_EmptySet, LimitAssumption
  <2> QED
    BY <1>1, <1>2, <2>1, <2>2 DEF InboxTypeOK
<1>4. Distinct' /\ Worked'
  BY <1>1, <1>2 DEF Distinct, Worked
<1>5. Heard'
  BY <1>1, <1>2, NoQueue DEF Heard
<1>6. InOrder'
  BY <1>1, <1>2, NoQueue
  DEF InOrder, InChain, InBatch, Put, Kept, Tries, FirstHandledInOrder
<1> QED
  BY <1>3, <1>4, <1>5, <1>6 DEF InboxInv

----------------------------------------------------------------------------
(* NativeInbox: taking events in *)

\* The queue has finitely many places taken.
LEMMA QueueFinite ==
  ASSUME InboxTypeOK
  PROVE  IsFiniteSet(DOMAIN queue) /\ Cardinality(DOMAIN queue) \in Nat
<1>1. DOMAIN queue \subseteq 1 .. Len(log) /\ Len(log) \in Nat
  BY NumbersAreNat DEF InboxTypeOK, Numbers
<1>2. IsFiniteSet(1 .. Len(log))
  BY <1>1, FS_Interval
<1>3. IsFiniteSet(DOMAIN queue)
  BY <1>1, <1>2, FS_Subset
<1> QED
  BY <1>3, FS_CardinalityType

\* The new event comes last, in the log and in the queue.
LEMMA Enqueued ==
  ASSUME InboxTypeOK, NEW e \in Event, Enqueue(e)
  PROVE  LET N == Len(log) + 1 IN
         /\ log' \in Seq(Event) /\ Numbers' = Numbers \cup {N} /\ N \notin Numbers
         /\ log'[N] = e
         /\ \A n \in Numbers : log'[n] = log[n] /\ n < N /\ n \in Nat
         /\ queue' \in [DOMAIN queue' -> Entry]
         /\ DOMAIN queue' = DOMAIN queue \cup {N} /\ N \notin DOMAIN queue
         /\ \A n \in DOMAIN queue : queue'[n] = queue[n]
         /\ queue'[N] = [assigned |-> FALSE, attempts |-> 0]
<1> DEFINE N == Len(log) + 1
           fresh == [assigned |-> FALSE, attempts |-> 0]
<1>1. log \in Seq(Event) /\ log' = Append(log, e)
  BY DEF InboxTypeOK, Enqueue
<1>2. /\ log' \in Seq(Event) /\ DOMAIN log' = DOMAIN log \cup {N} /\ N \notin DOMAIN log
      /\ log'[N] = e
      /\ \A n \in DOMAIN log : log'[n] = log[n] /\ n < N /\ n \in Nat
  BY <1>1, ChainAppended
<1>3. /\ queue \in [DOMAIN queue -> Entry] /\ DOMAIN queue \subseteq DOMAIN log
  BY DEF InboxTypeOK, Entry
<1>4. queue' = [n \in DOMAIN queue \cup {N} |-> IF n \in DOMAIN queue THEN queue[n] ELSE fresh]
  BY DEF Enqueue
<1>5. fresh \in Entry
  BY LimitAssumption DEF Entry
<1> HIDE DEF N, fresh
<1>6. /\ queue' \in [DOMAIN queue' -> Entry]
      /\ DOMAIN queue' = DOMAIN queue \cup {N} /\ N \notin DOMAIN queue
      /\ \A n \in DOMAIN queue : queue'[n] = queue[n]
      /\ queue'[N] = fresh
  BY <1>2, <1>3, <1>4, <1>5
<1> QED
  BY <1>2, <1>6 DEF N, fresh, Numbers

LEMMA IngestKeeps ==
  ASSUME InboxInv, NEW t \in Thread, NEW e \in Event, Ingest(t, e)
  PROVE  InboxInv'
<1> DEFINE N == Len(log) + 1
<1>1. InboxTypeOK /\ Distinct /\ Worked /\ Heard /\ InOrder
  BY DEF InboxInv
<1>2. /\ UNCHANGED <<attached, ready, shutdown, listening, chain, phase, completed, begun,
                     effects, failed>>
      /\ Idle(t) /\ ThenDeliver(t) /\ Enqueue(e) /\ ~Duplicate(e)
      /\ Cardinality(DOMAIN queue) < QueueLimit
  BY DEF Ingest, pageVars
<1>3. /\ log' \in Seq(Event) /\ Numbers' = Numbers \cup {N} /\ N \notin Numbers
      /\ log'[N] = e
      /\ \A n \in Numbers : log'[n] = log[n] /\ n < N /\ n \in Nat
      /\ queue' \in [DOMAIN queue' -> Entry]
      /\ DOMAIN queue' = DOMAIN queue \cup {N} /\ N \notin DOMAIN queue
      /\ \A n \in DOMAIN queue : queue'[n] = queue[n]
      /\ queue'[N] = [assigned |-> FALSE, attempts |-> 0]
  BY <1>1, <1>2, Enqueued
<1>4. /\ task' \in TaskSet
      /\ \A u \in Thread : task'[u].pc = "emit" <=> task'[u].batch # {}
      /\ \A u \in Thread : task'[u].batch = task[u].batch /\ task[u].batch \subseteq Numbers
  BY <1>1, <1>2, GoesOn DEF TaskSet, InboxTypeOK, Numbers
<1>5. \A n \in Numbers : log[n] # e /\ Key[log[n]] # Key[e]
  BY <1>2 DEF Duplicate, Numbers
<1>6. N \in Nat
  BY <1>1, NumbersAreNat
<1> HIDE DEF N
<1>7. InboxTypeOK'
  <2>1. Cardinality(DOMAIN queue') <= QueueLimit
    <3>1. IsFiniteSet(DOMAIN queue) /\ Cardinality(DOMAIN queue) \in Nat
      BY <1>1, QueueFinite
    <3>2. Cardinality(DOMAIN queue') = Cardinality(DOMAIN queue) + 1
      BY <1>3, <3>1, FS_AddElement
    <3> QED
      BY <1>2, <3>1, <3>2, LimitAssumption
  <2>2. task' \in [Thread -> [pc : {"idle", "deliver", "emit"}, batch : SUBSET DOMAIN log']]
    BY <1>3, <1>4 DEF TaskSet, Numbers
  <2>3. DOMAIN queue' \subseteq DOMAIN log'
    BY <1>1, <1>3 DEF InboxTypeOK, Numbers
  <2> QED
    BY <1>1, <1>2, <1>3, <1>4, <2>1, <2>2, <2>3 DEF InboxTypeOK, Entry
<1>8. Distinct'
  BY <1>1, <1>3, <1>5 DEF Distinct, Numbers
<1>9. Range(log) \subseteq Range(log') /\ \A x \in Range(log) : x # e
  BY <1>3, <1>5 DEF Range, Numbers
<1>10. Worked'
  BY <1>1, <1>2, <1>9 DEF Worked
<1>11. Heard'
  BY <1>1, <1>2, <1>3, <1>4 DEF Heard
<1>12. e \notin begun /\ \A p \in DOMAIN chain : chain[p] # e
  BY <1>1, <1>9 DEF Worked
<1>13. InChain'
  <2> SUFFICES ASSUME NEW p \in DOMAIN chain, NEW m \in Numbers', NEW n \in Numbers',
                      chain[p] = log'[n], m < n
               PROVE  log'[m] \in begun \/ \E q \in DOMAIN chain : q < p /\ chain[q] = log'[m]
    BY <1>2 DEF InChain, Numbers
  <2>1. n \in Numbers /\ m \in Numbers
    BY <1>3, <1>6, <1>12
  <2> QED
    BY <1>1, <1>3, <2>1 DEF InOrder, InChain, Numbers
<1>14. \A m \in Numbers : Put(m)' <=> Put(m)
  BY <1>2, <1>3 DEF Put
<1>15. InBatch'
  <2> SUFFICES ASSUME NEW u \in Thread, NEW m \in Numbers', NEW n \in Numbers',
                      n \in task'[u].batch, m < n
               PROVE  m \in task'[u].batch \/ Put(m)'
    BY DEF InBatch, Numbers
  <2>1. n \in Numbers /\ m \in Numbers /\ n \in task[u].batch
    BY <1>3, <1>4, <1>6
  <2> QED
    BY <1>1, <1>4, <1>14, <2>1 DEF InOrder, InBatch, Numbers
<1>16. Kept'
  BY <1>1, <1>2, <1>3 DEF InOrder, Kept, Numbers
<1>17. Tries'
  <2> SUFFICES ASSUME NEW m \in DOMAIN queue'
               PROVE  Put(m)' \/ queue'[m].attempts <= Cardinality(Holders(m)')
    BY DEF Tries
  <2>1. Holders(m)' = Holders(m)
    BY <1>4 DEF Holders
  <2>2. CASE m \in DOMAIN queue
    BY <1>1, <1>3, <1>14, <2>1, <2>2 DEF InOrder, Tries, InboxTypeOK, Numbers
  <2>3. CASE m = N
    BY <1>3, <2>1, <2>3, HoldersFinite DEF Holders
  <2> QED
    BY <1>3, <2>2, <2>3
<1>18. FirstHandledInOrder'
  <2> SUFFICES ASSUME NEW j \in Numbers', log'[j] \in begun, NEW i \in 1 .. j
               PROVE  log'[i] \in begun
    BY <1>2 DEF FirstHandledInOrder, Numbers
  <2>1. j \in Numbers
    BY <1>3, <1>12
  <2>2. i \in Numbers
    BY <1>1, <2>1, NumbersAreNat
  <2> QED
    BY <1>1, <1>3, <2>1, <2>2 DEF InOrder, FirstHandledInOrder, Numbers
<1> QED
  BY <1>7, <1>8, <1>10, <1>11, <1>13, <1>15, <1>16, <1>17, <1>18 DEF InboxInv, InOrder

----------------------------------------------------------------------------
(* NativeInbox: the page *)

\* The head of the chain is an event that was taken in.
LEMMA HeadTaken ==
  ASSUME InboxTypeOK, Worked, chain # <<>>
  PROVE  /\ Head(chain) \in Event /\ Head(chain) \in Range(log)
         /\ Head(chain) = chain[1] /\ 1 \in DOMAIN chain /\ DOMAIN chain \subseteq Nat
<1>1. chain \in Seq(Event)
  BY DEF InboxTypeOK
<1>2. /\ Head(chain) \in Event /\ Head(chain) = chain[1]
      /\ 1 \in DOMAIN chain /\ DOMAIN chain \subseteq Nat
  BY <1>1, ChainShortened
<1> QED
  BY <1>2 DEF Worked

\* What the page has begun, it has begun in the order of the chain.
LEMMA BegunInOrder ==
  ASSUME InboxTypeOK, Worked, Distinct, InOrder, chain # <<>>,
         UNCHANGED <<log, queue, task, shutdown, chain>>,
         begun' = begun \/ begun' = begun \cup {Head(chain)}
  PROVE  InOrder'
<1>1. /\ Head(chain) \in Event /\ Head(chain) \in Range(log)
      /\ Head(chain) = chain[1] /\ 1 \in DOMAIN chain /\ DOMAIN chain \subseteq Nat
  BY HeadTaken
<1>2. begun \subseteq begun'
  OBVIOUS
<1>3. InChain' /\ InBatch' /\ Kept'
  BY <1>2 DEF InOrder, InChain, InBatch, Put, Kept
<1>4. Tries'
  <2>1. \A m : Holders(m)' = Holders(m)
    BY DEF Holders
  <2> QED
    BY <1>2, <2>1 DEF InOrder, Tries, Put
<1>5. FirstHandledInOrder'
  <2> SUFFICES ASSUME NEW j \in Numbers, log[j] \in begun', NEW i \in 1 .. j
               PROVE  log[i] \in begun'
    BY DEF FirstHandledInOrder, Numbers
  <2>1. CASE log[j] \in begun
    BY <1>2, <2>1 DEF InOrder, FirstHandledInOrder, Numbers
  <2>2. CASE log[j] = Head(chain) /\ i # j /\ begun' = begun \cup {Head(chain)}
    <3>1. i \in Numbers /\ i < j
      BY <2>2, NumbersAreNat
    <3>2. chain[1] = log[j]
      BY <1>1, <2>2
    <3>3. log[i] \in begun \/ \E q \in DOMAIN chain : q < 1 /\ chain[q] = log[i]
      BY <1>1, <3>1, <3>2 DEF InOrder, InChain, Numbers
    <3>4. \A q \in DOMAIN chain : ~(q < 1)
      <4>1. chain \in Seq(Event)
        BY DEF InboxTypeOK
      <4>2. DOMAIN chain = 1 .. Len(chain)
        BY <4>1, LenProperties
      <4> QED
        BY <4>2
    <3> QED
      BY <1>2, <3>3, <3>4
  <2> QED
    BY <2>1, <2>2
<1> QED
  BY <1>3, <1>4, <1>5 DEF InOrder

LEMMA ProcessKeeps ==
  ASSUME InboxInv, Process
  PROVE  InboxInv'
<1>1. InboxTypeOK /\ Distinct /\ Worked /\ Heard /\ InOrder
  BY DEF InboxInv
<1>2. /\ UNCHANGED <<queue, log, attached, ready, shutdown, task, listening, chain,
                     completed, effects, failed>>
      /\ phase = "idle" /\ chain # <<>>
      /\ \/ Head(chain) \in completed /\ phase' = "acking" /\ begun' = begun
         \/ /\ Head(chain) \notin completed /\ phase' = "handling"
            /\ begun' = begun \cup {Head(chain)}
  BY DEF Process, stateVars
<1>3. Head(chain) \in Event /\ Head(chain) \in Range(log)
  BY <1>1, <1>2, HeadTaken
<1>4. InboxTypeOK'
  BY <1>1, <1>2, <1>3 DEF InboxTypeOK
<1>5. Distinct' /\ Heard'
  BY <1>1, <1>2 DEF Distinct, Heard
<1>6. Worked'
  BY <1>1, <1>2, <1>3 DEF Worked
<1>7. InOrder'
  BY <1>1, <1>2, BegunInOrder
<1> QED
  BY <1>4, <1>5, <1>6, <1>7 DEF InboxInv

LEMMA HandledKeeps ==
  ASSUME InboxInv, Handled
  PROVE  InboxInv'
<1>1. InboxTypeOK /\ Distinct /\ Worked /\ Heard /\ InOrder
  BY DEF InboxInv
<1>2. /\ UNCHANGED <<queue, log, attached, ready, shutdown, task, listening, chain, begun,
                     failed>>
      /\ phase = "handling" /\ phase' = "acking" /\ chain # <<>>
      /\ completed' = completed \cup {Head(chain)}
      /\ effects' = [effects EXCEPT ![Head(chain)] = @ + 1]
  BY <1>1 DEF Handled, stateVars, InboxTypeOK
<1>3. Head(chain) \in Event /\ Head(chain) \in begun \ completed
  BY <1>1, <1>2, HeadTaken DEF Worked
<1>4. effects' \in [Event -> Nat]
      /\ \A e \in Event : effects'[e] = IF e \in completed' THEN 1 ELSE 0
  BY <1>1, <1>2, <1>3 DEF InboxTypeOK, Worked
<1>5. InboxTypeOK'
  BY <1>1, <1>2, <1>3, <1>4 DEF InboxTypeOK
<1>6. Distinct' /\ Heard'
  BY <1>1, <1>2 DEF Distinct, Heard
<1>7. Worked'
  BY <1>1, <1>2, <1>3, <1>4 DEF Worked
<1>8. InOrder'
  BY <1>1, <1>2, BegunInOrder
<1> QED
  BY <1>5, <1>6, <1>7, <1>8 DEF InboxInv

\* The head leaves the chain, when it was begun.
LEMMA HeadLeaves ==
  ASSUME InboxTypeOK, Worked, InOrder, chain # <<>>, Head(chain) \in begun,
         chain' = Tail(chain), UNCHANGED <<log, begun>>
  PROVE  /\ chain' \in Seq(Event)
         /\ \A p \in DOMAIN chain' : chain'[p] \in Range(log)
         /\ \A m : Put(m)' <=> Put(m)
         /\ InChain'
<1>1. chain \in Seq(Event)
  BY DEF InboxTypeOK
<1>2. /\ chain' \in Seq(Event) /\ Head(chain) = chain[1] /\ DOMAIN chain \subseteq Nat
      /\ \A p \in DOMAIN chain' : p \in Nat /\ p + 1 \in DOMAIN chain /\ chain'[p] = chain[p + 1]
      /\ \A p \in DOMAIN chain : p # 1 => p - 1 \in DOMAIN chain' /\ chain'[p - 1] = chain[p]
  BY <1>1, ChainShortened
<1>3. \A p \in DOMAIN chain' : chain'[p] \in Range(log)
  BY <1>2 DEF Worked
<1>4. \A m : Put(m)' <=> Put(m)
  <2> SUFFICES ASSUME NEW m, log[m] \notin begun
               PROVE  (\E p \in DOMAIN chain' : chain'[p] = log[m])
                        <=> (\E p \in DOMAIN chain : chain[p] = log[m])
    BY DEF Put
  <2>1. ASSUME NEW p \in DOMAIN chain', chain'[p] = log[m]
        PROVE  \E q \in DOMAIN chain : chain[q] = log[m]
    BY <1>2, <2>1
  <2>2. ASSUME NEW p \in DOMAIN chain, chain[p] = log[m]
        PROVE  \E q \in DOMAIN chain' : chain'[q] = log[m]
    <3>1. p # 1
      BY <1>2, <2>2
    <3> QED
      BY <1>2, <2>2, <3>1
  <2> QED
    BY <2>1, <2>2
<1>5. InChain'
  <2> SUFFICES ASSUME NEW p \in DOMAIN chain', NEW m \in Numbers, NEW n \in Numbers,
                      chain'[p] = log[n], m < n, log[m] \notin begun
               PROVE  \E q \in DOMAIN chain' : q < p /\ chain'[q] = log[m]
    BY DEF InChain, Numbers
  <2>1. p \in Nat /\ p + 1 \in DOMAIN chain /\ chain[p + 1] = log[n]
    BY <1>2
  <2>2. PICK q \in DOMAIN chain : q < p + 1 /\ chain[q] = log[m]
    BY <2>1 DEF InOrder, InChain, Numbers
  <2>3. q # 1
    BY <1>2, <2>2
  <2>4. q - 1 \in DOMAIN chain' /\ chain'[q - 1] = log[m] /\ q \in Nat
    BY <1>2, <2>2, <2>3
  <2>5. q - 1 < p
    BY <2>1, <2>2, <2>4
  <2> QED
    BY <2>4, <2>5
<1> QED
  BY <1>2, <1>3, <1>4, <1>5

LEMMA NotHandledKeeps ==
  ASSUME InboxInv, NotHandled
  PROVE  InboxInv'
<1>1. InboxTypeOK /\ Distinct /\ Worked /\ Heard /\ InOrder
  BY DEF InboxInv
<1>2. /\ UNCHANGED <<queue, log, attached, ready, shutdown, task, listening, completed, begun,
                     effects>>
      /\ phase = "handling" /\ phase' = "idle" /\ chain # <<>>
      /\ failed' = Append(failed, Head(chain)) /\ chain' = Tail(chain)
  BY <1>1 DEF NotHandled, stateVars, InboxTypeOK
<1>3. Head(chain) \in Event /\ Head(chain) \in begun
  BY <1>1, <1>2, HeadTaken DEF Worked
<1>4. /\ chain' \in Seq(Event)
      /\ \A p \in DOMAIN chain' : chain'[p] \in Range(log)
      /\ \A m : Put(m)' <=> Put(m)
      /\ InChain'
  BY <1>1, <1>2, <1>3, HeadLeaves
<1>5. failed' \in Seq(Event)
  BY <1>1, <1>2, <1>3, AppendProperties DEF InboxTypeOK
<1>6. InboxTypeOK'
  BY <1>1, <1>2, <1>4, <1>5 DEF InboxTypeOK
<1>7. Distinct' /\ Heard'
  BY <1>1, <1>2 DEF Distinct, Heard
<1>8. Worked'
  BY <1>1, <1>2, <1>4 DEF Worked
<1>9. InBatch' /\ Kept' /\ FirstHandledInOrder'
  BY <1>1, <1>2, <1>4 DEF InOrder, InBatch, Kept, FirstHandledInOrder
<1>10. Tries'
  BY <1>1, <1>2, <1>4 DEF InOrder, Tries, Holders
<1> QED
  BY <1>4, <1>6, <1>7, <1>8, <1>9, <1>10 DEF InboxInv, InOrder

LEMMA AcknowledgeKeeps ==
  ASSUME InboxInv, Acknowledge
  PROVE  InboxInv'
<1>1. InboxTypeOK /\ Distinct /\ Worked /\ Heard /\ InOrder
  BY DEF InboxInv
<1> DEFINE left == {n \in DOMAIN queue : log[n] = Head(chain) => ~queue[n].assigned}
<1>2. /\ UNCHANGED <<log, attached, ready, shutdown, task, listening, completed, begun,
                     effects, failed>>
      /\ phase = "acking" /\ phase' = "idle" /\ chain # <<>>
      /\ queue' = Restrict(queue, left) /\ chain' = Tail(chain)
  BY <1>1 DEF Acknowledge, InboxTypeOK
<1>3. Head(chain) \in begun
  BY <1>1, <1>2 DEF Worked
<1>4. /\ chain' \in Seq(Event)
      /\ \A p \in DOMAIN chain' : chain'[p] \in Range(log)
      /\ \A m : Put(m)' <=> Put(m)
      /\ InChain'
  BY <1>1, <1>2, <1>3, HeadLeaves
<1>5. \A n \in DOMAIN queue : n \in left \/ log[n] \in begun
  BY <1>3
<1>6. left \subseteq DOMAIN queue
  OBVIOUS
<1> HIDE DEF left
<1>7. DOMAIN queue' = left /\ \A n \in left : queue'[n] = queue[n]
  BY <1>2 DEF Restrict
<1>8. InboxTypeOK'
  <2>1. queue' \in [DOMAIN queue' -> [assigned : BOOLEAN, attempts : 0 .. MaxAttempts]]
    BY <1>1, <1>2, <1>6, <1>7 DEF InboxTypeOK, Restrict
  <2>2. Cardinality(DOMAIN queue') <= QueueLimit
    <3>1. IsFiniteSet(DOMAIN queue) /\ Cardinality(DOMAIN queue) \in Nat
      BY <1>1, QueueFinite
    <3>2. IsFiniteSet(left) /\ Cardinality(left) <= Cardinality(DOMAIN queue)
      BY <1>6, <3>1, FS_Subset
    <3>3. Cardinality(left) \in Nat
      BY <3>2, FS_CardinalityType
    <3> QED
      BY <1>1, <1>7, <3>1, <3>2, <3>3, LimitAssumption DEF InboxTypeOK
  <2> QED
    BY <1>1, <1>2, <1>4, <1>6, <1>7, <2>1, <2>2 DEF InboxTypeOK
<1>9. Distinct' /\ Heard'
  BY <1>1, <1>2, <1>6, <1>7 DEF Distinct, Heard
<1>10. Worked'
  BY <1>1, <1>2, <1>4 DEF Worked
<1>11. InBatch' /\ FirstHandledInOrder'
  BY <1>1, <1>2, <1>4 DEF InOrder, InBatch, FirstHandledInOrder
<1>12. Kept'
  BY <1>1, <1>2, <1>5, <1>7 DEF InOrder, Kept
<1>13. Tries'
  BY <1>1, <1>2, <1>4, <1>6, <1>7 DEF InOrder, Tries, Holders
<1> QED
  BY <1>4, <1>8, <1>9, <1>10, <1>11, <1>12, <1>13 DEF InboxInv, InOrder

----------------------------------------------------------------------------
(* NativeInbox: collecting *)

\* A thread that is not emitting holds none of the events it may be given.
LEMMA FewerHold ==
  ASSUME InboxTypeOK, NEW t \in Thread, task[t].batch = {}, NEW m
  PROVE  /\ t \notin Holders(m) /\ IsFiniteSet(Holders(m)) /\ Cardinality(Holders(m)) \in Nat
         /\ Cardinality(Holders(m) \cup {t}) = Cardinality(Holders(m)) + 1
         /\ Cardinality(Holders(m)) < MaxAttempts
<1>1. Holders(m) \subseteq Thread /\ t \notin Holders(m)
  BY DEF Holders
<1>2. IsFiniteSet(Holders(m)) /\ Cardinality(Holders(m)) \in Nat
  BY <1>1, HoldersFinite
<1>3. Cardinality(Holders(m) \cup {t}) = Cardinality(Holders(m)) + 1
  BY <1>1, <1>2, FS_AddElement
<1>4. Cardinality(Holders(m) \cup {t}) <= Cardinality(Thread)
  BY <1>1, HoldersFinite
<1>5. Cardinality(Thread) \in Nat
  BY ThreadAssumption, FS_CardinalityType
<1> QED
  BY <1>1, <1>2, <1>3, <1>4, <1>5, AttemptsAssumption, LimitAssumption

\* The lock was taken too late, after the exit, or too early.
LEMMA CollectNothingKeeps ==
  ASSUME InboxInv, NEW t \in Thread, Collect(t), shutdown \/ ~attached
  PROVE  InboxInv'
<1>1. InboxTypeOK /\ Distinct /\ Worked /\ Heard /\ InOrder
  BY DEF InboxInv
<1>2. /\ UNCHANGED <<log, queue, attached, ready, shutdown, listening, chain, phase, completed,
                     begun, effects, failed>>
      /\ task[t].pc = "deliver" /\ task' = [task EXCEPT ![t].pc = "idle"]
  BY DEF Collect, pageVars
<1>3. task \in TaskSet /\ \A u \in Thread : task[u].pc = "emit" <=> task[u].batch # {}
  BY <1>1 DEF InboxTypeOK, TaskSet, Numbers
<1>4. \A u \in Thread : /\ task'[u].batch = task[u].batch
                        /\ task'[u].pc = IF u = t THEN "idle" ELSE task[u].pc
  BY <1>2, <1>3 DEF TaskSet
<1>5. task' \in TaskSet
  BY <1>2, <1>3 DEF TaskSet
<1>6. \A u \in Thread : task'[u].pc = "emit" <=> task'[u].batch # {}
  BY <1>2, <1>3, <1>4
<1>7. InboxTypeOK'
  BY <1>1, <1>2, <1>5, <1>6 DEF InboxTypeOK, TaskSet, Numbers
<1>8. Distinct' /\ Worked' /\ Heard'
  BY <1>1, <1>2, <1>4 DEF Distinct, Worked, Heard
<1>9. InOrder'
  BY <1>1, <1>2, <1>4, SameOrder
<1> QED
  BY <1>7, <1>8, <1>9 DEF InboxInv

\* What is collected was attempted once more, and is with the thread.
LEMMA CollectKeeps ==
  ASSUME InboxInv, NEW t \in Thread, Collect(t), ~shutdown, attached
  PROVE  InboxInv'
<1>1. InboxTypeOK /\ Distinct /\ Worked /\ Heard /\ InOrder
  BY DEF InboxInv
<1> DEFINE pc == IF DueNow = {} THEN "idle" ELSE "emit"
<1>2. /\ UNCHANGED <<log, attached, ready, shutdown, listening, chain, phase, completed, begun,
                     effects, failed>>
      /\ task[t].pc = "deliver" /\ queue' = Collected
      /\ task' = [task EXCEPT ![t] = [pc |-> pc, batch |-> DueNow]]
  BY DEF Collect, pageVars
<1>3. /\ task \in TaskSet /\ \A u \in Thread : task[u].pc = "emit" <=> task[u].batch # {}
      /\ queue \in [DOMAIN queue -> Entry] /\ DOMAIN queue \subseteq Numbers
  BY <1>1 DEF InboxTypeOK, TaskSet, Numbers, Entry
<1>4. task[t].batch = {} /\ DueNow \subseteq DOMAIN queue /\ DueNow \subseteq Numbers
  BY <1>2, <1>3 DEF DueNow
<1>5. pc \in {"idle", "emit"} /\ (pc = "emit" <=> DueNow # {})
  OBVIOUS
<1> HIDE DEF pc
<1>6. /\ task'[t].batch = DueNow /\ task'[t].pc = pc
      /\ \A u \in Thread \ {t} : task'[u] = task[u]
  BY <1>2, <1>3 DEF TaskSet
<1>7. task' \in TaskSet
  BY <1>2, <1>3, <1>4, <1>5 DEF TaskSet
<1>8. \A u \in Thread : task'[u].pc = "emit" <=> task'[u].batch # {}
  BY <1>3, <1>5, <1>6
<1>9. \A n \in DueNow : ready /\ queue[n].attempts + 1 \in 1 .. MaxAttempts
  BY <1>1, <1>3, LimitAssumption DEF DueNow, Due, Heard, Entry
<1>10. /\ queue' \in [DOMAIN queue' -> Entry] /\ DOMAIN queue' = DOMAIN queue
       /\ \A n \in DOMAIN queue :
            /\ queue'[n].assigned => queue[n].assigned \/ ready
            /\ n \in DueNow => queue'[n].attempts = queue[n].attempts + 1
            /\ n \notin DueNow => queue'[n].attempts = queue[n].attempts
  <2>1. DOMAIN queue' = DOMAIN queue
    BY <1>2 DEF Collected
  <2> SUFFICES ASSUME NEW n \in DOMAIN queue
               PROVE  /\ queue'[n] \in Entry
                      /\ queue'[n].assigned => queue[n].assigned \/ ready
                      /\ n \in DueNow => queue'[n].attempts = queue[n].attempts + 1
                      /\ n \notin DueNow => queue'[n].attempts = queue[n].attempts
    BY <1>2, <2>1 DEF Collected
  <2>2. queue'[n] = [assigned |-> queue[n].assigned \/ ready,
                     attempts |-> queue[n].attempts + (IF Due(queue[n]) THEN 1 ELSE 0)]
    BY <1>2 DEF Collected
  <2>3. n \in DueNow <=> Due(queue[n])
    BY DEF DueNow
  <2>4. queue[n].attempts \in 0 .. MaxAttempts /\ queue[n].assigned \in BOOLEAN
        /\ ready \in BOOLEAN
    BY <1>1, <1>3 DEF Entry, InboxTypeOK
  <2>5. queue'[n].attempts = queue[n].attempts + (IF n \in DueNow THEN 1 ELSE 0)
    BY <2>2, <2>3
  <2>6. queue'[n].attempts \in 0 .. MaxAttempts
    BY <1>9, <2>4, <2>5, LimitAssumption
  <2>7. queue'[n] \in Entry
    BY <2>2, <2>4, <2>6 DEF Entry
  <2> QED
    BY <2>2, <2>4, <2>5, <2>7
<1>11. InboxTypeOK'
  BY <1>1, <1>2, <1>7, <1>8, <1>10 DEF InboxTypeOK, TaskSet, Numbers, Entry
<1>12. Distinct' /\ Worked'
  BY <1>1, <1>2 DEF Distinct, Worked
<1>13. Heard'
  BY <1>1, <1>2, <1>6, <1>9, <1>10 DEF Heard
<1>14. InChain' /\ FirstHandledInOrder' /\ \A m : Put(m)' <=> Put(m)
  BY <1>1, <1>2 DEF InOrder, InChain, FirstHandledInOrder, Put
<1>15. InBatch'
  <2> SUFFICES ASSUME NEW u \in Thread, NEW m \in Numbers, NEW n \in Numbers,
                      n \in task'[u].batch, m < n
               PROVE  m \in task'[u].batch \/ Put(m)
    BY <1>2, <1>14 DEF InBatch, Numbers
  <2>1. CASE u # t
    BY <1>1, <1>6, <2>1 DEF InOrder, InBatch, Numbers
  <2>2. CASE u = t /\ m \notin DOMAIN queue
    BY <1>1, <1>2, <2>2 DEF InOrder, Kept, Put, Numbers
  <2>3. CASE u = t /\ m \in DOMAIN queue /\ m \notin DueNow
    <3>1. ready
      BY <1>6, <1>9, <2>3
    <3>2. ~(queue[m].attempts < MaxAttempts) /\ queue[m].attempts \in Nat
      BY <1>3, <2>3, <3>1 DEF DueNow, Due, Entry
    <3>3. Cardinality(Holders(m)) < MaxAttempts /\ Cardinality(Holders(m)) \in Nat
      BY <1>1, <1>4, FewerHold
    <3>4. ~(queue[m].attempts <= Cardinality(Holders(m)))
      BY <3>2, <3>3, LimitAssumption
    <3> QED
      BY <1>1, <2>3, <3>4 DEF InOrder, Tries
  <2> QED
    BY <1>6, <2>1, <2>2, <2>3
<1>16. Kept'
  BY <1>1, <1>2, <1>10 DEF InOrder, Kept
<1>17. Tries'
  <2> SUFFICES ASSUME NEW m \in DOMAIN queue, ~Put(m)
               PROVE  queue'[m].attempts <= Cardinality(Holders(m)')
    BY <1>10, <1>14 DEF Tries
  <2>1. queue[m].attempts <= Cardinality(Holders(m)) /\ queue[m].attempts \in Nat
    BY <1>1, <1>3 DEF InOrder, Tries, Entry
  <2>2. /\ t \notin Holders(m) /\ Cardinality(Holders(m)) \in Nat
        /\ Cardinality(Holders(m) \cup {t}) = Cardinality(Holders(m)) + 1
    BY <1>1, <1>4, FewerHold
  <2>3. Holders(m)' = IF m \in DueNow THEN Holders(m) \cup {t} ELSE Holders(m)
    BY <1>4, <1>6 DEF Holders
  <2>4. CASE m \in DueNow
    BY <1>10, <2>1, <2>2, <2>3, <2>4
  <2>5. CASE m \notin DueNow
    BY <1>10, <2>1, <2>3, <2>5
  <2> QED
    BY <2>4, <2>5
<1> QED
  BY <1>11, <1>12, <1>13, <1>14, <1>15, <1>16, <1>17 DEF InboxInv, InOrder

----------------------------------------------------------------------------
(* NativeInbox: emitting *)

\* The least of the batch is put at the end of the chain: all that was taken in
\* before it is there, or was begun.
LEMMA EmitKeeps ==
  ASSUME InboxInv, NEW t \in Thread, EmitNext(t)
  PROVE  InboxInv'
<1>1. InboxTypeOK /\ Distinct /\ Worked /\ Heard /\ InOrder
  BY DEF InboxInv
<1>2. PICK n \in task[t].batch : Emit(t, n)
  BY DEF EmitNext
<1> DEFINE pc == IF task[t].batch = {n} THEN "idle" ELSE "emit"
<1>3. /\ UNCHANGED <<log, queue, attached, ready, shutdown, listening, phase, completed, begun,
                     effects, failed>>
      /\ \A m \in task[t].batch : n <= m
      /\ chain' = IF listening THEN Append(chain, log[n]) ELSE chain
      /\ task' = [task EXCEPT ![t] = [pc |-> pc, batch |-> task[t].batch \ {n}]]
  BY <1>2 DEF EmitNext, Emit, stateVars
<1>4. /\ task \in TaskSet /\ \A u \in Thread : task[u].pc = "emit" <=> task[u].batch # {}
      /\ chain \in Seq(Event)
  BY <1>1 DEF InboxTypeOK, TaskSet, Numbers
<1>5. task[t].batch \subseteq Numbers /\ n \in Numbers
  BY <1>4 DEF TaskSet
<1>6. Numbers \subseteq Nat /\ log[n] \in Event /\ log[n] \in Range(log)
  BY <1>1, <1>5, NumbersAreNat DEF Range, Numbers
<1>7. listening /\ chain' = Append(chain, log[n])
  BY <1>1, <1>3 DEF Heard
<1>8. pc \in {"idle", "emit"} /\ (pc = "emit" <=> task[t].batch \ {n} # {})
  OBVIOUS
<1> HIDE DEF pc
<1>9. /\ task'[t].batch = task[t].batch \ {n} /\ task'[t].pc = pc
      /\ \A u \in Thread \ {t} : task'[u] = task[u]
  BY <1>3, <1>4 DEF TaskSet
<1>10. task' \in TaskSet
  BY <1>3, <1>4, <1>5, <1>8 DEF TaskSet
<1>11. \A u \in Thread : task'[u].pc = "emit" <=> task'[u].batch # {}
  BY <1>4, <1>8, <1>9
<1> DEFINE last == Len(chain) + 1
<1>12. /\ chain' \in Seq(Event) /\ chain' # <<>>
       /\ DOMAIN chain' = DOMAIN chain \cup {last} /\ last \notin DOMAIN chain
       /\ chain'[last] = log[n]
       /\ \A p \in DOMAIN chain : chain'[p] = chain[p] /\ p < last
       /\ chain # <<>> => Head(chain') = Head(chain)
  BY <1>4, <1>6, <1>7, ChainAppended
<1> HIDE DEF last
<1>13. InboxTypeOK'
  BY <1>1, <1>3, <1>10, <1>11, <1>12 DEF InboxTypeOK, TaskSet, Numbers
<1>14. phase # "idle" => Head(chain') = Head(chain)
  BY <1>1, <1>12 DEF InboxTypeOK
<1>15. \A p \in DOMAIN chain' : chain'[p] \in Range(log)
  BY <1>1, <1>6, <1>12 DEF Worked
<1>16. Worked'
  BY <1>1, <1>3, <1>14, <1>15 DEF Worked
<1>17. Distinct' /\ Heard'
  BY <1>1, <1>3, <1>7, <1>9 DEF Distinct, Heard
<1>18. Put(n)' /\ \A m : Put(m) => Put(m)'
  <2>1. Put(n)'
    BY <1>3, <1>12 DEF Put
  <2>2. ASSUME NEW m, Put(m) PROVE Put(m)'
    BY <1>3, <1>12, <2>2 DEF Put
  <2> QED
    BY <2>1, <2>2
<1>19. \A m \in Numbers : m < n => Put(m)
  <2> SUFFICES ASSUME NEW m \in Numbers, m < n PROVE Put(m)
    OBVIOUS
  <2>1. m \notin task[t].batch
    BY <1>3, <1>5, <1>6
  <2> QED
    BY <1>1, <1>5, <2>1 DEF InOrder, InBatch, Numbers
<1>20. InChain'
  <2> SUFFICES ASSUME NEW p \in DOMAIN chain', NEW m \in Numbers, NEW k \in Numbers,
                      chain'[p] = log[k], m < k, log[m] \notin begun
               PROVE  \E q \in DOMAIN chain' : q < p /\ chain'[q] = log[m]
    BY <1>3 DEF InChain, Numbers
  <2>1. CASE p \in DOMAIN chain
    <3>1. chain[p] = log[k]
      BY <1>12, <2>1
    <3>2. PICK q \in DOMAIN chain : q < p /\ chain[q] = log[m]
      BY <1>1, <2>1, <3>1 DEF InOrder, InChain, Numbers
    <3> QED
      BY <1>12, <3>2
  <2>2. CASE p = last
    <3>1. k = n
      BY <1>1, <1>5, <1>12, <2>2 DEF Distinct, Numbers
    <3>2. PICK q \in DOMAIN chain : chain[q] = log[m]
      BY <1>19, <3>1 DEF Put
    <3> QED
      BY <1>12, <2>2, <3>2
  <2> QED
    BY <1>12, <2>1, <2>2
<1>21. InBatch'
  <2> SUFFICES ASSUME NEW u \in Thread, NEW m \in Numbers, NEW k \in Numbers,
                      k \in task'[u].batch, m < k, ~Put(m)
               PROVE  m \in task'[u].batch \/ Put(m)'
    BY <1>3, <1>18 DEF InBatch, Numbers
  <2>1. k \in task[u].batch
    BY <1>9
  <2>2. m \in task[u].batch
    BY <1>1, <2>1 DEF InOrder, InBatch, Numbers
  <2> QED
    BY <1>9, <1>18, <2>2
<1>22. Kept' /\ FirstHandledInOrder'
  BY <1>1, <1>3 DEF InOrder, Kept, FirstHandledInOrder
<1>23. Tries'
  <2> SUFFICES ASSUME NEW m \in DOMAIN queue, ~Put(m)'
               PROVE  queue[m].attempts <= Cardinality(Holders(m)')
    BY <1>3 DEF Tries
  <2>1. m # n /\ ~Put(m)
    BY <1>18
  <2>2. Holders(m)' = Holders(m)
    BY <1>9, <2>1 DEF Holders
  <2> QED
    BY <1>1, <2>1, <2>2 DEF InOrder, Tries
<1> QED
  BY <1>13, <1>16, <1>17, <1>20, <1>21, <1>22, <1>23 DEF InboxInv, InOrder

----------------------------------------------------------------------------
(* NativeInbox: the theorems *)

LEMMA StepKeepsInboxInv == InboxInv /\ [InboxNext]_inboxVars => InboxInv'
<1> SUFFICES ASSUME InboxInv, [InboxNext]_inboxVars PROVE InboxInv'
  OBVIOUS
<1>1. CASE UNCHANGED inboxVars
  <2>1. InboxTypeOK /\ Distinct /\ Worked /\ Heard /\ InOrder
    BY DEF InboxInv
  <2>2. UNCHANGED <<queue, log, attached, ready, shutdown, task, listening, chain, phase,
                    completed, begun, effects, failed>>
    BY <1>1 DEF inboxVars, stateVars, pageVars
  <2>3. InboxTypeOK' /\ Distinct' /\ Worked' /\ Heard'
    BY <2>1, <2>2 DEF InboxTypeOK, Distinct, Worked, Heard
  <2>4. InOrder'
    BY <2>1, <2>2, SameOrder
  <2> QED
    BY <2>3, <2>4 DEF InboxInv
<1>2. ASSUME NEW t \in Thread, NEW e \in Event, Ingest(t, e) PROVE InboxInv'
  BY <1>2, IngestKeeps
<1>3. ASSUME NEW t \in Thread, Collect(t) PROVE InboxInv'
  BY <1>3, CollectNothingKeeps, CollectKeeps
<1>4. ASSUME NEW t \in Thread, EmitNext(t) PROVE InboxInv'
  BY <1>4, EmitKeeps
<1>5. CASE Attach \/ FrontendReady \/ Listen
  BY <1>5, SetUpKeeps
<1>6. CASE Shutdown
  BY <1>6, ShutdownKeeps
<1>7. CASE Process
  BY <1>7, ProcessKeeps
<1>8. CASE Handled
  BY <1>8, HandledKeeps
<1>9. CASE NotHandled
  BY <1>9, NotHandledKeeps
<1>10. CASE Acknowledge
  BY <1>10, AcknowledgeKeeps
<1> QED
  BY <1>1, <1>2, <1>3, <1>4, <1>5, <1>6, <1>7, <1>8, <1>9, <1>10 DEF InboxNext

\* The inductive invariant of the inbox and of the page that works it off,
\* under every interleaving of the threads that ingest, collect and emit.
THEOREM InboxInvariant == InboxSpec => []InboxInv
<1> QED
  BY InitInboxInv, StepKeepsInboxInv, PTL DEF InboxSpec

\* The inbox never holds more than the queue limit, and attempts no event more
\* often than it may, whatever the threads do between the two takings of the
\* lock.
THEOREM InboxTypeCorrect == InboxSpec => []InboxTypeOK
<1>1. InboxInv => InboxTypeOK
  BY DEF InboxInv
<1> QED
  BY <1>1, InboxInvariant, PTL

\* Deliveries are repeated until they are acknowledged, but no event, nor two
\* events of one idempotency key, complete their handler twice.
THEOREM EffectsOnce == InboxSpec => []EffectsAtMostOnce
<1>1. InboxInv => EffectsAtMostOnce
  <2> SUFFICES ASSUME InboxInv, NEW e \in Event
               PROVE  /\ effects[e] <= 1
                      /\ \A f \in Event \ {e} : Key[f] = Key[e] /\ effects[e] > 0
                                                  => effects[f] = 0
    BY DEF EffectsAtMostOnce
  <2>1. Worked /\ Distinct
    BY DEF InboxInv
  <2>2. \A x \in Event : effects[x] = IF x \in completed THEN 1 ELSE 0
    BY <2>1 DEF Worked
  <2>3. ASSUME NEW f \in Event \ {e}, Key[f] = Key[e], e \in completed
        PROVE  f \notin completed
    <3> SUFFICES ASSUME f \in completed PROVE FALSE
      OBVIOUS
    <3>1. e \in Range(log) /\ f \in Range(log)
      BY <2>1, <2>3 DEF Worked
    <3>2. PICK m \in DOMAIN log : log[m] = e
      BY <3>1 DEF Range
    <3>3. PICK n \in DOMAIN log : log[n] = f
      BY <3>1 DEF Range
    <3> QED
      BY <2>1, <2>3, <3>2, <3>3 DEF Distinct
  <2>4. effects[e] <= 1 /\ (effects[e] > 0 => e \in completed)
    BY <2>2
  <2> QED
    BY <2>2, <2>3, <2>4
<1> QED
  BY <1>1, InboxInvariant, PTL

\* Whichever threads emit them, and however often, events are handled for the
\* first time in the order in which they were taken in.
THEOREM HandledInOrder == InboxSpec => []FirstHandledInOrder
<1>1. InboxInv => FirstHandledInOrder
  BY DEF InboxInv, InOrder
<1> QED
  BY <1>1, InboxInvariant, PTL

\* As long as the application runs, an event that was taken in was begun, is in the
\* chain, is about to be emitted, or is queued with all its attempts left.
StillComes(m) ==
  Put(m) \/ Holders(m) # {} \/ (m \in DOMAIN queue /\ queue[m].attempts = 0)

NothingIsLost == ~shutdown => \A m \in DOMAIN log : StillComes(m)

\* The safety part of EventsAreHandled: attempts are counted before they are made,
\* outside the lock, and still no event uses them up unheard and stays behind.
THEOREM EventsStillCome == InboxSpec => []NothingIsLost
<1>1. InboxInv => NothingIsLost
  <2> SUFFICES ASSUME InboxInv, ~shutdown, NEW m \in DOMAIN log, Holders(m) = {}, ~Put(m)
               PROVE  m \in DOMAIN queue /\ queue[m].attempts = 0
    BY DEF NothingIsLost, StillComes
  <2>1. InboxTypeOK /\ Kept /\ Tries
    BY DEF InboxInv, InOrder
  <2>2. m \in DOMAIN queue
    BY <2>1 DEF Kept, Put
  <2>3. queue[m].attempts <= Cardinality(Holders(m))
    BY <2>1, <2>2 DEF Tries
  <2>4. queue[m].attempts \in Nat
    BY <2>1, <2>2 DEF InboxTypeOK
  <2>5. queue[m].attempts = 0
    BY <2>3, <2>4, FS_EmptySet
  <2> QED
    BY <2>2, <2>5
<1> QED
  BY <1>1, InboxInvariant, PTL

----------------------------------------------------------------------------
(* Coordinator: the invariant *)

\* A catalog is behind the registry, but never shows what was not; what the page
\* keeps of earlier catalogs holds in the last one as well.
Knowledge ==
  /\ \A j \in Job : job[j] = "none" <=> accepted < j
  /\ \A j \in Job : /\ job[j] = "none" => catalog[j] = "none"
                    /\ catalog[j] = "ended" => job[j] = "ended"
  /\ \A j \in recent : catalog[j] = "ended"
  /\ \A j \in observed : catalog[j] # "none"
  /\ \A j \in handed : job[j] # "none"
  /\ \A a \in answers : job[a.job] # "none" /\ (a.by = "request" => lifecycle.pending = 1)

Counts == CountedWhileAlive /\ NotCountedAgain

IInv == TypeOK /\ Knowledge /\ Counts /\ DestroyedIdle

----------------------------------------------------------------------------
(* Coordinator: the steps *)

Lifecycle == [normalLaunch : BOOLEAN, quickActionOnly : BOOLEAN,
              activityObserved : BOOLEAN, pending : 0 .. 1]

\* What the actions do to the lifecycle keeps it well-typed.
LEMMA LifecycleSteps ==
  ASSUME NEW l \in Lifecycle, NEW b \in BOOLEAN, NEW p \in 0 .. 1
  PROVE  /\ [l EXCEPT !.quickActionOnly = b] \in Lifecycle
         /\ [l EXCEPT !.normalLaunch = TRUE, !.quickActionOnly = FALSE] \in Lifecycle
         /\ [l EXCEPT !.quickActionOnly = TRUE, !.activityObserved = TRUE] \in Lifecycle
         /\ [l EXCEPT !.quickActionOnly = b, !.activityObserved = TRUE, !.pending = p]
              \in Lifecycle
         /\ [l EXCEPT !.pending = p] \in Lifecycle
<1>1. [l EXCEPT !.quickActionOnly = b] \in Lifecycle
  BY Zenon DEF Lifecycle
<1>2. [l EXCEPT !.normalLaunch = TRUE, !.quickActionOnly = FALSE] \in Lifecycle
  BY DEF Lifecycle
<1>3. [l EXCEPT !.quickActionOnly = TRUE, !.activityObserved = TRUE] \in Lifecycle
  BY DEF Lifecycle
<1>4. [l EXCEPT !.quickActionOnly = b, !.activityObserved = TRUE, !.pending = p] \in Lifecycle
  BY Zenon DEF Lifecycle
<1>5. [l EXCEPT !.pending = p] \in Lifecycle
  BY DEF Lifecycle
<1> QED
  BY <1>1, <1>2, <1>3, <1>4, <1>5

LEMMA InitIInv == Init => IInv
<1> SUFFICES ASSUME Init PROVE IInv
  OBVIOUS
<1>1. TypeOK
  <2>1. lifecycle \in [normalLaunch : BOOLEAN, quickActionOnly : BOOLEAN,
                       activityObserved : BOOLEAN, pending : 0 .. 1]
    BY DEF Init
  <2>2. job \in [Job -> {"none", "live", "cancelling", "ended"}] /\ catalog = job
    BY DEF Init
  <2>3. carrying \in BOOLEAN /\ shown \in BOOLEAN /\ revealing \in BOOLEAN
    BY DEF Init
  <2>4. /\ accepted \in 0 .. MaxJobs /\ requests \in 0 .. MaxRequests
        /\ reveals \in 0 .. MaxReveals /\ failures \in 0 .. MaxFailures
    BY BoundAssumption DEF Init
  <2>5. /\ answers = {} /\ active = {} /\ observed = {} /\ recent = {} /\ handed = {}
        /\ windows = {} /\ retried = {} /\ startup \in {"normal", "quickAction"}
        /\ process = "running"
    BY DEF Init
  <2> QED
    BY <2>1, <2>2, <2>3, <2>4, <2>5 DEF TypeOK
<1>2. Knowledge
  BY BoundAssumption DEF Init, Knowledge, Job
<1>3. Counts /\ DestroyedIdle
  BY DEF Init, Counts, CountedWhileAlive, NotCountedAgain, DestroyedIdle
<1> QED
  BY <1>1, <1>2, <1>3 DEF IInv

\* A job is accepted: the page knows nothing of it.
LEMMA AcceptKeeps ==
  ASSUME IInv, Running, NEW by \in {"request", "main", "task"}, NEW w \in 0 .. MaxJobs,
         Accept(by, w), by = "request" => lifecycle.pending = 1,
         retried' \subseteq Job,
         UNCHANGED <<feed, accounting, handed, windows, main, process, bounds>>
  PROVE  IInv'
<1> USE DEF IInv
<1> DEFINE j == accepted + 1
           a == [job |-> accepted + 1, by |-> by, window |-> w]
<1>1. /\ j \in Job /\ a \in Answer /\ accepted' \in 0 .. MaxJobs /\ accepted \in Nat
      /\ job[j] = "none" /\ job' = [job EXCEPT ![j] = "live"] /\ job'[j] = "live"
      /\ accepted' = j
      /\ \A i \in Job : i # j => job'[i] = job[i]
      /\ answers' = answers \cup {a}
  BY BoundAssumption DEF Accept, TypeOK, Knowledge, Job, Answer
<1>2. TypeOK'
  BY <1>1 DEF TypeOK, feed, accounting, main, bounds
<1>3. Knowledge'
  <2>1. \A i \in Job : job'[i] = "none" <=> accepted' < i
    BY <1>1 DEF Knowledge, Job
  <2>2. \A i \in Job : /\ job'[i] = "none" => catalog'[i] = "none"
                       /\ catalog'[i] = "ended" => job'[i] = "ended"
    BY <1>1 DEF Knowledge, feed
  <2>3. \A i \in handed' : job'[i] # "none"
    BY <1>1 DEF Knowledge, TypeOK
  <2>4. \A b \in answers' :
          job'[b.job] # "none" /\ (b.by = "request" => lifecycle'.pending = 1)
    <3>1. a.job = j /\ a.by = by
      OBVIOUS
    <3>2. \A b \in answers : b.job \in Job
      BY DEF TypeOK, Answer
    <3> QED
      BY <1>1, <3>1, <3>2 DEF Knowledge, main
  <2> QED
    BY <2>1, <2>2, <2>3, <2>4 DEF Knowledge, feed, accounting
<1>4. Counts'
  BY <1>1 DEF Counts, CountedWhileAlive, NotCountedAgain, TypeOK, Knowledge, accounting
<1>5. DestroyedIdle'
  BY DEF DestroyedIdle, Running
<1> QED
  BY <1>2, <1>3, <1>4, <1>5

\* A job goes on to another status.
LEMMA JobKeeps ==
  ASSUME IInv, NEW j \in Job, JobCancels(j) \/ JobEnds(j)
  PROVE  IInv'
<1> USE DEF IInv
<1>1. PICK s \in {"cancelling", "ended"} : job' = [job EXCEPT ![j] = s]
  BY DEF JobCancels, JobEnds
<1>2. /\ Running /\ Alive(job[j]) /\ job'[j] = s
      /\ \A i \in Job : i # j => job'[i] = job[i]
      /\ UNCHANGED <<accepted, answers, catalog, carrying, active, observed, recent, handed,
                     windows, retried, lifecycle, shown, startup, revealing, process,
                     requests, reveals, failures>>
  BY <1>1 DEF JobCancels, JobEnds, Alive, TypeOK, feed, accounting, tasks, main, bounds
<1>3. TypeOK'
  BY <1>1, <1>2 DEF TypeOK
<1>4. Knowledge'
  BY <1>1, <1>2 DEF Knowledge, TypeOK, Alive, Answer
<1>5. Counts'
  BY <1>1, <1>2 DEF Counts, CountedWhileAlive, NotCountedAgain, TypeOK, Alive
<1>6. DestroyedIdle'
  BY <1>2 DEF DestroyedIdle, Running
<1> QED
  BY <1>3, <1>4, <1>5, <1>6

LEMMA SendKeeps ==
  ASSUME IInv, SendCatalog
  PROVE  IInv'
<1> USE DEF IInv
<1>1. /\ catalog' = job /\ carrying' = TRUE /\ Running
      /\ UNCHANGED <<job, accepted, answers, active, observed, recent, handed,
                     windows, retried, lifecycle, shown, startup, revealing, process,
                     requests, reveals, failures>>
  BY DEF SendCatalog, registry, accounting, tasks, main, bounds
<1>2. TypeOK'
  BY <1>1 DEF TypeOK
<1>3. Knowledge'
  BY <1>1 DEF Knowledge, TypeOK
<1>4. Counts' /\ DestroyedIdle'
  BY <1>1 DEF Counts, CountedWhileAlive, NotCountedAgain, DestroyedIdle, Running
<1> QED
  BY <1>2, <1>3, <1>4

\* The page may be closed when nothing counts and no request is under way.
LEMMA ClosingIsIdle ==
  ASSUME TypeOK, Running, NEW act, CountedWhileAlive', Knowledge', NEW l, NEW win,
         MaybeClose(l, win, act), l = lifecycle', act = active'
  PROVE  process' \in {"running", "destroyed"} /\ DestroyedIdle'
<1>1. process' \in {"running", "destroyed"}
  BY DEF MaybeClose, Running
<1>2. CASE process' = "destroyed"
  <2>1. active' = {} /\ lifecycle'.pending = 0
    BY <1>2 DEF MaybeClose, ShouldClose, Running
  <2> QED
    BY <1>1, <2>1 DEF DestroyedIdle, CountedWhileAlive, Knowledge
<1> QED
  BY <1>1, <1>2 DEF DestroyedIdle

LEMMA DeliverKeeps ==
  ASSUME IInv, DeliverCatalog
  PROVE  IInv'
<1> USE DEF IInv
<1> DEFINE seen == observed \cup LiveIn(catalog)
<1>1. /\ carrying' = FALSE /\ Running
      /\ recent' = recent \cup {j \in Job : catalog[j] = "ended"}
      /\ active' = (active \cup LiveIn(catalog)) \ Released(catalog, seen)
      /\ observed' = seen \ Released(catalog, seen)
      /\ UNCHANGED <<job, accepted, answers, catalog, handed, windows, retried, lifecycle,
                     shown, startup, revealing, requests, reveals, failures>>
  BY DEF DeliverCatalog, Reconcile, StillObserved, registry, tasks, main, bounds
<1>2. /\ active' \subseteq Job /\ observed' \subseteq active' /\ recent' \subseteq Job
  BY <1>1 DEF TypeOK, LiveIn
<1>3. Knowledge'
  BY <1>1 DEF Knowledge, LiveIn
<1>4. CountedWhileAlive'
  <2> SUFFICES ASSUME NEW j \in handed, Alive(job[j])
               PROVE  j \in active'
    BY <1>1 DEF CountedWhileAlive
  <2>1. j \in Job /\ j \in active
    BY DEF Counts, CountedWhileAlive, TypeOK
  <2>2. catalog[j] # "ended"
    BY <2>1 DEF Knowledge, Alive
  <2>3. j \in seen => catalog[j] # "none"
    BY DEF Knowledge, LiveIn
  <2> QED
    BY <1>1, <2>1, <2>2, <2>3 DEF Released
<1>5. NotCountedAgain'
  BY <1>1 DEF Counts, NotCountedAgain, Knowledge, LiveIn, Released
<1>6. process' \in {"running", "destroyed"} /\ DestroyedIdle'
  BY <1>1, <1>3, <1>4, ClosingIsIdle DEF DeliverCatalog
<1>7. TypeOK'
  BY <1>1, <1>2, <1>6 DEF TypeOK
<1> QED
  BY <1>3, <1>4, <1>5, <1>6, <1>7 DEF Counts

\* A job that was accepted is handed off.
LEMMA HandOffKeeps ==
  ASSUME IInv, Running, NEW j \in Job, job[j] # "none", HandOff(j), answers' \subseteq answers,
         UNCHANGED <<job, accepted, feed, main, process, bounds>>
  PROVE  IInv'
<1> USE DEF IInv
<1>1. /\ active' \in {active, active \cup {j}} /\ handed' \in {handed, handed \cup {j}}
      /\ windows' \subseteq handed' /\ active \subseteq active'
      /\ j \in handed' \ handed => j \in active' \/ j \in recent
      /\ j \in active' \ active => j \notin recent
      /\ UNCHANGED <<observed, recent, retried, catalog, carrying, lifecycle, shown, startup,
                     revealing, requests, reveals, failures>>
  BY DEF HandOff, Counted, TypeOK, feed, main, bounds
<1>2. TypeOK'
  BY <1>1 DEF TypeOK
<1>3. Knowledge'
  BY <1>1 DEF Knowledge
<1>4. j \in recent => ~Alive(job[j])
  BY DEF Knowledge, Alive
<1>5. Counts'
  BY <1>1, <1>4 DEF Counts, CountedWhileAlive, NotCountedAgain
<1>6. DestroyedIdle'
  BY DEF DestroyedIdle, Running
<1> QED
  BY <1>2, <1>3, <1>5, <1>6

LEMMA HandingKeeps ==
  ASSUME IInv
  PROVE  /\ \A j \in Job : FeedDelivers(j) => IInv'
         /\ \A a \in answers : AnswerArrives(a) \/ TaskAnswer(a) => IInv'
<1>1. ASSUME NEW j \in Job, FeedDelivers(j)
      PROVE  IInv'
  <2>1. job[j] # "none"
    BY <1>1 DEF FeedDelivers, IInv, TypeOK, Knowledge, Job
  <2> QED
    BY <1>1, <2>1, HandOffKeeps DEF FeedDelivers, registry
<1>2. ASSUME NEW a \in answers, AnswerArrives(a) \/ TaskAnswer(a)
      PROVE  IInv'
  <2>1. a.job \in Job /\ job[a.job] # "none"
    BY DEF IInv, TypeOK, Answer, Knowledge
  <2>2. CASE HandOff(a.job)
    BY <1>2, <2>1, <2>2, HandOffKeeps DEF AnswerArrives, TaskAnswer
  <2>3. CASE UNCHANGED <<accounting, tasks>>
    <3>1. /\ answers' \subseteq answers /\ Running
          /\ UNCHANGED <<job, accepted, catalog, carrying, active, observed, recent, handed,
                         windows, retried, lifecycle, shown, startup, revealing, process,
                         requests, reveals, failures>>
      BY <1>2, <2>3 DEF AnswerArrives, TaskAnswer, feed, accounting, tasks, main, bounds
    <3>2. TypeOK' /\ Knowledge'
      BY <3>1 DEF IInv, TypeOK, Knowledge
    <3>3. Counts' /\ DestroyedIdle'
      BY <3>1 DEF IInv, Counts, CountedWhileAlive, NotCountedAgain, DestroyedIdle, Running
    <3> QED
      BY <3>2, <3>3 DEF IInv
  <2> QED
    BY <1>2, <2>2, <2>3 DEF AnswerArrives, TaskAnswer
<1> QED
  BY <1>1, <1>2

LEMMA WindowKeeps ==
  ASSUME IInv, NEW j \in Job, WindowCloses(j)
  PROVE  IInv'
<1> USE DEF IInv
<1>1. /\ windows' = windows \ {j} /\ Running
      /\ UNCHANGED <<job, accepted, answers, catalog, carrying, active, observed, recent,
                     handed, retried, lifecycle, shown, startup, revealing, requests, reveals,
                     failures>>
  BY DEF WindowCloses, registry, feed, accounting, main, bounds
<1>2. Knowledge' /\ Counts'
  BY <1>1 DEF Knowledge, Counts, CountedWhileAlive, NotCountedAgain
<1>3. process' \in {"running", "destroyed"} /\ DestroyedIdle'
  <2>1. CASE MaybeClose(lifecycle, {}, active)
    BY <1>1, <1>2, <2>1, ClosingIsIdle DEF Counts
  <2>2. CASE UNCHANGED process
    BY <1>1, <2>2 DEF DestroyedIdle, Running
  <2> QED
    BY <2>1, <2>2 DEF WindowCloses
<1>4. TypeOK'
  BY <1>1, <1>3 DEF TypeOK
<1> QED
  BY <1>2, <1>3, <1>4

LEMMA RequestKeeps ==
  ASSUME IInv, RequestArrives \/ RequestStarts \/ RequestSettles
  PROVE  IInv'
<1> USE DEF IInv
<1>1. CASE RequestStarts
  BY <1>1, AcceptKeeps, BoundAssumption DEF RequestStarts, tasks, TypeOK
<1>2. CASE RequestArrives
  <2>0. PICK b \in BOOLEAN :
          lifecycle' = [lifecycle EXCEPT !.quickActionOnly = b, !.activityObserved = TRUE,
                                         !.pending = 1]
    BY <1>2, Zenon DEF RequestArrives
  <2>1. /\ lifecycle'.pending = 1 /\ Running
        /\ requests' \in 0 .. MaxRequests
        /\ lifecycle' \in [normalLaunch : BOOLEAN, quickActionOnly : BOOLEAN,
                           activityObserved : BOOLEAN, pending : 0 .. 1]
    <3>1. Running /\ requests' \in 0 .. MaxRequests
      BY <1>2, BoundAssumption DEF RequestArrives, TypeOK
    <3>2. lifecycle \in Lifecycle /\ 1 \in 0 .. 1
      BY DEF TypeOK, Lifecycle
    <3>3. lifecycle' \in Lifecycle
      BY <2>0, <3>2, LifecycleSteps, Zenon
    <3>4. lifecycle'.pending = 1
      BY <2>0, <3>2, Zenon DEF Lifecycle
    <3> QED
      BY <3>1, <3>3, <3>4 DEF Lifecycle
  <2>2. UNCHANGED <<job, accepted, answers, catalog, carrying, active, observed, recent,
                    handed, windows, retried, shown, startup, revealing, process, reveals,
                    failures>>
    BY <1>2 DEF RequestArrives, registry, feed, accounting, tasks
  <2>3. TypeOK'
    BY <2>1, <2>2 DEF TypeOK
  <2>4. Knowledge' /\ Counts' /\ DestroyedIdle'
    BY <2>1, <2>2 DEF Knowledge, Counts, CountedWhileAlive, NotCountedAgain, DestroyedIdle,
                      Running
  <2> QED
    BY <2>3, <2>4
<1>3. CASE RequestSettles
  <2>1. /\ Running
        /\ \A a \in answers : a.by # "request"
        /\ lifecycle' \in [normalLaunch : BOOLEAN, quickActionOnly : BOOLEAN,
                           activityObserved : BOOLEAN, pending : 0 .. 1]
    BY <1>3 DEF RequestSettles, Settle, AwaitsAnswer, TypeOK
  <2>2. UNCHANGED <<job, accepted, answers, catalog, carrying, active, observed, recent,
                    handed, windows, retried, shown, startup, revealing, requests, reveals,
                    failures>>
    BY <1>3 DEF RequestSettles, Settle, registry, feed, accounting, tasks, bounds
  <2>3. Knowledge' /\ Counts'
    BY <2>1, <2>2 DEF Knowledge, Counts, CountedWhileAlive, NotCountedAgain
  <2>4. process' \in {"running", "destroyed"} /\ DestroyedIdle'
    BY <1>3, <2>1, <2>2, <2>3, ClosingIsIdle DEF RequestSettles, Settle, Counts
  <2>5. TypeOK'
    BY <2>1, <2>2, <2>4 DEF TypeOK
  <2> QED
    BY <2>3, <2>4, <2>5
<1> QED
  BY <1>1, <1>2, <1>3

LEMMA MainKeeps ==
  ASSUME IInv, Startup \/ RevealRequested \/ RevealEnds \/ CloseMain
  PROVE  IInv'
<1> USE DEF IInv
<1>1. /\ Running
      /\ lifecycle' \in [normalLaunch : BOOLEAN, quickActionOnly : BOOLEAN,
                         activityObserved : BOOLEAN, pending : 0 .. 1]
      /\ lifecycle'.pending = lifecycle.pending
  <2>1. Running
    BY DEF Startup, RevealRequested, RevealEnds, CloseMain
  <2>2. \/ UNCHANGED lifecycle
        \/ Reveal
        \/ lifecycle' = [lifecycle EXCEPT !.quickActionOnly = TRUE,
                                          !.activityObserved = TRUE]
        \/ \E b \in BOOLEAN : lifecycle' = [lifecycle EXCEPT !.quickActionOnly = b]
    BY Zenon DEF Startup, RevealRequested, RevealEnds, CloseMain
  <2>3. lifecycle \in Lifecycle /\ 0 \in 0 .. 1
    BY DEF TypeOK, Lifecycle
  <2>4. lifecycle' \in Lifecycle
    BY <2>2, <2>3, LifecycleSteps, Zenon DEF Reveal
  <2>5. lifecycle'.pending = lifecycle.pending
    BY <2>2, <2>3, Zenon DEF Lifecycle, Reveal
  <2> QED
    BY <2>1, <2>4, <2>5 DEF Lifecycle
<1>2. UNCHANGED <<job, accepted, answers, catalog, carrying, active, observed, recent, handed,
                  windows, retried>>
  BY DEF Startup, RevealRequested, RevealEnds, CloseMain, registry, feed, accounting, tasks
<1>3. /\ shown' \in BOOLEAN /\ revealing' \in BOOLEAN
      /\ startup' \in {"normal", "quickAction", "known"}
  BY DEF Startup, Reveal, RevealRequested, RevealEnds, CloseMain, TypeOK
<1>4. /\ process' \in {"running", "closed"}
      /\ requests' \in 0 .. MaxRequests /\ reveals' \in 0 .. MaxReveals
      /\ failures' \in 0 .. MaxFailures
  BY BoundAssumption DEF Startup, RevealRequested, RevealEnds, CloseMain, Running, TypeOK, bounds
<1>5. TypeOK'
  BY <1>1, <1>2, <1>3, <1>4 DEF TypeOK
<1>6. Knowledge' /\ Counts' /\ DestroyedIdle'
  BY <1>1, <1>2, <1>4 DEF Knowledge, Counts, CountedWhileAlive, NotCountedAgain, DestroyedIdle
<1> QED
  BY <1>5, <1>6

LEMMA StepIInv == IInv /\ [Next]_vars => IInv'
<1> SUFFICES ASSUME IInv, [Next]_vars PROVE IInv'
  OBVIOUS
<1>1. CASE UNCHANGED vars
  BY <1>1 DEF IInv, TypeOK, Knowledge, Counts, CountedWhileAlive, NotCountedAgain,
              DestroyedIdle, vars, registry, feed, accounting, tasks, main, bounds
<1>2. ASSUME NEW j \in Job, TaskRetries(j) PROVE IInv'
  <2>1. Running /\ retried' \subseteq Job /\ j \in 0 .. MaxJobs
    BY <1>2 DEF TaskRetries, IInv, TypeOK, Job
  <2> QED
    BY <1>2, <2>1, AcceptKeeps DEF TaskRetries
<1>3. CASE MainStarts
  BY <1>3, AcceptKeeps, BoundAssumption DEF MainStarts, tasks, IInv, TypeOK
<1> QED
  BY <1>1, <1>2, <1>3, JobKeeps, SendKeeps, DeliverKeeps, HandingKeeps, WindowKeeps,
     RequestKeeps, MainKeeps DEF Next

LEMMA Invariance == Spec => []IInv
  BY InitIInv, StepIInv, PTL DEF Spec

\* The state keeps its types, and whatever was seen in a catalog counts.
THEOREM CoordinatorTypeCorrect == Spec => []TypeOK
<1>1. IInv => TypeOK
  BY DEF IInv
<1> QED
  BY Invariance, <1>1, PTL

\* A job that was handed off counts until it ends, in whatever order catalogs,
\* feed and answers arrive.
THEOREM HandedOffCounts == Spec => []CountedWhileAlive
<1>1. IInv => CountedWhileAlive
  BY DEF IInv, Counts
<1> QED
  BY Invariance, <1>1, PTL

\* A job that a catalog has shown to be over never counts again.
THEOREM EndedStaysUncounted == Spec => []NotCountedAgain
<1>1. IInv => NotCountedAgain
  BY DEF IInv, Counts
<1> QED
  BY Invariance, <1>1, PTL

\* The hidden window takes along neither a job of a request nor one that was
\* handed off.
THEOREM DestroyedWhenIdle == Spec => []DestroyedIdle
<1>1. IInv => DestroyedIdle
  BY DEF IInv
<1> QED
  BY Invariance, <1>1, PTL

----------------------------------------------------------------------------
(* Coordinator: the life of the jobs it accounts for *)

\* The jobs as JobLifecycle sees them. "live" stands for all that comes before a
\* cancellation or an end, and counts as queued; an end counts as a cancellation that
\* ended, which may follow both.
Seen ==
  [j \in Job |-> CASE job[j] = "none"       -> "absent"
                   [] job[j] = "live"       -> "queued"
                   [] job[j] = "cancelling" -> "cancelling"
                   [] job[j] = "ended"      -> "cancelled"]

Taken == 1 .. accepted

Life == INSTANCE JobLifecycle WITH Job <- Job, status <- Seen, spent <- Taken

\* The jobs that are accounted for live as JobLifecycle promises: each is accepted
\* under an id of its own and ends once, whoever started it, and none comes back.
THEOREM AccountedJobsLive == Spec => Life!Spec
<1>1. Init => Life!Init
  BY DEF Init, Life!Init, Seen, Taken
<1>2. IInv /\ [Next]_vars => [Life!Next]_<<Seen, Taken>>
  <2> SUFFICES ASSUME IInv, [Next]_vars PROVE Life!Next \/ UNCHANGED <<Seen, Taken>>
    OBVIOUS
  <2>1. /\ job \in [Job -> {"none", "live", "cancelling", "ended"}]
        /\ accepted \in Nat /\ Job = 1 .. MaxJobs /\ MaxJobs \in Nat
        /\ \A j \in Job : job[j] = "none" <=> accepted < j
    BY BoundAssumption DEF IInv, TypeOK, Knowledge, Job
  <2>2. CASE job' = job /\ accepted' = accepted
    BY <2>2 DEF Seen, Taken
  <2>3. ASSUME NEW by, NEW w, Accept(by, w)
        PROVE  Life!Next
    <3> DEFINE j == accepted + 1
    <3>1. /\ j \in Job /\ job[j] = "none" /\ job' = [job EXCEPT ![j] = "live"]
          /\ Taken' = Taken \cup {j} /\ j \notin Taken
      BY <2>1, <2>3 DEF Accept, Taken
    <3> HIDE DEF j
    <3>2. Seen' = [Seen EXCEPT ![j] = "queued"]
      BY <2>1, <3>1 DEF Seen
    <3>3. Life!Request(j, {}, "queued")
      BY <3>1, <3>2 DEF Life!Request, Seen
    <3> QED
      BY <3>1, <3>3 DEF Life!Next
  <2>4. ASSUME NEW j \in Job, JobCancels(j)
        PROVE  Life!Next
    <3>1. /\ job[j] = "live" /\ job' = [job EXCEPT ![j] = "cancelling"] /\ Taken' = Taken
      BY <2>4 DEF JobCancels, Taken
    <3>2. Seen[j] = "queued" /\ Seen' = [Seen EXCEPT ![j] = "cancelling"]
      BY <2>1, <3>1 DEF Seen
    <3>3. Life!Cancel(j)
      BY <3>1, <3>2 DEF Life!Cancel, Life!Become
    <3> QED
      BY <3>3 DEF Life!Next
  <2>5. ASSUME NEW j \in Job, JobEnds(j)
        PROVE  Life!Next
    <3>1. /\ job[j] \in {"live", "cancelling"} /\ job' = [job EXCEPT ![j] = "ended"]
          /\ Taken' = Taken
      BY <2>5 DEF JobEnds, Alive, Taken
    <3>2. /\ Seen[j] \in {"queued", "cancelling"}
          /\ Seen' = [Seen EXCEPT ![j] = "cancelled"]
      BY <2>1, <3>1 DEF Seen
    <3>3. Life!End(j)
      BY <3>1, <3>2 DEF Life!End, Life!Become
    <3> QED
      BY <3>3 DEF Life!Next
  <2>6. CASE \/ RequestStarts \/ MainStarts \/ \E j \in Job : TaskRetries(j)
    BY <2>3, <2>6 DEF RequestStarts, MainStarts, TaskRetries
  <2>7. CASE \/ SendCatalog \/ DeliverCatalog \/ RequestArrives \/ RequestSettles
             \/ Startup \/ RevealRequested \/ RevealEnds \/ CloseMain
             \/ \E j \in Job : FeedDelivers(j) \/ WindowCloses(j)
             \/ \E a \in answers : AnswerArrives(a) \/ TaskAnswer(a)
    <3>1. CASE SendCatalog \/ DeliverCatalog \/ RequestArrives \/ RequestSettles
      BY <2>2, <3>1
      DEF SendCatalog, DeliverCatalog, Reconcile, RequestArrives, RequestSettles, Settle,
          registry
    <3>2. CASE Startup \/ RevealRequested \/ RevealEnds \/ CloseMain
      BY <2>2, <3>2 DEF Startup, RevealRequested, RevealEnds, CloseMain, registry
    <3>3. CASE \E j \in Job : FeedDelivers(j) \/ WindowCloses(j)
      BY <2>2, <3>3 DEF FeedDelivers, WindowCloses, registry
    <3>4. CASE \E a \in answers : AnswerArrives(a) \/ TaskAnswer(a)
      BY <2>2, <3>4 DEF AnswerArrives, TaskAnswer
    <3> QED
      BY <2>7, <3>1, <3>2, <3>3, <3>4
  <2>8. CASE UNCHANGED vars
    BY <2>2, <2>8 DEF vars, registry
  <2> QED
    BY <2>4, <2>5, <2>6, <2>7, <2>8 DEF Next
<1> QED
  BY <1>1, <1>2, Invariance, PTL DEF Spec, Life!Spec
=============================================================================
