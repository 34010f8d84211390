-------------------------- MODULE ShareQueueProofs --------------------------
(***************************************************************************)
(* Proofs about ShareQueue, for any number of shares, records and          *)
(* attempts. What the queue knows of the transfer on its way               *)
(* (SendAccountedFor), that somebody calls schedule() when there is        *)
(* something to send (QueueNeverRests) and what a record says of its       *)
(* attempts, its cancellation and its job (RecordInv) are inductive        *)
(* together with the types.                                                *)
(***************************************************************************)
EXTENDS ShareQueue, FiniteSetTheorems, TLAPS

RecordInv(s) ==
  /\ item[s].transfer \in {"notStarted", "waiting"} => ~item[s].uncertain
  /\ ~item[s].uncertain /\ item[s].transfer \notin {"sending", "sent"}
       => item[s].attempt <= confirmed[s]
  /\ item[s].attempt <= 1 + confirmed[s]
  /\ item[s].cancelled => item[s].transfer \in {"cancelling", "cancelled"}
  /\ Compressed(item[s]) => job[s] \notin {"running", "cancelling"}

Records == \A s \in present : RecordInv(s)

IInv == TypeOK /\ SendAccountedFor /\ QueueNeverRests /\ Records
----------------------------------------------------------------------------
(* schedule() *)

\* Marking what waits touches only shares that are ready.
LEMMA WaitingMarks ==
  ASSUME NEW f \in [Share -> Item]
  PROVE  /\ Waiting(f) \in [Share -> Item]
         /\ \A s \in Share :
              \/ Waiting(f)[s] = f[s]
              \/ Eligible(f[s]) /\ Waiting(f)[s] = [f[s] EXCEPT !.transfer = "waiting"]
<1>1. \A i \in Item : [i EXCEPT !.transfer = "waiting"] \in Item
  BY DEF Item
<1> QED
  BY <1>1 DEF Waiting

\* A record whose transfer starts is one.
LEMMA StartsRecord ==
  ASSUME NEW i \in Item
  PROVE  [i EXCEPT !.transfer = "sending", !.attempt = @ + 1] \in Item
<1>1. i.attempt \in Nat /\ i.attempt + 1 \in Nat
  BY DEF Item
<1> QED
  BY <1>1 DEF Item

\* Marking a record leaves everything but its transfer state alone.
Kept(i, k) ==
  /\ k.attempt = i.attempt /\ k.receiver = i.receiver /\ k.uncertain = i.uncertain
  /\ k.cancelled = i.cancelled /\ k.compression = i.compression

LEMMA MarkKeepsRecord ==
  ASSUME NEW f \in [Share -> Item], NEW s \in Share
  PROVE  /\ Waiting(f)[s] \in Item /\ Kept(f[s], Waiting(f)[s])
         /\ \/ Waiting(f)[s].transfer = f[s].transfer
            \/ /\ Waiting(f)[s].transfer = "waiting"
               /\ f[s].transfer \in {"notStarted", "waiting"}
<1>1. CASE Waiting(f)[s] = f[s]
  BY <1>1 DEF Kept
<1>2. CASE Eligible(f[s]) /\ Waiting(f)[s] = [f[s] EXCEPT !.transfer = "waiting"]
  <2>1. f[s] \in Item
    OBVIOUS
  <2> QED
    BY <1>2, <2>1 DEF Kept, Eligible, Item
<1> QED
  BY <1>1, <1>2, WaitingMarks

\* schedule() keeps account of the transfers, and leaves nothing ready behind
\* unless something is being sent.
LEMMA ScheduleKeeps ==
  ASSUME IInv, Schedule, UNCHANGED <<present, enqueued, shutting, job, confirmed>>
  PROVE  /\ item' \in [Share -> Item] /\ active' \in Transfer /\ sending' \subseteq Transfer
         /\ SendAccountedFor' /\ Records'
         /\ (\E s \in present' : Eligible(item'[s])) => shutting' \/ active' # NoSend
<1> USE DEF IInv, TypeOK
<1>0. present \subseteq Share
  BY LimitAssumption DEF Share
<1>1. CASE UNCHANGED <<item, active, sending>>
           /\ (shutting \/ (active = NoSend /\ \A s \in present : ~Eligible(item[s])))
  BY <1>1 DEF SendAccountedFor, Records, RecordInv, Matches, IsActive
<1>2. CASE ~shutting /\ active # NoSend /\ item' = Waiting(item)
           /\ UNCHANGED <<active, sending>>
  <2>1. \A s \in present :
          /\ Kept(item[s], item'[s])
          /\ \/ item'[s].transfer = item[s].transfer
             \/ /\ item'[s].transfer = "waiting"
                /\ item[s].transfer \in {"notStarted", "waiting"}
    BY <1>0, <1>2, MarkKeepsRecord
  <2>2. SendAccountedFor'
    BY <1>2, <2>1 DEF Kept, SendAccountedFor, Matches, IsActive
  <2>3. Records'
    BY <1>2, <2>1 DEF Kept, Records, RecordInv, Compressed
  <2> QED
    BY <1>2, <2>2, <2>3, WaitingMarks
<1>3. ASSUME ~shutting, active = NoSend, NEW s \in present, IsNext(s),
             active' = [share |-> s, attempt |-> item[s].attempt + 1,
                        receiver |-> item[s].receiver],
             item' = Waiting(Started(s)), sending' = sending \cup {active'}
      PROVE  /\ item' \in [Share -> Item] /\ active' \in Transfer /\ sending' \subseteq Transfer
             /\ SendAccountedFor' /\ Records' /\ active' # NoSend
  <2>1. s \in Share /\ s # 0 /\ item[s] \in Item /\ Eligible(item[s])
    BY <1>0, <1>3 DEF IsNext, Share
  <2>2. /\ Started(s) \in [Share -> Item]
        /\ Started(s)[s] = [item[s] EXCEPT !.transfer = "sending", !.attempt = @ + 1]
        /\ \A t \in Share : t # s => Started(s)[t] = item[t]
    <3>1. [item[s] EXCEPT !.transfer = "sending", !.attempt = @ + 1] \in Item
      BY <2>1, StartsRecord
    <3> QED
      BY <2>1, <3>1 DEF Started
  <2>3. Started(s)[s].transfer = "sending" /\ ~Eligible(Started(s)[s])
    BY <2>1, <2>2 DEF Eligible, Item
  <2>4. item' \in [Share -> Item] /\ item'[s] = Started(s)[s]
    BY <1>3, <2>1, <2>2, <2>3, WaitingMarks
  <2>5. \A t \in present : t # s =>
          /\ Kept(item[t], item'[t])
          /\ \/ item'[t].transfer = item[t].transfer
             \/ /\ item'[t].transfer = "waiting"
                /\ item[t].transfer \in {"notStarted", "waiting"}
    BY <1>0, <1>3, <2>2, MarkKeepsRecord
  <2>6. /\ item'[s].transfer = "sending" /\ item'[s].attempt = item[s].attempt + 1
        /\ item'[s].receiver = item[s].receiver /\ item'[s].uncertain = item[s].uncertain
        /\ item'[s].cancelled = item[s].cancelled /\ item'[s].compression = item[s].compression
    BY <2>1, <2>2, <2>4 DEF Item
  <2>7. active' \in Transfer /\ active' # NoSend /\ active'.share = s
    BY <1>3, <2>1 DEF Transfer, NoSend, Item, Share
  <2>8. sending = {} /\ sending' = {active'}
    BY <1>3 DEF SendAccountedFor
  <2>9. SendAccountedFor'
    <3>1. Matches(active)'
      BY <1>3, <2>1, <2>6, <2>7 DEF Matches
    <3>2. \A t \in present : item[t].transfer \notin {"sending", "cancelling"}
      BY <1>0, <1>3 DEF SendAccountedFor, IsActive, NoSend, Share
    <3>3. \A t \in present : item'[t].transfer \in {"sending", "cancelling"} <=> active'.share = t
      BY <2>5, <2>6, <2>7, <3>2
    <3> QED
      BY <2>7, <2>8, <3>1, <3>3 DEF SendAccountedFor, IsActive
  <2>10. Records'
    <3>1. item[s].transfer \in {"notStarted", "waiting"} /\ ~item[s].uncertain
          /\ item[s].attempt <= confirmed[s] /\ ~item[s].cancelled
          /\ item[s].attempt \in Nat /\ confirmed[s] \in Nat
      BY <1>3, <2>1 DEF Eligible, Records, RecordInv, Item
    <3>2. RecordInv(s)'
      BY <1>3, <2>6, <3>1 DEF Records, RecordInv, Compressed
    <3>3. \A t \in present : t # s => RecordInv(t)'
      BY <2>5 DEF Kept, Records, RecordInv, Compressed
    <3> QED
      BY <3>2, <3>3 DEF Records
  <2> QED
    BY <2>4, <2>7, <2>8, <2>9, <2>10
<1> QED
  BY <1>1, <1>2, <1>3 DEF Schedule
\* The threads that call schedule() keep the invariant.
LEMMA CallersKeep ==
  ASSUME IInv,
         \/ MainSchedules
         \/ \E s \in Share : WatcherSchedules(s)
         \/ \E w \in leaving : SenderSchedules(w)
  PROVE  IInv'
<1>1. Schedule /\ UNCHANGED <<present, enqueued, shutting, toCancel, job, confirmed>>
  BY DEF MainSchedules, WatcherSchedules, SenderSchedules, mainVars
<1>2. /\ calling' \in BOOLEAN /\ leaving' \subseteq Transfer
      /\ watch' \in [Share -> {"watching", "calling", "last", "over"}]
  BY DEF MainSchedules, WatcherSchedules, SenderSchedules, mainVars, IInv, TypeOK
<1>3. TypeOK'
  BY <1>1, <1>2, ScheduleKeeps DEF IInv, TypeOK
<1>4. QueueNeverRests'
  BY <1>1, ScheduleKeeps DEF QueueNeverRests
<1> QED
  BY <1>1, <1>3, <1>4, ScheduleKeeps DEF IInv

----------------------------------------------------------------------------
(* Commands *)

\* A command that replaces a record and calls schedule() keeps the invariant
\* if the new record is right for its share.
LEMMA UpdateKeeps ==
  ASSUME IInv, NEW s \in present, NEW i \in Item, Update(s, i),
         i.transfer \in {"sending", "cancelling"} <=> IsActive(s),
         i.attempt = item[s].attempt,
         IsActive(s) => i.receiver = item[s].receiver,
         toCancel' \subseteq Share, job' = job, confirmed' \in [Share -> Nat],
         \A t \in Share : t # s => confirmed'[t] = confirmed[t],
         RecordInv(s)'
  PROVE  IInv'
<1> USE DEF IInv, TypeOK
<1>1. present \subseteq Share /\ s \in Share
  BY LimitAssumption DEF Share
<1>2. /\ item' = [item EXCEPT ![s] = i] /\ calling' = TRUE
      /\ UNCHANGED <<present, enqueued, active, shutting, watch, sending, leaving>>
  BY DEF Update, sendVars
<1>3. /\ item' \in [Share -> Item] /\ item'[s] = i
      /\ \A t \in Share : t # s => item'[t] = item[t]
  BY <1>1, <1>2
<1>4. TypeOK'
  BY <1>2, <1>3
<1>5. SendAccountedFor'
  <2>1. active # NoSend => Matches(active)'
    BY <1>1, <1>2, <1>3 DEF SendAccountedFor, Matches, IsActive
  <2>2. \A t \in present : item'[t].transfer \in {"sending", "cancelling"} <=> IsActive(t)
    BY <1>1, <1>3 DEF SendAccountedFor
  <2> QED
    BY <1>2, <2>1, <2>2 DEF SendAccountedFor, IsActive
<1>6. QueueNeverRests'
  BY <1>2 DEF QueueNeverRests
<1>7. Records'
  BY <1>1, <1>2, <1>3 DEF Records, RecordInv
<1> QED
  BY <1>4, <1>5, <1>6, <1>7

\* The commands that change one record keep the invariant.
LEMMA ShareCommandsKeep ==
  ASSUME IInv, NEW s \in Share,
         SetReceiver(s) \/ StartShare(s) \/ SkipShare(s) \/ CancelShare(s)
  PROVE  IInv'
<1>1. /\ s \in present /\ item[s] \in Item /\ RecordInv(s) /\ toCancel \subseteq Share
      /\ confirmed \in [Share -> Nat] /\ confirmed[s] \in Nat /\ item[s].attempt \in Nat
      /\ item[s].transfer \in {"sending", "cancelling"} <=> IsActive(s)
  BY DEF SetReceiver, StartShare, SkipShare, CancelShare, IInv, TypeOK, Records,
     SendAccountedFor, Item
<1>2. CASE SetReceiver(s)
  <2> DEFINE i == [item[s] EXCEPT !.receiver = 1]
  <2>1. i \in Item /\ i.transfer = item[s].transfer /\ i.attempt = item[s].attempt
        /\ i.uncertain = item[s].uncertain /\ i.cancelled = item[s].cancelled
        /\ i.compression = item[s].compression
    BY <1>1 DEF Item
  <2>2. Update(s, i) /\ ~IsActive(s) /\ UNCHANGED <<toCancel, job, confirmed>>
    BY <1>2 DEF SetReceiver
  <2> HIDE DEF i
  <2>3. item'[s] = i
    BY <2>2 DEF Update, IInv, TypeOK
  <2>4. RecordInv(s)'
    BY <1>1, <2>1, <2>2, <2>3 DEF RecordInv, Compressed
  <2> QED
    BY <1>1, <2>1, <2>2, <2>4, UpdateKeeps
<1>3. CASE StartShare(s)
  <2> DEFINE i == [item[s] EXCEPT !.skipped = FALSE, !.transfer = "notStarted",
                                  !.uncertain = FALSE]
  <2>1. i \in Item /\ i.transfer = "notStarted" /\ i.attempt = item[s].attempt
        /\ i.uncertain = FALSE /\ i.cancelled = item[s].cancelled
        /\ i.compression = item[s].compression
    BY <1>1 DEF Item
  <2>2. /\ Update(s, i) /\ ~IsActive(s) /\ UNCHANGED <<toCancel, job>>
        /\ ~item[s].cancelled /\ item[s].transfer # "sent"
        /\ confirmed' = [confirmed EXCEPT ![s] = IF item[s].uncertain THEN @ + 1 ELSE @]
    BY <1>3 DEF StartShare
  <2> HIDE DEF i
  <2>3. item'[s] = i
    BY <2>2 DEF Update, IInv, TypeOK
  <2>4. /\ confirmed' \in [Share -> Nat]
        /\ \A t \in Share : t # s => confirmed'[t] = confirmed[t]
        /\ confirmed'[s] = IF item[s].uncertain THEN confirmed[s] + 1 ELSE confirmed[s]
    BY <1>1, <2>2
  <2>5. item[s].attempt <= confirmed'[s]
    BY <1>1, <2>2, <2>4 DEF RecordInv
  <2>6. RecordInv(s)'
    BY <1>1, <2>1, <2>2, <2>3, <2>4, <2>5 DEF RecordInv, Compressed
  <2> QED
    BY <1>1, <2>1, <2>2, <2>4, <2>6, UpdateKeeps
<1>4. CASE SkipShare(s)
  <2> DEFINE i == [item[s] EXCEPT !.skipped = TRUE,
                     !.uncertain = @ \/ Stops(s),
                     !.transfer = IF Stops(s) THEN "cancelling"
                                  ELSE IF @ = "waiting" THEN "notStarted" ELSE @]
  <2>1. /\ Stops(s) <=> IsActive(s)
        /\ Stops(s) \in BOOLEAN
    BY <1>1 DEF Stops, IsActive
  <2>2. /\ i \in Item /\ i.attempt = item[s].attempt /\ i.receiver = item[s].receiver
        /\ i.uncertain = (item[s].uncertain \/ Stops(s))
        /\ i.cancelled = item[s].cancelled /\ i.compression = item[s].compression
        /\ i.transfer = IF Stops(s) THEN "cancelling"
                        ELSE IF item[s].transfer = "waiting" THEN "notStarted"
                        ELSE item[s].transfer
    BY <1>1, <2>1 DEF Item
  <2>3. Update(s, i) /\ item[s].transfer # "sent" /\ UNCHANGED <<toCancel, job, confirmed>>
    BY <1>4 DEF SkipShare
  <2> HIDE DEF i
  <2>4. item'[s] = i
    BY <2>3 DEF Update, IInv, TypeOK
  <2>5. i.transfer \in {"sending", "cancelling"} <=> IsActive(s)
    BY <1>1, <2>1, <2>2
  <2>6. RecordInv(s)'
    BY <1>1, <2>1, <2>2, <2>3, <2>4 DEF RecordInv, Compressed
  <2> QED
    BY <1>1, <2>2, <2>3, <2>5, <2>6, UpdateKeeps
<1>5. CASE CancelShare(s)
  <2> DEFINE i == Cancelled(s)
  <2>1. /\ Stops(s) <=> IsActive(s)
        /\ Stops(s) \in BOOLEAN
    BY <1>1 DEF Stops, IsActive
  <2>2. /\ i \in Item /\ i.attempt = item[s].attempt /\ i.receiver = item[s].receiver
        /\ i.uncertain = (item[s].uncertain \/ Stops(s))
        /\ i.transfer = IF Stops(s) THEN "cancelling" ELSE "cancelled"
        /\ i.compression = IF Compressed(item[s]) THEN item[s].compression ELSE "cancelling"
    BY <1>1, <2>1 DEF Item, Cancelled
  <2>3. Update(s, i) /\ item[s].transfer # "sent" /\ UNCHANGED <<job, confirmed>>
        /\ toCancel' \subseteq Share
    BY <1>5 DEF CancelShare
  <2> HIDE DEF i
  <2>4. item'[s] = i
    BY <2>3 DEF Update, IInv, TypeOK
  <2>5. i.transfer \in {"sending", "cancelling"} <=> IsActive(s)
    BY <2>1, <2>2
  <2>6. RecordInv(s)'
    BY <1>1, <2>1, <2>2, <2>3, <2>4 DEF RecordInv, Compressed
  <2> QED
    BY <1>1, <2>2, <2>3, <2>5, <2>6, UpdateKeeps
<1> QED
  BY <1>2, <1>3, <1>4, <1>5
\* A new share has an id that none had, and schedule() is to be called for it.
LEMMA EnqueueKeeps == ASSUME IInv, Enqueue PROVE IInv'
<1> USE DEF IInv, TypeOK
<1>0. PICK n \in Share : n = enqueued + 1
  BY LimitAssumption DEF Enqueue, Share
<1>1. /\ n \notin present /\ n # 0 /\ enqueued' = n /\ present' = present \cup {n}
      /\ calling' = TRUE /\ Cardinality(present) < MaxRecords
      /\ UNCHANGED <<active, shutting, toCancel, sending, leaving, confirmed>>
  BY <1>0, LimitAssumption DEF Enqueue, sendVars, Share
<1>2. PICK direct \in BOOLEAN, receiver \in 0 .. 1 :
        /\ item' = [item EXCEPT ![n] =
             [NoItem EXCEPT !.receiver = receiver, !.artifact = direct,
                !.compression = IF direct THEN "notRequired" ELSE "compressing"]]
        /\ job' = [job EXCEPT ![n] = IF direct THEN "none" ELSE "running"]
        /\ watch' = [watch EXCEPT ![n] = IF direct THEN "over" ELSE "watching"]
  BY <1>0 DEF Enqueue
<1> DEFINE i == [NoItem EXCEPT !.receiver = receiver, !.artifact = direct,
                   !.compression = IF direct THEN "notRequired" ELSE "compressing"]
<1>3. /\ i \in Item /\ i.transfer = "notStarted" /\ i.attempt = 0 /\ ~i.uncertain
      /\ ~i.cancelled /\ i.compression = IF direct THEN "notRequired" ELSE "compressing"
  BY DEF NoItem, Item
<1> HIDE DEF i
<1>4. /\ item' \in [Share -> Item] /\ item'[n] = i
      /\ \A t \in Share : t # n => item'[t] = item[t]
  BY <1>1, <1>2, <1>3 DEF i
<1>5. /\ job' \in [Share -> {"none", "running", "cancelling", "completed", "failed", "cancelled"}]
      /\ job'[n] = IF direct THEN "none" ELSE "running"
      /\ \A t \in Share : t # n => job'[t] = job[t]
      /\ watch' \in [Share -> {"watching", "calling", "last", "over"}]
  BY <1>1, <1>2
<1>6. present \subseteq Share
  BY LimitAssumption DEF Share
<1>7. Cardinality(present') <= MaxRecords
  <2>1. IsFiniteSet(1 .. enqueued)
    BY FS_Interval
  <2>2. IsFiniteSet(present)
    BY <2>1, FS_Subset
  <2>3. Cardinality(present \cup {n}) = Cardinality(present) + 1 /\ Cardinality(present) \in Nat
    BY <1>1, <2>2, FS_AddElement, FS_CardinalityType
  <2> QED
    BY <1>1, <2>3, LimitAssumption
<1>8. TypeOK'
  <2>1. enqueued' \in 0 .. MaxShares /\ present' \subseteq 1 .. enqueued'
    BY <1>0, <1>1, LimitAssumption DEF Share
  <2> QED
    BY <1>1, <1>4, <1>5, <1>7, <2>1
<1>9. active # NoSend => active.share \in present
  BY DEF SendAccountedFor, Matches
<1>10. active.share # n
  BY <1>1, <1>9 DEF NoSend
<1>11. SendAccountedFor'
  <2>1. active # NoSend => Matches(active)'
    BY <1>1, <1>4, <1>6, <1>9 DEF SendAccountedFor, Matches
  <2>2. \A t \in present' : item'[t].transfer \in {"sending", "cancelling"} <=> active.share = t
    BY <1>1, <1>3, <1>4, <1>6, <1>10 DEF SendAccountedFor, IsActive
  <2> QED
    BY <1>1, <2>1, <2>2 DEF SendAccountedFor, IsActive
<1>12. Records'
  <2>1. RecordInv(n)'
    BY <1>1, <1>3, <1>4, <1>5 DEF RecordInv, Compressed
  <2>2. \A t \in present : RecordInv(t)'
    BY <1>1, <1>4, <1>5, <1>6 DEF Records, RecordInv
  <2> QED
    BY <1>1, <2>1, <2>2 DEF Records
<1>13. QueueNeverRests'
  BY <1>1 DEF QueueNeverRests
<1> QED
  BY <1>8, <1>11, <1>12, <1>13

\* Dismissal and exit take nothing that is being sent.
LEMMA RemovalKeeps ==
  ASSUME IInv, RequestShutdown \/ (\E s \in Share : RemoveShare(s) \/ CancelJob(s))
  PROVE  IInv'
<1> USE DEF IInv, TypeOK
<1>1. present \subseteq Share
  BY LimitAssumption DEF Share
<1>2. CASE RequestShutdown
  BY <1>1, <1>2 DEF RequestShutdown, sendVars, SendAccountedFor, Matches, IsActive,
     QueueNeverRests, Records, RecordInv
<1>3. ASSUME NEW s \in Share, RemoveShare(s) PROVE IInv'
  <2>1. /\ s \in present /\ ~IsActive(s) /\ present' = present \ {s}
        /\ item' = [item EXCEPT ![s] = NoItem]
        /\ UNCHANGED <<enqueued, active, shutting, calling, toCancel, watch, sending, leaving,
                       job, confirmed>>
    BY <1>3 DEF RemoveShare, mainVars, sendVars
  <2>2. /\ item' \in [Share -> Item] /\ \A t \in present' : item'[t] = item[t]
    BY <1>1, <2>1 DEF NoItem, Item
  <2>3. Cardinality(present') <= MaxRecords
    <3>1. IsFiniteSet(1 .. enqueued)
      BY FS_Interval
    <3>2. IsFiniteSet(present)
      BY <3>1, FS_Subset
    <3> QED
      BY <2>1, <3>2, FS_Subset, FS_CardinalityType, LimitAssumption
  <2>4. TypeOK'
    BY <2>1, <2>2, <2>3
  <2>5. SendAccountedFor'
    <3>1. active # NoSend => active.share \in present' /\ Matches(active)'
      BY <2>1, <2>2 DEF SendAccountedFor, Matches, IsActive
    <3>2. \A t \in present' : item'[t].transfer \in {"sending", "cancelling"} <=> IsActive(t)
      BY <2>1, <2>2 DEF SendAccountedFor
    <3> QED
      BY <2>1, <3>1, <3>2 DEF SendAccountedFor, IsActive
  <2>6. QueueNeverRests' /\ Records'
    BY <2>1, <2>2 DEF QueueNeverRests, Records, RecordInv
  <2> QED
    BY <2>4, <2>5, <2>6
<1>4. ASSUME NEW s \in Share, CancelJob(s) PROVE IInv'
  <2>1. /\ toCancel' \subseteq Share
        /\ job' \in [Share -> {"none", "running", "cancelling", "completed", "failed",
                               "cancelled"}]
        /\ \A t \in Share : job'[t] # job[t] => job[t] = "running"
        /\ UNCHANGED <<present, item, enqueued, active, shutting, calling, watch, sending,
                       leaving, confirmed>>
    BY <1>4 DEF CancelJob, queueVars, sendVars
  <2> QED
    BY <1>1, <2>1 DEF SendAccountedFor, Matches, IsActive, QueueNeverRests, Records, RecordInv
<1> QED
  BY <1>2, <1>3, <1>4

----------------------------------------------------------------------------
(* Jobs and transfers *)

\* What the end of a job makes of a record is a record.
LEMMA EndedRecord ==
  ASSUME NEW i \in Item, NEW end, NEW found \in BOOLEAN
  PROVE  AfterJob(i, end, found) \in Item
  BY DEF AfterJob, Item

\* A job ends, and the thread that follows it tells the record.
LEMMA JobsKeep ==
  ASSUME IInv, NEW s \in Share, JobEnds(s) \/ ObserveProgress(s) \/ ObserveEnd(s)
  PROVE  IInv'
<1> USE DEF IInv, TypeOK
<1>1. present \subseteq Share
  BY LimitAssumption DEF Share
<1>2. CASE JobEnds(s)
  <2>1. /\ job' \in [Share -> {"none", "running", "cancelling", "completed", "failed",
                               "cancelled"}]
        /\ \A t \in Share : job'[t] # job[t] => job[t] \in {"running", "cancelling"}
        /\ UNCHANGED <<present, item, enqueued, active, shutting, calling, toCancel, watch,
                       sending, leaving, confirmed>>
    BY <1>2 DEF JobEnds, queueVars, mainVars, sendVars
  <2>2. SendAccountedFor' /\ QueueNeverRests'
    BY <2>1 DEF SendAccountedFor, Matches, IsActive, QueueNeverRests
  <2>3. Records'
    BY <1>1, <2>1 DEF Records, RecordInv
  <2> QED
    BY <2>1, <2>2, <2>3
<1>3. CASE ObserveProgress(s)
  <2>1. /\ watch' = [watch EXCEPT ![s] = "calling"]
        /\ UNCHANGED <<present, item, enqueued, active, shutting, calling, toCancel, sending,
                       leaving, job, confirmed>>
    BY <1>3 DEF ObserveProgress, queueVars, mainVars, sendVars
  <2> QED
    <3>1. SendAccountedFor' /\ Records'
      BY <2>1 DEF SendAccountedFor, Matches, IsActive, Records, RecordInv
    <3>2. QueueNeverRests'
      BY <2>1 DEF QueueNeverRests
    <3> QED
      BY <2>1, <3>1, <3>2
<1>4. CASE ObserveEnd(s)
  <2>1. /\ watch[s] = "watching" /\ job[s] \notin {"running", "cancelling"}
        /\ UNCHANGED <<present, enqueued, active, shutting, calling, toCancel, sending, leaving,
                       job, confirmed>>
    BY <1>4 DEF ObserveEnd, mainVars, sendVars
  <2>2. CASE watch' = [watch EXCEPT ![s] = "over"] /\ UNCHANGED item
    <3>1. SendAccountedFor' /\ Records'
      BY <2>1, <2>2 DEF SendAccountedFor, Matches, IsActive, Records, RecordInv
    <3>2. QueueNeverRests'
      BY <2>1, <2>2 DEF QueueNeverRests
    <3> QED
      BY <2>1, <2>2, <3>1, <3>2
  <2>3. ASSUME s \in present, NEW found \in BOOLEAN,
               item' = [item EXCEPT ![s] = AfterJob(item[s], job[s], found)],
               \/ watch' = [watch EXCEPT ![s] = "last"]
               \/ ~found /\ watch' = [watch EXCEPT ![s] = "over"]
        PROVE  IInv'
    <3> DEFINE i == AfterJob(item[s], job[s], found)
    <3>1. /\ i \in Item /\ i.transfer = item[s].transfer /\ i.attempt = item[s].attempt
          /\ i.receiver = item[s].receiver /\ i.uncertain = item[s].uncertain
          /\ i.cancelled = item[s].cancelled
          /\ ~found => ~i.artifact
      <4>1. item[s] \in Item
        OBVIOUS
      <4>2. i \in Item
        BY <4>1, Zenon, EndedRecord
      <4>3. /\ i.transfer = item[s].transfer /\ i.attempt = item[s].attempt
            /\ i.receiver = item[s].receiver /\ i.uncertain = item[s].uncertain
            /\ i.cancelled = item[s].cancelled
        BY <4>1 DEF AfterJob, Item
      <4>4. ~found => ~i.artifact
        BY <4>1 DEF AfterJob, Item
      <4> QED
        BY <4>2, <4>3, <4>4
    <3> HIDE DEF i
    <3>2. /\ item' \in [Share -> Item] /\ item'[s] = i
          /\ \A t \in Share : t # s => item'[t] = item[t]
      BY <2>3, <3>1 DEF i
    <3>3. /\ watch' \in [Share -> {"watching", "calling", "last", "over"}]
          /\ \A t \in Share : watch[t] \in {"calling", "last"} => watch'[t] = watch[t]
          /\ found => watch'[s] = "last"
      BY <2>1, <2>3
    <3>4. TypeOK'
      BY <2>1, <3>2, <3>3
    <3>5. SendAccountedFor'
      <4>1. active # NoSend => Matches(active)'
        BY <1>1, <2>1, <3>1, <3>2 DEF SendAccountedFor, Matches
      <4>2. \A t \in present : item'[t].transfer \in {"sending", "cancelling"} <=> IsActive(t)
        BY <1>1, <3>1, <3>2 DEF SendAccountedFor
      <4> QED
        BY <2>1, <4>1, <4>2 DEF SendAccountedFor, IsActive
    <3>6. QueueNeverRests'
      <4>1. CASE found
        BY <3>3, <4>1 DEF QueueNeverRests
      <4>2. CASE ~found
        BY <1>1, <2>1, <3>1, <3>2, <3>3, <4>2 DEF QueueNeverRests, Eligible
      <4> QED
        BY <4>1, <4>2
    <3>7. Records'
      <4>1. RecordInv(s)'
        BY <2>1, <2>3, <3>1, <3>2 DEF Records, RecordInv
      <4>2. \A t \in present : t # s => RecordInv(t)'
        BY <1>1, <2>1, <3>2 DEF Records, RecordInv
      <4> QED
        BY <2>1, <4>1, <4>2 DEF Records
    <3> QED
      BY <3>4, <3>5, <3>6, <3>7
  <2> QED
    BY <1>4, <2>2, <2>3 DEF ObserveEnd
<1> QED
  BY <1>2, <1>3, <1>4
\* What the end of a transfer makes of a record is a record.
LEMMA TransferredRecord ==
  ASSUME NEW i \in Item, NEW outcome \in {"sent", "cancelled", "failed"}
  PROVE  AfterTransfer(i, outcome) \in Item
  BY DEF AfterTransfer, Stopped, Item

\* finish_send always finds the record of its transfer, which is over then; its
\* thread is to call schedule().
LEMMA FinishKeeps ==
  ASSUME IInv, NEW w \in sending, FinishSend(w)
  PROVE  IInv'
<1> USE DEF IInv, TypeOK
<1>1. present \subseteq Share
  BY LimitAssumption DEF Share
<1> DEFINE s == w.share
<1>2. /\ active = w /\ w # NoSend /\ Matches(w) /\ s \in present /\ s \in Share
      /\ sending' = {} /\ w \in Transfer
  BY <1>1 DEF FinishSend, SendAccountedFor, Matches
<1>3. PICK outcome \in {"sent", "cancelled", "failed"} :
        item' = [item EXCEPT ![s] = AfterTransfer(item[s], outcome)]
  BY <1>2 DEF FinishSend
<1>4. /\ active' = NoSend /\ leaving' = leaving \cup {w}
      /\ UNCHANGED <<present, enqueued, shutting, calling, toCancel, watch, job, confirmed>>
  BY <1>2 DEF FinishSend, mainVars
<1> DEFINE i == AfterTransfer(item[s], outcome)
<1>5. /\ i \in Item /\ i.transfer \in {"sent", "cancelled", "failed"}
      /\ i.attempt = item[s].attempt /\ i.cancelled = item[s].cancelled
      /\ i.compression = item[s].compression
      /\ i.transfer # "sent" => i.uncertain
      /\ item[s].transfer = "cancelling" => i.transfer = "cancelled"
  <2>1. item[s] \in Item
    BY <1>2
  <2>2. i \in Item
    BY <2>1, Zenon, TransferredRecord
  <2>3. /\ i.transfer \in {"sent", "cancelled", "failed"}
        /\ i.attempt = item[s].attempt /\ i.cancelled = item[s].cancelled
        /\ i.compression = item[s].compression
        /\ item[s].transfer = "cancelling" => i.transfer = "cancelled"
    BY <2>1 DEF AfterTransfer, Stopped, Item
  <2>4. i.transfer # "sent" => i.uncertain
    BY <2>1 DEF AfterTransfer, Stopped, Item
  <2> QED
    BY <2>2, <2>3, <2>4
<1> HIDE DEF i, s
<1>6. /\ item' \in [Share -> Item] /\ item'[s] = i
      /\ \A t \in Share : t # s => item'[t] = item[t]
  BY <1>2, <1>3, <1>5 DEF i
<1>7. NoSend \in Transfer /\ leaving' \subseteq Transfer
  BY <1>2, <1>4, LimitAssumption DEF NoSend, Transfer
<1>8. TypeOK'
  BY <1>2, <1>4, <1>6, <1>7
<1>9. SendAccountedFor'
  <2>1. \A t \in present : item[t].transfer \in {"sending", "cancelling"} <=> t = s
    BY <1>2 DEF SendAccountedFor, IsActive, s
  <2>2. \A t \in present : item'[t].transfer \notin {"sending", "cancelling"}
    BY <1>1, <1>5, <1>6, <2>1
  <2>3. \A t \in present : NoSend.share # t
    BY DEF NoSend
  <2> QED
    BY <1>2, <1>4, <2>2, <2>3 DEF SendAccountedFor, IsActive
<1>10. QueueNeverRests'
  BY <1>4 DEF QueueNeverRests
<1>11. Records'
  <2>1. RecordInv(s) /\ item[s].transfer \in {"sending", "cancelling"}
    BY <1>2 DEF Records, SendAccountedFor, IsActive, s
  <2>2. RecordInv(s)'
    BY <1>4, <1>5, <1>6, <2>1 DEF RecordInv, Compressed, s
  <2>3. \A t \in present : t # s => RecordInv(t)'
    BY <1>1, <1>4, <1>6 DEF Records, RecordInv
  <2> QED
    BY <1>4, <2>2, <2>3 DEF Records
<1> QED
  BY <1>8, <1>9, <1>10, <1>11

----------------------------------------------------------------------------
(* Theorems *)

\* The invariant holds at the start: the queue is empty.
LEMMA InitIInv == Init => IInv
<1> SUFFICES ASSUME Init PROVE IInv
  OBVIOUS
<1>1. NoItem \in Item /\ NoSend \in Transfer
  BY LimitAssumption DEF NoItem, Item, NoSend, Transfer
<1>2. Cardinality({}) = 0
  BY FS_EmptySet
<1>3. TypeOK
  <2>1. present = {} /\ Cardinality(present) <= MaxRecords
    BY <1>2, LimitAssumption DEF Init
  <2>2. item \in [Share -> Item] /\ confirmed \in [Share -> Nat]
    BY <1>1 DEF Init
  <2>3. /\ watch \in [Share -> {"watching", "calling", "last", "over"}]
        /\ job \in [Share -> {"none", "running", "cancelling", "completed", "failed",
                              "cancelled"}]
    BY DEF Init
  <2>4. /\ enqueued \in 0 .. MaxShares /\ active \in Transfer
    BY <1>1, LimitAssumption DEF Init
  <2>5. /\ sending = {} /\ leaving = {} /\ toCancel = {}
        /\ shutting \in BOOLEAN /\ calling \in BOOLEAN
    BY DEF Init
  <2> QED
    BY <2>1, <2>2, <2>3, <2>4, <2>5 DEF TypeOK
<1> QED
  BY <1>3 DEF Init, IInv, SendAccountedFor, QueueNeverRests, Records

\* Every step keeps it.
LEMMA StepIInv == IInv /\ [Next]_vars => IInv'
<1> SUFFICES ASSUME IInv, [Next]_vars PROVE IInv'
  OBVIOUS
<1>1. CASE UNCHANGED vars
  BY <1>1 DEF vars, queueVars, mainVars, sendVars, IInv, TypeOK, SendAccountedFor, Matches,
     IsActive, QueueNeverRests, Records, RecordInv
<1>2. CASE Command
  BY <1>2, EnqueueKeeps, ShareCommandsKeep, RemovalKeeps DEF Command
<1>3. CASE Threads
  BY <1>3, CallersKeep, RemovalKeeps, JobsKeep, FinishKeeps DEF Threads
<1> QED
  BY <1>1, <1>2, <1>3 DEF Next

LEMMA Invariance == Spec => []IInv
  BY InitIInv, StepIInv, PTL DEF Spec

\* The queue keeps its types and its limit, and a receiver is chosen once.
THEOREM QueueTypeCorrect == Spec => []TypeOK
<1>1. IInv => TypeOK
  BY DEF IInv
<1> QED
  BY <1>1, Invariance, PTL

\* One transfer at a time, with its record: finish_send always clears active_send.
THEOREM OneSendAccountedFor == Spec => []SendAccountedFor
<1>1. IInv => SendAccountedFor
  BY DEF IInv
<1> QED
  BY <1>1, Invariance, PTL

\* A ready share is never left to the next command.
THEOREM ReadyIsScheduled == Spec => []QueueNeverRests
<1>1. IInv => QueueNeverRests
  BY DEF IInv
<1> QED
  BY <1>1, Invariance, PTL

\* No second attempt without the user's confirmation.
THEOREM ResendIsConfirmed == Spec => []NoUnconfirmedResend
<1>1. IInv => NoUnconfirmedResend
  BY DEF IInv, Records, RecordInv, NoUnconfirmedResend
<1> QED
  BY <1>1, Invariance, PTL

\* What was stopped during its transfer is not sent, and a cancelled share is
\* never sent again.
THEOREM StoppedStays == Spec => StoppedIsNotSent
<1> DEFINE A == \A s \in present \cap present' :
                  /\ item[s].transfer = "cancelling"
                       => item'[s].transfer \in {"cancelling", "cancelled"}
                  /\ item[s].cancelled
                       => item'[s].cancelled /\ item'[s].transfer \in {"cancelling", "cancelled"}
<1>1. IInv /\ IInv' /\ [Next]_vars => [A]_vars
  <2> SUFFICES ASSUME IInv, IInv', Next, NEW s \in present \cap present'
               PROVE  /\ item[s].transfer = "cancelling"
                           => item'[s].transfer \in {"cancelling", "cancelled"}
                      /\ item[s].cancelled => item'[s].cancelled
    BY DEF IInv, Records, RecordInv
  <2>1. /\ s \in Share /\ item \in [Share -> Item] /\ item[s] \in Item
        /\ item[s].transfer = "cancelling" => IsActive(s)
    BY LimitAssumption DEF IInv, TypeOK, Share, SendAccountedFor
  <2>2. CASE UNCHANGED item
    BY <2>2
  <2>3. CASE Schedule
    <3>1. ASSUME NEW f \in [Share -> Item], item' = Waiting(f),
                 f[s].cancelled = item[s].cancelled,
                 item[s].transfer = "cancelling" => f[s].transfer = "cancelling"
          PROVE  /\ item[s].transfer = "cancelling" => item'[s].transfer = "cancelling"
                 /\ item[s].cancelled => item'[s].cancelled
      BY <2>1, <3>1, MarkKeepsRecord DEF Kept
    <3>2. ASSUME NEW t \in present, IsNext(t)
          PROVE  /\ Started(t) \in [Share -> Item]
                 /\ Started(t)[s].cancelled = item[s].cancelled
                 /\ item[s].transfer = "cancelling"
                      => Started(t)[s].transfer = "cancelling"
      <4>0. t \in Share /\ item[t] \in Item
        BY LimitAssumption DEF IInv, TypeOK, Share
      <4>1. /\ t \in Share /\ item[t] \in Item
            /\ [item[t] EXCEPT !.transfer = "sending", !.attempt = @ + 1] \in Item
        BY <4>0, StartsRecord
      <4>2. Started(t) \in [Share -> Item]
        BY <2>1, <4>1 DEF Started
      <4>3. CASE s = t
        BY <2>1, <3>2, <4>1, <4>3 DEF Started, IsNext, Eligible, Item
      <4>4. CASE s # t
        BY <2>1, <4>1, <4>4 DEF Started
      <4> QED
        BY <4>2, <4>3, <4>4
    <3> QED
      BY <2>1, <2>2, <2>3, <3>1, <3>2 DEF Schedule
  <2>4. ASSUME NEW t \in Share, NEW i, item' = [item EXCEPT ![t] = i],
               s = t => /\ item[s].transfer = "cancelling" => i.transfer \in {"cancelling", "cancelled"}
                        /\ item[s].cancelled => i.cancelled
        PROVE  /\ item[s].transfer = "cancelling"
                    => item'[s].transfer \in {"cancelling", "cancelled"}
               /\ item[s].cancelled => item'[s].cancelled
    BY <2>1, <2>4
  <2>5. CASE Enqueue
    BY <2>1, <2>5 DEF Enqueue, IInv, TypeOK
  <2>6. ASSUME NEW t \in Share, SetReceiver(t) \/ StartShare(t) \/ SkipShare(t) \/ CancelShare(t)
                                \/ RemoveShare(t) \/ ObserveEnd(t)
        PROVE  /\ item[s].transfer = "cancelling"
                    => item'[s].transfer \in {"cancelling", "cancelled"}
               /\ item[s].cancelled => item'[s].cancelled
    <3>1. CASE SetReceiver(t)
      BY <2>1, <2>2, <2>4, <3>1 DEF SetReceiver, Update, Item
    <3>2. CASE StartShare(t)
      BY <2>1, <2>2, <2>4, <3>2 DEF StartShare, Update, Item
    <3>3. CASE SkipShare(t)
      <4> DEFINE i == [item[t] EXCEPT !.skipped = TRUE,
                                      !.uncertain = @ \/ Stops(t),
                                      !.transfer = IF Stops(t) THEN "cancelling"
                                                   ELSE IF @ = "waiting" THEN "notStarted"
                                                   ELSE @]
      <4>1. item' = [item EXCEPT ![t] = i]
        BY <3>3, Zenon DEF SkipShare, Update
      <4>2. item[t] \in Item
        BY <2>1
      <4>3. /\ item[t].transfer = "cancelling" => i.transfer = "cancelling"
            /\ item[t].cancelled => i.cancelled
        BY <4>2, Zenon DEF Item
      <4> HIDE DEF i
      <4> QED
        BY <2>4, <4>1, <4>3
    <3>4. CASE CancelShare(t)
      BY <2>1, <2>2, <2>4, <3>4 DEF CancelShare, Cancelled, Stops, Update, Item
    <3>5. CASE RemoveShare(t)
      BY <2>1, <2>2, <3>5 DEF RemoveShare
    <3>6. CASE ObserveEnd(t)
      <4>1. CASE UNCHANGED item
        BY <4>1
      <4>2. ASSUME NEW found \in BOOLEAN,
                   item' = [item EXCEPT ![t] = AfterJob(item[t], job[t], found)]
            PROVE  /\ item[s].transfer = "cancelling"
                         => item'[s].transfer \in {"cancelling", "cancelled"}
                   /\ item[s].cancelled => item'[s].cancelled
        <5>1. item[t] \in Item
          BY <2>1
        <5>2. /\ AfterJob(item[t], job[t], found).transfer = item[t].transfer
              /\ AfterJob(item[t], job[t], found).cancelled = item[t].cancelled
          BY <5>1 DEF AfterJob, Item
        <5> QED
          BY <2>4, <4>2, <5>2
      <4> QED
        BY <3>6, <4>1, <4>2 DEF ObserveEnd
    <3> QED
      BY <2>6, <3>1, <3>2, <3>3, <3>4, <3>5, <3>6
  <2>7. ASSUME NEW w \in sending, FinishSend(w)
        PROVE  /\ item[s].transfer = "cancelling"
                    => item'[s].transfer \in {"cancelling", "cancelled"}
               /\ item[s].cancelled => item'[s].cancelled
    <3>1. CASE UNCHANGED item
      BY <3>1
    <3>2. ASSUME NEW outcome \in {"sent", "cancelled", "failed"}, Matches(w),
                 item' = [item EXCEPT ![w.share] = AfterTransfer(item[w.share], outcome)]
          PROVE  /\ item[s].transfer = "cancelling"
                      => item'[s].transfer \in {"cancelling", "cancelled"}
                 /\ item[s].cancelled => item'[s].cancelled
      <4>1. w.share \in Share
        BY <3>2, LimitAssumption DEF Matches, IInv, TypeOK, Share
      <4>2. s = w.share => /\ item[s].transfer = "cancelling"
                                => AfterTransfer(item[s], outcome).transfer = "cancelled"
                           /\ AfterTransfer(item[s], outcome).cancelled = item[s].cancelled
        BY <2>1 DEF AfterTransfer, Stopped, Item
      <4> QED
        BY <2>1, <3>2, <4>1, <4>2
    <3> QED
      BY <2>7, <3>1, <3>2 DEF FinishSend
  <2> QED
    BY <2>2, <2>3, <2>5, <2>6, <2>7 DEF Next, Command, Threads, RequestShutdown, CancelJob,
       JobEnds, ObserveProgress, MainSchedules, WatcherSchedules, SenderSchedules, queueVars
<1> QED
  BY <1>1, Invariance, PTL DEF Spec, StoppedIsNotSent

\* Nothing leaves the queue while its job or its transfer goes on.
THEOREM RemovedAreOver == Spec => RemovedIsOver
<1> DEFINE A == \A s \in present \ present' :
                  /\ job[s] \notin {"running", "cancelling"}
                  /\ \A w \in sending : w.share # s
<1>1. IInv /\ [Next]_vars => [A]_vars
  <2> SUFFICES ASSUME IInv, Next, NEW s \in present \ present' PROVE A!(s)
    OBVIOUS
  <2>1. RemoveShare(s)
    BY DEF Next, Command, Threads, Enqueue, SetReceiver, StartShare, SkipShare, CancelShare,
       Update, RequestShutdown, CancelJob, JobEnds, ObserveProgress, ObserveEnd, FinishSend,
       MainSchedules, WatcherSchedules, SenderSchedules, queueVars, RemoveShare
  <2>2. job[s] \notin {"running", "cancelling"}
    BY <2>1 DEF RemoveShare, Removable, IInv, Records, RecordInv
  <2>3. \A w \in sending : w.share # s
    BY <2>1 DEF RemoveShare, IInv, SendAccountedFor, IsActive
  <2> QED
    BY <2>2, <2>3
<1> QED
  BY <1>1, Invariance, PTL DEF Spec, RemovedIsOver

----------------------------------------------------------------------------
(* The life of the compression jobs *)

\* The jobs as JobLifecycle sees them. "running" stands for all that comes before a
\* cancellation or an end, and counts as queued, from where both may follow.
Seen ==
  [s \in Share |-> CASE job[s] = "none"    -> "absent"
                     [] job[s] = "running" -> "queued"
                     [] OTHER              -> job[s]]

Taken == {s \in Share : job[s] # "none"}

Life == INSTANCE JobLifecycle WITH Job <- Share, status <- Seen, spent <- Taken

JobStatus == {"none", "running", "cancelling", "completed", "failed", "cancelled"}

\* Shares that are not enqueued yet have no job.
NoneAhead == \A s \in Share : s > enqueued => job[s] = "none"

\* The change of one job.
LEMMA JobChanges ==
  ASSUME job \in [Share -> JobStatus], NEW s \in Share, NEW x \in JobStatus,
         job' = [job EXCEPT ![s] = x]
  PROVE  /\ job[s] = "none" /\ x = "running" => Life!Next
         /\ job[s] = "running" /\ x \in JobStatus \ {"none", "running"} => Life!Next
         /\ job[s] = "cancelling" /\ x = "cancelled" => Life!Next
<1> DEFINE v == IF x = "running" THEN "queued" ELSE x
<1>1. ASSUME x # "none" PROVE Seen' = [Seen EXCEPT ![s] = v] /\ Taken' = Taken \cup {s}
  BY <1>1 DEF Seen, Taken, JobStatus
<1>2. CASE job[s] = "none" /\ x = "running"
  <2>1. Life!Request(s, {}, "queued")
    BY <1>1, <1>2 DEF Life!Request, Seen, Taken
  <2> QED
    BY <1>2, <2>1 DEF Life!Next
<1>3. CASE job[s] # "none" /\ x \notin {"none", "running"}
  <2>1. Life!Become(s, x) /\ Seen[s] = IF job[s] = "running" THEN "queued" ELSE job[s]
    BY <1>1, <1>3 DEF Life!Become, Seen, Taken
  <2>2. CASE job[s] = "running"
    <3>1. Life!Cancel(s) \/ Life!End(s)
      BY <1>3, <2>1, <2>2 DEF Life!Cancel, Life!End, JobStatus
    <3> QED
      BY <1>3, <2>2, <3>1 DEF Life!Next
  <2>3. CASE job[s] = "cancelling" /\ x = "cancelled"
    <3>1. Life!End(s)
      BY <2>1, <2>3 DEF Life!End
    <3> QED
      BY <2>3, <3>1 DEF Life!Next
  <2> QED
    BY <1>3, <2>2, <2>3
<1> QED
  BY <1>2, <1>3

\* The jobs that the queue starts, cancels and waits for live as JobLifecycle
\* promises of the jobs of the Job Registry: none starts twice, none that was asked
\* to cancel ends otherwise, and no end is taken back.
THEOREM CompressionsLive == Spec => Life!Spec
<1>1. Init => Life!Init /\ NoneAhead
  BY DEF Init, Life!Init, Seen, Taken, NoneAhead
<1>2. IInv /\ NoneAhead /\ [Next]_vars => NoneAhead' /\ [Life!Next]_<<Seen, Taken>>
  <2> SUFFICES ASSUME IInv, NoneAhead, [Next]_vars
               PROVE  NoneAhead' /\ (Life!Next \/ UNCHANGED <<Seen, Taken>>)
    OBVIOUS
  <2>1. /\ job \in [Share -> JobStatus] /\ enqueued \in Nat /\ Share \subseteq Nat
        /\ MaxShares \in Nat
    BY LimitAssumption DEF IInv, TypeOK, JobStatus, Share
  <2>2. CASE job' = job /\ enqueued' = enqueued
    BY <2>2 DEF NoneAhead, Seen, Taken
  <2>3. CASE Enqueue
    <3>0. PICK direct \in BOOLEAN :
            job' = [job EXCEPT ![enqueued + 1] = IF direct THEN "none" ELSE "running"]
      BY <2>3 DEF Enqueue
    <3>1. /\ enqueued' = enqueued + 1 /\ enqueued + 1 \in Share
          /\ job' = [job EXCEPT ![enqueued + 1] = "none"]
               \/ job' = [job EXCEPT ![enqueued + 1] = "running"]
      <4>1. enqueued < MaxShares /\ enqueued' = enqueued + 1
        BY <2>3 DEF Enqueue
      <4>2. \/ job' = [job EXCEPT ![enqueued + 1] = "none"]
            \/ job' = [job EXCEPT ![enqueued + 1] = "running"]
        BY <3>0, Zenon
      <4> QED
        BY <2>1, <4>1, <4>2 DEF Share
    <3>2. job[enqueued + 1] = "none"
      BY <2>1, <3>1 DEF NoneAhead
    <3>3. NoneAhead'
      BY <2>1, <3>1 DEF NoneAhead
    <3>4. CASE job' = [job EXCEPT ![enqueued + 1] = "none"]
      <4>1. job' = job
        BY <2>1, <3>2, <3>4
      <4> QED
        BY <3>3, <4>1 DEF Seen, Taken
    <3>5. CASE job' = [job EXCEPT ![enqueued + 1] = "running"]
      BY <2>1, <3>1, <3>2, <3>3, <3>5, JobChanges DEF JobStatus
    <3> QED
      BY <3>1, <3>4, <3>5
  <2>4. ASSUME NEW s \in Share, CancelJob(s) \/ JobEnds(s)
        PROVE  NoneAhead' /\ (Life!Next \/ UNCHANGED <<Seen, Taken>>)
    <3>1. PICK x \in JobStatus :
            /\ job' = [job EXCEPT ![s] = x] /\ enqueued' = enqueued
            /\ \/ x = job[s]
               \/ job[s] = "running" /\ x \in JobStatus \ {"none", "running"}
               \/ job[s] = "cancelling" /\ x = "cancelled"
      BY <2>1, <2>4 DEF CancelJob, JobEnds, JobStatus, queueVars
    <3>2. NoneAhead'
      BY <2>1, <3>1 DEF NoneAhead
    <3>3. CASE x = job[s]
      BY <2>1, <2>2, <3>1, <3>3
    <3> QED
      BY <2>1, <3>1, <3>2, <3>3, JobChanges
  <2>5. CASE Command /\ ~Enqueue
    BY <2>2, <2>5 DEF Command, SetReceiver, StartShare, SkipShare, CancelShare, RemoveShare,
       RequestShutdown, Update
  <2>6. CASE Threads /\ ~(\E s \in Share : CancelJob(s) \/ JobEnds(s))
    BY <2>2, <2>6 DEF Threads, MainSchedules, WatcherSchedules, SenderSchedules,
       ObserveProgress, ObserveEnd, FinishSend, queueVars
  <2>7. CASE UNCHANGED vars
    BY <2>2, <2>7 DEF vars, queueVars
  <2> QED
    BY <2>3, <2>4, <2>5, <2>6, <2>7 DEF Next
<1> QED
  BY <1>1, <1>2, Invariance, PTL DEF Spec, Life!Spec
=============================================================================
