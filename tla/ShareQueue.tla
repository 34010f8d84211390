----------------------------- MODULE ShareQueue -----------------------------
(***************************************************************************)
(* The share queue (src-tauri/src/share_queue.rs): archives and files that *)
(* wait to be sent to another device, one at a time.                       *)
(*                                                                         *)
(* Commands run on the main thread. A share that compresses first has a    *)
(* thread that follows its job; each transfer has a thread. All of them    *)
(* change the queue in one locked region and call schedule() in a second   *)
(* one; what they ask of the Job Registry and of LocalSend they ask        *)
(* between the two. The jobs behave as JobLifecycle says, with "running"   *)
(* for every status before the cancellation or the end. A transfer is      *)
(* named by its share and attempt, as send ids are drawn once for each.    *)
(***************************************************************************)
EXTENDS Integers, FiniteSets

CONSTANTS
  MaxRecords,   \* MAX_SHARE_RECORDS
  MaxShares,    \* bound: shares enqueued
  MaxAttempts   \* bound: attempts of a share that start_share may add to

ASSUME LimitAssumption ==
  MaxRecords \in Nat \ {0} /\ MaxShares \in Nat /\ MaxAttempts \in Nat

Share == 1 .. MaxShares   \* share ids, which are enqueue sequences as well

VARIABLES
  \* QueueState
  present,     \* shares that are in items
  item,        \* their records
  enqueued,    \* next_id, next_sequence
  active,      \* active_send
  shutting,    \* shutting_down
  \* threads
  calling,     \* the main thread has schedule() to call
  toCancel,    \* jobs the main thread has to cancel before
  watch,       \* the thread that follows a share's job
  sending,     \* transfers on their way
  leaving,     \* transfers whose thread has schedule() to call
  \* outside
  job,         \* compression jobs
  \* history
  confirmed    \* restarts of a share that its user confirmed

queueVars == <<present, item, enqueued, active, shutting>>
mainVars  == <<calling, toCancel>>
sendVars  == <<sending, leaving>>
vars == <<queueVars, mainVars, watch, sendVars, job, confirmed>>

Transfer == [share : 0 .. MaxShares, attempt : Nat, receiver : Nat]

NoSend == [share |-> 0, attempt |-> 0, receiver |-> 0]

NoItem == [receiver |-> 0, artifact |-> FALSE, compression |-> "notRequired",
           transfer |-> "notStarted", skipped |-> FALSE, cancelled |-> FALSE,
           attempt |-> 0, uncertain |-> FALSE]

\* compression_state_is_terminal
Compressed(i) == i.compression \notin {"compressing", "cancelling"}

\* is_send_eligible; receiver is the receiver_generation, 0 without a receiver.
Eligible(i) ==
  /\ ~i.cancelled /\ ~i.skipped
  /\ i.receiver # 0 /\ i.artifact
  /\ i.transfer \in {"notStarted", "waiting"}

\* Mutant of Removable: only the transfer counts.
RemovableUnsent(i) == i.transfer \notin {"sending", "cancelling"} /\ ~Eligible(i)

\* ensure_removable
Removable(i) ==
  i.transfer \notin {"sending", "cancelling"} /\ Compressed(i) /\ ~Eligible(i)

IsActive(s) == active.share = s

----------------------------------------------------------------------------
(* schedule() *)

Waiting(items) ==
  [s \in Share |->
     IF s \in present /\ Eligible(items[s]) THEN [items[s] EXCEPT !.transfer = "waiting"]
                                            ELSE items[s]]

IsNext(s) ==
  /\ s \in present /\ Eligible(item[s])
  /\ \A t \in present : Eligible(item[t]) => s <= t

Started(s) ==
  [item EXCEPT ![s] = [item[s] EXCEPT !.transfer = "sending", !.attempt = @ + 1]]

\* A transfer under way marks what waits for its end; else the first share that
\* is ready is sent.
Schedule ==
  \/ /\ shutting \/ (active = NoSend /\ \A s \in present : ~Eligible(item[s]))
     /\ UNCHANGED <<item, active, sending>>
  \/ /\ ~shutting /\ active # NoSend
     /\ item' = Waiting(item)
     /\ UNCHANGED <<active, sending>>
  \/ /\ ~shutting /\ active = NoSend
     /\ \E s \in present :
          /\ IsNext(s)
          /\ active' = [share |-> s, attempt |-> item[s].attempt + 1,
                        receiver |-> item[s].receiver]
          /\ item' = Waiting(Started(s))
     /\ sending' = sending \cup {active'}

MainSchedules ==
  /\ calling /\ toCancel = {} /\ calling' = FALSE
  /\ Schedule
  /\ UNCHANGED <<present, enqueued, shutting, toCancel, watch, leaving, job, confirmed>>

WatcherSchedules(s) ==
  /\ watch[s] \in {"calling", "last"}
  /\ watch' = [watch EXCEPT ![s] = IF @ = "last" THEN "over" ELSE "watching"]
  /\ Schedule
  /\ UNCHANGED <<present, enqueued, shutting, mainVars, leaving, job, confirmed>>

SenderSchedules(w) ==
  /\ w \in leaving /\ leaving' = leaving \ {w}
  /\ Schedule
  /\ UNCHANGED <<present, enqueued, shutting, mainVars, watch, job, confirmed>>

----------------------------------------------------------------------------
(* Commands, one after the other on the main thread *)

Idle == ~calling /\ toCancel = {} /\ ~shutting

\* The record of share s is replaced, and schedule() is to be called.
Update(s, i) ==
  /\ item' = [item EXCEPT ![s] = i]
  /\ calling' = TRUE
  /\ UNCHANGED <<present, enqueued, active, shutting, watch, sendVars>>

\* enqueue of a file or of a compression, with or without a receiver. A request
\* that was made before is answered with its share.
Enqueue ==
  /\ Idle
  /\ Cardinality(present) < MaxRecords
  /\ enqueued < MaxShares /\ enqueued' = enqueued + 1
  /\ present' = present \cup {enqueued + 1}
  /\ \E direct \in BOOLEAN, receiver \in 0 .. 1 :
       /\ item' = [item EXCEPT ![enqueued + 1] =
            [NoItem EXCEPT !.receiver = receiver, !.artifact = direct,
               !.compression = IF direct THEN "notRequired" ELSE "compressing"]]
       /\ job' = [job EXCEPT ![enqueued + 1] = IF direct THEN "none" ELSE "running"]
       /\ watch' = [watch EXCEPT ![enqueued + 1] = IF direct THEN "over" ELSE "watching"]
  /\ calling' = TRUE
  /\ UNCHANGED <<active, shutting, toCancel, sendVars, confirmed>>

\* set_receiver, select_receiver
SetReceiver(s) ==
  /\ Idle /\ s \in present /\ ~IsActive(s)
  /\ item[s].receiver = 0
  /\ ~item[s].cancelled /\ ~item[s].skipped
  /\ item[s].transfer \in {"notStarted", "waiting"}
  /\ item[s].compression \notin {"cancelling", "cancelled", "failed"}
  /\ Update(s, [item[s] EXCEPT !.receiver = 1])
  /\ UNCHANGED <<toCancel, job, confirmed>>

\* Mutant of StartShare: a share may be started while its transfer stops.
StartWhileStopping(s) ==
  /\ Idle /\ s \in present
  /\ ~item[s].cancelled /\ item[s].transfer # "sent"
  /\ item[s].receiver # 0 /\ item[s].artifact
  /\ item[s].attempt < MaxAttempts
  /\ Update(s, [item[s] EXCEPT !.skipped = FALSE, !.transfer = "notStarted",
                               !.uncertain = FALSE])
  /\ confirmed' = [confirmed EXCEPT ![s] = IF item[s].uncertain THEN @ + 1 ELSE @]
  /\ UNCHANGED <<toCancel, job>>

\* start_share. When the delivery is uncertain, the user has confirmed it.
StartShare(s) ==
  /\ Idle /\ s \in present /\ ~IsActive(s)
  /\ ~item[s].cancelled /\ item[s].transfer # "sent"
  /\ item[s].receiver # 0 /\ item[s].artifact
  /\ item[s].attempt < MaxAttempts
  /\ Update(s, [item[s] EXCEPT !.skipped = FALSE, !.transfer = "notStarted",
                               !.uncertain = FALSE])
  /\ confirmed' = [confirmed EXCEPT ![s] = IF item[s].uncertain THEN @ + 1 ELSE @]
  /\ UNCHANGED <<toCancel, job>>

\* A transfer of the share is under way and is to be stopped. (The call to
\* LocalSend changes nothing here: a transfer may end any way.)
Stops(s) == IsActive(s) \/ item[s].transfer = "sending"

\* skip_share
SkipShare(s) ==
  /\ Idle /\ s \in present
  /\ item[s].transfer # "sent"
  /\ Update(s, [item[s] EXCEPT !.skipped = TRUE,
                               !.uncertain = @ \/ Stops(s),
                               !.transfer = IF Stops(s) THEN "cancelling"
                                            ELSE IF @ = "waiting" THEN "notStarted" ELSE @])
  /\ UNCHANGED <<toCancel, job, confirmed>>

Cancelled(s) ==
  [item[s] EXCEPT !.cancelled = TRUE,
                  !.uncertain = @ \/ Stops(s),
                  !.transfer = IF Stops(s) THEN "cancelling" ELSE "cancelled",
                  !.compression = IF Compressed(item[s]) THEN @ ELSE "cancelling"]

\* Mutant of CancelShare: the job is left to itself.
CancelShareOnly(s) ==
  /\ Idle /\ s \in present
  /\ item[s].transfer # "sent" /\ ~item[s].cancelled
  /\ Update(s, Cancelled(s))
  /\ UNCHANGED <<toCancel, job, confirmed>>

\* cancel_share
CancelShare(s) ==
  /\ Idle /\ s \in present
  /\ item[s].transfer # "sent" /\ ~item[s].cancelled
  /\ Update(s, Cancelled(s))
  /\ toCancel' = IF Compressed(item[s]) THEN {} ELSE {s}
  /\ UNCHANGED <<job, confirmed>>

\* request_cancel of the Job Registry, which ignores jobs that have ended.
CancelJob(s) ==
  /\ s \in toCancel /\ toCancel' = toCancel \ {s}
  /\ job' = [job EXCEPT ![s] = IF @ = "running" THEN "cancelling" ELSE @]
  /\ UNCHANGED <<queueVars, calling, watch, sendVars, confirmed>>

\* remove_share
RemoveShare(s) ==
  /\ Idle /\ s \in present /\ ~IsActive(s)
  /\ Removable(item[s])
  /\ present' = present \ {s}
  /\ item' = [item EXCEPT ![s] = NoItem]
  /\ UNCHANGED <<enqueued, active, shutting, mainVars, watch, sendVars, job, confirmed>>

\* request_shutdown, at the exit of the application; no command comes after it.
RequestShutdown ==
  /\ Idle /\ shutting' = TRUE
  /\ toCancel' = {s \in present : ~item[s].cancelled /\ job[s] # "none"}
  /\ UNCHANGED <<present, item, enqueued, active, calling, watch, sendVars, job, confirmed>>

----------------------------------------------------------------------------
(* Jobs and transfers *)

\* Outside: a job ends, and does so cancelled once it was asked to.
JobEnds(s) ==
  /\ \/ job[s] = "running"
        /\ \E end \in {"completed", "failed", "cancelled"} : job' = [job EXCEPT ![s] = end]
     \/ job[s] = "cancelling" /\ job' = [job EXCEPT ![s] = "cancelled"]
  /\ UNCHANGED <<queueVars, mainVars, watch, sendVars, confirmed>>

CancelAwaited(i) == i.cancelled /\ i.compression = "cancelling"

\* on_job_snapshot before the end: progress only.
ObserveProgress(s) ==
  /\ watch[s] = "watching" /\ job[s] \in {"running", "cancelling"}
  /\ s \in present /\ (item[s].cancelled => CancelAwaited(item[s]))
  /\ watch' = [watch EXCEPT ![s] = "calling"]
  /\ UNCHANGED <<queueVars, mainVars, sendVars, job, confirmed>>

\* What becomes of a compression that has ended; found tells whether the
\* archive is there.
AfterJob(i, end, found) ==
  [i EXCEPT
     !.compression = IF CancelAwaited(i) \/ end = "cancelled" THEN "cancelled"
                     ELSE IF end = "completed" /\ found THEN "complete" ELSE "failed",
     !.artifact = end = "completed" /\ found /\ ~CancelAwaited(i)]

\* on_job_snapshot at the end, after which the thread is over. A job without
\* an archive among its outputs returns without schedule().
ObserveEnd(s) ==
  /\ watch[s] = "watching" /\ job[s] \notin {"running", "cancelling"}
  /\ IF s \notin present \/ (item[s].cancelled /\ ~CancelAwaited(item[s]))
     THEN watch' = [watch EXCEPT ![s] = "over"] /\ UNCHANGED item
     ELSE \E found \in BOOLEAN :
            /\ item' = [item EXCEPT ![s] = AfterJob(item[s], job[s], found)]
            /\ watch' \in {[watch EXCEPT ![s] = "last"]} \cup
                 (IF job[s] = "completed" /\ ~found THEN {[watch EXCEPT ![s] = "over"]} ELSE {})
  /\ UNCHANGED <<present, enqueued, active, shutting, mainVars, sendVars, job, confirmed>>

\* The record that a transfer was started for.
Matches(w) ==
  /\ w.share \in present
  /\ item[w.share].attempt = w.attempt /\ item[w.share].receiver = w.receiver

Stopped(i) == i.transfer \in {"cancelling", "cancelled"}

\* Mutant of AfterTransfer: a transfer that completed nevertheless counts.
AfterTransferAsIs(i, outcome) ==
  [i EXCEPT !.transfer = outcome, !.uncertain = outcome # "sent"]

\* Mutant of AfterTransfer: a transfer that ended cancelled did not arrive.
AfterTransferCertain(i, outcome) ==
  [i EXCEPT !.transfer = IF Stopped(i) THEN "cancelled" ELSE outcome,
            !.uncertain = ~Stopped(i) /\ outcome = "failed"]

\* resolve_transfer_result
AfterTransfer(i, outcome) ==
  [i EXCEPT !.transfer = IF Stopped(i) THEN "cancelled" ELSE outcome,
            !.uncertain = Stopped(i) \/ outcome # "sent"]

\* Mutant of FinishSend: the next share is left to the next command.
FinishSendQuietly(w) ==
  /\ w \in sending /\ sending' = sending \ {w}
  /\ \E outcome \in {"sent", "cancelled", "failed"} :
       item' = [item EXCEPT ![w.share] = AfterTransfer(item[w.share], outcome)]
  /\ active' = NoSend
  /\ UNCHANGED <<present, enqueued, shutting, leaving, mainVars, watch, job, confirmed>>

\* The transfer ends: finish_send.
FinishSend(w) ==
  /\ w \in sending /\ sending' = sending \ {w}
  /\ IF active = w /\ Matches(w)
     THEN /\ \E outcome \in {"sent", "cancelled", "failed"} :
               item' = [item EXCEPT ![w.share] = AfterTransfer(item[w.share], outcome)]
          /\ active' = NoSend
          /\ leaving' = leaving \cup {w}
     ELSE UNCHANGED <<item, active, leaving>>
  /\ UNCHANGED <<present, enqueued, shutting, mainVars, watch, job, confirmed>>

----------------------------------------------------------------------------
Init ==
  /\ present = {} /\ item = [s \in Share |-> NoItem] /\ enqueued = 0
  /\ active = NoSend /\ shutting = FALSE
  /\ calling = FALSE /\ toCancel = {}
  /\ watch = [s \in Share |-> "over"]
  /\ sending = {} /\ leaving = {}
  /\ job = [s \in Share |-> "none"]
  /\ confirmed = [s \in Share |-> 0]

Command ==
  \/ Enqueue \/ RequestShutdown
  \/ \E s \in Share : SetReceiver(s) \/ StartShare(s) \/ SkipShare(s) \/ CancelShare(s)
                      \/ RemoveShare(s)

Threads ==
  \/ MainSchedules
  \/ \E s \in Share : CancelJob(s) \/ JobEnds(s) \/ ObserveProgress(s) \/ ObserveEnd(s)
                      \/ WatcherSchedules(s)
  \/ \E w \in sending : FinishSend(w)
  \/ \E w \in leaving : SenderSchedules(w)

Next == Command \/ Threads

\* Threads run on; a job that was asked to end ends, and so does a transfer.
Fairness ==
  /\ WF_vars(MainSchedules)
  /\ \A s \in Share :
       /\ WF_vars(CancelJob(s)) /\ WF_vars(job[s] = "cancelling" /\ JobEnds(s))
       /\ WF_vars(ObserveEnd(s)) /\ WF_vars(WatcherSchedules(s))
  /\ WF_vars(\E w \in sending : FinishSend(w))
  /\ WF_vars(\E w \in leaving : SenderSchedules(w))

Spec == Init /\ [][Next]_vars /\ Fairness

----------------------------------------------------------------------------
(* Properties *)

Item ==
  [receiver : 0 .. 1, artifact : BOOLEAN,
   compression : {"notRequired", "compressing", "cancelling", "complete", "failed",
                  "cancelled"},
   transfer : {"notStarted", "waiting", "sending", "cancelling", "sent", "failed",
               "cancelled"},
   skipped : BOOLEAN, cancelled : BOOLEAN, attempt : Nat, uncertain : BOOLEAN]

\* The queue keeps its types and its limit of records, and a receiver is chosen
\* once.
TypeOK ==
  /\ present \subseteq 1 .. enqueued /\ Cardinality(present) <= MaxRecords
  /\ item \in [Share -> Item]
  /\ enqueued \in 0 .. MaxShares
  /\ active \in Transfer /\ sending \subseteq Transfer /\ leaving \subseteq Transfer
  /\ shutting \in BOOLEAN /\ calling \in BOOLEAN /\ toCancel \subseteq Share
  /\ watch \in [Share -> {"watching", "calling", "last", "over"}]
  /\ job \in [Share -> {"none", "running", "cancelling", "completed", "failed", "cancelled"}]
  /\ confirmed \in [Share -> Nat]

\* One transfer at a time, and the queue always knows which: the one on its way
\* is the active one, its record is there, of that attempt and receiver, and
\* shows it; no other record claims to be sent. So finish_send finds what it
\* looks for, and the queue is never blocked by a transfer that nobody ends.
SendAccountedFor ==
  /\ sending = {active} \ {NoSend}
  /\ active # NoSend => Matches(active)
  /\ \A s \in present : item[s].transfer \in {"sending", "cancelling"} <=> IsActive(s)

\* The queue never rests while a share is ready: somebody sends or is about to
\* call schedule().
QueueNeverRests ==
  (\E s \in present : Eligible(item[s])) =>
     \/ shutting \/ active # NoSend
     \/ calling \/ leaving # {} \/ \E s \in Share : watch[s] \in {"calling", "last"}

\* What was skipped or cancelled during its transfer ends cancelled, even when
\* the transfer completed, and a cancelled share is never sent again.
StoppedIsNotSent ==
  [][\A s \in present \cap present' :
       /\ item[s].transfer = "cancelling" => item'[s].transfer \in {"cancelling", "cancelled"}
       /\ item[s].cancelled => item'[s].cancelled
                               /\ item'[s].transfer \in {"cancelling", "cancelled"}]_vars

\* The receiver may already have the file after an attempt that did not end
\* well: there is no second attempt unless the user confirmed it.
NoUnconfirmedResend == \A s \in present : item[s].attempt <= 1 + confirmed[s]

\* A share leaves the queue only when its job has ended and its transfer is not
\* on its way: nothing goes on that nobody sees.
RemovedIsOver ==
  [][\A s \in present \ present' :
       /\ job[s] \notin {"running", "cancelling"}
       /\ \A w \in sending : w.share # s]_vars

\* A cancelled share can be dismissed in the end, whatever was under way.
CancelledEnds ==
  \A s \in Share : (s \in present /\ item[s].cancelled)
                     ~> (s \notin present \/ (Removable(item[s]) /\ ~IsActive(s)))
=============================================================================
