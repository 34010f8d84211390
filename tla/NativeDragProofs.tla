-------------------------- MODULE NativeDragProofs --------------------------
(***************************************************************************)
(* Proofs about NativeDrag, for any promises, folders and requests.  None  *)
(* of its threads knows what the others have done: what they may conclude  *)
(* from their own place rests on where the session and the token can be    *)
(* (Confined, Told), on what a writer leaves behind (Kept), and on every   *)
(* request being answered once (Counted).                                  *)
(***************************************************************************)
EXTENDS NativeDrag, FiniteSetTheorems, TLAPS

\* Without a session nothing of the native drag has begun: only macOS has one,
\* and the command is the first to have it.
Confined ==
  /\ platform = "staged" => session = "none"
  /\ platform = "promise" => command.pc \notin {"staging", "staged"}
  /\ command.pc = "created" => session # "none"
  /\ session = "none" => /\ ~finder.source /\ ~reaping /\ finder.finishing = 0
                         /\ finder.callback = "none" /\ finder.release = "none"
                         /\ \A p \in Promise : promise.writer[p] = "idle"

\* Whoever is about to report a cancellation has cancelled the token, and only
\* a drop that is committed takes the session away without doing so.
Told ==
  /\ job.status = "cancelling" => job.token
  /\ finder.callback = "settle" => job.token
  /\ finder.release = "emit" => job.token
  /\ reaping => job.token
  /\ session = "gone" => job.token \/ finder.callback \in {"commit", "over"}
  /\ job.status = "cancelled" =>
       job.token \/ (platform = "staged" /\ command.pc = "over")

\* What is complete, or about to be recorded as complete, was written.
Kept ==
  /\ promise.completed \subseteq promise.written
  /\ \A p \in Promise : promise.writer[p] = "whole" => p \in promise.written
  /\ finder.callback = "commit" => promise.completed = Promise

\* Every request is with a writer, or is being answered, or is over.
Counted == finder.finishing + Cardinality(Writing) <= finder.requests

IInv ==
  TypeOK /\ Confined /\ Told /\ Kept /\ Counted /\ CompletedMeansWritten
----------------------------------------------------------------------------

Statuses == {"none", "queued", "running", "cancelling"} \cup TerminalStatus

JobSet == [status : Statuses, token : BOOLEAN]

Pcs == {"none", "accepting", "accepted", "expired", "taken", "started", "prepared",
        "launching", "created", "native", "staging", "staged", "erred", "over"}

CommandSet ==
  [pc : Pcs, outcome : {"none", "dropped", "cancelled", "noDrop"}, streamFailed : BOOLEAN]

PromiseSet ==
  [writer : [Promise -> {"idle", "claimed", "opened", "whole", "broken"}],
   completed : SUBSET Promise, written : SUBSET Promise]

Callbacks == {"none", "dropped", "cancelled", "settle", "commit", "missing", "close", "over"}

FinderSet ==
  [source    : BOOLEAN,
   ended     : {"none", "dropped", "cancelled"},
   remaining : 0..Cardinality(Promise),
   finishing : 0..MaxRequests,
   callback  : Callbacks,
   release   : {"none", "held", "emit", "done"},
   requests  : 0..MaxRequests]

Typed ==
  /\ platform \in {"promise", "staged"}
  /\ job \in JobSet /\ command \in CommandSet
  /\ session \in {"none", "open", "gone"}
  /\ promise \in PromiseSet /\ finder \in FinderSet
  /\ reaping \in BOOLEAN /\ exiting \in BOOLEAN

\* The type invariant, with the types of the variables named, before a step and
\* after it.
LEMMA Types == (TypeOK <=> Typed) /\ (TypeOK' <=> Typed')
BY Zenon DEF Typed, TypeOK, JobSet, Statuses, CommandSet, Pcs, PromiseSet, FinderSet, Callbacks

\* An emitter leaves the token alone, and a status becomes cancelled only where
\* the token is cancelled or where a cancellation is what is emitted.
LEMMA EmitDoes ==
  ASSUME job \in JobSet, NEW e \in {"running"} \cup TerminalStatus, Emit(e)
  PROVE  /\ job' \in JobSet /\ job'.token = job.token
         /\ job'.status = "cancelling" => job.status = "cancelling"
         /\ job'.status = "cancelled" =>
              job.status \in {"cancelled", "cancelling"} \/ e = "cancelled"
         /\ job'.status = "completed" => job.status = "completed" \/ e = "completed"
<1>1. job'.status = StatusAfter(job.status, e) /\ job'.token = job.token
  BY DEF Emit, JobSet
<1>2. StatusAfter(job.status, e) \in Statuses
  BY DEF StatusAfter, JobSet, Statuses, TerminalStatus
<1>3. job' \in JobSet
  BY <1>1, <1>2 DEF Emit, JobSet
<1> QED
  BY <1>1, <1>3 DEF StatusAfter, TerminalStatus, JobSet, Statuses

\* Closing a session cancels the token if the session was there.
LEMMA CancelSessionDoes ==
  ASSUME job \in JobSet, session \in {"none", "open", "gone"}, CancelSession
  PROVE  /\ job' \in JobSet /\ job'.status = job.status
         /\ job.token => job'.token
         /\ session' \in {"none", "gone"}
         /\ session' = "none" <=> session = "none"
         /\ session = "open" => job'.token
<1>1. /\ session' = IF session = "open" THEN "gone" ELSE session
      /\ job' = [job EXCEPT !.token = job.token \/ session = "open"]
  BY DEF CancelSession, Open
<1>2. job' \in JobSet
  BY <1>1, Zenon DEF JobSet
<1>3. job'.status = job.status /\ job'.token = (job.token \/ session = "open")
  BY <1>1 DEF JobSet
<1> QED
  BY <1>1, <1>2, <1>3

\* The promises that are being written are finitely many.
LEMMA WritingFinite == IsFiniteSet(Writing) /\ Cardinality(Writing) \in Nat
BY PromiseAssumption, FS_Subset, FS_CardinalityType DEF Writing
----------------------------------------------------------------------------

LEMMA InitIInv == Init => IInv
<1> SUFFICES ASSUME Init PROVE IInv
  OBVIOUS
<1>1. Cardinality(Promise) \in Nat
  BY PromiseAssumption, FS_CardinalityType
<1>2. TypeOK
  <2>1. job \in JobSet
    BY DEF Init, JobSet, Statuses
  <2>2. command \in CommandSet
    BY DEF Init, CommandSet, Pcs
  <2>3. promise \in PromiseSet
    BY DEF Init, PromiseSet
  <2>4. finder \in FinderSet
    BY <1>1, RequestAssumption DEF Init, FinderSet, Callbacks
  <2> QED
    BY <2>1, <2>2, <2>3, <2>4, Types DEF Init, Typed
<1>3. Confined /\ Told /\ Kept
  BY DEF Init, Confined, Told, Kept
<1>4. Counted
  BY FS_EmptySet, <1>1 DEF Init, Counted, Writing
<1>5. CompletedMeansWritten
  BY DEF Init, CompletedMeansWritten
<1> QED
  BY <1>2, <1>3, <1>4, <1>5 DEF IInv

----------------------------------------------------------------------------
(* The command *)

\* A step of the command that touches neither the session nor the native drag
\* keeps the invariant, if it ends the job as the token and the files say.
LEMMA CommandStep ==
  ASSUME IInv, UNCHANGED <<platform, session, promise, finder, reaping, exiting>>,
         job' \in JobSet, command' \in CommandSet,
         job.token => job'.token,
         command.pc = "over" => command'.pc = "over",
         platform = "promise" => command'.pc \notin {"staging", "staged"},
         command'.pc # "created",
         job'.status = "cancelling" => job'.token,
         job'.status = "cancelled" =>
           job'.token \/ (platform = "staged" /\ command'.pc = "over"),
         job'.status = "completed" =>
           (IF platform = "promise" THEN Promise ELSE Files) \subseteq promise.written
  PROVE  IInv'
<1> USE DEF IInv
<1>1. TypeOK'
  BY Types DEF Typed
<1>2. Confined'
  BY DEF Confined
<1>3. Told'
  BY DEF Told
<1>4. Kept' /\ Counted' /\ CompletedMeansWritten'
  BY DEF Kept, Counted, Writing, CompletedMeansWritten
<1> QED
  BY <1>1, <1>2, <1>3, <1>4

\* The typing and the fields of a command that goes to another place.
LEMMA GoToDoes ==
  ASSUME command \in CommandSet, NEW pc \in Pcs, GoTo(pc)
  PROVE  command' \in CommandSet /\ command'.pc = pc
BY DEF GoTo, CommandSet

\* A step of the command that only goes on.
LEMMA GoesOn ==
  ASSUME IInv, NEW pc \in Pcs, GoTo(pc),
         pc # "created", platform = "promise" => pc \notin {"staging", "staged"},
         command.pc \notin {"over"},
         UNCHANGED <<platform, job, session, promise, finder, reaping, exiting>>
  PROVE  IInv'
<1>1. command' \in CommandSet /\ command'.pc = pc /\ job' = job /\ job \in JobSet
  BY GoToDoes, Types DEF IInv, Typed
<1>2. command.pc # "over" /\ (job.status = "cancelled" => job.token \/ command.pc = "over")
  BY DEF IInv, Told
<1>3. /\ job.status = "cancelling" => job.token
      /\ job.status = "completed" =>
           (IF platform = "promise" THEN Promise ELSE Files) \subseteq promise.written
  BY DEF IInv, Told, CompletedMeansWritten
<1> QED
  BY <1>1, <1>2, <1>3, CommandStep

\* A step of the command that ends the job: a cancellation only with a cancelled
\* token or as the ending of a staged drag, a completion only with every file.
LEMMA EndsJob ==
  ASSUME IInv, NEW e \in TerminalStatus, Emit(e), GoTo("over"),
         command.pc # "over",
         e = "cancelled" => job.token \/ platform = "staged",
         e = "completed" =>
           (IF platform = "promise" THEN Promise ELSE Files) \subseteq promise.written,
         UNCHANGED <<platform, session, promise, finder, reaping, exiting>>
  PROVE  IInv'
<1>1. command' \in CommandSet /\ command'.pc = "over" /\ job \in JobSet
  BY GoToDoes, Types DEF IInv, Typed, Pcs
<1>2. /\ job' \in JobSet /\ job'.token = job.token
      /\ job'.status = "cancelling" => job.status = "cancelling"
      /\ job'.status = "cancelled" =>
           job.status \in {"cancelled", "cancelling"} \/ e = "cancelled"
      /\ job'.status = "completed" => job.status = "completed" \/ e = "completed"
  BY <1>1, EmitDoes
<1>3. /\ job.status = "cancelling" => job.token
      /\ job.status = "cancelled" => job.token
      /\ job.status = "completed" =>
           (IF platform = "promise" THEN Promise ELSE Files) \subseteq promise.written
  BY DEF IInv, Told, CompletedMeansWritten
<1> QED
  BY <1>1, <1>2, <1>3, CommandStep

\* The page accepts the drag and starts it; the command prepares and launches it.
LEMMA BeforeTheDrag ==
  ASSUME IInv, Accept \/ Register \/ Take \/ Announce \/ Prepare \/ Launch
  PROVE  IInv'
<1>1. job \in JobSet /\ command \in CommandSet
  BY Types DEF IInv, Typed
<1>2. CASE Accept
  <2>1. command' \in CommandSet /\ command'.pc = "accepting"
    BY <1>1, <1>2, GoToDoes DEF Accept, Pcs
  <2>2. job' \in JobSet /\ job'.status = "queued" /\ job'.token = job.token
    BY <1>1, <1>2 DEF Accept, JobSet, Statuses
  <2> QED
    BY <1>2, <2>1, <2>2, CommandStep DEF Accept
<1>3. CASE Register
  <2>1. CASE GoTo("accepted") /\ UNCHANGED job
    BY <1>3, <2>1, GoesOn DEF Register, Pcs
  <2>2. CASE GoTo("over") /\ Emit("failed")
    BY <1>3, <2>2, EndsJob DEF Register, TerminalStatus
  <2> QED
    BY <1>3, <2>1, <2>2 DEF Register
<1>4. CASE Take
  BY <1>4, GoesOn DEF Take, Pcs
<1>5. CASE Announce
  <2>1. command' \in CommandSet /\ command'.pc = "started" /\ command.pc = "taken"
    BY <1>1, <1>5, GoToDoes DEF Announce, Pcs
  <2>2. /\ job' \in JobSet /\ job'.token = job.token
        /\ job'.status = "cancelling" => job.status = "cancelling"
        /\ job'.status = "cancelled" => job.status \in {"cancelled", "cancelling"}
        /\ job'.status = "completed" => job.status = "completed"
    BY <1>1, <1>5, EmitDoes DEF Announce, TerminalStatus
  <2>3. /\ job.status \in {"cancelled", "cancelling"} => job.token
        /\ job.status = "completed" =>
             (IF platform = "promise" THEN Promise ELSE Files) \subseteq promise.written
    BY <2>1 DEF IInv, Told, CompletedMeansWritten
  <2> QED
    BY <1>5, <2>1, <2>2, <2>3, CommandStep DEF Announce
<1>6. CASE Prepare
  <2>1. CASE StopIfCancelled
    BY <1>6, <2>1, EndsJob DEF Prepare, StopIfCancelled, TerminalStatus
  <2>2. CASE ~job.token /\ Emit("failed") /\ GoTo("over")
    BY <1>6, <2>2, EndsJob DEF Prepare, TerminalStatus
  <2>3. CASE ~job.token /\ GoTo("prepared") /\ UNCHANGED job
    BY <1>6, <2>3, GoesOn DEF Prepare, Pcs
  <2> QED
    BY <1>6, <2>1, <2>2, <2>3 DEF Prepare
<1>7. CASE Launch
  <2>1. CASE StopIfCancelled
    BY <1>7, <2>1, EndsJob DEF Launch, StopIfCancelled, TerminalStatus
  <2>2. CASE ~job.token /\ GoTo("launching") /\ UNCHANGED job
    BY <1>7, <2>2, GoesOn DEF Launch, Pcs
  <2> QED
    BY <1>7, <2>1, <2>2 DEF Launch
<1> QED
  BY <1>2, <1>3, <1>4, <1>5, <1>6, <1>7

\* The command leaves the drag to the callbacks or ends it; the user and the
\* reaper of operations only touch the job.
LEMMA AroundTheDrag ==
  ASSUME IInv,
         CannotDescribe \/ ReturnPending \/ SettleError \/ StartStaging
           \/ DragLoopReturns \/ SettleStaged \/ ReapOperation \/ FailExpired
           \/ RequestCancel
  PROVE  IInv'
<1>1. job \in JobSet /\ command \in CommandSet /\ platform \in {"promise", "staged"}
  BY Types DEF IInv, Typed
<1>2. CASE CannotDescribe
  BY <1>2, GoesOn DEF CannotDescribe, Pcs
<1>3. CASE ReturnPending
  <2>1. CASE command.streamFailed
    BY <1>3, <2>1, EndsJob DEF ReturnPending, TerminalStatus
  <2>2. CASE ~command.streamFailed
    BY <1>3, <2>2, GoesOn DEF ReturnPending, Pcs
  <2> QED
    BY <2>1, <2>2
<1>4. CASE SettleError
  BY <1>4, EndsJob DEF SettleError, TerminalStatus
<1>5. CASE StartStaging
  BY <1>5, GoesOn DEF StartStaging, Pcs
<1>6. CASE DragLoopReturns
  <2>1. platform = "staged"
    BY <1>1, <1>6 DEF DragLoopReturns, IInv, Confined
  <2>2. CASE GoTo("erred")
    BY <1>6, <2>2, GoesOn DEF DragLoopReturns, Pcs
  <2>3. ASSUME NEW o \in {"dropped", "cancelled", "noDrop"},
               command' = [command EXCEPT !.pc = "staged", !.outcome = o]
        PROVE  IInv'
    <3>1. command' \in CommandSet /\ command'.pc = "staged"
      BY <1>1, <2>3 DEF CommandSet, Pcs
    <3>2. /\ job.status \in {"cancelled", "cancelling"} => job.token
          /\ job.status = "completed" =>
               (IF platform = "promise" THEN Promise ELSE Files) \subseteq promise.written
      BY <1>6 DEF IInv, Told, CompletedMeansWritten, DragLoopReturns
    <3> QED
      BY <1>1, <1>6, <2>1, <3>1, <3>2, CommandStep DEF DragLoopReturns
  <2> QED
    BY <1>6, <2>2, <2>3 DEF DragLoopReturns
<1>7. CASE SettleStaged
  <2>1. platform = "staged"
    BY <1>1, <1>7 DEF SettleStaged, IInv, Confined
  <2>2. /\ StagedEnding \in TerminalStatus
        /\ StagedEnding = "completed" => Files \subseteq promise.written
    BY DEF StagedEnding, TerminalStatus
  <2> QED
    BY <1>7, <2>1, <2>2, EndsJob DEF SettleStaged
<1>8. CASE ReapOperation
  BY <1>8, GoesOn DEF ReapOperation, Pcs
<1>9. CASE FailExpired
  BY <1>9, EndsJob DEF FailExpired, TerminalStatus
<1>10. CASE RequestCancel
  <2>1. job' \in JobSet /\ job'.status = "cancelling" /\ job'.token
    BY <1>10 DEF RequestCancel, JobSet, Statuses
  <2>2. TypeOK'
    BY <1>10, <2>1, Types DEF IInv, Typed, RequestCancel
  <2>3. Confined' /\ Kept' /\ Counted'
    BY <1>10 DEF IInv, RequestCancel, Confined, Kept, Counted, Writing
  <2>4. Told' /\ CompletedMeansWritten'
    BY <1>10, <2>1 DEF IInv, RequestCancel, Told, CompletedMeansWritten
  <2> QED
    BY <2>2, <2>3, <2>4 DEF IInv
<1> QED
  BY <1>2, <1>3, <1>4, <1>5, <1>6, <1>7, <1>8, <1>9, <1>10

\* The command opens the session, and hands it to the host or loses it there.
LEMMA SessionSteps ==
  ASSUME IInv, CreateSession \/ HostRefuses \/ BeginDrag
  PROVE  IInv'
<1>1. /\ job \in JobSet /\ command \in CommandSet /\ finder \in FinderSet
      /\ session \in {"none", "open", "gone"}
  BY Types DEF IInv, Typed
<1>2. CASE CreateSession
  <2>1. CASE GoTo("erred") /\ UNCHANGED session
    BY <1>2, <2>1, GoesOn DEF CreateSession, Pcs
  <2>2. CASE session' = "open" /\ GoTo("created")
    <3>1. command' \in CommandSet /\ command'.pc = "created"
      BY <1>1, <2>2, GoToDoes DEF Pcs
    <3>2. TypeOK'
      BY <1>2, <2>2, <3>1, Types DEF IInv, Typed, CreateSession
    <3>3. Confined' /\ Told'
      BY <1>2, <2>2, <3>1 DEF IInv, CreateSession, Confined, Told
    <3>4. Kept' /\ Counted' /\ CompletedMeansWritten'
      BY <1>2 DEF IInv, CreateSession, Kept, Counted, Writing, CompletedMeansWritten
    <3> QED
      BY <3>2, <3>3, <3>4 DEF IInv
  <2> QED
    BY <1>2, <2>1, <2>2 DEF CreateSession
<1>3. CASE HostRefuses
  <2>1. command' \in CommandSet /\ command'.pc = "erred"
    BY <1>1, <1>3, GoToDoes DEF HostRefuses, Pcs
  <2>2. /\ job' \in JobSet /\ job'.status = job.status
        /\ job.token => job'.token
        /\ session' \in {"none", "gone"}
        /\ session' = "none" <=> session = "none"
        /\ session = "open" => job'.token
    BY <1>1, <1>3, CancelSessionDoes DEF HostRefuses
  <2>3. TypeOK'
    BY <1>3, <2>1, <2>2, Types DEF IInv, Typed, HostRefuses
  <2>4. Confined'
    BY <1>3, <2>1, <2>2 DEF IInv, Confined, HostRefuses
  <2>5. Told'
    BY <1>1, <1>3, <2>1, <2>2 DEF IInv, Told, HostRefuses
  <2>6. Kept' /\ Counted' /\ CompletedMeansWritten'
    BY <1>3, <2>2 DEF IInv, HostRefuses, Kept, Counted, Writing, CompletedMeansWritten
  <2> QED
    BY <2>3, <2>4, <2>5, <2>6 DEF IInv
<1>4. CASE BeginDrag
  <2>1. command' \in CommandSet /\ command'.pc = "native" /\ command.pc = "created"
    BY <1>1, <1>4, GoToDoes DEF BeginDrag, Pcs
  <2>2. /\ finder' \in FinderSet /\ finder'.release = "held"
        /\ finder'.callback = finder.callback /\ finder'.finishing = finder.finishing
        /\ finder'.requests = finder.requests
    BY <1>1, <1>4 DEF BeginDrag, FinderSet
  <2>3. TypeOK'
    BY <1>4, <2>1, <2>2, Types DEF IInv, Typed, BeginDrag
  <2>4. Confined' /\ Told'
    BY <1>4, <2>1, <2>2 DEF IInv, Confined, Told, BeginDrag
  <2>5. Kept' /\ Counted' /\ CompletedMeansWritten'
    BY <1>4, <2>2 DEF IInv, BeginDrag, Kept, Counted, Writing, CompletedMeansWritten
  <2> QED
    BY <2>3, <2>4, <2>5 DEF IInv
<1> QED
  BY <1>2, <1>3, <1>4

----------------------------------------------------------------------------
(* The files *)

\* A staged drag extracts a file, or remembers that it could not.
LEMMA StageEntryKeeps ==
  ASSUME IInv, NEW p \in Promise, StageEntry(p)
  PROVE  IInv'
<1>1. command \in CommandSet /\ promise \in PromiseSet
  BY Types DEF IInv, Typed
<1>2. CASE promise' = [promise EXCEPT !.written = @ \cup {p}] /\ UNCHANGED command
  <2>1. /\ promise' \in PromiseSet /\ promise'.writer = promise.writer
        /\ promise'.completed = promise.completed
        /\ promise'.written = promise.written \cup {p}
    BY <1>1, <1>2 DEF PromiseSet
  <2>2. TypeOK'
    BY <1>2, <2>1, Types DEF IInv, Typed, StageEntry
  <2>3. Confined' /\ Told'
    BY <1>2, <2>1 DEF IInv, StageEntry, Confined, Told
  <2>4. Kept' /\ Counted' /\ CompletedMeansWritten'
    BY <1>2, <2>1 DEF IInv, StageEntry, Kept, Counted, Writing, CompletedMeansWritten
  <2> QED
    BY <2>2, <2>3, <2>4 DEF IInv
<1>3. CASE command' = [command EXCEPT !.streamFailed = TRUE] /\ UNCHANGED promise
  <2>1. command' \in CommandSet /\ command'.pc = command.pc
    BY <1>1, <1>3 DEF CommandSet
  <2>2. TypeOK'
    BY <1>3, <2>1, Types DEF IInv, Typed, StageEntry
  <2>3. Confined' /\ Told'
    BY <1>3, <2>1 DEF IInv, StageEntry, Confined, Told
  <2>4. Kept' /\ Counted' /\ CompletedMeansWritten'
    BY <1>3 DEF IInv, StageEntry, Kept, Counted, Writing, CompletedMeansWritten
  <2> QED
    BY <2>2, <2>3, <2>4 DEF IInv
<1> QED
  BY <1>2, <1>3 DEF StageEntry

\* A writer goes on or gives up: it stays among the writers, a file it reports
\* whole is written, and nothing else of the drag changes.
LEMMA WriterGoesOn ==
  ASSUME IInv, NEW p \in Promise, NEW w \in {"opened", "whole", "broken"},
         promise.writer[p] # "idle",
         promise' \in PromiseSet,
         promise'.writer = [promise.writer EXCEPT ![p] = w],
         promise'.completed = promise.completed,
         promise.written \subseteq promise'.written,
         w = "whole" => p \in promise'.written,
         command' = command \/ command' = [command EXCEPT !.streamFailed = TRUE],
         UNCHANGED <<platform, job, session, finder, reaping, exiting>>
  PROVE  IInv'
<1>1. command \in CommandSet /\ promise \in PromiseSet
  BY Types DEF IInv, Typed
<1>2. command' \in CommandSet /\ command'.pc = command.pc
  BY <1>1 DEF CommandSet
<1>3. \A q \in Promise : promise'.writer[q] = IF q = p THEN w ELSE promise.writer[q]
  BY <1>1 DEF PromiseSet
<1>4. TypeOK'
  BY <1>2, Types DEF IInv, Typed
<1>5. Confined' /\ Told'
  BY <1>2, <1>3 DEF IInv, Confined, Told
<1>6. Kept' /\ CompletedMeansWritten'
  BY <1>3 DEF IInv, Kept, CompletedMeansWritten
<1>7. Counted'
  <2>1. Writing' = Writing
    BY <1>3 DEF Writing
  <2> QED
    BY <2>1 DEF IInv, Counted
<1> QED
  BY <1>4, <1>5, <1>6, <1>7 DEF IInv

\* A file is opened, kept, made of folders, or given up.
LEMMA WritersKeep ==
  ASSUME IInv, NEW p \in Promise,
         OpenFile(p) \/ KeepFile(p) \/ MakeFolders(p) \/ WriteFails(p)
  PROVE  IInv'
<1>1. promise \in PromiseSet
  BY Types DEF IInv, Typed
<1>2. CASE OpenFile(p)
  <2>1. /\ promise' \in PromiseSet /\ promise'.completed = promise.completed
        /\ promise'.writer = [promise.writer EXCEPT ![p] = "opened"]
        /\ promise'.written = promise.written
    BY <1>1, <1>2 DEF OpenFile, PromiseSet
  <2> QED
    BY <1>2, <2>1, WriterGoesOn DEF OpenFile
<1>3. CASE KeepFile(p) \/ MakeFolders(p)
  <2>1. promise' = [promise EXCEPT !.writer[p] = "whole", !.written = @ \cup {p}]
    BY <1>3 DEF KeepFile, MakeFolders
  <2>2. /\ promise' \in PromiseSet /\ promise'.completed = promise.completed
        /\ promise'.writer = [promise.writer EXCEPT ![p] = "whole"]
        /\ promise'.written = promise.written \cup {p}
    BY <1>1, <2>1 DEF PromiseSet
  <2>3. /\ promise.writer[p] # "idle"
        /\ UNCHANGED <<platform, job, command, session, finder, reaping, exiting>>
    BY <1>3 DEF KeepFile, MakeFolders
  <2> QED
    BY <2>2, <2>3, WriterGoesOn
<1>4. CASE WriteFails(p)
  <2>1. /\ promise' \in PromiseSet /\ promise'.completed = promise.completed
        /\ promise'.writer = [promise.writer EXCEPT ![p] = "broken"]
        /\ promise'.written = promise.written
    BY <1>1, <1>4 DEF WriteFails, PromiseSet
  <2> QED
    BY <1>4, <2>1, WriterGoesOn DEF WriteFails
<1> QED
  BY <1>2, <1>3, <1>4

\* A request that finds the promise free becomes a writer; any other is to be
\* answered at once.
LEMMA RequestPromiseKeeps ==
  ASSUME IInv, NEW p \in Promise, RequestPromise(p)
  PROVE  IInv'
<1>1. promise \in PromiseSet /\ finder \in FinderSet /\ session # "none"
  BY Types DEF IInv, Typed, Confined, RequestPromise
<1>2. finder.finishing \in Nat /\ finder.requests \in Nat /\ Cardinality(Writing) \in Nat
  BY <1>1, RequestAssumption, WritingFinite DEF FinderSet
<1>3. CASE /\ p \notin Writing
           /\ promise' = [promise EXCEPT !.writer[p] = "claimed"]
           /\ finder' = [finder EXCEPT !.requests = @ + 1]
  <2>1. /\ promise' \in PromiseSet /\ promise'.completed = promise.completed
        /\ promise'.written = promise.written
        /\ promise'.writer = [promise.writer EXCEPT ![p] = "claimed"]
    BY <1>1, <1>3 DEF PromiseSet
  <2>2. \A q \in Promise :
          promise'.writer[q] = IF q = p THEN "claimed" ELSE promise.writer[q]
    BY <1>1, <2>1 DEF PromiseSet
  <2>3. /\ finder' \in FinderSet /\ finder'.requests = finder.requests + 1
        /\ finder'.callback = finder.callback /\ finder'.finishing = finder.finishing
        /\ finder'.release = finder.release
    BY <1>1, <1>2, <1>3, RequestAssumption DEF FinderSet, RequestPromise
  <2>4. TypeOK'
    BY <2>1, <2>3, Types DEF IInv, Typed, RequestPromise
  <2>5. Confined' /\ Told'
    BY <1>1, <2>3 DEF IInv, RequestPromise, Confined, Told
  <2>6. Kept' /\ CompletedMeansWritten'
    BY <2>1, <2>2, <2>3 DEF IInv, RequestPromise, Kept, CompletedMeansWritten
  <2>7. Counted'
    <3>1. Writing' = Writing \cup {p}
      BY <2>2 DEF Writing
    <3>2. Cardinality(Writing') = Cardinality(Writing) + 1
      BY <1>3, <3>1, WritingFinite, FS_AddElement
    <3> QED
      BY <1>2, <2>3, <3>2 DEF IInv, Counted
  <2> QED
    BY <2>4, <2>5, <2>6, <2>7 DEF IInv
<1>4. CASE /\ finder' = [finder EXCEPT !.requests = @ + 1, !.finishing = @ + 1]
           /\ UNCHANGED promise
  <2>1. /\ finder'.requests = finder.requests + 1
        /\ finder'.finishing = finder.finishing + 1
        /\ finder'.callback = finder.callback /\ finder'.release = finder.release
    BY <1>1, <1>4 DEF FinderSet
  <2>2. finder.finishing + 1 \in 0 .. MaxRequests /\ finder.requests + 1 \in 0 .. MaxRequests
    BY <1>1, <1>2, RequestAssumption DEF FinderSet, RequestPromise, IInv, Counted
  <2>3. finder' \in FinderSet
    BY <1>1, <1>4, <2>2 DEF FinderSet
  <2>4. TypeOK'
    BY <1>4, <2>3, Types DEF IInv, Typed, RequestPromise
  <2>5. Confined' /\ Told' /\ Kept' /\ CompletedMeansWritten'
    BY <1>1, <1>4, <2>1
    DEF IInv, RequestPromise, Confined, Told, Kept, CompletedMeansWritten
  <2>6. Counted'
    BY <1>2, <1>4, <2>1 DEF IInv, Counted, Writing
  <2> QED
    BY <2>4, <2>5, <2>6 DEF IInv
<1> QED
  BY <1>3, <1>4 DEF RequestPromise

\* A writer is done: a promise it completed was written, and its request is
\* about to be answered.
LEMMA RecordWriteKeeps ==
  ASSUME IInv, NEW p \in Promise, RecordWrite(p)
  PROVE  IInv'
<1>1. promise \in PromiseSet /\ finder \in FinderSet /\ session # "none"
  BY Types DEF IInv, Typed, Confined, RecordWrite
<1>2. finder.finishing \in Nat /\ finder.requests \in Nat /\ Cardinality(Writing) \in Nat
  BY <1>1, RequestAssumption, WritingFinite DEF FinderSet
<1>3. /\ promise'.written = promise.written
      /\ promise'.writer = [promise.writer EXCEPT ![p] = "idle"]
      /\ promise'.completed =
           IF Open /\ promise.writer[p] = "whole"
           THEN promise.completed \cup {p} ELSE promise.completed
  BY <1>1 DEF PromiseSet, RecordWrite
<1>4. promise' \in PromiseSet
  BY <1>1 DEF PromiseSet, RecordWrite
<1>5. \A q \in Promise : promise'.writer[q] = IF q = p THEN "idle" ELSE promise.writer[q]
  BY <1>1, <1>3 DEF PromiseSet
<1>6. Cardinality(Writing') = Cardinality(Writing) - 1
  <2>1. Writing' = Writing \ {p} /\ p \in Writing
    BY <1>5 DEF Writing, RecordWrite
  <2> QED
    BY <2>1, WritingFinite, FS_RemoveElement
<1>7. /\ finder'.requests = finder.requests
      /\ finder'.finishing = finder.finishing + 1
      /\ finder'.callback = finder.callback /\ finder'.release = finder.release
  BY <1>1 DEF FinderSet, RecordWrite
<1>8. finder.finishing + 1 \in 0 .. MaxRequests
  <2>1. Cardinality(Writing) # 0
    BY WritingFinite, FS_EmptySet DEF Writing, RecordWrite
  <2> QED
    BY <1>1, <1>2, <2>1, RequestAssumption DEF FinderSet, IInv, Counted
<1>9. finder' \in FinderSet
  BY <1>1, <1>8 DEF FinderSet, RecordWrite
<1>10. TypeOK'
  BY <1>4, <1>9, Types DEF IInv, Typed, RecordWrite
<1>11. Confined' /\ Told'
  BY <1>1, <1>7 DEF IInv, RecordWrite, Confined, Told
<1>12. Kept' /\ CompletedMeansWritten'
  <2>1. promise'.completed \subseteq promise'.written
    BY <1>3 DEF IInv, Kept
  <2>2. promise.completed = Promise => promise'.completed = Promise
    BY <1>3
  <2> QED
    BY <1>3, <1>5, <1>7, <2>1, <2>2 DEF IInv, RecordWrite, Kept, CompletedMeansWritten
<1>13. Counted'
  BY <1>2, <1>6, <1>7 DEF IInv, Counted
<1> QED
  BY <1>10, <1>11, <1>12, <1>13 DEF IInv

----------------------------------------------------------------------------
(* The outcome, the release and the reaper *)

\* What a callback does to its own place.
LEMMA CallbackDoes ==
  ASSUME finder \in FinderSet, NEW pc \in Callbacks, Callback(pc)
  PROVE  /\ finder' \in FinderSet /\ finder'.callback = pc
         /\ finder'.release = finder.release /\ finder'.source = finder.source
         /\ finder'.finishing = finder.finishing /\ finder'.requests = finder.requests
BY DEF Callback, FinderSet

\* The coordinator delivers an outcome only once, a cancelled or a dropped one.
LEMMA DeliverDoes ==
  ASSUME NEW f \in FinderSet, Deliver(f)
  PROVE  /\ finder' \in FinderSet
         /\ finder'.callback = f.callback
              \/ (f.callback = "none" /\ finder'.callback \in {"cancelled", "dropped"})
         /\ finder'.release = f.release /\ finder'.source = f.source
         /\ finder'.finishing = f.finishing /\ finder'.requests = f.requests
<1>1. CallbackAfter(f) \in Callbacks
  BY DEF CallbackAfter, FinderSet, Callbacks
<1>2. finder' \in FinderSet /\ finder'.callback = CallbackAfter(f)
  BY <1>1 DEF Deliver, FinderSet
<1>3. /\ finder'.release = f.release /\ finder'.source = f.source
      /\ finder'.finishing = f.finishing /\ finder'.requests = f.requests
  BY DEF Deliver, FinderSet
<1> QED
  BY <1>2, <1>3 DEF CallbackAfter

\* A step of the coordinator, the callbacks or the release keeps the invariant,
\* if the place it goes to is one where its session and its token are settled.
LEMMA FinderStep ==
  ASSUME IInv, session # "none",
         UNCHANGED <<platform, command, promise, reaping, exiting>>,
         job' \in JobSet, finder' \in FinderSet,
         job.token => job'.token,
         session' \in {session, "gone"},
         job'.status = "cancelling" => job'.token,
         job'.status = "cancelled" => job'.token \/ job.status = "cancelled",
         job'.status = "completed" =>
           job.status = "completed" \/ finder.callback = "commit",
         finder'.callback = "settle" => job'.token,
         finder'.release = "emit" => job'.token,
         session' = "gone" => job'.token \/ finder'.callback \in {"commit", "over"},
         finder'.callback = "commit" => promise.completed = Promise,
         finder'.requests = finder.requests,
         finder'.finishing \in 0 .. finder.finishing
  PROVE  IInv'
<1>1. promise \in PromiseSet /\ finder \in FinderSet /\ platform \in {"promise", "staged"}
  BY Types DEF IInv, Typed
<1>2. platform = "promise" /\ session' # "none"
  BY <1>1 DEF IInv, Confined
<1>3. TypeOK'
  BY Types DEF IInv, Typed
<1>4. Confined' /\ Told'
  BY <1>2 DEF IInv, Confined, Told
<1>5. Kept' /\ CompletedMeansWritten'
  BY <1>2 DEF IInv, Kept, CompletedMeansWritten
<1>6. Counted'
  <2>1. /\ finder.finishing \in Nat /\ finder'.finishing \in Nat
        /\ finder'.finishing <= finder.finishing /\ finder.requests \in Nat
    BY <1>1, RequestAssumption DEF FinderSet
  <2> QED
    BY <2>1, WritingFinite DEF IInv, Counted, Writing
<1> QED
  BY <1>3, <1>4, <1>5, <1>6 DEF IInv

\* What the invariant says of the job and the callback, before a step of theirs.
LEMMA FinderBefore ==
  ASSUME IInv
  PROVE  /\ job \in JobSet /\ finder \in FinderSet /\ session \in {"none", "open", "gone"}
         /\ finder.finishing \in Nat
         /\ session = "none" =>
              /\ ~finder.source /\ finder.finishing = 0
              /\ finder.callback = "none" /\ finder.release = "none"
         /\ job.status = "cancelling" => job.token
         /\ finder.callback = "settle" => job.token
         /\ finder.release = "emit" => job.token
         /\ session = "gone" => job.token \/ finder.callback \in {"commit", "over"}
         /\ finder.callback = "commit" => promise.completed = Promise
<1>1. finder \in FinderSet
  BY Types DEF IInv, Typed
<1>2. finder.finishing \in Nat
  BY <1>1, RequestAssumption DEF FinderSet
<1> QED
  BY <1>1, <1>2, Types DEF IInv, Typed, Confined, Told, Kept

\* The end of a request or of the drag delivers an outcome at most once, and the
\* end of the source changes nothing else.
LEMMA CoordinatorKeeps ==
  ASSUME IInv,
         \/ PromiseFinished
         \/ \E o \in {"dropped", "cancelled"} : DraggingEnded(o)
         \/ RemoveSource
  PROVE  IInv'
<1>1. CASE PromiseFinished
  <2> DEFINE f == [finder EXCEPT !.finishing = @ - 1,
                                 !.remaining = IF @ = 0 THEN 0 ELSE @ - 1]
  <2>1. /\ Deliver(f) /\ session # "none" /\ finder.finishing > 0
        /\ UNCHANGED <<platform, job, command, session, promise, reaping, exiting>>
    BY <1>1, FinderBefore DEF PromiseFinished
  <2>2. /\ f.callback = finder.callback /\ f.release = finder.release
        /\ f.finishing = finder.finishing - 1 /\ f.requests = finder.requests
    BY FinderBefore DEF FinderSet
  <2>3. finder.finishing - 1 \in 0 .. MaxRequests
    BY <2>1, FinderBefore, RequestAssumption DEF FinderSet
  <2>4. (IF finder.remaining = 0 THEN 0 ELSE finder.remaining - 1) \in 0 .. Cardinality(Promise)
    BY FinderBefore, PromiseAssumption, FS_CardinalityType DEF FinderSet
  <2>5. f \in FinderSet
    BY <2>3, <2>4, FinderBefore DEF FinderSet
  <2>6. /\ finder' \in FinderSet
        /\ finder'.callback = f.callback
             \/ (f.callback = "none" /\ finder'.callback \in {"cancelled", "dropped"})
        /\ finder'.release = f.release
        /\ finder'.finishing = f.finishing /\ finder'.requests = f.requests
    BY <2>1, <2>5, DeliverDoes
  <2>7. finder'.finishing \in 0 .. finder.finishing
    BY <2>1, <2>2, <2>6, FinderBefore
  <2> QED
    BY <2>1, <2>2, <2>6, <2>7, FinderBefore, FinderStep
<1>2. CASE \E o \in {"dropped", "cancelled"} : DraggingEnded(o)
  <2>1. PICK o \in {"dropped", "cancelled"} : DraggingEnded(o)
    BY <1>2
  <2> DEFINE f == [finder EXCEPT !.ended = o]
  <2>2. /\ f \in FinderSet /\ f.callback = finder.callback /\ f.release = finder.release
        /\ f.finishing = finder.finishing /\ f.requests = finder.requests
    BY FinderBefore DEF FinderSet
  <2>3. /\ Deliver(f) /\ session # "none"
        /\ UNCHANGED <<platform, job, command, session, promise, reaping, exiting>>
    BY <2>1, FinderBefore DEF DraggingEnded
  <2>4. /\ finder' \in FinderSet
        /\ finder'.callback = f.callback
             \/ (f.callback = "none" /\ finder'.callback \in {"cancelled", "dropped"})
        /\ finder'.release = f.release
        /\ finder'.finishing = f.finishing /\ finder'.requests = f.requests
    BY <2>2, <2>3, DeliverDoes
  <2> QED
    BY <2>2, <2>3, <2>4, FinderBefore, FinderStep
<1>3. CASE RemoveSource
  <2>1. /\ finder' \in FinderSet /\ finder'.callback = finder.callback
        /\ finder'.release = finder.release
        /\ finder'.finishing = finder.finishing /\ finder'.requests = finder.requests
    BY <1>3, FinderBefore DEF RemoveSource, FinderSet
  <2>2. /\ session # "none"
        /\ UNCHANGED <<platform, job, command, session, promise, reaping, exiting>>
    BY <1>3, FinderBefore DEF RemoveSource
  <2> QED
    BY <2>1, <2>2, FinderBefore, FinderStep
<1> QED
  BY <1>1, <1>2, <1>3

\* The outcome is settled: a cancelled drag closes its session first, a dropped
\* one when its summary is complete, or else after it has failed.
LEMMA OutcomeKeeps ==
  ASSUME IInv,
         CloseCancelled \/ SettleCancelled \/ TakeSummary \/ CommitDrop \/ FailDrop
           \/ CloseFailed
  PROVE  IInv'
<1>1. CASE CloseCancelled
  <2>1. /\ job' \in JobSet /\ job'.status = job.status /\ (job.token => job'.token)
        /\ session' \in {"none", "gone"} /\ (session' = "none" <=> session = "none")
        /\ session = "open" => job'.token
    BY <1>1, FinderBefore, CancelSessionDoes DEF CloseCancelled
  <2>2. /\ finder' \in FinderSet /\ finder'.callback = "settle"
        /\ finder'.release = finder.release
        /\ finder'.finishing = finder.finishing /\ finder'.requests = finder.requests
    BY <1>1, FinderBefore, CallbackDoes DEF CloseCancelled, Callbacks
  <2>3. /\ session # "none" /\ finder.callback = "cancelled"
        /\ UNCHANGED <<platform, command, promise, reaping, exiting>>
    BY <1>1, FinderBefore DEF CloseCancelled
  <2>4. job'.token
    BY <2>1, <2>3, FinderBefore
  <2> QED
    BY <2>1, <2>2, <2>3, <2>4, FinderBefore, FinderStep
<1>2. CASE SettleCancelled
  <2>1. /\ finder.callback = "settle" /\ session # "none" /\ job.token
        /\ UNCHANGED <<platform, command, session, promise, reaping, exiting>>
    BY <1>2, FinderBefore DEF SettleCancelled
  <2>2. /\ job' \in JobSet /\ job'.token = job.token
        /\ job'.status = "cancelling" => job.status = "cancelling"
        /\ job'.status = "completed" => job.status = "completed"
    BY <1>2, FinderBefore, EmitDoes DEF SettleCancelled, TerminalStatus
  <2>3. /\ finder' \in FinderSet /\ finder'.callback = "over"
        /\ finder'.release = finder.release
        /\ finder'.finishing = finder.finishing /\ finder'.requests = finder.requests
    BY <1>2, FinderBefore, CallbackDoes DEF SettleCancelled, Callbacks
  <2> QED
    BY <2>1, <2>2, <2>3, FinderBefore, FinderStep
<1>3. CASE TakeSummary
  <2>1. /\ finder.callback = "dropped" /\ session # "none"
        /\ UNCHANGED <<platform, job, command, promise, reaping, exiting>>
    BY <1>3, FinderBefore DEF TakeSummary
  <2>2. CASE Callback("commit") /\ session' = "gone" /\ promise.completed = Promise
    <3>1. /\ finder' \in FinderSet /\ finder'.callback = "commit"
          /\ finder'.release = finder.release
          /\ finder'.finishing = finder.finishing /\ finder'.requests = finder.requests
      BY <2>2, FinderBefore, CallbackDoes DEF Callbacks
    <3> QED
      BY <2>1, <2>2, <3>1, FinderBefore, FinderStep
  <2>3. CASE Callback("missing") /\ UNCHANGED session
    <3>1. /\ finder' \in FinderSet /\ finder'.callback = "missing"
          /\ finder'.release = finder.release
          /\ finder'.finishing = finder.finishing /\ finder'.requests = finder.requests
      BY <2>3, FinderBefore, CallbackDoes DEF Callbacks
    <3> QED
      BY <2>1, <2>3, <3>1, FinderBefore, FinderStep
  <2> QED
    BY <1>3, <2>2, <2>3 DEF TakeSummary
<1>4. CASE CommitDrop
  <2>1. /\ finder.callback = "commit" /\ session # "none"
        /\ UNCHANGED <<platform, command, session, promise, reaping, exiting>>
    BY <1>4, FinderBefore DEF CommitDrop
  <2>2. /\ job' \in JobSet /\ job'.token = job.token
        /\ job'.status = "cancelling" => job.status = "cancelling"
        /\ job'.status = "cancelled" => job.status \in {"cancelled", "cancelling"}
    BY <1>4, FinderBefore, EmitDoes DEF CommitDrop, TerminalStatus
  <2>3. /\ finder' \in FinderSet /\ finder'.callback = "over"
        /\ finder'.release = finder.release
        /\ finder'.finishing = finder.finishing /\ finder'.requests = finder.requests
    BY <1>4, FinderBefore, CallbackDoes DEF CommitDrop, Callbacks
  <2> QED
    BY <2>1, <2>2, <2>3, FinderBefore, FinderStep
<1>5. CASE FailDrop
  <2>1. /\ finder.callback = "missing" /\ session # "none"
        /\ UNCHANGED <<platform, command, session, promise, reaping, exiting>>
    BY <1>5, FinderBefore DEF FailDrop
  <2>2. /\ job' \in JobSet /\ job'.token = job.token
        /\ job'.status = "cancelling" => job.status = "cancelling"
        /\ job'.status = "cancelled" => job.status \in {"cancelled", "cancelling"}
        /\ job'.status = "completed" => job.status = "completed"
    BY <1>5, FinderBefore, EmitDoes DEF FailDrop, TerminalStatus
  <2>3. /\ finder' \in FinderSet /\ finder'.callback = "close"
        /\ finder'.release = finder.release
        /\ finder'.finishing = finder.finishing /\ finder'.requests = finder.requests
    BY <1>5, FinderBefore, CallbackDoes DEF FailDrop, Callbacks
  <2> QED
    BY <2>1, <2>2, <2>3, FinderBefore, FinderStep
<1>6. CASE CloseFailed
  <2>1. /\ job' \in JobSet /\ job'.status = job.status /\ (job.token => job'.token)
        /\ session' \in {"none", "gone"} /\ (session' = "none" <=> session = "none")
    BY <1>6, FinderBefore, CancelSessionDoes DEF CloseFailed
  <2>2. /\ finder' \in FinderSet /\ finder'.callback = "over"
        /\ finder'.release = finder.release
        /\ finder'.finishing = finder.finishing /\ finder'.requests = finder.requests
    BY <1>6, FinderBefore, CallbackDoes DEF CloseFailed, Callbacks
  <2>3. /\ session # "none"
        /\ UNCHANGED <<platform, command, promise, reaping, exiting>>
    BY <1>6, FinderBefore DEF CloseFailed
  <2> QED
    BY <2>1, <2>2, <2>3, FinderBefore, FinderStep
<1> QED
  BY <1>1, <1>2, <1>3, <1>4, <1>5, <1>6

\* The last holder of the lease lets go, and says so if the session was open.
LEMMA ReleaseKeeps ==
  ASSUME IInv, Release \/ SettleReleased
  PROVE  IInv'
<1>1. CASE Release
  <2>1. /\ job' \in JobSet /\ job'.status = job.status /\ (job.token => job'.token)
        /\ session' \in {"none", "gone"} /\ (session' = "none" <=> session = "none")
        /\ session = "open" => job'.token
    BY <1>1, FinderBefore, CancelSessionDoes DEF Release
  <2>2. /\ finder' \in FinderSet
        /\ finder'.release = IF session = "open" THEN "emit" ELSE "done"
        /\ finder'.callback = finder.callback
        /\ finder'.finishing = finder.finishing /\ finder'.requests = finder.requests
    BY <1>1, FinderBefore DEF Release, FinderSet, Open
  <2>3. /\ session # "none"
        /\ UNCHANGED <<platform, command, promise, reaping, exiting>>
    BY <1>1, FinderBefore DEF Release, LeaseUnused
  <2> QED
    BY <2>1, <2>2, <2>3, FinderBefore, FinderStep
<1>2. CASE SettleReleased
  <2>1. /\ finder.release = "emit" /\ session # "none" /\ job.token
        /\ UNCHANGED <<platform, command, session, promise, reaping, exiting>>
    BY <1>2, FinderBefore DEF SettleReleased
  <2>2. /\ job' \in JobSet /\ job'.token = job.token
        /\ job'.status = "completed" => job.status = "completed"
    BY <1>2, FinderBefore, EmitDoes DEF SettleReleased, TerminalStatus
  <2>3. /\ finder' \in FinderSet /\ finder'.release = "done"
        /\ finder'.callback = finder.callback
        /\ finder'.finishing = finder.finishing /\ finder'.requests = finder.requests
    BY <1>2, FinderBefore DEF SettleReleased, FinderSet
  <2> QED
    BY <2>1, <2>2, <2>3, FinderBefore, FinderStep
<1> QED
  BY <1>1, <1>2

\* The reaper and the exit close the session, whatever the drag is doing, and the
\* reaper reports what it closed.
LEMMA ReaperKeeps ==
  ASSUME IInv, ReapSession \/ CancelReaped \/ Exit
  PROVE  IInv'
<1>1. CASE ReapSession \/ Exit
  <2>1. /\ job' \in JobSet /\ job'.status = job.status /\ (job.token => job'.token)
        /\ session' \in {"none", "gone"} /\ (session' = "none" <=> session = "none")
        /\ session = "open" => job'.token
    BY <1>1, FinderBefore, CancelSessionDoes DEF ReapSession, Exit
  <2>2. /\ reaping' \in BOOLEAN /\ exiting' \in BOOLEAN
        /\ reaping' = reaping \/ (reaping' /\ session = "open")
        /\ UNCHANGED <<platform, command, promise, finder>>
    BY <1>1, Types DEF IInv, Typed, ReapSession, Exit, Open
  <2>3. TypeOK'
    BY <2>1, <2>2, Types DEF IInv, Typed
  <2>4. Confined'
    BY <2>1, <2>2 DEF IInv, Confined
  <2>5. Told'
    BY <2>1, <2>2, FinderBefore DEF IInv, Told
  <2>6. Kept' /\ Counted' /\ CompletedMeansWritten'
    BY <2>1, <2>2 DEF IInv, Kept, Counted, Writing, CompletedMeansWritten
  <2> QED
    BY <2>3, <2>4, <2>5, <2>6 DEF IInv
<1>2. CASE CancelReaped
  <2>1. /\ job.token /\ reaping' = FALSE
        /\ UNCHANGED <<platform, command, session, promise, finder, exiting>>
    BY <1>2 DEF CancelReaped, IInv, Told
  <2>2. /\ job' \in JobSet /\ job'.token = job.token
        /\ job'.status = "completed" => job.status = "completed"
    BY <1>2, FinderBefore, EmitDoes DEF CancelReaped, TerminalStatus
  <2>3. TypeOK'
    BY <2>1, <2>2, Types DEF IInv, Typed
  <2>4. Confined' /\ Told'
    BY <2>1, <2>2 DEF IInv, Confined, Told
  <2>5. Kept' /\ Counted' /\ CompletedMeansWritten'
    BY <2>1, <2>2 DEF IInv, Kept, Counted, Writing, CompletedMeansWritten
  <2> QED
    BY <2>3, <2>4, <2>5 DEF IInv
<1> QED
  BY <1>1, <1>2

----------------------------------------------------------------------------

\* Every step of the drag keeps the invariant.
LEMMA StepKeeps == IInv /\ [Next]_vars => IInv'
<1> SUFFICES ASSUME IInv, [Next]_vars PROVE IInv'
  OBVIOUS
<1>1. CASE System
  BY <1>1, BeforeTheDrag, AroundTheDrag, SessionSteps, WritersKeep, RecordWriteKeeps,
     CoordinatorKeeps, OutcomeKeeps, ReleaseKeeps, ReaperKeeps DEF System
<1>2. CASE Timer
  BY <1>2, AroundTheDrag, CoordinatorKeeps, ReaperKeeps DEF Timer
<1>3. CASE Environment
  BY <1>3, BeforeTheDrag, AroundTheDrag, RequestPromiseKeeps, StageEntryKeeps,
     CoordinatorKeeps DEF Environment
<1>4. CASE Exit
  BY <1>4, ReaperKeeps
<1>5. CASE UNCHANGED vars
  BY <1>5 DEF vars, IInv, TypeOK, Confined, Told, Kept, Counted, Writing,
              CompletedMeansWritten
<1> QED
  BY <1>1, <1>2, <1>3, <1>4, <1>5 DEF Next

\* The inductive invariant holds of every drag.
THEOREM Invariant == Spec => []IInv
<1>1. Init => IInv
  BY InitIInv
<1>2. IInv /\ [Next]_vars => IInv'
  BY StepKeeps
<1> QED
  BY <1>1, <1>2, PTL DEF Spec

\* Type correctness: in particular no request is answered that was not made, and
\* the count of the promises that remain stays between zero and their number.
THEOREM TypeCorrect == Spec => []TypeOK
<1>1. IInv => TypeOK
  BY DEF IInv
<1> QED
  BY <1>1, Invariant, PTL

\* A drag is reported complete only when every promised file was written to the
\* end and kept, for any number of promises and of requests for them.
THEOREM CompleteWhenWritten == Spec => []CompletedMeansWritten
<1>1. IInv => CompletedMeansWritten
  BY DEF IInv
<1> QED
  BY <1>1, Invariant, PTL

\* Once a drag is shown cancelled, by whichever thread, no write that is still
\* under way leaves a file behind: whoever reports the cancellation has cancelled
\* the token that the writers look at before they open or keep a file.
THEOREM NothingKeptOnceCancelled == Spec => CancelledKeepsNothing
<1>1. ASSUME IInv, [Next]_vars, job.status = "cancelled"
      PROVE  promise'.written \cap Files \subseteq promise.written
  <2>1. /\ promise \in PromiseSet
        /\ job.token \/ (platform = "staged" /\ command.pc = "over")
        /\ platform = "staged" => \A p \in Promise : promise.writer[p] = "idle"
    BY <1>1, Types DEF IInv, Typed, Told, Confined
  <2>2. ASSUME NEW p \in Promise, StageEntry(p) \/ KeepFile(p)
        PROVE  FALSE
    BY <2>1, <2>2, Types DEF StageEntry, KeepFile
  <2>3. ASSUME NEW p \in Promise, MakeFolders(p)
        PROVE  promise'.written \cap Files \subseteq promise.written
    BY <2>1, <2>3 DEF MakeFolders, PromiseSet, Files
  <2>4. ASSUME NEW p \in Promise,
               RequestPromise(p) \/ OpenFile(p) \/ WriteFails(p) \/ RecordWrite(p)
        PROVE  promise'.written = promise.written
    BY <2>1, <2>4 DEF RequestPromise, OpenFile, WriteFails, RecordWrite, PromiseSet
  <2>5. CASE promise' = promise
    BY <2>5
  <2>6. CASE System
    <3>1. \/ promise' = promise
          \/ \E p \in Promise : \/ OpenFile(p) \/ KeepFile(p) \/ MakeFolders(p)
                                \/ WriteFails(p) \/ RecordWrite(p)
      BY <2>6
      DEF System, Register, Announce, Prepare, Launch, CreateSession, CannotDescribe,
          HostRefuses, BeginDrag, ReturnPending, SettleError, StartStaging, SettleStaged,
          PromiseFinished, CloseCancelled, SettleCancelled, TakeSummary, CommitDrop,
          FailDrop, CloseFailed, Release, SettleReleased, FailExpired, CancelReaped
    <3> QED
      BY <2>2, <2>3, <2>4, <2>5, <3>1
  <2>7. CASE Timer
    BY <2>5, <2>7 DEF Timer, DragLoopReturns, RemoveSource, ReapOperation, ReapSession
  <2>8. CASE Environment
    <3>1. \/ promise' = promise
          \/ \E p \in Promise : RequestPromise(p) \/ StageEntry(p)
      BY <2>8 DEF Environment, Accept, Take, RequestCancel, DraggingEnded
    <3> QED
      BY <2>2, <2>4, <2>5, <3>1
  <2>9. CASE Exit
    BY <2>5, <2>9 DEF Exit
  <2>10. CASE UNCHANGED vars
    BY <2>5, <2>10 DEF vars
  <2> QED
    BY <1>1, <2>6, <2>7, <2>8, <2>9, <2>10 DEF Next
<1>2. IInv /\ [Next]_vars =>
        [job.status = "cancelled" =>
           promise'.written \cap Files \subseteq promise.written]_vars
  BY <1>1
<1> QED
  BY <1>2, Invariant, PTL DEF Spec, CancelledKeepsNothing

----------------------------------------------------------------------------
(* The life of the drag's job *)

\* The job of the drag as JobLifecycle sees it: one id, taken when the command
\* accepts the drag.
Seen == [j \in {"drag"} |-> IF job.status = "none" THEN "absent" ELSE job.status]

Taken == IF job.status = "none" THEN {} ELSE {"drag"}

Life == INSTANCE JobLifecycle WITH Job <- {"drag"}, status <- Seen, spent <- Taken

\* The job is there from the acceptance on, and nothing is without it.
Begun ==
  /\ job.status = "none" <=> command.pc = "none"
  /\ session # "none" => command.pc # "none"

\* What an emitter does to a job that is there is a step of its life, or nothing.
LEMMA EmitLives ==
  ASSUME job \in JobSet, job.status # "none", NEW e \in {"running"} \cup TerminalStatus,
         Emit(e)
  PROVE  job'.status # "none" /\ (job'.status = job.status \/ Life!Next)
<1>1. job'.status = StatusAfter(job.status, e)
  BY DEF Emit, JobSet
<1>2. \/ job'.status = job.status
      \/ job.status = "queued" /\ job'.status = "running"
      \/ job.status \in {"queued", "running"} /\ job'.status \in TerminalStatus
      \/ job.status = "cancelling" /\ job'.status = "cancelled"
  BY <1>1 DEF StatusAfter, TerminalStatus, JobSet, Statuses
<1>3. job'.status # "none"
  BY <1>2 DEF TerminalStatus
<1>4. /\ Seen["drag"] = job.status /\ Seen' = [Seen EXCEPT !["drag"] = job'.status]
      /\ Taken' = Taken
  BY <1>3 DEF Seen, Taken
<1>5. Life!Become("drag", job'.status)
  BY <1>4 DEF Life!Become
<1>6. job'.status = job.status \/ Life!Start("drag") \/ Life!End("drag")
  BY <1>2, <1>4, <1>5 DEF Life!Start, Life!End, TerminalStatus
<1> QED
  BY <1>3, <1>6 DEF Life!Next

\* A step leaves the job's status alone, accepts the drag, emits about a job that
\* is there, or asks a live one to cancel.
LEMMA JobMoves ==
  ASSUME IInv, Begun, [Next]_vars
  PROVE  /\ Begun'
         /\ \/ job'.status = job.status
            \/ job.status = "none" /\ job'.status = "queued"
            \/ job.status # "none" /\ \E e \in {"running"} \cup TerminalStatus : Emit(e)
            \/ job.status \in {"queued", "running"} /\ job'.status = "cancelling"
<1> DEFINE Emits == job.status # "none" /\ \E e \in {"running"} \cup TerminalStatus : Emit(e)
           Stays == job'.status = job.status /\ command'.pc # "none"
<1>1. /\ job \in JobSet /\ command \in CommandSet /\ session \in {"none", "open", "gone"}
      /\ session = "none" => /\ ~finder.source /\ ~reaping
                             /\ finder.callback = "none" /\ finder.release = "none"
  BY Types DEF IInv, Typed, Confined
<1>2. ASSUME Emits PROVE job'.status # "none"
  BY <1>1, <1>2, EmitLives
<1>3. ASSUME command.pc # "none", command'.pc # "none", Emits \/ job'.status = job.status
      PROVE  Begun'
  BY <1>2, <1>3 DEF Begun
<1>4. CASE Accept
  <2>1. job.status = "none" /\ job'.status = "queued" /\ command'.pc = "accepting"
    BY <1>1, <1>4 DEF Accept, GoTo, JobSet, CommandSet, Begun
  <2> QED
    BY <2>1 DEF Begun
<1>5. CASE RequestCancel
  <2>1. /\ job.status \in {"queued", "running"} /\ job'.status = "cancelling"
        /\ UNCHANGED <<session, command>>
    BY <1>5 DEF RequestCancel
  <2> QED
    BY <2>1 DEF Begun
<1>6. ASSUME NEW pc \in Pcs, GoTo(pc), pc # "none", command.pc # "none",
             Emits \/ job' = job
      PROVE  Begun' /\ (Emits \/ job'.status = job.status)
  BY <1>1, <1>2, <1>6, GoToDoes DEF Begun
<1>7. CASE \/ Register \/ Announce \/ Prepare \/ Launch \/ CannotDescribe
           \/ ReturnPending \/ SettleError \/ StartStaging \/ SettleStaged \/ FailExpired
           \/ Take \/ ReapOperation
  <2>1. \E pc \in Pcs : GoTo(pc) /\ pc # "none" /\ command.pc # "none"
    BY <1>7
    DEF Register, Announce, Prepare, Launch, CannotDescribe, StopIfCancelled, Pcs,
        ReturnPending, SettleError, StartStaging, SettleStaged, FailExpired, Take, ReapOperation
  <2>2. (\E e \in {"running"} \cup TerminalStatus : Emit(e)) \/ job' = job
    BY <1>7
    DEF Register, Announce, Prepare, Launch, CannotDescribe, StopIfCancelled, TerminalStatus,
        ReturnPending, SettleError, StartStaging, SettleStaged, StagedEnding, FailExpired,
        Take, ReapOperation
  <2> QED
    BY <1>6, <2>1, <2>2 DEF Begun
<1>8. CASE \/ SettleCancelled \/ CommitDrop \/ FailDrop \/ SettleReleased \/ CancelReaped
  <2>1. session # "none" /\ command' = command /\ session' = session
    BY <1>1, <1>8 DEF SettleCancelled, CommitDrop, FailDrop, SettleReleased, CancelReaped
  <2>2. \E e \in TerminalStatus : Emit(e)
    BY <1>8
    DEF SettleCancelled, CommitDrop, FailDrop, SettleReleased, CancelReaped, TerminalStatus
  <2>3. Emits
    BY <2>1, <2>2 DEF Begun
  <2> QED
    BY <1>2, <2>1, <2>3 DEF Begun
<1>9. CASE \/ HostRefuses \/ CloseCancelled \/ CloseFailed \/ Release \/ ReapSession \/ Exit
  <2>1. job'.status = job.status /\ (session' = "none" <=> session = "none")
    BY <1>1, <1>9, CancelSessionDoes
    DEF HostRefuses, CloseCancelled, CloseFailed, Release, ReapSession, Exit
  <2>2. command'.pc = "none" <=> command.pc = "none"
    BY <1>1, <1>9, GoToDoes
    DEF HostRefuses, CloseCancelled, CloseFailed, Release, ReapSession, Exit, Pcs
  <2> QED
    BY <2>1, <2>2 DEF Begun
<1>10. CASE CreateSession \/ BeginDrag
  <2>1. command.pc # "none" /\ command'.pc # "none" /\ job' = job
    BY <1>1, <1>10, GoToDoes DEF CreateSession, BeginDrag, Pcs
  <2> QED
    BY <2>1 DEF Begun
<1>11. CASE DragLoopReturns \/ \E p \in Promise : StageEntry(p) \/ WriteFails(p)
  <2>1. /\ job' = job /\ session' = session
        /\ command'.pc = "none" <=> command.pc = "none"
    <3>1. job' = job /\ session' = session
      BY <1>11 DEF DragLoopReturns, StageEntry, WriteFails
    <3>2. \/ command' = command \/ command' = [command EXCEPT !.streamFailed = TRUE]
          \/ command.pc # "none" /\ GoTo("erred")
          \/ command.pc # "none" /\ \E o : command' = [command EXCEPT !.pc = "staged", !.outcome = o]
      BY <1>11 DEF DragLoopReturns, StageEntry, WriteFails
    <3>3. command'.pc = "none" <=> command.pc = "none"
      BY <1>1, <3>2 DEF CommandSet, GoTo
    <3> QED
      BY <3>1, <3>3
  <2> QED
    BY <2>1 DEF Begun
<1>12. CASE \/ PromiseFinished \/ TakeSummary \/ RemoveSource \/ UNCHANGED vars
            \/ \E p \in Promise : \/ OpenFile(p) \/ KeepFile(p) \/ MakeFolders(p)
                                  \/ RecordWrite(p) \/ RequestPromise(p)
            \/ \E o \in {"dropped", "cancelled"} : DraggingEnded(o)
  <2>1. job' = job /\ command' = command /\ (session' # session => session = "open")
    BY <1>12
    DEF PromiseFinished, TakeSummary, RemoveSource, vars, OpenFile, KeepFile, MakeFolders,
        RecordWrite, RequestPromise, DraggingEnded, Open
  <2> QED
    BY <2>1 DEF Begun
<1> QED
  BY <1>4, <1>5, <1>7, <1>8, <1>9, <1>10, <1>11, <1>12
  DEF Next, System, Timer, Environment

\* Whatever the threads of a drag do to its job, in whatever order, is what the
\* Job Registry promises of a job: it starts once, ends once, and once it is asked
\* to cancel it ends cancelled.
THEOREM DragJobLives == Spec => Life!Spec
<1>1. Init => Life!Init /\ Begun
  BY DEF Init, Life!Init, Begun, Seen, Taken
<1>2. IInv /\ Begun /\ [Next]_vars => Begun' /\ [Life!Next]_<<Seen, Taken>>
  <2> SUFFICES ASSUME IInv, Begun, [Next]_vars
               PROVE  Begun' /\ (Life!Next \/ UNCHANGED <<Seen, Taken>>)
    OBVIOUS
  <2>1. job \in JobSet
    BY Types DEF IInv, Typed
  <2>2. CASE job'.status = job.status
    BY <2>2, JobMoves DEF Seen, Taken
  <2>3. CASE job.status = "none" /\ job'.status = "queued"
    <3>1. Life!Request("drag", {}, "queued")
      BY <2>3 DEF Life!Request, Seen, Taken
    <3> QED
      BY <3>1, JobMoves DEF Life!Next
  <2>4. CASE job.status # "none" /\ \E e \in {"running"} \cup TerminalStatus : Emit(e)
    BY <2>1, <2>4, EmitLives, JobMoves DEF Seen, Taken
  <2>5. CASE job.status \in {"queued", "running"} /\ job'.status = "cancelling"
    <3>1. Life!Cancel("drag")
      BY <2>5 DEF Life!Cancel, Life!Become, Seen, Taken
    <3> QED
      BY <3>1, JobMoves DEF Life!Next
  <2> QED
    BY <2>2, <2>3, <2>4, <2>5, JobMoves
<1> QED
  BY <1>1, <1>2, Invariant, PTL DEF Spec, Life!Spec
=============================================================================
