--------------------------- MODULE ArchiveBrowse ---------------------------
(***************************************************************************)
(* Opening archives and paging through them: the sessions of               *)
(* archive_index.rs, whose workers enumerate an archive while its pages    *)
(* are read already, and the page's archiveLoadController with the part of *)
(* archiveWorkspace it drives.                                             *)
(*                                                                         *)
(* The page is single-threaded, but every await of loadArchive and         *)
(* acceptFolder lets other loads and the user in between.  start and close *)
(* are synchronous commands: the main thread runs them, and answers them,  *)
(* in the order of their calls (calls).  children and search are           *)
(* asynchronous: they run, and are answered, in any order.                 *)
(*                                                                         *)
(* A start or close and its answer are one step: until the page has the    *)
(* answer nothing it does depends on when the command ran, and the limit   *)
(* only on the commands before it.  So are wait and its answer: only the   *)
(* snapshot of a session that still indexes can be out of date when it is  *)
(* handled, and the loop waits again after it.                             *)
(*                                                                         *)
(* The controller compares numbers (generation, pageRequestId) with their  *)
(* newest value only, so a load or a request carries a flag instead that   *)
(* the next increment takes away.  An entry is its place in the archive;   *)
(* pages are sorted the other way round, the worst case for a partial one. *)
(* Archives whose folders are listed on demand are left out.               *)
(***************************************************************************)
EXTENDS Integers, Sequences, FiniteSets

CONSTANTS Archive, Folder, Root,
          Listing,     \* [Archive -> Seq(Folder)]: the folder of each entry
          PageLimit,   \* VISIBLE_PAGE_LIMIT
          MaxSessions, \* MAX_ACTIVE_ARCHIVE_SESSIONS
          MaxOpens,    \* bound: archives opened, closed, refreshed or retried
          MaxActions,  \* bound: these and the pages the user asks for
          MaxRevision  \* bound: up to it a worker publishes before it is done

ASSUME ListingAssumption ==
  /\ Root \in Folder
  /\ Listing \in [Archive -> Seq(Folder)]
ASSUME LimitAssumption ==
  /\ {PageLimit, MaxSessions} \subseteq Nat \ {0}
  /\ {MaxOpens, MaxActions, MaxRevision} \subseteq Nat

VARIABLES
  sessions,  \* [Session -> record]: the registry of archive_index.rs
  calls,     \* Seq: the start and close commands on their way
  loads,     \* [Load -> record]: the calls of loadArchive
  active,    \* the controller's session and its place in the listing
  requests,  \* the page requests in flight
  rendered,  \* lastRenderedPageSignature
  workspace, \* [archive, browse, view, shown]: archiveWorkspace
  actions    \* [opens, pages]: what the user did so far, for the bounds

vars == <<sessions, calls, loads, active, requests, rendered, workspace, actions>>
pageVars == <<calls, loads, active, requests, rendered, workspace, actions>>

Session == 1..MaxOpens
Load    == 1..MaxOpens
None    == "none"

NoCursor    == [revision |-> 0, offset |-> 0]
NoSession   == [status |-> "absent", archive |-> None, revision |-> 0,
                counted |-> 0, inserted |-> 0]
NoLoad      == [pc |-> "idle", archive |-> None, folder |-> Root,
                preserve |-> FALSE, current |-> FALSE, session |-> 0,
                revision |-> 0, counted |-> 0]
NoActive    == [session |-> 0, folder |-> Root, search |-> FALSE,
                cursor |-> NoCursor, next |-> NoCursor, previous |-> <<>>,
                number |-> 1]
NoPage      == [folder |-> Root, search |-> FALSE, number |-> 0,
                items |-> {}, count |-> 0]
NotRendered == [folder |-> Root, cursor |-> NoCursor, next |-> NoCursor,
                items |-> {}, count |-> 0, any |-> FALSE]
Empty       == [archive |-> None, browse |-> "idle", view |-> Root, shown |-> NoPage]

Failures == {"locked", "broken"}
Live     == {s \in Session : sessions[s].status \notin {"absent", "closed"}}

Status   == {"absent", "indexing", "ready", "closed"} \cup Failures
Archives == Archive \cup {None}
Page     == [folder : Folder, search : BOOLEAN, number : Nat,
             items : SUBSET Nat, count : Nat]

TypeOK ==
  /\ sessions \in [Session -> [status : Status, archive : Archives, revision : Nat,
                               counted : Nat, inserted : Nat]]
  /\ calls \in Seq([kind : {"start", "close"}, load : Load \cup {0},
                    archive : Archives, session : Session \cup {0}])
  /\ loads \in [Load ->
       [pc : {"idle", "closing", "starting", "waiting", "paging", "final", "retrying"},
        archive : Archives, folder : Folder, preserve : BOOLEAN, current : BOOLEAN,
        session : Session \cup {0}, revision : Nat, counted : Nat]]
  /\ active.session \in Session \cup {0}
  /\ active.number = Len(active.previous) + 1
  /\ \A q \in requests : q.stage \in {"sent", "read", "answered", "refused"}
  /\ workspace.archive \in Archives /\ workspace.view \in Folder
  /\ workspace.browse \in {"idle", "loading", "loaded", "empty", "error"}
  /\ workspace.shown \in Page
  /\ actions \in [opens : 0..MaxOpens, pages : 0..MaxActions]

Init ==
  /\ sessions = [s \in Session |-> NoSession]
  /\ calls = <<>>
  /\ loads = [l \in Load |-> NoLoad]
  /\ active = NoActive
  /\ requests = {}
  /\ rendered = NotRendered
  /\ workspace = Empty
  /\ actions = [opens |-> 0, pages |-> 0]

----------------------------------------------------------------------------
(* The registry of sessions *)

\* The entries a listing of a folder, or a search, finds among the first n.
Found(a, n, folder, search) == {i \in 1..n : search \/ Listing[a][i] = folder}

\* The page of a listing that begins after offset entries, last entry first.
Slice(found, offset) ==
  {i \in found : LET before == Cardinality({j \in found : j > i})
                 IN  before >= offset /\ before < offset + PageLimit}

\* start: within the limit a session is entered, the next one by number, and
\* its worker begins.
Start(a, s) ==
  /\ Cardinality(Live) < MaxSessions
  /\ \A r \in Session : sessions[r].status = "absent" <=> s <= r
  /\ sessions' = [sessions EXCEPT ![s] = [NoSession EXCEPT !.status = "indexing",
                                           !.archive = a, !.revision = 1]]

\* close: the session is taken out and its worker stops.
Close(s) == sessions' = [sessions EXCEPT ![s].status = "closed", ![s].revision = 0,
                                         ![s].counted = 0, ![s].inserted = 0]

\* The worker enters the next entry into the index ...
Insert(s) ==
  /\ sessions[s].status = "indexing"
  /\ sessions[s].inserted < Len(Listing[sessions[s].archive])
  /\ sessions' = [sessions EXCEPT ![s].inserted = @ + 1]
  /\ UNCHANGED pageVars

\* ... and publishes a revision when the last publication is long enough ago.
Publish(s) ==
  /\ sessions[s].status = "indexing" /\ sessions[s].revision < MaxRevision
  /\ sessions[s].counted < sessions[s].inserted
  /\ sessions' = [sessions EXCEPT ![s].counted = sessions[s].inserted, ![s].revision = @ + 1]
  /\ UNCHANGED pageVars

\* finish: everything is enumerated, or the archive cannot be read (any more).
Finish(s) ==
  /\ sessions[s].status = "indexing"
  /\ \E e \in {"ready"} \cup Failures :
       /\ e = "ready" => sessions[s].inserted = Len(Listing[sessions[s].archive])
       /\ sessions' = [sessions EXCEPT ![s].status = e, ![s].revision = @ + 1,
                         ![s].counted = IF e = "ready" THEN sessions[s].inserted ELSE 0]
  /\ UNCHANGED pageVars

Stage(q, r) == requests' = (requests \ {q}) \cup {r}

\* children and search look the session up under the registry's lock: the one
\* refuses an archive that failed, the other one that is being indexed ...
ReadRevision(q) ==
  /\ q.stage = "sent"
  /\ LET status == sessions[q.session].status
         error  == IF status \in Failures THEN status ELSE "broken"
     IN  Stage(q, IF \/ status = "closed"
                     \/ status \in (IF q.search THEN {"indexing"} ELSE Failures)
                  THEN [q EXCEPT !.stage = "refused", !.error = error]
                  ELSE [q EXCEPT !.stage = "read", !.revision = sessions[q.session].revision])
  /\ UNCHANGED <<sessions, calls, loads, active, rendered, workspace, actions>>

\* ... and read the index under the lock of the index, where the worker may
\* have entered more since. A cursor is good for the revision it was made at.
ReadContent(q) ==
  /\ q.stage = "read"
  /\ LET record == sessions[q.session]
         found  == Found(record.archive, record.inserted, q.folder, q.search)
         end    == q.cursor.offset + PageLimit
         next   == IF end < Cardinality(found)
                   THEN [revision |-> q.revision, offset |-> end] ELSE NoCursor
     IN  Stage(q, IF q.cursor # NoCursor /\ q.cursor.revision # q.revision
                  THEN [q EXCEPT !.stage = "refused", !.error = "broken"]
                  ELSE [q EXCEPT !.stage = "answered", !.count = Cardinality(found),
                          !.items = Slice(found, q.cursor.offset), !.next = next])
  /\ UNCHANGED <<sessions, calls, loads, active, rendered, workspace, actions>>

----------------------------------------------------------------------------
(* Page requests: acceptFolder up to its await *)

Calling(kind, l, a, s) ==
  [kind |-> kind, load |-> l, archive |-> a, session |-> s]

\* A page of a session; it is the newest request of the current generation.
Asking(l, session, folder, search, cursor, number, previous, always) ==
  [load |-> l, latest |-> TRUE, current |-> TRUE, always |-> always,
   session |-> session, folder |-> folder, search |-> search, cursor |-> cursor,
   number |-> number, previous |-> previous, stage |-> "sent", revision |-> 0,
   items |-> {}, count |-> 0, next |-> NoCursor, error |-> None]

With(q) == {[r EXCEPT !.latest = FALSE] : r \in requests} \cup {q}

\* The first page of a folder for a load, whether or not it changed.
FirstPage(l, session, folder, always) ==
  Asking(l, session, folder, FALSE, NoCursor, 1, <<>>, always)

----------------------------------------------------------------------------
(* loadArchive *)

\* renderLoading(beginLoading(..)) and the start command, once nothing is left
\* to close. No await separates them, and whether the load is still the newest
\* one is not asked.
Begin(l, r, others, queue) ==
  /\ loads' = [others EXCEPT ![l] = [r EXCEPT !.pc = "starting"]]
  /\ calls' = Append(queue, Calling("start", l, r.archive, 0))
  /\ rendered' = NotRendered
  /\ workspace' = [workspace EXCEPT !.archive = r.archive, !.browse = "loading",
                     !.view  = IF r.preserve THEN @ ELSE Root,
                     !.shown = IF r.preserve THEN @ ELSE NoPage]

\* One turn of the loop: a new generation, closeActive, and Begin at once when
\* there is no answer to wait for.
Generation(l, r, queue, pending) ==
  LET old == [m \in Load |-> [loads[m] EXCEPT !.current = FALSE]]
      new == [r EXCEPT !.current = TRUE]
  IN  /\ active' = NoActive
      /\ requests' = {[q EXCEPT !.current = FALSE] : q \in pending}
      /\ IF active.session = 0
         THEN Begin(l, new, old, queue)
         ELSE /\ loads' = [old EXCEPT ![l] = [new EXCEPT !.pc = "closing"]]
              /\ calls' = Append(queue, Calling("close", l, None, active.session))
              /\ UNCHANGED <<rendered, workspace>>

Over(l) == loads' = [loads EXCEPT ![l] = NoLoad]

GoTo(l, pc) == loads' = [loads EXCEPT ![l].pc = pc]

Acts == actions.opens + actions.pages < MaxActions

Opens == /\ Acts /\ actions.opens < MaxOpens
         /\ actions' = [actions EXCEPT !.opens = @ + 1]

\* loadFailed and its rendering, the end of the load.
LoadFailed(l) ==
  /\ Over(l)
  /\ workspace' = [workspace EXCEPT !.browse = "error"]

\* The modal password prompt: the next turn of the loop, or the failure after
\* all. Neither asks whether a newer load has begun meanwhile.
Prompt(l, queue, pending) ==
  \/ /\ Opens
     /\ Generation(l, loads[l], queue, pending)
  \/ /\ LoadFailed(l)
     /\ calls' = queue /\ requests' = pending
     /\ UNCHANGED <<active, rendered, actions>>

\* The catch clause. A failure of the newest load is shown, or its session is
\* closed before a password is asked for.
Catch(l, error, queue, pending) ==
  CASE ~loads[l].current ->
         /\ Over(l) /\ calls' = queue /\ requests' = pending
         /\ UNCHANGED <<active, rendered, workspace, actions>>
    [] loads[l].current /\ error # "locked" ->
         /\ LoadFailed(l) /\ calls' = queue /\ requests' = pending
         /\ UNCHANGED <<active, rendered, actions>>
    [] loads[l].current /\ error = "locked" /\ active.session = 0 ->
         Prompt(l, queue, pending)
    [] OTHER ->
         /\ GoTo(l, "retrying")
         /\ calls' = Append(queue, Calling("close", l, None, active.session))
         /\ active' = NoActive /\ requests' = pending
         /\ UNCHANGED <<rendered, workspace, actions>>

\* A load takes over the session it started, or the turn it reached: the first
\* page of the folder it preserves.
TakeOver(l) ==
  active' = [NoActive EXCEPT !.session = loads[l].session, !.folder = loads[l].folder]

\* The next command is a close. The load that waited for it begins, or asks
\* for a password.
CloseCommand ==
  /\ calls # <<>> /\ Head(calls).kind = "close"
  /\ Close(Head(calls).session)
  /\ LET l == Head(calls).load IN
     CASE l = 0 ->
            /\ calls' = Tail(calls)
            /\ UNCHANGED <<loads, active, requests, rendered, workspace, actions>>
       [] l # 0 /\ loads[l].pc = "closing" ->
            /\ Begin(l, loads[l], loads, Tail(calls))
            /\ UNCHANGED <<active, requests, actions>>
       [] OTHER -> Prompt(l, Tail(calls), requests)

\* The newest load has its session, and waits for a revision after the first.
Follow(l, s) ==
  /\ loads' = [loads EXCEPT ![l].pc = "waiting", ![l].session = s, ![l].revision = 1]
  /\ active' = [NoActive EXCEPT !.session = s]
  /\ calls' = Tail(calls)
  /\ UNCHANGED <<requests, rendered, workspace, actions>>

\* Mutant of Supersede: a superseded load drops the session it was given.
Drop(l, s) ==
  /\ Over(l) /\ calls' = Tail(calls)
  /\ UNCHANGED <<active, requests, rendered, workspace, actions>>

\* A superseded load closes the session it was given.
Supersede(l, s) ==
  /\ Over(l) /\ calls' = Append(Tail(calls), Calling("close", 0, None, s))
  /\ UNCHANGED <<active, requests, rendered, workspace, actions>>

\* The next command is a start. The limit, or an archive that is not there,
\* refuses it.
StartCommand ==
  /\ calls # <<>> /\ Head(calls).kind = "start"
  /\ LET l == Head(calls).load IN
     \/ \E s \in Session :
          /\ Start(Head(calls).archive, s)
          /\ IF loads[l].current THEN Follow(l, s) ELSE Supersede(l, s)
     \/ Catch(l, "broken", Tail(calls), requests) /\ UNCHANGED sessions

\* wait_for_change has a new snapshot, or the last, and the loop goes on with it:
\* a page of what is indexed so far, the final page, or the failure. A superseded
\* load stops.
Wake(l) ==
  /\ loads[l].pc = "waiting"
  /\ LET r == sessions[loads[l].session]
         s == loads[l].session
         mine == loads[l].current /\ active.session = s
         seen(pc) == loads' = [loads EXCEPT ![l].pc = pc, ![l].revision = r.revision,
                                            ![l].counted = r.counted]
         page(always) == requests' = With(FirstPage(l, s, loads[l].folder, always)) IN
     /\ r.revision # loads[l].revision \/ r.status # "indexing"
     /\ CASE ~mine ->
               /\ Over(l)
               /\ UNCHANGED <<calls, active, requests, rendered, workspace, actions>>
          [] mine /\ r.status = "indexing" ->
               /\ TakeOver(l)
               /\ IF r.counted = 0 THEN seen("waiting") /\ UNCHANGED requests
                                  ELSE seen("paging") /\ page(FALSE)
               /\ UNCHANGED <<calls, rendered, workspace, actions>>
          [] mine /\ r.status = "ready" ->
               /\ TakeOver(l) /\ seen("final") /\ page(TRUE)
               /\ UNCHANGED <<calls, rendered, workspace, actions>>
          [] OTHER -> Catch(l, r.status, calls, requests)
  /\ UNCHANGED sessions

----------------------------------------------------------------------------
(* acceptFolder after its await *)

\* Mutant of Accepted: the number of the request is not compared.
AcceptedInAnyOrder(q) == q.current /\ active.session = q.session

\* The answer of the newest request of this generation, about its session.
Accepted(q) == q.latest /\ q.current /\ active.session = q.session

SignatureOf(q) ==
  [folder |-> IF q.search THEN Root ELSE q.folder, cursor |-> q.cursor,
   next |-> q.next, items |-> q.items, count |-> q.count, any |-> TRUE]

\* acceptPage, unless nothing changed for a load that only wants changes. The
\* load whose final page is an empty listing shows it as an empty archive.
ShowPage(q) ==
  LET page == [folder |-> q.folder, search |-> q.search, number |-> q.number,
               items |-> q.items, count |-> q.count]
      empty == /\ q.load # 0 /\ loads[q.load].pc = "final"
               /\ loads[q.load].counted = 0 /\ q.count = 0
  IN  /\ active' = [session |-> q.session, folder |-> IF q.search THEN Root ELSE q.folder,
                    search |-> q.search, cursor |-> q.cursor, next |-> q.next,
                    previous |-> q.previous, number |-> q.number]
      /\ IF ~q.always /\ SignatureOf(q) = rendered
         THEN UNCHANGED <<rendered, workspace>>
         ELSE /\ rendered' = SignatureOf(q)
              /\ workspace' = [archive |-> sessions[q.session].archive,
                               browse  |-> IF empty THEN "empty" ELSE "loaded",
                               view    |-> q.folder, shown |-> page]

\* The load that asked goes on with its loop or is done.
LoadGoesOn(l) ==
  CASE l = 0                             -> UNCHANGED loads
    [] l # 0 /\ loads[l].pc = "paging"   -> GoTo(l, "waiting")
    [] OTHER                             -> Over(l)

PageArrives(q) ==
  /\ q.stage = "answered"
  /\ requests' = requests \ {q}
  /\ IF Accepted(q) THEN ShowPage(q) ELSE UNCHANGED <<active, rendered, workspace>>
  /\ LoadGoesOn(q.load)
  /\ UNCHANGED <<sessions, calls, actions>>

\* Mutant of RefusalArrives: a refused request of a load is dropped too.
RefusalDropped(q) ==
  /\ q.stage = "refused"
  /\ requests' = requests \ {q}
  /\ UNCHANGED <<sessions, calls, loads, active, rendered, workspace, actions>>

\* A refused request of the user is dropped; one of a load is its failure.
RefusalArrives(q) ==
  /\ q.stage = "refused"
  /\ IF q.load = 0
     THEN /\ requests' = requests \ {q}
          /\ UNCHANGED <<calls, loads, active, rendered, workspace, actions>>
     ELSE Catch(q.load, q.error, calls, requests \ {q})
  /\ UNCHANGED sessions

----------------------------------------------------------------------------
(* The user *)

Pages == /\ Acts
         /\ actions' = [actions EXCEPT !.pages = @ + 1]

\* loadArchive up to its first await, for a chosen archive or for a refresh,
\* which keeps the listing and the folder.
LoadArchive(a, preserve) ==
  /\ Opens
  /\ \E l \in Load :
       /\ \A m \in Load : m < l => loads[m].pc # "idle"
       /\ loads[l].pc = "idle"
       /\ Generation(l, [NoLoad EXCEPT !.archive = a, !.preserve = preserve,
                           !.folder = IF preserve THEN workspace.view ELSE Root],
                     calls, requests)
  /\ UNCHANGED sessions

OpenArchive(a) == LoadArchive(a, FALSE)

Refresh == workspace.archive # None /\ LoadArchive(workspace.archive, TRUE)

\* A page of the active session for the user, if there is a session.
AskPage(folder, search, cursor, number, previous) ==
  /\ requests' = IF active.session = 0 THEN requests
                 ELSE With(Asking(0, active.session, folder, search, cursor,
                                  number, previous, TRUE))
  /\ UNCHANGED <<sessions, calls, loads, active, rendered>>

\* navigateToFolder, navigateBack and navigateUp: the folder is current at once,
\* its page follows.
Navigate(f) ==
  /\ Pages
  /\ workspace.shown # NoPage /\ f # workspace.view
  /\ workspace' = [workspace EXCEPT !.view = f]
  /\ AskPage(f, FALSE, NoCursor, 1, <<>>)

\* The search is cleared, or another order asked for: the current folder again.
Reload ==
  /\ Pages /\ workspace.shown # NoPage
  /\ AskPage(workspace.view, FALSE, NoCursor, 1, <<>>)
  /\ UNCHANGED workspace

LoadSearch ==
  /\ Pages /\ workspace.shown # NoPage
  /\ AskPage(active.folder, TRUE, NoCursor, 1, <<>>)
  /\ UNCHANGED workspace

LoadNextPage ==
  /\ Pages /\ active.next # NoCursor
  /\ AskPage(active.folder, active.search, active.next, active.number + 1,
             Append(active.previous, active.cursor))
  /\ UNCHANGED workspace

\* Mutant of LoadPreviousPage: the cursor is read and not taken off.
LoadPreviousKeeps ==
  /\ Pages /\ active.previous # <<>>
  /\ LET n == Len(active.previous) IN
     AskPage(active.folder, active.search, active.previous[n], n, active.previous)
  /\ UNCHANGED workspace

LoadPreviousPage ==
  /\ Pages /\ active.previous # <<>>
  /\ LET n == Len(active.previous) IN
     AskPage(active.folder, active.search, active.previous[n], n,
             SubSeq(active.previous, 1, n - 1))
  /\ UNCHANGED workspace

\* closeCurrentArchive resets the workspace; the controller is not told.
CloseArchive ==
  /\ Opens /\ workspace.archive # None
  /\ workspace' = Empty
  /\ UNCHANGED <<sessions, calls, loads, active, requests, rendered>>

----------------------------------------------------------------------------

\* What goes on by itself: commands, workers, and what arrives at the page.
System ==
  \/ CloseCommand \/ StartCommand
  \/ \E s \in Session : Insert(s) \/ Publish(s) \/ Finish(s)
  \/ \E l \in Load : Wake(l)
  \/ \E q \in requests : ReadRevision(q) \/ ReadContent(q) \/ PageArrives(q) \/ RefusalArrives(q)

User ==
  \/ \E a \in Archive : OpenArchive(a)
  \/ \E f \in Folder : Navigate(f)
  \/ Refresh \/ Reload \/ LoadSearch \/ LoadNextPage \/ LoadPreviousPage \/ CloseArchive

Next == System \/ User

\* Commands run, workers come to the end of their archive, the page handles what
\* arrives. Each step brings what it belongs to nearer to its end, so that it is
\* enough that not all of them wait for ever. Nothing obliges the user.
Fairness == WF_vars(System)

Spec == Init /\ [][Next]_vars /\ Fairness

----------------------------------------------------------------------------
(* Properties *)

\* No session is forgotten: an open one is the controller's, or the command that
\* closes it, or the answer that brings it, is on its way. A forgotten session
\* would keep its place of the four, and its worker, until the process ends.
SessionsAccountedFor ==
  \A s \in Live : \/ active.session = s
                  \/ \E i \in DOMAIN calls : calls[i].session = s

Readable == active.session # 0 /\ sessions[active.session].status = "ready"

Settled == requests = {} /\ \A l \in Load : loads[l].pc = "idle"

\* When every load and request is over and rows of a readable archive are shown,
\* they are the page they claim to be of the whole listing of the current folder
\* (or of the search), not of what was indexed when some superseded request was
\* answered.
SettledPageIsWhole ==
  Settled /\ workspace.browse = "loaded" /\ Readable =>
    LET page  == workspace.shown
        a     == workspace.archive
        whole == Found(a, Len(Listing[a]), page.folder, page.search)
    IN  /\ a = sessions[active.session].archive
        /\ page.folder = workspace.view
        /\ page.items = Slice(whole, (page.number - 1) * PageLimit)
        /\ page.count = Cardinality(whole)

\* The page does not stay at "loading", whatever was opened, refreshed, closed
\* or retried meanwhile.
LoadingEnds == workspace.browse = "loading" ~> workspace.browse # "loading"
=============================================================================
