--------------------------- MODULE CreateWorkspace ---------------------------
(***************************************************************************)
(* The form that creates an archive: the sources, options and plan preview *)
(* (src/app/workspaces/createWorkspace.ts), the debounced planning of what *)
(* the archive would hold (createPlanController.ts), the submission        *)
(* (createStartController.ts, mainWindowSubmissionGuard.ts), and the       *)
(* intents of src/runtime/zmanagerRuntimeAdapter.ts that drive them.       *)
(*                                                                         *)
(* The page is one thread: a handler runs to its end or to an await. The   *)
(* timer and the answers of plan_create and start_create come in any       *)
(* order. A path is the sequence of its names, the root the empty one.     *)
(***************************************************************************)
EXTENDS Integers, FiniteSets, Sequences, SequencesExt

CONSTANTS
  Source,        \* what the user may add to the form
  Contents,      \* archive paths of each source
  Directory,     \* the paths that are directories
  Volatile,      \* the paths that may vanish from the disk
  Option,        \* the options that change what is planned
  BadSplit,      \* those whose split configuration is invalid
  Query,         \* search texts
  Matches,       \* the paths each of them matches
  NoQuery,
  MaxRevision    \* bound: plans the user makes the form queue

Root == <<>>

Entry == UNION {Contents[s] : s \in Source}

\* With the folders above the entries, which need no entry of their own.
Path == (UNION {Prefixes(e) : e \in Entry}) \ {Root}

ASSUME ContentsAssumption ==
  /\ \A s \in Source : Contents[s] \subseteq Seq(STRING) \ {Root}
  /\ Directory \cup Volatile \subseteq Entry
ASSUME OptionAssumption ==
  /\ BadSplit \subseteq Option
  /\ NoQuery \notin Query /\ \A q \in Query : Matches[q] \subseteq Path
ASSUME BoundAssumption == MaxRevision \in Nat \ {0}

VARIABLES
  \* the form
  sources, option,
  destination,   \* whether a destination is entered
  submitting,    \* submissionInFlight
  planState, plan,
  revision,      \* planRevision
  excluded,      \* excludedArchivePaths
  folder, query, selected,
  \* the controllers
  scheduled,     \* revision the debounce timer will plan, or 0
  planning,      \* plan_create calls that are not answered
  failed,        \* history: the run of the newest revision has failed
  guard,         \* who holds the Main Window's submission guard
  starts         \* start_create calls that are not answered

formVars == <<sources, option, destination, submitting>>
planVars == <<planState, plan, revision, failed>>
viewVars == <<folder, query, selected>>
callVars == <<scheduled, planning>>
startVars == <<guard, starts>>
vars == <<formVars, planVars, excluded, viewVars, callVars, startVars>>

NoPlan == [revision |-> 0, sources |-> {}, entries |-> {}]

----------------------------------------------------------------------------
(* What a plan shows *)

\* createPlanEntriesForPath, for the rows and folders in P.
Under(P, entries) == {e \in entries : \E p \in P : IsPrefix(p, e)}

\* createPlanFolderExists.
FolderExists(entries, f) ==
  \/ f = Root
  \/ f \in entries \cap Directory
  \/ \E e \in entries : IsStrictPrefix(f, e)

\* buildCreatePlanRows: the selectable rows. A folder without an entry of its
\* own has a row as long as something below it is planned.
Rows(entries, f, q) ==
  IF q # NoQuery
  THEN entries \cap Matches[q]
  ELSE {SubSeq(e, 1, Len(f) + 1) : e \in {x \in entries : IsStrictPrefix(f, x)}}

VisibleRows == Rows(plan.entries, folder, query)

\* Mutant of Cleaned: a selection out of sight survives.
CleanedNever(entries, f, q) == selected

\* cleanupSelectionForRows.
Cleaned(entries, f, q) == selected \cap Rows(entries, f, q)

\* What a click, a range, a marquee or a toggle selects, cleaned: any of the
\* rows in sight.
Selections == SUBSET VisibleRows

Included == plan.entries \ excluded

----------------------------------------------------------------------------
(* The states of a plan *)

\* resetPlanState: with the plan go the exclusions and the view.
ForgetPlan ==
  /\ plan' = NoPlan /\ excluded' = {}
  /\ folder' = Root /\ query' = NoQuery /\ selected' = {}

ForgetIf(changed) ==
  IF changed THEN ForgetPlan ELSE UNCHANGED <<plan, excluded, viewVars>>

\* setPlanErrorState: a plan that is there stays, with its view; without one
\* there is no view to keep.
PlanError ==
  /\ planState' = "error"
  /\ ForgetIf(plan = NoPlan)

\* beginQueuedPlanState for a new revision: loading, and the old plan stays,
\* unless the sources change or there are none.
NextRevision(Ss) ==
  /\ revision < MaxRevision
  /\ revision' = revision + 1 /\ failed' = FALSE
  /\ planState' = IF Ss = {} THEN "idle" ELSE "loading"
  /\ ForgetIf(Ss = {} \/ Ss # sources)

\* queuePlanRun: the next revision, and the timer set anew for it unless there
\* is nothing to plan.
Queue(Ss) ==
  /\ NextRevision(Ss)
  /\ scheduled' = IF Ss = {} THEN 0 ELSE revision + 1
  /\ UNCHANGED planning

\* refreshPlanAfterTransientInputEdit.
RefreshedState ==
  IF planState = "error" /\ plan # NoPlan THEN "ready" ELSE planState

----------------------------------------------------------------------------
(* Intents *)

\* suggestDestinationPathIfBlank: where there are sources, a name comes of them.
Suggested(Ss) == destination \/ Ss # {}

\* addSources. Paths the form has already change nothing.
AddSources(S) ==
  /\ ~ S \subseteq sources
  /\ sources' = sources \cup S
  /\ destination' = (destination \/ sources = {})
  /\ Queue(sources \cup S)
  /\ UNCHANGED <<option, submitting, startVars>>

\* removeCreateSources: named ones, or those of the selected rows.
RemoveSources(S) ==
  /\ S \cap sources # {}
  /\ sources' = sources \ S
  /\ Queue(sources \ S)
  /\ UNCHANGED <<option, destination, submitting, startVars>>

\* clearCreateSources queues whether or not there was something to clear.
ClearSources ==
  /\ sources' = {}
  /\ Queue({})
  /\ UNCHANGED <<option, destination, submitting, startVars>>

\* setOptions and changeFormat. The refreshed state is overwritten by loading.
SetOptions(o) ==
  /\ option' = o
  /\ Queue(sources)
  /\ UNCHANGED <<sources, destination, submitting, startVars>>

\* applyDefaultsToOptions with a suggested destination.
WithDefaults(o, Ss) == option' = o /\ destination' = Suggested(Ss)

\* applyCreatePreferenceDefaults, when preferences are saved, or paths dropped
\* that the form has already: nothing is planned anew.
ApplyDefaults(o) ==
  /\ WithDefaults(o, sources)
  /\ UNCHANGED <<sources, submitting, planVars, excluded, viewVars, callVars, startVars>>

\* addDroppedSources: the defaults, then addSources.
DropSources(S, o) ==
  /\ ~ S \subseteq sources
  /\ WithDefaults(o, sources \cup S)
  /\ sources' = sources \cup S
  /\ Queue(sources \cup S)
  /\ UNCHANGED <<submitting, startVars>>

\* setDestinationPath, typed or browsed for.
EditDestination(d) ==
  /\ destination' = d
  /\ planState' = RefreshedState
  /\ UNCHANGED <<sources, option, submitting, plan, revision, failed, excluded,
                 viewVars, callVars, startVars>>

Request(v, Ss) == [revision |-> v, sources |-> Ss]

\* openQuickCreateReview: its sources, with options and a destination if the
\* form was empty, and a plan run at once in place of a scheduled one.
QuickReview(S, o) ==
  /\ sources' = sources \cup S
  /\ option' = IF sources = {} THEN o ELSE option
  /\ destination' = (destination \/ sources = {})
  /\ NextRevision(sources \cup S)
  /\ scheduled' = 0
  /\ planning' = planning \cup {Request(revision + 1, sources \cup S)}
  /\ UNCHANGED <<submitting, startVars>>

\* navigateToFolder: to a folder of the plan; a search ends.
Navigate(f) ==
  /\ f # folder /\ FolderExists(plan.entries, f)
  /\ folder' = f /\ query' = NoQuery
  /\ selected' = Cleaned(plan.entries, f, NoQuery)
  /\ UNCHANGED <<formVars, planVars, excluded, callVars, startVars>>

\* setSearchQuery and clearSearch.
Search(q) ==
  /\ q # query
  /\ query' = q
  /\ selected' = Cleaned(plan.entries, folder, q)
  /\ UNCHANGED <<formVars, planVars, excluded, folder, callVars, startVars>>

\* selectRow, updateSelection and the like, through applySelectionResult.
Select(S) ==
  /\ S # selected
  /\ selected' = S
  /\ UNCHANGED <<formVars, planVars, excluded, folder, query, callVars, startVars>>

\* Mutant of Include: the path itself is recorded, not the entries below it.
IncludeRowOnly(P, included) ==
  /\ plan # NoPlan
  /\ excluded' = IF included THEN excluded \ P ELSE excluded \cup P
  /\ UNCHANGED <<formVars, planVars, viewVars, callVars, startVars>>

\* setPathIncluded, setCurrentFolderIncluded and setVisibleRowsIncluded: of a
\* row, of the current folder, of all rows in sight. To include a path includes
\* the folders above it.
Include(P, included) ==
  /\ plan # NoPlan
  /\ LET affected == Under(P, plan.entries)
     IN  excluded' = IF included
                     THEN {x \in excluded : ~ \E e \in affected : IsPrefix(x, e)}
                     ELSE excluded \cup affected
  /\ UNCHANGED <<formVars, planVars, viewVars, callVars, startVars>>

----------------------------------------------------------------------------
(* Planning *)

\* The timer calls runPlan(scheduled): stale, or without sources, or a call.
TimerFires ==
  /\ scheduled # 0
  /\ scheduled' = 0
  /\ IF scheduled = revision /\ sources # {}
     THEN planState' = "loading" /\ planning' = planning \cup {Request(revision, sources)}
     ELSE UNCHANGED <<planState, planning>>
  /\ UNCHANGED <<formVars, plan, revision, failed, excluded, viewVars, startVars>>

\* pruneExcludedPathsForPlan and reconcileViewForPlan.
Reconcile(entries) ==
  /\ excluded' = excluded \cap entries
  /\ folder' = IF FolderExists(entries, folder) THEN folder ELSE Root
  /\ selected' = Cleaned(entries, folder', query)
  /\ UNCHANGED query

\* acceptPlanResult.
Accept(r, entries) ==
  /\ planState' = "ready"
  /\ plan' = [revision |-> r.revision, sources |-> r.sources, entries |-> entries]
  /\ Reconcile(entries)
  /\ UNCHANGED failed

\* Mutant of Refuse: the error does not end the planning.
RefuseSilently ==
  /\ failed' = TRUE
  /\ UNCHANGED <<planState, plan, excluded, viewVars>>

\* acceptPlanError.
Refuse ==
  /\ PlanError
  /\ failed' = TRUE

\* Mutant of PlanAnswered: answers are taken whatever was queued since.
PlanAnsweredLate(r) ==
  /\ r \in planning
  /\ planning' = planning \ {r}
  /\ Accept(r, UNION {Contents[s] : s \in r.sources})
  /\ UNCHANGED <<formVars, revision, scheduled, startVars>>

\* An answer of plan_create: an error, or what of the sources is on the disk.
\* Only that of the newest revision counts.
PlanAnswered(r) ==
  /\ r \in planning
  /\ planning' = planning \ {r}
  /\ IF r.revision # revision
     THEN UNCHANGED <<planState, plan, failed, excluded, viewVars>>
     ELSE \/ \E gone \in SUBSET Volatile :
               Accept(r, (UNION {Contents[s] : s \in r.sources}) \ gone)
          \/ Refuse
  /\ UNCHANGED <<formVars, revision, scheduled, startVars>>

----------------------------------------------------------------------------
(* Submission *)

\* buildStartCreateRequest: what is wrong with the form that it says so.
\* mistyped: the two passwords differ.
Unready(mistyped) ==
  \/ ~destination
  \/ planState # "ready" \/ plan = NoPlan
  \/ Included # {} /\ (option \in BadSplit \/ mistyped)

\* runCreate refuses while another submission waits, while there are no sources
\* or nothing is included, and with an error while the form is not ready.
CreateRefused(mistyped) ==
  /\ guard = "free" /\ sources # {}
  /\ Unready(mistyped)
  /\ PlanError
  /\ UNCHANGED <<formVars, revision, failed, callVars, startVars>>

\* buildStartCreateRequestFromState; shown is what the user had in front of him.
StartRequest == [sources |-> sources, excluded |-> excluded, shown |-> plan]

\* Mutant of Create: nothing need be left of the plan.
CreateOfNothing(mistyped) ==
  /\ guard = "free" /\ sources # {}
  /\ ~Unready(mistyped)
  /\ starts' = starts \cup {StartRequest}
  /\ guard' = "create" /\ submitting' = TRUE
  /\ UNCHANGED <<sources, option, destination, planVars, excluded, viewVars, callVars>>

\* runCreate: the request, the guard and the call.
Create(mistyped) ==
  /\ guard = "free" /\ sources # {}
  /\ ~Unready(mistyped)
  /\ Included # {}
  /\ starts' = starts \cup {StartRequest}
  /\ guard' = "create" /\ submitting' = TRUE
  /\ UNCHANGED <<sources, option, destination, planVars, excluded, viewVars, callVars>>

\* The finally clause of runCreate.
Submitted(r) ==
  /\ r \in starts
  /\ starts' = starts \ {r}
  /\ guard' = "free" /\ submitting' = FALSE

StartRefused(r) ==
  /\ Submitted(r)
  /\ PlanError
  /\ UNCHANGED <<sources, option, destination, revision, failed, callVars>>

\* onCreateStarted: cancelQueuedPlanRun and resetAfterAcceptedStart, in the
\* handoff of the job.
StartAccepted(r) ==
  /\ Submitted(r)
  /\ sources' = {} /\ destination' = FALSE
  /\ ForgetPlan
  /\ planState' = "idle" /\ failed' = FALSE
  /\ revision' = revision + 1
  /\ scheduled' = 0
  /\ UNCHANGED <<option, planning>>

\* The feed of accepted jobs was faster: the handoff of the job is under way or
\* over, and the one of runCreate joins it without its reset.
StartOvertaken(r) ==
  /\ Submitted(r)
  /\ UNCHANGED <<sources, option, destination, planVars, excluded, viewVars, callVars>>

\* An extraction or a test in the same window.
OtherBegins ==
  /\ guard = "free" /\ guard' = "other"
  /\ UNCHANGED <<formVars, planVars, excluded, viewVars, callVars, starts>>

OtherEnds ==
  /\ guard = "other" /\ guard' = "free"
  /\ UNCHANGED <<formVars, planVars, excluded, viewVars, callVars, starts>>

----------------------------------------------------------------------------
Init ==
  /\ sources = {} /\ option \in Option /\ destination = FALSE /\ submitting = FALSE
  /\ planState = "idle" /\ plan = NoPlan /\ revision = 0 /\ failed = FALSE
  /\ excluded = {}
  /\ folder = Root /\ query = NoQuery /\ selected = {}
  /\ scheduled = 0 /\ planning = {}
  /\ guard = "free" /\ starts = {}

User ==
  \/ \E S \in (SUBSET Source) \ {{}} :
       \/ AddSources(S) \/ RemoveSources(S)
       \/ \E o \in Option : DropSources(S, o) \/ QuickReview(S, o)
  \/ ClearSources
  \/ \E o \in Option : SetOptions(o) \/ ApplyDefaults(o)
  \/ \E d \in BOOLEAN : EditDestination(d)
  \/ \E f \in Path \cup {Root} : Navigate(f)
  \/ \E q \in Query \cup {NoQuery} : Search(q)
  \/ \E S \in Selections : Select(S)
  \/ \E P \in {{r} : r \in VisibleRows} \cup {{folder}, VisibleRows}, b \in BOOLEAN : Include(P, b)
  \/ \E b \in BOOLEAN : CreateRefused(b) \/ Create(b)
  \/ OtherBegins \/ OtherEnds

Answers ==
  \/ \E r \in planning : PlanAnswered(r)
  \/ \E r \in starts : StartRefused(r) \/ StartAccepted(r) \/ StartOvertaken(r)

Next == User \/ TimerFires \/ Answers

\* Timers fire, and calls are answered whatever else is.
Fairness ==
  /\ WF_vars(TimerFires)
  /\ \A v \in 1 .. MaxRevision : WF_vars(\E r \in planning : r.revision = v /\ PlanAnswered(r))

Spec == Init /\ [][Next]_vars /\ Fairness

----------------------------------------------------------------------------
(* Properties *)

Call == [revision : 1 .. MaxRevision, sources : SUBSET Source]
Plan == [revision : 0 .. MaxRevision, sources : SUBSET Source, entries : SUBSET Entry]

\* Type invariant.
TypeOK ==
  /\ sources \subseteq Source /\ option \in Option
  /\ destination \in BOOLEAN /\ submitting \in BOOLEAN
  /\ planState \in {"idle", "loading", "ready", "error"}
  /\ plan \in Plan /\ revision \in 0 .. MaxRevision + 1 /\ failed \in BOOLEAN
  /\ excluded \subseteq Entry /\ selected \subseteq Path
  /\ folder \in Path \cup {Root} /\ query \in Query \cup {NoQuery}
  /\ scheduled \in 0 .. MaxRevision /\ planning \subseteq Call
  /\ guard \in {"free", "create", "other"}
  /\ starts \subseteq [sources : SUBSET Source, excluded : SUBSET Entry, shown : Plan]

Outstanding == scheduled # 0 \/ \E r \in planning : r.revision = revision

\* The preview is of this form: a plan that is shown was made of the sources
\* the form has now, and once nothing is outstanding it is the newest one asked
\* for, unless that failed. Plans are answered out of order, while sources come
\* and go and the form is reset under them (acceptPlanResult, queuePlan, reset).
PreviewIsCurrent ==
  /\ plan # NoPlan => plan.sources = sources
  /\ sources # {} /\ ~Outstanding /\ ~failed => plan.revision = revision

\* What the next click acts on is in sight: the current folder is one of the
\* plan, selected rows are rows the table shows, and exclusions are of planned
\* paths, whatever plan was accepted, kept or forgotten in the meantime. A
\* selection out of sight would be removed with the selected sources, an
\* exclusion out of sight sent with the request.
ViewIsOfPlan ==
  /\ FolderExists(plan.entries, folder)
  /\ selected \subseteq VisibleRows
  /\ excluded \subseteq plan.entries

\* A submission is what its user saw: of the sources that were planned, with
\* exclusions from that plan and something left of it; one at a time, and the
\* form says so as long as it waits (runCreate, MainWindowSubmissionGuard).
SubmittedAsShown ==
  /\ \A r \in starts :
       /\ r.sources = r.shown.sources
       /\ r.excluded \subseteq r.shown.entries
       /\ r.shown.entries # r.excluded
  /\ Cardinality(starts) = (IF submitting THEN 1 ELSE 0)
  /\ submitting <=> guard = "create"

\* Planning ends: with a plan, an error or an empty form, however often the
\* debounce is set anew, cancelled or overtaken by a run at once.
PlanningEnds == planState = "loading" ~> planState # "loading"

=============================================================================
