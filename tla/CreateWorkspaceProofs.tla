----------------------- MODULE CreateWorkspaceProofs -----------------------
(***************************************************************************)
(* Proofs about CreateWorkspace, for any sources with any contents, any    *)
(* options and searches.  A plan that is shown is of the form's sources    *)
(* because a call that can still be accepted was made for them (Planned);  *)
(* a submission is alone because it holds the guard (Alone).               *)
(***************************************************************************)
EXTENDS CreateWorkspace, SequenceTheorems, FiniteSetTheorems, TLAPS

\* The newest revision is the one the timer and the newest call are for, and
\* it is of the sources the form has now.
Planned ==
  /\ scheduled \in {0, revision}
  /\ scheduled # 0 => sources # {}
  /\ \A r \in planning :
       r.revision <= revision /\ (r.revision = revision => r.sources = sources)

\* A submission is out exactly while the form says so; the handoff of its job
\* leaves an empty form behind, which takes the last revision of the bound.
Alone ==
  /\ IF submitting THEN \E r \in starts : starts = {r} ELSE starts = {}
  /\ revision = MaxRevision + 1 => sources = {} /\ ~submitting

IInv ==
  TypeOK /\ Planned /\ Alone /\ PreviewIsCurrent /\ ViewIsOfPlan /\ SubmittedAsShown
----------------------------------------------------------------------------
(* Paths and rows *)

\* Entries are sequences of names.
LEMMA EntryIsPath ==
  ASSUME NEW e \in Entry
  PROVE  e \in Seq(STRING) /\ e # Root
BY ContentsAssumption DEF Entry

\* So are the paths above them, down to the root.
LEMMA PathIsPath ==
  ASSUME NEW f \in Path \cup {Root}
  PROVE  f \in Seq(STRING)
<1>1. CASE f = Root
  BY <1>1, EmptySeq DEF Root
<1>2. CASE f \in Path
  <2>1. PICK e \in Entry : f \in Prefixes(e)
    BY <1>2 DEF Path
  <2>2. PICK l \in 0 .. Len(e) : f = SubSeq(e, 1, l)
    BY <2>1 DEF Prefixes
  <2>3. e \in Seq(STRING)
    BY EntryIsPath
  <2> QED
    BY <2>2, <2>3, SubSeqProperties
<1> QED
  BY <1>1, <1>2

\* The paths above an entry are paths.
LEMMA AboveIsPath ==
  ASSUME NEW e \in Entry, NEW p \in Prefixes(e), p # Root
  PROVE  p \in Path
<1>1. Prefixes(e) \in {Prefixes(x) : x \in Entry}
  BY Zenon
<1>2. p \in UNION {Prefixes(x) : x \in Entry}
  BY <1>1, Zenon
<1>3. p \notin {Root}
  OBVIOUS
<1> QED
  BY <1>2, <1>3, Zenon DEF Path

\* A path strictly above another is shorter.
LEMMA StrictlyShorter ==
  ASSUME NEW f \in Seq(STRING), NEW e \in Seq(STRING), IsStrictPrefix(f, e)
  PROVE  Len(f) + 1 \in 1 .. Len(e)
<1>1. Len(f) \in Nat /\ Len(e) \in Nat /\ Len(f) <= Len(e)
  BY LenProperties DEF IsStrictPrefix, IsPrefix
<1>2. Len(f) # Len(e)
  <2> SUFFICES ASSUME Len(f) = Len(e) PROVE FALSE
    OBVIOUS
  <2>1. SubSeq(f, 1, Len(f)) = SubSeq(e, 1, Len(e))
    BY DEF IsStrictPrefix, IsPrefix
  <2>2. f = e
    BY <2>1, SubSeqFull
  <2> QED
    BY <2>2 DEF IsStrictPrefix
<1> QED
  BY <1>1, <1>2

\* The rows of a folder of planned entries, or of a search in them, are paths.
LEMMA RowsArePaths ==
  ASSUME NEW entries \in SUBSET Entry, NEW f \in Path \cup {Root},
         NEW q \in Query \cup {NoQuery}
  PROVE  Rows(entries, f, q) \subseteq Path
<1>1. CASE q # NoQuery
  BY <1>1, OptionAssumption DEF Rows
<1>2. CASE q = NoQuery
  <2> SUFFICES ASSUME NEW e \in entries, IsStrictPrefix(f, e)
               PROVE  SubSeq(e, 1, Len(f) + 1) \in Path
    BY <1>2 DEF Rows
  <2>1. e \in Entry /\ e \in Seq(STRING) /\ f \in Seq(STRING)
    BY EntryIsPath, PathIsPath
  <2>2. Len(f) + 1 \in 1 .. Len(e)
    BY <2>1, StrictlyShorter
  <2>3. SubSeq(e, 1, Len(f) + 1) \in Prefixes(e)
    <3>1. Len(f) + 1 \in 0 .. Len(e)
      BY <2>2
    <3> QED
      BY <3>1 DEF Prefixes
  <2>4. SubSeq(e, 1, Len(f) + 1) # Root
    <3>1. Len(SubSeq(e, 1, Len(f) + 1)) = Len(f) + 1 /\ Len(f) + 1 # 0
      BY <2>1, <2>2, SubSeqProperties
    <3> QED
      BY <3>1 DEF Root
  <2> QED
    BY <2>1, <2>3, <2>4, AboveIsPath
<1> QED
  BY <1>1, <1>2

\* What is planned of sources are entries.
LEMMA PlannedEntries ==
  ASSUME NEW Ss \in SUBSET Source
  PROVE  UNION {Contents[s] : s \in Ss} \subseteq Entry
BY DEF Entry

----------------------------------------------------------------------------
(* The view of a plan *)

\* The plan with its exclusions and its view, well-typed and consistent.
View ==
  /\ plan \in Plan /\ excluded \subseteq Entry /\ selected \subseteq Path
  /\ folder \in Path \cup {Root} /\ query \in Query \cup {NoQuery}
  /\ ViewIsOfPlan

\* The form and the calls, well-typed.
FormTyped ==
  /\ sources \subseteq Source /\ option \in Option
  /\ destination \in BOOLEAN /\ submitting \in BOOLEAN
  /\ planState \in {"idle", "loading", "ready", "error"}
  /\ revision \in 0 .. MaxRevision + 1 /\ failed \in BOOLEAN
  /\ scheduled \in 0 .. MaxRevision /\ planning \subseteq Call
  /\ guard \in {"free", "create", "other"}
  /\ starts \subseteq [sources : SUBSET Source, excluded : SUBSET Entry, shown : Plan]

\* The invariant, in these two parts.
LEMMA Parts ==
  /\ IInv <=> FormTyped /\ View /\ Planned /\ Alone /\ PreviewIsCurrent /\ SubmittedAsShown
  /\ IInv' <=> FormTyped' /\ View' /\ Planned' /\ Alone' /\ PreviewIsCurrent'
               /\ SubmittedAsShown'
BY DEF IInv, TypeOK, FormTyped, View

\* No plan is a plan of nothing.
LEMMA NoPlanTyped ==
  NoPlan \in Plan /\ NoPlan.entries = {} /\ NoPlan.revision = 0 /\ NoPlan.sources = {}
<1>1. 0 \in 0 .. MaxRevision
  BY BoundAssumption
<1> QED
  BY <1>1 DEF NoPlan, Plan

\* Forgetting a plan leaves no view of one.
LEMMA ForgetPlanDoes ==
  ForgetPlan => View' /\ plan' = NoPlan
<1> SUFFICES ASSUME ForgetPlan PROVE View' /\ plan' = NoPlan
  OBVIOUS
<1>1. NoPlan \in Plan /\ NoPlan.entries = {}
  BY NoPlanTyped
<1>2. /\ plan' = NoPlan /\ excluded' = {} /\ selected' = {} /\ folder' = Root
      /\ query' = NoQuery
  BY DEF ForgetPlan
<1>3. ViewIsOfPlan'
  BY <1>1, <1>2 DEF ViewIsOfPlan, FolderExists
<1> QED
  BY <1>1, <1>2, <1>3 DEF View

\* A plan that is not forgotten keeps its view.
LEMMA ForgetIfDoes ==
  ASSUME View, NEW b \in BOOLEAN, ForgetIf(b)
  PROVE  View' /\ plan' = IF b THEN NoPlan ELSE plan
<1>1. CASE b
  BY <1>1, ForgetPlanDoes DEF ForgetIf
<1>2. CASE ~b
  BY <1>2 DEF ForgetIf, View, ViewIsOfPlan, VisibleRows, viewVars
<1> QED
  BY <1>1, <1>2

\* A planning error keeps the plan, and has no view without one.
LEMMA PlanErrorDoes ==
  ASSUME View, PlanError
  PROVE  View' /\ plan' = plan /\ planState' = "error"
BY ForgetIfDoes DEF PlanError

LEMMA InitIInv == Init => IInv
<1> SUFFICES ASSUME Init PROVE IInv
  OBVIOUS
<1>1. NoPlan \in Plan /\ NoPlan.entries = {}
  BY NoPlanTyped
<1>2. View
  BY <1>1 DEF Init, View, ViewIsOfPlan, FolderExists
<1>3. FormTyped
  <2>1. 0 \in 0 .. MaxRevision /\ 0 \in 0 .. MaxRevision + 1
    BY BoundAssumption
  <2> QED
    BY <2>1 DEF Init, FormTyped
<1>4. Planned /\ Alone
  BY BoundAssumption DEF Init, Planned, Alone
<1>5. PreviewIsCurrent
  BY DEF Init, PreviewIsCurrent
<1>6. SubmittedAsShown
  BY FS_EmptySet DEF Init, SubmittedAsShown
<1> QED
  BY <1>2, <1>3, <1>4, <1>5, <1>6, Parts

----------------------------------------------------------------------------
(* Steps that leave the plan, the calls and the submissions alone *)

\* Whatever a step does to the view, it keeps the invariant if the view is
\* still one of the plan, and the plan, its sources and the calls are as before.
LEMMA OnlyTheView ==
  ASSUME IInv, View', plan' = plan,
         option' \in Option, destination' \in BOOLEAN,
         planState' \in {"idle", "loading", "ready", "error"},
         UNCHANGED <<sources, submitting, revision, failed, callVars, startVars>>
  PROVE  IInv'
<1> USE DEF callVars, startVars
<1>1. FormTyped'
  BY Parts DEF FormTyped
<1>2. Planned' /\ Alone'
  BY DEF IInv, Planned, Alone
<1>3. PreviewIsCurrent' /\ SubmittedAsShown'
  BY DEF IInv, PreviewIsCurrent, Outstanding, SubmittedAsShown
<1> QED
  BY <1>1, <1>2, <1>3, Parts

\* The same view of the same plan.
LEMMA SameView ==
  ASSUME View, UNCHANGED <<plan, excluded, viewVars>>
  PROVE  View'
BY DEF View, ViewIsOfPlan, VisibleRows, viewVars

\* What is typed into the form plans nothing.
LEMMA EditsKeep ==
  ASSUME IInv, NEW o \in Option, NEW d \in BOOLEAN, ApplyDefaults(o) \/ EditDestination(d)
  PROVE  IInv'
<1>1. View /\ FormTyped
  BY Parts
<1>2. UNCHANGED <<plan, excluded, viewVars, sources, submitting, revision, failed,
                  callVars, startVars>>
  BY DEF ApplyDefaults, EditDestination, planVars
<1>3. View'
  BY <1>1, <1>2, SameView
<1>4. /\ option' \in Option /\ destination' \in BOOLEAN
      /\ planState' \in {"idle", "loading", "ready", "error"}
  BY <1>1 DEF ApplyDefaults, EditDestination, WithDefaults, Suggested, RefreshedState,
     planVars, FormTyped
<1> QED
  BY <1>2, <1>3, <1>4, OnlyTheView

\* A folder that exists is entered with what is still in sight selected.
LEMMA NavigateKeeps ==
  ASSUME IInv, NEW f \in Path \cup {Root}, Navigate(f)
  PROVE  IInv'
<1>1. View /\ FormTyped
  BY Parts
<1>2. /\ UNCHANGED <<formVars, planVars, excluded, callVars, startVars>>
      /\ folder' = f /\ query' = NoQuery /\ FolderExists(plan.entries, f)
      /\ selected' = Cleaned(plan.entries, f, NoQuery)
  BY DEF Navigate
<1>3. View'
  BY <1>1, <1>2 DEF View, ViewIsOfPlan, VisibleRows, Cleaned, planVars
<1> QED
  BY <1>1, <1>2, <1>3, OnlyTheView DEF formVars, planVars, FormTyped

\* So is a search.
LEMMA SearchKeeps ==
  ASSUME IInv, NEW q \in Query \cup {NoQuery}, Search(q)
  PROVE  IInv'
<1>1. View /\ FormTyped
  BY Parts
<1>2. /\ UNCHANGED <<formVars, planVars, excluded, folder, callVars, startVars>>
      /\ query' = q /\ selected' = Cleaned(plan.entries, folder, q)
  BY DEF Search
<1>3. View'
  BY <1>1, <1>2 DEF View, ViewIsOfPlan, VisibleRows, Cleaned, planVars
<1> QED
  BY <1>1, <1>2, <1>3, OnlyTheView DEF formVars, planVars, FormTyped

\* Rows in sight are selected.
LEMMA SelectKeeps ==
  ASSUME IInv, NEW S \in Selections, Select(S)
  PROVE  IInv'
<1>1. View /\ FormTyped
  BY Parts
<1>2. /\ UNCHANGED <<formVars, planVars, excluded, folder, query, callVars, startVars>>
      /\ selected' = S
  BY DEF Select
<1>3. S \subseteq Path
  <2>1. plan.entries \in SUBSET Entry
    BY <1>1 DEF View, Plan
  <2> QED
    BY <1>1, <2>1, RowsArePaths DEF View, Selections, VisibleRows
<1>4. View'
  BY <1>1, <1>2, <1>3 DEF View, ViewIsOfPlan, VisibleRows, Selections, planVars
<1> QED
  BY <1>1, <1>2, <1>4, OnlyTheView DEF formVars, planVars, FormTyped

\* Planned entries are excluded, or fewer of them.
LEMMA IncludeKeeps ==
  ASSUME IInv, NEW P, NEW b \in BOOLEAN, Include(P, b)
  PROVE  IInv'
<1>1. View /\ FormTyped
  BY Parts
<1>2. UNCHANGED <<formVars, planVars, viewVars, callVars, startVars>>
  BY DEF Include
<1>3. excluded' \subseteq plan.entries
  BY <1>1 DEF Include, Under, View, ViewIsOfPlan
<1>4. plan.entries \subseteq Entry
  BY <1>1 DEF View, Plan
<1>5. View'
  BY <1>1, <1>2, <1>3, <1>4 DEF View, ViewIsOfPlan, VisibleRows, planVars, viewVars
<1> QED
  BY <1>1, <1>2, <1>5, OnlyTheView DEF formVars, planVars, FormTyped

\* An error in place of a submission keeps the plan.
LEMMA CreateRefusedKeeps ==
  ASSUME IInv, NEW b \in BOOLEAN, CreateRefused(b)
  PROVE  IInv'
<1>1. View /\ FormTyped
  BY Parts
<1>2. PlanError /\ UNCHANGED <<formVars, revision, failed, callVars, startVars>>
  BY DEF CreateRefused
<1>3. View' /\ plan' = plan /\ planState' = "error"
  BY <1>1, <1>2, PlanErrorDoes
<1> QED
  BY <1>1, <1>2, <1>3, OnlyTheView DEF formVars, FormTyped

----------------------------------------------------------------------------
(* A revision more *)

\* However the next revision is planned, by the timer or by a call at once, no
\* call before it can be accepted any more, and the plan that stays is of the
\* sources the form has.
LEMMA RevisionKeeps ==
  ASSUME IInv, NEW Ss \in SUBSET Source, NextRevision(Ss), sources' = Ss,
         option' \in Option, destination' \in BOOLEAN,
         UNCHANGED <<submitting, startVars>>,
         \/ scheduled' = (IF Ss = {} THEN 0 ELSE revision + 1) /\ planning' = planning
         \/ /\ scheduled' = 0 /\ Ss # {}
            /\ planning' = planning \cup {Request(revision + 1, Ss)}
  PROVE  IInv'
<1>1. View /\ FormTyped /\ Planned /\ Alone /\ PreviewIsCurrent /\ SubmittedAsShown
  BY Parts
<1>2. /\ revision' = revision + 1 /\ failed' = FALSE
      /\ planState' = IF Ss = {} THEN "idle" ELSE "loading"
      /\ ForgetIf(Ss = {} \/ Ss # sources)
  BY DEF NextRevision
<1>3. /\ revision \in Nat /\ MaxRevision \in Nat
      /\ revision + 1 \in 1 .. MaxRevision /\ revision + 1 # 0
      /\ 0 \in 0 .. MaxRevision /\ revision + 1 \in 0 .. MaxRevision
      /\ revision + 1 \in 0 .. MaxRevision + 1 /\ revision + 1 # MaxRevision + 1
  BY <1>1, BoundAssumption DEF NextRevision, FormTyped
<1>4. /\ View'
      /\ plan' = IF Ss = {} \/ Ss # sources THEN NoPlan ELSE plan
  BY <1>1, <1>2, ForgetIfDoes
<1>5. Request(revision + 1, Ss) \in Call
  BY <1>3 DEF Request, Call
<1>6. FormTyped'
  BY <1>1, <1>2, <1>3, <1>5 DEF FormTyped, startVars
<1>7. \A r \in planning : r.revision \in Nat /\ r.revision <= revision
  BY <1>1 DEF FormTyped, Call, Planned
<1>8. Planned'
  <2>1. scheduled' \in {0, revision'} /\ (scheduled' # 0 => sources' # {})
    BY <1>2, <1>3
  <2>2. ASSUME NEW r \in planning'
        PROVE  r.revision <= revision' /\ (r.revision = revision' => r.sources = sources')
    <3>1. CASE r \in planning
      BY <3>1, <1>2, <1>3, <1>7
    <3>2. CASE r = Request(revision + 1, Ss)
      BY <3>2, <1>2, <1>3 DEF Request
    <3> QED
      BY <3>1, <3>2
  <2> QED
    BY <2>1, <2>2 DEF Planned
<1>9. Alone'
  BY <1>1, <1>2, <1>3 DEF Alone, startVars
<1>10. PreviewIsCurrent'
  <2>1. plan' # NoPlan => plan'.sources = sources'
    BY <1>1, <1>4 DEF PreviewIsCurrent
  <2>2. sources' # {} => Outstanding'
    <3>1. CASE scheduled' = 0 /\ Ss # {} /\ planning' = planning \cup {Request(revision + 1, Ss)}
      <4>1. Request(revision + 1, Ss) \in planning' /\ revision' = revision + 1
        BY <3>1, <1>2
      <4>2. Request(revision + 1, Ss).revision = revision + 1
        BY DEF Request
      <4> QED
        BY <4>1, <4>2 DEF Outstanding
    <3>2. CASE scheduled' = (IF Ss = {} THEN 0 ELSE revision + 1) /\ planning' = planning
      BY <3>2, <1>3 DEF Outstanding
    <3> QED
      BY <3>1, <3>2
  <2> QED
    BY <2>1, <2>2 DEF PreviewIsCurrent
<1>11. SubmittedAsShown'
  BY <1>1 DEF SubmittedAsShown, startVars
<1> QED
  BY <1>4, <1>6, <1>8, <1>9, <1>10, <1>11, Parts

\* Sources that come or go queue a plan run or make one.
LEMMA SourcesKeep ==
  ASSUME IInv, NEW S \in SUBSET Source, S # {}, NEW o \in Option,
         AddSources(S) \/ RemoveSources(S) \/ DropSources(S, o) \/ QuickReview(S, o)
  PROVE  IInv'
<1>1. sources \in SUBSET Source /\ option \in Option /\ destination \in BOOLEAN
  BY Parts DEF FormTyped
<1>2. CASE AddSources(S)
  BY <1>1, <1>2, RevisionKeeps DEF AddSources, Queue
<1>3. CASE RemoveSources(S)
  BY <1>1, <1>3, RevisionKeeps DEF RemoveSources, Queue
<1>4. CASE DropSources(S, o)
  BY <1>1, <1>4, RevisionKeeps DEF DropSources, Queue, WithDefaults, Suggested
<1>5. CASE QuickReview(S, o)
  BY <1>1, <1>5, RevisionKeeps DEF QuickReview
<1> QED
  BY <1>2, <1>3, <1>4, <1>5

\* The timer is for the newest revision, whose call it makes.
LEMMA TimerFiresKeeps ==
  ASSUME IInv, TimerFires
  PROVE  IInv'
<1>1. View /\ FormTyped /\ Planned /\ Alone /\ PreviewIsCurrent /\ SubmittedAsShown
  BY Parts
<1>2. /\ scheduled = revision /\ sources # {} /\ scheduled' = 0
      /\ planState' = "loading" /\ planning' = planning \cup {Request(revision, sources)}
      /\ UNCHANGED <<formVars, plan, revision, failed, excluded, viewVars, startVars>>
  BY <1>1 DEF TimerFires, Planned
<1>3. revision \in 1 .. MaxRevision /\ 0 \in 0 .. MaxRevision
  BY <1>1, <1>2, BoundAssumption DEF FormTyped, TimerFires
<1>4. Request(revision, sources) \in Call
  BY <1>1, <1>3 DEF Request, Call, FormTyped
<1>5. View'
  BY <1>1, <1>2, SameView
<1>6. FormTyped'
  BY <1>1, <1>2, <1>3, <1>4 DEF FormTyped, formVars, startVars
<1>7. Planned'
  BY <1>1, <1>2, <1>3 DEF Planned, Request, formVars
<1>8. Alone' /\ SubmittedAsShown'
  BY <1>1, <1>2 DEF Alone, SubmittedAsShown, formVars, startVars
<1>9. PreviewIsCurrent'
  <2>1. Request(revision, sources) \in planning' /\ revision' = revision
    BY <1>2
  <2>2. Request(revision, sources).revision = revision
    BY DEF Request
  <2>3. Outstanding'
    BY <2>1, <2>2 DEF Outstanding
  <2> QED
    BY <1>1, <1>2, <2>3 DEF PreviewIsCurrent, formVars
<1> QED
  BY <1>5, <1>6, <1>7, <1>8, <1>9, Parts

----------------------------------------------------------------------------
(* Answers *)

\* An answer that a revision overtook changes nothing, and nothing waited for
\* it.
LEMMA StaleAnswerKeeps ==
  ASSUME IInv, NEW r \in planning, r.revision # revision, PlanAnswered(r)
  PROVE  IInv'
<1>1. View /\ FormTyped /\ Planned /\ Alone /\ PreviewIsCurrent /\ SubmittedAsShown
  BY Parts
<1>2. /\ planning' = planning \ {r}
      /\ UNCHANGED <<planState, plan, failed, excluded, viewVars>>
      /\ UNCHANGED <<formVars, revision, scheduled, startVars>>
  BY DEF PlanAnswered
<1>3. View'
  BY <1>1, <1>2, SameView
<1>4. FormTyped'
  BY <1>1, <1>2 DEF FormTyped, formVars, startVars
<1>5. Planned' /\ Alone' /\ SubmittedAsShown'
  BY <1>1, <1>2 DEF Planned, Alone, SubmittedAsShown, formVars, startVars
<1>6. PreviewIsCurrent'
  <2>1. Outstanding => Outstanding'
    <3>1. CASE scheduled # 0
      BY <3>1, <1>2 DEF Outstanding
    <3>2. ASSUME NEW c \in planning, c.revision = revision
          PROVE  Outstanding'
      <4>1. c \in planning' /\ revision' = revision
        BY <3>2, <1>2
      <4> QED
        BY <3>2, <4>1 DEF Outstanding
    <3> QED
      BY <3>1, <3>2 DEF Outstanding
  <2> QED
    BY <1>1, <1>2, <2>1 DEF PreviewIsCurrent, formVars
<1> QED
  BY <1>3, <1>4, <1>5, <1>6, Parts

\* The newest call's plan is of the form's sources, and the view is cut to it.
LEMMA AcceptKeeps ==
  ASSUME IInv, NEW r \in planning, r.revision = revision,
         planning' = planning \ {r}, UNCHANGED <<formVars, revision, scheduled, startVars>>,
         NEW gone, Accept(r, (UNION {Contents[s] : s \in r.sources}) \ gone)
  PROVE  IInv'
<1> DEFINE entries == (UNION {Contents[s] : s \in r.sources}) \ gone
<1>1. View /\ FormTyped /\ Planned /\ Alone /\ PreviewIsCurrent /\ SubmittedAsShown
  BY Parts
<1>2. r \in Call /\ r.sources = sources
  BY <1>1 DEF FormTyped, Planned
<1>3. entries \subseteq Entry
  BY <1>2, PlannedEntries DEF Call
<1>4. /\ planState' = "ready" /\ failed' = failed
      /\ plan' = [revision |-> r.revision, sources |-> r.sources, entries |-> entries]
      /\ excluded' = excluded \cap entries
      /\ folder' = IF FolderExists(entries, folder) THEN folder ELSE Root
      /\ selected' = Cleaned(entries, folder', query)
      /\ query' = query
  BY DEF Accept, Reconcile
<1> HIDE DEF entries
<1>5. plan' \in Plan /\ plan'.entries = entries
  <2>1. r.revision \in 1 .. MaxRevision /\ r.sources \in SUBSET Source
    BY <1>2 DEF Call
  <2>2. r.revision \in 0 .. MaxRevision
    BY <2>1
  <2> QED
    BY <2>1, <2>2, <1>3, <1>4 DEF Plan
<1>6. View'
  <2>1. FolderExists(entries, folder')
    BY <1>4 DEF FolderExists
  <2>2. selected' \subseteq Rows(entries, folder', query')
    BY <1>4 DEF Cleaned
  <2>3. ViewIsOfPlan'
    BY <2>1, <2>2, <1>4, <1>5 DEF ViewIsOfPlan, VisibleRows
  <2>4. /\ excluded' \subseteq Entry /\ selected' \subseteq Path
        /\ folder' \in Path \cup {Root} /\ query' \in Query \cup {NoQuery}
    BY <1>1, <1>4 DEF View, Cleaned
  <2> QED
    BY <2>3, <2>4, <1>5 DEF View
<1>7. FormTyped'
  BY <1>1, <1>4 DEF FormTyped, formVars, startVars
<1>8. Planned' /\ Alone' /\ SubmittedAsShown'
  BY <1>1 DEF Planned, Alone, SubmittedAsShown, formVars, startVars
<1>9. PreviewIsCurrent'
  BY <1>2, <1>4 DEF PreviewIsCurrent, formVars
<1> QED
  BY <1>6, <1>7, <1>8, <1>9, Parts

\* An error of the newest call leaves an older plan of the same sources.
LEMMA RefuseKeeps ==
  ASSUME IInv, NEW r \in planning, planning' = planning \ {r},
         UNCHANGED <<formVars, revision, scheduled, startVars>>, Refuse
  PROVE  IInv'
<1>1. View /\ FormTyped /\ Planned /\ Alone /\ PreviewIsCurrent /\ SubmittedAsShown
  BY Parts
<1>2. View' /\ plan' = plan /\ planState' = "error" /\ failed' = TRUE
  BY <1>1, PlanErrorDoes DEF Refuse
<1>3. FormTyped'
  BY <1>1, <1>2 DEF FormTyped, formVars, startVars
<1>4. Planned' /\ Alone' /\ SubmittedAsShown'
  BY <1>1 DEF Planned, Alone, SubmittedAsShown, formVars, startVars
<1>5. PreviewIsCurrent'
  BY <1>1, <1>2 DEF PreviewIsCurrent, formVars
<1> QED
  BY <1>2, <1>3, <1>4, <1>5, Parts

\* Any answer of plan_create.
LEMMA PlanAnsweredKeeps ==
  ASSUME IInv, NEW r \in planning, PlanAnswered(r)
  PROVE  IInv'
<1>1. CASE r.revision # revision
  BY <1>1, StaleAnswerKeeps
<1>2. CASE r.revision = revision
  <2>1. /\ planning' = planning \ {r}
        /\ UNCHANGED <<formVars, revision, scheduled, startVars>>
        /\ \/ \E gone \in SUBSET Volatile :
                Accept(r, (UNION {Contents[s] : s \in r.sources}) \ gone)
           \/ Refuse
    BY <1>2 DEF PlanAnswered
  <2>2. CASE Refuse
    BY <2>1, <2>2, RefuseKeeps
  <2>3. ASSUME NEW gone \in SUBSET Volatile,
               Accept(r, (UNION {Contents[s] : s \in r.sources}) \ gone)
        PROVE  IInv'
    BY <1>2, <2>1, <2>3, AcceptKeeps
  <2> QED
    BY <2>1, <2>2, <2>3
<1> QED
  BY <1>1, <1>2

----------------------------------------------------------------------------
(* Submissions *)

\* The guard is free: nothing waits, and the plan is of the form's sources.
LEMMA CreateKeeps ==
  ASSUME IInv, NEW b \in BOOLEAN, Create(b)
  PROVE  IInv'
<1>1. View /\ FormTyped /\ Planned /\ Alone /\ PreviewIsCurrent /\ SubmittedAsShown
  BY Parts
<1>2. /\ guard = "free" /\ sources # {} /\ plan # NoPlan /\ Included # {}
      /\ starts' = starts \cup {StartRequest} /\ guard' = "create" /\ submitting' = TRUE
      /\ UNCHANGED <<sources, option, destination, planVars, excluded, viewVars, callVars>>
  BY DEF Create, Unready
<1>3. starts = {} /\ starts' = {StartRequest}
  BY <1>1, <1>2 DEF Alone, SubmittedAsShown
<1>4. View'
  BY <1>1, <1>2, SameView DEF planVars
<1>5. StartRequest \in [sources : SUBSET Source, excluded : SUBSET Entry, shown : Plan]
  BY <1>1 DEF StartRequest, FormTyped, View
<1>6. FormTyped'
  BY <1>1, <1>2, <1>3, <1>5 DEF FormTyped, planVars, callVars
<1>7. Planned' /\ Alone' /\ PreviewIsCurrent'
  BY <1>1, <1>2, <1>3 DEF Planned, Alone, PreviewIsCurrent, Outstanding, planVars, callVars
<1>8. SubmittedAsShown'
  <2>1. Cardinality(starts') = 1
    BY <1>3, FS_Singleton
  <2>2. /\ StartRequest.sources = StartRequest.shown.sources
        /\ StartRequest.excluded \subseteq StartRequest.shown.entries
        /\ StartRequest.shown.entries # StartRequest.excluded
    BY <1>1, <1>2 DEF StartRequest, PreviewIsCurrent, View, ViewIsOfPlan, Included
  <2> QED
    BY <1>2, <1>3, <2>1, <2>2 DEF SubmittedAsShown
<1> QED
  BY <1>4, <1>6, <1>7, <1>8, Parts

\* With its answer the one submission is gone.
LEMMA SubmittedDoes ==
  ASSUME IInv, NEW r \in starts, Submitted(r)
  PROVE  /\ submitting /\ starts' = {} /\ guard' = "free" /\ submitting' = FALSE
         /\ SubmittedAsShown' /\ revision # MaxRevision + 1
<1>1. Alone
  BY DEF IInv
<1>2. submitting /\ starts = {r} /\ revision # MaxRevision + 1
  BY <1>1 DEF Alone
<1>3. starts' = {} /\ guard' = "free" /\ submitting' = FALSE
  BY <1>2 DEF Submitted
<1>4. Cardinality({}) = 0
  BY FS_EmptySet
<1>5. SubmittedAsShown'
  BY <1>3, <1>4 DEF SubmittedAsShown
<1> QED
  BY <1>2, <1>3, <1>5

\* Refused, or overtaken by the feed: the form stays as it is.
LEMMA StartEndsKeeps ==
  ASSUME IInv, NEW r \in starts, StartRefused(r) \/ StartOvertaken(r)
  PROVE  IInv'
<1>1. View /\ FormTyped /\ Planned /\ Alone /\ PreviewIsCurrent /\ SubmittedAsShown
  BY Parts
<1>2. /\ Submitted(r)
      /\ UNCHANGED <<sources, option, destination, revision, failed, callVars>>
  BY DEF StartRefused, StartOvertaken, planVars
<1>3. /\ starts' = {} /\ guard' = "free" /\ submitting' = FALSE /\ SubmittedAsShown'
      /\ revision # MaxRevision + 1
  BY <1>2, SubmittedDoes
<1>4. View' /\ plan' = plan /\ planState' \in {"idle", "loading", "ready", "error"}
  <2>1. CASE StartRefused(r)
    BY <1>1, <2>1, PlanErrorDoes DEF StartRefused
  <2>2. CASE StartOvertaken(r)
    BY <1>1, <2>2, SameView DEF StartOvertaken, planVars, FormTyped
  <2> QED
    BY <2>1, <2>2
<1>5. FormTyped'
  BY <1>1, <1>2, <1>3, <1>4 DEF FormTyped, callVars
<1>6. Planned' /\ Alone' /\ PreviewIsCurrent'
  BY <1>1, <1>2, <1>3, <1>4
     DEF Planned, Alone, PreviewIsCurrent, Outstanding, callVars
<1> QED
  BY <1>3, <1>4, <1>5, <1>6, Parts

\* Accepted: the form is empty, and a revision that no call was made for.
LEMMA StartAcceptedKeeps ==
  ASSUME IInv, NEW r \in starts, StartAccepted(r)
  PROVE  IInv'
<1>1. View /\ FormTyped /\ Planned /\ Alone /\ PreviewIsCurrent /\ SubmittedAsShown
  BY Parts
<1>2. /\ Submitted(r) /\ sources' = {} /\ destination' = FALSE /\ ForgetPlan
      /\ planState' = "idle" /\ failed' = FALSE /\ revision' = revision + 1
      /\ scheduled' = 0 /\ UNCHANGED <<option, planning>>
  BY DEF StartAccepted
<1>3. /\ starts' = {} /\ guard' = "free" /\ submitting' = FALSE /\ SubmittedAsShown'
      /\ revision # MaxRevision + 1
  BY <1>2, SubmittedDoes
<1>4. View' /\ plan' = NoPlan
  BY <1>2, ForgetPlanDoes
<1>5. /\ revision \in Nat /\ revision' \in 0 .. MaxRevision + 1 /\ 0 \in 0 .. MaxRevision
  BY <1>1, <1>2, <1>3, BoundAssumption DEF FormTyped
<1>6. FormTyped'
  BY <1>1, <1>2, <1>3, <1>5 DEF FormTyped
<1>7. Planned'
  <2>1. \A c \in planning : c.revision \in Nat /\ c.revision <= revision
    BY <1>1 DEF FormTyped, Call, Planned
  <2>2. \A c \in planning' : c.revision <= revision' /\ c.revision # revision'
    BY <2>1, <1>2, <1>5
  <2> QED
    BY <2>2, <1>2 DEF Planned
<1>8. Alone' /\ PreviewIsCurrent'
  BY <1>2, <1>3, <1>4 DEF Alone, PreviewIsCurrent
<1> QED
  BY <1>3, <1>4, <1>6, <1>7, <1>8, Parts

\* Another operation of the window has the guard while no submission has it.
LEMMA OtherKeeps ==
  ASSUME IInv, OtherBegins \/ OtherEnds
  PROVE  IInv'
<1>1. View /\ FormTyped /\ Planned /\ Alone /\ PreviewIsCurrent /\ SubmittedAsShown
  BY Parts
<1>2. /\ UNCHANGED <<formVars, planVars, excluded, viewVars, callVars, starts>>
      /\ \/ guard = "free" /\ guard' = "other"
         \/ guard = "other" /\ guard' = "free"
  BY DEF OtherBegins, OtherEnds
<1>3. View'
  BY <1>1, <1>2, SameView DEF planVars
<1>4. FormTyped'
  BY <1>1, <1>2 DEF FormTyped, formVars, planVars, callVars
<1>5. Planned' /\ Alone' /\ PreviewIsCurrent'
  BY <1>1, <1>2 DEF Planned, Alone, PreviewIsCurrent, Outstanding, formVars, planVars, callVars
<1>6. SubmittedAsShown'
  BY <1>1, <1>2 DEF SubmittedAsShown, formVars
<1> QED
  BY <1>3, <1>4, <1>5, <1>6, Parts

----------------------------------------------------------------------------
(* The specification *)

\* Every step keeps the invariant.
LEMMA StepKeeps == IInv /\ [Next]_vars => IInv'
<1> SUFFICES ASSUME IInv, [Next]_vars PROVE IInv'
  OBVIOUS
<1>1. ASSUME NEW S \in (SUBSET Source) \ {{}}, AddSources(S) \/ RemoveSources(S)
      PROVE  IInv'
  <2>1. option \in Option
    BY Parts DEF FormTyped
  <2> QED
    BY <1>1, <2>1, SourcesKeep
<1>2. ASSUME NEW S \in (SUBSET Source) \ {{}}, NEW o \in Option,
             DropSources(S, o) \/ QuickReview(S, o)
      PROVE  IInv'
  BY <1>2, SourcesKeep
<1>3. CASE ClearSources
  <2>1. View /\ FormTyped
    BY Parts
  <2> QED
    BY <1>3, <2>1, RevisionKeeps DEF ClearSources, Queue, FormTyped
<1>4. ASSUME NEW o \in Option, SetOptions(o)
      PROVE  IInv'
  <2>1. View /\ FormTyped
    BY Parts
  <2> QED
    BY <1>4, <2>1, RevisionKeeps DEF SetOptions, Queue, FormTyped
<1>5. ASSUME NEW o \in Option, ApplyDefaults(o)
      PROVE  IInv'
  BY <1>5, EditsKeep
<1>6. ASSUME NEW d \in BOOLEAN, EditDestination(d)
      PROVE  IInv'
  <2>1. option \in Option
    BY Parts DEF FormTyped
  <2> QED
    BY <1>6, <2>1, EditsKeep
<1>7. ASSUME NEW f \in Path \cup {Root}, Navigate(f)
      PROVE  IInv'
  BY <1>7, NavigateKeeps
<1>8. ASSUME NEW q \in Query \cup {NoQuery}, Search(q)
      PROVE  IInv'
  BY <1>8, SearchKeeps
<1>9. ASSUME NEW S \in Selections, Select(S)
      PROVE  IInv'
  BY <1>9, SelectKeeps
<1>10. ASSUME NEW P \in {{r} : r \in VisibleRows} \cup {{folder}, VisibleRows},
              NEW b \in BOOLEAN, Include(P, b)
       PROVE  IInv'
  BY <1>10, IncludeKeeps
<1>11. ASSUME NEW b \in BOOLEAN, CreateRefused(b) \/ Create(b)
       PROVE  IInv'
  BY <1>11, CreateRefusedKeeps, CreateKeeps
<1>12. CASE OtherBegins \/ OtherEnds
  BY <1>12, OtherKeeps
<1>13. CASE TimerFires
  BY <1>13, TimerFiresKeeps
<1>14. ASSUME NEW r \in planning, PlanAnswered(r)
       PROVE  IInv'
  BY <1>14, PlanAnsweredKeeps
<1>15. ASSUME NEW r \in starts, StartRefused(r) \/ StartAccepted(r) \/ StartOvertaken(r)
       PROVE  IInv'
  BY <1>15, StartEndsKeeps, StartAcceptedKeeps
<1>16. CASE UNCHANGED vars
  <2>1. View /\ FormTyped
    BY Parts
  <2>2. View'
    BY <1>16, <2>1, SameView DEF vars, planVars
  <2> QED
    BY <1>16, <2>1, <2>2, OnlyTheView DEF vars, formVars, planVars, FormTyped
<1>17. CASE User
  BY <1>17, <1>1, <1>2, <1>3, <1>4, <1>5, <1>6, <1>7, <1>8, <1>9, <1>10, <1>11, <1>12
     DEF User
<1>18. CASE Answers
  BY <1>18, <1>14, <1>15 DEF Answers
<1> QED
  BY <1>13, <1>16, <1>17, <1>18 DEF Next

\* The form, its plan, its view and its submissions are consistent in every
\* state, whatever order plans and starts are answered in.
THEOREM Invariant == Spec => []IInv
BY InitIInv, StepKeeps, PTL DEF Spec

\* Every variable has its type: selected rows are paths and exclusions entries.
THEOREM TypeCorrect == Spec => []TypeOK
<1>1. IInv => TypeOK
  BY DEF IInv
<1> QED
  BY <1>1, Invariant, PTL

\* A plan that is shown is of the sources of the form, and of the newest
\* revision once nothing is outstanding and nothing failed: the answers of
\* plan_create that createPlanController accepts are never of another form.
THEOREM PreviewCurrent == Spec => []PreviewIsCurrent
<1>1. IInv => PreviewIsCurrent
  BY DEF IInv
<1> QED
  BY <1>1, Invariant, PTL

\* The folder, the selection and the exclusions are of the plan that is shown,
\* through reconcileViewForPlan and resetPlanState.
THEOREM ViewOfPlan == Spec => []ViewIsOfPlan
<1>1. IInv => ViewIsOfPlan
  BY DEF IInv
<1> QED
  BY <1>1, Invariant, PTL

\* runCreate submits what the form showed, something, and one at a time.
THEOREM SubmitsAsShown == Spec => []SubmittedAsShown
<1>1. IInv => SubmittedAsShown
  BY DEF IInv
<1> QED
  BY <1>1, Invariant, PTL

=============================================================================
