------------------------ MODULE ArchiveBrowseProofs ------------------------
(***************************************************************************)
(* Proofs about ArchiveBrowse, for any archives, folders, page size and    *)
(* number of sessions.  Sessions are accounted for because one load at a   *)
(* time is current, which holds the active session or waits for its own    *)
(* (Turns), and every command on its way has a load of its own (Commands). *)
(* A settled page is whole because every request that can still be         *)
(* accepted was made after the archive was indexed (WholePages).           *)
(***************************************************************************)
EXTENDS ArchiveBrowse, SequenceTheorems, FiniteSetTheorems, TLAPS

(* Types: those of TypeOK, of the requests and of the active session *)

Cursor == [revision : Nat, offset : Nat]

SessionRecord ==
  [status : Status, archive : Archives, revision : Nat, counted : Nat, inserted : Nat]

CallRecord ==
  [kind : {"start", "close"}, load : Load \cup {0}, archive : Archives,
   session : Session \cup {0}]

LoadRecord ==
  [pc : {"idle", "closing", "starting", "waiting", "paging", "final", "retrying"},
   archive : Archives, folder : Folder, preserve : BOOLEAN, current : BOOLEAN,
   session : Session \cup {0}, revision : Nat, counted : Nat]

ActiveRecord ==
  [session : Session \cup {0}, folder : Folder, search : BOOLEAN,
   cursor : Cursor, next : Cursor, previous : Seq(Cursor), number : Nat \ {0}]

RequestRecord ==
  [load : Load \cup {0}, latest : BOOLEAN, current : BOOLEAN, always : BOOLEAN,
   session : Session, folder : Folder, search : BOOLEAN, cursor : Cursor,
   number : Nat \ {0}, previous : Seq(Cursor),
   stage : {"sent", "read", "answered", "refused"}, revision : Nat,
   items : SUBSET Nat, count : Nat, next : Cursor, error : {None} \cup Failures]

WorkspaceRecord ==
  [archive : Archives, browse : {"idle", "loading", "loaded", "empty", "error"},
   view : Folder, shown : Page]

----------------------------------------------------------------------------
(* The inductive invariant, of sessions ss, commands cs, loads ls, an active *)
(* session ac, requests rq and a workspace ws: a step often makes one change *)
(* after the other, each of which keeps it                                   *)

Typed(ss, cs, ls, ac, rq, ws) ==
  /\ ss \in [Session -> SessionRecord]
  /\ cs \in Seq(CallRecord)
  /\ ls \in [Load -> LoadRecord]
  /\ ac \in ActiveRecord
  /\ rq \subseteq RequestRecord
  /\ ws \in WorkspaceRecord

\* A page and those before it begin where their numbers say.
Numbered(p) ==
  /\ p.number = Len(p.previous) + 1
  /\ p.cursor.offset = (p.number - 1) * PageLimit
  /\ p.next = NoCursor \/ p.next.offset = p.number * PageLimit
  /\ \A n \in 1 .. Len(p.previous) : p.previous[n].offset = (n - 1) * PageLimit

AllNumbered(ac, rq) == Numbered(ac) /\ \A q \in rq : Numbered(q)

Open(r) == r.status \notin {"absent", "closed"}

\* A worker has not entered more than there is, and all of it when it is done.
Indexed(ss) ==
  \A s \in Session :
    /\ Open(ss[s]) => /\ ss[s].archive \in Archive
                      /\ ss[s].inserted <= Len(Listing[ss[s].archive])
    /\ ss[s].status = "ready" => ss[s].inserted = Len(Listing[ss[s].archive])

\* The load of a command waits for it, and a close is not of the active session.
Awaited(c, ss, ls, ac) ==
  /\ c.kind = "start" => /\ c.load # 0 /\ c.session = 0 /\ c.archive \in Archive
                         /\ ls[c.load].pc = "starting"
  /\ c.kind = "close" => /\ c.session # 0 /\ c.session # ac.session
                         /\ ss[c.session].status # "absent"
                         /\ c.load # 0 => ls[c.load].pc \in {"closing", "retrying"}

\* Each load waits for one command.
OneEach(cs) ==
  \A i, j \in 1 .. Len(cs) : i # j /\ cs[i].load = cs[j].load => cs[i].load = 0

Commands(ss, cs, ls, ac) ==
  OneEach(cs) /\ \A i \in 1 .. Len(cs) : Awaited(cs[i], ss, ls, ac)

Following == {"waiting", "paging", "final"}

\* One load is current. It has the active session, or nobody has one.
Turn(r, ss, ac) ==
  /\ r.pc # "idle" => r.archive \in Archive
  /\ r.pc \in Following => r.session # 0
  /\ r.current =>
       /\ r.pc # "idle"
       /\ IF r.pc \in Following THEN ac.session = r.session ELSE ac.session = 0
       /\ r.pc = "final" => ss[r.session].status = "ready"

Turns(ss, ls, ac) ==
  /\ \A l, m \in Load : ls[l].current /\ ls[m].current => l = m
  /\ \A l \in Load : Turn(ls[l], ss, ac)
  /\ ac.session # 0 =>
       /\ Open(ss[ac.session])
       /\ ss[ac.session].status = "indexing" =>
            \E l \in Load : ls[l].current /\ ls[l].pc \in {"waiting", "paging"}

\* A load asks for the first page of its folder, which is only refused when the
\* session failed or is gone.
AskedBy(q, r, ss) ==
  /\ r.pc = "paging" \/ (r.pc = "final" /\ q.always)
  /\ q.current => r.current
  /\ q.session = r.session
  /\ q.cursor = NoCursor /\ ~q.search
  /\ q.stage = "refused" => ss[q.session].status \notin {"indexing", "ready"}

\* One page at a time.
Asked(ss, ls, rq) ==
  /\ \A q \in rq :
       /\ ss[q.session].status # "absent"
       /\ IF q.load = 0 THEN q.always ELSE AskedBy(q, ls[q.load], ss)
  /\ \A q, r \in rq : q.load # 0 /\ q.load = r.load => q = r

Accounted(ss, cs, ac) ==
  \A s \in Session : Open(ss[s]) =>
    ac.session = s \/ \E i \in 1 .. Len(cs) : cs[i].session = s

\* The archive is indexed and its load has asked for the final page, or is over.
Past(ss, ls, ac) ==
  /\ ac.session # 0 /\ ss[ac.session].status = "ready"
  /\ \A l \in Load : ls[l].current => ls[l].pc = "final"

\* A cursor, and a page whose cursors, a session at that revision still accepts.
Good(c, revision) == c = NoCursor \/ c.revision = revision

GoodPlace(p, revision) ==
  /\ Good(p.cursor, revision) /\ Good(p.next, revision)
  /\ \A n \in 1 .. Len(p.previous) : Good(p.previous[n], revision)

\* A page of the whole listing of an archive.
Whole(a, p) ==
  LET whole == Found(a, Len(Listing[a]), p.folder, p.search)
  IN  p.items = Slice(whole, (p.number - 1) * PageLimit) /\ p.count = Cardinality(whole)

Acceptable(q, ac) == q.latest /\ q.current /\ ac.session = q.session

\* A request for a page of the indexed session r is answered, with all there is.
WillBeWhole(q, r) ==
  /\ GoodPlace(q, r.revision) /\ q.stage # "refused"
  /\ q.stage = "read" => q.revision = r.revision
  /\ q.stage = "answered" => Whole(r.archive, q)

ShownWhole(ws, r) ==
  ws.archive = r.archive /\ ws.shown.folder = ws.view /\ Whole(r.archive, ws.shown)

\* Then what can still be accepted will be whole, and without such a request the
\* rows are.
WholePages(ss, ls, ac, rq, ws) ==
  Past(ss, ls, ac) =>
    /\ GoodPlace(ac, ss[ac.session].revision)
    /\ \A q \in rq : Acceptable(q, ac) => WillBeWhole(q, ss[ac.session])
    /\ ws.browse = "loaded" /\ (\A q \in rq : ~Acceptable(q, ac)) =>
         ShownWhole(ws, ss[ac.session])

Consistent(ss, cs, ls, ac, rq, ws) ==
  /\ Typed(ss, cs, ls, ac, rq, ws)
  /\ AllNumbered(ac, rq) /\ Indexed(ss)
  /\ Commands(ss, cs, ls, ac) /\ Turns(ss, ls, ac) /\ Asked(ss, ls, rq)
  /\ Accounted(ss, cs, ac)
  /\ WholePages(ss, ls, ac, rq, ws)

IInv ==
  /\ Consistent(sessions, calls, loads, active, requests, workspace)
  /\ actions \in [opens : 0..MaxOpens, pages : 0..MaxActions]

----------------------------------------------------------------------------
(* Pages *)

\* Sessions and loads are numbered from one.
LEMMA NotZero == 0 \notin Session /\ 0 \notin Load /\ MaxOpens \in Nat
BY LimitAssumption DEF Session, Load

\* A listing of n entries is a finite set of places, and so is a page of it.
LEMMA FoundTyped ==
  ASSUME NEW a, NEW n \in Nat, NEW f, NEW search, NEW offset
  PROVE  /\ Cardinality(Found(a, n, f, search)) \in Nat
         /\ Slice(Found(a, n, f, search), offset) \in SUBSET Nat
<1>1. IsFiniteSet(1..n)
  BY FS_Interval
<1>2. Found(a, n, f, search) \in SUBSET (1..n)
  BY DEF Found
<1>3. Cardinality(Found(a, n, f, search)) \in Nat
  BY <1>1, <1>2, FS_Subset, FS_CardinalityType
<1>4. Slice(Found(a, n, f, search), offset) \subseteq Found(a, n, f, search)
  BY DEF Slice
<1>5. 1..n \subseteq Nat
  OBVIOUS
<1> QED
  BY <1>2, <1>3, <1>4, <1>5

\* Where pages begin: the one after page n, and page n.
LEMMA PageBegins ==
  ASSUME NEW n \in Nat
  PROVE  /\ (n - 1) * PageLimit + PageLimit = n * PageLimit
         /\ ((n + 1) - 1) * PageLimit = n * PageLimit
         /\ (1 - 1) * PageLimit = 0
         /\ n * PageLimit \in Nat
BY LimitAssumption

\* NoCursor is a cursor, NoActive no session, NoLoad no turn.
LEMMA NothingTyped ==
  /\ NoCursor \in Cursor /\ NoCursor.offset = 0
  /\ NoActive \in ActiveRecord /\ NoActive.session = 0 /\ Numbered(NoActive)
  /\ NoLoad \in LoadRecord /\ NoLoad.pc = "idle" /\ NoLoad.current = FALSE
  /\ NoSession \in SessionRecord /\ NoSession.status = "absent"
  /\ NoPage \in Page
<1>1. NoCursor \in Cursor /\ NoCursor.offset = 0
  BY DEF NoCursor, Cursor
<1>2. << >> \in Seq(Cursor) /\ Len(<< >>) = 0
  BY EmptySeq
<1>3. NoActive \in ActiveRecord /\ NoActive.session = 0
  BY <1>1, <1>2, ListingAssumption DEF NoActive, ActiveRecord
<1>4. Numbered(NoActive)
  BY <1>1, <1>2, PageBegins DEF Numbered, NoActive
<1>5. NoLoad \in LoadRecord /\ NoLoad.pc = "idle" /\ NoLoad.current = FALSE
  BY ListingAssumption DEF NoLoad, LoadRecord, Archives
<1>6. NoSession \in SessionRecord /\ NoSession.status = "absent"
  BY DEF NoSession, SessionRecord, Archives, Status
<1>7. NoPage \in Page
  BY ListingAssumption DEF NoPage, Page
<1> QED
  BY <1>1, <1>3, <1>4, <1>5, <1>6, <1>7

----------------------------------------------------------------------------
(* Commands *)

NoneFor(l, cs) == \A i \in 1 .. Len(cs) : cs[i].load # l

\* Without the first command the others still have their loads, and what waited
\* for it waits for no other.
LEMMA TailCommands ==
  ASSUME NEW ss, NEW cs \in Seq(CallRecord), NEW ls, NEW ac,
         Commands(ss, cs, ls, ac), cs # <<>>
  PROVE  /\ Tail(cs) \in Seq(CallRecord) /\ Commands(ss, Tail(cs), ls, ac)
         /\ Head(cs) \in CallRecord /\ Awaited(Head(cs), ss, ls, ac)
         /\ Head(cs).load # 0 => NoneFor(Head(cs).load, Tail(cs))
<1>1. /\ Head(cs) \in CallRecord /\ Tail(cs) \in Seq(CallRecord)
      /\ Len(Tail(cs)) = Len(cs) - 1
      /\ \A i \in 1 .. Len(Tail(cs)) : Tail(cs)[i] = cs[i + 1]
  BY HeadTailProperties
<1>2. Len(cs) \in Nat \ {0}
  BY EmptySeq
<1>3. \A i \in 1 .. Len(Tail(cs)) : i + 1 \in 1 .. Len(cs) /\ i + 1 # 1
  BY <1>1, <1>2
<1>4. Head(cs) = cs[1] /\ 1 \in 1 .. Len(cs)
  BY <1>2
<1>5. OneEach(Tail(cs))
  BY <1>1, <1>3 DEF Commands, OneEach
<1>6. \A i \in 1 .. Len(Tail(cs)) : Awaited(Tail(cs)[i], ss, ls, ac)
  BY <1>1, <1>3 DEF Commands
<1>7. Head(cs).load # 0 => NoneFor(Head(cs).load, Tail(cs))
  BY <1>1, <1>3, <1>4 DEF NoneFor, Commands, OneEach
<1>8. Awaited(Head(cs), ss, ls, ac)
  BY <1>4 DEF Commands
<1> QED
  BY <1>1, <1>5, <1>6, <1>7, <1>8 DEF Commands

\* A command is added for a load that waits for no other.
LEMMA AppendCommand ==
  ASSUME NEW ss, NEW cs \in Seq(CallRecord), NEW ls, NEW ac, NEW c \in CallRecord,
         Commands(ss, cs, ls, ac), Awaited(c, ss, ls, ac),
         c.load # 0 => NoneFor(c.load, cs)
  PROVE  /\ Append(cs, c) \in Seq(CallRecord) /\ Commands(ss, Append(cs, c), ls, ac)
         /\ \A l : l # c.load /\ NoneFor(l, cs) => NoneFor(l, Append(cs, c))
<1> DEFINE more == Append(cs, c)
<1>1. /\ more \in Seq(CallRecord) /\ Len(more) = Len(cs) + 1 /\ more[Len(cs) + 1] = c
      /\ \A i \in 1 .. Len(cs) : more[i] = cs[i]
  BY AppendProperties
<1>2. Len(cs) \in Nat
  BY LenProperties
<1>3. \A i \in 1 .. Len(more) : i \in 1 .. Len(cs) \/ i = Len(cs) + 1
  BY <1>1, <1>2
<1> HIDE DEF more
<1>4. \A i \in 1 .. Len(more) : Awaited(more[i], ss, ls, ac)
  BY <1>1, <1>3 DEF Commands
<1>5. OneEach(more)
  <2> SUFFICES ASSUME NEW i \in 1 .. Len(more), NEW j \in 1 .. Len(more),
                      i # j, more[i].load = more[j].load, more[i].load # 0
               PROVE  FALSE
    BY DEF OneEach
  <2>1. CASE i \in 1 .. Len(cs) /\ j \in 1 .. Len(cs)
    BY <2>1, <1>1 DEF Commands, OneEach
  <2>2. CASE i \in 1 .. Len(cs) /\ j = Len(cs) + 1
    BY <2>2, <1>1 DEF NoneFor
  <2>3. CASE i = Len(cs) + 1 /\ j \in 1 .. Len(cs)
    BY <2>3, <1>1 DEF NoneFor
  <2> QED
    BY <2>1, <2>2, <2>3, <1>3
<1>6. \A l : l # c.load /\ NoneFor(l, cs) => NoneFor(l, more)
  BY <1>1, <1>3 DEF NoneFor
<1> QED
  BY <1>1, <1>4, <1>5, <1>6 DEF Commands, more

\* The commands stay awaited while their loads and sessions do.
LEMMA SameCommands ==
  ASSUME NEW ss, NEW cs \in Seq(CallRecord), NEW ls, NEW ac, NEW ss2, NEW ls2, NEW ac2,
         Commands(ss, cs, ls, ac),
         \A l \in Load : ls2[l].pc = ls[l].pc \/ NoneFor(l, cs),
         \A s \in Session : ss[s].status # "absent" => ss2[s].status # "absent",
         \/ ac2.session \in {0, ac.session}
         \/ ss[ac2.session].status = "absent"
  PROVE  Commands(ss2, cs, ls2, ac2)
<1>1. \A i \in 1 .. Len(cs) : cs[i] \in CallRecord
  BY ElementOfSeq
<1>2. ASSUME NEW i \in 1 .. Len(cs)
      PROVE  Awaited(cs[i], ss2, ls2, ac2)
  <2>1. Awaited(cs[i], ss, ls, ac)
    BY DEF Commands
  <2>2. cs[i].load # 0 => ls2[cs[i].load].pc = ls[cs[i].load].pc
    BY <1>1 DEF NoneFor, CallRecord
  <2>3. cs[i].session # 0 => cs[i].session \in Session
    BY <1>1 DEF CallRecord
  <2>4. CASE cs[i].kind = "start"
    BY <2>1, <2>2, <2>4 DEF Awaited
  <2>5. CASE cs[i].kind = "close"
    BY <2>1, <2>2, <2>3, <2>5 DEF Awaited
  <2> QED
    BY <2>4, <2>5, <1>1 DEF CallRecord
<1> QED
  BY <1>2 DEF Commands

\* The loads that wait for a command stay where they are.
StillWaiting(ls, ls2, cs) ==
  \A l \in Load : ls2[l].pc = ls[l].pc \/ NoneFor(l, cs)

LEMMA SameCommandsOfLoads ==
  ASSUME NEW ss, NEW cs \in Seq(CallRecord), NEW ls, NEW ac, NEW ls2,
         Commands(ss, cs, ls, ac), StillWaiting(ls, ls2, cs)
  PROVE  Commands(ss, cs, ls2, ac)
<1>1. \A l \in Load : ls2[l].pc = ls[l].pc \/ NoneFor(l, cs)
  BY DEF StillWaiting
<1>2. \A s \in Session : ss[s].status # "absent" => ss[s].status # "absent"
  OBVIOUS
<1>3. ac.session \in {0, ac.session}
  OBVIOUS
<1> QED
  BY <1>1, <1>2, <1>3, SameCommands

\* Whoever is accounted for by the commands is so with one command more.
LEMMA AppendAccounts ==
  ASSUME NEW ss, NEW cs \in Seq(CallRecord), NEW c \in CallRecord, NEW ac, NEW ac2,
         Accounted(ss, cs, ac),
         ac2.session = ac.session \/ c.session = ac.session \/ ac.session = 0
  PROVE  Accounted(ss, Append(cs, c), ac2)
<1> DEFINE more == Append(cs, c)
<1>1. /\ Len(more) = Len(cs) + 1 /\ more[Len(cs) + 1] = c
      /\ \A i \in 1 .. Len(cs) : more[i] = cs[i]
  BY AppendProperties
<1>2. /\ Len(cs) \in Nat /\ Len(cs) + 1 \in 1 .. Len(more)
      /\ \A i \in 1 .. Len(cs) : i \in 1 .. Len(more)
  BY <1>1, LenProperties
<1> HIDE DEF more
<1>3. Accounted(ss, more, ac2)
  <2> SUFFICES ASSUME NEW s \in Session, Open(ss[s]), ac2.session # s
               PROVE  \E i \in 1 .. Len(more) : more[i].session = s
    BY DEF Accounted
  <2>1. CASE ac.session = s
    BY <2>1, <1>1, <1>2, NotZero
  <2>2. ASSUME NEW i \in 1 .. Len(cs), cs[i].session = s
        PROVE  \E j \in 1 .. Len(more) : more[j].session = s
    BY <2>2, <1>1, <1>2
  <2> QED
    BY <2>1, <2>2 DEF Accounted
<1> QED
  BY <1>3 DEF more

\* Without the first command, whoever is not its session is accounted for.
LEMMA TailAccounts ==
  ASSUME NEW ss, NEW cs \in Seq(CallRecord), NEW ac, NEW ss2, cs # <<>>,
         Accounted(ss, cs, ac),
         \A s \in Session : Open(ss2[s]) => Open(ss[s]) /\ s # Head(cs).session
  PROVE  Accounted(ss2, Tail(cs), ac)
<1>1. /\ Len(Tail(cs)) = Len(cs) - 1 /\ Head(cs) = cs[1] /\ Len(cs) \in Nat
      /\ \A i \in 1 .. Len(Tail(cs)) : Tail(cs)[i] = cs[i + 1]
  BY HeadTailProperties, LenProperties
<1>2. ASSUME NEW s \in Session, Open(ss2[s]), NEW i \in 1 .. Len(cs), cs[i].session = s
      PROVE  \E j \in 1 .. Len(Tail(cs)) : Tail(cs)[j].session = s
  <2>1. i # 1
    BY <1>1, <1>2
  <2>2. i - 1 \in 1 .. Len(Tail(cs)) /\ Tail(cs)[i - 1] = cs[i]
    BY <1>1, <2>1
  <2> QED
    BY <1>2, <2>2
<1> QED
  BY <1>2 DEF Accounted

----------------------------------------------------------------------------
(* Loads *)

NoneOf(l, rq) == \A q \in rq : q.load # l

\* A request as a newer generation leaves it.
Overtaken(q) == [q EXCEPT !.current = FALSE]

\* What a new turn leaves of the requests: none is current any more, unless the
\* load of the turn was the current one before.
Left(rq, current) == {{Overtaken(q) : q \in rq}} \cup (IF current THEN {rq} ELSE {})

\* A load that nothing is on its way for becomes the current one, and its
\* command goes out: a close of the active session, or its start.
LEMMA NewTurn ==
  ASSUME NEW ss, NEW cs, NEW ls, NEW ac, NEW rq, NEW ws,
         Consistent(ss, cs, ls, ac, rq, ws),
         NEW l \in Load, NoneFor(l, cs), NoneOf(l, rq),
         NEW c \in CallRecord, c.load = l,
         NEW ls2 \in [Load -> LoadRecord],
         \A m \in Load \ {l} :
           /\ ls2[m].pc = ls[m].pc /\ ls2[m].archive = ls[m].archive
           /\ ls2[m].session = ls[m].session /\ ~ls2[m].current,
         ls2[l].archive \in Archive,
         \/ /\ c.kind = "start" /\ c.session = 0 /\ c.archive \in Archive
            /\ ac.session = 0 /\ ls2[l].pc = "starting"
         \/ /\ c.kind = "close" /\ c.session = ac.session
            /\ ac.session # 0 /\ ls2[l].pc \in {"closing", "retrying"},
         NEW rq2 \in Left(rq, ls[l].current),
         NEW ws2 \in WorkspaceRecord
  PROVE  Consistent(ss, Append(cs, c), ls2, NoActive, rq2, ws2)
<1>1. /\ Typed(ss, cs, ls, ac, rq, ws) /\ AllNumbered(ac, rq) /\ Indexed(ss)
      /\ Commands(ss, cs, ls, ac) /\ Turns(ss, ls, ac) /\ Asked(ss, ls, rq)
      /\ Accounted(ss, cs, ac)
  BY DEF Consistent
<1>2. cs \in Seq(CallRecord) /\ rq \subseteq RequestRecord /\ ac \in ActiveRecord
  BY <1>1 DEF Typed
<1> rq2 \in SUBSET RequestRecord /\ \A q \in rq2 : \E p \in rq :
      q = Overtaken(p) \/ (q = p /\ rq2 = rq /\ ls[l].current)
  <2>1. ASSUME NEW q \in rq PROVE Overtaken(q) \in RequestRecord
    <3>1. q \in RequestRecord
      BY <1>2
    <3> QED
      BY <3>1 DEF Overtaken, RequestRecord
  <2>2. rq2 = {Overtaken(q) : q \in rq} \/ (rq2 = rq /\ ls[l].current)
    BY DEF Left
  <2> QED
    BY <1>2, <2>1, <2>2
<1>3. NoActive \in ActiveRecord /\ NoActive.session = 0 /\ Numbered(NoActive)
  BY NothingTyped
<1>4. Commands(ss, cs, ls2, NoActive)
  BY <1>1, <1>2, <1>3, SameCommands
<1>5. Awaited(c, ss, ls2, NoActive)
  <2>1. c.kind = "close" => ss[c.session].status # "absent"
    BY <1>1 DEF Turns, Open
  <2>2. CASE c.kind = "start"
    BY <2>2, NotZero DEF Awaited
  <2>3. CASE c.kind = "close"
    BY <2>1, <2>3, <1>3 DEF Awaited
  <2> QED
    BY <2>2, <2>3 DEF CallRecord
<1>6. Append(cs, c) \in Seq(CallRecord) /\ Commands(ss, Append(cs, c), ls2, NoActive)
  BY <1>2, <1>4, <1>5, AppendCommand
<1>7. Accounted(ss, Append(cs, c), NoActive)
  BY <1>1, <1>2, <1>3, AppendAccounts
<1>8. AllNumbered(NoActive, rq2)
  <2> SUFFICES ASSUME NEW q \in rq2 PROVE Numbered(q)
    BY <1>3 DEF AllNumbered
  <2>1. PICK p \in rq : q = Overtaken(p) \/ q = p
    OBVIOUS
  <2>2. Numbered(p) /\ p \in RequestRecord
    BY <1>1, <1>2 DEF AllNumbered
  <2>3. /\ q.number = p.number /\ q.previous = p.previous /\ q.cursor = p.cursor
        /\ q.next = p.next
    BY <2>1, <2>2 DEF RequestRecord, Overtaken
  <2> QED
    BY <2>2, <2>3 DEF Numbered
<1>9. Turns(ss, ls2, NoActive)
  <2>1. \A m \in Load : ls2[m].current => m = l
    OBVIOUS
  <2>2. \A m \in Load \ {l} : Turn(ls2[m], ss, NoActive)
    BY <1>1 DEF Turns, Turn
  <2>3. Turn(ls2[l], ss, NoActive)
    BY <1>3 DEF Turn, Following
  <2> QED
    BY <2>1, <2>2, <2>3, <1>3 DEF Turns
<1>10. Asked(ss, ls2, rq2)
  <2>1. ASSUME NEW q \in rq2
        PROVE  \E p \in rq :
                 /\ p \in RequestRecord /\ q.load = p.load /\ q.session = p.session
                 /\ q.always = p.always /\ q.cursor = p.cursor /\ q.search = p.search
                 /\ q.stage = p.stage /\ (q.current => q = p /\ ls[l].current)
                 /\ (q = Overtaken(p) \/ (q = p /\ rq2 = rq))
    <3>1. PICK p \in rq : \/ q = Overtaken(p)
                          \/ q = p /\ rq2 = rq /\ ls[l].current
      OBVIOUS
    <3>2. p \in RequestRecord
      BY <1>2
    <3>3. /\ q.load = p.load /\ q.session = p.session
          /\ q.always = p.always /\ q.cursor = p.cursor /\ q.search = p.search
          /\ q.stage = p.stage /\ (q.current => q = p /\ ls[l].current)
      BY <3>1, <3>2 DEF RequestRecord, Overtaken
    <3>4. q = Overtaken(p) \/ (q = p /\ rq2 = rq)
      BY <3>1
    <3> QED
      BY <3>2, <3>3, <3>4, Zenon
  <2>2. ASSUME NEW q \in rq2
        PROVE  /\ ss[q.session].status # "absent"
               /\ IF q.load = 0 THEN q.always ELSE AskedBy(q, ls2[q.load], ss)
    <3>1. PICK p \in rq :
                 /\ p \in RequestRecord /\ q.load = p.load /\ q.session = p.session
                 /\ q.always = p.always /\ q.cursor = p.cursor /\ q.search = p.search
                 /\ q.stage = p.stage /\ (q.current => q = p /\ ls[l].current)
      BY <2>1
    <3>2. /\ ss[p.session].status # "absent"
          /\ IF p.load = 0 THEN p.always ELSE AskedBy(p, ls[p.load], ss)
      BY <1>1 DEF Asked
    <3>3. p.load # 0 => p.load \in Load \ {l}
      BY <3>1 DEF NoneOf, RequestRecord
    <3>4. p.load # 0 => ~q.current
      BY <3>1, <3>2, <3>3, <1>1 DEF AskedBy, Turns
    <3> QED
      BY <3>1, <3>2, <3>3, <3>4 DEF AskedBy
  <2>3. ASSUME NEW q \in rq2, NEW r \in rq2, q.load # 0, q.load = r.load
        PROVE  q = r
    <3>1. PICK p \in rq : /\ q.load = p.load
                          /\ (q = Overtaken(p) \/ (q = p /\ rq2 = rq))
      BY <2>1
    <3>2. PICK o \in rq : /\ r.load = o.load
                          /\ (r = Overtaken(o) \/ (r = o /\ rq2 = rq))
      BY <2>1
    <3>3. p = o
      <4>1. p.load # 0 /\ p.load = o.load
        BY <2>3, <3>1, <3>2
      <4> QED
        BY <4>1, <1>1 DEF Asked
    <3>4. CASE rq2 = rq
      BY <2>3, <3>4, <1>1 DEF Asked
    <3> QED
      BY <3>1, <3>2, <3>3, <3>4
  <2> QED
    BY <2>2, <2>3 DEF Asked
<1>11. WholePages(ss, ls2, NoActive, rq2, ws2)
  BY <1>3 DEF WholePages, Past
<1> QED
  BY <1>1, <1>3, <1>6, <1>7, <1>8, <1>9, <1>10, <1>11 DEF Consistent, Typed

\* Requests stay asked by their loads, and refused ones rightly so.
LEMMA SameAsked ==
  ASSUME NEW ss, NEW ls, NEW rq \in SUBSET RequestRecord, NEW ss2, NEW ls2,
         NEW rq2 \in SUBSET rq,
         Asked(ss, ls, rq),
         \A q \in rq2 : q.load # 0 =>
           /\ ls2[q.load].pc = ls[q.load].pc /\ ls2[q.load].session = ls[q.load].session
           /\ ls2[q.load].current = ls[q.load].current,
         \A s \in Session : ss[s].status # "absent" =>
           /\ ss2[s].status # "absent"
           /\ ss[s].status \notin {"indexing", "ready"} =>
                ss2[s].status \notin {"indexing", "ready"}
  PROVE  Asked(ss2, ls2, rq2)
<1>1. ASSUME NEW q \in rq2
      PROVE  /\ ss2[q.session].status # "absent"
             /\ IF q.load = 0 THEN q.always ELSE AskedBy(q, ls2[q.load], ss2)
  <2>1. /\ ss[q.session].status # "absent"
        /\ IF q.load = 0 THEN q.always ELSE AskedBy(q, ls[q.load], ss)
    BY DEF Asked
  <2>2. q.session \in Session
    BY DEF RequestRecord
  <2> QED
    BY <2>1, <2>2 DEF AskedBy
<1> QED
  BY <1>1 DEF Asked

\* What was whole stays so, as long as no request of it is lost.
LEMMA SameWhole ==
  ASSUME NEW ss, NEW ls, NEW ac, NEW rq, NEW ws,
         NEW ss2, NEW ls2, NEW rq2 \in SUBSET rq, NEW ws2,
         WholePages(ss, ls, ac, rq, ws),
         Past(ss2, ls2, ac) =>
           /\ Past(ss, ls, ac) /\ ss2[ac.session] = ss[ac.session]
           /\ \A q \in rq \ rq2 : ~Acceptable(q, ac),
         ws2 = ws \/ ws2.browse # "loaded"
  PROVE  WholePages(ss2, ls2, ac, rq2, ws2)
<1> SUFFICES ASSUME Past(ss2, ls2, ac)
             PROVE  WholePages(ss2, ls2, ac, rq2, ws2)!2
  BY DEF WholePages
<1>1. /\ GoodPlace(ac, ss2[ac.session].revision)
      /\ \A q \in rq2 : Acceptable(q, ac) => WillBeWhole(q, ss2[ac.session])
  BY DEF WholePages
<1>2. ws2.browse = "loaded" /\ (\A q \in rq2 : ~Acceptable(q, ac)) =>
        ShownWhole(ws2, ss2[ac.session])
  BY DEF WholePages
<1> QED
  BY <1>1, <1>2

\* A load may end that is not the current one, or whose session is over or has
\* its final page.
LEMMA LoadEnds ==
  ASSUME NEW ss, NEW cs, NEW ls, NEW ac, NEW rq, NEW ws,
         Consistent(ss, cs, ls, ac, rq, ws),
         NEW l \in Load, NoneFor(l, cs), NoneOf(l, rq),
         ls[l].current /\ ac.session # 0 =>
           /\ ss[ac.session].status # "indexing"
           /\ ss[ac.session].status = "ready" => ls[l].pc = "final",
         NEW ws2 \in WorkspaceRecord, ws2 = ws \/ ws2.browse # "loaded"
  PROVE  Consistent(ss, cs, [ls EXCEPT ![l] = NoLoad], ac, rq, ws2)
<1> DEFINE ls2 == [ls EXCEPT ![l] = NoLoad]
<1>1. /\ Typed(ss, cs, ls, ac, rq, ws) /\ AllNumbered(ac, rq) /\ Indexed(ss)
      /\ Commands(ss, cs, ls, ac) /\ Turns(ss, ls, ac) /\ Asked(ss, ls, rq)
      /\ Accounted(ss, cs, ac) /\ WholePages(ss, ls, ac, rq, ws)
  BY DEF Consistent
<1>2. cs \in Seq(CallRecord) /\ rq \in SUBSET RequestRecord /\ ac \in ActiveRecord
  BY <1>1 DEF Typed
<1>3. /\ ls2 \in [Load -> LoadRecord] /\ ls2[l] = NoLoad
      /\ \A m \in Load \ {l} : ls2[m] = ls[m]
  BY <1>1, NothingTyped DEF Typed
<1> HIDE DEF ls2
<1>4. Commands(ss, cs, ls2, ac)
  BY <1>1, <1>2, <1>3, SameCommands
<1>5. Turns(ss, ls2, ac)
  <2>1. \A m \in Load : ls2[m].current => m # l /\ ls[m].current
    BY <1>3, NothingTyped
  <2>2. \A m \in Load : Turn(ls2[m], ss, ac)
    BY <1>1, <1>3, NothingTyped DEF Turns, Turn, Following
  <2>3. ASSUME ac.session # 0, ss[ac.session].status = "indexing"
        PROVE  \E m \in Load : ls2[m].current /\ ls2[m].pc \in {"waiting", "paging"}
    <3>1. PICK m \in Load : ls[m].current /\ ls[m].pc \in {"waiting", "paging"}
      BY <1>1, <2>3 DEF Turns
    <3>2. m # l
      BY <2>3, <3>1
    <3> QED
      BY <3>1, <3>2, <1>3
  <2> QED
    BY <1>1, <1>3, <2>1, <2>2, <2>3 DEF Turns
<1>6. Asked(ss, ls2, rq)
  <2>1. \A q \in rq : q.load # 0 => q.load \in Load \ {l}
    BY <1>2 DEF NoneOf, RequestRecord
  <2>2. \A q \in rq : q.load # 0 => ls2[q.load] = ls[q.load]
    BY <1>3, <2>1
  <2> QED
    BY <1>1, <1>2, <2>2, SameAsked
<1>7. WholePages(ss, ls2, ac, rq, ws2)
  <2>1. ASSUME Past(ss, ls2, ac) PROVE Past(ss, ls, ac)
    BY <1>3, <2>1 DEF Past
  <2> QED
    BY <1>1, <2>1, SameWhole
<1> QED
  BY <1>1, <1>3, <1>4, <1>5, <1>6, <1>7 DEF Consistent, Typed, ls2

\* A load that nothing is left to close for sends its start.
LEMMA LoadStarts ==
  ASSUME NEW ss, NEW cs, NEW ls, NEW ac, NEW rq, NEW ws,
         Consistent(ss, cs, ls, ac, rq, ws),
         NEW l \in Load, NoneFor(l, cs), NoneOf(l, rq), ls[l].pc = "closing",
         NEW c \in CallRecord, c.load = l, c.kind = "start", c.session = 0,
         c.archive = ls[l].archive,
         NEW ls2 \in [Load -> LoadRecord],
         \A m \in Load \ {l} : ls2[m] = ls[m],
         ls2[l].pc = "starting", ls2[l].current = ls[l].current,
         ls2[l].archive = ls[l].archive,
         NEW ws2 \in WorkspaceRecord, ws2.browse # "loaded"
  PROVE  Consistent(ss, Append(cs, c), ls2, ac, rq, ws2)
<1>1. /\ Typed(ss, cs, ls, ac, rq, ws) /\ AllNumbered(ac, rq) /\ Indexed(ss)
      /\ Commands(ss, cs, ls, ac) /\ Turns(ss, ls, ac) /\ Asked(ss, ls, rq)
      /\ Accounted(ss, cs, ac) /\ WholePages(ss, ls, ac, rq, ws)
  BY DEF Consistent
<1>2. cs \in Seq(CallRecord) /\ rq \in SUBSET RequestRecord /\ ac \in ActiveRecord
  BY <1>1 DEF Typed
<1>3. Commands(ss, cs, ls2, ac)
  <2>1. \A m \in Load : ls2[m].pc = ls[m].pc \/ NoneFor(m, cs)
    OBVIOUS
  <2> QED
    BY <1>1, <1>2, <2>1, SameCommands
<1>4. ls[l].archive \in Archive
  BY <1>1 DEF Turns, Turn
<1>5. Awaited(c, ss, ls2, ac)
  BY <1>4, NotZero DEF Awaited
<1>6. Append(cs, c) \in Seq(CallRecord) /\ Commands(ss, Append(cs, c), ls2, ac)
  BY <1>2, <1>3, <1>5, AppendCommand
<1>7. Accounted(ss, Append(cs, c), ac)
  BY <1>1, <1>2, AppendAccounts
<1>8. Turns(ss, ls2, ac)
  <2>1. \A m \in Load : ls2[m].current = ls[m].current
    OBVIOUS
  <2>2. \A m \in Load \ {l} : Turn(ls2[m], ss, ac)
    BY <1>1 DEF Turns
  <2>3. Turn(ls2[l], ss, ac)
    BY <1>1 DEF Turns, Turn, Following
  <2>4. \A m \in Load : ls[m].pc \in {"waiting", "paging"} => ls2[m].pc = ls[m].pc
    OBVIOUS
  <2> QED
    BY <1>1, <2>1, <2>2, <2>3, <2>4 DEF Turns
<1>9. Asked(ss, ls2, rq)
  <2>1. \A q \in rq : q.load # 0 => q.load \in Load \ {l}
    BY <1>2 DEF NoneOf, RequestRecord
  <2>2. \A q \in rq : q.load # 0 => ls2[q.load] = ls[q.load]
    BY <2>1
  <2> QED
    BY <1>1, <1>2, <2>2, SameAsked
<1>10. WholePages(ss, ls2, ac, rq, ws2)
  <2>1. ASSUME Past(ss, ls2, ac) PROVE Past(ss, ls, ac)
    BY <2>1 DEF Past
  <2> QED
    BY <1>1, <2>1, SameWhole
<1> QED
  BY <1>1, <1>6, <1>7, <1>8, <1>9, <1>10 DEF Consistent, Typed

\* Only a load that waits for a command has one, and only one that waits for a
\* page has requests.
LEMMA NothingOnItsWay ==
  ASSUME NEW ss, NEW cs \in Seq(CallRecord), NEW ls, NEW ac, NEW rq, NEW l \in Load,
         Commands(ss, cs, ls, ac), Asked(ss, ls, rq)
  PROVE  /\ ls[l].pc \notin {"closing", "starting", "retrying"} => NoneFor(l, cs)
         /\ ls[l].pc \notin {"paging", "final"} => NoneOf(l, rq)
<1>1. ASSUME NEW i \in 1 .. Len(cs), cs[i].load = l
      PROVE  ls[l].pc \in {"closing", "starting", "retrying"}
  <2>1. cs[i] \in CallRecord
    BY ElementOfSeq
  <2> QED
    BY <1>1, <2>1, NotZero DEF Commands, Awaited, CallRecord
<1>2. ASSUME NEW q \in rq, q.load = l
      PROVE  ls[l].pc \in {"paging", "final"}
  BY <1>2, NotZero DEF Asked, AskedBy
<1> QED
  BY <1>1, <1>2 DEF NoneFor, NoneOf

----------------------------------------------------------------------------
(* Sessions *)

\* Sessions may go on: the active one stays open, and as it is once it is ready.
LEMMA SessionsGoOn ==
  ASSUME NEW ss, NEW cs, NEW ls, NEW ac, NEW rq, NEW ws,
         Consistent(ss, cs, ls, ac, rq, ws),
         NEW ss2 \in [Session -> SessionRecord], Indexed(ss2),
         \A s \in Session : ss[s].status # "absent" =>
           /\ ss2[s].status # "absent"
           /\ ss[s].status \notin {"indexing", "ready"} =>
                ss2[s].status \notin {"indexing", "ready"},
         ac.session # 0 =>
           /\ Open(ss2[ac.session])
           /\ ss[ac.session].status # "indexing" => ss2[ac.session] = ss[ac.session],
         NEW cs2 \in Seq(CallRecord), Commands(ss, cs2, ls, ac), Accounted(ss2, cs2, ac)
  PROVE  Consistent(ss2, cs2, ls, ac, rq, ws)
<1>1. /\ Typed(ss, cs, ls, ac, rq, ws) /\ AllNumbered(ac, rq)
      /\ Turns(ss, ls, ac) /\ Asked(ss, ls, rq) /\ WholePages(ss, ls, ac, rq, ws)
  BY DEF Consistent
<1>2. rq \in SUBSET RequestRecord /\ ac \in ActiveRecord
  BY <1>1 DEF Typed
<1>3. Commands(ss2, cs2, ls, ac)
  BY SameCommands
<1>4. Turns(ss2, ls, ac)
  <2>1. ASSUME NEW l \in Load
        PROVE  Turn(ls[l], ss2, ac)
    <3>1. Turn(ls[l], ss, ac)
      BY <1>1 DEF Turns
    <3>2. ls[l].current /\ ls[l].pc = "final" =>
            ss2[ls[l].session].status = "ready"
      BY <3>1 DEF Turn, Following
    <3> QED
      BY <3>1, <3>2 DEF Turn
  <2>2. ASSUME ac.session # 0, ss2[ac.session].status = "indexing"
        PROVE  \E l \in Load : ls[l].current /\ ls[l].pc \in {"waiting", "paging"}
    BY <2>2, <1>1 DEF Turns
  <2> QED
    BY <1>1, <2>1, <2>2 DEF Turns
<1>5. Asked(ss2, ls, rq)
  BY <1>1, <1>2, SameAsked
<1>6. WholePages(ss2, ls, ac, rq, ws)
  <2>1. ASSUME Past(ss2, ls, ac)
        PROVE  Past(ss, ls, ac) /\ ss2[ac.session] = ss[ac.session]
    <3>1. ss[ac.session].status # "indexing"
      BY <1>1, <2>1 DEF Past, Turns
    <3> QED
      BY <2>1, <3>1 DEF Past
  <2> QED
    BY <1>1, <2>1, SameWhole
<1> QED
  BY <1>1, <1>3, <1>4, <1>5, <1>6 DEF Consistent, Typed

\* A session as a start enters it.
Entered(a) == [NoSession EXCEPT !.status = "indexing", !.archive = a, !.revision = 1]

\* A session that is not there yet is entered, and begins to index.
LEMMA SessionBegins ==
  ASSUME NEW ss \in [Session -> SessionRecord], Indexed(ss),
         NEW s \in Session, ss[s].status = "absent",
         NEW a \in Archive, NEW ss2, ss2[s] = Entered(a),
         \A r \in Session \ {s} : ss2[r] = ss[r]
  PROVE  Indexed(ss2) /\ ss2[s].status = "indexing" /\ Entered(a) \in SessionRecord
<1> DEFINE new == Entered(a)
<1>1. /\ new \in SessionRecord /\ new.status = "indexing" /\ new.archive = a
      /\ new.inserted = 0
  BY DEF NoSession, SessionRecord, Status, Archives, Entered
<1> HIDE DEF new
<1>2. ss2[s] = new
  BY DEF new
<1>3. Len(Listing[a]) \in Nat
  BY ListingAssumption, LenProperties
<1>4. Indexed(ss2)
  <2>1. ASSUME NEW r \in Session \ {s}
        PROVE  /\ Open(ss2[r]) => /\ ss2[r].archive \in Archive
                                  /\ ss2[r].inserted <= Len(Listing[ss2[r].archive])
               /\ ss2[r].status = "ready" =>
                    ss2[r].inserted = Len(Listing[ss2[r].archive])
    <3>1. ss2[r] = ss[r]
      OBVIOUS
    <3> QED
      BY <3>1 DEF Indexed
  <2>2. /\ ss2[s].archive \in Archive /\ ss2[s].inserted <= Len(Listing[ss2[s].archive])
        /\ ss2[s].status # "ready"
    <3>1. ss2[s].archive = a /\ ss2[s].inserted = 0 /\ ss2[s].status = "indexing"
      BY <1>1, <1>2
    <3>2. 0 <= Len(Listing[a])
      BY <1>3
    <3> QED
      BY <3>1, <3>2
  <2> QED
    BY <2>1, <2>2 DEF Indexed
<1> QED
  BY <1>1, <1>2, <1>4

\* The current load takes over the session it was given.
LEMMA SessionFollowed ==
  ASSUME NEW ss, NEW cs, NEW ls, NEW ac, NEW rq, NEW ws,
         Consistent(ss, cs, ls, ac, rq, ws),
         cs # <<>>, Head(cs).kind = "start",
         NEW l \in Load, l = Head(cs).load, ls[l].current,
         NEW s \in Session, ss[s].status = "absent",
         NEW ss2 \in [Session -> SessionRecord], Indexed(ss2), ss2[s].status = "indexing",
         \A r \in Session \ {s} : ss2[r] = ss[r],
         NEW ls2 \in [Load -> LoadRecord],
         \A m \in Load \ {l} : ls2[m] = ls[m],
         ls2[l].pc = "waiting", ls2[l].current, ls2[l].session = s,
         ls2[l].archive = ls[l].archive,
         NEW ac2 \in ActiveRecord, ac2.session = s, Numbered(ac2)
  PROVE  Consistent(ss2, Tail(cs), ls2, ac2, rq, ws)
<1>1. /\ Typed(ss, cs, ls, ac, rq, ws) /\ AllNumbered(ac, rq) /\ Indexed(ss)
      /\ Commands(ss, cs, ls, ac) /\ Turns(ss, ls, ac) /\ Asked(ss, ls, rq)
      /\ Accounted(ss, cs, ac)
  BY DEF Consistent
<1>2. cs \in Seq(CallRecord) /\ rq \in SUBSET RequestRecord
  BY <1>1 DEF Typed
<1>3. /\ Tail(cs) \in Seq(CallRecord) /\ Commands(ss, Tail(cs), ls, ac)
      /\ Head(cs).session = 0 /\ ls[l].pc = "starting" /\ NoneFor(l, Tail(cs))
  <2>1. /\ Tail(cs) \in Seq(CallRecord) /\ Commands(ss, Tail(cs), ls, ac)
        /\ Awaited(Head(cs), ss, ls, ac)
        /\ (Head(cs).load # 0 => NoneFor(Head(cs).load, Tail(cs)))
    BY <1>1, <1>2, TailCommands
  <2> QED
    BY <2>1 DEF Awaited
<1>4. ac.session = 0
  BY <1>1, <1>3 DEF Turns, Turn, Following
<1>5. Commands(ss2, Tail(cs), ls2, ac2)
  <2>1. \A m \in Load : ls2[m].pc = ls[m].pc \/ NoneFor(m, Tail(cs))
    BY <1>3
  <2>2. \A r \in Session : ss[r].status # "absent" => ss2[r].status # "absent"
    OBVIOUS
  <2>3. ac2.session \in {0, ac.session} \/ ss[ac2.session].status = "absent"
    OBVIOUS
  <2> QED
    <3>1. Commands(ss2, Tail(cs), ls, ac2)
      <4>1. \A m \in Load : ls[m].pc = ls[m].pc \/ NoneFor(m, Tail(cs))
        OBVIOUS
      <4> QED
        BY <1>3, <2>2, <2>3, <4>1, SameCommands
    <3>2. StillWaiting(ls, ls2, Tail(cs))
      BY <2>1 DEF StillWaiting
    <3> QED
      BY <1>3, <3>1, <3>2, SameCommandsOfLoads
<1>6. Accounted(ss2, Tail(cs), ac2)
  <2> DEFINE ss1 == [ss2 EXCEPT ![s] = NoSession]
  <2>1. \A r \in Session : Open(ss1[r]) => Open(ss[r]) /\ r # Head(cs).session
    BY <1>3, NotZero DEF Open, NoSession
  <2>2. Accounted(ss1, Tail(cs), ac)
    BY <1>1, <1>2, <2>1, TailAccounts
  <2>3. \A r \in Session \ {s} : ss1[r] = ss2[r]
    OBVIOUS
  <2> QED
    BY <2>2, <2>3, <1>4, NotZero DEF Accounted
<1>7. Turns(ss2, ls2, ac2)
  <2>1. \A m \in Load : ls2[m].current => m = l
    BY <1>1 DEF Turns
  <2>2. ASSUME NEW m \in Load \ {l}
        PROVE  Turn(ls2[m], ss2, ac2)
    <3>1. ~ls2[m].current /\ ls2[m] = ls[m]
      BY <2>1
    <3> QED
      BY <1>1, <3>1 DEF Turns, Turn
  <2>3. Turn(ls2[l], ss2, ac2)
    BY <1>1, <1>3, NotZero DEF Turns, Turn, Following
  <2>4. Open(ss2[ac2.session])
    BY DEF Open
  <2>5. \E m \in Load : ls2[m].current /\ ls2[m].pc \in {"waiting", "paging"}
    OBVIOUS
  <2> QED
    BY <2>1, <2>2, <2>3, <2>4, <2>5 DEF Turns
<1>8. Asked(ss2, ls2, rq)
  <2>1. NoneOf(l, rq)
    BY <1>1, <1>2, <1>3, NothingOnItsWay
  <2>2. \A q \in rq : q.load # 0 => ls2[q.load] = ls[q.load]
    BY <1>2, <2>1 DEF NoneOf, RequestRecord
  <2> QED
    BY <1>1, <1>2, <2>2, SameAsked
<1>9. WholePages(ss2, ls2, ac2, rq, ws) /\ AllNumbered(ac2, rq)
  BY <1>1 DEF WholePages, Past, AllNumbered
<1> QED
  BY <1>1, <1>3, <1>5, <1>6, <1>7, <1>8, <1>9 DEF Consistent, Typed

\* One that is given to a superseded load is on its way to be closed.
LEMMA SessionSuperseded ==
  ASSUME NEW ss, NEW cs, NEW ls, NEW ac, NEW rq, NEW ws,
         Consistent(ss, cs, ls, ac, rq, ws),
         cs # <<>>, Head(cs).kind = "start",
         NEW l \in Load, l = Head(cs).load, ~ls[l].current,
         NEW s \in Session, ss[s].status = "absent",
         NEW ss2 \in [Session -> SessionRecord], Indexed(ss2), ss2[s].status = "indexing",
         \A r \in Session \ {s} : ss2[r] = ss[r],
         NEW c \in CallRecord, c.kind = "close", c.load = 0, c.session = s
  PROVE  Consistent(ss2, Append(Tail(cs), c), [ls EXCEPT ![l] = NoLoad], ac, rq, ws)
<1>1. /\ Typed(ss, cs, ls, ac, rq, ws) /\ AllNumbered(ac, rq) /\ Indexed(ss)
      /\ Commands(ss, cs, ls, ac) /\ Turns(ss, ls, ac) /\ Asked(ss, ls, rq)
      /\ Accounted(ss, cs, ac) /\ WholePages(ss, ls, ac, rq, ws)
  BY DEF Consistent
<1>2. /\ cs \in Seq(CallRecord) /\ rq \in SUBSET RequestRecord /\ ac \in ActiveRecord
      /\ ws \in WorkspaceRecord
  BY <1>1 DEF Typed
<1>3. /\ Tail(cs) \in Seq(CallRecord) /\ Commands(ss, Tail(cs), ls, ac)
      /\ Head(cs).session = 0 /\ ls[l].pc = "starting" /\ NoneFor(l, Tail(cs))
  <2>1. /\ Tail(cs) \in Seq(CallRecord) /\ Commands(ss, Tail(cs), ls, ac)
        /\ Awaited(Head(cs), ss, ls, ac)
        /\ (Head(cs).load # 0 => NoneFor(Head(cs).load, Tail(cs)))
    BY <1>1, <1>2, TailCommands
  <2> QED
    BY <2>1 DEF Awaited
<1>4. \A r \in Session : ss[r].status # "absent" =>
        /\ ss2[r] = ss[r] /\ ss2[r].status # "absent"
        /\ (ss[r].status \notin {"indexing", "ready"} =>
              ss2[r].status \notin {"indexing", "ready"})
  OBVIOUS
<1>5. Commands(ss2, Tail(cs), ls, ac)
  <2>1. \A r \in Session : ss[r].status # "absent" => ss2[r].status # "absent"
    BY <1>4
  <2> QED
    BY <1>3, <2>1, SameCommands
<1>6. s # ac.session
  BY <1>1, NotZero DEF Turns, Open
<1>7. Awaited(c, ss2, ls, ac)
  BY <1>6, NotZero DEF Awaited
<1>8. /\ Append(Tail(cs), c) \in Seq(CallRecord)
      /\ Commands(ss2, Append(Tail(cs), c), ls, ac)
      /\ NoneFor(l, Append(Tail(cs), c))
  BY <1>3, <1>5, <1>7, AppendCommand, NotZero
<1>9. Accounted(ss2, Append(Tail(cs), c), ac)
  <2> DEFINE ss1 == [ss2 EXCEPT ![s] = NoSession]
  <2>1. \A r \in Session : Open(ss1[r]) => Open(ss[r]) /\ r # Head(cs).session
    BY <1>3, NotZero DEF Open, NoSession
  <2>2. Accounted(ss1, Tail(cs), ac)
    BY <1>1, <1>2, <2>1, TailAccounts
  <2>3. Accounted(ss1, Append(Tail(cs), c), ac)
    BY <1>3, <2>2, AppendAccounts
  <2>4. \A r \in Session \ {s} : ss1[r] = ss2[r]
    OBVIOUS
  <2>5. /\ Len(Append(Tail(cs), c)) \in 1 .. Len(Append(Tail(cs), c))
        /\ Append(Tail(cs), c)[Len(Append(Tail(cs), c))] = c
    BY <1>3, AppendProperties, LenProperties
  <2> QED
    BY <2>3, <2>4, <2>5 DEF Accounted
<1>10. Turns(ss2, ls, ac)
  <2>1. ASSUME NEW m \in Load
        PROVE  Turn(ls[m], ss2, ac)
    <3>1. Turn(ls[m], ss, ac)
      BY <1>1 DEF Turns
    <3>2. ls[m].current /\ ls[m].pc = "final" =>
            /\ ls[m].session \in Session /\ ss[ls[m].session].status = "ready"
      BY <3>1, <1>1 DEF Turn, Following, Typed, LoadRecord
    <3>3. ls[m].current /\ ls[m].pc = "final" => ss2[ls[m].session].status = "ready"
      BY <1>4, <3>2
    <3> QED
      BY <3>1, <3>3 DEF Turn
  <2>2. ac.session # 0 => ss2[ac.session] = ss[ac.session]
    BY <1>2, <1>6 DEF ActiveRecord
  <2> QED
    BY <1>1, <2>1, <2>2 DEF Turns
<1>11. Asked(ss2, ls, rq)
  BY <1>1, <1>2, <1>4, SameAsked
<1>12. WholePages(ss2, ls, ac, rq, ws)
  <2>1. ac.session # 0 => ss2[ac.session] = ss[ac.session]
    BY <1>2, <1>6 DEF ActiveRecord
  <2>2. Past(ss2, ls, ac) => Past(ss, ls, ac) /\ ss2[ac.session] = ss[ac.session]
    BY <2>1 DEF Past
  <2> QED
    BY <1>1, <2>2, SameWhole
<1>13. Consistent(ss2, Append(Tail(cs), c), ls, ac, rq, ws)
  BY <1>1, <1>8, <1>9, <1>10, <1>11, <1>12 DEF Consistent, Typed
<1>14. NoneOf(l, rq)
  BY <1>1, <1>2, <1>3, NothingOnItsWay
<1> QED
  BY <1>2, <1>8, <1>13, <1>14, LoadEnds

----------------------------------------------------------------------------
(* Requests *)

\* A request as a newer one leaves it.
Older(q) == [q EXCEPT !.latest = FALSE]

\* Of the requests with one more only that one is the newest.
LEMMA AskOne ==
  ASSUME NEW ss, NEW ls, NEW ac, NEW rq \in SUBSET RequestRecord,
         Asked(ss, ls, rq), AllNumbered(ac, rq),
         NEW q \in RequestRecord, Numbered(q), ss[q.session].status # "absent",
         \/ q.load = 0 /\ q.always
         \/ q.load # 0 /\ AskedBy(q, ls[q.load], ss) /\ NoneOf(q.load, rq),
         NEW rq2, rq2 = {Older(p) : p \in rq} \cup {q}
  PROVE  /\ rq2 \in SUBSET RequestRecord /\ q \in rq2
         /\ Asked(ss, ls, rq2) /\ AllNumbered(ac, rq2)
         /\ \A p \in rq2 : p.latest => p = q
<1>1. ASSUME NEW p \in rq
      PROVE  /\ Older(p) \in RequestRecord /\ Older(p).latest = FALSE
             /\ Older(p).load = p.load /\ Older(p).session = p.session
             /\ Older(p).always = p.always /\ Older(p).cursor = p.cursor
             /\ Older(p).search = p.search /\ Older(p).stage = p.stage
             /\ Older(p).current = p.current /\ Older(p).number = p.number
             /\ Older(p).previous = p.previous /\ Older(p).next = p.next
  <2>1. p \in RequestRecord
    OBVIOUS
  <2> QED
    BY <2>1 DEF RequestRecord, Older
<1>2. ASSUME NEW p \in rq2
      PROVE  p = q \/ \E o \in rq : p = Older(o)
  OBVIOUS
<1>3. rq2 \in SUBSET RequestRecord /\ q \in rq2
  BY <1>1
<1>4. \A p \in rq2 : p.latest => p = q
  BY <1>1, <1>2
<1>5. AllNumbered(ac, rq2)
  <2>1. ASSUME NEW o \in rq PROVE Numbered(Older(o))
    <3>1. Numbered(o)
      BY DEF AllNumbered
    <3>2. /\ Older(o).number = o.number /\ Older(o).previous = o.previous
          /\ Older(o).cursor = o.cursor /\ Older(o).next = o.next
      BY <1>1
    <3> QED
      BY <3>1, <3>2 DEF Numbered
  <2> QED
    BY <1>2, <2>1 DEF AllNumbered
<1>6. ASSUME NEW p \in rq2
      PROVE  /\ ss[p.session].status # "absent"
             /\ IF p.load = 0 THEN p.always ELSE AskedBy(p, ls[p.load], ss)
  <2>1. ASSUME NEW o \in rq, p = Older(o)
        PROVE  /\ ss[p.session].status # "absent"
               /\ IF p.load = 0 THEN p.always ELSE AskedBy(p, ls[p.load], ss)
    <3>1. /\ ss[o.session].status # "absent"
          /\ IF o.load = 0 THEN o.always ELSE AskedBy(o, ls[o.load], ss)
      BY DEF Asked
    <3> QED
      BY <2>1, <3>1, <1>1 DEF AskedBy
  <2>2. CASE p = q
    BY <2>2
  <2> QED
    BY <1>2, <2>1, <2>2
<1>7. ASSUME NEW p \in rq2, NEW r \in rq2, p.load # 0, p.load = r.load
      PROVE  p = r
  <2>1. CASE p = q /\ r = q
    BY <2>1
  <2>2. ASSUME NEW o \in rq, p = Older(o), r = q
        PROVE  FALSE
    BY <2>2, <1>1, <1>7 DEF NoneOf
  <2>3. ASSUME NEW o \in rq, r = Older(o), p = q
        PROVE  FALSE
    BY <2>3, <1>1, <1>7 DEF NoneOf
  <2>4. ASSUME NEW o \in rq, NEW u \in rq, p = Older(o), r = Older(u)
        PROVE  p = r
    <3>1. o.load # 0 /\ o.load = u.load
      BY <2>4, <1>1, <1>7
    <3>2. o = u
      BY <3>1 DEF Asked
    <3> QED
      BY <2>4, <3>2
  <2> QED
    BY <1>2, <2>1, <2>2, <2>3, <2>4
<1> QED
  BY <1>3, <1>4, <1>5, <1>6, <1>7 DEF Asked

\* A request that cannot be accepted, or that nothing rests on, may be dropped;
\* its load has no other.
LEMMA RequestDropped ==
  ASSUME NEW ss, NEW cs, NEW ls, NEW ac, NEW rq, NEW ws,
         Consistent(ss, cs, ls, ac, rq, ws), NEW q \in rq,
         Past(ss, ls, ac) => ~Acceptable(q, ac)
  PROVE  /\ Consistent(ss, cs, ls, ac, rq \ {q}, ws)
         /\ q.load # 0 => NoneOf(q.load, rq \ {q})
<1>1. /\ Typed(ss, cs, ls, ac, rq, ws) /\ AllNumbered(ac, rq) /\ Indexed(ss)
      /\ Commands(ss, cs, ls, ac) /\ Turns(ss, ls, ac) /\ Asked(ss, ls, rq)
      /\ Accounted(ss, cs, ac) /\ WholePages(ss, ls, ac, rq, ws)
  BY DEF Consistent
<1>2. rq \in SUBSET RequestRecord /\ rq \ {q} \in SUBSET rq
  BY <1>1 DEF Typed
<1>3. Asked(ss, ls, rq \ {q})
  BY <1>1 DEF Asked
<1>4. WholePages(ss, ls, ac, rq \ {q}, ws)
  BY <1>1, <1>2, SameWhole
<1>5. AllNumbered(ac, rq \ {q})
  BY <1>1 DEF AllNumbered
<1>6. q.load # 0 => NoneOf(q.load, rq \ {q})
  BY <1>1 DEF NoneOf, Asked
<1> QED
  BY <1>1, <1>2, <1>3, <1>4, <1>5, <1>6 DEF Consistent, Typed

\* A request is read or refused: it is the same one further on.
LEMMA RequestGoesOn ==
  ASSUME NEW ss, NEW cs, NEW ls, NEW ac, NEW rq, NEW ws,
         Consistent(ss, cs, ls, ac, rq, ws), NEW q \in rq, NEW r \in RequestRecord,
         /\ r.load = q.load /\ r.latest = q.latest /\ r.current = q.current
         /\ r.always = q.always /\ r.session = q.session /\ r.search = q.search
         /\ r.cursor = q.cursor,
         Numbered(r),
         q.load # 0 /\ r.stage = "refused" => ss[q.session].status \notin {"indexing", "ready"},
         Past(ss, ls, ac) /\ Acceptable(q, ac) => WillBeWhole(r, ss[ac.session])
  PROVE  Consistent(ss, cs, ls, ac, (rq \ {q}) \cup {r}, ws)
<1> DEFINE rq2 == (rq \ {q}) \cup {r}
<1>1. /\ Typed(ss, cs, ls, ac, rq, ws) /\ AllNumbered(ac, rq) /\ Indexed(ss)
      /\ Commands(ss, cs, ls, ac) /\ Turns(ss, ls, ac) /\ Asked(ss, ls, rq)
      /\ Accounted(ss, cs, ac) /\ WholePages(ss, ls, ac, rq, ws)
  BY DEF Consistent
<1>2. rq2 \subseteq RequestRecord /\ AllNumbered(ac, rq2)
  BY <1>1 DEF Typed, AllNumbered
<1>3. Asked(ss, ls, rq2)
  <2>1. /\ ss[q.session].status # "absent"
        /\ IF q.load = 0 THEN q.always ELSE AskedBy(q, ls[q.load], ss)
    BY <1>1 DEF Asked
  <2>2. /\ ss[r.session].status # "absent"
        /\ IF r.load = 0 THEN r.always ELSE AskedBy(r, ls[r.load], ss)
    BY <2>1 DEF AskedBy
  <2>3. ASSUME NEW o \in rq2, NEW p \in rq2, o.load # 0, o.load = p.load
        PROVE  o = p
    BY <2>3, <1>1 DEF Asked
  <2> QED
    BY <1>1, <2>2, <2>3 DEF Asked
<1>4. WholePages(ss, ls, ac, rq2, ws)
  <2> SUFFICES ASSUME Past(ss, ls, ac)
               PROVE  WholePages(ss, ls, ac, rq2, ws)!2
    BY DEF WholePages
  <2>1. Acceptable(r, ac) <=> Acceptable(q, ac)
    BY DEF Acceptable
  <2>2. \A p \in rq2 : Acceptable(p, ac) => WillBeWhole(p, ss[ac.session])
    BY <1>1, <2>1 DEF WholePages
  <2>3. (\A p \in rq2 : ~Acceptable(p, ac)) => (\A p \in rq : ~Acceptable(p, ac))
    BY <2>1
  <2> QED
    BY <1>1, <2>2, <2>3 DEF WholePages
<1> QED
  BY <1>1, <1>2, <1>3, <1>4 DEF Consistent, Typed

\* An answer that is accepted becomes the place of the active session, and what
\* is shown unless it is shown already.
LEMMA PageShown ==
  ASSUME NEW ss, NEW cs, NEW ls, NEW ac, NEW rq, NEW ws,
         Consistent(ss, cs, ls, ac, rq, ws),
         NEW q \in rq, q.stage = "answered", Acceptable(q, ac),
         NEW ac2 \in ActiveRecord, ac2.session = q.session,
         ac2.cursor = q.cursor, ac2.next = q.next, ac2.previous = q.previous,
         ac2.number = q.number,
         NEW ws2 \in WorkspaceRecord,
         \/ ws2 = ws /\ ~q.always
         \/ /\ ws2.archive = ss[q.session].archive /\ ws2.view = q.folder
            /\ ws2.shown.folder = q.folder /\ ws2.shown.search = q.search
            /\ ws2.shown.number = q.number /\ ws2.shown.items = q.items
            /\ ws2.shown.count = q.count
  PROVE  /\ Consistent(ss, cs, ls, ac2, rq \ {q}, ws2)
         /\ q.load # 0 => NoneOf(q.load, rq \ {q})
<1>1. /\ Typed(ss, cs, ls, ac, rq, ws) /\ AllNumbered(ac, rq) /\ Indexed(ss)
      /\ Commands(ss, cs, ls, ac) /\ Turns(ss, ls, ac) /\ Asked(ss, ls, rq)
      /\ Accounted(ss, cs, ac) /\ WholePages(ss, ls, ac, rq, ws)
  BY DEF Consistent
<1>2. ac2.session = ac.session
  BY DEF Acceptable
<1>3. Commands(ss, cs, ls, ac2) /\ Turns(ss, ls, ac2) /\ Accounted(ss, cs, ac2)
  BY <1>1, <1>2 DEF Commands, Awaited, Turns, Turn, Accounted
<1>4. Asked(ss, ls, rq \ {q})
  BY <1>1 DEF Asked
<1>5. AllNumbered(ac2, rq \ {q})
  BY <1>1 DEF AllNumbered, Numbered
<1>6. WholePages(ss, ls, ac2, rq \ {q}, ws2)
  <2> SUFFICES ASSUME Past(ss, ls, ac2)
               PROVE  WholePages(ss, ls, ac2, rq \ {q}, ws2)!2
    BY DEF WholePages
  <2>1. Past(ss, ls, ac)
    BY <1>2 DEF Past
  <2>2. WillBeWhole(q, ss[ac.session])
    BY <1>1, <2>1 DEF WholePages
  <2>3. GoodPlace(ac2, ss[ac2.session].revision)
    BY <1>2, <2>2 DEF WillBeWhole, GoodPlace
  <2>4. \A p \in rq \ {q} : Acceptable(p, ac2) => WillBeWhole(p, ss[ac2.session])
    BY <1>1, <1>2, <2>1 DEF WholePages, Acceptable
  <2>5. q.always
    <3>1. IF q.load = 0 THEN q.always ELSE AskedBy(q, ls[q.load], ss)
      BY <1>1 DEF Asked
    <3>2. q.load # 0 => q.load \in Load
      BY <1>1 DEF Typed, RequestRecord
    <3> QED
      BY <2>1, <3>1, <3>2 DEF AskedBy, Past, Acceptable
  <2>6. Whole(ss[ac.session].archive, ws2.shown)
    BY <2>2, <2>5 DEF WillBeWhole, Whole
  <2>7. ShownWhole(ws2, ss[ac2.session])
    BY <1>2, <2>5, <2>6 DEF ShownWhole
  <2> QED
    BY <2>3, <2>4, <2>7
<1>7. q.load # 0 => NoneOf(q.load, rq \ {q})
  BY <1>1 DEF NoneOf, Asked
<1> QED
  BY <1>1, <1>3, <1>4, <1>5, <1>6, <1>7 DEF Consistent, Typed

\* A load whose page arrived waits for the next revision.
LEMMA LoadWaits ==
  ASSUME NEW ss, NEW cs, NEW ls, NEW ac, NEW rq, NEW ws,
         Consistent(ss, cs, ls, ac, rq, ws),
         NEW l \in Load, ls[l].pc = "paging", NoneOf(l, rq)
  PROVE  Consistent(ss, cs, [ls EXCEPT ![l].pc = "waiting"], ac, rq, ws)
<1> DEFINE ls2 == [ls EXCEPT ![l].pc = "waiting"]
<1>1. /\ Typed(ss, cs, ls, ac, rq, ws) /\ AllNumbered(ac, rq) /\ Indexed(ss)
      /\ Commands(ss, cs, ls, ac) /\ Turns(ss, ls, ac) /\ Asked(ss, ls, rq)
      /\ Accounted(ss, cs, ac) /\ WholePages(ss, ls, ac, rq, ws)
  BY DEF Consistent
<1>2. /\ cs \in Seq(CallRecord) /\ rq \in SUBSET RequestRecord
      /\ ls \in [Load -> LoadRecord]
  BY <1>1 DEF Typed
<1>3. /\ ls2 \in [Load -> LoadRecord] /\ ls2[l].pc = "waiting"
      /\ ls2[l].current = ls[l].current /\ ls2[l].archive = ls[l].archive
      /\ ls2[l].session = ls[l].session
      /\ \A m \in Load \ {l} : ls2[m] = ls[m]
  BY <1>2 DEF LoadRecord
<1> HIDE DEF ls2
<1>4. Commands(ss, cs, ls2, ac)
  <2>1. NoneFor(l, cs)
    BY <1>1, <1>2, NothingOnItsWay
  <2>2. \A m \in Load : ls2[m].pc = ls[m].pc \/ NoneFor(m, cs)
    BY <1>3, <2>1
  <2> QED
    BY <1>1, <1>2, <2>2, SameCommands
<1>5. Turns(ss, ls2, ac)
  <2>1. \A m \in Load : ls2[m].current = ls[m].current
    BY <1>3
  <2>2. \A m \in Load \ {l} : Turn(ls2[m], ss, ac)
    BY <1>1, <1>3 DEF Turns
  <2>3. Turn(ls2[l], ss, ac)
    BY <1>1, <1>3 DEF Turns, Turn, Following
  <2>4. \A m \in Load : ls[m].pc \in {"waiting", "paging"} =>
          ls2[m].pc \in {"waiting", "paging"}
    BY <1>3
  <2> QED
    BY <1>1, <2>1, <2>2, <2>3, <2>4 DEF Turns
<1>6. Asked(ss, ls2, rq)
  <2>1. \A q \in rq : q.load # 0 => q.load \in Load \ {l}
    BY <1>2 DEF NoneOf, RequestRecord
  <2>2. \A q \in rq : q.load # 0 => ls2[q.load] = ls[q.load]
    BY <1>3, <2>1
  <2> QED
    BY <1>1, <1>2, <2>2, SameAsked
<1>7. WholePages(ss, ls2, ac, rq, ws)
  <2>1. ASSUME Past(ss, ls2, ac) PROVE Past(ss, ls, ac)
    BY <1>3, <2>1 DEF Past
  <2> QED
    BY <1>1, <1>2, <2>1, SameWhole
<1> QED
  BY <1>1, <1>3, <1>4, <1>5, <1>6, <1>7 DEF Consistent, Typed, ls2

\* Where a load goes on with a snapshot of its session s, and the requests then.
AfterSnapshot(l, pc, s, status, rq, rq2) ==
  \/ pc = "waiting" /\ rq2 = rq
  \/ \E q \in RequestRecord :
       /\ rq2 = {Older(p) : p \in rq} \cup {q}
       /\ q.load = l /\ q.latest /\ q.current /\ q.session = s
       /\ Numbered(q) /\ q.cursor = NoCursor /\ q.next = NoCursor /\ ~q.search
       /\ q.previous = <<>> /\ q.stage = "sent"
       /\ pc = "paging" \/ (pc = "final" /\ q.always /\ status = "ready")

\* The current load goes on with a snapshot of its session: it waits again, asks
\* for a page of it, or for the final page once the archive is indexed.
LEMMA SnapshotTaken ==
  ASSUME NEW ss, NEW cs, NEW ls, NEW ac, NEW rq, NEW ws,
         Consistent(ss, cs, ls, ac, rq, ws),
         NEW l \in Load, ls[l].pc = "waiting", ls[l].current,
         NEW ls2 \in [Load -> LoadRecord],
         \A m \in Load \ {l} : ls2[m] = ls[m],
         ls2[l].current, ls2[l].archive = ls[l].archive, ls2[l].session = ls[l].session,
         NEW ac2 \in ActiveRecord, ac2.session = ac.session, Numbered(ac2),
         ac2.cursor = NoCursor, ac2.next = NoCursor, ac2.previous = <<>>,
         NEW rq2,
         AfterSnapshot(l, ls2[l].pc, ac.session, ss[ac.session].status, rq, rq2)
  PROVE  Consistent(ss, cs, ls2, ac2, rq2, ws)
<1>1. /\ Typed(ss, cs, ls, ac, rq, ws) /\ AllNumbered(ac, rq) /\ Indexed(ss)
      /\ Commands(ss, cs, ls, ac) /\ Turns(ss, ls, ac) /\ Asked(ss, ls, rq)
      /\ Accounted(ss, cs, ac) /\ WholePages(ss, ls, ac, rq, ws)
  BY DEF Consistent
<1>2. cs \in Seq(CallRecord) /\ rq \in SUBSET RequestRecord
  BY <1>1 DEF Typed
<1>3. /\ NoneFor(l, cs) /\ NoneOf(l, rq) /\ ac.session = ls[l].session
      /\ ac.session # 0 /\ ls[l].archive \in Archive /\ Open(ss[ac.session])
  BY <1>1, <1>2, NothingOnItsWay DEF Turns, Turn, Following
<1>4. ls2[l].pc \in Following /\ (ls2[l].pc = "final" => ss[ac.session].status = "ready")
  BY DEF Following, AfterSnapshot
<1>5. Commands(ss, cs, ls2, ac2)
  <2>1. \A m \in Load : ls2[m].pc = ls[m].pc \/ NoneFor(m, cs)
    BY <1>3
  <2> QED
    BY <1>1, <1>2, <2>1, SameCommands
<1>6. Accounted(ss, cs, ac2)
  BY <1>1 DEF Accounted
<1>7. Turns(ss, ls2, ac2)
  <2>1. \A m \in Load : ls2[m].current => m = l
    BY <1>1 DEF Turns
  <2>2. \A m \in Load \ {l} : Turn(ls2[m], ss, ac2)
    BY <1>1 DEF Turns, Turn
  <2>3. Turn(ls2[l], ss, ac2)
    BY <1>1, <1>3, <1>4 DEF Turn, Following
  <2>4. ss[ac2.session].status = "indexing" => ls2[l].pc \in {"waiting", "paging"}
    BY <1>4 DEF Following
  <2> QED
    BY <1>3, <2>1, <2>2, <2>3, <2>4 DEF Turns
<1>8. Asked(ss, ls2, rq)
  <2>1. \A q \in rq : q.load # 0 => q.load \in Load \ {l}
    BY <1>2, <1>3 DEF NoneOf, RequestRecord
  <2>2. \A q \in rq : q.load # 0 => ls2[q.load] = ls[q.load]
    BY <2>1
  <2> QED
    BY <1>1, <1>2, <2>2, SameAsked
<1>9. AllNumbered(ac2, rq)
  BY <1>1 DEF AllNumbered
<1>10. CASE ls2[l].pc = "waiting" /\ rq2 = rq
  <2>1. WholePages(ss, ls2, ac2, rq2, ws)
    BY <1>10 DEF WholePages, Past
  <2> QED
    BY <1>1, <1>5, <1>6, <1>7, <1>8, <1>9, <1>10, <2>1 DEF Consistent, Typed
<1>11. ASSUME NEW q \in RequestRecord,
              rq2 = {Older(p) : p \in rq} \cup {q},
              q.load = l, q.latest, q.current, q.session = ac.session,
              Numbered(q), q.cursor = NoCursor, q.next = NoCursor, ~q.search,
              q.previous = <<>>, q.stage = "sent",
              \/ ls2[l].pc = "paging"
              \/ /\ ls2[l].pc = "final" /\ q.always
                 /\ ss[ac.session].status = "ready"
       PROVE  Consistent(ss, cs, ls2, ac2, rq2, ws)
  <2>1. AskedBy(q, ls2[l], ss)
    BY <1>3, <1>11 DEF AskedBy
  <2>2. /\ rq2 \in SUBSET RequestRecord /\ q \in rq2
        /\ Asked(ss, ls2, rq2) /\ AllNumbered(ac2, rq2)
        /\ \A p \in rq2 : p.latest => p = q
    <3>1. ss[q.session].status # "absent" /\ q.load # 0 /\ NoneOf(q.load, rq)
      BY <1>3, <1>11, NotZero DEF Open
    <3> QED
      BY <1>2, <1>8, <1>9, <1>11, <2>1, <3>1, AskOne
  <2>3. WholePages(ss, ls2, ac2, rq2, ws)
    <3> SUFFICES ASSUME Past(ss, ls2, ac2)
                 PROVE  WholePages(ss, ls2, ac2, rq2, ws)!2
      BY DEF WholePages
    <3>1. Len(<< >>) = 0
      BY EmptySeq
    <3>2. GoodPlace(ac2, ss[ac2.session].revision) /\ WillBeWhole(q, ss[ac2.session])
      BY <1>11, <3>1 DEF GoodPlace, Good, WillBeWhole
    <3>3. Acceptable(q, ac2)
      BY <1>11 DEF Acceptable
    <3> QED
      BY <2>2, <3>2, <3>3 DEF Acceptable
  <2> QED
    BY <1>1, <1>5, <1>6, <1>7, <2>2, <2>3 DEF Consistent, Typed
<1> QED
  BY <1>10, <1>11 DEF AfterSnapshot

\* The user asks for a page of the active session, at a place it still accepts.
LEMMA UserAsks ==
  ASSUME NEW ss, NEW cs, NEW ls, NEW ac, NEW rq, NEW ws,
         Consistent(ss, cs, ls, ac, rq, ws), ac.session # 0,
         NEW q \in RequestRecord,
         q.load = 0, q.always, q.latest, q.current, q.session = ac.session,
         q.stage = "sent", Numbered(q),
         WholePages(ss, ls, ac, rq, ws) /\ Past(ss, ls, ac) =>
           GoodPlace(q, ss[ac.session].revision),
         NEW rq2, rq2 = {Older(p) : p \in rq} \cup {q},
         NEW ws2 \in WorkspaceRecord
  PROVE  Consistent(ss, cs, ls, ac, rq2, ws2)
<1>1. /\ Typed(ss, cs, ls, ac, rq, ws) /\ AllNumbered(ac, rq) /\ Indexed(ss)
      /\ Commands(ss, cs, ls, ac) /\ Turns(ss, ls, ac) /\ Asked(ss, ls, rq)
      /\ Accounted(ss, cs, ac) /\ WholePages(ss, ls, ac, rq, ws)
  BY DEF Consistent
<1>2. rq \in SUBSET RequestRecord /\ ss[q.session].status # "absent"
  BY <1>1 DEF Typed, Turns, Open
<1>3. /\ rq2 \in SUBSET RequestRecord /\ q \in rq2
      /\ Asked(ss, ls, rq2) /\ AllNumbered(ac, rq2)
      /\ \A p \in rq2 : p.latest => p = q
  BY <1>1, <1>2, AskOne
<1>4. WholePages(ss, ls, ac, rq2, ws2)
  <2> SUFFICES ASSUME Past(ss, ls, ac)
               PROVE  WholePages(ss, ls, ac, rq2, ws2)!2
    BY DEF WholePages
  <2>1. WillBeWhole(q, ss[ac.session])
    BY <1>1 DEF WillBeWhole
  <2>2. Acceptable(q, ac)
    BY DEF Acceptable
  <2> QED
    BY <1>1, <1>3, <2>1, <2>2 DEF WholePages, Acceptable
<1> QED
  BY <1>1, <1>3, <1>4 DEF Consistent, Typed

----------------------------------------------------------------------------
(* Steps *)

ActionsTyped == actions \in [opens : 0..MaxOpens, pages : 0..MaxActions]

\* The invariant in the next state, of the primed variables.
LEMMA Next_IInv ==
  ASSUME Consistent(sessions', calls', loads', active', requests', workspace'),
         ActionsTyped'
  PROVE  IInv'
BY DEF IInv, ActionsTyped

\* What follows from consistency most often.
LEMMA Given ==
  ASSUME IInv
  PROVE  /\ Consistent(sessions, calls, loads, active, requests, workspace)
         /\ sessions \in [Session -> SessionRecord] /\ calls \in Seq(CallRecord)
         /\ loads \in [Load -> LoadRecord] /\ active \in ActiveRecord
         /\ requests \in SUBSET RequestRecord /\ workspace \in WorkspaceRecord
         /\ Commands(sessions, calls, loads, active) /\ Turns(sessions, loads, active)
         /\ Asked(sessions, loads, requests) /\ ActionsTyped
BY DEF IInv, Consistent, Typed, ActionsTyped

LEMMA InitIInv == Init => IInv
<1> SUFFICES ASSUME Init PROVE IInv
  OBVIOUS
<1>1. /\ sessions = [s \in Session |-> NoSession] /\ calls = <<>>
      /\ loads = [l \in Load |-> NoLoad] /\ active = NoActive /\ requests = {}
      /\ workspace = Empty /\ actions = [opens |-> 0, pages |-> 0]
  BY DEF Init
<1>2. Empty \in WorkspaceRecord /\ Empty.browse = "idle"
  BY NothingTyped, ListingAssumption DEF Empty, WorkspaceRecord, Archives
<1>3. /\ sessions \in [Session -> SessionRecord] /\ loads \in [Load -> LoadRecord]
      /\ active \in ActiveRecord
  BY <1>1, NothingTyped
<1>4. calls \in Seq(CallRecord) /\ Len(calls) = 0
  BY <1>1, EmptySeq
<1>5. Typed(sessions, calls, loads, active, requests, workspace)
  BY <1>1, <1>2, <1>3, <1>4 DEF Typed
<1>6. AllNumbered(active, requests) /\ Indexed(sessions) /\ Accounted(sessions, calls, active)
  BY <1>1, NothingTyped DEF AllNumbered, Indexed, Accounted, Open
<1>7. Commands(sessions, calls, loads, active)
  BY <1>4 DEF Commands, OneEach
<1>8. Turns(sessions, loads, active)
  BY <1>1, NothingTyped DEF Turns, Turn, Following
<1>9. Asked(sessions, loads, requests)
  BY <1>1 DEF Asked
<1>10. WholePages(sessions, loads, active, requests, workspace)
  BY <1>1, NothingTyped DEF WholePages, Past
<1>11. actions \in [opens : 0..MaxOpens, pages : 0..MaxActions]
  BY <1>1, LimitAssumption
<1> QED
  BY <1>5, <1>6, <1>7, <1>8, <1>9, <1>10, <1>11 DEF IInv, Consistent

\* Workers enumerate, publish and finish.
LEMMA WorkersKeep ==
  ASSUME IInv, NEW s \in Session, Insert(s) \/ Publish(s) \/ Finish(s)
  PROVE  IInv'
<1>1. /\ Consistent(sessions, calls, loads, active, requests, workspace)
      /\ sessions \in [Session -> SessionRecord] /\ calls \in Seq(CallRecord)
      /\ Commands(sessions, calls, loads, active) /\ ActionsTyped
  BY Given
<1>2. Indexed(sessions) /\ Accounted(sessions, calls, active)
  BY <1>1 DEF Consistent
<1>3. /\ sessions[s].status = "indexing" /\ sessions[s] \in SessionRecord
      /\ sessions[s].archive \in Archive
      /\ sessions[s].inserted <= Len(Listing[sessions[s].archive])
  BY <1>1, <1>2 DEF Insert, Publish, Finish, Indexed, Open
<1>4. Len(Listing[sessions[s].archive]) \in Nat
  BY <1>3, ListingAssumption, LenProperties
<1>5. /\ sessions' \in [Session -> SessionRecord]
      /\ \A r \in Session \ {s} : sessions'[r] = sessions[r]
      /\ sessions'[s].archive = sessions[s].archive
      /\ sessions'[s].inserted <= Len(Listing[sessions[s].archive])
      /\ Open(sessions'[s])
      /\ sessions'[s].status = "ready" =>
           sessions'[s].inserted = Len(Listing[sessions[s].archive])
  <2>1. CASE Insert(s)
    <3> DEFINE next == sessions[s].inserted + 1
    <3>1. next \in Nat /\ next <= Len(Listing[sessions[s].archive])
      BY <2>1, <1>3, <1>4 DEF Insert, SessionRecord
    <3>2. sessions' = [sessions EXCEPT ![s].inserted = next]
      BY <2>1 DEF Insert
    <3> HIDE DEF next
    <3>3. sessions' \in [Session -> SessionRecord]
      BY <3>1, <3>2, <1>1, <1>3 DEF SessionRecord
    <3>4. /\ \A r \in Session \ {s} : sessions'[r] = sessions[r]
          /\ sessions'[s] = [sessions[s] EXCEPT !.inserted = next]
      BY <3>2, <1>1
    <3>5. /\ sessions'[s].archive = sessions[s].archive /\ sessions'[s].inserted = next
          /\ sessions'[s].status = "indexing"
      BY <3>4, <1>3 DEF SessionRecord
    <3> QED
      BY <3>1, <3>3, <3>4, <3>5 DEF Open
  <2>2. CASE Publish(s)
    BY <2>2, <1>1, <1>3 DEF Publish, SessionRecord, Open
  <2>3. CASE Finish(s)
    <3>1. PICK e \in {"ready", "locked", "broken"} :
            /\ e = "ready" => sessions[s].inserted = Len(Listing[sessions[s].archive])
            /\ sessions' = [sessions EXCEPT ![s].status = e, ![s].revision = @ + 1,
                              ![s].counted = IF e = "ready" THEN sessions[s].inserted ELSE 0]
      BY <2>3 DEF Finish, Failures
    <3>2. e \in Status
      BY <3>1 DEF Status, Failures
    <3> DEFINE count == IF e = "ready" THEN sessions[s].inserted ELSE 0
               new   == [sessions[s] EXCEPT !.status = e, !.revision = @ + 1, !.counted = count]
    <3>3. count \in Nat /\ sessions[s].revision + 1 \in Nat
      BY <1>3 DEF SessionRecord
    <3>4. sessions' = [sessions EXCEPT ![s] = new]
      BY <3>1, <1>1
    <3> HIDE DEF count
    <3>5. /\ new \in SessionRecord /\ new.status = e
          /\ new.archive = sessions[s].archive /\ new.inserted = sessions[s].inserted
      BY <3>2, <3>3, <1>3 DEF SessionRecord
    <3> HIDE DEF new
    <3>6. sessions'[s] = new /\ \A r \in Session \ {s} : sessions'[r] = sessions[r]
      BY <3>4, <1>1
    <3>7. sessions' \in [Session -> SessionRecord]
      BY <3>4, <3>5, <1>1
    <3>8. Open(new)
      BY <3>1, <3>5 DEF Open
    <3> QED
      BY <3>1, <3>5, <3>6, <3>7, <3>8, <1>3
  <2> QED
    BY <2>1, <2>2, <2>3
<1>6. UNCHANGED pageVars
  BY DEF Insert, Publish, Finish
<1>7. Indexed(sessions')
  BY <1>2, <1>3, <1>5 DEF Indexed
<1>8. Accounted(sessions', calls, active)
  BY <1>2, <1>3, <1>5 DEF Accounted, Open
<1>9. Consistent(sessions', calls, loads, active, requests, workspace)
  <2>1. active.session # 0 =>
           /\ active.session \in Session /\ Open(sessions[active.session])
    BY <1>1, Given DEF Turns, ActiveRecord
  <2>2. active.session # 0 =>
           /\ Open(sessions'[active.session])
           /\ sessions[active.session].status # "indexing" =>
                sessions'[active.session] = sessions[active.session]
    BY <2>1, <1>3, <1>5
  <2>3. \A r \in Session : sessions[r].status # "absent" =>
           /\ sessions'[r].status # "absent"
           /\ sessions[r].status \notin {"indexing", "ready"} =>
                sessions'[r].status \notin {"indexing", "ready"}
    BY <1>3, <1>5 DEF Open
  <2> QED
    BY <1>1, <1>5, <1>7, <1>8, <2>2, <2>3, SessionsGoOn
<1> QED
  BY <1>1, <1>6, <1>9, Next_IInv DEF pageVars, ActionsTyped

\* Every request is numbered, of a session that was there, and whole when that
\* is called for.
LEMMA RequestGiven ==
  ASSUME IInv, NEW q \in requests
  PROVE  /\ q \in RequestRecord /\ Numbered(q) /\ q.session \in Session
         /\ sessions[q.session] \in SessionRecord
         /\ IF q.load = 0 THEN q.always ELSE AskedBy(q, loads[q.load], sessions)
         /\ q.load # 0 => q.load \in Load
         /\ Past(sessions, loads, active) /\ Acceptable(q, active) =>
              /\ q.session = active.session /\ sessions[q.session].status = "ready"
              /\ WillBeWhole(q, sessions[q.session])
<1>1. q \in RequestRecord /\ sessions \in [Session -> SessionRecord]
  BY Given
<1>2. Numbered(q)
  BY Given DEF Consistent, AllNumbered
<1>3. IF q.load = 0 THEN q.always ELSE AskedBy(q, loads[q.load], sessions)
  BY Given DEF Asked
<1>4. WholePages(sessions, loads, active, requests, workspace)
  BY Given DEF Consistent
<1>5. Past(sessions, loads, active) /\ Acceptable(q, active) =>
        /\ q.session = active.session /\ sessions[q.session].status = "ready"
        /\ WillBeWhole(q, sessions[q.session])
  BY <1>4 DEF WholePages, Past, Acceptable
<1>6. q.session \in Session /\ (q.load # 0 => q.load \in Load)
  BY <1>1 DEF RequestRecord
<1> QED
  BY <1>1, <1>2, <1>3, <1>5, <1>6

\* A request finds its session, and is refused for a reason.
LEMMA ReadRevisionKeeps ==
  ASSUME IInv, NEW q \in requests, ReadRevision(q)
  PROVE  IInv'
<1> DEFINE record == sessions[q.session]
           error == IF record.status \in Failures THEN record.status ELSE "broken"
           refused == \/ record.status = "closed"
                      \/ record.status \in (IF q.search THEN {"indexing"} ELSE Failures)
           r == IF refused THEN [q EXCEPT !.stage = "refused", !.error = error]
                           ELSE [q EXCEPT !.stage = "read", !.revision = record.revision]
<1>1. /\ q.stage = "sent" /\ requests' = (requests \ {q}) \cup {r}
      /\ UNCHANGED <<sessions, calls, loads, active, rendered, workspace, actions>>
  BY DEF ReadRevision, Stage
<1>2. /\ q \in RequestRecord /\ Numbered(q) /\ record \in SessionRecord
      /\ IF q.load = 0 THEN q.always ELSE AskedBy(q, loads[q.load], sessions)
      /\ Past(sessions, loads, active) /\ Acceptable(q, active) =>
           /\ q.session = active.session /\ record.status = "ready"
           /\ WillBeWhole(q, record)
  BY RequestGiven
<1>3. error \in {None} \cup Failures /\ record.revision \in Nat
  BY <1>2 DEF SessionRecord, Failures
<1>4. refused => /\ record.status # "ready"
                 /\ ~q.search => record.status # "indexing"
  BY DEF Failures
<1> HIDE DEF error, record, refused
<1>5. CASE refused
  <2>1. r = [q EXCEPT !.stage = "refused", !.error = error]
    BY <1>5
  <2>2. /\ r \in RequestRecord /\ r.stage = "refused" /\ r.load = q.load
        /\ r.latest = q.latest /\ r.current = q.current /\ r.always = q.always
        /\ r.session = q.session /\ r.search = q.search /\ r.cursor = q.cursor
        /\ r.number = q.number /\ r.previous = q.previous /\ r.next = q.next
    BY <2>1, <1>2, <1>3 DEF RequestRecord
  <2> HIDE DEF r
  <2>3. Numbered(r)
    BY <1>2, <2>2 DEF Numbered
  <2>4. q.load # 0 => sessions[q.session].status \notin {"indexing", "ready"}
    BY <1>2, <1>4, <1>5 DEF AskedBy, record
  <2>5. ~(Past(sessions, loads, active) /\ Acceptable(q, active))
    BY <1>2, <1>4, <1>5
  <2>6. Consistent(sessions, calls, loads, active, requests', workspace)
    BY <1>1, <2>2, <2>3, <2>4, <2>5, Given, RequestGoesOn
  <2> QED
    BY <1>1, <2>6, Given, Next_IInv DEF ActionsTyped
<1>6. CASE ~refused
  <2>1. r = [q EXCEPT !.stage = "read", !.revision = record.revision]
    BY <1>6
  <2>2. /\ r \in RequestRecord /\ r.stage = "read" /\ r.load = q.load
        /\ r.latest = q.latest /\ r.current = q.current /\ r.always = q.always
        /\ r.session = q.session /\ r.search = q.search /\ r.cursor = q.cursor
        /\ r.number = q.number /\ r.previous = q.previous /\ r.next = q.next
        /\ r.revision = record.revision
    BY <2>1, <1>2, <1>3 DEF RequestRecord
  <2> HIDE DEF r
  <2>3. Numbered(r)
    BY <1>2, <2>2 DEF Numbered
  <2>4. Past(sessions, loads, active) /\ Acceptable(q, active) =>
          WillBeWhole(r, sessions[active.session])
    BY <1>2, <2>2 DEF WillBeWhole, GoodPlace, record
  <2>5. Consistent(sessions, calls, loads, active, requests', workspace)
    BY <1>1, <2>2, <2>3, <2>4, Given, RequestGoesOn
  <2> QED
    BY <1>1, <2>5, Given, Next_IInv DEF ActionsTyped
<1> QED
  BY <1>5, <1>6

\* It is answered with what the index has, or refused for an old cursor; a cursor
\* the session still accepts is not old.
LEMMA ReadContentKeeps ==
  ASSUME IInv, NEW q \in requests, ReadContent(q)
  PROVE  IInv'
<1> DEFINE record == sessions[q.session]
           found == Found(record.archive, record.inserted, q.folder, q.search)
           count == Cardinality(found)
           items == Slice(found, q.cursor.offset)
           end == q.cursor.offset + PageLimit
           next == IF end < count THEN [revision |-> q.revision, offset |-> end]
                                  ELSE NoCursor
           refused == q.cursor # NoCursor /\ q.cursor.revision # q.revision
           r == IF refused
                THEN [q EXCEPT !.stage = "refused", !.error = "broken"]
                ELSE [q EXCEPT !.stage = "answered", !.count = count, !.items = items,
                               !.next = next]
<1>1. /\ q.stage = "read" /\ requests' = (requests \ {q}) \cup {r}
      /\ UNCHANGED <<sessions, calls, loads, active, rendered, workspace, actions>>
  BY DEF ReadContent, Stage
<1>2. /\ q \in RequestRecord /\ Numbered(q) /\ record \in SessionRecord
      /\ q.session \in Session
      /\ IF q.load = 0 THEN q.always ELSE AskedBy(q, loads[q.load], sessions)
      /\ Past(sessions, loads, active) /\ Acceptable(q, active) =>
           /\ q.session = active.session /\ record.status = "ready"
           /\ WillBeWhole(q, record)
  BY RequestGiven
<1>3. record.inserted \in Nat
  BY <1>2 DEF SessionRecord
<1>4. count \in Nat /\ items \in SUBSET Nat
  BY <1>3, FoundTyped
<1>5. /\ end = q.number * PageLimit /\ q.cursor.offset = (q.number - 1) * PageLimit
      /\ end \in Nat
  <2>1. q.number \in Nat
    BY <1>2 DEF RequestRecord
  <2> QED
    BY <1>2, <2>1, PageBegins DEF Numbered
<1>6. /\ next \in Cursor /\ (next = NoCursor \/ next.offset = q.number * PageLimit)
      /\ Good(next, q.revision)
  <2>1. [revision |-> q.revision, offset |-> end] \in Cursor
    BY <1>2, <1>5 DEF RequestRecord, Cursor
  <2> QED
    BY <2>1, <1>5, NothingTyped DEF Good
<1>7. record.status = "ready" =>
        /\ items = Slice(Found(record.archive, Len(Listing[record.archive]), q.folder, q.search),
                         (q.number - 1) * PageLimit)
        /\ count = Cardinality(Found(record.archive, Len(Listing[record.archive]),
                                     q.folder, q.search))
  <2>1. Indexed(sessions)
    BY Given DEF Consistent
  <2> QED
    BY <2>1, <1>2, <1>5 DEF Indexed
<1> HIDE DEF record, found, count, items, end, next, refused
<1>8. CASE refused
  <2>1. r = [q EXCEPT !.stage = "refused", !.error = "broken"] /\ "broken" \in Failures
    BY <1>8 DEF Failures
  <2>2. /\ r \in RequestRecord /\ r.stage = "refused" /\ r.load = q.load
        /\ r.latest = q.latest /\ r.current = q.current /\ r.always = q.always
        /\ r.session = q.session /\ r.search = q.search /\ r.cursor = q.cursor
        /\ r.number = q.number /\ r.previous = q.previous /\ r.next = q.next
    BY <2>1, <1>2 DEF RequestRecord
  <2> HIDE DEF r
  <2>3. Numbered(r)
    BY <1>2, <2>2 DEF Numbered
  <2>4. q.load = 0
    BY <1>2, <1>8 DEF AskedBy, refused
  <2>5. ~(Past(sessions, loads, active) /\ Acceptable(q, active))
    BY <1>1, <1>2, <1>8 DEF WillBeWhole, GoodPlace, Good, refused
  <2>6. Consistent(sessions, calls, loads, active, requests', workspace)
    BY <1>1, <2>2, <2>3, <2>4, <2>5, Given, RequestGoesOn
  <2> QED
    BY <1>1, <2>6, Given, Next_IInv DEF ActionsTyped
<1>9. CASE ~refused
  <2>1. r = [q EXCEPT !.stage = "answered", !.count = count, !.items = items, !.next = next]
    BY <1>9
  <2>2. /\ r \in RequestRecord /\ r.stage = "answered" /\ r.load = q.load
        /\ r.latest = q.latest /\ r.current = q.current /\ r.always = q.always
        /\ r.session = q.session /\ r.search = q.search /\ r.cursor = q.cursor
        /\ r.number = q.number /\ r.previous = q.previous /\ r.folder = q.folder
    BY <2>1, <1>2, <1>4, <1>6 DEF RequestRecord
  <2>3. r.next = next /\ r.items = items /\ r.count = count
    BY <2>1, <1>2 DEF RequestRecord
  <2> HIDE DEF r
  <2>4. Numbered(r)
    BY <1>2, <1>6, <2>2, <2>3 DEF Numbered
  <2>5. ASSUME Past(sessions, loads, active), Acceptable(q, active)
        PROVE  WillBeWhole(r, sessions[active.session])
    <3>1. /\ q.session = active.session /\ record.status = "ready"
          /\ GoodPlace(q, record.revision) /\ q.revision = record.revision
      BY <2>5, <1>1, <1>2 DEF WillBeWhole
    <3>2. GoodPlace(r, record.revision)
      BY <3>1, <1>6, <2>2, <2>3 DEF GoodPlace
    <3>3. Whole(record.archive, r)
      BY <3>1, <1>7, <2>2, <2>3 DEF Whole
    <3> QED
      BY <3>1, <3>2, <3>3, <2>2 DEF WillBeWhole, record
  <2>6. Consistent(sessions, calls, loads, active, requests', workspace)
    BY <1>1, <2>2, <2>4, <2>5, Given, RequestGoesOn
  <2> QED
    BY <1>1, <2>6, Given, Next_IInv DEF ActionsTyped
<1> QED
  BY <1>8, <1>9

\* What the page shows when a load begins.
LEMMA BeginShows ==
  ASSUME workspace \in WorkspaceRecord, NEW l, NEW r \in LoadRecord, NEW others, NEW queue,
         Begin(l, r, others, queue)
  PROVE  workspace' \in WorkspaceRecord /\ workspace'.browse = "loading"
<1> DEFINE v == IF r.preserve THEN workspace.view ELSE Root
           p == IF r.preserve THEN workspace.shown ELSE NoPage
<1>1. workspace' = [workspace EXCEPT !.archive = r.archive, !.browse = "loading",
                                     !.view = v, !.shown = p]
  BY DEF Begin
<1>2. v \in Folder /\ p \in Page /\ r.archive \in Archives
  BY NothingTyped, ListingAssumption DEF WorkspaceRecord, LoadRecord
<1> HIDE DEF v, p
<1> QED
  BY <1>1, <1>2 DEF WorkspaceRecord

\* A call is a call.
LEMMA CallTyped ==
  ASSUME NEW kind \in {"start", "close"}, NEW l \in Load \cup {0}, NEW a \in Archives,
         NEW s \in Session \cup {0}
  PROVE  /\ Calling(kind, l, a, s) \in CallRecord
         /\ Calling(kind, l, a, s).kind = kind /\ Calling(kind, l, a, s).load = l
         /\ Calling(kind, l, a, s).archive = a /\ Calling(kind, l, a, s).session = s
BY DEF Calling, CallRecord

\* A load that nothing is on its way for begins a generation.
LEMMA GenerationKeeps ==
  ASSUME NEW queue, NEW pending, NEW l \in Load, NEW r \in LoadRecord,
         Consistent(sessions', queue, loads, active, pending, workspace), ActionsTyped',
         NoneFor(l, queue), NoneOf(l, pending), r.archive \in Archive,
         Generation(l, r, queue, pending)
  PROVE  IInv'
<1> DEFINE old == [m \in Load |-> [loads[m] EXCEPT !.current = FALSE]]
           new == [r EXCEPT !.current = TRUE]
<1>1. /\ active' = NoActive /\ requests' = {[q EXCEPT !.current = FALSE] : q \in pending}
      /\ IF active.session = 0
         THEN Begin(l, new, old, queue)
         ELSE /\ loads' = [old EXCEPT ![l] = [new EXCEPT !.pc = "closing"]]
              /\ calls' = Append(queue, Calling("close", l, None, active.session))
              /\ UNCHANGED <<rendered, workspace>>
  BY DEF Generation
<1>2. /\ loads \in [Load -> LoadRecord] /\ active \in ActiveRecord
      /\ pending \in SUBSET RequestRecord /\ workspace \in WorkspaceRecord
  BY DEF Consistent, Typed
<1>3. /\ old \in [Load -> LoadRecord]
      /\ \A m \in Load :
           /\ old[m].pc = loads[m].pc /\ old[m].archive = loads[m].archive
           /\ old[m].session = loads[m].session /\ old[m].current = FALSE
  <2>1. ASSUME NEW m \in Load
        PROVE  /\ [loads[m] EXCEPT !.current = FALSE] \in LoadRecord
               /\ [loads[m] EXCEPT !.current = FALSE].pc = loads[m].pc
               /\ [loads[m] EXCEPT !.current = FALSE].archive = loads[m].archive
               /\ [loads[m] EXCEPT !.current = FALSE].session = loads[m].session
               /\ [loads[m] EXCEPT !.current = FALSE].current = FALSE
    <3>1. loads[m] \in LoadRecord
      BY <1>2
    <3> QED
      BY <3>1 DEF LoadRecord
  <2>2. \A m \in Load : old[m] = [loads[m] EXCEPT !.current = FALSE]
    OBVIOUS
  <2> QED
    BY <2>1, <2>2
<1>4. /\ new \in LoadRecord /\ new.current = TRUE /\ new.archive = r.archive
  BY DEF LoadRecord
<1>5. ASSUME NEW pc \in {"closing", "starting"}
      PROVE  /\ [new EXCEPT !.pc = pc] \in LoadRecord /\ [new EXCEPT !.pc = pc].pc = pc
             /\ [new EXCEPT !.pc = pc].current = TRUE
             /\ [new EXCEPT !.pc = pc].archive = r.archive
  BY <1>4 DEF LoadRecord
<1>6. requests' = {Overtaken(q) : q \in pending}
  BY <1>1 DEF Overtaken
<1>7. requests' \in Left(pending, loads[l].current)
  BY <1>6 DEF Left
<1> HIDE DEF old, new
<1>8. CASE active.session = 0
  <2> DEFINE c == Calling("start", l, new.archive, 0)
  <2>1. /\ loads' = [old EXCEPT ![l] = [new EXCEPT !.pc = "starting"]]
        /\ calls' = Append(queue, c) /\ Begin(l, new, old, queue)
    BY <1>1, <1>8 DEF Begin
  <2>2. /\ c \in CallRecord /\ c.kind = "start" /\ c.load = l /\ c.session = 0
        /\ c.archive \in Archive
    BY <1>4, CallTyped DEF Archives
  <2> HIDE DEF c
  <2>3. workspace' \in WorkspaceRecord
    BY <1>2, <1>4, <2>1, BeginShows
  <2>4. /\ loads' \in [Load -> LoadRecord]
        /\ \A m \in Load \ {l} : loads'[m] = old[m]
        /\ loads'[l] = [new EXCEPT !.pc = "starting"]
    BY <1>3, <1>5, <2>1
  <2>5. loads'[l].archive \in Archive /\ loads'[l].pc = "starting"
    BY <1>5, <2>4
  <2>6. \A m \in Load \ {l} :
           /\ loads'[m].pc = loads[m].pc /\ loads'[m].archive = loads[m].archive
           /\ loads'[m].session = loads[m].session /\ ~loads'[m].current
    BY <1>3, <2>4
  <2>7. Consistent(sessions', Append(queue, c), loads', NoActive, requests', workspace')
    <3>1. loads' \in [Load -> LoadRecord] /\ c \in CallRecord /\ c.load = l
      BY <2>2, <2>4
    <3>2. /\ c.kind = "start" /\ c.session = 0 /\ c.archive \in Archive
          /\ active.session = 0 /\ loads'[l].pc = "starting"
      BY <1>8, <2>2, <2>5
    <3> QED
      BY <1>7, <2>3, <2>5, <2>6, <3>1, <3>2, NewTurn
  <2> QED
    BY <1>1, <2>1, <2>7, Next_IInv
<1>9. CASE active.session # 0
  <2> DEFINE c == Calling("close", l, None, active.session)
  <2>1. /\ loads' = [old EXCEPT ![l] = [new EXCEPT !.pc = "closing"]]
        /\ calls' = Append(queue, c) /\ workspace' = workspace
    BY <1>1, <1>9
  <2>2. /\ c \in CallRecord /\ c.kind = "close" /\ c.load = l /\ c.session = active.session
    <3>1. /\ active.session \in Session \cup {0} /\ None \in Archives
          /\ l \in Load \cup {0} /\ "close" \in {"start", "close"}
      BY <1>2 DEF Archives, ActiveRecord
    <3> QED
      BY <3>1, CallTyped
  <2> HIDE DEF c
  <2>4. /\ loads' \in [Load -> LoadRecord]
        /\ \A m \in Load \ {l} : loads'[m] = old[m]
        /\ loads'[l] = [new EXCEPT !.pc = "closing"]
    BY <1>3, <1>5, <2>1
  <2>5. loads'[l].archive \in Archive /\ loads'[l].pc = "closing"
    BY <1>5, <2>4
  <2>6. \A m \in Load \ {l} :
           /\ loads'[m].pc = loads[m].pc /\ loads'[m].archive = loads[m].archive
           /\ loads'[m].session = loads[m].session /\ ~loads'[m].current
    BY <1>3, <2>4
  <2>7. Consistent(sessions', Append(queue, c), loads', NoActive, requests', workspace)
    <3>1. loads' \in [Load -> LoadRecord] /\ c \in CallRecord /\ c.load = l
      BY <2>2, <2>4
    <3>2. /\ c.kind = "close" /\ c.session = active.session /\ active.session # 0
          /\ loads'[l].pc \in {"closing", "retrying"}
      BY <1>9, <2>2, <2>5
    <3> QED
      BY <1>2, <1>7, <2>5, <2>6, <3>1, <3>2, NewTurn
  <2> QED
    BY <1>1, <2>1, <2>7, Next_IInv
<1> QED
  BY <1>8, <1>9
\* The bounds count what the user did.
LEMMA Counting ==
  ASSUME ActionsTyped, Opens \/ Pages
  PROVE  ActionsTyped'
<1>1. actions.opens \in Nat /\ actions.pages \in Nat /\ MaxOpens \in Nat /\ MaxActions \in Nat
  BY LimitAssumption DEF ActionsTyped
<1>2. CASE Opens
  <2>1. /\ actions' = [actions EXCEPT !.opens = actions.opens + 1]
        /\ actions.opens + 1 \in 0 .. MaxOpens
    BY <1>1, <1>2 DEF Opens
  <2> QED
    BY <2>1 DEF ActionsTyped
<1>3. CASE Pages
  <2>1. /\ actions' = [actions EXCEPT !.pages = actions.pages + 1]
        /\ actions.pages + 1 \in 0 .. MaxActions
    BY <1>1, <1>3 DEF Pages, Acts
  <2> QED
    BY <2>1 DEF ActionsTyped
<1> QED
  BY <1>2, <1>3

\* A load that nothing is on its way for may end, with its failure shown or not.
LEMMA EndKeeps ==
  ASSUME NEW queue, NEW pending, NEW l \in Load,
         Consistent(sessions', queue, loads, active, pending, workspace), ActionsTyped,
         NoneFor(l, queue), NoneOf(l, pending),
         loads[l].current /\ active.session # 0 =>
           /\ sessions'[active.session].status # "indexing"
           /\ sessions'[active.session].status = "ready" => loads[l].pc = "final",
         Over(l), calls' = queue, requests' = pending, UNCHANGED <<active, actions>>,
         \/ workspace' = workspace
         \/ workspace' = [workspace EXCEPT !.browse = "error"]
  PROVE  IInv'
<1>1. workspace \in WorkspaceRecord
  BY DEF Consistent, Typed
<1>2. /\ workspace' \in WorkspaceRecord
      /\ workspace' = workspace \/ workspace'.browse # "loaded"
  BY <1>1 DEF WorkspaceRecord
<1>3. loads' = [loads EXCEPT ![l] = NoLoad]
  BY DEF Over
<1>4. Consistent(sessions', queue, [loads EXCEPT ![l] = NoLoad], active, pending, workspace')
  BY <1>2, LoadEnds
<1> QED
  BY <1>3, <1>4, Next_IInv DEF ActionsTyped

\* The password prompt is answered: another turn, or the failure.
LEMMA PromptKeeps ==
  ASSUME NEW queue, NEW pending, NEW l \in Load,
         Consistent(sessions', queue, loads, active, pending, workspace), ActionsTyped,
         NoneFor(l, queue), NoneOf(l, pending), loads[l].pc # "idle",
         loads[l].current => active.session = 0,
         Prompt(l, queue, pending)
  PROVE  IInv'
<1>1. CASE Opens /\ Generation(l, loads[l], queue, pending)
  <2>1. ActionsTyped'
    BY <1>1, Counting
  <2>2. loads[l] \in LoadRecord /\ loads[l].archive \in Archive
    BY DEF Consistent, Typed, Turns, Turn
  <2>3. Generation(l, loads[l], queue, pending)
    BY <1>1
  <2> QED
    BY <2>1, <2>2, <2>3, GenerationKeeps
<1>2. CASE /\ LoadFailed(l)
           /\ calls' = queue /\ requests' = pending
           /\ UNCHANGED <<active, rendered, actions>>
  BY <1>2, EndKeeps DEF LoadFailed
<1> QED
  BY <1>1, <1>2 DEF Prompt

\* The catch clause, for the failure of a session, or of a start.
LEMMA CatchKeeps ==
  ASSUME NEW queue, NEW pending, NEW l \in Load, NEW error,
         Consistent(sessions', queue, loads, active, pending, workspace), ActionsTyped,
         NoneFor(l, queue), NoneOf(l, pending), loads[l].pc # "idle",
         loads[l].current /\ active.session # 0 =>
           sessions'[active.session].status \notin {"indexing", "ready"},
         Catch(l, error, queue, pending)
  PROVE  IInv'
<1>1. /\ loads \in [Load -> LoadRecord] /\ active \in ActiveRecord
      /\ workspace \in WorkspaceRecord /\ Turns(sessions', loads, active)
  BY DEF Consistent, Typed
<1>2. CASE ~loads[l].current
  <2>1. /\ Over(l) /\ calls' = queue /\ requests' = pending
        /\ UNCHANGED <<active, rendered, workspace, actions>>
    BY <1>2 DEF Catch
  <2> QED
    BY <1>2, <2>1, EndKeeps
<1>3. CASE loads[l].current /\ error # "locked"
  <2>1. /\ LoadFailed(l) /\ calls' = queue /\ requests' = pending
        /\ UNCHANGED <<active, rendered, actions>>
    BY <1>3 DEF Catch
  <2> QED
    BY <2>1, EndKeeps DEF LoadFailed
<1>4. CASE loads[l].current /\ error = "locked" /\ active.session = 0
  <2>1. Prompt(l, queue, pending)
    BY <1>4 DEF Catch
  <2> QED
    BY <1>4, <2>1, PromptKeeps
<1>5. CASE loads[l].current /\ error = "locked" /\ active.session # 0
  <2> DEFINE c == Calling("close", l, None, active.session)
  <2>1. /\ loads' = [loads EXCEPT ![l].pc = "retrying"]
        /\ calls' = Append(queue, c)
        /\ active' = NoActive /\ requests' = pending
        /\ UNCHANGED <<rendered, workspace, actions>>
    BY <1>5 DEF Catch, GoTo
  <2>2. /\ c \in CallRecord /\ c.kind = "close" /\ c.load = l /\ c.session = active.session
    <3>1. /\ active.session \in Session \cup {0} /\ None \in Archives
          /\ l \in Load \cup {0} /\ "close" \in {"start", "close"}
      BY <1>1 DEF Archives, ActiveRecord
    <3> QED
      BY <3>1, CallTyped
  <2> HIDE DEF c
  <2>3. /\ loads' \in [Load -> LoadRecord] /\ loads'[l].pc = "retrying"
        /\ loads'[l].archive = loads[l].archive
        /\ \A m \in Load \ {l} : loads'[m] = loads[m]
    BY <1>1, <2>1 DEF LoadRecord
  <2>4. \A m \in Load \ {l} :
           /\ loads'[m].pc = loads[m].pc /\ loads'[m].archive = loads[m].archive
           /\ loads'[m].session = loads[m].session /\ ~loads'[m].current
    BY <1>1, <1>5, <2>3 DEF Turns
  <2>5. loads'[l].archive \in Archive
    BY <1>1, <2>3 DEF Turns, Turn
  <2>6. pending \in Left(pending, loads[l].current)
    BY <1>5 DEF Left
  <2>7. Consistent(sessions', Append(queue, c), loads', NoActive, pending, workspace)
    <3>1. loads' \in [Load -> LoadRecord] /\ c \in CallRecord /\ c.load = l
      BY <2>2, <2>3
    <3>2. /\ c.kind = "close" /\ c.session = active.session /\ active.session # 0
          /\ loads'[l].pc \in {"closing", "retrying"}
      BY <1>5, <2>2, <2>3
    <3> QED
      BY <1>1, <2>4, <2>5, <2>6, <3>1, <3>2, NewTurn
  <2> QED
    BY <2>1, <2>7, Next_IInv DEF ActionsTyped
<1> QED
  BY <1>2, <1>3, <1>4, <1>5
\* A close takes its session out; the load that waited for it goes on.
LEMMA CloseCommandKeeps ==
  ASSUME IInv, CloseCommand
  PROVE  IInv'
<1> DEFINE s == Head(calls).session
           l == Head(calls).load
<1>1. /\ Consistent(sessions, calls, loads, active, requests, workspace)
      /\ sessions \in [Session -> SessionRecord] /\ calls \in Seq(CallRecord)
      /\ loads \in [Load -> LoadRecord] /\ active \in ActiveRecord
      /\ workspace \in WorkspaceRecord
      /\ Commands(sessions, calls, loads, active) /\ Turns(sessions, loads, active)
      /\ Asked(sessions, loads, requests) /\ ActionsTyped
  BY Given
<1>2. calls # <<>> /\ Head(calls).kind = "close" /\ Close(s)
  BY DEF CloseCommand
<1>3. /\ Tail(calls) \in Seq(CallRecord) /\ Commands(sessions, Tail(calls), loads, active)
      /\ Head(calls) \in CallRecord /\ Awaited(Head(calls), sessions, loads, active)
      /\ l # 0 => NoneFor(l, Tail(calls))
  BY <1>1, <1>2, TailCommands
<1>4. /\ s \in Session /\ s # active.session /\ sessions[s].status # "absent"
      /\ l # 0 => l \in Load /\ loads[l].pc \in {"closing", "retrying"}
  BY <1>2, <1>3 DEF Awaited, CallRecord
<1> HIDE DEF s, l
<1>5. /\ sessions' \in [Session -> SessionRecord] /\ sessions'[s].status = "closed"
      /\ \A r \in Session \ {s} : sessions'[r] = sessions[r]
  <2>1. "closed" \in Status
    BY DEF Status
  <2> QED
    BY <2>1, <1>1, <1>2, <1>4 DEF Close, SessionRecord
<1>6. Indexed(sessions')
  <2>1. Indexed(sessions)
    BY <1>1 DEF Consistent
  <2> QED
    BY <2>1, <1>5 DEF Indexed, Open
<1>7. Accounted(sessions', Tail(calls), active)
  <2>1. Accounted(sessions, calls, active)
    BY <1>1 DEF Consistent
  <2>2. \A r \in Session : Open(sessions'[r]) => Open(sessions[r]) /\ r # Head(calls).session
    BY <1>5 DEF Open, s
  <2> QED
    BY <1>1, <1>2, <2>1, <2>2, TailAccounts
<1>8. Consistent(sessions', Tail(calls), loads, active, requests, workspace)
  <2>1. \A r \in Session : sessions[r].status # "absent" =>
           /\ sessions'[r].status # "absent"
           /\ sessions[r].status \notin {"indexing", "ready"} =>
                sessions'[r].status \notin {"indexing", "ready"}
    BY <1>5
  <2>2. active.session # 0 =>
           /\ Open(sessions'[active.session])
           /\ sessions[active.session].status # "indexing" =>
                sessions'[active.session] = sessions[active.session]
    BY <1>1, <1>4, <1>5 DEF Turns, ActiveRecord
  <2> QED
    BY <1>1, <1>3, <1>5, <1>6, <1>7, <2>1, <2>2, SessionsGoOn
<1>9. l # 0 => NoneOf(l, requests)
  BY <1>1, <1>4, NothingOnItsWay
<1>10. CASE l = 0
  <2>1. /\ calls' = Tail(calls)
        /\ UNCHANGED <<loads, active, requests, rendered, workspace, actions>>
    BY <1>10 DEF CloseCommand, l
  <2> QED
    BY <1>1, <1>8, <2>1, Next_IInv DEF ActionsTyped
<1>11. CASE l # 0 /\ loads[l].pc = "closing"
  <2> DEFINE c == Calling("start", l, loads[l].archive, 0)
  <2>1. Begin(l, loads[l], loads, Tail(calls)) /\ UNCHANGED <<active, requests, actions>>
    BY <1>11 DEF CloseCommand, l
  <2>2. /\ loads' = [loads EXCEPT ![l] = [loads[l] EXCEPT !.pc = "starting"]]
        /\ calls' = Append(Tail(calls), c)
    BY <2>1 DEF Begin
  <2>3. /\ c \in CallRecord /\ c.kind = "start" /\ c.load = l /\ c.session = 0
        /\ c.archive = loads[l].archive
    <3>1. /\ loads[l].archive \in Archives /\ 0 \in Session \cup {0}
          /\ l \in Load \cup {0} /\ "start" \in {"start", "close"}
      BY <1>1, <1>4, <1>11 DEF LoadRecord
    <3> QED
      BY <3>1, CallTyped
  <2> HIDE DEF c
  <2>4. /\ loads' \in [Load -> LoadRecord] /\ loads'[l].pc = "starting"
        /\ loads'[l].archive = loads[l].archive /\ loads'[l].current = loads[l].current
        /\ \A m \in Load \ {l} : loads'[m] = loads[m]
    BY <1>1, <1>4, <1>11, <2>2 DEF LoadRecord
  <2>5. workspace' \in WorkspaceRecord /\ workspace'.browse # "loaded"
    <3>1. loads[l] \in LoadRecord
      BY <1>1, <1>4, <1>11
    <3> QED
      BY <1>1, <2>1, <3>1, BeginShows
  <2>6. Consistent(sessions', Append(Tail(calls), c), loads', active, requests, workspace')
    BY <1>3, <1>4, <1>8, <1>9, <1>11, <2>3, <2>4, <2>5, LoadStarts
  <2> QED
    BY <1>1, <2>1, <2>2, <2>6, Next_IInv DEF ActionsTyped
<1>12. CASE l # 0 /\ loads[l].pc # "closing"
  <2>1. Prompt(l, Tail(calls), requests)
    BY <1>12 DEF CloseCommand, l
  <2>2. loads[l].pc = "retrying"
    BY <1>4, <1>12
  <2>3. loads[l].current => active.session = 0
    BY <1>1, <1>4, <1>12, <2>2 DEF Turns, Turn, Following
  <2> QED
    BY <1>1, <1>3, <1>4, <1>8, <1>9, <1>12, <2>1, <2>2, <2>3, PromptKeeps
<1> QED
  BY <1>10, <1>11, <1>12

\* A start enters its session, for the current load or to be closed at once; or
\* it is refused.
LEMMA StartCommandKeeps ==
  ASSUME IInv, StartCommand
  PROVE  IInv'
<1> DEFINE l == Head(calls).load
           a == Head(calls).archive
<1>1. /\ Consistent(sessions, calls, loads, active, requests, workspace)
      /\ sessions \in [Session -> SessionRecord] /\ calls \in Seq(CallRecord)
      /\ loads \in [Load -> LoadRecord]
      /\ Commands(sessions, calls, loads, active) /\ Turns(sessions, loads, active)
      /\ Asked(sessions, loads, requests) /\ ActionsTyped
  BY Given
<1>2. calls # <<>> /\ Head(calls).kind = "start"
  BY DEF StartCommand
<1>3. /\ Tail(calls) \in Seq(CallRecord) /\ Commands(sessions, Tail(calls), loads, active)
      /\ Head(calls) \in CallRecord /\ Awaited(Head(calls), sessions, loads, active)
      /\ l # 0 => NoneFor(l, Tail(calls))
  BY <1>1, <1>2, TailCommands
<1>4. /\ l \in Load /\ a \in Archive /\ loads[l].pc = "starting" /\ NoneFor(l, Tail(calls))
      /\ Head(calls).session = 0
  BY <1>2, <1>3 DEF Awaited, CallRecord
<1>5. NoneOf(l, requests)
  BY <1>1, <1>4, NothingOnItsWay
<1>6. ASSUME NEW s \in Session, Start(a, s)
      PROVE  /\ sessions[s].status = "absent"
             /\ sessions' \in [Session -> SessionRecord] /\ Indexed(sessions')
             /\ sessions'[s].status = "indexing"
             /\ \A r \in Session \ {s} : sessions'[r] = sessions[r]
  <2>1. sessions[s].status = "absent"
    <3>1. s <= s
      BY NotZero DEF Session
    <3> QED
      BY <1>6, <3>1 DEF Start
  <2>2. sessions' = [sessions EXCEPT ![s] = Entered(a)]
    BY <1>6 DEF Start, Entered
  <2>3. Indexed(sessions)
    BY <1>1 DEF Consistent
  <2> HIDE DEF l, a
  <2>4. /\ sessions'[s] = Entered(a)
        /\ \A r \in Session \ {s} : sessions'[r] = sessions[r]
    BY <1>1, <2>2
  <2>5. Indexed(sessions') /\ sessions'[s].status = "indexing" /\ Entered(a) \in SessionRecord
    BY <1>1, <1>4, <2>1, <2>3, <2>4, SessionBegins
  <2>6. sessions' \in [Session -> SessionRecord]
    BY <1>1, <2>2, <2>5
  <2> QED
    BY <2>1, <2>4, <2>5, <2>6
<1> HIDE DEF l, a
<1>7. ASSUME NEW s \in Session, Start(a, s), loads[l].current, Follow(l, s)
      PROVE  IInv'
  <2>1. /\ loads' = [loads EXCEPT ![l].pc = "waiting", ![l].session = s, ![l].revision = 1]
        /\ active' = [NoActive EXCEPT !.session = s] /\ calls' = Tail(calls)
        /\ UNCHANGED <<requests, rendered, workspace, actions>>
    BY <1>7 DEF Follow
  <2>2. loads[l] \in LoadRecord
    BY <1>1, <1>4
  <2>3. /\ loads' \in [Load -> LoadRecord]
        /\ \A m \in Load \ {l} : loads'[m] = loads[m]
        /\ loads'[l].pc = "waiting" /\ loads'[l].current /\ loads'[l].session = s
        /\ loads'[l].archive = loads[l].archive
    BY <1>1, <1>4, <1>7, <2>1, <2>2 DEF LoadRecord
  <2>4. active' \in ActiveRecord /\ active'.session = s /\ Numbered(active')
    <3>1. /\ active' \in ActiveRecord /\ active'.session = s
          /\ active'.cursor = NoActive.cursor /\ active'.next = NoActive.next
          /\ active'.previous = NoActive.previous /\ active'.number = NoActive.number
      BY <2>1, NothingTyped DEF ActiveRecord
    <3> QED
      BY <3>1, NothingTyped DEF Numbered
  <2>5. l = Head(calls).load
    BY DEF l
  <2>6. Consistent(sessions', Tail(calls), loads', active', requests, workspace)
    <3>1. /\ sessions[s].status = "absent"
          /\ sessions' \in [Session -> SessionRecord] /\ Indexed(sessions')
          /\ sessions'[s].status = "indexing"
          /\ \A r \in Session \ {s} : sessions'[r] = sessions[r]
      BY <1>6, <1>7
    <3>2. l \in Load /\ loads[l].current
      BY <1>4, <1>7
    <3>3. Consistent(sessions, calls, loads, active, requests, workspace)
      BY <1>1
    <3> QED
      BY <1>2, <2>3, <2>4, <2>5, <3>1, <3>2, <3>3, SessionFollowed
  <2> QED
    BY <1>1, <2>1, <2>6, Next_IInv DEF ActionsTyped
<1>8. ASSUME NEW s \in Session, Start(a, s), ~loads[l].current, Supersede(l, s)
      PROVE  IInv'
  <2> DEFINE c == Calling("close", 0, None, s)
  <2>1. /\ loads' = [loads EXCEPT ![l] = NoLoad] /\ calls' = Append(Tail(calls), c)
        /\ UNCHANGED <<active, requests, rendered, workspace, actions>>
    BY <1>8 DEF Supersede, Over
  <2>2. c \in CallRecord /\ c.kind = "close" /\ c.load = 0 /\ c.session = s
    <3>1. /\ s \in Session \cup {0} /\ None \in Archives
          /\ 0 \in Load \cup {0} /\ "close" \in {"start", "close"}
      BY DEF Archives
    <3> QED
      BY <3>1, CallTyped
  <2> HIDE DEF c
  <2>3. l = Head(calls).load
    BY DEF l
  <2>4. Consistent(sessions', Append(Tail(calls), c), [loads EXCEPT ![l] = NoLoad],
                   active, requests, workspace)
    BY <1>1, <1>2, <1>4, <1>6, <1>8, <2>2, <2>3, SessionSuperseded
  <2> QED
    BY <1>1, <2>1, <2>4, Next_IInv DEF ActionsTyped
<1>9. ASSUME Catch(l, "broken", Tail(calls), requests), UNCHANGED sessions
      PROVE  IInv'
  <2>1. Accounted(sessions, Tail(calls), active)
    <3>1. Accounted(sessions, calls, active)
      BY <1>1 DEF Consistent
    <3>2. \A r \in Session : Open(sessions[r]) => Open(sessions[r]) /\ r # Head(calls).session
      BY <1>4, NotZero
    <3> QED
      BY <1>1, <1>2, <3>1, <3>2, TailAccounts
  <2>2. Consistent(sessions', Tail(calls), loads, active, requests, workspace)
    BY <1>1, <1>3, <1>9, <2>1 DEF Consistent, Typed
  <2>3. loads[l].current => active.session = 0
    BY <1>1, <1>4 DEF Turns, Turn, Following
  <2> QED
    BY <1>1, <1>4, <1>5, <1>9, <2>2, <2>3, CatchKeeps
<1> QED
  BY <1>7, <1>8, <1>9 DEF StartCommand, l, a
\* The load whose page arrived goes on, or is done with its final page.
LEMMA LoadGoesOnKeeps ==
  ASSUME NEW l \in Load \cup {0},
         Consistent(sessions, calls, loads, active', requests', workspace'), ActionsTyped,
         l # 0 => NoneOf(l, requests') /\ loads[l].pc \in {"paging", "final"},
         LoadGoesOn(l), UNCHANGED <<sessions, calls, actions>>
  PROVE  IInv'
<1>1. Consistent(sessions, calls, loads', active', requests', workspace')
  <2>1. CASE l = 0
    BY <2>1 DEF LoadGoesOn
  <2>2. CASE l # 0 /\ loads[l].pc = "paging"
    <3>1. loads' = [loads EXCEPT ![l].pc = "waiting"]
      BY <2>2 DEF LoadGoesOn, GoTo
    <3> QED
      BY <2>2, <3>1, LoadWaits
  <2>3. CASE l # 0 /\ loads[l].pc # "paging"
    <3>1. loads' = [loads EXCEPT ![l] = NoLoad] /\ loads[l].pc = "final" /\ l \in Load
      BY <2>3 DEF LoadGoesOn, Over
    <3>2. /\ calls \in Seq(CallRecord) /\ workspace' \in WorkspaceRecord
          /\ Commands(sessions, calls, loads, active') /\ Turns(sessions, loads, active')
          /\ Asked(sessions, loads, requests')
      BY DEF Consistent, Typed
    <3>3. NoneFor(l, calls)
      BY <3>1, <3>2, NothingOnItsWay
    <3>4. loads[l].current /\ active'.session # 0 =>
            /\ sessions[active'.session].status # "indexing"
            /\ sessions[active'.session].status = "ready" => loads[l].pc = "final"
      BY <3>1, <3>2 DEF Turns, Turn, Following
    <3>5. NoneOf(l, requests')
      BY <2>3
    <3> QED
      BY <3>1, <3>2, <3>3, <3>4, <3>5, LoadEnds
  <2> QED
    BY <2>1, <2>2, <2>3
<1> QED
  BY <1>1, Next_IInv DEF ActionsTyped

\* An answer is shown, when it is the newest of its generation, or dropped.
LEMMA PageArrivesKeeps ==
  ASSUME IInv, NEW q \in requests, PageArrives(q)
  PROVE  IInv'
<1>1. /\ Consistent(sessions, calls, loads, active, requests, workspace) /\ ActionsTyped
      /\ workspace \in WorkspaceRecord
  BY Given
<1>2. /\ q \in RequestRecord /\ q.session \in Session
      /\ sessions[q.session] \in SessionRecord
      /\ IF q.load = 0 THEN q.always ELSE AskedBy(q, loads[q.load], sessions)
  BY RequestGiven
<1>3. /\ q.stage = "answered" /\ requests' = requests \ {q} /\ LoadGoesOn(q.load)
      /\ UNCHANGED <<sessions, calls, actions>>
      /\ IF Accepted(q) THEN ShowPage(q) ELSE UNCHANGED <<active, rendered, workspace>>
  BY DEF PageArrives
<1>4. Accepted(q) <=> Acceptable(q, active)
  BY DEF Accepted, Acceptable
<1>5. /\ Consistent(sessions, calls, loads, active', requests', workspace')
      /\ q.load # 0 => NoneOf(q.load, requests')
  <2>1. CASE Accepted(q)
    <3> DEFINE page == [folder |-> q.folder, search |-> q.search, number |-> q.number,
                        items |-> q.items, count |-> q.count]
               empty == /\ q.load # 0 /\ loads[q.load].pc = "final"
                        /\ loads[q.load].counted = 0 /\ q.count = 0
               browse == IF empty THEN "empty" ELSE "loaded"
    <3>1. /\ active' = [session |-> q.session, folder |-> IF q.search THEN Root ELSE q.folder,
                        search |-> q.search, cursor |-> q.cursor, next |-> q.next,
                        previous |-> q.previous, number |-> q.number]
          /\ \/ workspace' = workspace /\ ~q.always
             \/ workspace' = [archive |-> sessions[q.session].archive, browse |-> browse,
                              view |-> q.folder, shown |-> page]
      BY <2>1, <1>3 DEF ShowPage
    <3>2. (IF q.search THEN Root ELSE q.folder) \in Folder
      BY <1>2, ListingAssumption DEF RequestRecord
    <3>3. /\ active' \in ActiveRecord /\ active'.session = q.session
          /\ active'.cursor = q.cursor /\ active'.next = q.next
          /\ active'.previous = q.previous /\ active'.number = q.number
      BY <1>2, <3>1, <3>2 DEF RequestRecord, ActiveRecord
    <3>4. /\ page \in Page /\ page.folder = q.folder /\ page.search = q.search
          /\ page.number = q.number /\ page.items = q.items /\ page.count = q.count
      BY <1>2 DEF RequestRecord, Page
    <3> HIDE DEF page, empty
    <3>5. browse \in {"empty", "loaded"}
      OBVIOUS
    <3> HIDE DEF browse
    <3>6. /\ workspace' \in WorkspaceRecord
          /\ \/ workspace' = workspace /\ ~q.always
             \/ /\ workspace'.archive = sessions[q.session].archive
                /\ workspace'.view = q.folder
                /\ workspace'.shown.folder = q.folder /\ workspace'.shown.search = q.search
                /\ workspace'.shown.number = q.number /\ workspace'.shown.items = q.items
                /\ workspace'.shown.count = q.count
      BY <1>1, <1>2, <3>1, <3>4, <3>5 DEF WorkspaceRecord, RequestRecord, SessionRecord
    <3>7. q.stage = "answered" /\ Acceptable(q, active)
      BY <1>3, <1>4, <2>1
    <3> QED
      BY <1>1, <1>3, <3>3, <3>6, <3>7, PageShown
  <2>2. CASE ~Accepted(q)
    BY <2>2, <1>1, <1>3, <1>4, RequestDropped
  <2> QED
    BY <2>1, <2>2
<1>6. /\ q.load \in Load \cup {0}
      /\ q.load # 0 => loads[q.load].pc \in {"paging", "final"}
  BY <1>2 DEF RequestRecord, AskedBy
<1> QED
  BY <1>1, <1>3, <1>5, <1>6, LoadGoesOnKeeps

\* A refused request is never one the rows wait for; a load takes it as a failure.
LEMMA RefusalArrivesKeeps ==
  ASSUME IInv, NEW q \in requests, RefusalArrives(q)
  PROVE  IInv'
<1>1. /\ Consistent(sessions, calls, loads, active, requests, workspace) /\ ActionsTyped
      /\ calls \in Seq(CallRecord)
      /\ Commands(sessions, calls, loads, active) /\ Turns(sessions, loads, active)
      /\ Asked(sessions, loads, requests)
  BY Given
<1>2. /\ q \in RequestRecord
      /\ IF q.load = 0 THEN q.always ELSE AskedBy(q, loads[q.load], sessions)
      /\ Past(sessions, loads, active) /\ Acceptable(q, active) =>
           WillBeWhole(q, sessions[q.session])
  BY RequestGiven
<1>3. q.stage = "refused" /\ UNCHANGED sessions
  BY DEF RefusalArrives
<1>4. /\ Consistent(sessions, calls, loads, active, requests \ {q}, workspace)
      /\ q.load # 0 => NoneOf(q.load, requests \ {q})
  <2>1. Past(sessions, loads, active) => ~Acceptable(q, active)
    BY <1>2, <1>3 DEF WillBeWhole
  <2> QED
    BY <1>1, <2>1, RequestDropped
<1>5. CASE q.load = 0
  <2>1. /\ requests' = requests \ {q}
        /\ UNCHANGED <<calls, loads, active, rendered, workspace, actions>>
    BY <1>5 DEF RefusalArrives
  <2> QED
    BY <1>1, <1>3, <1>4, <2>1, Next_IInv DEF ActionsTyped
<1>6. CASE q.load # 0
  <2> DEFINE l == q.load
  <2>1. l \in Load /\ loads[l].pc \in {"paging", "final"} /\ NoneOf(l, requests \ {q})
    BY <1>2, <1>4, <1>6 DEF RequestRecord, AskedBy
  <2>2. NoneFor(l, calls)
    BY <1>1, <2>1, NothingOnItsWay
  <2>3. loads[l].current /\ active.session # 0 =>
          sessions[active.session].status \notin {"indexing", "ready"}
    BY <1>1, <1>2, <1>3, <1>6, <2>1 DEF AskedBy, Turns, Turn, Following
  <2>4. Catch(l, q.error, calls, requests \ {q})
    BY <1>6 DEF RefusalArrives
  <2> HIDE DEF l
  <2> QED
    BY <1>1, <1>3, <1>4, <2>1, <2>2, <2>3, <2>4, CatchKeeps
<1> QED
  BY <1>5, <1>6
\* A request for a first page asks for it.
LEMMA FirstPageTyped ==
  ASSUME NEW l \in Load \cup {0}, NEW s \in Session, NEW f \in Folder,
         NEW always \in BOOLEAN, NEW q, q = FirstPage(l, s, f, always)
  PROVE  /\ q \in RequestRecord /\ q.load = l /\ q.latest /\ q.current
         /\ q.always = always /\ q.session = s /\ ~q.search /\ q.cursor = NoCursor
         /\ q.previous = <<>> /\ q.stage = "sent" /\ q.next = NoCursor /\ Numbered(q)
<1>1. <<>> \in Seq(Cursor) /\ Len(<<>>) = 0 /\ 1 \in Nat \ {0}
  BY EmptySeq
<1>2. /\ q \in RequestRecord /\ q.load = l /\ q.latest /\ q.current
      /\ q.always = always /\ q.session = s /\ ~q.search /\ q.cursor = NoCursor
      /\ q.previous = <<>> /\ q.stage = "sent" /\ q.next = NoCursor /\ q.number = 1
  BY <1>1, NothingTyped DEF FirstPage, Asking, RequestRecord, Failures
<1>3. Numbered(q)
  BY <1>1, <1>2, NothingTyped, PageBegins DEF Numbered
<1> QED
  BY <1>2, <1>3

\* What a request with one more leaves of the others.
LEMMA WithIsOlder ==
  ASSUME NEW q
  PROVE  With(q) = {Older(p) : p \in requests} \cup {q}
BY DEF With, Older

\* A load wakes up with a snapshot of its session.
LEMMA WakeKeeps ==
  ASSUME IInv, NEW l \in Load, Wake(l)
  PROVE  IInv'
<1> DEFINE s == loads[l].session
           r == sessions[s]
           mine == loads[l].current /\ active.session = s
           seen(pc) == loads' = [loads EXCEPT ![l].pc = pc, ![l].revision = r.revision,
                                              ![l].counted = r.counted]
           page(always) == requests' = With(FirstPage(l, s, loads[l].folder, always))
<1>1. /\ Consistent(sessions, calls, loads, active, requests, workspace) /\ ActionsTyped
      /\ sessions \in [Session -> SessionRecord] /\ calls \in Seq(CallRecord)
      /\ loads \in [Load -> LoadRecord]
      /\ Commands(sessions, calls, loads, active) /\ Turns(sessions, loads, active)
      /\ Asked(sessions, loads, requests)
  BY Given
<1>2. /\ loads[l].pc = "waiting" /\ UNCHANGED sessions
      /\ CASE ~mine ->
               /\ Over(l)
               /\ UNCHANGED <<calls, active, requests, rendered, workspace, actions>>
          [] mine /\ r.status = "indexing" ->
               /\ TakeOver(l)
               /\ IF r.counted = 0 THEN seen("waiting") /\ UNCHANGED requests
                                  ELSE seen("paging") /\ page(FALSE)
               /\ UNCHANGED <<calls, rendered, workspace, actions>>
          [] mine /\ r.status = "ready" ->
               /\ TakeOver(l) /\ seen("final") /\ page(TRUE)
               /\ UNCHANGED <<calls, rendered, workspace, actions>>
          [] OTHER -> Catch(l, r.status, calls, requests)
  BY DEF Wake
<1>3. NoneFor(l, calls) /\ NoneOf(l, requests)
  BY <1>1, <1>2, NothingOnItsWay
<1>4. /\ s \in Session /\ loads[l] \in LoadRecord /\ r \in SessionRecord
      /\ loads[l].current => active.session = s
  <2>1. s \in Session /\ (loads[l].current => active.session = s)
    BY <1>1, <1>2 DEF Turns, Turn, Following, LoadRecord
  <2> QED
    BY <1>1, <2>1
<1>5. CASE ~mine
  <2>1. /\ Over(l)
        /\ UNCHANGED <<calls, active, requests, rendered, workspace, actions>>
    BY <1>2, <1>5
  <2>2. ~loads[l].current
    BY <1>4, <1>5
  <2> QED
    BY <1>1, <1>2, <1>3, <2>1, <2>2, EndKeeps
<1>6. ASSUME mine, TakeOver(l), NEW pc \in {"waiting", "paging", "final"}, seen(pc),
             \/ pc = "waiting" /\ requests' = requests
             \/ pc = "paging" /\ page(FALSE)
             \/ pc = "final" /\ page(TRUE) /\ r.status = "ready",
             UNCHANGED <<calls, rendered, workspace, actions>>
      PROVE  IInv'
  <2>1. /\ loads' \in [Load -> LoadRecord] /\ loads'[l].pc = pc
        /\ loads'[l].archive = loads[l].archive /\ loads'[l].session = s
        /\ loads'[l].current = loads[l].current
        /\ \A m \in Load \ {l} : loads'[m] = loads[m]
    <3>1. r.revision \in Nat /\ r.counted \in Nat
      BY <1>4 DEF SessionRecord
    <3> DEFINE rev == r.revision
               count == r.counted
    <3>2. loads' = [loads EXCEPT ![l].pc = pc, ![l].revision = rev, ![l].counted = count]
      BY <1>6
    <3> HIDE DEF rev, count, r
    <3>3. rev \in Nat /\ count \in Nat
      BY <3>1 DEF rev, count
    <3> QED
      BY <1>1, <1>4, <3>2, <3>3 DEF LoadRecord
  <2>2. /\ active' \in ActiveRecord /\ active'.session = s
        /\ active'.cursor = NoCursor /\ active'.next = NoCursor /\ active'.previous = <<>>
        /\ Numbered(active')
    <3>1. active' = [NoActive EXCEPT !.session = s, !.folder = loads[l].folder]
      BY <1>6 DEF TakeOver
    <3>2. loads[l].folder \in Folder /\ s \in Session \cup {0}
      BY <1>4 DEF LoadRecord
    <3>3. /\ active' \in ActiveRecord /\ active'.session = s
          /\ active'.cursor = NoActive.cursor /\ active'.next = NoActive.next
          /\ active'.previous = NoActive.previous /\ active'.number = NoActive.number
      BY <3>1, <3>2, NothingTyped DEF ActiveRecord
    <3>4. NoActive.cursor = NoCursor /\ NoActive.next = NoCursor /\ NoActive.previous = <<>>
      BY DEF NoActive
    <3> QED
      BY <3>3, <3>4, NothingTyped DEF Numbered
  <2>3. ASSUME NEW always \in BOOLEAN, page(always)
        PROVE  \E q \in RequestRecord :
                 /\ requests' = {Older(p) : p \in requests} \cup {q}
                 /\ q.load = l /\ q.latest /\ q.current /\ q.session = s
                 /\ Numbered(q) /\ q.cursor = NoCursor /\ q.next = NoCursor /\ ~q.search
                 /\ q.previous = <<>> /\ q.stage = "sent" /\ q.always = always
    <3> DEFINE q == FirstPage(l, s, loads[l].folder, always)
    <3>1. requests' = {Older(p) : p \in requests} \cup {q}
      BY <2>3, WithIsOlder
    <3>2. loads[l].folder \in Folder /\ l \in Load \cup {0}
      BY <1>4 DEF LoadRecord
    <3> HIDE DEF s
    <3>3. /\ q \in RequestRecord /\ q.load = l /\ q.latest /\ q.current
          /\ q.always = always /\ q.session = s /\ ~q.search /\ q.cursor = NoCursor
          /\ q.previous = <<>> /\ q.stage = "sent" /\ q.next = NoCursor /\ Numbered(q)
      BY <1>4, <3>2, FirstPageTyped
    <3> HIDE DEF q
    <3> QED
      BY <3>1, <3>3
  <2> HIDE DEF s, r
  <2>4. loads'[l].current /\ loads[l].current /\ active.session = s
    BY <1>6, <2>1
  <2>5. AfterSnapshot(l, pc, s, r.status, requests, requests')
    BY <1>6, <2>3 DEF AfterSnapshot
  <2>6. AfterSnapshot(l, loads'[l].pc, active.session, sessions[active.session].status,
                      requests, requests')
    BY <2>1, <2>4, <2>5 DEF r
  <2>7. Consistent(sessions, calls, loads', active', requests', workspace)
    BY <1>1, <1>2, <2>1, <2>2, <2>4, <2>6, SnapshotTaken DEF s
  <2> QED
    BY <1>1, <1>2, <1>6, <2>7, Next_IInv DEF ActionsTyped
<1>7. CASE mine /\ r.status = "indexing"
  <2>1. /\ TakeOver(l)
        /\ IF r.counted = 0 THEN seen("waiting") /\ UNCHANGED requests
                            ELSE seen("paging") /\ page(FALSE)
        /\ UNCHANGED <<calls, rendered, workspace, actions>>
    BY <1>2, <1>7
  <2>2. CASE r.counted = 0
    BY <1>6, <1>7, <2>1, <2>2
  <2>3. CASE r.counted # 0
    BY <1>6, <1>7, <2>1, <2>3
  <2> QED
    BY <2>2, <2>3
<1>8. CASE mine /\ r.status = "ready"
  <2>1. /\ TakeOver(l) /\ seen("final") /\ page(TRUE)
        /\ UNCHANGED <<calls, rendered, workspace, actions>>
    BY <1>2, <1>8
  <2> QED
    BY <1>6, <1>8, <2>1
<1>9. CASE mine /\ r.status \notin {"indexing", "ready"}
  <2>1. Catch(l, r.status, calls, requests)
    BY <1>2, <1>9
  <2>2. /\ loads[l].pc # "idle"
        /\ loads[l].current /\ active.session # 0 =>
             sessions[active.session].status \notin {"indexing", "ready"}
    BY <1>2, <1>9
  <2> QED
    BY <1>1, <1>2, <1>3, <2>1, <2>2, CatchKeeps
<1> QED
  BY <1>5, <1>7, <1>8, <1>9
\* The user opens an archive or refreshes it: an idle load begins.
LEMMA LoadArchiveKeeps ==
  ASSUME IInv, NEW a \in Archive, NEW preserve \in BOOLEAN, LoadArchive(a, preserve)
  PROVE  IInv'
<1>1. /\ Consistent(sessions, calls, loads, active, requests, workspace) /\ ActionsTyped
      /\ calls \in Seq(CallRecord) /\ workspace \in WorkspaceRecord
      /\ Commands(sessions, calls, loads, active) /\ Asked(sessions, loads, requests)
  BY Given
<1> DEFINE f == IF preserve THEN workspace.view ELSE Root
           r == [NoLoad EXCEPT !.archive = a, !.preserve = preserve, !.folder = f]
<1>2. PICK l \in Load : loads[l].pc = "idle" /\ Generation(l, r, calls, requests)
  BY DEF LoadArchive
<1>3. ActionsTyped' /\ UNCHANGED sessions
  BY <1>1, Counting DEF LoadArchive
<1>4. f \in Folder /\ a \in Archives
  BY <1>1, ListingAssumption DEF WorkspaceRecord, Archives
<1> HIDE DEF f
<1>5. r \in LoadRecord /\ r.archive = a
  BY <1>4, NothingTyped DEF LoadRecord
<1> HIDE DEF r
<1>6. NoneFor(l, calls) /\ NoneOf(l, requests)
  BY <1>1, <1>2, NothingOnItsWay
<1>7. Consistent(sessions', calls, loads, active, requests, workspace)
  BY <1>1, <1>3
<1> QED
  BY <1>2, <1>3, <1>5, <1>6, <1>7, GenerationKeeps

\* The place of a page: where it begins, and those before it.
Place(cursor, number, previous) ==
  /\ cursor \in Cursor /\ number \in Nat \ {0} /\ previous \in Seq(Cursor)
  /\ number = Len(previous) + 1 /\ cursor.offset = (number - 1) * PageLimit
  /\ \A n \in 1 .. Len(previous) : previous[n].offset = (n - 1) * PageLimit

\* A session at that revision still accepts its cursors.
Accepts(revision, cursor, previous) ==
  /\ Good(cursor, revision)
  /\ \A n \in 1 .. Len(previous) : Good(previous[n], revision)

\* The user asks for a page of the active session, if there is one.
LEMMA AskPageKeeps ==
  ASSUME IInv, ActionsTyped', workspace' \in WorkspaceRecord,
         NEW f \in Folder, NEW search \in BOOLEAN, NEW cursor, NEW number, NEW previous,
         Place(cursor, number, previous),
         Past(sessions, loads, active) =>
           Accepts(sessions[active.session].revision, cursor, previous),
         AskPage(f, search, cursor, number, previous)
  PROVE  IInv'
<1>1. /\ Consistent(sessions, calls, loads, active, requests, workspace)
      /\ active \in ActiveRecord
  BY Given
<1>2. UNCHANGED <<sessions, calls, loads, active, rendered>>
  BY DEF AskPage
<1>3. CASE active.session = 0
  <2>1. requests' = requests
    BY <1>3 DEF AskPage
  <2>2. WholePages(sessions, loads, active, requests, workspace')
    BY <1>3 DEF WholePages, Past
  <2>3. Consistent(sessions, calls, loads, active, requests, workspace')
    BY <1>1, <2>2 DEF Consistent, Typed
  <2> QED
    BY <1>2, <2>1, <2>3, Next_IInv
<1>4. CASE active.session # 0
  <2> DEFINE q == Asking(0, active.session, f, search, cursor, number, previous, TRUE)
  <2>1. requests' = {Older(p) : p \in requests} \cup {q}
    BY <1>4, WithIsOlder DEF AskPage
  <2>2. active.session \in Session
    BY <1>1, <1>4 DEF ActiveRecord
  <2>3. /\ q \in RequestRecord /\ q.load = 0 /\ q.latest /\ q.current /\ q.always
        /\ q.session = active.session /\ q.cursor = cursor /\ q.number = number
        /\ q.previous = previous /\ q.stage = "sent" /\ q.next = NoCursor
    BY <2>2, NothingTyped DEF Asking, RequestRecord, Failures, Place
  <2> HIDE DEF q
  <2>4. Numbered(q)
    BY <2>3 DEF Numbered, Place
  <2>5. Past(sessions, loads, active) => GoodPlace(q, sessions[active.session].revision)
    BY <2>3 DEF GoodPlace, Accepts, Good
  <2>6. Consistent(sessions, calls, loads, active, requests', workspace')
    BY <1>1, <1>4, <2>1, <2>3, <2>4, <2>5, UserAsks
  <2> QED
    BY <1>2, <2>6, Next_IInv
<1> QED
  BY <1>3, <1>4

\* A first page is a place, and accepted by every session.
LEMMA FirstPlace ==
  Place(NoCursor, 1, <<>>) /\ \A revision : Accepts(revision, NoCursor, <<>>)
<1>1. <<>> \in Seq(Cursor) /\ Len(<<>>) = 0 /\ 1 \in Nat \ {0}
  BY EmptySeq
<1> QED
  BY <1>1, NothingTyped, PageBegins DEF Place, Accepts, Good

\* First pages: of a folder the user goes to, of the folder once more, of a search.
LEMMA FirstPagesKeep ==
  ASSUME IInv, (\E f \in Folder : Navigate(f)) \/ Reload \/ LoadSearch
  PROVE  IInv'
<1>1. /\ workspace \in WorkspaceRecord /\ active \in ActiveRecord /\ ActionsTyped
  BY Given
<1>2. ASSUME NEW f \in Folder, NEW search \in BOOLEAN, Pages,
             workspace' \in WorkspaceRecord, AskPage(f, search, NoCursor, 1, <<>>)
      PROVE  IInv'
  <2>1. ActionsTyped'
    BY <1>1, <1>2, Counting
  <2> QED
    BY <1>2, <2>1, FirstPlace, AskPageKeeps
<1>3. ASSUME NEW f \in Folder, Navigate(f)
      PROVE  IInv'
  <2>1. workspace' \in WorkspaceRecord
    BY <1>1, <1>3 DEF Navigate, WorkspaceRecord
  <2> QED
    BY <1>2, <1>3, <2>1 DEF Navigate
<1>4. CASE Reload
  <2>1. workspace.view \in Folder
    BY <1>1 DEF WorkspaceRecord
  <2> QED
    BY <1>1, <1>2, <1>4, <2>1 DEF Reload
<1>5. CASE LoadSearch
  <2>1. active.folder \in Folder
    BY <1>1 DEF ActiveRecord
  <2> QED
    BY <1>1, <1>2, <1>5, <2>1 DEF LoadSearch
<1> QED
  BY <1>3, <1>4, <1>5

\* The place after the one that is shown.
LEMMA LoadNextPageKeeps ==
  ASSUME IInv, LoadNextPage
  PROVE  IInv'
<1>1. /\ Consistent(sessions, calls, loads, active, requests, workspace)
      /\ workspace \in WorkspaceRecord /\ active \in ActiveRecord /\ ActionsTyped
  BY Given
<1>2. Numbered(active) /\ WholePages(sessions, loads, active, requests, workspace)
  BY <1>1 DEF Consistent, AllNumbered
<1> DEFINE previous == Append(active.previous, active.cursor)
           number == active.number + 1
<1>3. /\ Pages /\ active.next # NoCursor /\ UNCHANGED workspace
      /\ AskPage(active.folder, active.search, active.next, number, previous)
  BY DEF LoadNextPage
<1>4. /\ active.previous \in Seq(Cursor) /\ active.cursor \in Cursor
      /\ active.next \in Cursor /\ active.number \in Nat \ {0}
      /\ active.folder \in Folder /\ active.search \in BOOLEAN
  BY <1>1 DEF ActiveRecord
<1>5. /\ previous \in Seq(Cursor) /\ Len(previous) = Len(active.previous) + 1
      /\ previous[Len(active.previous) + 1] = active.cursor
      /\ \A n \in 1 .. Len(active.previous) : previous[n] = active.previous[n]
  BY <1>4, AppendProperties
<1>6. /\ Len(active.previous) \in Nat
      /\ \A n \in 1 .. Len(previous) :
           n \in 1 .. Len(active.previous) \/ n = Len(active.previous) + 1
  BY <1>4, <1>5, LenProperties
<1> HIDE DEF previous
<1>7. Place(active.next, number, previous)
  <2>1. number \in Nat \ {0} /\ number = Len(previous) + 1
    BY <1>2, <1>4, <1>5, <1>6 DEF Numbered
  <2>2. active.next.offset = (number - 1) * PageLimit
    BY <1>2, <1>3, <1>4, PageBegins DEF Numbered
  <2>3. active.cursor.offset = ((Len(active.previous) + 1) - 1) * PageLimit
    BY <1>2, <1>4, <1>6 DEF Numbered
  <2>4. \A n \in 1 .. Len(previous) : previous[n].offset = (n - 1) * PageLimit
    BY <1>2, <1>5, <1>6, <2>3 DEF Numbered
  <2> QED
    BY <1>4, <1>5, <2>1, <2>2, <2>4 DEF Place
<1>8. Past(sessions, loads, active) =>
        Accepts(sessions[active.session].revision, active.next, previous)
  BY <1>2, <1>5, <1>6 DEF WholePages, GoodPlace, Accepts
<1>9. ActionsTyped' /\ workspace' \in WorkspaceRecord
  BY <1>1, <1>3, Counting
<1> QED
  BY <1>3, <1>4, <1>7, <1>8, <1>9, AskPageKeeps

\* The place before the one that is shown.
LEMMA LoadPreviousPageKeeps ==
  ASSUME IInv, LoadPreviousPage
  PROVE  IInv'
<1>1. /\ Consistent(sessions, calls, loads, active, requests, workspace)
      /\ workspace \in WorkspaceRecord /\ active \in ActiveRecord /\ ActionsTyped
  BY Given
<1>2. Numbered(active) /\ WholePages(sessions, loads, active, requests, workspace)
  BY <1>1 DEF Consistent, AllNumbered
<1> DEFINE n == Len(active.previous)
           previous == SubSeq(active.previous, 1, n - 1)
<1>3. /\ Pages /\ active.previous # <<>> /\ UNCHANGED workspace
      /\ AskPage(active.folder, active.search, active.previous[n], n, previous)
  BY DEF LoadPreviousPage
<1>4. /\ active.previous \in Seq(Cursor)
      /\ active.folder \in Folder /\ active.search \in BOOLEAN
  BY <1>1 DEF ActiveRecord
<1>5. n \in Nat \ {0} /\ n \in 1 .. n
  BY <1>3, <1>4, EmptySeq, LenProperties
<1>6. active.previous[n] \in Cursor
  BY <1>4, <1>5, ElementOfSeq
<1>7. /\ previous \in Seq(Cursor) /\ Len(previous) = n - 1
      /\ \A i \in 1 .. (n - 1) : i \in 1 .. n /\ previous[i] = active.previous[i]
  <2>1. \A i \in 1 .. (n - 1) : i \in 1 .. n
    BY <1>5
  <2>2. \A i \in 1 .. (n - 1) : active.previous[i] \in Cursor
    BY <1>4, <2>1, ElementOfSeq
  <2>3. /\ 1 \in Int /\ n - 1 \in Int /\ 1 <= (n - 1) + 1
        /\ (n - 1) - 1 + 1 = n - 1
    BY <1>5
  <2>4. /\ previous \in Seq(Cursor)
        /\ Len(previous) = n - 1
        /\ \A i \in 1 .. (n - 1) : previous[i] = active.previous[i]
    BY <1>4, <1>5, <2>1, <2>2, <2>3
  <2> QED
    BY <2>1, <2>4
<1> HIDE DEF n, previous
<1>8. \A i \in 1 .. n : active.previous[i].offset = (i - 1) * PageLimit
  BY <1>2 DEF Numbered, n
<1>9. Place(active.previous[n], n, previous)
  <2>1. n = Len(previous) + 1
    BY <1>5, <1>7
  <2>2. \A i \in 1 .. Len(previous) : previous[i].offset = (i - 1) * PageLimit
    BY <1>7, <1>8
  <2> QED
    BY <1>5, <1>6, <1>7, <1>8, <2>1, <2>2 DEF Place
<1>10. ASSUME Past(sessions, loads, active)
       PROVE  Accepts(sessions[active.session].revision, active.previous[n], previous)
  <2>1. \A i \in 1 .. n : Good(active.previous[i], sessions[active.session].revision)
    BY <1>2, <1>10 DEF WholePages, GoodPlace, n
  <2> QED
    BY <1>5, <1>7, <2>1 DEF Accepts
<1>11. ActionsTyped' /\ workspace' \in WorkspaceRecord
  BY <1>1, <1>3, Counting
<1> QED
  BY <1>3, <1>4, <1>9, <1>10, <1>11, AskPageKeeps

\* A closed archive leaves the controller as it is.
LEMMA CloseArchiveKeeps ==
  ASSUME IInv, CloseArchive
  PROVE  IInv'
<1>1. /\ Consistent(sessions, calls, loads, active, requests, workspace) /\ ActionsTyped
      /\ requests \in SUBSET RequestRecord
  BY Given
<1>2. /\ Opens /\ workspace' = Empty
      /\ UNCHANGED <<sessions, calls, loads, active, requests, rendered>>
  BY DEF CloseArchive
<1>3. workspace' \in WorkspaceRecord /\ workspace'.browse # "loaded"
  BY <1>2, NothingTyped, ListingAssumption DEF Empty, WorkspaceRecord, Archives
<1>4. WholePages(sessions, loads, active, requests, workspace')
  <2>1. WholePages(sessions, loads, active, requests, workspace)
    BY <1>1 DEF Consistent
  <2> QED
    BY <1>3, <2>1 DEF WholePages
<1>5. Consistent(sessions, calls, loads, active, requests, workspace')
  BY <1>1, <1>3, <1>4 DEF Consistent, Typed
<1>6. ActionsTyped'
  BY <1>1, <1>2, Counting
<1> QED
  BY <1>2, <1>5, <1>6, Next_IInv

LEMMA StepIInv == IInv /\ [Next]_vars => IInv'
<1> SUFFICES ASSUME IInv, [Next]_vars PROVE IInv'
  OBVIOUS
<1>1. CASE CloseCommand \/ StartCommand
  BY <1>1, CloseCommandKeeps, StartCommandKeeps
<1>2. CASE \E s \in Session : Insert(s) \/ Publish(s) \/ Finish(s)
  BY <1>2, WorkersKeep
<1>3. CASE \E l \in Load : Wake(l)
  BY <1>3, WakeKeeps
<1>4. CASE \E q \in requests :
             ReadRevision(q) \/ ReadContent(q) \/ PageArrives(q) \/ RefusalArrives(q)
  BY <1>4, ReadRevisionKeeps, ReadContentKeeps, PageArrivesKeeps, RefusalArrivesKeeps
<1>5. CASE \E a \in Archive : OpenArchive(a)
  BY <1>5, LoadArchiveKeeps DEF OpenArchive
<1>6. CASE Refresh
  <2>1. workspace.archive \in Archive /\ LoadArchive(workspace.archive, TRUE)
    BY <1>6, Given DEF Refresh, WorkspaceRecord, Archives
  <2> QED
    BY <2>1, LoadArchiveKeeps
<1>7. CASE (\E f \in Folder : Navigate(f)) \/ Reload \/ LoadSearch
  BY <1>7, FirstPagesKeep
<1>8. CASE LoadNextPage \/ LoadPreviousPage \/ CloseArchive
  BY <1>8, LoadNextPageKeeps, LoadPreviousPageKeeps, CloseArchiveKeeps
<1>9. CASE UNCHANGED vars
  BY <1>9 DEF vars, IInv
<1> QED
  BY <1>1, <1>2, <1>3, <1>4, <1>5, <1>6, <1>7, <1>8, <1>9 DEF Next, System, User
----------------------------------------------------------------------------
(* Theorems *)

\* The inductive invariant holds in every reachable state.
THEOREM Invariant == Spec => []IInv
<1>1. Init => IInv
  BY InitIInv
<1>2. IInv /\ [Next]_vars => IInv'
  BY StepIInv
<1> QED
  BY <1>1, <1>2, PTL DEF Spec

\* The registry, the commands, the loads and the page stay within their types.
THEOREM TypeCorrect == Spec => []TypeOK
<1>1. IInv => TypeOK
  <2> SUFFICES ASSUME IInv PROVE TypeOK
    OBVIOUS
  <2>1. /\ Typed(sessions, calls, loads, active, requests, workspace) /\ Numbered(active)
        /\ actions \in [opens : 0..MaxOpens, pages : 0..MaxActions]
    BY DEF IInv, Consistent, AllNumbered
  <2>2. /\ sessions \in [Session -> [status : Status, archive : Archives, revision : Nat,
                                     counted : Nat, inserted : Nat]]
        /\ calls \in Seq([kind : {"start", "close"}, load : Load \cup {0},
                          archive : Archives, session : Session \cup {0}])
        /\ loads \in [Load ->
             [pc : {"idle", "closing", "starting", "waiting", "paging", "final", "retrying"},
              archive : Archives, folder : Folder, preserve : BOOLEAN, current : BOOLEAN,
              session : Session \cup {0}, revision : Nat, counted : Nat]]
    BY <2>1 DEF Typed, SessionRecord, CallRecord, LoadRecord
  <2>3. /\ active.session \in Session \cup {0}
        /\ active.number = Len(active.previous) + 1
        /\ \A q \in requests : q.stage \in {"sent", "read", "answered", "refused"}
    BY <2>1 DEF Typed, ActiveRecord, RequestRecord, Numbered
  <2>4. /\ workspace.archive \in Archives /\ workspace.view \in Folder
        /\ workspace.browse \in {"idle", "loading", "loaded", "empty", "error"}
        /\ workspace.shown \in Page
    BY <2>1 DEF Typed, WorkspaceRecord
  <2> QED
    BY <2>1, <2>2, <2>3, <2>4 DEF TypeOK
<1> QED
  BY <1>1, Invariant, PTL

\* No interleaving of opens, refreshes, retries and superseded loads forgets a
\* session: whatever is open is the controller's, or its close is on its way.
THEOREM SessionsAccounted == Spec => []SessionsAccountedFor
<1>1. IInv => SessionsAccountedFor
  <2> SUFFICES ASSUME IInv, NEW s \in Live, active.session # s
               PROVE  \E i \in DOMAIN calls : calls[i].session = s
    BY DEF SessionsAccountedFor
  <2>1. calls \in Seq(CallRecord) /\ Accounted(sessions, calls, active)
    BY DEF IInv, Consistent, Typed
  <2>2. DOMAIN calls = 1 .. Len(calls)
    BY <2>1, LenProperties
  <2>3. s \in Session /\ Open(sessions[s])
    BY DEF Live, Open
  <2> QED
    BY <2>1, <2>2, <2>3 DEF Accounted
<1> QED
  BY <1>1, Invariant, PTL

\* When nothing is on its way any more, the rows of a readable archive are the page
\* they claim to be of the whole listing, whatever partial pages, superseded
\* requests and refused cursors came before.
THEOREM SettledWhole == Spec => []SettledPageIsWhole
<1>1. IInv => SettledPageIsWhole
  <2> SUFFICES ASSUME IInv, Settled, workspace.browse = "loaded", Readable
               PROVE  ShownWhole(workspace, sessions[active.session])
    BY DEF SettledPageIsWhole, ShownWhole, Whole
  <2>1. /\ Turns(sessions, loads, active)
        /\ WholePages(sessions, loads, active, requests, workspace)
    BY DEF IInv, Consistent
  <2>2. requests = {} /\ \A l \in Load : loads[l].pc = "idle"
    BY DEF Settled
  <2>3. \A l \in Load : ~loads[l].current
    BY <2>1, <2>2 DEF Turns, Turn
  <2>4. Past(sessions, loads, active)
    BY <2>3 DEF Past, Readable
  <2> QED
    BY <2>1, <2>2, <2>4 DEF WholePages
<1> QED
  BY <1>1, Invariant, PTL

=============================================================================
