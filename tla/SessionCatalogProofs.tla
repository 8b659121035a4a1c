------------------------ MODULE SessionCatalogProofs ------------------------
(***************************************************************************)
(* Proofs about SessionCatalog, for any sessions, any listings and any     *)
(* number of stops, crashes and failed writes: what was answered to its    *)
(* creator is complete, and a listing that succeeds misses no session.     *)
(***************************************************************************)
EXTENDS SessionCatalog, TLAPS

\* What is known of a session from how far its life has come.
SessionInv ==
    \A s \in Sessions :
        /\ phase[s] \in {"creating", "created", "removing"} => s \in dirs
        /\ writes[s] # {} => s \in dirs
        /\ phase[s] \in {"removing", "removed"} => writes[s] = {}
        /\ phase[s] = "creating" => OwnedFiles \subseteq files[s] \cup writes[s]
        /\ phase[s] = "created" => OwnedFiles \subseteq files[s]

\* A session that was there before a listing is never created again, and as
\* long as it is there the listing has found it or is still to look into it.
TaskInv ==
    \A t \in Tasks : task[t].at \in {"get", "count", "listed"} =>
        \A s \in task[t].before :
            /\ phase[s] \notin {"unborn", "creating"}
            /\ phase[s] = "created" =>
                  s \in task[t].found \/ (task[t].at = "get" /\ s \in task[t].todo)

CatalogInv == TypeOK /\ SessionInv /\ TaskInv

TaskType == [at : {"idle", "get", "count", "listed", "failed", "lost"},
             todo : SUBSET Sessions, found : SUBSET Sessions, before : SUBSET Sessions]

\* No task is a task, too.
LEMMA NoTaskType == NoTask \in TaskType
  BY DEF NoTask, TaskType

\* The initial state satisfies the invariant.
LEMMA InitCatalogInv == Init => CatalogInv
<1> SUFFICES ASSUME Init PROVE CatalogInv
  OBVIOUS
<1>1. TypeOK
  BY CatalogAssumption, NoTaskType DEF Init, TypeOK, TaskType
<1>2. SessionInv
  BY DEF Init, SessionInv
<1>3. TaskInv
  BY DEF Init, TaskInv, NoTask, Tasks
<1> QED
  BY <1>1, <1>2, <1>3 DEF CatalogInv

\* Creation keeps the invariant: a created session has what was to be written.
LEMMA CreateKeeps ==
  ASSUME CatalogInv, NEW s \in Sessions, Create(s)
  PROVE  CatalogInv'
<1> USE CatalogAssumption DEF CatalogInv
<1>1. CASE MakeDirectory(s)
  <2>1. TypeOK'
    BY <1>1 DEF MakeDirectory, TypeOK, budgets, OwnedFiles
  <2>2. SessionInv'
    BY <1>1 DEF MakeDirectory, TypeOK, SessionInv
  <2>3. TaskInv'
    BY <1>1 DEF MakeDirectory, TypeOK, TaskInv
  <2> QED
    BY <2>1, <2>2, <2>3
<1>2. CASE AnswerCreate(s)
  <2>1. TypeOK'
    BY <1>2 DEF AnswerCreate, TypeOK, budgets
  <2>2. SessionInv'
    BY <1>2 DEF AnswerCreate, AllWritten, TypeOK, SessionInv
  <2>3. TaskInv'
    BY <1>2 DEF AnswerCreate, TypeOK, TaskInv
  <2> QED
    BY <2>1, <2>2, <2>3
<1>3. ASSUME NEW f \in OwnedFiles, WriteFile(s, f)
      PROVE  CatalogInv'
  <2>1. TypeOK'
    BY <1>3 DEF WriteFile, TypeOK, SessionInv, budgets
  <2>2. SessionInv'
    BY <1>3 DEF WriteFile, TypeOK, SessionInv
  <2>3. TaskInv'
    BY <1>3 DEF WriteFile, TypeOK, TaskInv
  <2> QED
    BY <2>1, <2>2, <2>3
<1>4. ASSUME NEW f \in OwnedFiles, WriteFails(s, f)
      PROVE  CatalogInv'
  <2>1. TypeOK'
    BY <1>4 DEF WriteFails, TypeOK, SessionInv
  <2>2. SessionInv'
    BY <1>4 DEF WriteFails, TypeOK, SessionInv
  <2>3. TaskInv'
    BY <1>4 DEF WriteFails, TypeOK, TaskInv
  <2> QED
    BY <2>1, <2>2, <2>3
<1> QED
  BY <1>1, <1>2, <1>3, <1>4 DEF Create

\* Removal keeps it: nothing is written into a session that is removed.
LEMMA RemoveKeeps ==
  ASSUME CatalogInv, NEW s \in Sessions, Remove(s)
  PROVE  CatalogInv'
<1> USE CatalogAssumption DEF CatalogInv
<1>1. CASE StartRemove(s)
  <2>1. TypeOK'
    BY <1>1 DEF StartRemove, TypeOK, budgets
  <2>2. SessionInv'
    BY <1>1 DEF StartRemove, TypeOK, SessionInv
  <2>3. TaskInv'
    BY <1>1 DEF StartRemove, TypeOK, TaskInv
  <2> QED
    BY <2>1, <2>2, <2>3
<1>2. CASE RemoveDirectory(s)
  <2>1. TypeOK'
    BY <1>2 DEF RemoveDirectory, Emptied, TypeOK, budgets
  <2>2. SessionInv'
    BY <1>2 DEF RemoveDirectory, TypeOK, SessionInv
  <2>3. TaskInv'
    BY <1>2 DEF RemoveDirectory, TypeOK, TaskInv
  <2> QED
    BY <2>1, <2>2, <2>3
<1>3. ASSUME NEW f \in OwnedFiles, RemoveFile(s, f)
      PROVE  CatalogInv'
  <2>1. TypeOK'
    BY <1>3 DEF RemoveFile, TypeOK, budgets
  <2>2. SessionInv'
    BY <1>3 DEF RemoveFile, TypeOK, SessionInv
  <2>3. TaskInv'
    BY <1>3 DEF RemoveFile, TypeOK, TaskInv
  <2> QED
    BY <2>1, <2>2, <2>3
<1> QED
  BY <1>1, <1>2, <1>3 DEF Remove

\* Listing keeps it: a created session has a directory to be found by and a
\* session.json to be taken by.
LEMMA ListKeeps ==
  ASSUME CatalogInv, NEW t \in Tasks, List(t)
  PROVE  CatalogInv'
<1> USE CatalogAssumption DEF CatalogInv
<1>t. task \in [Tasks -> TaskType]
  BY DEF TypeOK, TaskType
<1>1. CASE ReadDirectory(t)
  <2>1. task' \in [Tasks -> TaskType]
    BY <1>1, <1>t DEF ReadDirectory, TaskType, TypeOK, Created
  <2>2. TypeOK'
    BY <1>1, <2>1 DEF ReadDirectory, ListUnchanged, TypeOK, TaskType, budgets
  <2>3. SessionInv'
    BY <1>1 DEF ReadDirectory, ListUnchanged, SessionInv
  <2>4. TaskInv'
    BY <1>1, <1>t DEF ReadDirectory, ListUnchanged, TaskInv, SessionInv, Created, TaskType
  <2> QED
    BY <2>2, <2>3, <2>4
<1>2. ASSUME NEW s \in Sessions, Get(t, s)
      PROVE  CatalogInv'
  <2>k. /\ task[t] \in TaskType
        /\ Others(t, s) \in SUBSET Sessions
        /\ task[t].found \cup {s} \in SUBSET Sessions
    BY <1>t DEF Others, TaskType
  <2>1. task' \in [Tasks -> TaskType]
    BY <1>2, <1>t, <2>k DEF Get, TaskType
  <2>2. TypeOK'
    BY <1>2, <2>1 DEF Get, ListUnchanged, TypeOK, TaskType, budgets
  <2>3. SessionInv'
    BY <1>2 DEF Get, ListUnchanged, SessionInv
  <2>4. phase[s] = "created" => "session.json" \in files[s]
    BY DEF SessionInv, OwnedFiles
  <2>5. TaskInv'
    BY <1>2, <1>t, <2>4 DEF Get, Others, ListUnchanged, TaskInv, TaskType
  <2> QED
    BY <2>2, <2>3, <2>5
<1>3. CASE GotAll(t)
  <2>1. task' \in [Tasks -> TaskType]
    BY <1>3, <1>t DEF GotAll, TaskType
  <2>2. TypeOK'
    BY <1>3, <2>1 DEF GotAll, ListUnchanged, TypeOK, TaskType, budgets
  <2>3. SessionInv'
    BY <1>3 DEF GotAll, ListUnchanged, SessionInv
  <2>4. TaskInv'
    BY <1>3, <1>t DEF GotAll, ListUnchanged, TaskInv, TaskType
  <2> QED
    BY <2>2, <2>3, <2>4
<1>4. ASSUME NEW s \in Sessions, Count(t, s)
      PROVE  CatalogInv'
  <2>1. task' \in [Tasks -> TaskType]
    BY <1>4, <1>t DEF Count, TaskType
  <2>2. TypeOK'
    BY <1>4, <2>1 DEF Count, ListUnchanged, TypeOK, TaskType, budgets
  <2>3. SessionInv'
    BY <1>4 DEF Count, ListUnchanged, SessionInv
  <2>4. TaskInv'
    BY <1>4, <1>t DEF Count, ListUnchanged, TaskInv, TaskType
  <2> QED
    BY <2>2, <2>3, <2>4
<1>5. ASSUME NEW s \in Sessions, CountFails(t, s)
      PROVE  CatalogInv'
  <2>1. task' \in [Tasks -> TaskType]
    BY <1>5, <1>t, NoTaskType DEF CountFails, TaskType, NoTask
  <2>2. TypeOK'
    BY <1>5, <2>1 DEF CountFails, ListUnchanged, TypeOK, TaskType, budgets
  <2>3. SessionInv'
    BY <1>5 DEF CountFails, ListUnchanged, SessionInv
  <2>4. TaskInv'
    BY <1>5, <1>t DEF CountFails, ListUnchanged, TaskInv, TaskType, NoTask
  <2> QED
    BY <2>2, <2>3, <2>4
<1>6. CASE Counted(t)
  <2>1. task' \in [Tasks -> TaskType]
    BY <1>6, <1>t DEF Counted, TaskType
  <2>2. TypeOK'
    BY <1>6, <2>1 DEF Counted, ListUnchanged, TypeOK, TaskType, budgets
  <2>3. SessionInv'
    BY <1>6 DEF Counted, ListUnchanged, SessionInv
  <2>4. TaskInv'
    BY <1>6, <1>t DEF Counted, ListUnchanged, TaskInv, TaskType
  <2> QED
    BY <2>2, <2>3, <2>4
<1> QED
  BY <1>1, <1>2, <1>3, <1>4, <1>5, <1>6 DEF List

\* A listing that is cut off promises nothing any more.
LEMMA UnansweredKeeps ==
  ASSUME TypeOK, Unanswered
  PROVE  /\ task' \in [Tasks -> TaskType]
         /\ \A t \in Tasks : task'[t].at \in {"get", "count", "listed"} => task'[t] = task[t]
<1>1. task \in [Tasks -> TaskType]
  BY DEF TypeOK, TaskType
<1>2. [NoTask EXCEPT !.at = "lost"] \in TaskType
  BY DEF NoTask, TaskType
<1>3. \A t \in Tasks : task'[t] \in {NoTask, [NoTask EXCEPT !.at = "lost"], task[t]}
  BY DEF Unanswered
<1>4. task' \in [Tasks -> TaskType]
  BY <1>1, <1>2, <1>3, NoTaskType DEF Unanswered
<1>5. NoTask.at = "idle" /\ [NoTask EXCEPT !.at = "lost"].at = "lost"
  BY DEF NoTask
<1> QED
  BY <1>3, <1>4, <1>5

\* The daemon's comings and goings keep it; a crash leaves sessions broken, but
\* none of them had been answered.
LEMMA DaemonKeeps ==
  ASSUME CatalogInv, Start \/ Publish \/ Stop \/ Crash
  PROVE  CatalogInv'
<1> USE CatalogAssumption DEF CatalogInv
<1>t. task \in [Tasks -> TaskType]
  BY DEF TypeOK, TaskType
<1>1. CASE Start
  BY <1>1 DEF Start, ListUnchanged, TypeOK, SessionInv, TaskInv, budgets
<1>2. CASE Publish
  <2>1. task' \in [Tasks -> TaskType]
    BY <1>2, <1>t, NoTaskType DEF Publish
  <2>2. TypeOK'
    BY <1>2, <2>1 DEF Publish, ListUnchanged, TypeOK, TaskType, budgets
  <2>3. SessionInv'
    BY <1>2 DEF Publish, ListUnchanged, SessionInv
  <2>4. TaskInv'
    BY <1>2, <1>t DEF Publish, ListUnchanged, TaskInv, TaskType, NoTask
  <2> QED
    BY <2>2, <2>3, <2>4
<1>3. CASE Stop
  <2>1. /\ task' \in [Tasks -> TaskType]
        /\ \A t \in Tasks : task'[t].at \in {"get", "count", "listed"} => task'[t] = task[t]
    BY <1>3, UnansweredKeeps DEF Stop
  <2>2. TypeOK'
    BY <1>3, <2>1 DEF Stop, TypeOK, TaskType, SessionInv, AtWork
  <2>3. SessionInv'
    BY <1>3 DEF Stop, SessionInv
  <2>4. TaskInv'
    BY <1>3, <2>1 DEF Stop, TaskInv
  <2> QED
    BY <2>2, <2>3, <2>4
<1>4. CASE Crash
  <2>1. /\ task' \in [Tasks -> TaskType]
        /\ \A t \in Tasks : task'[t].at \in {"get", "count", "listed"} => task'[t] = task[t]
    BY <1>4, UnansweredKeeps DEF Crash
  <2>2. \A s \in Sessions :
            /\ phase'[s] = IF s \in AtWork \ leftover THEN "broken" ELSE phase[s]
            /\ writes'[s] = IF s \in leftover THEN writes[s] ELSE {}
    BY <1>4 DEF Crash
  <2>3. TypeOK'
    BY <1>4, <2>1 DEF Crash, TypeOK, TaskType
  <2>4. SessionInv'
    BY <1>4, <2>2 DEF Crash, SessionInv, AtWork
  <2>5. \A t \in Tasks : task[t].before \subseteq Sessions
    BY <1>t DEF TaskType
  <2>6. TaskInv'
    BY <1>4, <2>1, <2>2, <2>5 DEF TaskInv, AtWork
  <2> QED
    BY <2>3, <2>4, <2>6
<1> QED
  BY <1>1, <1>2, <1>3, <1>4

\* Every step keeps the invariant.
LEMMA NextCatalogInv == CatalogInv /\ [Next]_vars => CatalogInv'
<1> SUFFICES ASSUME CatalogInv, [Next]_vars PROVE CatalogInv'
  OBVIOUS
<1>1. CASE UNCHANGED vars
  BY <1>1 DEF vars, budgets, CatalogInv, TypeOK, SessionInv, TaskInv
<1>2. CASE Next
  BY <1>2, CreateKeeps, RemoveKeeps, ListKeeps, DaemonKeeps DEF Next
<1> QED
  BY <1>1, <1>2

\* The invariant holds throughout.
THEOREM CatalogInvariant == Spec => []CatalogInv
<1> QED
  BY InitCatalogInv, NextCatalogInv, PTL DEF Spec

\* The variables keep their types, and no file lies outside a directory.
THEOREM CatalogTyped == Spec => []TypeOK
<1>1. CatalogInv => TypeOK
  BY DEF CatalogInv
<1> QED
  BY <1>1, CatalogInvariant, PTL

\* A session that create has answered and clean has not taken is complete.
THEOREM CreatedIsCompleteHolds == Spec => []CreatedIsComplete
<1>1. CatalogInv => CreatedIsComplete
  BY DEF CatalogInv, SessionInv, CreatedIsComplete, Created
<1> QED
  BY <1>1, CatalogInvariant, PTL

\* A listing that succeeds shows what was there all the while.
THEOREM ListingIsCompleteHolds == Spec => []ListingIsComplete
<1>1. CatalogInv => ListingIsComplete
  BY DEF CatalogInv, TaskInv, ListingIsComplete, Created
<1> QED
  BY <1>1, CatalogInvariant, PTL

-----------------------------------------------------------------------------
(***************************************************************************)
(* Why a daemon fails to start.  Its listing found a session.json in each  *)
(* session it counts, and since there is no daemon that is up nobody starts*)
(* to create or to remove one: what goes on is left over (BootInv).        *)
(***************************************************************************)
BootInv ==
    /\ daemon # "starting" => task[Boot] = NoTask
    /\ daemon # "up" => AtWork \subseteq leftover
    /\ \A s \in dirs : phase[s] # "unborn"
    /\ task[Boot].at = "count" => task[Boot].todo \subseteq task[Boot].found
    /\ \A s \in task[Boot].found :
          /\ phase[s] # "unborn"
          /\ "session.json" \in files[s] \/ phase[s] \in {"removing", "removed"}

\* No listing has begun, and the daemon is up.
LEMMA InitBootInv == Init => BootInv
<1> QED
  BY DEF Init, BootInv, NoTask, Tasks

\* What is created is new to a listing, or left over.
LEMMA CreateKeepsBoot ==
  ASSUME CatalogInv, BootInv, NEW s \in Sessions, Create(s)
  PROVE  BootInv'
<1>t. task \in [Tasks -> TaskType] /\ Boot \in Tasks
  BY DEF CatalogInv, TypeOK, TaskType, Tasks
<1>1. CASE MakeDirectory(s)
  BY <1>1, <1>t DEF MakeDirectory, CatalogInv, TypeOK, BootInv, AtWork, TaskType, NoTask
<1>2. CASE AnswerCreate(s)
  BY <1>2, <1>t DEF AnswerCreate, CatalogInv, TypeOK, BootInv, AtWork, TaskType
<1>3. ASSUME NEW f \in OwnedFiles, WriteFile(s, f)
      PROVE  BootInv'
  BY <1>3, <1>t DEF WriteFile, CatalogInv, TypeOK, BootInv, AtWork, TaskType
<1>4. ASSUME NEW f \in OwnedFiles, WriteFails(s, f)
      PROVE  BootInv'
  <2>1. phase[s] \notin {"removing", "removed"}
    BY <1>4 DEF WriteFails, CatalogInv, SessionInv
  <2> QED
    BY <1>4, <1>t, <2>1 DEF WriteFails, CatalogInv, TypeOK, BootInv, AtWork, TaskType
<1> QED
  BY <1>1, <1>2, <1>3, <1>4 DEF Create

\* A removal starts where a daemon is up, and takes files from what is being removed.
LEMMA RemoveKeepsBoot ==
  ASSUME CatalogInv, BootInv, NEW s \in Sessions, Remove(s)
  PROVE  BootInv'
<1>t. task \in [Tasks -> TaskType] /\ Boot \in Tasks
  BY DEF CatalogInv, TypeOK, TaskType, Tasks
<1>1. CASE StartRemove(s)
  BY <1>1, <1>t DEF StartRemove, CatalogInv, TypeOK, BootInv, AtWork, TaskType, NoTask
<1>2. CASE RemoveDirectory(s)
  BY <1>2, <1>t DEF RemoveDirectory, CatalogInv, TypeOK, BootInv, AtWork, TaskType
<1>3. ASSUME NEW f \in OwnedFiles, RemoveFile(s, f)
      PROVE  BootInv'
  BY <1>3, <1>t DEF RemoveFile, CatalogInv, TypeOK, BootInv, AtWork, TaskType
<1> QED
  BY <1>1, <1>2, <1>3 DEF Remove

\* A session is found by its session.json, and what is counted was found.
LEMMA ListKeepsBoot ==
  ASSUME CatalogInv, BootInv, NEW t \in Tasks, List(t)
  PROVE  BootInv'
<1>t. task \in [Tasks -> TaskType] /\ Boot \in Tasks
  BY DEF CatalogInv, TypeOK, TaskType, Tasks
<1>l. ListUnchanged
  BY DEF List, ReadDirectory, Get, GotAll, Count, CountFails, Counted
<1>w. /\ AtWork' = AtWork /\ leftover' = leftover
      /\ dirs' = dirs /\ phase' = phase /\ files' = files
  BY <1>l DEF ListUnchanged, AtWork
<1>k. task[t].todo \subseteq Sessions /\ task[t] \in TaskType
  BY <1>t DEF TaskType
<1>o. CASE t # Boot
  <2>1. daemon' = daemon /\ task'[Boot] = task[Boot]
    BY <1>o, <1>t DEF List, ReadDirectory, Get, GotAll, Count, CountFails, Counted
  <2> QED
    BY <1>w, <2>1 DEF BootInv
<1>b. CASE t = Boot
  <2>b. task[t].at # "idle" => daemon = "starting"
    BY <1>b DEF BootInv, NoTask
  <2>1. CASE ReadDirectory(t)
    <3>1. daemon' = "starting" /\ task'[t].at = "get" /\ task'[t].found = {}
      BY <1>b, <1>t, <2>1 DEF ReadDirectory
    <3> QED
      BY <1>b, <1>w, <3>1, <2>1 DEF ReadDirectory, BootInv
  <2>2. ASSUME NEW s \in Sessions, Get(t, s)
        PROVE  BootInv'
    <3>1. "session.json" \in files[s] => phase[s] # "unborn"
      BY DEF CatalogInv, TypeOK, BootInv
    <3>2. /\ task'[t].at = "get"
          /\ task'[t].found =
                IF "session.json" \in files[s] THEN task[t].found \cup {s} ELSE task[t].found
      BY <1>k, <1>t, <2>2 DEF Get, TaskType
    <3>3. \A x \in task'[t].found : x \in task[t].found \/ (x = s /\ "session.json" \in files[s])
      BY <3>2
    <3>4. \A x \in task'[t].found :
             /\ phase[x] # "unborn"
             /\ "session.json" \in files[x] \/ phase[x] \in {"removing", "removed"}
      BY <1>b, <3>1, <3>3 DEF BootInv
    <3>5. daemon = "starting" /\ daemon' = "starting"
      BY <2>2, <2>b DEF Get
    <3> QED
      BY <1>b, <1>w, <3>2, <3>4, <3>5 DEF BootInv
  <2>3. CASE GotAll(t)
    <3>1. /\ daemon' = "starting"
          /\ task'[t].todo = task[t].found /\ task'[t].found = task[t].found
      BY <1>k, <1>t, <2>3, <2>b DEF GotAll, TaskType
    <3> QED
      BY <1>b, <1>w, <2>3, <2>b, <3>1 DEF GotAll, BootInv
  <2>4. ASSUME NEW s \in Sessions, Count(t, s)
        PROVE  BootInv'
    <3>1. /\ daemon' = "starting" /\ task[t].at = "count"
          /\ task'[t].todo = task[t].todo \ {s} /\ task'[t].found = task[t].found
      BY <1>k, <1>t, <2>4, <2>b DEF Count, TaskType
    <3> QED
      BY <1>b, <1>w, <2>4, <2>b, <3>1 DEF Count, BootInv
  <2>5. ASSUME NEW s \in Sessions, CountFails(t, s)
        PROVE  BootInv'
    <3>1. daemon' = "down" /\ task'[t] = NoTask /\ daemon = "starting"
      BY <1>b, <1>t, <2>5, <2>b DEF CountFails
    <3> QED
      BY <1>b, <1>w, <3>1 DEF BootInv, NoTask
  <2>6. CASE Counted(t)
    <3>1. /\ daemon' = "starting"
          /\ task'[t].at = "listed" /\ task'[t].found = task[t].found
      BY <1>k, <1>t, <2>6, <2>b DEF Counted, TaskType
    <3> QED
      BY <1>b, <1>w, <2>6, <2>b, <3>1 DEF Counted, BootInv
  <2> QED
    BY <2>1, <2>2, <2>3, <2>4, <2>5, <2>6 DEF List
<1> QED
  BY <1>o, <1>b

\* A daemon that stops leaves its work over, and one that crashes leaves none.
LEMMA DaemonKeepsBoot ==
  ASSUME CatalogInv, BootInv, Start \/ Publish \/ Stop \/ Crash
  PROVE  BootInv'
<1>t. task \in [Tasks -> TaskType] /\ Boot \in Tasks
  BY DEF CatalogInv, TypeOK, TaskType, Tasks
<1>n. NoTask.at = "idle" /\ NoTask.todo = {} /\ NoTask.found = {}
  BY DEF NoTask
<1>1. CASE Start
  BY <1>1, <1>t, <1>n DEF Start, ListUnchanged, BootInv, AtWork
<1>2. CASE Publish
  BY <1>2, <1>t, <1>n DEF Publish, ListUnchanged, BootInv, AtWork
<1>3. CASE Stop
  <2>1. task'[Boot] = NoTask
    BY <1>3, <1>t DEF Stop, Unanswered
  <2> QED
    BY <1>3, <1>n, <2>1 DEF Stop, BootInv, AtWork
<1>4. CASE Crash
  <2>1. task'[Boot] = NoTask
    BY <1>4, <1>t DEF Crash, Unanswered
  <2>2. \A s \in Sessions :
            phase'[s] = IF s \in AtWork \ leftover THEN "broken" ELSE phase[s]
    BY <1>4 DEF Crash
  <2>3. AtWork' \subseteq leftover'
    BY <1>4, <2>2 DEF Crash, AtWork
  <2>4. \A s \in dirs' : phase'[s] # "unborn"
    BY <1>4, <2>2 DEF Crash, CatalogInv, TypeOK, BootInv
  <2> QED
    BY <1>4, <1>n, <2>1, <2>3, <2>4 DEF Crash, BootInv
<1> QED
  BY <1>1, <1>2, <1>3, <1>4

\* Every step keeps what is known of the starting daemon.
LEMMA NextBootInv == CatalogInv /\ BootInv /\ [Next]_vars => BootInv'
<1> SUFFICES ASSUME CatalogInv, BootInv, [Next]_vars PROVE BootInv'
  OBVIOUS
<1>1. CASE UNCHANGED vars
  BY <1>1 DEF vars, budgets, BootInv, AtWork
<1>2. CASE Next
  BY <1>2, CreateKeepsBoot, RemoveKeepsBoot, ListKeepsBoot, DaemonKeepsBoot DEF Next
<1> QED
  BY <1>1, <1>2

\* A session that makes the start fail was found, so it had a session.json; it has no
\* events.ndjson, so it is not one that was answered.
LEMMA CauseOfFailure ==
  ASSUME CatalogInv, BootInv, NEW s \in Sessions, CountFails(Boot, s)
  PROVE  \/ s \in leftover \/ phase[s] = "removed"
         \/ phase[s] = "broken" /\ HalfThere(s)
<1>1. Boot \in Tasks /\ task[Boot].at = "count" /\ s \in task[Boot].todo
  BY DEF CountFails, Tasks
<1>2. daemon = "starting"
  BY <1>1 DEF BootInv, NoTask
<1>3. phase[s] # "unborn" /\ ("session.json" \in files[s] \/ phase[s] \in {"removing", "removed"})
  BY <1>1 DEF BootInv
<1>4. phase[s] \in {"creating", "removing"} => s \in leftover
  BY <1>2 DEF BootInv, AtWork
<1>5. phase[s] # "created"
  BY DEF CountFails, CatalogInv, SessionInv, OwnedFiles
<1> QED
  BY <1>3, <1>4, <1>5 DEF CountFails, HalfThere, CatalogInv, TypeOK

\* A daemon fails to start only on a session that its stopped predecessor is still at
\* work on or has removed, or on one that was left half there.
THEOREM StartFailsForCauseHolds == Spec => StartFailsForCause
<1> DEFINE Cause == \A s \in Sessions : CountFails(Boot, s) =>
                       \/ s \in leftover \/ phase[s] = "removed"
                       \/ phase[s] = "broken" /\ HalfThere(s)
<1>1. CatalogInv /\ BootInv => Cause
  BY CauseOfFailure
<1>2. CatalogInv /\ BootInv /\ [Next]_vars => [Cause]_vars
  BY <1>1
<1> HIDE DEF Cause
<1>3. Spec => [][Cause]_vars
  BY CatalogInvariant, InitBootInv, NextBootInv, <1>2, PTL DEF Spec
<1> QED
  BY <1>3 DEF StartFailsForCause, Cause
=============================================================================
