--------------------------- MODULE SessionCatalog ---------------------------
(***************************************************************************)
(* The sessions directory (src/daemon/session-registry.ts): sessions are   *)
(* created, listed and removed file by file, while others look.            *)
(*                                                                         *)
(* A listing is what `sessions` prints, and also what the daemon does to   *)
(* answer a health request and before it publishes itself at startup: both *)
(* report the number of sessions.  It reads the directory, then every      *)
(* session.json, then counts the lines of every events.ndjson.  Removals   *)
(* and counts of a session take turns (SessionQueue), creations and reads  *)
(* of session.json do not, and the queue ends with the process: a daemon   *)
(* that was stopped finishes what it had begun while the next one starts.  *)
(***************************************************************************)
EXTENDS Naturals

CONSTANTS
    Sessions,   \* the UUIDs drawn by create
    Listings,   \* `sessions` and health requests
    Boot,       \* the listing a starting daemon makes
    MaxStops,   \* daemons that are stopped
    MaxFaults   \* daemons that crash, and files that cannot be created

Tasks == Listings \cup {Boot}

ASSUME CatalogAssumption ==
    /\ Boot \notin Listings
    /\ {MaxStops, MaxFaults} \subseteq Nat

VARIABLES
    dirs,     \* the directories under sessions/
    files,    \* the files in each
    phase,    \* how far the life of each session has come
    writes,   \* the files its creation is still writing
    leftover, \* sessions on which a stopped daemon is still at work
    task,     \* the listings
    daemon,   \* "down", "starting" or "up"
    stops, faults

budgets == <<stops, faults>>
vars == <<dirs, files, phase, writes, leftover, task, daemon, budgets>>

\* Mistake: events.ndjson is left to the first append.
LazyFiles == {"session.json", "others"}

\* What create writes.  The three that no listing reads are one.
OwnedFiles == {"session.json", "events.ndjson", "others"}

NoTask == [at |-> "idle", todo |-> {}, found |-> {}, before |-> {}]

Created == {s \in Sessions : phase[s] = "created"}

Init ==
    /\ dirs = {}
    /\ files = [s \in Sessions |-> {}]
    /\ phase = [s \in Sessions |-> "unborn"]
    /\ writes = [s \in Sessions |-> {}]
    /\ leftover = {}
    /\ task = [t \in Tasks |-> NoTask]
    /\ daemon = "up"
    /\ stops = 0
    /\ faults = 0

-----------------------------------------------------------------------------
(***************************************************************************)
(* create: the directory, then all the files at once, then the answer.     *)
(***************************************************************************)
MakeDirectory(s) ==
    /\ daemon = "up"
    /\ phase[s] = "unborn"
    /\ phase' = [phase EXCEPT ![s] = "creating"]
    /\ dirs' = dirs \cup {s}
    /\ writes' = [writes EXCEPT ![s] = OwnedFiles]
    /\ UNCHANGED <<files, leftover, task, daemon, budgets>>

WriteFile(s, f) ==
    /\ f \in writes[s]
    /\ writes' = [writes EXCEPT ![s] = @ \ {f}]
    /\ files' = [files EXCEPT ![s] = @ \cup {f}]
    /\ UNCHANGED <<dirs, phase, leftover, task, daemon, budgets>>

\* Mistake: the answer does not wait for the files.
NothingLeft(s) == TRUE

AllWritten(s) == writes[s] = {}

AnswerCreate(s) ==
    /\ phase[s] = "creating"
    /\ AllWritten(s)
    /\ phase' = [phase EXCEPT ![s] = "created"]
    /\ leftover' = leftover \ {s}
    /\ UNCHANGED <<dirs, files, writes, task, daemon, budgets>>

\* One write fails: the answer is 500, and the other writes go on.
WriteFails(s, f) ==
    /\ faults < MaxFaults
    /\ faults' = faults + 1
    /\ f \in writes[s]
    /\ writes' = [writes EXCEPT ![s] = @ \ {f}]
    /\ phase' = [phase EXCEPT ![s] = "broken"]
    /\ UNCHANGED <<dirs, files, leftover, task, daemon, stops>>

-----------------------------------------------------------------------------
(***************************************************************************)
(* remove: a session with a session.json loses its files one by one, and   *)
(* then its directory.                                                     *)
(***************************************************************************)
StartRemove(s) ==
    /\ daemon = "up"
    /\ phase[s] \in {"created", "broken"}
    /\ writes[s] = {}
    /\ "session.json" \in files[s]
    /\ phase' = [phase EXCEPT ![s] = "removing"]
    /\ leftover' = leftover \ {s}
    /\ UNCHANGED <<dirs, files, writes, task, daemon, budgets>>

RemoveFile(s, f) ==
    /\ phase[s] = "removing"
    /\ f \in files[s]
    /\ files' = [files EXCEPT ![s] = @ \ {f}]
    /\ UNCHANGED <<dirs, phase, writes, leftover, task, daemon, budgets>>

\* Mistake: the removal is done as soon as session.json is gone.
Unlisted(s) == "session.json" \notin files[s]

Emptied(s) == files[s] = {}

RemoveDirectory(s) ==
    /\ phase[s] = "removing"
    /\ Emptied(s)
    /\ dirs' = dirs \ {s}
    /\ phase' = [phase EXCEPT ![s] = "removed"]
    /\ leftover' = leftover \ {s}
    /\ UNCHANGED <<files, writes, task, daemon, budgets>>

-----------------------------------------------------------------------------
(***************************************************************************)
(* list.                                                                   *)
(***************************************************************************)
ListUnchanged == UNCHANGED <<dirs, files, phase, writes, leftover, budgets>>

ReadDirectory(t) ==
    /\ task[t].at = "idle"
    /\ daemon = IF t = Boot THEN "starting" ELSE "up"
    /\ task' = [task EXCEPT ![t] =
           [at |-> "get", todo |-> dirs, found |-> {}, before |-> Created]]
    /\ UNCHANGED daemon
    /\ ListUnchanged

\* Mistake: the first directory without a session.json ends the listing.
StopAtGap(t, s) == IF "session.json" \in files[s] THEN task[t].todo \ {s} ELSE {}

\* The directories still to look into after s.
Others(t, s) == task[t].todo \ {s}

\* get: a directory without a session.json is no session.
Get(t, s) ==
    /\ task[t].at = "get"
    /\ s \in task[t].todo
    /\ task' = [task EXCEPT
           ![t].todo = Others(t, s),
           ![t].found = IF "session.json" \in files[s] THEN @ \cup {s} ELSE @]
    /\ UNCHANGED daemon
    /\ ListUnchanged

GotAll(t) ==
    /\ task[t].at = "get"
    /\ task[t].todo = {}
    /\ task' = [task EXCEPT ![t].at = "count", ![t].todo = task[t].found]
    /\ UNCHANGED daemon
    /\ ListUnchanged

\* summarize waits for an operation of this daemon on the session.
Count(t, s) ==
    /\ task[t].at = "count"
    /\ s \in task[t].todo
    /\ phase[s] = "removing" => s \in leftover
    /\ "events.ndjson" \in files[s]
    /\ task' = [task EXCEPT ![t].todo = @ \ {s}]
    /\ UNCHANGED daemon
    /\ ListUnchanged

\* It fails if there is no events.ndjson, and with it the listing.  The daemon
\* answers 500; one that was starting exits.
CountFails(t, s) ==
    /\ task[t].at = "count"
    /\ s \in task[t].todo
    /\ phase[s] = "removing" => s \in leftover
    /\ "events.ndjson" \notin files[s]
    /\ task' = [task EXCEPT ![t] = IF t = Boot THEN NoTask ELSE [NoTask EXCEPT !.at = "failed"]]
    /\ daemon' = IF t = Boot THEN "down" ELSE daemon
    /\ ListUnchanged

Counted(t) ==
    /\ task[t].at = "count"
    /\ task[t].todo = {}
    /\ task' = [task EXCEPT ![t].at = "listed"]
    /\ UNCHANGED daemon
    /\ ListUnchanged

-----------------------------------------------------------------------------
(***************************************************************************)
(* The daemon comes and goes.                                              *)
(***************************************************************************)
\* A command found no daemon and spawned one.
Start ==
    /\ daemon = "down"
    /\ daemon' = "starting"
    /\ UNCHANGED task
    /\ ListUnchanged

\* publishReadyCandidate
Publish ==
    /\ daemon = "starting"
    /\ task[Boot].at = "listed"
    /\ daemon' = "up"
    /\ task' = [task EXCEPT ![Boot] = NoTask]
    /\ ListUnchanged

\* The listings of a daemon that goes never answer.
Unanswered ==
    task' = [t \in Tasks |-> IF t = Boot THEN NoTask
                             ELSE IF task[t].at \in {"get", "count"}
                             THEN [NoTask EXCEPT !.at = "lost"] ELSE task[t]]

AtWork == {s \in Sessions : phase[s] \in {"creating", "removing"}}

\* Idle, or told to stop.  A stop closes the connections and does not wait for
\* the handlers; the process ends when they have.
Stop ==
    /\ daemon = "up"
    /\ stops < MaxStops
    /\ stops' = stops + 1
    /\ daemon' = "down"
    /\ leftover' = AtWork \cup {s \in Sessions : writes[s] # {}}
    /\ Unanswered
    /\ UNCHANGED <<dirs, files, phase, writes, faults>>

\* The process dies, and the handlers with it.
Crash ==
    /\ daemon # "down"
    /\ faults < MaxFaults
    /\ faults' = faults + 1
    /\ daemon' = "down"
    /\ phase' = [s \in Sessions |-> IF s \in AtWork \ leftover THEN "broken" ELSE phase[s]]
    /\ writes' = [s \in Sessions |-> IF s \in leftover THEN writes[s] ELSE {}]
    /\ Unanswered
    /\ UNCHANGED <<dirs, files, leftover, stops>>

-----------------------------------------------------------------------------
Create(s) ==
    \/ MakeDirectory(s) \/ AnswerCreate(s)
    \/ \E f \in OwnedFiles : WriteFile(s, f) \/ WriteFails(s, f)

Remove(s) ==
    \/ StartRemove(s) \/ RemoveDirectory(s)
    \/ \E f \in OwnedFiles : RemoveFile(s, f)

List(t) ==
    \/ ReadDirectory(t) \/ GotAll(t) \/ Counted(t)
    \/ \E s \in Sessions : Get(t, s) \/ Count(t, s) \/ CountFails(t, s)

Next ==
    \/ \E s \in Sessions : Create(s) \/ Remove(s)
    \/ \E t \in Tasks : List(t)
    \/ Start \/ Publish \/ Stop \/ Crash

Spec == Init /\ [][Next]_vars

\* Handlers finish, and there is always another command that wants the daemon.
Fairness ==
    /\ \A s \in Sessions :
          /\ WF_vars(AnswerCreate(s) \/ RemoveDirectory(s))
          /\ WF_vars(\E f \in OwnedFiles : WriteFile(s, f) \/ RemoveFile(s, f))
    /\ \A t \in Tasks : WF_vars(List(t))
    /\ WF_vars(Start \/ Publish)

FairSpec == Spec /\ Fairness

-----------------------------------------------------------------------------
(***************************************************************************)
(* Properties.                                                             *)
(***************************************************************************)
\* The variables have their types; files lie in directories, and a session
\* whose creation was answered has all of them until its removal begins.
TypeOK ==
    /\ dirs \subseteq Sessions
    /\ files \in [Sessions -> SUBSET OwnedFiles]
    /\ \A s \in Sessions : files[s] # {} => s \in dirs
    /\ phase \in [Sessions -> {"unborn", "creating", "created", "broken", "removing", "removed"}]
    /\ writes \in [Sessions -> SUBSET OwnedFiles]
    /\ leftover \subseteq dirs
    /\ task \in [Tasks -> [at : {"idle", "get", "count", "listed", "failed", "lost"},
                           todo : SUBSET Sessions, found : SUBSET Sessions,
                           before : SUBSET Sessions]]
    /\ daemon \in {"down", "starting", "up"}
    /\ stops \in 0 .. MaxStops
    /\ faults \in 0 .. MaxFaults

\* A session that was answered to its creator and not removed has every file:
\* whoever asks for it can read it, whatever else is created, removed or
\* stopped around it.
CreatedIsComplete == \A s \in Created : OwnedFiles \subseteq files[s]

\* A listing that succeeds shows every session that was there when it began
\* and is still there, however many appear and vanish meanwhile.
ListingIsComplete ==
    \A t \in Tasks : task[t].at = "listed" => (task[t].before \cap Created) \subseteq task[t].found

\* What a creation or a removal that ends between the two leaves behind.
HalfThere(s) == "session.json" \in files[s] /\ "events.ndjson" \notin files[s]

\* A daemon fails to start only on a session that its predecessor, which was stopped,
\* is still creating or removing or has removed meanwhile, or on one that a crash or
\* a failed write left half there for good.  Whatever was answered to its creator, or
\* has no session.json, is no reason.
StartFailsForCause ==
    [][\A s \in Sessions : CountFails(Boot, s) =>
          \/ s \in leftover \/ phase[s] = "removed"
          \/ phase[s] = "broken" /\ HalfThere(s)]_vars

\* A daemon that went comes back: "restarts transparently on the next command".
ComesBack == (daemon = "down") ~> (daemon = "up")

\* It does so at least as long as no session has its session.json and not its
\* events.ndjson for good: what a running creation or removal, or a directory
\* without a session.json, does to a starting daemon is over by the next try.
ComesBackUnlessHalfThere ==
    (daemon = "down") ~>
        (daemon = "up" \/ \E s \in Sessions : phase[s] = "broken" /\ HalfThere(s))

=============================================================================
