----------------------------- MODULE TeamDaemon -----------------------------
(***************************************************************************)
(* The team daemon around the sync engine: the scheduler loop, the webhook *)
(* queue, the sync cycles and import tasks it runs, the requests of the    *)
(* web API that start, cancel and reset imports or rewrite a repository's  *)
(* row, start-up recovery and the shutdown sequence.                       *)
(*                                                                         *)
(* What a cycle copies is TeamSync's subject and what an import commits is *)
(* HistoryImport's; here both are tasks that take time, may fail, and end  *)
(* by moving the repository's watermark.  A watermark is abstracted to     *)
(* whose position it is.                                                   *)
(***************************************************************************)
EXTENDS Naturals, FiniteSets

CONSTANTS
    Repos,          \* the ids the repositories table can hold
    Children,       \* those of them that a branch pair may create
    Migrated,       \* the repository the start-up migration made
    Global,         \* the import slot of the setup wizard
    Requests,       \* requests that rewrite state, in progress at once
    Tasks,          \* import tasks
    None,
    QueueCap,       \* capacity of the channel from webhooks to scheduler
    RequestKinds,   \* the requests clients may make
    FaultKinds,     \* the faults the environment may inject
    MaxRequests, MaxSenders, MaxFaults

Slots == Repos \cup {Global}

AllRequestKinds ==
    {"start", "cancel", "reset", "update", "delete", "apply", "branch",
     "signal"}

AllFaultKinds == {"crash", "start", "connect", "open", "panic", "slow"}

ASSUME TeamDaemonAssumption ==
    /\ Global \notin Repos /\ None \notin Slots
    /\ None \notin {"own", "other", "now"}
    /\ Children \subseteq Repos /\ Migrated \in Repos \ Children
    /\ QueueCap \in Nat \ {0}
    /\ RequestKinds \subseteq AllRequestKinds
    /\ FaultKinds \subseteq AllFaultKinds
    /\ MaxRequests \in Nat /\ MaxSenders \in Nat /\ MaxFaults \in Nat

VARIABLES
    \* main.rs: the process, and whether every shutdown wait was kept
    daemon, graceful, awaited,
    \* the scheduler: its loop, the webhook channel and its blocked senders
    pc, looking, left, queue, senders,
    \* the cycles: ids marked running, live tasks, the watermark each read,
    \* and the ids whose JoinHandle is in sync_handles
    running, cycles, from, tracked,
    \* SQLite: the rows, the watermarks table
    rows, enabled, position, globalPos,
    \* imports: progress per slot, tasks, and requests under way
    phase, cancelled, task, request,
    \* history: repositories whose cycle panicked, slots whose start failed
    \* after the phase was set, since the last start-up
    panicked, stuck,
    \* bounds
    requests, faults

main      == <<daemon, graceful, awaited>>
scheduler == <<pc, looking, left, queue, senders>>
syncing   == <<running, cycles, from, tracked>>
table     == <<rows, enabled, position>>
db        == <<rows, enabled, position, globalPos>>
imports   == <<phase, cancelled, task>>
history   == <<panicked, stuck>>
bounds    == <<requests, faults>>
vars      == <<daemon, graceful, awaited, pc, looking, left, queue, senders,
               running, cycles, from, tracked, rows, enabled, position,
               globalPos, phase, cancelled, task, request, panicked, stuck,
               requests, faults>>

-----------------------------------------------------------------------------
(* Import phases.  Nothing in the code ever enters Verifying or FinalPush. *)

\* Variant for mutation testing: a failed import stops the scheduler.
QuietNotFailed == {"idle", "completed", "cancelled"}

Quiet  == {"idle", "completed", "failed", "cancelled"}
Busy   == {"connecting", "importing"}
Phases == Quiet \cup Busy

\* Whose position a watermark is: the repository's own, another import's, or
\* the SVN head at the time a branch pair was created.
Positions == {None, "own", "other", "now"}

Idle == [pc |-> "none", slot |-> None, wipe |-> FALSE, snap |-> None]

\* An import task that found cancel_requested set waits for the write lock
\* with its own read guard in hand.  tokio's RwLock queues every later reader
\* and writer behind that waiter, so nobody gets the lock again.
Wedged(s) == \E t \in Tasks : task[t] = [pc |-> "cancelling", slot |-> s]

Free(s) == ~Wedged(s)

Live(t) == task[t].pc # "free"

Fault(kind) ==
    /\ kind \in FaultKinds /\ faults < MaxFaults
    /\ faults' = faults + 1
    /\ UNCHANGED requests

Asked(kind) ==
    /\ kind \in RequestKinds /\ requests < MaxRequests
    /\ requests' = requests + 1
    /\ UNCHANGED faults

Alive == daemon # "exited"

-----------------------------------------------------------------------------
(* Start-up.  Memory is new; a row without a watermark takes the one in    *)
(* the watermarks table, whichever import wrote it, else what its own      *)
(* kv_state keys or the markers in its clone's log say.                    *)

PositionFrom(s, r) ==
    CASE s = None -> None
      [] s = r \/ (s = Global /\ r = Migrated) -> "own"
      [] OTHER -> "other"

Fresh ==
    /\ daemon = "up" /\ graceful = TRUE /\ awaited = {}
    /\ pc = "select" /\ looking = None /\ left = {} /\ queue = 0 /\ senders = 0
    /\ running = {} /\ cycles = [r \in Repos |-> 0]
    /\ from = [r \in Repos |-> None] /\ tracked = {}
    /\ phase = [s \in Slots |-> "idle"] /\ cancelled = FALSE
    /\ task = [t \in Tasks |-> [pc |-> "free", slot |-> None]]
    /\ request = [q \in Requests |-> Idle]
    /\ panicked = {} /\ stuck = {}

Init ==
    /\ Fresh
    /\ rows = Repos \ Children /\ enabled = Repos \ Children
    /\ position = [r \in Repos |-> None] /\ globalPos = None
    /\ requests = 0 /\ faults = 0

\* Variant for mutation testing: the watermarks table goes before the row.
RecoveredFromTable(r, found) ==
    IF r \in rows /\ globalPos # None THEN PositionFrom(globalPos, r)
    ELSE IF r \in rows /\ position[r] = None /\ r \in found THEN "own"
    ELSE position[r]

Recovered(r, found) ==
    IF r \notin rows \/ position[r] # None THEN position[r]
    ELSE IF globalPos # None THEN PositionFrom(globalPos, r)
    ELSE IF r \in found THEN "own" ELSE None

Reboot ==
    /\ \E found \in SUBSET rows :
          position' = [r \in Repos |-> Recovered(r, found)]
    /\ daemon' = "up" /\ graceful' = TRUE /\ awaited' = {}
    /\ pc' = "select" /\ looking' = None /\ left' = {}
    /\ queue' = 0 /\ senders' = 0
    /\ running' = {} /\ cycles' = [r \in Repos |-> 0]
    /\ from' = [r \in Repos |-> None] /\ tracked' = {}
    /\ phase' = [s \in Slots |-> "idle"] /\ cancelled' = FALSE
    /\ task' = [t \in Tasks |-> [pc |-> "free", slot |-> None]]
    /\ request' = [q \in Requests |-> Idle]
    /\ panicked' = {} /\ stuck' = {}
    /\ UNCHANGED <<rows, enabled, globalPos>>

Restart == daemon = "exited" /\ Reboot /\ UNCHANGED bounds

\* The process dies at any point and is started again.
Crash == Alive /\ Fault("crash") /\ Reboot

-----------------------------------------------------------------------------
(* The scheduler: one task.  A pass lists the repositories once and looks  *)
(* at them one after the other; every repository counts as due, because    *)
(* last_sync_at is written in a form the due check cannot parse.           *)

BeginPass ==
    /\ Free(Global)
    /\ looking' = None
    /\ IF phase[Global] \in Quiet
       THEN pc' = "pass" /\ left' = enabled
       ELSE pc' = "select" /\ left' = {}

Tick ==
    /\ Alive /\ pc = "select"
    /\ BeginPass
    /\ UNCHANGED <<history, queue, senders, main, syncing, db, imports,
                   request, bounds>>

\* A message leaves the channel, and a blocked sender's takes its place.
Received ==
    \/ senders = 0 /\ queue' = queue - 1 /\ senders' = senders
    \/ senders > 0 /\ queue' = queue /\ senders' = senders - 1

TakeWebhook ==
    /\ Alive /\ pc = "select" /\ queue > 0
    /\ BeginPass
    /\ Received
    /\ UNCHANGED <<history, main, syncing, db, imports, request, bounds>>

\* Variant for mutation testing: running_repos is not looked at.
MayStartUnchecked(r) == TRUE

MayStart(r) == r \notin running

LookAt(r) ==
    /\ Alive /\ pc = "pass" /\ r \in left
    /\ left' = left \ {r}
    /\ IF MayStart(r) THEN pc' = "open" /\ looking' = r
                      ELSE UNCHANGED <<pc, looking>>
    /\ UNCHANGED <<history, queue, senders, main, syncing, db, imports,
                   request, bounds>>

PassEnds ==
    /\ Alive /\ pc = "pass" /\ left = {}
    /\ pc' = "select"
    /\ UNCHANGED <<history, looking, left, queue, senders, main, syncing, db,
                   imports, request, bounds>>

\* The clone, the identity mapper or the database cannot be opened.
OpenFails ==
    /\ Alive /\ pc = "open"
    /\ Fault("open")
    /\ pc' = "pass" /\ looking' = None
    /\ UNCHANGED <<history, left, queue, senders, main, syncing, db, imports,
                   request>>

\* Credentials, clone and engine are ready: mark the repository and spawn.
SpawnCycle ==
    /\ Alive /\ pc = "open"
    /\ running' = running \cup {looking}
    /\ cycles' = [cycles EXCEPT ![looking] = @ + 1]
    /\ from' = [from EXCEPT ![looking] = position[looking]]
    /\ pc' = "track"
    /\ UNCHANGED <<history, tracked, looking, left, queue, senders, main, db,
                   imports, request, bounds>>

\* Variant for mutation testing: the handle list is replaced, not extended.
WithHandleReplaced(r) == {r}

WithHandle(r) == {h \in tracked \cup {r} : cycles[h] > 0}

TrackCycle ==
    /\ Alive /\ pc = "track"
    /\ tracked' = WithHandle(looking)
    /\ pc' = "pass" /\ looking' = None
    /\ UNCHANGED <<history, left, queue, senders, main, running, cycles, from,
                   db, imports, request, bounds>>

-----------------------------------------------------------------------------
(* A cycle reads its watermark when it begins and writes it as it applies. *)

Unmarked(r) == running \ {r}

HandleDone(r) == tracked' = tracked \ {r} /\ awaited' = awaited \ {r}

CycleEnds(r) ==
    /\ Alive /\ cycles[r] > 0
    /\ cycles' = [cycles EXCEPT ![r] = @ - 1]
    /\ running' = Unmarked(r)
    /\ from' = [from EXCEPT ![r] = None]
    /\ HandleDone(r)
    /\ \E applied \in BOOLEAN :
          position' = [position EXCEPT ![r] =
              IF ~applied THEN @
              ELSE IF from[r] = None THEN "own" ELSE from[r]]
    /\ UNCHANGED <<history, daemon, graceful, scheduler, rows, enabled,
                   globalPos, imports, request, bounds>>

\* The task panics: the lines that unmark the repository never run.
CyclePanics(r) ==
    /\ Alive /\ cycles[r] > 0
    /\ Fault("panic")
    /\ cycles' = [cycles EXCEPT ![r] = @ - 1]
    /\ from' = [from EXCEPT ![r] = None]
    /\ HandleDone(r)
    /\ panicked' = panicked \cup {r}
    /\ UNCHANGED <<stuck, running, daemon, graceful, scheduler, db, imports,
                   request>>

-----------------------------------------------------------------------------
(* Webhooks: `send` waits while the channel is full.                       *)

HasRoom == queue < QueueCap

Webhook ==
    /\ Alive
    /\ \/ /\ HasRoom
          /\ queue' = queue + 1 /\ UNCHANGED senders
       \/ /\ ~HasRoom /\ senders < MaxSenders
          /\ senders' = senders + 1 /\ UNCHANGED queue
    /\ UNCHANGED <<history, pc, looking, left, main, syncing, db, imports,
                   request, bounds>>

-----------------------------------------------------------------------------
(* Starting an import: /api/setup/import and /api/repos/:id/import.  The   *)
(* check and the reset of the progress are two acquisitions of its lock.   *)

\* Variant for mutation testing: the running import is not noticed.
MayImportUnchecked(s) == TRUE

MayImport(s) == phase[s] # "importing"

AskImport(q, s) ==
    /\ Alive /\ request[q] = Idle
    /\ Asked("start") /\ s \in rows \cup {Global}
    /\ Free(s)
    /\ IF MayImport(s)
       THEN \E wipe \in {FALSE, s # Global} :
              request' = [request EXCEPT ![q] =
                  [pc |-> "begin", slot |-> s, wipe |-> wipe, snap |-> None]]
       ELSE UNCHANGED request
    /\ UNCHANGED <<history, main, scheduler, syncing, db, imports>>

\* The request is answered, or goes on at `step`.
Goes(q, step) == request' = [request EXCEPT ![q].pc = step]
Answered(q)   == request' = [request EXCEPT ![q] = Idle]

NewProgress(s, p) ==
    /\ phase' = [phase EXCEPT ![s] = p]
    /\ cancelled' = (cancelled /\ s # Global)
    /\ stuck' = stuck \ {s}

BeginImport(q) ==
    LET s == request[q].slot IN
    /\ Alive /\ request[q].pc = "begin" /\ Free(s)
    /\ NewProgress(s, "importing")
    /\ Goes(q, IF request[q].wipe THEN "wipe" ELSE "spawn")
    /\ UNCHANGED <<panicked, task, main, scheduler, syncing, db, bounds>>

\* reset=true: delete the clone, force-push an empty commit, watermark 0.
WipeRepository(q) ==
    LET s == request[q].slot IN
    /\ Alive /\ request[q].pc = "wipe" /\ s \in Repos
    /\ position' = [position EXCEPT ![s] = None]
    /\ Goes(q, "spawn")
    /\ UNCHANGED <<history, main, scheduler, syncing, rows, enabled, globalPos,
                   imports, bounds>>

SpawnImport(q) ==
    /\ Alive /\ request[q].pc = "spawn"
    /\ \E t \in Tasks : ~Live(t)
    /\ task' = [task EXCEPT ![CHOOSE t \in Tasks : ~Live(t)] =
                   [pc |-> "connect", slot |-> request[q].slot]]
    /\ Answered(q)
    /\ UNCHANGED <<history, phase, cancelled, main, scheduler, syncing, db,
                   bounds>>

\* The config, the clone, the mapper or the database cannot be opened: the
\* request answers with the error and leaves the phase as it set it.
StartFails(q) ==
    /\ Alive /\ request[q].pc \in {"wipe", "spawn"}
    /\ Fault("start")
    /\ Answered(q)
    /\ stuck' = stuck \cup {request[q].slot}
    /\ UNCHANGED <<panicked, main, scheduler, syncing, db, imports>>

-----------------------------------------------------------------------------
(* Cancelling, and Reset & Reimport.                                       *)

Cancel ==
    /\ Alive /\ Asked("cancel") /\ Free(Global)
    /\ cancelled' = (cancelled \/ phase[Global] = "importing")
    /\ UNCHANGED <<history, phase, task, main, scheduler, syncing, db,
                   request>>

AskReset(q) ==
    /\ Alive /\ request[q] = Idle /\ Asked("reset") /\ Free(Global)
    /\ cancelled' = (cancelled \/ phase[Global] \in Busy)
    /\ request' = [request EXCEPT ![q] =
           [pc |-> IF phase[Global] \in Busy THEN "poll" ELSE "connect",
            slot |-> Global, wipe |-> FALSE, snap |-> None]]
    /\ UNCHANGED <<history, phase, task, main, scheduler, syncing, db>>

\* Every half second the phase is read; after 30 seconds the request gives up.
ResetPolls(q) ==
    /\ Alive /\ request[q].pc = "poll" /\ Free(Global)
    /\ IF phase[Global] \in Quiet THEN Goes(q, "connect") ELSE Answered(q)
    /\ UNCHANGED <<history, main, scheduler, syncing, db, imports, bounds>>

ResetConnects(q) ==
    /\ Alive /\ request[q].pc = "connect" /\ Free(Global)
    /\ NewProgress(Global, "connecting")
    /\ Goes(q, "clear")
    /\ UNCHANGED <<panicked, task, main, scheduler, syncing, db, bounds>>

\* The clone is wiped and an empty commit forced out; then clear_sync_data
\* and the phase for the import that follows.
ResetClears(q) ==
    /\ Alive /\ request[q].pc = "clear" /\ Free(Global)
    /\ globalPos' = None
    /\ phase' = [phase EXCEPT ![Global] = "importing"]
    /\ Goes(q, "spawn")
    /\ UNCHANGED <<history, cancelled, task, main, scheduler, syncing, table,
                   bounds>>

\* git cannot commit or push: Failed is recorded.  Any other error of these
\* steps returns at once and leaves the phase at Connecting.
ResetFails(q) ==
    /\ Alive /\ request[q].pc = "clear" /\ Free(Global)
    /\ Fault("start")
    /\ \E recorded \in BOOLEAN :
          /\ phase' = [phase EXCEPT
                          ![Global] = IF recorded THEN "failed" ELSE @]
          /\ stuck' = IF recorded THEN stuck ELSE stuck \cup {Global}
    /\ Answered(q)
    /\ UNCHANGED <<panicked, cancelled, task, main, scheduler, syncing, db>>

-----------------------------------------------------------------------------
(* The import task.                                                        *)

ImportConnects(t) ==
    /\ Alive /\ task[t].pc = "connect" /\ Free(task[t].slot)
    /\ task' = [task EXCEPT ![t].pc = "work"]
    /\ UNCHANGED <<history, phase, cancelled, main, scheduler, syncing, db,
                   request, bounds>>

\* svn info or svn log fails.
ImportFails(t) ==
    /\ Alive /\ task[t].pc = "connect" /\ Free(task[t].slot)
    /\ Fault("connect")
    /\ phase' = [phase EXCEPT ![task[t].slot] = "failed"]
    /\ task' = [task EXCEPT ![t] = [pc |-> "free", slot |-> None]]
    /\ UNCHANGED <<history, cancelled, main, scheduler, syncing, db, request>>

\* Before a revision, cancel_requested is found set.
ImportNoticesCancel(t) ==
    /\ Alive /\ task[t].pc = "work" /\ Free(task[t].slot)
    /\ task[t].slot = Global /\ cancelled
    /\ task' = [task EXCEPT ![t].pc = "cancelling"]
    /\ UNCHANGED <<history, phase, cancelled, main, scheduler, syncing, db,
                   request, bounds>>

\* The revisions are through: the one watermarks table gets the last one's
\* number, unless the history was empty.
ImportMarks(t) ==
    /\ Alive /\ task[t].pc = "work" /\ Free(task[t].slot)
    /\ \E empty \in BOOLEAN :
          globalPos' = IF empty THEN globalPos ELSE task[t].slot
    /\ task' = [task EXCEPT ![t].pc = "mark"]
    /\ UNCHANGED <<history, phase, cancelled, main, scheduler, syncing, table,
                   request, bounds>>

\* Variant for mutation testing: the phase stays as the import left it.
FinalUnset(p) == p

Final(p) == IF p = "cancelled" THEN p ELSE "completed"

\* The spawned wrapper: Completed unless Cancelled; a repository's row takes
\* whatever the watermarks table holds by now.
ImportEnds(t) ==
    LET s == task[t].slot IN
    /\ Alive /\ task[t].pc = "mark" /\ Free(s)
    /\ phase' = [phase EXCEPT ![s] = Final(@)]
    /\ position' = IF s \in Repos /\ globalPos # None
                   THEN [position EXCEPT ![s] = PositionFrom(globalPos, s)]
                   ELSE position
    /\ task' = [task EXCEPT ![t] = [pc |-> "free", slot |-> None]]
    /\ UNCHANGED <<history, cancelled, main, scheduler, syncing, rows, enabled,
                   globalPos, request, bounds>>

-----------------------------------------------------------------------------
(* Rewriting a row: read it, then write every column back, the watermark   *)
(* included.                                                               *)

ReadRow(q, r, kind, flags) ==
    /\ Alive /\ request[q] = Idle /\ Asked(kind) /\ r \in rows
    /\ \E on \in flags :
          request' = [request EXCEPT ![q] =
              [pc |-> "write", slot |-> r, wipe |-> on, snap |-> position[r]]]
    /\ UNCHANGED <<history, main, scheduler, syncing, db, imports>>

UpdateRepo(q, r)  == ReadRow(q, r, "update", BOOLEAN)
DeleteRepo(q, r)  == ReadRow(q, r, "delete", {FALSE})
ApplyConfig(q)    == ReadRow(q, Migrated, "apply", {Migrated \in enabled})

WriteRow(q) ==
    LET r == request[q].slot IN
    /\ Alive /\ request[q].pc = "write"
    /\ position' = [position EXCEPT ![r] = request[q].snap]
    /\ enabled' = IF request[q].wipe THEN enabled \cup {r} ELSE enabled \ {r}
    /\ Answered(q)
    /\ UNCHANGED <<history, main, scheduler, syncing, rows, globalPos, imports,
                   bounds>>

\* A branch pair: the row is inserted enabled, and only then is SVN asked for
\* the revision to start from.
CreateBranchPair(q, c) ==
    /\ Alive /\ request[q] = Idle /\ Asked("branch") /\ c \in Children \ rows
    /\ rows' = rows \cup {c} /\ enabled' = enabled \cup {c}
    /\ \E skip \in BOOLEAN :
          request' = IF skip
                     THEN [request EXCEPT ![q] =
                             [Idle EXCEPT !.pc = "now", !.slot = c]]
                     ELSE request
    /\ UNCHANGED <<history, position, globalPos, main, scheduler, syncing,
                   imports>>

StartFromNow(q) ==
    LET child == request[q].slot IN
    /\ Alive /\ request[q].pc = "now"
    /\ \E answered \in BOOLEAN :
          position' = [position EXCEPT ![child] = IF answered THEN "now" ELSE @]
    /\ Answered(q)
    /\ UNCHANGED <<history, main, scheduler, syncing, rows, enabled, globalPos,
                   imports, bounds>>

-----------------------------------------------------------------------------
(* Shutdown: notify_waiters wakes the scheduler only if it waits in        *)
(* select, not in a pass or on the progress lock; each wait of main has a  *)
(* deadline.                                                               *)

Signal ==
    /\ daemon = "up" /\ Asked("signal")
    /\ daemon' = "joining"
    /\ \/ pc = "select" /\ pc' = "stopped"
       \/ (pc # "select" \/ Wedged(Global)) /\ pc' = pc
    /\ UNCHANGED <<history, graceful, awaited, looking, left, queue, senders,
                   syncing, db, imports, request>>

\* Variant for mutation testing: the wait for the scheduler has no deadline.
MayJoinNoDeadline == daemon = "joining" /\ pc = "stopped"

\* The scheduler has returned, or ten seconds have passed.
MayJoin == daemon = "joining"

JoinScheduler ==
    /\ MayJoin
    /\ daemon' = "draining"
    /\ graceful' = (pc = "stopped")
    /\ awaited' = {r \in tracked : cycles[r] > 0} /\ tracked' = {}
    /\ UNCHANGED <<history, scheduler, running, cycles, from, db, imports,
                   request, bounds>>

\* The awaited cycles are over, or thirty seconds have passed; the rest is
\* the web server's five seconds and the checkpoint of the database.
Exit ==
    /\ daemon = "draining"
    /\ daemon' = "exited"
    /\ \/ /\ awaited = {}
          /\ UNCHANGED <<graceful, bounds>>
       \/ /\ awaited # {}
          /\ Fault("slow")
          /\ graceful' = FALSE
    /\ UNCHANGED <<history, awaited, scheduler, syncing, db, imports, request>>

-----------------------------------------------------------------------------
SchedulerStep ==
    \/ Tick \/ TakeWebhook \/ PassEnds \/ SpawnCycle \/ TrackCycle
    \/ \E r \in Repos : LookAt(r)

ImportStep(t) ==
    \/ ImportConnects(t) \/ ImportNoticesCancel(t)
    \/ ImportMarks(t) \/ ImportEnds(t)

RequestStep(q) ==
    \/ BeginImport(q) \/ WipeRepository(q) \/ SpawnImport(q)
    \/ ResetPolls(q) \/ ResetConnects(q) \/ ResetClears(q)
    \/ WriteRow(q) \/ StartFromNow(q)

NewRequest(q) ==
    \/ \E s \in Slots : AskImport(q, s)
    \/ \E r \in Repos :
          UpdateRepo(q, r) \/ DeleteRepo(q, r) \/ CreateBranchPair(q, r)
    \/ ApplyConfig(q) \/ AskReset(q)

Next ==
    \/ SchedulerStep \/ OpenFails
    \/ \E r \in Repos : CycleEnds(r) \/ CyclePanics(r)
    \/ Webhook \/ Cancel
    \/ \E q \in Requests :
          NewRequest(q) \/ RequestStep(q) \/ StartFails(q) \/ ResetFails(q)
    \/ \E t \in Tasks : ImportStep(t) \/ ImportFails(t)
    \/ Signal \/ JoinScheduler \/ Exit \/ Restart \/ Crash

Spec == Init /\ [][Next]_vars

\* Every task of the runtime that can run is eventually run; select! picks
\* among its ready branches at random, so a message in the channel is not
\* passed over for ever.
Fairness ==
    /\ WF_vars(SchedulerStep) /\ SF_vars(TakeWebhook)
    /\ \A r \in Repos : WF_vars(CycleEnds(r))
    /\ \A t \in Tasks : WF_vars(ImportStep(t))
    /\ \A q \in Requests : WF_vars(RequestStep(q))
    /\ WF_vars(JoinScheduler) /\ WF_vars(Exit) /\ WF_vars(Restart)

FairSpec == Spec /\ Fairness

-----------------------------------------------------------------------------
(* Properties.                                                             *)

RequestPcs == {"none", "begin", "wipe", "spawn", "poll", "connect", "clear",
               "write", "now"}

TaskPcs == {"free", "connect", "work", "cancelling", "mark"}

\* Every variable has its type.
TypeOK ==
    /\ daemon \in {"up", "joining", "draining", "exited"}
    /\ graceful \in BOOLEAN /\ awaited \subseteq Repos
    /\ pc \in {"select", "pass", "open", "track", "stopped"}
    /\ looking \in Repos \cup {None} /\ left \subseteq Repos
    /\ queue \in 0..QueueCap /\ senders \in Nat
    /\ running \subseteq Repos /\ cycles \in [Repos -> Nat]
    /\ from \in [Repos -> Positions] /\ tracked \subseteq Repos
    /\ rows \subseteq Repos /\ enabled \subseteq rows
    /\ position \in [Repos -> Positions] /\ globalPos \in Slots \cup {None}
    /\ phase \in [Slots -> Phases] /\ cancelled \in BOOLEAN
    /\ task \in [Tasks -> [pc : TaskPcs, slot : Slots \cup {None}]]
    /\ request \in [Requests -> [pc : RequestPcs, slot : Slots \cup {None},
                                 wipe : BOOLEAN, snap : Positions]]
    /\ panicked \subseteq Repos /\ stuck \subseteq Slots
    /\ requests \in Nat /\ faults \in Nat

\* At most one cycle of a repository runs at a time: the check of
\* running_repos and the insertion are many awaits apart, but one task does
\* both, and a repository stays marked until its cycle is over.
OneCyclePerRepository == \A r \in Repos : cycles[r] <= 1

\* A repository stays marked as running without a cycle only after a panic.
MarkedMeansRunning ==
    \A r \in running : cycles[r] > 0 \/ r \in panicked

\* Requests made one at a time never put two import tasks on one slot,
\* whatever was cancelled, reset, failed or timed out before.
OneImportPerSlot ==
    \A t, u \in Tasks :
        Live(t) /\ Live(u) /\ task[t].slot = task[u].slot => t = u

\* If no wait of the shutdown ran out, no cycle is cut off by the exit.
CleanExit ==
    [][daemon = "draining" /\ daemon' = "exited" /\ graceful'
          => \A r \in Repos : cycles[r] = 0]_vars

\* A watermark is lost in four ways only: a reset, a row written back from a
\* stale read, an import that ends after another one wrote the watermarks
\* table, a cycle that began at another repository's position.  No restart, no
\* crash and no failure of anything loses one.
WatermarkKept ==
    [][\A r \in Repos :
          position[r] \in {"own", "now"} /\ position'[r] \in {None, "other"} =>
              \/ \E q \in Requests :
                    /\ request[q].slot = r /\ request[q].pc \in {"wipe", "write"}
                    /\ request'[q] # request[q]
              \/ \E t \in Tasks :
                    /\ task[t] = [pc |-> "mark", slot |-> r] /\ ~Live(t)'
                    /\ PositionFrom(globalPos, r) = "other"
              \/ cycles'[r] < cycles[r] /\ from[r] = "other"]_vars

\* A repository is synced again and again, unless it is disabled, its cycle
\* has panicked, a cancelled import holds the progress lock, a failed start
\* left the global phase set, or the daemon is going down.
Syncable(r) ==
    /\ daemon = "up" /\ r \in enabled \ panicked
    /\ Free(Global) /\ Global \notin stuck

SyncedAgainAndAgain ==
    \A r \in Repos : <>[]Syncable(r) => []<>(cycles[r] > 0)

\* An import that is under way ends, unless its start failed after the phase
\* was set or it was cancelled.
ImportsEnd ==
    \A s \in Slots :
        phase[s] \in Busy ~> phase[s] \in Quiet \/ s \in stuck \/ Wedged(s)

\* After SIGTERM the process ends, even if the scheduler missed the signal or
\* is blocked.
ShutdownEnds == daemon = "joining" ~> daemon \in {"exited", "up"}

\* setup.rs: "cancel it and wait for it to stop".  A cancelled import is over
\* at some point.
CancelledImportStops ==
    cancelled /\ phase[Global] = "importing" ~> phase[Global] \in Quiet
=============================================================================
