--------------------------- MODULE TeamDaemonProofs ---------------------------
(***************************************************************************)
(* Proofs about TeamDaemon: type correctness; only four causes lose a      *)
(* watermark; one cycle per repository; true marks; a clean exit; and one  *)
(* import task per slot for requests that come one at a time.              *)
(*                                                                         *)
(* Each invariant comes with its strengthening (TypeInv, CycleInv,         *)
(* ImportInv), one lemma per group of actions that says what the group     *)
(* preserves, and a lemma that the other actions do not touch it.          *)
(***************************************************************************)
EXTENDS TeamDaemon, TLAPS

\* The scheduler has a repository in hand when it opens or tracks one.
LookingOK == pc \in {"open", "track"} => looking \in Repos

\* A request that goes on names a slot, one that rewrites a row a row.
RequestsOK ==
    \A q \in Requests :
        /\ request[q].pc # "none" => request[q].slot \in Slots
        /\ request[q].pc \in {"write", "now"} => request[q].slot \in rows

Job  == [pc : TaskPcs, slot : Slots \cup {None}]
Call == [pc : RequestPcs, slot : Slots \cup {None}, wipe : BOOLEAN, snap : Positions]

TypeInv == TypeOK /\ LookingOK /\ RequestsOK

LEMMA FreshTypes ==
    ASSUME Init PROVE TypeInv
<1>1. position \in [Repos -> Positions] /\ rows \subseteq Repos /\ enabled \subseteq rows
      /\ globalPos = None /\ requests = 0 /\ faults = 0 /\ Fresh
  BY DEF Init, Positions
<1>2. /\ phase \in [Slots -> Phases] /\ cancelled \in BOOLEAN
      /\ task \in [Tasks -> Job] /\ request \in [Requests -> Call] /\ RequestsOK
  BY <1>1 DEF Fresh, Phases, Quiet, Job, Call, TaskPcs, RequestPcs, Idle, Positions, RequestsOK
<1>3. /\ cycles \in [Repos -> Nat] /\ from \in [Repos -> Positions]
      /\ running \subseteq Repos /\ tracked \subseteq Repos
  BY <1>1 DEF Fresh, Positions
<1> QED BY <1>1, <1>2, <1>3, TeamDaemonAssumption DEF Fresh, TypeInv, TypeOK, LookingOK, Job, Call

LEMMA SchedulerTypes ==
    ASSUME TypeInv, SchedulerStep \/ OpenFails PROVE TypeInv'
<1> USE DEF history, main, scheduler, syncing, table, db, imports, bounds
<1>1. CASE Tick BY <1>1 DEF TypeInv, TypeOK, LookingOK, RequestsOK, Tick, BeginPass
<1>2. CASE TakeWebhook BY <1>2, TeamDaemonAssumption DEF TypeInv, TypeOK, LookingOK, RequestsOK, TakeWebhook, BeginPass, Received
<1>3. CASE PassEnds BY <1>3 DEF TypeInv, TypeOK, LookingOK, RequestsOK, PassEnds
<1>4. CASE SpawnCycle BY <1>4 DEF TypeInv, TypeOK, LookingOK, RequestsOK, SpawnCycle
<1>5. CASE TrackCycle BY <1>5 DEF TypeInv, TypeOK, LookingOK, RequestsOK, TrackCycle, WithHandle
<1>6. ASSUME NEW r \in Repos, LookAt(r) PROVE TypeInv'
  BY <1>6 DEF TypeInv, TypeOK, LookingOK, RequestsOK, LookAt
<1>7. CASE OpenFails BY <1>7 DEF TypeInv, TypeOK, LookingOK, RequestsOK, OpenFails, Fault
<1> QED BY <1>1, <1>2, <1>3, <1>4, <1>5, <1>6, <1>7 DEF SchedulerStep

LEMMA CycleTypes ==
    ASSUME TypeInv, NEW r \in Repos, CycleEnds(r) \/ CyclePanics(r) PROVE TypeInv'
<1> USE DEF history, main, scheduler, syncing, table, db, imports, bounds
<1>1. CASE CycleEnds(r) BY <1>1 DEF TypeInv, TypeOK, LookingOK, RequestsOK, CycleEnds, Unmarked, HandleDone, Positions
<1>2. CASE CyclePanics(r) BY <1>2 DEF TypeInv, TypeOK, LookingOK, RequestsOK, CyclePanics, HandleDone, Fault, Positions
<1> QED BY <1>1, <1>2

LEMMA RequestTypes ==
    ASSUME TypeInv, NEW q \in Requests,
           NewRequest(q) \/ RequestStep(q) \/ StartFails(q) \/ ResetFails(q)
    PROVE TypeInv'
<1> USE DEF history, main, scheduler, syncing, table, db, imports, bounds,
     Slots, RequestPcs, Answered, Goes, Idle, Asked, Fault, Positions
<1>1. ASSUME NEW s \in Slots, AskImport(q, s) PROVE TypeInv'
  <2>1. request' \in [Requests -> Call] /\ RequestsOK'
    <3>1. CASE UNCHANGED request
      BY <1>1, <3>1 DEF AskImport, TypeInv, TypeOK, RequestsOK, Call
    <3>2. ASSUME NEW wipe \in BOOLEAN,
                 request' = [request EXCEPT ![q] =
                   [pc |-> "begin", slot |-> s, wipe |-> wipe, snap |-> None]]
          PROVE  request' \in [Requests -> Call] /\ RequestsOK'
      BY <1>1, <3>2 DEF AskImport, TypeInv, TypeOK, RequestsOK, Call
    <3> QED BY <1>1, <3>1, <3>2 DEF AskImport
  <2>2. UNCHANGED <<history, main, scheduler, syncing, db, imports, faults>>
        /\ requests' \in Nat
    BY <1>1 DEF AskImport, TypeInv, TypeOK
  <2> QED BY <2>1, <2>2 DEF TypeInv, TypeOK, LookingOK, Call
<1>2. ASSUME NEW r \in Repos, UpdateRepo(q, r) PROVE TypeInv' BY <1>2 DEF TypeInv, TypeOK, LookingOK, RequestsOK, UpdateRepo, ReadRow
<1>3. ASSUME NEW r \in Repos, DeleteRepo(q, r) PROVE TypeInv' BY <1>3 DEF TypeInv, TypeOK, LookingOK, RequestsOK, DeleteRepo, ReadRow
<1>4. ASSUME NEW r \in Repos, CreateBranchPair(q, r) PROVE TypeInv'
  <2>1. request' \in [Requests -> Call]
    <3>1. CASE UNCHANGED request BY <3>1 DEF TypeInv, TypeOK, Call
    <3>2. CASE request' = [request EXCEPT ![q] =
                              [Idle EXCEPT !.pc = "now", !.slot = r]]
      BY <3>2 DEF TypeInv, TypeOK, Call
    <3> QED BY <1>4, <3>1, <3>2 DEF CreateBranchPair
  <2>2. RequestsOK' BY <1>4 DEF TypeInv, TypeOK, RequestsOK, CreateBranchPair
  <2>3. rows' \subseteq Repos /\ enabled' \subseteq rows' /\ requests' \in Nat
    BY <1>4 DEF TypeInv, TypeOK, CreateBranchPair
  <2>4. UNCHANGED <<history, position, globalPos, main, scheduler, syncing, imports, faults>>
    BY <1>4 DEF CreateBranchPair
  <2> QED BY <2>1, <2>2, <2>3, <2>4 DEF TypeInv, TypeOK, LookingOK, Call
<1>5. CASE ApplyConfig(q) BY <1>5, TeamDaemonAssumption DEF TypeInv, TypeOK, LookingOK, RequestsOK, ApplyConfig, ReadRow
<1>6. CASE AskReset(q) BY <1>6 DEF TypeInv, TypeOK, LookingOK, RequestsOK, AskReset
<1>7. CASE BeginImport(q)
  <2>1. request' \in [Requests -> Call]
    BY <1>7 DEF TypeInv, TypeOK, BeginImport, Call
  <2>2. RequestsOK' BY <1>7 DEF TypeInv, TypeOK, RequestsOK, BeginImport
  <2>3. phase' \in [Slots -> Phases] /\ cancelled' \in BOOLEAN /\ stuck' \subseteq Slots
    BY <1>7 DEF TypeInv, TypeOK, RequestsOK, BeginImport, NewProgress, Phases, Busy
  <2>4. UNCHANGED <<panicked, task, main, scheduler, syncing, db, bounds>>
    BY <1>7 DEF BeginImport
  <2> QED BY <2>1, <2>2, <2>3, <2>4 DEF TypeInv, TypeOK, LookingOK, Call
<1>8. CASE WipeRepository(q) BY <1>8 DEF TypeInv, TypeOK, LookingOK, RequestsOK, WipeRepository
<1>9. CASE SpawnImport(q) BY <1>9 DEF TypeInv, TypeOK, LookingOK, RequestsOK, SpawnImport, TaskPcs
<1>10. CASE ResetPolls(q)
  <2>1. request' \in [Requests -> Call]
    <3>1. CASE Goes(q, "connect") BY <3>1 DEF TypeInv, TypeOK, Call
    <3>2. CASE Answered(q) BY <3>2 DEF TypeInv, TypeOK, Call
    <3> QED BY <1>10, <3>1, <3>2 DEF ResetPolls
  <2>2. RequestsOK' BY <1>10 DEF TypeInv, TypeOK, RequestsOK, ResetPolls
  <2>3. UNCHANGED <<history, main, scheduler, syncing, db, imports, bounds>>
    BY <1>10 DEF ResetPolls
  <2> QED BY <2>1, <2>2, <2>3 DEF TypeInv, TypeOK, LookingOK, Call
<1>11. CASE ResetConnects(q) BY <1>11 DEF TypeInv, TypeOK, LookingOK, RequestsOK, ResetConnects, NewProgress, Phases, Busy
<1>12. CASE ResetClears(q) BY <1>12 DEF TypeInv, TypeOK, LookingOK, RequestsOK, ResetClears, Phases, Busy
<1>13. CASE WriteRow(q) BY <1>13 DEF TypeInv, TypeOK, LookingOK, RequestsOK, WriteRow
<1>14. CASE StartFromNow(q) BY <1>14 DEF TypeInv, TypeOK, LookingOK, RequestsOK, StartFromNow
<1>15. CASE StartFails(q)
  <2>1. /\ request' \in [Requests -> Call] /\ stuck' \subseteq Slots
        /\ requests' \in Nat /\ faults' \in Nat
    BY <1>15 DEF TypeInv, TypeOK, RequestsOK, StartFails, Call
  <2>2. RequestsOK' BY <1>15 DEF TypeInv, TypeOK, RequestsOK, StartFails
  <2>3. UNCHANGED <<panicked, main, scheduler, syncing, db, imports>>
    BY <1>15 DEF StartFails
  <2> QED BY <2>1, <2>2, <2>3 DEF TypeInv, TypeOK, LookingOK, Call
<1>16. CASE ResetFails(q) BY <1>16 DEF TypeInv, TypeOK, LookingOK, RequestsOK, ResetFails, Phases, Quiet
<1> QED BY <1>1, <1>2, <1>3, <1>4, <1>5, <1>6, <1>7, <1>8, <1>9, <1>10, <1>11, <1>12, <1>13, <1>14, <1>15, <1>16 DEF NewRequest, RequestStep

LEMMA TaskTypes ==
    ASSUME TypeInv, NEW t \in Tasks, ImportStep(t) \/ ImportFails(t)
    PROVE TypeInv'
<1> USE DEF history, main, scheduler, syncing, table, db, imports, bounds, TaskPcs, Phases, Quiet, Slots
<1>1. CASE ImportConnects(t) BY <1>1 DEF TypeInv, TypeOK, LookingOK, RequestsOK, ImportConnects
<1>2. CASE ImportNoticesCancel(t) BY <1>2 DEF TypeInv, TypeOK, LookingOK, RequestsOK, ImportNoticesCancel
<1>3. CASE ImportMarks(t) BY <1>3 DEF TypeInv, TypeOK, LookingOK, RequestsOK, ImportMarks
<1>4. CASE ImportEnds(t) BY <1>4 DEF TypeInv, TypeOK, LookingOK, RequestsOK, ImportEnds, Final, PositionFrom, Positions
<1>5. CASE ImportFails(t)
  <2>1. /\ phase' \in [Slots -> Phases] /\ task' \in [Tasks -> Job]
        /\ requests' \in Nat /\ faults' \in Nat
    <3>1. phase' \in [Slots -> Phases] BY <1>5 DEF TypeInv, TypeOK, ImportFails
    <3>2. task' \in [Tasks -> Job]
      BY <1>5 DEF TypeInv, TypeOK, ImportFails, Job
    <3>3. requests' \in Nat /\ faults' \in Nat
      BY <1>5 DEF TypeInv, TypeOK, ImportFails, Fault
    <3> QED BY <3>1, <3>2, <3>3
  <2>2. UNCHANGED <<history, cancelled, main, scheduler, syncing, db, request>>
    BY <1>5 DEF ImportFails
  <2> QED BY <2>1, <2>2 DEF TypeInv, TypeOK, LookingOK, RequestsOK, Job
<1> QED BY <1>1, <1>2, <1>3, <1>4, <1>5 DEF ImportStep

LEMMA OtherTypes ==
    ASSUME TypeInv, Webhook \/ Cancel \/ Signal \/ JoinScheduler \/ Exit \/ Restart \/ Crash
    PROVE TypeInv'
<1> USE DEF history, main, scheduler, syncing, table, db, imports, bounds
<1>1. CASE Webhook BY <1>1, TeamDaemonAssumption DEF TypeInv, TypeOK, LookingOK, RequestsOK, Webhook, HasRoom
<1>2. CASE Cancel BY <1>2 DEF TypeInv, TypeOK, LookingOK, RequestsOK, Cancel, Asked
<1>3. CASE Signal BY <1>3 DEF TypeInv, TypeOK, LookingOK, RequestsOK, Signal, Asked
<1>4. CASE JoinScheduler BY <1>4 DEF TypeInv, TypeOK, LookingOK, RequestsOK, JoinScheduler
<1>5. CASE Exit
  <2>1. UNCHANGED <<history, awaited, scheduler, syncing, db, imports, request>> /\ daemon' = "exited"
    BY <1>5 DEF Exit
  <2>2. graceful' \in BOOLEAN /\ requests' \in Nat /\ faults' \in Nat
    <3>1. CASE graceful' = graceful /\ UNCHANGED bounds
      <4>1. requests' \in Nat /\ faults' \in Nat BY <3>1 DEF TypeInv, TypeOK
      <4>2. graceful' \in BOOLEAN BY <3>1 DEF TypeInv, TypeOK
      <4> QED BY <4>1, <4>2
    <3>2. CASE graceful' = FALSE /\ Fault("slow")
      <4>1. requests' \in Nat /\ faults' \in Nat BY <3>2 DEF Fault, TypeInv, TypeOK
      <4>2. graceful' \in BOOLEAN BY <3>2
      <4> QED BY <4>1, <4>2
    <3> QED BY <1>5, <3>1, <3>2 DEF Exit
  <2> QED BY <2>1, <2>2 DEF TypeInv, TypeOK, LookingOK, RequestsOK
<1>6. ASSUME Reboot, requests' \in Nat /\ faults' \in Nat PROVE TypeInv'
  <2>1. position' \in [Repos -> Positions]
    BY <1>6 DEF TypeInv, TypeOK, Reboot, Recovered, PositionFrom, Positions
  <2>2. /\ phase' \in [Slots -> Phases] /\ cancelled' \in BOOLEAN
        /\ task' \in [Tasks -> Job] /\ request' \in [Requests -> Call] /\ RequestsOK'
    BY <1>6 DEF Reboot, Phases, Quiet, Job, Call, TaskPcs, RequestPcs, Idle, Positions, RequestsOK
  <2>3. /\ cycles' \in [Repos -> Nat] /\ from' \in [Repos -> Positions]
        /\ running' \subseteq Repos /\ tracked' \subseteq Repos
    BY <1>6 DEF Reboot, Positions
  <2>4. /\ daemon' = "up" /\ graceful' = TRUE /\ awaited' = {}
        /\ pc' = "select" /\ looking' = None /\ left' = {} /\ queue' = 0 /\ senders' = 0
        /\ panicked' = {} /\ stuck' = {}
        /\ UNCHANGED <<rows, enabled, globalPos>>
    BY <1>6 DEF Reboot
  <2> QED BY <1>6, <2>1, <2>2, <2>3, <2>4, TeamDaemonAssumption
           DEF TypeInv, TypeOK, LookingOK, Job, Call
<1>7. CASE Restart BY <1>6, <1>7 DEF Restart, TypeInv, TypeOK
<1>8. CASE Crash BY <1>6, <1>8 DEF Crash, Fault, TypeInv, TypeOK
<1> QED BY <1>1, <1>2, <1>3, <1>4, <1>5, <1>7, <1>8

\* A stutter changes nothing.
LEMMA StutterTypes ==
    ASSUME TypeInv, UNCHANGED vars PROVE TypeInv'
BY DEF TypeInv, TypeOK, LookingOK, RequestsOK, vars

LEMMA NextTypes ==
    ASSUME TypeInv, [Next]_vars PROVE TypeInv'
BY SchedulerTypes, CycleTypes, RequestTypes, TaskTypes, OtherTypes, StutterTypes
   DEF Next

\* TypeOK, main.rs and scheduler.rs: every variable keeps its type.
THEOREM TypeCorrect == Spec => []TypeOK
<1>1. Init => TypeInv BY FreshTypes
<1>2. TypeInv /\ [Next]_vars => TypeInv' BY NextTypes
<1>3. TypeInv => TypeOK BY DEF TypeInv
<1> QED BY <1>1, <1>2, <1>3, PTL DEF Spec

-----------------------------------------------------------------------------
(* The watermark.                                                          *)

\* The three ways WatermarkKept allows a step to lose r's watermark.
WrittenBack(r) ==
    \E q \in Requests :
        /\ request[q].slot = r /\ request[q].pc \in {"wipe", "write"}
        /\ request'[q] # request[q]

ImportedOver(r) ==
    \E t \in Tasks :
        /\ task[t] = [pc |-> "mark", slot |-> r] /\ ~Live(t)'
        /\ PositionFrom(globalPos, r) = "other"

CarriedOn(r) == cycles'[r] < cycles[r] /\ from[r] = "other"

Loses(r) == position[r] \in {"own", "now"} /\ position'[r] \in {None, "other"}

LEMMA CycleWatermark ==
    ASSUME TypeInv, NEW c \in Repos, CycleEnds(c), NEW r \in Repos, Loses(r)
    PROVE  CarriedOn(r)
<1>1. r = c /\ from[c] # None /\ position'[c] = from[c]
  BY TeamDaemonAssumption DEF TypeInv, TypeOK, CycleEnds, Loses
<1>2. from[r] = "other"
  BY <1>1, TeamDaemonAssumption DEF TypeInv, TypeOK, Positions, Loses
<1>3. cycles'[r] < cycles[r]
  BY <1>1 DEF TypeInv, TypeOK, CycleEnds
<1> QED BY <1>2, <1>3 DEF CarriedOn

LEMMA RequestWatermark ==
    ASSUME TypeInv, NEW q \in Requests, WipeRepository(q) \/ WriteRow(q),
           NEW r \in Repos, Loses(r)
    PROVE  WrittenBack(r)
<1>1. request[q].slot = r
  BY TeamDaemonAssumption DEF TypeInv, TypeOK, WipeRepository, WriteRow, Loses
<1>2. request'[q].pc # request[q].pc /\ request[q].pc \in {"wipe", "write"}
  BY DEF TypeInv, TypeOK, WipeRepository, WriteRow, Goes, Answered, Idle
<1> QED BY <1>1, <1>2 DEF WrittenBack

LEMMA ImportWatermark ==
    ASSUME TypeInv, NEW t \in Tasks, ImportEnds(t), NEW r \in Repos, Loses(r)
    PROVE  ImportedOver(r)
<1>1. /\ task[t].slot = r
      /\ position'[r] = PositionFrom(globalPos, r) /\ globalPos # None
  BY TeamDaemonAssumption DEF TypeInv, TypeOK, ImportEnds, Loses
<1>2. PositionFrom(globalPos, r) = "other"
  BY <1>1, TeamDaemonAssumption DEF PositionFrom, Loses
<1>3. task[t] = [pc |-> "mark", slot |-> r] /\ ~Live(t)'
  BY <1>1 DEF TypeInv, TypeOK, ImportEnds, Live
<1> QED BY <1>2, <1>3 DEF ImportedOver

LEMMA RebootWatermark ==
    ASSUME TypeInv, Reboot, NEW r \in Repos PROVE ~Loses(r)
BY TeamDaemonAssumption DEF TypeInv, TypeOK, Reboot, Recovered, Loses

\* Every other action leaves the watermarks alone, or sets one to "now".
LEMMA OtherWatermark ==
    ASSUME TypeInv, NEW r \in Repos, Loses(r)
    PROVE  /\ ~SchedulerStep /\ ~OpenFails /\ ~Webhook /\ ~Cancel
           /\ ~Signal /\ ~JoinScheduler /\ ~Exit /\ ~UNCHANGED vars
           /\ \A c \in Repos : ~CyclePanics(c)
           /\ \A q \in Requests :
                 ~NewRequest(q) /\ ~StartFails(q) /\ ~ResetFails(q)
                 /\ ~BeginImport(q) /\ ~SpawnImport(q) /\ ~ResetPolls(q)
                 /\ ~ResetConnects(q) /\ ~ResetClears(q) /\ ~StartFromNow(q)
           /\ \A t \in Tasks :
                 ~ImportConnects(t) /\ ~ImportNoticesCancel(t)
                 /\ ~ImportMarks(t) /\ ~ImportFails(t)
<1>1. position' # position
  BY TeamDaemonAssumption DEF Loses
<1>2. \A q \in Requests : ~StartFromNow(q)
  BY TeamDaemonAssumption DEF TypeInv, TypeOK, StartFromNow, Loses
<1>3. /\ ~SchedulerStep /\ ~OpenFails /\ ~Webhook /\ ~Cancel
      /\ ~Signal /\ ~JoinScheduler /\ ~Exit /\ ~UNCHANGED vars
  BY <1>1 DEF SchedulerStep, Tick, TakeWebhook, PassEnds, SpawnCycle, TrackCycle,
       LookAt, OpenFails, Webhook, Cancel, Signal, JoinScheduler, Exit, vars, db, table
<1>4. \A c \in Repos : ~CyclePanics(c)
  BY <1>1 DEF CyclePanics, db
<1>5. \A q \in Requests :
         ~NewRequest(q) /\ ~StartFails(q) /\ ~ResetFails(q)
         /\ ~BeginImport(q) /\ ~SpawnImport(q) /\ ~ResetPolls(q)
         /\ ~ResetConnects(q) /\ ~ResetClears(q)
  BY <1>1 DEF NewRequest, StartFails, ResetFails, BeginImport, SpawnImport,
       ResetPolls, ResetConnects, ResetClears, AskImport, UpdateRepo, DeleteRepo,
       ReadRow, CreateBranchPair, ApplyConfig, AskReset, db, table
<1>6. \A t \in Tasks :
         ~ImportConnects(t) /\ ~ImportNoticesCancel(t)
         /\ ~ImportMarks(t) /\ ~ImportFails(t)
  BY <1>1 DEF ImportConnects, ImportNoticesCancel, ImportMarks, ImportFails, db, table
<1> QED BY <1>2, <1>3, <1>4, <1>5, <1>6

LEMMA WatermarkStep ==
    ASSUME TypeInv, [Next]_vars, NEW r \in Repos, Loses(r)
    PROVE  WrittenBack(r) \/ ImportedOver(r) \/ CarriedOn(r)
BY CycleWatermark, RequestWatermark, ImportWatermark, RebootWatermark, OtherWatermark
   DEF Next, RequestStep, ImportStep, Restart, Crash

\* WatermarkKept, for any number of repositories, requests and import tasks:
\* only a reset, a row written back, an import after another one's end or a
\* cycle begun elsewhere loses a watermark; no crash, restart or failure does.
THEOREM WatermarksAreKept == Spec => WatermarkKept
<1>1. Init => TypeInv BY FreshTypes
<1>2. TypeInv /\ [Next]_vars => TypeInv' BY NextTypes
<1>3. TypeInv /\ [Next]_vars =>
        [\A r \in Repos : Loses(r) => WrittenBack(r) \/ ImportedOver(r) \/ CarriedOn(r)]_vars
  BY WatermarkStep
<1>4. (\A r \in Repos : Loses(r) => WrittenBack(r) \/ ImportedOver(r) \/ CarriedOn(r))
      <=> (\A r \in Repos :
             position[r] \in {"own", "now"} /\ position'[r] \in {None, "other"} =>
              \/ \E q \in Requests :
                    /\ request[q].slot = r /\ request[q].pc \in {"wipe", "write"}
                    /\ request'[q] # request[q]
              \/ \E t \in Tasks :
                    /\ task[t] = [pc |-> "mark", slot |-> r] /\ ~Live(t)'
                    /\ PositionFrom(globalPos, r) = "other"
              \/ cycles'[r] < cycles[r] /\ from[r] = "other")
  BY DEF Loses, WrittenBack, ImportedOver, CarriedOn
<1> QED BY <1>1, <1>2, <1>3, <1>4, PTL DEF Spec, WatermarkKept

-----------------------------------------------------------------------------
(* The cycles.                                                             *)

\* A repository under way is marked and counted once; the one the scheduler
\* is about to start is not marked.
CyclesOK ==
    /\ \A r \in Repos : cycles[r] <= 1
    /\ \A r \in Repos : cycles[r] > 0 => r \in running
    /\ pc = "open" => looking \notin running
    /\ MarkedMeansRunning

\* Every cycle has its handle in the list or is awaited, except the one that
\* was spawned a moment ago; a shutdown that joined the scheduler in time
\* leaves nobody who could start another one.
HandlesOK ==
    /\ \A r \in Repos :
          cycles[r] > 0 => r \in tracked \cup awaited \/ (pc = "track" /\ looking = r)
    /\ daemon \in {"up", "joining"} => awaited = {}
    /\ daemon = "draining" /\ graceful => pc = "stopped" /\ tracked = {}

CycleInv == TypeInv /\ CyclesOK /\ HandlesOK

\* What CycleInv speaks of.
cycleVars == <<daemon, graceful, awaited, pc, looking, running, cycles,
               tracked, panicked>>

LEMMA InitCycles == ASSUME Init PROVE CycleInv
<1>1. /\ pc = "select" /\ daemon = "up" /\ awaited = {} /\ running = {}
      /\ \A r \in Repos : cycles[r] = 0
  BY DEF Init, Fresh
<1>2. CyclesOK BY <1>1 DEF CyclesOK, MarkedMeansRunning
<1>3. HandlesOK BY <1>1 DEF HandlesOK
<1> QED BY <1>2, <1>3, FreshTypes DEF CycleInv

LEMMA SameCycles ==
    ASSUME CycleInv, UNCHANGED cycleVars PROVE CyclesOK' /\ HandlesOK'
BY DEF CycleInv, CyclesOK, HandlesOK, MarkedMeansRunning, cycleVars

LEMMA RebootCycles ==
    ASSUME Reboot PROVE CyclesOK' /\ HandlesOK'
BY DEF Reboot, CyclesOK, HandlesOK, MarkedMeansRunning

\* Requests, imports and webhooks do not touch the cycles.
LEMMA QuietCycles ==
    ASSUME Webhook \/ Cancel
           \/ (\E q \in Requests :
                  NewRequest(q) \/ RequestStep(q) \/ StartFails(q) \/ ResetFails(q))
           \/ (\E t \in Tasks : ImportStep(t) \/ ImportFails(t))
           \/ UNCHANGED vars
    PROVE  UNCHANGED cycleVars
<1> USE DEF cycleVars, history, main, scheduler, syncing
<1>1. CASE Webhook \/ Cancel BY <1>1 DEF Webhook, Cancel
<1>2. ASSUME NEW q \in Requests, NewRequest(q) PROVE UNCHANGED cycleVars
  BY <1>2 DEF NewRequest, AskImport, UpdateRepo, DeleteRepo, ReadRow,
       CreateBranchPair, ApplyConfig, AskReset
<1>3. ASSUME NEW q \in Requests, RequestStep(q) PROVE UNCHANGED cycleVars
  BY <1>3 DEF RequestStep, BeginImport, WipeRepository, SpawnImport, ResetPolls,
       ResetConnects, ResetClears, WriteRow, StartFromNow
<1>4. ASSUME NEW q \in Requests, StartFails(q) \/ ResetFails(q)
      PROVE  UNCHANGED cycleVars
  BY <1>4 DEF StartFails, ResetFails
<1>5. ASSUME NEW t \in Tasks, ImportStep(t) \/ ImportFails(t)
      PROVE  UNCHANGED cycleVars
  BY <1>5 DEF ImportStep, ImportConnects, ImportNoticesCancel, ImportMarks,
       ImportEnds, ImportFails
<1>6. CASE UNCHANGED vars BY <1>6 DEF vars
<1> QED BY <1>1, <1>2, <1>3, <1>4, <1>5, <1>6

LEMMA SchedulerCycles ==
    ASSUME CycleInv, SchedulerStep \/ OpenFails PROVE CyclesOK' /\ HandlesOK'
<1> USE DEF history, main, scheduler, syncing
<1>1. CASE Tick
  BY <1>1 DEF Tick, BeginPass, CycleInv, CyclesOK, HandlesOK, MarkedMeansRunning
<1>2. CASE TakeWebhook
  BY <1>2 DEF TakeWebhook, BeginPass, CycleInv, CyclesOK, HandlesOK, MarkedMeansRunning
<1>3. CASE PassEnds
  BY <1>3 DEF PassEnds, CycleInv, CyclesOK, HandlesOK, MarkedMeansRunning
<1>4. CASE SpawnCycle
  <2>1. looking \in Repos /\ cycles[looking] = 0 /\ cycles \in [Repos -> Nat]
    BY <1>4 DEF SpawnCycle, CycleInv, CyclesOK, TypeInv, TypeOK, LookingOK
  <2>2. \A r \in Repos : cycles'[r] = IF r = looking THEN 1 ELSE cycles[r]
    BY <1>4, <2>1 DEF SpawnCycle
  <2>3. CyclesOK'
    BY <1>4, <2>1, <2>2 DEF SpawnCycle, CycleInv, CyclesOK, MarkedMeansRunning
  <2>4. HandlesOK'
    BY <1>4, <2>1, <2>2 DEF SpawnCycle, CycleInv, HandlesOK
  <2> QED BY <2>3, <2>4
<1>5. CASE TrackCycle
  BY <1>5 DEF TrackCycle, WithHandle, CycleInv, CyclesOK, HandlesOK, MarkedMeansRunning
<1>6. ASSUME NEW r \in Repos, LookAt(r) PROVE CyclesOK' /\ HandlesOK'
  BY <1>6 DEF LookAt, MayStart, CycleInv, CyclesOK, HandlesOK, MarkedMeansRunning
<1>7. CASE OpenFails
  BY <1>7 DEF OpenFails, CycleInv, CyclesOK, HandlesOK, MarkedMeansRunning
<1> QED BY <1>1, <1>2, <1>3, <1>4, <1>5, <1>6, <1>7 DEF SchedulerStep

LEMMA EndOfCycles ==
    ASSUME CycleInv, NEW c \in Repos, CycleEnds(c) \/ CyclePanics(c)
    PROVE  CyclesOK' /\ HandlesOK'
<1>1. cycles[c] = 1 /\ \A r \in Repos : cycles'[r] = IF r = c THEN 0 ELSE cycles[r]
  BY DEF CycleEnds, CyclePanics, CycleInv, CyclesOK, TypeInv, TypeOK
<1>2. /\ tracked' = tracked \ {c} /\ awaited' = awaited \ {c}
      /\ UNCHANGED <<daemon, graceful, pc, looking>>
  BY DEF CycleEnds, CyclePanics, HandleDone, scheduler
<1>3. \/ running' = running \ {c} /\ panicked' = panicked
      \/ running' = running /\ panicked' = panicked \cup {c}
  BY DEF CycleEnds, CyclePanics, Unmarked, history
<1>4. CyclesOK'
  BY <1>1, <1>2, <1>3 DEF CycleInv, CyclesOK, MarkedMeansRunning, TypeInv, TypeOK
<1>5. HandlesOK'
  BY <1>1, <1>2 DEF CycleInv, HandlesOK
<1> QED BY <1>4, <1>5

LEMMA ShutdownCycles ==
    ASSUME CycleInv, Signal \/ JoinScheduler \/ Exit PROVE CyclesOK' /\ HandlesOK'
<1>1. CASE Signal
  BY <1>1 DEF Signal, history, syncing, CycleInv, CyclesOK, HandlesOK, MarkedMeansRunning
<1>2. CASE JoinScheduler
  BY <1>2 DEF JoinScheduler, MayJoin, history, scheduler, CycleInv, CyclesOK,
       HandlesOK, MarkedMeansRunning
<1>3. CASE Exit
  BY <1>3 DEF Exit, history, scheduler, syncing, CycleInv, CyclesOK, HandlesOK,
       MarkedMeansRunning
<1> QED BY <1>1, <1>2, <1>3

LEMMA NextCycles ==
    ASSUME CycleInv, [Next]_vars PROVE CycleInv'
<1>1. TypeInv' BY NextTypes DEF CycleInv
<1>2. CyclesOK' /\ HandlesOK'
  BY SameCycles, RebootCycles, QuietCycles, SchedulerCycles, EndOfCycles,
     ShutdownCycles
     DEF Next, Restart, Crash
<1> QED BY <1>1, <1>2 DEF CycleInv

LEMMA CyclesHold == Spec => []CycleInv
<1>1. Init => CycleInv BY InitCycles
<1>2. CycleInv /\ [Next]_vars => CycleInv' BY NextCycles
<1> QED BY <1>1, <1>2, PTL DEF Spec

\* OneCyclePerRepository, scheduler.rs: however many repositories, webhooks,
\* failures and restarts there are, no repository is synced twice at once.
THEOREM CyclesExclude == Spec => []OneCyclePerRepository
<1>1. CycleInv => OneCyclePerRepository
  BY DEF CycleInv, CyclesOK, OneCyclePerRepository
<1> QED BY <1>1, CyclesHold, PTL

\* MarkedMeansRunning, scheduler.rs: only a panic leaves a repository marked
\* as running for ever.
THEOREM MarksAreTrue == Spec => []MarkedMeansRunning
<1>1. CycleInv => MarkedMeansRunning
  BY DEF CycleInv, CyclesOK
<1> QED BY <1>1, CyclesHold, PTL

\* CleanExit, main.rs: an exit whose waits were all kept cuts no cycle off.
THEOREM ExitIsClean == Spec => CleanExit
<1>1. CycleInv /\ [Next]_vars =>
        [daemon = "draining" /\ daemon' = "exited" /\ graceful'
           => \A r \in Repos : cycles[r] = 0]_vars
  <2> SUFFICES ASSUME CycleInv, Next, daemon = "draining", daemon' = "exited",
                      graceful', NEW r \in Repos
               PROVE  cycles[r] = 0
    OBVIOUS
  <2>1. Exit
    <3>1. UNCHANGED cycleVars => daemon' = daemon BY DEF cycleVars
    <3>2. ~SchedulerStep /\ ~OpenFails
      BY DEF SchedulerStep, Tick, TakeWebhook, PassEnds, SpawnCycle, TrackCycle,
           LookAt, OpenFails, main
    <3>3. \A c \in Repos : ~CycleEnds(c) /\ ~CyclePanics(c)
      BY DEF CycleEnds, CyclePanics
    <3>4. ~Signal /\ ~JoinScheduler /\ ~Restart /\ ~Crash
      BY DEF Signal, JoinScheduler, Restart, Crash, Reboot
    <3> QED BY <3>1, <3>2, <3>3, <3>4, QuietCycles DEF Next
  <2>2. awaited = {} /\ graceful
    BY <2>1 DEF Exit
  <2> QED BY <2>2 DEF CycleInv, HandlesOK, TypeInv, TypeOK
<1> QED BY <1>1, CyclesHold, PTL DEF Spec, CleanExit

-----------------------------------------------------------------------------
(* The imports.                                                            *)

NobodyOn(s) == \A t \in Tasks : Live(t) => task[t].slot # s

\* A live task's slot says importing, and so no second request passes the
\* check; the one request under way that is past it has its slot for itself.
ImportsOK ==
    /\ \A t \in Tasks : Live(t) => task[t].slot \in Slots /\ phase[task[t].slot] = "importing"
    /\ OneImportPerSlot
    /\ \A q \in Requests :
          LET s == request[q].slot IN
          /\ request[q].pc = "begin" => phase[s] # "importing"
          /\ request[q].pc \in {"wipe", "spawn"} => phase[s] = "importing" /\ NobodyOn(s)
          /\ request[q].pc = "connect" => s = Global /\ phase[s] # "importing"
          /\ request[q].pc = "clear" => s = Global /\ phase[s] = "connecting"
          /\ request[q].pc = "poll" => s = Global

ImportInv == TypeInv /\ ImportsOK

importVars == <<phase, task, request>>

LEMMA InitImports == ASSUME Init PROVE ImportInv
<1>1. /\ \A t \in Tasks : task[t].pc = "free"
      /\ \A q \in Requests : request[q].pc = "none"
  BY DEF Init, Fresh, Idle
<1> QED BY <1>1, FreshTypes DEF ImportInv, ImportsOK, OneImportPerSlot, Live

LEMMA RebootImports == ASSUME Reboot PROVE ImportsOK'
<1>1. /\ \A t \in Tasks : task'[t].pc = "free"
      /\ \A q \in Requests : request'[q].pc = "none"
  BY DEF Reboot, Idle
<1> QED BY <1>1 DEF ImportsOK, OneImportPerSlot, Live

LEMMA SameImports ==
    ASSUME ImportInv, UNCHANGED importVars PROVE ImportsOK'
BY DEF ImportInv, ImportsOK, OneImportPerSlot, NobodyOn, Live, importVars

LEMMA QuietImports ==
    ASSUME \/ SchedulerStep \/ OpenFails \/ Webhook \/ Cancel
           \/ Signal \/ JoinScheduler \/ Exit \/ UNCHANGED vars
           \/ \E r \in Repos : CycleEnds(r) \/ CyclePanics(r)
    PROVE  UNCHANGED importVars
BY DEF importVars, imports, vars, SchedulerStep, Tick, TakeWebhook, PassEnds,
     SpawnCycle, TrackCycle, LookAt, OpenFails, Webhook, Cancel, Signal,
     JoinScheduler, Exit, CycleEnds, CyclePanics

\* A request that rewrites a row, or is answered, or asks for one.
LEMMA RowImports ==
    ASSUME ImportInv, NEW q \in Requests,
           request' \in [Requests -> Call],
           \A p \in Requests : p # q => request'[p] = request[p],
           request'[q].pc \in {"none", "write", "now"},
           UNCHANGED <<phase, task>>
    PROVE  ImportsOK'
BY DEF ImportInv, ImportsOK, OneImportPerSlot, NobodyOn, Live

LEMMA RequestImports ==
    ASSUME ImportInv, \A p, q \in Requests : p = q, NEW q \in Requests,
           NewRequest(q) \/ RequestStep(q) \/ StartFails(q) \/ ResetFails(q)
    PROVE  ImportsOK'
<1> USE DEF imports
<1>0. \A p \in Requests : p = q OBVIOUS
<1>T. TypeInv /\ TypeInv' BY RequestTypes DEF ImportInv
<1>1. ASSUME NEW s \in Slots, AskImport(q, s) PROVE ImportsOK'
  <2>1. UNCHANGED <<phase, task>> BY <1>1 DEF AskImport
  <2>2. CASE UNCHANGED request BY <2>1, <2>2, SameImports DEF importVars
  <2>3. CASE ~UNCHANGED request
    <3>1. request'[q].pc = "begin" /\ request'[q].slot = s /\ phase[s] # "importing"
      BY <1>1, <1>T, <2>3 DEF AskImport, MayImport, TypeInv, TypeOK
    <3> QED BY <1>0, <2>1, <3>1
            DEF ImportInv, ImportsOK, OneImportPerSlot, NobodyOn, Live
  <2> QED BY <2>2, <2>3
<1>2. ASSUME NEW r \in Repos, UpdateRepo(q, r) \/ DeleteRepo(q, r) \/ CreateBranchPair(q, r)
      PROVE  ImportsOK'
  <2>1. CASE UNCHANGED request
    BY <1>2, <2>1, SameImports
       DEF UpdateRepo, DeleteRepo, ReadRow, CreateBranchPair, importVars
  <2>2. CASE ~UNCHANGED request
    <3>1. request'[q].pc \in {"write", "now"}
      <4>1. ASSUME NEW kind, NEW flags, ReadRow(q, r, kind, flags)
            PROVE  request'[q].pc = "write"
        BY <1>T, <4>1 DEF ReadRow, TypeInv, TypeOK
      <4>2. ASSUME CreateBranchPair(q, r) PROVE request'[q].pc = "now"
        <5>1. request' = [request EXCEPT ![q] = [Idle EXCEPT !.pc = "now", !.slot = r]]
          BY <2>2, <4>2 DEF CreateBranchPair
        <5> QED BY <1>T, <5>1 DEF TypeInv, TypeOK, Idle
      <4> QED BY <1>2, <4>1, <4>2 DEF UpdateRepo, DeleteRepo
    <3>2. UNCHANGED <<phase, task>>
      BY <1>2 DEF UpdateRepo, DeleteRepo, ReadRow, CreateBranchPair
    <3> QED BY <1>0, <1>T, <3>1, <3>2, RowImports DEF TypeInv, TypeOK, Call
  <2> QED BY <2>1, <2>2
<1>3. CASE ApplyConfig(q) \/ WriteRow(q) \/ StartFails(q) \/ StartFromNow(q)
  BY <1>3, <1>T, RowImports
     DEF ApplyConfig, ReadRow, WriteRow, StartFails, StartFromNow, Answered, Idle, TypeInv, TypeOK, Call
<1>4. CASE AskReset(q)
  BY <1>0, <1>4, <1>T DEF AskReset, Busy, TypeInv, TypeOK, ImportInv, ImportsOK, OneImportPerSlot, Live
<1>5. CASE BeginImport(q)
  BY <1>0, <1>5, <1>T DEF BeginImport, NewProgress, Goes, TypeInv, TypeOK, RequestsOK, ImportInv, ImportsOK, OneImportPerSlot, NobodyOn, Live
<1>6. CASE WipeRepository(q)
  BY <1>0, <1>6, <1>T DEF WipeRepository, Goes, TypeInv, TypeOK, ImportInv, ImportsOK, OneImportPerSlot, NobodyOn, Live
<1>7. CASE SpawnImport(q)
  <2> DEFINE u == CHOOSE t \in Tasks : ~Live(t)
  <2>1. u \in Tasks /\ ~Live(u) BY <1>7 DEF SpawnImport
  <2>2. /\ task' = [task EXCEPT ![u] = [pc |-> "connect", slot |-> request[q].slot]]
        /\ request[q].pc = "spawn" /\ request'[q].pc = "none" /\ phase' = phase
    BY <1>7, <1>T DEF SpawnImport, Answered, Idle, TypeInv, TypeOK
  <2> HIDE DEF u
  <2> QED BY <1>0, <1>T, <2>1, <2>2
          DEF TypeInv, TypeOK, RequestsOK, ImportInv, ImportsOK, OneImportPerSlot, NobodyOn, Live
<1>8. CASE ResetPolls(q)
  BY <1>0, <1>8, <1>T DEF ResetPolls, Goes, Answered, Idle, Quiet, TypeInv, TypeOK, ImportInv, ImportsOK, OneImportPerSlot, Live
<1>9. CASE ResetConnects(q)
  BY <1>0, <1>9, <1>T DEF ResetConnects, NewProgress, Goes, TypeInv, TypeOK, ImportInv, ImportsOK, OneImportPerSlot, Live
<1>10. CASE ResetClears(q)
  BY <1>0, <1>10, <1>T DEF ResetClears, Goes, TypeInv, TypeOK, ImportInv, ImportsOK, OneImportPerSlot, NobodyOn, Live
<1>11. CASE ResetFails(q)
  BY <1>0, <1>11, <1>T DEF ResetFails, Answered, Idle, TypeInv, TypeOK, ImportInv, ImportsOK, OneImportPerSlot, Live
<1> QED BY <1>1, <1>2, <1>3, <1>4, <1>5, <1>6, <1>7, <1>8, <1>9, <1>10, <1>11 DEF NewRequest, RequestStep

LEMMA TaskImports ==
    ASSUME ImportInv, NEW t \in Tasks, ImportStep(t) \/ ImportFails(t)
    PROVE  ImportsOK'
<1>T. TypeInv /\ TypeInv' BY TaskTypes DEF ImportInv
<1>P. task \in [Tasks -> Job] /\ phase \in [Slots -> Phases]
  BY <1>T DEF TypeInv, TypeOK, Job
<1>1. CASE ImportConnects(t) \/ ImportNoticesCancel(t) \/ ImportMarks(t)
  <2>1. /\ phase' = phase /\ request' = request
        /\ \A u \in Tasks : task'[u].slot = task[u].slot /\ (Live(u)' => Live(u))
    BY <1>1, <1>P DEF ImportConnects, ImportNoticesCancel, ImportMarks, Job, Live, imports
  <2> QED BY <2>1 DEF ImportInv, ImportsOK, OneImportPerSlot, NobodyOn
<1>2. CASE ImportEnds(t) \/ ImportFails(t)
  <2> DEFINE s == task[t].slot
  <2>1. Live(t) /\ ~Live(t)' /\ request' = request
    BY <1>2, <1>P DEF ImportEnds, ImportFails, Live, Job
  <2>2. \A u \in Tasks : u # t => task'[u] = task[u]
    BY <1>2, <1>P DEF ImportEnds, ImportFails
  <2>3. /\ s \in Slots /\ phase[s] = "importing"
        /\ \A u \in Tasks : Live(u) /\ u # t => task[u].slot # s
    BY <2>1 DEF ImportInv, ImportsOK, OneImportPerSlot
  <2>4. /\ phase'[s] \in {"completed", "failed"}
        /\ \A z \in Slots : z # s => phase'[z] = phase[z]
    BY <1>2, <1>P, <2>3 DEF ImportEnds, ImportFails, Final
  <2>5. \A u \in Tasks : Live(u)' => u # t /\ Live(u)
    BY <2>1, <2>2 DEF Live
  <2>6. \A q \in Requests : request[q].pc # "none" => request[q].slot \in Slots
    BY <1>T DEF TypeInv, RequestsOK
  <2> HIDE DEF s
  <2>7. \A u \in Tasks : Live(u)' => task'[u].slot \in Slots /\ phase'[task'[u].slot] = "importing"
    BY <2>2, <2>3, <2>4, <2>5 DEF ImportInv, ImportsOK
  <2>8. OneImportPerSlot'
    BY <2>2, <2>5 DEF ImportInv, ImportsOK, OneImportPerSlot
  <2>9. \A z : NobodyOn(z) => NobodyOn(z)'
    BY <2>2, <2>5 DEF NobodyOn
  <2>10. ~NobodyOn(s) BY <2>1 DEF NobodyOn, s
  <2> QED BY <2>1, <2>3, <2>4, <2>6, <2>7, <2>8, <2>9, <2>10 DEF ImportInv, ImportsOK
<1> QED BY <1>1, <1>2 DEF ImportStep

\* OneImportPerSlot, import.rs and setup.rs: requests that come one at a time
\* never put two import tasks on one slot, whatever was cancelled or failed.
THEOREM ImportsExclude ==
    ASSUME \A p, q \in Requests : p = q
    PROVE  Spec => []OneImportPerSlot
<1>1. Init => ImportInv BY InitImports
<1>2. ImportInv /\ [Next]_vars => ImportInv'
  <2> SUFFICES ASSUME ImportInv, [Next]_vars PROVE ImportInv' OBVIOUS
  <2>1. TypeInv' BY NextTypes DEF ImportInv
  <2>2. ImportsOK'
    BY RebootImports, SameImports, QuietImports, RequestImports, TaskImports
       DEF Next, Restart, Crash
  <2> QED BY <2>1, <2>2 DEF ImportInv
<1>3. ImportInv => OneImportPerSlot BY DEF ImportInv, ImportsOK
<1> QED BY <1>1, <1>2, <1>3, PTL DEF Spec
=============================================================================
