-------------------------- MODULE PersonalControl --------------------------
(***************************************************************************)
(* How the personal daemon is started, stopped and looked at: the commands *)
(* of the reposync-personal binary (personal/src/main.rs) and of the CLI   *)
(* (cli/src/personal), the PID file they share (personal/src/daemon.rs),   *)
(* the polling loop and its shutdown flag (scheduler.rs, signals.rs), and  *)
(* the clone every command that syncs opens or makes.                      *)
(*                                                                         *)
(* A process is its PID; the system gives a PID away again once its        *)
(* process is gone.  "other" is a process that has nothing to do with the  *)
(* daemon and takes one of these PIDs.                                     *)
(***************************************************************************)
EXTENDS Naturals, Sequences

CONSTANTS
    Pids,          \* process identifiers
    Commands,      \* the commands users, supervisors and scripts run
    NoPid,         \* no process
    MaxLaunches,   \* bound: processes ever launched
    MaxKills       \* bound: processes that die without cleaning up

AllCommands ==
    {"start", "cli_start", "stop", "status", "sync", "import", "other"}

ASSUME PersonalControlAssumption ==
    /\ Commands \subseteq AllCommands
    /\ NoPid \notin Pids /\ "torn" \notin Pids
    /\ MaxLaunches \in Nat /\ MaxKills \in Nat

VARIABLES
    process,      \* what runs under each PID
    pidFile,      \* personal.pid: NoPid (no file), a PID, or "torn" (empty)
    clone,        \* the git-repo directory
    launches, kills,
    overlapped    \* history: two commands have run at once

controlVars == <<process, pidFile, clone, launches, kills, overlapped>>

Gone == [kind |-> "none", pc |-> "gone", target |-> NoPid,
         armed |-> FALSE, flag |-> FALSE]

\* kill(pid, 0).
IsAlive(p) == process[p].pc # "gone"

\* The polling loop, entered once the PID file is written.
LoopSteps == {"loop", "cycle", "sleep", "unlink"}
Looping(p) == process[p].pc \in LoopSteps

\* A command that has not yet become the daemon or come to its end.
InCommand(p) ==
    IsAlive(p) /\ process[p].kind # "other" /\ ~Looping(p)

ControlInit ==
    /\ process = [p \in Pids |-> Gone]
    /\ pidFile = NoPid /\ clone = "absent"
    /\ launches = 0 /\ kills = 0 /\ overlapped = FALSE

Goes(p, pc) == process' = [process EXCEPT ![p].pc = pc]
Ends(p) == process' = [process EXCEPT ![p] = Gone]

\* Variant for mutation testing: start writes before it looks.
StepsOfUnchecked ==
    [start |-> <<"build", "truncate">>, cli_start |-> <<"open", "truncate">>,
     stop |-> <<"read">>, status |-> <<"check">>, sync |-> <<"build", "once">>,
     import |-> <<"build", "once">>, other |-> <<"busy">>]

\* The steps of each command, in the order of its source.  cmd_start builds
\* the engine before it asks whether a daemon runs; run_start asks first.
StepsOf ==
    [start |-> <<"build", "check", "truncate">>,
     cli_start |-> <<"check", "open", "truncate">>,
     stop |-> <<"read">>, status |-> <<"check">>,
     sync |-> <<"build", "once">>, import |-> <<"build", "once">>,
     other |-> <<"busy">>]

\* The step after s; a command that has no more ends.
Onward(p, s) ==
    LET steps == StepsOf[process[p].kind] IN
    \/ \E i \in DOMAIN steps :
          /\ steps[i] = s /\ i + 1 \in DOMAIN steps
          /\ Goes(p, steps[i + 1])
    \/ steps[Len(steps)] = s /\ Ends(p)

Launch(p, c) ==
    /\ ~IsAlive(p) /\ launches < MaxLaunches
    /\ launches' = launches + 1
    /\ process' = [process EXCEPT ![p] =
           [Gone EXCEPT !.kind = c, !.pc = StepsOf[c][1]]]
    /\ overlapped' = (overlapped \/ (c # "other" /\ \E q \in Pids : InCommand(q)))
    /\ UNCHANGED <<pidFile, clone, kills>>

-----------------------------------------------------------------------------
(* The clone: build_engine, cmd_import and run_import.                     *)

\* GitClient::new wants a repository, be it half filled.
Openable == clone \notin {"absent", "empty"}

\* A directory that is there is opened, whatever it holds: an empty one is
\* refused, one that a clone is still filling is not.
OpenClone(p) ==
    /\ process[p].pc \in {"build", "open"}
    /\ IF clone = "absent" /\ process[p].pc = "build"
       THEN clone' = "empty" /\ Goes(p, "clone")
       ELSE /\ UNCHANGED clone
            /\ IF Openable THEN Onward(p, process[p].pc) ELSE Ends(p)
    /\ UNCHANGED <<pidFile, launches, kills, overlapped>>

CloneBegins(p) ==
    /\ process[p].pc = "clone"
    /\ clone' = "half" /\ Goes(p, "fetch")
    /\ UNCHANGED <<pidFile, launches, kills, overlapped>>

CloneEnds(p) ==
    /\ process[p].pc = "fetch"
    /\ clone' = "whole" /\ Onward(p, "build")
    /\ UNCHANGED <<pidFile, launches, kills, overlapped>>

\* git empties the directory it could not fill; an import then makes a
\* repository of its own in it, the other commands end.
CloneFails(p) ==
    /\ process[p].pc \in {"clone", "fetch"}
    /\ IF process[p].kind = "import"
       THEN clone' = "local" /\ Onward(p, "build")
       ELSE clone' = "empty" /\ Ends(p)
    /\ UNCHANGED <<pidFile, launches, kills, overlapped>>

\* sync's one cycle or the import itself: neither looks at the PID file, so
\* both run beside a daemon.
RunOnce(p) ==
    /\ process[p].pc = "once"
    /\ Ends(p)
    /\ UNCHANGED <<pidFile, clone, launches, kills, overlapped>>

-----------------------------------------------------------------------------
(* The PID file.                                                           *)

\* is_running: an unreadable file is an error, a living process an answer; a
\* dead one's file is removed, in a step of its own.
Check(p) ==
    /\ process[p].pc = "check"
    /\ \/ pidFile = "torn" /\ Ends(p)
       \/ pidFile = NoPid /\ Onward(p, "check")
       \/ pidFile \in Pids /\ IsAlive(pidFile) /\ Ends(p)
       \/ pidFile \in Pids /\ ~IsAlive(pidFile) /\ Goes(p, "sweep")
    /\ UNCHANGED <<pidFile, clone, launches, kills, overlapped>>

SweepStaleFile(p) ==
    /\ process[p].pc = "sweep"
    /\ pidFile' = NoPid /\ Onward(p, "check")
    /\ UNCHANGED <<clone, launches, kills, overlapped>>

\* write_pid_file: fs::write empties the file, then fills it.
Truncate(p) ==
    /\ process[p].pc = "truncate"
    /\ pidFile' = "torn" /\ Goes(p, "write")
    /\ UNCHANGED <<clone, launches, kills, overlapped>>

WritePidFile(p) ==
    /\ process[p].pc = "write"
    /\ pidFile' = p /\ Goes(p, "loop")
    /\ UNCHANGED <<clone, launches, kills, overlapped>>

\* remove_pid_file, at the daemon's end and at the end of stop_daemon: the
\* file goes, whoever wrote it.
RemovePidFile(p) ==
    /\ process[p].pc \in {"unlink", "remove"}
    /\ pidFile' = NoPid /\ Ends(p)
    /\ UNCHANGED <<clone, launches, kills, overlapped>>

-----------------------------------------------------------------------------
(* The loop and its shutdown flag.                                         *)

\* setup_signal_handlers only spawns the task that registers the handlers;
\* it runs beside the loop.
Arm(p) ==
    /\ Looping(p) /\ ~process[p].armed
    /\ process' = [process EXCEPT ![p].armed = TRUE]
    /\ UNCHANGED <<pidFile, clone, launches, kills, overlapped>>

LoopStep(p) ==
    /\ \/ process[p].pc = "loop"
          /\ Goes(p, IF process[p].flag THEN "unlink" ELSE "cycle")
       \/ process[p].pc = "cycle" /\ Goes(p, "sleep")
       \/ process[p].pc = "sleep"
          /\ Goes(p, IF process[p].flag THEN "unlink" ELSE "loop")
    /\ UNCHANGED <<pidFile, clone, launches, kills, overlapped>>

\* SIGTERM or SIGINT: sets the flag of a daemon whose handlers are
\* registered, ends any other process where it stands.
Signalled(q) ==
    IF process[q].armed THEN [process[q] EXCEPT !.flag = TRUE] ELSE Gone

Interrupt(p) ==
    /\ Looping(p) /\ ~process[p].flag
    /\ process' = [process EXCEPT ![p] = Signalled(p)]
    /\ UNCHANGED <<pidFile, clone, launches, kills, overlapped>>

-----------------------------------------------------------------------------
(* stop_daemon.                                                            *)

Readable == pidFile \in Pids

\* No file is an answer, one that does not hold a PID an error.
ReadPidFile(p) ==
    /\ process[p].pc = "read"
    /\ process' = [process EXCEPT ![p] =
           IF ~Readable THEN Gone
           ELSE [@ EXCEPT !.target = pidFile,
                          !.pc = IF \E q \in Pids : q = pidFile /\ IsAlive(q)
                                 THEN "signal" ELSE "remove"]]
    /\ UNCHANGED <<pidFile, clone, launches, kills, overlapped>>

\* The signal goes to whoever has the PID now, stop itself included.
SendSigterm(p) ==
    /\ process[p].pc = "signal"
    /\ LET q == process[p].target
           waiting == [process EXCEPT ![p].pc = "poll"] IN
       process' = IF q = p \/ ~IsAlive(q)
                  THEN [waiting EXCEPT ![q] = Gone]
                  ELSE [waiting EXCEPT ![q] = Signalled(q)]
    /\ UNCHANGED <<pidFile, clone, launches, kills, overlapped>>

Exited(p) == ~IsAlive(process[p].target)

SeesExit(p) ==
    /\ process[p].pc = "poll" /\ Exited(p)
    /\ Goes(p, "remove")
    /\ UNCHANGED <<pidFile, clone, launches, kills, overlapped>>

\* Twenty polls of 250 ms; a cycle may well take longer.
GivesUp(p) ==
    /\ process[p].pc = "poll" /\ ~Exited(p)
    /\ Ends(p)
    /\ UNCHANGED <<pidFile, clone, launches, kills, overlapped>>

-----------------------------------------------------------------------------
(* The system around them.                                                 *)

Kill(p) ==
    /\ IsAlive(p) /\ kills < MaxKills
    /\ kills' = kills + 1
    /\ Ends(p)
    /\ UNCHANGED <<pidFile, clone, launches, overlapped>>

OtherEnds(p) ==
    /\ process[p].kind = "other"
    /\ Ends(p)
    /\ UNCHANGED <<pidFile, clone, launches, kills, overlapped>>

Runs(p) ==
    \/ OpenClone(p) \/ CloneBegins(p) \/ CloneEnds(p) \/ CloneFails(p)
    \/ RunOnce(p) \/ Check(p) \/ SweepStaleFile(p) \/ Truncate(p)
    \/ WritePidFile(p) \/ RemovePidFile(p) \/ LoopStep(p)
    \/ ReadPidFile(p) \/ SendSigterm(p) \/ SeesExit(p) \/ GivesUp(p)

ControlNext ==
    \E p \in Pids :
        \/ \E c \in Commands : Launch(p, c)
        \/ Runs(p) \/ Arm(p) \/ Interrupt(p) \/ Kill(p) \/ OtherEnds(p)

ControlSpec == ControlInit /\ [][ControlNext]_controlVars

-----------------------------------------------------------------------------
(* Properties.                                                             *)

\* Every variable has its type.
ControlTypeOK ==
    /\ process \in [Pids ->
           [kind : AllCommands \cup {"none"},
            pc : LoopSteps \cup {"gone", "build", "open", "clone", "fetch",
                 "once", "check", "sweep", "truncate", "write", "busy",
                 "read", "signal", "poll", "remove"},
            target : Pids \cup {NoPid}, armed : BOOLEAN, flag : BOOLEAN]]
    /\ pidFile \in Pids \cup {NoPid, "torn"}
    /\ clone \in {"absent", "empty", "half", "whole", "local"}
    /\ launches \in 0..MaxLaunches /\ kills \in 0..MaxKills
    /\ overlapped \in BOOLEAN

\* As long as commands are run one after another, the PID file names every
\* running daemon, so that there is never a second one: through crashes that
\* leave the file behind, PIDs that are given away again, sync and import
\* beside the daemon, and a stop that gives up.
FileNamesTheDaemon ==
    ~overlapped => \A p \in Pids : Looping(p) => pidFile = p

\* As long as commands are run one after another and none is killed while it
\* makes the clone, a daemon works on a whole clone or on the repository an
\* import has made: a clone that fails leaves a directory that is refused.
DaemonHasARepository ==
    ~overlapped /\ kills = 0 =>
        \A p \in Pids : Looping(p) => clone \in {"whole", "local"}
=============================================================================
