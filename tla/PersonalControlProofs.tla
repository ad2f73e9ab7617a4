------------------------ MODULE PersonalControlProofs ------------------------
(***************************************************************************)
(* Proofs about PersonalControl, for any number of PIDs, launches and      *)
(* kills: types, the PID file that names the running daemon, and the       *)
(* repository it works on.                                                 *)
(*                                                                         *)
(* As long as commands have been run one after another there is at most    *)
(* one of them (OneCommand).  What it has found out stays true until it    *)
(* ends, because only the daemon itself moves meanwhile: after its check   *)
(* there is no daemon, the target of stop is the only one there can be     *)
(* (CommandOK), and a clone that is being made is used by nobody           *)
(* (CloneOK).                                                              *)
(***************************************************************************)
EXTENDS PersonalControl, TLAPS

CommandSteps == {"build", "open", "clone", "fetch", "once", "check", "sweep",
                 "truncate", "write", "read", "signal", "poll", "remove"}

Steps == LoopSteps \cup CommandSteps \cup {"gone", "busy"}

ProcessRec == [kind : AllCommands \cup {"none"}, pc : Steps,
               target : Pids \cup {NoPid}, armed : BOOLEAN, flag : BOOLEAN]

KindsOK ==
    \A p \in Pids :
        /\ process[p].kind = "other" <=> process[p].pc = "busy"
        /\ process[p].kind = "none" <=> process[p].pc = "gone"
        /\ process[p].armed => Looping(p)
        /\ process[p].pc \in {"signal", "poll"} => process[p].target \in Pids
        /\ process[p].pc \in {"check", "sweep"} =>
              process[p].kind \in {"start", "cli_start", "status"}

NoLoop == \A q \in Pids : ~Looping(q)

OneCommand ==
    \A p, q \in Pids : InCommand(p) /\ InCommand(q) => p = q

CommandOK ==
    \A p \in Pids :
        /\ process[p].pc \in {"sweep", "open", "truncate", "write", "remove"} => NoLoop
        /\ process[p].pc \in {"signal", "poll"} =>
              \A q \in Pids : Looping(q) => q = process[p].target

FileOK == \A p \in Pids : Looping(p) => pidFile = p

Usable == clone \in {"whole", "local"}

\* Nobody makes the clone now: so what there is can be used, or is refused.
CloneOK ==
    /\ \A p \in Pids :
          /\ process[p].pc = "clone" => clone = "empty" /\ NoLoop
          /\ process[p].pc = "fetch" => clone = "half" /\ NoLoop
          /\ process[p].kind = "start"
             /\ process[p].pc \in {"check", "sweep"} => Usable
          /\ process[p].pc \in {"truncate", "write"} \cup LoopSteps => Usable
    /\ clone = "half" => \E p \in Pids : process[p].pc = "fetch"

ControlInv ==
    /\ ControlTypeOK /\ KindsOK
    /\ ~overlapped => OneCommand /\ CommandOK /\ FileOK
    /\ ~overlapped /\ kills = 0 => CloneOK

-----------------------------------------------------------------------------

LEMMA Types ==
    ControlTypeOK <=>
        /\ process \in [Pids -> ProcessRec]
        /\ pidFile \in Pids \cup {NoPid, "torn"}
        /\ clone \in {"absent", "empty", "half", "whole", "local"}
        /\ launches \in 0..MaxLaunches /\ kills \in 0..MaxKills
        /\ overlapped \in BOOLEAN
BY DEF ControlTypeOK, ProcessRec, Steps, LoopSteps, CommandSteps

LEMMA GoneIsProcess == Gone \in ProcessRec
BY DEF Gone, ProcessRec, Steps

LEMMA CommandOrNot ==
    ASSUME ControlTypeOK, KindsOK, NEW p \in Pids
    PROVE  /\ InCommand(p) <=> process[p].pc \in CommandSteps
           /\ IsAlive(p) <=> process[p].pc # "gone"
           /\ process[p] \in ProcessRec
<1>1. process[p] \in ProcessRec BY Types
<1> QED BY <1>1 DEF KindsOK, InCommand, IsAlive, Looping, LoopSteps,
          CommandSteps, ProcessRec, Steps

\* Where a command goes from a step.
LEMMA OnwardTo ==
    ASSUME NEW p \in Pids, NEW s \in {"build", "open", "check"},
           process[p].kind \in AllCommands, Onward(p, s)
    PROVE  \/ s = "check" /\ process[p].kind = "status" /\ Ends(p)
           \/ /\ s = "build" /\ process[p].kind = "start" /\ Goes(p, "check")
           \/ /\ s = "build" /\ process[p].kind \in {"sync", "import"}
              /\ Goes(p, "once")
           \/ /\ s = "open" /\ process[p].kind = "cli_start"
              /\ Goes(p, "truncate")
           \/ /\ s = "check" /\ process[p].kind = "start" /\ Goes(p, "truncate")
           \/ /\ s = "check" /\ process[p].kind = "cli_start" /\ Goes(p, "open")
<1> DEFINE steps == StepsOf[process[p].kind]
<1>1. \/ \E i \in DOMAIN steps :
            steps[i] = s /\ i + 1 \in DOMAIN steps /\ Goes(p, steps[i + 1])
      \/ steps[Len(steps)] = s /\ Ends(p)
  BY DEF Onward
<1>2. CASE process[p].kind = "start"
  <2>1. steps = <<"build", "check", "truncate">> BY <1>2 DEF StepsOf
  <2> HIDE DEF steps
  <2> QED BY <1>1, <1>2, <2>1
<1>3. CASE process[p].kind = "cli_start"
  <2>1. steps = <<"check", "open", "truncate">> BY <1>3 DEF StepsOf
  <2> HIDE DEF steps
  <2> QED BY <1>1, <1>3, <2>1
<1>4. CASE process[p].kind \in {"sync", "import"}
  <2>1. steps = <<"build", "once">> BY <1>4 DEF StepsOf
  <2> HIDE DEF steps
  <2> QED BY <1>1, <1>4, <2>1
<1>5. CASE process[p].kind \in {"stop", "status", "other"}
  <2>1. \E e \in {"read", "check", "busy"} :
           steps = <<e>> /\ (e = "check" => process[p].kind = "status")
    BY <1>5 DEF StepsOf
  <2> HIDE DEF steps
  <2> QED BY <1>1, <1>5, <2>1
<1> QED BY <1>2, <1>3, <1>4, <1>5 DEF AllCommands

-----------------------------------------------------------------------------
(* What one process does, as the invariant sees it: it ends, a daemon goes  *)
(* on, or a command does.                                                  *)

LEMMA Ending ==
    ASSUME ControlInv, NEW p \in Pids, Ends(p),
           UNCHANGED <<launches, overlapped>>,
           \/ UNCHANGED clone
           \/ process[p].pc \in {"clone", "fetch"} /\ clone' = "empty",
           pidFile' = pidFile \/ pidFile' = NoPid,
           ~overlapped => pidFile' = pidFile \/ \A q \in Pids \ {p} : ~Looping(q),
           kills' \in 0..MaxKills,
           kills' = 0 => kills = 0 /\ (process[p].pc # "fetch" \/ clone' = "empty")
    PROVE  ControlInv'
<1> USE DEF ControlInv
<1>1. /\ process \in [Pids -> ProcessRec]
      /\ process' = [process EXCEPT ![p] = Gone] /\ process' \in [Pids -> ProcessRec]
      /\ process'[p] = Gone /\ \A q \in Pids \ {p} : process'[q] = process[q]
  BY Types, GoneIsProcess DEF Ends
<1>2. ControlTypeOK'
  <2>1. pidFile' \in Pids \cup {NoPid, "torn"} BY DEF ControlTypeOK
  <2> QED BY <1>1, <2>1, Types DEF ControlTypeOK, ProcessRec, Steps, LoopSteps, CommandSteps
<1>3. KindsOK' BY <1>1 DEF KindsOK, Gone, Looping
<1>4. \A q \in Pids : Looping(q)' => Looping(q) /\ q # p
  BY <1>1 DEF Looping, LoopSteps, Gone
<1>5. \A q \in Pids : InCommand(q)' => InCommand(q) /\ q # p
  BY <1>1 DEF InCommand, IsAlive, Looping, LoopSteps, Gone
<1>6. ASSUME ~overlapped' PROVE (OneCommand /\ CommandOK /\ FileOK)'
  <2>1. OneCommand' BY <1>5, <1>6 DEF OneCommand
  <2>2. CommandOK' BY <1>1, <1>4, <1>6 DEF CommandOK, NoLoop, Gone
  <2>3. FileOK' BY <1>4, <1>6 DEF FileOK
  <2> QED BY <2>1, <2>2, <2>3
<1>7. ASSUME ~overlapped', kills' = 0 PROVE CloneOK'
  <2>1. /\ CloneOK /\ OneCommand
        /\ process[p].pc # "fetch" \/ clone' = "empty"
    BY <1>7
  <2>2. CASE UNCHANGED clone
    BY <1>1, <1>4, <2>1, <2>2 DEF CloneOK, NoLoop, Usable, Gone, LoopSteps
  <2>3. CASE process[p].pc \in {"clone", "fetch"} /\ clone' = "empty"
    <3>1. \A q \in Pids \ {p} : process'[q].pc \notin CommandSteps
      BY <1>1, <2>1, <2>3, CommandOrNot DEF OneCommand, CommandSteps
    <3>2. NoLoop /\ NoLoop' BY <1>4, <2>1, <2>3 DEF CloneOK, NoLoop
    <3> QED BY <1>1, <2>3, <3>1, <3>2
            DEF CloneOK, Gone, CommandSteps, NoLoop, Looping, LoopSteps
  <2> QED BY <2>2, <2>3
<1> QED BY <1>2, <1>3, <1>6, <1>7

LEMMA DaemonGoesOn ==
    ASSUME ControlInv, NEW p \in Pids, NEW r \in ProcessRec,
           process' = [process EXCEPT ![p] = r],
           Looping(p), r.pc \in LoopSteps, r.kind = process[p].kind,
           UNCHANGED <<pidFile, clone, launches, kills, overlapped>>
    PROVE  ControlInv'
<1> USE DEF ControlInv
<1>1. /\ process \in [Pids -> ProcessRec] /\ process' \in [Pids -> ProcessRec]
      /\ process'[p] = r /\ \A q \in Pids \ {p} : process'[q] = process[q]
  BY Types
<1>2. ControlTypeOK'
  BY <1>1, Types DEF ControlTypeOK, ProcessRec, Steps, LoopSteps, CommandSteps
<1>3. KindsOK'
  <2>1. /\ r.kind # "other" /\ r.kind # "none"
        /\ r.pc \notin {"busy", "gone", "signal", "poll", "check", "sweep"}
    BY DEF KindsOK, Looping, LoopSteps
  <2> QED BY <1>1, <2>1 DEF KindsOK, Looping
<1>4. \A q \in Pids : Looping(q)' <=> Looping(q)
  BY <1>1 DEF Looping
<1>5. \A q \in Pids : InCommand(q)' => InCommand(q)
  BY <1>1, <1>4 DEF InCommand, IsAlive
<1>6. \A q \in Pids : q # p => process'[q] = process[q]
  BY <1>1
<1>7. process'[p].pc \in LoopSteps BY <1>1
<1>8. ASSUME ~overlapped' PROVE (OneCommand /\ CommandOK /\ FileOK)'
  <2>1. OneCommand' BY <1>5, <1>8 DEF OneCommand
  <2>2. CommandOK' BY <1>4, <1>6, <1>7, <1>8 DEF CommandOK, NoLoop, LoopSteps
  <2>3. FileOK' BY <1>4, <1>8 DEF FileOK
  <2> QED BY <2>1, <2>2, <2>3
<1>9. ASSUME ~overlapped', kills' = 0 PROVE CloneOK'
  <2>1. CloneOK BY <1>9
  <2>2. Usable BY <2>1 DEF CloneOK, Looping
  <2> QED BY <1>6, <1>4, <1>7, <2>1, <2>2 DEF CloneOK, NoLoop, Usable, LoopSteps
<1> QED BY <1>2, <1>3, <1>8, <1>9

\* What a command may become without the invariant being lost.
CommandMay(p, r) ==
    /\ ~overlapped =>
          /\ r.pc \in {"sweep", "open", "truncate", "write", "remove", "loop"} => NoLoop
          /\ r.pc \in {"signal", "poll"} =>
                \A q \in Pids : Looping(q) => q = r.target
          /\ pidFile' = pidFile \/ NoLoop
          /\ r.pc = "loop" => pidFile' = p
    /\ ~overlapped /\ kills = 0 =>
          /\ r.pc = "clone" => clone' = "empty" /\ NoLoop
          /\ r.pc = "fetch" <=> clone' = "half"
          /\ r.pc = "fetch" => NoLoop
          /\ (r.kind = "start" /\ r.pc \in {"check", "sweep"}) => Usable'
          /\ r.pc \in {"truncate", "write", "loop"} => Usable'
          /\ NoLoop \/ (Usable => Usable')

LEMMA CommandGoesOn ==
    ASSUME ControlInv, NEW p \in Pids, NEW r \in ProcessRec,
           process' = [process EXCEPT ![p] = r], process[p].pc \in CommandSteps,
           r.pc \in CommandSteps \cup {"loop"}, r.kind = process[p].kind,
           r.armed = process[p].armed,
           r.pc \in {"signal", "poll"} => r.target \in Pids,
           r.pc \in {"check", "sweep"} => r.kind \in {"start", "cli_start", "status"},
           pidFile' \in Pids \cup {NoPid, "torn"},
           clone' \in {"absent", "empty", "half", "whole", "local"},
           UNCHANGED <<launches, kills, overlapped>>,
           CommandMay(p, r)
    PROVE  ControlInv'
<1> USE DEF ControlInv
<1>1. /\ process \in [Pids -> ProcessRec] /\ process' \in [Pids -> ProcessRec]
      /\ process'[p] = r /\ \A q \in Pids \ {p} : process'[q] = process[q]
  BY Types
<1>2. ControlTypeOK'
  BY <1>1, Types DEF ControlTypeOK, ProcessRec, Steps, LoopSteps, CommandSteps
<1>3. KindsOK'
  <2>1. /\ r.kind # "other" /\ r.kind # "none" /\ ~r.armed
        /\ r.pc \notin {"busy", "gone"}
    BY DEF KindsOK, Looping, LoopSteps, CommandSteps
  <2> QED BY <1>1, <2>1 DEF KindsOK, Looping
<1>4. \A q \in Pids : Looping(q)' => Looping(q) \/ (q = p /\ r.pc = "loop")
  BY <1>1 DEF Looping, LoopSteps, CommandSteps
<1>5. \A q \in Pids \ {p} : ~overlapped => process[q].pc \notin CommandSteps
  BY CommandOrNot DEF OneCommand
<1>6. ASSUME ~overlapped' PROVE (OneCommand /\ CommandOK /\ FileOK)'
  <2>1. OneCommand'
    <3>1. \A q \in Pids \ {p} : ~InCommand(q)'
      BY <1>1, <1>5, <1>6 DEF KindsOK, InCommand, IsAlive, Looping, ProcessRec,
         Steps, CommandSteps, LoopSteps
    <3> QED BY <3>1 DEF OneCommand
  <2>2. CommandOK'
    <3>1. \A q \in Pids \ {p} : process'[q].pc \notin CommandSteps
      BY <1>1, <1>5, <1>6
    <3>2. r.pc \in CommandSteps => \A q \in Pids : Looping(q)' => Looping(q)
      BY <1>4 DEF CommandSteps
    <3> QED BY <1>1, <1>6, <3>1, <3>2 DEF CommandOK, CommandMay, NoLoop, CommandSteps
  <2>3. FileOK' BY <1>4, <1>6 DEF FileOK, CommandMay, NoLoop
  <2> QED BY <2>1, <2>2, <2>3
<1>7. ASSUME ~overlapped', kills' = 0 PROVE CloneOK'
  <2>1. CloneOK /\ ~overlapped /\ kills = 0 BY <1>7
  <2>2. \A q \in Pids \ {p} : process'[q].pc \notin CommandSteps
    BY <1>1, <1>5, <2>1
  <2>3. \A q \in Pids : Looping(q)' => Usable'
    BY <1>4, <2>1 DEF CommandMay, CloneOK, Looping, NoLoop
  <2>4. r.pc # "loop" => (NoLoop => NoLoop') BY <1>4 DEF NoLoop
  <2> QED BY <1>1, <2>1, <2>2, <2>3, <2>4
          DEF CloneOK, CommandMay, Looping, CommandSteps
<1> QED BY <1>2, <1>3, <1>6, <1>7

-----------------------------------------------------------------------------

LEMMA InitOK == ControlInit => ControlInv
<1> SUFFICES ASSUME ControlInit PROVE ControlInv OBVIOUS
<1>1. process = [q \in Pids |-> Gone] BY DEF ControlInit
<1>2. ControlTypeOK
  <2>1. process \in [Pids -> ProcessRec] BY <1>1, GoneIsProcess
  <2>2. launches \in 0..MaxLaunches /\ kills \in 0..MaxKills
    BY PersonalControlAssumption DEF ControlInit
  <2> QED BY <2>1, <2>2, Types DEF ControlInit
<1>3. Gone.pc = "gone" /\ Gone.kind = "none" /\ ~Gone.armed BY DEF Gone
<1>4. \A q \in Pids : process[q].pc = "gone" /\ process[q].kind = "none"
                      /\ ~process[q].armed
  BY <1>1, <1>3
<1> QED
  BY <1>2, <1>4 DEF ControlInit, ControlInv, KindsOK, OneCommand, CommandOK,
     FileOK, CloneOK, InCommand, IsAlive, Looping, LoopSteps

LEMMA LaunchKeeps ==
    ASSUME ControlInv, NEW p \in Pids, NEW c \in Commands, Launch(p, c)
    PROVE  ControlInv'
<1> USE DEF ControlInv
<1> DEFINE first == StepsOf[c][1]
           r == [Gone EXCEPT !.kind = c, !.pc = first]
<1>1. c \in AllCommands BY PersonalControlAssumption
<1>0. /\ first \in {"build", "check", "read", "busy"}
      /\ c = "other" <=> first = "busy"
      /\ first = "check" => c \in {"cli_start", "status"}
  BY <1>1 DEF StepsOf, AllCommands
<1> HIDE DEF first
<1>2. /\ r.kind = c /\ ~r.armed
      /\ r.pc \in {"build", "check", "read", "busy"}
      /\ c = "other" <=> r.pc = "busy"
      /\ r.pc = "check" => c \in {"cli_start", "status"}
      /\ r \in ProcessRec
  BY <1>0, <1>1 DEF Gone, ProcessRec, Steps, CommandSteps
<1> HIDE DEF r
<1>3. /\ process \in [Pids -> ProcessRec] /\ process' \in [Pids -> ProcessRec]
      /\ process'[p] = r /\ \A q \in Pids \ {p} : process'[q] = process[q]
  BY <1>2, Types DEF Launch, r, first
<1>4. /\ UNCHANGED <<pidFile, clone, kills>>
      /\ launches' \in 0..MaxLaunches
      /\ overlapped' = (overlapped \/ (c # "other" /\ \E q \in Pids : InCommand(q)))
  BY PersonalControlAssumption DEF Launch, ControlTypeOK
<1>5. ControlTypeOK'
  <2>1. overlapped' \in BOOLEAN BY <1>4 DEF ControlTypeOK
  <2> QED BY <1>3, <1>4, <2>1, Types DEF ControlTypeOK, ProcessRec, Steps, LoopSteps, CommandSteps
<1>6. KindsOK'
  <2>1. \A q \in Pids \ {p} : Looping(q)' <=> Looping(q) BY <1>3 DEF Looping
  <2>2. c # "none" BY <1>1 DEF AllCommands
  <2> QED BY <1>2, <1>3, <2>1, <2>2 DEF KindsOK
<1>7. ~IsAlive(p) BY DEF Launch
<1>8. \A q \in Pids : Looping(q)' <=> Looping(q) /\ q # p
  BY <1>2, <1>3, <1>7 DEF Looping, LoopSteps, IsAlive
<1>9. \A q \in Pids : Looping(q)' <=> Looping(q)
  BY <1>7, <1>8 DEF Looping, LoopSteps, IsAlive
<1>10. \A q \in Pids : InCommand(q)' => InCommand(q) \/ (q = p /\ c # "other")
  BY <1>2, <1>3, <1>9 DEF InCommand, IsAlive
<1>11. ASSUME ~overlapped' PROVE (OneCommand /\ CommandOK /\ FileOK)'
  <2>1. OneCommand' BY <1>4, <1>10, <1>11 DEF OneCommand
  <2>2. CommandOK'
    BY <1>2, <1>3, <1>4, <1>9, <1>11 DEF CommandOK, NoLoop
  <2>3. FileOK' BY <1>4, <1>9, <1>11 DEF FileOK
  <2> QED BY <2>1, <2>2, <2>3
<1>12. ASSUME ~overlapped', kills' = 0 PROVE CloneOK'
  <2>1. CloneOK BY <1>4, <1>12
  <2>2. NoLoop <=> NoLoop' BY <1>9 DEF NoLoop
  <2>3. /\ r.pc \notin {"clone", "fetch", "truncate", "write"} \cup LoopSteps
        /\ ~(r.kind = "start" /\ r.pc \in {"check", "sweep"})
    BY <1>2 DEF LoopSteps
  <2>4. process[p].pc = "gone" BY <1>7 DEF IsAlive
  <2> QED BY <1>3, <1>4, <2>1, <2>2, <2>3, <2>4 DEF CloneOK, Usable
<1> QED BY <1>5, <1>6, <1>11, <1>12

\* A command goes on to what its source has next, or ends.
LEMMA OnwardKeeps ==
    ASSUME ControlInv, NEW p \in Pids, NEW s \in {"build", "open", "check"},
           process[p].pc \in CommandSteps, Onward(p, s),
           UNCHANGED <<launches, kills, overlapped>>,
           pidFile' \in {pidFile, NoPid},
           clone' \in {"absent", "empty", "half", "whole", "local"},
           s = "check" => UNCHANGED clone /\ process[p].pc # "fetch",
           ~overlapped =>
              /\ s # "build" => NoLoop
              /\ pidFile' = pidFile \/ NoLoop,
           ~overlapped /\ kills = 0 =>
              /\ NoLoop \/ UNCHANGED clone
              /\ clone' # "half"
              /\ s # "check" \/ process[p].kind = "start" => Usable'
    PROVE  ControlInv'
<1> USE DEF ControlInv
<1>1. /\ process[p].kind \in AllCommands /\ process[p] \in ProcessRec
      /\ process \in [Pids -> ProcessRec]
      /\ kills \in 0..MaxKills /\ pidFile \in Pids \cup {NoPid, "torn"}
  BY Types DEF KindsOK, ProcessRec, CommandSteps
<1>2. CASE s = "check" /\ process[p].kind = "status" /\ Ends(p)
  BY <1>1, <1>2, Ending DEF NoLoop
<1>3. ASSUME NEW pc \in {"check", "once", "open", "truncate"}, Goes(p, pc),
             pc = "check" => process[p].kind = "start" /\ s # "check",
             pc \in {"open", "truncate"} => s # "build",
             pc = "truncate" => s # "check" \/ process[p].kind = "start"
      PROVE  ControlInv'
  <2> DEFINE r == [process[p] EXCEPT !.pc = pc]
  <2>1. /\ r \in ProcessRec /\ r.pc = pc /\ r.kind = process[p].kind
        /\ r.armed = process[p].armed
    BY <1>1 DEF ProcessRec, Steps, CommandSteps
  <2>2. process' = [process EXCEPT ![p] = r] BY <1>3 DEF Goes
  <2> HIDE DEF r
  <2>3. CommandMay(p, r)
    BY <1>3, <2>1 DEF CommandMay, Usable, NoLoop
  <2> QED BY <1>1, <1>3, <2>1, <2>2, <2>3, CommandGoesOn DEF CommandSteps
<1> QED BY <1>1, <1>2, <1>3, OnwardTo
-----------------------------------------------------------------------------
(* One lemma for every action.                                             *)

LEMMA OpenCloneKeeps ==
    ASSUME ControlInv, NEW p \in Pids, OpenClone(p) PROVE ControlInv'
<1> USE DEF ControlInv
<1>1. /\ process[p].pc \in {"build", "open"} /\ process[p] \in ProcessRec
      /\ process \in [Pids -> ProcessRec] /\ kills \in 0..MaxKills
      /\ pidFile \in Pids \cup {NoPid, "torn"}
      /\ clone \in {"absent", "empty", "half", "whole", "local"}
      /\ UNCHANGED <<pidFile, launches, kills, overlapped>>
  BY Types DEF OpenClone
<1>2. ~overlapped /\ kills = 0 => clone # "half" /\ \A q \in Pids : Looping(q) => Usable
  <2> SUFFICES ASSUME ~overlapped, kills = 0
               PROVE  clone # "half" /\ \A q \in Pids : Looping(q) => Usable
    OBVIOUS
  <2>1. CloneOK /\ OneCommand OBVIOUS
  <2>2. \A q \in Pids : process[q].pc = "fetch" => q = p
    BY <1>1, <2>1, CommandOrNot DEF OneCommand, CommandSteps
  <2> QED BY <1>1, <2>1, <2>2 DEF CloneOK, Looping
<1>3. CASE clone = "absent" /\ process[p].pc = "build"
  <2> DEFINE r == [process[p] EXCEPT !.pc = "clone"]
  <2>1. /\ r \in ProcessRec /\ r.pc = "clone" /\ r.kind = process[p].kind
        /\ r.armed = process[p].armed
    BY <1>1 DEF ProcessRec, Steps, CommandSteps
  <2>2. process' = [process EXCEPT ![p] = r] /\ clone' = "empty"
    BY <1>3 DEF OpenClone, Goes
  <2> HIDE DEF r
  <2>3. CommandMay(p, r)
    BY <1>1, <1>2, <1>3, <2>1, <2>2 DEF CommandMay, Usable, NoLoop
  <2> QED BY <1>1, <2>1, <2>2, <2>3, CommandGoesOn DEF CommandSteps
<1>4. CASE ~(clone = "absent" /\ process[p].pc = "build")
  <2>1. UNCHANGED clone BY <1>4 DEF OpenClone
  <2>2. CASE Openable
    <3>1. Onward(p, process[p].pc) BY <1>4, <2>2 DEF OpenClone
    <3>2. ~overlapped /\ process[p].pc = "open" => NoLoop
      BY DEF CommandOK
    <3>3. ~overlapped /\ kills = 0 => Usable
      BY <1>1, <1>2, <2>2 DEF Openable, Usable
    <3>4. process[p].pc \in CommandSteps BY <1>1 DEF CommandSteps
    <3>5. Usable' <=> Usable BY <2>1 DEF Usable
    <3> QED BY <1>1, <1>2, <2>1, <3>1, <3>2, <3>3, <3>4, <3>5, OnwardKeeps
  <2>3. CASE ~Openable
    BY <1>1, <1>4, <2>1, <2>3, Ending DEF OpenClone
  <2> QED BY <2>2, <2>3
<1> QED BY <1>3, <1>4

LEMMA CloneBeginsKeeps ==
    ASSUME ControlInv, NEW p \in Pids, CloneBegins(p) PROVE ControlInv'
<1> USE DEF ControlInv
<1> DEFINE r == [process[p] EXCEPT !.pc = "fetch"]
<1>1. /\ process[p] \in ProcessRec /\ process[p].pc = "clone"
      /\ pidFile \in Pids \cup {NoPid, "torn"}
      /\ UNCHANGED <<pidFile, launches, kills, overlapped>>
  BY Types DEF CloneBegins
<1>2. /\ r \in ProcessRec /\ r.pc = "fetch" /\ r.kind = process[p].kind
      /\ r.armed = process[p].armed
  BY <1>1 DEF ProcessRec, Steps, CommandSteps
<1>3. process' = [process EXCEPT ![p] = r] /\ clone' = "half"
  BY DEF CloneBegins, Goes
<1> HIDE DEF r
<1>4. CommandMay(p, r)
  BY <1>1, <1>2, <1>3 DEF CommandMay, CloneOK
<1> QED BY <1>1, <1>2, <1>3, <1>4, CommandGoesOn DEF CommandSteps

LEMMA CloneEndsKeeps ==
    ASSUME ControlInv, NEW p \in Pids, CloneEnds(p) PROVE ControlInv'
<1> USE DEF ControlInv
<1>1. ~overlapped /\ kills = 0 => NoLoop BY DEF CloneEnds, CloneOK
<1>2. /\ process[p].pc \in CommandSteps /\ clone' = "whole" /\ Usable'
      /\ Onward(p, "build") /\ UNCHANGED <<pidFile, launches, kills, overlapped>>
  BY DEF CloneEnds, CommandSteps, Usable
<1> QED BY <1>1, <1>2, OnwardKeeps

LEMMA CloneFailsKeeps ==
    ASSUME ControlInv, NEW p \in Pids, CloneFails(p) PROVE ControlInv'
<1> USE DEF ControlInv
<1>1. ~overlapped /\ kills = 0 => NoLoop BY DEF CloneFails, CloneOK
<1>2. /\ process[p].pc \in {"clone", "fetch"} /\ process[p].pc \in CommandSteps
      /\ UNCHANGED <<pidFile, launches, kills, overlapped>>
  BY DEF CloneFails, CommandSteps
<1>3. CASE process[p].kind = "import"
  <2>1. clone' = "local" /\ Usable' /\ Onward(p, "build")
    BY <1>3 DEF CloneFails, Usable
  <2> QED BY <1>1, <1>2, <2>1, OnwardKeeps
<1>4. CASE process[p].kind # "import"
  <2>1. clone' = "empty" /\ Ends(p) BY <1>4 DEF CloneFails
  <2>2. kills' \in 0..MaxKills BY <1>2, Types
  <2> QED BY <1>2, <2>1, <2>2, Ending
<1> QED BY <1>3, <1>4
LEMMA CheckKeeps ==
    ASSUME ControlInv, NEW p \in Pids, Check(p) PROVE ControlInv'
<1> USE DEF ControlInv
<1>1. /\ process[p].pc = "check" /\ process[p] \in ProcessRec
      /\ process[p].kind \in {"start", "cli_start", "status"}
      /\ kills \in 0..MaxKills /\ pidFile \in Pids \cup {NoPid, "torn"}
      /\ clone \in {"absent", "empty", "half", "whole", "local"}
      /\ UNCHANGED <<pidFile, clone, launches, kills, overlapped>>
  BY Types DEF Check, KindsOK
<1>2. ~overlapped /\ kills = 0 =>
         /\ clone # "half"
         /\ process[p].kind = "start" => Usable
  BY <1>1, CommandOrNot DEF CloneOK, OneCommand, CommandSteps
<1>3. CASE Ends(p) BY <1>1, <1>3, Ending
<1>4. CASE pidFile = NoPid /\ Onward(p, "check")
  <2>1. ~overlapped => NoLoop
    BY <1>4, PersonalControlAssumption DEF FileOK, NoLoop
  <2>2. process[p].pc \in CommandSteps BY <1>1 DEF CommandSteps
  <2> QED BY <1>1, <1>2, <1>4, <2>1, <2>2, OnwardKeeps DEF Usable
<1>5. CASE pidFile \in Pids /\ ~IsAlive(pidFile) /\ Goes(p, "sweep")
  <2> DEFINE r == [process[p] EXCEPT !.pc = "sweep"]
  <2>1. /\ r \in ProcessRec /\ r.pc = "sweep" /\ r.kind = process[p].kind
        /\ r.armed = process[p].armed
    BY <1>1 DEF ProcessRec, Steps, CommandSteps
  <2>2. process' = [process EXCEPT ![p] = r] BY <1>5 DEF Goes
  <2> HIDE DEF r
  <2>3. ~overlapped => NoLoop
    BY <1>5 DEF FileOK, NoLoop, Looping, LoopSteps, IsAlive
  <2>4. CommandMay(p, r)
    BY <1>1, <1>2, <2>1, <2>3 DEF CommandMay, Usable
  <2> QED BY <1>1, <2>1, <2>2, <2>4, CommandGoesOn DEF CommandSteps
<1> QED BY <1>1, <1>3, <1>4, <1>5 DEF Check

LEMMA SweepKeeps ==
    ASSUME ControlInv, NEW p \in Pids, SweepStaleFile(p) PROVE ControlInv'
<1> USE DEF ControlInv
<1>1. /\ process[p].pc = "sweep" /\ process[p].pc \in CommandSteps
      /\ pidFile' = NoPid /\ Onward(p, "check")
      /\ clone \in {"absent", "empty", "half", "whole", "local"}
      /\ UNCHANGED <<clone, launches, kills, overlapped>>
  BY Types DEF SweepStaleFile, CommandSteps
<1>2. ~overlapped => NoLoop BY <1>1 DEF CommandOK
<1>3. ~overlapped /\ kills = 0 =>
         /\ clone # "half"
         /\ process[p].kind = "start" => Usable
  BY <1>1, CommandOrNot DEF CloneOK, OneCommand, CommandSteps
<1> QED BY <1>1, <1>2, <1>3, OnwardKeeps DEF Usable

LEMMA TruncateKeeps ==
    ASSUME ControlInv, NEW p \in Pids, Truncate(p) PROVE ControlInv'
<1> USE DEF ControlInv
<1> DEFINE r == [process[p] EXCEPT !.pc = "write"]
<1>1. /\ process[p] \in ProcessRec /\ process[p].pc = "truncate"
      /\ clone \in {"absent", "empty", "half", "whole", "local"}
      /\ pidFile' = "torn" /\ UNCHANGED <<clone, launches, kills, overlapped>>
  BY Types DEF Truncate
<1>2. /\ r \in ProcessRec /\ r.pc = "write" /\ r.kind = process[p].kind
      /\ r.armed = process[p].armed
  BY <1>1 DEF ProcessRec, Steps, CommandSteps
<1>3. process' = [process EXCEPT ![p] = r] BY DEF Truncate, Goes
<1> HIDE DEF r
<1>4. ~overlapped => NoLoop BY <1>1 DEF CommandOK
<1>5. ~overlapped /\ kills = 0 => Usable /\ clone # "half"
  BY <1>1 DEF CloneOK, Usable
<1>6. CommandMay(p, r)
  BY <1>1, <1>2, <1>4, <1>5 DEF CommandMay, Usable
<1> QED BY <1>1, <1>2, <1>3, <1>6, CommandGoesOn DEF CommandSteps

LEMMA WriteKeeps ==
    ASSUME ControlInv, NEW p \in Pids, WritePidFile(p) PROVE ControlInv'
<1> USE DEF ControlInv
<1> DEFINE r == [process[p] EXCEPT !.pc = "loop"]
<1>1. /\ process[p] \in ProcessRec /\ process[p].pc = "write"
      /\ clone \in {"absent", "empty", "half", "whole", "local"}
      /\ pidFile' = p /\ UNCHANGED <<clone, launches, kills, overlapped>>
  BY Types DEF WritePidFile
<1>2. /\ r \in ProcessRec /\ r.pc = "loop" /\ r.kind = process[p].kind
      /\ r.armed = process[p].armed
  BY <1>1 DEF ProcessRec, Steps, LoopSteps
<1>3. process' = [process EXCEPT ![p] = r] BY DEF WritePidFile, Goes
<1> HIDE DEF r
<1>4. ~overlapped => NoLoop BY <1>1 DEF CommandOK
<1>5. ~overlapped /\ kills = 0 => Usable /\ clone # "half"
  BY <1>1 DEF CloneOK, Usable
<1>6. CommandMay(p, r)
  BY <1>1, <1>2, <1>4, <1>5 DEF CommandMay, Usable
<1> QED BY <1>1, <1>2, <1>3, <1>6, CommandGoesOn DEF CommandSteps

LEMMA RemoveKeeps ==
    ASSUME ControlInv, NEW p \in Pids, RemovePidFile(p) PROVE ControlInv'
<1> USE DEF ControlInv
<1>1. /\ process[p].pc \in {"unlink", "remove"} /\ kills' \in 0..MaxKills
      /\ UNCHANGED <<clone, launches, kills, overlapped>>
      /\ pidFile' = NoPid /\ Ends(p)
  BY Types DEF RemovePidFile
<1>2. ~overlapped => \A q \in Pids \ {p} : ~Looping(q)
  <2>1. CASE process[p].pc = "remove" BY <2>1 DEF CommandOK, NoLoop
  <2>2. CASE process[p].pc = "unlink" BY <2>2 DEF FileOK, Looping, LoopSteps
  <2> QED BY <1>1, <2>1, <2>2
<1> QED BY <1>1, <1>2, Ending

LEMMA RunOnceKeeps ==
    ASSUME ControlInv, NEW p \in Pids, RunOnce(p) PROVE ControlInv'
<1>1. /\ process[p].pc = "once" /\ kills' \in 0..MaxKills /\ Ends(p)
      /\ UNCHANGED <<pidFile, clone, launches, kills, overlapped>>
  BY Types DEF RunOnce, ControlInv
<1> QED BY <1>1, Ending

LEMMA LoopKeeps ==
    ASSUME ControlInv, NEW p \in Pids, LoopStep(p) \/ Arm(p) PROVE ControlInv'
<1> DEFINE next(pc) == [process[p] EXCEPT !.pc = pc]
           armed == [process[p] EXCEPT !.armed = TRUE]
<1>1. /\ process[p] \in ProcessRec /\ Looping(p)
      /\ UNCHANGED <<pidFile, clone, launches, kills, overlapped>>
  BY Types DEF LoopStep, Arm, ControlInv, Looping, LoopSteps
<1>2. \A pc \in LoopSteps : /\ next(pc) \in ProcessRec /\ next(pc).pc = pc
                           /\ next(pc).kind = process[p].kind
  BY <1>1 DEF ProcessRec, Steps
<1>3. /\ armed \in ProcessRec /\ armed.pc = process[p].pc
      /\ armed.kind = process[p].kind
  BY <1>1 DEF ProcessRec
<1>4. \/ \E pc \in LoopSteps : process' = [process EXCEPT ![p] = next(pc)]
      \/ process' = [process EXCEPT ![p] = armed]
  BY <1>1 DEF LoopStep, Arm, Goes, LoopSteps
<1> HIDE DEF next, armed
<1> QED BY <1>1, <1>2, <1>3, <1>4, DaemonGoesOn DEF Looping

LEMMA InterruptKeeps ==
    ASSUME ControlInv, NEW p \in Pids, Interrupt(p) PROVE ControlInv'
<1>1. /\ process[p] \in ProcessRec /\ Looping(p) /\ kills' \in 0..MaxKills
      /\ UNCHANGED <<pidFile, clone, launches, kills, overlapped>>
      /\ process' = [process EXCEPT ![p] = Signalled(p)]
  BY Types DEF Interrupt, ControlInv
<1>2. CASE process[p].armed
  <2> DEFINE r == [process[p] EXCEPT !.flag = TRUE]
  <2>1. /\ r \in ProcessRec /\ r.pc = process[p].pc /\ r.kind = process[p].kind
    BY <1>1 DEF ProcessRec
  <2>2. process' = [process EXCEPT ![p] = r] BY <1>1, <1>2 DEF Signalled
  <2> HIDE DEF r
  <2> QED BY <1>1, <2>1, <2>2, DaemonGoesOn DEF Looping
<1>3. CASE ~process[p].armed
  <2>1. Ends(p) /\ process[p].pc # "fetch"
    BY <1>1, <1>3 DEF Signalled, Ends, Looping, LoopSteps
  <2> QED BY <1>1, <2>1, Ending
<1> QED BY <1>2, <1>3
LEMMA ReadKeeps ==
    ASSUME ControlInv, NEW p \in Pids, ReadPidFile(p) PROVE ControlInv'
<1> USE DEF ControlInv
<1>1. /\ process[p] \in ProcessRec /\ process[p].pc = "read"
      /\ kills \in 0..MaxKills /\ pidFile \in Pids \cup {NoPid, "torn"}
      /\ clone \in {"absent", "empty", "half", "whole", "local"}
      /\ UNCHANGED <<pidFile, clone, launches, kills, overlapped>>
  BY Types DEF ReadPidFile
<1>2. CASE ~Readable
  <2>1. Ends(p) BY <1>2 DEF ReadPidFile, Ends
  <2> QED BY <1>1, <2>1, Ending
<1>3. CASE Readable
  <2> DEFINE pc == IF IsAlive(pidFile) THEN "signal" ELSE "remove"
             r == [process[p] EXCEPT !.target = pidFile, !.pc = pc]
  <2>1. pidFile \in Pids BY <1>3 DEF Readable
  <2>2. pc \in {"signal", "remove"} /\ (pc = "remove" => ~IsAlive(pidFile))
    OBVIOUS
  <2>3. process' = [process EXCEPT ![p] = r]
    <3>1. IF \E q \in Pids : q = pidFile /\ IsAlive(q) THEN pc = "signal" ELSE pc = "remove"
      BY <2>1
    <3> QED BY <1>3, <3>1 DEF ReadPidFile
  <2> HIDE DEF pc
  <2>4. /\ r \in ProcessRec /\ r.pc = pc /\ r.kind = process[p].kind
        /\ r.armed = process[p].armed /\ r.target = pidFile
    BY <1>1, <2>1, <2>2 DEF ProcessRec, Steps, CommandSteps
  <2> HIDE DEF r
  <2>5. ~overlapped => /\ pc = "remove" => NoLoop
                       /\ \A q \in Pids : Looping(q) => q = pidFile
    BY <2>2 DEF FileOK, NoLoop, Looping, LoopSteps, IsAlive
  <2>6. ~overlapped /\ kills = 0 => clone # "half"
    BY <1>1, CommandOrNot DEF CloneOK, OneCommand, CommandSteps
  <2>7. CommandMay(p, r)
    BY <1>1, <2>2, <2>4, <2>5, <2>6 DEF CommandMay, Usable
  <2> QED BY <1>1, <2>1, <2>2, <2>3, <2>4, <2>7, CommandGoesOn DEF CommandSteps
<1> QED BY <1>2, <1>3

\* A command changes only its own step.
LEMMA StepOnly ==
    ASSUME ControlInv, NEW p \in Pids, NEW pc \in {"poll", "remove"},
           process[p].pc \in {"signal", "poll"}, Goes(p, pc),
           UNCHANGED <<pidFile, clone, launches, kills, overlapped>>,
           ~overlapped /\ pc = "remove" => NoLoop
    PROVE  ControlInv'
<1> USE DEF ControlInv
<1> DEFINE r == [process[p] EXCEPT !.pc = pc]
<1>1. /\ process[p] \in ProcessRec /\ pidFile \in Pids \cup {NoPid, "torn"}
      /\ clone \in {"absent", "empty", "half", "whole", "local"}
      /\ process[p].target \in Pids
  BY Types DEF KindsOK
<1>2. /\ r \in ProcessRec /\ r.pc = pc /\ r.kind = process[p].kind
      /\ r.armed = process[p].armed /\ r.target = process[p].target
  BY <1>1 DEF ProcessRec, Steps, CommandSteps
<1>3. process' = [process EXCEPT ![p] = r] BY DEF Goes
<1> HIDE DEF r
<1>4. ~overlapped /\ kills = 0 => clone # "half"
  BY <1>1, CommandOrNot DEF CloneOK, OneCommand, CommandSteps
<1>5. CommandMay(p, r)
  BY <1>1, <1>2, <1>4 DEF CommandMay, CommandOK, Usable
<1> QED BY <1>1, <1>2, <1>3, <1>5, CommandGoesOn DEF CommandSteps

LEMMA PollKeeps ==
    ASSUME ControlInv, NEW p \in Pids, SeesExit(p) \/ GivesUp(p) PROVE ControlInv'
<1>1. /\ process[p].pc = "poll" /\ kills' \in 0..MaxKills
      /\ UNCHANGED <<pidFile, clone, launches, kills, overlapped>>
  BY Types DEF SeesExit, GivesUp, ControlInv
<1>2. CASE SeesExit(p)
  <2>1. ~overlapped => NoLoop
    BY <1>1, <1>2 DEF SeesExit, ControlInv, CommandOK, NoLoop, Exited, IsAlive,
       Looping, LoopSteps
  <2> QED BY <1>1, <1>2, <2>1, StepOnly DEF SeesExit
<1>3. CASE GivesUp(p)
  BY <1>1, <1>3, Ending DEF GivesUp
<1> QED BY <1>2, <1>3
\* The signal moves two processes: stop, and whoever has the PID by now.
LEMMA SendSigtermKeeps ==
    ASSUME ControlInv, NEW p \in Pids, SendSigterm(p) PROVE ControlInv'
<1> USE DEF ControlInv
<1> DEFINE w == [process[p] EXCEPT !.pc = "poll"]
<1>0. PICK q \in Pids : q = process[p].target
  BY DEF SendSigterm, KindsOK
<1>1. /\ process \in [Pids -> ProcessRec] /\ process[p] \in ProcessRec
      /\ process[p].pc = "signal" /\ q \in Pids /\ process[q] \in ProcessRec
      /\ kills \in 0..MaxKills /\ pidFile \in Pids \cup {NoPid, "torn"}
      /\ clone \in {"absent", "empty", "half", "whole", "local"}
      /\ UNCHANGED <<pidFile, clone, launches, kills, overlapped>>
  BY <1>0, Types DEF SendSigterm
<1>2. CASE q = p
  <2>1. Ends(p) BY <1>0, <1>1, <1>2 DEF SendSigterm, Ends
  <2> QED BY <1>1, <2>1, Ending
<1>3. CASE q # p
  <2>1. PICK r \in ProcessRec :
           /\ process' = [[process EXCEPT ![p] = w] EXCEPT ![q] = r]
           /\ \/ r = Gone
              \/ /\ Looping(q) /\ r.pc = process[q].pc /\ r.kind = process[q].kind
    <3> DEFINE f == [process[q] EXCEPT !.flag = TRUE]
    <3>1. f \in ProcessRec /\ f.pc = process[q].pc /\ f.kind = process[q].kind
      BY <1>1 DEF ProcessRec
    <3>2. process[q].armed => Looping(q) BY <1>1 DEF KindsOK
    <3>3. [process EXCEPT ![p].pc = "poll"] = [process EXCEPT ![p] = w]
      OBVIOUS
    <3>4. \/ process' = [[process EXCEPT ![p] = w] EXCEPT ![q] = Gone]
          \/ process[q].armed /\ process' = [[process EXCEPT ![p] = w] EXCEPT ![q] = f]
      BY <1>0, <1>3, <3>3 DEF SendSigterm, Signalled
    <3> HIDE DEF f, w
    <3> QED BY <3>1, <3>2, <3>4, GoneIsProcess
  <2>2. /\ w \in ProcessRec /\ w.pc = "poll" /\ w.kind = process[p].kind
        /\ w.armed = process[p].armed /\ w.target = q
    BY <1>0, <1>1 DEF ProcessRec, Steps, CommandSteps
  <2> HIDE DEF w
  <2>3. /\ process' \in [Pids -> ProcessRec] /\ process'[p] = w /\ process'[q] = r
        /\ \A x \in Pids \ {p, q} : process'[x] = process[x]
    BY <1>1, <1>3, <2>1, <2>2
  <2>4. ControlTypeOK'
    BY <1>1, <2>3, Types DEF ControlTypeOK, ProcessRec, Steps, LoopSteps, CommandSteps
  <2>5. KindsOK'
    <3>1. /\ w.kind \notin {"other", "none"} /\ ~w.armed
      BY <1>1, <2>2 DEF KindsOK, Looping, LoopSteps
    <3>2. CASE r = Gone
      BY <1>1, <2>2, <2>3, <3>1, <3>2 DEF KindsOK, Looping, Gone
    <3>3. CASE Looping(q) /\ r.pc = process[q].pc /\ r.kind = process[q].kind
      BY <1>1, <2>2, <2>3, <3>1, <3>3 DEF KindsOK, Looping, LoopSteps
    <3> QED BY <2>1, <3>2, <3>3
  <2>6. \A x \in Pids : Looping(x)' => Looping(x)
    BY <2>1, <2>2, <2>3 DEF Looping, LoopSteps, Gone
  <2>7. \A x \in Pids : InCommand(x)' => InCommand(x)
    <3>1. InCommand(p) BY <1>1, CommandOrNot DEF CommandSteps
    <3>2. CASE r = Gone
      <4>1. process'[q].pc = "gone" BY <2>3, <3>2 DEF Gone
      <4>2. ~InCommand(q)' BY <4>1 DEF InCommand, IsAlive
      <4>3. \A x \in Pids \ {p, q} : InCommand(x)' <=> InCommand(x)
        BY <2>3 DEF InCommand, IsAlive, Looping
      <4> QED BY <3>1, <4>2, <4>3
    <3>3. CASE Looping(q) /\ r.pc = process[q].pc /\ r.kind = process[q].kind
      <4>1. Looping(q)' BY <2>3, <3>3 DEF Looping
      <4>2. ~InCommand(q)' BY <4>1 DEF InCommand
      <4>3. \A x \in Pids \ {p, q} : InCommand(x)' <=> InCommand(x)
        BY <2>3 DEF InCommand, IsAlive, Looping
      <4> QED BY <3>1, <4>2, <4>3
    <3> QED BY <2>1, <3>2, <3>3
  <2>8. ~overlapped => \A x \in Pids \ {p} : process'[x].pc \notin CommandSteps
    <3>1. ~overlapped => \A x \in Pids \ {p} : process[x].pc \notin CommandSteps
      BY <1>1, CommandOrNot DEF OneCommand, CommandSteps
    <3> QED BY <2>1, <2>3, <3>1 DEF Looping, LoopSteps, CommandSteps, Gone
  <2>9. ASSUME ~overlapped' PROVE (OneCommand /\ CommandOK /\ FileOK)'
    <3>1. OneCommand' BY <1>1, <2>7, <2>9 DEF OneCommand
    <3>2. CommandOK'
      <4>1. \A x \in Pids : Looping(x) => x = q
        BY <1>0, <1>1, <2>9 DEF CommandOK
      <4> QED BY <1>1, <2>2, <2>3, <2>6, <2>8, <2>9, <4>1 DEF CommandOK, CommandSteps
    <3>3. FileOK' BY <1>1, <2>6, <2>9 DEF FileOK
    <3> QED BY <3>1, <3>2, <3>3
  <2>10. ASSUME ~overlapped', kills' = 0 PROVE CloneOK'
    <3>1. CloneOK /\ clone # "half"
      BY <1>1, <2>10, CommandOrNot DEF CloneOK, OneCommand, CommandSteps
    <3>2. \A x \in Pids : Looping(x)' => Usable'
      BY <1>1, <2>6, <3>1 DEF CloneOK, Looping, Usable
    <3> QED BY <1>1, <2>2, <2>3, <2>8, <2>10, <3>1, <3>2
            DEF CloneOK, Looping, CommandSteps
  <2> QED BY <2>4, <2>5, <2>9, <2>10
<1> QED BY <1>2, <1>3

LEMMA KillKeeps ==
    ASSUME ControlInv, NEW p \in Pids, Kill(p) \/ OtherEnds(p) PROVE ControlInv'
<1> USE DEF ControlInv
<1>1. kills \in 0..MaxKills /\ MaxKills \in Nat
  BY Types, PersonalControlAssumption
<1>2. CASE Kill(p)
  BY <1>1, <1>2, Ending DEF Kill
<1>3. CASE OtherEnds(p)
  <2>1. process[p].pc = "busy" BY <1>3 DEF OtherEnds, KindsOK
  <2> QED BY <1>1, <1>3, <2>1, Ending DEF OtherEnds
<1> QED BY <1>2, <1>3

LEMMA StutterKeeps ==
    ControlInv /\ UNCHANGED controlVars => ControlInv'
<1> SUFFICES ASSUME ControlInv, UNCHANGED controlVars PROVE ControlInv' OBVIOUS
<1> USE DEF controlVars
<1>1. ControlTypeOK' BY DEF ControlInv, ControlTypeOK
<1>2. KindsOK' BY DEF ControlInv, KindsOK, Looping
<1>3. OneCommand' = OneCommand BY DEF OneCommand, InCommand, IsAlive, Looping
<1>4. CommandOK' = CommandOK BY DEF CommandOK, NoLoop, Looping
<1>5. FileOK' = FileOK BY DEF FileOK, Looping
<1>6. CloneOK' = CloneOK BY DEF CloneOK, NoLoop, Looping, Usable
<1> QED BY <1>1, <1>2, <1>3, <1>4, <1>5, <1>6 DEF ControlInv

-----------------------------------------------------------------------------
\* The inductive invariant holds in every state the commands can reach.
THEOREM Invariant == ControlSpec => []ControlInv
<1>1. ControlInv /\ [ControlNext]_controlVars => ControlInv'
  <2> SUFFICES ASSUME ControlInv, ControlNext PROVE ControlInv'
    BY StutterKeeps
  <2>1. PICK p \in Pids :
           \/ \E c \in Commands : Launch(p, c)
           \/ Runs(p) \/ Arm(p) \/ Interrupt(p) \/ Kill(p) \/ OtherEnds(p)
    BY DEF ControlNext
  <2>2. CASE Runs(p)
    BY <2>2, OpenCloneKeeps, CloneBeginsKeeps, CloneEndsKeeps, CloneFailsKeeps,
       RunOnceKeeps, CheckKeeps, SweepKeeps, TruncateKeeps, WriteKeeps,
       RemoveKeeps, LoopKeeps, ReadKeeps, SendSigtermKeeps, PollKeeps DEF Runs
  <2> QED BY <2>1, <2>2, LaunchKeeps, LoopKeeps, InterruptKeeps, KillKeeps
<1> QED BY <1>1, InitOK, PTL DEF ControlSpec

\* Every variable of the commands and the daemon keeps its type.
THEOREM TypeCorrect == ControlSpec => []ControlTypeOK
<1>1. ControlInv => ControlTypeOK BY DEF ControlInv
<1> QED BY <1>1, Invariant, PTL

\* The PID file names every running daemon as long as commands are run one
\* after another, whatever is killed and whatever PIDs are given away again:
\* write_pid_file, is_running, stop_daemon and the clean-up of run_daemon.
THEOREM FileAlwaysNamesTheDaemon == ControlSpec => []FileNamesTheDaemon
<1>1. ControlInv => FileNamesTheDaemon
  BY DEF ControlInv, FileOK, FileNamesTheDaemon
<1> QED BY <1>1, Invariant, PTL

\* A daemon started by commands run one after another, none of them killed,
\* works on a whole clone or an import's repository: build_engine, cmd_import,
\* run_import and run_start.
THEOREM DaemonAlwaysHasARepository == ControlSpec => []DaemonHasARepository
<1>1. ControlInv => DaemonHasARepository
  BY DEF ControlInv, CloneOK, DaemonHasARepository, Usable, Looping
<1> QED BY <1>1, Invariant, PTL

=============================================================================
