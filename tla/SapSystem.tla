----------------------------- MODULE SapSystem -----------------------------
(***************************************************************************)
(* The accelerator as a whole: mode controller, control registers, cores   *)
(* and the host that configures and starts it, on one clock.               *)
(*                                                                         *)
(* Every cycle the machines of SafeFSM and the registers advance; which    *)
(* cores advance, what the application calls next, when a fault shows, and *)
(* what the host writes are the choices of the environment.                *)
(***************************************************************************)
EXTENDS SapCores

CONSTANTS
  Jobs,         \* what the host may launch: [cfg, master, mask]
  Modes,        \* the modes the application may activate
  Habits        \* what host and application do besides the templates

Job == [cfg : Config, master : Hart, mask : SUBSET Hart]
Habit == {"stops",      \* the host may clear START while the program runs
          "keeps",      \* the host leaves the last job's configuration in place
          "early",      \* the host writes Interrupt_Controler while the program runs
          "outsider"}   \* Safe_Stop may name a core outside the pair

ASSUME Environment ==
  Jobs \subseteq Job /\ Modes \subseteq Config /\ Habits \subseteq Habit

VARIABLE host         \* how far the host is with its next job

HostState == {"told", "ready", "set", "running"}

vars == <<fsmVars, ctrlVars, coreVars, host>>

-----------------------------------------------------------------------------
(* The application: calls of CB_Safety.c, end of main.                     *)

\* the next label, the arguments of the call, and DMR_Mask as the call leaves it
Call(l, c, m, k) == [to |-> l, mode |-> c, heir |-> m, mask |-> k]
Plain(l) == Call(l, SINGLE, master, mask)
Stay == Plain("main")

\* a pair is two cores, one of them the present master (DMR_Mask 011 110 101)
Pair(m) == {k \in SUBSET Hart : Cardinality(k) = 2 /\ m \in k}

Activations ==
  {Call("act_cfg", c, master, k) : c \in Modes \cap Dual, k \in Pair(master)} \cup
  {Call("act_cfg", c, master, mask) : c \in Modes \cap {TCLS}}

Heirs == IF cfg \in Dual /\ "outsider" \notin Habits THEN mask ELSE Hart
Stops == {Call("stop_crit", SINGLE, m, mask) : m \in Heirs}

\* Safe_Activate does nothing in a safe mode, Safe_Stop nothing outside one
Calls ==
  {Plain(l) : l \in {"main", "exit", "crit_in", "crit_out", "ckpt"}}
    \cup (IF cfg = SINGLE THEN Activations ELSE Stops)

CallsOf(S) == IF \E h \in S : Runs(h, "main") THEN Calls ELSE {Stay}

\* cores that share the bus are granted and stalled together
Movers(err) ==
  LET able == {h \in Hart : CanStep(h)} \ (HeldBack(err) \cup Starved)
  IN IF SingleBus /\ WfiDmr = {} THEN {{}, able} ELSE SUBSET able

-----------------------------------------------------------------------------
(* The host, over the register port: acknowledge the last job, configure   *)
(* the next one, start it, wait for the interrupt.                         *)

Acknowledge == [intEn |-> TRUE, intStat |-> FALSE]
Reset == [intEn |-> TRUE, intStat |-> FALSE, cfg |-> SINGLE]

HostWrites ==
  {NoWrite} \cup
  CASE host = "told"  -> {IF "keeps" \in Habits THEN Acknowledge ELSE Reset}
    [] host = "ready" -> Jobs
    [] host = "set"   -> {[start |-> TRUE]}
    [] host = "running" -> (IF "stops" \in Habits THEN {[start |-> FALSE]} ELSE {})
                             \cup (IF "early" \in Habits THEN {Acknowledge} ELSE {})

HostNext(w) ==
  IF w # NoWrite
  THEN CASE host = "told"  -> "ready"
         [] host = "ready" -> "set"
         [] OTHER          -> "running"
  ELSE IF host = "running" /\ interrupt THEN "told" ELSE host

-----------------------------------------------------------------------------
(* One clock cycle.  S: the cores that advance; call: what the application *)
(* does next; hw: the host's write; victims: the core that differs from    *)
(* the others on the bus in this cycle, if any.  One core at a time fails. *)

Strikable ==
  {h \in Checked : /\ pc[h] \in FaultPcs
                   /\ bad \subseteq {h}
                   /\ h \in DmrIn({"SYNC"}) => ctx \in FaultCtxs}

Tick(S, call, hw, victims) ==
  \E in \in {FsmIn(victims # {})}, cws \in {CoreWrites(S, call)} :
    /\ Cardinality(cws) + (IF hw = NoWrite THEN 0 ELSE 1) <= 1   \* one port
    /\ FsmTick(in)
    /\ \E w \in IF cws = {} THEN {hw} ELSE cws : CtrlTick(w, CtrlIn)
    /\ CoresTick(S, call, victims)
    /\ host' = HostNext(hw)

Next ==
  \E victims \in {{}} \cup {{h} : h \in Strikable} :
    \E S \in Movers(victims # {}) :
      \E call \in CallsOf(S), hw \in HostWrites : Tick(S, call, hw, victims)

Init ==
  /\ FsmInit
  /\ \E core0 \in Hart : CtrlInit(core0)
  /\ CoresInit
  /\ host = "told"

Spec == Init /\ [][Next]_vars

\* A cycle in which the bus serves every core that asks, no fault shows and
\* the host leaves the port alone.
Served == {h \in Hart : CanStep(h)} \ (HeldBack(FALSE) \cup Starved)
FreeTick == \E S \in {Served} : \E call \in CallsOf(S) : Tick(S, call, NoWrite, {})

FairSpec == Spec /\ WF_vars(FreeTick)

TypeOK ==
  /\ FsmTypeOK
  /\ CtrlTypeOK
  /\ CoresTypeOK
  /\ host \in HostState

-----------------------------------------------------------------------------
(* Safety.                                                                 *)

Program == {"main", "crit_in", "crit_out", "ckpt"}   \* the application's code
Busy    == {h \in Hart : pc[h] \notin Sleeping \cup Dead}
At(l)   == \E h \in Hart : pc[h] = l

Voted    == TmrIn({"BOOT", "SYNC", "SYNCINTC", "SWSYNC"})
Compared == DmrIn({"BOOT", "SYNC", "STOP", "INTC_RECOVERY", "RECOVERY"})

(* The protection a program runs under is the one its configuration names:  *)
(* all three cores voted in TCLS, exactly the masked pair compared in DCLS  *)
(* and LOCKSTEP, the master on its own bus in SINGLE.                       *)
RunsAsConfigured ==
  \A h \in Hart : pc[h] \in Program =>
    /\ cfg = TCLS => Voted = Hart
    /\ cfg \in Dual => h \in mask /\ Compared = mask
    /\ cfg = SINGLE => h = master /\ ~SingleBus

(* Cores whose requests are voted or compared are at the same instruction,  *)
(* however they came together: booted, halted in, interrupted or rolled back. *)
InStep == \A h, k \in Checked : pc[h] = pc[k]

(* Where cores have a bus each, at most one of them uses it: the bus cannot *)
(* serve two masters at a time (the comment at safe_FSM.sv:480).            *)
OneBusOwner == SingleBus \/ gen = "RESET" \/ Cardinality(Busy) <= 1

(* The sub-machines of the three modes, which never look at each other,     *)
(* are not active together.                                                 *)
ExclusiveModes ==
  /\ TmrVoting = {} \/ DualMode = {}
  /\ single \in {"START", "RUN"} => TmrVoting \cup DualMode = {}

(* When the host is interrupted the accelerator is at rest: no machine is   *)
(* active, START has fallen, no core will run again by itself.              *)
InterruptMeansDone ==
  interrupt =>
    /\ host = "running" /\ ~start
    /\ single = "IDLE" /\ TmrIn({"IDLE"}) = Hart /\ DmrIn({"IDLE"}) = Hart
    /\ \A h \in Hart : pc[h] \in {"rom_slp", "stop_slp", "exit_slp"}

(* A core that was seen to differ executes the program only while it is     *)
(* voted or compared: no mode switch makes it the single core before it was *)
(* repaired, in a critical section neither.                                 *)
UnrepairedIsChecked ==
  \A h \in bad : pc[h] \in Program => h \in TmrVoting \cup DualMode

(* The lockstep delay, kept by a flip-flop that only a rest in SINGLE       *)
(* clears, is on exactly while a LOCKSTEP program runs.                     *)
DelayIsLockstep ==
  (\E h \in Hart : pc[h] \in Program) => (Delayed(cfg) <=> cfg = LOCKSTEP)

(* No core resumes from an unwritten safe copy, enters the external         *)
(* debugger or falls out of the wfi of _exit.                               *)
NoneAstray == \A h \in Hart : pc[h] \notin Dead

Launching == single = "START" \/ TmrIn({"START"}) \cup DmrIn({"START"}) # {}

(* A launch, which restarts the program from its entry address, begins only *)
(* from rest and for a host that asked for it, never by a mode switch of a  *)
(* running program.                                                         *)
LaunchFromRest ==
  [][Launching' /\ ~Launching =>
       /\ host = "running"
       /\ \A h \in Hart : pc[h] \in {"rom_slp", "stop_slp", "exit_slp"}]_vars

(* Between the interrupt and the next START no core moves.                  *)
QuietUntilStart ==
  [][(host # "running" /\ gen \notin {"RESET", "BOOT"}) => pc' = pc]_vars

Rollback == DmrIn({"SYNC", "STOP", "INTC_RECOVERY", "RECOVERY"})
Resumes(h) == pc[h] = "restore" /\ pc'[h] = ctx /\ Rollback \cap bad' = {}

(* A difference within a pair leaves no trace: from the cycle in which it   *)
(* shows until both cores are repaired, through the look-up of the error,   *)
(* the isolation and the halt of each core, no register and no safe copy    *)
(* is written; the cores go nowhere but to the debug ROM and through        *)
(* halt_boot, and leave that repaired, both, at the checkpoint.             *)
DifferenceLeavesNoTrace ==
  [][Rollback \cap (bad \cup bad') # {} =>
       /\ UNCHANGED <<softVars, start, endSw, ctx>>
       /\ \A h \in Hart : pc'[h] = pc[h] \/ pc'[h] \in {"iso"} \cup Halted \/ Resumes(h)]_vars

-----------------------------------------------------------------------------
(* The job, as ProtectedJob sees it.                                       *)

\* the cores whose machines work, and those the configuration names
Engaged == {h \in Hart : tmr[h] # "IDLE" \/ dmr[h] # "IDLE"}
Named == CASE cfg = TCLS    -> Hart
           [] cfg \in Dual -> mask
           [] cfg = SINGLE  -> {master}

Repairing == TmrIn({"SYNCINTC", "SWSYNC"})
               \cup DmrIn({"STOP", "INTC_RECOVERY", "RECOVERY"}) # {}
Loading == single = "START" \/ TmrIn({"START", "BOOT"}) \cup DmrIn({"START", "BOOT"}) # {}
Settled == IF cfg = SINGLE THEN single = "RUN" /\ Engaged = {}
                           ELSE Checked # {} \/ Repairing

JobPhase ==
  IF interrupt THEN "done"
  ELSE IF gen = "RESET" \/ (single = "IDLE" /\ Engaged = {}) THEN "rest"
  ELSE IF Loading THEN "launch"
  ELSE IF Settled THEN "run" ELSE "switch"

NoJob == JobPhase \in {"rest", "done"}
JobTeam == IF NoJob THEN {} ELSE Engaged \cup Named
JobProtection == IF NoJob THEN SINGLE ELSE cfg
Executing == {h \in Hart : pc[h] \in Program}

J == INSTANCE ProtectedJob WITH
       phase <- JobPhase, protection <- JobProtection, team <- JobTeam,
       repairing <- Repairing, executing <- Executing

(* Through launches, mode switches, faults, repairs and ends, machines,     *)
(* registers and cores together keep the promises of ProtectedJob: the team *)
(* of a job is never lost, swapped or of the wrong size.                    *)
JobIsProtected == J!JobSpec

-----------------------------------------------------------------------------
(* Liveness, under FairSpec.                                               *)

(* START of a configured accelerator reaches main. *)
StartLaunches == StartEdge ~> At("main")

(* Safe_Activate returns, and in the mode it was asked for. *)
Activating(c) == \E h \in Hart : pc[h] = "act_cfg" /\ mode[h] = c
ActivateReturns ==
  \A c \in Modes :
    Activating(c) ~> (At("main") /\ cfg = c /\ Voted \cup Compared # {})

(* Safe_Stop returns, on one core. *)
StopReturns == At("stop_cfg") ~> (At("main") /\ cfg = SINGLE /\ single = "RUN")

(* The end of a program is always signalled to the host. *)
EndIsSignalled == EndEdge ~> interrupt

(* A core that differs outside a critical section is repaired or put to rest. *)
ErrorsAreRepaired ==
  (~crit /\ bad \cap Busy \cap Checked # {}) ~> (bad \cap Busy = {})

(* The external stop of a single-core program ends: the machine comes back  *)
(* to IDLE, from where it takes the next program.                           *)
ExternalStopEnds == single = "SYNC_OFF" ~> single = "IDLE"
=============================================================================
