----------------------------- MODULE SapStages -----------------------------
(***************************************************************************)
(* The stages of the accelerator: an inductive invariant of SapSystem.     *)
(*                                                                         *)
(* A state is described by its stage: where the machines of SafeFSM stand, *)
(* at which place of the code the cores that work together are, how far    *)
(* the host and the register block are with the job, and what the bits     *)
(* that outlive a cycle (delay, mismatch, errors, safe copy) hold there.   *)
(* The invariants of SapSystem follow from the stage, and every cycle      *)
(* leads from a stage to a stage.                                          *)
(***************************************************************************)
EXTENDS SapSystem

(* What SapSystem.cfg assumes of the environment: the templates of the     *)
(* host's and the application's code, jobs of the dual modes that name a   *)
(* pair with the master, and faults in the application's code once it has  *)
(* saved a checkpoint.  The runs that expect a violation show what a habit *)
(* or a fault beyond these breaks.                                         *)
Struck == {"main", "crit_in", "crit_out", "ckpt", "exit", "act_end",
           "stop_crit", "stop_mst", "stop_cfg"}

Templates ==
  /\ Habits = {}
  /\ \A j \in Jobs : j.cfg \in Dual => j.mask \in Pair(j.master)
  /\ FaultPcs \subseteq Struck
  /\ FaultCtxs \subseteq {"main"}

-----------------------------------------------------------------------------
(* Parts of a stage.                                                       *)

\* k: the mode of operation; the cores that work together in it
Team(k) == CASE k = "TMR_MODE" -> Hart
             [] k = "DMR_MODE" -> mask
             [] OTHER          -> {master}
Paired(k) == k = "DMR_MODE" => mask \in Pair(master)

\* the machine of the master is in x, those of the other cores of the team in y
Machines(g, s, k, x, y) ==
  /\ gen = g
  /\ single = s
  /\ tmr = [h \in Hart |-> IF k # "TMR_MODE" THEN "IDLE"
                           ELSE IF h = master THEN x ELSE y]
  /\ dmr = [h \in Hart |-> IF k # "DMR_MODE" \/ h \notin mask THEN "IDLE"
                           ELSE IF h = master THEN x ELSE y]

AllIdle(g, s) == Machines(g, s, "TMR_MODE", "IDLE", "IDLE")
AllIn(k, x)   == Machines(k, "IDLE", k, x, x)

Rest == {"rom_slp", "stop_slp", "exit_slp"}
AtRest(G)  == \A h \in G : pc[h] \in Rest /\ ~intcAck[h]
AllAt(G, l)   == \A h \in G : pc[h] = l /\ ~intcAck[h]
\* in a handler that returns to r; acknowledged or not
Handles(G, l, ack, r) == \A h \in G : pc[h] = l /\ intcAck[h] = ack /\ ret[h] = r

(* START and END_SW_ROUTINE with their edges, the interrupt with its flags. *)
Life(st, stFf, stFlag, es, esFf) ==
  /\ start = st /\ startFf = stFf /\ startFlag = stFlag
  /\ endSw = es /\ endFf = esFf
Intr(en, st, irq, flag) ==
  intEn = en /\ intStat = st /\ interrupt = irq /\ flagIntc = flag

Quiet == Intr(TRUE, FALSE, FALSE, FALSE)
\* e: there was a job before, the end of which is still in the registers
Fresh(e) ==
  \/ host = "told" /\ Life(FALSE, FALSE, FALSE, e, e) /\ Intr(e, e, FALSE, e)
  \/ host = "ready" /\ Life(FALSE, FALSE, FALSE, e, e)
       /\ intEn /\ ~intStat /\ ~interrupt /\ (flagIntc => e)
  \/ host = "set" /\ Life(FALSE, FALSE, FALSE, e, e) /\ Quiet
  \/ host = "running" /\ Life(TRUE, FALSE, FALSE, e, e) /\ Quiet
Raised(e)  == host = "running" /\ Life(TRUE, TRUE, TRUE, e, e) /\ Quiet
Falling(e) == host = "running" /\ Life(TRUE, TRUE, FALSE, FALSE, e) /\ Quiet
Running    == Falling(FALSE)
\* from the store to END_SW_ROUTINE to the interrupt
Ended    == host = "running" /\ Life(TRUE, TRUE, FALSE, TRUE, FALSE) /\ Quiet
Counted  == /\ host = "running"
            /\ \E f \in BOOLEAN : Life(FALSE, f, FALSE, TRUE, TRUE)
            /\ Intr(TRUE, TRUE, FALSE, FALSE)
Signalled == /\ host = "running" /\ Life(FALSE, FALSE, FALSE, TRUE, TRUE)
             /\ Intr(TRUE, TRUE, TRUE, TRUE)

LifeAt(v) == CASE v = "exit_wfi" -> Ended \/ Counted
               [] v = "exit_slp" -> Counted
               [] OTHER          -> Running

Code  == {"main", "crit_in", "crit_out", "ckpt", "exit", "exit_wfi", "exit_slp"}
Stop  == {"stop_crit", "stop_mst", "stop_cfg", "stop_wfi", "stop_slp"}
Left  == {"stop_wfi", "stop_slp"}      \* the configuration already says SINGLE
Moved == {"stop_cfg"} \cup Left        \* the master register already is the heir's

(* The team executes Safe_Stop, the application or the end of Safe_Activate *)
(* at v; cfg is the configuration of the program.                           *)
Executes(k, v) ==
  /\ Paired(k)
  /\ LifeAt(v)
  /\ IF v \in Left THEN cfg = SINGLE ELSE ModeOf(cfg) = k
  /\ v \in Moved \cup {"stop_mst"} => ~crit
  /\ v \notin Moved => masterFf = master
  /\ v \in {"stop_crit", "stop_mst"} =>
       \A h \in Team(k) : heir[h] = heir[master] /\ heir[h] \in Team(k)

\* the state every joining, starting or parting stage shares
Working(k) ==
  /\ Paired(k)
  /\ masterFf = master
  /\ ~diff
DelayFor == delayFf => cfg = LOCKSTEP

-----------------------------------------------------------------------------
(* Reset and rest.                                                         *)

Resetting ==
  /\ gen = "RESET" /\ single = "RESET"
  /\ tmr = [h \in Hart |-> "RESET"] /\ dmr = [h \in Hart |-> "RESET"]
  /\ AllAt(Hart, "rom")
  /\ Fresh(FALSE) /\ host = "told" /\ cfg = SINGLE
  /\ bad = {} /\ ~diff /\ ~delayFf

Configured == cfg \in Dual => mask \in Pair(master)

Booting ==
  /\ AllIdle("BOOT", "IDLE")
  /\ \A h \in Hart : pc[h] \in {"rom", "rom_slp"} /\ ~intcAck[h]
  /\ Fresh(FALSE) \/ Raised(FALSE) \/ Running
  /\ host = "ready" => cfg = SINGLE
  /\ host \in {"set", "running"} => Configured
  /\ ~diff /\ ~delayFf

Idling ==
  /\ AllIdle("IDLE", "IDLE")
  /\ AtRest(Hart)
  /\ Fresh(FALSE) \/ Fresh(TRUE) \/ Raised(FALSE) \/ Running
  /\ host = "ready" => cfg = SINGLE
  /\ host \in {"set", "running"} => Configured /\ ~delayFf
  /\ host = "running" => masterFf = master
  /\ ~diff

Ready ==
  /\ AllIdle(ModeOf(cfg), "IDLE")
  /\ AtRest(Hart)
  /\ \E e \in BOOLEAN : Raised(e) \/ Falling(e)
  /\ Configured /\ ~delayFf /\ masterFf = master /\ ~diff

Finished ==
  /\ \E g \in {"SINGLE_MODE", "TMR_MODE", "DMR_MODE"} : AllIdle(g, "IDLE")
  /\ AtRest(Hart)
  /\ Signalled
  /\ ~diff

-----------------------------------------------------------------------------
(* One core.                                                               *)

OthersRest == AtRest(Hart \ {master})
Alone == masterFf = master /\ ~delayFf /\ ~diff /\ OthersRest

SingleStarting ==
  /\ AllIdle("SINGLE_MODE", "START")
  /\ cfg = SINGLE /\ dbgReq = "boot" /\ Running /\ Alone
  /\ pc[master] \in Rest \cup {"dbg"} /\ ~intcAck[master]

\* the place in the program; in a handler, the one it returns to
SingleAt(v) ==
  /\ Executes("SINGLE_MODE", v)
  /\ \/ AllAt({master}, v)
     \/ v = "main" /\ \/ Handles({master}, "hdl_clr", TRUE, v)
                      \/ Handles({master}, "hdl_ret", FALSE, v)
  /\ v # "dbg" => master \notin bad
  /\ v = "act_cfg" =>
       /\ mode[master] # SINGLE
       /\ mode[master] \in Dual => mask \in Pair(master)

SingleRunning ==
  /\ AllIdle("SINGLE_MODE", "RUN")
  /\ dbgReq = "boot" /\ Alone
  /\ \E v \in Code \cup {"dbg", "act_cfg"} : SingleAt(v)

\* Safe_Activate has written the configuration; the machines have not seen it
SingleLeaving ==
  /\ AllIdle("SINGLE_MODE", "RUN")
  /\ cfg # SINGLE /\ Configured /\ Running /\ Alone
  /\ AllAt({master}, "act_save") /\ master \notin bad

-----------------------------------------------------------------------------
(* Launch of a team, and its meeting around a running master.              *)

Starting(k) ==
  /\ AllIn(k, "START") /\ ModeOf(cfg) = k /\ Working(k) /\ DelayFor
  /\ \E e \in BOOLEAN : Falling(e)
  /\ \/ AtRest(Team(k))
     \/ AllAt(Team(k), "dbg") /\ dbgReq = "boot" /\ Running
  /\ AtRest(Hart \ Team(k))

Entering(k) ==
  /\ AllIn(k, "BOOT") /\ ModeOf(cfg) = k /\ Working(k) /\ DelayFor
  /\ Running
  /\ \/ AllAt(Team(k), "dbg") /\ dbgReq = "boot"
     \/ AllAt(Team(k), "main") /\ bad \cap Team(k) = {}
  /\ AtRest(Hart \ Team(k))

Switch(k) == IF k = "TMR_MODE" THEN "TO_TMR" ELSE "TO_DMR"

Meeting(k) ==
  ModeOf(cfg) = k /\ Working(k) /\ ~delayFf /\ Running /\ master \notin bad

\* the master saves its context, asks for the switch and sleeps
Saving(k) ==
  /\ Machines(k, Switch(k), k, "IDLE", "IDLE") /\ Meeting(k) /\ OthersRest
  /\ \E l \in {"act_save", "act_sync", "act_pc", "act_wfi", "act_slp"} :
       AllAt({master}, l) /\ (l \in {"act_wfi", "act_slp"} => ctx = "act_pc")

Waits == AllAt({master}, "act_slp") /\ ctx = "act_pc"
Peers(k) == Team(k) \ {master}

Asking(k) ==
  /\ Machines(k, Switch(k), k, "SH_HALT", "IDLE") /\ Meeting(k) /\ OthersRest
  /\ Waits

Calling(k) ==
  /\ Machines(k, Switch(k), k, "SH_HALT", "SH_HALT") /\ Meeting(k) /\ OthersRest
  /\ Waits

Halting(k) ==
  /\ AllIn(k, "SH_HALT") /\ Meeting(k) /\ AtRest(Hart \ Team(k))
  /\ Waits /\ dbgReq = "halt"
  /\ AtRest(Peers(k)) \/ AllAt(Peers(k), "dbg")

Restoring(k) ==
  /\ AllIn(k, "WAIT_SH") /\ Meeting(k) /\ AtRest(Hart \ Team(k))
  /\ Waits /\ dbgReq = "halt"
  /\ \E l \in {"dbg", "restore", "act_pc", "act_wfi", "act_slp"} :
       AllAt(Peers(k), l) /\ (l \notin Halted => bad \cap Team(k) = {})

Syncing(k) ==
  /\ AllIn(k, "MS_INTRSYNC") /\ ModeOf(cfg) = k /\ Working(k) /\ DelayFor
  /\ Running /\ bad \cap Team(k) = {} /\ AtRest(Hart \ Team(k))
  /\ \/ AllAt(Team(k), "act_slp")
     \/ Handles(Team(k), "hdl_ack", FALSE, "act_end")
     \/ Handles(Team(k), "hdl_clr", TRUE, "act_end")

-----------------------------------------------------------------------------
(* Three voted cores.                                                      *)

VotingAt(v) ==
  /\ Executes("TMR_MODE", v)
  /\ \/ AllAt(Hart, v)
     \/ v = "act_end" /\ \/ Handles(Hart, "hdl_clr", TRUE, v)
                         \/ Handles(Hart, "hdl_ret", FALSE, v)
     \/ v \notin Sleeping /\ bad = {} /\ Handles(Hart, "rs_ret", FALSE, v)
  /\ errSeen <=> bad # {}
  /\ errFf => errSeen
  /\ bad # {} => crit \/ v \in {"main", "stop_mst"}

Voting ==
  /\ AllIn("TMR_MODE", "SYNC") /\ ~delayFf /\ ~diff
  /\ \E v \in Code \cup Stop \cup {"act_end"} : VotingAt(v)

ResyncingAt(x, v) ==
  /\ Executes("TMR_MODE", v)
  /\ \/ x = "SYNCINTC" /\ (AllAt(Hart, v) \/ Handles(Hart, "rs_ack", FALSE, v))
     \/ Handles(Hart, "rs_clr", TRUE, v)
     \/ x = "SWSYNC" /\ Handles(Hart, "rs_ret", FALSE, v) /\ bad = {}

Resyncing(x) ==
  /\ AllIn("TMR_MODE", x) /\ ~delayFf /\ ~diff
  /\ \E v \in Struck \cup {"exit_wfi", "stop_wfi"} : ResyncingAt(x, v)

-----------------------------------------------------------------------------
(* Two compared cores.                                                     *)

ComparingAt(v) ==
  /\ Executes("DMR_MODE", v)
  /\ \/ AllAt(mask, v)
     \/ v = "act_end" /\ ~diff /\ \/ Handles(mask, "hdl_clr", TRUE, v)
                                  \/ Handles(mask, "hdl_ret", FALSE, v)
  /\ IF diff THEN v = "stop_cfg" /\ masterFf # master ELSE bad \cap mask = {}

Comparing ==
  /\ AllIn("DMR_MODE", "SYNC") /\ AtRest(Hart \ mask)
  /\ cfg # SINGLE => DelayFor
  /\ \E v \in Code \cup Stop \cup {"act_end"} : ComparingAt(v)

Isolating ==
  /\ AllIn("DMR_MODE", "STOP") /\ AtRest(Hart \ mask)
  /\ cfg \in Dual /\ mask \in Pair(master) /\ masterFf = master
  /\ Running /\ ctx = "main" /\ (delayFf <=> cfg = LOCKSTEP)
  /\ \A h \in mask : pc[h] \in Struck \cup {"iso"} /\ ~intcAck[h]

Recovering(x) ==
  /\ AllIn("DMR_MODE", x) /\ AtRest(Hart \ mask)
  /\ cfg \in Dual /\ Working("DMR_MODE") /\ DelayFor
  /\ Running /\ ctx = "main" /\ dbgReq = "halt"
  /\ \/ x = "INTC_RECOVERY" /\ AllAt(mask, "iso")
     \/ AllAt(mask, "dbg")
     \/ x = "RECOVERY" /\ \/ AllAt(mask, "restore")
                          \/ AllAt(mask, "main") /\ bad \cap mask = {}

-----------------------------------------------------------------------------
(* Back to one core: the heir is woken, the others sleep on.               *)

Parting(k) ==
  cfg = SINGLE /\ Working(k) /\ ~delayFf /\ Running /\ master \notin bad /\ OthersRest

Parted(k) ==
  AllIn(k, "END_SYNC") /\ Parting(k) /\ AllAt(Team(k), "stop_slp")

Woken == AllAt({master}, "stop_slp") \/ Handles({master}, "hdl_ack", FALSE, "main")

Waking(k) ==
  /\ Machines("SINGLE_MODE", "IDLE", k, "END_SYNC", "IDLE") /\ Parting(k)
  /\ Woken

Returning(k) ==
  /\ Machines("SINGLE_MODE", "RUN", k, "END_SYNC", "IDLE") /\ Parting(k)
  /\ dbgReq = "boot"
  /\ Woken \/ Handles({master}, "hdl_clr", TRUE, "main")

-----------------------------------------------------------------------------
Stage(k) ==
  \/ Starting(k) \/ Entering(k)
  \/ Saving(k) \/ Asking(k) \/ Calling(k) \/ Halting(k) \/ Restoring(k) \/ Syncing(k)
  \/ Parted(k) \/ Waking(k) \/ Returning(k)

(* The state is in one of the stages: the nine machines of safe_FSM, the    *)
(* place of every core in ROM, library or program, the START/END registers *)
(* and what delay, mismatch, errors and safe copy remember always go       *)
(* together as one stage of a job says.                                    *)
Staged ==
  \/ Resetting \/ Booting \/ Idling \/ Ready \/ Finished
  \/ SingleStarting \/ SingleRunning \/ SingleLeaving
  \/ Voting \/ Comparing \/ Isolating
  \/ \E k \in {"TMR_MODE", "DMR_MODE"} : Stage(k)
  \/ \E x \in {"SYNCINTC", "SWSYNC"} : Resyncing(x)
  \/ \E x \in {"INTC_RECOVERY", "RECOVERY"} : Recovering(x)
=============================================================================
