-------------------------- MODULE SapStages_proofs --------------------------
(***************************************************************************)
(* Under the templates every cycle leads from a stage to a stage, and the  *)
(* invariants of SapSystem hold in every stage.                            *)
(***************************************************************************)
EXTENDS SapStages, SapSystem_proofs, FiniteSetTheorems

Kinds == {"TMR_MODE", "DMR_MODE"}
Modal == {"SINGLE_MODE", "TMR_MODE", "DMR_MODE"}

-----------------------------------------------------------------------------
(* Three harts, and pairs of them.                                         *)

LEMMA HartsFinite ==
  ASSUME NEW A, A \subseteq Hart
  PROVE  IsFiniteSet(A) /\ Cardinality(A) \in Nat /\ Cardinality(A) <= 3
<1>1. IsFiniteSet(A) /\ Cardinality(A) <= Cardinality(Hart)
  BY ThreeHarts, FS_Subset
<1>2. QED
  BY <1>1, ThreeHarts, FS_CardinalityType

(* All but one of the three harts are two.                                 *)
LEMMA TwoOthers ==
  ASSUME NEW m \in Hart
  PROVE  Cardinality(Hart \ {m}) = 2 /\ Hart \ {m} # {}
<1>1. Cardinality(Hart \ {m}) = 2
  BY ThreeHarts, FS_RemoveElement
<1>2. QED
  BY <1>1, FS_EmptySet

LEMMA FewerThanTwo ==
  ASSUME NEW m
  PROVE  Cardinality({}) = 0 /\ Cardinality({m}) = 1
BY FS_EmptySet, FS_Singleton

(* A pair is the core it is named after and one other. *)
LEMMA PairOfTwo ==
  ASSUME NEW m \in Hart, NEW p \in Pair(m)
  PROVE  \E q \in Hart : q # m /\ p = {m, q}
<1>1. p \subseteq Hart /\ m \in p /\ Cardinality(p) = 2 /\ IsFiniteSet(p)
  BY HartsFinite DEF Pair
<1>2. IsFiniteSet(p \ {m}) /\ Cardinality(p \ {m}) = 1
  BY <1>1, FS_RemoveElement
<1>3. p \ {m} # {}
  BY <1>2, FS_EmptySet
<1>4. PICK q : q \in p \ {m}
  BY <1>3
<1>5. Cardinality((p \ {m}) \ {q}) = 0
  BY <1>2, <1>4, FS_RemoveElement
<1>6. (p \ {m}) \ {q} = {}
  BY <1>5, <1>2, FS_EmptySet, FS_Subset
<1>7. QED
  BY <1>1, <1>4, <1>6

-----------------------------------------------------------------------------
(* A cycle, flattened.                                                     *)

Cycle(S, call, victims, w) ==
  /\ FsmTick(FsmIn(victims # {}))
  /\ CtrlTick(w, CtrlIn)
  /\ CoresTick(S, call, victims)

\* a cycle of a running program: the host only waits for the interrupt
Works(S, call, victims, w) ==
  /\ S \in Movers(victims # {})
  /\ call \in CallsOf(S)
  /\ victims \in {{}} \cup {{h} : h \in Strikable}
  /\ IF CoreWrites(S, call) = {} THEN w = NoWrite ELSE w \in CoreWrites(S, call)
  /\ Cycle(S, call, victims, w)
  /\ host' = IF interrupt THEN "told" ELSE "running"

LEMMA NextWorks ==
  ASSUME Templates, host = "running", Next
  PROVE  \E S, call, victims, w : Works(S, call, victims, w)
<1>1. PICK victims \in {{}} \cup {{k} : k \in Strikable} :
        \E S \in Movers(victims # {}) :
          \E call \in CallsOf(S), hw \in HostWrites : Tick(S, call, hw, victims)
  BY DEF Next
<1>2. PICK S \in Movers(victims # {}) :
        \E call \in CallsOf(S), hw \in HostWrites : Tick(S, call, hw, victims)
  BY <1>1
<1>3. PICK call \in CallsOf(S), hw \in HostWrites : Tick(S, call, hw, victims)
  BY <1>2
<1>4. hw = NoWrite
  BY Zenon DEF HostWrites, Templates
<1>5. PICK w \in IF CoreWrites(S, call) = {} THEN {hw} ELSE CoreWrites(S, call) :
        Cycle(S, call, victims, w)
  BY <1>3 DEF Tick, Cycle
<1>6. host' = IF interrupt THEN "told" ELSE "running"
  BY <1>3, <1>4, Zenon DEF Tick, HostNext
<1>7. IF CoreWrites(S, call) = {} THEN w = NoWrite ELSE w \in CoreWrites(S, call)
  BY <1>4, <1>5
<1>8. Works(S, call, victims, w)
  BY <1>1, <1>2, <1>3, <1>5, <1>6, <1>7 DEF Works
<1>9. QED
  BY <1>8

-----------------------------------------------------------------------------
(* The register block: what each write leaves, and the life of a job.      *)

\* the registers that follow the edges when no core or host writes them
LifeKept(est) ==
  /\ start' = (start /\ ~EndEdge) /\ endSw' = est
  /\ startFf' = start /\ startFlag' = StartEdge /\ endFf' = endSw
IntrKept(asleep) ==
  /\ intEn' = intEn /\ intStat' = (intStat \/ EndEdge)
  /\ interrupt' = (intStat /\ LoadInterrupt(asleep))
  /\ flagIntc' = (intStat /\ (flagIntc \/ LoadInterrupt(asleep)))
EndKept == endSw /\ ~startFlag

DebugNext == dbgReq' = DebugWord(StartBoot, EnExtDebug)

LEMMA TickNoWrite ==
  ASSUME CtrlTick(NoWrite, CtrlIn)
  PROVE  /\ UNCHANGED softVars /\ DebugNext
         /\ LifeKept(EndKept) /\ IntrKept(Asleep = Hart)
BY DEF CtrlTick, CtrlIn, LifeTick, InterruptTick, NoWrite, Written, StartNext, EndSwNext,
       IntStatNext, softVars, DebugNext, LifeKept, IntrKept, EndKept

LEMMA TickCfg ==
  ASSUME NEW c, CtrlTick([cfg |-> c], CtrlIn)
  PROVE  /\ cfg' = c /\ UNCHANGED <<mask, master, crit, initSync>> /\ DebugNext
         /\ LifeKept(EndKept) /\ IntrKept(Asleep = Hart)
BY DEF CtrlTick, CtrlIn, LifeTick, InterruptTick, Written, StartNext, EndSwNext,
       IntStatNext, DebugNext, LifeKept, IntrKept, EndKept

LEMMA TickMask ==
  ASSUME NEW c, CtrlTick([mask |-> c], CtrlIn)
  PROVE  /\ mask' = c /\ UNCHANGED <<cfg, master, crit, initSync>> /\ DebugNext
         /\ LifeKept(EndKept) /\ IntrKept(Asleep = Hart)
BY DEF CtrlTick, CtrlIn, LifeTick, InterruptTick, Written, StartNext, EndSwNext,
       IntStatNext, DebugNext, LifeKept, IntrKept, EndKept

LEMMA TickMaster ==
  ASSUME NEW c, CtrlTick([master |-> c], CtrlIn)
  PROVE  /\ master' = c /\ UNCHANGED <<cfg, mask, crit, initSync>> /\ DebugNext
         /\ LifeKept(EndKept) /\ IntrKept(Asleep = Hart)
BY DEF CtrlTick, CtrlIn, LifeTick, InterruptTick, Written, StartNext, EndSwNext,
       IntStatNext, DebugNext, LifeKept, IntrKept, EndKept

LEMMA TickCrit ==
  ASSUME NEW c, CtrlTick([crit |-> c], CtrlIn)
  PROVE  /\ crit' = c /\ UNCHANGED <<cfg, mask, master, initSync>> /\ DebugNext
         /\ LifeKept(EndKept) /\ IntrKept(Asleep = Hart)
BY DEF CtrlTick, CtrlIn, LifeTick, InterruptTick, Written, StartNext, EndSwNext,
       IntStatNext, DebugNext, LifeKept, IntrKept, EndKept

LEMMA TickInitSync ==
  ASSUME NEW c, CtrlTick([initSync |-> c], CtrlIn)
  PROVE  /\ UNCHANGED <<cfg, mask, master, crit>> /\ DebugNext
         /\ LifeKept(EndKept) /\ IntrKept(Asleep = Hart)
BY DEF CtrlTick, CtrlIn, LifeTick, InterruptTick, Written, StartNext, EndSwNext,
       IntStatNext, DebugNext, LifeKept, IntrKept, EndKept

LEMMA TickEndSw ==
  ASSUME CtrlTick([endSw |-> TRUE], CtrlIn)
  PROVE  /\ UNCHANGED softVars /\ DebugNext
         /\ LifeKept(TRUE) /\ IntrKept(Asleep = Hart)
BY DEF CtrlTick, CtrlIn, LifeTick, InterruptTick, Written, StartNext, EndSwNext,
       IntStatNext, softVars, DebugNext, LifeKept, IntrKept, EndKept

(* The life of a job, register by register. *)
LEMMA LifeRaised ==
  ASSUME NEW e \in BOOLEAN, Raised(e), LifeKept(EndKept), NEW a, IntrKept(a),
         host' = IF interrupt THEN "told" ELSE "running"
  PROVE  Falling(e)'
BY DEF Raised, Falling, Life, Intr, Quiet, LifeKept, IntrKept, EndKept, EndEdge, StartEdge,
       LoadInterrupt

LEMMA LifeFalling ==
  ASSUME NEW e \in BOOLEAN, Falling(e), LifeKept(EndKept), NEW a, IntrKept(a),
         host' = IF interrupt THEN "told" ELSE "running"
  PROVE  Running'
BY DEF Running, Falling, Life, Intr, Quiet, LifeKept, IntrKept, EndKept, EndEdge, StartEdge,
       LoadInterrupt

LEMMA LifeEnds ==
  ASSUME Running, LifeKept(TRUE), NEW a, IntrKept(a),
         host' = IF interrupt THEN "told" ELSE "running"
  PROVE  Ended'
BY DEF Running, Ended, Falling, Life, Intr, Quiet, LifeKept, IntrKept, EndKept, EndEdge,
       StartEdge, LoadInterrupt

LEMMA LifeCounts ==
  ASSUME Ended, LifeKept(EndKept), NEW a, IntrKept(a),
         host' = IF interrupt THEN "told" ELSE "running"
  PROVE  Counted'
BY DEF Ended, Counted, Life, Intr, Quiet, LifeKept, IntrKept, EndKept, EndEdge,
       StartEdge, LoadInterrupt

LEMMA LifeCounted ==
  ASSUME Counted, LifeKept(EndKept), NEW a \in BOOLEAN, IntrKept(a),
         host' = IF interrupt THEN "told" ELSE "running"
  PROVE  IF a THEN Signalled' ELSE Counted'
BY DEF Signalled, Counted, Life, Intr, Quiet, LifeKept, IntrKept, EndKept, EndEdge,
       StartEdge, LoadInterrupt

-----------------------------------------------------------------------------
(* The cores.                                                              *)

(* A core that does not advance keeps its state. *)
LEMMA Unmoved ==
  ASSUME NEW S, NEW call, NEW victims, CoresTick(S, call, victims),
         NEW h \in Hart, h \notin S
  PROVE  /\ pc'[h] = pc[h] /\ intcAck'[h] = intcAck[h] /\ ret'[h] = ret[h]
         /\ mode'[h] = mode[h] /\ heir'[h] = heir[h]
BY DEF CoresTick

(* The write of the cycle is the one of a core that advances, if any does. *)
LEMMA WriteIs ==
  ASSUME NEW S, NEW call, NEW victims, NEW w, Works(S, call, victims, w)
  PROVE  /\ S = {} => w = NoWrite
         /\ S # {} => \E h \in S : w = WriteOf(h, call)
         /\ (\A h \in S : WriteOf(h, call) = NoWrite) => w = NoWrite
BY DEF Works, CoreWrites

(* No fault shows where nothing is voted or compared. *)
LEMMA NoVictims ==
  ASSUME NEW S, NEW call, NEW victims, NEW w, Works(S, call, victims, w), Checked = {}
  PROVE  victims = {}
BY DEF Works, Strikable

(* Cores that are not halted, interrupted or cut off run their code.       *)
Free == /\ InterruptHalt(master) = {} /\ InterruptSync(master) = {}
        /\ InterruptSwResync = {} /\ WfiDmr = {}

LEMMA FreeCore ==
  ASSUME Free, NEW h
  PROVE  /\ ~TakesDebug(h) /\ ~TakesIrq(h) /\ h \notin WfiDmr
         /\ CanStep(h) <=> pc[h] \notin Sleeping \cup Dead
         /\ \A l : Runs(h, l) <=> pc[h] = l
BY DEF Free, TakesDebug, TakesIrq, CanStep, Runs, DebugReq, Irq

LEMMA FreeAsleep ==
  ASSUME Free
  PROVE  Asleep = {h \in Hart : pc[h] \in Sleeping}
BY DEF Free, Asleep, DebugReq, Irq

(* What a free core does at its label. *)
LEMMA FreeStep ==
  ASSUME Free, NEW S, NEW call, NEW victims, CoresTick(S, call, victims),
         NEW h \in Hart, h \in S
  PROVE  /\ pc'[h] = CASE pc[h] = "main" -> call.to
                       [] pc[h] = "dbg" -> DebugEntry
                       [] pc[h] = "restore" -> Restored
                       [] pc[h] \in {"hdl_ret", "rs_ret"} -> ret[h]
                       [] OTHER -> Follow[pc[h]]
         /\ intcAck'[h] = IF pc[h] \in {"hdl_ack", "rs_ack"} THEN TRUE
                          ELSE IF pc[h] \in {"hdl_clr", "rs_clr", "act_end"} THEN FALSE
                          ELSE intcAck[h]
         /\ pc[h] \notin {"hdl_ret", "rs_ret", "restore", "dbg"} => ret'[h] = ret[h]
         /\ pc[h] = "main" => mode'[h] = call.mode
         /\ pc[h] = "main" /\ call.to = "stop_crit" => heir'[h] = call.heir
         /\ pc[h] \notin {"main", "stop_mst", "dbg", "restore"} => heir'[h] = heir[h]
<1>1. ~TakesDebug(h) /\ ~TakesIrq(h) /\ h \notin WfiDmr /\ \A l : Runs(h, l) <=> pc[h] = l
  BY FreeCore
<1>2. pc'[h] = PcNext(h, call) /\ intcAck'[h] = AckNext(h) /\ ret'[h] = RetNext(h)
      /\ mode'[h] = ModeNext(h, call) /\ heir'[h] = HeirNext(h, call)
  BY DEF CoresTick
<1>3. PcNext(h, call) = CASE pc[h] = "main" -> call.to
                          [] pc[h] = "dbg" -> DebugEntry
                          [] pc[h] = "restore" -> Restored
                          [] pc[h] \in {"hdl_ret", "rs_ret"} -> ret[h]
                          [] OTHER -> Follow[pc[h]]
  BY <1>1, Zenon DEF PcNext
<1>4. AckNext(h) = IF pc[h] \in {"hdl_ack", "rs_ack"} THEN TRUE
                   ELSE IF pc[h] \in {"hdl_clr", "rs_clr", "act_end"} THEN FALSE
                   ELSE intcAck[h]
  BY <1>1 DEF AckNext
<1>5. pc[h] \notin {"hdl_ret", "rs_ret", "restore", "dbg"} => RetNext(h) = ret[h]
  BY <1>1 DEF RetNext, Reloads
<1>6. pc[h] = "main" => ModeNext(h, call) = call.mode
  BY <1>1 DEF ModeNext, Reloads
<1>7. /\ pc[h] = "main" /\ call.to = "stop_crit" => HeirNext(h, call) = call.heir
      /\ pc[h] \notin {"main", "stop_mst", "dbg", "restore"} => HeirNext(h, call) = heir[h]
  BY <1>1 DEF HeirNext, Reloads
<1>8. QED
  <2>1. pc'[h] = CASE pc[h] = "main" -> call.to
                   [] pc[h] = "dbg" -> DebugEntry
                   [] pc[h] = "restore" -> Restored
                   [] pc[h] \in {"hdl_ret", "rs_ret"} -> ret[h]
                   [] OTHER -> Follow[pc[h]]
    BY <1>2, <1>3, Zenon
  <2>2. intcAck'[h] = IF pc[h] \in {"hdl_ack", "rs_ack"} THEN TRUE
                      ELSE IF pc[h] \in {"hdl_clr", "rs_clr", "act_end"} THEN FALSE
                      ELSE intcAck[h]
    BY <1>2, <1>4, Zenon
  <2>3. QED
    BY <1>2, <1>5, <1>6, <1>7, <2>1, <2>2

LEMMA FreeWrite ==
  ASSUME Free, NEW h, NEW call
  PROVE  /\ pc[h] = "act_cfg" => WriteOf(h, call) = [cfg |-> mode[h]]
         /\ pc[h] = "act_sync" => WriteOf(h, call) = [initSync |-> TRUE]
         /\ pc[h] = "act_end" => WriteOf(h, call) = [initSync |-> FALSE]
         /\ pc[h] = "stop_crit" => WriteOf(h, call) = [crit |-> FALSE]
         /\ pc[h] = "stop_mst" => WriteOf(h, call) = [master |-> heir[h]]
         /\ pc[h] = "stop_cfg" => WriteOf(h, call) = [cfg |-> SINGLE]
         /\ pc[h] = "exit" => WriteOf(h, call) = [endSw |-> TRUE]
         /\ pc[h] = "crit_in" => WriteOf(h, call) = [crit |-> TRUE]
         /\ pc[h] = "crit_out" => WriteOf(h, call) = [crit |-> FALSE]
         /\ pc[h] = "main" /\ call.mask # mask => WriteOf(h, call) = [mask |-> call.mask]
         /\ pc[h] = "main" /\ call.mask = mask => WriteOf(h, call) = NoWrite
         /\ pc[h] \notin {"act_cfg", "act_sync", "act_end", "stop_crit", "stop_mst",
                          "stop_cfg", "exit", "crit_in", "crit_out", "main"}
              => WriteOf(h, call) = NoWrite
<1>1. \A l : Runs(h, l) <=> pc[h] = l
  BY FreeCore
<1>2. QED
  BY <1>1 DEF WriteOf

LEMMA FreeData ==
  ASSUME Free, NEW S, NEW call, NEW victims, CoresTick(S, call, victims)
  PROVE  /\ ctx' = CASE \E h \in S : pc[h] = "dbg" /\ dbgReq = "boot" -> "none"
                     [] \E h \in S : pc[h] = "act_pc" -> "act_pc"
                     [] \E h \in S : pc[h] = "ckpt" -> "main"
                     [] OTHER -> ctx
         /\ bad' = (bad \ {h \in S : pc[h] \in {"dbg", "restore", "rs_clr"}}) \cup victims
         /\ diff' = DmrErrorOnBus(victims # {})
         /\ masterFf' = IF Asleep = Hart THEN master ELSE masterFf
<1>1. \A h, l : Runs(h, l) <=> pc[h] = l
  BY FreeCore
<1>2. CtxNext(S) = CASE \E h \in S : pc[h] = "dbg" /\ dbgReq = "boot" -> "none"
                     [] \E h \in S : pc[h] = "act_pc" -> "act_pc"
                     [] \E h \in S : pc[h] = "ckpt" -> "main"
                     [] OTHER -> ctx
  BY <1>1, Zenon DEF CtxNext
<1>3. {h \in S : Repairs(h)} = {h \in S : pc[h] \in {"dbg", "restore", "rs_clr"}}
  BY <1>1 DEF Repairs, Reloads
<1>4. WfiDmr = {}
  BY DEF Free
<1>5. /\ ctx' = CtxNext(S)
      /\ bad' = (bad \ {h \in S : Repairs(h)}) \cup victims
      /\ diff' = DmrErrorOnBus(victims # {})
      /\ masterFf' = IF Asleep = Hart THEN master ELSE masterFf
  BY <1>4 DEF CoresTick, DmrErrorOnBus
<1>6. QED
  BY <1>2, <1>3, <1>5

(* The bus lets every free core move, where no request differs and no delay *)
(* is on without a pair.                                                    *)
Unheld(err) == HeldBack(err) = {} /\ Starved = {}

(* Cores at one label, with all others asleep: they advance together, or    *)
(* none does, when they share the bus or are a single core.                 *)
LEMMA OneTeam ==
  ASSUME Free, NEW err, Unheld(err), NEW S \in Movers(err), NEW G \in SUBSET Hart,
         NEW l, \A h \in G : pc[h] = l, \A h \in Hart \ G : pc[h] \in Sleeping,
         SingleBus \/ \E m : G = {m}
  PROVE  S = {} \/ (S = G /\ l \notin Sleeping \cup Dead)
<1> DEFINE able == {h \in Hart : CanStep(h)}
<1>1. able = {h \in Hart : pc[h] \notin Sleeping \cup Dead}
  BY FreeCore
<1>2. able = IF l \in Sleeping \cup Dead THEN {} ELSE G
  BY <1>1
<1>3. S \in (IF SingleBus /\ WfiDmr = {} THEN {{}, able} ELSE SUBSET able)
  BY DEF Movers, Unheld
<1>4. WfiDmr = {}
  BY DEF Free
<1>5. QED
  BY <1>2, <1>3, <1>4

-----------------------------------------------------------------------------
(* The machines.  `in' is the input of the cycle; master and mask are the  *)
(* registers it carries.                                                   *)

NextMachines(g, s, k, x, y) ==
  /\ gen' = g
  /\ single' = s
  /\ tmr' = [h \in Hart |-> IF k # "TMR_MODE" THEN "IDLE"
                            ELSE IF h = master THEN x ELSE y]
  /\ dmr' = [h \in Hart |-> IF k # "DMR_MODE" \/ h \notin mask THEN "IDLE"
                            ELSE IF h = master THEN x ELSE y]

\* the input of a cycle in which a program is started or runs
Registers(in) ==
  /\ in.master = master /\ in.mask = mask /\ in.cfg = cfg /\ cfg \in Config
  /\ master \in Hart /\ mask \in SUBSET Hart
Input(in) == in.start /\ ~in.endSw /\ Registers(in)

LEMMA MachinesPrimed ==
  ASSUME NEW g, NEW s, NEW k, NEW x, NEW y, NextMachines(g, s, k, x, y),
         mask' = mask, master' = master \/ x = y
  PROVE  Machines(g, s, k, x, y)'
BY DEF NextMachines, Machines

USE DEF Kinds, Paired, AllIn, AllIdle, Machines, NextMachines, Registers, Input

(* The sets the machines look at, when only one kind is out of IDLE.       *)
LEMMA InState ==
  ASSUME NEW g, NEW s, NEW k \in Modal, NEW x, NEW y, Machines(g, s, k, x, y),
         NEW Z, "IDLE" \notin Z
  PROVE  /\ TmrIn(Z) = IF k # "TMR_MODE" THEN {}
                       ELSE {h \in Hart : IF h = master THEN x \in Z ELSE y \in Z}
         /\ DmrIn(Z) = IF k # "DMR_MODE" THEN {}
                       ELSE {h \in Hart : h \in mask /\ IF h = master THEN x \in Z ELSE y \in Z}
BY DEF Modal, TmrIn, DmrIn

(* The master sleeps: its machine waits for the others. *)
LEMMA MachinesSaving ==
  ASSUME NEW k \in Kinds, Paired(k), Machines(k, Switch(k), k, "IDLE", "IDLE"),
         NEW in, Input(in), FsmTick(in), in.halt = {}
  PROVE  NextMachines(k, Switch(k), k,
           IF master \in in.wfi /\ in.initSync THEN "SH_HALT" ELSE "IDLE", "IDLE")
<1>1. gen' = k
  BY DEF FsmTick, GenNext, TmrIn, DmrIn, SwitchTMRtoSingle, SwitchDMRtoSingle
<1>2. SwitchSingletoTMR = {} /\ SwitchSingletoDMR = {}
  BY DEF SwitchSingletoTMR, SwitchSingletoDMR, TmrIn, DmrIn
<1>3. single' = Switch(k)
  BY <1>2, ThreeHarts, FS_EmptySet DEF FsmTick, SingleNext, Switch
<1>4. EnableSwitch /\ ~HaltReq(master)
  BY <1>2 DEF EnableSwitch, Switch, HaltReq
<1>5. \A h \in Hart : TmrNext(h, in) =
        IF k = "TMR_MODE" /\ h = master /\ master \in in.wfi /\ in.initSync
        THEN "SH_HALT" ELSE "IDLE"
  BY <1>4 DEF TmrNext, JoinsSwitch
<1>6. \A h \in Hart : DmrNext(h, in) =
        IF k = "DMR_MODE" /\ h = master /\ master \in in.wfi /\ in.initSync
        THEN "SH_HALT" ELSE "IDLE"
  BY <1>4 DEF DmrNext, JoinsSwitch, Pair
<1>7. QED
  BY <1>1, <1>3, <1>5, <1>6 DEF FsmTick, Pair

LEMMA MachinesAsking ==
  ASSUME NEW k \in Kinds, Paired(k), Machines(k, Switch(k), k, "SH_HALT", "IDLE"),
         NEW in, Input(in), FsmTick(in), in.halt = {}
  PROVE  NextMachines(k, Switch(k), k, "SH_HALT", "SH_HALT")
<1>1. gen' = k
  BY DEF FsmTick, GenNext, TmrIn, DmrIn, SwitchTMRtoSingle, SwitchDMRtoSingle, Pair
<1>2. /\ SwitchSingletoTMR = IF k = "TMR_MODE" THEN {master} ELSE {}
      /\ SwitchSingletoDMR = IF k = "DMR_MODE" THEN {master} ELSE {}
  BY DEF SwitchSingletoTMR, SwitchSingletoDMR, TmrIn, DmrIn, Pair
<1>3. single' = Switch(k)
  <2>1. SwitchSingletoTMR # Hart
    BY <1>2, TwoOthers
  <2>2. Cardinality(SwitchSingletoDMR) # 2
    <3>1. CASE k = "DMR_MODE"
      <4>1. SwitchSingletoDMR = {master} /\ Cardinality({master}) = 1
        BY <1>2, <3>1, FewerThanTwo
      <4>2. QED
        BY <4>1
    <3>2. CASE k # "DMR_MODE"
      BY <1>2, <3>2, FewerThanTwo
    <3>3. QED
      BY <3>1, <3>2
  <2>3. QED
    BY <2>1, <2>2 DEF FsmTick, SingleNext, Switch
<1>4. EnableSwitch /\ HaltReq(master)
  BY <1>2 DEF EnableSwitch, Switch, HaltReq
<1>5. \A h \in Hart : TmrNext(h, in) = IF k = "TMR_MODE" THEN "SH_HALT" ELSE "IDLE"
  BY <1>4, FS_EmptySet DEF TmrNext, JoinsSwitch
<1>6. \A h \in Hart : DmrNext(h, in) =
        IF k = "DMR_MODE" /\ h \in mask THEN "SH_HALT" ELSE "IDLE"
  <2>1. k = "DMR_MODE" => in.halt # (in.mask \ {in.master}) \cup ({in.master} \ in.mask)
    BY PairOfTwo
  <2>2. QED
    BY <1>4, <2>1 DEF DmrNext, JoinsSwitch
<1>7. QED
  BY <1>1, <1>3, <1>5, <1>6 DEF FsmTick

LEMMA MachinesCalling ==
  ASSUME NEW k \in Kinds, Paired(k), Machines(k, Switch(k), k, "SH_HALT", "SH_HALT"),
         NEW in, Input(in), FsmTick(in), in.halt = {}
  PROVE  NextMachines(k, "IDLE", k, "SH_HALT", "SH_HALT")
<1>1. gen' = k
  BY DEF FsmTick, GenNext, TmrIn, DmrIn, SwitchTMRtoSingle, SwitchDMRtoSingle, Pair
<1>2. /\ SwitchSingletoTMR = IF k = "TMR_MODE" THEN Hart ELSE {}
      /\ SwitchSingletoDMR = IF k = "DMR_MODE" THEN mask ELSE {}
  BY DEF SwitchSingletoTMR, SwitchSingletoDMR, TmrIn, DmrIn, Pair
<1>3. single' = "IDLE"
  <2>1. k = "DMR_MODE" => Cardinality(mask) = 2
    BY DEF Pair
  <2>2. k = "DMR_MODE" => SwitchSingletoDMR = mask
    BY <1>2
  <2>3. k = "DMR_MODE" => Cardinality(SwitchSingletoDMR) = 2
    BY <2>1, <2>2
  <2>4. QED
    BY <1>2, <2>3 DEF FsmTick, SingleNext, Switch
<1>4. \A h \in Hart : TmrNext(h, in) = IF k = "TMR_MODE" THEN "SH_HALT" ELSE "IDLE"
  BY FS_EmptySet DEF TmrNext
<1>5. \A h \in Hart : DmrNext(h, in) =
        IF k = "DMR_MODE" /\ h \in mask THEN "SH_HALT" ELSE "IDLE"
  <2>1. k = "DMR_MODE" => in.halt # (in.mask \ {in.master}) \cup ({in.master} \ in.mask)
    BY PairOfTwo
  <2>2. QED
    BY <2>1 DEF DmrNext
<1>6. QED
  BY <1>1, <1>3, <1>4, <1>5 DEF FsmTick

LEMMA MachinesHalting ==
  ASSUME NEW k \in Kinds, Paired(k), AllIn(k, "SH_HALT"), NEW in, Input(in), FsmTick(in),
         in.halt = {} \/ in.halt = Team(k) \ {master}
  PROVE  IF in.halt = {} THEN NextMachines(k, "IDLE", k, "SH_HALT", "SH_HALT")
                         ELSE NextMachines(k, "IDLE", k, "WAIT_SH", "WAIT_SH")
<1>1. gen' = k
  BY DEF FsmTick, GenNext, TmrIn, DmrIn, SwitchTMRtoSingle, SwitchDMRtoSingle, Pair
<1>2. single' = "IDLE"
  BY DEF FsmTick, SingleNext
<1>3. \A h \in Hart : TmrNext(h, in) =
        IF k # "TMR_MODE" THEN "IDLE" ELSE IF in.halt = {} THEN "SH_HALT" ELSE "WAIT_SH"
  <2>1. CASE in.halt = {}
    BY <2>1, FS_EmptySet DEF TmrNext
  <2>2. CASE k = "TMR_MODE" /\ in.halt = Hart \ {master}
    <3>1. Cardinality(in.halt) = 2
      BY <2>2, TwoOthers
    <3>2. QED
      BY <2>2, <3>1, TwoOthers DEF TmrNext
  <2>3. QED
    BY <2>1, <2>2 DEF TmrNext, Team
<1>4. \A h \in Hart : DmrNext(h, in) =
        IF k # "DMR_MODE" \/ h \notin mask THEN "IDLE"
        ELSE IF in.halt = {} THEN "SH_HALT" ELSE "WAIT_SH"
  BY PairOfTwo DEF DmrNext, Team
<1>5. QED
  BY <1>1, <1>2, <1>3, <1>4 DEF FsmTick

LEMMA MachinesRestoring ==
  ASSUME NEW k \in Kinds, Paired(k), AllIn(k, "WAIT_SH"), NEW in, Input(in), FsmTick(in)
  PROVE  IF in.wfi = Hart THEN NextMachines(k, "IDLE", k, "MS_INTRSYNC", "MS_INTRSYNC")
                          ELSE NextMachines(k, "IDLE", k, "WAIT_SH", "WAIT_SH")
<1>1. gen' = k /\ single' = "IDLE"
  BY DEF FsmTick, GenNext, SingleNext, TmrIn, DmrIn, SwitchTMRtoSingle, SwitchDMRtoSingle, Pair
<1>2. \A h \in Hart : TmrNext(h, in) =
        IF k # "TMR_MODE" THEN "IDLE" ELSE IF in.wfi = Hart THEN "MS_INTRSYNC" ELSE "WAIT_SH"
  BY DEF TmrNext
<1>3. \A h \in Hart : DmrNext(h, in) =
        IF k # "DMR_MODE" \/ h \notin mask THEN "IDLE"
        ELSE IF in.wfi = Hart THEN "MS_INTRSYNC" ELSE "WAIT_SH"
  BY DEF DmrNext
<1>4. QED
  BY <1>1, <1>2, <1>3 DEF FsmTick

LEMMA MachinesSyncing ==
  ASSUME NEW k \in Kinds, Paired(k), AllIn(k, "MS_INTRSYNC"), NEW in, Input(in), FsmTick(in),
         in.ack = {} \/ in.ack = Team(k)
  PROVE  IF in.ack = {} THEN NextMachines(k, "IDLE", k, "MS_INTRSYNC", "MS_INTRSYNC")
                        ELSE NextMachines(k, "IDLE", k, "SYNC", "SYNC")
<1>1. gen' = k /\ single' = "IDLE"
  BY DEF FsmTick, GenNext, SingleNext, TmrIn, DmrIn, SwitchTMRtoSingle, SwitchDMRtoSingle, Pair
<1>2. \A h \in Hart : TmrNext(h, in) =
        IF k # "TMR_MODE" THEN "IDLE" ELSE IF in.ack = {} THEN "MS_INTRSYNC" ELSE "SYNC"
  BY DEF TmrNext, Team
<1>3. \A h \in Hart : DmrNext(h, in) =
        IF k # "DMR_MODE" \/ h \notin mask THEN "IDLE"
        ELSE IF in.ack = {} THEN "MS_INTRSYNC" ELSE "SYNC"
  BY DEF DmrNext, Team
<1>4. QED
  BY <1>1, <1>2, <1>3 DEF FsmTick

LEMMA MachinesStarting ==
  ASSUME NEW k \in Kinds, Paired(k), AllIn(k, "START"), NEW in, Input(in), FsmTick(in),
         in.halt = {} \/ in.halt = Team(k)
  PROVE  IF in.halt = {} THEN NextMachines(k, "IDLE", k, "START", "START")
                         ELSE NextMachines(k, "IDLE", k, "BOOT", "BOOT")
<1>1. gen' = k /\ single' = "IDLE"
  BY DEF FsmTick, GenNext, SingleNext, TmrIn, DmrIn, SwitchTMRtoSingle, SwitchDMRtoSingle, Pair
<1>2. \A h \in Hart : TmrNext(h, in) =
        IF k # "TMR_MODE" THEN "IDLE" ELSE IF in.halt = {} THEN "START" ELSE "BOOT"
  BY DEF TmrNext, Team
<1>3. \A h \in Hart : DmrNext(h, in) =
        IF k # "DMR_MODE" \/ h \notin mask THEN "IDLE"
        ELSE IF in.halt = {} THEN "START" ELSE "BOOT"
  BY DEF DmrNext, Team
<1>4. QED
  BY <1>1, <1>2, <1>3 DEF FsmTick

LEMMA MachinesEntering ==
  ASSUME NEW k \in Kinds, Paired(k), AllIn(k, "BOOT"), NEW in, Input(in), FsmTick(in),
         in.halt = {} \/ in.halt = Team(k)
  PROVE  IF in.halt = {} THEN NextMachines(k, "IDLE", k, "SYNC", "SYNC")
                         ELSE NextMachines(k, "IDLE", k, "BOOT", "BOOT")
<1>1. gen' = k /\ single' = "IDLE"
  BY DEF FsmTick, GenNext, SingleNext, TmrIn, DmrIn, SwitchTMRtoSingle, SwitchDMRtoSingle, Pair
<1>2. \A h \in Hart : TmrNext(h, in) =
        IF k # "TMR_MODE" THEN "IDLE" ELSE IF in.halt = {} THEN "SYNC" ELSE "BOOT"
  BY DEF TmrNext, Team
<1>3. \A h \in Hart : DmrNext(h, in) =
        IF k # "DMR_MODE" \/ h \notin mask THEN "IDLE"
        ELSE IF in.halt = {} THEN "SYNC" ELSE "BOOT"
  BY DEF DmrNext, Team
<1>4. QED
  BY <1>1, <1>2, <1>3 DEF FsmTick

(* The way back to one core: the machines of the others leave first. *)
LEMMA MachinesParted ==
  ASSUME NEW k \in Kinds, Paired(k), AllIn(k, "END_SYNC"), NEW in, Input(in), FsmTick(in),
         in.ack = {}, Hart \ {master} \subseteq in.wfi
  PROVE  NextMachines("SINGLE_MODE", "IDLE", k, "END_SYNC", "IDLE")
<1>1. gen' = "SINGLE_MODE" /\ single' = "IDLE"
  BY DEF FsmTick, GenNext, SingleNext, TmrIn, DmrIn, SwitchTMRtoSingle, SwitchDMRtoSingle, Pair
<1>2. \A h \in Hart : TmrNext(h, in) =
        IF k = "TMR_MODE" /\ h = master THEN "END_SYNC" ELSE "IDLE"
  BY DEF TmrNext, LeavesSync
<1>3. \A h \in Hart : DmrNext(h, in) =
        IF k = "DMR_MODE" /\ h = master THEN "END_SYNC" ELSE "IDLE"
  BY DEF DmrNext, LeavesSync, Pair
<1>4. QED
  BY <1>1, <1>2, <1>3 DEF FsmTick, Pair

LEMMA MachinesWaking ==
  ASSUME NEW k \in Kinds, Paired(k), Machines("SINGLE_MODE", "IDLE", k, "END_SYNC", "IDLE"),
         NEW in, Input(in), FsmTick(in), in.ack = {}, cfg = SINGLE
  PROVE  NextMachines("SINGLE_MODE", "RUN", k, "END_SYNC", "IDLE")
<1>1. gen' = "SINGLE_MODE" /\ single' = "RUN"
  BY DEF FsmTick, GenNext, SingleNext, TmrIn, DmrIn, SwitchToSingle, SwitchTMRtoSingle,
         SwitchDMRtoSingle, Pair, ModeOf, SINGLE, TCLS
<1>2. \A h \in Hart : TmrNext(h, in) =
        IF k = "TMR_MODE" /\ h = master THEN "END_SYNC" ELSE "IDLE"
  BY DEF TmrNext, LeavesSync
<1>3. \A h \in Hart : DmrNext(h, in) =
        IF k = "DMR_MODE" /\ h = master THEN "END_SYNC" ELSE "IDLE"
  BY DEF DmrNext, LeavesSync, Pair
<1>4. QED
  BY <1>1, <1>2, <1>3 DEF FsmTick, Pair

LEMMA MachinesReturning ==
  ASSUME NEW k \in Kinds, Paired(k), Machines("SINGLE_MODE", "RUN", k, "END_SYNC", "IDLE"),
         NEW in, Input(in), FsmTick(in), in.ack = {} \/ in.ack = {master}, in.halt = {},
         cfg = SINGLE
  PROVE  NextMachines("SINGLE_MODE", "RUN", k,
                      IF in.ack = {} THEN "END_SYNC" ELSE "IDLE", "IDLE")
<1>1. gen' = "SINGLE_MODE" /\ single' = "RUN"
  BY DEF FsmTick, GenNext, SingleNext, ModeOf, SINGLE, TCLS, DCLS, LOCKSTEP, Dual
<1>2. \A h \in Hart : TmrNext(h, in) =
        IF k = "TMR_MODE" /\ h = master /\ in.ack = {} THEN "END_SYNC" ELSE "IDLE"
  BY DEF TmrNext, LeavesSync
<1>3. \A h \in Hart : DmrNext(h, in) =
        IF k = "DMR_MODE" /\ h = master /\ in.ack = {} THEN "END_SYNC" ELSE "IDLE"
  BY DEF DmrNext, LeavesSync, Pair
<1>4. QED
  BY <1>1, <1>2, <1>3 DEF FsmTick, Pair

(* The voted and the compared cores at work, and their recoveries. *)
VotingNext(in) ==
  IF in.wfi = Hart /\ in.endSw THEN "IDLE"
  ELSE IF in.wfi = Hart /\ cfg # TCLS THEN "END_SYNC"
  ELSE IF TmrError(in) THEN "SYNCINTC" ELSE "SYNC"

LEMMA MachinesVoting ==
  ASSUME AllIn("TMR_MODE", "SYNC"), NEW in, Registers(in), FsmTick(in)
  PROVE  NextMachines("TMR_MODE", "IDLE", "TMR_MODE", VotingNext(in), VotingNext(in))
<1>1. gen' = "TMR_MODE" /\ single' = "IDLE"
  BY DEF FsmTick, GenNext, SingleNext, TmrIn, SwitchTMRtoSingle
<1>2. \A h \in Hart : TmrNext(h, in) = VotingNext(in)
  BY DEF TmrNext, VotingNext
<1>3. \A h \in Hart : DmrNext(h, in) = "IDLE"
  BY DEF DmrNext
<1>4. QED
  BY <1>1, <1>2, <1>3 DEF FsmTick

LEMMA MachinesResyncing ==
  ASSUME NEW x \in {"SYNCINTC", "SWSYNC"}, AllIn("TMR_MODE", x),
         NEW in, Registers(in), FsmTick(in), in.ack = {} \/ in.ack = Hart
  PROVE  LET y == IF in.ack = Hart THEN "SWSYNC"
                  ELSE IF x = "SYNCINTC" THEN x ELSE "SYNC"
         IN NextMachines("TMR_MODE", "IDLE", "TMR_MODE", y, y)
<1>1. gen' = "TMR_MODE" /\ single' = "IDLE"
  BY DEF FsmTick, GenNext, SingleNext, TmrIn, SwitchTMRtoSingle
<1>2. \A h \in Hart : TmrNext(h, in) =
        IF in.ack = Hart THEN "SWSYNC" ELSE IF x = "SYNCINTC" THEN x ELSE "SYNC"
  BY DEF TmrNext
<1>3. \A h \in Hart : DmrNext(h, in) = "IDLE"
  BY DEF DmrNext
<1>4. QED
  BY <1>1, <1>2, <1>3 DEF FsmTick

ComparingNext(in) ==
  IF in.wfi = Hart THEN (IF in.endSw THEN "IDLE" ELSE "END_SYNC")
  ELSE IF master \in in.dmrErr THEN "STOP" ELSE "SYNC"

LEMMA MachinesComparing ==
  ASSUME AllIn("DMR_MODE", "SYNC"), Paired("DMR_MODE"), NEW in, Registers(in), FsmTick(in)
  PROVE  NextMachines("DMR_MODE", "IDLE", "DMR_MODE", ComparingNext(in), ComparingNext(in))
<1>1. gen' = "DMR_MODE" /\ single' = "IDLE"
  BY DEF FsmTick, GenNext, SingleNext, DmrIn, SwitchDMRtoSingle, Pair
<1>2. \A h \in Hart : TmrNext(h, in) = "IDLE"
  BY DEF TmrNext
<1>3. \A h \in Hart : DmrNext(h, in) = IF h \in mask THEN ComparingNext(in) ELSE "IDLE"
  BY DEF DmrNext, ComparingNext, DmrError, DmrConfigLeft, DCLS, LOCKSTEP
<1>4. QED
  BY <1>1, <1>2, <1>3 DEF FsmTick

LEMMA MachinesIsolating ==
  ASSUME AllIn("DMR_MODE", "STOP"), Paired("DMR_MODE"), NEW in, Registers(in), FsmTick(in)
  PROVE  LET y == IF in.wfi = Hart THEN "INTC_RECOVERY" ELSE "STOP"
         IN NextMachines("DMR_MODE", "IDLE", "DMR_MODE", y, y)
<1>1. gen' = "DMR_MODE" /\ single' = "IDLE"
  BY DEF FsmTick, GenNext, SingleNext, DmrIn, SwitchDMRtoSingle, Pair
<1>2. \A h \in Hart : TmrNext(h, in) = "IDLE"
  BY DEF TmrNext
<1>3. \A h \in Hart : DmrNext(h, in) =
        IF h \notin mask THEN "IDLE" ELSE IF in.wfi = Hart THEN "INTC_RECOVERY" ELSE "STOP"
  BY DEF DmrNext
<1>4. QED
  BY <1>1, <1>2, <1>3 DEF FsmTick

LEMMA MachinesRecovering ==
  ASSUME NEW x \in {"INTC_RECOVERY", "RECOVERY"}, AllIn("DMR_MODE", x), Paired("DMR_MODE"),
         NEW in, Registers(in), FsmTick(in), in.halt = {} \/ in.halt = mask
  PROVE  LET y == IF in.halt = mask THEN "RECOVERY"
                  ELSE IF x = "RECOVERY" THEN "SYNC" ELSE x
         IN NextMachines("DMR_MODE", "IDLE", "DMR_MODE", y, y)
<1>1. gen' = "DMR_MODE" /\ single' = "IDLE"
  BY DEF FsmTick, GenNext, SingleNext, DmrIn, SwitchDMRtoSingle, Pair
<1>2. \A h \in Hart : TmrNext(h, in) = "IDLE"
  BY DEF TmrNext
<1>3. \A h \in Hart : DmrNext(h, in) =
        IF h \notin mask THEN "IDLE"
        ELSE IF in.halt = mask THEN "RECOVERY" ELSE IF x = "RECOVERY" THEN "SYNC" ELSE x
  BY DEF DmrNext, Pair
<1>4. QED
  BY <1>1, <1>2, <1>3 DEF FsmTick

(* One core, rest and launch.                                              *)
Resting(g, s) == NextMachines(g, s, "TMR_MODE", "IDLE", "IDLE")

\* outside TMR_MODE and DMR_MODE the machines of these modes stay in IDLE
LEMMA MachinesIdle ==
  ASSUME NEW g, NEW s, AllIdle(g, s), g \notin Kinds, NEW in, Registers(in), FsmTick(in)
  PROVE  Resting(GenNext(in), SingleNext(in))
<1>1. \A h \in Hart : TmrNext(h, in) = "IDLE"
  BY DEF TmrNext
<1>2. \A h \in Hart : DmrNext(h, in) = "IDLE"
  BY DEF DmrNext
<1>3. QED
  BY <1>1, <1>2 DEF FsmTick, Resting

LEMMA MachinesBooting ==
  ASSUME AllIdle("BOOT", "IDLE"), NEW in, Registers(in), FsmTick(in)
  PROVE  Resting(IF in.wfi = Hart THEN "IDLE" ELSE "BOOT", "IDLE")
<1>1. GenNext(in) = IF in.wfi = Hart THEN "IDLE" ELSE "BOOT"
  BY DEF GenNext
<1>2. SingleNext(in) = "IDLE"
  BY DEF SingleNext
<1>3. QED
  BY <1>1, <1>2, MachinesIdle

LEMMA MachinesIdling ==
  ASSUME AllIdle("IDLE", "IDLE"), NEW in, Registers(in), FsmTick(in)
  PROVE  Resting(IF in.start THEN ModeOf(cfg) ELSE "IDLE", "IDLE")
<1>1. GenNext(in) = IF in.start THEN ModeOf(cfg) ELSE "IDLE"
  BY DEF GenNext
<1>2. SingleNext(in) = "IDLE"
  BY DEF SingleNext
<1>3. QED
  BY <1>1, <1>2, MachinesIdle

LEMMA MachinesReady ==
  ASSUME NEW k \in Kinds, Paired(k), AllIdle(k, "IDLE"), NEW in, Registers(in),
         FsmTick(in), in.start
  PROVE  NextMachines(k, "IDLE", k, "START", "START")
<1>1. gen' = k /\ single' = "IDLE"
  BY DEF FsmTick, GenNext, SingleNext, TmrIn, DmrIn, SwitchTMRtoSingle, SwitchDMRtoSingle
<1>2. \A h \in Hart : TmrNext(h, in) = IF k = "TMR_MODE" THEN "START" ELSE "IDLE"
  BY DEF TmrNext, EnableSwitch
<1>3. \A h \in Hart : DmrNext(h, in) =
        IF k = "DMR_MODE" /\ h \in mask THEN "START" ELSE "IDLE"
  BY DEF DmrNext, EnableSwitch
<1>4. QED
  BY <1>1, <1>2, <1>3 DEF FsmTick

LEMMA MachinesFinished ==
  ASSUME NEW g \in Modal, AllIdle(g, "IDLE"), NEW in, Registers(in), FsmTick(in), ~in.start
  PROVE  Resting("IDLE", "IDLE")
<1>1. gen' = "IDLE"
  BY DEF Modal, FsmTick, GenNext, TmrIn, DmrIn
<1>2. single' = "IDLE"
  BY DEF Modal, FsmTick, SingleNext
<1>3. \A h \in Hart : TmrNext(h, in) = "IDLE" /\ DmrNext(h, in) = "IDLE"
  BY DEF TmrNext, DmrNext
<1>4. QED
  BY <1>1, <1>2, <1>3 DEF FsmTick, Resting

LEMMA MachinesSingleReady ==
  ASSUME AllIdle("SINGLE_MODE", "IDLE"), NEW in, Registers(in), FsmTick(in), in.start,
         cfg = SINGLE
  PROVE  Resting("SINGLE_MODE", IF in.endSw THEN "IDLE" ELSE "START")
<1>1. GenNext(in) = "SINGLE_MODE"
  BY DEF GenNext, ModeOf, SINGLE, TCLS
<1>2. SingleNext(in) = IF in.endSw THEN "IDLE" ELSE "START"
  BY DEF SingleNext, SwitchToSingle, SwitchTMRtoSingle, SwitchDMRtoSingle, TmrIn, DmrIn
<1>3. QED
  BY <1>1, <1>2, MachinesIdle

LEMMA MachinesSingleStarting ==
  ASSUME AllIdle("SINGLE_MODE", "START"), NEW in, Input(in), FsmTick(in), cfg = SINGLE
  PROVE  Resting("SINGLE_MODE", IF in.halt = {master} THEN "RUN" ELSE "START")
<1>1. GenNext(in) = "SINGLE_MODE"
  BY DEF GenNext, ModeOf, SINGLE, TCLS
<1>2. SingleNext(in) = IF in.halt = {master} THEN "RUN" ELSE "START"
  BY DEF SingleNext
<1>3. QED
  BY <1>1, <1>2, MachinesIdle

LEMMA MachinesSingleRunning ==
  ASSUME AllIdle("SINGLE_MODE", "RUN"), NEW in, Registers(in), FsmTick(in), cfg = SINGLE,
         in.start \/ in.endSw
  PROVE  Resting("SINGLE_MODE", IF in.endSw /\ in.wfi = Hart THEN "IDLE" ELSE "RUN")
<1>1. GenNext(in) = "SINGLE_MODE"
  BY DEF GenNext, ModeOf, SINGLE, TCLS
<1>2. SingleNext(in) = IF in.endSw /\ in.wfi = Hart THEN "IDLE" ELSE "RUN"
  BY DEF SingleNext, SINGLE, TCLS, DCLS, LOCKSTEP, Dual
<1>3. QED
  BY <1>1, <1>2, MachinesIdle

LEMMA MachinesSingleLeaving ==
  ASSUME AllIdle("SINGLE_MODE", "RUN"), NEW in, Input(in), FsmTick(in), in.halt = {},
         cfg # SINGLE
  PROVE  /\ ModeOf(cfg) \in Kinds
         /\ NextMachines(ModeOf(cfg), Switch(ModeOf(cfg)), ModeOf(cfg), "IDLE", "IDLE")
<1>1. ModeOf(cfg) = IF cfg = TCLS THEN "TMR_MODE" ELSE "DMR_MODE"
  BY DEF ModeOf, SINGLE, TCLS
<1>2. GenNext(in) = ModeOf(cfg)
  BY DEF GenNext
<1>3. SingleNext(in) = Switch(ModeOf(cfg))
  BY <1>1 DEF SingleNext, Switch, SINGLE, TCLS, DCLS, LOCKSTEP, Dual, Config
<1>4. QED
  BY <1>1, <1>2, <1>3, MachinesIdle DEF Resting

HIDE DEF AllIn, AllIdle, Machines, NextMachines, Registers, Input

-----------------------------------------------------------------------------
(* What every cycle of a running program has in common.                    *)

LEMMA InputIs ==
  ASSUME TypeOK, NEW err \in BOOLEAN
  PROVE  /\ FsmIn(err) \in FsmInput /\ Registers(FsmIn(err))
         /\ FsmIn(err).start = start /\ FsmIn(err).endSw = endSw
         /\ FsmIn(err).initSync = initSync /\ FsmIn(err).crit = crit
         /\ FsmIn(err).wfi = Asleep
         /\ FsmIn(err).halt = {h \in Hart : pc[h] \in Halted}
         /\ FsmIn(err).ack = {h \in Hart : intcAck[h]}
         /\ FsmIn(err).tmrErr = (err /\ TmrIn({"SYNC"}) # {})
         /\ FsmIn(err).dmrErr = IF DmrErrorOnBus(err) THEN {masterFf} ELSE {}
<1>1. FsmIn(err) \in FsmInput
  BY FsmInTyped
<1>2. QED
  BY <1>1 DEF FsmIn, TypeOK, CtrlTypeOK, Registers

(* The input of a cycle in which the program runs. *)
InputOf(in, victims) ==
  /\ Input(in) /\ FsmTick(in)
  /\ in.initSync = initSync /\ in.crit = crit
  /\ in.wfi = Asleep
  /\ in.halt = {h \in Hart : pc[h] \in Halted}
  /\ in.ack = {h \in Hart : intcAck[h]}
  /\ in.tmrErr = (victims # {} /\ TmrIn({"SYNC"}) # {})
  /\ in.dmrErr = IF DmrErrorOnBus(victims # {}) THEN {masterFf} ELSE {}

LEMMA RunningInput ==
  ASSUME TypeOK, Running, NEW S, NEW call, NEW victims, NEW w, Works(S, call, victims, w)
  PROVE  \E in : InputOf(in, victims)
<1>1. FsmTick(FsmIn(victims # {})) /\ (victims # {}) \in BOOLEAN
  BY DEF Works, Cycle
<1>2. start /\ ~endSw
  BY DEF Running, Falling, Life
<1>3. InputOf(FsmIn(victims # {}), victims)
  BY <1>1, <1>2, InputIs DEF InputOf, Input
<1>4. QED
  BY <1>3

LEMMA WorksParts ==
  ASSUME NEW S, NEW call, NEW victims, NEW w, Works(S, call, victims, w)
  PROVE  /\ FsmTick(FsmIn(victims # {})) /\ CtrlTick(w, CtrlIn)
         /\ CoresTick(S, call, victims)
         /\ host' = IF interrupt THEN "told" ELSE "running"
         /\ (victims # {}) \in BOOLEAN
BY DEF Works, Cycle

LEMMA DelayIs ==
  ASSUME NEW err, FsmTick(FsmIn(err))
  PROVE  delayFf' = IF Asleep = Hart /\ cfg = SINGLE THEN FALSE ELSE Delayed(cfg)
BY DEF FsmTick, DelayNext, FsmIn, Delayed

LEMMA NoDelay ==
  ASSUME ~delayFf, DualMode = {}
  PROVE  ~Delayed(cfg)
BY DEF Delayed, DmrDelayed

(* Without a pair and without a delay nothing is held back. *)
LEMMA UnheldAlone ==
  ASSUME ~delayFf, DualMode = {}
  PROVE  \A err : Unheld(err)
BY NoDelay DEF Unheld, HeldBack, Starved

LEMMA DataIs ==
  ASSUME NEW S, NEW call, NEW victims, CoresTick(S, call, victims)
  PROVE  /\ bad' \subseteq bad \cup victims
         /\ diff' = (DmrErrorOnBus(victims # {}) /\ WfiDmr = {})
         /\ masterFf' = IF Asleep = Hart THEN master ELSE masterFf
BY DEF CoresTick

(* A cycle without a write. *)
LEMMA NoWriteWorks ==
  ASSUME NEW S, NEW call, NEW victims, Works(S, call, victims, NoWrite)
  PROVE  /\ UNCHANGED <<cfg, mask, master, crit, initSync>> /\ DebugNext
         /\ LifeKept(EndKept) /\ IntrKept(Asleep = Hart)
BY WorksParts, TickNoWrite DEF softVars

(* When no core advances, none writes, and none changes.                   *)
LEMMA NobodyMoves ==
  ASSUME NEW call, NEW victims, NEW w, Works({}, call, victims, w)
  PROVE  /\ w = NoWrite
         /\ \A h \in Hart : /\ pc'[h] = pc[h] /\ intcAck'[h] = intcAck[h]
                            /\ ret'[h] = ret[h] /\ mode'[h] = mode[h]
                            /\ heir'[h] = heir[h]
         /\ ctx' = ctx /\ bad' = bad \cup victims
<1>1. w = NoWrite
  BY WriteIs
<1>2. CoresTick({}, call, victims)
  BY WorksParts
<1>3. QED
  BY <1>1, <1>2, Unmoved DEF CoresTick, CtxNext

LEMMA AllSleep ==
  ASSUME Free, \A h \in Hart : pc[h] \in Sleeping,
         NEW S, NEW call, NEW victims, NEW w, Works(S, call, victims, w)
  PROVE  S = {} /\ Asleep = Hart
<1>1. \A h \in Hart : ~CanStep(h)
  BY FreeCore
<1>2. S = {}
  BY <1>1 DEF Works, Movers
<1>3. QED
  BY <1>2, FreeAsleep

(* The switch from a running core to a team keeps what its stages share. *)
LEMMA MeetingKept ==
  ASSUME TypeOK, NEW k \in Kinds, Meeting(k), DualMode = {}, Checked = {},
         NEW S, NEW call, NEW victims, NEW w, Works(S, call, victims, w),
         UNCHANGED <<cfg, mask, master>>, LifeKept(EndKept), IntrKept(Asleep = Hart)
  PROVE  Meeting(k)'
<1>1. victims = {}
  BY NoVictims
<1>2. masterFf' = master /\ ~diff' /\ bad' \subseteq bad
  BY <1>1, WorksParts, DataIs DEF Meeting, Working, DmrErrorOnBus
<1>3. ~delayFf'
  BY WorksParts, DelayIs, NoDelay DEF Meeting
<1>4. Running'
  BY WorksParts, LifeFalling DEF Meeting, Running
<1>5. QED
  BY <1>2, <1>3, <1>4 DEF Meeting, Working, ModeOf

USE DEF Modal, SINGLE, TCLS, DCLS, LOCKSTEP

LEMMA AskingWires ==
  ASSUME TypeOK, NEW k \in Kinds, Asking(k)
  PROVE  /\ Free /\ Checked = {} /\ DualMode = {} /\ ~StartBoot
BY DEF Asking, Meeting, Working, Pair, TypeOK, CtrlTypeOK, Free, Checked, DualMode,
  TmrIn, DmrIn, InterruptHalt, InterruptSync, InterruptSwResync, WfiDmr, SwitchToSingle,
  SwitchTMRtoSingle, SwitchDMRtoSingle, SwitchSingletoTMR, SwitchSingletoDMR, Switch,
  StartBoot, Machines

LEMMA AskingNext ==
  ASSUME TypeOK, NEW k \in Kinds, Asking(k),
         NEW S, NEW call, NEW victims, NEW w, Works(S, call, victims, w)
  PROVE  Calling(k)'
<1>1. /\ Free /\ Checked = {} /\ DualMode = {}
  BY AskingWires
<1>2. \A h \in Hart : pc[h] \in Sleeping
  BY DEF Asking, Waits, OthersRest, AtRest, Rest, Sleeping, AllAt
<1>3. S = {} /\ Asleep = Hart /\ w = NoWrite
  BY <1>1, <1>2, AllSleep, NobodyMoves
<1>4. /\ UNCHANGED <<cfg, mask, master>> /\ LifeKept(EndKept) /\ IntrKept(Asleep = Hart)
  BY <1>3, NoWriteWorks
<1>5. Meeting(k)'
  BY <1>1, <1>4, MeetingKept DEF Asking
<1>6. Machines(k, Switch(k), k, "SH_HALT", "SH_HALT")'
  <2>1. PICK in : InputOf(in, victims)
    BY RunningInput DEF Asking, Meeting
  <2>2. in.halt = {}
    BY <1>2, <2>1 DEF InputOf, Halted, Sleeping
  <2>3. NextMachines(k, Switch(k), k, "SH_HALT", "SH_HALT")
    BY <2>1, <2>2, MachinesAsking DEF Asking, Meeting, Working, InputOf
  <2>4. QED
    BY <1>4, <2>3, MachinesPrimed, Zenon
<1>7. OthersRest' /\ Waits'
  BY <1>3, <1>4, NobodyMoves DEF Asking, OthersRest, AtRest, Waits, AllAt, TypeOK, CtrlTypeOK
<1>8. QED
  BY <1>5, <1>6, <1>7 DEF Calling

LEMMA FollowIs ==
  /\ Follow["act_cfg"] = "act_save" /\ Follow["act_save"] = "act_sync"
  /\ Follow["act_sync"] = "act_pc" /\ Follow["act_pc"] = "act_wfi"
  /\ Follow["act_wfi"] = "act_slp" /\ Follow["act_slp"] = "act_end"
  /\ Follow["act_end"] = "main"
  /\ Follow["stop_crit"] = "stop_mst" /\ Follow["stop_mst"] = "stop_cfg"
  /\ Follow["stop_cfg"] = "stop_wfi" /\ Follow["stop_wfi"] = "stop_slp"
  /\ Follow["stop_slp"] = "main"
  /\ Follow["crit_in"] = "main" /\ Follow["crit_out"] = "main" /\ Follow["ckpt"] = "main"
  /\ Follow["exit"] = "exit_wfi" /\ Follow["exit_wfi"] = "exit_slp"
  /\ Follow["hdl_ack"] = "hdl_clr" /\ Follow["hdl_clr"] = "hdl_ret"
  /\ Follow["rs_ack"] = "rs_clr" /\ Follow["rs_clr"] = "rs_ret"
  /\ Follow["rom"] = "rom_slp"
BY DEF Follow

(* The cores that stay where they are, and those that go to the next label. *)
LEMMA Stays ==
  ASSUME NEW S, NEW call, NEW victims, NEW w, Works(S, call, victims, w)
  PROVE  \A h \in Hart : h \notin S =>
           /\ pc'[h] = pc[h] /\ intcAck'[h] = intcAck[h] /\ ret'[h] = ret[h]
           /\ mode'[h] = mode[h] /\ heir'[h] = heir[h]
BY WorksParts, Unmoved

Branching == {"main", "dbg", "restore", "hdl_ret", "rs_ret"}

LEMMA Follows ==
  ASSUME Free, NEW S, NEW call, NEW victims, NEW w, Works(S, call, victims, w)
  PROVE  \A h \in Hart : h \in S /\ pc[h] \notin Branching =>
           /\ pc'[h] = Follow[pc[h]]
           /\ intcAck'[h] = IF pc[h] \in {"hdl_ack", "rs_ack"} THEN TRUE
                            ELSE IF pc[h] \in {"hdl_clr", "rs_clr", "act_end"} THEN FALSE
                            ELSE intcAck[h]
           /\ ret'[h] = ret[h]
           /\ pc[h] # "stop_mst" => heir'[h] = heir[h]
<1> SUFFICES ASSUME NEW h \in Hart, h \in S, pc[h] \notin Branching
             PROVE  /\ pc'[h] = Follow[pc[h]]
                    /\ intcAck'[h] = IF pc[h] \in {"hdl_ack", "rs_ack"} THEN TRUE
                            ELSE IF pc[h] \in {"hdl_clr", "rs_clr", "act_end"} THEN FALSE
                            ELSE intcAck[h]
                    /\ ret'[h] = ret[h]
                    /\ pc[h] # "stop_mst" => heir'[h] = heir[h]
  OBVIOUS
<1>1. CoresTick(S, call, victims)
  BY WorksParts
<1>2. pc'[h] = CASE pc[h] = "main" -> call.to
                 [] pc[h] = "dbg" -> DebugEntry
                 [] pc[h] = "restore" -> Restored
                 [] pc[h] \in {"hdl_ret", "rs_ret"} -> ret[h]
                 [] OTHER -> Follow[pc[h]]
  BY <1>1, FreeStep, Zenon
<1>3. pc'[h] = Follow[pc[h]]
  BY <1>2 DEF Branching
<1>4. QED
  BY <1>1, <1>3, FreeStep DEF Branching

LEMMA SavingWires ==
  ASSUME TypeOK, NEW k \in Kinds, Saving(k)
  PROVE  Free /\ Checked = {} /\ DualMode = {}
BY DEF Saving, Meeting, Working, TypeOK, CtrlTypeOK, Free, Checked, DualMode, Machines,
  TmrIn, DmrIn, InterruptHalt, InterruptSync, InterruptSwResync, WfiDmr, SwitchToSingle,
  SwitchTMRtoSingle, SwitchDMRtoSingle, SwitchSingletoTMR, SwitchSingletoDMR, Switch

(* The master alone, with all others asleep. *)
LEMMA MasterAlone ==
  ASSUME Free, Unheld(TRUE), Unheld(FALSE), master \in Hart,
         \A h \in Hart \ {master} : pc[h] \in Sleeping,
         NEW S, NEW call, NEW victims, NEW w, Works(S, call, victims, w)
  PROVE  S = {} \/ (S = {master} /\ pc[master] \notin Sleeping \cup Dead)
<1>1. S \in Movers(victims # {}) /\ Unheld(victims # {})
  BY DEF Works
<1>2. {h \in Hart : CanStep(h)} = {h \in Hart : pc[h] \notin Sleeping \cup Dead}
  BY FreeCore
<1>3. S \subseteq {h \in Hart : pc[h] \notin Sleeping \cup Dead}
  BY <1>1, <1>2 DEF Movers, Unheld
<1>4. QED
  BY <1>3

LEMMA SavingNext ==
  ASSUME TypeOK, NEW k \in Kinds, Saving(k),
         NEW S, NEW call, NEW victims, NEW w, Works(S, call, victims, w)
  PROVE  Saving(k)' \/ Asking(k)'
<1> DEFINE L == {"act_save", "act_sync", "act_pc", "act_wfi", "act_slp"}
<1>1. PICK l \in L : AllAt({master}, l) /\ (l \in {"act_wfi", "act_slp"} => ctx = "act_pc")
  BY DEF Saving
<1>2. Free /\ Checked = {} /\ DualMode = {} /\ master \in Hart
  BY SavingWires DEF TypeOK, CtrlTypeOK
<1>3. pc[master] = l /\ ~intcAck[master]
  BY <1>1 DEF AllAt
<1>4. S = {} \/ (S = {master} /\ l # "act_slp")
  <2>1. \A h \in Hart \ {master} : pc[h] \in Sleeping
    BY DEF Saving, OthersRest, AtRest, Rest, Sleeping
  <2>2. Unheld(TRUE) /\ Unheld(FALSE)
    BY <1>2, UnheldAlone DEF Saving, Meeting
  <2>3. S = {} \/ (S = {master} /\ pc[master] \notin Sleeping \cup Dead)
    BY <1>2, <2>1, <2>2, MasterAlone
  <2>4. QED
    BY <1>3, <2>3 DEF Sleeping
<1>5. S = {master} => w = WriteOf(master, call)
  BY WriteIs
<1>6. /\ UNCHANGED <<cfg, mask, master>> /\ LifeKept(EndKept) /\ IntrKept(Asleep = Hart)
  <2>1. CASE S = {master} /\ l = "act_sync"
    BY <1>2, <1>3, <1>5, <2>1, FreeWrite, WorksParts, TickInitSync
  <2>2. CASE S = {} \/ l # "act_sync"
    <3>1. w = NoWrite
      BY <1>2, <1>3, <1>4, <1>5, <2>2, FreeWrite, NobodyMoves
    <3>2. QED
      BY <3>1, NoWriteWorks
  <2>3. QED
    BY <1>4, <2>1, <2>2
<1>7. Meeting(k)'
  BY <1>2, <1>6, MeetingKept DEF Saving
<1>8. PICK x \in {"IDLE", "SH_HALT"} :
        /\ Machines(k, Switch(k), k, x, "IDLE")'
        /\ x = "SH_HALT" => l = "act_slp"
  <2>1. master \in Asleep => l = "act_slp"
    BY <1>2, <1>3, FreeAsleep DEF Sleeping
  <2>2. PICK in : InputOf(in, victims)
    BY RunningInput DEF Saving, Meeting
  <2>3. in.halt = {}
    BY <1>3, <2>2 DEF Saving, InputOf, Halted, OthersRest, AtRest, Rest
  <2>4. NextMachines(k, Switch(k), k,
          IF master \in in.wfi /\ in.initSync THEN "SH_HALT" ELSE "IDLE", "IDLE")
    BY <2>2, <2>3, MachinesSaving DEF Saving, Meeting, Working, InputOf
  <2>5. \E x \in {"IDLE", "SH_HALT"} :
          NextMachines(k, Switch(k), k, x, "IDLE") /\ (x = "SH_HALT" => master \in in.wfi)
    BY <2>4
  <2>6. QED
    BY <1>6, <2>1, <2>2, <2>5, MachinesPrimed DEF InputOf
<1>9. OthersRest'
  BY <1>4, <1>6, Stays DEF Saving, OthersRest, AtRest
<1>10. CASE S = {}
  <2>1. AllAt({master}, l)' /\ ctx' = ctx
    BY <1>2, <1>3, <1>6, <1>10, NobodyMoves DEF AllAt
  <2>2. CASE x = "SH_HALT"
    BY <1>1, <1>7, <1>8, <1>9, <2>1, <2>2 DEF Asking, Waits
  <2>3. CASE x = "IDLE"
    BY <1>1, <1>7, <1>8, <1>9, <2>1, <2>3 DEF Saving
  <2>4. QED
    BY <2>2, <2>3
<1>11. CASE S = {master} /\ l # "act_slp"
  <2>1. pc'[master] = Follow[l] /\ intcAck'[master] = intcAck[master]
    BY <1>2, <1>3, <1>11, Follows DEF Branching
  <2>2. ctx' = IF l = "act_pc" THEN "act_pc" ELSE ctx
    BY <1>2, <1>3, <1>11, WorksParts, FreeData
  <2>3. Follow[l] \in L /\ AllAt({master}, Follow[l])'
    BY <1>3, <1>6, <1>11, <2>1, FollowIs DEF AllAt
  <2>4. Follow[l] \in {"act_wfi", "act_slp"} => ctx' = "act_pc"
    BY <1>1, <1>11, <2>2, FollowIs
  <2>5. x = "IDLE"
    BY <1>8, <1>11
  <2>6. QED
    BY <1>7, <1>8, <1>9, <2>3, <2>4, <2>5 DEF Saving
<1>12. QED
  BY <1>4, <1>10, <1>11

-----------------------------------------------------------------------------
(* Cores that are halted or interrupted.                                   *)

LEMMA Able ==
  ASSUME NEW S, NEW call, NEW victims, NEW w, Works(S, call, victims, w)
  PROVE  S \subseteq Hart /\ \A h \in S : CanStep(h)
BY DEF Works, Movers

\* the cores of G are granted together
OnOneBus(G) == SingleBus \/ \E m : G = {m}

LEMMA Together ==
  ASSUME NEW S, NEW call, NEW victims, NEW w, Works(S, call, victims, w),
         WfiDmr = {}, Unheld(TRUE), Unheld(FALSE), NEW G \in SUBSET Hart,
         \A h \in Hart : CanStep(h) <=> h \in G, OnOneBus(G)
  PROVE  S = {} \/ S = G
<1>1. S \in Movers(victims # {}) /\ Unheld(victims # {})
  BY DEF Works
<1>2. {h \in Hart : CanStep(h)} = G
  OBVIOUS
<1>3. S \in IF SingleBus /\ WfiDmr = {} THEN {{}, G} ELSE SUBSET G
  BY <1>1, <1>2 DEF Movers, Unheld
<1>4. QED
  BY <1>3 DEF OnOneBus

(* Cores that are called away make no step of the program.                 *)
LEMMA CalledAway ==
  ASSUME NEW S, NEW call, NEW victims, NEW w, Works(S, call, victims, w), WfiDmr = {},
         \A h \in S : TakesDebug(h) \/ TakesIrq(h)
  PROVE  /\ w = NoWrite /\ ctx' = ctx /\ bad' = bad \cup victims
         /\ UNCHANGED <<cfg, mask, master, crit, initSync>> /\ DebugNext
         /\ LifeKept(EndKept) /\ IntrKept(Asleep = Hart)
         /\ \A h \in Hart : heir'[h] = heir[h] /\ intcAck'[h] = intcAck[h]
         /\ \A h \in Hart : h \in S /\ TakesDebug(h) => pc'[h] = "dbg"
         /\ \A h \in Hart : h \in S /\ TakesIrq(h) =>
              /\ pc'[h] = IF h \in InterruptSwResync THEN "rs_ack" ELSE "hdl_ack"
              /\ ret'[h] = IF pc[h] \in Sleeping \ {"iso"} THEN Follow[pc[h]] ELSE pc[h]
<1>1. \A h \in S : \A l : ~Runs(h, l)
  BY DEF Runs
<1>2. \A h \in S : WriteOf(h, call) = NoWrite
  BY <1>1 DEF WriteOf
<1>3. w = NoWrite
  BY <1>2, WriteIs
<1>4. CoresTick(S, call, victims)
  BY WorksParts
<1>5. ctx' = ctx /\ bad' = bad \cup victims
  BY <1>1, <1>4 DEF CoresTick, CtxNext, Repairs, Reloads
<1>6. \A h \in Hart : heir'[h] = heir[h] /\ intcAck'[h] = intcAck[h]
  BY <1>1, <1>4 DEF CoresTick, HeirNext, AckNext, Reloads
<1>7. \A h \in Hart : h \in S /\ TakesDebug(h) => pc'[h] = "dbg"
  BY <1>4 DEF CoresTick, PcNext
<1>8. \A h \in Hart : h \in S /\ TakesIrq(h) =>
        /\ pc'[h] = IF h \in InterruptSwResync THEN "rs_ack" ELSE "hdl_ack"
        /\ ret'[h] = IF pc[h] \in Sleeping \ {"iso"} THEN Follow[pc[h]] ELSE pc[h]
  <2> SUFFICES ASSUME NEW h \in Hart, h \in S, TakesIrq(h)
               PROVE  /\ pc'[h] = IF h \in InterruptSwResync THEN "rs_ack" ELSE "hdl_ack"
                      /\ ret'[h] = IF pc[h] \in Sleeping \ {"iso"} THEN Follow[pc[h]]
                                   ELSE pc[h]
    OBVIOUS
  <2>1. ~TakesDebug(h) /\ ~Runs(h, "hdl_ret") /\ ~Runs(h, "rs_ret") /\ ~Reloads(h)
    BY <1>1 DEF TakesIrq, Reloads
  <2>2. pc'[h] = PcNext(h, call) /\ ret'[h] = RetNext(h)
    BY <1>4 DEF CoresTick
  <2>3. PcNext(h, call) = IF h \in InterruptSwResync THEN "rs_ack" ELSE "hdl_ack"
    BY <2>1, Zenon DEF PcNext
  <2>4. RetNext(h) = IF pc[h] \in Sleeping \ {"iso"} THEN Follow[pc[h]] ELSE pc[h]
    BY <2>1 DEF RetNext
  <2>5. QED
    BY <2>2, <2>3, <2>4
<1>9. QED
  BY <1>3, <1>5, <1>6, <1>7, <1>8, NoWriteWorks

-----------------------------------------------------------------------------
(* The master waits for the others to be halted and to join it.            *)

LEMMA PeersOf ==
  ASSUME NEW k \in Kinds, Paired(k), master \in Hart
  PROVE  /\ Peers(k) \subseteq Hart /\ Peers(k) # {} /\ master \notin Peers(k)
         /\ Team(k) \subseteq Hart /\ master \in Team(k) /\ Team(k) = Peers(k) \cup {master}
         /\ k = "TMR_MODE" => Team(k) = Hart /\ Cardinality(Peers(k)) = 2
         /\ k = "DMR_MODE" => Team(k) = mask /\ \E q : Peers(k) = {q}
<1>1. CASE k = "TMR_MODE"
  BY <1>1, TwoOthers DEF Peers, Team
<1>2. CASE k = "DMR_MODE"
  <2>1. Team(k) = mask /\ mask \in Pair(master)
    BY <1>2 DEF Team
  <2>2. PICK q \in Hart : q # master /\ mask = {master, q}
    BY <2>1, PairOfTwo
  <2>3. QED
    BY <1>2, <2>1, <2>2 DEF Peers
<1>3. QED
  BY <1>1, <1>2

LEMMA HaltWires ==
  ASSUME TypeOK, NEW k \in Kinds, NEW s \in {"IDLE", Switch(k)},
         Machines(k, s, k, "SH_HALT", "SH_HALT"), Paired(k), ~delayFf
  PROVE  /\ InterruptHalt(master) = Peers(k) /\ InterruptSync(master) = {}
         /\ InterruptSwResync = {} /\ WfiDmr = {} /\ Checked = {} /\ DualMode = {}
         /\ k = "TMR_MODE" => SingleBus
         /\ Unheld(TRUE) /\ Unheld(FALSE)
         /\ ~StartBoot /\ ~EnExtDebug
<1>1. /\ InterruptHalt(master) = Peers(k) /\ InterruptSync(master) = {}
      /\ InterruptSwResync = {} /\ WfiDmr = {} /\ Checked = {} /\ DualMode = {}
      /\ k = "TMR_MODE" => SingleBus
      /\ ~StartBoot /\ ~EnExtDebug
  BY ThreeHarts, FS_EmptySet DEF TypeOK, CtrlTypeOK, Checked, DualMode, Machines, Pair,
    TmrIn, DmrIn, InterruptHalt, InterruptSync, InterruptSwResync, WfiDmr, SwitchToSingle,
    SwitchTMRtoSingle, SwitchDMRtoSingle, SwitchSingletoTMR, SwitchSingletoDMR, Switch,
    StartBoot, EnExtDebug, SingleBus, TmrVoting, Team, Peers
<1>2. QED
  BY <1>1, UnheldAlone

(* The cores called, while they rest. *)
LEMMA CallPeers ==
  ASSUME TypeOK, NEW k \in Kinds, NEW s \in {"IDLE", Switch(k)},
         Machines(k, s, k, "SH_HALT", "SH_HALT"), Meeting(k), OthersRest, Waits,
         NEW S, NEW call, NEW victims, NEW w, Works(S, call, victims, w)
  PROVE  /\ Meeting(k)' /\ Waits' /\ dbgReq' = "halt" /\ UNCHANGED <<cfg, mask, master>>
         /\ AtRest(Hart \ Team(k))'
         /\ AtRest(Peers(k))' \/ AllAt(Peers(k), "dbg")'
<1>1. /\ InterruptHalt(master) = Peers(k) /\ InterruptSync(master) = {}
      /\ InterruptSwResync = {} /\ WfiDmr = {} /\ Checked = {} /\ DualMode = {}
      /\ k = "TMR_MODE" => SingleBus
      /\ Unheld(TRUE) /\ Unheld(FALSE)
      /\ ~StartBoot /\ ~EnExtDebug
  BY HaltWires DEF Meeting, Working
<1>2. /\ Peers(k) \subseteq Hart /\ master \notin Peers(k) /\ master \in Hart
      /\ Team(k) = Peers(k) \cup {master} /\ Team(k) \subseteq Hart
      /\ k = "DMR_MODE" => \E q : Peers(k) = {q}
  BY PeersOf DEF TypeOK, CtrlTypeOK, Meeting, Working
<1>3. /\ pc[master] = "act_slp" /\ ~intcAck[master] /\ ctx = "act_pc"
      /\ \A h \in Hart \ {master} : pc[h] \in Rest /\ ~intcAck[h]
  BY DEF Waits, OthersRest, AllAt, AtRest
<1>4. \A h \in Hart : CanStep(h) <=> h \in Peers(k)
  BY <1>1, <1>2, <1>3 DEF CanStep, TakesDebug, TakesIrq, DebugReq, Irq, Rest, Halted,
                          Sleeping, Dead
<1>5. S = {} \/ S = Peers(k)
  <2>1. OnOneBus(Peers(k))
    BY <1>1, <1>2 DEF OnOneBus
  <2>2. QED
    BY <1>1, <1>2, <1>4, <2>1, Together
<1>6. \A h \in Peers(k) : TakesDebug(h)
  BY <1>1, <1>2, <1>3 DEF TakesDebug, DebugReq, Rest, Halted
<1>7. /\ ctx' = ctx
      /\ UNCHANGED <<cfg, mask, master>> /\ LifeKept(EndKept) /\ IntrKept(Asleep = Hart)
      /\ DebugNext
      /\ \A h \in Hart : intcAck'[h] = intcAck[h]
      /\ \A h \in Hart : h \in S /\ TakesDebug(h) => pc'[h] = "dbg"
  BY <1>1, <1>5, <1>6, CalledAway
<1>8. \A h \in Hart : h \notin S => pc'[h] = pc[h]
  BY Stays
<1>9. Meeting(k)'
  BY <1>1, <1>7, MeetingKept
<1>10. Team(k)' = Team(k) /\ Peers(k)' = Peers(k)
  BY <1>7 DEF Team, Peers
<1>11. Waits' /\ AtRest(Hart \ Team(k))'
  BY <1>2, <1>3, <1>5, <1>7, <1>8, <1>10 DEF Waits, AllAt, AtRest
<1>12. AtRest(Peers(k))' \/ AllAt(Peers(k), "dbg")'
  BY <1>2, <1>3, <1>5, <1>6, <1>7, <1>8, <1>10 DEF AllAt, AtRest
<1>13. dbgReq' = "halt"
  BY <1>1, <1>7 DEF DebugNext, DebugWord
<1>14. QED
  BY <1>7, <1>9, <1>11, <1>12, <1>13

LEMMA CallingNext ==
  ASSUME TypeOK, NEW k \in Kinds, Calling(k),
         NEW S, NEW call, NEW victims, NEW w, Works(S, call, victims, w)
  PROVE  Halting(k)'
<1>1. /\ Meeting(k)' /\ Waits' /\ dbgReq' = "halt" /\ UNCHANGED <<cfg, mask, master>>
      /\ AtRest(Hart \ Team(k))'
      /\ AtRest(Peers(k))' \/ AllAt(Peers(k), "dbg")'
  BY CallPeers DEF Calling
<1>2. AllIn(k, "SH_HALT")'
  <2>1. PICK in : InputOf(in, victims)
    BY RunningInput DEF Calling, Meeting
  <2>2. in.halt = {}
    BY <2>1 DEF InputOf, Calling, Waits, OthersRest, AllAt, AtRest, Halted, Rest
  <2>3. NextMachines(k, "IDLE", k, "SH_HALT", "SH_HALT")
    BY <2>1, <2>2, MachinesCalling DEF Calling, Meeting, Working, InputOf
  <2>4. QED
    BY <1>1, <2>3, MachinesPrimed DEF AllIn
<1>3. QED
  BY <1>1, <1>2 DEF Halting

LEMMA HaltingNext ==
  ASSUME TypeOK, NEW k \in Kinds, Halting(k),
         NEW S, NEW call, NEW victims, NEW w, Works(S, call, victims, w)
  PROVE  Halting(k)' \/ Restoring(k)'
<1>1. /\ Peers(k) \subseteq Hart /\ master \notin Peers(k) /\ master \in Hart
      /\ Team(k) = Peers(k) \cup {master} /\ Team(k) \subseteq Hart /\ Peers(k) # {}
      /\ k = "DMR_MODE" => \E q : Peers(k) = {q}
  BY PeersOf DEF TypeOK, CtrlTypeOK, Halting, Meeting, Working
<1>2. Machines(k, "IDLE", k, "SH_HALT", "SH_HALT")
  BY DEF Halting, AllIn
<1>3. pc[master] = "act_slp" /\ ~intcAck[master] /\ ctx = "act_pc"
  BY DEF Halting, Waits, AllAt
<1>4. PICK in : InputOf(in, victims)
  BY RunningInput DEF Halting, Meeting
<1>5. CASE AtRest(Peers(k))
  <2>1. OthersRest
    BY <1>1, <1>5 DEF Halting, OthersRest, AtRest
  <2>2. /\ Meeting(k)' /\ Waits' /\ dbgReq' = "halt" /\ UNCHANGED <<cfg, mask, master>>
        /\ AtRest(Hart \ Team(k))'
        /\ AtRest(Peers(k))' \/ AllAt(Peers(k), "dbg")'
    BY <1>2, <2>1, CallPeers DEF Halting
  <2>3. in.halt = {}
    BY <1>3, <1>4, <2>1 DEF InputOf, OthersRest, AtRest, Halted, Rest
  <2>4. NextMachines(k, "IDLE", k, "SH_HALT", "SH_HALT")
    BY <1>4, <2>3, MachinesHalting DEF Halting, Meeting, Working, InputOf
  <2>5. AllIn(k, "SH_HALT")'
    BY <2>2, <2>4, MachinesPrimed DEF AllIn
  <2>6. QED
    BY <2>2, <2>5 DEF Halting
<1>6. CASE AllAt(Peers(k), "dbg")
  <2>1. /\ InterruptHalt(master) = Peers(k) /\ InterruptSync(master) = {}
        /\ InterruptSwResync = {} /\ WfiDmr = {} /\ Checked = {} /\ DualMode = {}
        /\ k = "TMR_MODE" => SingleBus
        /\ Unheld(TRUE) /\ Unheld(FALSE)
        /\ ~StartBoot /\ ~EnExtDebug
    BY <1>2, HaltWires DEF Halting, Meeting, Working
  <2>2. \A h \in Peers(k) : pc[h] = "dbg" /\ ~intcAck[h]
    BY <1>6 DEF AllAt
  <2>3. \A h \in Hart \ Team(k) : pc[h] \in Rest /\ ~intcAck[h]
    BY DEF Halting, AtRest
  <2>4. \A h \in Hart : CanStep(h) <=> h \in Peers(k)
    BY <1>1, <1>3, <2>1, <2>2, <2>3
       DEF CanStep, TakesDebug, TakesIrq, DebugReq, Irq, Rest, Halted, Sleeping, Dead
  <2>5. S = {} \/ S = Peers(k)
    <3>1. OnOneBus(Peers(k))
      BY <1>1, <2>1 DEF OnOneBus
    <3>2. QED
      BY <1>1, <2>1, <2>4, <3>1, Together
  <2>6. \A h \in Peers(k) : \A l : Runs(h, l) <=> l = "dbg"
    BY <1>1, <2>1, <2>2 DEF Runs, TakesDebug, TakesIrq, DebugReq, Irq, Halted
  <2>7. w = NoWrite
    BY <2>5, <2>6, WriteIs DEF WriteOf
  <2>8. /\ UNCHANGED <<cfg, mask, master>> /\ LifeKept(EndKept) /\ IntrKept(Asleep = Hart)
        /\ DebugNext
    BY <2>7, NoWriteWorks
  <2>9. CoresTick(S, call, victims)
    BY WorksParts
  <2>10. ctx' = ctx
    BY <2>5, <2>6, <2>9 DEF CoresTick, CtxNext, Halting
  <2>11. \A h \in Hart \ S : pc'[h] = pc[h] /\ intcAck'[h] = intcAck[h]
    BY Stays
  <2>12. \A h \in S : pc'[h] = "restore" /\ intcAck'[h] = intcAck[h]
    <3> SUFFICES ASSUME NEW h \in Peers(k), S = Peers(k)
                 PROVE  pc'[h] = "restore" /\ intcAck'[h] = intcAck[h]
      BY <2>5
    <3>1. ~TakesDebug(h) /\ ~TakesIrq(h) /\ h \notin WfiDmr
      BY <1>1, <2>1, <2>2 DEF TakesDebug, TakesIrq, Irq, Halted
    <3>2. PcNext(h, call) = DebugEntry
      BY <2>2, <3>1 DEF PcNext
    <3>3. DebugEntry = "restore"
      BY DEF DebugEntry, Halting
    <3>4. AckNext(h) = intcAck[h]
      BY <2>6 DEF AckNext
    <3>5. QED
      BY <1>1, <2>9, <3>2, <3>3, <3>4 DEF CoresTick
  <2>13. Meeting(k)'
    BY <2>1, <2>8, MeetingKept DEF Halting
  <2>14. Team(k)' = Team(k) /\ Peers(k)' = Peers(k)
    BY <2>8 DEF Team, Peers
  <2>15. Waits' /\ AtRest(Hart \ Team(k))'
    BY <1>1, <1>3, <2>3, <2>5, <2>8, <2>10, <2>11, <2>14 DEF Waits, AllAt, AtRest
  <2>16. AllAt(Peers(k), "dbg")' \/ AllAt(Peers(k), "restore")'
    BY <1>1, <2>2, <2>5, <2>11, <2>12, <2>14 DEF AllAt
  <2>17. dbgReq' = "halt"
    BY <2>1, <2>8 DEF DebugNext, DebugWord
  <2>18. AllIn(k, "WAIT_SH")'
    <3>1. in.halt = Peers(k)
      BY <1>1, <1>3, <1>4, <2>2, <2>3 DEF InputOf, Halted, Rest
    <3>2. NextMachines(k, "IDLE", k, "WAIT_SH", "WAIT_SH")
      BY <1>1, <1>4, <3>1, MachinesHalting DEF Halting, Meeting, Working, InputOf
    <3>3. QED
      BY <2>8, <3>2, MachinesPrimed DEF AllIn
  <2>19. QED
    BY <2>13, <2>15, <2>16, <2>17, <2>18 DEF Restoring, Halted
<1>7. QED
  BY <1>5, <1>6 DEF Halting

(* Cores in the debug ROM: entry, or copy of the safe copy. *)
LEMMA Reloading ==
  ASSUME NEW S, NEW call, NEW victims, NEW w, Works(S, call, victims, w), WfiDmr = {},
         NEW l \in Halted, \A h \in S : pc[h] = l
  PROVE  /\ w = NoWrite
         /\ UNCHANGED <<cfg, mask, master, crit, initSync>> /\ DebugNext
         /\ LifeKept(EndKept) /\ IntrKept(Asleep = Hart)
         /\ \A h \in Hart : h \in S => /\ pc'[h] = IF l = "dbg" THEN DebugEntry ELSE Restored
                                       /\ intcAck'[h] = intcAck[h]
         /\ bad' = (bad \ S) \cup victims
         /\ ctx' = IF S # {} /\ l = "dbg" /\ dbgReq = "boot" THEN "none" ELSE ctx
<1>1. \A h \in S : ~TakesDebug(h) /\ ~TakesIrq(h) /\ h \notin WfiDmr
  BY DEF TakesDebug, TakesIrq, NoIrq
<1>2. \A h \in S : \A v : Runs(h, v) <=> v = l
  BY <1>1 DEF Runs
<1>3. w = NoWrite
  BY <1>2, WriteIs DEF WriteOf, Halted
<1>4. CoresTick(S, call, victims)
  BY WorksParts
<1>5. {h \in S : Repairs(h)} = S
  BY <1>2 DEF Repairs, Reloads, Halted
<1>6. bad' = (bad \ S) \cup victims
  BY <1>4, <1>5 DEF CoresTick
<1>7. ctx' = IF S # {} /\ l = "dbg" /\ dbgReq = "boot" THEN "none" ELSE ctx
  BY <1>2, <1>4 DEF CoresTick, CtxNext, Halted
<1>8. \A h \in Hart : h \in S => /\ pc'[h] = IF l = "dbg" THEN DebugEntry ELSE Restored
                                 /\ intcAck'[h] = intcAck[h]
  <2> SUFFICES ASSUME NEW h \in Hart, h \in S
               PROVE  /\ pc'[h] = IF l = "dbg" THEN DebugEntry ELSE Restored
                      /\ intcAck'[h] = intcAck[h]
    OBVIOUS
  <2>1. PcNext(h, call) = IF l = "dbg" THEN DebugEntry ELSE Restored
    BY <1>1 DEF PcNext, Halted
  <2>2. AckNext(h) = intcAck[h]
    BY <1>2 DEF AckNext, Halted
  <2>3. QED
    BY <1>4, <2>1, <2>2 DEF CoresTick
<1>9. QED
  BY <1>3, <1>6, <1>7, <1>8, NoWriteWorks

LEMMA FreeTeam ==
  ASSUME Free, NEW S, NEW call, NEW victims, NEW w, Works(S, call, victims, w),
         Unheld(TRUE), Unheld(FALSE), NEW G \in SUBSET Hart, NEW l,
         \A h \in G : pc[h] = l, \A h \in Hart \ G : pc[h] \in Sleeping, OnOneBus(G)
  PROVE  S = {} \/ (S = G /\ l \notin Sleeping \cup Dead)
<1>1. \A h \in Hart : CanStep(h) <=> pc[h] \notin Sleeping \cup Dead
  BY FreeCore
<1>2. CASE l \notin Sleeping \cup Dead
  <2>1. \A h \in Hart : CanStep(h) <=> h \in G
    BY <1>1, <1>2
  <2>2. S = {} \/ S = G
    BY <2>1, Together DEF Free
  <2>3. QED
    BY <1>2, <2>2
<1>3. CASE l \in Sleeping \cup Dead
  BY <1>1, <1>3, Able
<1>4. QED
  BY <1>2, <1>3

LEMMA RestoringWires ==
  ASSUME TypeOK, NEW k \in Kinds, AllIn(k, "WAIT_SH"), Paired(k), ~delayFf
  PROVE  /\ Free /\ Checked = {} /\ DualMode = {}
         /\ k = "TMR_MODE" => SingleBus
         /\ Unheld(TRUE) /\ Unheld(FALSE)
         /\ ~StartBoot /\ ~EnExtDebug
<1>1. /\ Free /\ Checked = {} /\ DualMode = {}
      /\ k = "TMR_MODE" => SingleBus
      /\ ~StartBoot /\ ~EnExtDebug
  BY ThreeHarts, FS_EmptySet DEF TypeOK, CtrlTypeOK, Checked, DualMode, Machines, AllIn,
    TmrIn, DmrIn, InterruptHalt, InterruptSync, InterruptSwResync, WfiDmr, SwitchToSingle,
    SwitchTMRtoSingle, SwitchDMRtoSingle, SwitchSingletoTMR, SwitchSingletoDMR, Switch,
    StartBoot, EnExtDebug, SingleBus, TmrVoting, Free
<1>2. QED
  BY <1>1, UnheldAlone

LEMMA RestoringNext ==
  ASSUME TypeOK, NEW k \in Kinds, Restoring(k),
         NEW S, NEW call, NEW victims, NEW w, Works(S, call, victims, w)
  PROVE  Restoring(k)' \/ Syncing(k)'
<1>1. /\ Peers(k) \subseteq Hart /\ master \notin Peers(k) /\ master \in Hart
      /\ Team(k) = Peers(k) \cup {master} /\ Team(k) \subseteq Hart /\ Peers(k) # {}
      /\ k = "DMR_MODE" => \E q : Peers(k) = {q}
  BY PeersOf DEF TypeOK, CtrlTypeOK, Restoring, Meeting, Working
<1>2. /\ Free /\ Checked = {} /\ DualMode = {}
      /\ k = "TMR_MODE" => SingleBus
      /\ Unheld(TRUE) /\ Unheld(FALSE)
      /\ ~StartBoot /\ ~EnExtDebug
  BY RestoringWires DEF Restoring, Meeting, Working
<1>3. pc[master] = "act_slp" /\ ~intcAck[master] /\ ctx = "act_pc"
  BY DEF Restoring, Waits, AllAt
<1>4. \A h \in Hart \ Team(k) : pc[h] \in Rest /\ ~intcAck[h]
  BY DEF Restoring, AtRest
<1>5. PICK l \in {"dbg", "restore", "act_pc", "act_wfi", "act_slp"} :
        /\ AllAt(Peers(k), l)
        /\ l \notin Halted => bad \cap Team(k) = {}
  BY DEF Restoring
<1>6. \A h \in Peers(k) : pc[h] = l /\ ~intcAck[h]
  BY <1>5 DEF AllAt
<1>7. S = {} \/ (S = Peers(k) /\ l # "act_slp")
  <2>1. \A h \in Hart \ Peers(k) : pc[h] \in Sleeping
    BY <1>1, <1>3, <1>4 DEF Sleeping, Rest
  <2>2. OnOneBus(Peers(k))
    BY <1>1, <1>2 DEF OnOneBus
  <2>3. S = {} \/ (S = Peers(k) /\ l \notin Sleeping \cup Dead)
    BY <1>1, <1>2, <1>6, <2>1, <2>2, FreeTeam
  <2>4. QED
    BY <2>3 DEF Sleeping
<1>8. \A h \in Hart : h \notin S => pc'[h] = pc[h] /\ intcAck'[h] = intcAck[h]
  BY Stays
<1>9. victims = {}
  BY <1>2, NoVictims
<1>10. PICK r \in {"dbg", "restore", "act_pc", "act_wfi", "act_slp"} :
        /\ UNCHANGED <<cfg, mask, master>> /\ LifeKept(EndKept) /\ IntrKept(Asleep = Hart)
        /\ DebugNext
        /\ \A h \in Peers(k) : pc'[h] = r /\ ~intcAck'[h]
        /\ ctx' = "act_pc" /\ bad' \subseteq bad
        /\ r \notin Halted => bad' \cap Team(k) = {}
        /\ l = "act_slp" => r = "act_slp"
  <2>1. CASE S = {}
    <3>1. w = NoWrite /\ ctx' = ctx /\ bad' = bad
      BY <1>9, <2>1, NobodyMoves
    <3>2. QED
      BY <1>1, <1>3, <1>5, <1>6, <1>8, <2>1, <3>1, NoWriteWorks
  <2>2. CASE S = Peers(k) /\ l \in Halted
    <3>1. WfiDmr = {} /\ \A h \in S : pc[h] = l
      BY <1>2, <1>6, <2>2 DEF Free
    <3>2. /\ UNCHANGED <<cfg, mask, master>> /\ DebugNext
          /\ LifeKept(EndKept) /\ IntrKept(Asleep = Hart)
          /\ \A h \in Hart : h \in S => /\ pc'[h] = IF l = "dbg" THEN DebugEntry ELSE Restored
                                        /\ intcAck'[h] = intcAck[h]
          /\ bad' = bad \ S
          /\ ctx' = IF S # {} /\ l = "dbg" /\ dbgReq = "boot" THEN "none" ELSE ctx
      BY <1>9, <2>2, <3>1, Reloading
    <3>3. DebugEntry = "restore" /\ Restored = "act_pc" /\ ctx' = ctx
      BY <1>3, <3>2 DEF DebugEntry, Restored, Restoring
    <3>4. bad' \cap Team(k) = {}
      BY <1>1, <2>2, <3>2 DEF Restoring, Meeting
    <3>5. QED
      BY <1>1, <1>3, <1>6, <2>2, <3>2, <3>3, <3>4 DEF Halted
  <2>3. CASE S = Peers(k) /\ l \in {"act_pc", "act_wfi"}
    <3>1. \A h \in S : WriteOf(h, call) = NoWrite
      BY <1>2, <1>6, <2>3, FreeWrite
    <3>2. w = NoWrite
      BY <3>1, WriteIs
    <3>3. \A h \in Peers(k) : pc'[h] = Follow[l] /\ ~intcAck'[h]
      BY <1>1, <1>2, <1>6, <2>3, Follows DEF Branching
    <3>4. ctx' = "act_pc" /\ bad' \subseteq bad
      BY <1>2, <1>3, <1>6, <1>9, <2>3, WorksParts, FreeData
    <3>5. QED
      BY <1>5, <2>3, <3>2, <3>3, <3>4, NoWriteWorks, FollowIs DEF Halted
  <2>4. QED
    BY <1>7, <2>1, <2>2, <2>3 DEF Halted
<1>11. Meeting(k)'
  BY <1>2, <1>10, MeetingKept DEF Restoring
<1>12. Team(k)' = Team(k) /\ Peers(k)' = Peers(k)
  BY <1>10 DEF Team, Peers
<1>13. Waits' /\ AtRest(Hart \ Team(k))' /\ AllAt(Peers(k), r)'
  BY <1>1, <1>3, <1>4, <1>7, <1>8, <1>10, <1>12 DEF Waits, AllAt, AtRest
<1>14. dbgReq' = "halt"
  BY <1>2, <1>10 DEF DebugNext, DebugWord
<1>15. PICK in : InputOf(in, victims)
  BY RunningInput DEF Restoring, Meeting
<1>16. CASE in.wfi # Hart
  <2>1. NextMachines(k, "IDLE", k, "WAIT_SH", "WAIT_SH")
    BY <1>15, <1>16, MachinesRestoring DEF Restoring, Meeting, Working, InputOf
  <2>2. AllIn(k, "WAIT_SH")'
    BY <1>10, <2>1, MachinesPrimed DEF AllIn
  <2>3. QED
    BY <1>10, <1>11, <1>12, <1>13, <1>14, <2>2 DEF Restoring
<1>17. CASE in.wfi = Hart
  <2>1. NextMachines(k, "IDLE", k, "MS_INTRSYNC", "MS_INTRSYNC")
    BY <1>15, <1>17, MachinesRestoring DEF Restoring, Meeting, Working, InputOf
  <2>2. AllIn(k, "MS_INTRSYNC")'
    BY <1>10, <2>1, MachinesPrimed DEF AllIn
  <2>3. r = "act_slp" /\ bad' \cap Team(k) = {}
    <3>1. Asleep = Hart
      BY <1>15, <1>17 DEF InputOf
    <3>2. \A h \in Peers(k) : pc[h] \in Sleeping
      BY <1>1, <1>2, <3>1, FreeAsleep
    <3>3. l = "act_slp"
      BY <1>1, <1>6, <3>2 DEF Sleeping
    <3>4. QED
      BY <1>5, <1>10, <3>3 DEF Halted
  <2>4. AllAt(Team(k), "act_slp")'
    <3>1. master' = master /\ Team(k)' = Peers(k) \cup {master}
      BY <1>1, <1>10, <1>12
    <3>2. \A h \in Peers(k) : pc'[h] = "act_slp" /\ ~intcAck'[h]
      BY <1>10, <2>3
    <3>3. pc'[master] = "act_slp" /\ ~intcAck'[master]
      BY <1>13, <3>1 DEF Waits, AllAt
    <3>4. QED
      BY <3>1, <3>2, <3>3 DEF AllAt
  <2>5. QED
    BY <1>11, <1>12, <1>13, <2>2, <2>3, <2>4 DEF Syncing, Meeting, DelayFor
<1>18. QED
  BY <1>16, <1>17

-----------------------------------------------------------------------------
(* What teams keep while nothing is voted or compared.                     *)

LEMMA WorkingKept ==
  ASSUME NEW k \in Kinds, Working(k), Checked = {}, DelayFor,
         NEW S, NEW call, NEW victims, NEW w, Works(S, call, victims, w),
         UNCHANGED <<cfg, mask, master>>
  PROVE  Working(k)' /\ DelayFor' /\ victims = {}
<1>1. victims = {}
  BY NoVictims
<1>2. masterFf' = master /\ ~diff'
  BY <1>1, WorksParts, DataIs DEF Working, DmrErrorOnBus
<1>3. DelayFor'
  BY WorksParts, DelayIs DEF DelayFor, Delayed, DmrDelayed
<1>4. QED
  BY <1>1, <1>2, <1>3 DEF Working

LEMMA RunningKept ==
  ASSUME Running, LifeKept(EndKept), IntrKept(Asleep = Hart),
         NEW S, NEW call, NEW victims, NEW w, Works(S, call, victims, w)
  PROVE  Running'
BY WorksParts, LifeFalling DEF Running

LEMMA UnheldTeam ==
  ASSUME NEW k \in Kinds, ModeOf(cfg) = k, Working(k), DelayFor, Checked = {},
         k = "DMR_MODE" => DualMode # {}, k = "TMR_MODE" => DualMode = {}
  PROVE  Unheld(TRUE) /\ Unheld(FALSE)
<1>1. \A err : HeldBack(err) = {}
  BY DEF Working, Checked, HeldBack, DmrErrorOnBus
<1>2. Starved = {}
  BY DEF Starved, Delayed, DmrDelayed, DelayFor, ModeOf
<1>3. QED
  BY <1>1, <1>2 DEF Unheld

LEMMA ErrorsForgotten ==
  ASSUME NEW victims, NEW in, FsmTick(in), in.tmrErr = (victims # {} /\ TmrIn({"SYNC"}) # {}),
         Checked = {}
  PROVE  ~errFf' /\ ~errSeen'
<1>1. TmrIn({"SYNC"}) = {} /\ Hart # {}
  BY ThreeHarts, FS_EmptySet DEF Checked
<1>2. QED
  BY <1>1 DEF FsmTick, ErrSeenNext, ErrToggles, ErrForgotten

(* Cores in an interrupt handler. *)
Handled(S, victims, l) ==
  /\ bad' = (IF l = "rs_clr" THEN bad \ S ELSE bad) \cup victims
  /\ \A h \in Hart : h \in S =>
       /\ l \notin {"hdl_ret", "rs_ret"} => pc'[h] = Follow[l] /\ ret'[h] = ret[h]
       /\ l \in {"hdl_ret", "rs_ret"} => pc'[h] = ret[h] /\ intcAck'[h] = intcAck[h]
       /\ l \in {"hdl_ack", "rs_ack"} => intcAck'[h] = TRUE
       /\ l \in {"hdl_clr", "rs_clr"} => intcAck'[h] = FALSE

LEMMA Handling ==
  ASSUME NEW S, NEW call, NEW victims, NEW w, Works(S, call, victims, w), WfiDmr = {},
         InterruptHalt(master) = {}, NEW l, l \in Handler, \A h \in S : pc[h] = l
  PROVE  /\ w = NoWrite
         /\ UNCHANGED <<cfg, mask, master, crit, initSync>> /\ DebugNext
         /\ LifeKept(EndKept) /\ IntrKept(Asleep = Hart)
         /\ ctx' = ctx
         /\ Handled(S, victims, l)
         /\ \A h \in Hart : heir'[h] = heir[h]
<1>1. \A h \in S : ~TakesDebug(h) /\ ~TakesIrq(h) /\ h \notin WfiDmr
  BY DEF TakesDebug, TakesIrq, NoIrq, DebugReq
<1>2. \A h \in S : \A v : Runs(h, v) <=> v = l
  BY <1>1 DEF Runs
<1>3. \A h \in S : WriteOf(h, call) = NoWrite
  BY <1>2 DEF WriteOf, Handler
<1>4. w = NoWrite
  BY <1>3, WriteIs
<1>5. CoresTick(S, call, victims)
  BY WorksParts
<1>6. bad' = (IF l = "rs_clr" THEN bad \ S ELSE bad) \cup victims
  <2>1. {h \in S : Repairs(h)} = IF l = "rs_clr" THEN S ELSE {}
    BY <1>2 DEF Repairs, Reloads, Handler
  <2>2. QED
    BY <1>5, <2>1 DEF CoresTick
<1>7. ctx' = ctx
  BY <1>2, <1>5 DEF CoresTick, CtxNext, Handler
<1>8. \A h \in Hart : heir'[h] = heir[h]
  <2>1. \A h \in S : HeirNext(h, call) = heir[h]
    BY <1>2 DEF HeirNext, Reloads, Handler
  <2>2. QED
    BY <1>5, <2>1 DEF CoresTick
<1>9. \A h \in Hart : h \in S =>
        /\ l \notin {"hdl_ret", "rs_ret"} => pc'[h] = Follow[l] /\ ret'[h] = ret[h]
        /\ l \in {"hdl_ret", "rs_ret"} => pc'[h] = ret[h] /\ intcAck'[h] = intcAck[h]
        /\ l \in {"hdl_ack", "rs_ack"} => intcAck'[h] = TRUE
        /\ l \in {"hdl_clr", "rs_clr"} => intcAck'[h] = FALSE
  <2> SUFFICES ASSUME NEW h \in Hart, h \in S
               PROVE  /\ pc'[h] = IF l \in {"hdl_ret", "rs_ret"} THEN ret[h] ELSE Follow[l]
                      /\ intcAck'[h] = IF l \in {"hdl_ack", "rs_ack"} THEN TRUE
                         ELSE IF l \in {"hdl_clr", "rs_clr"} THEN FALSE ELSE intcAck[h]
                      /\ l \notin {"hdl_ret", "rs_ret"} => ret'[h] = ret[h]
    OBVIOUS
  <2>1. PcNext(h, call) = IF l \in {"hdl_ret", "rs_ret"} THEN ret[h] ELSE Follow[l]
    BY <1>1 DEF PcNext, Handler
  <2>2. AckNext(h) = IF l \in {"hdl_ack", "rs_ack"} THEN TRUE
                     ELSE IF l \in {"hdl_clr", "rs_clr"} THEN FALSE ELSE intcAck[h]
    BY <1>2 DEF AckNext, Handler
  <2>3. l \notin {"hdl_ret", "rs_ret"} => RetNext(h) = ret[h]
    BY <1>1, <1>2 DEF RetNext, Reloads, Handler
  <2>4. QED
    BY <1>5, <2>1, <2>2, <2>3 DEF CoresTick
<1>10. QED
  BY <1>4, <1>6, <1>7, <1>8, <1>9, NoWriteWorks DEF Handled

-----------------------------------------------------------------------------
(* The team has joined: every core takes the interrupt that ends its wfi.  *)

LEMMA SyncingWires ==
  ASSUME TypeOK, NEW k \in Kinds, AllIn(k, "MS_INTRSYNC"), Paired(k)
  PROVE  /\ InterruptHalt(master) = {} /\ InterruptSync(master) = Team(k)
         /\ InterruptSwResync = {} /\ WfiDmr = {} /\ Checked = {}
         /\ k = "DMR_MODE" => DualMode # {}
         /\ k = "TMR_MODE" => DualMode = {}
         /\ SingleBus
BY PeersOf DEF TypeOK, CtrlTypeOK, Checked, DualMode, Machines, AllIn,
    TmrIn, DmrIn, InterruptHalt, InterruptSync, InterruptSwResync, WfiDmr, SwitchToSingle,
    SwitchTMRtoSingle, SwitchDMRtoSingle, SwitchSingletoTMR, SwitchSingletoDMR,
    SingleBus, TmrVoting, Team

LEMMA SyncingNext ==
  ASSUME TypeOK, TypeOK', NEW k \in Kinds, Syncing(k),
         NEW S, NEW call, NEW victims, NEW w, Works(S, call, victims, w)
  PROVE  Syncing(k)' \/ Voting' \/ Comparing'
<1>1. /\ master \in Team(k) /\ Team(k) \subseteq Hart /\ master \in Hart
      /\ k = "TMR_MODE" => Team(k) = Hart
      /\ k = "DMR_MODE" => Team(k) = mask
  BY PeersOf DEF TypeOK, CtrlTypeOK, Syncing, Working
<1>2. /\ InterruptHalt(master) = {} /\ InterruptSync(master) = Team(k)
      /\ InterruptSwResync = {} /\ WfiDmr = {} /\ Checked = {}
      /\ k = "DMR_MODE" => DualMode # {}
      /\ k = "TMR_MODE" => DualMode = {}
      /\ SingleBus
  BY SyncingWires DEF Syncing, Working
<1>3. Unheld(TRUE) /\ Unheld(FALSE)
  BY <1>2, UnheldTeam DEF Syncing
<1>4. \A h \in Hart \ Team(k) : pc[h] \in Rest /\ ~intcAck[h]
  BY DEF Syncing, AtRest
<1>5. PICK l \in {"act_slp", "hdl_ack", "hdl_clr"} :
        \A h \in Team(k) : /\ pc[h] = l
                           /\ IF l = "hdl_clr" THEN intcAck[h] ELSE ~intcAck[h]
                           /\ l # "act_slp" => ret[h] = "act_end"
  <2>1. CASE AllAt(Team(k), "act_slp")
    BY <2>1 DEF AllAt
  <2>2. CASE Handles(Team(k), "hdl_ack", FALSE, "act_end")
    BY <2>2 DEF Handles
  <2>3. CASE Handles(Team(k), "hdl_clr", TRUE, "act_end")
    BY <2>3 DEF Handles
  <2>4. QED
    BY <2>1, <2>2, <2>3 DEF Syncing
<1>6. \A h \in Hart : CanStep(h) <=> h \in Team(k)
  BY <1>1, <1>2, <1>4, <1>5 DEF CanStep, TakesDebug, TakesIrq, DebugReq, Irq, Rest, NoIrq,
                                Handler, Halted, Sleeping, Dead
<1>7. S = {} \/ S = Team(k)
  BY <1>1, <1>2, <1>3, <1>6, Together DEF OnOneBus
<1>8. /\ \A h \in Hart : h \notin S => /\ pc'[h] = pc[h] /\ intcAck'[h] = intcAck[h]
                                       /\ ret'[h] = ret[h]
  BY Stays
<1>9. PICK r \in {"act_slp", "hdl_ack", "hdl_clr", "hdl_ret"} :
        /\ UNCHANGED <<cfg, mask, master>> /\ LifeKept(EndKept) /\ IntrKept(Asleep = Hart)
        /\ bad' \subseteq bad \cup victims
        /\ \A h \in Team(k) : /\ pc'[h] = r
                              /\ IF r = "hdl_clr" THEN intcAck'[h] ELSE ~intcAck'[h]
                              /\ r # "act_slp" => ret'[h] = "act_end"
        /\ l = "hdl_clr" => r \in {"hdl_clr", "hdl_ret"}
        /\ l # "hdl_clr" => r # "hdl_ret"
  <2>1. CASE S = {}
    <3>1. w = NoWrite /\ bad' = bad \cup victims
      BY <2>1, NobodyMoves
    <3>2. QED
      BY <1>1, <1>5, <1>8, <2>1, <3>1, NoWriteWorks
  <2>2. CASE S = Team(k) /\ l = "act_slp"
    <3>1. \A h \in S : TakesIrq(h)
      BY <1>1, <1>2, <1>5, <2>2
         DEF TakesIrq, TakesDebug, DebugReq, Irq, NoIrq, Halted, Handler
    <3>2. /\ UNCHANGED <<cfg, mask, master>> /\ bad' = bad \cup victims
          /\ LifeKept(EndKept) /\ IntrKept(Asleep = Hart)
          /\ \A h \in Hart : intcAck'[h] = intcAck[h]
          /\ \A h \in Hart : h \in S /\ TakesIrq(h) =>
              /\ pc'[h] = IF h \in InterruptSwResync THEN "rs_ack" ELSE "hdl_ack"
              /\ ret'[h] = IF pc[h] \in Sleeping \ {"iso"} THEN Follow[pc[h]] ELSE pc[h]
      BY <1>2, <3>1, CalledAway
    <3>3. \A h \in Team(k) : pc'[h] = "hdl_ack" /\ ret'[h] = "act_end" /\ ~intcAck'[h]
      <4>1. Follow["act_slp"] = "act_end"
        BY FollowIs
      <4>2. QED
        BY <1>1, <1>2, <1>5, <2>2, <3>1, <3>2, <4>1 DEF Sleeping
    <3>4. QED
      BY <2>2, <3>2, <3>3
  <2>3. CASE S = Team(k) /\ l # "act_slp"
    <3>1. l \in Handler /\ \A h \in S : pc[h] = l
      BY <1>5, <2>3 DEF Handler
    <3>2. /\ UNCHANGED <<cfg, mask, master>> /\ LifeKept(EndKept) /\ IntrKept(Asleep = Hart)
          /\ Handled(S, victims, l)
      BY <1>2, <3>1, Handling
    <3>3. CASE l = "hdl_ack"
      <4>1. \A h \in Team(k) : pc'[h] = "hdl_clr" /\ intcAck'[h] /\ ret'[h] = "act_end"
        <5>1. Follow[l] = "hdl_clr"
          BY <3>3, FollowIs
        <5>2. QED
          BY <1>1, <1>5, <2>3, <3>2, <3>3, <5>1 DEF Handled
      <4>2. QED
        BY <3>2, <3>3, <4>1 DEF Handled
    <3>4. CASE l = "hdl_clr"
      <4>1. \A h \in Team(k) : pc'[h] = "hdl_ret" /\ ~intcAck'[h] /\ ret'[h] = "act_end"
        <5>1. Follow[l] = "hdl_ret"
          BY <3>4, FollowIs
        <5>2. QED
          BY <1>1, <1>5, <2>3, <3>2, <3>4, <5>1 DEF Handled
      <4>2. QED
        BY <3>2, <3>4, <4>1 DEF Handled
    <3>5. QED
      BY <2>3, <3>3, <3>4
  <2>4. QED
    BY <1>7, <2>1, <2>2, <2>3
<1>10. Working(k)' /\ DelayFor' /\ victims = {}
  BY <1>2, <1>9, WorkingKept DEF Syncing
<1>11. Running' /\ (ModeOf(cfg) = k)' /\ bad' \cap Team(k) = {} /\ Team(k)' = Team(k)
  BY <1>9, <1>10, RunningKept DEF Syncing, Team, ModeOf
<1>12. AtRest(Hart \ Team(k))'
  BY <1>4, <1>7, <1>8, <1>11 DEF AtRest
<1>13. PICK in : InputOf(in, victims)
  BY RunningInput DEF Syncing
<1>14. in.ack = IF l = "hdl_clr" THEN Team(k) ELSE {}
  BY <1>1, <1>4, <1>5, <1>13 DEF InputOf, TypeOK, CoresTypeOK
<1>15. CASE l # "hdl_clr"
  <2>1. NextMachines(k, "IDLE", k, "MS_INTRSYNC", "MS_INTRSYNC")
    BY <1>13, <1>14, <1>15, MachinesSyncing DEF Syncing, Working, InputOf
  <2>2. AllIn(k, "MS_INTRSYNC")'
    BY <1>9, <2>1, MachinesPrimed DEF AllIn
  <2>3. \/ AllAt(Team(k), "act_slp")'
        \/ Handles(Team(k), "hdl_ack", FALSE, "act_end")'
        \/ Handles(Team(k), "hdl_clr", TRUE, "act_end")'
    BY <1>9, <1>11, <1>15, TypeOK' DEF AllAt, Handles, TypeOK, CoresTypeOK
  <2>4. QED
    BY <1>10, <1>11, <1>12, <2>2, <2>3 DEF Syncing
<1>16. CASE l = "hdl_clr"
  <2>1. Team(k) # {}
    BY <1>1
  <2>2. NextMachines(k, "IDLE", k, "SYNC", "SYNC")
    BY <1>13, <1>14, <1>16, <2>1, MachinesSyncing DEF Syncing, Working, InputOf
  <2>3. AllIn(k, "SYNC")'
    BY <1>9, <2>2, MachinesPrimed DEF AllIn
  <2>4. Handles(Team(k), "hdl_clr", TRUE, "act_end")'
        \/ Handles(Team(k), "hdl_ret", FALSE, "act_end")'
    BY <1>9, <1>11, <1>16, TypeOK' DEF Handles
  <2>5. Executes(k, "act_end")'
    BY <1>10, <1>11 DEF Executes, Working, LifeAt, Left, Moved
  <2>6. CASE k = "TMR_MODE"
    <3>1. ~delayFf' /\ ~diff'
      BY <1>10, <1>11, <2>6 DEF DelayFor, Working, ModeOf
    <3>2. ~errFf' /\ ~errSeen'
      BY <1>2, <1>13, ErrorsForgotten DEF InputOf
    <3>3. bad' = {}
      BY <1>1, <1>9, <1>10, <1>11, <2>6 DEF TypeOK, CoresTypeOK
    <3>4. Handles(Hart, "hdl_clr", TRUE, "act_end")'
          \/ Handles(Hart, "hdl_ret", FALSE, "act_end")'
      BY <1>1, <1>11, <2>4, <2>6 DEF Handles
    <3>5. QED
      <4>1. VotingAt("act_end")'
        BY <2>5, <2>6, <3>2, <3>3, <3>4 DEF VotingAt
      <4>2. QED
        BY <2>3, <2>6, <3>1, <4>1 DEF Voting
  <2>7. CASE k = "DMR_MODE"
    <3>1. Team(k)' = mask'
      BY <2>7 DEF Team
    <3>2. Handles(mask, "hdl_clr", TRUE, "act_end")'
          \/ Handles(mask, "hdl_ret", FALSE, "act_end")'
      BY <2>4, <3>1 DEF Handles
    <3>3. AtRest(Hart \ mask)' /\ bad' \cap mask' = {}
      BY <1>11, <1>12, <3>1 DEF AtRest
    <3>4. ~diff'
      BY <1>10 DEF Working
    <3>5. QED
      <4>1. ComparingAt("act_end")'
        BY <2>5, <2>7, <3>2, <3>3, <3>4 DEF ComparingAt
      <4>2. QED
        BY <1>10, <2>3, <2>7, <3>3, <4>1 DEF Comparing
  <2>8. QED
    BY <2>6, <2>7
<1>17. QED
  BY <1>15, <1>16

-----------------------------------------------------------------------------
(* The program: one step of the cores that execute it together.            *)

LEMMA LifeGoes ==
  ASSUME NEW v, LifeAt(v), NEW a \in BOOLEAN, ~a, IntrKept(a),
         LifeKept(IF v = "exit" THEN TRUE ELSE EndKept),
         host' = IF interrupt THEN "told" ELSE "running"
  PROVE  /\ v = "exit" => Ended'
         /\ v \in {"exit_wfi", "exit_slp"} => Counted'
         /\ v \notin {"exit", "exit_wfi", "exit_slp"} => Running'
<1>1. CASE v = "exit"
  <2>1. Running /\ LifeKept(TRUE)
    BY <1>1 DEF LifeAt
  <2>2. QED
    BY <1>1, <2>1, LifeEnds
<1>2. CASE v \in {"exit_wfi", "exit_slp"}
  <2>1. (Ended \/ Counted) /\ LifeKept(EndKept)
    BY <1>2 DEF LifeAt
  <2>2. QED
    BY <1>2, <2>1, LifeCounts, LifeCounted
<1>3. CASE v \notin {"exit", "exit_wfi", "exit_slp"}
  <2>1. Running /\ LifeKept(EndKept)
    BY <1>3 DEF LifeAt
  <2>2. QED
    BY <1>3, <2>1, LifeFalling DEF Running
<1>4. QED
  BY <1>1, <1>2, <1>3

(* What the application may call. *)
LEMMA CallIs ==
  ASSUME Templates, mask \in SUBSET Hart, NEW call \in Calls
  PROVE  \/ /\ call.to \in {"main", "exit", "crit_in", "crit_out", "ckpt"}
            /\ call.mask = mask
         \/ /\ call.to = "stop_crit" /\ cfg # SINGLE /\ call.mask = mask
            /\ call.heir \in Hart /\ (cfg \in Dual => call.heir \in mask)
         \/ /\ call.to = "act_cfg" /\ cfg = SINGLE
            /\ call.mode \in Config \ {SINGLE}
            /\ call.mode \in Dual => call.mask \in Pair(master)
            /\ call.mode \notin Dual => call.mask = mask
<1>1. CASE call \in {Plain(l) : l \in {"main", "exit", "crit_in", "crit_out", "ckpt"}}
  BY <1>1 DEF Plain, Call
<1>2. CASE cfg = SINGLE /\ call \in Activations
  BY <1>2 DEF Activations, Call, Dual, Config
<1>3. CASE cfg # SINGLE /\ call \in Stops
  <2>1. PICK m \in Heirs : call = Call("stop_crit", SINGLE, m, mask)
    BY <1>3 DEF Stops
  <2>2. Heirs = IF cfg \in Dual THEN mask ELSE Hart
    BY DEF Heirs, Templates
  <2>4. QED
    BY <1>3, <2>1, <2>2 DEF Call
<1>4. QED
  BY <1>1, <1>2, <1>3 DEF Calls

(* One step of a team, whatever it executes. *)
LEMMA TeamStep ==
  ASSUME Free, NEW call, NEW victims, NEW w, NEW G \in SUBSET Hart, G # {},
         Works(G, call, victims, w), NEW v, v \notin Sleeping,
         \A h \in G : pc[h] = v /\ ~intcAck[h]
  PROVE  /\ masterFf' = masterFf /\ Asleep # Hart
         /\ \E h \in G : w = WriteOf(h, call)
         /\ v \notin Branching \cup {"hdl_ack", "rs_ack"} =>
              \A h \in G : pc'[h] = Follow[v] /\ ~intcAck'[h]
         /\ v \notin Branching \cup {"hdl_ack", "rs_ack", "stop_mst"} =>
              \A h \in G : heir'[h] = heir[h]
         /\ v = "main" => call \in Calls /\ \A h \in G : pc'[h] = call.to /\ ~intcAck'[h]
                            /\ mode'[h] = call.mode
                            /\ (call.to = "stop_crit" => heir'[h] = call.heir)
<1>1. Asleep # Hart
  BY FreeAsleep
<1>2. masterFf' = masterFf
  BY <1>1, WorksParts, DataIs
<1>3. \E h \in G : w = WriteOf(h, call)
  BY WriteIs
<1>4. v \notin Branching \cup {"hdl_ack", "rs_ack"} =>
        \A h \in G : pc'[h] = Follow[v] /\ ~intcAck'[h]
  <2> SUFFICES ASSUME v \notin Branching \cup {"hdl_ack", "rs_ack"}, NEW h \in G
               PROVE  pc'[h] = Follow[v] /\ ~intcAck'[h]
    OBVIOUS
  <2>1. h \in Hart /\ pc[h] = v /\ ~intcAck[h]
    OBVIOUS
  <2>2. pc'[h] = Follow[pc[h]]
    BY <2>1, Follows
  <2>3. CoresTick(G, call, victims) /\ \A l : Runs(h, l) <=> pc[h] = l
    BY FreeCore, WorksParts
  <2>4. AckNext(h) = intcAck[h] \/ AckNext(h) = FALSE
    BY <2>1, <2>3 DEF AckNext
  <2>5. intcAck'[h] = AckNext(h)
    BY <2>1, <2>3 DEF CoresTick
  <2>6. QED
    BY <2>1, <2>2, <2>4, <2>5
<1>5. v \notin Branching \cup {"hdl_ack", "rs_ack", "stop_mst"} =>
        \A h \in G : heir'[h] = heir[h]
  BY Follows
<1>6. v = "main" => call \in Calls /\ \A h \in G : pc'[h] = call.to /\ ~intcAck'[h]
                            /\ mode'[h] = call.mode
                            /\ (call.to = "stop_crit" => heir'[h] = call.heir)
  <2> SUFFICES ASSUME v = "main" PROVE call \in Calls /\ \A h \in G :
                    /\ pc'[h] = call.to /\ ~intcAck'[h] /\ mode'[h] = call.mode
                    /\ (call.to = "stop_crit" => heir'[h] = call.heir)
    OBVIOUS
  <2>1. \A h \in G : Runs(h, "main")
    BY FreeCore
  <2>2. call \in Calls
    BY <2>1 DEF Works, CallsOf
  <2>3. CoresTick(G, call, victims)
    BY WorksParts
  <2>4. \A h \in G : /\ pc'[h] = PcNext(h, call) /\ intcAck'[h] = AckNext(h)
                     /\ mode'[h] = ModeNext(h, call) /\ heir'[h] = HeirNext(h, call)
    BY <2>3 DEF CoresTick
  <2>5. \A h \in G : PcNext(h, call) = call.to
    BY <2>1 DEF PcNext, Runs
  <2>6. \A h \in G : AckNext(h) = intcAck[h] /\ ModeNext(h, call) = call.mode
    BY <2>1 DEF AckNext, ModeNext, Runs, Reloads
  <2>7. \A h \in G : call.to = "stop_crit" => HeirNext(h, call) = call.heir
    BY <2>1 DEF HeirNext, Runs, Reloads
  <2>8. QED
    BY <2>2, <2>4, <2>5, <2>6, <2>7
<1>7. QED
  BY <1>1, <1>2, <1>3, <1>4, <1>5, <1>6

(* The write of a program step, by the label. *)
Wrote(G, v, call) ==
  /\ LifeKept(IF v = "exit" THEN TRUE ELSE EndKept) /\ IntrKept(FALSE) /\ DebugNext
  /\ v \notin {"act_cfg", "stop_cfg"} => cfg' = cfg
  /\ v = "act_cfg" => \E h \in G : cfg' = mode[h]
  /\ v = "stop_cfg" => cfg' = SINGLE
  /\ mask' = IF v = "main" THEN call.mask ELSE mask
  /\ v # "stop_mst" => master' = master
  /\ v = "stop_mst" => \E h \in G : master' = heir[h]
  /\ v = "crit_in" => crit'
  /\ v \in {"crit_out", "stop_crit"} => ~crit'
  /\ v \notin {"crit_in", "crit_out", "stop_crit"} => crit' = crit

LEMMA TeamWrites ==
  ASSUME Free, NEW call, NEW victims, NEW w, NEW G \in SUBSET Hart, G # {},
         Works(G, call, victims, w), NEW v, v \notin Sleeping,
         \A h \in G : pc[h] = v /\ ~intcAck[h]
  PROVE  Wrote(G, v, call)
<1>1. Asleep # Hart /\ CtrlTick(w, CtrlIn)
  BY TeamStep, WorksParts
<1>2. PICK h \in G : w = WriteOf(h, call)
  BY TeamStep
<1>3. pc[h] = v
  OBVIOUS
<1> USE DEF softVars, Wrote
<1>4. CASE v = "act_cfg"
  <2>1. w = [cfg |-> mode[h]]
    BY <1>2, <1>3, <1>4, FreeWrite
  <2>2. QED
    BY <1>1, <1>4, <2>1, TickCfg
<1>5. CASE v = "stop_cfg"
  <2>1. w = [cfg |-> SINGLE]
    BY <1>2, <1>3, <1>5, FreeWrite
  <2>2. QED
    BY <1>1, <1>5, <2>1, TickCfg
<1>6. CASE v \in {"act_sync", "act_end"}
  <2>1. \E b \in BOOLEAN : w = [initSync |-> b]
    BY <1>2, <1>3, <1>6, FreeWrite
  <2>2. QED
    BY <1>1, <1>6, <2>1, TickInitSync
<1>7. CASE v = "crit_in"
  <2>1. w = [crit |-> TRUE]
    BY <1>2, <1>3, <1>7, FreeWrite
  <2>2. QED
    BY <1>1, <1>7, <2>1, TickCrit
<1>13. CASE v \in {"crit_out", "stop_crit"}
  <2>1. w = [crit |-> FALSE]
    BY <1>2, <1>3, <1>13, FreeWrite
  <2>2. QED
    BY <1>1, <1>13, <2>1, TickCrit
<1>8. CASE v = "stop_mst"
  <2>1. w = [master |-> heir[h]]
    BY <1>2, <1>3, <1>8, FreeWrite
  <2>2. QED
    BY <1>1, <1>8, <2>1, TickMaster
<1>9. CASE v = "exit"
  <2>1. w = [endSw |-> TRUE]
    BY <1>2, <1>3, <1>9, FreeWrite
  <2>2. QED
    BY <1>1, <1>9, <2>1, TickEndSw
<1>10. CASE v = "main"
  <2>1. IF call.mask # mask THEN w = [mask |-> call.mask] ELSE w = NoWrite
    BY <1>2, <1>3, <1>10, FreeWrite
  <2>2. QED
    BY <1>1, <1>10, <2>1, TickMask, TickNoWrite
<1>11. CASE v \notin {"act_cfg", "act_sync", "act_end", "stop_crit", "stop_mst",
                      "stop_cfg", "exit", "crit_in", "crit_out", "main"}
  <2>1. w = NoWrite
    BY <1>2, <1>3, <1>11, FreeWrite
  <2>2. QED
    BY <1>1, <1>11, <2>1, TickNoWrite
<1>12. QED
  BY <1>4, <1>5, <1>6, <1>7, <1>8, <1>9, <1>10, <1>11, <1>13

LEMMA TeamOf ==
  ASSUME TypeOK, NEW k \in Modal, Paired(k)
  PROVE  master \in Team(k) /\ Team(k) \subseteq Hart /\ Team(k) # {}
BY DEF Team, TypeOK, CtrlTypeOK, Pair

\* from v to u
StepsTo(k, v, u) ==
  /\ Executes(k, u)' /\ AllAt(Team(k), u)'
  /\ Team(k)' = (IF k = "SINGLE_MODE" THEN {master'} ELSE Team(k))
  /\ mask' = mask /\ masterFf' = masterFf /\ DebugNext
  /\ cfg' = IF v = "stop_cfg" THEN SINGLE ELSE cfg
  /\ crit => crit' \/ u \in {"main", "stop_mst"}
  /\ k = "SINGLE_MODE" => u \in Code /\ master' = master
  /\ u = "stop_cfg" <=> v = "stop_mst"
  /\ v # "stop_mst" => master' = master
  /\ u \in {"exit_slp", "stop_slp"} => v \in {"exit_wfi", "stop_wfi"}

(* A step of the program leads to its next place, with all the registers   *)
(* it needs there.                                                         *)
LEMMA ProgramStep ==
  ASSUME Templates, TypeOK, NEW k \in Modal, NEW v \in Code \cup Stop \cup {"act_end"},
         Executes(k, v), v \notin Sleeping, \A h \in Team(k) : pc[h] = v /\ ~intcAck[h],
         Free, NEW call, NEW victims, NEW w, Works(Team(k), call, victims, w),
         k = "SINGLE_MODE" => v \in Code /\ (v = "main" => call.to # "act_cfg")
  PROVE  \E u \in Code \cup Stop : StepsTo(k, v, u)
<1> USE DEF StepsTo
<1>1. master \in Team(k) /\ Team(k) \subseteq Hart /\ Team(k) # {}
  BY TeamOf DEF Executes
<1>2. /\ masterFf' = masterFf
      /\ v \notin Branching \cup {"hdl_ack", "rs_ack"} =>
              \A h \in Team(k) : pc'[h] = Follow[v] /\ ~intcAck'[h]
      /\ v \notin Branching \cup {"hdl_ack", "rs_ack", "stop_mst"} =>
              \A h \in Team(k) : heir'[h] = heir[h]
      /\ v = "main" => call \in Calls /\ \A h \in Team(k) : pc'[h] = call.to /\ ~intcAck'[h]
                            /\ mode'[h] = call.mode
                            /\ (call.to = "stop_crit" => heir'[h] = call.heir)
  BY <1>1, TeamStep
<1>14. Wrote(Team(k), v, call)
  BY <1>1, TeamWrites
<1>3. /\ LifeKept(IF v = "exit" THEN TRUE ELSE EndKept) /\ IntrKept(FALSE) /\ DebugNext
      /\ mask' = IF v = "main" THEN call.mask ELSE mask
      /\ v # "stop_mst" => master' = master
      /\ v = "stop_mst" => \E h \in Team(k) : master' = heir[h]
      /\ v = "crit_in" => crit'
      /\ v \in {"crit_out", "stop_crit"} => ~crit'
      /\ v \notin {"crit_in", "crit_out", "stop_crit"} => crit' = crit
  BY <1>14 DEF Wrote
<1>4. cfg' = IF v = "stop_cfg" THEN SINGLE ELSE cfg
  BY <1>14 DEF Wrote, Code, Stop
<1>5. /\ v = "exit" => Ended'
      /\ v = "exit_wfi" => Counted'
      /\ v \notin {"exit", "exit_wfi"} => Running'
  BY <1>3, LifeGoes, WorksParts DEF Executes, Sleeping
<1>6. CASE v = "main"
  <2>1. /\ cfg' = cfg /\ master' = master /\ crit' = crit /\ Running'
        /\ ModeOf(cfg) = k /\ masterFf = master
    BY <1>3, <1>4, <1>5, <1>6 DEF Executes, Left, Moved
  <2>2. call \in Calls /\ mask \in SUBSET Hart
    BY <1>2, <1>6 DEF TypeOK, CtrlTypeOK
  <2>3. \/ call.to \in {"main", "exit", "crit_in", "crit_out", "ckpt"} /\ call.mask = mask
        \/ /\ call.to = "stop_crit" /\ call.mask = mask /\ k # "SINGLE_MODE"
           /\ call.heir \in Hart /\ (cfg \in Dual => call.heir \in mask)
    BY <1>6, <2>1, <2>2, CallIs DEF ModeOf
  <2>4. mask' = mask /\ Team(k)' = Team(k)
    BY <1>3, <1>6, <2>1, <2>3 DEF Team
  <2>5. AllAt(Team(k), call.to)' /\ call.to \in Code \cup Stop
    BY <1>2, <1>6, <2>3, <2>4 DEF AllAt, Code, Stop
  <2>6. ModeOf(cfg)' = k /\ LifeAt(call.to)'
    BY <2>1, <2>3 DEF ModeOf, LifeAt
  <2>7. call.to = "stop_crit" =>
          \A h \in Team(k)' : heir'[h] = heir'[master'] /\ heir'[h] \in Team(k)'
    <3>1. SUFFICES ASSUME call.to = "stop_crit"
                   PROVE  \A h \in Team(k) : heir'[h] = call.heir /\ call.heir \in Team(k)
      BY <1>1, <2>1, <2>4
    <3>2. call.heir \in Team(k)
      BY <2>1, <2>3, <3>1 DEF Team, ModeOf, Dual, TypeOK, CtrlTypeOK, Config
    <3>3. QED
      BY <1>2, <1>6, <3>1, <3>2
  <2>8. Executes(k, call.to)'
    BY <1>2, <2>1, <2>3, <2>4, <2>6, <2>7 DEF Executes, Left, Moved
  <2>9. k = "SINGLE_MODE" => call.to \in Code
    BY <2>3 DEF Code
  <2>10. call.to # "stop_cfg"
    BY <2>3
  <2>12. call.to \notin {"exit_slp", "stop_slp"}
    BY <2>3
  <2>13. Team(k)' = (IF k = "SINGLE_MODE" THEN {master'} ELSE Team(k))
    BY <2>1, <2>4 DEF Team
  <2>11. QED
    BY <1>2, <1>3, <1>4, <1>6, <2>1, <2>4, <2>5, <2>8, <2>9, <2>10, <2>12, <2>13
<1>7. ASSUME NEW u \in Code \cup Stop, v # "main", Follow[v] = u, u # "stop_cfg"
      PROVE  /\ AllAt(Team(k), u)' /\ Team(k)' = Team(k) /\ mask' = mask /\ master' = master
             /\ \A h \in Team(k) : heir'[h] = heir[h]
  <2>1. v \notin Branching \cup {"hdl_ack", "rs_ack", "stop_mst"}
    BY <1>7, FollowIs DEF Branching, Code, Stop
  <2>2. master' = master /\ mask' = mask
    BY <1>3, <1>7, <2>1
  <2>3. Team(k)' = Team(k)
    BY <2>2 DEF Team
  <2>4. QED
    BY <1>2, <1>7, <2>1, <2>2, <2>3 DEF AllAt
<1>8. CASE v \in {"crit_in", "crit_out", "ckpt", "act_end"}
  <2>1. Follow[v] = "main" /\ "main" \in Code \cup Stop
    BY <1>8, FollowIs DEF Code
  <2>2. /\ AllAt(Team(k), "main")' /\ Team(k)' = Team(k) /\ mask' = mask /\ master' = master
    BY <1>7, <1>8, <2>1
  <2>3. Executes(k, "main")'
    BY <1>2, <1>4, <1>5, <1>8, <2>2 DEF Executes, Left, Moved, LifeAt, ModeOf
  <2>4. QED
    BY <1>2, <1>3, <1>4, <1>8, <2>1, <2>2, <2>3 DEF Team, Code
<1>9. CASE v \in {"exit", "exit_wfi"}
  <2>1. PICK u \in {"exit_wfi", "exit_slp"} : u = Follow[v] /\ (v = "exit_wfi" => u = "exit_slp")
                                              /\ (v = "exit" => u = "exit_wfi")
    BY <1>9, FollowIs
  <2>2. u \in Code \cup Stop
    BY <2>1 DEF Code
  <2>3. /\ AllAt(Team(k), u)' /\ Team(k)' = Team(k) /\ mask' = mask /\ master' = master
    BY <1>7, <1>9, <2>1, <2>2
  <2>4. LifeAt(u)'
    BY <1>5, <1>9, <2>1 DEF LifeAt
  <2>5. Executes(k, u)'
    BY <1>2, <1>4, <1>9, <2>1, <2>3, <2>4 DEF Executes, Left, Moved, ModeOf
  <2>6. crit' = crit
    BY <1>3, <1>9
  <2>7. QED
    BY <1>2, <1>3, <1>4, <1>9, <2>1, <2>2, <2>3, <2>5, <2>6 DEF Team, Code
<1>10. CASE v = "stop_crit"
  <2>1. Follow[v] = "stop_mst" /\ "stop_mst" \in Code \cup Stop
    BY <1>10, FollowIs DEF Stop
  <2>2. /\ AllAt(Team(k), "stop_mst")' /\ Team(k)' = Team(k) /\ mask' = mask
        /\ master' = master /\ \A h \in Team(k) : heir'[h] = heir[h]
    BY <1>7, <1>10, <2>1
  <2>3. \A h \in Team(k)' : heir'[h] = heir'[master'] /\ heir'[h] \in Team(k)'
    BY <1>1, <1>10, <2>2 DEF Executes
  <2>4. ~crit'
    BY <1>3, <1>10
  <2>5. Executes(k, "stop_mst")'
    BY <1>2, <1>4, <1>5, <1>10, <2>2, <2>3, <2>4 DEF Executes, Left, Moved, LifeAt, ModeOf
  <2>6. k # "SINGLE_MODE"
    BY <1>10 DEF Code
  <2>7. QED
    BY <1>2, <1>3, <1>4, <1>10, <2>1, <2>2, <2>5, <2>6
<1>11. CASE v = "stop_mst"
  <2>1. Follow[v] = "stop_cfg" /\ "stop_cfg" \in Code \cup Stop /\ v \notin Branching
    BY <1>11, FollowIs DEF Stop, Branching
  <2>2. k # "SINGLE_MODE" /\ mask' = mask
    BY <1>3, <1>11 DEF Code
  <2>3. Team(k)' = Team(k)
    BY <2>2 DEF Team
  <2>4. AllAt(Team(k), "stop_cfg")'
    BY <1>2, <1>11, <2>1, <2>3 DEF AllAt
  <2>5. master' \in Team(k)
    BY <1>3, <1>11 DEF Executes
  <2>6. Paired(k)'
    BY <2>2, <2>5 DEF Executes, Pair, Team
  <2>7. ~crit'
    BY <1>3, <1>11 DEF Executes
  <2>8. Executes(k, "stop_cfg")'
    BY <1>4, <1>5, <1>11, <2>2, <2>6, <2>7 DEF Executes, Left, Moved, LifeAt, ModeOf
  <2>9. QED
    BY <1>2, <1>3, <1>4, <1>11, <2>1, <2>2, <2>3, <2>4, <2>8 DEF Executes, Moved
<1>12. CASE v \in {"stop_cfg", "stop_wfi"}
  <2>1. PICK u \in {"stop_wfi", "stop_slp"} : u = Follow[v] /\ (v = "stop_cfg" => u = "stop_wfi")
    BY <1>12, FollowIs
  <2>2. u \in Code \cup Stop
    BY <2>1 DEF Stop
  <2>3. /\ AllAt(Team(k), u)' /\ Team(k)' = Team(k) /\ mask' = mask /\ master' = master
    BY <1>7, <1>12, <2>1, <2>2
  <2>4. cfg' = SINGLE /\ ~crit' /\ crit' = crit
    BY <1>3, <1>4, <1>12 DEF Executes, Left, Moved
  <2>5. Executes(k, u)'
    BY <1>5, <1>12, <2>1, <2>3, <2>4 DEF Executes, Left, Moved, LifeAt
  <2>6. k # "SINGLE_MODE"
    BY <1>12 DEF Code
  <2>7. QED
    BY <1>2, <1>3, <1>4, <1>12, <2>1, <2>2, <2>3, <2>4, <2>5, <2>6
<1>13. QED
  BY <1>6, <1>8, <1>9, <1>10, <1>11, <1>12 DEF Code, Stop, Sleeping

-----------------------------------------------------------------------------
(* Launch of a team.                                                       *)

LEMMA StartedInput ==
  ASSUME TypeOK, start, ~endSw,
         NEW S, NEW call, NEW victims, NEW w, Works(S, call, victims, w)
  PROVE  \E in : InputOf(in, victims)
<1>1. FsmTick(FsmIn(victims # {})) /\ (victims # {}) \in BOOLEAN
  BY DEF Works, Cycle
<1>2. InputOf(FsmIn(victims # {}), victims)
  BY <1>1, InputIs DEF InputOf, Input
<1>3. QED
  BY <1>2

LEMMA StartingWires ==
  ASSUME TypeOK, NEW k \in Kinds, AllIn(k, "START"), Paired(k)
  PROVE  /\ InterruptHalt(master) = Team(k) /\ InterruptSync(master) = {}
         /\ InterruptSwResync = {} /\ WfiDmr = {} /\ Checked = {}
         /\ k = "DMR_MODE" => DualMode # {}
         /\ k = "TMR_MODE" => DualMode = {}
         /\ SingleBus /\ StartBoot /\ ~EnExtDebug
BY PeersOf DEF TypeOK, CtrlTypeOK, Checked, DualMode, Machines, AllIn,
    TmrIn, DmrIn, InterruptHalt, InterruptSync, InterruptSwResync, WfiDmr, SwitchToSingle,
    SwitchTMRtoSingle, SwitchDMRtoSingle, SwitchSingletoTMR, SwitchSingletoDMR,
    SingleBus, TmrVoting, Team, StartBoot, EnExtDebug

LEMMA StartingNext ==
  ASSUME TypeOK, NEW k \in Kinds, Starting(k),
         NEW S, NEW call, NEW victims, NEW w, Works(S, call, victims, w)
  PROVE  Starting(k)' \/ Entering(k)'
<1>1. /\ master \in Team(k) /\ Team(k) \subseteq Hart /\ master \in Hart
      /\ k = "TMR_MODE" => Team(k) = Hart
      /\ k = "DMR_MODE" => Team(k) = mask
  BY PeersOf DEF TypeOK, CtrlTypeOK, Starting, Working
<1>2. /\ InterruptHalt(master) = Team(k) /\ InterruptSync(master) = {}
      /\ InterruptSwResync = {} /\ WfiDmr = {} /\ Checked = {}
      /\ k = "DMR_MODE" => DualMode # {}
      /\ k = "TMR_MODE" => DualMode = {}
      /\ SingleBus /\ StartBoot /\ ~EnExtDebug
  BY StartingWires DEF Starting, Working
<1>3. Unheld(TRUE) /\ Unheld(FALSE)
  BY <1>2, UnheldTeam DEF Starting
<1>4. \A h \in Hart \ Team(k) : pc[h] \in Rest /\ ~intcAck[h]
  BY DEF Starting, AtRest
<1>5. PICK e \in BOOLEAN : Falling(e)
  BY DEF Starting
<1>6. PICK in : InputOf(in, victims)
  BY <1>5, StartedInput DEF Falling, Life
<1>7. (\A h \in Team(k) : pc[h] \in Rest /\ ~intcAck[h])
        \/ ((\A h \in Team(k) : pc[h] = "dbg" /\ ~intcAck[h]) /\ dbgReq = "boot" /\ Running)
  BY DEF Starting, AtRest, AllAt
<1>8. \A h \in Hart : CanStep(h) <=> h \in Team(k)
  BY <1>1, <1>2, <1>4, <1>7 DEF CanStep, TakesDebug, TakesIrq, DebugReq, Irq, Rest,
                                Halted, Sleeping, Dead
<1>9. S = {} \/ S = Team(k)
  BY <1>1, <1>2, <1>3, <1>8, Together DEF OnOneBus
<1>10. \A h \in Hart : h \notin S => pc'[h] = pc[h] /\ intcAck'[h] = intcAck[h]
  BY Stays
<1>11. CASE \A h \in Team(k) : pc[h] \in Rest /\ ~intcAck[h]
  <2>1. \A h \in S : TakesDebug(h)
    BY <1>1, <1>2, <1>9, <1>11 DEF TakesDebug, DebugReq, Rest, Halted
  <2>2. /\ UNCHANGED <<cfg, mask, master>> /\ DebugNext
        /\ LifeKept(EndKept) /\ IntrKept(Asleep = Hart)
        /\ \A h \in Hart : intcAck'[h] = intcAck[h]
        /\ \A h \in Hart : h \in S /\ TakesDebug(h) => pc'[h] = "dbg"
    BY <1>2, <2>1, CalledAway
  <2>3. Working(k)' /\ DelayFor'
    BY <1>2, <2>2, WorkingKept DEF Starting
  <2>4. Running' /\ (ModeOf(cfg) = k)' /\ Team(k)' = Team(k) /\ dbgReq' = "boot"
    BY <1>2, <1>5, <2>2, LifeFalling, WorksParts
       DEF Starting, Team, ModeOf, DebugNext, DebugWord
  <2>5. in.halt = {}
    BY <1>1, <1>4, <1>6, <1>11 DEF InputOf, Halted, Rest
  <2>6. NextMachines(k, "IDLE", k, "START", "START")
    BY <1>6, <2>5, MachinesStarting DEF Starting, Working, InputOf
  <2>7. AllIn(k, "START")'
    BY <2>2, <2>6, MachinesPrimed DEF AllIn
  <2>8. AtRest(Hart \ Team(k))'
    BY <1>4, <1>9, <1>10, <2>4 DEF AtRest
  <2>9. AtRest(Team(k))' \/ AllAt(Team(k), "dbg")'
    BY <1>1, <1>9, <1>10, <1>11, <2>1, <2>2, <2>4 DEF AtRest, AllAt
  <2>10. QED
    BY <2>3, <2>4, <2>7, <2>8, <2>9 DEF Starting, Running
<1>12. CASE (\A h \in Team(k) : pc[h] = "dbg" /\ ~intcAck[h]) /\ dbgReq = "boot" /\ Running
  <2>1. /\ UNCHANGED <<cfg, mask, master>> /\ DebugNext
        /\ LifeKept(EndKept) /\ IntrKept(Asleep = Hart)
        /\ \A h \in Hart : h \in S => /\ pc'[h] = IF "dbg" = "dbg" THEN DebugEntry ELSE Restored
                                      /\ intcAck'[h] = intcAck[h]
        /\ bad' = (bad \ S) \cup victims
    BY <1>2, <1>9, <1>12, Reloading DEF Halted
  <2>2. DebugEntry = "main"
    BY <1>12 DEF DebugEntry
  <2>3. Working(k)' /\ DelayFor' /\ victims = {}
    BY <1>2, <2>1, WorkingKept DEF Starting
  <2>4. Running' /\ (ModeOf(cfg) = k)' /\ Team(k)' = Team(k) /\ dbgReq' = "boot"
    BY <1>2, <1>12, <2>1, RunningKept DEF Starting, Team, ModeOf, DebugNext, DebugWord
  <2>5. in.halt = Team(k)
    BY <1>1, <1>4, <1>6, <1>12 DEF InputOf, Halted, Rest
  <2>6. NextMachines(k, "IDLE", k, "BOOT", "BOOT")
    BY <1>1, <1>6, <2>5, MachinesStarting DEF Starting, Working, InputOf
  <2>7. AllIn(k, "BOOT")'
    BY <2>1, <2>6, MachinesPrimed DEF AllIn
  <2>8. AtRest(Hart \ Team(k))'
    BY <1>4, <1>9, <1>10, <2>4 DEF AtRest
  <2>9. AllAt(Team(k), "dbg")' \/ (AllAt(Team(k), "main")' /\ bad' \cap Team(k) = {})
    BY <1>1, <1>9, <1>10, <1>12, <2>1, <2>2, <2>3, <2>4 DEF AllAt
  <2>10. QED
    BY <2>3, <2>4, <2>7, <2>8, <2>9 DEF Entering
<1>13. QED
  BY <1>7, <1>11, <1>12

LEMMA EnteringWires ==
  ASSUME TypeOK, NEW k \in Kinds, AllIn(k, "BOOT"), Paired(k)
  PROVE  /\ Free /\ Checked = {}
         /\ k = "DMR_MODE" => DualMode # {}
         /\ k = "TMR_MODE" => DualMode = {}
         /\ SingleBus /\ StartBoot /\ ~EnExtDebug
BY PeersOf DEF TypeOK, CtrlTypeOK, Checked, DualMode, Machines, AllIn, Free,
    TmrIn, DmrIn, InterruptHalt, InterruptSync, InterruptSwResync, WfiDmr, SwitchToSingle,
    SwitchTMRtoSingle, SwitchDMRtoSingle, SwitchSingletoTMR, SwitchSingletoDMR,
    SingleBus, TmrVoting, Team, StartBoot, EnExtDebug

(* The team starts in the program, before the controller has left its      *)
(* machines in SYNC.                                                       *)
LEMMA FirstStep ==
  ASSUME Templates, TypeOK, NEW k \in Kinds, Working(k), DelayFor, Running, ModeOf(cfg) = k,
         Free, Checked = {}, \A h \in Team(k) : pc[h] = "main" /\ ~intcAck[h],
         NEW S, NEW call, NEW victims, NEW w, Works(S, call, victims, w), S = {} \/ S = Team(k)
  PROVE  \E u \in Code \cup Stop : /\ Executes(k, u)' /\ AllAt(Team(k), u)'
                                   /\ UNCHANGED <<cfg, mask, master>> /\ bad' \subseteq bad
<1>1. victims = {}
  BY NoVictims
<1>2. Executes(k, "main")
  BY DEF Working, Executes, LifeAt, Left, Moved
<1>3. master \in Team(k) /\ Team(k) \subseteq Hart
  BY <1>2, TeamOf DEF Executes
<1>4. CASE S = {}
  <2>1. w = NoWrite /\ bad' \subseteq bad
    BY <1>1, <1>4, NobodyMoves
  <2>2. /\ UNCHANGED <<cfg, mask, master>> /\ LifeKept(EndKept) /\ IntrKept(Asleep = Hart)
    BY <2>1, NoWriteWorks
  <2>3. Working(k)' /\ Running'
    BY <2>2, WorkingKept, RunningKept
  <2>4. Executes(k, "main")'
    BY <2>2, <2>3 DEF Working, Executes, LifeAt, Left, Moved, ModeOf
  <2>5. Team(k)' = Team(k)
    BY <2>2 DEF Team
  <2>6. \A h \in Hart : pc'[h] = pc[h] /\ intcAck'[h] = intcAck[h]
    BY <1>4, NobodyMoves
  <2>7. AllAt(Team(k), "main")'
    BY <1>3, <2>5, <2>6 DEF AllAt
  <2>8. QED
    BY <2>1, <2>2, <2>4, <2>7 DEF Code
<1>5. CASE S = Team(k)
  <2>1. PICK u \in Code \cup Stop :
              /\ Executes(k, u)' /\ AllAt(Team(k), u)'
              /\ mask' = mask /\ master' = master /\ cfg' = cfg
    <3>1. PICK u \in Code \cup Stop : StepsTo(k, "main", u)
      BY <1>2, <1>5, ProgramStep DEF Sleeping, Code
    <3>2. QED
      BY <3>1 DEF StepsTo
  <2>2. bad' \subseteq bad
    BY <1>1, WorksParts, DataIs
  <2>3. QED
    BY <2>1, <2>2
<1>6. QED
  BY <1>4, <1>5

(* A team comes to SYNC at a place of the program. *)
LEMMA Arrived ==
  ASSUME TypeOK', NEW k \in Kinds, AllIn(k, "SYNC")', AtRest(Hart \ Team(k))',
         NEW v \in Code \cup Stop, Executes(k, v)', AllAt(Team(k), v)',
         ~diff', DelayFor', (ModeOf(cfg) = k)', ~errFf', ~errSeen', bad' \cap Team(k)' = {}
  PROVE  Voting' \/ Comparing'
<1>1. CASE k = "TMR_MODE"
  <2>1. ~delayFf'
    BY <1>1 DEF DelayFor, ModeOf
  <2>2. bad' = {} /\ AllAt(Hart, v)'
    BY <1>1, TypeOK' DEF Team, TypeOK, CoresTypeOK
  <2>3. v \in Code \cup Stop \cup {"act_end"}
    OBVIOUS
  <2>4. VotingAt(v)'
    BY <1>1, <2>2 DEF VotingAt
  <2>5. QED
    BY <1>1, <2>1, <2>3, <2>4 DEF Voting
<1>2. CASE k = "DMR_MODE"
  <2>1. AllAt(mask, v)' /\ AtRest(Hart \ mask)' /\ bad' \cap mask' = {}
    BY <1>2 DEF Team
  <2>2. v \in Code \cup Stop \cup {"act_end"}
    OBVIOUS
  <2>3. ComparingAt(v)'
    BY <1>2, <2>1 DEF ComparingAt
  <2>4. QED
    BY <1>2, <2>1, <2>2, <2>3 DEF Comparing
<1>3. QED
  BY <1>1, <1>2

LEMMA EnteringNext ==
  ASSUME Templates, TypeOK, TypeOK', NEW k \in Kinds, Entering(k),
         NEW S, NEW call, NEW victims, NEW w, Works(S, call, victims, w)
  PROVE  Entering(k)' \/ Voting' \/ Comparing'
<1>1. /\ master \in Team(k) /\ Team(k) \subseteq Hart /\ master \in Hart
      /\ k = "TMR_MODE" => Team(k) = Hart
      /\ k = "DMR_MODE" => Team(k) = mask
  BY PeersOf DEF TypeOK, CtrlTypeOK, Entering, Working
<1>2. /\ Free /\ Checked = {} /\ WfiDmr = {}
      /\ k = "DMR_MODE" => DualMode # {}
      /\ k = "TMR_MODE" => DualMode = {}
      /\ SingleBus /\ StartBoot /\ ~EnExtDebug
  BY EnteringWires DEF Entering, Working, Free
<1>3. Unheld(TRUE) /\ Unheld(FALSE)
  BY <1>2, UnheldTeam DEF Entering
<1>4. \A h \in Hart \ Team(k) : pc[h] \in Rest /\ ~intcAck[h]
  BY DEF Entering, AtRest
<1>5. PICK in : InputOf(in, victims)
  BY RunningInput DEF Entering
<1>6. PICK l \in {"dbg", "main"} :
        /\ \A h \in Team(k) : pc[h] = l /\ ~intcAck[h]
        /\ l = "dbg" => dbgReq = "boot"
        /\ l = "main" => bad \cap Team(k) = {}
  BY DEF Entering, AllAt
<1>7. S = {} \/ S = Team(k)
  <2>1. \A h \in Hart \ Team(k) : pc[h] \in Sleeping
    BY <1>4 DEF Rest, Sleeping
  <2>2. OnOneBus(Team(k))
    BY <1>2 DEF OnOneBus
  <2>3. QED
    BY <1>1, <1>2, <1>3, <1>6, <2>1, <2>2, FreeTeam
<1>8. \A h \in Hart : h \notin S => pc'[h] = pc[h] /\ intcAck'[h] = intcAck[h]
  BY Stays
<1>9. CASE l = "dbg"
  <2>1. /\ UNCHANGED <<cfg, mask, master>> /\ DebugNext
        /\ LifeKept(EndKept) /\ IntrKept(Asleep = Hart)
        /\ \A h \in Hart : h \in S => /\ pc'[h] = IF "dbg" = "dbg" THEN DebugEntry ELSE Restored
                                      /\ intcAck'[h] = intcAck[h]
        /\ bad' = (bad \ S) \cup victims
    BY <1>2, <1>6, <1>7, <1>9, Reloading DEF Halted
  <2>2. DebugEntry = "main"
    BY <1>6, <1>9 DEF DebugEntry
  <2>3. Working(k)' /\ DelayFor' /\ victims = {}
    BY <1>2, <2>1, WorkingKept DEF Entering
  <2>4. Running' /\ (ModeOf(cfg) = k)' /\ Team(k)' = Team(k) /\ dbgReq' = "boot"
    BY <1>2, <2>1, RunningKept DEF Entering, Team, ModeOf, DebugNext, DebugWord
  <2>5. in.halt = Team(k)
    BY <1>1, <1>4, <1>5, <1>6, <1>9 DEF InputOf, Halted, Rest
  <2>6. NextMachines(k, "IDLE", k, "BOOT", "BOOT")
    BY <1>1, <1>5, <2>5, MachinesEntering DEF Entering, Working, InputOf
  <2>7. AllIn(k, "BOOT")'
    BY <2>1, <2>6, MachinesPrimed DEF AllIn
  <2>8. AtRest(Hart \ Team(k))'
    BY <1>4, <1>7, <1>8, <2>4 DEF AtRest
  <2>9. AllAt(Team(k), "dbg")' \/ (AllAt(Team(k), "main")' /\ bad' \cap Team(k) = {})
    BY <1>1, <1>6, <1>7, <1>8, <1>9, <2>1, <2>2, <2>3, <2>4 DEF AllAt
  <2>10. QED
    BY <2>3, <2>4, <2>7, <2>8, <2>9 DEF Entering
<1>10. CASE l = "main"
  <2>1. in.halt = {}
    BY <1>1, <1>4, <1>5, <1>6, <1>10 DEF InputOf, Halted, Rest
  <2>2. NextMachines(k, "IDLE", k, "SYNC", "SYNC")
    BY <1>5, <2>1, MachinesEntering DEF Entering, Working, InputOf
  <2>3. ~errFf' /\ ~errSeen' /\ victims = {}
    BY <1>2, <1>5, ErrorsForgotten, NoVictims DEF InputOf
  <2>5. PICK u \in Code \cup Stop :
                          /\ Executes(k, u)' /\ AllAt(Team(k), u)'
                          /\ UNCHANGED <<cfg, mask, master>> /\ bad' \subseteq bad
    BY <1>2, <1>6, <1>7, <1>10, FirstStep DEF Entering
  <2>6. AllIn(k, "SYNC")'
    BY <2>2, <2>5, MachinesPrimed DEF AllIn
  <2>7. Working(k)' /\ DelayFor'
    BY <1>2, <2>5, WorkingKept DEF Entering
  <2>8. (ModeOf(cfg) = k)' /\ Team(k)' = Team(k)
    BY <2>5 DEF Entering, Team, ModeOf
  <2>9. AtRest(Hart \ Team(k))'
    BY <1>4, <1>7, <1>8, <2>8 DEF AtRest
  <2>10. ~diff' /\ bad' \cap Team(k)' = {}
    BY <1>6, <1>10, <2>5, <2>7, <2>8 DEF Working
  <2>11. QED
    BY <2>3, <2>5, <2>6, <2>7, <2>8, <2>9, <2>10, Arrived
<1>11. QED
  BY <1>9, <1>10

-----------------------------------------------------------------------------
(* Back to one core: the heir takes the interrupt, the others sleep on.    *)

LEMMA PartingWires ==
  ASSUME TypeOK, NEW k \in Kinds, NEW g \in {k, "SINGLE_MODE"}, NEW s \in {"IDLE", "RUN"},
         NEW y \in {"IDLE", "END_SYNC"}, Machines(g, s, k, "END_SYNC", y), Paired(k)
  PROVE  /\ InterruptHalt(master) = {} /\ InterruptSync(master) = {master}
         /\ InterruptSwResync = {} /\ WfiDmr = {} /\ Checked = {} /\ DualMode = {}
         /\ ~EnExtDebug
         /\ g = "SINGLE_MODE" => StartBoot
BY DEF TypeOK, CtrlTypeOK, Checked, DualMode, Machines, Pair,
    TmrIn, DmrIn, InterruptHalt, InterruptSync, InterruptSwResync, WfiDmr, SwitchToSingle,
    SwitchTMRtoSingle, SwitchDMRtoSingle, SwitchSingletoTMR, SwitchSingletoDMR,
    StartBoot, EnExtDebug

\* the master is called, in the handler, or out of it
Wakes(l) ==
  /\ pc[master] = l
  /\ IF l = "hdl_clr" THEN intcAck[master] ELSE ~intcAck[master]
  /\ l # "stop_slp" => ret[master] = "main"

LEMMA PartingStep ==
  ASSUME TypeOK, NEW k \in Kinds, Parting(k),
         InterruptHalt(master) = {}, InterruptSync(master) = {master},
         InterruptSwResync = {}, WfiDmr = {}, Checked = {}, DualMode = {},
         NEW l \in {"stop_slp", "hdl_ack", "hdl_clr"}, Wakes(l),
         NEW S, NEW call, NEW victims, NEW w, Works(S, call, victims, w)
  PROVE  /\ UNCHANGED <<cfg, mask, master>> /\ DebugNext
         /\ Parting(k)'
         /\ \E r \in {"stop_slp", "hdl_ack", "hdl_clr", "hdl_ret"} :
              /\ Wakes(r)'
              /\ r = "hdl_ret" => l = "hdl_clr"
              /\ r = "hdl_clr" => l \in {"hdl_ack", "hdl_clr"}
              /\ l = "hdl_clr" => r \in {"hdl_ret", "hdl_clr"}
<1>1. master \in Hart /\ {master} \subseteq Hart
  BY DEF TypeOK, CtrlTypeOK
<1>2. \A h \in Hart \ {master} : pc[h] \in Rest /\ ~intcAck[h]
  BY DEF Parting, OthersRest, AtRest
<1>3. Unheld(TRUE) /\ Unheld(FALSE)
  BY UnheldAlone DEF Parting
<1>4. \A h \in Hart : CanStep(h) <=> h \in {master}
  BY <1>1, <1>2 DEF Wakes, CanStep, TakesDebug, TakesIrq, DebugReq, Irq, Rest, NoIrq,
                    Handler, Halted, Sleeping, Dead
<1>5. S = {} \/ S = {master}
  <2>1. OnOneBus({master})
    BY DEF OnOneBus
  <2>2. QED
    BY <1>1, <1>3, <1>4, <2>1, Together
<1>6. \A h \in Hart : h \notin S => pc'[h] = pc[h] /\ intcAck'[h] = intcAck[h]
                                    /\ ret'[h] = ret[h]
  BY Stays
<1>7. victims = {}
  BY NoVictims
<1>8. /\ UNCHANGED <<cfg, mask, master>> /\ DebugNext
      /\ LifeKept(EndKept) /\ IntrKept(Asleep = Hart)
      /\ \E r \in {"stop_slp", "hdl_ack", "hdl_clr", "hdl_ret"} :
              /\ pc'[master] = r
              /\ IF r = "hdl_clr" THEN intcAck'[master] ELSE ~intcAck'[master]
              /\ r # "stop_slp" => ret'[master] = "main"
              /\ r = "hdl_ret" => l = "hdl_clr"
              /\ r = "hdl_clr" => l \in {"hdl_ack", "hdl_clr"}
              /\ l = "hdl_clr" => r \in {"hdl_ret", "hdl_clr"}
  <2>1. CASE S = {}
    <3>1. w = NoWrite
      BY <2>1, NobodyMoves
    <3>2. QED
      BY <1>1, <1>6, <2>1, <3>1, NoWriteWorks DEF Wakes
  <2>2. CASE S = {master} /\ l = "stop_slp"
    <3>1. \A h \in S : TakesIrq(h)
      BY <1>1, <2>2 DEF Wakes, TakesIrq, TakesDebug, DebugReq, Irq, NoIrq, Halted, Handler
    <3>2. /\ UNCHANGED <<cfg, mask, master>> /\ DebugNext
          /\ LifeKept(EndKept) /\ IntrKept(Asleep = Hart)
          /\ \A h \in Hart : intcAck'[h] = intcAck[h]
          /\ \A h \in Hart : h \in S /\ TakesIrq(h) =>
              /\ pc'[h] = IF h \in InterruptSwResync THEN "rs_ack" ELSE "hdl_ack"
              /\ ret'[h] = IF pc[h] \in Sleeping \ {"iso"} THEN Follow[pc[h]] ELSE pc[h]
      BY <3>1, CalledAway
    <3>3. Follow["stop_slp"] = "main"
      BY FollowIs
    <3>4. pc'[master] = "hdl_ack" /\ ret'[master] = "main" /\ ~intcAck'[master]
      BY <1>1, <2>2, <3>1, <3>2, <3>3 DEF Wakes, Sleeping
    <3>5. QED
      BY <2>2, <3>2, <3>4
  <2>3. CASE S = {master} /\ l # "stop_slp"
    <3>1. l \in Handler /\ \A h \in S : pc[h] = l
      BY <2>3 DEF Handler, Wakes
    <3>2. /\ UNCHANGED <<cfg, mask, master>> /\ DebugNext
          /\ LifeKept(EndKept) /\ IntrKept(Asleep = Hart)
          /\ Handled(S, victims, l)
      BY <3>1, Handling
    <3>3. CASE l = "hdl_ack"
      <4>1. Follow[l] = "hdl_clr"
        BY <3>3, FollowIs
      <4>2. pc'[master] = "hdl_clr" /\ intcAck'[master] /\ ret'[master] = "main"
        BY <1>1, <2>3, <3>2, <3>3, <4>1 DEF Handled, Wakes
      <4>3. QED
        BY <3>2, <3>3, <4>2
    <3>4. CASE l = "hdl_clr"
      <4>1. Follow[l] = "hdl_ret"
        BY <3>4, FollowIs
      <4>2. pc'[master] = "hdl_ret" /\ ~intcAck'[master] /\ ret'[master] = "main"
        BY <1>1, <2>3, <3>2, <3>4, <4>1 DEF Handled, Wakes
      <4>3. QED
        BY <3>2, <3>4, <4>2
    <3>5. QED
      BY <2>3, <3>3, <3>4
  <2>4. QED
    BY <1>5, <2>1, <2>2, <2>3
<1>9. Working(k)'
  BY <1>8, WorkingKept DEF Parting, DelayFor
<1>10. ~delayFf' /\ Running'
  BY <1>8, RunningKept, WorksParts, DelayIs, NoDelay DEF Parting
<1>11. master' \notin bad'
  BY <1>7, <1>8, WorksParts, DataIs DEF Parting
<1>12. OthersRest'
  BY <1>2, <1>5, <1>6, <1>8 DEF OthersRest, AtRest
<1>13. Parting(k)'
  BY <1>8, <1>9, <1>10, <1>11, <1>12 DEF Parting
<1>14. QED
  BY <1>8, <1>13 DEF Wakes

LEMMA WokenIs ==
  ASSUME master \in Hart
  PROVE  /\ Woken => \E l \in {"stop_slp", "hdl_ack"} : Wakes(l)
         /\ Handles({master}, "hdl_clr", TRUE, "main") => Wakes("hdl_clr")
BY DEF Woken, AllAt, Handles, Wakes

LEMMA WakesNext ==
  ASSUME TypeOK', NEW l \in {"stop_slp", "hdl_ack", "hdl_clr", "hdl_ret"}, Wakes(l)'
  PROVE  /\ l \in {"stop_slp", "hdl_ack"} => Woken'
         /\ l = "hdl_clr" => Handles({master}, "hdl_clr", TRUE, "main")'
         /\ l = "hdl_ret" => Handles({master}, "hdl_ret", FALSE, "main")'
BY TypeOK' DEF Woken, AllAt, Handles, Wakes, TypeOK, CtrlTypeOK, CoresTypeOK

LEMMA PartingInput ==
  ASSUME TypeOK, NEW k \in Kinds, Parting(k),
         NEW l \in {"stop_slp", "hdl_ack", "hdl_clr"}, Wakes(l),
         InterruptHalt(master) = {}, InterruptSync(master) = {master}, InterruptSwResync = {},
         NEW in, NEW victims, InputOf(in, victims)
  PROVE  /\ in.ack = IF l = "hdl_clr" THEN {master} ELSE {}
         /\ in.halt = {}
         /\ Hart \ {master} \subseteq in.wfi
<1>1. \A h \in Hart \ {master} : pc[h] \in Rest /\ ~intcAck[h]
  BY DEF Parting, OthersRest, AtRest
<1>2. master \in Hart
  BY DEF TypeOK, CtrlTypeOK
<1>3. QED
  BY <1>1, <1>2 DEF InputOf, Wakes, Halted, Rest, Asleep, DebugReq, Irq, Sleeping

LEMMA PartedNext ==
  ASSUME TypeOK, TypeOK', NEW k \in Kinds, Parted(k),
         NEW S, NEW call, NEW victims, NEW w, Works(S, call, victims, w)
  PROVE  Waking(k)'
<1>1. Machines(k, "IDLE", k, "END_SYNC", "END_SYNC") /\ Parting(k)
  BY DEF Parted, AllIn
<1>2. /\ InterruptHalt(master) = {} /\ InterruptSync(master) = {master}
      /\ InterruptSwResync = {} /\ WfiDmr = {} /\ Checked = {} /\ DualMode = {}
  BY <1>1, PartingWires DEF Parting, Working
<1>3. Wakes("stop_slp")
  <2>1. master \in Team(k)
    BY PeersOf DEF Parted, Parting, Working, TypeOK, CtrlTypeOK
  <2>2. QED
    BY <2>1 DEF Parted, AllAt, Wakes
<1>4. /\ UNCHANGED <<cfg, mask, master>>
      /\ Parting(k)'
      /\ \E r \in {"stop_slp", "hdl_ack", "hdl_clr", "hdl_ret"} :
              /\ Wakes(r)'
              /\ r = "hdl_ret" => "stop_slp" = "hdl_clr"
              /\ r = "hdl_clr" => "stop_slp" \in {"hdl_ack", "hdl_clr"}
  BY <1>1, <1>2, <1>3, PartingStep
<1>5. Woken'
  BY <1>4, TypeOK', WakesNext
<1>6. PICK in : InputOf(in, victims)
  BY RunningInput DEF Parted, Parting
<1>7. in.ack = {} /\ Hart \ {master} \subseteq in.wfi
  BY <1>1, <1>2, <1>3, <1>6, PartingInput
<1>8. NextMachines("SINGLE_MODE", "IDLE", k, "END_SYNC", "IDLE")
  BY <1>6, <1>7, MachinesParted DEF Parted, Parting, Working, InputOf
<1>9. Machines("SINGLE_MODE", "IDLE", k, "END_SYNC", "IDLE")'
  BY <1>4, <1>8, MachinesPrimed
<1>10. QED
  BY <1>4, <1>5, <1>9 DEF Waking

LEMMA WakingNext ==
  ASSUME TypeOK, TypeOK', NEW k \in Kinds, Waking(k),
         NEW S, NEW call, NEW victims, NEW w, Works(S, call, victims, w)
  PROVE  Returning(k)'
<1>1. Machines("SINGLE_MODE", "IDLE", k, "END_SYNC", "IDLE") /\ Parting(k)
  BY DEF Waking
<1>2. /\ InterruptHalt(master) = {} /\ InterruptSync(master) = {master}
      /\ InterruptSwResync = {} /\ WfiDmr = {} /\ Checked = {} /\ DualMode = {}
      /\ StartBoot /\ ~EnExtDebug
  BY <1>1, PartingWires DEF Parting, Working
<1>3. PICK l \in {"stop_slp", "hdl_ack"} : Wakes(l)
  BY WokenIs DEF Waking, TypeOK, CtrlTypeOK
<1>4. /\ UNCHANGED <<cfg, mask, master>> /\ DebugNext
      /\ Parting(k)'
      /\ \E r \in {"stop_slp", "hdl_ack", "hdl_clr", "hdl_ret"} :
              /\ Wakes(r)'
              /\ r = "hdl_ret" => l = "hdl_clr"
  BY <1>1, <1>2, <1>3, PartingStep
<1>5. Woken' \/ Handles({master}, "hdl_clr", TRUE, "main")'
  BY <1>3, <1>4, TypeOK', WakesNext
<1>6. PICK in : InputOf(in, victims)
  BY RunningInput DEF Waking, Parting
<1>7. in.ack = {}
  BY <1>1, <1>2, <1>3, <1>6, PartingInput
<1>8. NextMachines("SINGLE_MODE", "RUN", k, "END_SYNC", "IDLE")
  BY <1>1, <1>6, <1>7, MachinesWaking DEF Parting, Working, InputOf
<1>9. Machines("SINGLE_MODE", "RUN", k, "END_SYNC", "IDLE")'
  BY <1>4, <1>8, MachinesPrimed
<1>10. dbgReq' = "boot"
  BY <1>2, <1>4 DEF DebugNext, DebugWord
<1>11. QED
  BY <1>4, <1>5, <1>9, <1>10 DEF Returning

LEMMA ReturningNext ==
  ASSUME TypeOK, TypeOK', NEW k \in Kinds, Returning(k),
         NEW S, NEW call, NEW victims, NEW w, Works(S, call, victims, w)
  PROVE  Returning(k)' \/ SingleRunning'
<1>1. Machines("SINGLE_MODE", "RUN", k, "END_SYNC", "IDLE") /\ Parting(k)
  BY DEF Returning
<1>2. /\ InterruptHalt(master) = {} /\ InterruptSync(master) = {master}
      /\ InterruptSwResync = {} /\ WfiDmr = {} /\ Checked = {} /\ DualMode = {}
      /\ StartBoot /\ ~EnExtDebug
  BY <1>1, PartingWires DEF Parting, Working
<1>3. PICK l \in {"stop_slp", "hdl_ack", "hdl_clr"} : Wakes(l)
  BY WokenIs DEF Returning, TypeOK, CtrlTypeOK
<1>4. UNCHANGED <<cfg, mask, master>> /\ DebugNext /\ Parting(k)'
  BY <1>1, <1>2, <1>3, PartingStep
<1>5. PICK r \in {"stop_slp", "hdl_ack", "hdl_clr", "hdl_ret"} :
              /\ Wakes(r)'
              /\ r = "hdl_ret" => l = "hdl_clr"
              /\ l = "hdl_clr" => r \in {"hdl_ret", "hdl_clr"}
  BY <1>1, <1>2, <1>3, PartingStep
<1>6. PICK in : InputOf(in, victims)
  BY RunningInput DEF Returning, Parting
<1>7. in.ack = (IF l = "hdl_clr" THEN {master} ELSE {}) /\ in.halt = {}
  BY <1>1, <1>2, <1>3, <1>6, PartingInput
<1>8. NextMachines("SINGLE_MODE", "RUN", k, IF in.ack = {} THEN "END_SYNC" ELSE "IDLE", "IDLE")
  BY <1>1, <1>6, <1>7, MachinesReturning DEF Parting, Working, InputOf
<1>9. dbgReq' = "boot"
  BY <1>2, <1>4 DEF DebugNext, DebugWord
<1>10. CASE l # "hdl_clr"
  <2>1. NextMachines("SINGLE_MODE", "RUN", k, "END_SYNC", "IDLE")
    BY <1>7, <1>8, <1>10
  <2>2. Machines("SINGLE_MODE", "RUN", k, "END_SYNC", "IDLE")'
    BY <1>4, <2>1, MachinesPrimed
  <2>3. Woken' \/ Handles({master}, "hdl_clr", TRUE, "main")'
    BY <1>5, <1>10, TypeOK', WakesNext
  <2>4. QED
    BY <1>4, <1>9, <2>2, <2>3 DEF Returning
<1>11. CASE l = "hdl_clr"
  <2>1. NextMachines("SINGLE_MODE", "RUN", k, "IDLE", "IDLE")
    BY <1>7, <1>8, <1>11
  <2>2. AllIdle("SINGLE_MODE", "RUN")'
    BY <2>1 DEF NextMachines, AllIdle, Machines
  <2>3. Handles({master}, "hdl_clr", TRUE, "main")' \/ Handles({master}, "hdl_ret", FALSE, "main")'
    BY <1>5, <1>11, TypeOK', WakesNext
  <2>4. Executes("SINGLE_MODE", "main")'
    BY <1>4 DEF Parting, Working, Executes, LifeAt, Left, Moved, ModeOf
  <2>5. Alone' /\ master' \notin bad'
    BY <1>4 DEF Parting, Working, Alone
  <2>6. "main" \in Code
    BY DEF Code
  <2>7. SingleAt("main")'
    BY <2>3, <2>4, <2>5 DEF SingleAt
  <2>8. QED
    BY <1>9, <2>2, <2>5, <2>6, <2>7 DEF SingleRunning
<1>12. QED
  BY <1>10, <1>11

-----------------------------------------------------------------------------
(* One core: launched, at work, and on its way to a team.                  *)

LEMMA AloneKept ==
  ASSUME Alone, DualMode = {}, Checked = {}, master' = master,
         NEW S, NEW call, NEW victims, NEW w, Works(S, call, victims, w), S \subseteq {master}
  PROVE  Alone' /\ victims = {}
<1>1. victims = {}
  BY NoVictims
<1>2. masterFf' = master' /\ ~diff'
  BY <1>1, WorksParts, DataIs DEF Alone, DmrErrorOnBus
<1>3. ~delayFf'
  BY WorksParts, DelayIs, NoDelay DEF Alone
<1>4. OthersRest'
  BY Stays DEF Alone, OthersRest, AtRest
<1>5. QED
  BY <1>1, <1>2, <1>3, <1>4 DEF Alone

LEMMA SingleStartWires ==
  ASSUME TypeOK, AllIdle("SINGLE_MODE", "START")
  PROVE  /\ InterruptHalt(master) = {master} /\ InterruptSync(master) = {}
         /\ InterruptSwResync = {} /\ WfiDmr = {} /\ Checked = {} /\ DualMode = {}
         /\ StartBoot /\ ~EnExtDebug
BY DEF TypeOK, CtrlTypeOK, Checked, DualMode, Machines, AllIdle,
    TmrIn, DmrIn, InterruptHalt, InterruptSync, InterruptSwResync, WfiDmr, SwitchToSingle,
    SwitchTMRtoSingle, SwitchDMRtoSingle, SwitchSingletoTMR, SwitchSingletoDMR,
    StartBoot, EnExtDebug

LEMMA SingleStartingNext ==
  ASSUME TypeOK, SingleStarting,
         NEW S, NEW call, NEW victims, NEW w, Works(S, call, victims, w)
  PROVE  SingleStarting' \/ SingleRunning'
<1>1. master \in Hart /\ {master} \subseteq Hart
  BY DEF TypeOK, CtrlTypeOK
<1>2. /\ InterruptHalt(master) = {master} /\ InterruptSync(master) = {}
      /\ InterruptSwResync = {} /\ WfiDmr = {} /\ Checked = {} /\ DualMode = {}
      /\ StartBoot /\ ~EnExtDebug
  BY SingleStartWires DEF SingleStarting
<1>3. \A h \in Hart \ {master} : pc[h] \in Rest /\ ~intcAck[h]
  BY DEF SingleStarting, Alone, OthersRest, AtRest
<1>4. pc[master] \in Rest \cup {"dbg"} /\ ~intcAck[master]
  BY DEF SingleStarting
<1>5. Unheld(TRUE) /\ Unheld(FALSE)
  BY <1>2, UnheldAlone DEF SingleStarting, Alone
<1>6. \A h \in Hart : CanStep(h) <=> h \in {master}
  BY <1>1, <1>2, <1>3, <1>4 DEF CanStep, TakesDebug, TakesIrq, DebugReq, Irq, Rest,
                                Halted, Sleeping, Dead
<1>7. S = {} \/ S = {master}
  <2>1. OnOneBus({master})
    BY DEF OnOneBus
  <2>2. QED
    BY <1>1, <1>2, <1>5, <1>6, <2>1, Together
<1>8. \A h \in Hart : h \notin S => pc'[h] = pc[h] /\ intcAck'[h] = intcAck[h]
  BY Stays
<1>9. PICK in : InputOf(in, victims)
  BY RunningInput DEF SingleStarting
<1>10. CASE pc[master] \in Rest
  <2>1. \A h \in S : TakesDebug(h)
    BY <1>2, <1>7, <1>10 DEF TakesDebug, DebugReq, Rest, Halted
  <2>2. /\ UNCHANGED <<cfg, mask, master>> /\ DebugNext
        /\ LifeKept(EndKept) /\ IntrKept(Asleep = Hart)
        /\ \A h \in Hart : intcAck'[h] = intcAck[h]
        /\ \A h \in Hart : h \in S /\ TakesDebug(h) => pc'[h] = "dbg"
    BY <1>2, <2>1, CalledAway
  <2>3. Alone' /\ Running' /\ dbgReq' = "boot"
    BY <1>2, <1>7, <2>2, AloneKept, RunningKept DEF SingleStarting, DebugNext, DebugWord
  <2>4. in.halt = {}
    BY <1>1, <1>3, <1>9, <1>10 DEF InputOf, Halted, Rest
  <2>5. Resting("SINGLE_MODE", "START")
    BY <1>9, <2>4, MachinesSingleStarting DEF SingleStarting, InputOf
  <2>6. AllIdle("SINGLE_MODE", "START")'
    BY <2>2, <2>5, MachinesPrimed DEF Resting, AllIdle
  <2>7. pc'[master] \in Rest \cup {"dbg"} /\ ~intcAck'[master]
    BY <1>1, <1>4, <1>7, <1>8, <2>1, <2>2
  <2>8. QED
    BY <2>2, <2>3, <2>6, <2>7 DEF SingleStarting
<1>11. CASE pc[master] = "dbg"
  <2>1. /\ UNCHANGED <<cfg, mask, master>> /\ DebugNext
        /\ LifeKept(EndKept) /\ IntrKept(Asleep = Hart)
        /\ \A h \in Hart : h \in S => /\ pc'[h] = IF "dbg" = "dbg" THEN DebugEntry ELSE Restored
                                      /\ intcAck'[h] = intcAck[h]
        /\ bad' = (bad \ S) \cup victims
    BY <1>2, <1>7, <1>11, Reloading DEF Halted
  <2>2. DebugEntry = "main"
    BY DEF DebugEntry, SingleStarting
  <2>3. Alone' /\ Running' /\ dbgReq' = "boot" /\ victims = {}
    BY <1>2, <1>7, <2>1, AloneKept, RunningKept DEF SingleStarting, DebugNext, DebugWord
  <2>4. in.halt = {master}
    BY <1>1, <1>3, <1>9, <1>11 DEF InputOf, Halted, Rest
  <2>5. Resting("SINGLE_MODE", "RUN")
    BY <1>9, <2>4, MachinesSingleStarting DEF SingleStarting, InputOf
  <2>6. AllIdle("SINGLE_MODE", "RUN")'
    BY <2>1, <2>5, MachinesPrimed DEF Resting, AllIdle
  <2>7. \A v \in {"dbg", "main"} : Executes("SINGLE_MODE", v)'
    BY <2>1, <2>3 DEF SingleStarting, Executes, LifeAt, Left, Moved, ModeOf, Alone
  <2>8. SingleAt("dbg")' \/ SingleAt("main")'
    <3>1. CASE S = {}
      BY <1>1, <1>4, <1>8, <1>11, <2>1, <2>7, <3>1 DEF SingleAt, AllAt
    <3>2. CASE S = {master}
      BY <1>1, <1>4, <2>1, <2>2, <2>3, <2>7, <3>2 DEF SingleAt, AllAt
    <3>3. QED
      BY <1>7, <3>1, <3>2
  <2>9. QED
    BY <2>3, <2>6, <2>8 DEF SingleRunning, Code
<1>12. QED
  BY <1>4, <1>10, <1>11

LEMMA SingleWires ==
  ASSUME TypeOK, AllIdle("SINGLE_MODE", "RUN")
  PROVE  Free /\ Checked = {} /\ DualMode = {} /\ StartBoot /\ ~EnExtDebug
BY DEF TypeOK, CtrlTypeOK, Checked, DualMode, Machines, AllIdle, Free,
    TmrIn, DmrIn, InterruptHalt, InterruptSync, InterruptSwResync, WfiDmr, SwitchToSingle,
    SwitchTMRtoSingle, SwitchDMRtoSingle, SwitchSingletoTMR, SwitchSingletoDMR,
    StartBoot, EnExtDebug

(* The master alone, at work: only it may advance. *)
LEMMA SingleMoves ==
  ASSUME TypeOK, AllIdle("SINGLE_MODE", "RUN"), Alone,
         NEW S, NEW call, NEW victims, NEW w, Works(S, call, victims, w)
  PROVE  /\ S = {} \/ (S = {master} /\ pc[master] \notin Sleeping \cup Dead)
         /\ Asleep = Hart <=> pc[master] \in Sleeping
         /\ \A h \in Hart \ {master} : pc[h] \notin Halted
<1>1. Free /\ Checked = {} /\ DualMode = {} /\ master \in Hart
  BY SingleWires DEF TypeOK, CtrlTypeOK
<1>2. \A h \in Hart \ {master} : pc[h] \in Sleeping /\ pc[h] \notin Halted
  BY DEF Alone, OthersRest, AtRest, Rest, Sleeping, Halted
<1>3. Unheld(TRUE) /\ Unheld(FALSE)
  BY <1>1, UnheldAlone DEF Alone
<1>4. QED
  BY <1>1, <1>2, <1>3, MasterAlone, FreeAsleep

LEMMA SingleLeavingNext ==
  ASSUME TypeOK, SingleLeaving,
         NEW S, NEW call, NEW victims, NEW w, Works(S, call, victims, w)
  PROVE  \E k \in Kinds : Saving(k)'
<1>1. Free /\ Checked = {} /\ DualMode = {} /\ master \in Hart
  BY SingleWires DEF SingleLeaving, TypeOK, CtrlTypeOK
<1>2. pc[master] = "act_save" /\ ~intcAck[master]
  BY DEF SingleLeaving, AllAt
<1>3. S = {} \/ S = {master}
  BY SingleMoves DEF SingleLeaving
<1>4. w = NoWrite
  <2>1. \A h \in S : WriteOf(h, call) = NoWrite
    BY <1>1, <1>2, <1>3, FreeWrite
  <2>2. QED
    BY <2>1, WriteIs
<1>5. UNCHANGED <<cfg, mask, master>> /\ LifeKept(EndKept) /\ IntrKept(Asleep = Hart)
  BY <1>4, NoWriteWorks
<1>6. Alone' /\ victims = {} /\ Running'
  BY <1>1, <1>3, <1>5, AloneKept, RunningKept DEF SingleLeaving
<1>7. PICK in : InputOf(in, victims)
  BY RunningInput DEF SingleLeaving
<1>8. in.halt = {}
  BY <1>2, <1>7, SingleMoves DEF SingleLeaving, InputOf, Halted
<1>9. PICK k \in Kinds : k = ModeOf(cfg) /\ NextMachines(k, Switch(k), k, "IDLE", "IDLE")
  BY <1>7, <1>8, MachinesSingleLeaving DEF SingleLeaving, InputOf
<1>10. Machines(k, Switch(k), k, "IDLE", "IDLE")'
  BY <1>5, <1>9, MachinesPrimed
<1>11. (ModeOf(cfg) = k)' /\ Paired(k)'
  BY <1>5, <1>9 DEF SingleLeaving, Configured, ModeOf, Dual, TypeOK, CtrlTypeOK, Config
<1>12. master' \notin bad'
  BY <1>5, <1>6, WorksParts, DataIs DEF SingleLeaving
<1>13. PICK l \in {"act_save", "act_sync"} : AllAt({master}, l)'
  <2>1. CASE S = {}
    BY <1>1, <1>2, <1>5, <2>1, NobodyMoves DEF AllAt
  <2>2. CASE S = {master}
    <3>1. Follow["act_save"] = "act_sync"
      BY FollowIs
    <3>2. pc'[master] = Follow["act_save"] /\ intcAck'[master] = intcAck[master]
      BY <1>1, <1>2, <2>2, Follows DEF Branching
    <3>3. QED
      BY <1>2, <1>5, <3>1, <3>2 DEF AllAt
  <2>3. QED
    BY <1>3, <2>1, <2>2
<1>14. Saving(k)'
  BY <1>6, <1>10, <1>11, <1>12, <1>13 DEF Saving, Meeting, Working, Alone
<1>15. QED
  BY <1>14

LEMMA RestingPrimed ==
  ASSUME NEW g, NEW s, Resting(g, s)
  PROVE  AllIdle(g, s)'
BY DEF Resting, NextMachines, AllIdle, Machines

LEMMA LifeStays ==
  ASSUME NEW v, LifeAt(v), NEW a \in BOOLEAN, ~a, IntrKept(a), LifeKept(EndKept),
         host' = IF interrupt THEN "told" ELSE "running"
  PROVE  LifeAt(v)'
<1>1. CASE v \in {"exit_wfi", "exit_slp"}
  <2>1. Ended \/ Counted
    BY <1>1 DEF LifeAt
  <2>2. Counted'
    BY <2>1, LifeCounts, LifeCounted
  <2>3. QED
    BY <1>1, <2>2 DEF LifeAt
<1>2. CASE v \notin {"exit_wfi", "exit_slp"}
  <2>1. Running
    BY <1>2 DEF LifeAt
  <2>2. Running'
    BY <2>1, LifeFalling DEF Running
  <2>3. QED
    BY <1>2, <2>2 DEF LifeAt
<1>3. QED
  BY <1>1, <1>2

LEMMA LifeStarted ==
  ASSUME NEW v, LifeAt(v)
  PROVE  /\ host = "running" /\ (start \/ endSw)
         /\ v \notin {"exit_wfi", "exit_slp"} => start /\ ~endSw
         /\ v \in {"exit_wfi", "exit_slp"} => endSw
BY DEF LifeAt, Running, Falling, Ended, Counted, Life

(* The place stays the same while its cores do not advance. *)
LEMMA ExecutesStays ==
  ASSUME NEW k, NEW v, Executes(k, v), LifeAt(v)',
         UNCHANGED <<cfg, mask, master, crit>>,
         masterFf' = masterFf \/ masterFf' = master,
         \A h \in Team(k) : heir'[h] = heir[h], master \in Team(k)
  PROVE  Executes(k, v)'
<1>1. Team(k)' = Team(k)
  BY DEF Team
<1>2. QED
  BY <1>1 DEF Executes, ModeOf

LEMMA SingleMachines ==
  ASSUME TypeOK, AllIdle("SINGLE_MODE", "RUN"), Alone, cfg = SINGLE, NEW v, LifeAt(v),
         v \in {"exit_wfi", "exit_slp"} \/ pc[master] \notin Sleeping,
         NEW S, NEW call, NEW victims, NEW w, Works(S, call, victims, w)
  PROVE  IF pc[master] \in Sleeping THEN AllIdle("SINGLE_MODE", "IDLE")'
                                    ELSE AllIdle("SINGLE_MODE", "RUN")'
<1>1. PICK err \in BOOLEAN : FsmTick(FsmIn(err))
  BY WorksParts
<1>2. /\ Registers(FsmIn(err)) /\ FsmIn(err).start = start /\ FsmIn(err).endSw = endSw
      /\ FsmIn(err).wfi = Asleep
  BY InputIs
<1>3. Resting("SINGLE_MODE", IF endSw /\ Asleep = Hart THEN "IDLE" ELSE "RUN")
  BY <1>1, <1>2, LifeStarted, MachinesSingleRunning
<1>4. Asleep = Hart <=> pc[master] \in Sleeping
  BY SingleMoves
<1>5. CASE pc[master] \in Sleeping
  <2>1. endSw
    BY <1>5, LifeStarted
  <2>2. Resting("SINGLE_MODE", "IDLE")
    BY <1>3, <1>4, <1>5, <2>1
  <2>3. QED
    BY <1>5, <2>2, RestingPrimed
<1>6. CASE pc[master] \notin Sleeping
  <2>1. Resting("SINGLE_MODE", "RUN")
    BY <1>3, <1>4, <1>6
  <2>2. QED
    BY <1>6, <2>1, RestingPrimed
<1>7. QED
  BY <1>5, <1>6

(* The single core in the handler that woke it. *)
LEMMA SingleHandling ==
  ASSUME TypeOK, TypeOK', AllIdle("SINGLE_MODE", "RUN"), Alone, master \notin bad,
         dbgReq = "boot", Executes("SINGLE_MODE", "main"), NEW l \in {"hdl_clr", "hdl_ret"}, Wakes(l),
         NEW S, NEW call, NEW victims, NEW w, Works(S, call, victims, w)
  PROVE  SingleRunning'
<1>1. /\ Free /\ Checked = {} /\ DualMode = {} /\ StartBoot /\ ~EnExtDebug /\ master \in Hart
      /\ InterruptHalt(master) = {} /\ WfiDmr = {}
  BY SingleWires DEF TypeOK, CtrlTypeOK, Free
<1>2. pc[master] = l /\ pc[master] \notin Sleeping
  BY DEF Wakes, Sleeping
<1>3. S = {} \/ S = {master}
  BY SingleMoves
<1>4. cfg = SINGLE /\ LifeAt("main")
  BY DEF Executes, Left, ModeOf
<1>5. AllIdle("SINGLE_MODE", "RUN")'
  BY <1>2, <1>4, SingleMachines
<1>6. /\ \A h \in S : pc[h] = l
      /\ l \in Handler
  BY <1>2, <1>3 DEF Handler
<1>7. /\ UNCHANGED <<cfg, mask, master, crit>> /\ DebugNext
      /\ LifeKept(EndKept) /\ IntrKept(Asleep = Hart)
      /\ Handled(S, victims, l)
      /\ \A h \in Hart : heir'[h] = heir[h]
  BY <1>1, <1>6, Handling
<1>8. Alone' /\ victims = {} /\ dbgReq' = "boot"
  BY <1>1, <1>3, <1>7, AloneKept DEF DebugNext, DebugWord
<1>9. LifeAt("main")'
  BY <1>4, <1>7, RunningKept DEF LifeAt
<1>10. Executes("SINGLE_MODE", "main")'
  BY <1>7, <1>8, <1>9 DEF Executes, Moved, Left, Alone, ModeOf
<1>11. master' \notin bad'
  BY <1>7, <1>8, WorksParts, DataIs
<1>12. Wakes("hdl_clr")' \/ Wakes("hdl_ret")' \/ AllAt({master}, "main")'
  <2>1. CASE S = {}
    <3>1. pc'[master] = pc[master] /\ intcAck'[master] = intcAck[master] /\ ret'[master] = ret[master]
      BY <1>1, <2>1, Stays
    <3>2. Wakes(l)'
      BY <1>7, <3>1 DEF Wakes
    <3>3. QED
      BY <3>2
  <2>2. CASE S = {master} /\ l = "hdl_clr"
    <3>1. Follow[l] = "hdl_ret"
      BY <2>2, FollowIs
    <3>2. Wakes("hdl_ret")'
      BY <1>1, <1>7, <2>2, <3>1 DEF Handled, Wakes
    <3>3. QED
      BY <3>2
  <2>3. CASE S = {master} /\ l = "hdl_ret"
    BY <1>1, <1>7, <2>3 DEF Handled, Wakes, AllAt
  <2>4. QED
    BY <1>3, <2>1, <2>2, <2>3
<1>13. SingleAt("main")'
  BY <1>10, <1>11, <1>12, TypeOK', WakesNext DEF SingleAt
<1>14. QED
  BY <1>5, <1>8, <1>13 DEF SingleRunning, Code

(* The single core stays where it is. *)
LEMMA SingleResting ==
  ASSUME TypeOK, AllIdle("SINGLE_MODE", "RUN"), Alone, dbgReq = "boot",
         NEW v \in Code \cup {"dbg", "act_cfg"}, SingleAt(v), AllAt({master}, v),
         NEW call, NEW victims, NEW w, Works({}, call, victims, w)
  PROVE  SingleRunning' \/ Finished'
<1>1. Free /\ Checked = {} /\ DualMode = {} /\ StartBoot /\ ~EnExtDebug /\ master \in Hart
  BY SingleWires DEF TypeOK, CtrlTypeOK
<1>2. pc[master] = v /\ ~intcAck[master] /\ Executes("SINGLE_MODE", v)
  BY DEF AllAt, SingleAt
<1>3. cfg = SINGLE /\ LifeAt(v)
  BY <1>2 DEF Executes, Left, ModeOf, Code
<1>4. w = NoWrite /\ bad' = bad \cup victims
      /\ \A h \in Hart : /\ pc'[h] = pc[h] /\ intcAck'[h] = intcAck[h]
                         /\ mode'[h] = mode[h] /\ heir'[h] = heir[h]
  BY NobodyMoves
<1>5. /\ UNCHANGED <<cfg, mask, master, crit>> /\ DebugNext
      /\ LifeKept(EndKept) /\ IntrKept(Asleep = Hart)
      /\ host' = IF interrupt THEN "told" ELSE "running"
  BY <1>4, NoWriteWorks, WorksParts
<1>6. Alone' /\ victims = {} /\ dbgReq' = "boot"
  BY <1>1, <1>5, AloneKept DEF DebugNext, DebugWord
<1>7. CASE v = "exit_slp"
  <2>1. Asleep = Hart /\ pc[master] \in Sleeping
    BY <1>2, <1>7, SingleMoves DEF Sleeping
  <2>2. AllIdle("SINGLE_MODE", "IDLE")'
    BY <1>3, <1>7, <2>1, SingleMachines
  <2>3. Signalled'
    BY <1>3, <1>5, <1>7, <2>1, LifeCounted DEF LifeAt
  <2>4. AtRest(Hart)'
    BY <1>2, <1>4, <1>7 DEF AtRest, Alone, OthersRest, Rest
  <2>5. QED
    BY <1>6, <2>2, <2>3, <2>4 DEF Finished, Alone
<1>8. CASE v # "exit_slp"
  <2>1. Asleep # Hart /\ pc[master] \notin Sleeping
    BY <1>2, <1>8, SingleMoves DEF Sleeping, Code
  <2>2. AllIdle("SINGLE_MODE", "RUN")'
    BY <1>3, <2>1, SingleMachines
  <2>3. LifeAt(v)'
    BY <1>3, <1>5, <2>1, LifeStays
  <2>4. Executes("SINGLE_MODE", v)'
    BY <1>1, <1>2, <1>4, <1>5, <1>6, <2>3, ExecutesStays DEF Team, Alone
  <2>5. AllAt({master}, v)'
    BY <1>1, <1>2, <1>4, <1>5 DEF AllAt
  <2>6. SingleAt(v)'
    BY <1>1, <1>4, <1>5, <1>6, <2>4, <2>5 DEF SingleAt, Pair
  <2>7. QED
    BY <1>6, <2>2, <2>6 DEF SingleRunning
<1>9. QED
  BY <1>7, <1>8

(* The single core advances. *)
LEMMA SingleAdvances ==
  ASSUME Templates, TypeOK, AllIdle("SINGLE_MODE", "RUN"), Alone, dbgReq = "boot",
         NEW v \in Code \cup {"dbg", "act_cfg"}, SingleAt(v), AllAt({master}, v),
         NEW call, NEW victims, NEW w, Works({master}, call, victims, w)
  PROVE  SingleRunning' \/ SingleLeaving'
<1>1. /\ Free /\ Checked = {} /\ DualMode = {} /\ StartBoot /\ ~EnExtDebug /\ master \in Hart
      /\ WfiDmr = {} /\ {master} \in SUBSET Hart /\ {master} # {}
  BY SingleWires DEF TypeOK, CtrlTypeOK, Free
<1>2. pc[master] = v /\ ~intcAck[master] /\ Executes("SINGLE_MODE", v)
      /\ \A h \in {master} : pc[h] = v /\ ~intcAck[h]
  BY DEF AllAt, SingleAt
<1>3. cfg = SINGLE /\ LifeAt(v)
  BY <1>2 DEF Executes, Left, ModeOf, Code
<1>4. pc[master] \notin Sleeping /\ v \notin Sleeping
  BY <1>2, SingleMoves
<1>5. AllIdle("SINGLE_MODE", "RUN")'
  BY <1>3, <1>4, SingleMachines
<1>6. victims = {} /\ bad' \subseteq bad
  BY <1>1, NoVictims, WorksParts, DataIs
<1>7. DebugNext => dbgReq' = "boot"
  BY <1>1 DEF DebugNext, DebugWord
<1>8. CASE v = "dbg"
  <2>1. /\ UNCHANGED <<cfg, mask, master>> /\ DebugNext
        /\ LifeKept(EndKept) /\ IntrKept(Asleep = Hart)
        /\ \A h \in Hart : h \in {master} =>
             /\ pc'[h] = IF "dbg" = "dbg" THEN DebugEntry ELSE Restored
             /\ intcAck'[h] = intcAck[h]
        /\ bad' = (bad \ {master}) \cup victims
    BY <1>1, <1>2, <1>8, Reloading DEF Halted
  <2>2. DebugEntry = "main"
    BY DEF DebugEntry
  <2>3. Alone' /\ Running'
    BY <1>1, <1>3, <1>8, <2>1, AloneKept, RunningKept DEF LifeAt
  <2>4. Executes("SINGLE_MODE", "main")'
    BY <1>3, <2>1, <2>3 DEF Executes, LifeAt, Left, Moved, ModeOf, Alone
  <2>5. SingleAt("main")'
    BY <1>1, <1>2, <1>6, <2>1, <2>2, <2>4 DEF SingleAt, AllAt
  <2>6. QED
    BY <1>5, <1>7, <2>1, <2>3, <2>5 DEF SingleRunning, Code
<1>9. CASE v \in Code /\ (v = "main" => call.to # "act_cfg")
  <2>1. Team("SINGLE_MODE") = {master}
    BY DEF Team
  <2>2. PICK u \in Code : Executes("SINGLE_MODE", u)' /\ AllAt({master}, u)' /\ DebugNext
                           /\ master' = master
    <3>1. PICK u \in Code \cup Stop : StepsTo("SINGLE_MODE", v, u)
      BY <1>1, <1>2, <1>4, <1>9, <2>1, ProgramStep
    <3>2. QED
      BY <3>1 DEF StepsTo, AllAt
  <2>3. Alone'
    BY <1>1, <2>2, AloneKept
  <2>4. SingleAt(u)'
    BY <1>6, <1>9, <2>2 DEF SingleAt, Code
  <2>5. QED
    BY <1>5, <1>7, <2>2, <2>3, <2>4 DEF SingleRunning
<1>10. CASE v = "main" /\ call.to = "act_cfg"
  <2>1. Wrote({master}, v, call)
    BY <1>1, <1>2, <1>4, TeamWrites
  <2>2. /\ UNCHANGED <<cfg, master>> /\ mask' = call.mask /\ DebugNext
        /\ LifeKept(EndKept) /\ IntrKept(FALSE) /\ crit' = crit
    BY <1>10, <2>1 DEF Wrote
  <2>3. call \in Calls /\ pc'[master] = call.to /\ ~intcAck'[master] /\ mode'[master] = call.mode
    BY <1>1, <1>2, <1>4, <1>10, TeamStep
  <2>4. call.mode \in Config \ {SINGLE} /\ (call.mode \in Dual => call.mask \in Pair(master))
    <3>1. mask \in SUBSET Hart
      BY DEF TypeOK, CtrlTypeOK
    <3>2. QED
      BY <1>10, <2>3, <3>1, CallIs
  <2>5. Alone'
    BY <1>1, <2>2, AloneKept
  <2>6. Running'
    BY <1>3, <1>10, <2>2, WorksParts, LifeFalling DEF LifeAt, Running
  <2>7. Executes("SINGLE_MODE", "act_cfg")'
    BY <1>3, <2>2, <2>5, <2>6 DEF Executes, LifeAt, Left, Moved, ModeOf, Alone
  <2>8. AllAt({master}, "act_cfg")'
    BY <1>10, <2>2, <2>3 DEF AllAt
  <2>9. mode'[master'] # SINGLE /\ (mode'[master'] \in Dual => mask' \in Pair(master'))
    BY <2>2, <2>3, <2>4
  <2>10. master' \notin bad'
    BY <1>6, <1>10, <2>2 DEF SingleAt
  <2>11. SingleAt("act_cfg")'
    BY <2>7, <2>8, <2>9, <2>10 DEF SingleAt, Pair
  <2>12. QED
    BY <1>5, <1>7, <2>2, <2>5, <2>11 DEF SingleRunning
<1>11. CASE v = "act_cfg"
  <2>1. Wrote({master}, v, call)
    BY <1>1, <1>2, <1>4, TeamWrites
  <2>2. /\ UNCHANGED <<mask, master>> /\ cfg' = mode[master] /\ DebugNext
        /\ LifeKept(EndKept) /\ IntrKept(FALSE)
    BY <1>11, <2>1 DEF Wrote
  <2>3. pc'[master] = Follow[v] /\ ~intcAck'[master]
    BY <1>1, <1>2, <1>4, <1>11, TeamStep DEF Branching
  <2>4. Follow["act_cfg"] = "act_save"
    BY FollowIs
  <2>5. Alone'
    BY <1>1, <2>2, AloneKept
  <2>6. Running'
    BY <1>3, <1>11, <2>2, WorksParts, LifeFalling DEF LifeAt, Running
  <2>7. cfg' # SINGLE /\ Configured'
    BY <1>11, <2>2 DEF SingleAt, Configured, Pair
  <2>8. AllAt({master}, "act_save")' /\ master' \notin bad'
    BY <1>6, <1>11, <2>2, <2>3, <2>4 DEF AllAt, SingleAt
  <2>9. QED
    BY <1>5, <2>5, <2>6, <2>7, <2>8 DEF SingleLeaving
<1>12. QED
  BY <1>8, <1>9, <1>10, <1>11

LEMMA SingleRunningNext ==
  ASSUME Templates, TypeOK, TypeOK', SingleRunning,
         NEW S, NEW call, NEW victims, NEW w, Works(S, call, victims, w)
  PROVE  SingleRunning' \/ SingleLeaving' \/ Finished'
<1>1. AllIdle("SINGLE_MODE", "RUN") /\ Alone /\ dbgReq = "boot"
  BY DEF SingleRunning
<1>2. PICK v \in Code \cup {"dbg", "act_cfg"} : SingleAt(v)
  BY DEF SingleRunning
<1>3. S = {} \/ S = {master}
  BY <1>1, SingleMoves
<1>4. CASE AllAt({master}, v)
  BY <1>1, <1>2, <1>3, <1>4, SingleResting, SingleAdvances
<1>5. CASE ~AllAt({master}, v)
  <2>1. \/ Handles({master}, "hdl_clr", TRUE, "main") \/ Handles({master}, "hdl_ret", FALSE, "main")
    BY <1>2, <1>5 DEF SingleAt
  <2>2. Executes("SINGLE_MODE", "main") /\ master \notin bad
    BY <1>2, <1>5 DEF SingleAt
  <2>3. \E l \in {"hdl_clr", "hdl_ret"} : Wakes(l)
    BY <2>1 DEF Handles, Wakes
  <2>4. QED
    BY <1>1, <2>2, <2>3, SingleHandling
<1>6. QED
  BY <1>4, <1>5

-----------------------------------------------------------------------------
(* A team in SYNC: it goes on in the program, or in a handler.             *)

Proceeds(k, v, u) ==
  /\ Executes(k, u)' /\ AllAt(Team(k), u)' /\ Team(k)' = Team(k)
  /\ mask' = mask /\ masterFf' = masterFf
  /\ cfg' = cfg \/ cfg' = SINGLE
  /\ crit => crit' \/ u \in {"main", "stop_mst"}
  /\ u \in {"exit_slp", "stop_slp"} => v \in {"exit_wfi", "stop_wfi"}

LEMMA TeamProceeds ==
  ASSUME Templates, TypeOK, NEW k \in Kinds, NEW v \in Code \cup Stop \cup {"act_end"},
         Executes(k, v), AllAt(Team(k), v), Free, v \notin Sleeping,
         NEW S, NEW call, NEW victims, NEW w, Works(S, call, victims, w),
         S = {} \/ S = Team(k)
  PROVE  \E u \in Code \cup Stop \cup {"act_end"} : Proceeds(k, v, u)
<1>1. master \in Team(k) /\ Team(k) \subseteq Hart /\ \A h \in Team(k) : pc[h] = v /\ ~intcAck[h]
  BY TeamOf DEF Executes, AllAt
<1>2. CASE S = Team(k)
  <2>1. PICK u \in Code \cup Stop : StepsTo(k, v, u)
    BY <1>1, <1>2, ProgramStep
  <2>2. Proceeds(k, v, u)
    BY <2>1 DEF StepsTo, Proceeds
  <2>3. QED
    BY <2>2
<1>3. CASE S = {}
  <2>1. w = NoWrite /\ \A h \in Hart : /\ pc'[h] = pc[h] /\ intcAck'[h] = intcAck[h]
                                       /\ heir'[h] = heir[h]
    BY <1>3, NobodyMoves
  <2>2. /\ UNCHANGED <<cfg, mask, master, crit>> /\ LifeKept(EndKept) /\ IntrKept(Asleep = Hart)
    BY <2>1, NoWriteWorks
  <2>3. Asleep # Hart
    BY <1>1, FreeAsleep
  <2>4. masterFf' = masterFf
    BY <2>3, WorksParts, DataIs
  <2>5. LifeAt(v)'
    BY <2>2, <2>3, WorksParts, LifeStays DEF Executes
  <2>6. Executes(k, v)'
    BY <1>1, <2>1, <2>2, <2>4, <2>5, ExecutesStays
  <2>7. AllAt(Team(k), v)' /\ Team(k)' = Team(k)
    BY <1>1, <2>1, <2>2 DEF AllAt, Team
  <2>8. Proceeds(k, v, v)
    BY <2>2, <2>4, <2>6, <2>7 DEF Proceeds, Sleeping
  <2>9. QED
    BY <2>8
<1>4. QED
  BY <1>2, <1>3

InHandler(G, l, v) ==
  \A h \in G : /\ pc[h] = l /\ ret[h] = v
               /\ IF l \in {"hdl_clr", "rs_clr"} THEN intcAck[h] ELSE ~intcAck[h]

Serving == {"hdl_clr", "hdl_ret", "rs_ack", "rs_clr", "rs_ret"}

LEMMA HandlerIs ==
  ASSUME TypeOK, NEW G \in SUBSET Hart, NEW v
  PROVE  /\ Handles(G, "hdl_clr", TRUE, v) <=> InHandler(G, "hdl_clr", v)
         /\ Handles(G, "hdl_ret", FALSE, v) <=> InHandler(G, "hdl_ret", v)
         /\ Handles(G, "rs_ack", FALSE, v) <=> InHandler(G, "rs_ack", v)
         /\ Handles(G, "rs_clr", TRUE, v) <=> InHandler(G, "rs_clr", v)
         /\ Handles(G, "rs_ret", FALSE, v) <=> InHandler(G, "rs_ret", v)
BY DEF TypeOK, CoresTypeOK, Handles, InHandler

LEMMA HandlerNext ==
  ASSUME TypeOK', NEW G \in SUBSET Hart, NEW v
  PROVE  /\ InHandler(G, "hdl_clr", v)' => Handles(G, "hdl_clr", TRUE, v)'
         /\ InHandler(G, "hdl_ret", v)' => Handles(G, "hdl_ret", FALSE, v)'
         /\ InHandler(G, "rs_ack", v)' => Handles(G, "rs_ack", FALSE, v)'
         /\ InHandler(G, "rs_clr", v)' => Handles(G, "rs_clr", TRUE, v)'
         /\ InHandler(G, "rs_ret", v)' => Handles(G, "rs_ret", FALSE, v)'
BY TypeOK' DEF TypeOK, CoresTypeOK, Handles, InHandler

\* from l in a handler
Serves(k, S, victims, l, v) ==
  /\ Executes(k, v)' /\ Team(k)' = Team(k)
  /\ UNCHANGED <<cfg, mask, master, crit>> /\ masterFf' = masterFf
  /\ bad' = (IF S # {} /\ l = "rs_clr" THEN bad \ Team(k) ELSE bad) \cup victims
  /\ S = {} => InHandler(Team(k), l, v)'
  /\ S # {} => /\ l \in {"hdl_ret", "rs_ret"} => AllAt(Team(k), v)'
               /\ l = "hdl_clr" => InHandler(Team(k), "hdl_ret", v)'
               /\ l = "rs_ack" => InHandler(Team(k), "rs_clr", v)'
               /\ l = "rs_clr" => InHandler(Team(k), "rs_ret", v)'

LEMMA TeamHandling ==
  ASSUME TypeOK, NEW k \in Kinds, NEW v, Executes(k, v), NEW l \in Serving,
         InHandler(Team(k), l, v), InterruptHalt(master) = {}, WfiDmr = {},
         NEW S, NEW call, NEW victims, NEW w, Works(S, call, victims, w),
         S = {} \/ S = Team(k)
  PROVE  Serves(k, S, victims, l, v)
<1>1. master \in Team(k) /\ Team(k) \subseteq Hart
  BY TeamOf DEF Executes
<1>2. l \in Handler /\ \A h \in S : pc[h] = l
  BY DEF Serving, Handler, InHandler
<1>3. /\ UNCHANGED <<cfg, mask, master, crit>>
      /\ LifeKept(EndKept) /\ IntrKept(Asleep = Hart)
      /\ Handled(S, victims, l)
      /\ \A h \in Hart : heir'[h] = heir[h]
  BY <1>2, Handling
<1>4. Asleep # Hart
  BY <1>1 DEF Asleep, InHandler, Serving, Sleeping
<1>5. masterFf' = masterFf
  BY <1>4, WorksParts, DataIs
<1>6. LifeAt(v)'
  BY <1>3, <1>4, WorksParts, LifeStays DEF Executes
<1>7. Executes(k, v)' /\ Team(k)' = Team(k)
  BY <1>1, <1>3, <1>5, <1>6, ExecutesStays DEF Team
<1>8. bad' = (IF S # {} /\ l = "rs_clr" THEN bad \ Team(k) ELSE bad) \cup victims
  BY <1>3 DEF Handled
<1>9. S = {} => InHandler(Team(k), l, v)'
  <2>1. \A h \in Hart : h \notin S => pc'[h] = pc[h] /\ intcAck'[h] = intcAck[h] /\ ret'[h] = ret[h]
    BY Stays
  <2>2. QED
    BY <1>1, <1>7, <2>1 DEF InHandler
<1>10. ASSUME S = Team(k)
       PROVE  /\ l \in {"hdl_ret", "rs_ret"} => AllAt(Team(k), v)'
              /\ l = "hdl_clr" => InHandler(Team(k), "hdl_ret", v)'
              /\ l = "rs_ack" => InHandler(Team(k), "rs_clr", v)'
              /\ l = "rs_clr" => InHandler(Team(k), "rs_ret", v)'
  <2>1. l \in {"hdl_ret", "rs_ret"} => AllAt(Team(k), v)'
    BY <1>1, <1>3, <1>7, <1>10 DEF Handled, AllAt, InHandler
  <2>2. l = "hdl_clr" => InHandler(Team(k), "hdl_ret", v)'
    BY <1>1, <1>3, <1>7, <1>10, FollowIs DEF Handled, InHandler
  <2>3. l = "rs_ack" => InHandler(Team(k), "rs_clr", v)'
    BY <1>1, <1>3, <1>7, <1>10, FollowIs DEF Handled, InHandler
  <2>4. l = "rs_clr" => InHandler(Team(k), "rs_ret", v)'
    BY <1>1, <1>3, <1>7, <1>10, FollowIs DEF Handled, InHandler
  <2>5. QED
    BY <2>1, <2>2, <2>3, <2>4
<1>11. QED
  BY <1>3, <1>5, <1>7, <1>8, <1>9, <1>10 DEF Serves

-----------------------------------------------------------------------------
(* Three voted cores.                                                      *)

(* A fault shows on one core, at a place of the program where the          *)
(* templates let it; in a pair only over a checkpoint of the application.  *)
LEMMA StruckOnly ==
  ASSUME Templates, NEW S, NEW call, NEW victims, NEW w, Works(S, call, victims, w), victims # {}
  PROVE  \E h \in Checked : /\ victims = {h} /\ pc[h] \in Struck /\ bad \subseteq {h}
                            /\ h \in DmrIn({"SYNC"}) => ctx = "main"
BY DEF Works, Strikable, Templates

LEMMA VotingWires ==
  ASSUME TypeOK, AllIn("TMR_MODE", "SYNC")
  PROVE  /\ Free /\ InterruptHalt(master) = {} /\ WfiDmr = {} /\ Checked = Hart /\ DualMode = {}
         /\ TmrIn({"SYNC"}) = Hart /\ DmrIn({"SYNC"}) = {} /\ SingleBus
BY ThreeHarts, FS_EmptySet DEF TypeOK, CtrlTypeOK, Checked, DualMode, Machines, AllIn, Free,
    TmrIn, DmrIn, InterruptHalt, InterruptSync, InterruptSwResync, WfiDmr, SwitchToSingle,
    SwitchTMRtoSingle, SwitchDMRtoSingle, SwitchSingletoTMR, SwitchSingletoDMR,
    SingleBus, TmrVoting

(* What the controller sees of three voted cores. *)
VotingInput(in, victims) ==
  /\ Registers(in) /\ FsmTick(in)
  /\ in.crit = crit /\ in.endSw = endSw /\ in.wfi = Asleep
  /\ in.ack = {h \in Hart : intcAck[h]}
  /\ in.tmrErr = (victims # {} /\ TmrIn({"SYNC"}) # {})

LEMMA VotingInputIs ==
  ASSUME TypeOK, NEW S, NEW call, NEW victims, NEW w, Works(S, call, victims, w)
  PROVE  \E in : VotingInput(in, victims)
<1>1. FsmTick(FsmIn(victims # {})) /\ (victims # {}) \in BOOLEAN
  BY WorksParts
<1>2. VotingInput(FsmIn(victims # {}), victims)
  BY <1>1, InputIs DEF VotingInput
<1>3. QED
  BY <1>2

(* All cores at l: they advance together, and nothing is delayed or held. *)
LEMMA VotingMoves ==
  ASSUME TypeOK, AllIn("TMR_MODE", "SYNC"), ~delayFf, ~diff,
         NEW l, \A h \in Hart : pc[h] = l,
         NEW S, NEW call, NEW victims, NEW w, Works(S, call, victims, w)
  PROVE  /\ S = {} \/ (S = Hart /\ l \notin Sleeping \cup Dead)
         /\ ~delayFf' /\ ~diff'
<1>1. /\ Free /\ DualMode = {} /\ DmrIn({"SYNC"}) = {} /\ SingleBus
  BY VotingWires
<1>2. Unheld(TRUE) /\ Unheld(FALSE)
  BY <1>1, UnheldAlone
<1>3. OnOneBus(Hart)
  BY <1>1 DEF OnOneBus
<1>4. S = {} \/ (S = Hart /\ l \notin Sleeping \cup Dead)
  <2>1. Hart \in SUBSET Hart /\ \A h \in Hart \ Hart : pc[h] \in Sleeping
    OBVIOUS
  <2>2. QED
    BY <1>1, <1>2, <1>3, <2>1, FreeTeam
<1>5. ~diff'
  BY <1>1, WorksParts, DataIs DEF DmrErrorOnBus
<1>6. ~delayFf'
  BY <1>1, WorksParts, DelayIs, NoDelay
<1>7. QED
  BY <1>4, <1>5, <1>6

(* While the voter's errors do not end SYNC they are only remembered. *)
LEMMA VotingErrors ==
  ASSUME TypeOK, AllIn("TMR_MODE", "SYNC"), errFf => errSeen,
         NEW victims, NEW in, VotingInput(in, victims), ~TmrError(in)
  PROVE  /\ errSeen' <=> errSeen \/ victims # {}
         /\ errFf' => errSeen'
         /\ ~crit => victims = {} /\ ~errSeen
<1>1. TmrIn({"SYNC"}) = Hart /\ Hart # {}
  BY VotingWires, ThreeHarts, FS_EmptySet
<1>2. in.crit = crit /\ (in.tmrErr <=> victims # {}) /\ FsmTick(in)
  BY <1>1 DEF VotingInput
<1>3. errFf \in BOOLEAN /\ errSeen \in BOOLEAN /\ crit \in BOOLEAN
  BY DEF TypeOK, FsmTypeOK, CtrlTypeOK
<1>4. ~crit => ~in.tmrErr /\ ~errSeen
  BY <1>2 DEF TmrError
<1>5. crit => errFf \/ ~errSeen \/ ~in.tmrErr
  BY <1>2 DEF TmrError
<1>6. errFf' = in.tmrErr /\ errSeen' = IF in.tmrErr /\ ~errFf THEN ~errSeen ELSE errSeen
  <2>1. errFf' = (in.tmrErr /\ ~ErrForgotten(in)) /\ errSeen' = ErrSeenNext(in)
    BY <1>2 DEF FsmTick
  <2>2. ~ErrForgotten(in)
    BY <1>1 DEF ErrForgotten
  <2>3. ErrToggles(in) <=> in.tmrErr /\ ~errFf
    BY <1>1 DEF ErrToggles
  <2>4. in.tmrErr \in BOOLEAN
    BY DEF VotingInput
  <2>5. errFf' = in.tmrErr
    BY <2>1, <2>2, <2>4
  <2>6. ErrSeenNext(in) = IF in.tmrErr /\ ~errFf THEN ~errSeen ELSE errSeen
    BY <1>3, <2>2, <2>3 DEF ErrSeenNext
  <2>7. QED
    BY <2>1, <2>5, <2>6
<1>7. QED
  BY <1>2, <1>3, <1>4, <1>5, <1>6

LEMMA VotingStays ==
  ASSUME TypeOK, AllIn("TMR_MODE", "SYNC"), NEW victims, NEW in, VotingInput(in, victims),
         Asleep # Hart, mask' = mask
  PROVE  IF TmrError(in) THEN AllIn("TMR_MODE", "SYNCINTC")' ELSE AllIn("TMR_MODE", "SYNC")'
<1>1. NextMachines("TMR_MODE", "IDLE", "TMR_MODE", VotingNext(in), VotingNext(in))
  BY MachinesVoting DEF VotingInput
<1>2. VotingNext(in) = IF TmrError(in) THEN "SYNCINTC" ELSE "SYNC"
  BY DEF VotingInput, VotingNext
<1>3. CASE TmrError(in)
  <2>1. NextMachines("TMR_MODE", "IDLE", "TMR_MODE", "SYNCINTC", "SYNCINTC")
    BY <1>1, <1>2, <1>3
  <2>2. QED
    BY <1>3, <2>1, MachinesPrimed DEF AllIn
<1>4. CASE ~TmrError(in)
  <2>1. NextMachines("TMR_MODE", "IDLE", "TMR_MODE", "SYNC", "SYNC")
    BY <1>1, <1>2, <1>4
  <2>2. QED
    BY <1>4, <2>1, MachinesPrimed DEF AllIn
<1>5. QED
  BY <1>3, <1>4

(* The program goes on, or the voter's error interrupts all three cores;   *)
(* no longer when the configuration has left TCLS.                         *)
LEMMA VotingProgram ==
  ASSUME Templates, TypeOK, TypeOK', AllIn("TMR_MODE", "SYNC"), ~delayFf, ~diff,
         NEW v \in Code \cup Stop \cup {"act_end"}, VotingAt(v), AllAt(Hart, v), v \notin Sleeping,
         NEW S, NEW call, NEW victims, NEW w, Works(S, call, victims, w)
  PROVE  Voting' \/ (cfg = TCLS /\ Resyncing("SYNCINTC")')
<1>1. Free /\ Checked = Hart /\ Hart # {} /\ Team("TMR_MODE") = Hart
  BY VotingWires, ThreeHarts, FS_EmptySet DEF Team
<1>2. /\ Executes("TMR_MODE", v) /\ (errFf => errSeen) /\ (errSeen <=> bad # {})
      /\ bad # {} => crit \/ v \in {"main", "stop_mst"}
      /\ \A h \in Hart : pc[h] = v
  BY DEF VotingAt, AllAt
<1>3. (S = {} \/ S = Hart) /\ ~delayFf' /\ ~diff'
  BY <1>2, VotingMoves
<1>4. PICK u \in Code \cup Stop \cup {"act_end"} : Proceeds("TMR_MODE", v, u)
  BY <1>1, <1>2, <1>3, TeamProceeds
<1>5. /\ Executes("TMR_MODE", u)' /\ AllAt(Hart, u)' /\ mask' = mask
      /\ crit => crit' \/ u \in {"main", "stop_mst"}
      /\ u \in {"exit_slp", "stop_slp"} => v \in {"exit_wfi", "stop_wfi"}
  BY <1>1, <1>4 DEF Proceeds
<1>6. bad' = bad \cup victims
  <2>1. v \notin {"dbg", "restore", "rs_clr"}
    BY DEF Code, Stop
  <2>2. {h \in S : pc[h] \in {"dbg", "restore", "rs_clr"}} = {}
    BY <1>2, <1>3, <2>1
  <2>3. QED
    BY <1>1, <2>2, WorksParts, FreeData
<1>7. PICK in : VotingInput(in, victims)
  BY VotingInputIs
<1>8. Asleep # Hart
  BY <1>1, <1>2, FreeAsleep
<1>9. IF TmrError(in) THEN AllIn("TMR_MODE", "SYNCINTC")' ELSE AllIn("TMR_MODE", "SYNC")'
  BY <1>5, <1>7, <1>8, VotingStays
<1>10. CASE ~TmrError(in)
  <2>1. /\ errSeen' <=> errSeen \/ victims # {}
        /\ errFf' => errSeen'
        /\ ~crit => victims = {} /\ ~errSeen
    BY <1>2, <1>7, <1>10, VotingErrors
  <2>2. VotingAt(u)'
    BY <1>2, <1>5, <1>6, <2>1 DEF VotingAt
  <2>3. QED
    BY <1>3, <1>9, <1>10, <2>2 DEF Voting
<1>11. CASE TmrError(in)
  <2>1. v \in Struck
    <3>1. CASE victims # {}
      BY <1>1, <1>2, <3>1, StruckOnly
    <3>2. CASE victims = {}
      <4>1. ~in.tmrErr /\ in.crit = crit
        BY <1>7, <3>2 DEF VotingInput
      <4>2. ~crit /\ errSeen
        BY <1>11, <4>1 DEF TmrError
      <4>3. QED
        BY <1>2, <4>2 DEF Struck
    <3>3. QED
      BY <3>1, <3>2
  <2>2. u \in Struck \cup {"exit_wfi", "stop_wfi"}
    BY <1>5, <2>1 DEF Struck, Code, Stop
  <2>3. ResyncingAt("SYNCINTC", u)'
    BY <1>5 DEF ResyncingAt
  <2>4. cfg = TCLS
    <3>1. ModeOf(cfg) = "TMR_MODE"
      BY <1>2, <2>1 DEF Executes, Struck, Left
    <3>2. QED
      BY <3>1 DEF ModeOf
  <2>5. QED
    BY <1>3, <1>9, <1>11, <2>2, <2>3, <2>4 DEF Resyncing
<1>12. QED
  BY <1>10, <1>11

(* The end of the interrupt that brought the cores together, or of their   *)
(* recovery: here no error interrupts them.                                *)
LEMMA VotingHandler ==
  ASSUME Templates, TypeOK, TypeOK', AllIn("TMR_MODE", "SYNC"), ~delayFf, ~diff,
         NEW v \in Code \cup Stop \cup {"act_end"}, VotingAt(v),
         NEW l \in {"hdl_clr", "hdl_ret", "rs_ret"}, InHandler(Hart, l, v),
         l # "rs_ret" => v = "act_end", l = "rs_ret" => v \notin Sleeping /\ bad = {},
         NEW S, NEW call, NEW victims, NEW w, Works(S, call, victims, w)
  PROVE  Voting'
<1>1. /\ Free /\ Checked = Hart /\ Hart # {} /\ Team("TMR_MODE") = Hart
      /\ InterruptHalt(master) = {} /\ WfiDmr = {}
  BY VotingWires, ThreeHarts, FS_EmptySet DEF Team
<1>2. /\ Executes("TMR_MODE", v) /\ (errFf => errSeen) /\ (errSeen <=> bad # {})
      /\ bad # {} => crit \/ v \in {"main", "stop_mst"}
      /\ \A h \in Hart : pc[h] = l
  BY DEF VotingAt, InHandler
<1>3. (S = {} \/ S = Hart) /\ ~delayFf' /\ ~diff'
  BY <1>2, VotingMoves
<1>4. Serves("TMR_MODE", S, victims, l, v)
  BY <1>1, <1>2, <1>3, TeamHandling DEF Serving
<1>5. victims = {}
  BY <1>1, <1>2, StruckOnly DEF Struck
<1>6. /\ Executes("TMR_MODE", v)' /\ mask' = mask /\ crit' = crit /\ bad' = bad
      /\ S = {} => InHandler(Hart, l, v)'
      /\ S # {} => /\ l \in {"hdl_ret", "rs_ret"} => AllAt(Hart, v)'
                   /\ l = "hdl_clr" => InHandler(Hart, "hdl_ret", v)'
  BY <1>1, <1>4, <1>5 DEF Serves
<1>7. PICK in : VotingInput(in, victims)
  BY VotingInputIs
<1>8. Asleep # Hart
  BY <1>1, <1>2, FreeAsleep DEF Sleeping
<1>9. ~TmrError(in)
  <2>1. ~in.tmrErr /\ in.crit = crit
    BY <1>5, <1>7 DEF VotingInput
  <2>2. QED
    BY <1>2, <2>1 DEF TmrError
<1>10. AllIn("TMR_MODE", "SYNC")'
  BY <1>6, <1>7, <1>8, <1>9, VotingStays
<1>11. /\ errSeen' <=> errSeen
       /\ errFf' => errSeen'
  BY <1>2, <1>5, <1>7, <1>9, VotingErrors
<1>12. \/ AllAt(Hart, v)'
       \/ l # "rs_ret" /\ (Handles(Hart, "hdl_clr", TRUE, v)' \/ Handles(Hart, "hdl_ret", FALSE, v)')
       \/ l = "rs_ret" /\ Handles(Hart, "rs_ret", FALSE, v)'
  BY <1>3, <1>6, TypeOK', HandlerNext
<1>13. VotingAt(v)'
  BY <1>2, <1>6, <1>11, <1>12 DEF VotingAt
<1>14. QED
  BY <1>3, <1>10, <1>13 DEF Voting

(* All three cores asleep: at the end of the program, or on the way back.  *)
LEMMA VotingAsleep ==
  ASSUME Templates, TypeOK, TypeOK', AllIn("TMR_MODE", "SYNC"), ~delayFf, ~diff,
         NEW v \in {"exit_slp", "stop_slp"}, VotingAt(v), AllAt(Hart, v),
         NEW S, NEW call, NEW victims, NEW w, Works(S, call, victims, w)
  PROVE  Parted("TMR_MODE")' \/ Finished'
<1>1. Free /\ Checked = Hart /\ Hart # {} /\ DmrIn({"SYNC"}) = {}
  BY VotingWires, ThreeHarts, FS_EmptySet
<1>2. /\ LifeAt(v) /\ (v = "stop_slp" => cfg = SINGLE /\ ~crit) /\ (v = "exit_slp" => cfg = TCLS)
      /\ bad # {} => crit \/ v \in {"main", "stop_mst"}
      /\ \A h \in Hart : pc[h] = v /\ ~intcAck[h]
  BY DEF VotingAt, Executes, AllAt, Left, Moved, ModeOf
<1>3. S = {} /\ Asleep = Hart
  BY <1>1, <1>2, AllSleep DEF Sleeping
<1>4. w = NoWrite /\ bad' = bad \cup victims
      /\ \A h \in Hart : pc'[h] = pc[h] /\ intcAck'[h] = intcAck[h]
  BY <1>3, NobodyMoves
<1>5. /\ UNCHANGED <<cfg, mask, master>> /\ LifeKept(EndKept) /\ IntrKept(Asleep = Hart)
      /\ host' = IF interrupt THEN "told" ELSE "running"
  BY <1>4, NoWriteWorks, WorksParts
<1>6. victims = {}
  BY <1>1, <1>2, StruckOnly DEF Struck
<1>7. masterFf' = master /\ ~diff' /\ ~delayFf'
  <2>1. masterFf' = master
    BY <1>3, WorksParts, DataIs
  <2>2. ~delayFf'
    BY VotingMoves, <1>2
  <2>3. ~diff'
    BY VotingMoves, <1>2
  <2>4. QED
    BY <2>1, <2>2, <2>3
<1>8. PICK in : VotingInput(in, victims)
  BY VotingInputIs
<1>9. NextMachines("TMR_MODE", "IDLE", "TMR_MODE", VotingNext(in), VotingNext(in))
  BY <1>8, MachinesVoting DEF VotingInput
<1>10. in.wfi = Hart /\ in.endSw = endSw
  BY <1>3, <1>8 DEF VotingInput
<1>11. CASE v = "exit_slp"
  <2>1. Counted /\ endSw
    BY <1>2, <1>11 DEF LifeAt, Counted, Life
  <2>2. Signalled'
    BY <1>3, <1>5, <2>1, LifeCounted
  <2>3. VotingNext(in) = "IDLE"
    BY <1>10, <2>1 DEF VotingNext
  <2>4. NextMachines("TMR_MODE", "IDLE", "TMR_MODE", "IDLE", "IDLE")
    BY <1>9, <2>3
  <2>5. AllIdle("TMR_MODE", "IDLE")'
    BY <1>5, <2>4, MachinesPrimed DEF AllIdle
  <2>6. AtRest(Hart)'
    BY <1>2, <1>4, <1>11 DEF AtRest, Rest
  <2>7. QED
    BY <1>7, <2>2, <2>5, <2>6 DEF Finished
<1>12. CASE v = "stop_slp"
  <2>1. Running /\ ~endSw /\ cfg = SINGLE
    BY <1>2, <1>12 DEF LifeAt, Running, Falling, Life
  <2>2. Running'
    BY <1>5, <2>1, RunningKept
  <2>3. VotingNext(in) = "END_SYNC"
    BY <1>10, <2>1 DEF VotingNext
  <2>4. NextMachines("TMR_MODE", "IDLE", "TMR_MODE", "END_SYNC", "END_SYNC")
    BY <1>9, <2>3
  <2>5. AllIn("TMR_MODE", "END_SYNC")'
    BY <1>5, <2>4, MachinesPrimed DEF AllIn
  <2>6. bad' = {}
    BY <1>2, <1>4, <1>6, <1>12
  <2>7. AllAt(Hart, "stop_slp")' /\ OthersRest'
    BY <1>2, <1>4, <1>5, <1>12 DEF AllAt, OthersRest, AtRest, Rest
  <2>8. Parting("TMR_MODE")'
    BY <1>5, <1>7, <2>1, <2>2, <2>6, <2>7 DEF Parting, Working
  <2>9. AllAt(Team("TMR_MODE"), "stop_slp")'
    BY <2>7 DEF Team
  <2>10. QED
    BY <2>5, <2>8, <2>9 DEF Parted
<1>13. QED
  BY <1>11, <1>12

LEMMA VotingCycle ==
  ASSUME Templates, TypeOK, TypeOK', Voting,
         NEW S, NEW call, NEW victims, NEW w, Works(S, call, victims, w)
  PROVE  \/ Voting' \/ Parted("TMR_MODE")' \/ Finished'
         \/ cfg = TCLS /\ Resyncing("SYNCINTC")'
<1>1. AllIn("TMR_MODE", "SYNC") /\ ~delayFf /\ ~diff
  BY DEF Voting
<1>2. PICK v \in Code \cup Stop \cup {"act_end"} : VotingAt(v)
  BY DEF Voting
<1>3. CASE AllAt(Hart, v) /\ v \notin Sleeping
  BY <1>1, <1>2, <1>3, VotingProgram
<1>4. CASE AllAt(Hart, v) /\ v \in Sleeping
  <2>1. v \in {"exit_slp", "stop_slp"}
    BY <1>4 DEF Code, Stop, Sleeping
  <2>2. QED
    BY <1>1, <1>2, <1>4, <2>1, VotingAsleep
<1>5. CASE ~AllAt(Hart, v)
  <2>1. PICK l \in {"hdl_clr", "hdl_ret", "rs_ret"} :
              /\ InHandler(Hart, l, v)
              /\ l # "rs_ret" => v = "act_end"
              /\ l = "rs_ret" => v \notin Sleeping /\ bad = {}
    BY <1>2, <1>5, HandlerIs DEF VotingAt
  <2>2. QED
    BY <1>1, <1>2, <2>1, VotingHandler
<1>6. QED
  BY <1>3, <1>4, <1>5

-----------------------------------------------------------------------------
(* The recovery of the voted cores in software.                            *)

LEMMA ResyncingWires ==
  ASSUME TypeOK, NEW x \in {"SYNCINTC", "SWSYNC"}, AllIn("TMR_MODE", x)
  PROVE  /\ InterruptHalt(master) = {} /\ InterruptSync(master) = {}
         /\ InterruptSwResync = Hart /\ WfiDmr = {} /\ Checked = {} /\ DualMode = {}
         /\ DmrIn({"SYNC"}) = {} /\ SingleBus
BY ThreeHarts, FS_EmptySet DEF TypeOK, CtrlTypeOK, Checked, DualMode, Machines, AllIn,
    TmrIn, DmrIn, InterruptHalt, InterruptSync, InterruptSwResync, WfiDmr, SwitchToSingle,
    SwitchTMRtoSingle, SwitchDMRtoSingle, SwitchSingletoTMR, SwitchSingletoDMR,
    SingleBus, TmrVoting

(* All cores at l, which is no wfi: they advance together. *)
LEMMA ResyncingMoves ==
  ASSUME TypeOK, NEW x \in {"SYNCINTC", "SWSYNC"}, AllIn("TMR_MODE", x), ~delayFf, ~diff,
         NEW l, \A h \in Hart : pc[h] = l, l \notin Sleeping \cup Dead,
         NEW S, NEW call, NEW victims, NEW w, Works(S, call, victims, w)
  PROVE  /\ S = {} \/ S = Hart
         /\ victims = {} /\ ~delayFf' /\ ~diff' /\ Asleep # Hart
         /\ \E in : VotingInput(in, victims) /\ ~errFf' /\ ~errSeen'
<1>1. /\ WfiDmr = {} /\ Checked = {} /\ DualMode = {} /\ DmrIn({"SYNC"}) = {} /\ SingleBus
  BY ResyncingWires
<1>2. Unheld(TRUE) /\ Unheld(FALSE)
  BY <1>1, UnheldAlone
<1>4. {h \in Hart : CanStep(h)} = Hart
  BY DEF CanStep
<1>5. S = {} \/ S = Hart
  <2>1. S \in Movers(victims # {}) /\ Unheld(victims # {})
    BY <1>2 DEF Works
  <2>2. QED
    BY <1>1, <1>4, <2>1 DEF Movers, Unheld
<1>6. victims = {}
  BY <1>1, NoVictims
<1>7. ~diff'
  BY <1>1, <1>6, WorksParts, DataIs DEF DmrErrorOnBus
<1>8. ~delayFf'
  BY <1>1, WorksParts, DelayIs, NoDelay
<1>9. Asleep # Hart
  <2>1. Hart # {}
    BY ThreeHarts, FS_EmptySet
  <2>2. QED
    BY <2>1 DEF Asleep
<1>10. PICK in : VotingInput(in, victims)
  BY VotingInputIs
<1>11. ~errFf' /\ ~errSeen'
  BY <1>1, <1>10, ErrorsForgotten DEF VotingInput
<1>12. QED
  BY <1>5, <1>6, <1>7, <1>8, <1>9, <1>10, <1>11

(* The cores take the interrupt where the error reached them. *)
LEMMA ResyncingEntry ==
  ASSUME Templates, TypeOK, TypeOK', AllIn("TMR_MODE", "SYNCINTC"), ~delayFf, ~diff,
         NEW v \in Struck \cup {"exit_wfi", "stop_wfi"}, Executes("TMR_MODE", v), AllAt(Hart, v),
         NEW S, NEW call, NEW victims, NEW w, Works(S, call, victims, w)
  PROVE  Resyncing("SYNCINTC")'
<1>1. /\ Hart # {} /\ InterruptHalt(master) = {} /\ InterruptSwResync = Hart /\ WfiDmr = {}
      /\ Team("TMR_MODE") = Hart /\ master \in Hart
  BY ResyncingWires, ThreeHarts, FS_EmptySet DEF Team, TypeOK, CtrlTypeOK
<1>2. \A h \in Hart : pc[h] = v /\ ~intcAck[h]
  BY DEF AllAt
<1>3. v \notin Sleeping \cup Dead \cup NoIrq /\ v # "rom_slp"
  BY DEF Struck, Sleeping, Dead, NoIrq, Halted, Handler
<1>4. /\ S = {} \/ S = Hart
      /\ ~delayFf' /\ ~diff' /\ Asleep # Hart
  BY <1>2, <1>3, ResyncingMoves
<1>5. PICK in : VotingInput(in, victims)
  BY VotingInputIs
<1>6. \A h \in Hart : TakesIrq(h)
  BY <1>1, <1>2, <1>3 DEF TakesIrq, TakesDebug, Irq, DebugReq
<1>7. \A h \in S : TakesDebug(h) \/ TakesIrq(h)
  BY <1>4, <1>6
<1>8. /\ UNCHANGED <<cfg, mask, master, crit>> /\ LifeKept(EndKept) /\ IntrKept(Asleep = Hart)
      /\ \A h \in Hart : heir'[h] = heir[h] /\ intcAck'[h] = intcAck[h]
      /\ \A h \in Hart : h \in S => pc'[h] = "rs_ack" /\ ret'[h] = v
  BY <1>1, <1>2, <1>3, <1>6, <1>7, CalledAway
<1>9. LifeAt(v)'
  BY <1>4, <1>8, WorksParts, LifeStays DEF Executes
<1>10. masterFf' = masterFf
  BY <1>4, WorksParts, DataIs
<1>11. Executes("TMR_MODE", v)'
  BY <1>1, <1>8, <1>9, <1>10, ExecutesStays
<1>12. AllAt(Hart, v)' \/ InHandler(Hart, "rs_ack", v)'
  <2>1. CASE S = {}
    BY <1>2, <2>1, Stays DEF AllAt
  <2>2. CASE S = Hart
    BY <1>2, <1>8, <2>2 DEF InHandler
  <2>3. QED
    BY <1>4, <2>1, <2>2
<1>13. AllAt(Hart, v)' \/ Handles(Hart, "rs_ack", FALSE, v)'
  BY <1>12, TypeOK', HandlerNext
<1>14. in.ack = {}
  BY <1>2, <1>5 DEF VotingInput
<1>15. NextMachines("TMR_MODE", "IDLE", "TMR_MODE", "SYNCINTC", "SYNCINTC")
  BY <1>1, <1>5, <1>14, MachinesResyncing DEF VotingInput
<1>16. AllIn("TMR_MODE", "SYNCINTC")'
  BY <1>8, <1>15, MachinesPrimed DEF AllIn
<1>17. ResyncingAt("SYNCINTC", v)'
  BY <1>11, <1>13 DEF ResyncingAt
<1>18. QED
  BY <1>4, <1>16, <1>17 DEF Resyncing

(* The recovery handler: acknowledge, reload the voted state, return.      *)
LEMMA ResyncingHandler ==
  ASSUME Templates, TypeOK, TypeOK', NEW x \in {"SYNCINTC", "SWSYNC"}, AllIn("TMR_MODE", x),
         ~delayFf, ~diff,
         NEW v \in Struck \cup {"exit_wfi", "stop_wfi"}, Executes("TMR_MODE", v),
         NEW l \in {"rs_ack", "rs_clr", "rs_ret"}, InHandler(Hart, l, v),
         l = "rs_ack" => x = "SYNCINTC", l = "rs_ret" => x = "SWSYNC" /\ bad = {},
         NEW S, NEW call, NEW victims, NEW w, Works(S, call, victims, w)
  PROVE  Resyncing("SYNCINTC")' \/ Resyncing("SWSYNC")' \/ Voting'
<1>1. /\ Hart # {} /\ InterruptHalt(master) = {} /\ WfiDmr = {} /\ Team("TMR_MODE") = Hart
  BY ResyncingWires, ThreeHarts, FS_EmptySet DEF Team
<1>2. /\ \A h \in Hart : pc[h] = l
      /\ \A h \in Hart : IF l = "rs_clr" THEN intcAck[h] ELSE ~intcAck[h]
      /\ l \notin Sleeping \cup Dead
  BY DEF InHandler, Sleeping, Dead
<1>3. /\ S = {} \/ S = Hart
      /\ victims = {} /\ ~delayFf' /\ ~diff'
  BY <1>2, ResyncingMoves
<1>4. PICK in : VotingInput(in, victims) /\ ~errFf' /\ ~errSeen'
  BY <1>2, ResyncingMoves
<1>5. Serves("TMR_MODE", S, victims, l, v)
  BY <1>1, <1>3, TeamHandling DEF Serving
<1>6. /\ Executes("TMR_MODE", v)' /\ mask' = mask
      /\ bad' = (IF S # {} /\ l = "rs_clr" THEN bad \ Hart ELSE bad)
      /\ S = {} => InHandler(Hart, l, v)'
      /\ S # {} => /\ l = "rs_ret" => AllAt(Hart, v)'
                   /\ l = "rs_ack" => InHandler(Hart, "rs_clr", v)'
                   /\ l = "rs_clr" => InHandler(Hart, "rs_ret", v)'
  BY <1>1, <1>3, <1>5 DEF Serves
<1>7. in.ack = IF l = "rs_clr" THEN Hart ELSE {}
  BY <1>2, <1>4 DEF VotingInput
<1>8. PICK y \in {"SYNCINTC", "SWSYNC", "SYNC"} :
        /\ NextMachines("TMR_MODE", "IDLE", "TMR_MODE", y, y)
        /\ l = "rs_ack" => y = "SYNCINTC"
        /\ l = "rs_clr" => y = "SWSYNC"
        /\ l = "rs_ret" => y = "SYNC"
  <2>1. LET y == IF in.ack = Hart THEN "SWSYNC" ELSE IF x = "SYNCINTC" THEN x ELSE "SYNC"
        IN NextMachines("TMR_MODE", "IDLE", "TMR_MODE", y, y)
    BY <1>4, <1>7, MachinesResyncing DEF VotingInput
  <2>2. CASE l = "rs_clr"
    BY <1>7, <2>1, <2>2
  <2>3. CASE l = "rs_ack"
    BY <1>1, <1>7, <2>1, <2>3
  <2>4. CASE l = "rs_ret"
    BY <1>1, <1>7, <2>1, <2>4
  <2>5. QED
    BY <2>2, <2>3, <2>4
<1>9. AllIn("TMR_MODE", y)'
  BY <1>6, <1>8, MachinesPrimed DEF AllIn
<1>10. CASE l = "rs_ack"
  <2>1. Handles(Hart, "rs_ack", FALSE, v)' \/ Handles(Hart, "rs_clr", TRUE, v)'
    BY <1>3, <1>6, <1>10, TypeOK', HandlerNext
  <2>2. ResyncingAt("SYNCINTC", v)'
    BY <1>6, <2>1 DEF ResyncingAt
  <2>3. QED
    BY <1>3, <1>8, <1>9, <1>10, <2>2 DEF Resyncing
<1>11. CASE l = "rs_clr"
  <2>1. Handles(Hart, "rs_clr", TRUE, v)' \/ (Handles(Hart, "rs_ret", FALSE, v)' /\ S # {})
    BY <1>3, <1>6, <1>11, TypeOK', HandlerNext
  <2>2. bad \ Hart = {}
    BY DEF TypeOK, CoresTypeOK
  <2>3. ResyncingAt("SWSYNC", v)'
    BY <1>6, <1>11, <2>1, <2>2 DEF ResyncingAt
  <2>4. QED
    BY <1>3, <1>8, <1>9, <1>11, <2>3 DEF Resyncing
<1>12. CASE l = "rs_ret"
  <2>1. Handles(Hart, "rs_ret", FALSE, v)' \/ AllAt(Hart, v)'
    BY <1>3, <1>6, <1>12, TypeOK', HandlerNext
  <2>2. bad' = {} /\ v \notin Sleeping
    BY <1>6, <1>12 DEF Struck, Sleeping
  <2>3. VotingAt(v)'
    BY <1>4, <1>6, <2>1, <2>2 DEF VotingAt
  <2>4. v \in Code \cup Stop \cup {"act_end"}
    BY DEF Struck, Code, Stop
  <2>5. QED
    BY <1>3, <1>8, <1>9, <1>12, <2>3, <2>4 DEF Voting
<1>13. QED
  BY <1>10, <1>11, <1>12

LEMMA ResyncingCycle ==
  ASSUME Templates, TypeOK, TypeOK', NEW x \in {"SYNCINTC", "SWSYNC"}, Resyncing(x),
         NEW S, NEW call, NEW victims, NEW w, Works(S, call, victims, w)
  PROVE  Resyncing("SYNCINTC")' \/ Resyncing("SWSYNC")' \/ Voting'
<1>1. AllIn("TMR_MODE", x) /\ ~delayFf /\ ~diff
  BY DEF Resyncing
<1>2. PICK v \in Struck \cup {"exit_wfi", "stop_wfi"} : ResyncingAt(x, v)
  BY DEF Resyncing
<1>3. Executes("TMR_MODE", v)
  BY <1>2 DEF ResyncingAt
<1>4. CASE x = "SYNCINTC" /\ AllAt(Hart, v)
  BY <1>1, <1>3, <1>4, ResyncingEntry
<1>5. CASE ~(x = "SYNCINTC" /\ AllAt(Hart, v))
  <2>1. PICK l \in {"rs_ack", "rs_clr", "rs_ret"} :
              /\ InHandler(Hart, l, v)
              /\ l = "rs_ack" => x = "SYNCINTC"
              /\ l = "rs_ret" => x = "SWSYNC" /\ bad = {}
    BY <1>2, <1>5, HandlerIs DEF ResyncingAt
  <2>2. QED
    BY <1>1, <1>3, <2>1, ResyncingHandler
<1>6. QED
  BY <1>4, <1>5

-----------------------------------------------------------------------------
(* Two compared cores.                                                     *)

LEMMA ComparingWires ==
  ASSUME TypeOK, AllIn("DMR_MODE", "SYNC"), Paired("DMR_MODE")
  PROVE  /\ Free /\ InterruptHalt(master) = {} /\ WfiDmr = {} /\ Checked = mask
         /\ DualMode = mask /\ TmrIn({"SYNC"}) = {} /\ DmrIn({"SYNC"}) = mask /\ SingleBus
         /\ master \in mask /\ mask \subseteq Hart /\ mask # {} /\ Team("DMR_MODE") = mask
BY DEF TypeOK, CtrlTypeOK, Checked, DualMode, Machines, AllIn, Free,
    TmrIn, DmrIn, InterruptHalt, InterruptSync, InterruptSwResync, WfiDmr, SwitchToSingle,
    SwitchTMRtoSingle, SwitchDMRtoSingle, SwitchSingletoTMR, SwitchSingletoDMR,
    SingleBus, TmrVoting, Pair, Team

(* What the controller sees of two compared cores. *)
ComparingInput(in, err) ==
  /\ Registers(in) /\ FsmTick(in)
  /\ in.endSw = endSw /\ in.wfi = Asleep
  /\ in.dmrErr = IF DmrErrorOnBus(err) THEN {masterFf} ELSE {}

LEMMA ComparingInputIs ==
  ASSUME TypeOK, NEW S, NEW call, NEW victims, NEW w, Works(S, call, victims, w)
  PROVE  \E in : ComparingInput(in, victims # {})
<1>1. FsmTick(FsmIn(victims # {})) /\ (victims # {}) \in BOOLEAN
  BY WorksParts
<1>2. ComparingInput(FsmIn(victims # {}), victims # {})
  BY <1>1, InputIs DEF ComparingInput
<1>3. QED
  BY <1>2

LEMMA OnOneTeam ==
  ASSUME Free, NEW err, Unheld(err), NEW S \in Movers(err), NEW G \in SUBSET Hart,
         NEW l, \A h \in G : pc[h] = l, \A h \in Hart \ G : pc[h] \in Sleeping, SingleBus
  PROVE  S = {} \/ (S = G /\ l \notin Sleeping \cup Dead)
BY OneTeam

(* The pair at l, the third core asleep: the two advance together.         *)
LEMMA ComparingMoves ==
  ASSUME TypeOK, AllIn("DMR_MODE", "SYNC"), Paired("DMR_MODE"), AtRest(Hart \ mask),
         cfg # SINGLE => DelayFor, ~diff, NEW l, \A h \in mask : pc[h] = l,
         NEW S, NEW call, NEW w, Works(S, call, {}, w)
  PROVE  /\ S = {} \/ (S = mask /\ l \notin Sleeping \cup Dead)
         /\ ~diff' /\ (cfg # SINGLE => (delayFf' => cfg = LOCKSTEP))
         /\ Asleep = Hart <=> l \in Sleeping
<1>1. /\ Free /\ DualMode = mask /\ mask \in SUBSET Hart /\ mask # {} /\ SingleBus
  BY ComparingWires
<1>2. ~DmrErrorOnBus(FALSE)
  BY DEF DmrErrorOnBus
<1>3. Unheld(FALSE)
  BY <1>1, <1>2 DEF Unheld, HeldBack, Starved
<1>4. \A h \in Hart \ mask : pc[h] \in Sleeping
  BY DEF AtRest, Rest, Sleeping
<1>5. S \in Movers(FALSE)
  BY DEF Works
<1>6. S = {} \/ (S = mask /\ l \notin Sleeping \cup Dead)
  <2>1. PICK e : e = FALSE
    OBVIOUS
  <2>2. Unheld(e) /\ S \in Movers(e)
    BY <1>3, <1>5, <2>1
  <2>3. QED
    BY <1>1, <1>4, <2>2, OnOneTeam
<1>7. ~diff'
  BY <1>2, WorksParts, DataIs
<1>8. cfg # SINGLE => (delayFf' => cfg = LOCKSTEP)
  BY WorksParts, DelayIs DEF Delayed, DmrDelayed, DelayFor
<1>9. Asleep = Hart <=> l \in Sleeping
  BY <1>1, <1>4, FreeAsleep
<1>10. QED
  BY <1>6, <1>7, <1>8, <1>9

LEMMA ComparingStays ==
  ASSUME TypeOK, AllIn("DMR_MODE", "SYNC"), Paired("DMR_MODE"),
         NEW err, NEW in, ComparingInput(in, err),
         Asleep # Hart, mask' = mask, ~DmrErrorOnBus(err) \/ masterFf # master
  PROVE  AllIn("DMR_MODE", "SYNC")'
<1>1. NextMachines("DMR_MODE", "IDLE", "DMR_MODE", ComparingNext(in), ComparingNext(in))
  BY MachinesComparing DEF ComparingInput
<1>2. ComparingNext(in) = "SYNC"
  BY DEF ComparingInput, ComparingNext
<1>3. NextMachines("DMR_MODE", "IDLE", "DMR_MODE", "SYNC", "SYNC")
  BY <1>1, <1>2
<1>4. QED
  BY <1>3, MachinesPrimed DEF AllIn

(* The pair executes the program, and does not differ. *)
LEMMA ComparingProgram ==
  ASSUME Templates, TypeOK, TypeOK', AllIn("DMR_MODE", "SYNC"), AtRest(Hart \ mask),
         cfg # SINGLE => DelayFor, ~diff,
         NEW v \in Code \cup Stop \cup {"act_end"}, ComparingAt(v), AllAt(mask, v), v \notin Sleeping,
         NEW S, NEW call, NEW w, Works(S, call, {}, w)
  PROVE  Comparing'
<1>1. Executes("DMR_MODE", v) /\ Paired("DMR_MODE") /\ bad \cap mask = {}
  BY DEF ComparingAt, Executes
<1>2. /\ Free /\ mask # {} /\ mask \subseteq Hart /\ Team("DMR_MODE") = mask
  BY <1>1, ComparingWires
<1>3. \A h \in mask : pc[h] = v
  BY DEF AllAt
<1>4. /\ S = {} \/ S = mask
      /\ ~diff' /\ (cfg # SINGLE => (delayFf' => cfg = LOCKSTEP)) /\ Asleep # Hart
  BY <1>1, <1>3, ComparingMoves
<1>5. PICK u \in Code \cup Stop \cup {"act_end"} : Proceeds("DMR_MODE", v, u)
  BY <1>1, <1>2, <1>4, TeamProceeds
<1>6. /\ Executes("DMR_MODE", u)' /\ AllAt(mask, u)' /\ mask' = mask
      /\ cfg' = cfg \/ cfg' = SINGLE
  BY <1>2, <1>5 DEF Proceeds, AllAt
<1>7. bad' \subseteq bad
  BY WorksParts, DataIs
<1>8. PICK in : ComparingInput(in, {} # {})
  BY ComparingInputIs
<1>9. AllIn("DMR_MODE", "SYNC")'
  <2>1. ~DmrErrorOnBus({} # {})
    BY DEF DmrErrorOnBus
  <2>2. QED
    BY <1>1, <1>4, <1>6, <1>8, <2>1, ComparingStays
<1>10. AtRest(Hart \ mask)'
  BY <1>4, <1>6, Stays DEF AtRest
<1>11. cfg' # SINGLE => DelayFor'
  BY <1>4, <1>6 DEF DelayFor
<1>12. ComparingAt(u)'
  BY <1>1, <1>4, <1>6, <1>7 DEF ComparingAt
<1>13. QED
  BY <1>9, <1>10, <1>11, <1>12 DEF Comparing

LEMMA ComparingHandler ==
  ASSUME Templates, TypeOK, TypeOK', AllIn("DMR_MODE", "SYNC"), AtRest(Hart \ mask),
         cfg # SINGLE => DelayFor, ~diff, ComparingAt("act_end"),
         NEW l \in {"hdl_clr", "hdl_ret"}, InHandler(mask, l, "act_end"),
         NEW S, NEW call, NEW w, Works(S, call, {}, w)
  PROVE  Comparing'
<1>1. Executes("DMR_MODE", "act_end") /\ Paired("DMR_MODE") /\ bad \cap mask = {}
  BY DEF ComparingAt, Executes
<1>2. /\ mask # {} /\ mask \subseteq Hart /\ Team("DMR_MODE") = mask
      /\ InterruptHalt(master) = {} /\ WfiDmr = {}
  BY <1>1, ComparingWires
<1>3. \A h \in mask : pc[h] = l
  BY DEF InHandler
<1>4. /\ S = {} \/ S = mask
      /\ ~diff' /\ (cfg # SINGLE => (delayFf' => cfg = LOCKSTEP)) /\ Asleep # Hart
  BY <1>1, <1>3, ComparingMoves DEF Sleeping
<1>5. Serves("DMR_MODE", S, {}, l, "act_end")
  BY <1>1, <1>2, <1>4, TeamHandling DEF Serving
<1>6. /\ Executes("DMR_MODE", "act_end")' /\ UNCHANGED <<cfg, mask>> /\ bad' = bad
      /\ S = {} => InHandler(mask, l, "act_end")'
      /\ S # {} => /\ l = "hdl_ret" => AllAt(mask, "act_end")'
                   /\ l = "hdl_clr" => InHandler(mask, "hdl_ret", "act_end")'
  BY <1>2, <1>5 DEF Serves, InHandler, AllAt
<1>7. PICK in : ComparingInput(in, {} # {})
  BY ComparingInputIs
<1>8. AllIn("DMR_MODE", "SYNC")'
  <2>1. ~DmrErrorOnBus({} # {})
    BY DEF DmrErrorOnBus
  <2>2. QED
    BY <1>1, <1>4, <1>6, <1>7, <2>1, ComparingStays
<1>9. AtRest(Hart \ mask)'
  BY <1>4, <1>6, Stays DEF AtRest
<1>10. cfg' # SINGLE => DelayFor'
  BY <1>4, <1>6 DEF DelayFor
<1>11. \/ AllAt(mask, "act_end")'
       \/ Handles(mask, "hdl_clr", TRUE, "act_end")' \/ Handles(mask, "hdl_ret", FALSE, "act_end")'
  <2>1. \/ AllAt(mask, "act_end")'
        \/ InHandler(mask, "hdl_clr", "act_end")' \/ InHandler(mask, "hdl_ret", "act_end")'
    BY <1>2, <1>4, <1>6
  <2>3. InHandler(mask, "hdl_clr", "act_end")' => Handles(mask, "hdl_clr", TRUE, "act_end")'
    BY <1>2, <1>6, TypeOK' DEF TypeOK, CoresTypeOK, Handles, InHandler
  <2>4. InHandler(mask, "hdl_ret", "act_end")' => Handles(mask, "hdl_ret", FALSE, "act_end")'
    BY <1>2, <1>6, TypeOK' DEF TypeOK, CoresTypeOK, Handles, InHandler
  <2>5. QED
    BY <2>1, <2>3, <2>4
<1>12. ComparingAt("act_end")'
  BY <1>1, <1>4, <1>6, <1>11 DEF ComparingAt
<1>13. QED
  BY <1>8, <1>9, <1>10, <1>12 DEF Comparing

LEMMA IdlePair ==
  ASSUME NEW g, NextMachines(g, "IDLE", "DMR_MODE", "IDLE", "IDLE")
  PROVE  AllIdle(g, "IDLE")'
BY DEF NextMachines, AllIdle, Machines

(* All three cores asleep: at the end of the program, or on the way back.  *)
LEMMA ComparingAsleep ==
  ASSUME Templates, TypeOK, TypeOK', AllIn("DMR_MODE", "SYNC"), AtRest(Hart \ mask),
         cfg # SINGLE => DelayFor, ~diff,
         NEW v \in {"exit_slp", "stop_slp"}, ComparingAt(v), AllAt(mask, v),
         NEW S, NEW call, NEW w, Works(S, call, {}, w)
  PROVE  Parted("DMR_MODE")' \/ Finished'
<1>1. Executes("DMR_MODE", v) /\ Paired("DMR_MODE") /\ bad \cap mask = {}
  BY DEF ComparingAt, Executes
<1>2. /\ Free /\ mask # {} /\ mask \subseteq Hart /\ Team("DMR_MODE") = mask /\ master \in mask
  BY <1>1, ComparingWires
<1>3. \A h \in mask : pc[h] = v
  BY DEF AllAt
<1>4. \A h \in Hart : pc[h] \in Rest /\ ~intcAck[h]
  BY <1>2 DEF AllAt, AtRest, Rest
<1>5. S = {} /\ Asleep = Hart
  BY <1>2, <1>4, AllSleep DEF Rest, Sleeping
<1>6. w = NoWrite /\ bad' \subseteq bad
      /\ \A h \in Hart : pc'[h] = pc[h] /\ intcAck'[h] = intcAck[h]
  BY <1>5, NobodyMoves
<1>7. /\ UNCHANGED <<cfg, mask, master>> /\ LifeKept(EndKept) /\ IntrKept(Asleep = Hart)
      /\ host' = IF interrupt THEN "told" ELSE "running"
  BY <1>6, NoWriteWorks, WorksParts
<1>8. masterFf' = master /\ ~diff'
  <2>1. masterFf' = master
    BY <1>5, WorksParts, DataIs
  <2>2. ~diff'
    BY <1>1, <1>3, ComparingMoves
  <2>3. QED
    BY <2>1, <2>2
<1>9. PICK in : ComparingInput(in, {} # {})
  BY ComparingInputIs
<1>10. NextMachines("DMR_MODE", "IDLE", "DMR_MODE", ComparingNext(in), ComparingNext(in))
  BY <1>1, <1>9, MachinesComparing DEF ComparingInput
<1>11. in.wfi = Hart /\ in.endSw = endSw
  BY <1>5, <1>9 DEF ComparingInput
<1>12. AtRest(Hart)'
  BY <1>4, <1>6 DEF AtRest
<1>13. CASE v = "exit_slp"
  <2>1. Counted /\ endSw
    BY <1>1, <1>13 DEF Executes, LifeAt, Counted, Life
  <2>2. Signalled'
    BY <1>5, <1>7, <2>1, LifeCounted
  <2>3. ComparingNext(in) = "IDLE"
    BY <1>11, <2>1 DEF ComparingNext
  <2>4. NextMachines("DMR_MODE", "IDLE", "DMR_MODE", "IDLE", "IDLE")
    BY <1>10, <2>3
  <2>5. AllIdle("DMR_MODE", "IDLE")'
    BY <2>4, IdlePair
  <2>6. QED
    BY <1>8, <1>12, <2>2, <2>5 DEF Finished
<1>14. CASE v = "stop_slp"
  <2>1. Running /\ ~endSw /\ cfg = SINGLE
    BY <1>1, <1>14 DEF Executes, Left, LifeAt, Running, Falling, Life
  <2>2. Running'
    BY <1>7, <2>1, RunningKept
  <2>3. ComparingNext(in) = "END_SYNC"
    BY <1>11, <2>1 DEF ComparingNext
  <2>4. NextMachines("DMR_MODE", "IDLE", "DMR_MODE", "END_SYNC", "END_SYNC")
    BY <1>10, <2>3
  <2>5. AllIn("DMR_MODE", "END_SYNC")'
    BY <1>7, <2>4, MachinesPrimed DEF AllIn
  <2>6. ~delayFf'
    BY <1>5, <2>1, WorksParts, DelayIs
  <2>7. AllAt(mask, "stop_slp")' /\ OthersRest'
    BY <1>2, <1>3, <1>4, <1>6, <1>7, <1>14 DEF AllAt, OthersRest, AtRest
  <2>8. Parting("DMR_MODE")'
    BY <1>1, <1>2, <1>6, <1>7, <1>8, <2>1, <2>2, <2>6, <2>7 DEF Parting, Working
  <2>9. AllAt(Team("DMR_MODE"), "stop_slp")'
    BY <2>7 DEF Team
  <2>10. QED
    BY <2>5, <2>8, <2>9 DEF Parted
<1>15. QED
  BY <1>13, <1>14

(* The pair differs: neither core advances.  The controller isolates them, *)
(* unless the comparator is that of the master that Safe_Stop has replaced. *)
(* A pair that differs is held: it stays where it was struck.              *)
LEMMA ComparingHeld ==
  ASSUME Templates, TypeOK, AllIn("DMR_MODE", "SYNC"), AtRest(Hart \ mask),
         NEW v \in Code \cup Stop \cup {"act_end"}, ComparingAt(v),
         NEW S, NEW call, NEW victims, NEW w, Works(S, call, victims, w),
         diff \/ victims # {}
  PROVE  /\ S = {} /\ Running
         /\ v \in Struck /\ (victims # {} => ctx = "main") /\ AllAt(mask, v)
<1>1. Executes("DMR_MODE", v) /\ Paired("DMR_MODE") /\ (~diff => bad \cap mask = {})
      /\ (diff => v = "stop_cfg" /\ masterFf # master)
  BY DEF ComparingAt, Executes
<1>2. /\ Free /\ mask # {} /\ mask \subseteq Hart /\ Team("DMR_MODE") = mask /\ master \in mask
      /\ Checked = mask /\ DualMode = mask /\ WfiDmr = {} /\ DmrIn({"SYNC"}) = mask
  BY <1>1, ComparingWires
<1>3. DmrErrorOnBus(victims # {})
  BY <1>2 DEF DmrErrorOnBus
<1>4. v \in Struck /\ (victims # {} => ctx = "main") /\ AllAt(mask, v)
  <2>1. CASE victims # {}
    <3>1. PICK h \in mask : pc[h] \in Struck /\ ctx = "main"
      BY <1>2, <2>1, StruckOnly
    <3>2. AllAt(mask, v)
      BY <3>1 DEF ComparingAt, Handles, Struck
    <3>3. QED
      BY <3>1, <3>2 DEF AllAt
  <2>2. CASE diff
    <3>1. v = "stop_cfg" /\ AllAt(mask, v)
      BY <1>1, <2>2 DEF ComparingAt
    <3>2. victims # {} => ctx = "main"
      BY <1>2, StruckOnly
    <3>3. QED
      BY <3>1, <3>2 DEF Struck
  <2>3. QED
    BY <2>1, <2>2
<1>5. \A h \in mask : pc[h] = v /\ ~intcAck[h]
  BY <1>4 DEF AllAt
<1>6. S = {}
  <2>1. HeldBack(victims # {}) = mask
    BY <1>2, <1>3 DEF HeldBack
  <2>2. \A h \in Hart \ mask : ~CanStep(h)
    BY <1>2, FreeCore DEF AtRest, Rest, Sleeping
  <2>3. {h \in Hart : CanStep(h)} \ (HeldBack(victims # {}) \cup Starved) = {}
    BY <2>1, <2>2
  <2>4. QED
    BY <2>3 DEF Works, Movers
<1>7. Running
  <2>1. v \notin {"exit_wfi", "exit_slp"}
    BY <1>4 DEF Struck
  <2>2. QED
    BY <1>1, <2>1 DEF Executes, LifeAt
<1>8. QED
  BY <1>4, <1>6, <1>7

LEMMA ComparingDiffers ==
  ASSUME Templates, TypeOK, TypeOK', AllIn("DMR_MODE", "SYNC"), AtRest(Hart \ mask),
         cfg # SINGLE => DelayFor,
         NEW v \in Code \cup Stop \cup {"act_end"}, ComparingAt(v),
         NEW S, NEW call, NEW victims, NEW w, Works(S, call, victims, w),
         diff \/ victims # {}
  PROVE  Comparing' \/ Isolating'
<1>1. Executes("DMR_MODE", v) /\ Paired("DMR_MODE") /\ (~diff => bad \cap mask = {})
      /\ (diff => v = "stop_cfg" /\ masterFf # master)
  BY DEF ComparingAt, Executes
<1>2. /\ Free /\ mask # {} /\ mask \subseteq Hart /\ Team("DMR_MODE") = mask /\ master \in mask
      /\ Checked = mask /\ DualMode = mask /\ WfiDmr = {} /\ DmrIn({"SYNC"}) = mask
  BY <1>1, ComparingWires
<1>3. DmrErrorOnBus(victims # {})
  BY <1>2 DEF DmrErrorOnBus
<1>4. v \in Struck /\ (victims # {} => ctx = "main") /\ AllAt(mask, v) /\ S = {} /\ Running
  BY ComparingHeld
<1>5. \A h \in mask : pc[h] = v /\ ~intcAck[h]
  BY <1>4 DEF AllAt
<1>6. S = {}
  BY <1>4
<1>7. w = NoWrite /\ ctx' = ctx
      /\ \A h \in Hart : pc'[h] = pc[h] /\ intcAck'[h] = intcAck[h] /\ heir'[h] = heir[h]
  BY <1>6, NobodyMoves
<1>8. /\ UNCHANGED <<cfg, mask, master, crit>> /\ LifeKept(EndKept) /\ IntrKept(Asleep = Hart)
  BY <1>7, NoWriteWorks
<1>9. Asleep # Hart
  BY <1>2, <1>4, <1>5, FreeAsleep DEF Struck, Sleeping
<1>10. masterFf' = masterFf /\ diff'
  BY <1>2, <1>3, <1>9, WorksParts, DataIs
<1>11. Running /\ Running' /\ v \notin Left /\ v \notin {"exit_wfi", "exit_slp"}
  <2>1. v \notin {"exit_wfi", "exit_slp"} /\ v \notin Left
    BY <1>4 DEF Struck, Left
  <2>2. QED
    BY <1>4, <1>8, <2>1, RunningKept
<1>12. cfg \in Dual /\ DelayFor
  BY <1>1, <1>11 DEF Executes, ModeOf, Dual, TypeOK, CtrlTypeOK, Config
<1>13. delayFf' <=> cfg = LOCKSTEP
  BY <1>2, <1>9, <1>12, WorksParts, DelayIs DEF Delayed, DmrDelayed, DelayFor
<1>14. AtRest(Hart \ mask)'
  BY <1>7, <1>8 DEF AtRest
<1>15. PICK in : ComparingInput(in, victims # {})
  BY ComparingInputIs
<1>16. CASE masterFf = master
  <2>1. ComparingNext(in) = "STOP"
    BY <1>3, <1>9, <1>15, <1>16 DEF ComparingInput, ComparingNext
  <2>2. NextMachines("DMR_MODE", "IDLE", "DMR_MODE", ComparingNext(in), ComparingNext(in))
    BY <1>1, <1>15, MachinesComparing DEF ComparingInput
  <2>3. NextMachines("DMR_MODE", "IDLE", "DMR_MODE", "STOP", "STOP")
    BY <2>1, <2>2
  <2>4. AllIn("DMR_MODE", "STOP")'
    BY <1>8, <2>3, MachinesPrimed DEF AllIn
  <2>5. ctx' = "main"
    BY <1>1, <1>4, <1>7, <1>16
  <2>6. mask' \in Pair(master')
    BY <1>1, <1>8 DEF Pair
  <2>7. \A h \in mask' : pc'[h] \in Struck \cup {"iso"} /\ ~intcAck'[h]
    BY <1>2, <1>4, <1>5, <1>7, <1>8
  <2>8. QED
    BY <1>8, <1>10, <1>11, <1>12, <1>13, <1>14, <1>16, <2>4, <2>5, <2>6, <2>7 DEF Isolating
<1>17. CASE masterFf # master
  <2>1. AllIn("DMR_MODE", "SYNC")'
    BY <1>1, <1>8, <1>9, <1>15, <1>17, ComparingStays
  <2>2. v = "stop_cfg"
    BY <1>1, <1>4, <1>11, <1>17 DEF Executes, Moved
  <2>3. LifeAt(v)'
    BY <1>11 DEF LifeAt
  <2>4. Executes("DMR_MODE", v)'
    BY <1>1, <1>2, <1>7, <1>8, <1>10, <2>3, ExecutesStays
  <2>5. AllAt(mask, v)'
    BY <1>2, <1>5, <1>7, <1>8 DEF AllAt
  <2>6. ComparingAt(v)'
    BY <1>8, <1>10, <1>17, <2>2, <2>4, <2>5 DEF ComparingAt
  <2>7. DelayFor'
    BY <1>8, <1>13 DEF DelayFor
  <2>8. QED
    BY <1>14, <2>1, <2>6, <2>7 DEF Comparing
<1>18. QED
  BY <1>16, <1>17

LEMMA ComparingCycle ==
  ASSUME Templates, TypeOK, TypeOK', Comparing,
         NEW S, NEW call, NEW victims, NEW w, Works(S, call, victims, w)
  PROVE  Comparing' \/ Isolating' \/ Parted("DMR_MODE")' \/ Finished'
<1>1. AllIn("DMR_MODE", "SYNC") /\ AtRest(Hart \ mask) /\ (cfg # SINGLE => DelayFor)
  BY DEF Comparing
<1>2. PICK v \in Code \cup Stop \cup {"act_end"} : ComparingAt(v)
  BY DEF Comparing
<1>3. CASE diff \/ victims # {}
  BY <1>1, <1>2, <1>3, ComparingDiffers
<1>4. CASE ~diff /\ victims = {}
  <2>0. Works(S, call, {}, w)
    BY <1>4
  <2>1. CASE AllAt(mask, v) /\ v \notin Sleeping
    BY <1>1, <1>2, <1>4, <2>0, <2>1, ComparingProgram
  <2>2. CASE AllAt(mask, v) /\ v \in Sleeping
    <3>1. v \in {"exit_slp", "stop_slp"}
      BY <2>2 DEF Code, Stop, Sleeping
    <3>2. QED
      BY <1>1, <1>2, <1>4, <2>0, <2>2, <3>1, ComparingAsleep
  <2>3. CASE ~AllAt(mask, v)
    <3>1. mask \in SUBSET Hart /\ v = "act_end"
          /\ \/ Handles(mask, "hdl_clr", TRUE, "act_end")
             \/ Handles(mask, "hdl_ret", FALSE, "act_end")
      BY <1>2, <2>3 DEF ComparingAt, TypeOK, CtrlTypeOK
    <3>2. PICK l \in {"hdl_clr", "hdl_ret"} : InHandler(mask, l, "act_end")
      BY <3>1, HandlerIs
    <3>3. QED
      BY <1>1, <1>2, <1>4, <2>0, <3>1, <3>2, ComparingHandler
  <2>4. QED
    BY <2>1, <2>2, <2>3
<1>5. QED
  BY <1>3, <1>4

-----------------------------------------------------------------------------
(* The pair that differs: isolated, put to sleep, halted and reloaded.     *)

LEMMA IsolatingWires ==
  ASSUME TypeOK, AllIn("DMR_MODE", "STOP"), Paired("DMR_MODE")
  PROVE  /\ InterruptHalt(master) = {} /\ InterruptSync(master) = {} /\ InterruptSwResync = {}
         /\ WfiDmr = mask /\ DualMode = mask /\ Checked = {}
         /\ master \in mask /\ mask \subseteq Hart /\ Team("DMR_MODE") = mask
         /\ ~StartBoot /\ ~EnExtDebug
BY DEF TypeOK, CtrlTypeOK, Checked, DualMode, Machines, AllIn,
    TmrIn, DmrIn, InterruptHalt, InterruptSync, InterruptSwResync, WfiDmr, SwitchToSingle,
    SwitchTMRtoSingle, SwitchDMRtoSingle, SwitchSingletoTMR, SwitchSingletoDMR,
    StartBoot, EnExtDebug, Pair, Team

(* Cut off the bus, each core of the pair goes to its wfi and writes nothing. *)
LEMMA IsolatingMoves ==
  ASSUME TypeOK, Isolating,
         NEW S, NEW call, NEW victims, NEW w, Works(S, call, victims, w)
  PROVE  /\ S \subseteq mask /\ w = NoWrite /\ ctx' = ctx
         /\ \A h \in Hart : /\ h \notin S => pc'[h] = pc[h]
                            /\ h \in S => pc'[h] = "iso"
                            /\ intcAck'[h] = intcAck[h]
<1>1. /\ AllIn("DMR_MODE", "STOP") /\ Paired("DMR_MODE") /\ AtRest(Hart \ mask)
  BY DEF Isolating
<1>2. /\ InterruptHalt(master) = {} /\ InterruptSync(master) = {} /\ InterruptSwResync = {}
      /\ WfiDmr = mask /\ DualMode = mask /\ Checked = {}
      /\ master \in mask /\ mask \subseteq Hart /\ Team("DMR_MODE") = mask
      /\ ~StartBoot /\ ~EnExtDebug
  BY <1>1, IsolatingWires
<1>3. \A h \in Hart : ~TakesDebug(h) /\ ~TakesIrq(h) /\ (CanStep(h) <=> pc[h] \notin Sleeping \cup Dead)
  BY <1>2 DEF TakesDebug, TakesIrq, DebugReq, Irq, CanStep
<1>4. S \subseteq mask
  <2>1. S \subseteq Hart /\ \A h \in S : CanStep(h)
    BY Able
  <2>2. \A h \in Hart \ mask : pc[h] \in Sleeping
    BY <1>1 DEF AtRest, Rest, Sleeping
  <2>3. QED
    BY <1>3, <2>1, <2>2
<1>5. \A h \in S : \A l : ~Runs(h, l)
  BY <1>2, <1>4 DEF Runs
<1>6. CoresTick(S, call, victims)
  BY WorksParts
<1>7. w = NoWrite
  <2>1. \A h \in S : WriteOf(h, call) = NoWrite
    BY <1>5 DEF WriteOf
  <2>2. QED
    BY <2>1, WriteIs
<1>8. \A h \in Hart : /\ h \notin S => pc'[h] = pc[h]
                      /\ h \in S => pc'[h] = "iso"
                      /\ intcAck'[h] = intcAck[h]
  <2>1. \A h \in S : PcNext(h, call) = "iso" /\ AckNext(h) = intcAck[h]
    BY <1>2, <1>3, <1>4, <1>5 DEF PcNext, AckNext
  <2>2. QED
    BY <1>6, <2>1 DEF CoresTick
<1>9. ctx' = ctx
  BY <1>5, <1>6 DEF CoresTick, CtxNext
<1>10. QED
  BY <1>4, <1>7, <1>8, <1>9

LEMMA IsolatingCycle ==
  ASSUME TypeOK, TypeOK', Isolating,
         NEW S, NEW call, NEW victims, NEW w, Works(S, call, victims, w)
  PROVE  Isolating' \/ Recovering("INTC_RECOVERY")'
<1>1. /\ AllIn("DMR_MODE", "STOP") /\ Paired("DMR_MODE") /\ AtRest(Hart \ mask)
      /\ cfg \in Dual /\ masterFf = master /\ Running /\ ctx = "main" /\ (delayFf <=> cfg = LOCKSTEP)
      /\ \A h \in mask : pc[h] \in Struck \cup {"iso"} /\ ~intcAck[h]
  BY DEF Isolating
<1>2. /\ InterruptHalt(master) = {} /\ InterruptSync(master) = {} /\ InterruptSwResync = {}
      /\ WfiDmr = mask /\ DualMode = mask /\ Checked = {}
      /\ master \in mask /\ mask \subseteq Hart /\ Team("DMR_MODE") = mask
      /\ ~StartBoot /\ ~EnExtDebug
  BY <1>1, IsolatingWires
<1>4. /\ S \subseteq mask /\ w = NoWrite /\ ctx' = ctx
      /\ \A h \in Hart : /\ h \notin S => pc'[h] = pc[h]
                         /\ h \in S => pc'[h] = "iso"
                         /\ intcAck'[h] = intcAck[h]
  BY IsolatingMoves
<1>6. CoresTick(S, call, victims)
  BY WorksParts
<1>8. /\ UNCHANGED <<cfg, mask, master>> /\ DebugNext /\ LifeKept(EndKept) /\ IntrKept(Asleep = Hart)
  BY <1>4, NoWriteWorks
<1>9. \A h \in Hart : /\ h \notin S => pc'[h] = pc[h]
                      /\ h \in S => pc'[h] = "iso"
                      /\ intcAck'[h] = intcAck[h]
  BY <1>4
<1>10. ctx' = "main"
  BY <1>1, <1>4
<1>11. masterFf' = master /\ ~diff'
  BY <1>1, <1>2, <1>6, DataIs
<1>12. delayFf' <=> cfg = LOCKSTEP
  BY <1>1, <1>2, WorksParts, DelayIs DEF Delayed, DmrDelayed, Dual
<1>13. Running' /\ dbgReq' = "halt"
  BY <1>1, <1>2, <1>8, RunningKept DEF DebugNext, DebugWord
<1>14. AtRest(Hart \ mask)' /\ mask' \in Pair(master')
  BY <1>1, <1>4, <1>8, <1>9 DEF AtRest, Pair
<1>15. PICK in : ComparingInput(in, victims # {})
  BY ComparingInputIs
<1>16. CASE Asleep = Hart
  <2>1. LET y == IF in.wfi = Hart THEN "INTC_RECOVERY" ELSE "STOP"
        IN NextMachines("DMR_MODE", "IDLE", "DMR_MODE", y, y)
    BY <1>1, <1>15, MachinesIsolating DEF ComparingInput
  <2>2. NextMachines("DMR_MODE", "IDLE", "DMR_MODE", "INTC_RECOVERY", "INTC_RECOVERY")
    BY <1>15, <1>16, <2>1 DEF ComparingInput
  <2>3. AllIn("DMR_MODE", "INTC_RECOVERY")'
    BY <1>8, <2>2, MachinesPrimed DEF AllIn
  <2>4. \A h \in mask : pc[h] = "iso"
    <3>1. \A h \in mask : pc[h] \in Sleeping
      BY <1>2, <1>16 DEF Asleep
    <3>2. QED
      BY <1>1, <3>1 DEF Struck, Sleeping
  <2>5. AllAt(mask, "iso")'
    BY <1>1, <1>2, <1>8, <1>9, <2>4 DEF AllAt
  <2>6. Working("DMR_MODE")' /\ DelayFor'
    BY <1>8, <1>11, <1>12, <1>14 DEF Working, DelayFor
  <2>7. QED
    BY <1>1, <1>8, <1>10, <1>13, <1>14, <2>3, <2>5, <2>6 DEF Recovering
<1>17. CASE Asleep # Hart
  <2>1. LET y == IF in.wfi = Hart THEN "INTC_RECOVERY" ELSE "STOP"
        IN NextMachines("DMR_MODE", "IDLE", "DMR_MODE", y, y)
    BY <1>1, <1>15, MachinesIsolating DEF ComparingInput
  <2>2. NextMachines("DMR_MODE", "IDLE", "DMR_MODE", "STOP", "STOP")
    BY <1>15, <1>17, <2>1 DEF ComparingInput
  <2>3. AllIn("DMR_MODE", "STOP")'
    BY <1>8, <2>2, MachinesPrimed DEF AllIn
  <2>4. \A h \in mask' : pc'[h] \in Struck \cup {"iso"} /\ ~intcAck'[h]
    BY <1>1, <1>2, <1>8, <1>9
  <2>5. delayFf' <=> cfg' = LOCKSTEP
    BY <1>8, <1>12
  <2>6. QED
    BY <1>1, <1>8, <1>10, <1>11, <1>13, <1>14, <2>3, <2>4, <2>5 DEF Isolating
<1>18. QED
  BY <1>16, <1>17

LEMMA RecoveringWires ==
  ASSUME TypeOK, NEW x \in {"INTC_RECOVERY", "RECOVERY"}, AllIn("DMR_MODE", x), Paired("DMR_MODE")
  PROVE  /\ InterruptHalt(master) = (IF x = "INTC_RECOVERY" THEN mask ELSE {})
         /\ InterruptSync(master) = {} /\ InterruptSwResync = {}
         /\ WfiDmr = {} /\ DualMode = mask /\ Checked = {} /\ SingleBus
         /\ master \in mask /\ mask \subseteq Hart /\ Team("DMR_MODE") = mask
         /\ ~StartBoot /\ ~EnExtDebug
BY DEF TypeOK, CtrlTypeOK, Checked, DualMode, Machines, AllIn, SingleBus, TmrVoting,
    TmrIn, DmrIn, InterruptHalt, InterruptSync, InterruptSwResync, WfiDmr, SwitchToSingle,
    SwitchTMRtoSingle, SwitchDMRtoSingle, SwitchSingletoTMR, SwitchSingletoDMR,
    StartBoot, EnExtDebug, Pair, Team

(* The pair at one place of the debug ROM, or called there: it goes        *)
(* together, and what the stages of the recovery share stays.              *)
LEMMA RecoveringMoves ==
  ASSUME TypeOK, NEW x \in {"INTC_RECOVERY", "RECOVERY"}, Recovering(x),
         NEW l \in {"iso", "dbg", "restore", "main"}, \A h \in mask : pc[h] = l,
         l = "iso" => x = "INTC_RECOVERY",
         NEW S, NEW call, NEW victims, NEW w, Works(S, call, victims, w)
  PROVE  S = {} \/ S = mask
<1>1. /\ AllIn("DMR_MODE", x) /\ Paired("DMR_MODE") /\ AtRest(Hart \ mask)
      /\ cfg \in Dual /\ Working("DMR_MODE") /\ DelayFor
  BY DEF Recovering, Working
<1>2. /\ InterruptHalt(master) = (IF x = "INTC_RECOVERY" THEN mask ELSE {})
      /\ InterruptSync(master) = {} /\ InterruptSwResync = {}
      /\ WfiDmr = {} /\ DualMode = mask /\ Checked = {} /\ SingleBus
      /\ mask \in SUBSET Hart /\ master \in mask
  BY <1>1, RecoveringWires
<1>3. Unheld(TRUE) /\ Unheld(FALSE)
  <2>1. ModeOf(cfg) = "DMR_MODE" /\ DualMode # {}
    BY <1>1, <1>2 DEF Dual, ModeOf
  <2>2. QED
    BY <1>1, <1>2, <2>1, UnheldTeam
<1>4. \A h \in Hart : CanStep(h) <=> h \in mask
  <2>1. \A h \in mask : CanStep(h)
    BY <1>2 DEF CanStep, TakesDebug, DebugReq, Halted, Sleeping, Dead
  <2>2. \A h \in Hart \ mask : ~CanStep(h)
    BY <1>1, <1>2 DEF CanStep, TakesDebug, TakesIrq, DebugReq, Irq, AtRest, Rest, Sleeping
  <2>3. QED
    BY <2>1, <2>2
<1>5. OnOneBus(mask)
  BY <1>2 DEF OnOneBus
<1>6. QED
  BY <1>2, <1>3, <1>4, <1>5, Together

LEMMA RecoveringKept ==
  ASSUME TypeOK, NEW x \in {"INTC_RECOVERY", "RECOVERY"}, Recovering(x),
         NEW S, NEW call, NEW victims, NEW w, Works(S, call, victims, w), S = {} \/ S = mask,
         UNCHANGED <<cfg, mask, master>>, DebugNext, LifeKept(EndKept), IntrKept(Asleep = Hart),
         NEW y \in {"INTC_RECOVERY", "RECOVERY"}, ctx' = ctx,
         NextMachines("DMR_MODE", "IDLE", "DMR_MODE", y, y),
         \/ y = "INTC_RECOVERY" /\ AllAt(mask, "iso")'
         \/ AllAt(mask, "dbg")'
         \/ y = "RECOVERY" /\ \/ AllAt(mask, "restore")'
                              \/ AllAt(mask, "main")' /\ bad' \cap mask = {}
  PROVE  Recovering(y)'
<1>1. /\ AllIn("DMR_MODE", x) /\ Paired("DMR_MODE") /\ AtRest(Hart \ mask)
      /\ cfg \in Dual /\ Working("DMR_MODE") /\ DelayFor /\ Running /\ ctx = "main"
  BY DEF Recovering, Working
<1>2. Checked = {} /\ ~StartBoot /\ ~EnExtDebug
  BY <1>1, RecoveringWires
<1>3. Working("DMR_MODE")' /\ DelayFor'
  BY <1>1, <1>2, WorkingKept
<1>4. Running' /\ dbgReq' = "halt"
  BY <1>1, <1>2, RunningKept DEF DebugNext, DebugWord
<1>5. AtRest(Hart \ mask)'
  BY <1>1, Stays DEF AtRest
<1>6. AllIn("DMR_MODE", y)'
  BY MachinesPrimed DEF AllIn
<1>7. QED
  BY <1>1, <1>3, <1>4, <1>5, <1>6 DEF Recovering

LEMMA RecoveringCycle ==
  ASSUME Templates, TypeOK, TypeOK', NEW x \in {"INTC_RECOVERY", "RECOVERY"}, Recovering(x),
         NEW S, NEW call, NEW victims, NEW w, Works(S, call, victims, w)
  PROVE  Recovering("INTC_RECOVERY")' \/ Recovering("RECOVERY")' \/ Comparing'
<1>1. /\ AllIn("DMR_MODE", x) /\ Paired("DMR_MODE") /\ AtRest(Hart \ mask)
      /\ cfg \in Dual /\ Working("DMR_MODE") /\ DelayFor /\ Running /\ ctx = "main"
      /\ dbgReq = "halt"
  BY DEF Recovering, Working
<1>2. /\ InterruptHalt(master) = (IF x = "INTC_RECOVERY" THEN mask ELSE {})
      /\ InterruptSync(master) = {} /\ InterruptSwResync = {}
      /\ WfiDmr = {} /\ Checked = {} /\ mask \subseteq Hart /\ mask # {}
      /\ Team("DMR_MODE") = mask
  BY <1>1, RecoveringWires
<1>3. PICK l \in {"iso", "dbg", "restore", "main"} :
        /\ \A h \in mask : pc[h] = l /\ ~intcAck[h]
        /\ l = "iso" => x = "INTC_RECOVERY"
        /\ l \in {"restore", "main"} => x = "RECOVERY"
        /\ l = "main" => bad \cap mask = {}
  BY DEF Recovering, AllAt
<1>4. S = {} \/ S = mask
  BY <1>3, RecoveringMoves
<1>5. victims = {}
  BY <1>2, NoVictims
<1>6. PICK in : InputOf(in, victims)
  BY <1>1, RunningInput
<1>7. in.halt = IF l \in Halted THEN mask ELSE {}
  <2>1. \A h \in Hart \ mask : pc[h] \notin Halted
    BY <1>1 DEF AtRest, Rest, Halted
  <2>2. QED
    BY <1>2, <1>3, <1>6, <2>1 DEF InputOf
<1>8. LET y == IF in.halt = mask THEN "RECOVERY" ELSE IF x = "RECOVERY" THEN "SYNC" ELSE x
      IN NextMachines("DMR_MODE", "IDLE", "DMR_MODE", y, y)
  <2>1. Registers(in) /\ FsmTick(in)
    BY <1>6 DEF InputOf, Input
  <2>2. in.halt = {} \/ in.halt = mask
    BY <1>7
  <2>3. QED
    BY <1>1, <2>1, <2>2, MachinesRecovering
<1>9. CASE l = "iso"
  <2>1. NextMachines("DMR_MODE", "IDLE", "DMR_MODE", "INTC_RECOVERY", "INTC_RECOVERY")
    BY <1>2, <1>3, <1>7, <1>8, <1>9 DEF Halted
  <2>2. \A h \in mask : TakesDebug(h)
    BY <1>2, <1>3, <1>9 DEF TakesDebug, DebugReq, Halted
  <2>3. \A h \in S : TakesDebug(h) \/ TakesIrq(h)
    BY <1>4, <2>2
  <2>4. /\ UNCHANGED <<cfg, mask, master>> /\ DebugNext
        /\ LifeKept(EndKept) /\ IntrKept(Asleep = Hart) /\ ctx' = ctx
        /\ \A h \in Hart : intcAck'[h] = intcAck[h]
        /\ \A h \in Hart : h \in S /\ TakesDebug(h) => pc'[h] = "dbg"
    BY <1>2, <2>3, CalledAway
  <2>5. AllAt(mask, "iso")' \/ AllAt(mask, "dbg")'
    <3>1. CASE S = {}
      BY <1>2, <1>3, <1>9, <2>4, <3>1, Stays DEF AllAt
    <3>2. CASE S = mask
      BY <1>2, <1>3, <2>2, <2>4, <3>2 DEF AllAt
    <3>3. QED
      BY <1>4, <3>1, <3>2
  <2>6. QED
    BY <1>4, <2>1, <2>4, <2>5, RecoveringKept
<1>10. CASE l \in Halted
  <2>1. NextMachines("DMR_MODE", "IDLE", "DMR_MODE", "RECOVERY", "RECOVERY")
    BY <1>7, <1>8, <1>10
  <2>2. /\ UNCHANGED <<cfg, mask, master>> /\ DebugNext
        /\ LifeKept(EndKept) /\ IntrKept(Asleep = Hart)
        /\ \A h \in Hart : h \in S => /\ pc'[h] = IF l = "dbg" THEN DebugEntry ELSE Restored
                                      /\ intcAck'[h] = intcAck[h]
        /\ bad' = (bad \ S) \cup victims
        /\ ctx' = IF S # {} /\ l = "dbg" /\ dbgReq = "boot" THEN "none" ELSE ctx
    BY <1>2, <1>3, <1>4, <1>10, Reloading
  <2>3. ctx' = ctx
    BY <1>1, <2>2
  <2>4. DebugEntry = "restore" /\ Restored = "main"
    BY <1>1 DEF DebugEntry, Restored
  <2>5. CASE S = {}
    <3>1. AllAt(mask, l)'
      BY <1>2, <1>3, <2>2, <2>5, Stays DEF AllAt
    <3>2. AllAt(mask, "dbg")' \/ AllAt(mask, "restore")'
      BY <1>10, <3>1 DEF Halted
    <3>3. QED
      BY <1>4, <2>1, <2>2, <2>3, <3>2, RecoveringKept
  <2>6. CASE S = mask
    <3>1. IF l = "dbg" THEN AllAt(mask, "restore")'
                       ELSE AllAt(mask, "main")' /\ bad' \cap mask = {}
      BY <1>2, <1>3, <1>5, <2>2, <2>4, <2>6 DEF AllAt
    <3>2. AllAt(mask, "restore")' \/ (AllAt(mask, "main")' /\ bad' \cap mask = {})
      BY <3>1
    <3>3. QED
      BY <1>4, <2>1, <2>2, <2>3, <3>2, RecoveringKept
  <2>7. QED
    BY <1>4, <2>5, <2>6
<1>11. CASE l = "main"
  <2>1. NextMachines("DMR_MODE", "IDLE", "DMR_MODE", "SYNC", "SYNC")
    BY <1>2, <1>3, <1>7, <1>8, <1>11 DEF Halted
  <2>2. ModeOf(cfg) = "DMR_MODE" /\ x = "RECOVERY"
    BY <1>1, <1>3, <1>11 DEF ModeOf, Dual
  <2>3. Free
    BY <1>2, <2>2 DEF Free
  <2>4. ~errFf' /\ ~errSeen'
    BY <1>2, <1>6, ErrorsForgotten DEF InputOf
  <2>5. PICK u \in Code \cup Stop :
                          /\ Executes("DMR_MODE", u)' /\ AllAt(Team("DMR_MODE"), u)'
                          /\ UNCHANGED <<cfg, mask, master>> /\ bad' \subseteq bad
    BY <1>1, <1>2, <1>3, <1>4, <1>11, <2>2, <2>3, FirstStep
  <2>6. AllIn("DMR_MODE", "SYNC")'
    BY <2>1, <2>5, MachinesPrimed DEF AllIn
  <2>7. Working("DMR_MODE")' /\ DelayFor'
    BY <1>1, <1>2, <2>5, WorkingKept
  <2>8. (ModeOf(cfg) = "DMR_MODE")' /\ Team("DMR_MODE")' = mask
    BY <2>2, <2>5 DEF Team, ModeOf
  <2>9. AtRest(Hart \ Team("DMR_MODE"))'
    BY <1>1, <1>4, <2>5, <2>8, Stays DEF AtRest
  <2>10. ~diff' /\ bad' \cap Team("DMR_MODE")' = {}
    BY <1>3, <1>11, <2>5, <2>7, <2>8 DEF Working
  <2>11. Voting' \/ Comparing'
    BY <2>4, <2>5, <2>6, <2>7, <2>8, <2>9, <2>10, Arrived
  <2>12. ~Voting'
    BY <2>1, ThreeHarts, FS_EmptySet DEF Voting, AllIn, Machines, NextMachines
  <2>13. QED
    BY <2>11, <2>12
<1>12. QED
  BY <1>9, <1>10, <1>11 DEF Halted

-----------------------------------------------------------------------------
(* At rest: no core runs, the host acknowledges, configures and starts.    *)

\* a cycle in which no core does anything but leave the boot ROM for its wfi
RestCycle(hw) ==
  /\ FsmTick(FsmIn(FALSE)) /\ CtrlTick(hw, CtrlIn) /\ host' = HostNext(hw)
  /\ \A h \in Hart : /\ ~intcAck'[h]
                     /\ pc'[h] = pc[h] \/ (pc[h] = "rom" /\ pc'[h] = "rom_slp")
  /\ ~diff'
  /\ masterFf' = IF Asleep = Hart THEN master ELSE masterFf

LEMMA RestWires ==
  ASSUME NEW g, NEW s, s # "START", AllIdle(g, s)
  PROVE  Free /\ Checked = {} /\ DualMode = {}
BY DEF Checked, DualMode, Machines, AllIdle, Free,
    TmrIn, DmrIn, InterruptHalt, InterruptSync, InterruptSwResync, WfiDmr, SwitchToSingle,
    SwitchTMRtoSingle, SwitchDMRtoSingle, SwitchSingletoTMR, SwitchSingletoDMR

LEMMA NextRests ==
  ASSUME Free, Checked = {}, DualMode = {}, ~diff, Next,
         \A h \in Hart : pc[h] \in Rest \cup {"rom"} /\ ~intcAck[h]
  PROVE  \E hw \in HostWrites : RestCycle(hw)
<1>1. PICK victims \in {{}} \cup {{k} : k \in Strikable} :
        \E S \in Movers(victims # {}) :
          \E call \in CallsOf(S), hw \in HostWrites : Tick(S, call, hw, victims)
  BY DEF Next
<1>2. PICK S \in Movers(victims # {}) :
        \E call \in CallsOf(S), hw \in HostWrites : Tick(S, call, hw, victims)
  BY <1>1
<1>3. PICK call \in CallsOf(S), hw \in HostWrites : Tick(S, call, hw, victims)
  BY <1>2
<1>4. victims = {} /\ (victims # {}) = FALSE
  BY <1>1 DEF Strikable
<1>5. \A h \in S : h \in Hart /\ CanStep(h)
  BY DEF Movers
<1>6. \A h \in S : pc[h] = "rom"
  BY <1>5, FreeCore DEF Rest, Sleeping
<1>7. \A h \in S : WriteOf(h, call) = NoWrite
  BY <1>6, FreeWrite
<1>8. CoreWrites(S, call) = {}
  BY <1>7 DEF CoreWrites
<1>9. /\ FsmTick(FsmIn(FALSE)) /\ CtrlTick(hw, CtrlIn) /\ CoresTick(S, call, victims)
      /\ host' = HostNext(hw)
  BY <1>3, <1>4, <1>8 DEF Tick
<1>10. \A h \in Hart : h \in S => pc'[h] = "rom_slp" /\ ~intcAck'[h]
  <2> SUFFICES ASSUME NEW h \in Hart, h \in S PROVE pc'[h] = "rom_slp" /\ ~intcAck'[h]
    OBVIOUS
  <2>1. pc[h] = "rom" /\ ~intcAck[h]
    BY <1>6
  <2>2. /\ ~TakesDebug(h) /\ ~TakesIrq(h) /\ h \notin WfiDmr
        /\ \A l : Runs(h, l) <=> pc[h] = l
    BY FreeCore
  <2>3. PcNext(h, call) = "rom_slp" /\ AckNext(h) = intcAck[h]
    BY <2>1, <2>2, FollowIs DEF PcNext, AckNext
  <2>4. QED
    BY <1>9, <2>1, <2>3 DEF CoresTick
<1>11. \A h \in Hart : h \notin S => pc'[h] = pc[h] /\ ~intcAck'[h]
  BY <1>9, Unmoved
<1>12. ~diff' /\ masterFf' = IF Asleep = Hart THEN master ELSE masterFf
  BY <1>4, <1>9, DataIs DEF DmrErrorOnBus
<1>13. RestCycle(hw)
  BY <1>6, <1>9, <1>10, <1>11, <1>12 DEF RestCycle
<1>14. QED
  BY <1>13

(* The host's writes. *)
LEMMA TickReset ==
  ASSUME CtrlTick(Reset, CtrlIn)
  PROVE  /\ cfg' = SINGLE /\ UNCHANGED <<mask, master>>
         /\ LifeKept(EndKept)
         /\ intEn' /\ ~intStat' /\ interrupt' = (intStat /\ LoadInterrupt(Asleep = Hart))
         /\ flagIntc' = (intStat /\ (flagIntc \/ LoadInterrupt(Asleep = Hart)))
BY DEF Reset, CtrlTick, CtrlIn, LifeTick, InterruptTick, Written, StartNext, EndSwNext,
       IntStatNext, LifeKept, EndKept

LEMMA TickJob ==
  ASSUME NEW j \in Job, CtrlTick(j, CtrlIn)
  PROVE  /\ cfg' = j.cfg /\ mask' = j.mask /\ master' = j.master
         /\ LifeKept(EndKept) /\ IntrKept(Asleep = Hart)
<1>1. DOMAIN j = {"cfg", "master", "mask"}
  BY DEF Job
<1>2. QED
  BY <1>1 DEF CtrlTick, CtrlIn, LifeTick, InterruptTick, Written, StartNext, EndSwNext,
       IntStatNext, LifeKept, IntrKept, EndKept

LEMMA TickStart ==
  ASSUME CtrlTick([start |-> TRUE], CtrlIn)
  PROVE  /\ UNCHANGED <<cfg, mask, master>> /\ start'
         /\ endSw' = EndKept /\ startFf' = start /\ startFlag' = StartEdge /\ endFf' = endSw
         /\ IntrKept(Asleep = Hart)
BY DEF CtrlTick, CtrlIn, LifeTick, InterruptTick, Written, StartNext, EndSwNext,
       IntStatNext, IntrKept, EndKept

(* What a job may still do before a program runs, and what the host has    *)
(* then told the registers.                                                *)
Awaits(e) == Fresh(e) \/ Raised(e) \/ Falling(e)
Told == /\ host = "ready" => cfg = SINGLE
        /\ host \in {"set", "running"} => Configured

LEMMA NothingWritten ==
  ASSUME CtrlTick(NoWrite, CtrlIn), host' = HostNext(NoWrite), ~interrupt
  PROVE  /\ UNCHANGED <<cfg, mask, master>> /\ host' = host
         /\ LifeKept(EndKept) /\ IntrKept(Asleep = Hart)
<1>1. host' = host
  BY DEF HostNext
<1>2. QED
  BY <1>1, TickNoWrite DEF softVars

LEMMA FreshKept ==
  ASSUME NEW e \in BOOLEAN, Fresh(e), CtrlTick(NoWrite, CtrlIn), host' = HostNext(NoWrite)
  PROVE  /\ UNCHANGED <<cfg, mask, master>> /\ host' = host
         /\ IF host = "running" THEN Raised(e)' ELSE Fresh(e)'
<1>1. ~interrupt
  BY DEF Fresh, Quiet, Intr
<1>2. /\ UNCHANGED <<cfg, mask, master>> /\ host' = host
      /\ LifeKept(EndKept) /\ IntrKept(Asleep = Hart)
  BY <1>1, NothingWritten
<1>3. CASE host = "told"
  BY <1>2, <1>3 DEF Fresh, Life, Intr, Quiet, LifeKept, IntrKept, EndKept, EndEdge, StartEdge,
                    LoadInterrupt
<1>4. CASE host = "ready"
  <2>1. /\ Life(FALSE, FALSE, FALSE, e, e)
        /\ intEn /\ ~intStat /\ ~interrupt
    BY <1>4 DEF Fresh
  <2>2. Life(FALSE, FALSE, FALSE, e, e)'
    BY <1>2, <2>1 DEF Life, LifeKept, EndKept, EndEdge, StartEdge
  <2>3. intEn' /\ ~intStat' /\ ~interrupt' /\ ~flagIntc'
    BY <1>2, <2>1 DEF Life, IntrKept, EndEdge
  <2>4. Fresh(e)'
    BY <1>2, <1>4, <2>2, <2>3 DEF Fresh
  <2>5. QED
    BY <1>2, <1>4, <2>4
<1>5. CASE host = "set"
  BY <1>2, <1>5 DEF Fresh, Life, Intr, Quiet, LifeKept, IntrKept, EndKept, EndEdge, StartEdge,
                    LoadInterrupt
<1>6. CASE host = "running"
  BY <1>2, <1>6 DEF Fresh, Raised, Life, Intr, Quiet, LifeKept, IntrKept, EndKept, EndEdge,
                    StartEdge, LoadInterrupt
<1>7. QED
  BY <1>2, <1>3, <1>4, <1>5, <1>6 DEF Fresh

LEMMA FreshReset ==
  ASSUME NEW e \in BOOLEAN, Fresh(e), host = "told", CtrlTick(Reset, CtrlIn),
         host' = HostNext(Reset)
  PROVE  host' = "ready" /\ cfg' = SINGLE /\ Fresh(e)'
<1>1. Reset # NoWrite
  <2>1. "cfg" \in DOMAIN Reset /\ "cfg" \notin DOMAIN NoWrite
    BY DEF Reset, NoWrite
  <2>2. QED
    BY <2>1
<1>2. host' = "ready"
  BY <1>1 DEF HostNext
<1>3. Life(FALSE, FALSE, FALSE, e, e) /\ Intr(e, e, FALSE, e)
  BY DEF Fresh
<1>4. /\ cfg' = SINGLE /\ UNCHANGED <<mask, master>>
      /\ LifeKept(EndKept)
      /\ intEn' /\ ~intStat' /\ interrupt' = (intStat /\ LoadInterrupt(Asleep = Hart))
      /\ flagIntc' = (intStat /\ (flagIntc \/ LoadInterrupt(Asleep = Hart)))
  BY TickReset
<1>5. Life(FALSE, FALSE, FALSE, e, e)'
  BY <1>3, <1>4 DEF Life, LifeKept, EndKept, EndEdge, StartEdge
<1>6. ~interrupt' /\ (flagIntc' => e)
  BY <1>3, <1>4 DEF Intr, LoadInterrupt
<1>7. QED
  BY <1>2, <1>4, <1>5, <1>6 DEF Fresh

LEMMA FreshJob ==
  ASSUME Templates, NEW e \in BOOLEAN, Fresh(e), host = "ready", NEW j \in Jobs,
         CtrlTick(j, CtrlIn), host' = HostNext(j)
  PROVE  host' = "set" /\ Fresh(e)' /\ Configured'
<1>1. j \in Job
  BY Environment
<1>2. j # NoWrite
  <2>1. "cfg" \in DOMAIN j /\ "cfg" \notin DOMAIN NoWrite
    BY <1>1 DEF Job, NoWrite
  <2>2. QED
    BY <2>1
<1>3. host' = "set"
  BY <1>2 DEF HostNext
<1>4. /\ cfg' = j.cfg /\ mask' = j.mask /\ master' = j.master
      /\ LifeKept(EndKept) /\ IntrKept(Asleep = Hart)
  BY <1>1, TickJob
<1>5. Configured'
  BY <1>4 DEF Templates, Configured
<1>6. QED
  BY <1>3, <1>4, <1>5 DEF Fresh, Life, Intr, Quiet, LifeKept, IntrKept, EndKept, EndEdge,
                          StartEdge, LoadInterrupt

LEMMA FreshStart ==
  ASSUME NEW e \in BOOLEAN, Fresh(e), host = "set", CtrlTick([start |-> TRUE], CtrlIn),
         host' = HostNext([start |-> TRUE])
  PROVE  host' = "running" /\ Fresh(e)' /\ UNCHANGED <<cfg, mask, master>>
<1>1. [start |-> TRUE] # NoWrite
  <2>1. "start" \in DOMAIN [start |-> TRUE] /\ "start" \notin DOMAIN NoWrite
    BY DEF NoWrite
  <2>2. QED
    BY <2>1
<1>2. host' = "running"
  BY <1>1 DEF HostNext
<1>3. QED
  BY <1>2, TickStart DEF Fresh, Life, Intr, Quiet, IntrKept, EndKept, EndEdge, StartEdge,
                         LoadInterrupt

\* what the cycle makes of the job
Onward(e) ==
  /\ Told'
  /\ host \in {"set", "running"} => UNCHANGED <<cfg, mask, master>>
  /\ host' \in {"set", "running"} => host \in {"ready", "set", "running"}
  /\ host' = "running" => host \in {"set", "running"}
  /\ Fresh(e) => IF host = "running" THEN Raised(e)' ELSE Fresh(e)'
  /\ Raised(e) => Falling(e)'
  /\ Falling(e) => Running'

LEMMA JobProceeds ==
  ASSUME Templates, NEW e \in BOOLEAN, Awaits(e), Told, NEW hw \in HostWrites,
         CtrlTick(hw, CtrlIn), host' = HostNext(hw)
  PROVE  Onward(e)
<1>1. ~interrupt /\ host \in {"told", "ready", "set", "running"}
  BY DEF Awaits, Fresh, Raised, Falling, Quiet, Intr
<1>2. CASE hw = NoWrite
  <2>1. /\ UNCHANGED <<cfg, mask, master>> /\ host' = host
        /\ LifeKept(EndKept) /\ IntrKept(Asleep = Hart)
    BY <1>1, <1>2, NothingWritten
  <2>2. Told'
    BY <2>1 DEF Told, Configured
  <2>3. Fresh(e) => IF host = "running" THEN Raised(e)' ELSE Fresh(e)'
    BY <1>2, FreshKept
  <2>4. (Raised(e) => Falling(e)') /\ (Falling(e) => Running')
    <3>1. CASE host = "running"
      <4>1. host' = IF interrupt THEN "told" ELSE "running"
        BY <1>1, <2>1, <3>1
      <4>2. QED
        BY <2>1, <4>1, LifeRaised, LifeFalling
    <3>2. CASE host # "running"
      BY <3>2 DEF Raised, Falling
    <3>3. QED
      BY <3>1, <3>2
  <2>5. QED
    BY <2>1, <2>2, <2>3, <2>4 DEF Onward
<1>3. CASE hw # NoWrite /\ host = "told"
  <2>1. hw = Reset
    BY <1>3, Zenon DEF HostWrites, Templates
  <2>2. Fresh(e) /\ ~Raised(e) /\ ~Falling(e)
    BY <1>3 DEF Awaits, Raised, Falling
  <2>3. host' = "ready" /\ cfg' = SINGLE /\ Fresh(e)'
    BY <1>3, <2>1, <2>2, FreshReset
  <2>4. QED
    BY <1>3, <2>2, <2>3 DEF Onward, Told
<1>4. CASE hw # NoWrite /\ host = "ready"
  <2>1. hw \in Jobs
    BY <1>4, Zenon DEF HostWrites
  <2>2. Fresh(e) /\ ~Raised(e) /\ ~Falling(e)
    BY <1>4 DEF Awaits, Raised, Falling
  <2>3. host' = "set" /\ Fresh(e)' /\ Configured'
    BY <1>4, <2>1, <2>2, FreshJob
  <2>4. QED
    BY <1>4, <2>2, <2>3 DEF Onward, Told
<1>5. CASE hw # NoWrite /\ host = "set"
  <2>1. hw = [start |-> TRUE]
    BY <1>5, Zenon DEF HostWrites
  <2>2. Fresh(e) /\ ~Raised(e) /\ ~Falling(e)
    BY <1>5 DEF Awaits, Raised, Falling
  <2>3. host' = "running" /\ Fresh(e)' /\ UNCHANGED <<cfg, mask, master>>
    BY <1>5, <2>1, <2>2, FreshStart
  <2>4. QED
    BY <1>5, <2>2, <2>3 DEF Onward, Told, Configured
<1>6. CASE hw # NoWrite /\ host = "running"
  BY <1>6, Zenon DEF HostWrites, Templates
<1>7. QED
  BY <1>1, <1>2, <1>3, <1>4, <1>5, <1>6

\* the delay flip-flop without a pair
LEMMA RestDelay ==
  ASSUME NEW hw, RestCycle(hw), DualMode = {}
  PROVE  (~delayFf => ~delayFf') /\ (Asleep = Hart /\ cfg = SINGLE => ~delayFf')
<1>1. delayFf' = IF Asleep = Hart /\ cfg = SINGLE THEN FALSE ELSE Delayed(cfg)
  BY DelayIs DEF RestCycle
<1>2. QED
  BY <1>1, NoDelay

LEMMA ResettingNext ==
  ASSUME Templates, TypeOK, Resetting, Next
  PROVE  Booting'
<1>1. /\ gen = "RESET" /\ single = "RESET"
      /\ tmr = [h \in Hart |-> "RESET"] /\ dmr = [h \in Hart |-> "RESET"]
      /\ Fresh(FALSE) /\ host = "told" /\ cfg = SINGLE /\ ~diff /\ ~delayFf
      /\ \A h \in Hart : pc[h] = "rom" /\ ~intcAck[h]
  BY DEF Resetting, AllAt
<1>2. Free /\ Checked = {} /\ DualMode = {}
  BY <1>1 DEF Checked, DualMode, Free, TmrIn, DmrIn, InterruptHalt, InterruptSync,
    InterruptSwResync, WfiDmr, SwitchToSingle, SwitchTMRtoSingle, SwitchDMRtoSingle,
    SwitchSingletoTMR, SwitchSingletoDMR
<1>3. PICK hw \in HostWrites : RestCycle(hw)
  BY <1>1, <1>2, NextRests DEF Rest
<1>4. PICK e \in BOOLEAN : e = FALSE
  OBVIOUS
<1>5. Awaits(e) /\ Told /\ Fresh(e)
  BY <1>1, <1>4 DEF Awaits, Told
<1>6. Onward(e)
  BY <1>3, <1>5, JobProceeds DEF RestCycle
<1>7. Fresh(e)' /\ Told'
  BY <1>1, <1>5, <1>6 DEF Onward
<1>8. Fresh(FALSE)'
  BY <1>4, <1>7
<1>9. AllIdle("BOOT", "IDLE")'
  <2>1. \A h \in Hart : TmrNext(h, FsmIn(FALSE)) = "IDLE" /\ DmrNext(h, FsmIn(FALSE)) = "IDLE"
    BY <1>1 DEF TmrNext, DmrNext
  <2>2. GenNext(FsmIn(FALSE)) = "BOOT" /\ SingleNext(FsmIn(FALSE)) = "IDLE"
    BY <1>1 DEF GenNext, SingleNext
  <2>3. QED
    BY <1>3, <2>1, <2>2 DEF RestCycle, FsmTick, AllIdle, Machines
<1>10. ~diff' /\ ~delayFf' /\ \A h \in Hart : pc'[h] \in {"rom", "rom_slp"} /\ ~intcAck'[h]
  BY <1>1, <1>2, <1>3, RestDelay DEF RestCycle
<1>11. QED
  BY <1>7, <1>8, <1>9, <1>10 DEF Booting, Told

LEMMA BootingNext ==
  ASSUME Templates, TypeOK, Booting, Next
  PROVE  Booting' \/ Idling'
<1>1. Free /\ Checked = {} /\ DualMode = {}
  BY RestWires DEF Booting
<1>2. /\ ~diff /\ ~delayFf /\ AllIdle("BOOT", "IDLE")
      /\ \A h \in Hart : pc[h] \in {"rom", "rom_slp"} /\ ~intcAck[h]
  BY DEF Booting
<1>3. PICK hw \in HostWrites : RestCycle(hw)
  BY <1>1, <1>2, NextRests DEF Rest
<1>4. PICK e \in BOOLEAN : e = FALSE
  OBVIOUS
<1>5. Awaits(e) /\ Told
  <2>1. Fresh(FALSE) \/ Raised(FALSE) \/ Falling(FALSE)
    BY DEF Booting, Running
  <2>2. QED
    BY <1>4, <2>1 DEF Awaits, Told, Booting
<1>6. Onward(e)
  BY <1>3, <1>5, JobProceeds DEF RestCycle
<1>7. Told' /\ (Fresh(FALSE)' \/ Raised(FALSE)' \/ Running')
  <2>1. Fresh(e)' \/ Raised(e)' \/ Falling(e)' \/ Running'
    BY <1>5, <1>6 DEF Awaits, Onward
  <2>2. QED
    BY <1>4, <1>6, <2>1 DEF Onward, Running
<1>8. /\ ~diff' /\ ~delayFf'
      /\ \A h \in Hart : pc'[h] \in {"rom", "rom_slp"} /\ ~intcAck'[h]
  BY <1>1, <1>2, <1>3, RestDelay DEF RestCycle
<1>9. Resting(IF Asleep = Hart THEN "IDLE" ELSE "BOOT", "IDLE")
  BY <1>2, <1>3, InputIs, MachinesBooting DEF RestCycle
<1>10. CASE Asleep # Hart
  <2>1. AllIdle("BOOT", "IDLE")'
    BY <1>9, <1>10, RestingPrimed
  <2>2. QED
    BY <1>7, <1>8, <2>1 DEF Booting, Told
<1>11. CASE Asleep = Hart
  <2>1. AllIdle("IDLE", "IDLE")'
    BY <1>9, <1>11, RestingPrimed
  <2>2. \A h \in Hart : pc[h] = "rom_slp"
    BY <1>1, <1>2, <1>11, FreeAsleep DEF Sleeping
  <2>3. AtRest(Hart)'
    BY <1>3, <2>2 DEF AtRest, Rest, RestCycle
  <2>4. host' = "running" => masterFf' = master'
    BY <1>3, <1>6, <1>11 DEF RestCycle, Onward
  <2>5. QED
    BY <1>7, <1>8, <2>1, <2>3, <2>4 DEF Idling, Told
<1>12. QED
  BY <1>10, <1>11

\* asleep and at rest
LEMMA RestSleeps ==
  ASSUME Free, AtRest(Hart)
  PROVE  /\ Asleep = Hart
         /\ \A hw : RestCycle(hw) => AtRest(Hart)'
<1>1. \A h \in Hart : pc[h] \in Sleeping /\ pc[h] # "rom"
  BY DEF AtRest, Rest, Sleeping
<1>2. Asleep = Hart
  BY <1>1, FreeAsleep
<1>3. QED
  BY <1>1, <1>2 DEF AtRest, RestCycle

LEMMA IdlingNext ==
  ASSUME Templates, TypeOK, Idling, Next
  PROVE  Idling' \/ Ready'
<1>1. Free /\ Checked = {} /\ DualMode = {}
  BY RestWires DEF Idling
<1>2. ~diff /\ AllIdle("IDLE", "IDLE") /\ AtRest(Hart)
  BY DEF Idling
<1>3. PICK hw \in HostWrites : RestCycle(hw)
  BY <1>1, <1>2, NextRests DEF AtRest
<1>4. PICK e \in BOOLEAN : Awaits(e)
  <2>1. \E e \in BOOLEAN : Awaits(e)
    BY DEF Idling, Awaits, Running
  <2>2. QED
    BY <2>1
<1>5. Told
  BY DEF Told, Idling
<1>6. Onward(e)
  BY <1>3, <1>4, <1>5, JobProceeds DEF RestCycle
<1>7. Asleep = Hart /\ AtRest(Hart)' /\ ~diff' /\ masterFf' = master
  BY <1>1, <1>2, <1>3, RestSleeps DEF RestCycle
<1>8. Resting(IF start THEN ModeOf(cfg) ELSE "IDLE", "IDLE")
  BY <1>2, <1>3, InputIs, MachinesIdling DEF RestCycle
<1>9. host' \in {"set", "running"} => ~delayFf'
  <2>1. CASE host = "ready"
    BY <1>1, <1>3, <1>7, <2>1, RestDelay DEF Idling
  <2>2. CASE host \in {"set", "running"}
    BY <1>1, <1>3, <2>2, RestDelay DEF Idling
  <2>3. QED
    BY <1>6, <2>1, <2>2 DEF Onward
<1>10. Told' /\ (host' = "running" => masterFf' = master')
  BY <1>6, <1>7 DEF Onward
<1>11. CASE host = "running"
  <2>1. start
    BY <1>4, <1>11 DEF Awaits, Fresh, Raised, Falling, Life
  <2>2. UNCHANGED <<cfg, mask, master>>
    BY <1>6, <1>11 DEF Onward
  <2>3. Raised(e)' \/ Falling(e)' \/ Running'
    BY <1>4, <1>6, <1>11 DEF Awaits, Onward
  <2>4. host' = "running"
    BY <2>3 DEF Raised, Falling, Running
  <2>5. \E f \in BOOLEAN : Raised(f)' \/ Falling(f)'
    BY <2>3 DEF Running
  <2>6. AllIdle(ModeOf(cfg), "IDLE")'
    <3> DEFINE g == ModeOf(cfg)
    <3>1. Resting(g, "IDLE")
      BY <1>8, <2>1
    <3>2. QED
      BY <2>2, <3>1 DEF Resting, NextMachines, AllIdle, Machines, ModeOf
  <2>7. QED
    BY <1>7, <1>9, <1>10, <2>4, <2>5, <2>6 DEF Ready, Told
<1>12. CASE host # "running"
  <2>1. Fresh(e) /\ ~start
    BY <1>4, <1>12 DEF Awaits, Fresh, Raised, Falling, Life
  <2>2. Fresh(e)'
    BY <1>6, <1>12, <2>1 DEF Onward
  <2>3. Fresh(FALSE)' \/ Fresh(TRUE)'
    <3>1. CASE e = TRUE
      BY <2>2, <3>1
    <3>2. CASE e = FALSE
      BY <2>2, <3>2
    <3>3. QED
      BY <3>1, <3>2
  <2>4. AllIdle("IDLE", "IDLE")'
    BY <1>8, <2>1, RestingPrimed
  <2>5. QED
    BY <1>7, <1>9, <1>10, <2>3, <2>4 DEF Idling, Told
<1>13. QED
  BY <1>11, <1>12

LEMMA ReadyNext ==
  ASSUME Templates, TypeOK, TypeOK', Ready, Next
  PROVE  Ready' \/ SingleStarting' \/ \E k \in Kinds : Starting(k)'
<1>1. Free /\ Checked = {} /\ DualMode = {}
  BY RestWires DEF Ready
<1>2. /\ ~diff /\ ~delayFf /\ masterFf = master /\ AllIdle(ModeOf(cfg), "IDLE") /\ AtRest(Hart)
      /\ Configured
  BY DEF Ready
<1>3. PICK hw \in HostWrites : RestCycle(hw)
  BY <1>1, <1>2, NextRests DEF AtRest
<1>4. PICK e \in BOOLEAN : Raised(e) \/ Falling(e)
  BY DEF Ready
<1>5. host = "running" /\ start /\ Told /\ Awaits(e)
  BY <1>2, <1>4 DEF Raised, Falling, Life, Told, Awaits
<1>6. Onward(e)
  BY <1>3, <1>5, JobProceeds DEF RestCycle
<1>7. /\ UNCHANGED <<cfg, mask, master>> /\ (Raised(e) => Falling(e)')
      /\ (Falling(e) => Running')
  BY <1>5, <1>6 DEF Onward
<1>8. /\ AtRest(Hart)' /\ ~diff' /\ ~delayFf' /\ masterFf' = master' /\ Configured'
  BY <1>1, <1>2, <1>3, <1>7, RestSleeps, RestDelay DEF RestCycle, Configured
<1>9. /\ FsmTick(FsmIn(FALSE)) /\ Registers(FsmIn(FALSE))
      /\ FsmIn(FALSE).start /\ FsmIn(FALSE).endSw = endSw
  BY <1>3, <1>5, InputIs DEF RestCycle
<1>10. CASE cfg = SINGLE
  <2>1. ModeOf(cfg) = "SINGLE_MODE"
    BY <1>10 DEF ModeOf
  <2>2. Resting("SINGLE_MODE", IF FsmIn(FALSE).endSw THEN "IDLE" ELSE "START")
    BY <1>2, <1>9, <1>10, <2>1, MachinesSingleReady
  <2>3. CASE endSw
    <3>1. AllIdle("SINGLE_MODE", "IDLE")'
      BY <1>9, <2>2, <2>3, RestingPrimed
    <3>2. ModeOf(cfg)' = "SINGLE_MODE"
      BY <1>7, <2>1 DEF ModeOf
    <3>3. AllIdle(ModeOf(cfg), "IDLE")'
      BY <3>1, <3>2
    <3>4. Falling(e)'
      BY <1>4, <1>7, <2>3 DEF Falling, Life
    <3>5. QED
      BY <1>8, <3>3, <3>4 DEF Ready
  <2>4. CASE ~endSw
    <3>1. AllIdle("SINGLE_MODE", "START")'
      BY <1>9, <2>2, <2>4, RestingPrimed
    <3>2. Running'
      <4>1. CASE Raised(e)
        <5>1. e = FALSE
          BY <2>4, <4>1 DEF Raised, Life
        <5>2. QED
          BY <1>7, <4>1, <5>1 DEF Running
      <4>2. CASE Falling(e)
        BY <1>7, <4>2
      <4>3. QED
        BY <1>4, <4>1, <4>2
    <3>3. dbgReq' = "boot"
      <4>1. gen = "SINGLE_MODE"
        BY <1>2, <2>1 DEF AllIdle, Machines
      <4>2. StartBoot /\ ~EnExtDebug
        BY <4>1 DEF StartBoot, EnExtDebug
      <4>3. QED
        BY <1>3, <4>2 DEF RestCycle, CtrlTick, CtrlIn, DebugWord
    <3>4. Alone'
      BY <1>8 DEF Alone, OthersRest, AtRest
    <3>5. pc'[master'] \in Rest /\ ~intcAck'[master']
      BY <1>8 DEF AtRest, TypeOK, CtrlTypeOK
    <3>6. cfg' = SINGLE
      BY <1>7, <1>10
    <3>7. SingleStarting'
      BY <3>1, <3>2, <3>3, <3>4, <3>5, <3>6 DEF SingleStarting
    <3>8. QED
      BY <3>7
  <2>5. QED
    BY <2>3, <2>4
<1>11. CASE cfg # SINGLE
  <2> DEFINE k == ModeOf(cfg)
  <2>1. cfg \in {TCLS, DCLS, LOCKSTEP}
    BY <1>11 DEF TypeOK, CtrlTypeOK, Config
  <2>2. k \in Kinds /\ (k = "DMR_MODE" => cfg \in Dual)
    BY <2>1 DEF ModeOf, Kinds, Dual
  <2>3. Paired(k)
    BY <1>2, <2>2 DEF Configured, Paired
  <2>4. NextMachines(k, "IDLE", k, "START", "START")
    BY <1>2, <1>9, <2>2, <2>3, MachinesReady
  <2>5. PICK g \in Kinds : g = k
    BY <2>2
  <2>6. AllIn(g, "START")'
    BY <1>7, <2>4, <2>5, MachinesPrimed DEF AllIn
  <2>7. ModeOf(cfg)' = g
    BY <1>7, <2>5 DEF ModeOf
  <2>8. Working(g)'
    BY <1>7, <1>8, <2>3, <2>5 DEF Working, Paired
  <2>9. DelayFor'
    BY <1>8 DEF DelayFor
  <2>10. \E f \in BOOLEAN : Falling(f)'
    BY <1>4, <1>7 DEF Running
  <2>11. Team(g)' \subseteq Hart
    BY <2>5, <1>7 DEF Team, TypeOK, CtrlTypeOK
  <2>12. AtRest(Team(g))' /\ AtRest(Hart \ Team(g))'
    BY <1>8, <2>11 DEF AtRest
  <2>13. Starting(g)'
    BY <2>6, <2>7, <2>8, <2>9, <2>10, <2>12 DEF Starting
  <2>14. QED
    BY <2>5, <2>13
<1>12. QED
  BY <1>10, <1>11

LEMMA FinishedNext ==
  ASSUME Templates, TypeOK, Finished, Next
  PROVE  Idling'
<1>1. PICK g \in {"SINGLE_MODE", "TMR_MODE", "DMR_MODE"} : AllIdle(g, "IDLE")
  BY DEF Finished
<1>2. Free /\ Checked = {} /\ DualMode = {}
  BY <1>1, RestWires
<1>3. ~diff /\ AtRest(Hart) /\ Signalled
  BY DEF Finished
<1>4. PICK hw \in HostWrites : RestCycle(hw)
  BY <1>2, <1>3, NextRests DEF AtRest
<1>5. host = "running" /\ interrupt /\ ~start
  BY <1>3 DEF Signalled, Life, Intr
<1>6. hw = NoWrite
  BY <1>5, Zenon DEF HostWrites, Templates
<1>7. host' = "told"
  BY <1>4, <1>5, <1>6 DEF RestCycle, HostNext
<1>8. LifeKept(EndKept) /\ IntrKept(Asleep = Hart)
  BY <1>4, <1>6, TickNoWrite DEF RestCycle
<1>9. Life(FALSE, FALSE, FALSE, TRUE, TRUE)' /\ Intr(TRUE, TRUE, FALSE, TRUE)'
  BY <1>3, <1>8 DEF Signalled, Life, Intr, LifeKept, IntrKept, EndKept, EndEdge, StartEdge,
                    LoadInterrupt
<1>10. Fresh(TRUE)'
  BY <1>7, <1>9 DEF Fresh
<1>11. AtRest(Hart)' /\ ~diff'
  BY <1>2, <1>3, <1>4, RestSleeps DEF RestCycle
<1>12. Resting("IDLE", "IDLE")
  BY <1>1, <1>4, <1>5, InputIs, MachinesFinished DEF RestCycle
<1>13. QED
  BY <1>7, <1>10, <1>11, <1>12, RestingPrimed DEF Idling

-----------------------------------------------------------------------------
(* Every reachable state is in a stage.                                    *)

LEMMA LifeRuns ==
  ASSUME NEW v, LifeAt(v)
  PROVE  host = "running"
<1>1. Running \/ Ended \/ Counted
  BY DEF LifeAt
<1>2. QED
  BY <1>1 DEF Running, Falling, Ended, Counted

\* the stages of a program that is launched, and of one that runs or changes
\* its cores
Teamed(k) ==
  \/ Entering(k)
  \/ Saving(k) \/ Asking(k) \/ Calling(k) \/ Halting(k) \/ Restoring(k) \/ Syncing(k)
  \/ Parted(k) \/ Waking(k) \/ Returning(k)
Launched == SingleStarting \/ \E k \in Kinds : Starting(k)
Underway ==
  \/ SingleRunning \/ SingleLeaving
  \/ Voting \/ Comparing \/ Isolating
  \/ \E k \in Kinds : Teamed(k)
  \/ \E x \in {"SYNCINTC", "SWSYNC"} : Resyncing(x)
  \/ \E x \in {"INTC_RECOVERY", "RECOVERY"} : Recovering(x)
Calm == Resetting \/ Booting \/ Idling \/ Ready \/ Finished \/ Underway

LEMMA StagedIs == Staged <=> Calm \/ Launched
BY DEF Staged, Stage, Teamed, Calm, Underway, Launched, Kinds

LEMMA ProgramRuns ==
  ASSUME Launched \/ Underway
  PROVE  host = "running"
<1>1. CASE SingleStarting \/ SingleLeaving \/ Isolating
  BY <1>1 DEF SingleStarting, SingleLeaving, Isolating, Running, Falling
<1>2. CASE SingleRunning
  BY <1>2, LifeRuns DEF SingleRunning, SingleAt, Executes
<1>3. CASE Voting
  BY <1>3, LifeRuns DEF Voting, VotingAt, Executes
<1>4. CASE Comparing
  BY <1>4, LifeRuns DEF Comparing, ComparingAt, Executes
<1>5. ASSUME NEW k \in Kinds, Starting(k) PROVE host = "running"
  BY <1>5 DEF Starting, Falling
<1>6. ASSUME NEW k \in Kinds, Teamed(k) PROVE host = "running"
  <2>1. CASE Entering(k) \/ Syncing(k)
    BY <2>1 DEF Entering, Syncing, Running, Falling
  <2>2. CASE Saving(k) \/ Asking(k) \/ Calling(k) \/ Halting(k) \/ Restoring(k)
    BY <2>2 DEF Saving, Asking, Calling, Halting, Restoring, Meeting, Running, Falling
  <2>3. CASE Parted(k) \/ Waking(k) \/ Returning(k)
    BY <2>3 DEF Parted, Waking, Returning, Parting, Running, Falling
  <2>4. QED
    BY <1>6, <2>1, <2>2, <2>3 DEF Teamed
<1>7. ASSUME NEW x, Resyncing(x) PROVE host = "running"
  BY <1>7, LifeRuns DEF Resyncing, ResyncingAt, Executes
<1>8. ASSUME NEW x, Recovering(x) PROVE host = "running"
  BY <1>8 DEF Recovering, Running, Falling
<1>9. QED
  BY <1>1, <1>2, <1>3, <1>4, <1>5, <1>6, <1>7, <1>8 DEF Launched, Underway

LEMMA TeamedWorks ==
  ASSUME Templates, TypeOK, TypeOK', NEW k \in Kinds, Teamed(k),
         NEW S, NEW call, NEW victims, NEW w, Works(S, call, victims, w)
  PROVE  Teamed(k)' \/ Voting' \/ Comparing' \/ SingleRunning'
<1>1. CASE Entering(k)
  BY <1>1, EnteringNext DEF Teamed
<1>2. CASE Saving(k)
  BY <1>2, SavingNext DEF Teamed
<1>3. CASE Asking(k)
  BY <1>3, AskingNext DEF Teamed
<1>4. CASE Calling(k)
  BY <1>4, CallingNext DEF Teamed
<1>5. CASE Halting(k)
  BY <1>5, HaltingNext DEF Teamed
<1>6. CASE Restoring(k)
  BY <1>6, RestoringNext DEF Teamed
<1>7. CASE Syncing(k)
  BY <1>7, SyncingNext DEF Teamed
<1>8. CASE Parted(k)
  BY <1>8, PartedNext DEF Teamed
<1>9. CASE Waking(k)
  BY <1>9, WakingNext DEF Teamed
<1>10. CASE Returning(k)
  BY <1>10, ReturningNext DEF Teamed
<1>11. QED
  BY <1>1, <1>2, <1>3, <1>4, <1>5, <1>6, <1>7, <1>8, <1>9, <1>10 DEF Teamed

LEMMA LaunchedNext ==
  ASSUME Templates, TypeOK, TypeOK', Launched, Next
  PROVE  Launched' \/ Underway'
<1>1. PICK S, call, victims, w : Works(S, call, victims, w)
  BY ProgramRuns, NextWorks
<1>2. CASE SingleStarting
  BY <1>1, <1>2, SingleStartingNext DEF Launched, Underway
<1>3. ASSUME NEW k \in Kinds, Starting(k) PROVE Launched' \/ Underway'
  BY <1>1, <1>3, StartingNext DEF Launched, Underway, Teamed
<1>4. QED
  BY <1>2, <1>3 DEF Launched

LEMMA UnderwayNext ==
  ASSUME Templates, TypeOK, TypeOK', Underway, Next
  PROVE  Underway' \/ Finished'
<1>1. PICK S, call, victims, w : Works(S, call, victims, w)
  BY ProgramRuns, NextWorks
<1>2. CASE SingleRunning
  BY <1>1, <1>2, SingleRunningNext DEF Underway
<1>3. CASE SingleLeaving
  BY <1>1, <1>3, SingleLeavingNext DEF Underway, Teamed
<1>4. CASE Voting
  <2>1. Voting' \/ Resyncing("SYNCINTC")' \/ Parted("TMR_MODE")' \/ Finished'
    BY <1>1, <1>4, VotingCycle
  <2>2. Parted("TMR_MODE")' => Teamed("TMR_MODE")'
    BY DEF Teamed
  <2>3. QED
    BY <2>1, <2>2 DEF Underway, Kinds
<1>5. CASE Comparing
  <2>1. Comparing' \/ Isolating' \/ Parted("DMR_MODE")' \/ Finished'
    BY <1>1, <1>5, ComparingCycle
  <2>2. Parted("DMR_MODE")' => Teamed("DMR_MODE")'
    BY DEF Teamed
  <2>3. QED
    BY <2>1, <2>2 DEF Underway, Kinds
<1>6. CASE Isolating
  BY <1>1, <1>6, IsolatingCycle DEF Underway
<1>7. ASSUME NEW k \in Kinds, Teamed(k) PROVE Underway'
  BY <1>1, <1>7, TeamedWorks DEF Underway
<1>8. ASSUME NEW x \in {"SYNCINTC", "SWSYNC"}, Resyncing(x) PROVE Underway'
  BY <1>1, <1>8, ResyncingCycle DEF Underway
<1>9. ASSUME NEW x \in {"INTC_RECOVERY", "RECOVERY"}, Recovering(x) PROVE Underway'
  BY <1>1, <1>9, RecoveringCycle DEF Underway
<1>10. QED
  BY <1>2, <1>3, <1>4, <1>5, <1>6, <1>7, <1>8, <1>9 DEF Underway

LEMMA CalmNext ==
  ASSUME Templates, TypeOK, TypeOK', Calm, Next
  PROVE  Calm' \/ (Ready /\ Launched')
<1>1. CASE Resetting
  BY <1>1, ResettingNext DEF Calm
<1>2. CASE Booting
  BY <1>2, BootingNext DEF Calm
<1>3. CASE Idling
  BY <1>3, IdlingNext DEF Calm
<1>4. CASE Ready
  BY <1>4, ReadyNext DEF Calm, Launched
<1>5. CASE Finished
  BY <1>5, FinishedNext DEF Calm
<1>6. CASE Underway
  BY <1>6, UnderwayNext DEF Calm
<1>7. QED
  BY <1>1, <1>2, <1>3, <1>4, <1>5, <1>6 DEF Calm

LEMMA StagedNext ==
  ASSUME Templates, TypeOK, TypeOK', Staged, Next
  PROVE  Staged'
<1>1. Calm' \/ Launched'
  <2>1. CASE Calm
    BY <2>1, CalmNext
  <2>2. CASE Launched
    BY <2>2, LaunchedNext DEF Calm
  <2>3. QED
    BY <2>1, <2>2, StagedIs
<1>2. QED
  BY <1>1 DEF Staged, Stage, Teamed, Calm, Underway, Launched, Kinds

LEMMA InitStaged ==
  ASSUME Init
  PROVE  Resetting
<1>1. \E core0 \in Hart : CtrlInit(core0)
  BY DEF Init
<1>2. QED
  BY <1>1 DEF Init, FsmInit, CtrlInit, CoresInit, Resetting, AllAt, Fresh, Life, Intr

LEMMA StagedStutters ==
  ASSUME Staged, UNCHANGED vars
  PROVE  Staged'
<1>1. /\ UNCHANGED <<gen, single, tmr, dmr, errFf, errSeen, delayFf>>
      /\ UNCHANGED <<cfg, mask, master, crit, dbgReq, start, endSw, startFf, startFlag, endFf>>
      /\ UNCHANGED <<intEn, intStat, interrupt, flagIntc, host>>
      /\ UNCHANGED <<pc, ret, intcAck, mode, heir, ctx, bad, diff, masterFf>>
  BY DEF vars, fsmVars, ctrlVars, softVars, lifeVars, intVars, coreVars
<1>2. (Resetting \/ Booting \/ Idling \/ Ready \/ Finished)
        => (Resetting \/ Booting \/ Idling \/ Ready \/ Finished)'
  BY <1>1 DEF AllAt, AllIdle, AtRest, Booting, Configured, Falling, Finished, Fresh, Idling, Intr,
           Life, Machines, Quiet, Raised, Ready, Resetting, Rest, Running, Signalled,
           ModeOf
<1>3. (SingleStarting \/ SingleRunning \/ SingleLeaving)
        => (SingleStarting \/ SingleRunning \/ SingleLeaving)'
  BY <1>1 DEF AllAt, AllIdle, Alone, AtRest, Code, Configured, Counted, Ended, Executes, Falling,
           Handles, Intr, Left, Life, LifeAt, Machines, Moved, OthersRest, Paired,
           Quiet, Rest, Running, SingleAt, SingleLeaving, SingleRunning,
           SingleStarting, Team, ModeOf
<1>4. Voting => Voting'
  BY <1>1 DEF AllAt, AllIn, Code, Counted, Ended, Executes, Falling, Handles, Intr, Left, Life,
           LifeAt, Machines, Moved, Paired, Quiet, Running, Stop, Team, Voting,
           VotingAt, ModeOf
<1>5. Comparing => Comparing'
  BY <1>1 DEF AllAt, AllIn, AtRest, Code, Comparing, ComparingAt, Counted, DelayFor, Ended,
           Executes, Falling, Handles, Intr, Left, Life, LifeAt, Machines, Moved,
           Paired, Quiet, Rest, Running, Stop, Team, ModeOf
<1>6. Isolating => Isolating'
  BY <1>1 DEF AllIn, AtRest, Falling, Intr, Isolating, Life, Machines, Quiet, Rest, Running, Struck,
           ModeOf
<1>7. \A k : Stage(k) => Stage(k)'
  BY <1>1 DEF AllAt, AllIn, Asking, AtRest, Calling, DelayFor, Entering, Falling, Halting, Handles,
           Intr, Life, Machines, Meeting, OthersRest, Paired, Parted, Parting, Peers,
           Quiet, Rest, Restoring, Returning, Running, Saving, Stage, Starting,
           Switch, Syncing, Team, Waits, Waking, Woken, Working, ModeOf
<1>8. \A x : Resyncing(x) => Resyncing(x)'
  BY <1>1 DEF AllAt, AllIn, Counted, Ended, Executes, Falling, Handles, Intr, Left, Life, LifeAt,
           Machines, Moved, Paired, Quiet, Resyncing, ResyncingAt, Running, Struck,
           Team, ModeOf
<1>9. \A x : Recovering(x) => Recovering(x)'
  BY <1>1 DEF AllAt, AllIn, AtRest, DelayFor, Falling, Intr, Life, Machines, Paired, Quiet,
           Recovering, Rest, Running, Working, ModeOf
<1>10. QED
  BY <1>2, <1>3, <1>4, <1>5, <1>6, <1>7, <1>8, <1>9 DEF Staged

(* Under the templates every reachable state is in one of the stages: the  *)
(* machines, the places of the cores in the code, the job's registers and  *)
(* the bits that outlive a cycle go together as a stage says.              *)
THEOREM AlwaysStaged ==
  ASSUME Templates
  PROVE  Spec => []Staged
<1>1. Init => Staged
  BY InitStaged DEF Staged
<1>2. Staged /\ TypeOK /\ TypeOK' /\ [Next]_vars => Staged'
  BY StagedNext, StagedStutters
<1>3. QED
  BY <1>1, <1>2, TypeCorrect, PTL DEF Spec

-----------------------------------------------------------------------------
(* What a stage says of the machines and of the places of the cores.       *)

\* the states in which the machines of a mode leave the cores their own buses
Apart == {"IDLE", "END_SYNC"}
\* those in which they put them on one
OneBus(k) == IF k = "TMR_MODE"
             THEN {"START", "BOOT", "SH_HALT", "WAIT_SH", "MS_INTRSYNC", "SYNC",
                   "SYNCINTC", "SWSYNC"}
             ELSE {"START", "BOOT", "MS_INTRSYNC", "SYNC", "STOP", "INTC_RECOVERY",
                   "RECOVERY"}

Fits(g, s, k, x, y) ==
  /\ Machines(g, s, k, x, y) /\ k \in Kinds /\ Paired(k)
  /\ \A h \in Hart : pc[h] \notin Dead
  /\ s \in {"START", "RUN"} => x \in Apart /\ y = "IDLE"
  /\ "SYNC" \in {x, y} => \A h, j \in Team(k) : pc[h] = pc[j]
  /\ \/ g = "BOOT"
     \/ x = y /\ x \in OneBus(k)
     \/ \E q \in Hart : \A h \in Hart : h # q => pc[h] \in Sleeping

LEMMA FitsMeans ==
  ASSUME TypeOK, NEW g, NEW s, NEW k, NEW x, NEW y, Fits(g, s, k, x, y)
  PROVE  /\ InStep /\ OneBusOwner /\ ExclusiveModes /\ NoneAstray
         /\ Launching => s = "START" \/ "START" \in {x, y}
<1>1. /\ k \in Kinds /\ Machines(g, s, k, x, y) /\ Paired(k)
      /\ s \in {"START", "RUN"} => x \in Apart /\ y = "IDLE"
      /\ "SYNC" \in {x, y} => \A h, j \in Team(k) : pc[h] = pc[j]
  BY DEF Fits
<1>2. master \in Hart /\ mask \in SUBSET Hart
  BY DEF TypeOK, CtrlTypeOK
<1>3. single = s /\ gen = g
  BY <1>1 DEF Machines
<1>4. \A Z : "IDLE" \notin Z =>
        /\ TmrIn(Z) = IF k # "TMR_MODE" THEN {}
                      ELSE {h \in Hart : IF h = master THEN x \in Z ELSE y \in Z}
        /\ DmrIn(Z) = IF k # "DMR_MODE" THEN {}
                      ELSE {h \in Hart : h \in mask /\ IF h = master THEN x \in Z ELSE y \in Z}
  BY <1>1 DEF Kinds, Machines, TmrIn, DmrIn
<1>5. Checked \subseteq Team(k) /\ (Checked # {} => "SYNC" \in {x, y})
  BY <1>1, <1>4 DEF Checked, Team, Kinds
<1>6. InStep
  BY <1>1, <1>5 DEF InStep
<1>7. TmrVoting = {} \/ DualMode = {}
  BY <1>1, <1>4 DEF TmrVoting, DualMode, Kinds
<1>8. x \in Apart /\ y = "IDLE" => TmrVoting \cup DualMode = {}
  BY <1>4 DEF TmrVoting, DualMode, Apart
<1>9. ExclusiveModes
  BY <1>1, <1>3, <1>7, <1>8 DEF ExclusiveModes
<1>10. NoneAstray
  BY DEF Fits, NoneAstray
<1>11. Launching => s = "START" \/ "START" \in {x, y}
  BY <1>3, <1>4 DEF Launching
<1>12. OneBusOwner
  <2>1. CASE g = "BOOT"
    BY <1>3, <2>1 DEF OneBusOwner, SingleBus
  <2>2. CASE x = y /\ x \in OneBus(k)
    <3>1. master \in TmrVoting \cup DualMode
      BY <1>1, <1>2, <1>4, <2>2 DEF OneBus, TmrVoting, DualMode, Kinds, Paired, Pair
    <3>2. QED
      BY <3>1 DEF OneBusOwner, SingleBus
  <2>3. CASE \E q \in Hart : \A h \in Hart : h # q => pc[h] \in Sleeping
    <3>1. PICK q \in Hart : \A h \in Hart : h # q => pc[h] \in Sleeping
      BY <2>3
    <3>2. Busy = {} \/ Busy = {q}
      BY <3>1 DEF Busy
    <3>3. Cardinality(Busy) = 0 \/ Cardinality(Busy) = 1
      <4>1. Cardinality({}) = 0 /\ Cardinality({q}) = 1
        BY FewerThanTwo
      <4>2. QED
        BY <3>2, <4>1, Zenon
    <3>4. QED
      BY <3>3 DEF OneBusOwner
  <2>4. QED
    BY <2>1, <2>2, <2>3 DEF Fits
<1>13. QED
  BY <1>6, <1>9, <1>10, <1>11, <1>12

(* How a core is protected while it executes the application.              *)
Protected(h) ==
  \/ cfg = SINGLE /\ AllIdle("SINGLE_MODE", "RUN") /\ h = master /\ h \notin bad /\ ~delayFf
  \/ cfg = TCLS /\ ~delayFf
       /\ \E x \in {"BOOT", "SYNC", "SYNCINTC", "SWSYNC"} : AllIn("TMR_MODE", x)
  \/ cfg \in Dual /\ mask \in Pair(master) /\ h \in mask /\ DelayFor
       /\ \E x \in {"BOOT", "SYNC", "STOP", "INTC_RECOVERY", "RECOVERY"} :
            AllIn("DMR_MODE", x) /\ (x = "STOP" => (delayFf <=> cfg = LOCKSTEP))
Guarded == \A h \in Hart : pc[h] \in Program => Protected(h)

LEMMA ConfigOf ==
  ASSUME TypeOK
  PROVE  /\ ModeOf(cfg) = "SINGLE_MODE" => cfg = SINGLE
         /\ ModeOf(cfg) = "TMR_MODE" => cfg = TCLS
         /\ ModeOf(cfg) = "DMR_MODE" => cfg \in Dual
         /\ cfg \in Dual => cfg # SINGLE /\ cfg # TCLS
         /\ master \in Hart /\ mask \in SUBSET Hart
BY DEF TypeOK, CtrlTypeOK, Config, ModeOf, Dual

(* Cores at rest fit any machines that have all left the modes. *)
LEMMA RestFits ==
  ASSUME TypeOK, NEW g, NEW s, AllIdle(g, s),
         (g = "BOOT" /\ \A h \in Hart : pc[h] \in {"rom", "rom_slp"}) \/ AtRest(Hart)
  PROVE  Fits(g, s, "TMR_MODE", "IDLE", "IDLE") /\ Guarded
<1>1. Machines(g, s, "TMR_MODE", "IDLE", "IDLE")
  BY DEF AllIdle
<1>2. \A h \in Hart : pc[h] \notin Dead \cup Program
  BY DEF AtRest, Rest, Dead, Program
<1>3. g = "BOOT" \/ \A h \in Hart : pc[h] \in Sleeping
  BY DEF AtRest, Rest, Sleeping
<1>4. QED
  BY <1>1, <1>2, <1>3, ConfigOf DEF Fits, Guarded, Kinds, Paired, Apart

(* The master alone, the others at rest. *)
LEMMA AloneFits ==
  ASSUME TypeOK, NEW g, NEW s, NEW k \in Kinds, NEW x \in {"IDLE", "END_SYNC", "SH_HALT"},
         Machines(g, s, k, x, "IDLE"), Paired(k), OthersRest, pc[master] \notin Dead,
         s \in {"START", "RUN"} => x # "SH_HALT"
  PROVE  Fits(g, s, k, x, "IDLE")
<1>1. \A h \in Hart : h # master => pc[h] \in Sleeping /\ pc[h] \notin Dead
  BY DEF OthersRest, AtRest, Rest, Sleeping, Dead
<1>2. QED
  BY <1>1, ConfigOf DEF Fits, Apart

LEMMA SingleFits ==
  ASSUME TypeOK, SingleStarting \/ SingleRunning \/ SingleLeaving
  PROVE  /\ Fits("SINGLE_MODE", single, "TMR_MODE", "IDLE", "IDLE") /\ Guarded
         /\ ~SingleStarting => single = "RUN"
<1>1. /\ AllIdle("SINGLE_MODE", single) /\ OthersRest /\ ~delayFf
      /\ ~SingleStarting => single = "RUN"
  BY DEF SingleStarting, SingleRunning, SingleLeaving, AllIdle, Machines, Alone
<1>2. /\ pc[master] \notin Dead
      /\ pc[master] \in Program => cfg = SINGLE /\ master \notin bad /\ ~SingleStarting
  <2>1. CASE SingleStarting \/ SingleLeaving
    BY <2>1 DEF SingleStarting, SingleLeaving, AllAt, Rest, Dead, Program
  <2>2. CASE SingleRunning
    <3>1. PICK v \in Code \cup {"dbg", "act_cfg"} : SingleAt(v)
      BY <2>2 DEF SingleRunning
    <3>2. pc[master] \in {v, "hdl_clr", "hdl_ret"} /\ cfg = SINGLE
          /\ (v # "dbg" => master \notin bad)
      BY <3>1, ConfigOf DEF SingleAt, Executes, AllAt, Handles, Left, Code
    <3>3. ~SingleStarting
      BY <2>2 DEF SingleStarting, SingleRunning, AllIdle, Machines
    <3>4. QED
      BY <3>2, <3>3 DEF Code, Dead, Program
  <2>3. QED
    BY <2>1, <2>2
<1>3. Fits("SINGLE_MODE", single, "TMR_MODE", "IDLE", "IDLE")
  <2>1. PICK s : s = single
    OBVIOUS
  <2>2. Fits("SINGLE_MODE", s, "TMR_MODE", "IDLE", "IDLE")
    BY <1>1, <1>2, <2>1, AloneFits DEF AllIdle, Kinds, Paired
  <2>3. QED
    BY <2>1, <2>2
<1>4. \A h \in Hart : pc[h] \in Program => h = master
  BY <1>1 DEF OthersRest, AtRest, Rest, Program
<1>5. Guarded
  BY <1>1, <1>2, <1>4 DEF Guarded, Protected
<1>6. QED
  BY <1>1, <1>3, <1>5

(* A team on one bus, the others at rest. *)
LEMMA TeamFits ==
  ASSUME TypeOK, NEW k \in Kinds, NEW x \in OneBus(k), AllIn(k, x), Paired(k),
         AtRest(Hart \ Team(k)), \A h \in Team(k) : pc[h] \notin Dead,
         x = "SYNC" => \A h, j \in Team(k) : pc[h] = pc[j]
  PROVE  /\ Fits(k, "IDLE", k, x, x)
         /\ \A h \in Hart : pc[h] \in Program => h \in Team(k)
<1>1. Machines(k, "IDLE", k, x, x)
  BY DEF AllIn
<1>2. \A h \in Hart : h \notin Team(k) => pc[h] \notin Dead \cup Program
  BY DEF AtRest, Rest, Dead, Program
<1>3. QED
  BY <1>1, <1>2 DEF Fits

(* The safety of SapSystem that a stage gives by itself. *)
Safe == InStep /\ OneBusOwner /\ ExclusiveModes /\ NoneAstray /\ Guarded

LEMMA FitsSafe ==
  ASSUME TypeOK, NEW g, NEW s, NEW k, NEW x, NEW y, Fits(g, s, k, x, y), Guarded
  PROVE  /\ Safe
         /\ s # "START" /\ x # "START" /\ y # "START" => ~Launching
<1>1. /\ InStep /\ OneBusOwner /\ ExclusiveModes /\ NoneAstray
      /\ Launching => s = "START" \/ "START" \in {x, y}
  BY FitsMeans
<1>2. QED
  BY <1>1 DEF Safe

LEMMA StartingSafe ==
  ASSUME TypeOK, NEW k \in Kinds, Starting(k)
  PROVE  Safe
<1>1. AllIn(k, "START") /\ Paired(k) /\ AtRest(Hart \ Team(k))
      /\ "START" \in OneBus(k)
  BY DEF Starting, Working, OneBus
<1>2. \A h \in Team(k) : pc[h] \notin Dead \cup Program
  BY DEF Starting, AtRest, AllAt, Rest, Dead, Program
<1>3. PICK x : x = "START"
  OBVIOUS
<1>4. /\ Fits(k, "IDLE", k, x, x)
      /\ \A h \in Hart : pc[h] \in Program => h \in Team(k)
  BY <1>1, <1>2, <1>3, TeamFits
<1>5. Guarded
  BY <1>2, <1>4 DEF Guarded
<1>6. QED
  BY <1>4, <1>5, FitsSafe

LEMMA EnteringSafe ==
  ASSUME TypeOK, NEW k \in Kinds, Entering(k)
  PROVE  Safe /\ ~Launching
<1>1. AllIn(k, "BOOT") /\ Paired(k) /\ AtRest(Hart \ Team(k))
      /\ "BOOT" \in OneBus(k) /\ DelayFor
  BY DEF Entering, Working, OneBus
<1>2. \A h \in Team(k) : pc[h] \notin Dead
  BY DEF Entering, AllAt, Dead
<1>3. PICK x : x = "BOOT"
  OBVIOUS
<1>4. /\ Fits(k, "IDLE", k, x, x)
      /\ \A h \in Hart : pc[h] \in Program => h \in Team(k)
  BY <1>1, <1>2, <1>3, TeamFits
<1>5. /\ k = "TMR_MODE" => cfg = TCLS /\ ~delayFf
      /\ k = "DMR_MODE" => cfg \in Dual /\ mask \in Pair(master)
  BY <1>1, ConfigOf DEF Entering, DelayFor
<1>6. Guarded
  BY <1>1, <1>4, <1>5 DEF Guarded, Protected, Kinds, Team
<1>7. QED
  BY <1>3, <1>4, <1>6, FitsSafe

LEMMA MeetingSafe ==
  ASSUME TypeOK, NEW k \in Kinds, Saving(k) \/ Asking(k) \/ Calling(k)
  PROVE  Safe /\ ~Launching
<1>1. /\ Paired(k) /\ OthersRest
      /\ pc[master] \in {"act_save", "act_sync", "act_pc", "act_wfi", "act_slp"}
  BY DEF Saving, Asking, Calling, Waits, AllAt, Meeting, Working
<1>2. \E x \in {"IDLE", "SH_HALT"}, y \in {"IDLE", "SH_HALT"} : Machines(k, Switch(k), k, x, y)
  BY DEF Saving, Asking, Calling
<1>3. PICK x \in {"IDLE", "SH_HALT"}, y \in {"IDLE", "SH_HALT"} :
        Machines(k, Switch(k), k, x, y)
  BY <1>2
<1>4. \A h \in Hart : h # master => pc[h] \in Rest
  BY <1>1 DEF OthersRest, AtRest
<1>5. \A h \in Hart : pc[h] \notin Dead \cup Program /\ (h # master => pc[h] \in Sleeping)
  BY <1>1, <1>4 DEF Rest, Dead, Program, Sleeping
<1>6. Fits(k, Switch(k), k, x, y)
  BY <1>1, <1>3, <1>5, ConfigOf DEF Fits, Switch, Apart
<1>7. Guarded
  BY <1>5 DEF Guarded
<1>8. Switch(k) # "START" /\ x # "START" /\ y # "START"
  BY DEF Switch
<1>9. QED
  BY <1>6, <1>7, <1>8, FitsSafe

LEMMA JoiningSafe ==
  ASSUME TypeOK, NEW k \in Kinds, Halting(k) \/ Restoring(k)
  PROVE  Safe /\ ~Launching
<1>1. /\ Paired(k) /\ AtRest(Hart \ Team(k)) /\ pc[master] = "act_slp" /\ master \in Hart
  BY ConfigOf DEF Halting, Restoring, Waits, AllAt, Meeting, Working
<1>2. \E x \in {"SH_HALT", "WAIT_SH"} : Machines(k, "IDLE", k, x, x)
  BY DEF Halting, Restoring, AllIn
<1>3. PICK x \in {"SH_HALT", "WAIT_SH"} : Machines(k, "IDLE", k, x, x)
  BY <1>2
<1>4. \A h \in Peers(k) : pc[h] \notin Dead \cup Program
  BY DEF Halting, Restoring, AtRest, AllAt, Rest, Dead, Program
<1>5. \A h \in Hart : h \notin Team(k) => pc[h] \in Rest
  BY <1>1 DEF AtRest
<1>6. \A h \in Hart : pc[h] \notin Dead \cup Program /\ (h \notin Peers(k) => pc[h] \in Sleeping)
  BY <1>1, <1>4, <1>5 DEF Peers, Rest, Dead, Program, Sleeping
<1>7. x \in OneBus(k) \/ \E q \in Hart : \A h \in Hart : h # q => pc[h] \in Sleeping
  <2>1. CASE k = "TMR_MODE"
    BY <2>1 DEF OneBus
  <2>2. CASE k = "DMR_MODE"
    <3>1. PICK q \in Hart : q # master /\ mask = {master, q}
      BY <1>1, <2>2, PairOfTwo DEF Paired
    <3>2. Peers(k) = {q}
      BY <2>2, <3>1 DEF Peers, Team
    <3>3. QED
      BY <1>6, <3>2
  <2>3. QED
    BY <2>1, <2>2 DEF Kinds
<1>8. Fits(k, "IDLE", k, x, x)
  BY <1>1, <1>3, <1>6, <1>7 DEF Fits
<1>9. Guarded
  BY <1>6 DEF Guarded
<1>10. QED
  BY <1>8, <1>9, FitsSafe

LEMMA SyncingSafe ==
  ASSUME TypeOK, NEW k \in Kinds, Syncing(k)
  PROVE  Safe /\ ~Launching
<1>1. AllIn(k, "MS_INTRSYNC") /\ Paired(k) /\ AtRest(Hart \ Team(k))
      /\ "MS_INTRSYNC" \in OneBus(k)
  BY DEF Syncing, Working, OneBus
<1>2. \A h \in Team(k) : pc[h] \notin Dead \cup Program
  BY DEF Syncing, AllAt, Handles, Dead, Program
<1>3. PICK x : x = "MS_INTRSYNC"
  OBVIOUS
<1>4. /\ Fits(k, "IDLE", k, x, x)
      /\ \A h \in Hart : pc[h] \in Program => h \in Team(k)
  BY <1>1, <1>2, <1>3, TeamFits
<1>5. Guarded
  BY <1>2, <1>4 DEF Guarded
<1>6. QED
  BY <1>3, <1>4, <1>5, FitsSafe

LEMMA PartingSafe ==
  ASSUME TypeOK, NEW k \in Kinds, Parted(k) \/ Waking(k) \/ Returning(k)
  PROVE  Safe /\ ~Launching
<1>1. /\ Paired(k) /\ OthersRest /\ master \in Hart
      /\ pc[master] \in {"stop_slp", "hdl_ack", "hdl_clr"}
  <2>1. /\ Paired(k) /\ OthersRest /\ master \in Hart
    BY ConfigOf DEF Parted, Waking, Returning, Parting, Working
  <2>2. master \in Team(k)
    BY <2>1, PeersOf
  <2>3. QED
    BY <2>1, <2>2 DEF Parted, Waking, Returning, Woken, AllAt, Handles
<1>2. \E g \in {k, "SINGLE_MODE"}, s \in {"IDLE", "RUN"}, y \in Apart :
        Machines(g, s, k, "END_SYNC", y) /\ (s = "RUN" => y = "IDLE")
  BY DEF Parted, Waking, Returning, AllIn, Apart
<1>3. PICK g \in {k, "SINGLE_MODE"}, s \in {"IDLE", "RUN"}, y \in Apart :
        Machines(g, s, k, "END_SYNC", y) /\ (s = "RUN" => y = "IDLE")
  BY <1>2
<1>4. \A h \in Hart : h # master => pc[h] \in Rest
  BY <1>1 DEF OthersRest, AtRest
<1>5. \A h \in Hart : pc[h] \notin Dead \cup Program /\ (h # master => pc[h] \in Sleeping)
  BY <1>1, <1>4 DEF Rest, Dead, Program, Sleeping
<1>6. PICK x : x = "END_SYNC"
  OBVIOUS
<1>7. Fits(g, s, k, x, y)
  BY <1>1, <1>3, <1>5, <1>6 DEF Fits, Apart
<1>8. Guarded
  BY <1>5 DEF Guarded
<1>9. s # "START" /\ x # "START" /\ y # "START"
  BY <1>6 DEF Apart
<1>10. QED
  BY <1>7, <1>8, <1>9, FitsSafe

LEMMA VotingSafe ==
  ASSUME TypeOK, NEW x \in {"SYNC", "SYNCINTC", "SWSYNC"}, NEW v,
         AllIn("TMR_MODE", x), ~delayFf,
         \/ x = "SYNC" /\ v \in Code \cup Stop \cup {"act_end"} /\ VotingAt(v)
         \/ x # "SYNC" /\ v \in Struck \cup {"exit_wfi", "stop_wfi"} /\ ResyncingAt(x, v)
  PROVE  Safe /\ ~Launching
<1>1. Executes("TMR_MODE", v) /\ Team("TMR_MODE") = Hart
  BY DEF VotingAt, ResyncingAt, Team
<1>2. /\ \A h, j \in Hart : pc[h] = pc[j]
      /\ \A h \in Hart : pc[h] \in {v, "hdl_clr", "hdl_ret", "rs_ret", "rs_ack", "rs_clr"}
  BY DEF VotingAt, ResyncingAt, AllAt, Handles
<1>3. \A h \in Hart : pc[h] \notin Dead
  BY <1>2 DEF Code, Stop, Struck, Dead
<1>4. AtRest(Hart \ Team("TMR_MODE")) /\ Paired("TMR_MODE") /\ x \in OneBus("TMR_MODE")
  BY <1>1 DEF AtRest, Paired, OneBus
<1>5. Fits("TMR_MODE", "IDLE", "TMR_MODE", x, x)
  BY <1>1, <1>2, <1>3, <1>4, TeamFits DEF Kinds
<1>6. \A h \in Hart : pc[h] \in Program => cfg = TCLS
  <2> SUFFICES ASSUME NEW h \in Hart, pc[h] \in Program PROVE cfg = TCLS
    OBVIOUS
  <2>1. v \notin Left
    BY <1>2 DEF Program, Left
  <2>2. QED
    BY <1>1, <2>1, ConfigOf DEF Executes
<1>7. Guarded
  BY <1>6 DEF Guarded, Protected
<1>8. QED
  BY <1>5, <1>7, FitsSafe

LEMMA ComparingSafe ==
  ASSUME TypeOK, Comparing
  PROVE  Safe /\ ~Launching
<1>1. AllIn("DMR_MODE", "SYNC") /\ AtRest(Hart \ mask) /\ (cfg # SINGLE => DelayFor)
  BY DEF Comparing
<1>2. PICK v \in Code \cup Stop \cup {"act_end"} : ComparingAt(v)
  BY DEF Comparing
<1>3. Executes("DMR_MODE", v) /\ Team("DMR_MODE") = mask /\ mask \in Pair(master)
  BY <1>2 DEF ComparingAt, Team, Executes, Paired
<1>4. /\ \A h, j \in mask : pc[h] = pc[j]
      /\ \A h \in mask : pc[h] \in {v, "hdl_clr", "hdl_ret"}
  BY <1>2 DEF ComparingAt, AllAt, Handles
<1>5. \A h \in mask : pc[h] \notin Dead
  BY <1>4 DEF Code, Stop, Dead
<1>6. PICK x : x = "SYNC"
  OBVIOUS
<1>7. x \in OneBus("DMR_MODE") /\ Paired("DMR_MODE")
  BY <1>3, <1>6 DEF OneBus, Paired
<1>8. /\ Fits("DMR_MODE", "IDLE", "DMR_MODE", x, x)
      /\ \A h \in Hart : pc[h] \in Program => h \in mask
  BY <1>1, <1>3, <1>4, <1>5, <1>6, <1>7, TeamFits DEF Kinds
<1>9. \A h \in Hart : pc[h] \in Program => cfg \in Dual
  <2> SUFFICES ASSUME NEW h \in Hart, pc[h] \in Program PROVE cfg \in Dual
    OBVIOUS
  <2>1. v \notin Left
    BY <1>4, <1>8 DEF Program, Left
  <2>2. QED
    BY <1>3, <2>1, ConfigOf DEF Executes
<1>10. Guarded
  BY <1>1, <1>3, <1>8, <1>9, ConfigOf DEF Guarded, Protected
<1>11. QED
  BY <1>6, <1>8, <1>10, FitsSafe

LEMMA IsolatingSafe ==
  ASSUME TypeOK, Isolating
  PROVE  Safe /\ ~Launching
<1>1. /\ AllIn("DMR_MODE", "STOP") /\ AtRest(Hart \ mask) /\ mask \in Pair(master)
      /\ cfg \in Dual /\ (delayFf <=> cfg = LOCKSTEP) /\ Team("DMR_MODE") = mask
  BY DEF Isolating, Team
<1>2. \A h \in mask : pc[h] \notin Dead
  BY DEF Isolating, Struck, Dead
<1>3. PICK x : x = "STOP"
  OBVIOUS
<1>4. x \in OneBus("DMR_MODE") /\ Paired("DMR_MODE")
  BY <1>1, <1>3 DEF OneBus, Paired
<1>5. /\ Fits("DMR_MODE", "IDLE", "DMR_MODE", x, x)
      /\ \A h \in Hart : pc[h] \in Program => h \in mask
  BY <1>1, <1>2, <1>3, <1>4, TeamFits DEF Kinds
<1>6. Guarded
  BY <1>1, <1>5 DEF Guarded, Protected, DelayFor
<1>7. QED
  BY <1>3, <1>5, <1>6, FitsSafe

LEMMA RecoveringSafe ==
  ASSUME TypeOK, NEW x \in {"INTC_RECOVERY", "RECOVERY"}, Recovering(x)
  PROVE  Safe /\ ~Launching
<1>1. /\ AllIn("DMR_MODE", x) /\ AtRest(Hart \ mask) /\ Paired("DMR_MODE")
      /\ cfg \in Dual /\ DelayFor /\ Team("DMR_MODE") = mask
  BY DEF Recovering, Working, Team
<1>2. \A h \in mask : pc[h] \notin Dead
  BY DEF Recovering, AllAt, Dead
<1>3. x \in OneBus("DMR_MODE")
  BY DEF OneBus
<1>4. /\ Fits("DMR_MODE", "IDLE", "DMR_MODE", x, x)
      /\ \A h \in Hart : pc[h] \in Program => h \in mask
  BY <1>1, <1>2, <1>3, TeamFits DEF Kinds
<1>5. Guarded
  BY <1>1, <1>4 DEF Guarded, Protected, Paired
<1>6. QED
  BY <1>4, <1>5, FitsSafe

LEMMA UnderwaySafe ==
  ASSUME TypeOK, Underway
  PROVE  Safe /\ ~Launching
<1>1. CASE SingleRunning \/ SingleLeaving
  <2>1. /\ Fits("SINGLE_MODE", single, "TMR_MODE", "IDLE", "IDLE") /\ Guarded
        /\ ~SingleStarting => single = "RUN"
    BY <1>1, SingleFits
  <2>2. single = "RUN"
    BY <1>1 DEF SingleRunning, SingleLeaving, AllIdle, Machines
  <2>3. PICK s, x : s = "RUN" /\ x = "IDLE"
    OBVIOUS
  <2>4. Fits("SINGLE_MODE", s, "TMR_MODE", x, x)
    BY <2>1, <2>2, <2>3
  <2>5. QED
    BY <2>1, <2>3, <2>4, FitsSafe
<1>2. CASE Voting
  <2>1. AllIn("TMR_MODE", "SYNC") /\ ~delayFf
    BY <1>2 DEF Voting
  <2>2. PICK v \in Code \cup Stop \cup {"act_end"} : VotingAt(v)
    BY <1>2 DEF Voting
  <2>3. PICK x \in {"SYNC", "SYNCINTC", "SWSYNC"} : x = "SYNC"
    OBVIOUS
  <2>4. QED
    BY <2>1, <2>2, <2>3, VotingSafe
<1>3. CASE Comparing
  BY <1>3, ComparingSafe
<1>4. CASE Isolating
  BY <1>4, IsolatingSafe
<1>5. ASSUME NEW k \in Kinds, Teamed(k) PROVE Safe /\ ~Launching
  <2>1. CASE Entering(k)
    BY <2>1, EnteringSafe
  <2>2. CASE Saving(k) \/ Asking(k) \/ Calling(k)
    BY <2>2, MeetingSafe
  <2>3. CASE Halting(k) \/ Restoring(k)
    BY <2>3, JoiningSafe
  <2>4. CASE Syncing(k)
    BY <2>4, SyncingSafe
  <2>5. CASE Parted(k) \/ Waking(k) \/ Returning(k)
    BY <2>5, PartingSafe
  <2>6. QED
    BY <1>5, <2>1, <2>2, <2>3, <2>4, <2>5 DEF Teamed
<1>6. ASSUME NEW x \in {"SYNCINTC", "SWSYNC"}, Resyncing(x) PROVE Safe /\ ~Launching
  <2>1. AllIn("TMR_MODE", x) /\ ~delayFf
    BY <1>6 DEF Resyncing
  <2>2. PICK v \in Struck \cup {"exit_wfi", "stop_wfi"} : ResyncingAt(x, v)
    BY <1>6 DEF Resyncing
  <2>3. QED
    BY <2>1, <2>2, VotingSafe
<1>7. ASSUME NEW x \in {"INTC_RECOVERY", "RECOVERY"}, Recovering(x) PROVE Safe /\ ~Launching
  BY <1>7, RecoveringSafe
<1>8. QED
  BY <1>1, <1>2, <1>3, <1>4, <1>5, <1>6, <1>7 DEF Underway

LEMMA RestSafe ==
  ASSUME TypeOK, NEW g, NEW s, AllIdle(g, s), s # "START",
         (g = "BOOT" /\ \A h \in Hart : pc[h] \in {"rom", "rom_slp"}) \/ AtRest(Hart)
  PROVE  Safe /\ ~Launching
<1>1. PICK x : x = "IDLE"
  OBVIOUS
<1>2. Fits(g, s, "TMR_MODE", x, x) /\ Guarded
  BY <1>1, RestFits
<1>3. QED
  BY <1>1, <1>2, FitsSafe

LEMMA CalmSafe ==
  ASSUME TypeOK, Calm
  PROVE  Safe /\ ~Launching
<1>1. CASE Resetting
  <2>1. /\ gen = "RESET" /\ single = "RESET"
        /\ tmr = [h \in Hart |-> "RESET"] /\ dmr = [h \in Hart |-> "RESET"]
        /\ \A h \in Hart : pc[h] = "rom"
    BY <1>1 DEF Resetting, AllAt
  <2>2. Checked = {} /\ TmrVoting = {} /\ DualMode = {} /\ ~Launching
    BY <2>1 DEF Checked, TmrVoting, DualMode, Launching, TmrIn, DmrIn
  <2>3. InStep /\ OneBusOwner /\ ExclusiveModes
    BY <2>1, <2>2 DEF InStep, OneBusOwner, ExclusiveModes
  <2>4. NoneAstray /\ Guarded
    BY <2>1 DEF NoneAstray, Guarded, Dead, Program
  <2>5. QED
    BY <2>2, <2>3, <2>4 DEF Safe
<1>2. CASE Booting
  <2>1. PICK g, s : g = "BOOT" /\ s = "IDLE"
    OBVIOUS
  <2>2. AllIdle(g, s) /\ \A h \in Hart : pc[h] \in {"rom", "rom_slp"}
    BY <1>2, <2>1 DEF Booting
  <2>3. QED
    BY <2>1, <2>2, RestSafe
<1>3. CASE Idling \/ Ready \/ Finished
  <2>1. PICK s : s = "IDLE"
    OBVIOUS
  <2>2. AtRest(Hart) /\ \E g : AllIdle(g, s)
    BY <1>3, <2>1 DEF Idling, Ready, Finished
  <2>3. QED
    BY <2>1, <2>2, RestSafe
<1>4. CASE Underway
  BY <1>4, UnderwaySafe
<1>5. QED
  BY <1>1, <1>2, <1>3, <1>4 DEF Calm

LEMMA StagedSafe ==
  ASSUME TypeOK, Staged
  PROVE  Safe
<1>1. CASE Calm
  BY <1>1, CalmSafe
<1>2. CASE SingleStarting
  <2>1. /\ Fits("SINGLE_MODE", single, "TMR_MODE", "IDLE", "IDLE") /\ Guarded
        /\ ~SingleStarting => single = "RUN"
    BY <1>2, SingleFits
  <2>2. PICK s, x : s = single /\ x = "IDLE"
    OBVIOUS
  <2>3. Fits("SINGLE_MODE", s, "TMR_MODE", x, x)
    BY <2>1, <2>2
  <2>4. QED
    BY <2>1, <2>3, FitsSafe
<1>3. ASSUME NEW k \in Kinds, Starting(k) PROVE Safe
  BY <1>3, StartingSafe
<1>4. QED
  BY <1>1, <1>2, <1>3, StagedIs DEF Launched

LEMMA GuardedMeans ==
  ASSUME TypeOK, Guarded
  PROVE  RunsAsConfigured /\ UnrepairedIsChecked /\ DelayIsLockstep
<1>1. ASSUME NEW h \in Hart, pc[h] \in Program
      PROVE  /\ cfg = TCLS => Voted = Hart
             /\ cfg \in Dual => h \in mask /\ Compared = mask
             /\ cfg = SINGLE => h = master /\ ~SingleBus
             /\ h \in bad => h \in TmrVoting \cup DualMode
             /\ Delayed(cfg) <=> cfg = LOCKSTEP
  <2>1. Protected(h)
    BY <1>1 DEF Guarded
  <2>2. /\ cfg \in Dual => cfg # SINGLE /\ cfg # TCLS
        /\ master \in Hart /\ mask \in SUBSET Hart
    BY ConfigOf
  <2>3. CASE cfg = SINGLE /\ AllIdle("SINGLE_MODE", "RUN") /\ h = master /\ h \notin bad /\ ~delayFf
    <3>1. TmrVoting = {} /\ DualMode = {} /\ gen = "SINGLE_MODE"
      BY <2>3 DEF AllIdle, Machines, TmrVoting, DualMode, TmrIn, DmrIn
    <3>2. ~SingleBus /\ ~Delayed(cfg)
      BY <2>3, <3>1, NoDelay DEF SingleBus
    <3>3. QED
      BY <2>2, <2>3, <3>2
  <2>4. CASE /\ cfg = TCLS /\ ~delayFf
             /\ \E x \in {"BOOT", "SYNC", "SYNCINTC", "SWSYNC"} : AllIn("TMR_MODE", x)
    <3>1. PICK x \in {"BOOT", "SYNC", "SYNCINTC", "SWSYNC"} : AllIn("TMR_MODE", x)
      BY <2>4
    <3>2. Voted = Hart /\ TmrVoting = Hart /\ DualMode = {}
      BY <3>1 DEF AllIn, Machines, Voted, TmrVoting, DualMode, TmrIn, DmrIn
    <3>3. ~Delayed(cfg)
      BY <2>4, <3>2, NoDelay
    <3>4. QED
      BY <2>2, <2>4, <3>2, <3>3
  <2>5. CASE /\ cfg \in Dual /\ mask \in Pair(master) /\ h \in mask /\ DelayFor
             /\ \E x \in {"BOOT", "SYNC", "STOP", "INTC_RECOVERY", "RECOVERY"} :
                  AllIn("DMR_MODE", x) /\ (x = "STOP" => (delayFf <=> cfg = LOCKSTEP))
    <3>1. PICK x \in {"BOOT", "SYNC", "STOP", "INTC_RECOVERY", "RECOVERY"} :
            AllIn("DMR_MODE", x) /\ (x = "STOP" => (delayFf <=> cfg = LOCKSTEP))
      BY <2>5
    <3>2. Compared = mask /\ DualMode = mask
      BY <2>2, <3>1 DEF AllIn, Machines, Compared, DualMode, TmrIn, DmrIn
    <3>3. WfiDmr = IF x = "STOP" THEN mask ELSE {}
      BY <2>2, <3>1 DEF AllIn, Machines, WfiDmr, DmrIn
    <3>4. Delayed(cfg) <=> cfg = LOCKSTEP
      BY <2>5, <3>1, <3>2, <3>3 DEF Delayed, DmrDelayed, DelayFor
    <3>5. QED
      BY <2>2, <2>5, <3>2, <3>4
  <2>6. QED
    BY <2>1, <2>3, <2>4, <2>5 DEF Protected
<1>2. RunsAsConfigured
  BY <1>1 DEF RunsAsConfigured
<1>3. UnrepairedIsChecked
  <2>1. bad \subseteq Hart
    BY DEF TypeOK, CoresTypeOK
  <2>2. QED
    BY <1>1, <2>1 DEF UnrepairedIsChecked
<1>4. DelayIsLockstep
  <2>1. CASE \E h \in Hart : pc[h] \in Program
    <3>1. PICK h \in Hart : pc[h] \in Program
      BY <2>1
    <3>2. Delayed(cfg) <=> cfg = LOCKSTEP
      BY <1>1, <3>1
    <3>3. QED
      BY <3>2 DEF DelayIsLockstep
  <2>2. CASE ~\E h \in Hart : pc[h] \in Program
    BY <2>2 DEF DelayIsLockstep
  <2>3. QED
    BY <2>1, <2>2
<1>5. QED
  BY <1>2, <1>3, <1>4

(* The interrupt is up in the one stage that ends a job. *)
LEMMA InterruptIsFinished ==
  ASSUME Staged, interrupt
  PROVE  Finished
<1>1. \A v : ~LifeAt(v)
  BY DEF LifeAt, Running, Falling, Ended, Counted, Quiet, Intr
<1>2. ~Running /\ (\A e : ~Fresh(e) /\ ~Raised(e) /\ ~Falling(e))
  BY DEF Fresh, Raised, Falling, Running, Quiet, Intr
<1>3. ~Resetting /\ ~Booting /\ ~Idling /\ ~Ready
  BY <1>2 DEF Resetting, Booting, Idling, Ready
<1>4. ~SingleStarting /\ ~SingleLeaving /\ ~Isolating
  BY <1>2 DEF SingleStarting, SingleLeaving, Isolating
<1>5. ~SingleRunning
  BY <1>1 DEF SingleRunning, SingleAt, Executes
<1>6. ~Voting /\ ~Comparing
  BY <1>1 DEF Voting, VotingAt, Comparing, ComparingAt, Executes
<1>7. \A x : ~Resyncing(x) /\ ~Recovering(x)
  BY <1>1, <1>2 DEF Resyncing, ResyncingAt, Executes, Recovering
<1>8. \A k : ~Stage(k)
  BY <1>2 DEF Stage, Starting, Entering, Saving, Asking, Calling, Halting, Restoring, Syncing,
              Parted, Waking, Returning, Meeting, Parting
<1>9. QED
  BY <1>3, <1>4, <1>5, <1>6, <1>7, <1>8 DEF Staged

LEMMA LaunchedLaunches ==
  ASSUME TypeOK, Launched
  PROVE  Launching
<1>1. CASE SingleStarting
  BY <1>1 DEF SingleStarting, AllIdle, Machines, Launching
<1>2. ASSUME NEW k \in Kinds, Starting(k) PROVE Launching
  <2>1. AllIn(k, "START") /\ master \in Hart /\ master \in Team(k)
    BY <1>2, ConfigOf DEF Starting, Working, Team, Pair
  <2>2. master \in TmrIn({"START"}) \cup DmrIn({"START"})
    BY <2>1 DEF AllIn, Machines, Team, TmrIn, DmrIn
  <2>3. QED
    BY <2>2 DEF Launching
<1>3. QED
  BY <1>1, <1>2 DEF Launched

\* a host that has not started the next job leaves the cores at rest
LEMMA IdlingOrReset ==
  ASSUME Staged, host # "running"
  PROVE  Resetting \/ Booting \/ Idling
<1>1. ~Launched /\ ~Underway
  BY ProgramRuns
<1>2. ~Ready
  BY DEF Ready, Raised, Falling
<1>3. ~Signalled
  BY DEF Signalled, Life, Intr
<1>4. ~Finished
  BY <1>3 DEF Finished
<1>5. QED
  BY <1>1, <1>2, <1>4, StagedIs DEF Calm

LEMMA IdlingStays ==
  ASSUME TypeOK, TypeOK', Idling, Next
  PROVE  pc' = pc
<1>1. Free /\ Checked = {} /\ DualMode = {}
  BY RestWires DEF Idling
<1>2. ~diff /\ AtRest(Hart)
  BY DEF Idling
<1>3. PICK hw \in HostWrites : RestCycle(hw)
  BY <1>1, <1>2, NextRests DEF AtRest
<1>4. \A h \in Hart : pc'[h] = pc[h]
  BY <1>2, <1>3 DEF RestCycle, AtRest, Rest
<1>5. pc = [h \in Hart |-> pc[h]] /\ pc' = [h \in Hart |-> pc'[h]]
  BY DEF TypeOK, CoresTypeOK
<1>6. QED
  BY <1>4, <1>5

-----------------------------------------------------------------------------
(* Safety, under the templates.                                            *)

(* The program runs under the protection its configuration names: voted by *)
(* the three cores, compared by the masked pair, or alone on the master,   *)
(* through every switch of modes, fault, resynchronization and rollback.   *)
THEOREM AlwaysAsConfigured ==
  ASSUME Templates
  PROVE  Spec => []RunsAsConfigured
<1>1. TypeOK /\ Staged => RunsAsConfigured
  BY StagedSafe, GuardedMeans DEF Safe
<1>2. QED
  BY <1>1, AlwaysStaged, TypeCorrect, PTL

(* Cores whose requests are voted or compared are at the same instruction. *)
THEOREM AlwaysInStep ==
  ASSUME Templates
  PROVE  Spec => []InStep
<1>1. TypeOK /\ Staged => InStep
  BY StagedSafe DEF Safe
<1>2. QED
  BY <1>1, AlwaysStaged, TypeCorrect, PTL

(* Where each core has a bus of its own, at most one of them is awake.     *)
THEOREM AlwaysOneBusOwner ==
  ASSUME Templates
  PROVE  Spec => []OneBusOwner
<1>1. TypeOK /\ Staged => OneBusOwner
  BY StagedSafe DEF Safe
<1>2. QED
  BY <1>1, AlwaysStaged, TypeCorrect, PTL

(* The sub-machines of the three modes are never active together.          *)
THEOREM AlwaysExclusiveModes ==
  ASSUME Templates
  PROVE  Spec => []ExclusiveModes
<1>1. TypeOK /\ Staged => ExclusiveModes
  BY StagedSafe DEF Safe
<1>2. QED
  BY <1>1, AlwaysStaged, TypeCorrect, PTL

(* A core that was seen to differ runs the program only voted or compared, *)
(* whatever modes the program switches to before it is repaired.           *)
THEOREM AlwaysUnrepairedIsChecked ==
  ASSUME Templates
  PROVE  Spec => []UnrepairedIsChecked
<1>1. TypeOK /\ Staged => UnrepairedIsChecked
  BY StagedSafe, GuardedMeans DEF Safe
<1>2. QED
  BY <1>1, AlwaysStaged, TypeCorrect, PTL

(* The delay flip-flop, which only a rest in SINGLE clears, never acts on  *)
(* another mode than LOCKSTEP and never misses one.                        *)
THEOREM AlwaysDelayIsLockstep ==
  ASSUME Templates
  PROVE  Spec => []DelayIsLockstep
<1>1. TypeOK /\ Staged => DelayIsLockstep
  BY StagedSafe, GuardedMeans DEF Safe
<1>2. QED
  BY <1>1, AlwaysStaged, TypeCorrect, PTL

(* No core resumes from an unwritten safe copy, enters the external        *)
(* debugger or falls out of the wfi of _exit.                              *)
THEOREM AlwaysNoneAstray ==
  ASSUME Templates
  PROVE  Spec => []NoneAstray
<1>1. TypeOK /\ Staged => NoneAstray
  BY StagedSafe DEF Safe
<1>2. QED
  BY <1>1, AlwaysStaged, TypeCorrect, PTL

(* The interrupt finds the accelerator at rest: every machine idle, START  *)
(* fallen, every core asleep where only a new launch wakes it.             *)
THEOREM AlwaysInterruptMeansDone ==
  ASSUME Templates
  PROVE  Spec => []InterruptMeansDone
<1>1. Finished => InterruptMeansDone
  <2>1. Finished => host = "running" /\ ~start
    BY DEF Finished, Signalled, Life
  <2>2. Finished => \A h \in Hart : pc[h] \in {"rom_slp", "stop_slp", "exit_slp"}
    BY DEF Finished, AtRest, Rest
  <2>3. Finished => single = "IDLE" /\ TmrIn({"IDLE"}) = Hart /\ DmrIn({"IDLE"}) = Hart
    BY DEF Finished, AllIdle, Machines, TmrIn, DmrIn
  <2>4. QED
    BY <2>1, <2>2, <2>3 DEF InterruptMeansDone
<1>2. Staged => InterruptMeansDone
  BY <1>1, InterruptIsFinished DEF InterruptMeansDone
<1>3. QED
  BY <1>2, AlwaysStaged, PTL

-----------------------------------------------------------------------------
(* What a step may never do, under the templates.                          *)

(* The program is restarted from its entry only from rest and for a host   *)
(* that asked for it, never by a mode switch of a running program.         *)
THEOREM LaunchesFromRest ==
  ASSUME Templates
  PROVE  Spec => LaunchFromRest
<1>1. TypeOK /\ Calm => ~Launching
  BY CalmSafe
<1>2. TypeOK /\ Launched => Launching
  BY LaunchedLaunches
<1>3. Ready => host = "running" /\ \A h \in Hart : pc[h] \in {"rom_slp", "stop_slp", "exit_slp"}
  BY DEF Ready, Raised, Falling, AtRest, Rest
<1>4. Staged /\ TypeOK /\ TypeOK' /\ (TypeOK /\ Calm => ~Launching)' /\ [Next]_vars
        => [Launching' /\ ~Launching =>
              /\ host = "running"
              /\ \A h \in Hart : pc[h] \in {"rom_slp", "stop_slp", "exit_slp"}]_vars
  <2> SUFFICES ASSUME Staged, TypeOK, TypeOK', (TypeOK /\ Calm => ~Launching)', Next,
                      Launching', ~Launching
               PROVE  /\ host = "running"
                      /\ \A h \in Hart : pc[h] \in {"rom_slp", "stop_slp", "exit_slp"}
    OBVIOUS
  <2>1. Calm /\ ~Calm'
    BY <1>2, StagedIs
  <2>2. Ready
    BY <2>1, CalmNext
  <2>3. QED
    BY <1>3, <2>2
<1>5. QED
  BY <1>1, <1>4, AlwaysStaged, TypeCorrect, PTL DEF Spec, LaunchFromRest

(* From the interrupt to the next START no core moves, whatever the host   *)
(* writes meanwhile.                                                       *)
THEOREM StaysQuiet ==
  ASSUME Templates
  PROVE  Spec => QuietUntilStart
<1>1. Staged /\ TypeOK /\ TypeOK' /\ [Next]_vars
        => [(host # "running" /\ gen \notin {"RESET", "BOOT"}) => pc' = pc]_vars
  <2> SUFFICES ASSUME Staged, TypeOK, TypeOK', Next,
                      host # "running", gen \notin {"RESET", "BOOT"}
               PROVE  pc' = pc
    OBVIOUS
  <2>1. ~Resetting /\ ~Booting
    BY DEF Resetting, Booting, AllIdle, Machines
  <2>2. Idling
    BY <2>1, IdlingOrReset
  <2>3. QED
    BY <2>2, IdlingStays
<1>2. QED
  BY <1>1, AlwaysStaged, TypeCorrect, PTL DEF Spec, QuietUntilStart

-----------------------------------------------------------------------------
(* A difference within a pair, from the cycle it shows to its repair.      *)

NoTrace ==
  /\ UNCHANGED <<softVars, start, endSw, ctx>>
  /\ \A h \in Hart : pc'[h] = pc[h] \/ pc'[h] \in {"iso"} \cup Halted \/ Resumes(h)

LEMMA PairRollback ==
  ASSUME NEW x \in {"SYNC", "STOP", "INTC_RECOVERY", "RECOVERY"}, AllIn("DMR_MODE", x),
         mask \subseteq Hart
  PROVE  Rollback = mask
BY DEF Rollback, DmrIn, AllIn, Machines

(* Only a pair that is compared, isolated or recovering can hold one.      *)
LEMMA RollbackStages ==
  ASSUME TypeOK, Staged, Rollback # {}
  PROVE  Comparing \/ Isolating \/ \E x \in {"INTC_RECOVERY", "RECOVERY"} : Recovering(x)
<1>0. PICK h \in Hart : dmr[h] \in {"SYNC", "STOP", "INTC_RECOVERY", "RECOVERY"}
  BY DEF Rollback, DmrIn
<1>1. ~Resetting
  BY <1>0 DEF Resetting
<1>2. ~Booting /\ ~Idling /\ ~Ready
  BY <1>0 DEF AllIdle, AllIn, Machines, Booting, Idling, Ready
<1>3. ~Finished
  BY <1>0 DEF AllIdle, AllIn, Machines, Finished
<1>4. ~SingleStarting /\ ~SingleRunning /\ ~SingleLeaving
  BY <1>0 DEF AllIdle, AllIn, Machines, SingleStarting, SingleRunning, SingleLeaving
<1>5. ~Voting /\ \A x : ~Resyncing(x)
  BY <1>0 DEF AllIdle, AllIn, Machines, Voting, Resyncing
<1>6. ASSUME NEW k \in Kinds PROVE ~Stage(k)
  <2>1. ~Starting(k) /\ ~Entering(k) /\ ~Halting(k) /\ ~Restoring(k) /\ ~Syncing(k)
    BY <1>0 DEF AllIdle, AllIn, Machines, Starting, Entering, Halting, Restoring, Syncing
  <2>2. ~Saving(k) /\ ~Asking(k) /\ ~Calling(k)
    BY <1>0 DEF AllIdle, AllIn, Machines, Saving, Asking, Calling
  <2>3. ~Parted(k) /\ ~Waking(k) /\ ~Returning(k)
    BY <1>0 DEF AllIdle, AllIn, Machines, Parted, Waking, Returning
  <2>4. QED
    BY <2>1, <2>2, <2>3 DEF Stage
<1>7. QED
  BY <1>1, <1>2, <1>3, <1>4, <1>5, <1>6 DEF Staged

\* START stays and END_SW_ROUTINE does not come while no core writes
LEMMA LifeStill ==
  ASSUME Running, LifeKept(EndKept)
  PROVE  UNCHANGED <<start, endSw>>
BY DEF Running, Falling, Life, LifeKept, EndKept, EndEdge

LEMMA ComparingTrace ==
  ASSUME Templates, TypeOK, Comparing,
         NEW S, NEW call, NEW victims, NEW w, Works(S, call, victims, w),
         Rollback \cap (bad \cup bad') # {}
  PROVE  NoTrace
<1>1. AllIn("DMR_MODE", "SYNC") /\ AtRest(Hart \ mask)
  BY DEF Comparing
<1>2. PICK v \in Code \cup Stop \cup {"act_end"} : ComparingAt(v)
  BY DEF Comparing
<1>3. Rollback = mask
  BY <1>1, PairRollback DEF TypeOK, CtrlTypeOK
<1>4. diff \/ victims # {}
  <2>1. bad' \subseteq bad \cup victims
    BY WorksParts, DataIs
  <2>2. ~diff => bad \cap mask = {}
    BY <1>2 DEF ComparingAt
  <2>3. QED
    BY <1>3, <2>1, <2>2
<1>5. S = {} /\ Running
  BY <1>1, <1>2, <1>4, ComparingHeld
<1>6. w = NoWrite /\ ctx' = ctx /\ \A h \in Hart : pc'[h] = pc[h]
  BY <1>5, NobodyMoves
<1>7. UNCHANGED <<cfg, mask, master, crit, initSync>> /\ LifeKept(EndKept)
  BY <1>6, NoWriteWorks
<1>8. UNCHANGED <<start, endSw>>
  BY <1>5, <1>7, LifeStill
<1>9. QED
  BY <1>6, <1>7, <1>8 DEF NoTrace, softVars

LEMMA IsolatingTrace ==
  ASSUME TypeOK, Isolating,
         NEW S, NEW call, NEW victims, NEW w, Works(S, call, victims, w)
  PROVE  NoTrace
<1>1. /\ w = NoWrite /\ ctx' = ctx
      /\ \A h \in Hart : (h \notin S => pc'[h] = pc[h]) /\ (h \in S => pc'[h] = "iso")
  BY IsolatingMoves
<1>2. UNCHANGED <<cfg, mask, master, crit, initSync>> /\ LifeKept(EndKept)
  BY <1>1, NoWriteWorks
<1>3. UNCHANGED <<start, endSw>>
  BY <1>2, LifeStill DEF Isolating
<1>4. QED
  BY <1>1, <1>2, <1>3 DEF NoTrace, softVars

LEMMA RecoveringTrace ==
  ASSUME TypeOK, NEW x \in {"INTC_RECOVERY", "RECOVERY"}, Recovering(x),
         NEW S, NEW call, NEW victims, NEW w, Works(S, call, victims, w),
         Rollback \cap (bad \cup bad') # {}
  PROVE  NoTrace
<1>1. /\ AllIn("DMR_MODE", x) /\ Paired("DMR_MODE") /\ Running /\ ctx = "main"
      /\ dbgReq = "halt"
  BY DEF Recovering, Working
<1>2. /\ InterruptHalt(master) = (IF x = "INTC_RECOVERY" THEN mask ELSE {})
      /\ WfiDmr = {} /\ Checked = {} /\ mask \subseteq Hart
  BY <1>1, RecoveringWires
<1>3. PICK l \in {"iso", "dbg", "restore", "main"} :
        /\ \A h \in mask : pc[h] = l
        /\ l = "iso" => x = "INTC_RECOVERY"
        /\ l = "main" => bad \cap mask = {}
  BY DEF Recovering, AllAt
<1>4. (S = {} \/ S = mask) /\ victims = {}
  BY <1>2, <1>3, RecoveringMoves, NoVictims
<1>5. Rollback = mask
  BY <1>1, <1>2, PairRollback
<1>6. l # "main"
  <2>1. bad' \subseteq bad
    BY <1>4, WorksParts, DataIs
  <2>2. QED
    BY <1>3, <1>5, <2>1
<1>7. \A h \in Hart : h \notin S => pc'[h] = pc[h]
  BY Stays
<1>8. CASE l = "iso"
  <2>1. \A h \in S : TakesDebug(h)
    BY <1>2, <1>3, <1>4, <1>8 DEF TakesDebug, DebugReq, Halted
  <2>2. /\ w = NoWrite /\ ctx' = ctx
        /\ \A h \in Hart : h \in S /\ TakesDebug(h) => pc'[h] = "dbg"
    BY <1>2, <2>1, CalledAway
  <2>3. UNCHANGED <<cfg, mask, master, crit, initSync>> /\ LifeKept(EndKept)
    BY <2>2, NoWriteWorks
  <2>4. UNCHANGED <<start, endSw>>
    BY <1>1, <2>3, LifeStill
  <2>5. QED
    BY <1>7, <2>1, <2>2, <2>3, <2>4 DEF NoTrace, softVars, Halted
<1>9. CASE l \in Halted
  <2>1. /\ UNCHANGED <<cfg, mask, master, crit, initSync>> /\ LifeKept(EndKept)
        /\ \A h \in Hart : h \in S => pc'[h] = IF l = "dbg" THEN DebugEntry ELSE Restored
        /\ bad' = (bad \ S) \cup victims
        /\ ctx' = IF S # {} /\ l = "dbg" /\ dbgReq = "boot" THEN "none" ELSE ctx
    BY <1>2, <1>3, <1>4, <1>9, Reloading
  <2>2. ctx' = ctx
    BY <1>1, <2>1
  <2>3. DebugEntry = "restore" /\ Restored = ctx
    BY <1>1 DEF DebugEntry, Restored
  <2>4. UNCHANGED <<start, endSw>>
    BY <1>1, <2>1, LifeStill
  <2>5. ASSUME NEW h \in Hart, h \in S PROVE pc'[h] \in Halted \/ Resumes(h)
    <3>1. CASE l = "dbg"
      BY <2>1, <2>3, <2>5, <3>1 DEF Halted
    <3>2. CASE l = "restore"
      <4>1. S = mask /\ bad' \cap mask = {}
        BY <1>4, <2>1, <2>5
      <4>2. QED
        BY <1>3, <1>5, <2>1, <2>3, <2>5, <3>2, <4>1 DEF Resumes
    <3>3. QED
      BY <1>9, <3>1, <3>2 DEF Halted
  <2>6. QED
    BY <1>7, <2>1, <2>2, <2>4, <2>5 DEF NoTrace, softVars
<1>10. QED
  BY <1>3, <1>6, <1>8, <1>9 DEF Halted

(* A pair that differs writes no register and no safe copy and executes    *)
(* nothing but its way through the debug ROM, until both cores are         *)
(* repaired and resume, both, at the checkpoint.                           *)
THEOREM LeavesNoTrace ==
  ASSUME Templates
  PROVE  Spec => DifferenceLeavesNoTrace
<1>1. Staged /\ TypeOK /\ TypeOK' /\ [Next]_vars
        => [Rollback \cap (bad \cup bad') # {} => NoTrace]_vars
  <2> SUFFICES ASSUME Staged, TypeOK, TypeOK', Next, Rollback \cap (bad \cup bad') # {}
               PROVE  NoTrace
    OBVIOUS
  <2>1. Comparing \/ Isolating \/ \E x \in {"INTC_RECOVERY", "RECOVERY"} : Recovering(x)
    BY RollbackStages
  <2>2. PICK S, call, victims, w : Works(S, call, victims, w)
    BY <2>1, ProgramRuns, NextWorks DEF Underway
  <2>3. QED
    BY <2>1, <2>2, ComparingTrace, IsolatingTrace, RecoveringTrace
<1>2. QED
  BY <1>1, AlwaysStaged, TypeCorrect, PTL DEF Spec, DifferenceLeavesNoTrace, NoTrace

=============================================================================
