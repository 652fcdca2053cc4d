-------------------------- MODULE SafeWrapperCtrl --------------------------
(***************************************************************************)
(* The control and status block (rtl/safe_wrapper_ctrl.sv over the         *)
(* registers of data/safe_wrapper_ctrl.hjson): the bistable that couples   *)
(* START and End_SW_Routine, and the completion interrupt.                 *)
(*                                                                         *)
(* A cycle is CtrlTick(w, in).  `w' is the register write of the cycle, a  *)
(* function from the written fields to their values (empty when nothing is *)
(* written); the register files of the generator let software win over     *)
(* hardware in the same cycle.  `in' are the hardware inputs.              *)
(***************************************************************************)
EXTENDS SafeFSM

VARIABLES
  cfg, mask, master, crit, initSync,   \* software writes, hardware reads
  start, endSw,                        \* START, END_SW_ROUTINE
  intEn, intStat,                      \* Interrupt_Controler: ENABLE, STATUS
  dbgReq,                              \* External_Debug_Req, see DebugWord
  startFf, startFlag, endFf,           \* Startff, Start_Flag, en_sw_routineff
  interrupt, flagIntc                  \* interrupt_o, flag_intc

softVars == <<cfg, mask, master, crit, initSync>>
lifeVars == <<start, endSw, startFf, startFlag, endFf>>
intVars  == <<intEn, intStat, interrupt, flagIntc>>
ctrlVars == <<softVars, lifeVars, intVars, dbgReq>>

\* External_Debug_Req as debug_entry tells its values apart: 0, 2, and others
DebugRequest == {"halt", "boot", "ext"}
DebugWord(startBoot, enExt) ==
  IF enExt THEN "ext" ELSE IF startBoot THEN "boot" ELSE "halt"

CtrlTypeOK ==
  /\ cfg \in Config
  /\ mask \in SUBSET Hart
  /\ master \in Hart
  /\ dbgReq \in DebugRequest
  /\ {crit, initSync, start, endSw, intEn, intStat} \subseteq BOOLEAN
  /\ {startFf, startFlag, endFf, interrupt, flagIntc} \subseteq BOOLEAN

\* Register reset values; Master_core resets to 3'b001, some first core.
CtrlInit(core0) ==
  /\ cfg = SINGLE /\ mask = {} /\ master = core0
  /\ crit = FALSE /\ initSync = FALSE
  /\ start = FALSE /\ endSw = FALSE
  /\ intEn = FALSE /\ intStat = FALSE
  /\ dbgReq = "halt"
  /\ startFf = FALSE /\ startFlag = FALSE /\ endFf = FALSE
  /\ interrupt = FALSE /\ flagIntc = FALSE

-----------------------------------------------------------------------------
NoWrite == [r \in {} |-> FALSE]

\* prim_subreg_arb: the written value, else what hardware puts there
Written(w, r, hw) == IF r \in DOMAIN w THEN w[r] ELSE hw

StartEdge == start /\ ~startFf      \* enable
EndEdge   == endSw /\ ~endFf        \* enable_endSW

StartNextKept(w) == Written(w, "start", start)
EndSwNextKept(w) == Written(w, "endSw", endSw)
LoadInterruptAwake(allAsleep) == intEn /\ intStat /\ endFf /\ ~flagIntc
IntStatNextUnset(w) == Written(w, "intStat", intStat)

\* START falls on the rising edge of End_SW_Routine, End_SW_Routine falls one
\* cycle after the rising edge of START.
StartNext(w) == Written(w, "start", start /\ ~EndEdge)
EndSwNext(w) == Written(w, "endSw", endSw /\ ~startFlag)

\* The program has ended, every core sleeps, and the host was not told yet.
LoadInterrupt(allAsleep) ==
  intEn /\ intStat /\ allAsleep /\ endFf /\ ~flagIntc

IntStatNext(w) == Written(w, "intStat", intStat \/ EndEdge)

InterruptTick(w, in) ==
  /\ intEn' = Written(w, "intEn", intEn)
  /\ intStat' = IntStatNext(w)
  /\ interrupt' = (intStat /\ LoadInterrupt(in.allAsleep))
  /\ flagIntc' = (intStat /\ (flagIntc \/ LoadInterrupt(in.allAsleep)))

LifeTick(w) ==
  /\ start' = StartNext(w)
  /\ endSw' = EndSwNext(w)
  /\ startFf' = start
  /\ startFlag' = StartEdge
  /\ endFf' = endSw

CtrlTick(w, in) ==
  /\ cfg' = Written(w, "cfg", cfg)
  /\ mask' = Written(w, "mask", mask)
  /\ master' = Written(w, "master", master)
  /\ crit' = Written(w, "crit", crit)
  /\ initSync' = Written(w, "initSync", initSync)
  /\ LifeTick(w)
  /\ InterruptTick(w, in)
  /\ dbgReq' = DebugWord(in.startBoot, in.enExt)
=============================================================================
