------------------------------ MODULE SafeFSM ------------------------------
(***************************************************************************)
(* The mode controller of the accelerator (rtl/safe_FSM.sv): one general   *)
(* state machine, one for single-core operation, and per hart one for      *)
(* triple (TMR) and one for dual (DMR, lockstep) operation.  All of them   *)
(* advance on the same clock edge, each reading the present state of the   *)
(* others, so a clock cycle is one action, FsmTick(in).                    *)
(*                                                                         *)
(* `in' holds the inputs of the cycle.  Bit vectors over the harts are     *)
(* sets of harts: in.wfi = Hart is Hart_wfi_i == 3'b111.  Master_Core_i is *)
(* written one-hot by every driver of the register, so it is a hart.       *)
(***************************************************************************)
EXTENDS FiniteSets, Naturals

CONSTANT Hart                   \* the three cores of the wrapper

ASSUME ThreeHarts == IsFiniteSet(Hart) /\ Cardinality(Hart) = 3

VARIABLES
  gen,        \* ctrl_safe_fsm_cs
  single,     \* ctrl_single_fsm_cs
  tmr,        \* tmr[h] is ctrl_tmr_fsm_cs[h]
  dmr,        \* dmr[h] is ctrl_dmr_fsm_cs[h]
  errFf,      \* tmr_error_ff[0]: the voter reported an error in the last cycle
  errSeen,    \* tmr_error_ff[1]: an error of this SYNC period is outstanding
  delayFf     \* delay_ff: the lockstep delay stays on until a SINGLE rest

fsmVars == <<gen, single, tmr, dmr, errFf, errSeen, delayFf>>

\* Safe_configuration (CB_Safety_Config.h: SINGLE, TCLS, DCLS, LOCKSTEP)
SINGLE   == "SINGLE"
TCLS     == "TCLS"
DCLS     == "DCLS"
LOCKSTEP == "LOCKSTEP"
Config   == {SINGLE, TCLS, DCLS, LOCKSTEP}
Dual     == {DCLS, LOCKSTEP}

GenState    == {"RESET", "BOOT", "IDLE", "SINGLE_MODE", "TMR_MODE", "DMR_MODE"}
SingleState == {"RESET", "IDLE", "START", "RUN", "TO_TMR", "TO_DMR", "SYNC_OFF"}
TmrState    == {"RESET", "IDLE", "START", "BOOT", "SH_HALT", "WAIT_SH",
                "MS_INTRSYNC", "SYNC", "END_SYNC", "SYNCINTC", "SWSYNC"}
DmrState    == {"RESET", "IDLE", "START", "BOOT", "SH_HALT", "WAIT_SH",
                "MS_INTRSYNC", "SYNC", "END_SYNC", "STOP", "INTC_RECOVERY",
                "RECOVERY"}

FsmInput == [cfg : Config, start : BOOLEAN, endSw : BOOLEAN, initSync : BOOLEAN,
             crit : BOOLEAN, master : Hart, mask : SUBSET Hart,
             wfi : SUBSET Hart, halt : SUBSET Hart, ack : SUBSET Hart,
             tmrErr : BOOLEAN, dmrErr : SUBSET Hart]

FsmTypeOK ==
  /\ gen \in GenState
  /\ single \in SingleState
  /\ tmr \in [Hart -> TmrState]
  /\ dmr \in [Hart -> DmrState]
  /\ errFf \in BOOLEAN
  /\ errSeen \in BOOLEAN
  /\ delayFf \in BOOLEAN

FsmInit ==
  /\ gen = "RESET"
  /\ single = "RESET"
  /\ tmr = [h \in Hart |-> "RESET"]
  /\ dmr = [h \in Hart |-> "RESET"]
  /\ errFf = FALSE
  /\ errSeen = FALSE
  /\ delayFf = FALSE

-----------------------------------------------------------------------------
(* Signals between the machines, and the outputs of the module; m is the   *)
(* Master_core register, c the Safe_configuration.                         *)

TmrIn(S) == {h \in Hart : tmr[h] \in S}
DmrIn(S) == {h \in Hart : dmr[h] \in S}

(* Variants with a bug, here and in the other modules: each property fails  *)
(* when one of them replaces the definition that follows it by name.        *)
EnableSwitchTmrOnly == single = "TO_TMR"
SwitchDMRtoSingleAny(m) == DmrIn({"END_SYNC"})
SwitchToSingleTmrOnly(m) == TmrIn({"END_SYNC"}) \cap {m}
InterruptSyncOnEntry(m) == TmrIn({"MS_INTRSYNC"}) \cup DmrIn({"MS_INTRSYNC"})
TmrVotingLate == TmrIn({"START", "BOOT", "SH_HALT", "WAIT_SH", "SYNC",
                        "SYNCINTC", "SWSYNC"})
StartBootNotDmr == gen = "SINGLE_MODE" \/ TmrIn({"START", "BOOT"}) # {}
TmrErrorNow(in) == ~in.crit /\ in.tmrErr
TmrErrorSecond(in) == ~errFf /\ errSeen /\ in.tmrErr
LeavesSyncAsleep(h, in) == h \in in.wfi

EnableSwitch == single \in {"TO_TMR", "TO_DMR"}

SwitchSingletoTMR == TmrIn({"SH_HALT"})
SwitchSingletoDMR == DmrIn({"SH_HALT"})

\* only the machine of the (new) master announces the way back to one core
SwitchTMRtoSingle(m) == TmrIn({"END_SYNC"}) \cap {m}
SwitchDMRtoSingle(m) == DmrIn({"END_SYNC"}) \cap {m}
SwitchToSingle(m) == SwitchTMRtoSingle(m) \cup SwitchDMRtoSingle(m)

\* halt_req_s: the master waits in SH_HALT for the others to be halted
HaltReq(m) == m \in SwitchSingletoTMR \cup SwitchSingletoDMR

\* Interrupt_Halt_o: the harts asked to enter debug mode
InterruptHalt(m) ==
  UNION {IF single = "START" THEN {m} ELSE {},
         TmrIn({"START"}) \cup (SwitchSingletoTMR \ {m}),
         DmrIn({"START"}) \cup (SwitchSingletoDMR \ {m}),
         DmrIn({"INTC_RECOVERY"})}

\* Interrupt_Sync_o (irq 17) and Interrupt_swResync_o (irq 16)
InterruptSync(m) ==
  TmrIn({"MS_INTRSYNC"}) \cup DmrIn({"MS_INTRSYNC"}) \cup SwitchToSingle(m)
InterruptSwResync == TmrIn({"SYNCINTC", "SWSYNC"})

TmrVoting == TmrIn({"START", "BOOT", "SH_HALT", "WAIT_SH", "MS_INTRSYNC",
                    "SYNC", "SYNCINTC", "SWSYNC"})
DualMode  == DmrIn({"START", "BOOT", "MS_INTRSYNC", "SYNC", "STOP",
                    "INTC_RECOVERY", "RECOVERY"})
TmrVoterEnable == TmrVoting # {} \/ gen = "BOOT"
SingleBus      == TmrVoting \cup DualMode # {} \/ gen = "BOOT"
WfiDmr         == DmrIn({"STOP"})         \* harts cut off the bus and fed wfi

DmrDelayed(c) == c = LOCKSTEP /\ DualMode \ WfiDmr # {}
Delayed(c)    == delayFf \/ DmrDelayed(c)

StartBootDual == gen = "SINGLE_MODE" \/ TmrIn({"START", "BOOT"}) # {} \/ DualMode # {}
StartBoot   == gen = "SINGLE_MODE" \/ TmrIn({"START", "BOOT"}) # {}
                                   \/ DmrIn({"START", "BOOT"}) # {}
EnExtDebug  == gen = "IDLE"

\* tmr_error_s: outside a critical section any error counts, inside one only
\* a second error, after the one already seen, does
TmrError(in) ==
  IF in.crit THEN ~errFf /\ errSeen /\ in.tmrErr
             ELSE in.tmrErr \/ errSeen

\* dmr_error_s: the comparator of the hart named by the Master_core register
DmrError(in) == in.master \in in.dmrErr

-----------------------------------------------------------------------------
(* Next states.                                                            *)

ModeOf(cfg) == CASE cfg = TCLS   -> "TMR_MODE"
                 [] cfg = SINGLE -> "SINGLE_MODE"
                 [] OTHER        -> "DMR_MODE"

GenNext(in) ==
  CASE gen = "RESET" -> "BOOT"
    [] gen = "BOOT"  -> IF in.wfi = Hart THEN "IDLE" ELSE "BOOT"
    [] gen = "IDLE"  -> IF in.start THEN ModeOf(in.cfg) ELSE "IDLE"
    [] gen = "SINGLE_MODE" ->
         IF in.start THEN ModeOf(in.cfg)
         ELSE IF single = "IDLE" THEN "IDLE" ELSE "SINGLE_MODE"
    [] gen = "TMR_MODE" ->
         IF TmrIn({"IDLE"}) = Hart /\ ~in.start THEN "IDLE"
         ELSE IF SwitchTMRtoSingle(in.master) # {} THEN "SINGLE_MODE" ELSE "TMR_MODE"
    [] gen = "DMR_MODE" ->
         IF DmrIn({"IDLE"}) = Hart /\ ~in.start THEN "IDLE"
         ELSE IF SwitchDMRtoSingle(in.master) # {} THEN "SINGLE_MODE" ELSE "DMR_MODE"

SingleNext(in) ==
  CASE single = "RESET" -> "IDLE"
    [] single = "IDLE" ->
         IF gen = "SINGLE_MODE" /\ in.start /\ ~in.endSw
         THEN IF SwitchToSingle(in.master) = {} THEN "START" ELSE "RUN"
         ELSE "IDLE"
    [] single = "START" -> IF in.halt = {in.master} THEN "RUN" ELSE "START"
    [] single = "RUN" ->
         IF in.endSw /\ in.wfi = Hart THEN "IDLE"                  \* SW STOP
         ELSE IF in.halt # {} THEN "RUN"
         ELSE IF ~in.start /\ ~in.endSw THEN "SYNC_OFF"       \* external STOP
         ELSE IF in.cfg = TCLS THEN "TO_TMR"
         ELSE IF in.cfg \in Dual THEN "TO_DMR" ELSE "RUN"
    [] single = "TO_TMR" ->
         IF SwitchSingletoTMR = Hart THEN "IDLE" ELSE "TO_TMR"
    [] single = "TO_DMR" ->
         IF Cardinality(SwitchSingletoDMR) = 2 THEN "IDLE" ELSE "TO_DMR"
    [] single = "SYNC_OFF" -> IF in.wfi = {} THEN "IDLE" ELSE "SYNC_OFF"

JoinsSwitchUnasked(h, in) == h \in in.wfi /\ in.initSync

\* Entering TMR or DMR from a running single core: the sleeping master first,
\* the other harts once it asks for them.
JoinsSwitch(h, in) ==
  IF h = in.master THEN h \in in.wfi /\ in.initSync ELSE HaltReq(in.master)

\* Leaving SYNC: the new master once interrupted, the others once asleep.
LeavesSync(h, in) == IF h = in.master THEN h \in in.ack ELSE h \in in.wfi

TmrNext(h, in) ==
  CASE tmr[h] = "RESET" -> "IDLE"
    [] tmr[h] = "IDLE" ->
         IF gen # "TMR_MODE" \/ ~in.start THEN "IDLE"
         ELSE IF ~EnableSwitch THEN "START"
         ELSE IF JoinsSwitch(h, in) THEN "SH_HALT" ELSE "IDLE"
    [] tmr[h] = "START" -> IF h \in in.halt THEN "BOOT" ELSE "START"
    [] tmr[h] = "BOOT"  -> IF h \in in.halt THEN "BOOT" ELSE "SYNC"
    [] tmr[h] = "SH_HALT" ->
         IF (IF h = in.master THEN Cardinality(in.halt) >= 2 ELSE h \in in.halt)
         THEN "WAIT_SH" ELSE "SH_HALT"
    [] tmr[h] = "WAIT_SH" -> IF in.wfi = Hart THEN "MS_INTRSYNC" ELSE "WAIT_SH"
    [] tmr[h] = "MS_INTRSYNC" -> IF in.ack = Hart THEN "SYNC" ELSE "MS_INTRSYNC"
    [] tmr[h] = "SYNC" ->
         IF in.wfi = Hart /\ in.endSw THEN "IDLE"
         ELSE IF in.wfi = Hart /\ in.cfg # TCLS THEN "END_SYNC"
         ELSE IF TmrError(in) THEN "SYNCINTC" ELSE "SYNC"
    [] tmr[h] = "END_SYNC" -> IF LeavesSync(h, in) THEN "IDLE" ELSE "END_SYNC"
    [] tmr[h] = "SYNCINTC" -> IF in.ack = Hart THEN "SWSYNC" ELSE "SYNCINTC"
    [] tmr[h] = "SWSYNC" -> IF in.ack = {} THEN "SYNC" ELSE "SWSYNC"

\* The code tests cfg # DCLS \/ cfg # LOCKSTEP, which every cfg satisfies.
DmrConfigLeft(cfg) == cfg # DCLS \/ cfg # LOCKSTEP

DmrNext(h, in) ==
  CASE dmr[h] = "RESET" -> "IDLE"
    [] dmr[h] = "IDLE" ->
         IF gen # "DMR_MODE" \/ ~in.start \/ h \notin in.mask THEN "IDLE"
         ELSE IF ~EnableSwitch THEN "START"
         ELSE IF JoinsSwitch(h, in) THEN "SH_HALT" ELSE "IDLE"
    [] dmr[h] = "START" -> IF h \in in.halt THEN "BOOT" ELSE "START"
    [] dmr[h] = "BOOT"  -> IF h \in in.halt THEN "BOOT" ELSE "SYNC"
    [] dmr[h] = "SH_HALT" ->
         LET peers == (in.mask \ {in.master}) \cup ({in.master} \ in.mask)
         IN IF (IF h = in.master THEN in.halt = peers ELSE h \in in.halt)
            THEN "WAIT_SH" ELSE "SH_HALT"
    [] dmr[h] = "WAIT_SH" -> IF in.wfi = Hart THEN "MS_INTRSYNC" ELSE "WAIT_SH"
    [] dmr[h] = "MS_INTRSYNC" -> IF h \in in.ack THEN "SYNC" ELSE "MS_INTRSYNC"
    [] dmr[h] = "SYNC" ->
         IF in.wfi = Hart /\ in.endSw THEN "IDLE"
         ELSE IF in.wfi = Hart /\ DmrConfigLeft(in.cfg) THEN "END_SYNC"
         ELSE IF DmrError(in) THEN "STOP" ELSE "SYNC"
    [] dmr[h] = "STOP" -> IF in.wfi = Hart THEN "INTC_RECOVERY" ELSE "STOP"
    [] dmr[h] = "INTC_RECOVERY" ->
         IF h \in in.halt THEN "RECOVERY" ELSE "INTC_RECOVERY"
    [] dmr[h] = "RECOVERY" -> IF h \in in.halt THEN "RECOVERY" ELSE "SYNC"
    [] dmr[h] = "END_SYNC" -> IF LeavesSync(h, in) THEN "IDLE" ELSE "END_SYNC"

\* tmr_error_ff: a rising error in SYNC toggles the outstanding mark; any
\* hart out of SYNC forgets both bits
ErrToggles(in) == TmrIn({"SYNC"}) # {} /\ in.tmrErr /\ ~errFf
ErrForgotten(in) == ~ErrToggles(in) /\ TmrIn({"SYNC"}) # Hart
ErrSeenNext(in) == IF ErrToggles(in) THEN ~errSeen
                   ELSE ~ErrForgotten(in) /\ errSeen

DelayNextSticky(in) == Delayed(in.cfg)
DelayNext(in) ==
  IF in.wfi = Hart /\ in.cfg = SINGLE THEN FALSE ELSE Delayed(in.cfg)

FsmTick(in) ==
  /\ gen' = GenNext(in)
  /\ single' = SingleNext(in)
  /\ tmr' = [h \in Hart |-> TmrNext(h, in)]
  /\ dmr' = [h \in Hart |-> DmrNext(h, in)]
  /\ errFf' = (in.tmrErr /\ ~ErrForgotten(in))
  /\ errSeen' = ErrSeenNext(in)
  /\ delayFf' = DelayNext(in)
=============================================================================
