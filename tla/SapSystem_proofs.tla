-------------------------- MODULE SapSystem_proofs --------------------------
(***************************************************************************)
(* Theorems of SapSystem, for every set of three harts, every set of jobs, *)
(* modes, fault labels and habits.                                         *)
(***************************************************************************)
EXTENDS SapSystem, TLAPS

-----------------------------------------------------------------------------
(* Type correctness, component by component.                               *)

(* A register write gives each field a value of its type. *)
WriteTyped(w) ==
  /\ "cfg" \in DOMAIN w => w["cfg"] \in Config
  /\ "mask" \in DOMAIN w => w["mask"] \in SUBSET Hart
  /\ "master" \in DOMAIN w => w["master"] \in Hart
  /\ \A f \in {"crit", "initSync", "start", "endSw", "intEn", "intStat"} :
       f \in DOMAIN w => w[f] \in BOOLEAN

CallTarget == {"main", "exit", "crit_in", "crit_out", "ckpt", "act_cfg", "stop_crit"}
CallType == [to : CallTarget, mode : Config, heir : Hart, mask : SUBSET Hart]

(* What the controller reads from the registers and the cores is typed. *)
LEMMA FsmInTyped ==
  ASSUME TypeOK, NEW err \in BOOLEAN
  PROVE  FsmIn(err) \in FsmInput
<1>1. Asleep \in SUBSET Hart
  BY DEF Asleep
<1>2. masterFf \in Hart
  BY DEF TypeOK, CoresTypeOK
<1>3. QED
  BY <1>1, <1>2 DEF TypeOK, CtrlTypeOK, FsmIn, FsmInput, TmrIn

(* The general, single, TMR and DMR machines stay in their states. *)
LEMMA GenTyped ==
  ASSUME FsmTypeOK, NEW in \in FsmInput
  PROVE  GenNext(in) \in GenState
BY Zenon DEF FsmTypeOK, GenNext, GenState, ModeOf

LEMMA SingleTyped ==
  ASSUME FsmTypeOK, NEW in \in FsmInput
  PROVE  SingleNext(in) \in SingleState
BY Zenon DEF FsmTypeOK, SingleNext, SingleState

LEMMA TmrTyped ==
  ASSUME FsmTypeOK, NEW in \in FsmInput, NEW h \in Hart
  PROVE  TmrNext(h, in) \in TmrState
<1>1. tmr[h] \in TmrState
  BY DEF FsmTypeOK
<1>2. QED
  BY <1>1, Zenon DEF TmrNext, TmrState

LEMMA DmrTyped ==
  ASSUME FsmTypeOK, NEW in \in FsmInput, NEW h \in Hart
  PROVE  DmrNext(h, in) \in DmrState
<1>1. dmr[h] \in DmrState
  BY DEF FsmTypeOK
<1>2. QED
  BY <1>1, Zenon DEF DmrNext, DmrState

LEMMA FsmTickTyped ==
  ASSUME FsmTypeOK, NEW in \in FsmInput, FsmTick(in)
  PROVE  FsmTypeOK'
<1>1. gen' \in GenState /\ single' \in SingleState
  BY GenTyped, SingleTyped DEF FsmTick
<1>2. tmr' \in [Hart -> TmrState]
  BY TmrTyped DEF FsmTick
<1>3. dmr' \in [Hart -> DmrState]
  BY DmrTyped DEF FsmTick
<1>4. errFf' \in BOOLEAN /\ errSeen' \in BOOLEAN
  BY DEF FsmTypeOK, FsmTick, FsmInput, ErrSeenNext, ErrForgotten, ErrToggles
<1>5. delayFf' \in BOOLEAN
  BY DEF FsmTypeOK, FsmTick, DelayNext, Delayed, DmrDelayed
<1>6. QED
  BY <1>1, <1>2, <1>3, <1>4, <1>5 DEF FsmTypeOK

(* The registers keep their types under any typed write. *)
LEMMA CtrlTickTyped ==
  ASSUME CtrlTypeOK, NEW w, WriteTyped(w), CtrlTick(w, CtrlIn)
  PROVE  CtrlTypeOK'
<1>1. cfg' \in Config /\ mask' \in SUBSET Hart /\ master' \in Hart
  BY DEF CtrlTypeOK, CtrlTick, Written, WriteTyped
<1>2. crit' \in BOOLEAN /\ initSync' \in BOOLEAN
  BY DEF CtrlTypeOK, CtrlTick, Written, WriteTyped
<1>3. /\ start' \in BOOLEAN /\ endSw' \in BOOLEAN
      /\ startFf' \in BOOLEAN /\ startFlag' \in BOOLEAN /\ endFf' \in BOOLEAN
  BY DEF CtrlTypeOK, CtrlTick, LifeTick, StartNext, EndSwNext, StartEdge,
         EndEdge, Written, WriteTyped
<1>4. /\ intEn' \in BOOLEAN /\ intStat' \in BOOLEAN
      /\ interrupt' \in BOOLEAN /\ flagIntc' \in BOOLEAN
  BY DEF CtrlTypeOK, CtrlTick, InterruptTick, IntStatNext, EndEdge,
         LoadInterrupt, Written, WriteTyped
<1>5. dbgReq' \in DebugRequest
  BY DEF CtrlTick, DebugWord, DebugRequest
<1>6. QED
  BY <1>1, <1>2, <1>3, <1>4, <1>5 DEF CtrlTypeOK

(* Straight-line code stays in the program. *)
LEMMA FollowTyped == \A l \in DOMAIN Follow : Follow[l] \in Label
BY DEF Follow, Label, Sleeping, Halted, Handler, Dead

LEMMA PcTyped ==
  ASSUME TypeOK, NEW h \in Hart, CanStep(h), NEW call \in CallType
  PROVE  PcNext(h, call) \in Label
<1>1. pc[h] \in Label /\ ret[h] \in Label /\ call.to \in Label
  BY DEF TypeOK, CoresTypeOK, CallType, CallTarget, Label, Follow
<1>2. {"dbg", "rs_ack", "hdl_ack", "iso"} \subseteq Label
  BY DEF Label, Follow, Halted, Handler, Sleeping
<1>3. DebugEntry \in Label
  <2>1. dbgReq \in DebugRequest /\ {"restore", "main", "ext"} \subseteq Label
    BY DEF TypeOK, CtrlTypeOK, Label, Halted, Dead
  <2>2. QED
    BY <2>1, Zenon DEF DebugEntry, DebugRequest
<1>4. Restored \in Label
  BY DEF Restored, TypeOK, CoresTypeOK, Context, Label, Follow, Dead
<1>5. ASSUME ~TakesDebug(h), ~TakesIrq(h),
             pc[h] \notin {"main", "dbg", "restore", "hdl_ret", "rs_ret"}
      PROVE  Follow[pc[h]] \in Label
  <2>1. pc[h] \in DOMAIN Follow
    BY <1>1, <1>5 DEF CanStep, Label, Handler, Halted, Follow
  <2>2. QED
    BY <2>1, FollowTyped
<1>6. QED
  BY <1>1, <1>2, <1>3, <1>4, <1>5, Zenon DEF PcNext

LEMMA RetTyped ==
  ASSUME TypeOK, NEW h \in Hart
  PROVE  RetNext(h) \in Label
<1>1. pc[h] \in Label /\ ret[h] \in Label /\ "rom" \in Label
  BY DEF TypeOK, CoresTypeOK, Label, Follow
<1>2. ASSUME TakesIrq(h), pc[h] \in Sleeping \ {"iso"}
      PROVE  Follow[pc[h]] \in Label
  <2>1. pc[h] \in DOMAIN Follow
    BY <1>2 DEF TakesIrq, NoIrq, Sleeping, Follow
  <2>2. QED
    BY <2>1, FollowTyped
<1>3. QED
  BY <1>1, <1>2, Zenon DEF RetNext

LEMMA CoresTickTyped ==
  ASSUME TypeOK, NEW S \in SUBSET {h \in Hart : CanStep(h)}, NEW call \in CallType,
         NEW victims \in SUBSET Hart, CoresTick(S, call, victims)
  PROVE  CoresTypeOK'
<1>1. pc' \in [Hart -> Label]
  BY PcTyped DEF CoresTick, TypeOK, CoresTypeOK
<1>2. ret' \in [Hart -> Label]
  BY RetTyped DEF CoresTick, TypeOK, CoresTypeOK
<1>3. intcAck' \in [Hart -> BOOLEAN]
  BY DEF CoresTick, TypeOK, CoresTypeOK, AckNext
<1>4. mode' \in [Hart -> Config]
  <2>1. \A h \in Hart : ModeNext(h, call) \in Config
    <3>1. call.mode \in Config /\ SINGLE \in Config
      BY DEF CallType, Config
    <3>2. \A h \in Hart : mode[h] \in Config
      BY DEF TypeOK, CoresTypeOK
    <3>3. QED
      BY <3>1, <3>2, Zenon DEF ModeNext
  <2>2. QED
    BY <2>1 DEF CoresTick, TypeOK, CoresTypeOK
<1>5. heir' \in [Hart -> Hart]
  <2>1. \A h \in Hart : HeirNext(h, call) \in Hart
    <3>1. call.heir \in Hart
      BY DEF CallType
    <3>2. \A h \in Hart : heir[h] \in Hart
      BY DEF TypeOK, CoresTypeOK
    <3>3. QED
      BY <3>1, <3>2, Zenon DEF HeirNext
  <2>2. QED
    BY <2>1 DEF CoresTick, TypeOK, CoresTypeOK
<1>6. ctx' \in Context
  <2>1. ctx \in Context
    BY DEF TypeOK, CoresTypeOK
  <2>2. CtxNext(S) \in Context
    BY <2>1, Zenon DEF CtxNext, Context
  <2>3. QED
    BY <2>2 DEF CoresTick
<1>7. bad' \in SUBSET Hart /\ diff' \in BOOLEAN
  BY DEF CoresTick, TypeOK, CoresTypeOK, DmrErrorOnBus
<1>8. masterFf' \in Hart
  BY DEF CoresTick, TypeOK, CoresTypeOK, CtrlTypeOK
<1>9. QED
  BY <1>1, <1>2, <1>3, <1>4, <1>5, <1>6, <1>7, <1>8 DEF CoresTypeOK


(* The application calls with arguments of their types, and only cores that *)
(* can step move.                                                           *)
LEMMA CallsTyped ==
  ASSUME TypeOK, NEW S
  PROVE  CallsOf(S) \subseteq CallType
<1>1. master \in Hart /\ mask \in SUBSET Hart /\ SINGLE \in Config
  BY DEF TypeOK, CtrlTypeOK, Config
<1>2. \A l \in CallTarget : Plain(l) \in CallType
  BY <1>1 DEF CallType, Plain, Call
<1>3. Stay \in CallType
  BY <1>2 DEF Stay, CallTarget
<1>4. Activations \subseteq CallType
  <2>1. \A k \in Pair(master) : k \in SUBSET Hart
    BY DEF Pair
  <2>2. \A c \in Config, k \in SUBSET Hart :
          Call("act_cfg", c, master, k) \in CallType
    BY <1>1 DEF CallType, CallTarget, Call
  <2>3. QED
    BY <1>1, <2>1, <2>2, Environment DEF Activations
<1>5. Stops \subseteq CallType
  <2>1. Heirs \subseteq Hart
    BY <1>1 DEF Heirs
  <2>2. \A m \in Hart : Call("stop_crit", SINGLE, m, mask) \in CallType
    BY <1>1 DEF CallType, CallTarget, Call
  <2>3. QED
    BY <2>1, <2>2 DEF Stops
<1>6. QED
  BY <1>2, <1>3, <1>4, <1>5 DEF CallsOf, Calls, CallTarget

LEMMA MoversStep ==
  ASSUME NEW err, NEW S \in Movers(err)
  PROVE  S \in SUBSET {h \in Hart : CanStep(h)}
BY DEF Movers

(* Host and cores write typed values. *)
LEMMA HostWriteTyped ==
  ASSUME host \in HostState, NEW hw \in HostWrites
  PROVE  WriteTyped(hw)
<1>1. WriteTyped(NoWrite)
  BY DEF WriteTyped, NoWrite
<1>2. WriteTyped(Acknowledge) /\ WriteTyped(Reset)
  BY DEF WriteTyped, Acknowledge, Reset, Config
<1>3. \A j \in Jobs : WriteTyped(j)
  BY Environment DEF WriteTyped, Job
<1>4. WriteTyped([start |-> TRUE]) /\ WriteTyped([start |-> FALSE])
  BY DEF WriteTyped
<1>5. \/ hw = NoWrite \/ hw \in Jobs \/ hw = Acknowledge \/ hw = Reset
      \/ hw = [start |-> TRUE] \/ hw = [start |-> FALSE]
  BY Zenon DEF HostWrites, HostState
<1>6. QED
  BY <1>1, <1>2, <1>3, <1>4, <1>5


LEMMA CoreWriteTyped ==
  ASSUME TypeOK, NEW call \in CallType, NEW h \in Hart
  PROVE  WriteTyped(WriteOf(h, call))
<1>1. /\ mode[h] \in Config /\ heir[h] \in Hart /\ SINGLE \in Config
      /\ call.mask \in SUBSET Hart
  BY DEF TypeOK, CoresTypeOK, CallType, Config
<1>2. /\ WriteTyped([cfg |-> mode[h]]) /\ WriteTyped([cfg |-> SINGLE])
      /\ WriteTyped([master |-> heir[h]]) /\ WriteTyped([mask |-> call.mask])
      /\ WriteTyped([initSync |-> TRUE]) /\ WriteTyped([initSync |-> FALSE])
      /\ WriteTyped([crit |-> TRUE]) /\ WriteTyped([crit |-> FALSE])
      /\ WriteTyped([endSw |-> TRUE]) /\ WriteTyped(NoWrite)
  BY <1>1 DEF WriteTyped, NoWrite
<1>3. QED
  BY <1>2, Zenon DEF WriteOf

LEMMA HostNextTyped ==
  ASSUME host \in HostState, NEW hw
  PROVE  HostNext(hw) \in HostState
BY Zenon DEF HostNext, HostState

LEMMA TickTyped ==
  ASSUME TypeOK, NEW victims \in SUBSET Hart,
         NEW S \in SUBSET {h \in Hart : CanStep(h)}, NEW call \in CallType,
         NEW hw \in HostWrites, Tick(S, call, hw, victims)
  PROVE  TypeOK'
<1>1. PICK in \in {FsmIn(victims # {})}, cws \in {CoreWrites(S, call)} :
        /\ FsmTick(in)
        /\ \E w \in IF cws = {} THEN {hw} ELSE cws : CtrlTick(w, CtrlIn)
        /\ CoresTick(S, call, victims)
        /\ host' = HostNext(hw)
  BY DEF Tick
<1>2. FsmTypeOK'
  <2>1. in \in FsmInput
    BY <1>1, FsmInTyped
  <2>2. QED
    BY <1>1, <2>1, FsmTickTyped DEF TypeOK
<1>3. CtrlTypeOK'
  <2>1. PICK w \in IF cws = {} THEN {hw} ELSE cws : CtrlTick(w, CtrlIn)
    BY <1>1
  <2>2. WriteTyped(w)
    BY <1>1, <2>1, HostWriteTyped, CoreWriteTyped DEF CoreWrites, TypeOK
  <2>3. QED
    BY <2>1, <2>2, CtrlTickTyped DEF TypeOK
<1>4. CoresTypeOK'
  BY <1>1, CoresTickTyped
<1>5. host' \in HostState
  BY <1>1, HostNextTyped DEF TypeOK
<1>6. QED
  BY <1>2, <1>3, <1>4, <1>5 DEF TypeOK

(* Every state of the system has the types of its components, whatever the *)
(* host launches, the application calls and the faults strike.             *)
THEOREM TypeCorrect == Spec => []TypeOK
<1>1. Init => TypeOK
  <2>1. ASSUME Init PROVE FsmTypeOK
    BY <2>1, Zenon DEF Init, FsmInit, FsmTypeOK, GenState, SingleState, TmrState, DmrState
  <2>2. ASSUME Init PROVE CtrlTypeOK
    BY <2>2 DEF Init, CtrlInit, CtrlTypeOK, Config, DebugRequest
  <2>3. ASSUME Init PROVE CoresTypeOK
    BY <2>2, <2>3 DEF Init, CoresInit, CoresTypeOK, CtrlTypeOK, Label, Follow, Config, Context
  <2>4. QED
    BY <2>1, <2>2, <2>3 DEF Init, TypeOK, HostState
<1>2. TypeOK /\ [Next]_vars => TypeOK'
  <2>1. ASSUME TypeOK, Next PROVE TypeOK'
    <3>1. PICK victims \in {{}} \cup {{h} : h \in Strikable} :
            \E S \in Movers(victims # {}) :
              \E call \in CallsOf(S), hw \in HostWrites : Tick(S, call, hw, victims)
      BY <2>1 DEF Next
    <3>2. PICK S \in Movers(victims # {}) :
            \E call \in CallsOf(S), hw \in HostWrites : Tick(S, call, hw, victims)
      BY <3>1
    <3>3. PICK call \in CallsOf(S), hw \in HostWrites : Tick(S, call, hw, victims)
      BY <3>2
    <3>4. victims \in SUBSET Hart
      BY DEF Strikable, Checked, TmrIn, DmrIn
    <3>5. S \in SUBSET {h \in Hart : CanStep(h)} /\ call \in CallType
      BY <2>1, <3>2, <3>3, MoversStep, CallsTyped
    <3>6. QED
      BY <2>1, <3>3, <3>4, <3>5, TickTyped
  <2>2. ASSUME TypeOK, UNCHANGED vars PROVE TypeOK'
    BY <2>2 DEF vars, fsmVars, ctrlVars, softVars, lifeVars, intVars, coreVars,
                TypeOK, FsmTypeOK, CtrlTypeOK, CoresTypeOK
  <2>3. QED
    BY <2>1, <2>2
<1>3. QED
  BY <1>1, <1>2, PTL DEF Spec

=============================================================================
