------------------------------ MODULE SapCores ------------------------------
(***************************************************************************)
(* The three cores inside the wrapper (rtl/safe_cpu_wrapper.sv): how a     *)
(* core sleeps, wakes, is halted and interrupted, and the code they run:   *)
(* the boot and debug ROM (CB_boot_rom.S), the safety library              *)
(* (CB_Safety.c) and an application that calls it.                         *)
(*                                                                         *)
(* A program label stands for the instructions up to and including the     *)
(* next one that others can see (a register store, wfi, a change of        *)
(* context); a core may stay at a label for any number of cycles.          *)
(***************************************************************************)
EXTENDS SafeWrapperCtrl

CONSTANTS
  FaultPcs,       \* labels at which a fault can make one core differ
  FaultCtxs       \* contents of the safe copy with which a pair is struck

VARIABLES
  pc,             \* pc[h]: the label core h is at
  ret,            \* ret[h]: where the handler core h is in returns to
  intcAck,        \* intcAck[h]: private register Hart_intc_ack of core h
  mode, heir,     \* arguments of Safe_Activate and Safe_Stop, per core
  ctx,            \* program counter this program left in the safe copy area
  bad,            \* cores seen to differ and not yet repaired
  diff,           \* the comparator holds back a request on which a pair differs
  masterFf        \* master_core_ff_s: the core the shared bus follows

coreVars == <<pc, ret, intcAck, mode, heir, ctx, bad, diff, masterFf>>

\* Straight-line code: the label after each label.
Follow ==
  [rom |-> "rom_slp",
   act_cfg |-> "act_save", act_save |-> "act_sync", act_sync |-> "act_pc",
   act_pc |-> "act_wfi", act_wfi |-> "act_slp", act_slp |-> "act_end",
   act_end |-> "main",
   stop_crit |-> "stop_mst", stop_mst |-> "stop_cfg", stop_cfg |-> "stop_wfi",
   stop_wfi |-> "stop_slp", stop_slp |-> "main",
   crit_in |-> "main", crit_out |-> "main", ckpt |-> "main",
   exit |-> "exit_wfi", exit_wfi |-> "exit_slp", exit_slp |-> "spin",
   hdl_ack |-> "hdl_clr", hdl_clr |-> "hdl_ret",
   rs_ack |-> "rs_clr", rs_clr |-> "rs_ret"]

Sleeping == {"rom_slp", "act_slp", "stop_slp", "exit_slp", "iso"}
Halted   == {"dbg", "restore"}
Dead     == {"spin", "ext", "lost"}     \* loops that change nothing any more
Handler  == {"hdl_ack", "hdl_clr", "hdl_ret", "rs_ack", "rs_clr", "rs_ret"}
NoIrq    == {"rom", "rom_slp"} \cup Halted \cup Handler     \* mie or MIE is 0
Label    == DOMAIN Follow \cup Sleeping \cup Halted \cup Handler \cup Dead \cup {"main"}

Context ==  {"none", "act_pc", "main"}

ASSUME Faults == FaultPcs \subseteq Label /\ FaultCtxs \subseteq Context

CoresTypeOK ==
  /\ pc \in [Hart -> Label]
  /\ ret \in [Hart -> Label]
  /\ intcAck \in [Hart -> BOOLEAN]
  /\ mode \in [Hart -> Config]
  /\ heir \in [Hart -> Hart]
  /\ ctx \in Context
  /\ bad \in SUBSET Hart
  /\ diff \in BOOLEAN
  /\ masterFf \in Hart

CoresInit ==
  /\ pc = [h \in Hart |-> "rom"]
  /\ ret = [h \in Hart |-> "rom"]
  /\ intcAck = [h \in Hart |-> FALSE]
  /\ mode = [h \in Hart |-> SINGLE]
  /\ heir = [h \in Hart |-> h]
  /\ ctx = "none"
  /\ bad = {}
  /\ diff = FALSE
  /\ masterFf = master

-----------------------------------------------------------------------------
(* Wires between the controller and the cores.                             *)

DebugReq(h) == h \in InterruptHalt(master)
Irq(h) == pc[h] # "rom_slp" /\ h \in InterruptSync(master) \cup InterruptSwResync

\* core_sleep_o falls as soon as a halt or an enabled interrupt is pending
Asleep == {h \in Hart : pc[h] \in Sleeping /\ ~DebugReq(h) /\ ~Irq(h)}

\* the cores whose requests are voted or compared, and can be found to differ
Checked == TmrIn({"SYNC"}) \cup DmrIn({"SYNC"})

\* err: a request on which the corrupted core differs is on the bus
DmrErrorOnBus(err) == diff \/ (err /\ DmrIn({"SYNC"}) # {})

FsmIn(err) ==
  [cfg |-> cfg, start |-> start, endSw |-> endSw, initSync |-> initSync,
   crit |-> crit, master |-> master, mask |-> mask,
   wfi |-> Asleep,
   halt |-> {h \in Hart : pc[h] \in Halted},
   ack |-> {h \in Hart : intcAck[h]},
   tmrErr |-> err /\ TmrIn({"SYNC"}) # {},
   dmrErr |-> IF DmrErrorOnBus(err) THEN {masterFf} ELSE {}]

CtrlIn == [allAsleep |-> Asleep = Hart, startBoot |-> StartBoot,
           enExt |-> EnExtDebug]

-----------------------------------------------------------------------------
(* What a core does in a cycle in which the bus lets it move.              *)

HeldBackNever(err) == {}

\* A request of the pair that differs is held back until the pair is isolated.
HeldBack(err) == IF DmrErrorOnBus(err) THEN DualMode \ WfiDmr ELSE {}

\* A delay left on from lockstep cuts the voted cores off the answers: only
\* the core that owns the bus gets them.
Starved == IF TmrVoterEnable /\ DualMode = {} /\ Delayed(cfg)
           THEN Hart \ {masterFf} ELSE {}

TakesDebug(h) == DebugReq(h) /\ pc[h] \notin Halted
TakesIrq(h) == ~TakesDebug(h) /\ Irq(h) /\ pc[h] \notin NoIrq
CanStep(h) == \/ TakesDebug(h) \/ TakesIrq(h)
              \/ pc[h] \notin Sleeping \cup Dead
Runs(h, l) == pc[h] = l /\ ~TakesDebug(h) /\ ~TakesIrq(h) /\ h \notin WfiDmr

\* debug_entry: restore the safe copy, or boot the program of Entry_Address
DebugEntry == CASE dbgReq = "halt" -> "restore"
                [] dbgReq = "boot" -> "main"
                [] dbgReq = "ext"  -> "ext"

\* halt_boot resumes at the program counter of the safe copy
Restored == IF ctx = "none" THEN "lost" ELSE ctx

\* call: what the application does next where it is at "main"
PcNext(h, call) ==
  IF TakesDebug(h) THEN "dbg"
  ELSE IF TakesIrq(h)
       THEN IF h \in InterruptSwResync THEN "rs_ack" ELSE "hdl_ack"
  ELSE IF h \in WfiDmr THEN "iso"
  ELSE CASE pc[h] = "main" -> call.to
         [] pc[h] = "dbg" -> DebugEntry
         [] pc[h] = "restore" -> Restored
         [] pc[h] \in {"hdl_ret", "rs_ret"} -> ret[h]
         [] OTHER -> Follow[pc[h]]

AckNext(h) == IF Runs(h, "hdl_ack") \/ Runs(h, "rs_ack") THEN TRUE
              ELSE IF \E l \in {"hdl_clr", "rs_clr", "act_end"} : Runs(h, l)
                   THEN FALSE ELSE intcAck[h]

\* halt_boot reloads the registers from the safe copy, a launch starts
\* afresh; the recovery handler reloads them from the voted stack.
Reloads(h) == Runs(h, "restore") \/ Runs(h, "dbg")
Repairs(h) == Reloads(h) \/ Runs(h, "rs_clr")

\* mepc: an interrupt that ends a wfi returns behind it
RetNext(h) ==
  CASE TakesIrq(h) -> IF pc[h] \in Sleeping \ {"iso"} THEN Follow[pc[h]] ELSE pc[h]
    [] Runs(h, "hdl_ret") \/ Runs(h, "rs_ret") \/ Reloads(h) -> "rom"
    [] OTHER -> ret[h]

\* the arguments of a call live until the call has used them
ModeNext(h, call) ==
  CASE Runs(h, "main") -> call.mode
    [] Runs(h, "act_cfg") \/ Reloads(h) -> SINGLE
    [] OTHER -> mode[h]
HeirNext(h, call) ==
  CASE Runs(h, "main") /\ call.to = "stop_crit" -> call.heir
    [] Runs(h, "stop_mst") \/ Reloads(h) -> h
    [] OTHER -> heir[h]

\* the register write core h makes at its label
WriteOf(h, call) ==
  CASE Runs(h, "act_cfg")   -> [cfg |-> mode[h]]
    [] Runs(h, "act_sync")  -> [initSync |-> TRUE]
    [] Runs(h, "act_end")   -> [initSync |-> FALSE]
    [] Runs(h, "stop_crit") -> [crit |-> FALSE]
    [] Runs(h, "stop_mst")  -> [master |-> heir[h]]
    [] Runs(h, "stop_cfg")  -> [cfg |-> SINGLE]
    [] Runs(h, "exit")      -> [endSw |-> TRUE]
    [] Runs(h, "crit_in")   -> [crit |-> TRUE]
    [] Runs(h, "crit_out")  -> [crit |-> FALSE]
    [] Runs(h, "main") /\ call.mask # mask -> [mask |-> call.mask]
    [] OTHER                -> NoWrite

CoreWrites(S, call) == {WriteOf(h, call) : h \in S} \ {NoWrite}

CtxNextOfCall(S) == CASE \E h \in S : Runs(h, "act_pc") -> "act_pc"
                      [] \E h \in S : Runs(h, "ckpt")   -> "ckpt"
                      [] OTHER                          -> ctx
CtxNext(S) ==
  CASE \E h \in S : Runs(h, "dbg") /\ dbgReq = "boot" -> "none"
    [] \E h \in S : Runs(h, "act_pc")                -> "act_pc"
    [] \E h \in S : Runs(h, "ckpt")                  -> "main"
    [] OTHER                                         -> ctx

CoresTick(S, call, victims) ==
  /\ pc' = [h \in Hart |-> IF h \in S THEN PcNext(h, call) ELSE pc[h]]
  /\ ret' = [h \in Hart |-> IF h \in S THEN RetNext(h) ELSE ret[h]]
  /\ intcAck' = [h \in Hart |-> IF h \in S THEN AckNext(h) ELSE intcAck[h]]
  /\ mode' = [h \in Hart |-> IF h \in S THEN ModeNext(h, call) ELSE mode[h]]
  /\ heir' = [h \in Hart |-> IF h \in S THEN HeirNext(h, call) ELSE heir[h]]
  /\ ctx' = CtxNext(S)
  /\ bad' = (bad \ {h \in S : Repairs(h)}) \cup victims
  /\ diff' = (DmrErrorOnBus(victims # {}) /\ WfiDmr = {})
  /\ masterFf' = IF Asleep = Hart THEN master ELSE masterFf
=============================================================================
