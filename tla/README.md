# SAP: models, checks and proofs

SAP is a memory-mapped accelerator with three RISC-V cores that can run one
program on one core (SINGLE), on three voted cores (TCLS), on two compared
cores (DCLS) or on two compared cores one of which lags (LOCKSTEP). A host
configures and starts it over a register port and is interrupted when the
program ends; the program itself switches modes while it runs, through a small
C library. This directory models the control of that system, the words
its safety library saves and restores, and the programs it runs in TLA+, checks
them with TLC and proves part of it with TLAPS.

Paths below are relative to the repository root (`src/` in `PROJECT.json`).

## 1. Inventory

| Component | Code | State | Operations |
|---|---|---|---|
| Mode controller | `rtl/safe_FSM.sv` | general machine, single machine, a TMR and a DMR machine per core, error memory, lockstep flip-flop | one clocked step each; outputs halt, interrupts, bus configuration, `Start_Boot`, isolation |
| Control and status registers | `rtl/safe_wrapper_ctrl.sv`, `data/safe_wrapper_ctrl.hjson` | the registers of the host and the program, START/END bistable, end interrupt | register writes, hardware updates |
| CPU wrapper | `rtl/safe_cpu_wrapper.sv` | `master_core_ff_s`, isolated-bus flags, interrupt and debug delays | routes requests, answers, interrupts, halts |
| Triple voter, dual comparator | `rtl/tmr_voter.sv`, `rtl/dmr_comparator.sv` | none | majority, difference, gated output |
| Lockstep delay | `rtl/lockstep_reg.sv`, `rtl/obi_sngreg.sv`, `rtl/obi_pipelined_delay.sv` | delayed request, delayed answer | accept, forward, clear |
| Private core registers | `rtl/cpu_private_reg.sv` | `Hart_intc_ack` per core | write by the core |
| Crossbars, buses | `rtl/sap_xbar_varlat_*.sv`, `rtl/xbar_system.sv`, `rtl/bus_system.sv` | the outstanding request | grant, answer |
| Boot and debug ROM | `ip/CB_boot_rom/CB_boot_rom.S` | none | sleep; boot a program; restore the safe copy |
| C runtime | `sw/CB_device/lib/crt/`, `lib/runtime/` | heap break, `errno`, newlib's streams | vectors, enabling of interrupts, system calls, exception handlers |
| Safety library | `sw/CB_device/lib/safety/CB_Safety.c` | the safe copy area | `Safe_Activate`, `Safe_Stop`, `Store_Checkpoint`, `Check_RF`, critical section, `_exit`, two interrupt handlers |
| AES library | `sw/CB_device/lib/AES/aes.c` | round keys and `Iv` of a context | key schedule, ECB, CBC and CTR on a buffer |
| Applications | `sw/applications/*/main.c` | their own | calls of the library |
| Host and its port | `rtl/sap_top.sv`, `wrapper/` | none of interest | register accesses |
| Memory, peripherals | `rtl/memory_sys.sv`, `rtl/periph_system.sv` | contents | read, write |
| Cores, vendored IP, FPGA, simulation | `vendor/`, submodules, `fpga/`, `sim/` | - | third-party code |

**How they interact.** The machines never talk to the cores directly: they see
`core_sleep`, `debug_mode` and the `Hart_intc_ack` flag of each core, and act by
halt requests, interrupt 16 (resynchronise) and 17 (mode change), and by
switching the buses. The software answers by sleeping, by leaving the debug ROM
and by setting and clearing its flag. Every hand-over (launch, switch, repair,
end) is therefore a conversation over a few level signals between machines that
step every cycle and programs that step when the bus lets them.

**What is hard.** Nine small machines read each other's outputs and the same
register that software rewrites; a mode switch happens in the middle of a running
program with START still set; a fault may be reported at any point of these
conversations; a wake-up meant for one wait may end another; the comparator, the
bus and the error look-up follow different copies of "the master"; a pair is cut
off its bus with requests under way; in lockstep two cores that must look
identical are one cycle apart; the only safe copy of a program is overwritten
word by word while the program runs; a rollback takes registers and stack back,
and not the static data. `PROJECT.json` lists these under `hazards`, at
their lines, with the properties that cover each.

**What makes each part correct.** The mode controller: a program is protected
as its configuration register says, the machines of two modes are not active at
once, a launch happens only on request, a repair brings back cores that are in
step. The registers: one interrupt for each program, raised when everything is
at rest. The library: each call returns, on the right cores, in the right mode.
The lockstep delay: no mismatch between healthy cores, no request lost, doubled
or reordered. The isolated bus: each pending request answered, none twice. The
save and restore code: a program goes on with exactly the registers and the
stack it had, on every core of its group. AES: the published vectors, and the
same answer after a rollback. The C library: buffers that do not overlap,
output that arrives.

## 2. Modules

| Module | Models | Lines to read beside it |
|---|---|---|
| `SafeFSM` | the mode controller: `gen`, `single`, `tmr[h]`, `dmr[h]`, `errSeen`, `delay`; next-state and output functions | `rtl/safe_FSM.sv` |
| `SafeWrapperCtrl` | registers, bistable and interrupt | `rtl/safe_wrapper_ctrl.sv` |
| `SapCores` | three cores: how they sleep, wake, halt, and the code of ROM, library and handlers as labels | `rtl/safe_cpu_wrapper.sv`, `CB_Safety.c`, `CB_boot_rom.S` |
| `SapSystem` | composition on one clock, application, host, faults; the properties | all of these |
| `ProtectedJob` | what the system promises to host and program about a job, its protection and its cores (abstract) | |
| `SapStages` | the stages of a job: an inductive invariant of `SapSystem` | |
| `MCSapSystem` | instances for TLC | |
| `SapSystem_proofs`, `SapStages_proofs`, `SapJob_proofs` | theorems on `SapSystem`: types; the stages and the safety that follows from them; that it implements `ProtectedJob` | |
| `Lockstep` | one bus of a compared pair, cycle by cycle: register, delayed answer, comparator, isolated bus, crossbar port | `rtl/obi_sngreg.sv`, `rtl/lockstep_reg.sv`, `rtl/dmr_comparator.sv`, `rtl/safe_cpu_wrapper.sv` 406-453 |
| `RequestQueue` | what a core may expect of its way to the bus (abstract) | |
| `MCLockstep` | instances | |
| `Lockstep_proofs` | theorems on `Lockstep`: no false mismatch and the queue; the answers; types | |
| `Checkpoint` | the context of a program, word by word, through `Safe_Activate`, `Store_Checkpoint`, `Check_RF`, `halt_boot` and the handler of irq 16, with one core struck | `CB_Safety.c`, `CB_boot_rom.S` 196-362 |
| `Aes` | the AES functions on a block and the tables, as operators; reference definitions in GF(2^8) | `lib/AES/aes.c` |
| `Libc` | heap, system calls, and newlib's handling of stdout as far as it decides which calls are made | `lib/runtime/syscalls.c` |
| `AesApp` | programs that use `Aes` and `Libc` round by round, with checkpoints, rollbacks and exceptions | `AES_app/main.c`, `aes.c`, `lib/runtime/handler.c` |
| `MCCheckpoint`, `MCAesApp` | instances | |
| `CheckpointInv_proofs`, `CheckpointRoutines_proofs`, `Checkpoint_proofs` | the invariant of `Checkpoint` and its types; what the routines and the handler keep; the rest, and the theorems | |
| `AesApp_proofs` | theorems on `AesApp` | |

### The system model

One step of `SapSystem!Next` is one clock cycle: all machines (`FsmTick`), all
registers (`CtrlTick`) and those cores of `S` that the bus serves (`CoresTick`)
move together, each from the values before the edge. A function `...Next(h, in)`
is the `always_comb` block of a machine; a definition without `Next` is an
output wire. `in` (`FsmInput`) is the port list of `safe_FSM`.

A core is a program label and a few attributes. A label stands for the
instructions up to the next effect another part can see: a register store, a
`wfi`, a change of context. A core may stay on a label for any number of cycles,
so instruction counts, cache and bus delays are covered. `CanStep` and `Movers`
say who may advance: cores on one bus are granted together, cores on their own
bus independently; a sleeping core moves when its halt or interrupt arrives; a
pair that differs is held by the comparator (`HeldBack`) until isolated.

A fault is a core that differs on the bus while it is voted or compared
(`victims`). It is remembered in `bad` until the core has reloaded its
registers. What the difference is, a wrong address or a spurious request, does
not matter to the control.

The host acknowledges, configures, starts and waits; it may rest for ever
between these. The application is any sequence of library calls that the
templates allow, with any arguments they allow.

`FaultPcs`, `FaultCtxs`, `Modes`, `Jobs` and `Habits` select what the
environment does. The passing runs use `Habits = {}`: the host writes SINGLE
before each job, leaves START alone while a program runs and writes `Interrupt_Controler`
only after the interrupt, and `Safe_Stop` names a core of the running pair. The
violation runs each add one habit or one place of a fault that the passing runs exclude.

`ProtectedJob` is the same system seen from outside. It has no machines, registers,
clock or debug ROM: only the phase of a job (rest, launch, run, switch, done), the
protection it has asked for, the team of cores that carries it, whether a difference
is under repair, and the cores that are in the application's code. `SapSystem`
maps its state to it: the team is the cores whose machines work together with
those the registers name (`Engaged \cup Named`), so it is the same set before and
after the hand-over between software that rewrites a register and machines that
follow; a repair is a TMR machine in SYNCINTC or SWSYNC, or a DMR machine in STOP,
INTC_RECOVERY or RECOVERY; the phase is read off the interrupt and the machines
(`JobPhase`); the executing cores are those at a label of the program.

### The lockstep model

`SapCores` moves a compared pair as one. `Lockstep` justifies this: it follows
one bus of a pair cycle by cycle. `todo` and `out` are the requests a core has
decided on and those granted and not answered; a decision depends on the answers
received and not on the time of a grant, so the trailing core repeats the leading
core's decision one cycle later (`script`). This holds of the default core
(cv32e20, whose load/store unit and prefetcher advance on answers); cv32e40p's
pipeline advances on the data grant, and for it the claim would need a model of
both buses together. The bus may accept or not, answer or not, in every cycle.
`other` is a mismatch on the other bus, `struck` says that a fault made the two
decide differently. The pair is DCLS or LOCKSTEP and each core keeps one
request (data port) or two (instruction prefetcher) unanswered.

### The checkpoint model

`SapCores` treats a save or a restore as one step; `Checkpoint` opens it up. Its
state is one register file (`reg`: x1..x31, five CSRs, the pc), the stack, the
safe copy area and `bad`, the cells in which the one struck core differs. One
register file is enough because the cores of a group run the same instructions.
What the program computes is a value that names the cell and the program point,
so that a word in the wrong place is a wrong value.

Each action is one save or load of a routine, in the order of the source
(`ActOrder`, `StoreOrder`, `LoadOrder`, `PopOrder` are those orders), with the
cells its instruction shows on the bus. `Bus` is the voter or the comparator at
that instruction: in a pair, a difference gates the request, so a corrupted word
never reaches memory and only `Mismatch` is left; in a voted group the word of the
majority is stored, irq 16 is raised, and a register that is loaded agrees again.
`RecoverySync` may come at any step between. `Push` is one step, as nothing reads
its words before `Pop`.

Between the routines the program computes everything anew (`Work`). When the
single safe copy is torn by a rollback in the middle of `Store_Checkpoint`, what
the program does with the mixture is not followed; `TornRestartsOld` says where
it goes on. A pair rolled back to its activation falls asleep at once, which is
the subject of `RollbackToActivate`.

What the code does and the model shows, besides the properties:
`Safe_Activate` loses `t5` (line 142 overwrites the word line 144 reads); the
`sp` is raised again for the copy of the stack, above the saved temporaries; the
word `_sp` points to is copied with the stack, unless the stack is empty; `t5`
and `t6` are saved after the pc, but they are dead where a rollback resumes;
`Check_RF` leaves `t5` and `t6` in `a4` and `a5`, and stores sp at the offset of
another register, in words nobody reads.

### The application model

`AesApp` runs a program, a sequence of calls on a buffer of blocks, one loop
iteration of the AES code per step. `Rollback` takes registers and stack back to
the checkpoint, which `Checkpoint` shows to be exact; the variables of `Libc` are
static data and stay. `main.c` is built for ECB; the other modes are used by
programs of `MCAesApp`, with the vectors of the standard that `aes.c` names.

`Libc` answers the system calls as `syscalls.c` does. newlib itself is external:
on the first use of stdout it asks `_fstat`, takes a buffer from `_sbrk` and asks
`_isatty`; later it calls `_write` at the end of a line, or at once without a
buffer. `PrintSetup` and `PrintRecord` are two steps since a rollback may come
between. An empty heap is answered by `NULL`, which newlib takes for a buffer at
address 0. `_write` has its console compiled out and ends without a return
statement: the model counts text as arrived when the call is made. `_getcwd` and
`_gettimeofday` set `errno` to `-ENOSYS`; `_open`, `_close`, `_sysconf` and
`_times` fail without a reason. The handler of exceptions prints and spins; a
misaligned instruction is dispatched to the message of an access fault. `main`
returns `EXIT_SUCCESS` whatever `memcmp` said.

## 3. Runs

Each line of `PROJECT.json` `runs` is one `.cfg`.

| Run | Question | Result |
|---|---|---|
| `SapSystem` | Safety of the composition: nine state invariants, three action properties, refinement of `ProtectedJob` | pass |
| `SapLive` | Do launches, mode switches, ends and repairs complete? | pass |
| `Lockstep` | Four properties of a compared pair on one bus | pass |
| `Checkpoint` | Does every save, rollback and repair give back the exact context? | pass |
| `AesApp` | Right blocks, heap and output whatever is rolled back | pass |
| `RollbackToActivate` | DCLS mismatch before the first checkpoint | violates `RunsAsConfigured` |
| `StopRacesResync` | TMR mismatch as `Safe_Stop` falls asleep | violates `RunsAsConfigured` |
| `OutsideHeir` | `Safe_Stop` names a core outside the pair | violates `RunsAsConfigured` |
| `DelayLeftOn` | the next job is configured without SINGLE in between | violates `DelayIsLockstep` |
| `MismatchMissed` | mismatch between `Safe_Stop`'s master write and its `wfi` | violates `ErrorsAreRepaired` |
| `StopNeverEnds` | host clears START while a core runs | violates `ExternalStopEnds` |
| `AnswerLost` | LOCKSTEP pair isolated with two early grants under way | violates `StoppedIsAnswered` |

**Properties of `SapSystem`.** `RunsAsConfigured`: whoever executes program code
is protected exactly as the configuration register says. `InStep`: checked
cores are at the same instruction. `OneBusOwner`: separate buses, at most one
core awake. `ExclusiveModes`: the machines of different modes, which do not look
at each other, are never active together. `InterruptMeansDone`: at the interrupt
everything rests. `UnrepairedIsChecked`: a differing core never becomes the
single core unrepaired. `DelayIsLockstep`: the delay flip-flop agrees with the
mode. `NoneAstray`: nobody resumes from an unwritten copy or falls out of
`_exit`. `LaunchFromRest`, `QuietUntilStart`: what a step may not do.
`DifferenceLeavesNoTrace`: from the cycle in which a pair differs to its repair, no
register and no safe copy is written, and each core goes only through isolation, debug
ROM and `halt_boot`, back to the checkpoint, and not before both are repaired.
Comparator, look-up of the error, isolated bus, debug word and the dispatch of
`debug_entry` must work together for it over several cycles: a rollback that boots the program anew breaks it, and so does a comparator
that lets a request go once the Master_core register names another core (the line of
finding 5, where the code holds the pair for ever but leaks nothing). `TypeOK`
includes that the safe copy holds a resumable context.
`JobIsProtected`: the system implements `ProtectedJob`. Every cycle is a step of the
abstract job or none: a launch takes as many cores as the protection asks for;
`Safe_Activate` adds cores to the one that calls it, `Safe_Stop` leaves one of those
that ran the program; nobody executes it while its cores change; a team executes it
together or not at all, except under repair, where cores stop and come back one by
one; a repair keeps the team, and only ends in the phase it began in or with the
parting that `Safe_Stop` had begun; a job ends once, and not in the middle of a
repair. The invariants above say what a state may be; this one says how a job may
move through them, which is where a switch that is taken for a launch, a machine
that leaves early or a core that is swapped for another shows.

**Liveness** (`SapLive`): `StartLaunches`, `ActivateReturns` (for each mode, in that
mode), `StopReturns`, `EndIsSignalled`, `ErrorsAreRepaired`.

**Properties of `Lockstep`.** `NoFalseMismatch`; `NoStrayAnswer`: no answer,
live, delayed or injected, reaches a core that waits for none;
`StoppedSingleIsAnswered`: an isolated core gets every answer it is owed, as long
as it is owed at most one; `InOrderOnce`: the path implements `RequestQueue`
under the mapping queue <- register followed by the core's own requests. The
types (`LockstepTypeOK`) are in no run: they are a theorem (section 4).

**Properties of `Checkpoint`.** `RollbackIsExact`: a pair that is rolled back
resumes with the live registers and the whole stack of the last complete
checkpoint, on both cores. `TornRestartsOld`: in the middle of a save it resumes
at the old place, or everything the new one needs is there. `CallsAreTransparent`,
`ActivationKeepsContext`, `RecoveryIsTransparent`: what the library and the handler
give back, with the exceptions the code has (`t5`; `a4` and `a5` of `Check_RF`;
`t2`, `t3`, `t6` when irq 16 comes while sp is raised). `RecoveryRepairs`: after the
handler the struck core agrees. `NothingLatent`: no old difference survives
`Store_Checkpoint`, nor `Check_RF` in a register. `ShownIsRepaired` (liveness).

**Properties of `AesApp`.** `KnownAnswers`: published vectors, in one call or
several, with a partial block, and back. `InverseTracks`: the inverse cipher goes
backwards through the states of the cipher, round by round. `TablesAreRijndael`:
S-boxes, round constants and `Multiply` against their definition in the field, all
entries. `SuccessWhateverRollback`: the tests succeed with rollbacks at every
round. `CounterCounts`: the counter of CTR. `BlocksApart`: buffers never overlap.
`OutputReachesWrite`: what was printed before the last end of a line has reached
`_write` at `_exit`, which does not flush. `JobEnds` (liveness).

### Bounds, and why they are enough

- Three harts: the number in the hardware, not a bound. They are model values;
  `SapSystem` uses their symmetry. Nothing distinguishes a hart but the values of
  `master` and `mask`, all of which are explored, `CHOOSE` appears in no
  definition this run uses, and the run checks no liveness.
- Jobs: every configuration with every master and pair in `SapSystem`; one per
  mode in `SapLive`, where symmetry would be unsound, with the mode switches TCLS
  and DCLS.
- Nothing counts, so there is no bound on the length of a run: any number of
  jobs, switches and faults, one core differing at a time (the assumption under
  which voting and comparing make sense).
- `FaultPcs`: the nine labels of user code, of `Safe_Stop` before its `wfi` and of
  the end of `Safe_Activate` at which a core is checked. Excluded are faults
  whose consequences the violation runs show, in order that the passing run can
  say what holds otherwise: the `wfi` labels (`StopRacesResync`, and
  below), the register write that ends a handler (`hdl_clr`: the error is
  forgotten, against `UnrepairedIsChecked`), and a pair struck before its first
  checkpoint (`FaultCtxs`: `RollbackToActivate`, and below).
- Host writes of one job are one step, since the accelerator reads none of
  the fields before START.
- A pair activated by the program contains the present master and is written by
  the program before `Safe_Activate`, as the templates do.
- `Lockstep`: two payloads tell requests apart (a mismatch and a reordering need
  two), one or two unanswered requests per core (an LSU; a prefetcher with
  `NUM_REQS` = 2), `NCYCLES` = 1, as the package sets it. Before a stopped pair
  sleeps, the bus has answered what it had accepted (`MaySleep`): memory answers
  in the next cycle. A slave behind the external port could be slower, which
  is listed as a hazard without a property.

- `Checkpoint`: two programs, one whose stack shrinks from two words to none, one
  whose stack grows from none: both branches of the stack copy, loops of two and
  three words, and a checkpoint over an older one with another length. One fault in
  a run (the assumption of voting and comparing), at any step but a restore, in
  `sp`, which every routine uses as its address, in `mtval`, the last CSR, or in the
  pc. Another register behaves like one of these in the code: it is saved and loaded
  by one instruction each. `Top` only leaves room for the handler's 36 words.
- `AesApp`: ten programs (three tests, two of CBC, three of CTR, one of system
  calls, one whose text waits for the end of a line over a rollback), two blocks, four in the verbose test; a heap without room, with room for
  one buffer and for three; two rollbacks, so that one may follow another within
  the same call; one exception (after it the core spins), of a known and an unknown
  cause. Addresses have six bits; the link leaves more room outside the heap than
  a request takes (`LibcAssumption`), as with 32 bits.

### What the runs leave out

Besides what the violation runs show, three habits or places of a fault are left out
of the runs because the code fails there. They can be looked at by changing the
constants of a run:

| run, with | violates | because |
|---|---|---|
| `SapLive`, `FaultPcs = {"exit_wfi"}`, `Modes = {}` | `EndIsSignalled` | a TMR mismatch as `_exit` falls asleep ends its `wfi` (`CB_Safety.c:877`); the handler returns behind it into `while(1)`, the cores never sleep together again and `load_intc` (`safe_wrapper_ctrl.sv:143`) stays low |
| `SapSystem`, `FaultCtxs = {"none"}` | `NoneAstray` | a pair the host started has saved no context before its first `Store_Checkpoint` (`CB_Safety.c:18` skips the save in a safe mode); `halt_boot` loads registers and pc from memory this program never wrote |
| `SapLive`, `FaultPcs = {}`, `Modes = {}`, `Habits = {"early"}` | `EndIsSignalled` | a 0 the host writes to the interrupt status while the program runs (`safe_wrapper_ctrl.hjson:114`) may fall into the cycle in which hardware sets it: software wins (`prim_subreg_arb.sv:30`) and END_SW_ROUTINE has no further edge |

The first, in `SapSystem` with DCLS, also ends with an interrupt while a pair rolls back
(`InterruptMeansDone`, `DifferenceLeavesNoTrace`).
They are the hazards of `PROJECT.json` at these lines; no property of a run covers
them.

### Fairness

`FairSpec` has one condition: weak fairness of `FreeTick`, a cycle in which the
bus serves whoever may move, no fault shows and the host does not write. The
clock does not stop and memory answers in bounded time, so such cycles do not fail
for ever to come while they are possible; faults may show any number of
times, but not in every cycle. Neither host nor application is fair: a host may
never acknowledge and a program may stay in `main`. No condition forces a
particular core or machine: on one clock they all advance.

`Checkpoint!LiveSpec` is weakly fair to the cores, which go on as long as the bus
serves them, and to `RecoverySync`: irq 16 is level sensitive and stays until it is
taken. `AesApp!Spec` is weakly fair to the program (`Run`), not to rollbacks or
exceptions.

## 4. Proofs

| Theorem | Statement |
|---|---|
| `SapSystem_proofs!TypeCorrect` | `Spec => []TypeOK` |
| `SapStages_proofs!AlwaysStaged` | `Templates => (Spec => []Staged)`, and so below |
| `SapStages_proofs!AlwaysAsConfigured` | `Spec => []RunsAsConfigured` |
| `SapStages_proofs!AlwaysInStep` | `Spec => []InStep` |
| `SapStages_proofs!AlwaysOneBusOwner` | `Spec => []OneBusOwner` |
| `SapStages_proofs!AlwaysExclusiveModes` | `Spec => []ExclusiveModes` |
| `SapStages_proofs!AlwaysUnrepairedIsChecked` | `Spec => []UnrepairedIsChecked` |
| `SapStages_proofs!AlwaysDelayIsLockstep` | `Spec => []DelayIsLockstep` |
| `SapStages_proofs!AlwaysNoneAstray` | `Spec => []NoneAstray` |
| `SapStages_proofs!AlwaysInterruptMeansDone` | `Spec => []InterruptMeansDone` |
| `SapStages_proofs!LaunchesFromRest` | `Spec => LaunchFromRest` |
| `SapStages_proofs!StaysQuiet` | `Spec => QuietUntilStart` |
| `SapStages_proofs!LeavesNoTrace` | `Spec => DifferenceLeavesNoTrace` |
| `SapJob_proofs!JobProtected` | `Spec => JobIsProtected` (refinement of `ProtectedJob`) |
| `Lockstep_proofs!NoFalseMismatchHolds` | `Spec => []NoFalseMismatch` |
| `Lockstep_proofs!QueueRefined` | `Spec => InOrderOnce` (refinement of `RequestQueue`) |
| `Lockstep_proofs!NoStrayAnswerHolds` | `Spec => []NoStrayAnswer` |
| `Lockstep_proofs!StoppedSingleAnswered` | `Spec => []StoppedSingleIsAnswered` |
| `Lockstep_proofs!LockstepTypeCorrect` | `Spec => []LockstepTypeOK` |
| `Checkpoint_proofs!CheckpointInvariant` | `Spec => []CheckpointInv` |
| `Checkpoint_proofs!CheckpointTypeCorrect` | `Spec => []TypeOK` |
| `Checkpoint_proofs!RollbackIsExactHolds` | `Spec => []RollbackIsExact` |
| `Checkpoint_proofs!TornRestartsOldHolds` | `Spec => []TornRestartsOld` |
| `Checkpoint_proofs!CallsAreTransparentHolds` | `Spec => CallsAreTransparent` |
| `Checkpoint_proofs!ActivationKeepsContextHolds` | `Spec => ActivationKeepsContext` |
| `Checkpoint_proofs!RecoveryIsTransparentHolds` | `Spec => RecoveryIsTransparent` |
| `Checkpoint_proofs!RecoveryRepairsHolds` | `Spec => RecoveryRepairs` |
| `Checkpoint_proofs!NothingLatentHolds` | `Spec => NothingLatent` |
| `AesApp_proofs!HeapInOrder` | `Spec => []BlocksApart` |
| `AesApp_proofs!AesTypeCorrect` | `Spec => []TypeOK` |
| `AesApp_proofs!OutputReachesWriteHolds` | `Spec => []OutputReachesWrite` |
| `AesApp_proofs!CounterCountsHolds` | `Spec => CounterCounts` |

They hold for every value of the constants that meets the named assumptions.
`ThreeHarts` and `Environment`: three harts; jobs, modes, labels and habits of
their types. `LockstepConstants`: `None` is no payload. `CheckpointAssumption`:
programs that use up to `MaxDepth` words of stack, below which the handler has
room for its frame, and cells that may be struck. `LibcAssumption`: the heap lies
within the addresses and leaves more room outside it than one request takes.
`AesAppAssumption`: a call of AES works on at least one byte and on blocks of the
caller's buffer, which the functions of `aes.c` take for granted.
`Templates` is the hypothesis of the theorems of `SapStages_proofs` and `SapJob_proofs`, and says of host,
application and faults what the run `SapSystem` says: the host writes SINGLE before
each job and leaves START alone (`Habits = {}`), a job of a dual mode names a pair
with its master, and faults strike at the nine places of that run, a pair only after
its first checkpoint. `RollbackToActivate`, `StopRacesResync`, `OutsideHeir`,
`DelayLeftOn` and `StopNeverEnds` each allow one more habit or place of a fault and
break a property. Jobs, their masks outside the dual modes, modes and the three cores are otherwise arbitrary;
with an empty set of fault places the theorems speak of a machine without faults.

*Type correctness* is inductive as it stands. The proof goes component by
component: what the machines read is a record of the right type, each
next-state function stays within its states, a register write gives each field a
value of its type, each label's successor is a label (`Follow` is a table, so
totality is a real obligation). `debug_entry`'s three-way dispatch needs that
the debug word is one of three values.

*The stages.* None of the invariants of `SapSystem` is inductive: that the voted cores
are in step depends on how they came together, that on how the master went to sleep
and what the debug word said, and that on the job the host wrote. `Staged` lists the
stages instead: reset, boot, rest, ready, the launch (`Starting`, `Entering`), one core
alone, the meeting of a team around a running master (`Saving` to `Syncing`), voting,
comparing, the two repairs (`Resyncing`; `Isolating`, `Recovering`), the parting to one
core (`Parted` to `Returning`) and the end. A stage fixes all nine machines with two
labels, one for the master and one for its peers (`Machines`), the place of the team
in the code (`Executes`, `AllAt`, `Handles`), the registers of the job (`Life`, `Intr`:
`Running` to `Signalled` is the order in which START, END and the interrupt move) and
the bits that outlive a cycle. Most of the proof shows that each stage is left only
for another. It first takes a cycle apart: the lemmas `Machines...` say where the nine
machines go from given labels, `FreeStep`, `Together`, `CalledAway` and `Stays` what a
core does that runs free, moves with its team, is halted or is held, the lemmas
`Life...` and `Tick...` what the registers do. Then a
lemma for each stage (`...Next` or `...Cycle`) collects them, and `CalmNext` and
`LaunchedNext` put the stages together. `Fits` and `Guarded` say what all stages share
and give the safety invariants. For `LaunchFromRest` the stages are split in two:
`Launched`, and `Calm`, in which no machine is in START; only `Ready` leads from `Calm`
to `Launched`, and there every core sleeps and the host has started the job.
For `DifferenceLeavesNoTrace`, `RollbackStages` leaves three stages in which a pair can
hold a difference: compared, where the comparator serves neither core (`ComparingHeld`);
isolated, where what is executed is not the program (`IsolatingMoves`); recovering, where
the debug word says `halt`, the copy holds `main`, and the two reload together
(`RecoveringTrace`). The way from one to the next is the invariant's.
`Staged` is proved and is in no run; TLC finds it to hold on the instance of the run
`SapSystem` (a module that extends `SapStages` and `MCSapSystem`, with `Staged` as the
invariant).

*The job.* `JobProtected` is the refinement of `ProtectedJob`, over the same stages. Each
stage is one view of the job: phase, protection, team, repair and who may be in the
program (`Viewed`, which follows from `Staged`, lemma `StagedViewed`). So the refinement does not
take the cycle apart again: the lemmas of `SapStages_proofs` say to which stages a
stage leads, and `Viewed` in the next state says what the job looks like there. One
lemma for each abstract action (`LaunchStep`, `ActivateStep`, ...) says between which
views it leads, one for each stage (`RestSteps`, ..., `SplitSteps`) which of them its
cycles are; what remains is that mask, master and configuration keep their values
where the action keeps the team (`RegistersKept`, `MaskKept`), and that a new team
contains, or is part of, the old one. `EveryStep` puts the stages together, `NoStep` is
the stutter and `FirstView` the initial state.

*No false mismatch.* The property is not inductive: it speaks of the
heads of two queues. The invariant (`AlignInv`) says what is behind them. In
LOCKSTEP, the request in the register followed by what the leading core still
holds is what the trailing core still holds followed by the decision it is about
to repeat; and the register is empty exactly when the trailing core has nothing
to ask, which is what makes the two requests meet in the same cycle. In DCLS the
two queues are equal. To get past an isolation it also needs `Rested`: a core
sleeps only with nothing under way, a pair leaves the isolated bus only with both
asleep, and nobody is asleep on the bus. `WorkingStep` proves the step on the
bus, `RejoinStep` the way back to it.

*The queue.* `BetweenStep` shows that in a cycle on the bus the mapped queue gets
the leading core's decision appended and loses its head exactly when the bus
grants, so that every step is `Serve` or `Wait`; off the bus it is `CutOff`.

*The answers.* `AnswerInv` counts. On the bus the leading core waits for what is in
the register and what is outstanding behind the crossbar, the trailing core for
what is outstanding and for the answer its flip-flop delays; off the bus the flags
of a core say whether an answer is still to come. The delicate part is the return:
the pair wakes at different times, and the answer in the flip-flop must have gone
before the trailing core is back (`Waking`). `Flagged` is where "at most one" comes
in: with two answers to come one flag cannot tell the truth, which is finding 7.

*The context.* The handler of irq 16 can come between any two instructions of a
routine, also between those that put the temporaries of the routine below sp. The
invariant sees through it: `At`, `Step` and `Own` are the routine, its progress and
its registers, whether it runs or waits for the handler to return, and every part of
`CheckpointInv` that is about a routine is stated in terms of them. In the middle of
a routine each register of the caller is either still in its place or in a named
word of the stack (`RoutineInv`); in the middle of the handler the interrupted
context is in the frame that was pushed (`HandlerInv`); a copy is exact up to the
step it has reached (`CopyInv`), the loop invariant of the save; what has been
loaded so far is the safe copy (`RestoreInv`), that of the restore; while a pair
saves, its old copy is intact or all of the new one is there. `LatentInv` follows the
differences that the comparator has not seen yet. The orders and offsets of the
assembly code enter as lemmas about sequences (`StoreOrderIs`, `LoadOrderIs`, ...)
which say at which step which cell is moved where.

*The AES programs.* Types are the point where a call that leaves its buffer, a round
beyond the key schedule or a table index of 256 would show. `ControlInv` bounds
rounds and blocks, also over a rollback, which goes back to the first block of the
call after the checkpoint; `DataInv` says that blocks stay blocks, in the program
and in the saved copy, by lemmas on every operator of `Aes` (`Xor`, `Multiply`, the
key schedule, `MixColumns`). `ToldInv` is behind `OutputReachesWrite`: all that was
printed before the present call is in the buffer of stdout or has arrived, and has
arrived if a line ended after it; a rollback to an earlier call keeps that. For
`CounterCounts`, a comparison of `Increment` with addition digit by digit.

*The heap.* `BlocksApart` becomes inductive with the types of the break and the
blocks (`HeapInv`). `MovesUp` is the point of the proof: `_sbrk` compares addresses
that may wrap, and the assumption on the link is exactly what keeps a wrapped
address out of the heap. `OnlyAsked` says that nothing else touches it, rollbacks
and exceptions included.

**Only model-checked.** Liveness (`SapLive`, `ShownIsRepaired`, `JobEnds`), out of the
prover's reach. `KnownAnswers`, `InverseTracks`, `TablesAreRijndael` and
`SuccessWhateverRollback`, which speak of the value of recursive functions on given
data: an evaluation, which is what TLC does.

## 5. Findings

`PROJECT.json` `findings` quotes the line each one contradicts.

1. `rtl/safe_FSM.sv:612` tests `!=2'b10 | !=2'b11`, which is always true: any
   moment with all cores asleep in DMR_SYNC leaves DMR (`RollbackToActivate`).
2. `Safe_Stop` (`CB_Safety.c:199`) cannot tell the end of TMR from a
   resynchronisation (`StopRacesResync`).
3. `Safe_Stop(master)` with a master outside the pair restarts the program
   (`OutsideHeir`).
4. The lockstep flip-flop survives a job that ends without `Safe_Stop`
   (`DelayLeftOn`).
5. The comparator error is indexed by the register, the bus by its delayed
   copy (`MismatchMissed`).
6. SINGLE_SYNC_OFF waits for all cores to be awake (`StopNeverEnds`).
7. One flag remembers the answers an isolated core is owed, which may be two
   (`AnswerLost`).

Shown by `Checkpoint`, whose properties name them as exceptions:
`Safe_Activate` (`CB_Safety.c:142`) overwrites the `t5` that line 144 means to load;
`Store_Checkpoint` (line 594) leaves its temporaries below sp while it copies the
stack; a mismatch in the middle of it resumes from a mixture of two contexts.

Noted while reading, below what is modelled so far: a program that ends in a
critical section leaves the register set for the next job; `tmr_voter` reports a difference
only under a voted request, so a stray request of one core is masked silently.

## 6. Not modelled

- Payloads of requests as bits, memory contents other than stack, safe copy and
  heap; the multiplexers of the wrapper and the field-by-field comparison.
- AXI, APB and OBI conversions, the crossbars' arbitration, `NCYCLES` > 1.
- A fault in the middle of a restore, two faults at a time, a fault in memory.
- The external debug request; the status read-backs of the registers.
- `handler_tmr_dmcontext_copy` and `handler_tmr_dmshsync` (irq 18, 19), which no RTL
  of the repository raises; the handlers of interrupts 3, 7 and 11, which `crt0.S`
  masks; `_brk`, which nothing calls; set-up of bss and argv.
- AES192 and AES256, compiled out in `aes.h`; the debug stores of `AES_app` to the
  private register and to 0x9000.
- Static data of the application other than the C library's: the checkpoint does
  not hold it, and the programs of the repository keep none across a checkpoint.
- Headers of constants (`encoding.h`, `csr*.h`, `error.h`, `absl_status.h`,
  register offsets): no behaviour of their own.
- Memory and peripherals; the vendored cores and IP, whose behaviour appears only as
  far as `rtl/` uses it (marked external in the map); FPGA, simulation and build
  files.

## 7. Plan

Done in this order: `SafeFSM`, `SafeWrapperCtrl`, `SapCores`, `SapSystem` with its
safety and liveness runs; `Lockstep` over `RequestQueue`; their four theorems;
`Checkpoint`; `Aes`, `Libc`, `AesApp`; the theorems on `Checkpoint`, `AesApp` and the
answers of `Lockstep`; `SapStages` and the theorems on `SapSystem` that rest on it; `ProtectedJob` and the proof
that `SapSystem` implements it.

Next:

1. Theorems: each of the three assumptions on faults loosened alone, with the
   invariants that still hold.
2. `XbarNToOne`: the outstanding-request machine of `sap_xbar_varlat_n_to_one`
   and a slow slave behind it, refining "each request is answered once, to its
   master"; the late answer after an isolation.
3. The critical-section register over several jobs.
4. `Voter`: words as sets of bits, one wrong core is masked and named.
5. `ObiPipelinedDelay`: the delay for `NCYCLES` > 1, refining `RequestQueue`.

## Running

    tlc -config SapSystem.cfg MCSapSystem
    tlc -config Lockstep.cfg MCLockstep
    tlc -config Checkpoint.cfg MCCheckpoint
    tlc -config AesApp.cfg MCAesApp
    tlapm SapSystem_proofs.tla
    tlapm SapStages_proofs.tla
    tlapm SapJob_proofs.tla
    tlapm Lockstep_proofs.tla
    tlapm CheckpointInv_proofs.tla
    tlapm CheckpointRoutines_proofs.tla
    tlapm Checkpoint_proofs.tla
    tlapm AesApp_proofs.tla
