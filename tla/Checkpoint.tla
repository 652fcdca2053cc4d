------------------------------ MODULE Checkpoint ------------------------------
(***************************************************************************)
(* The registers of a program in a safe mode, word by word: what           *)
(* Safe_Activate and Store_Checkpoint (CB_Safety.c) put into the safe copy *)
(* area, what the debug ROM (halt_boot, CB_boot_rom.S) takes out of it     *)
(* after a mismatch, how handler_tmr_recoverysync pushes the registers of  *)
(* three voted cores and pops them again, and what Check_RF shows.         *)
(*                                                                         *)
(* The cores of a group run the same instructions, so one register file is *)
(* kept, with the set of cells in which the one struck core differs from   *)
(* it.  A store or an address that uses such a cell shows on the bus: the  *)
(* comparator of a pair gates the request and the pair is rolled back, the *)
(* voter of three cores passes the value of the other two and irq 16 is    *)
(* raised.  When the wrapper does which is the subject of SapSystem.       *)
(***************************************************************************)
EXTENDS Naturals, Sequences

CONSTANTS
  Top,          \* word address of _sp, the initial stack pointer
  MaxDepth,     \* words of stack a program uses at most
  Programs,     \* sequences: the stack depth of the program at each point
  Struck,       \* cells a fault may hit
  MaxFaults     \* how many faults hit a run

-----------------------------------------------------------------------------
(* The cells of a context: x1..x31, five CSRs, the program counter.        *)

X    == 1..31
Csr  == 32..36                  \* mstatus, mie, mtvec, mepc, mtval
MEPC == 35
PC   == 37
Cell == 1..37
SP == 2
T2 == 7
A4 == 14
A5 == 15
T3 == 28
T4 == 29
T5 == 30
T6 == 31

\* The pc is a program point, sp a word address; the other cells and the words
\* of the stack hold what the program computed there at a point, or one of these.
Base  == Top + 1                \* an address the library loaded
Junk  == Top + 2                \* any other value of no use to the program
ActPc == Top + 3                \* the label behind which Safe_Activate resumes
Computed(i, point) == Top + 4 + (38 + MaxDepth) * point + i

ASSUME CheckpointAssumption ==
  /\ MaxDepth \in Nat
  /\ Top \in Nat /\ Top >= MaxDepth + 47
  /\ Programs \subseteq Seq(0..MaxDepth) \ {<<>>}
  /\ Struck \subseteq Cell
  /\ MaxFaults \in Nat

VARIABLES
  mode,         \* argument of Safe_Activate: TCLS, or DCLS for either pair mode
  prog,         \* the program, chosen when the image is built
  phase, k,     \* routine the cores are in, and how far they are in it
  reg,          \* reg[c]: what the cores that were not struck hold
  bad,          \* cells in which the struck core differs
  mem,          \* the stack and the words below it, by word address
  safe,         \* the safe copy area, by word
  irq,          \* irq 16, the voter saw a difference
  back,         \* <<phase, k>> the handler returns to
  rec,          \* DMR_REC: halt_boot restores a rollback, not an activation
  faults,       \* faults so far
  call,         \* history: context when the last safety routine was called
  good,         \* history: context of the last complete checkpoint
  writing,      \* history: some words of the next checkpoint are written
  entry,        \* history: context at an irq 16 that is being handled
  cut,          \* history: it came while Store_Checkpoint had raised sp
  since         \* history: cells struck since the routine was entered

vars == <<mode, prog, phase, k, reg, bad, mem, safe, irq, back, rec, faults,
          call, good, writing, entry, cut, since>>
ghosts == <<call, good, writing, entry, cut, since>>

SafeWord == 0..40 + MaxDepth + 1
Phase == {"activate", "act_end", "run", "enter", "copy", "regs", "leave",
          "scan", "push", "pop", "restore", "load_stack", "resumed", "asleep"}

\* a context the program can be in: its registers and its stack
Here == [reg |-> reg, mem |-> [a \in reg[SP]..Top - 1 |-> mem[a]]]
Frame(ctx) == DOMAIN ctx.mem
\* t5 and t6 are saved last and are dead where a checkpoint resumes
Live == Cell \ {T5, T6}
Restored(ctx) ==
  /\ bad = {}
  /\ \A c \in Live : reg[c] = ctx.reg[c]
  /\ \A a \in Frame(ctx) : mem[a] = ctx.mem[a]

\* registers and stack as the program has computed them at a point
FreshReg(point) == [c \in Cell |-> CASE c = SP -> Top - prog[point + 1]
                                    [] c = PC -> point
                                    [] OTHER  -> Computed(c, point)]
FreshMem(point) == [a \in 0..Top |-> IF a \in Top - prog[point + 1]..Top - 1
                                     THEN Computed(37 + Top - a, point) ELSE Junk]

Init ==
  /\ mode \in {"TCLS", "DCLS"}
  /\ prog \in Programs
  /\ phase = "activate" /\ k = 0
  /\ reg = FreshReg(0)
  /\ mem = FreshMem(0)
  /\ safe = [w \in SafeWord |-> Junk]
  /\ bad = {} /\ irq = FALSE /\ back = <<"run", 0>> /\ rec = FALSE
  /\ faults = 0
  /\ call = Here /\ good = Here /\ entry = Here
  /\ writing = FALSE /\ cut = FALSE /\ since = {}

-----------------------------------------------------------------------------
(* The bus.                                                                *)

\* the instruction fetch shows a program counter that differs
Exposed(cells) == bad \cap (cells \cup {PC}) # {}

\* cells are used for a store or an address, loads are filled from the bus
Bus(cells, loads) ==
  /\ mode = "TCLS" \/ ~Exposed(cells)
  /\ irq' = (irq \/ Exposed(cells))
  /\ bad' = bad \ loads

\* offset of a cell in the safe copy, in words: CB_Safety.c and CB_boot_rom.S
StoreWord(c) == IF c \in Csr THEN c - 32 ELSE IF c = PC THEN 36 ELSE c + 4
LoadWord(c)  == IF c \in Csr THEN c - 32 ELSE IF c = PC THEN 36 ELSE c + 4
-----------------------------------------------------------------------------
(* Safe_Activate: one core saves its context and sleeps; the cores of the  *)
(* group all start from the safe copy, behind the label of the saved pc.   *)

ActOrder == <<32, 33, 34, 35, 36>> \o [c \in 1..31 |-> c] \o <<PC>>

ActivateEnter ==
  /\ phase = "activate" /\ k = 0
  /\ k' = 1
  /\ mem' = [mem EXCEPT ![reg[SP] - 1] = reg[T5], ![reg[SP] - 2] = reg[T6]]
  /\ reg' = [reg EXCEPT ![SP] = @ - 4, ![T5] = Base, ![T6] = Junk]
  /\ UNCHANGED <<mode, prog, phase, bad, safe, irq, back, rec, faults, ghosts>>

\* x30 is saved as the base address it holds, which also replaces the
\* program's t5 on the stack; x31 is loaded back from there
ActivateSave ==
  /\ phase = "activate" /\ k \in 1..37
  /\ LET c == ActOrder[k]
         v == CASE c = T6 -> mem[reg[SP] + 2]
                [] c = PC -> ActPc
                [] OTHER  -> reg[c]
     IN safe' = [safe EXCEPT ![StoreWord(c)] = v]
  /\ mem' = IF ActOrder[k] = T5 THEN [mem EXCEPT ![reg[SP] + 3] = reg[T5]]
            ELSE mem
  /\ k' = k + 1
  /\ UNCHANGED <<mode, prog, phase, reg, bad, irq, back, rec, faults, ghosts>>

\* wfi: the wrapper forms the group and sends it to halt_boot
ActivateSleep ==
  /\ phase = "activate" /\ k = 38
  /\ phase' = "restore" /\ k' = 1
  /\ reg' = [reg EXCEPT ![T5] = Base]
  /\ UNCHANGED <<mode, prog, bad, mem, safe, irq, back, rec, faults, ghosts>>

\* mutated: the two words of the stack swapped
ActivateLeaveSwapped ==
  /\ phase = "act_end"
  /\ phase' = "run"
  /\ reg' = [reg EXCEPT ![T6] = mem[reg[SP] + 3], ![T5] = mem[reg[SP] + 2],
                        ![SP] = @ + 4, ![PC] = 0]
  /\ UNCHANGED <<mode, prog, k, bad, mem, safe, irq, back, rec, faults, ghosts>>

ActivateLeave ==
  /\ phase = "act_end"
  /\ phase' = "run"
  /\ reg' = [reg EXCEPT ![T6] = mem[reg[SP] + 2], ![T5] = mem[reg[SP] + 3],
                        ![SP] = @ + 4, ![PC] = 0]
  /\ UNCHANGED <<mode, prog, k, bad, mem, safe, irq, back, rec, faults, ghosts>>

-----------------------------------------------------------------------------
(* The program: between two safety routines it computes every register and *)
(* the whole of its stack anew.  A struck cell is used on the way, and     *)
(* shows; or it is overwritten; or what is computed from it differs too.   *)

Point == reg[PC]

Work ==
  /\ phase = "run" /\ Point + 1 < Len(prog)
  /\ reg' = FreshReg(Point + 1)
  /\ mem' = [FreshMem(Point + 1) EXCEPT ![Top] = mem[Top]]
  /\ call' = Here /\ since' = {} /\ cut' = FALSE
  /\ \/ Bus(Cell, {})
     \/ PC \notin bad /\ bad' \in {bad, {}} /\ UNCHANGED irq
  /\ UNCHANGED <<mode, prog, phase, k, safe, back, rec, faults, good, writing,
                 entry>>

Strike(c) ==
  /\ faults < MaxFaults /\ bad = {}
  /\ phase \in {"run", "enter", "copy", "regs", "leave", "scan", "push", "pop"}
  /\ bad' = {c} /\ since' = since \cup {c}
  /\ faults' = faults + 1
  /\ UNCHANGED <<mode, prog, phase, k, reg, mem, safe, irq, back, rec, call,
                 good, writing, entry, cut>>

-----------------------------------------------------------------------------
(* Store_Checkpoint.                                                       *)

Stacked == <<T2, T3, T4, T5, T6>>       \* at sp+24, 20, 16, 12, 8 bytes
Place(c) == CHOOSE i \in 1..5 : Stacked[i] = c
Temps == {T2, T3, T4, T5, T6}
\* mutated: the pc before the registers
StoreOrderPcFirst == <<32, 33, 34, 35, 36, PC>> \o [c \in 1..31 |-> c]

\* mutated: mepc saved into the word of mtval
StoreOrderTwice ==
  <<32, 33, 34, 35, 35>> \o [c \in 1..29 |-> c] \o <<PC, T5, T6>>

StoreOrder == <<32, 33, 34, 35, 36>> \o [c \in 1..29 |-> c] \o <<PC, T5, T6>>

StoreCall ==
  /\ phase = "run"
  /\ phase' = "enter" /\ k' = 0
  /\ call' = Here /\ since' = {} /\ cut' = FALSE
  /\ UNCHANGED <<mode, prog, reg, bad, mem, safe, irq, back, rec, faults, good,
                 writing, entry>>

\* the temporaries go below the stack pointer, which is then raised again
\* for the copy of the stack
StoreEnter ==
  /\ phase = "enter"
  /\ Bus({SP} \cup Temps, {T2, T4, T5})
  /\ mem' = [a \in 0..Top |-> IF reg[SP] - a \in 1..5 THEN reg[Stacked[reg[SP] - a]]
                              ELSE mem[a]]
  /\ IF reg[SP] = Top
     THEN /\ phase' = "regs" /\ k' = 1
          /\ reg' = [reg EXCEPT ![T2] = Junk, ![T4] = Junk, ![T5] = Base]
     ELSE /\ phase' = "copy" /\ k' = 0
          /\ reg' = [reg EXCEPT ![T2] = Junk, ![T4] = Junk, ![T5] = Base,
                                ![T3] = Junk]
  /\ UNCHANGED <<mode, prog, safe, back, rec, faults, ghosts>>

\* one word of the stack, up to and with the one _sp points to
StoreStack ==
  /\ phase = "copy"
  /\ Bus({T2, T3, T4}, {T6})
  /\ safe' = [safe EXCEPT ![37 + k] = mem[reg[SP] + k]]
  /\ reg' = [reg EXCEPT ![T6] = Junk]
  /\ IF reg[SP] + k = Top THEN phase' = "regs" /\ k' = 1
     ELSE k' = k + 1 /\ UNCHANGED phase
  /\ writing' = TRUE
  /\ UNCHANGED <<mode, prog, mem, back, rec, faults, call, good, entry, cut,
                 since>>

\* one word of the context; t2..t6 come from the stack, and sp is lowered
\* again once it is saved
StoreReg ==
  /\ phase = "regs"
  /\ LET c == StoreOrder[k]
         stacked == c \in Temps
     IN /\ Bus({T5} \cup (IF stacked THEN {SP} ELSE {c}),
               {T6} \cup (IF c \in {T2, T3, T4} THEN {c} ELSE {}))
        /\ LET v == IF stacked THEN mem[reg[SP] + 7 - Place(c)] ELSE reg[c]
           IN /\ safe' = [safe EXCEPT ![StoreWord(c)] = v]
              /\ reg' = CASE c = SP -> [reg EXCEPT ![SP] = @ - 7]
                          [] c \in {T2, T3, T4} -> [reg EXCEPT ![c] = v]
                          [] OTHER -> [reg EXCEPT ![T6] = Junk]
  /\ IF k = 37 THEN phase' = "leave" /\ UNCHANGED k
     ELSE k' = k + 1 /\ UNCHANGED phase
  /\ writing' = (k # 37)
  /\ good' = IF k = 37 THEN call ELSE good
  /\ UNCHANGED <<mode, prog, mem, back, rec, faults, call, entry, cut, since>>

StoreLeave ==
  /\ phase = "leave"
  /\ Bus({SP}, Temps)
  /\ reg' = [c \in Cell |-> IF c \in Temps THEN mem[reg[SP] + 7 - Place(c)]
                            ELSE IF c = SP THEN reg[SP] + 7 ELSE reg[c]]
  /\ phase' = "run" /\ k' = 0
  /\ UNCHANGED <<mode, prog, mem, safe, back, rec, faults, ghosts>>

-----------------------------------------------------------------------------
(* Check_RF: every register is stored in a row, so that one that differs   *)
(* shows.  The words it leaves at CHECK_RAM_ADDRESS are never read.        *)

CheckCall ==
  /\ phase = "run"
  /\ Bus({SP, T4, T5, T6}, {A4, A5, T6})
  /\ phase' = "scan" /\ k' = 1
  /\ mem' = [mem EXCEPT ![reg[SP] - 1] = reg[T4], ![reg[SP] - 2] = reg[T5],
                        ![reg[SP] - 3] = reg[T6]]
  /\ reg' = [reg EXCEPT ![SP] = @ - 5, ![A4] = reg[T5], ![A5] = reg[T6],
                        ![T6] = Base]
  /\ call' = Here /\ since' = {} /\ cut' = FALSE
  /\ UNCHANGED <<mode, prog, safe, back, rec, faults, good, writing, entry>>

\* mutated: t6 is not loaded back before it is shown
CheckRegNoReload ==
  /\ phase = "scan" /\ k \in X
  /\ Bus({T6, k}, IF k = SP THEN {T5} ELSE {})
  /\ reg' = IF k = SP THEN [reg EXCEPT ![T5] = Junk] ELSE reg
  /\ k' = k + 1
  /\ UNCHANGED <<mode, prog, phase, mem, safe, back, rec, faults, ghosts>>

CheckReg ==
  /\ phase = "scan" /\ k \in X
  /\ IF k = T6
     THEN Bus({SP}, {T5, T6})
     ELSE Bus({T6} \cup (IF k = T5 THEN {SP} ELSE {k}),
              IF k \in {SP, T5} THEN {T5} ELSE {})
  /\ reg' = CASE k = SP -> [reg EXCEPT ![T5] = Junk]
              [] k = T5 -> [reg EXCEPT ![T5] = mem[reg[SP] + 3]]
              [] k = T6 -> [reg EXCEPT ![T5] = Base, ![T6] = mem[reg[SP] + 2]]
              [] OTHER  -> reg
  /\ k' = k + 1
  /\ UNCHANGED <<mode, prog, phase, mem, safe, back, rec, faults, ghosts>>

\* mutated: sp is raised by what the other routines use
CheckLeave28 ==
  /\ phase = "scan" /\ k = 32
  /\ Bus({SP}, {T5})
  /\ reg' = [reg EXCEPT ![T5] = mem[reg[SP] + 3], ![SP] = @ + 7]
  /\ phase' = "run" /\ k' = 0
  /\ UNCHANGED <<mode, prog, mem, safe, back, rec, faults, ghosts>>

CheckLeave ==
  /\ phase = "scan" /\ k = 32
  /\ Bus({SP}, {T5})
  /\ reg' = [reg EXCEPT ![T5] = mem[reg[SP] + 3], ![SP] = @ + 5]
  /\ phase' = "run" /\ k' = 0
  /\ UNCHANGED <<mode, prog, mem, safe, back, rec, faults, ghosts>>

-----------------------------------------------------------------------------
(* A mismatch of a pair: it is isolated, halted, and halt_boot restores.   *)

\* what the next instructions of the pair show on the bus
Uses ==
  CASE phase = "run"    -> Cell
    [] phase = "enter"  -> {SP} \cup Temps
    [] phase = "copy"   -> {T2, T3, T4}
    [] phase = "regs"   -> {T5} \cup (IF StoreOrder[k] \in Temps THEN {SP}
                                      ELSE {StoreOrder[k]})
    [] phase = "scan"   -> IF k \in X \ {T5, T6} THEN {T6, k} ELSE {SP, T6}
    [] OTHER            -> {SP}

Mismatch ==
  /\ mode = "DCLS"
  /\ phase \in {"run", "enter", "copy", "regs", "leave", "scan"}
  /\ Exposed(Uses)
  /\ rec' = TRUE
  /\ phase' = "restore" /\ k' = 1
  /\ reg' = [reg EXCEPT ![T5] = Base]
  /\ UNCHANGED <<mode, prog, bad, mem, safe, irq, back, faults, ghosts>>

LoadOrder == <<32, 33, 34, 35, 36>> \o [c \in 1..29 |-> c] \o <<PC, T6, T5>>

\* the stack is restored between tp (x4) and t0, with sp as the pointer; a
\* pair rolled back to its activation falls asleep there (see SapSystem)
RestoreReg ==
  /\ phase = "restore"
  /\ LET c == LoadOrder[k]
     IN /\ reg' = [reg EXCEPT ![c] = safe[LoadWord(c)]]
        /\ bad' = bad \ {c}
  /\ IF k = 37
     THEN /\ phase' = IF reg[PC] # ActPc THEN "resumed"
                      ELSE IF rec THEN "asleep" ELSE "act_end"
          /\ k' = 0
     ELSE IF k = 9 /\ rec /\ reg[SP] # Top
     THEN phase' = "load_stack" /\ k' = 0
     ELSE k' = k + 1 /\ UNCHANGED phase
  /\ UNCHANGED <<mode, prog, mem, safe, irq, back, rec, faults, ghosts>>

\* mutated: the last word is taken for the one _sp points to
LoadStackShort ==
  /\ phase = "load_stack"
  /\ mem' = [mem EXCEPT ![reg[SP]] = safe[37 + k]]
  /\ IF reg[SP] = Top - 1
     THEN /\ phase' = "restore" /\ k' = 10
          /\ UNCHANGED reg
     ELSE /\ reg' = [reg EXCEPT ![SP] = @ + 1]
          /\ k' = k + 1 /\ UNCHANGED phase
  /\ UNCHANGED <<mode, prog, bad, safe, irq, back, rec, faults, ghosts>>

\* (the ROM's own t0, t1, t2 and t4 are loaded after the stack)
LoadStack ==
  /\ phase = "load_stack"
  /\ mem' = [mem EXCEPT ![reg[SP]] = safe[37 + k]]
  /\ IF reg[SP] = Top
     THEN /\ phase' = "restore" /\ k' = 10
          /\ reg' = [reg EXCEPT ![SP] = safe[LoadWord(SP)]]
     ELSE /\ reg' = [reg EXCEPT ![SP] = @ + 1]
          /\ k' = k + 1 /\ UNCHANGED phase
  /\ UNCHANGED <<mode, prog, bad, safe, irq, back, rec, faults, ghosts>>

\* what a program does with the registers of a torn copy is not followed
Torn == writing /\ ~Restored(call)

Resume ==
  /\ phase = "resumed" /\ ~Torn
  /\ phase' = "run"
  /\ writing' = FALSE /\ good' = IF writing THEN call ELSE good
  /\ UNCHANGED <<mode, prog, k, reg, bad, mem, safe, irq, back, rec, faults,
                 call, entry, cut, since>>
-----------------------------------------------------------------------------
(* handler_tmr_recoverysync.  mepc is where it returns to.                 *)

\* Store_Checkpoint has its temporaries below the raised stack pointer
Raised == phase = "copy" \/ (phase = "regs" /\ k <= 7)

RecoverySync ==
  /\ irq /\ phase \in {"run", "enter", "copy", "regs", "leave", "scan"}
  /\ irq' = FALSE
  /\ back' = <<phase, k>>
  /\ phase' = "push" /\ k' = 1
  /\ mem' = [mem EXCEPT ![reg[SP] - 1] = reg[A4], ![reg[SP] - 2] = reg[A5]]
  /\ reg' = [reg EXCEPT ![SP] = @ - 4, ![MEPC] = reg[PC]]
  /\ bad' = (bad \ {A4, A5, PC, MEPC}) \cup (IF PC \in bad THEN {MEPC} ELSE {})
  /\ since' = {} /\ entry' = Here
  /\ cut' = (cut \/ Raised)
  /\ UNCHANGED <<mode, prog, safe, rec, faults, call, good, writing>>

\* one step: nothing reads the words before they are popped, and the
\* differences these stores show fall under the same acknowledgement
Push ==
  /\ phase = "push"
  /\ mem' = [a \in 0..Top |-> IF reg[SP] - a \in X \cup Csr THEN reg[reg[SP] - a]
                              ELSE mem[a]]
  /\ reg' = [reg EXCEPT ![T6] = Junk]
  /\ phase' = "pop" /\ k' = 1
  /\ UNCHANGED <<mode, prog, bad, safe, irq, back, rec, faults, ghosts>>

\* mutated: mepc is loaded into mtval, too
PopOrderTwice == <<32, 33, 34, 35, 35>> \o [c \in X |-> c]

\* mutated: the struck sp is kept
PopOrderOwnSp == <<32, 33, 34, 35, 36, 1, 1>> \o [i \in 1..29 |-> i + 2]

PopOrder == <<32, 33, 34, 35, 36>> \o [c \in X |-> c]

Pop ==
  /\ phase = "pop" /\ k \in 1..36
  /\ LET c == PopOrder[k]
     IN /\ reg' = [reg EXCEPT ![c] = mem[reg[SP] - c]]
        /\ bad' = bad \ {c}
  /\ k' = k + 1
  /\ UNCHANGED <<mode, prog, phase, mem, safe, irq, back, rec, faults, ghosts>>

\* mutated: a4's word for a5
RecoveryLeaveA4 ==
  /\ phase = "pop" /\ k = 37
  /\ reg' = [reg EXCEPT ![A5] = mem[reg[SP] + 3], ![SP] = @ + 4,
                        ![PC] = reg[MEPC]]
  /\ bad' = (bad \ {A5}) \cup (IF MEPC \in bad THEN {PC} ELSE {})
  /\ phase' = back[1] /\ k' = back[2]
  /\ back' = <<"run", 0>> /\ entry' = good
  /\ UNCHANGED <<mode, prog, mem, safe, irq, rec, faults, call, good, writing,
                 cut, since>>

\* a5 served for the acknowledgement; mret returns to mepc
RecoveryLeave ==
  /\ phase = "pop" /\ k = 37
  /\ reg' = [reg EXCEPT ![A5] = mem[reg[SP] + 2], ![SP] = @ + 4,
                        ![PC] = reg[MEPC]]
  /\ bad' = (bad \ {A5}) \cup (IF MEPC \in bad THEN {PC} ELSE {})
  /\ phase' = back[1] /\ k' = back[2]
  /\ back' = <<"run", 0>> /\ entry' = good
  /\ UNCHANGED <<mode, prog, mem, safe, irq, rec, faults, call, good, writing,
                 cut, since>>

-----------------------------------------------------------------------------
\* the end of the program, or of what is followed of it
Done ==
  /\ \/ phase = "run" /\ Point + 1 = Len(prog)
     \/ phase = "asleep"
     \/ phase = "resumed" /\ Torn
  /\ UNCHANGED vars

Cores == \/ ActivateEnter \/ ActivateSave \/ ActivateSleep \/ ActivateLeave
         \/ Work
         \/ StoreCall \/ StoreEnter \/ StoreStack \/ StoreReg \/ StoreLeave
         \/ CheckCall \/ CheckReg \/ CheckLeave
         \/ Mismatch \/ RestoreReg \/ LoadStack \/ Resume
         \/ RecoverySync \/ Push \/ Pop \/ RecoveryLeave
Next == Cores \/ (\E c \in Struck : Strike(c)) \/ Done
Spec == Init /\ [][Next]_vars

-----------------------------------------------------------------------------
(* Properties.                                                             *)

TypeOK ==
  /\ mode \in {"TCLS", "DCLS"} /\ prog \in Programs
  /\ phase \in Phase /\ k \in 0..MaxDepth + 40
  /\ reg \in [Cell -> Nat] /\ reg[SP] \in 0..Top
  /\ bad \in SUBSET Cell
  /\ mem \in [0..Top -> Nat]
  /\ safe \in [SafeWord -> Nat]
  /\ irq \in BOOLEAN /\ rec \in BOOLEAN
  /\ back \in Phase \X (0..MaxDepth + 40)
  /\ faults \in 0..MaxFaults
  /\ writing \in BOOLEAN /\ cut \in BOOLEAN
  /\ since \in SUBSET Cell
  /\ \A ctx \in {call, good, entry} :
       /\ ctx.reg \in [Cell -> Nat]
       /\ ctx.mem \in [ctx.reg[SP]..Top - 1 -> Nat]

\* A pair that is rolled back resumes in exactly the context in which the
\* program called Store_Checkpoint: every register that is live there, the
\* whole stack, on both cores.  Not while the only copy is being overwritten.
RollbackIsExact ==
  phase = "resumed" /\ ~writing => Restored(good)

\* A rollback in the middle of Store_Checkpoint goes back to the place of the
\* checkpoint before, with whatever is in the copy, unless everything the
\* program needs behind the new one is there: the pc is written after it.
TornRestartsOld ==
  phase = "resumed" /\ writing => reg[PC] = good.reg[PC] \/ Restored(call)

\* Where a safety routine that uses registers of its own gives them back.
Returns(from) == phase = from /\ phase' = "run"

\* A call of Store_Checkpoint changes no register but the temporaries that an
\* irq 16 overwrites on the stack while sp is raised, a call of Check_RF none
\* but a4 and a5, and neither the program's stack.
CallsAreTransparent ==
  [][/\ Returns("leave") => \A c \in Cell \ {MEPC} :
          reg'[c] = call.reg[c] \/ (cut /\ c \in {T2, T3, T6})
     /\ Returns("scan") => \A c \in Cell \ {MEPC, A4, A5} :
          reg'[c] = call.reg[c]
     /\ Returns("leave") \/ Returns("scan") => \A a \in Frame(call) :
          mem'[a] = call.mem[a]]_vars

\* The group starts with every register and the stack as the one core had
\* them when it called Safe_Activate, but for t5.
ActivationKeepsContext ==
  [][Returns("act_end") /\ ~rec =>
       /\ \A c \in Cell \ {T5} : reg'[c] = good.reg[c]
       /\ \A a \in Frame(good) : mem'[a] = good.mem[a]]_vars

RecoveryReturns == phase = "pop" /\ phase' \notin {"push", "pop"}

\* The recovery handler returns to what it interrupted with every register as
\* it was, whatever the routine was in the middle of.
RecoveryIsTransparent ==
  [][RecoveryReturns =>
       /\ \A c \in Cell \ {MEPC} : reg'[c] = entry.reg[c]
       /\ \A a \in Frame(entry) : mem'[a] = entry.mem[a]]_vars

\* When it returns, the struck core agrees in every cell that was not struck
\* again while the handler ran.
RecoveryRepairs ==
  [][RecoveryReturns => bad' \subseteq since' \cup
                          (IF MEPC \in since' THEN {PC} ELSE {})]_vars

\* A pair that comes out of Store_Checkpoint carries no difference from before
\* into the part of the program the checkpoint protects, and one that comes out
\* of Check_RF none in a register.
NothingLatent ==
  [][mode = "DCLS" =>
       /\ Returns("leave") => bad' \subseteq since'
       /\ Returns("scan") => bad' \cap X \subseteq since']_vars

\* Three cores that differ on the bus agree again in that cell, provided they
\* keep running.
ShownIsRepaired ==
  \A c \in Struck : (irq /\ c \in bad) ~> (c \notin bad)

\* the cores go on, and take an interrupt that stays pending
LiveSpec == Spec /\ WF_vars(Cores) /\ WF_vars(RecoverySync)
=============================================================================
