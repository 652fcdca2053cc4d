------------------------ MODULE CheckpointInv_proofs ------------------------
(***************************************************************************)
(* The invariant of Checkpoint, for any programs, depth of the stack,      *)
(* struck cells and number of faults; what the orders and the offsets of   *)
(* the assembly code are, word by word; and that the types are kept.       *)
(*                                                                         *)
(* The handler may interrupt a routine at every step. The invariant sees   *)
(* through it: At, Step and Own are the routine, its progress and its      *)
(* registers, whether it runs or waits for the handler to return.          *)
(***************************************************************************)
EXTENDS Checkpoint, SequenceTheorems, TLAPS

Handling == phase \in {"push", "pop"}
At       == IF Handling THEN back[1] ELSE phase
Step     == IF Handling THEN back[2] ELSE k
Own      == IF Handling THEN entry.reg ELSE reg

Library  == {"enter", "copy", "regs", "leave", "scan"}
Low      == Top - MaxDepth      \* the stack pointer of a program is not below

\* a context in which the program may call the library
Callable(r) == r[SP] \in Low..Top /\ r[PC] \in 0..Len(prog) - 1
IsContext(ctx) == /\ ctx.reg \in [Cell -> Nat]
                  /\ ctx.mem \in [ctx.reg[SP]..Top - 1 -> Nat]

Typed ==
  /\ mode \in {"TCLS", "DCLS"} /\ prog \in Programs
  /\ phase \in Phase /\ k \in 0..MaxDepth + 40
  /\ reg \in [Cell -> Nat] /\ reg[SP] \in Low - 11..Top /\ bad \in SUBSET Cell
  /\ mem \in [0..Top -> Nat] /\ safe \in [SafeWord -> Nat]
  /\ irq \in BOOLEAN /\ rec \in BOOLEAN /\ writing \in BOOLEAN /\ cut \in BOOLEAN
  /\ back \in Phase \X (0..MaxDepth + 40)
  /\ faults \in 0..MaxFaults
  /\ since \in SUBSET Cell
  /\ IsContext(call) /\ IsContext(good) /\ IsContext(entry)
  /\ Callable(call.reg) /\ Callable(good.reg)

-----------------------------------------------------------------------------
(* The routine, interrupted or not.                                        *)

\* by how much a routine has lowered the stack pointer
LoweredAt(at, step) == CASE at = "leave"             -> 7
                         [] at = "regs" /\ step > 7   -> 7
                         [] at = "scan"               -> 5
                         [] OTHER                     -> 0
Lowered == LoweredAt(At, Step)

\* registers that a routine uses for itself
UsedAt(at, step) ==
  CASE at \in {"copy", "regs", "leave"} -> Temps \cup {SP}
    [] at = "scan" -> {SP, A4, A5, T5} \cup (IF step > 31 THEN {} ELSE {T6})
    [] OTHER -> {}
Used == UsedAt(At, Step)

Base0 == call.reg[SP]           \* the stack pointer of the caller
Spoilt == {T2, T3, T6}          \* what irq 16 overwrites below a raised sp

RoutineInv ==
  /\ At = "run" => Callable(Own)
  /\ At = "copy" => Base0 # Top /\ Base0 + Step <= Top
  /\ At = "regs" => Step \in 1..37
  /\ At = "scan" => Step \in 1..32
  /\ At \in Library =>
       /\ Own[SP] = Base0 - Lowered
       /\ \A c \in Cell \ (Used \cup {MEPC}) : Own[c] = call.reg[c]
       /\ \A a \in Frame(call) : mem[a] = call.mem[a]
  /\ At \in {"copy", "regs", "leave"} =>
       \A c \in Temps : \/ mem[Base0 - Place(c)] = call.reg[c]
                        \/ cut /\ c \in Spoilt
  /\ At = "scan" => /\ mem[Base0 - 2] = call.reg[T5]
                    /\ mem[Base0 - 3] = call.reg[T6]

-----------------------------------------------------------------------------
(* The handler.                                                            *)

Entry == entry.reg[SP]          \* the stack pointer of what it interrupts

\* what the handler pushes for a cell
Pushed(c) == CASE c = SP   -> Entry - 4
               [] c = MEPC -> entry.reg[PC]
               [] OTHER    -> entry.reg[c]

HandlerInv ==
  Handling =>
    /\ back[1] \in Library \cup {"run"}
    /\ back[1] = "copy" \/ (back[1] = "regs" /\ back[2] <= 7) => cut
    /\ reg[SP] = Entry - 4 /\ reg[PC] = entry.reg[PC]
    /\ mem[Entry - 2] = entry.reg[A5]
    /\ \A a \in Frame(entry) : mem[a] = entry.mem[a]
    /\ \A c \in (X \cup Csr) \ {T6} : reg[c] = Pushed(c)
    /\ phase = "push" => reg[T6] = entry.reg[T6]
    /\ phase = "pop" =>
         /\ k \in 1..37
         /\ \A c \in X \cup Csr : mem[Entry - 4 - c] = Pushed(c)
         /\ k = 37 => reg[T6] = entry.reg[T6]

\* what the struck core still has to load, unless it was struck meanwhile
RepairInv ==
  Handling => \A c \in bad \ since :
    /\ c \in X \cup Csr
    /\ phase = "pop" => \E i \in k..36 : PopOrder[i] = c

\* only a voted group takes irq 16, only a pair is rolled back
ModeInv ==
  /\ mode = "DCLS" => ~irq /\ ~cut /\ ~Handling
  /\ rec => mode = "DCLS"
  /\ ~rec => phase \notin {"load_stack", "resumed", "asleep"}
  /\ rec => phase \notin {"activate", "act_end"}
  /\ mode = "DCLS" /\ writing =>
       phase \in {"copy", "regs", "restore", "load_stack", "resumed", "asleep"}

-----------------------------------------------------------------------------
(* The activation.                                                         *)

G == good.reg[SP]               \* the stack pointer Safe_Activate is called with

\* what Safe_Activate saves for a cell
ActSaved(c) == CASE c = SP -> G - 4
                 [] c = T5 -> Base
                 [] c = PC -> ActPc
                 [] OTHER  -> good.reg[c]

Activating == phase \in {"activate", "act_end"} \/ (phase = "restore" /\ ~rec)

ActivateInv ==
  /\ Activating =>
       /\ ~writing
       /\ \A a \in Frame(good) : mem[a] = good.mem[a]
       /\ good.reg[PC] = 0
       /\ ~(phase = "activate" /\ k = 0) => mem[G - 2] = good.reg[T6]
  /\ phase = "activate" =>
       /\ k \in 0..38
       /\ k = 0 => reg = good.reg
       /\ k > 0 => /\ reg[SP] = G - 4 /\ reg[T5] = Base
                   /\ \A c \in Cell \ {SP, T5, T6} : reg[c] = good.reg[c]
       /\ \A i \in 1..k - 1 : safe[StoreWord(ActOrder[i])] = ActSaved(ActOrder[i])
  /\ Activating /\ phase # "activate" => \A c \in Cell : safe[LoadWord(c)] = ActSaved(c)

-----------------------------------------------------------------------------
(* The restore.                                                            *)

Kept(c) == reg[c] = safe[LoadWord(c)] /\ c \notin bad
SafeSp == safe[LoadWord(SP)]
StackLoaded(n) == \A j \in 0..n - 1 : mem[SafeSp + j] = safe[37 + j]

RestoreInv ==
  /\ phase # "activate" => SafeSp \in Low - 4..Top
  /\ phase = "restore" =>
       /\ k \in 1..37
       /\ \A i \in 1..k - 1 : Kept(LoadOrder[i])
       /\ rec /\ k > 9 /\ SafeSp # Top => StackLoaded(Top - SafeSp + 1)
  /\ phase = "load_stack" =>
       /\ SafeSp + k <= Top /\ SafeSp # Top
       /\ reg[SP] = SafeSp + k /\ SP \notin bad
       /\ \A i \in 1..9 \ {7} : Kept(LoadOrder[i])
       /\ StackLoaded(k)
  /\ phase \in {"act_end", "resumed"} => \A c \in Cell : Kept(c)
  /\ phase = "resumed" => /\ reg[PC] # ActPc
                          /\ SafeSp # Top => StackLoaded(Top - SafeSp + 1)

-----------------------------------------------------------------------------
(* The safe copy of a pair.                                                *)

\* the copy holds everything that is live in a context
Holds(ctx) ==
  /\ \A c \in Live : safe[StoreWord(c)] = ctx.reg[c]
  /\ ctx.reg[SP] # Top => \A a \in Frame(ctx) : safe[37 + a - ctx.reg[SP]] = ctx.mem[a]

OldPlace == safe[StoreWord(PC)] \in {ActPc, good.reg[PC]}

CopyInv ==
  mode = "DCLS" /\ phase # "activate" =>
    /\ ~writing => safe[StoreWord(PC)] = ActPc \/ Holds(good)
    /\ phase = "copy" \/ (phase = "regs" /\ k <= 35) => OldPlace
    /\ writing => OldPlace \/ Holds(call)
    /\ phase \in Library => reg[MEPC] = call.reg[MEPC]
    /\ phase = "copy" => \A j \in 0..k - 1 : safe[37 + j] = call.mem[Base0 + j]
    /\ phase = "regs" =>
         /\ Base0 # Top =>
              \A a \in Frame(call) : safe[37 + a - Base0] = call.mem[a]
         /\ \A i \in 1..k - 1 : safe[StoreWord(StoreOrder[i])] = call.reg[StoreOrder[i]]

-----------------------------------------------------------------------------
(* What a pair has not shown yet.                                          *)

LatentInv ==
  mode = "DCLS" =>
    /\ phase \in {"copy", "regs", "leave"} =>
         \A c \in bad \ since : c \notin Temps \cup {SP, PC}
    /\ phase = "regs" => \A c \in bad \ since : \E i \in k..37 : StoreOrder[i] = c
    /\ phase = "leave" => bad \subseteq since
    /\ phase = "scan" => \A c \in (bad \ since) \cap X : c >= k /\ c \notin {T5, T6}

CheckpointInv ==
  Typed /\ RoutineInv /\ HandlerInv /\ RepairInv /\ ModeInv /\ ActivateInv
        /\ RestoreInv /\ CopyInv /\ LatentInv

-----------------------------------------------------------------------------
(* The orders in which the routines go through a context.                  *)

\* The five CSRs, then x1 to xn.
LEMMA CsrsThenRegisters ==
  ASSUME NEW n \in Nat
  PROVE  LET o == <<32, 33, 34, 35, 36>> \o [c \in 1..n |-> c]
         IN /\ o \in Seq(Nat) /\ Len(o) = n + 5
            /\ \A i \in 1..5 : o[i] = 31 + i
            /\ \A i \in 6..n + 5 : o[i] = i - 5
<1> DEFINE csrs == <<32, 33, 34, 35, 36>>
           regs == [c \in 1..n |-> c]
<1>1. /\ regs \in Seq(Nat) /\ Len(regs) = n
      /\ \A i \in 1..n : regs[i] = i
  OBVIOUS
<1>2. /\ csrs \in Seq(Nat) /\ Len(csrs) = 5
      /\ \A i \in 1..5 : csrs[i] = 31 + i
  OBVIOUS
<1> HIDE DEF csrs, regs
<1> DEFINE both == csrs \o regs
<1>3. /\ both \in Seq(Nat) /\ Len(both) = Len(csrs) + Len(regs)
      /\ \A i \in 1..Len(csrs) + Len(regs) :
           both[i] = IF i <= Len(csrs) THEN csrs[i] ELSE regs[i - Len(csrs)]
  BY <1>1, <1>2, ConcatProperties, ZenonT(60)
<1> HIDE DEF both
<1>4. \A i \in 1..5 : both[i] = 31 + i
  <2> TAKE i \in 1..5
  <2>1. i \in 1..Len(csrs) + Len(regs) /\ i <= Len(csrs)
    BY <1>1, <1>2
  <2>2. both[i] = csrs[i]
    BY <1>3, <2>1
  <2> QED
    BY <1>2, <2>2
<1>5. \A i \in 6..n + 5 : both[i] = i - 5
  <2> TAKE i \in 6..n + 5
  <2>1. i \in 1..Len(csrs) + Len(regs) /\ ~(i <= Len(csrs)) /\ i - 5 \in 1..n
    BY <1>1, <1>2
  <2>2. both[i] = regs[i - Len(csrs)]
    BY <1>3, <2>1
  <2> QED
    BY <1>1, <1>2, <2>1, <2>2
<1>6. both \in Seq(Nat) /\ Len(both) = n + 5
  BY <1>1, <1>2, <1>3
<1> QED
  BY <1>4, <1>5, <1>6, Zenon DEF both, csrs, regs

\* ... and then a rest.
LEMMA CsrsRegistersRest ==
  ASSUME NEW n \in Nat, NEW rest \in Seq(Nat)
  PROVE  LET o == <<32, 33, 34, 35, 36>> \o [c \in 1..n |-> c] \o rest
         IN /\ \A i \in 1..5 : o[i] = 31 + i
            /\ \A i \in 6..n + 5 : o[i] = i - 5
            /\ \A i \in 1..Len(rest) : o[n + 5 + i] = rest[i]
<1> DEFINE first == <<32, 33, 34, 35, 36>> \o [c \in 1..n |-> c]
<1>1. /\ first \in Seq(Nat) /\ Len(first) = n + 5
      /\ \A i \in 1..5 : first[i] = 31 + i
      /\ \A i \in 6..n + 5 : first[i] = i - 5
  BY CsrsThenRegisters
<1> HIDE DEF first
<1> DEFINE all == first \o rest
<1>2. \A i \in 1..Len(first) + Len(rest) :
        all[i] = IF i <= Len(first) THEN first[i] ELSE rest[i - Len(first)]
  BY <1>1, ConcatProperties, Zenon
<1>3. Len(rest) \in Nat
  BY LenProperties
<1> HIDE DEF all
<1>4. \A i \in 1..Len(rest) : all[n + 5 + i] = rest[i]
  <2> TAKE i \in 1..Len(rest)
  <2> DEFINE j == n + 5 + i
  <2>1. j \in 1..Len(first) + Len(rest) /\ ~(j <= Len(first)) /\ j - Len(first) = i
    BY <1>1, <1>3
  <2> HIDE DEF j
  <2>2. all[j] = rest[j - Len(first)]
    BY <1>2, <2>1
  <2> QED
    BY <2>1, <2>2 DEF j
<1>5. \A i \in 1..n + 5 : all[i] = first[i]
  <2> TAKE i \in 1..n + 5
  <2>1. i \in 1..Len(first) + Len(rest) /\ i <= Len(first)
    BY <1>1, <1>3
  <2> QED
    BY <1>2, <2>1
<1>6. /\ \A i \in 1..5 : all[i] = 31 + i
      /\ \A i \in 6..n + 5 : all[i] = i - 5
  <2>1. 1..5 \subseteq 1..n + 5 /\ 6..n + 5 \subseteq 1..n + 5
    OBVIOUS
  <2> QED
    BY <1>1, <1>5, <2>1, Zenon
<1> QED
  BY <1>4, <1>6, Zenon DEF all, first

LEMMA StoreOrderIs ==
  /\ \A i \in 1..5 : StoreOrder[i] = 31 + i
  /\ \A i \in 6..34 : StoreOrder[i] = i - 5
  /\ StoreOrder[35] = PC /\ StoreOrder[36] = T5 /\ StoreOrder[37] = T6
<1> DEFINE rest == <<PC, T5, T6>>
           n == 29
<1>1. /\ rest \in Seq(Nat) /\ Len(rest) = 3
      /\ rest[1] = PC /\ rest[2] = T5 /\ rest[3] = T6
  BY DEF PC, T5, T6
<1>2. /\ \A i \in 1..5 : StoreOrder[i] = 31 + i
      /\ \A i \in 6..n + 5 : StoreOrder[i] = i - 5
      /\ \A i \in 1..Len(rest) : StoreOrder[n + 5 + i] = rest[i]
  BY <1>1, CsrsRegistersRest, ZenonT(60) DEF StoreOrder
<1> QED
  BY <1>1, <1>2

LEMMA LoadOrderIs ==
  /\ \A i \in 1..5 : LoadOrder[i] = 31 + i
  /\ \A i \in 6..34 : LoadOrder[i] = i - 5
  /\ LoadOrder[35] = PC /\ LoadOrder[36] = T6 /\ LoadOrder[37] = T5
<1> DEFINE rest == <<PC, T6, T5>>
           n == 29
<1>1. /\ rest \in Seq(Nat) /\ Len(rest) = 3
      /\ rest[1] = PC /\ rest[2] = T6 /\ rest[3] = T5
  BY DEF PC, T5, T6
<1>2. /\ \A i \in 1..5 : LoadOrder[i] = 31 + i
      /\ \A i \in 6..n + 5 : LoadOrder[i] = i - 5
      /\ \A i \in 1..Len(rest) : LoadOrder[n + 5 + i] = rest[i]
  BY <1>1, CsrsRegistersRest, ZenonT(60) DEF LoadOrder
<1> QED
  BY <1>1, <1>2

LEMMA ActOrderIs ==
  /\ \A i \in 1..5 : ActOrder[i] = 31 + i
  /\ \A i \in 6..36 : ActOrder[i] = i - 5
  /\ ActOrder[37] = PC
<1> DEFINE rest == <<PC>>
           n == 31
<1>1. rest \in Seq(Nat) /\ Len(rest) = 1 /\ rest[1] = PC
  BY DEF PC
<1>2. /\ \A i \in 1..5 : ActOrder[i] = 31 + i
      /\ \A i \in 6..n + 5 : ActOrder[i] = i - 5
      /\ \A i \in 1..Len(rest) : ActOrder[n + 5 + i] = rest[i]
  BY <1>1, CsrsRegistersRest, Zenon DEF ActOrder
<1> QED
  BY <1>1, <1>2

LEMMA PopOrderIs ==
  /\ \A i \in 1..5 : PopOrder[i] = 31 + i
  /\ \A i \in 6..36 : PopOrder[i] = i - 5
BY CsrsThenRegisters DEF PopOrder, X

-----------------------------------------------------------------------------
(* Types.                                                                  *)

USE DEF SP, T2, A4, A5, T3, T4, T5, T6, MEPC, PC, X, Csr, Cell

LEMMA Constants ==
  /\ MaxDepth \in Nat /\ Top \in Nat /\ Low \in Nat
  /\ Low >= 47 /\ Top = Low + MaxDepth
BY CheckpointAssumption DEF Low

LEMMA ProgramDepth ==
  ASSUME prog \in Programs
  PROVE  /\ prog \in Seq(0..MaxDepth)
         /\ Len(prog) \in Nat /\ Len(prog) > 0
         /\ \A point \in 0..Len(prog) - 1 : prog[point + 1] \in 0..MaxDepth
<1>1. prog \in Seq(0..MaxDepth) /\ prog # <<>>
  BY CheckpointAssumption
<1>2. Len(prog) \in Nat /\ Len(prog) > 0
  BY <1>1, EmptySeq
<1>3. \A i \in 1..Len(prog) : prog[i] \in 0..MaxDepth
  BY <1>1, ElementOfSeq
<1>4. ASSUME NEW point \in 0..Len(prog) - 1 PROVE point + 1 \in 1..Len(prog)
  BY <1>2
<1> QED
  BY <1>1, <1>2, <1>3, <1>4

LEMMA FreshTypes ==
  ASSUME prog \in Programs, NEW point \in 0..Len(prog) - 1
  PROVE  /\ FreshReg(point) \in [Cell -> Nat] /\ Callable(FreshReg(point))
         /\ FreshMem(point) \in [0..Top -> Nat]
<1>1. prog[point + 1] \in 0..MaxDepth /\ point \in Nat
  BY ProgramDepth
<1>2. \A i \in Nat : Computed(i, point) \in Nat
  <2>1. (38 + MaxDepth) * point \in Nat
    BY <1>1, Constants
  <2> QED
    BY <2>1, Constants DEF Computed
<1>3. Base \in Nat /\ Junk \in Nat /\ ActPc \in Nat
  BY Constants DEF Base, Junk, ActPc
<1> DEFINE R(c) == CASE c = SP -> Top - prog[point + 1]
                     [] c = PC -> point
                     [] OTHER  -> Computed(c, point)
<1>4. R(SP) = Top - prog[point + 1] /\ R(PC) = point
  OBVIOUS
<1>5. \A c \in Cell \ {SP, PC} : R(c) = Computed(c, point)
  OBVIOUS
<1>6. FreshReg(point) = [c \in Cell |-> R(c)]
  BY Zenon DEF FreshReg
<1> HIDE DEF R
<1>7. Top - prog[point + 1] \in Low..Top /\ Top - prog[point + 1] \in Nat
  BY <1>1, Constants
<1>8. FreshReg(point) \in [Cell -> Nat] /\ Callable(FreshReg(point))
  <2>1. ASSUME NEW c \in Cell PROVE R(c) \in Nat
    <3>1. CASE c = SP
      BY <1>4, <1>7, <3>1
    <3>2. CASE c = PC
      BY <1>1, <1>4, <3>2
    <3>3. CASE c \in Cell \ {SP, PC}
      <4>1. c \in Nat /\ R(c) = Computed(c, point)
        BY <1>5, <3>3
      <4> QED
        BY <1>2, <4>1
    <3> QED
      BY <3>1, <3>2, <3>3
  <2>2. FreshReg(point) \in [Cell -> Nat]
    BY <1>6, <2>1
  <2>3. FreshReg(point)[SP] = R(SP) /\ FreshReg(point)[PC] = R(PC)
    BY <1>6
  <2> QED
    BY <1>4, <1>7, <2>2, <2>3, Zenon DEF Callable
<1>9. FreshMem(point) \in [0..Top -> Nat]
  <2>1. ASSUME NEW a \in Top - prog[point + 1]..Top - 1
        PROVE  Computed(37 + Top - a, point) \in Nat
    <3>1. 37 + Top - a \in Nat
      BY <1>7, Constants
    <3> QED
      BY <1>2, <3>1
  <2> QED
    BY <1>3, <2>1, Constants DEF FreshMem
<1> QED
  BY <1>8, <1>9

LEMMA HereIs ==
  ASSUME reg \in [Cell -> Nat], mem \in [0..Top -> Nat]
  PROVE  /\ Here.reg = reg /\ Frame(Here) = reg[SP]..Top - 1 /\ IsContext(Here)
         /\ \A a \in reg[SP]..Top - 1 : Here.mem[a] = mem[a]
<1> DEFINE m == [a \in reg[SP]..Top - 1 |-> mem[a]]
<1>1. reg[SP] \in Nat /\ reg[SP]..Top - 1 \subseteq 0..Top
  <2>1. reg[SP] \in Nat
    OBVIOUS
  <2>2. ASSUME NEW n \in Nat PROVE n..Top - 1 \subseteq 0..Top
    BY Constants
  <2> QED
    BY <2>1, <2>2, Zenon
<1>2. m \in [reg[SP]..Top - 1 -> Nat]
  BY <1>1
<1>3. Here.reg = reg /\ Here.mem = m
  BY DEF Here
<1>4. DOMAIN m = reg[SP]..Top - 1 /\ \A a \in reg[SP]..Top - 1 : m[a] = mem[a]
  OBVIOUS
<1> HIDE DEF m
<1> QED
  BY <1>2, <1>3, <1>4, Zenon DEF Frame, IsContext

LEMMA FrameIs ==
  ASSUME NEW ctx, IsContext(ctx)
  PROVE  Frame(ctx) = ctx.reg[SP]..Top - 1 /\ ctx.reg[SP] \in Nat
<1>1. Frame(ctx) = ctx.reg[SP]..Top - 1
  BY Zenon DEF IsContext, Frame
<1>2. ctx.reg[SP] \in Nat
  <2>1. ctx.reg \in [Cell -> Nat] /\ SP \in Cell
    BY DEF IsContext
  <2> QED
    BY <2>1, Zenon
<1> QED
  BY <1>1, <1>2

LEMMA LoweredIs ==
  ASSUME NEW step
  PROVE  /\ LoweredAt("leave", step) = 7 /\ LoweredAt("scan", step) = 5
         /\ step > 7 => LoweredAt("regs", step) = 7
         /\ ~(step > 7) => LoweredAt("regs", step) = 0
         /\ LoweredAt("enter", step) = 0 /\ LoweredAt("copy", step) = 0
BY DEF LoweredAt

LEMMA UsedIs ==
  ASSUME NEW step
  PROVE  /\ \A at \in {"copy", "regs", "leave"} : UsedAt(at, step) = Temps \cup {SP}
         /\ step > 31 => UsedAt("scan", step) = {SP, A4, A5, T5}
         /\ ~(step > 31) => UsedAt("scan", step) = {SP, A4, A5, T5, T6}
         /\ UsedAt("enter", step) = {}
BY Zenon DEF UsedAt

LEMMA StackPointers ==
  ASSUME Typed
  PROVE  /\ Base0 \in Low..Top /\ Base0 \in Nat
         /\ G \in Low..Top /\ G \in Nat
         /\ k \in Nat
<1>1. Callable(call.reg) /\ Callable(good.reg) /\ k \in 0..MaxDepth + 40
  BY DEF Typed
<1>2. Base0 \in Low..Top /\ G \in Low..Top
  BY <1>1, Zenon DEF Callable, Base0, G
<1> HIDE DEF Base0, G
<1> QED
  BY <1>1, <1>2, Constants

\* Where the stack pointer of a program or a routine is.
LEMMA OwnSp ==
  ASSUME Typed, RoutineInv, At \in Library \cup {"run"}
  PROVE  /\ Own[SP] \in Low - 7..Top
         /\ At \in {"run", "enter", "copy"} => Own[SP] \in Low..Top
<1>1. CASE At = "run"
  <2>1. Callable(Own)
    BY <1>1 DEF RoutineInv
  <2>2. Own[SP] \in Low..Top
    BY <2>1 DEF Callable
  <2> QED
    BY <2>2, Constants
<1>2. CASE At \in Library
  <2>1. LoweredAt(At, Step) \in {0, 5, 7}
        /\ (At \in {"enter", "copy"} => LoweredAt(At, Step) = 0)
    BY <1>2, LoweredIs DEF Library
  <2>2. Own[SP] = Base0 - LoweredAt(At, Step)
    BY <1>2 DEF RoutineInv, Lowered
  <2>3. Base0 \in Low..Top
    BY StackPointers
  <2>4. Own[SP] \in Low - 7..Top
    BY <2>1, <2>2, <2>3, Constants
  <2>5. At \in {"enter", "copy"} => Own[SP] \in Low..Top
    BY <2>1, <2>2, <2>3, Constants
  <2> QED
    BY <1>2, <2>4, <2>5 DEF Library
<1> QED
  BY <1>1, <1>2

LEMMA RunningSp ==
  ASSUME Typed, RoutineInv, phase \in Library \cup {"run"}
  PROVE  /\ ~Handling /\ At = phase /\ Step = k /\ Own = reg
         /\ reg[SP] \in Low - 7..Top
         /\ phase \in {"run", "enter", "copy"} => reg[SP] \in Low..Top
<1>1. ~Handling
  BY DEF Library, Handling
<1>2. At = phase /\ Step = k /\ Own = reg
  BY <1>1 DEF At, Step, Own
<1> QED
  BY <1>1, <1>2, OwnSp

LEMMA EntrySp ==
  ASSUME Typed, RoutineInv, HandlerInv, Handling
  PROVE  /\ At \in Library \cup {"run"} /\ At = back[1] /\ Step = back[2] /\ Own = entry.reg
         /\ reg[SP] = Entry - 4 /\ Entry \in Low - 7..Top
         /\ At = "copy" => Entry \in Low..Top
<1>1. At = back[1] /\ Step = back[2] /\ Own = entry.reg
  BY DEF At, Step, Own
<1>2. back[1] \in Library \cup {"run"} /\ reg[SP] = Entry - 4
  BY DEF HandlerInv
<1> QED
  BY <1>1, <1>2, OwnSp DEF Entry

\* Which actions change what.
LEMMA Changes ==
  ASSUME [Next]_vars
  PROVE  /\ mode' = mode /\ prog' = prog
         /\ safe' = safe \/ ActivateSave \/ StoreStack \/ StoreReg
         /\ \/ mem' = mem
            \/ ActivateEnter \/ ActivateSave \/ Work \/ StoreEnter \/ CheckCall
            \/ LoadStack \/ RecoverySync \/ Push
         /\ rec' = rec \/ Mismatch
         /\ back' = back \/ RecoverySync \/ RecoveryLeave
         /\ entry' = entry \/ RecoverySync \/ RecoveryLeave
         /\ call' = call \/ Work \/ StoreCall \/ CheckCall
         /\ good' = good \/ StoreReg \/ Resume
         /\ writing' = writing \/ StoreStack \/ StoreReg \/ Resume
         /\ faults' = faults \/ \E c \in Struck : Strike(c)
<1>1. CASE ActivateEnter
  BY <1>1 DEF ActivateEnter, ghosts
<1>2. CASE ActivateSave
  BY <1>2 DEF ActivateSave, ghosts
<1>3. CASE ActivateSleep
  BY <1>3 DEF ActivateSleep, ghosts
<1>4. CASE ActivateLeave
  BY <1>4 DEF ActivateLeave, ghosts
<1>5. CASE Work
  BY <1>5 DEF Work, ghosts
<1>6. CASE StoreCall
  BY <1>6 DEF StoreCall, ghosts
<1>7. CASE StoreEnter
  BY <1>7 DEF StoreEnter, ghosts
<1>8. CASE StoreStack
  BY <1>8 DEF StoreStack, ghosts
<1>9. CASE StoreReg
  BY <1>9 DEF StoreReg, ghosts
<1>10. CASE StoreLeave
  BY <1>10 DEF StoreLeave, ghosts
<1>11. CASE CheckCall
  BY <1>11 DEF CheckCall, ghosts
<1>12. CASE CheckReg
  BY <1>12 DEF CheckReg, ghosts
<1>13. CASE CheckLeave
  BY <1>13 DEF CheckLeave, ghosts
<1>14. CASE Mismatch
  BY <1>14 DEF Mismatch, ghosts
<1>15. CASE RestoreReg
  BY <1>15 DEF RestoreReg, ghosts
<1>16. CASE LoadStack
  BY <1>16 DEF LoadStack, ghosts
<1>17. CASE Resume
  BY <1>17 DEF Resume, ghosts
<1>18. CASE RecoverySync
  BY <1>18 DEF RecoverySync, ghosts
<1>19. CASE Push
  BY <1>19 DEF Push, ghosts
<1>20. CASE Pop
  BY <1>20 DEF Pop, ghosts
<1>21. CASE RecoveryLeave
  BY <1>21 DEF RecoveryLeave, ghosts
<1>22. CASE \E c \in Struck : Strike(c)
  BY <1>22 DEF Strike
<1>23. CASE Done \/ UNCHANGED vars
  BY <1>23 DEF Done, vars, ghosts
<1> QED
  BY <1>1, <1>2, <1>3, <1>4, <1>5, <1>6, <1>7, <1>8, <1>9, <1>10, <1>11, <1>12, <1>13, <1>14, <1>15, <1>16, <1>17, <1>18, <1>19, <1>20, <1>21, <1>22, <1>23
     DEF Next, Cores

\* Every cell has its own word in the safe copy, below the stack.
LEMMA Words ==
  /\ \A c \in Cell : StoreWord(c) \in 0..36 /\ LoadWord(c) = StoreWord(c)
  /\ \A c, d \in Cell : StoreWord(c) = StoreWord(d) => c = d
  /\ 0..36 \subseteq SafeWord /\ \A j \in 0..MaxDepth + 4 : 37 + j \in SafeWord
<1>1. \A c \in Cell : StoreWord(c) = IF c \in Csr THEN c - 32 ELSE IF c = PC THEN 36 ELSE c + 4
  BY DEF StoreWord
<1>2. \A c \in Cell : LoadWord(c) = StoreWord(c)
  BY Zenon DEF StoreWord, LoadWord
<1>3. /\ \A c \in Cell : StoreWord(c) \in 0..36
      /\ \A c, d \in Cell : StoreWord(c) = StoreWord(d) => c = d
  BY <1>1
<1>4. 0..36 \subseteq SafeWord /\ \A j \in 0..MaxDepth + 4 : 37 + j \in SafeWord
  BY Constants DEF SafeWord
<1> QED
  BY <1>2, <1>3, <1>4

\* StoreOrder and LoadOrder name each cell once; the temporaries come after
\* the stack pointer has been lowered again.
LEMMA StoreOrderCells ==
  /\ \A i \in 1..37 : StoreOrder[i] \in Cell
  /\ \A i \in 1..37 : (StoreOrder[i] = SP) <=> (i = 7)
  /\ \A i \in 1..37 : (StoreOrder[i] \in Temps) <=> (i \in {12, 33, 34, 36, 37})
  /\ \A c \in Cell : \E i \in 1..37 : StoreOrder[i] = c
  /\ \A c \in Live : \E i \in 1..35 : StoreOrder[i] = c
<1>1. \A c \in Cell : \E i \in 1..37 : StoreOrder[i] = c /\ (c \in Live => i \in 1..35)
  <2> TAKE c \in Cell
  <2>1. CASE c \in 1..29
    <3>1. c + 5 \in 6..34 /\ (c + 5) - 5 = c /\ c + 5 \in 1..35
      BY <2>1
    <3> QED
      BY <3>1, StoreOrderIs
  <2>2. CASE c \in 32..36
    <3>1. c - 31 \in 1..5 /\ 31 + (c - 31) = c /\ c - 31 \in 1..35
      BY <2>2
    <3> QED
      BY <3>1, StoreOrderIs
  <2>3. CASE c \in {30, 31, 37}
    BY <2>3, StoreOrderIs DEF Live
  <2> QED
    BY <2>1, <2>2, <2>3
<1>2. \A i \in 1..37 : /\ i \in 1..5 => StoreOrder[i] = 31 + i
                       /\ i \in 6..34 => StoreOrder[i] = i - 5
                       /\ i = 35 => StoreOrder[i] = 37
                       /\ i = 36 => StoreOrder[i] = 30
                       /\ i = 37 => StoreOrder[i] = 31
  BY StoreOrderIs
<1>3. \A c \in Live : c \in Cell
  BY DEF Live
<1>4. \A i \in 1..37 : StoreOrder[i] \in Cell
  BY <1>2
<1>5. \A i \in 1..37 : (StoreOrder[i] = SP) <=> (i = 7)
  BY <1>2
<1>6. \A i \in 1..37 : (StoreOrder[i] \in Temps) <=> (i \in {12, 33, 34, 36, 37})
  BY <1>2 DEF Temps
<1> QED
  BY <1>1, <1>3, <1>4, <1>5, <1>6

LEMMA LoadOrderCells ==
  /\ \A i \in 1..37 : LoadOrder[i] \in Cell
  /\ \A i \in 1..37 : (LoadOrder[i] = SP) <=> (i = 7)
  /\ \A c \in Cell : \E i \in 1..37 : LoadOrder[i] = c
  /\ \A i, j \in 1..37 : LoadOrder[i] = LoadOrder[j] => i = j
<1>1. \A c \in Cell : \E i \in 1..37 : LoadOrder[i] = c
  <2> TAKE c \in Cell
  <2>1. CASE c \in 1..29
    <3>1. c + 5 \in 6..34 /\ (c + 5) - 5 = c /\ c + 5 \in 1..37
      BY <2>1
    <3> QED
      BY <3>1, LoadOrderIs
  <2>2. CASE c \in 32..36
    <3>1. c - 31 \in 1..5 /\ 31 + (c - 31) = c /\ c - 31 \in 1..37
      BY <2>2
    <3> QED
      BY <3>1, LoadOrderIs
  <2>3. CASE c \in {30, 31, 37}
    BY <2>3, LoadOrderIs
  <2> QED
    BY <2>1, <2>2, <2>3
<1>2. \A i \in 1..37 : /\ i \in 1..5 => LoadOrder[i] = 31 + i
                       /\ i \in 6..34 => LoadOrder[i] = i - 5
                       /\ i = 35 => LoadOrder[i] = 37
                       /\ i = 36 => LoadOrder[i] = 31
                       /\ i = 37 => LoadOrder[i] = 30
  BY LoadOrderIs
<1>3. \A i \in 1..37 : LoadOrder[i] \in Cell
  BY <1>2
<1>4. \A i \in 1..37 : (LoadOrder[i] = SP) <=> (i = 7)
  BY <1>2
<1>5. ASSUME NEW i \in 1..37, NEW j \in 1..37, LoadOrder[i] = LoadOrder[j] PROVE i = j
  BY <1>2, <1>5
<1> QED
  BY <1>1, <1>3, <1>4, <1>5

LEMMA ActOrderCells ==
  /\ \A i \in 1..37 : ActOrder[i] \in Cell
  /\ \A c \in Cell : \E i \in 1..37 : ActOrder[i] = c
  /\ \A i, j \in 1..37 : ActOrder[i] = ActOrder[j] => i = j
<1>1. \A c \in Cell : \E i \in 1..37 : ActOrder[i] = c
  <2> TAKE c \in Cell
  <2>1. CASE c \in 1..31
    <3>1. c + 5 \in 6..36 /\ (c + 5) - 5 = c /\ c + 5 \in 1..37
      BY <2>1
    <3> QED
      BY <3>1, ActOrderIs
  <2>2. CASE c \in 32..36
    <3>1. c - 31 \in 1..5 /\ 31 + (c - 31) = c /\ c - 31 \in 1..37
      BY <2>2
    <3> QED
      BY <3>1, ActOrderIs
  <2>3. CASE c = 37
    BY <2>3, ActOrderIs
  <2> QED
    BY <2>1, <2>2, <2>3
<1>2. \A i \in 1..37 : /\ i \in 1..5 => ActOrder[i] = 31 + i
                       /\ i \in 6..36 => ActOrder[i] = i - 5
                       /\ i = 37 => ActOrder[i] = 37
  BY ActOrderIs
<1>3. \A i \in 1..37 : ActOrder[i] \in Cell
  BY <1>2
<1>5. ASSUME NEW i \in 1..37, NEW j \in 1..37, ActOrder[i] = ActOrder[j] PROVE i = j
  BY <1>2, <1>5
<1> QED
  BY <1>1, <1>3, <1>5

LEMMA PopOrderCells ==
  /\ \A i \in 1..36 : PopOrder[i] \in X \cup Csr
  /\ \A i \in 1..36 : (PopOrder[i] = T6) <=> (i = 36)
  /\ \A c \in X \cup Csr : \E i \in 1..36 : PopOrder[i] = c
<1>1. \A c \in X \cup Csr : \E i \in 1..36 : PopOrder[i] = c
  <2> TAKE c \in X \cup Csr
  <2>1. CASE c \in 1..31
    <3>1. c + 5 \in 6..36 /\ (c + 5) - 5 = c /\ c + 5 \in 1..36
      BY <2>1
    <3> QED
      BY <3>1, PopOrderIs
  <2>2. CASE c \in 32..36
    <3>1. c - 31 \in 1..5 /\ 31 + (c - 31) = c /\ c - 31 \in 1..36
      BY <2>2
    <3> QED
      BY <3>1, PopOrderIs
  <2> QED
    BY <2>1, <2>2
<1>2. \A i \in 1..36 : /\ i \in 1..5 => PopOrder[i] = 31 + i
                       /\ i \in 6..36 => PopOrder[i] = i - 5
  BY PopOrderIs
<1>3. \A i \in 1..36 : PopOrder[i] \in X \cup Csr
  BY <1>2
<1>4. \A i \in 1..36 : (PopOrder[i] = T6) <=> (i = 36)
  BY <1>2
<1> QED
  BY <1>1, <1>3, <1>4

\* The temporaries, from the highest word of the frame down.
LEMMA Places ==
  /\ Stacked[1] = T2 /\ Stacked[2] = T3 /\ Stacked[3] = T4
  /\ Stacked[4] = T5 /\ Stacked[5] = T6
  /\ \A c \in Temps : Place(c) \in 1..5 /\ Stacked[Place(c)] = c
  /\ Place(T2) = 1 /\ Place(T3) = 2 /\ Place(T4) = 3 /\ Place(T5) = 4 /\ Place(T6) = 5
<1>1. /\ Stacked[1] = T2 /\ Stacked[2] = T3 /\ Stacked[3] = T4
      /\ Stacked[4] = T5 /\ Stacked[5] = T6
  BY DEF Stacked
<1>2. ASSUME NEW c \in Temps PROVE Place(c) \in 1..5 /\ Stacked[Place(c)] = c
  <2>1. \E i \in 1..5 : Stacked[i] = c
    BY <1>1 DEF Temps
  <2> QED
    BY <2>1, Zenon DEF Place
<1>3. \A c \in Temps : /\ c = T2 => Place(c) = 1
                       /\ c = T3 => Place(c) = 2
                       /\ c = T4 => Place(c) = 3
                       /\ c = T5 => Place(c) = 4
                       /\ c = T6 => Place(c) = 5
  BY <1>1, <1>2
<1> QED
  BY <1>1, <1>2, <1>3 DEF Temps

-----------------------------------------------------------------------------
(* One word of Store_Checkpoint.                                           *)

Saved(c) == IF c \in Temps THEN mem[Base0 - Place(c)] ELSE reg[c]

LEMMA StoreRegIs ==
  ASSUME Typed, RoutineInv, StoreReg
  PROVE  /\ k \in 1..37 /\ StoreOrder[k] \in Cell /\ At = "regs" /\ Step = k /\ Own = reg
         /\ Saved(StoreOrder[k]) \in Nat
         /\ safe' = [safe EXCEPT ![StoreWord(StoreOrder[k])] = Saved(StoreOrder[k])]
         /\ k = 7 => reg' = [reg EXCEPT ![SP] = Base0 - 7]
         /\ StoreOrder[k] \in {T2, T3, T4} =>
              reg' = [reg EXCEPT ![StoreOrder[k]] = Saved(StoreOrder[k])]
         /\ k # 7 /\ StoreOrder[k] \notin {T2, T3, T4} => reg' = [reg EXCEPT ![T6] = Junk]
<1> DEFINE c == StoreOrder[k]
           v == IF c \in Temps THEN mem[reg[SP] + 7 - Place(c)] ELSE reg[c]
<1>1. phase = "regs" /\ At = "regs" /\ Step = k /\ Own = reg
  BY RunningSp DEF StoreReg, Library
<1>2. k \in 1..37 /\ c \in Cell
  BY <1>1, StoreOrderCells DEF RoutineInv
<1>3. reg[SP] = Base0 - LoweredAt("regs", k) /\ Base0 \in Low..Top
  BY <1>1 DEF RoutineInv, Lowered, Library, Typed, Callable, Base0
<1>4. c \in Temps => reg[SP] + 7 - Place(c) = Base0 - Place(c) /\ mem[Base0 - Place(c)] \in Nat
  <2> SUFFICES ASSUME c \in Temps
               PROVE  /\ reg[SP] + 7 - Place(c) = Base0 - Place(c)
                      /\ mem[Base0 - Place(c)] \in Nat
    OBVIOUS
  <2>1. k > 7
    BY <1>2, StoreOrderCells
  <2>2. reg[SP] = Base0 - 7
    BY <1>3, <2>1, LoweredIs
  <2>3. Place(c) \in 1..5
    BY Places
  <2>4. reg[SP] + 7 - Place(c) = Base0 - Place(c) /\ Base0 - Place(c) \in 0..Top
    BY <1>3, <2>2, <2>3, Constants
  <2> QED
    BY <2>4 DEF Typed
<1>5. v = Saved(c) /\ Saved(c) \in Nat
  BY <1>2, <1>4 DEF Saved, Typed
<1>6. /\ safe' = [safe EXCEPT ![StoreWord(c)] = v]
      /\ reg' = CASE c = SP -> [reg EXCEPT ![SP] = @ - 7]
                  [] c \in {T2, T3, T4} -> [reg EXCEPT ![c] = v]
                  [] OTHER -> [reg EXCEPT ![T6] = Junk]
  BY Zenon DEF StoreReg
<1> HIDE DEF v, c
<1>7. (c = SP) <=> (k = 7)
  BY <1>2, StoreOrderCells DEF c
<1>8. k = 7 => reg' = [reg EXCEPT ![SP] = Base0 - 7]
  <2> SUFFICES ASSUME k = 7 PROVE reg' = [reg EXCEPT ![SP] = Base0 - 7]
    OBVIOUS
  <2>1. reg[SP] = Base0
    BY <1>3, LoweredIs, Constants
  <2> QED
    BY <1>6, <1>7, <2>1
<1>9. c \in {T2, T3, T4} => reg' = [reg EXCEPT ![c] = v]
  BY <1>6
<1>10. k # 7 /\ c \notin {T2, T3, T4} => reg' = [reg EXCEPT ![T6] = Junk]
  BY <1>6, <1>7
<1> QED
  BY <1>1, <1>2, <1>5, <1>6, <1>8, <1>9, <1>10 DEF c

-----------------------------------------------------------------------------
(* Types are kept.                                                         *)

LEMMA ValuesAreNat == Base \in Nat /\ Junk \in Nat /\ ActPc \in Nat
BY Constants DEF Base, Junk, ActPc

LEMMA MemTyped ==
  ASSUME CheckpointInv, [Next]_vars
  PROVE  mem' \in [0..Top -> Nat]
<1> USE DEF CheckpointInv
<1>1. reg \in [Cell -> Nat] /\ mem \in [0..Top -> Nat] /\ safe \in [SafeWord -> Nat]
  BY DEF Typed
<1>a. \A c \in Cell : reg[c] \in Nat
  BY <1>1
<1>b. /\ reg[T4] \in Nat /\ reg[T5] \in Nat /\ reg[T6] \in Nat
      /\ reg[A4] \in Nat /\ reg[A5] \in Nat
  BY <1>1
<1>2. CASE mem' = mem
  BY <1>1, <1>2
<1>3. CASE ActivateEnter
  <2>1. mem' = [mem EXCEPT ![reg[SP] - 1] = reg[T5], ![reg[SP] - 2] = reg[T6]]
    BY <1>3, Zenon DEF ActivateEnter
  <2> QED
    BY <1>1, <1>b, <2>1
<1>4. CASE ActivateSave
  <2>1. mem' = mem \/ mem' = [mem EXCEPT ![reg[SP] + 3] = reg[T5]]
    BY <1>4, Zenon DEF ActivateSave
  <2> QED
    BY <1>1, <1>b, <2>1
<1>5. CASE Work
  <2>1. phase = "run" /\ Point \in Nat /\ Point + 1 < Len(prog) /\ prog \in Programs
    BY <1>1, <1>5 DEF Work, Point, Typed
  <2>2. Point + 1 \in 0..Len(prog) - 1
    BY <2>1, ProgramDepth
  <2>3. FreshMem(Point + 1) \in [0..Top -> Nat]
    BY <2>1, <2>2, FreshTypes
  <2>4. mem' = [FreshMem(Point + 1) EXCEPT ![Top] = mem[Top]] /\ mem[Top] \in Nat
    BY <1>1, <1>5, Constants DEF Work
  <2> QED
    BY <2>3, <2>4
<1>6. CASE StoreEnter
  <2>1. \A n \in 1..5 : Stacked[n] \in Cell
    BY Places
  <2>2. \A n \in 1..5 : reg[Stacked[n]] \in Nat
    BY <1>a, <2>1, Zenon
  <2>3. mem' = [a \in 0..Top |-> IF reg[SP] - a \in 1..5 THEN reg[Stacked[reg[SP] - a]]
                                ELSE mem[a]]
    BY <1>6, Zenon DEF StoreEnter
  <2> QED
    BY <1>1, <2>2, <2>3, Zenon
<1>7. CASE CheckCall
  <2>1. mem' = [mem EXCEPT ![reg[SP] - 1] = reg[T4], ![reg[SP] - 2] = reg[T5],
                           ![reg[SP] - 3] = reg[T6]]
    BY <1>7, Zenon DEF CheckCall
  <2> QED
    BY <1>1, <1>b, <2>1
<1>8. CASE LoadStack
  <2>1. k \in 0..MaxDepth + 4
    <3>1. phase = "load_stack" /\ k \in Nat
      BY <1>8, Constants DEF LoadStack, Typed
    <3>2. SafeSp \in Low - 4..Top /\ SafeSp + k <= Top
      BY <3>1 DEF RestoreInv
    <3> QED
      BY <3>1, <3>2, Constants
  <2>2. safe[37 + k] \in Nat
    BY <1>1, <2>1, Words
  <2> QED
    BY <1>1, <1>8, <2>2 DEF LoadStack
<1>9. CASE RecoverySync
  <2>1. mem' = [mem EXCEPT ![reg[SP] - 1] = reg[A4], ![reg[SP] - 2] = reg[A5]]
    BY <1>9, Zenon DEF RecoverySync
  <2> QED
    BY <1>1, <1>b, <2>1
<1>10. CASE Push
  <2>1. \A c \in X \cup Csr : c \in Cell
    OBVIOUS
  <2>2. mem' = [a \in 0..Top |-> IF reg[SP] - a \in X \cup Csr THEN reg[reg[SP] - a]
                                ELSE mem[a]]
    BY <1>10, Zenon DEF Push
  <2> HIDE DEF X, Csr, Cell
  <2> QED
    BY <1>1, <1>a, <2>1, <2>2, Zenon
<1> QED
  BY <1>2, <1>3, <1>4, <1>5, <1>6, <1>7, <1>8, <1>9, <1>10, Changes

LEMMA SafeTyped ==
  ASSUME CheckpointInv, [Next]_vars
  PROVE  safe' \in [SafeWord -> Nat]
<1> USE DEF CheckpointInv
<1>1. reg \in [Cell -> Nat] /\ mem \in [0..Top -> Nat] /\ safe \in [SafeWord -> Nat]
  BY DEF Typed
<1>2. CASE safe' = safe
  BY <1>1, <1>2
<1>3. CASE ActivateSave
  <2> DEFINE c == ActOrder[k]
             v == CASE c = T6 -> mem[reg[SP] + 2]
                    [] c = PC -> ActPc
                    [] OTHER  -> reg[c]
  <2>1. safe' = [safe EXCEPT ![StoreWord(c)] = v]
    BY <1>3, Zenon DEF ActivateSave
  <2>2. c \in Cell
    BY <1>3, ActOrderCells DEF ActivateSave
  <2>3. mem[reg[SP] + 2] \in Nat
    <3>1. phase = "activate" /\ k \in 1..37
      BY <1>3 DEF ActivateSave
    <3>2. reg[SP] = G - 4
      BY <3>1 DEF ActivateInv
    <3>3. G \in Low..Top
      BY DEF Typed, Callable, G
    <3>4. reg[SP] + 2 \in 0..Top
      BY <3>2, <3>3, Constants
    <3> QED
      BY <1>1, <3>4
  <2>4. v \in Nat
    BY <1>1, <2>2, <2>3, ValuesAreNat
  <2> HIDE DEF v
  <2> QED
    BY <1>1, <2>1, <2>4
<1>4. CASE StoreStack
  <2>1. /\ phase = "copy" /\ At = "copy" /\ Step = k /\ reg[SP] = Base0 - LoweredAt("copy", k)
        /\ reg[SP] \in Low..Top
    BY <1>4, RunningSp DEF StoreStack, Library, RoutineInv, Lowered
  <2>2. Base0 + k <= Top
    BY <2>1 DEF RoutineInv
  <2>4. Base0 \in Nat /\ k \in Nat
    BY StackPointers
  <2>3. reg[SP] + k \in 0..Top
    BY <2>1, <2>2, <2>4, LoweredIs, Constants
  <2> QED
    BY <1>1, <1>4, <2>3 DEF StoreStack
<1>5. CASE StoreReg
  BY <1>1, <1>5, StoreRegIs
<1> QED
  BY <1>2, <1>3, <1>4, <1>5, Changes

\* The order of the restore, and the stack pointer the ROM has while it loads
\* the stack.
LEMMA LoadStackSp ==
  ASSUME Typed, RestoreInv, phase = "load_stack"
  PROVE  /\ SafeSp \in Low - 4..Top /\ reg[SP] = SafeSp + k /\ SafeSp + k <= Top
         /\ k \in 0..MaxDepth + 4 /\ 37 + k \in SafeWord
<1>1. SafeSp \in Low - 4..Top
  BY DEF RestoreInv
<1>2. reg[SP] = SafeSp + k /\ SafeSp + k <= Top
  BY DEF RestoreInv
<1>3. k \in 0..MaxDepth + 4
  BY <1>1, <1>2, StackPointers, Constants
<1> QED
  BY <1>1, <1>2, <1>3, Words

LEMMA RegTyped ==
  ASSUME CheckpointInv, [Next]_vars
  PROVE  reg' \in [Cell -> Nat] /\ reg'[SP] \in Low - 11..Top
<1> USE DEF CheckpointInv
<1>1. reg \in [Cell -> Nat] /\ reg[SP] \in Low - 11..Top
  BY DEF Typed
<1>2. mem \in [0..Top -> Nat] /\ safe \in [SafeWord -> Nat]
  BY DEF Typed
<1>3. \A n \in Low - 11..Top : n \in Nat
  BY Constants
<1>4. \A c \in Cell : reg[c] \in Nat
  BY <1>1
<1>5. \A a \in 0..Top : mem[a] \in Nat
  BY <1>2
<1>6. Base \in Nat /\ Junk \in Nat
  BY ValuesAreNat
<1>7. \A sp \in Low - 11..Top, i \in 1..7 : sp + i <= Top => sp + i \in 0..Top
  BY Constants
<1>8. /\ \A n \in Low..Top : n \in Low - 11..Top
      /\ \A n \in Low - 4..Top : n \in Low - 11..Top
  BY Constants
<1>10. CASE UNCHANGED reg
  BY <1>1, <1>10
<1>11. CASE ActivateEnter
  <2>1. reg' = [reg EXCEPT ![SP] = reg[SP] - 4, ![T5] = Base, ![T6] = Junk]
    BY <1>11, Zenon DEF ActivateEnter
  <2>2. reg[SP] = G
    BY <1>11 DEF ActivateEnter, ActivateInv, G
  <2>3. reg[SP] - 4 \in Low - 11..Top /\ reg[SP] - 4 \in Nat
    BY <2>2, StackPointers, Constants
  <2> QED
    BY <1>1, <1>6, <2>1, <2>3
<1>12. CASE ActivateSleep \/ Mismatch
  <2>1. reg' = [reg EXCEPT ![T5] = Base]
    BY <1>12, Zenon DEF ActivateSleep, Mismatch
  <2> QED
    BY <1>1, <1>6, <2>1
<1>13. CASE ActivateLeave
  <2>1. reg' = [reg EXCEPT ![T6] = mem[reg[SP] + 2], ![T5] = mem[reg[SP] + 3],
                           ![SP] = reg[SP] + 4, ![PC] = 0]
    BY <1>13, Zenon DEF ActivateLeave
  <2>2. reg[SP] = safe[LoadWord(SP)]
    BY <1>13 DEF ActivateLeave, RestoreInv, Kept
  <2>3. safe[LoadWord(SP)] = G - 4
    BY <1>13 DEF ActivateLeave, ActivateInv, Activating, ActSaved
  <2>4. /\ reg[SP] + 4 \in Low - 11..Top /\ reg[SP] + 4 \in Nat
        /\ reg[SP] + 2 \in 0..Top /\ reg[SP] + 3 \in 0..Top
    BY <2>2, <2>3, StackPointers, Constants
  <2>5. mem[reg[SP] + 2] \in Nat /\ mem[reg[SP] + 3] \in Nat
    BY <1>5, <2>4
  <2> QED
    BY <1>1, <2>1, <2>4, <2>5
<1>14. CASE Work
  <2>1. phase = "run" /\ Point + 1 < Len(prog) /\ reg' = FreshReg(Point + 1)
    BY <1>14 DEF Work
  <2>2. Point \in Nat /\ prog \in Programs
    BY <1>1 DEF Point, Typed
  <2>3. Point + 1 \in 0..Len(prog) - 1
    BY <2>1, <2>2, ProgramDepth
  <2>4. FreshReg(Point + 1) \in [Cell -> Nat] /\ Callable(FreshReg(Point + 1))
    BY <2>2, <2>3, FreshTypes
  <2>5. FreshReg(Point + 1)[SP] \in Low..Top
    BY <2>4 DEF Callable
  <2> QED
    BY <1>8, <2>1, <2>4, <2>5, Zenon
<1>15. CASE StoreEnter
  <2>1. \/ reg' = [reg EXCEPT ![T2] = Junk, ![T4] = Junk, ![T5] = Base]
        \/ reg' = [reg EXCEPT ![T2] = Junk, ![T4] = Junk, ![T5] = Base, ![T3] = Junk]
    BY <1>15, Zenon DEF StoreEnter
  <2> QED
    BY <1>1, <1>6, <2>1
<1>16. CASE StoreStack \/ Push
  <2>1. reg' = [reg EXCEPT ![T6] = Junk]
    BY <1>16, Zenon DEF StoreStack, Push
  <2> QED
    BY <1>1, <1>6, <2>1
<1>17. CASE StoreReg
  <2>1. CASE k = 7
    <3>1. reg' = [reg EXCEPT ![SP] = Base0 - 7]
      BY <1>17, <2>1, StoreRegIs
    <3>2. Base0 - 7 \in Low - 11..Top /\ Base0 - 7 \in Nat
      BY StackPointers, Constants
    <3> QED
      BY <1>1, <3>1, <3>2
  <2>2. CASE k # 7 /\ StoreOrder[k] \in {T2, T3, T4}
    <3> DEFINE c == StoreOrder[k]
               v == Saved(c)
    <3>1. c \in {T2, T3, T4} /\ v \in Nat /\ reg' = [reg EXCEPT ![c] = v]
      BY <1>17, <2>2, StoreRegIs
    <3> HIDE DEF c, v
    <3>2. c # SP
      BY <3>1
    <3> QED
      BY <1>1, <3>1, <3>2
  <2>3. CASE k # 7 /\ StoreOrder[k] \notin {T2, T3, T4}
    <3>1. reg' = [reg EXCEPT ![T6] = Junk]
      BY <1>17, <2>3, StoreRegIs
    <3> QED
      BY <1>1, <1>6, <3>1
  <2> QED
    BY <2>1, <2>2, <2>3
<1>18. CASE StoreLeave
  <2>1. reg' = [c \in Cell |-> IF c \in Temps THEN mem[reg[SP] + 7 - Place(c)]
                               ELSE IF c = SP THEN reg[SP] + 7 ELSE reg[c]]
    BY <1>18, Zenon DEF StoreLeave
  <2>2. reg[SP] = Base0 - 7
    BY <1>18, RunningSp, LoweredIs DEF StoreLeave, Library, RoutineInv, Lowered
  <2>3. reg[SP] + 7 = Base0 /\ \A i \in 1..5 : Base0 - i \in 0..Top
    BY <2>2, StackPointers, Constants
  <2>4. \A c \in Temps : mem[Base0 - Place(c)] \in Nat
    BY <1>5, <2>3, Places
  <2>5. /\ Base0 \in Low - 11..Top /\ Base0 \in Nat
    BY StackPointers, Constants
  <2>6. reg' \in [Cell -> Nat]
    <3> DEFINE v(c) == IF c \in Temps THEN mem[reg[SP] + 7 - Place(c)]
                       ELSE IF c = SP THEN reg[SP] + 7 ELSE reg[c]
    <3>1. ASSUME NEW c \in Cell PROVE v(c) \in Nat
      <4>1. CASE c \in Temps
        <5>1. v(c) = mem[reg[SP] + 7 - Place(c)]
          BY <4>1
        <5>2. reg[SP] + 7 - Place(c) = Base0 - Place(c)
          BY <2>2, <4>1, Places, StackPointers
        <5> HIDE DEF v
        <5> QED
          BY <2>4, <4>1, <5>1, <5>2
      <4>2. CASE c \notin Temps
        BY <1>4, <2>3, <2>5, <4>2
      <4> QED
        BY <4>1, <4>2
    <3>2. reg' = [c \in Cell |-> v(c)]
      BY <2>1
    <3> HIDE DEF v
    <3> QED
      BY <3>1, <3>2
  <2>7. reg'[SP] = Base0
    BY <2>1, <2>3 DEF Temps
  <2> QED
    BY <2>5, <2>6, <2>7
<1>19. CASE CheckCall
  <2>1. reg' = [reg EXCEPT ![SP] = reg[SP] - 5, ![A4] = reg[T5], ![A5] = reg[T6],
                           ![T6] = Base]
    BY <1>19, Zenon DEF CheckCall
  <2>2. reg[SP] \in Low..Top
    BY <1>19, RunningSp DEF CheckCall
  <2>3. reg[SP] - 5 \in Low - 11..Top /\ reg[SP] - 5 \in Nat
    BY <2>2, Constants
  <2>4. reg[T5] \in Nat /\ reg[T6] \in Nat
    BY <1>1
  <2> QED
    BY <1>1, <1>6, <2>1, <2>3, <2>4
<1>20. CASE CheckReg
  <2>1. \/ reg' = [reg EXCEPT ![T5] = Junk]
        \/ reg' = [reg EXCEPT ![T5] = mem[reg[SP] + 3]]
        \/ reg' = [reg EXCEPT ![T5] = Base, ![T6] = mem[reg[SP] + 2]]
        \/ reg' = reg
    <3>1. reg' = CASE k = SP -> [reg EXCEPT ![T5] = Junk]
                   [] k = T5 -> [reg EXCEPT ![T5] = mem[reg[SP] + 3]]
                   [] k = T6 -> [reg EXCEPT ![T5] = Base, ![T6] = mem[reg[SP] + 2]]
                   [] OTHER  -> reg
      BY <1>20, Zenon DEF CheckReg
    <3> QED
      BY <3>1
  <2>2. reg[SP] = Base0 - 5
    BY <1>20, RunningSp, LoweredIs DEF CheckReg, Library, RoutineInv, Lowered
  <2>3. reg[SP] + 2 \in 0..Top /\ reg[SP] + 3 \in 0..Top
    BY <2>2, StackPointers, Constants
  <2>4. mem[reg[SP] + 2] \in Nat /\ mem[reg[SP] + 3] \in Nat
    BY <1>5, <2>3
  <2> QED
    BY <1>1, <1>6, <2>1, <2>4
<1>21. CASE CheckLeave
  <2>1. reg' = [reg EXCEPT ![T5] = mem[reg[SP] + 3], ![SP] = reg[SP] + 5]
    BY <1>21, Zenon DEF CheckLeave
  <2>2. reg[SP] = Base0 - 5
    BY <1>21, RunningSp, LoweredIs DEF CheckLeave, Library, RoutineInv, Lowered
  <2>3. reg[SP] + 5 = Base0 /\ reg[SP] + 3 \in 0..Top
    BY <2>2, StackPointers, Constants
  <2>4. mem[reg[SP] + 3] \in Nat
    BY <1>5, <2>3
  <2>5. Base0 \in Low - 11..Top /\ Base0 \in Nat
    BY StackPointers, Constants
  <2> QED
    BY <1>1, <2>1, <2>3, <2>4, <2>5
<1>22. CASE RestoreReg
  <2>1. reg' = [reg EXCEPT ![LoadOrder[k]] = safe[LoadWord(LoadOrder[k])]]
    BY <1>22, Zenon DEF RestoreReg
  <2>2. phase = "restore" /\ k \in 1..37
    BY <1>22 DEF RestoreReg, RestoreInv
  <2>3. SafeSp \in Low - 4..Top
    BY <2>2 DEF RestoreInv
  <2>a. LoadOrder[k] \in Cell
    BY <2>2, LoadOrderCells
  <2>b. LoadWord(LoadOrder[k]) \in SafeWord
    BY <2>a, Words
  <2>4. LoadOrder[k] \in Cell /\ safe[LoadWord(LoadOrder[k])] \in Nat
    BY <1>2, <2>a, <2>b
  <2>5. reg' \in [Cell -> Nat]
    BY <1>1, <2>1, <2>4
  <2>6. reg'[SP] = IF LoadOrder[k] = SP THEN SafeSp ELSE reg[SP]
    BY <1>1, <2>1, <2>4 DEF SafeSp
  <2> QED
    BY <1>1, <2>3, <2>5, <2>6, Constants
<1>23. CASE LoadStack
  <2>1. \/ reg' = [reg EXCEPT ![SP] = safe[LoadWord(SP)]]
        \/ reg[SP] # Top /\ reg' = [reg EXCEPT ![SP] = reg[SP] + 1]
    BY <1>23, Zenon DEF LoadStack
  <2>2. SafeSp \in Low - 4..Top /\ reg[SP] = SafeSp + k /\ SafeSp + k <= Top /\ k \in Nat
    BY <1>23, LoadStackSp, Constants DEF LoadStack
  <2>3. CASE reg' = [reg EXCEPT ![SP] = safe[LoadWord(SP)]]
    <3>1. SafeSp \in Low - 11..Top /\ SafeSp \in Nat
      BY <2>2, Constants
    <3> QED
      BY <1>1, <2>3, <3>1 DEF SafeSp
  <2>4. CASE reg[SP] # Top /\ reg' = [reg EXCEPT ![SP] = reg[SP] + 1]
    <3>1. reg[SP] + 1 \in Low - 11..Top /\ reg[SP] + 1 \in Nat
      BY <2>2, <2>4, Constants
    <3> QED
      BY <1>1, <2>4, <3>1
  <2> QED
    BY <2>1, <2>3, <2>4
<1>24. CASE RecoverySync
  <2>1. reg' = [reg EXCEPT ![SP] = reg[SP] - 4, ![MEPC] = reg[PC]]
    BY <1>24, Zenon DEF RecoverySync
  <2>2. reg[SP] \in Low - 7..Top
    BY <1>24, RunningSp DEF RecoverySync, Library
  <2>3. reg[SP] - 4 \in Low - 11..Top /\ reg[SP] - 4 \in Nat
    BY <2>2, Constants
  <2>4. reg[PC] \in Nat
    BY <1>1
  <2> QED
    BY <1>1, <2>1, <2>3, <2>4
<1>25. CASE Pop
  <2>1. reg' = [reg EXCEPT ![PopOrder[k]] = mem[reg[SP] - PopOrder[k]]]
        /\ phase = "pop" /\ k \in 1..36
    BY <1>25, Zenon DEF Pop
  <2>2. PopOrder[k] \in X \cup Csr
    BY <2>1, PopOrderCells
  <2>3. /\ \A c \in X \cup Csr : mem[Entry - 4 - c] = Pushed(c)
        /\ reg[SP] = Entry - 4 /\ Entry \in Low - 7..Top
    BY <2>1, EntrySp DEF HandlerInv, Handling
  <2>4. Entry - 4 \in Low - 11..Top /\ \A c \in X \cup Csr : Entry - 4 - c \in 0..Top
    BY <2>3, Constants
  <2>5. PopOrder[k] = SP => mem[reg[SP] - PopOrder[k]] = Entry - 4
    BY <2>2, <2>3 DEF Pushed
  <2>6. mem[reg[SP] - PopOrder[k]] \in Nat
    BY <1>5, <2>2, <2>3, <2>4
  <2> QED
    BY <1>1, <2>1, <2>2, <2>3, <2>4, <2>5, <2>6
<1>26. CASE RecoveryLeave
  <2>1. reg' = [reg EXCEPT ![A5] = mem[reg[SP] + 2], ![SP] = reg[SP] + 4,
                           ![PC] = reg[MEPC]]
        /\ phase = "pop"
    BY <1>26, Zenon DEF RecoveryLeave
  <2>2. reg[SP] = Entry - 4 /\ Entry \in Low - 7..Top
    BY <2>1, EntrySp DEF Handling
  <2>3. reg[SP] + 4 \in Low - 11..Top /\ reg[SP] + 4 \in Nat /\ reg[SP] + 2 \in 0..Top
    BY <2>2, Constants
  <2>4. mem[reg[SP] + 2] \in Nat /\ reg[MEPC] \in Nat
    BY <1>1, <1>5, <2>3
  <2> QED
    BY <1>1, <2>1, <2>3, <2>4
<1>27. CASE ActivateSave \/ StoreCall \/ Resume \/ Done \/ UNCHANGED vars
            \/ \E c \in Struck : Strike(c)
  BY <1>10, <1>27 DEF ActivateSave, StoreCall, Resume, Done, vars, Strike
<1> QED
  BY <1>11, <1>12, <1>13, <1>14, <1>15, <1>16, <1>17, <1>18, <1>19, <1>20,
     <1>21, <1>22, <1>23, <1>24, <1>25, <1>26, <1>27 DEF Next, Cores

LEMMA CountTyped ==
  ASSUME CheckpointInv, [Next]_vars
  PROVE  phase' \in Phase /\ k' \in 0..MaxDepth + 40 /\ back' \in Phase \X (0..MaxDepth + 40)
<1> USE DEF CheckpointInv
<1>1. /\ phase \in Phase /\ k \in 0..MaxDepth + 40 /\ k \in Nat
      /\ back \in Phase \X (0..MaxDepth + 40)
  BY StackPointers DEF Typed
<1>2. /\ \A n \in 0..38 : n \in 0..MaxDepth + 40
      /\ \A n \in 0..MaxDepth + 4 : n + 1 \in 0..MaxDepth + 40
  BY Constants
<1>3. back[1] \in Phase /\ back[2] \in 0..MaxDepth + 40 /\ <<"run", 0>> \in Phase \X (0..MaxDepth + 40)
  <2>1. "run" \in Phase /\ 0 \in 0..MaxDepth + 40
    BY <1>2 DEF Phase
  <2> QED
    BY <1>1, <2>1, Zenon
<1>10. CASE ActivateEnter
  BY <1>1, <1>2, <1>10 DEF ActivateEnter, Phase
<1>11. CASE ActivateSave
  <2>1. phase' = phase /\ k' = k + 1 /\ k \in 1..37 /\ back' = back
    BY <1>11, Zenon DEF ActivateSave
  <2> QED
    BY <1>1, <1>2, <2>1
<1>12. CASE ActivateSleep
  BY <1>1, <1>2, <1>12 DEF ActivateSleep, Phase
<1>13. CASE ActivateLeave
  BY <1>1, <1>2, <1>13 DEF ActivateLeave, Phase
<1>14. CASE Work
  BY <1>1, <1>2, <1>14 DEF Work, Phase
<1>15. CASE StoreCall
  BY <1>1, <1>2, <1>15 DEF StoreCall, Phase
<1>16. CASE StoreEnter
  <2>1. (phase' = "regs" /\ k' = 1) \/ (phase' = "copy" /\ k' = 0)
    BY <1>16, Zenon DEF StoreEnter
  <2>2. back' = back
    BY <1>16, Zenon DEF StoreEnter
  <2> QED
    BY <1>1, <1>2, <2>1, <2>2 DEF Phase
<1>17. CASE StoreStack
  <2>1. \/ phase' = "regs" /\ k' = 1
        \/ phase' = phase /\ k' = k + 1 /\ reg[SP] + k # Top
    BY <1>17, Zenon DEF StoreStack
  <2>2. back' = back /\ phase = "copy"
    BY <1>17, Zenon DEF StoreStack
  <2>3. reg[SP] + k # Top => k \in 0..MaxDepth + 4
    <3>1. Base0 + k <= Top
      BY <2>2, RunningSp DEF RoutineInv, Library
    <3> QED
      BY <1>1, <3>1, StackPointers, Constants
  <2> QED
    BY <1>1, <1>2, <2>1, <2>2, <2>3 DEF Phase
<1>18. CASE StoreReg
  <2>1. k \in 1..37
    BY <1>18, StoreRegIs
  <2>2. \/ phase' = "leave" /\ k' = k
        \/ k # 37 /\ phase' = phase /\ k' = k + 1
    BY <1>18, Zenon DEF StoreReg
  <2>3. back' = back
    BY <1>18, Zenon DEF StoreReg
  <2> QED
    BY <1>1, <1>2, <2>1, <2>2, <2>3 DEF Phase
<1>19. CASE StoreLeave
  BY <1>1, <1>2, <1>19 DEF StoreLeave, Phase
<1>20. CASE CheckCall
  BY <1>1, <1>2, <1>20 DEF CheckCall, Phase
<1>21. CASE CheckReg
  <2>1. phase' = phase /\ k' = k + 1 /\ k \in X /\ back' = back
    BY <1>21, Zenon DEF CheckReg
  <2> QED
    BY <1>1, <1>2, <2>1
<1>22. CASE CheckLeave
  BY <1>1, <1>2, <1>22 DEF CheckLeave, Phase
<1>23. CASE Mismatch
  BY <1>1, <1>2, <1>23 DEF Mismatch, Phase
<1>24. CASE RestoreReg
  <2>1. k \in 1..37
    BY <1>24 DEF RestoreReg, RestoreInv
  <2>2. \/ phase' \in {"resumed", "asleep", "act_end", "load_stack"} /\ k' = 0
        \/ k # 37 /\ phase' = phase /\ k' = k + 1
    BY <1>24 DEF RestoreReg
  <2>3. back' = back
    BY <1>24, Zenon DEF RestoreReg
  <2> QED
    BY <1>1, <1>2, <2>1, <2>2, <2>3 DEF Phase
<1>25. CASE LoadStack
  <2>1. k \in 0..MaxDepth + 4
    BY <1>25, LoadStackSp DEF LoadStack
  <2>2. \/ phase' = "restore" /\ k' = 10
        \/ phase' = phase /\ k' = k + 1
    BY <1>25, Zenon DEF LoadStack
  <2>3. back' = back
    BY <1>25, Zenon DEF LoadStack
  <2> QED
    BY <1>1, <1>2, <2>1, <2>2, <2>3 DEF Phase
<1>26. CASE Resume
  BY <1>1, <1>2, <1>26 DEF Resume, Phase
<1>27. CASE RecoverySync
  <2>1. phase' = "push" /\ k' = 1 /\ back' = <<phase, k>>
    BY <1>27, Zenon DEF RecoverySync
  <2> QED
    BY <1>1, <1>2, <2>1 DEF Phase
<1>28. CASE Push
  BY <1>1, <1>2, <1>28 DEF Push, Phase
<1>29. CASE Pop
  <2>1. phase' = phase /\ k' = k + 1 /\ k \in 1..36 /\ back' = back
    BY <1>29, Zenon DEF Pop
  <2> QED
    BY <1>1, <1>2, <2>1
<1>30. CASE RecoveryLeave
  <2>1. phase' = back[1] /\ k' = back[2] /\ back' = <<"run", 0>>
    BY <1>30, Zenon DEF RecoveryLeave
  <2> QED
    BY <1>3, <2>1
<1>31. CASE \E c \in Struck : Strike(c)
  BY <1>1, <1>31 DEF Strike
<1>32. CASE Done \/ UNCHANGED vars
  BY <1>1, <1>32 DEF Done, vars
<1> QED
  BY <1>10, <1>11, <1>12, <1>13, <1>14, <1>15, <1>16, <1>17, <1>18, <1>19, <1>20, <1>21, <1>22, <1>23, <1>24, <1>25, <1>26, <1>27, <1>28, <1>29, <1>30, <1>31, <1>32
     DEF Next, Cores


LEMMA FlagsTyped ==
  ASSUME CheckpointInv, [Next]_vars
  PROVE  /\ bad' \in SUBSET Cell /\ since' \in SUBSET Cell
         /\ irq' \in BOOLEAN /\ rec' \in BOOLEAN
         /\ writing' \in BOOLEAN /\ cut' \in BOOLEAN
         /\ faults' \in 0..MaxFaults
<1> USE DEF CheckpointInv
<1>1. /\ bad \in SUBSET Cell /\ since \in SUBSET Cell
      /\ irq \in BOOLEAN /\ rec \in BOOLEAN
      /\ writing \in BOOLEAN /\ cut \in BOOLEAN
      /\ faults \in 0..MaxFaults
  BY DEF Typed
<1>10. CASE ActivateEnter
  BY <1>1, <1>10 DEF ActivateEnter, ghosts
<1>11. CASE ActivateSave
  BY <1>1, <1>11 DEF ActivateSave, ghosts
<1>12. CASE ActivateSleep
  BY <1>1, <1>12 DEF ActivateSleep, ghosts
<1>13. CASE ActivateLeave
  BY <1>1, <1>13 DEF ActivateLeave, ghosts
<1>14. CASE Work
  BY <1>1, <1>14 DEF Work, ghosts, Bus
<1>15. CASE StoreCall
  BY <1>1, <1>15 DEF StoreCall, ghosts
<1>16. CASE StoreEnter
  BY <1>1, <1>16 DEF StoreEnter, ghosts, Bus
<1>17. CASE StoreStack
  BY <1>1, <1>17 DEF StoreStack, ghosts, Bus
<1>18. CASE StoreReg
  BY <1>1, <1>18 DEF StoreReg, ghosts, Bus
<1>19. CASE StoreLeave
  BY <1>1, <1>19 DEF StoreLeave, ghosts, Bus
<1>20. CASE CheckCall
  BY <1>1, <1>20 DEF CheckCall, ghosts, Bus
<1>21. CASE CheckReg
  BY <1>1, <1>21 DEF CheckReg, ghosts, Bus
<1>22. CASE CheckLeave
  BY <1>1, <1>22 DEF CheckLeave, ghosts, Bus
<1>23. CASE Mismatch
  BY <1>1, <1>23 DEF Mismatch, ghosts
<1>24. CASE RestoreReg
  BY <1>1, <1>24 DEF RestoreReg, ghosts
<1>25. CASE LoadStack
  BY <1>1, <1>25 DEF LoadStack, ghosts
<1>26. CASE Resume
  BY <1>1, <1>26 DEF Resume, ghosts
<1>27. CASE RecoverySync
  <2>1. /\ bad' = (bad \ {A4, A5, PC, MEPC}) \cup (IF PC \in bad THEN {MEPC} ELSE {})
        /\ since' = {} /\ irq' = FALSE /\ cut' = (cut \/ Raised)
        /\ rec' = rec /\ writing' = writing /\ faults' = faults
    BY <1>27, Zenon DEF RecoverySync
  <2>2. cut' \in BOOLEAN
    BY <1>1, <2>1, Zenon
  <2>3. bad' \in SUBSET Cell
    BY <1>1, <2>1
  <2> QED
    BY <1>1, <2>1, <2>2, <2>3
<1>28. CASE Push
  BY <1>1, <1>28 DEF Push, ghosts
<1>29. CASE Pop
  BY <1>1, <1>29 DEF Pop, ghosts
<1>30. CASE RecoveryLeave
  BY <1>1, <1>30 DEF RecoveryLeave, ghosts
<1>31. CASE \E c \in Struck : Strike(c)
  BY <1>1, <1>31, CheckpointAssumption DEF Strike
<1>32. CASE Done \/ UNCHANGED vars
  BY <1>1, <1>32 DEF Done, vars, ghosts
<1> QED
  BY <1>10, <1>11, <1>12, <1>13, <1>14, <1>15, <1>16, <1>17, <1>18, <1>19, <1>20, <1>21, <1>22, <1>23, <1>24, <1>25, <1>26, <1>27, <1>28, <1>29, <1>30, <1>31, <1>32
     DEF Next, Cores


LEMMA ContextsTyped ==
  ASSUME CheckpointInv, [Next]_vars
  PROVE  /\ IsContext(call)' /\ IsContext(good)' /\ IsContext(entry)'
         /\ Callable(call.reg)' /\ Callable(good.reg)'
<1> USE DEF CheckpointInv
<1>1. /\ IsContext(call) /\ IsContext(good) /\ IsContext(entry)
      /\ Callable(call.reg) /\ Callable(good.reg)
      /\ reg \in [Cell -> Nat] /\ mem \in [0..Top -> Nat]
  BY DEF Typed
<1>2. Here.reg = reg /\ IsContext(Here)
  BY <1>1, HereIs
<1>3. phase = "run" => Callable(reg)
  <2>1. phase = "run" => At = phase /\ Own = reg
    BY RunningSp
  <2> QED
    BY <2>1 DEF RoutineInv
<1>4. call' \in {call, Here} /\ (phase # "run" => call' = call)
  <2>1. Work \/ StoreCall \/ CheckCall => phase = "run" /\ call' = Here
    BY Zenon DEF Work, StoreCall, CheckCall
  <2> QED
    BY <2>1, Changes
<1>5. good' \in {call, good}
  <2>1. StoreReg \/ Resume => good' = call \/ good' = good
    BY Zenon DEF StoreReg, Resume
  <2> QED
    BY <2>1, Changes
<1>6. entry' \in {entry, good, Here}
  <2>1. RecoverySync \/ RecoveryLeave => entry' = Here \/ entry' = good
    BY Zenon DEF RecoverySync, RecoveryLeave
  <2> QED
    BY <2>1, Changes
<1>7. IsContext(call') /\ IsContext(good') /\ IsContext(entry')
  BY <1>1, <1>2, <1>4, <1>5, <1>6
<1>8. prog' = prog
  BY Changes
<1>9. Callable(call.reg)'
  BY <1>1, <1>2, <1>3, <1>4, <1>8, Zenon DEF Callable
<1>10. Callable(good.reg)'
  BY <1>1, <1>5, <1>8, Zenon DEF Callable
<1> QED
  BY <1>7, <1>9, <1>10 DEF IsContext

LEMMA TypedStep ==
  ASSUME CheckpointInv, [Next]_vars
  PROVE  Typed'
<1>1. mode \in {"TCLS", "DCLS"} /\ prog \in Programs
  BY DEF CheckpointInv, Typed
<1>2. mode' \in {"TCLS", "DCLS"} /\ prog' \in Programs
  BY <1>1, Changes
<1> QED
  BY <1>2, MemTyped, SafeTyped, RegTyped, CountTyped, FlagsTyped, ContextsTyped, Zenon DEF Typed

=============================================================================
