------------------------- MODULE Checkpoint_proofs --------------------------
(***************************************************************************)
(* What the safety library, the ROM and the recovery handler give back,    *)
(* for any programs, depth of stack, struck cells and number of faults:    *)
(* every property of Checkpoint but the one about liveness.                *)
(*                                                                         *)
(* A step keeps the rest of the invariant: the modes, the activation, the  *)
(* restore, the safe copy of a pair, and what a pair has not shown yet.    *)
(* With CheckpointRoutines_proofs that is all; the properties follow.      *)
(***************************************************************************)
EXTENDS CheckpointRoutines_proofs

USE DEF SP, T2, A4, A5, T3, T4, T5, T6, MEPC, PC, X, Csr, Cell

-----------------------------------------------------------------------------
(* Modes.                                                                  *)

\* An activation ends behind the label of Safe_Activate.
LEMMA ActivationEnds ==
  ASSUME CheckpointInv, RestoreReg
  PROVE  /\ ~rec => phase' \in {"restore", "act_end"} /\ writing' = writing /\ ~writing
         /\ rec => phase' \in {"restore", "load_stack", "resumed", "asleep"}
<1> USE DEF CheckpointInv
<1>1. /\ phase = "restore" /\ writing' = writing
      /\ \/ k = 37 /\ phase' = IF reg[PC] # ActPc THEN "resumed"
                               ELSE IF rec THEN "asleep" ELSE "act_end"
         \/ phase' = "load_stack" /\ rec
         \/ k # 37 /\ phase' = phase
  BY DEF RestoreReg, ghosts
<1>2. ~rec => ~writing /\ (k = 37 => reg[PC] = ActPc)
  <2> SUFFICES ASSUME ~rec PROVE ~writing /\ (k = 37 => reg[PC] = ActPc)
    OBVIOUS
  <2>1. Activating
    BY <1>1 DEF Activating
  <2>2. ~writing /\ \A c \in Cell : safe[LoadWord(c)] = ActSaved(c)
    BY <1>1, <2>1 DEF ActivateInv
  <2>3. k = 37 => reg[PC] = safe[LoadWord(PC)]
    BY <1>1, LoadOrderIs DEF RestoreInv, Kept
  <2> QED
    BY <2>2, <2>3 DEF ActSaved
<1> QED
  BY <1>1, <1>2

LEMMA BusOfPair ==
  ASSUME NEW cells, NEW loads, Bus(cells, loads), ModeInv, mode = "DCLS"
  PROVE  ~irq'
BY Zenon DEF Bus, ModeInv

LEMMA ModeStep ==
  ASSUME CheckpointInv, [Next]_vars
  PROVE  ModeInv'
<1> USE DEF CheckpointInv
<1>1. /\ mode = "DCLS" => ~irq /\ ~cut /\ phase \notin {"push", "pop"}
      /\ rec => mode = "DCLS"
      /\ ~rec => phase \notin {"load_stack", "resumed", "asleep"}
      /\ rec => phase \notin {"activate", "act_end"}
      /\ mode = "DCLS" /\ writing =>
           phase \in {"copy", "regs", "restore", "load_stack", "resumed", "asleep"}
      /\ Activating => ~writing
  BY DEF ModeInv, Handling, ActivateInv
<1>2. mode' = mode
  BY Changes
<1>10. CASE ActivateEnter
  BY <1>1, <1>2, <1>10 DEF ActivateEnter, ghosts, ModeInv, Handling, Activating
<1>11. CASE ActivateSave
  BY <1>1, <1>2, <1>11 DEF ActivateSave, ghosts, ModeInv, Handling, Activating
<1>12. CASE ActivateSleep
  BY <1>1, <1>2, <1>12 DEF ActivateSleep, ghosts, ModeInv, Handling, Activating
<1>13. CASE ActivateLeave
  BY <1>1, <1>2, <1>13 DEF ActivateLeave, ghosts, ModeInv, Handling, Activating
<1>14. CASE Work
  <2>1. Bus(Cell, {}) \/ irq' = irq
    BY <1>14, Zenon DEF Work
  <2>2. mode = "DCLS" => ~irq'
    BY <1>1, <2>1, BusOfPair
  <2> QED
    BY <1>1, <1>2, <1>14, <2>2 DEF Work, ghosts, ModeInv, Handling, Activating
<1>15. CASE StoreCall
  BY <1>1, <1>2, <1>15 DEF StoreCall, ghosts, ModeInv, Handling, Activating
<1>16. CASE StoreEnter
  <2>1. mode = "DCLS" => ~irq'
    BY <1>16, BusOfPair, Zenon DEF StoreEnter
  <2> QED
    BY <1>1, <1>2, <1>16, <2>1 DEF StoreEnter, ghosts, ModeInv, Handling, Activating
<1>17. CASE StoreStack
  <2>1. mode = "DCLS" => ~irq'
    BY <1>17, BusOfPair, Zenon DEF StoreStack
  <2> QED
    BY <1>1, <1>2, <1>17, <2>1 DEF StoreStack, ghosts, ModeInv, Handling, Activating
<1>18. CASE StoreReg
  <2>1. mode = "DCLS" => ~irq'
    BY <1>18, BusOfPair, Zenon DEF StoreReg
  <2> QED
    BY <1>1, <1>2, <1>18, <2>1 DEF StoreReg, ghosts, ModeInv, Handling, Activating
<1>19. CASE StoreLeave
  <2>1. mode = "DCLS" => ~irq'
    BY <1>19, BusOfPair, Zenon DEF StoreLeave
  <2> QED
    BY <1>1, <1>2, <1>19, <2>1 DEF StoreLeave, ghosts, ModeInv, Handling, Activating
<1>20. CASE CheckCall
  <2>1. mode = "DCLS" => ~irq'
    BY <1>20, BusOfPair, Zenon DEF CheckCall
  <2> QED
    BY <1>1, <1>2, <1>20, <2>1 DEF CheckCall, ghosts, ModeInv, Handling, Activating
<1>21. CASE CheckReg
  <2>1. mode = "DCLS" => ~irq'
    BY <1>21, BusOfPair, Zenon DEF CheckReg
  <2> QED
    BY <1>1, <1>2, <1>21, <2>1 DEF CheckReg, ghosts, ModeInv, Handling, Activating
<1>22. CASE CheckLeave
  <2>1. mode = "DCLS" => ~irq'
    BY <1>22, BusOfPair, Zenon DEF CheckLeave
  <2> QED
    BY <1>1, <1>2, <1>22, <2>1 DEF CheckLeave, ghosts, ModeInv, Handling, Activating
<1>23. CASE Mismatch
  BY <1>1, <1>2, <1>23 DEF Mismatch, ghosts, ModeInv, Handling, Activating
<1>24. CASE LoadStack
  BY <1>1, <1>2, <1>24 DEF LoadStack, ghosts, ModeInv, Handling, Activating
<1>25. CASE Resume
  BY <1>1, <1>2, <1>25 DEF Resume, ghosts, ModeInv, Handling, Activating
<1>26. CASE Push
  BY <1>1, <1>2, <1>26 DEF Push, ghosts, ModeInv, Handling, Activating
<1>27. CASE Pop
  BY <1>1, <1>2, <1>27 DEF Pop, ghosts, ModeInv, Handling, Activating
<1>28. CASE RestoreReg
  <2>1. /\ phase = "restore" /\ irq' = irq /\ cut' = cut /\ rec' = rec
    BY <1>28 DEF RestoreReg, ghosts
  <2>2. /\ ~rec => phase' \in {"restore", "act_end"} /\ writing' = writing /\ ~writing
        /\ rec => phase' \in {"restore", "load_stack", "resumed", "asleep"}
    BY <1>28, ActivationEnds
  <2> QED
    BY <1>1, <1>2, <2>1, <2>2 DEF ModeInv, Handling
<1>29. CASE RecoverySync
  <2>1. irq /\ phase' = "push" /\ irq' = FALSE /\ rec' = rec
    BY <1>29 DEF RecoverySync
  <2> QED
    BY <1>1, <1>2, <2>1 DEF ModeInv, Handling
<1>30. CASE RecoveryLeave
  <2>1. phase = "pop" /\ phase' = back[1] /\ rec' = rec
    BY <1>30 DEF RecoveryLeave
  <2>2. mode # "DCLS"
    BY <1>1, <2>1
  <2>3. phase' \in Library \cup {"run"}
    BY <2>1, EntrySp DEF Handling
  <2> QED
    BY <1>1, <1>2, <2>1, <2>2, <2>3 DEF ModeInv, Library
<1>31. CASE \E c \in Struck : Strike(c)
  BY <1>1, <1>2, <1>31 DEF Strike, ModeInv, Handling
<1>32. CASE Done \/ UNCHANGED vars
  BY <1>1, <1>2, <1>32 DEF Done, vars, ghosts, ModeInv, Handling
<1> QED
  BY <1>10, <1>11, <1>12, <1>13, <1>14, <1>15, <1>16, <1>17, <1>18, <1>19, <1>20, <1>21, <1>22, <1>23, <1>24, <1>25, <1>26, <1>27, <1>28, <1>29, <1>30, <1>31, <1>32
     DEF Next, Cores

-----------------------------------------------------------------------------
(* The restore is kept.                                                    *)

\* Which actions lead into the restore, or go on in it.
LEMMA InRestore ==
  ASSUME CheckpointInv, [Next]_vars,
         phase' \in {"restore", "load_stack", "act_end", "resumed"}
  PROVE  ActivateSleep \/ Mismatch \/ RestoreReg \/ LoadStack \/ UNCHANGED vars
<1> USE DEF CheckpointInv
<1>1. CASE RecoveryLeave
  <2>1. phase = "pop" /\ phase' = back[1]
    BY <1>1 DEF RecoveryLeave
  <2>2. phase' \in Library \cup {"run"}
    BY <2>1, EntrySp DEF Handling
  <2> QED
    BY <2>2 DEF Library
<1>2. CASE \E c \in Struck : Strike(c)
  BY <1>2 DEF Strike
<1>3. CASE Done
  BY <1>3 DEF Done
<1>4. CASE ActivateEnter \/ ActivateSave \/ ActivateLeave \/ Work \/ StoreCall
  BY <1>4 DEF ActivateEnter, ActivateSave, ActivateLeave, Work, StoreCall
<1>5. CASE StoreEnter \/ StoreStack \/ StoreReg \/ StoreLeave \/ CheckCall
  BY <1>5 DEF StoreEnter, StoreStack, StoreReg, StoreLeave, CheckCall
<1>6. CASE CheckReg \/ CheckLeave \/ Resume \/ RecoverySync \/ Push \/ Pop
  BY <1>6 DEF CheckReg, CheckLeave, Resume, RecoverySync, Push, Pop
<1> QED
  BY <1>1, <1>2, <1>3, <1>4, <1>5, <1>6 DEF Next, Cores

LEMMA LeavesActivate ==
  ASSUME [Next]_vars, phase = "activate", phase' # "activate"
  PROVE  ActivateSleep
<1>1. CASE \E c \in Struck : Strike(c)
  BY <1>1 DEF Strike
<1>2. CASE Done \/ UNCHANGED vars
  BY <1>2 DEF Done, vars
<1>3. CASE ActivateEnter \/ ActivateSave \/ ActivateLeave \/ Work \/ StoreCall
  BY <1>3 DEF ActivateEnter, ActivateSave, ActivateLeave, Work, StoreCall
<1>4. CASE StoreEnter \/ StoreStack \/ StoreReg \/ StoreLeave \/ CheckCall
  BY <1>4 DEF StoreEnter, StoreStack, StoreReg, StoreLeave, CheckCall
<1>5. CASE CheckReg \/ CheckLeave \/ Mismatch \/ RestoreReg \/ LoadStack \/ Resume
  BY <1>5 DEF CheckReg, CheckLeave, Mismatch, RestoreReg, LoadStack, Resume
<1>6. CASE RecoverySync \/ Push \/ Pop \/ RecoveryLeave
  BY <1>6 DEF RecoverySync, Push, Pop, RecoveryLeave
<1> QED
  BY <1>1, <1>2, <1>3, <1>4, <1>5, <1>6 DEF Next, Cores

LEMMA SpKept ==
  ASSUME CheckpointInv, [Next]_vars, phase' # "activate"
  PROVE  SafeSp' \in Low - 4..Top
<1> USE DEF CheckpointInv
<1>1. /\ LoadWord(SP) = StoreWord(SP) /\ StoreWord(SP) \in 0..36 /\ StoreWord(SP) \in SafeWord
      /\ SafeSp' = safe'[StoreWord(SP)] /\ SafeSp = safe[StoreWord(SP)]
  BY Words DEF SafeSp
<1>2. CASE phase = "activate"
  <2>1. ActivateSleep
    BY <1>2, LeavesActivate
  <2>2. k = 38 /\ safe' = safe
    BY <2>1, Zenon DEF ActivateSleep
  <2>3. ActOrder[7] = SP
    BY ActOrderIs
  <2>4. safe[StoreWord(SP)] = G - 4
    <3>1. \A i \in 1..k - 1 : safe[StoreWord(ActOrder[i])] = ActSaved(ActOrder[i])
      BY <1>2 DEF ActivateInv
    <3>2. safe[StoreWord(ActOrder[7])] = ActSaved(ActOrder[7])
      BY <2>2, <3>1
    <3> QED
      BY <2>3, <3>2 DEF ActSaved
  <2> QED
    BY <1>1, <2>2, <2>4, StackPointers, Constants
<1>3. phase # "activate" => SafeSp \in Low - 4..Top
  BY DEF RestoreInv
<1>4. CASE StoreStack
  <2>1. safe' = [safe EXCEPT ![37 + k] = mem[reg[SP] + k]] /\ phase = "copy"
    BY <1>4, Zenon DEF StoreStack
  <2>2. 37 + k # StoreWord(SP)
    BY <1>1, StackPointers
  <2>3. safe'[StoreWord(SP)] = safe[StoreWord(SP)]
    BY <1>1, <2>1, <2>2 DEF Typed
  <2> QED
    BY <1>1, <1>3, <2>1, <2>3
<1>5. CASE StoreReg
  <2>1. /\ k \in 1..37 /\ StoreOrder[k] \in Cell
        /\ safe' = [safe EXCEPT ![StoreWord(StoreOrder[k])] = Saved(StoreOrder[k])]
        /\ phase = "regs"
    BY <1>5, StoreRegIs, Zenon DEF StoreReg
  <2>2. safe \in [SafeWord -> Nat]
    BY DEF Typed
  <2>3. CASE k = 7
    <3>1. StoreOrder[k] = SP
      BY <2>3, StoreOrderIs
    <3>2. reg[SP] = Base0 - LoweredAt("regs", k)
      BY <1>5, StoreRegIs DEF RoutineInv, Lowered, Library
    <3>3. reg[SP] = Base0
      BY <2>3, <3>2, LoweredIs, StackPointers
    <3>4. Saved(SP) = reg[SP]
      BY DEF Saved, Temps
    <3>5. safe'[StoreWord(SP)] = Base0
      BY <1>1, <2>1, <2>2, <3>1, <3>3, <3>4
    <3> QED
      BY <1>1, <3>5, StackPointers, Constants
  <2>4. CASE k # 7
    <3>1. StoreOrder[k] # SP
      BY <2>1, <2>4, StoreOrderCells
    <3>2. StoreWord(StoreOrder[k]) # StoreWord(SP)
      BY <2>1, <3>1, Words
    <3>3. safe'[StoreWord(SP)] = safe[StoreWord(SP)]
      BY <1>1, <2>1, <2>2, <3>2
    <3> QED
      BY <1>1, <1>3, <2>1, <3>3
  <2> QED
    BY <2>3, <2>4
<1>6. CASE ActivateSave
  BY <1>6, LeavesActivate DEF ActivateSave
<1>7. CASE phase # "activate" /\ safe' = safe
  BY <1>1, <1>3, <1>7
<1> QED
  BY <1>2, <1>4, <1>5, <1>6, <1>7, Changes

\* halt_boot loads one cell of the context.
LEMMA RestoreRegKept ==
  ASSUME CheckpointInv, [Next]_vars, RestoreReg
  PROVE  RestoreInv'
<1> USE DEF CheckpointInv
<1> DEFINE c == LoadOrder[k]
           v == safe[LoadWord(c)]
<1>1. /\ phase = "restore" /\ k \in 1..37 /\ c \in Cell
      /\ \A i \in 1..k - 1 : Kept(LoadOrder[i])
      /\ rec /\ k > 9 /\ SafeSp # Top => StackLoaded(Top - SafeSp + 1)
  <2>1. phase = "restore"
    BY DEF RestoreReg
  <2> QED
    BY <2>1, LoadOrderCells DEF RestoreInv
<1>2. /\ reg' = [reg EXCEPT ![c] = v] /\ bad' = bad \ {c}
      /\ mem' = mem /\ safe' = safe /\ rec' = rec
  BY Zenon DEF RestoreReg
<1>3. \/ /\ k = 37
         /\ phase' = IF reg[PC] # ActPc THEN "resumed"
                     ELSE IF rec THEN "asleep" ELSE "act_end"
      \/ /\ k = 9 /\ rec /\ reg[SP] # Top
         /\ phase' = "load_stack" /\ k' = 0
      \/ /\ k # 37 /\ ~(k = 9 /\ rec /\ reg[SP] # Top)
         /\ k' = k + 1 /\ phase' = phase
  BY Zenon DEF RestoreReg
<1>4. reg \in [Cell -> Nat] /\ SP \in Cell
  BY DEF Typed
<1> HIDE DEF c, v
<1>5. /\ SafeSp' = SafeSp /\ \A n : StackLoaded(n)' = StackLoaded(n)
      /\ \A d : safe'[LoadWord(d)] = safe[LoadWord(d)]
  BY <1>2 DEF SafeSp, StackLoaded
<1>6. \A i \in 1..k : Kept(LoadOrder[i])'
  <2> TAKE i \in 1..k
  <2> DEFINE d == LoadOrder[i]
  <2>4. k \in 1..37
    BY <1>1
  <2>5. i \in 1..37
    BY <2>4
  <2>1. i \in 1..37 /\ d \in Cell
    BY <2>5, LoadOrderCells
  <2>2. CASE i = k
    <3>1. d = c
      BY <2>2 DEF c
    <3> HIDE DEF d
    <3>2. reg'[d] = safe[LoadWord(d)] /\ d \notin bad'
      BY <1>2, <1>4, <2>1, <3>1 DEF v
    <3>3. d = LoadOrder[i]
      BY DEF d
    <3> QED
      BY <1>5, <3>2, <3>3 DEF Kept
  <2>3. CASE i # k
    <3>1. Kept(d)
      BY <1>1, <2>1, <2>3
    <3>2. d # c
      BY <1>1, <2>1, <2>3, LoadOrderCells DEF c
    <3>3. d = LoadOrder[i]
      OBVIOUS
    <3> HIDE DEF d
    <3>4. reg'[d] = reg[d] /\ (d \notin bad => d \notin bad')
      BY <1>2, <1>4, <2>1, <3>2
    <3> QED
      BY <1>5, <3>1, <3>3, <3>4 DEF Kept
  <2> QED
    BY <2>2, <2>3
<1>7. SafeSp' \in Low - 4..Top
  <2>1. phase' # "activate"
    BY <1>1, <1>3
  <2> QED
    BY <2>1, SpKept
<1>8. k > 7 => reg[SP] = SafeSp
  <2> SUFFICES ASSUME k > 7 PROVE reg[SP] = SafeSp
    OBVIOUS
  <2>1. 7 \in 1..k - 1 /\ LoadOrder[7] = SP
    BY <1>1, LoadOrderIs
  <2> QED
    BY <1>1, <2>1 DEF Kept, SafeSp
<1>9. CASE k = 37
  <2>1. ASSUME NEW d \in Cell PROVE Kept(d)'
    <3>1. PICK i \in 1..37 : LoadOrder[i] = d
      BY LoadOrderCells
    <3>2. Kept(LoadOrder[i])'
      BY <1>6, <1>9
    <3> QED
      BY <3>1, <3>2, Zenon DEF Kept
  <2>2. /\ phase' \notin {"activate", "restore", "load_stack"}
        /\ phase' = "resumed" => reg[PC] # ActPc
    BY <1>3, <1>9
  <2>3. phase' = "resumed" => rec
    BY ActivationEnds
  <2>4. c = T5
    BY <1>9, LoadOrderIs DEF c
  <2>5. reg'[PC] = reg[PC]
    BY <1>2, <1>4, <2>4
  <2>6. phase' = "resumed" /\ SafeSp # Top => StackLoaded(Top - SafeSp + 1)
    BY <1>1, <1>9, <2>3
  <2> QED
    BY <1>5, <1>7, <2>1, <2>2, <2>5, <2>6 DEF RestoreInv
<1>10. CASE k = 9 /\ rec /\ reg[SP] # Top
  <2>1. phase' = "load_stack" /\ k' = 0
    BY <1>3, <1>10
  <2>2. c = 4
    BY <1>10, LoadOrderIs DEF c
  <2>3. reg'[SP] = SafeSp /\ SafeSp # Top
    BY <1>2, <1>4, <1>8, <1>10, <2>2
  <2>4. SP \notin bad'
    <3>1. Kept(LoadOrder[7])'
      BY <1>6, <1>10
    <3> QED
      BY <3>1, LoadOrderIs DEF Kept
  <2>5. \A j \in 0..k' - 1 : mem'[SafeSp' + j] = safe'[37 + j]
    BY <2>1
  <2>6. SafeSp + 0 = SafeSp /\ SafeSp <= Top
    BY <1>5, <1>7, Constants
  <2>7. \A i \in 1..9 \ {7} : Kept(LoadOrder[i])'
    BY <1>6, <1>10
  <2>8. /\ SafeSp' + k' <= Top /\ SafeSp' # Top
        /\ reg'[SP] = SafeSp' + k' /\ SP \notin bad'
    BY <1>5, <2>1, <2>3, <2>4, <2>6
  <2> QED
    BY <1>7, <2>1, <2>5, <2>7, <2>8 DEF RestoreInv, StackLoaded
<1>11. CASE k # 37 /\ ~(k = 9 /\ rec /\ reg[SP] # Top)
  <2>1. phase' = "restore" /\ k' = k + 1
    BY <1>1, <1>3, <1>11
  <2>2. k' \in 1..37 /\ k' - 1 = k
    BY <1>1, <1>11, <2>1
  <2>3. rec /\ k' > 9 /\ SafeSp # Top => StackLoaded(Top - SafeSp + 1)
    <3> SUFFICES ASSUME rec, k' > 9, SafeSp # Top
                 PROVE  StackLoaded(Top - SafeSp + 1)
      OBVIOUS
    <3>1. k > 9
      BY <1>1, <1>8, <1>11, <2>1
    <3> QED
      BY <1>1, <3>1
  <2>4. \A i \in 1..k' - 1 : Kept(LoadOrder[i])'
    BY <1>6, <2>2
  <2>5. rec' /\ k' > 9 /\ SafeSp' # Top =>
          \A j \in 0..(Top - SafeSp' + 1) - 1 : mem'[SafeSp' + j] = safe'[37 + j]
    BY <1>2, <1>5, <2>3 DEF StackLoaded
  <2> QED
    BY <1>7, <2>1, <2>2, <2>4, <2>5 DEF RestoreInv, StackLoaded
<1> QED
  BY <1>9, <1>10, <1>11

\* halt_boot loads one word of the stack.
LEMMA LoadStackKept ==
  ASSUME CheckpointInv, [Next]_vars, LoadStack
  PROVE  RestoreInv'
<1> USE DEF CheckpointInv
<1>1. /\ SafeSp + k <= Top /\ SafeSp # Top
      /\ reg[SP] = SafeSp + k /\ SP \notin bad
      /\ \A i \in 1..9 \ {7} : reg[LoadOrder[i]] = safe[LoadWord(LoadOrder[i])]
                               /\ LoadOrder[i] \notin bad
      /\ \A j \in 0..k - 1 : mem[SafeSp + j] = safe[37 + j]
  BY DEF LoadStack, RestoreInv, StackLoaded, Kept
<1>2. /\ mem' = [mem EXCEPT ![reg[SP]] = safe[37 + k]]
      /\ safe' = safe /\ bad' = bad /\ rec' = rec
  BY Zenon DEF LoadStack
<1>3. \/ /\ reg[SP] = Top
         /\ phase' = "restore" /\ k' = 10
         /\ reg' = [reg EXCEPT ![SP] = safe[LoadWord(SP)]]
      \/ /\ reg[SP] # Top
         /\ reg' = [reg EXCEPT ![SP] = reg[SP] + 1]
         /\ k' = k + 1 /\ phase' = phase
  BY Zenon DEF LoadStack
<1>4. reg \in [Cell -> Nat] /\ mem \in [0..Top -> Nat] /\ k \in Nat
  BY StackPointers DEF Typed
<1>5. /\ SafeSp' = SafeSp /\ SafeSp = safe[LoadWord(SP)] /\ safe' = safe
      /\ SafeSp \in Low - 4..Top /\ SafeSp \in Nat
  <2>1. phase # "activate"
    BY DEF LoadStack
  <2> QED
    BY <1>2, <2>1, Constants DEF SafeSp, RestoreInv
<1>12. /\ SafeSp + k <= Top /\ SafeSp # Top /\ reg[SP] = SafeSp + k /\ SP \notin bad
       /\ SafeSp \in Nat /\ k \in Nat /\ Top \in Nat
  BY <1>1, <1>4, <1>5, Constants
<1>6. \A j \in 0..k : mem'[SafeSp + j] = safe'[37 + j]
  <2> TAKE j \in 0..k
  <2>1. SafeSp + j \in 0..Top /\ (SafeSp + j = SafeSp + k <=> j = k)
    BY <1>12
  <2>2. j # k => j \in 0..k - 1
    BY <1>4
  <2>3. mem' = [mem EXCEPT ![SafeSp + k] = safe[37 + k]]
    BY <1>1, <1>2
  <2>4. CASE j = k
    BY <1>4, <1>5, <2>1, <2>3, <2>4
  <2>5. CASE j # k
    <3>1. mem'[SafeSp + j] = mem[SafeSp + j]
      BY <1>4, <2>1, <2>3, <2>5
    <3> QED
      BY <1>1, <1>5, <2>2, <2>5, <3>1
  <2> QED
    BY <2>4, <2>5
<1>7. \A i \in 1..9 \ {7} : LoadOrder[i] \in Cell /\ LoadOrder[i] # SP
  <2>1. 1..9 \ {7} \subseteq 1..37 \ {7}
    OBVIOUS
  <2> QED
    BY <2>1, LoadOrderCells
<1>8. ASSUME NEW v, reg' = [reg EXCEPT ![SP] = v]
      PROVE  reg'[SP] = v /\ \A i \in 1..9 \ {7} : reg'[LoadOrder[i]] = reg[LoadOrder[i]]
  <2>1. reg \in [Cell -> Nat]
    BY <1>4
  <2>2. reg'[SP] = v /\ \A d \in Cell : d # SP => reg'[d] = reg[d]
    BY <1>8, <2>1
  <2> QED
    BY <1>7, <2>2, Zenon
<1>9. phase' # "activate"
  BY <1>3 DEF LoadStack
<1>10. CASE reg[SP] = Top
  <2>1. /\ phase' = "restore" /\ k' = 10
        /\ reg' = [reg EXCEPT ![SP] = safe[LoadWord(SP)]]
    BY <1>3, <1>10
  <2>2. \A i \in 1..9 \ {7} : Kept(LoadOrder[i])'
    BY <1>1, <1>2, <1>8, <2>1 DEF Kept
  <2>3. Kept(LoadOrder[7])'
    <3>1. LoadOrder[7] = SP
      BY LoadOrderIs
    <3> QED
      BY <1>1, <1>2, <1>8, <2>1, <3>1 DEF Kept
  <2>4. \A i \in 1..k' - 1 : Kept(LoadOrder[i])'
    BY <2>1, <2>2, <2>3
  <2>5. (Top - SafeSp' + 1) - 1 = k
    <3>1. SafeSp + k = Top /\ SafeSp' = SafeSp
      BY <1>5, <1>10, <1>12
    <3> QED
      BY <1>12, <3>1
  <2>6. \A j \in 0..(Top - SafeSp' + 1) - 1 : mem'[SafeSp' + j] = safe'[37 + j]
    BY <1>5, <1>6, <2>5
  <2> QED
    BY <1>5, <2>1, <2>4, <2>6 DEF RestoreInv, StackLoaded
<1>11. CASE reg[SP] # Top
  <2>1. /\ reg' = [reg EXCEPT ![SP] = reg[SP] + 1]
        /\ k' = k + 1 /\ phase' = "load_stack"
    BY <1>3, <1>11 DEF LoadStack
  <2>2. \A i \in 1..9 \ {7} : Kept(LoadOrder[i])'
    BY <1>1, <1>2, <1>8, <2>1 DEF Kept
  <2>3. reg'[SP] = reg[SP] + 1
    BY <1>8, <2>1
  <2>4. /\ SafeSp' + k' <= Top /\ SafeSp' # Top
        /\ reg'[SP] = SafeSp' + k' /\ SP \notin bad'
    <3>1. SafeSp' = SafeSp /\ bad' = bad
      BY <1>2, <1>5
    <3> QED
      BY <1>11, <1>12, <2>1, <2>3, <3>1
  <2>5. \A j \in 0..k' - 1 : mem'[SafeSp' + j] = safe'[37 + j]
    <3>1. k' - 1 = k
      BY <1>4, <2>1
    <3> QED
      BY <1>5, <1>6, <3>1
  <2> QED
    BY <1>5, <2>1, <2>2, <2>4, <2>5 DEF RestoreInv, StackLoaded
<1> QED
  BY <1>10, <1>11

LEMMA RestoreStep ==
  ASSUME CheckpointInv, [Next]_vars
  PROVE  RestoreInv'
<1>1. phase' # "activate" => SafeSp' \in Low - 4..Top
  BY SpKept
<1>2. CASE phase' \notin {"restore", "load_stack", "act_end", "resumed"}
  BY <1>1, <1>2 DEF RestoreInv
<1>3. CASE ActivateSleep \/ Mismatch
  <2>1. phase' = "restore" /\ k' = 1
    BY <1>3 DEF ActivateSleep, Mismatch
  <2> QED
    BY <1>1, <2>1 DEF RestoreInv
<1>4. CASE UNCHANGED vars
  BY <1>4, Zenon DEF CheckpointInv, vars, RestoreInv, Kept, SafeSp, StackLoaded
<1> QED
  BY <1>2, <1>3, <1>4, InRestore, RestoreRegKept, LoadStackKept

-----------------------------------------------------------------------------
(* The activation is kept.                                                 *)

LEMMA InActivation ==
  ASSUME CheckpointInv, [Next]_vars, Activating'
  PROVE  /\ ActivateEnter \/ ActivateSave \/ ActivateSleep \/ RestoreReg \/ UNCHANGED vars
         /\ RestoreReg => ~rec /\ ~writing'
         /\ good' = good
<1> USE DEF CheckpointInv
<1>1. /\ phase' \in {"activate", "restore", "act_end"}
      /\ phase' = "restore" => ~rec'
  BY DEF Activating
<1>2. RestoreReg => ~rec /\ ~writing'
  <2>1. RestoreReg => rec' = rec
    BY DEF RestoreReg
  <2> QED
    BY <1>1, <2>1, ActivationEnds
<1>3. good' = good
  <2>1. ~StoreReg /\ ~Resume
    BY <1>1 DEF StoreReg, Resume
  <2> QED
    BY <2>1, Changes
<1>4. CASE phase' = "activate"
  <2>1. CASE RecoveryLeave
    <3>1. phase = "pop" /\ phase' = back[1]
      BY <2>1 DEF RecoveryLeave
    <3>2. phase' \in Library \cup {"run"}
      BY <3>1, EntrySp DEF Handling
    <3> QED
      BY <1>4, <3>2 DEF Library
  <2>2. CASE \E c \in Struck : Strike(c)
    BY <1>4, <2>2 DEF Strike
  <2>3. CASE Done
    BY <1>4, <2>3 DEF Done, vars
  <2>4. CASE ActivateLeave \/ Work \/ StoreCall \/ StoreEnter \/ StoreStack \/ StoreReg
    BY <1>4, <2>4 DEF ActivateLeave, Work, StoreCall, StoreEnter, StoreStack, StoreReg
  <2>5. CASE StoreLeave \/ CheckCall \/ CheckReg \/ CheckLeave \/ Mismatch \/ LoadStack
    BY <1>4, <2>5 DEF StoreLeave, CheckCall, CheckReg, CheckLeave, Mismatch, LoadStack
  <2>6. CASE Resume \/ RecoverySync \/ Push \/ Pop
    BY <1>4, <2>6 DEF Resume, RecoverySync, Push, Pop
  <2> QED
    BY <1>2, <1>3, <2>1, <2>2, <2>3, <2>4, <2>5, <2>6 DEF Next, Cores
<1>5. CASE phase' # "activate"
  <2>1. ~Mismatch
    BY <1>1 DEF Mismatch
  <2>2. ~LoadStack
    <3> SUFFICES ASSUME LoadStack PROVE FALSE
      OBVIOUS
    <3>1. rec' = rec /\ phase = "load_stack" /\ phase' \in {"restore", "load_stack"}
      BY DEF LoadStack
    <3> QED
      BY <1>1, <3>1 DEF ModeInv
  <2> QED
    BY <1>1, <1>2, <1>3, <1>5, <2>1, <2>2, InRestore
<1> QED
  BY <1>4, <1>5

LEMMA ActivateEnterKept ==
  ASSUME CheckpointInv, [Next]_vars, ActivateEnter
  PROVE  ActivateInv'
<1> USE DEF CheckpointInv
<1>1. /\ phase = "activate" /\ k = 0 /\ k' = 1 /\ phase' = phase
      /\ mem' = [mem EXCEPT ![reg[SP] - 1] = reg[T5], ![reg[SP] - 2] = reg[T6]]
      /\ reg' = [reg EXCEPT ![SP] = reg[SP] - 4, ![T5] = Base, ![T6] = Junk]
      /\ good' = good /\ writing' = writing
  BY Zenon DEF ActivateEnter, ghosts
<1>2. /\ ~writing /\ good.reg[PC] = 0 /\ reg = good.reg
      /\ \A a \in Frame(good) : mem[a] = good.mem[a]
  BY <1>1 DEF ActivateInv, Activating
<1>3. /\ reg[SP] = G /\ G \in Low..Top /\ G \in Nat
      /\ Frame(good) = G..Top - 1 /\ Frame(good') = Frame(good) /\ G' = G
  BY <1>1, <1>2, StackPointers, FrameIs DEF G, Typed
<1>4. mem \in [0..Top -> Nat] /\ reg \in [Cell -> Nat]
  BY DEF Typed
<1>5. /\ reg'[SP] = G - 4 /\ reg'[T5] = Base
      /\ \A c \in Cell \ {SP, T5, T6} : reg'[c] = good.reg[c]
  <2>1. reg \in [Cell -> Nat] /\ reg[SP] = G
    BY <1>3, <1>4
  <2>2. reg'[SP] = reg[SP] - 4 /\ reg'[T5] = Base
    BY <1>1, <2>1
  <2>3. \A c \in Cell \ {SP, T5, T6} : reg'[c] = reg[c]
    BY <1>1, <2>1
  <2> QED
    BY <1>2, <2>1, <2>2, <2>3
<1>6. /\ mem'[G - 2] = reg[T6]
      /\ \A a \in G..Top - 1 : mem'[a] = mem[a]
  <2>1. mem' = [mem EXCEPT ![G - 1] = reg[T5], ![G - 2] = reg[T6]]
    BY <1>1, <1>3
  <2>2. mem \in [0..Top -> Nat] /\ G - 1 \in 0..Top /\ G - 2 \in 0..Top /\ G \in Nat
    <3>1. G \in Low..Top /\ G \in Nat
      BY <1>3
    <3>2. G - 1 \in 0..Top /\ G - 2 \in 0..Top
      BY <3>1, Constants
    <3> QED
      BY <1>4, <3>1, <3>2
  <2>3. mem'[G - 2] = reg[T6]
    BY <2>1, <2>2
  <2>4. ASSUME NEW a \in G..Top - 1 PROVE mem'[a] = mem[a]
    <3>1. a \in 0..Top /\ a # G - 1 /\ a # G - 2
      BY <2>2, Constants
    <3> QED
      BY <2>1, <2>2, <3>1
  <2> QED
    BY <2>3, <2>4
<1>7. /\ ~writing' /\ good'.reg[PC] = 0
      /\ \A a \in Frame(good') : mem'[a] = good'.mem[a]
      /\ mem'[G' - 2] = good'.reg[T6]
  BY <1>1, <1>2, <1>3, <1>6
<1>8. /\ k' \in 0..38 /\ k' # 0 /\ k' - 1 = 0
      /\ reg'[SP] = G' - 4 /\ reg'[T5] = Base
      /\ \A c \in Cell \ {SP, T5, T6} : reg'[c] = good'.reg[c]
  <2>1. k' \in 0..38 /\ k' # 0 /\ k' - 1 = 0
    BY <1>1
  <2>2. G' = G /\ good' = good
    BY <1>1, <1>3
  <2> QED
    BY <1>5, <2>1, <2>2
<1>9. phase' = "activate"
  BY <1>1
<1> QED
  BY <1>7, <1>8, <1>9 DEF ActivateInv

LEMMA ActivateSaveKept ==
  ASSUME CheckpointInv, [Next]_vars, ActivateSave
  PROVE  ActivateInv'
<1> USE DEF CheckpointInv
<1> DEFINE c == ActOrder[k]
           v == CASE c = T6 -> mem[reg[SP] + 2]
                  [] c = PC -> ActPc
                  [] OTHER  -> reg[c]
<1>1. /\ phase = "activate" /\ k \in 1..37 /\ k' = k + 1 /\ phase' = phase
      /\ safe' = [safe EXCEPT ![StoreWord(c)] = v]
      /\ mem' = (IF c = T5 THEN [mem EXCEPT ![reg[SP] + 3] = reg[T5]] ELSE mem)
      /\ reg' = reg /\ good' = good /\ writing' = writing
  BY Zenon DEF ActivateSave, ghosts
<1>2. /\ ~writing /\ good.reg[PC] = 0
      /\ \A a \in Frame(good) : mem[a] = good.mem[a]
      /\ mem[G - 2] = good.reg[T6]
      /\ reg[SP] = G - 4 /\ reg[T5] = Base
      /\ \A d \in Cell \ {SP, T5, T6} : reg[d] = good.reg[d]
      /\ \A i \in 1..k - 1 : safe[StoreWord(ActOrder[i])] = ActSaved(ActOrder[i])
  BY <1>1 DEF ActivateInv, Activating
<1>3. /\ G \in Low..Top /\ G \in Nat /\ Frame(good) = G..Top - 1
      /\ Frame(good') = Frame(good) /\ G' = G /\ \A d : ActSaved(d)' = ActSaved(d)
  BY <1>1, StackPointers, FrameIs, Zenon DEF G, Typed, ActSaved
<1>4. mem \in [0..Top -> Nat] /\ safe \in [SafeWord -> Nat]
  BY DEF Typed
<1>5. c \in Cell /\ StoreWord(c) \in SafeWord
  BY <1>1, ActOrderCells, Words
<1>6. v = ActSaved(c)
  <2>1. reg[SP] + 2 = G - 2
    BY <1>2, <1>3
  <2>2. CASE c = T6
    BY <1>2, <2>1, <2>2 DEF ActSaved
  <2>3. CASE c # T6
    BY <1>2, <1>5, <2>3 DEF ActSaved
  <2> QED
    BY <2>2, <2>3
<1> HIDE DEF c, v
<1>7. \A i \in 1..k : safe'[StoreWord(ActOrder[i])] = ActSaved(ActOrder[i])
  <2> TAKE i \in 1..k
  <2> DEFINE d == ActOrder[i]
  <2>1. i \in 1..37
    BY <1>1
  <2>2. d \in Cell
    BY <2>1, ActOrderCells
  <2>3. CASE i = k
    <3>1. d = c
      BY <2>3 DEF c
    <3> HIDE DEF d
    <3>2. safe'[StoreWord(d)] = ActSaved(d)
      BY <1>1, <1>4, <1>5, <1>6, <3>1
    <3> QED
      BY <3>2 DEF d
  <2>4. CASE i # k
    <3>1. i \in 1..k - 1
      BY <1>1, <2>4
    <3>2. safe[StoreWord(d)] = ActSaved(d)
      BY <1>2, <3>1
    <3>3. d # c
      BY <1>1, <2>1, <2>4, ActOrderCells DEF c
    <3> HIDE DEF d
    <3>4. StoreWord(d) # StoreWord(c) /\ StoreWord(d) \in SafeWord
      BY <1>5, <2>2, <3>3, Words
    <3>5. safe'[StoreWord(d)] = safe[StoreWord(d)]
      BY <1>1, <1>4, <3>4
    <3>6. safe'[StoreWord(d)] = ActSaved(d)
      BY <3>2, <3>5
    <3> QED
      BY <3>6 DEF d
  <2> QED
    BY <2>3, <2>4
<1>8. /\ mem'[G - 2] = mem[G - 2]
      /\ \A a \in G..Top - 1 : mem'[a] = mem[a]
  <2>1. mem' = mem \/ mem' = [mem EXCEPT ![G - 1] = reg[T5]]
    <3>1. reg[SP] + 3 = G - 1
      BY <1>2, <1>3
    <3> QED
      BY <1>1, <3>1
  <2>2. CASE mem' = mem
    BY <2>2
  <2>3. CASE mem' = [mem EXCEPT ![G - 1] = reg[T5]]
    <3>1. G - 2 \in 0..Top /\ G - 2 # G - 1
      BY <1>3, Constants
    <3>2. mem'[G - 2] = mem[G - 2]
      BY <1>4, <2>3, <3>1
    <3>3. ASSUME NEW a \in G..Top - 1 PROVE mem'[a] = mem[a]
      <4>1. a \in 0..Top /\ a # G - 1
        BY <1>3, Constants
      <4> QED
        BY <1>4, <2>3, <4>1
    <3> QED
      BY <3>2, <3>3
  <2> QED
    BY <2>1, <2>2, <2>3
<1>9. /\ ~writing' /\ good'.reg[PC] = 0
      /\ \A a \in Frame(good') : mem'[a] = good'.mem[a]
      /\ mem'[G' - 2] = good'.reg[T6]
  BY <1>1, <1>2, <1>3, <1>8
<1>10. /\ k' \in 0..38 /\ k' # 0 /\ k' - 1 = k
       /\ reg'[SP] = G' - 4 /\ reg'[T5] = Base
       /\ \A d \in Cell \ {SP, T5, T6} : reg'[d] = good'.reg[d]
  <2>1. k' \in 0..38 /\ k' # 0 /\ k' - 1 = k
    BY <1>1
  <2> QED
    BY <1>1, <1>2, <1>3, <2>1
<1>11. \A i \in 1..k' - 1 : safe'[StoreWord(ActOrder[i])] = ActSaved(ActOrder[i])'
  BY <1>3, <1>7, <1>10
<1>12. phase' = "activate"
  BY <1>1
<1> QED
  BY <1>9, <1>10, <1>11, <1>12 DEF ActivateInv

LEMMA ActivateStep ==
  ASSUME CheckpointInv, [Next]_vars
  PROVE  ActivateInv'
<1> USE DEF CheckpointInv
<1>1. CASE ~Activating'
  BY <1>1 DEF ActivateInv, Activating
<1>2. CASE Activating' /\ (ActivateSleep \/ RestoreReg)
  <2>1. /\ good' = good /\ mem' = mem /\ safe' = safe
        /\ Activating /\ phase' # "activate" /\ writing' = writing
        /\ ~(phase = "activate" /\ k = 0)
    <3>1. CASE ActivateSleep
      BY <3>1 DEF ActivateSleep, ghosts, Activating
    <3>2. CASE RestoreReg
      <4>1. /\ good' = good /\ mem' = mem /\ safe' = safe /\ writing' = writing
            /\ phase = "restore"
        BY <3>2, Zenon DEF RestoreReg, ghosts
      <4>2. ~rec
        BY <1>2, <3>2, InActivation
      <4>3. phase' # "activate"
        BY <3>2, <4>2, ActivationEnds
      <4> QED
        BY <4>1, <4>2, <4>3 DEF Activating
    <3> QED
      BY <1>2, <3>1, <3>2
  <2>2. \A c \in Cell : safe[LoadWord(c)] = ActSaved(c)
    <3>1. CASE ActivateSleep
      <4>1. phase = "activate" /\ k - 1 = 37
        BY <3>1, StackPointers DEF ActivateSleep
      <4>2. \A i \in 1..37 : safe[StoreWord(ActOrder[i])] = ActSaved(ActOrder[i])
        BY <4>1 DEF ActivateInv
      <4> TAKE c \in Cell
      <4>3. PICK i \in 1..37 : ActOrder[i] = c
        BY ActOrderCells
      <4>4. safe[StoreWord(c)] = ActSaved(c)
        BY <4>2, <4>3
      <4> QED
        BY <4>4, Words
    <3>2. CASE RestoreReg
      BY <2>1, <3>2 DEF ActivateInv, RestoreReg
    <3> QED
      BY <1>2, <3>1, <3>2
  <2>3. \A c \in Cell : safe'[LoadWord(c)] = ActSaved(c)'
    BY <2>1, <2>2, Zenon DEF ActSaved, G
  <2>4. /\ ~writing /\ good.reg[PC] = 0
        /\ \A a \in Frame(good) : mem[a] = good.mem[a]
        /\ mem[G - 2] = good.reg[T6]
    BY <2>1 DEF ActivateInv
  <2>5. /\ ~writing' /\ good'.reg[PC] = 0
        /\ \A a \in Frame(good') : mem'[a] = good'.mem[a]
        /\ mem'[G' - 2] = good'.reg[T6]
    BY <2>1, <2>4 DEF G
  <2> QED
    BY <2>1, <2>3, <2>5 DEF ActivateInv
<1>3. CASE UNCHANGED vars
  <2>1. /\ phase' = phase /\ k' = k /\ rec' = rec /\ writing' = writing
        /\ reg' = reg /\ mem' = mem /\ safe' = safe /\ good' = good
    BY <1>3 DEF vars, ghosts
  <2>2. ActivateInv
    OBVIOUS
  <2> QED
    BY <2>1, <2>2 DEF ActivateInv, Activating, ActSaved, G, Frame
<1> QED
  BY <1>1, <1>2, <1>3, InActivation, ActivateEnterKept, ActivateSaveKept

-----------------------------------------------------------------------------
(* The safe copy of a pair is kept.                                        *)

\* A pair never takes irq 16; the words of a checkpoint are only written in
\* Store_Checkpoint, or left half written by a rollback out of it.
LEMMA OfPair ==
  ASSUME CheckpointInv, mode = "DCLS"
  PROVE  /\ ~irq /\ ~cut /\ phase \notin {"push", "pop"}
         /\ writing => phase \in {"copy", "regs", "restore", "load_stack", "resumed", "asleep"}
BY DEF CheckpointInv, ModeInv, Handling

\* A step that writes neither the copy nor what it is compared with.
LEMMA CopyQuiet ==
  ASSUME CheckpointInv, mode = "DCLS", phase # "activate",
         safe' = safe, good' = good, writing' = writing, writing => call' = call,
         phase' \notin {"copy", "regs"},
         phase' \in Library => reg'[MEPC] = call'.reg[MEPC]
  PROVE  CopyInv'
<1>1. /\ ~writing => safe[StoreWord(PC)] = ActPc \/ Holds(good)
      /\ writing => OldPlace \/ Holds(call)
  BY DEF CheckpointInv, CopyInv
<1>2. ~writing' => safe'[StoreWord(PC)] = ActPc \/ Holds(good)'
  BY <1>1, Zenon DEF Holds
<1>3. writing' => OldPlace' \/ Holds(call)'
  BY <1>1, Zenon DEF Holds, OldPlace
<1> QED
  BY <1>2, <1>3 DEF CopyInv

LEMMA CopyStoreEnter ==
  ASSUME CheckpointInv, [Next]_vars, mode = "DCLS", StoreEnter
  PROVE  CopyInv'
<1> USE DEF CheckpointInv
<1>1. /\ phase = "enter" /\ safe' = safe /\ good' = good /\ call' = call /\ writing' = writing
  BY Zenon DEF StoreEnter, ghosts
<1>2. \/ /\ reg[SP] = Top /\ phase' = "regs" /\ k' = 1
         /\ reg' = [reg EXCEPT ![T2] = Junk, ![T4] = Junk, ![T5] = Base]
      \/ /\ reg[SP] # Top /\ phase' = "copy" /\ k' = 0
         /\ reg' = [reg EXCEPT ![T2] = Junk, ![T4] = Junk, ![T5] = Base, ![T3] = Junk]
  BY Zenon DEF StoreEnter
<1>3. ~writing
  BY <1>1, OfPair
<1>4. /\ safe[StoreWord(PC)] = ActPc \/ Holds(good)
      /\ reg[MEPC] = call.reg[MEPC]
  BY <1>1, <1>3 DEF CopyInv, Library
<1>5. OldPlace'
  BY <1>1, <1>4, LiveCells DEF OldPlace, Holds
<1>6. ~writing' => safe'[StoreWord(PC)] = ActPc \/ Holds(good)'
  BY <1>1, <1>4, Zenon DEF Holds
<1>7. reg'[MEPC] = reg[MEPC]
  <2>1. reg \in [Cell -> Nat]
    BY DEF Typed
  <2> QED
    BY <1>2, <2>1
<1>8. phase' = "regs" => Base0' = Top
  <2>1. reg[SP] = Base0 - LoweredAt("enter", k) /\ Base0 \in Nat
    BY <1>1, RunningSp, StackPointers DEF RoutineInv, Lowered, Library
  <2>2. reg[SP] = Base0
    BY <2>1, LoweredIs
  <2> QED
    BY <1>1, <1>2, <2>2 DEF Base0
<1>9. /\ phase' = "copy" => \A j \in 0..k' - 1 : safe'[37 + j] = call'.mem[Base0' + j]
      /\ phase' = "regs" => \A i \in 1..k' - 1 :
           safe'[StoreWord(StoreOrder[i])] = call'.reg[StoreOrder[i]]
  <2>1. phase' = "copy" => k' = 0
    BY <1>2
  <2>2. phase' = "regs" => k' = 1
    BY <1>2
  <2> QED
    BY <2>1, <2>2
<1>10. reg'[MEPC] = call'.reg[MEPC]
  BY <1>1, <1>4, <1>7
<1> QED
  BY <1>5, <1>6, <1>8, <1>9, <1>10 DEF CopyInv

LEMMA CopyStoreStack ==
  ASSUME CheckpointInv, [Next]_vars, mode = "DCLS", StoreStack
  PROVE  CopyInv'
<1> USE DEF CheckpointInv
<1>1. /\ phase = "copy" /\ good' = good /\ call' = call /\ writing' = TRUE
      /\ safe' = [safe EXCEPT ![37 + k] = mem[reg[SP] + k]]
      /\ reg' = [reg EXCEPT ![T6] = Junk]
  BY Zenon DEF StoreStack
<1>2. \/ reg[SP] + k = Top /\ phase' = "regs" /\ k' = 1
      \/ reg[SP] + k # Top /\ phase' = "copy" /\ k' = k + 1
  BY Zenon DEF StoreStack
<1>3. /\ OldPlace /\ reg[MEPC] = call.reg[MEPC]
      /\ \A j \in 0..k - 1 : safe[37 + j] = call.mem[Base0 + j]
  BY <1>1 DEF CopyInv, Library
<1>4. /\ At = "copy" /\ Step = k /\ Own = reg
      /\ Base0 \in Nat /\ k \in Nat /\ Base0 \in Low..Top /\ Frame(call) = Base0..Top - 1
  BY <1>1, RunningSp, StackPointers, FrameIs DEF Library, Base0, Typed
<1>5. /\ reg[SP] = Base0 - LoweredAt("copy", k) /\ Base0 + k <= Top
      /\ \A a \in Frame(call) : mem[a] = call.mem[a]
  BY <1>4 DEF RoutineInv, Lowered, Library
<1>6. reg[SP] = Base0
  BY <1>4, <1>5, LoweredIs
<1>7. safe \in [SafeWord -> Nat] /\ reg \in [Cell -> Nat]
  BY DEF Typed
<1>8. safe'[StoreWord(PC)] = safe[StoreWord(PC)] /\ reg'[MEPC] = reg[MEPC]
  <2>1. StoreWord(PC) \in 0..36 /\ StoreWord(PC) \in SafeWord
    BY Words
  <2>2. StoreWord(PC) # 37 + k
    BY StackPointers, <2>1
  <2>3. safe'[StoreWord(PC)] = safe[StoreWord(PC)]
    BY <1>1, <1>7, <2>1, <2>2
  <2>4. reg'[MEPC] = reg[MEPC]
    BY <1>1, <1>7
  <2> QED
    BY <2>3, <2>4
<1>9. \A j \in 0..MaxDepth + 4 : j # k => safe'[37 + j] = safe[37 + j]
  <2> TAKE j \in 0..MaxDepth + 4
  <2>1. 37 + j \in SafeWord /\ (j # k => 37 + j # 37 + k)
    BY <1>4, Words
  <2> QED
    BY <1>1, <1>7, <2>1
<1>10. k \in 0..MaxDepth + 4 /\ 0..k - 1 \subseteq 0..MaxDepth + 4
  <2>1. Base0 + k <= Top /\ Base0 \in Low..Top /\ k \in Nat
    BY <1>4, <1>5
  <2> QED
    BY <2>1, Constants
<1>11. \A j \in 0..k - 1 : safe'[37 + j] = call.mem[Base0 + j]
  <2> TAKE j \in 0..k - 1
  <2>1. j \in 0..MaxDepth + 4 /\ j # k
    BY <1>4, <1>10
  <2> QED
    BY <1>3, <1>9, <2>1
<1>12. OldPlace' /\ reg'[MEPC] = call'.reg[MEPC]
  BY <1>1, <1>3, <1>8 DEF OldPlace
<1>13. CASE reg[SP] + k = Top
  <2>1. phase' = "regs" /\ k' = 1
    BY <1>2, <1>13
  <2>2. ASSUME NEW a \in Frame(call) PROVE safe'[37 + a - Base0] = call.mem[a]
    <3> DEFINE j == a - Base0
    <3>1. j \in 0..k - 1 /\ 37 + j = 37 + a - Base0 /\ Base0 + j = a
      BY <1>4, <1>6, <1>13, Constants
    <3>2. safe'[37 + j] = call.mem[Base0 + j]
      BY <1>11, <3>1
    <3> QED
      BY <3>1, <3>2
  <2>3. \A a \in Frame(call') : safe'[37 + a - Base0'] = call'.mem[a]
    BY <1>1, <2>2 DEF Base0
  <2>4. \A i \in 1..k' - 1 : safe'[StoreWord(StoreOrder[i])] = call'.reg[StoreOrder[i]]
    BY <2>1
  <2> QED
    BY <1>1, <1>12, <2>1, <2>3, <2>4 DEF CopyInv
<1>14. CASE reg[SP] + k # Top
  <2>1. phase' = "copy" /\ k' = k + 1
    BY <1>2, <1>14
  <2>2. safe'[37 + k] = call.mem[Base0 + k]
    <3>1. Base0 + k \in Frame(call)
      BY <1>4, <1>5, <1>6, <1>14, Constants
    <3>2. 37 + k \in SafeWord
      BY <1>10, Words
    <3>3. safe'[37 + k] = mem[Base0 + k]
      BY <1>1, <1>6, <1>7, <3>2
    <3> QED
      BY <1>5, <3>1, <3>3
  <2>3. \A j \in 0..k' - 1 : safe'[37 + j] = call'.mem[Base0' + j]
    <3> TAKE j \in 0..k' - 1
    <3>1. j = k \/ j \in 0..k - 1
      BY <1>4, <2>1
    <3>2. call' = call /\ Base0' = Base0
      BY <1>1 DEF Base0
    <3> QED
      BY <1>11, <2>2, <3>1, <3>2
  <2> QED
    BY <1>1, <1>12, <2>1, <2>3 DEF CopyInv
<1> QED
  BY <1>13, <1>14

\* Store_Checkpoint of a pair writes what the caller had.
LEMMA SavedIs ==
  ASSUME CheckpointInv, mode = "DCLS", StoreReg
  PROVE  Saved(StoreOrder[k]) = call.reg[StoreOrder[k]]
<1> USE DEF CheckpointInv
<1> DEFINE c == StoreOrder[k]
<1>1. /\ phase = "regs" /\ At = "regs" /\ Step = k /\ Own = reg
      /\ k \in 1..37 /\ c \in Cell
  BY StoreRegIs DEF StoreReg
<1>2. ~cut /\ reg[MEPC] = call.reg[MEPC]
  BY <1>1, OfPair DEF CopyInv, Library
<1>3. /\ reg[SP] = Base0 - LoweredAt("regs", k)
      /\ \A d \in Cell \ (UsedAt("regs", k) \cup {MEPC}) : reg[d] = call.reg[d]
      /\ \A d \in Temps : mem[Base0 - Place(d)] = call.reg[d] \/ (cut /\ d \in Spoilt)
  BY <1>1 DEF RoutineInv, Lowered, Used, Library
<1> HIDE DEF c
<1>4. CASE c \in Temps
  BY <1>2, <1>3, <1>4 DEF Saved, c
<1>5. CASE c = SP
  <2>1. k = 7
    BY <1>1, <1>5, StoreOrderCells DEF c
  <2>2. reg[SP] = Base0
    BY <1>3, <2>1, LoweredIs, StackPointers
  <2> QED
    BY <1>5, <2>2 DEF Saved, c, Temps, Base0
<1>6. CASE c = MEPC
  BY <1>2, <1>6 DEF Saved, c, Temps
<1>7. CASE c \notin Temps \cup {SP, MEPC}
  <2>1. c \in Cell \ (UsedAt("regs", k) \cup {MEPC})
    BY <1>1, <1>7, UsedIs
  <2> QED
    BY <1>3, <1>7, <2>1 DEF Saved, c
<1> QED
  BY <1>4, <1>5, <1>6, <1>7

LEMMA CopyStoreReg ==
  ASSUME CheckpointInv, [Next]_vars, mode = "DCLS", StoreReg
  PROVE  CopyInv'
<1> USE DEF CheckpointInv
<1> DEFINE c == StoreOrder[k]
           v == Saved(c)
<1>1. /\ k \in 1..37 /\ c \in Cell /\ v = call.reg[c]
      /\ safe' = [safe EXCEPT ![StoreWord(c)] = v]
  BY StoreRegIs, SavedIs
<1>2. /\ phase = "regs" /\ call' = call
      /\ writing' = (k # 37) /\ good' = (IF k = 37 THEN call ELSE good)
      /\ \/ k = 37 /\ phase' = "leave"
         \/ k # 37 /\ phase' = "regs" /\ k' = k + 1
  BY Zenon DEF StoreReg
<1>3. reg'[MEPC] = reg[MEPC]
  <2>1. reg \in [Cell -> Nat]
    BY DEF Typed
  <2>2. \/ reg' = [reg EXCEPT ![SP] = Base0 - 7]
        \/ c \in {T2, T3, T4} /\ reg' = [reg EXCEPT ![c] = v]
        \/ reg' = [reg EXCEPT ![T6] = Junk]
    BY <1>1, StoreRegIs
  <2> HIDE DEF c, v
  <2>3. CASE reg' = [reg EXCEPT ![SP] = Base0 - 7]
    BY <2>1, <2>3
  <2>4. CASE c \in {T2, T3, T4} /\ reg' = [reg EXCEPT ![c] = v]
    BY <2>1, <2>4
  <2>5. CASE reg' = [reg EXCEPT ![T6] = Junk]
    BY <2>1, <2>5
  <2> QED
    BY <2>2, <2>3, <2>4, <2>5
<1>4. /\ reg[MEPC] = call.reg[MEPC]
      /\ k <= 35 => OldPlace
      /\ Base0 # Top => \A a \in Frame(call) : safe[37 + a - Base0] = call.mem[a]
      /\ \A i \in 1..k - 1 : safe[StoreWord(StoreOrder[i])] = call.reg[StoreOrder[i]]
  BY <1>2 DEF CopyInv, Library
<1>5. /\ safe \in [SafeWord -> Nat] /\ Base0 \in Nat /\ Base0 \in Low..Top
      /\ Frame(call) = Base0..Top - 1
  BY StackPointers, FrameIs DEF Typed, Base0
<1>6. \A d \in Cell : safe'[StoreWord(d)] = IF d = c THEN call.reg[d] ELSE safe[StoreWord(d)]
  <2> TAKE d \in Cell
  <2> HIDE DEF c, v
  <2>1. StoreWord(d) \in SafeWord /\ (StoreWord(d) = StoreWord(c) => d = c)
    BY <1>1, Words
  <2>2. CASE d = c
    BY <1>1, <1>5, <2>1, <2>2
  <2>3. CASE d # c
    BY <1>1, <1>5, <2>1, <2>3
  <2> QED
    BY <2>2, <2>3
<1>7. \A i \in 1..k : safe'[StoreWord(StoreOrder[i])] = call.reg[StoreOrder[i]]
  <2> TAKE i \in 1..k
  <2> DEFINE d == StoreOrder[i]
  <2>1. k \in 1..37
    BY <1>1
  <2>2. i \in 1..37 /\ (i # k => i \in 1..k - 1)
    BY <2>1
  <2>3. d \in Cell
    BY <2>2, StoreOrderCells
  <2>4. CASE d = c
    BY <1>6, <2>3, <2>4
  <2>5. CASE d # c
    <3>1. i # k
      BY <2>5
    <3>2. safe[StoreWord(d)] = call.reg[d]
      BY <1>4, <2>2, <3>1
    <3> QED
      BY <1>6, <2>3, <2>5, <3>2
  <2> QED
    BY <2>4, <2>5
<1> HIDE DEF c, v
<1>8. Base0 # Top => \A a \in Frame(call) : safe'[37 + a - Base0] = call.mem[a]
  <2> SUFFICES ASSUME Base0 # Top, NEW a \in Frame(call)
               PROVE  safe'[37 + a - Base0] = call.mem[a]
    OBVIOUS
  <2> DEFINE w == 37 + a - Base0
  <2>1. StoreWord(c) \in 0..36
    BY <1>1, Words
  <2>2. a - Base0 \in 0..MaxDepth + 4 /\ 37 + (a - Base0) = w
    BY <1>5, Constants
  <2>3. w \in SafeWord /\ w # StoreWord(c)
    <3>1. 37 + (a - Base0) \in SafeWord
      BY <2>2, Words
    <3> QED
      BY <2>1, <2>2, <3>1
  <2>4. safe[w] = call.mem[a]
    BY <1>4
  <2> HIDE DEF w
  <2>5. safe'[w] = safe[w]
    BY <1>1, <1>5, <2>3
  <2>6. safe'[w] = call.mem[a]
    BY <2>4, <2>5
  <2> QED
    BY <2>6 DEF w
<1>9. k >= 35 => Holds(call)'
  <2> SUFFICES ASSUME k >= 35 PROVE Holds(call)'
    OBVIOUS
  <2>1. 1..35 \subseteq 1..k
    BY <1>1
  <2>2. ASSUME NEW d \in Live PROVE safe'[StoreWord(d)] = call.reg[d]
    <3>1. PICK i \in 1..35 : StoreOrder[i] = d
      BY StoreOrderCells
    <3> QED
      BY <1>7, <2>1, <3>1
  <2>3. call' = call
    BY <1>2
  <2> QED
    BY <1>8, <2>2, <2>3 DEF Holds, Base0
<1>10. k <= 34 => OldPlace'
  <2> SUFFICES ASSUME k <= 34 PROVE OldPlace'
    OBVIOUS
  <2>1. c # PC
    BY <1>1, StoreOrderIs DEF c
  <2>2. safe'[StoreWord(PC)] = safe[StoreWord(PC)]
    BY <1>6, <2>1
  <2>3. OldPlace /\ good' = good
    BY <1>1, <1>2, <1>4
  <2> QED
    BY <2>2, <2>3 DEF OldPlace
<1>11. call' = call /\ reg'[MEPC] = call'.reg[MEPC]
  BY <1>2, <1>3, <1>4
<1>12. CASE k = 37
  <2>1. phase' = "leave" /\ good' = call /\ ~writing'
    BY <1>2, <1>12
  <2>2. Holds(good)'
    BY <1>9, <1>11, <1>12, <2>1 DEF Holds
  <2> QED
    BY <1>11, <2>1, <2>2 DEF CopyInv
<1>13. CASE k # 37
  <2>1. phase' = "regs" /\ k' = k + 1 /\ writing'
    BY <1>2, <1>13
  <2>2. k' <= 35 => OldPlace'
    BY <1>1, <1>10, <2>1
  <2>3. OldPlace' \/ Holds(call)'
    BY <1>1, <1>9, <1>10
  <2>4. \A i \in 1..k' - 1 : safe'[StoreWord(StoreOrder[i])] = call'.reg[StoreOrder[i]]
    BY <1>1, <1>7, <1>11, <2>1
  <2>5. Base0' # Top => \A a \in Frame(call') : safe'[37 + a - Base0'] = call'.mem[a]
    BY <1>8, <1>11 DEF Base0
  <2> QED
    BY <1>11, <2>1, <2>2, <2>3, <2>4, <2>5 DEF CopyInv
<1> QED
  BY <1>12, <1>13

\* A pair that resumes out of a half written copy has all that the copy lacked.
LEMMA CopyResume ==
  ASSUME CheckpointInv, mode = "DCLS", Resume
  PROVE  CopyInv'
<1> USE DEF CheckpointInv
<1>1. /\ phase = "resumed" /\ ~Torn /\ phase' = "run" /\ writing' = FALSE
      /\ safe' = safe /\ call' = call /\ good' = (IF writing THEN call ELSE good)
  BY Zenon DEF Resume
<1>2. ~writing => Holds(good)
  BY <1>1, ResumedPair
<1>3. writing => Holds(call)
  <2> SUFFICES ASSUME writing PROVE Holds(call)
    OBVIOUS
  <2>1. /\ \A c \in Live : reg[c] = call.reg[c]
        /\ \A a \in Frame(call) : mem[a] = call.mem[a]
    BY <1>1 DEF Torn, Restored
  <2>2. \A c \in Cell : reg[c] = safe[LoadWord(c)]
    BY <1>1 DEF RestoreInv, Kept
  <2>3. \A c \in Live : safe[StoreWord(c)] = call.reg[c]
    BY <2>1, <2>2, LiveCells, Words
  <2>4. SafeSp = call.reg[SP]
    BY <2>1, <2>2, LiveCells DEF SafeSp
  <2>5. call.reg[SP] # Top =>
          \A j \in 0..(Top - call.reg[SP] + 1) - 1 : mem[call.reg[SP] + j] = safe[37 + j]
    BY <1>1, <2>4 DEF RestoreInv, StackLoaded
  <2>6. Frame(call) = call.reg[SP]..Top - 1 /\ call.reg[SP] \in Nat
    BY FrameIs DEF Typed
  <2>7. ASSUME call.reg[SP] # Top, NEW a \in Frame(call)
        PROVE  safe[37 + a - call.reg[SP]] = call.mem[a]
    <3> DEFINE j == a - call.reg[SP]
    <3>1. /\ j \in 0..(Top - call.reg[SP] + 1) - 1
          /\ call.reg[SP] + j = a /\ 37 + a - call.reg[SP] = 37 + j
      BY <2>6, Constants
    <3>2. mem[call.reg[SP] + j] = safe[37 + j]
      BY <2>5, <2>7, <3>1
    <3> QED
      BY <2>1, <3>1, <3>2
  <2> QED
    BY <2>3, <2>7 DEF Holds
<1>4. Holds(good)'
  BY <1>1, <1>2, <1>3, Zenon DEF Holds
<1> QED
  BY <1>1, <1>4 DEF CopyInv, Library

LEMMA CopyStep ==
  ASSUME CheckpointInv, [Next]_vars
  PROVE  CopyInv'
<1> USE DEF CheckpointInv
<1> SUFFICES ASSUME mode = "DCLS", phase' # "activate" PROVE CopyInv'
  <2>1. mode' = mode
    BY Changes
  <2> QED
    BY <2>1 DEF CopyInv
<1>1. reg \in [Cell -> Nat]
  BY DEF Typed
<1>2. phase \in Library => reg[MEPC] = call.reg[MEPC]
  BY DEF CopyInv, Library
<1>3. CASE ActivateSleep
  <2>1. /\ phase = "activate" /\ k = 38 /\ phase' = "restore" /\ safe' = safe
        /\ writing' = writing
    BY <1>3 DEF ActivateSleep, ghosts
  <2>2. ~writing /\ \A i \in 1..k - 1 : safe[StoreWord(ActOrder[i])] = ActSaved(ActOrder[i])
    BY <2>1 DEF ActivateInv, Activating
  <2>3. safe[StoreWord(PC)] = ActPc
    <3>1. safe[StoreWord(ActOrder[37])] = ActSaved(ActOrder[37])
      BY <2>1, <2>2
    <3> QED
      BY <3>1, ActOrderIs DEF ActSaved
  <2> QED
    BY <2>1, <2>2, <2>3 DEF CopyInv, Library
<1>4. CASE phase = "activate" /\ phase' # "activate"
  BY <1>3, <1>4, LeavesActivate
<1>5. CASE ActivateLeave \/ StoreLeave \/ CheckLeave \/ Mismatch \/ RestoreReg \/ LoadStack
  <2>1. /\ safe' = safe /\ good' = good /\ call' = call /\ writing' = writing
        /\ phase # "activate"
    BY <1>5 DEF ActivateLeave, StoreLeave, CheckLeave, Mismatch, RestoreReg, LoadStack, ghosts
  <2>2. phase' \notin Library \cup {"copy", "regs"}
    <3>1. CASE ActivateLeave \/ StoreLeave \/ CheckLeave \/ Mismatch
      BY <3>1 DEF ActivateLeave, StoreLeave, CheckLeave, Mismatch, Library
    <3>2. CASE RestoreReg
      BY <3>2, ActivationEnds DEF Library
    <3>3. CASE LoadStack
      BY <3>3 DEF LoadStack, Library
    <3> QED
      BY <1>5, <3>1, <3>2, <3>3
  <2> QED
    BY <2>1, <2>2, CopyQuiet
<1>6. CASE Work \/ StoreCall \/ CheckCall
  <2>1. /\ safe' = safe /\ good' = good /\ call' = Here /\ writing' = writing
        /\ phase = "run" /\ phase' \in {"run", "enter", "scan"}
    BY <1>6 DEF Work, StoreCall, CheckCall
  <2>2. ~writing
    BY <2>1, OfPair
  <2>3. call'.reg = reg
    <3>1. mem \in [0..Top -> Nat]
      BY DEF Typed
    <3> QED
      BY <1>1, <2>1, <3>1, HereIs
  <2>4. phase' \in Library => reg'[MEPC] = reg[MEPC]
    <3>1. CASE Work
      BY <3>1 DEF Work, Library
    <3>2. CASE StoreCall
      BY <3>2 DEF StoreCall
    <3>3. CASE CheckCall
      <4>1. reg' = [reg EXCEPT ![SP] = @ - 5, ![A4] = reg[T5], ![A5] = reg[T6],
                               ![T6] = Base]
        BY <3>3, Zenon DEF CheckCall
      <4> QED
        BY <1>1, <4>1
    <3> QED
      BY <1>6, <3>1, <3>2, <3>3
  <2> QED
    BY <2>1, <2>2, <2>3, <2>4, CopyQuiet
<1>7. CASE CheckReg
  <2>1. /\ safe' = safe /\ good' = good /\ call' = call /\ writing' = writing
        /\ phase = "scan" /\ phase' = "scan"
    BY <1>7 DEF CheckReg, ghosts
  <2>2. reg'[MEPC] = reg[MEPC]
    <3>1. \/ reg' = [reg EXCEPT ![T5] = Junk]
          \/ reg' = [reg EXCEPT ![T5] = mem[reg[SP] + 3]]
          \/ reg' = [reg EXCEPT ![T5] = Base, ![T6] = mem[reg[SP] + 2]]
          \/ reg' = reg
      <4>1. reg' = CASE k = SP -> [reg EXCEPT ![T5] = Junk]
                     [] k = T5 -> [reg EXCEPT ![T5] = mem[reg[SP] + 3]]
                     [] k = T6 -> [reg EXCEPT ![T5] = Base, ![T6] = mem[reg[SP] + 2]]
                     [] OTHER  -> reg
        BY <1>7, Zenon DEF CheckReg
      <4> QED
        BY <4>1
    <3>2. CASE reg' = [reg EXCEPT ![T5] = Junk]
      BY <1>1, <3>2
    <3>3. CASE reg' = [reg EXCEPT ![T5] = mem[reg[SP] + 3]]
      BY <1>1, <3>3
    <3>4. CASE reg' = [reg EXCEPT ![T5] = Base, ![T6] = mem[reg[SP] + 2]]
      BY <1>1, <3>4
    <3> QED
      BY <3>1, <3>2, <3>3, <3>4
  <2> QED
    BY <1>2, <2>1, <2>2, CopyQuiet DEF Library
<1>8. CASE Resume
  BY <1>8, CopyResume
<1>9. CASE (\E c \in Struck : Strike(c)) \/ Done \/ UNCHANGED vars
  <2>1. /\ phase' = phase /\ k' = k /\ mode' = mode /\ reg' = reg /\ safe' = safe
        /\ call' = call /\ good' = good /\ writing' = writing
    BY <1>9 DEF Strike, Done, vars, ghosts
  <2>2. CopyInv
    OBVIOUS
  <2> QED
    BY <2>1, <2>2, Zenon DEF CopyInv, OldPlace, Holds, Base0
<1>10. CASE ActivateEnter \/ ActivateSave \/ RecoverySync \/ Push \/ Pop \/ RecoveryLeave
  <2>1. CASE ActivateEnter \/ ActivateSave
    BY <2>1 DEF ActivateEnter, ActivateSave
  <2>2. ~irq /\ phase \notin {"push", "pop"}
    BY OfPair
  <2>3. ~RecoverySync /\ ~Push /\ ~Pop /\ ~RecoveryLeave
    BY <2>2 DEF RecoverySync, Push, Pop, RecoveryLeave
  <2> QED
    BY <1>10, <2>1, <2>3
<1> QED
  BY <1>3, <1>5, <1>6, <1>7, <1>8, <1>9, <1>10, CopyStoreEnter, CopyStoreStack, CopyStoreReg
     DEF Next, Cores

-----------------------------------------------------------------------------
(* What a pair has not shown yet.                                          *)

\* The comparator lets an access of a pair through only when both cores agree
\* in every cell it uses.
LEMMA PairAgrees ==
  ASSUME CheckpointInv, mode = "DCLS", NEW cells, NEW loads, Bus(cells, loads)
  PROVE  /\ \A c \in bad : c \notin cells /\ c # PC
         /\ bad' = bad \ loads
<1>1. ~Exposed(cells) /\ bad' = bad \ loads
  BY DEF Bus
<1> QED
  BY <1>1 DEF Exposed

LEMMA LatentStoreReg ==
  ASSUME CheckpointInv, mode = "DCLS", StoreReg
  PROVE  LatentInv'
<1> USE DEF CheckpointInv
<1> DEFINE c == StoreOrder[k]
<1>1. /\ phase = "regs" /\ since' = since
      /\ \/ k = 37 /\ phase' = "leave" /\ k' = k
         \/ k # 37 /\ phase' = "regs" /\ k' = k + 1
  BY Zenon DEF StoreReg
<1>2. k \in 1..37 /\ c \in Cell
  BY StoreRegIs
<1>3. \E loads : Bus({T5} \cup (IF c \in Temps THEN {SP} ELSE {c}), loads)
  BY Zenon DEF StoreReg
<1>4. bad' \subseteq bad /\ (c \notin Temps => c \notin bad)
  BY <1>3, PairAgrees
<1>5. \A d \in bad \ since : /\ d \notin Temps \cup {SP, PC}
                             /\ \E i \in k..37 : StoreOrder[i] = d
  BY <1>1 DEF LatentInv
<1>6. \A d \in bad' \ since' : d \in bad \ since
  BY <1>1, <1>4
<1>7. ASSUME NEW d \in bad' \ since'
      PROVE  \E i \in k + 1..37 : StoreOrder[i] = d
  <2>1. PICK i \in k..37 : StoreOrder[i] = d
    BY <1>5, <1>6
  <2>2. i # k
    <3>1. d \in bad /\ d \notin Temps
      BY <1>5, <1>6
    <3> QED
      BY <1>4, <2>1, <3>1
  <2>3. i \in k + 1..37
    BY <1>2, <2>1, <2>2
  <2> QED
    BY <2>1, <2>3
<1>8. \A d \in bad' \ since' : d \notin Temps \cup {SP, PC}
  BY <1>5, <1>6
<1>9. CASE k = 37
  <2>1. bad' \subseteq since'
    BY <1>7, <1>9
  <2> QED
    BY <1>1, <1>8, <1>9, <2>1 DEF LatentInv
<1>10. CASE k # 37
  BY <1>1, <1>7, <1>8, <1>10 DEF LatentInv
<1> QED
  BY <1>9, <1>10

LEMMA LatentStep ==
  ASSUME CheckpointInv, [Next]_vars
  PROVE  LatentInv'
<1> USE DEF CheckpointInv
<1> SUFFICES ASSUME mode = "DCLS" PROVE LatentInv'
  <2>1. mode' = mode
    BY Changes
  <2> QED
    BY <2>1 DEF LatentInv
<1>1. bad \subseteq Cell
  BY DEF Typed
<1>2. CASE StoreEnter
  <2>1. /\ Bus({SP} \cup Temps, {T2, T4, T5}) /\ since' = since
        /\ phase' \in {"copy", "regs"} /\ (phase' = "regs" => k' = 1)
    BY <1>2, Zenon DEF StoreEnter, ghosts
  <2>2. bad' \subseteq bad /\ \A c \in bad : c \notin Temps \cup {SP, PC}
    BY <2>1, PairAgrees
  <2>3. \A c \in bad' : c \notin Temps \cup {SP, PC} /\ \E i \in 1..37 : StoreOrder[i] = c
    BY <1>1, <2>2, StoreOrderCells
  <2> QED
    BY <2>1, <2>3 DEF LatentInv
<1>3. CASE StoreStack
  <2>1. /\ phase = "copy" /\ since' = since /\ Bus({T2, T3, T4}, {T6})
        /\ \/ phase' = "regs" /\ k' = 1
           \/ phase' = "copy"
    BY <1>3, Zenon DEF StoreStack
  <2>2. bad' \subseteq bad
    BY <2>1, PairAgrees
  <2>3. \A c \in bad' \ since' : c \notin Temps \cup {SP, PC}
    BY <2>1, <2>2 DEF LatentInv
  <2>4. \A c \in bad' : \E i \in 1..37 : StoreOrder[i] = c
    BY <1>1, <2>2, StoreOrderCells
  <2> QED
    BY <2>1, <2>3, <2>4 DEF LatentInv
<1>4. CASE CheckCall
  <2>1. Bus({SP, T4, T5, T6}, {A4, A5, T6}) /\ phase' = "scan" /\ k' = 1
    BY <1>4, Zenon DEF CheckCall
  <2>2. bad' \subseteq bad /\ \A c \in bad : c \notin {T5, T6}
    BY <2>1, PairAgrees
  <2>3. \A c \in bad' \cap X : c >= k' /\ c \notin {T5, T6}
    BY <2>1, <2>2
  <2> QED
    BY <2>1, <2>3 DEF LatentInv
<1>5. CASE CheckReg
  <2>1. /\ phase = "scan" /\ k \in X /\ phase' = phase /\ k' = k + 1 /\ since' = since
        /\ IF k = T6 THEN Bus({SP}, {T5, T6})
           ELSE Bus({T6} \cup (IF k = T5 THEN {SP} ELSE {k}), IF k \in {SP, T5} THEN {T5} ELSE {})
    BY <1>5, Zenon DEF CheckReg, ghosts
  <2>2. \A c \in (bad \ since) \cap X : c >= k /\ c \notin {T5, T6}
    BY <2>1 DEF LatentInv
  <2>3. bad' \subseteq bad /\ (k \notin {T5, T6} => k \notin bad)
    <3>1. CASE k = T6
      BY <2>1, <3>1, PairAgrees
    <3>2. CASE k # T6
      <4>1. PICK loads : Bus({T6} \cup (IF k = T5 THEN {SP} ELSE {k}), loads)
        BY <2>1, <3>2
      <4> QED
        BY <3>2, <4>1, PairAgrees
    <3> QED
      BY <3>1, <3>2
  <2>4. \A c \in (bad' \ since') \cap X : c >= k + 1 /\ c \notin {T5, T6}
    BY <2>1, <2>2, <2>3
  <2> QED
    BY <2>1, <2>4 DEF LatentInv
<1>6. CASE \E c \in Struck : Strike(c)
  <2>1. bad' \subseteq since'
    BY <1>6 DEF Strike
  <2> QED
    BY <2>1 DEF LatentInv
<1>7. CASE Done \/ UNCHANGED vars
  <2>1. /\ phase' = phase /\ k' = k /\ bad' = bad /\ since' = since
    BY <1>7 DEF Done, vars, ghosts
  <2> QED
    BY <2>1 DEF LatentInv
<1>8. CASE ActivateEnter \/ ActivateSave \/ ActivateSleep \/ ActivateLeave \/ Work
  BY <1>8 DEF ActivateEnter, ActivateSave, ActivateSleep, ActivateLeave, Work, LatentInv
<1>9. CASE StoreCall \/ StoreLeave \/ CheckLeave \/ Mismatch \/ LoadStack \/ Resume
  BY <1>9 DEF StoreCall, StoreLeave, CheckLeave, Mismatch, LoadStack, Resume, LatentInv
<1>10. CASE RestoreReg
  BY <1>10, ActivationEnds DEF LatentInv
<1>11. ~RecoverySync /\ ~Push /\ ~Pop /\ ~RecoveryLeave
  BY OfPair DEF RecoverySync, Push, Pop, RecoveryLeave
<1> QED
  BY <1>2, <1>3, <1>4, <1>5, <1>6, <1>7, <1>8, <1>9, <1>10, <1>11, LatentStoreReg
     DEF Next, Cores

-----------------------------------------------------------------------------
(* The invariant, and what follows from it.                                *)

LEMMA CheckpointInit ==
  ASSUME Init
  PROVE  CheckpointInv
<1>1. /\ mode \in {"TCLS", "DCLS"} /\ prog \in Programs /\ phase = "activate" /\ k = 0
      /\ reg = FreshReg(0) /\ mem = FreshMem(0) /\ safe = [w \in SafeWord |-> Junk]
      /\ bad = {} /\ irq = FALSE /\ back = <<"run", 0>> /\ rec = FALSE /\ faults = 0
      /\ call = Here /\ good = Here /\ entry = Here
      /\ writing = FALSE /\ cut = FALSE /\ since = {}
  BY DEF Init
<1>2. 0 \in 0..Len(prog) - 1
  BY <1>1, ProgramDepth
<1>3. reg \in [Cell -> Nat] /\ Callable(reg) /\ mem \in [0..Top -> Nat]
  BY <1>1, <1>2, FreshTypes
<1>4. Here.reg = reg /\ IsContext(Here) /\ \A a \in Frame(Here) : Here.mem[a] = mem[a]
  BY <1>3, HereIs
<1>5. Typed
  <2>1. reg[SP] \in Low - 11..Top
    <3>1. reg[SP] \in Low..Top
      BY <1>3, Zenon DEF Callable
    <3> QED
      BY <3>1, Constants
  <2>2. safe \in [SafeWord -> Nat]
    BY <1>1, ValuesAreNat
  <2>3. k \in 0..MaxDepth + 40 /\ back \in Phase \X (0..MaxDepth + 40) /\ phase \in Phase
    <3>1. 0 \in 0..MaxDepth + 40
      BY Constants
    <3> QED
      BY <1>1, <3>1 DEF Phase
  <2>4. faults \in 0..MaxFaults
    BY <1>1, CheckpointAssumption
  <2>5. /\ IsContext(call) /\ IsContext(good) /\ IsContext(entry)
        /\ Callable(call.reg) /\ Callable(good.reg)
    BY <1>1, <1>3, <1>4
  <2>6. /\ bad \in SUBSET Cell /\ since \in SUBSET Cell
        /\ irq \in BOOLEAN /\ rec \in BOOLEAN /\ writing \in BOOLEAN /\ cut \in BOOLEAN
    BY <1>1
  <2> QED
    BY <1>1, <1>3, <2>1, <2>2, <2>3, <2>4, <2>5, <2>6 DEF Typed
<1>6. /\ RoutineInv /\ HandlerInv /\ RepairInv /\ ModeInv
      /\ RestoreInv /\ CopyInv /\ LatentInv
  <2>1. ~Handling /\ At = "activate"
    BY <1>1 DEF Handling, At
  <2> QED
    BY <1>1, <2>1 DEF RoutineInv, Library, HandlerInv, RepairInv, ModeInv, RestoreInv,
                      CopyInv, LatentInv
<1>7. ActivateInv
  <2>1. good.reg[PC] = 0
    <3>1. FreshReg(0)[PC] = 0
      BY DEF FreshReg
    <3> QED
      BY <1>1, <1>4, <3>1
  <2>2. \A a \in Frame(good) : mem[a] = good.mem[a]
    BY <1>1, <1>4
  <2> QED
    BY <1>1, <1>4, <2>1, <2>2 DEF ActivateInv, Activating
<1> QED
  BY <1>5, <1>6, <1>7 DEF CheckpointInv

\* What the invariant says of every phase holds in all that Checkpoint does.
THEOREM CheckpointInvariant == Spec => []CheckpointInv
<1>1. Init => CheckpointInv
  BY CheckpointInit
<1>2. CheckpointInv /\ [Next]_vars => CheckpointInv'
  <2> SUFFICES ASSUME CheckpointInv, [Next]_vars PROVE CheckpointInv'
    OBVIOUS
  <2>1. /\ Typed' /\ RoutineInv' /\ HandlerInv' /\ RepairInv' /\ ModeInv'
        /\ ActivateInv' /\ RestoreInv' /\ CopyInv' /\ LatentInv'
    BY TypedStep, RoutineStep, HandlerStep, RepairStep, ModeStep, ActivateStep,
       RestoreStep, CopyStep, LatentStep
  <2> QED
    BY <2>1 DEF CheckpointInv
<1> QED
  BY <1>1, <1>2, PTL DEF Spec

\* Every register, word of the stack and word of the copy has its type in all
\* that the library, the ROM and the handler do (TypeOK).
THEOREM CheckpointTypeCorrect == Spec => []TypeOK
<1>1. CheckpointInv => TypeOK
  <2> SUFFICES ASSUME CheckpointInv PROVE TypeOK
    OBVIOUS
  <2>1. Typed
    BY DEF CheckpointInv
  <2>2. reg[SP] \in 0..Top
    BY <2>1, Constants DEF Typed
  <2>3. \A ctx \in {call, good, entry} : IsContext(ctx)
    BY <2>1 DEF Typed
  <2> QED
    BY <2>1, <2>2, <2>3, Zenon DEF Typed, TypeOK, IsContext
<1> QED
  BY <1>1, CheckpointInvariant, PTL

\* A pair that is rolled back between two checkpoints resumes in exactly the
\* context of the last one, whatever the program, the depth of its stack and
\* the faults (RollbackIsExact).
THEOREM RollbackIsExactHolds == Spec => []RollbackIsExact
<1>1. CheckpointInv => RollbackIsExact
  BY ResumedPair DEF RollbackIsExact
<1> QED
  BY <1>1, CheckpointInvariant, PTL

\* A rollback out of Store_Checkpoint goes back to the place of the checkpoint
\* before, or to the new one with all that is needed there (TornRestartsOld).
THEOREM TornRestartsOldHolds == Spec => []TornRestartsOld
<1>1. CheckpointInv => TornRestartsOld
  <2> SUFFICES ASSUME CheckpointInv, phase = "resumed", writing
               PROVE  reg[PC] = good.reg[PC] \/ Restored(call)
    BY DEF TornRestartsOld
  <2>1. /\ reg[PC] = safe[StoreWord(PC)] /\ reg[PC] # ActPc
        /\ OldPlace \/ Holds(call)
        /\ IsContext(call)
    BY ResumedPair
  <2>2. CASE OldPlace
    BY <2>1, <2>2 DEF OldPlace
  <2>3. CASE Holds(call)
    BY <2>1, <2>3, LoadedContext
  <2> QED
    BY <2>1, <2>2, <2>3
<1> QED
  BY <1>1, CheckpointInvariant, PTL

\* Which action a routine returns by.
LEMMA ReturnsBy ==
  ASSUME [Next]_vars
  PROVE  /\ Returns("leave") => StoreLeave
         /\ Returns("scan") => CheckLeave
         /\ Returns("act_end") => ActivateLeave
         /\ RecoveryReturns => RecoveryLeave
<1>1. CASE (\E c \in Struck : Strike(c)) \/ Done \/ UNCHANGED vars
  BY <1>1 DEF Strike, Done, vars, Returns, RecoveryReturns
<1>2. CASE ActivateEnter \/ ActivateSave \/ ActivateSleep \/ ActivateLeave \/ Work
  BY <1>2 DEF ActivateEnter, ActivateSave, ActivateSleep, ActivateLeave, Work,
              Returns, RecoveryReturns
<1>3. CASE StoreCall \/ StoreEnter \/ StoreStack \/ StoreReg \/ StoreLeave
  BY <1>3 DEF StoreCall, StoreEnter, StoreStack, StoreReg, StoreLeave,
              Returns, RecoveryReturns
<1>4. CASE CheckCall \/ CheckReg \/ CheckLeave \/ Mismatch
  BY <1>4 DEF CheckCall, CheckReg, CheckLeave, Mismatch, Returns, RecoveryReturns
<1>5. CASE RestoreReg \/ LoadStack \/ Resume
  BY <1>5 DEF RestoreReg, LoadStack, Resume, Returns, RecoveryReturns
<1>6. CASE RecoverySync \/ Push \/ Pop \/ RecoveryLeave
  BY <1>6 DEF RecoverySync, Push, Pop, RecoveryLeave, Returns, RecoveryReturns
<1> QED
  BY <1>1, <1>2, <1>3, <1>4, <1>5, <1>6 DEF Next, Cores

\* Store_Checkpoint and Check_RF give every caller its registers and its stack
\* back, but for what CallsAreTransparent excepts.
THEOREM CallsAreTransparentHolds == Spec => CallsAreTransparent
<1> DEFINE A ==
      /\ Returns("leave") => \A c \in Cell \ {MEPC} :
           reg'[c] = call.reg[c] \/ (cut /\ c \in {T2, T3, T6})
      /\ Returns("scan") => \A c \in Cell \ {MEPC, A4, A5} :
           reg'[c] = call.reg[c]
      /\ Returns("leave") \/ Returns("scan") => \A a \in Frame(call) :
           mem'[a] = call.mem[a]
<1>1. CheckpointInv /\ [Next]_vars => A
  <2> SUFFICES ASSUME CheckpointInv, [Next]_vars PROVE A
    OBVIOUS
  <2>1. Returns("leave") => StoreLeave
    BY ReturnsBy
  <2>2. Returns("scan") => CheckLeave
    BY ReturnsBy
  <2> QED
    BY <2>1, <2>2, StoreLeaveIs, CheckLeaveIs, Zenon DEF Spoilt
<1>2. CheckpointInv /\ [Next]_vars => [A]_vars
  BY <1>1
<1> QED
  BY <1>2, CheckpointInvariant, PTL DEF Spec, CallsAreTransparent

\* The group that Safe_Activate starts has the registers and the stack of the
\* core that called it (ActivationKeepsContext).
THEOREM ActivationKeepsContextHolds == Spec => ActivationKeepsContext
<1> DEFINE A == Returns("act_end") /\ ~rec =>
                  /\ \A c \in Cell \ {T5} : reg'[c] = good.reg[c]
                  /\ \A a \in Frame(good) : mem'[a] = good.mem[a]
<1>1. CheckpointInv /\ [Next]_vars => A
  <2> SUFFICES ASSUME CheckpointInv, [Next]_vars, Returns("act_end")
               PROVE  /\ \A c \in Cell \ {T5} : reg'[c] = good.reg[c]
                      /\ \A a \in Frame(good) : mem'[a] = good.mem[a]
    OBVIOUS
  <2>1. /\ phase = "act_end" /\ mem' = mem
        /\ reg' = [reg EXCEPT ![T6] = mem[reg[SP] + 2], ![T5] = mem[reg[SP] + 3],
                              ![SP] = reg[SP] + 4, ![PC] = 0]
    BY ReturnsBy, Zenon DEF ActivateLeave
  <2>2. /\ \A c \in Cell : reg[c] = safe[LoadWord(c)]
        /\ \A c \in Cell : safe[LoadWord(c)] = ActSaved(c)
    BY <2>1 DEF CheckpointInv, RestoreInv, Kept, ActivateInv, Activating
  <2>3. /\ \A a \in Frame(good) : mem[a] = good.mem[a]
        /\ good.reg[PC] = 0 /\ mem[G - 2] = good.reg[T6]
    BY <2>1 DEF CheckpointInv, ActivateInv, Activating
  <2>4. /\ reg[SP] = G - 4
        /\ \A c \in Cell \ {SP, T5, PC} : reg[c] = good.reg[c]
    BY <2>2 DEF ActSaved
  <2>5. G \in Nat /\ reg \in [Cell -> Nat]
    BY StackPointers DEF CheckpointInv, Typed
  <2>6. reg[SP] + 4 = G /\ reg[SP] + 2 = G - 2
    BY <2>4, <2>5
  <2>7. /\ reg'[SP] = reg[SP] + 4 /\ reg'[PC] = 0 /\ reg'[T6] = mem[reg[SP] + 2]
        /\ \A c \in Cell \ {SP, T5, T6, PC} : reg'[c] = reg[c]
    <3>1. reg \in [Cell -> Nat]
      BY <2>5
    <3> QED
      BY <2>1, <3>1
  <2>8. reg'[SP] = good.reg[SP] /\ reg'[PC] = good.reg[PC] /\ reg'[T6] = good.reg[T6]
    BY <2>3, <2>6, <2>7 DEF G
  <2>9. \A c \in Cell \ {SP, T5, T6, PC} : reg'[c] = good.reg[c]
    BY <2>4, <2>7
  <2> QED
    BY <2>1, <2>3, <2>8, <2>9
<1>2. CheckpointInv /\ [Next]_vars => [A]_vars
  BY <1>1
<1> QED
  BY <1>2, CheckpointInvariant, PTL DEF Spec, ActivationKeepsContext

\* handler_tmr_recoverysync returns to what it interrupted with every register
\* as it was, and with the stack (RecoveryIsTransparent).
THEOREM RecoveryIsTransparentHolds == Spec => RecoveryIsTransparent
<1> DEFINE A == RecoveryReturns =>
                  /\ \A c \in Cell \ {MEPC} : reg'[c] = entry.reg[c]
                  /\ \A a \in Frame(entry) : mem'[a] = entry.mem[a]
<1>1. CheckpointInv /\ [Next]_vars => A
  BY ReturnsBy, RecoveryRestores, Zenon
<1>2. CheckpointInv /\ [Next]_vars => [A]_vars
  BY <1>1
<1> QED
  BY <1>2, CheckpointInvariant, PTL DEF Spec, RecoveryIsTransparent

\* When it returns, the struck core agrees in every cell but those struck again
\* while the handler ran (RecoveryRepairs).
THEOREM RecoveryRepairsHolds == Spec => RecoveryRepairs
<1> DEFINE A == RecoveryReturns => bad' \subseteq since' \cup
                                     (IF MEPC \in since' THEN {PC} ELSE {})
<1>1. CheckpointInv /\ [Next]_vars => A
  <2> SUFFICES ASSUME CheckpointInv, [Next]_vars, RecoveryReturns
               PROVE  bad' \subseteq since' \cup (IF MEPC \in since' THEN {PC} ELSE {})
    OBVIOUS
  <2>1. /\ phase = "pop" /\ k = 37 /\ since' = since
        /\ bad' = (bad \ {A5}) \cup (IF MEPC \in bad THEN {PC} ELSE {})
    BY ReturnsBy DEF RecoveryLeave
  <2>2. \A c \in bad \ since : \E i \in 37..36 : PopOrder[i] = c
    BY <2>1 DEF CheckpointInv, RepairInv, Handling
  <2>3. bad \subseteq since
    BY <2>2
  <2> QED
    BY <2>1, <2>3
<1>2. CheckpointInv /\ [Next]_vars => [A]_vars
  BY <1>1
<1> QED
  BY <1>2, CheckpointInvariant, PTL DEF Spec, RecoveryRepairs

\* A pair comes out of Store_Checkpoint with no difference from before it, and
\* out of Check_RF with none in a register (NothingLatent).
THEOREM NothingLatentHolds == Spec => NothingLatent
<1> DEFINE A == mode = "DCLS" =>
                  /\ Returns("leave") => bad' \subseteq since'
                  /\ Returns("scan") => bad' \cap X \subseteq since'
<1>1. CheckpointInv /\ [Next]_vars => A
  <2> SUFFICES ASSUME CheckpointInv, [Next]_vars, mode = "DCLS" PROVE A
    OBVIOUS
  <2>1. LatentInv
    BY DEF CheckpointInv
  <2>2. ASSUME Returns("leave") PROVE bad' \subseteq since'
    <3>1. phase = "leave" /\ Bus({SP}, Temps) /\ since' = since
      BY <2>2, ReturnsBy, Zenon DEF StoreLeave, ghosts
    <3>2. bad \subseteq since
      BY <2>1, <3>1 DEF LatentInv
    <3> QED
      BY <3>1, <3>2, PairAgrees
  <2>3. ASSUME Returns("scan") PROVE bad' \cap X \subseteq since'
    <3>1. phase = "scan" /\ k = 32 /\ Bus({SP}, {T5}) /\ since' = since
      BY <2>3, ReturnsBy, Zenon DEF CheckLeave, ghosts
    <3>2. \A c \in (bad \ since) \cap X : c >= 32
      BY <2>1, <3>1 DEF LatentInv
    <3>3. bad' \subseteq bad
      BY <3>1, PairAgrees
    <3> QED
      BY <3>1, <3>2, <3>3
  <2> QED
    BY <2>2, <2>3
<1>2. CheckpointInv /\ [Next]_vars => [A]_vars
  BY <1>1
<1> QED
  BY <1>2, CheckpointInvariant, PTL DEF Spec, NothingLatent

=============================================================================
