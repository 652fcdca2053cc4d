--------------------- MODULE CheckpointRoutines_proofs ----------------------
(***************************************************************************)
(* A step keeps what the invariant of Checkpoint says of Store_Checkpoint, *)
(* Check_RF and the recovery handler: in the middle of a routine the stack *)
(* and the registers the routine does not use are the caller's, those it   *)
(* uses lie on the stack; in the middle of the handler so does the context *)
(* it interrupted.                                                         *)
(***************************************************************************)
EXTENDS CheckpointInv_proofs

USE DEF SP, T2, A4, A5, T3, T4, T5, T6, MEPC, PC, X, Csr, Cell

-----------------------------------------------------------------------------
(* The routines are kept.                                                  *)

LEMMA NotInRoutine ==
  ASSUME At' \notin Library, At' = "run" => Callable(Own)'
  PROVE  RoutineInv'
BY DEF RoutineInv, Library

\* Outside the handler, At, Step and Own are what they say.
LEMMA Running ==
  ASSUME NEW p, phase' = p, p \notin {"push", "pop"}
  PROVE  At' = p /\ Step' = k' /\ Own' = reg'
BY Zenon DEF At, Step, Own, Handling

\* The handler returns with every register as it was but mepc, and with the
\* stack (RecoveryIsTransparent).
LEMMA RecoveryRestores ==
  ASSUME CheckpointInv, RecoveryLeave
  PROVE  /\ \A c \in Cell \ {MEPC} : reg'[c] = entry.reg[c]
         /\ \A a \in Frame(entry) : mem'[a] = entry.mem[a]
<1> USE DEF CheckpointInv
<1>1. /\ reg' = [reg EXCEPT ![A5] = mem[reg[SP] + 2], ![SP] = reg[SP] + 4,
                            ![PC] = reg[MEPC]]
      /\ phase = "pop" /\ k = 37 /\ mem' = mem
  BY Zenon DEF RecoveryLeave
<1>2. Handling /\ reg \in [Cell -> Nat]
  BY <1>1 DEF Handling, Typed
<1>3. /\ reg[SP] = Entry - 4 /\ Entry \in Nat
      /\ mem[Entry - 2] = entry.reg[A5]
      /\ \A a \in Frame(entry) : mem[a] = entry.mem[a]
      /\ \A c \in (X \cup Csr) \ {T6} : reg[c] = Pushed(c)
      /\ reg[T6] = entry.reg[T6]
  BY <1>1, <1>2, EntrySp, Constants DEF HandlerInv
<1>4. reg[SP] + 4 = Entry /\ reg[SP] + 2 = Entry - 2
  BY <1>3
<1>5. reg[MEPC] = entry.reg[PC] /\ \A c \in Cell \ {SP, T6, MEPC, PC} : reg[c] = entry.reg[c]
  BY <1>3 DEF Pushed
<1>6. ASSUME NEW c \in Cell \ {MEPC} PROVE reg'[c] = entry.reg[c]
  BY <1>1, <1>2, <1>3, <1>4, <1>5 DEF Entry
<1> QED
  BY <1>1, <1>3, <1>6

\* What the handler writes is below the stack pointer of what it interrupts;
\* two of those words, and the fifth, are above it where sp was raised.
LEMMA HandlerWrites ==
  ASSUME CheckpointInv, [Next]_vars, RecoverySync \/ Push
  PROVE  /\ At' = At /\ Step' = Step /\ Own' = Own /\ call' = call
         /\ At \in Library \cup {"run"}
         /\ \A a \in 0..Top : a >= Own[SP] => mem'[a] = mem[a]
         /\ \A i \in {3, 4} : mem'[Own[SP] - i] = mem[Own[SP] - i]
         /\ (cut => cut') /\ (At = "copy" \/ (At = "regs" /\ Step <= 7) => cut')
<1> USE DEF CheckpointInv
<1>1. mem \in [0..Top -> Nat] /\ reg \in [Cell -> Nat]
  BY DEF Typed
<1>2. CASE RecoverySync
  <2>1. /\ phase \in Library \cup {"run"}
        /\ phase' = "push" /\ back' = <<phase, k>> /\ entry' = Here /\ call' = call
        /\ mem' = [mem EXCEPT ![reg[SP] - 1] = reg[A4], ![reg[SP] - 2] = reg[A5]]
        /\ cut' = (cut \/ Raised)
    BY <1>2 DEF RecoverySync, Library
  <2>2. At = phase /\ Step = k /\ Own = reg /\ reg[SP] \in Low - 7..Top
    BY <2>1, RunningSp
  <2>3. At' = phase /\ Step' = k /\ Own' = reg
    BY <1>1, <2>1, HereIs DEF At, Step, Own, Handling
  <2> DEFINE u == reg[SP] - 1
             w == reg[SP] - 2
  <2>a. mem' = [mem EXCEPT ![u] = reg[A4], ![w] = reg[A5]]
    BY <2>1
  <2>b. /\ \A a \in 0..Top : a >= reg[SP] => a # u /\ a # w
        /\ \A i \in {3, 4} : reg[SP] - i \in 0..Top /\ reg[SP] - i # u /\ reg[SP] - i # w
    BY <2>2, Constants
  <2> HIDE DEF u, w
  <2>c. \A a \in 0..Top : a # u /\ a # w => mem'[a] = mem[a]
    BY <1>1, <2>a
  <2>4. \A a \in 0..Top : a >= reg[SP] => mem'[a] = mem[a]
    BY <2>b, <2>c, Zenon
  <2>5. \A i \in {3, 4} : mem'[reg[SP] - i] = mem[reg[SP] - i]
    BY <2>b, <2>c, Zenon
  <2>6. At = "copy" \/ (At = "regs" /\ Step <= 7) => cut'
    BY <2>1, <2>2 DEF Raised
  <2> QED
    BY <2>1, <2>2, <2>3, <2>4, <2>5, <2>6
<1>3. CASE Push
  <2>1. /\ phase = "push" /\ phase' = "pop" /\ back' = back /\ entry' = entry
        /\ call' = call /\ cut' = cut
        /\ mem' = [a \in 0..Top |-> IF reg[SP] - a \in X \cup Csr THEN reg[reg[SP] - a]
                                    ELSE mem[a]]
    BY <1>3 DEF Push, ghosts
  <2>2. /\ At \in Library \cup {"run"} /\ At = back[1] /\ Step = back[2] /\ Own = entry.reg
        /\ reg[SP] = Entry - 4 /\ Entry \in Low - 7..Top
        /\ At = "copy" \/ (At = "regs" /\ Step <= 7) => cut
    BY <2>1, EntrySp DEF Handling, HandlerInv
  <2>3. At' = At /\ Step' = Step /\ Own' = Own
    BY <2>1, <2>2 DEF At, Step, Own, Handling
  <2>4. \A a \in 0..Top : a >= Entry - 4 => mem'[a] = mem[a]
    <3>1. ASSUME NEW a \in 0..Top, a >= Entry - 4 PROVE reg[SP] - a \notin X \cup Csr
      BY <2>2, <3>1, Constants
    <3> QED
      BY <2>1, <3>1
  <2>5. /\ \A a \in 0..Top : a >= Entry => mem'[a] = mem[a]
        /\ \A i \in {3, 4} : mem'[Entry - i] = mem[Entry - i]
    BY <2>2, <2>4, Constants
  <2> QED
    BY <2>1, <2>2, <2>3, <2>5 DEF Entry
<1> QED
  BY <1>2, <1>3

\* A step outside the routine that leaves it its registers and its words.
LEMMA RoutineKept ==
  ASSUME RoutineInv, At' = At, Step' = Step, prog' = prog, call' = call, cut => cut',
         \A c \in Cell \ {MEPC} : Own'[c] = Own[c],
         At \in Library => \A a \in Frame(call) : mem'[a] = mem[a],
         At \in {"copy", "regs", "leave"} =>
           \A c \in Temps : \/ mem'[Base0 - Place(c)] = mem[Base0 - Place(c)]
                            \/ cut' /\ c \in Spoilt,
         At = "scan" => mem'[Base0 - 2] = mem[Base0 - 2] /\ mem'[Base0 - 3] = mem[Base0 - 3]
  PROVE  RoutineInv'
<1>1. Base0' = Base0 /\ Lowered' = Lowered /\ Used' = Used /\ Frame(call)' = Frame(call)
  BY DEF Base0, Lowered, Used, Frame
<1>2. Own'[SP] = Own[SP] /\ Own'[PC] = Own[PC]
  OBVIOUS
<1>3. At' = "run" => Callable(Own)'
  BY <1>2 DEF RoutineInv, Callable
<1>4. /\ At' = "copy" => Base0' # Top /\ Base0' + Step' <= Top
      /\ At' = "regs" => Step' \in 1..37
      /\ At' = "scan" => Step' \in 1..32
  BY <1>1, Zenon DEF RoutineInv
<1>5. At' \in Library =>
       /\ Own'[SP] = Base0' - Lowered'
       /\ \A c \in Cell \ (Used' \cup {MEPC}) : Own'[c] = call'.reg[c]
       /\ \A a \in Frame(call)' : mem'[a] = call'.mem[a]
  BY <1>1, <1>2 DEF RoutineInv
<1>6. At' \in {"copy", "regs", "leave"} =>
       \A c \in Temps : \/ mem'[Base0' - Place(c)] = call'.reg[c]
                        \/ cut' /\ c \in Spoilt
  BY <1>1, Zenon DEF RoutineInv
<1>7. At' = "scan" => /\ mem'[Base0' - 2] = call'.reg[T5]
                      /\ mem'[Base0' - 3] = call'.reg[T6]
  BY <1>1, Zenon DEF RoutineInv
<1> QED
  BY <1>3, <1>4, <1>5, <1>6, <1>7, Zenon DEF RoutineInv

LEMMA RoutineHandled ==
  ASSUME CheckpointInv, [Next]_vars, RecoverySync \/ Push
  PROVE  RoutineInv'
<1> USE DEF CheckpointInv
<1>1. /\ At' = At /\ Step' = Step /\ Own' = Own /\ call' = call
      /\ At \in Library \cup {"run"}
      /\ \A a \in 0..Top : a >= Own[SP] => mem'[a] = mem[a]
      /\ \A i \in {3, 4} : mem'[Own[SP] - i] = mem[Own[SP] - i]
      /\ (cut => cut') /\ (At = "copy" \/ (At = "regs" /\ Step <= 7) => cut')
  BY HandlerWrites
<1>2. prog' = prog
  BY Changes
<1>3. At \in Library => Own[SP] = Base0 - LoweredAt(At, Step)
  BY DEF RoutineInv, Lowered
<1>4. At \in Library => \A a \in Frame(call) : mem'[a] = mem[a]
  <2> SUFFICES ASSUME At \in Library, NEW a \in Frame(call) PROVE mem'[a] = mem[a]
    OBVIOUS
  <2>1. a \in Base0..Top - 1
    BY FrameIs DEF Typed, Base0
  <2>2. LoweredAt(At, Step) \in {0, 5, 7}
    BY LoweredIs DEF Library
  <2>3. a \in 0..Top /\ a >= Own[SP]
    BY <1>3, <2>1, <2>2, StackPointers, Constants
  <2> QED
    BY <1>1, <2>3
<1>5. At \in {"copy", "regs", "leave"} =>
        \A c \in Temps : \/ mem'[Base0 - Place(c)] = mem[Base0 - Place(c)]
                         \/ cut' /\ c \in Spoilt
  <2> SUFFICES ASSUME At \in {"copy", "regs", "leave"}, NEW c \in Temps
               PROVE  mem'[Base0 - Place(c)] = mem[Base0 - Place(c)] \/ (cut' /\ c \in Spoilt)
    OBVIOUS
  <2>1. At \in Library
    BY DEF Library
  <2>2. CASE At = "copy" \/ (At = "regs" /\ Step <= 7)
    <3>1. Own[SP] = Base0 /\ cut'
      <4>1. LoweredAt(At, Step) = 0
        <5>1. At = "regs" => Step \in 1..37
          BY DEF RoutineInv
        <5> QED
          BY <2>2, <5>1, LoweredIs
      <4> QED
        BY <1>1, <1>3, <2>1, <2>2, <4>1, StackPointers
    <3>2. c \in {T4, T5} => Place(c) \in {3, 4}
      BY Places
    <3>3. c \notin {T4, T5} => c \in Spoilt
      BY DEF Temps, Spoilt
    <3>4. c \in {T4, T5} => mem'[Base0 - Place(c)] = mem[Base0 - Place(c)]
      BY <1>1, <3>1, <3>2, Zenon
    <3> QED
      BY <3>1, <3>3, <3>4, Zenon
  <2>3. CASE ~(At = "copy" \/ (At = "regs" /\ Step <= 7))
    <3>1. Own[SP] = Base0 - 7
      <4>1. LoweredAt(At, Step) = 7
        <5>1. At = "regs" => Step \in 1..37
          BY DEF RoutineInv
        <5> QED
          BY <2>3, <5>1, LoweredIs
      <4> QED
        BY <1>3, <2>1, <4>1
    <3>2. Base0 - Place(c) \in 0..Top /\ Base0 - Place(c) >= Own[SP]
      BY <3>1, Places, StackPointers, Constants
    <3> QED
      BY <1>1, <3>2, Zenon
  <2> QED
    BY <2>2, <2>3
<1>6. At = "scan" => mem'[Base0 - 2] = mem[Base0 - 2] /\ mem'[Base0 - 3] = mem[Base0 - 3]
  <2> SUFFICES ASSUME At = "scan"
               PROVE  mem'[Base0 - 2] = mem[Base0 - 2] /\ mem'[Base0 - 3] = mem[Base0 - 3]
    OBVIOUS
  <2>1. Own[SP] = Base0 - 5
    BY <1>3, LoweredIs DEF Library
  <2>2. \A i \in {2, 3} : Base0 - i \in 0..Top /\ Base0 - i >= Own[SP]
    BY <2>1, StackPointers, Constants
  <2> QED
    BY <1>1, <2>2
<1> QED
  BY <1>1, <1>2, <1>4, <1>5, <1>6, RoutineKept

\* Where the library gives the registers back.
LEMMA StoreLeaveIs ==
  ASSUME CheckpointInv, StoreLeave
  PROVE  /\ \A c \in Cell \ {MEPC} : \/ reg'[c] = call.reg[c]
                                     \/ cut /\ c \in Spoilt
         /\ \A a \in Frame(call) : mem'[a] = call.mem[a]
<1> USE DEF CheckpointInv
<1>1. /\ phase = "leave" /\ mem' = mem
      /\ reg' = [c \in Cell |-> IF c \in Temps THEN mem[reg[SP] + 7 - Place(c)]
                               ELSE IF c = SP THEN reg[SP] + 7 ELSE reg[c]]
  BY Zenon DEF StoreLeave
<1>2. At = "leave" /\ Step = k /\ Own = reg
  BY <1>1, RunningSp DEF Library
<1>3. /\ reg[SP] = Base0 - LoweredAt("leave", k)
      /\ \A c \in Cell \ (UsedAt("leave", k) \cup {MEPC}) : reg[c] = call.reg[c]
      /\ \A a \in Frame(call) : mem[a] = call.mem[a]
      /\ \A c \in Temps : \/ mem[Base0 - Place(c)] = call.reg[c]
                          \/ cut /\ c \in Spoilt
  BY <1>2 DEF RoutineInv, Library, Lowered, Used
<1>4. reg[SP] = Base0 - 7 /\ UsedAt("leave", k) = Temps \cup {SP}
  BY <1>3, LoweredIs, UsedIs
<1>5. ASSUME NEW c \in Temps PROVE reg[SP] + 7 - Place(c) = Base0 - Place(c)
  BY <1>4, Places, StackPointers
<1>6. ASSUME NEW c \in Cell \ {MEPC} PROVE reg'[c] = call.reg[c] \/ (cut /\ c \in Spoilt)
  <2>1. CASE c \in Temps
    BY <1>1, <1>3, <1>5, <2>1
  <2>2. CASE c = SP
    <3>1. reg[SP] + 7 = call.reg[SP]
      BY <1>4, StackPointers DEF Base0
    <3> QED
      BY <1>1, <2>2, <3>1 DEF Temps
  <2>3. CASE c \notin Temps \cup {SP}
    BY <1>1, <1>3, <1>4, <2>3
  <2> QED
    BY <2>1, <2>2, <2>3
<1> QED
  BY <1>1, <1>3, <1>6

LEMMA CheckLeaveIs ==
  ASSUME CheckpointInv, CheckLeave
  PROVE  /\ \A c \in Cell \ {MEPC, A4, A5} : reg'[c] = call.reg[c]
         /\ \A a \in Frame(call) : mem'[a] = call.mem[a]
<1> USE DEF CheckpointInv
<1>1. /\ phase = "scan" /\ k = 32 /\ mem' = mem
      /\ reg' = [reg EXCEPT ![T5] = mem[reg[SP] + 3], ![SP] = reg[SP] + 5]
  BY Zenon DEF CheckLeave
<1>2. At = "scan" /\ Step = 32 /\ Own = reg /\ reg \in [Cell -> Nat]
  BY <1>1, RunningSp DEF Library, Typed
<1>3. /\ reg[SP] = Base0 - LoweredAt("scan", 32)
      /\ \A c \in Cell \ (UsedAt("scan", 32) \cup {MEPC}) : reg[c] = call.reg[c]
      /\ \A a \in Frame(call) : mem[a] = call.mem[a]
      /\ mem[Base0 - 2] = call.reg[T5]
  BY <1>2 DEF RoutineInv, Library, Lowered, Used
<1>4. reg[SP] = Base0 - 5 /\ UsedAt("scan", 32) = {SP, A4, A5, T5}
  BY <1>3, LoweredIs, UsedIs
<1>5. reg[SP] + 5 = Base0 /\ reg[SP] + 3 = Base0 - 2
  BY <1>4, StackPointers
<1>6. ASSUME NEW c \in Cell \ {MEPC, A4, A5} PROVE reg'[c] = call.reg[c]
  <2>1. CASE c = SP
    BY <1>1, <1>2, <1>5, <2>1 DEF Base0
  <2>2. CASE c = T5
    BY <1>1, <1>2, <1>3, <1>5, <2>2
  <2>3. CASE c \notin {SP, T5}
    BY <1>1, <1>2, <1>3, <1>4, <2>3
  <2> QED
    BY <2>1, <2>2, <2>3
<1> QED
  BY <1>1, <1>3, <1>6

\* One step of a routine: what has to be shown of it.
LEMMA RoutineGoesOn ==
  ASSUME NEW at \in Library, At' = at, call' = call, Base0 \in Nat,
         at = "copy" => Base0 # Top /\ Base0 + Step' <= Top,
         at = "regs" => Step' \in 1..37,
         at = "scan" => Step' \in 1..32,
         Own'[SP] = Base0 - LoweredAt(at, Step'),
         \A c \in Cell \ (UsedAt(at, Step') \cup {MEPC}) : Own'[c] = call.reg[c],
         \A a \in Frame(call) : mem'[a] = call.mem[a],
         at \in {"copy", "regs", "leave"} =>
           \A c \in Temps : \/ mem'[Base0 - Place(c)] = call.reg[c]
                            \/ cut' /\ c \in Spoilt,
         at = "scan" => mem'[Base0 - 2] = call.reg[T5] /\ mem'[Base0 - 3] = call.reg[T6]
  PROVE  RoutineInv'
<1>1. /\ Base0' = Base0 /\ Lowered' = LoweredAt(at, Step') /\ Used' = UsedAt(at, Step')
      /\ Frame(call)' = Frame(call)
  BY DEF Base0, Lowered, Used, Frame
<1>2. At' # "run"
  BY DEF Library
<1>3. /\ At' = "copy" => Base0' # Top /\ Base0' + Step' <= Top
      /\ At' = "regs" => Step' \in 1..37
      /\ At' = "scan" => Step' \in 1..32
  BY <1>1, Zenon
<1>4. At' \in Library =>
       /\ Own'[SP] = Base0' - Lowered'
       /\ \A c \in Cell \ (Used' \cup {MEPC}) : Own'[c] = call'.reg[c]
       /\ \A a \in Frame(call)' : mem'[a] = call'.mem[a]
  BY <1>1
<1>5. At' \in {"copy", "regs", "leave"} =>
       \A c \in Temps : \/ mem'[Base0' - Place(c)] = call'.reg[c]
                        \/ cut' /\ c \in Spoilt
  BY <1>1, Zenon
<1>6. At' = "scan" => /\ mem'[Base0' - 2] = call'.reg[T5]
                      /\ mem'[Base0' - 3] = call'.reg[T6]
  BY <1>1, Zenon
<1> QED
  BY <1>2, <1>3, <1>4, <1>5, <1>6, Zenon DEF RoutineInv

LEMMA RoutineStoreCall ==
  ASSUME CheckpointInv, StoreCall
  PROVE  RoutineInv'
<1>1. reg \in [Cell -> Nat] /\ mem \in [0..Top -> Nat]
  BY DEF CheckpointInv, Typed
<1>2. phase' = "enter" /\ call' = Here /\ reg' = reg /\ mem' = mem
  BY DEF StoreCall
<1>3. At' = "enter" /\ Own' = reg
  BY <1>2, Running
<1>4. /\ call'.reg = reg /\ Frame(call)' = reg[SP]..Top - 1
      /\ \A a \in reg[SP]..Top - 1 : call'.mem[a] = mem[a]
  BY <1>1, <1>2, HereIs DEF Frame
<1>5. Base0' = reg[SP] /\ Lowered' = 0 /\ Used' = {} /\ reg[SP] \in Nat
  <2>1. Base0' = reg[SP] /\ reg[SP] \in Nat
    BY <1>1, <1>4 DEF Base0
  <2>2. Lowered' = LoweredAt("enter", Step') /\ Used' = UsedAt("enter", Step')
    BY <1>3 DEF Lowered, Used
  <2> QED
    BY <2>1, <2>2, LoweredIs, UsedIs
<1>6. At' \notin {"run", "copy", "regs", "scan", "leave"}
  BY <1>3
<1>7. /\ Own'[SP] = Base0' - Lowered'
      /\ \A c \in Cell \ (Used' \cup {MEPC}) : Own'[c] = call'.reg[c]
      /\ \A a \in Frame(call)' : mem'[a] = call'.mem[a]
  BY <1>2, <1>3, <1>4, <1>5
<1> QED
  BY <1>6, <1>7, Zenon DEF RoutineInv

LEMMA RoutineStoreEnter ==
  ASSUME CheckpointInv, StoreEnter
  PROVE  RoutineInv'
<1> USE DEF CheckpointInv
<1>1. /\ phase = "enter" /\ call' = call
      /\ mem' = [a \in 0..Top |-> IF reg[SP] - a \in 1..5 THEN reg[Stacked[reg[SP] - a]]
                                  ELSE mem[a]]
      /\ \/ /\ phase' = "regs" /\ k' = 1
            /\ reg' = [reg EXCEPT ![T2] = Junk, ![T4] = Junk, ![T5] = Base]
         \/ /\ phase' = "copy" /\ k' = 0 /\ reg[SP] # Top
            /\ reg' = [reg EXCEPT ![T2] = Junk, ![T4] = Junk, ![T5] = Base, ![T3] = Junk]
  BY Zenon DEF StoreEnter, ghosts
<1>2. /\ At = "enter" /\ Step = k /\ Own = reg
      /\ reg \in [Cell -> Nat] /\ mem \in [0..Top -> Nat]
  BY <1>1, RunningSp DEF Library, Typed
<1>3. /\ reg[SP] = Base0 - LoweredAt("enter", k)
      /\ \A c \in Cell \ (UsedAt("enter", k) \cup {MEPC}) : reg[c] = call.reg[c]
      /\ \A a \in Frame(call) : mem[a] = call.mem[a]
  BY <1>2 DEF RoutineInv, Library, Lowered, Used
<1>4. reg[SP] = Base0 /\ \A c \in Cell \ {MEPC} : reg[c] = call.reg[c]
  BY <1>3, LoweredIs, UsedIs, StackPointers
<1>5. At' \in {"copy", "regs"} /\ Own' = reg' /\ Step' = k'
  BY <1>1, Running
<1>6. At' = "copy" => Base0 # Top /\ Base0 + Step' <= Top
  <2>1. At' = "copy" => Base0 # Top /\ Step' = 0
    BY <1>1, <1>4, <1>5, Running
  <2> QED
    BY <2>1, StackPointers, Constants
<1>7. At' = "regs" => Step' = 1
  BY <1>1, <1>5, Running
<1>8. Own'[SP] = Base0 - LoweredAt(At', Step')
  <2>1. LoweredAt(At', Step') = 0
    BY <1>5, <1>7, LoweredIs
  <2>2. \/ reg' = [reg EXCEPT ![T2] = Junk, ![T4] = Junk, ![T5] = Base]
        \/ reg' = [reg EXCEPT ![T2] = Junk, ![T4] = Junk, ![T5] = Base, ![T3] = Junk]
    BY <1>1
  <2>a. reg \in [Cell -> Nat]
    BY <1>2
  <2>3. CASE reg' = [reg EXCEPT ![T2] = Junk, ![T4] = Junk, ![T5] = Base]
    <3>1. reg'[SP] = reg[SP]
      BY <2>a, <2>3
    <3> QED
      BY <1>4, <1>5, <2>1, <3>1, StackPointers
  <2>4. CASE reg' = [reg EXCEPT ![T2] = Junk, ![T4] = Junk, ![T5] = Base, ![T3] = Junk]
    <3>1. reg'[SP] = reg[SP]
      BY <2>a, <2>4
    <3> QED
      BY <1>4, <1>5, <2>1, <3>1, StackPointers
  <2> QED
    BY <2>2, <2>3, <2>4
<1>9. \A c \in Cell \ (UsedAt(At', Step') \cup {MEPC}) : Own'[c] = call.reg[c]
  <2>1. UsedAt(At', Step') = Temps \cup {SP}
    BY <1>5, UsedIs
  <2>2. \A c \in Cell \ Temps : reg'[c] = reg[c]
    BY <1>1, <1>2 DEF Temps
  <2> QED
    BY <1>4, <1>5, <2>1, <2>2
<1>10. \A a \in Frame(call) : mem'[a] = call.mem[a]
  <2> SUFFICES ASSUME NEW a \in Frame(call) PROVE mem'[a] = call.mem[a]
    OBVIOUS
  <2>1. a \in Base0..Top - 1
    BY FrameIs DEF Typed, Base0
  <2>2. reg[SP] - a \notin 1..5 /\ a \in 0..Top
    BY <1>4, <2>1, StackPointers, Constants
  <2> QED
    BY <1>1, <1>3, <2>2
<1>11. \A c \in Temps : mem'[Base0 - Place(c)] = call.reg[c]
  <2> SUFFICES ASSUME NEW c \in Temps PROVE mem'[Base0 - Place(c)] = call.reg[c]
    OBVIOUS
  <2> DEFINE a == Base0 - Place(c)
  <2>1. a \in 0..Top /\ reg[SP] - a = Place(c) /\ Place(c) \in 1..5 /\ Stacked[Place(c)] = c
    BY <1>4, Places, StackPointers, Constants
  <2>2. c \in Cell \ {MEPC}
    BY DEF Temps
  <2> HIDE DEF a
  <2>3. mem'[a] = reg[Stacked[reg[SP] - a]]
    BY <1>1, <2>1
  <2>4. mem'[a] = reg[c]
    BY <2>1, <2>3, Zenon
  <2> QED
    BY <1>4, <2>2, <2>4 DEF a
<1>12. At' \in Library /\ Base0 \in Nat /\ At' # "scan"
  BY <1>5, StackPointers DEF Library
<1> QED
  BY <1>1, <1>5, <1>6, <1>7, <1>8, <1>9, <1>10, <1>11, <1>12, RoutineGoesOn

LEMMA RoutineStoreStack ==
  ASSUME CheckpointInv, StoreStack
  PROVE  RoutineInv'
<1> USE DEF CheckpointInv
<1>1. /\ phase = "copy" /\ call' = call /\ cut' = cut /\ mem' = mem
      /\ reg' = [reg EXCEPT ![T6] = Junk]
      /\ \/ phase' = "regs" /\ k' = 1
         \/ phase' = "copy" /\ k' = k + 1 /\ reg[SP] + k # Top
  BY Zenon DEF StoreStack
<1>2. At = "copy" /\ Step = k /\ Own = reg /\ reg \in [Cell -> Nat]
  BY <1>1, RunningSp DEF Library, Typed
<1>3. /\ reg[SP] = Base0 - LoweredAt("copy", k) /\ Base0 # Top /\ Base0 + k <= Top
      /\ \A c \in Cell \ (UsedAt("copy", k) \cup {MEPC}) : reg[c] = call.reg[c]
      /\ \A a \in Frame(call) : mem[a] = call.mem[a]
      /\ \A c \in Temps : \/ mem[Base0 - Place(c)] = call.reg[c]
                          \/ cut /\ c \in Spoilt
  BY <1>2 DEF RoutineInv, Library, Lowered, Used
<1>4. reg[SP] = Base0 /\ UsedAt("copy", k) = Temps \cup {SP}
  BY <1>3, LoweredIs, UsedIs, StackPointers
<1>5. At' \in {"copy", "regs"} /\ Own' = reg' /\ Step' = k'
  BY <1>1, Running
<1>6. At' = "copy" => Base0 # Top /\ Base0 + Step' <= Top
  <2>1. At' = "copy" => Step' = k + 1 /\ Base0 + k # Top
    BY <1>1, <1>4, <1>5, Running
  <2> QED
    BY <1>3, <2>1, StackPointers, Constants
<1>7. At' = "regs" => Step' = 1
  BY <1>1, <1>5, Running
<1>8. Own'[SP] = Base0 - LoweredAt(At', Step')
  <2>1. LoweredAt(At', Step') = 0
    BY <1>5, <1>7, LoweredIs
  <2>2. reg'[SP] = reg[SP]
    BY <1>1, <1>2
  <2> QED
    BY <1>4, <1>5, <2>1, <2>2, StackPointers
<1>9. \A c \in Cell \ (UsedAt(At', Step') \cup {MEPC}) : Own'[c] = call.reg[c]
  <2>1. UsedAt(At', Step') = Temps \cup {SP}
    BY <1>5, UsedIs
  <2>2. \A c \in Cell \ Temps : reg'[c] = reg[c]
    BY <1>1, <1>2 DEF Temps
  <2> QED
    BY <1>3, <1>4, <1>5, <2>1, <2>2
<1>10. At' \in Library /\ Base0 \in Nat /\ At' # "scan"
  BY <1>5, StackPointers DEF Library
<1>11. \A c \in Temps : \/ mem'[Base0 - Place(c)] = call.reg[c]
                        \/ cut' /\ c \in Spoilt
  BY <1>1, <1>3
<1>12. \A a \in Frame(call) : mem'[a] = call.mem[a]
  BY <1>1, <1>3
<1> QED
  BY <1>1, <1>5, <1>6, <1>7, <1>8, <1>9, <1>10, <1>11, <1>12, RoutineGoesOn

LEMMA RoutineStoreReg ==
  ASSUME CheckpointInv, StoreReg
  PROVE  RoutineInv'
<1> USE DEF CheckpointInv
<1>1. /\ phase = "regs" /\ call' = call /\ cut' = cut /\ mem' = mem
      /\ \/ phase' = "leave" /\ k' = k /\ k = 37
         \/ phase' = "regs" /\ k' = k + 1 /\ k # 37
  BY Zenon DEF StoreReg
<1>2. /\ At = "regs" /\ Step = k /\ Own = reg /\ k \in 1..37
      /\ k = 7 => reg' = [reg EXCEPT ![SP] = Base0 - 7]
      /\ StoreOrder[k] \in {T2, T3, T4} =>
           reg' = [reg EXCEPT ![StoreOrder[k]] = Saved(StoreOrder[k])]
      /\ k # 7 /\ StoreOrder[k] \notin {T2, T3, T4} => reg' = [reg EXCEPT ![T6] = Junk]
  BY StoreRegIs
<1>3. /\ reg[SP] = Base0 - LoweredAt("regs", k)
      /\ \A c \in Cell \ (UsedAt("regs", k) \cup {MEPC}) : reg[c] = call.reg[c]
      /\ \A a \in Frame(call) : mem[a] = call.mem[a]
      /\ \A c \in Temps : \/ mem[Base0 - Place(c)] = call.reg[c]
                          \/ cut /\ c \in Spoilt
      /\ reg \in [Cell -> Nat]
  BY <1>2 DEF RoutineInv, Library, Lowered, Used, Typed
<1>4. At' \in {"regs", "leave"} /\ Own' = reg' /\ Step' = k'
  BY <1>1, Running
<1>5. At' = "regs" => Step' = k + 1 /\ k # 37
  BY <1>1, <1>4, Running
<1>6. /\ \A c \in Cell \ (Temps \cup {SP}) : reg'[c] = reg[c]
      /\ k # 7 => reg'[SP] = reg[SP]
      /\ k = 7 => reg'[SP] = Base0 - 7
  <2>1. CASE k = 7
    BY <1>2, <1>3, <2>1
  <2>2. CASE k # 7 /\ StoreOrder[k] \in {T2, T3, T4}
    <3> DEFINE d == StoreOrder[k]
               v == Saved(d)
    <3>1. d \in {T2, T3, T4} /\ reg' = [reg EXCEPT ![d] = v]
      BY <1>2, <2>2
    <3> HIDE DEF d, v
    <3> QED
      BY <1>3, <2>2, <3>1 DEF Temps
  <2>3. CASE k # 7 /\ StoreOrder[k] \notin {T2, T3, T4}
    <3>1. reg' = [reg EXCEPT ![T6] = Junk]
      BY <1>2, <2>3
    <3> QED
      BY <1>3, <2>3, <3>1 DEF Temps
  <2> QED
    BY <2>1, <2>2, <2>3
<1>7. Own'[SP] = Base0 - LoweredAt(At', Step')
  <2>1. CASE k < 7
    <3>1. At' = "regs" /\ ~(Step' > 7) /\ ~(k > 7)
      <4>1. k # 37 /\ k + 1 <= 7 /\ k \in Nat
        BY <1>2, <2>1
      <4>2. phase' = "regs"
        BY <1>1, <4>1
      <4>3. At' = "regs"
        BY <4>2, Running
      <4> QED
        BY <1>5, <2>1, <4>1, <4>3
    <3>2. LoweredAt(At', Step') = LoweredAt("regs", k)
      BY <3>1, LoweredIs
    <3> QED
      BY <1>2, <1>3, <1>4, <1>6, <2>1, <3>2
  <2>2. CASE k >= 7
    <3>1. reg'[SP] = Base0 - 7
      <4>1. k > 7 => reg[SP] = Base0 - 7
        BY <1>3, LoweredIs
      <4> QED
        BY <1>2, <1>6, <2>2, <4>1
    <3>2. At' = "regs" => Step' > 7
      BY <1>2, <1>5, <2>2
    <3>3. LoweredAt(At', Step') = 7
      BY <1>4, <3>2, LoweredIs
    <3> QED
      BY <1>4, <3>1, <3>3
  <2> QED
    BY <1>2, <2>1, <2>2
<1>8. \A c \in Cell \ (UsedAt(At', Step') \cup {MEPC}) : Own'[c] = call.reg[c]
  <2>1. UsedAt(At', Step') = Temps \cup {SP} /\ UsedAt("regs", k) = Temps \cup {SP}
    BY <1>4, UsedIs
  <2> QED
    BY <1>3, <1>4, <1>6, <2>1
<1>9. At' \in Library /\ Base0 \in Nat /\ At' \notin {"scan", "copy"}
  BY <1>4, StackPointers DEF Library
<1>10. At' = "regs" => Step' \in 1..37
  BY <1>2, <1>5
<1>11. \A c \in Temps : \/ mem'[Base0 - Place(c)] = call.reg[c]
                        \/ cut' /\ c \in Spoilt
  BY <1>1, <1>3
<1>12. \A a \in Frame(call) : mem'[a] = call.mem[a]
  BY <1>1, <1>3
<1> QED
  BY <1>1, <1>7, <1>8, <1>9, <1>10, <1>11, <1>12, RoutineGoesOn

LEMMA RoutineCheckCall ==
  ASSUME CheckpointInv, CheckCall
  PROVE  RoutineInv'
<1> USE DEF CheckpointInv
<1>1. /\ phase = "run" /\ phase' = "scan" /\ k' = 1 /\ call' = Here
      /\ mem' = [mem EXCEPT ![reg[SP] - 1] = reg[T4], ![reg[SP] - 2] = reg[T5],
                            ![reg[SP] - 3] = reg[T6]]
      /\ reg' = [reg EXCEPT ![SP] = reg[SP] - 5, ![A4] = reg[T5], ![A5] = reg[T6],
                            ![T6] = Base]
  BY Zenon DEF CheckCall
<1>2. reg \in [Cell -> Nat] /\ mem \in [0..Top -> Nat] /\ reg[SP] \in Low..Top
  BY <1>1, RunningSp DEF Typed
<1>3. At' = "scan" /\ Step' = 1 /\ Own' = reg'
  BY <1>1, Running
<1>4. /\ call'.reg = reg /\ Frame(call)' = reg[SP]..Top - 1
      /\ \A a \in reg[SP]..Top - 1 : call'.mem[a] = mem[a]
  BY <1>1, <1>2, HereIs DEF Frame
<1>5. Base0' = reg[SP] /\ Lowered' = 5 /\ Used' = {SP, A4, A5, T5, T6}
  <2>1. Base0' = reg[SP]
    BY <1>4 DEF Base0
  <2>2. Lowered' = LoweredAt("scan", 1) /\ Used' = UsedAt("scan", 1)
    BY <1>3 DEF Lowered, Used
  <2> QED
    BY <2>1, <2>2, LoweredIs, UsedIs
<1>6. /\ reg'[SP] = reg[SP] - 5
      /\ \A c \in Cell \ {SP, A4, A5, T5, T6} : reg'[c] = reg[c]
  <2>1. reg' = [reg EXCEPT ![SP] = reg[SP] - 5, ![A4] = reg[T5], ![A5] = reg[T6],
                           ![T6] = Base]
    BY <1>1
  <2>2. reg \in [Cell -> Nat]
    BY <1>2
  <2>3. reg'[SP] = reg[SP] - 5
    BY <2>1, <2>2
  <2>4. \A c \in Cell \ {SP, A4, A5, T5, T6} : reg'[c] = reg[c]
    BY <2>1, <2>2
  <2> QED
    BY <2>3, <2>4
<1> DEFINE u == reg[SP] - 1
           v == reg[SP] - 2
           w == reg[SP] - 3
<1>7. mem' = [mem EXCEPT ![u] = reg[T4], ![v] = reg[T5], ![w] = reg[T6]]
  BY <1>1
<1>8. /\ u \in 0..Top /\ v \in 0..Top /\ w \in 0..Top /\ u # v /\ u # w /\ v # w
      /\ \A a \in reg[SP]..Top - 1 : a \in 0..Top /\ a # u /\ a # v /\ a # w
  <2>1. reg[SP] \in Low..Top
    BY <1>2
  <2>2. u \in 0..Top /\ v \in 0..Top /\ w \in 0..Top /\ u # v /\ u # w /\ v # w
    BY <2>1, Constants
  <2>3. \A a \in reg[SP]..Top - 1 : a \in 0..Top /\ a # u /\ a # v /\ a # w
    BY <2>1, Constants
  <2> QED
    BY <2>2, <2>3
<1> HIDE DEF u, v, w
<1>9. mem'[v] = reg[T5] /\ mem'[w] = reg[T6]
  BY <1>2, <1>7, <1>8
<1>10. \A a \in reg[SP]..Top - 1 : mem'[a] = mem[a]
  BY <1>2, <1>7, <1>8
<1>11. /\ mem'[Base0' - 2] = call'.reg[T5]
       /\ mem'[Base0' - 3] = call'.reg[T6]
  BY <1>4, <1>5, <1>9 DEF v, w
<1>12. /\ Own'[SP] = Base0' - Lowered'
       /\ \A c \in Cell \ (Used' \cup {MEPC}) : Own'[c] = call'.reg[c]
       /\ \A a \in Frame(call)' : mem'[a] = call'.mem[a]
  BY <1>3, <1>4, <1>5, <1>6, <1>10
<1>13. At' \notin {"run", "copy", "regs", "leave"} /\ Step' \in 1..32
  BY <1>3
<1> QED
  BY <1>11, <1>12, <1>13, Zenon DEF RoutineInv

LEMMA RoutineCheckReg ==
  ASSUME CheckpointInv, CheckReg
  PROVE  RoutineInv'
<1> USE DEF CheckpointInv
<1>1. /\ phase = "scan" /\ k \in X /\ phase' = phase /\ k' = k + 1
      /\ call' = call /\ cut' = cut /\ mem' = mem
      /\ reg' = CASE k = SP -> [reg EXCEPT ![T5] = Junk]
                  [] k = T5 -> [reg EXCEPT ![T5] = mem[reg[SP] + 3]]
                  [] k = T6 -> [reg EXCEPT ![T5] = Base, ![T6] = mem[reg[SP] + 2]]
                  [] OTHER  -> reg
  BY Zenon DEF CheckReg, ghosts
<1>2. At = "scan" /\ Step = k /\ Own = reg /\ reg \in [Cell -> Nat]
  BY <1>1, RunningSp DEF Library, Typed
<1>3. /\ reg[SP] = Base0 - LoweredAt("scan", k)
      /\ \A c \in Cell \ (UsedAt("scan", k) \cup {MEPC}) : reg[c] = call.reg[c]
      /\ \A a \in Frame(call) : mem[a] = call.mem[a]
      /\ mem[Base0 - 2] = call.reg[T5] /\ mem[Base0 - 3] = call.reg[T6]
  BY <1>2 DEF RoutineInv, Library, Lowered, Used
<1>4. /\ LoweredAt("scan", k) = 5 /\ LoweredAt("scan", k + 1) = 5
      /\ UsedAt("scan", k) = {SP, A4, A5, T5, T6}
      /\ k # 31 => UsedAt("scan", k + 1) = {SP, A4, A5, T5, T6}
      /\ k = 31 => UsedAt("scan", k + 1) = {SP, A4, A5, T5}
  BY <1>1, LoweredIs, UsedIs
<1>5. At' = "scan" /\ Step' = k + 1 /\ Own' = reg'
  BY <1>1, Running
<1>6. /\ \A c \in Cell \ {T5, T6} : reg'[c] = reg[c]
      /\ k = 31 => reg'[T6] = mem[reg[SP] + 2]
  <2>1. CASE k = SP
    <3>1. reg' = [reg EXCEPT ![T5] = Junk]
      BY <1>1, <2>1
    <3> QED
      BY <1>2, <2>1, <3>1
  <2>2. CASE k = T5
    <3>1. reg' = [reg EXCEPT ![T5] = mem[reg[SP] + 3]]
      BY <1>1, <2>2
    <3> QED
      BY <1>2, <2>2, <3>1
  <2>3. CASE k = T6
    <3>1. reg' = [reg EXCEPT ![T5] = Base, ![T6] = mem[reg[SP] + 2]]
      BY <1>1, <2>3
    <3> QED
      BY <1>2, <2>3, <3>1
  <2>4. CASE k \notin {SP, T5, T6}
    <3>1. reg' = reg
      BY <1>1, <2>4
    <3> QED
      BY <1>2, <2>4, <3>1
  <2> QED
    BY <2>1, <2>2, <2>3, <2>4
<1>7. Own'[SP] = Base0 - LoweredAt("scan", Step')
  BY <1>3, <1>4, <1>5, <1>6
<1>8. \A c \in Cell \ (UsedAt("scan", Step') \cup {MEPC}) : Own'[c] = call.reg[c]
  <2>1. CASE k # 31
    BY <1>3, <1>4, <1>5, <1>6, <2>1
  <2>2. CASE k = 31
    <3>1. reg[SP] + 2 = Base0 - 3
      BY <1>3, <1>4, StackPointers
    <3>2. reg'[T6] = call.reg[T6]
      BY <1>3, <1>6, <2>2, <3>1
    <3> QED
      BY <1>3, <1>4, <1>5, <1>6, <2>2, <3>2
  <2> QED
    BY <2>1, <2>2
<1>9. Step' \in 1..32 /\ Base0 \in Nat
  BY <1>1, <1>5, StackPointers
<1>10. \A a \in Frame(call) : mem'[a] = call.mem[a]
  BY <1>1, <1>3
<1>11. mem'[Base0 - 2] = call.reg[T5] /\ mem'[Base0 - 3] = call.reg[T6]
  BY <1>1, <1>3
<1>12. "scan" \in Library
  BY DEF Library
<1> QED
  BY <1>1, <1>5, <1>7, <1>8, <1>9, <1>10, <1>11, <1>12, RoutineGoesOn

-----------------------------------------------------------------------------
(* What a pair resumes with.                                               *)

LEMMA LiveCells ==
  /\ SP \in Live /\ PC \in Live /\ MEPC \in Live
  /\ \A c \in Live : c \in Cell
BY DEF Live

\* The ROM leaves the pair with what the safe copy holds.
LEMMA LoadedContext ==
  ASSUME CheckpointInv, phase = "resumed", NEW ctx, IsContext(ctx), Holds(ctx)
  PROVE  Restored(ctx)
<1> USE DEF CheckpointInv
<1>1. /\ \A c \in Cell : reg[c] = safe[LoadWord(c)] /\ c \notin bad
      /\ SafeSp # Top => \A j \in 0..(Top - SafeSp + 1) - 1 : mem[SafeSp + j] = safe[37 + j]
      /\ SafeSp \in Low - 4..Top /\ bad \subseteq Cell
  BY DEF RestoreInv, Kept, StackLoaded, Typed
<1>2. bad = {}
  BY <1>1
<1>3. \A c \in Live : safe[LoadWord(c)] = ctx.reg[c]
  BY LiveCells, Words DEF Holds
<1>4. \A c \in Live : reg[c] = ctx.reg[c]
  BY <1>1, <1>3, LiveCells
<1>5. SafeSp = ctx.reg[SP]
  BY <1>3, LiveCells DEF SafeSp
<1>6. Frame(ctx) = ctx.reg[SP]..Top - 1 /\ ctx.reg[SP] \in Nat
  BY FrameIs
<1>7. ASSUME NEW a \in Frame(ctx) PROVE mem[a] = ctx.mem[a]
  <2> DEFINE j == a - ctx.reg[SP]
  <2>1. /\ a \in Int /\ ctx.reg[SP] # Top /\ ctx.reg[SP] + j = a
        /\ j \in 0..(Top - ctx.reg[SP] + 1) - 1 /\ 37 + j = 37 + a - ctx.reg[SP]
    BY <1>6, Constants
  <2>2. safe[37 + a - ctx.reg[SP]] = ctx.mem[a]
    BY <2>1 DEF Holds
  <2>3. mem[ctx.reg[SP] + j] = safe[37 + j]
    BY <1>1, <1>5, <2>1
  <2> QED
    BY <2>1, <2>2, <2>3
<1> QED
  BY <1>2, <1>4, <1>7 DEF Restored

\* Only a pair is rolled back; when no checkpoint was being written the copy
\* is that of the last one.
LEMMA ResumedPair ==
  ASSUME CheckpointInv, phase = "resumed"
  PROVE  /\ mode = "DCLS" /\ reg[PC] = safe[StoreWord(PC)] /\ reg[PC] # ActPc
         /\ ~writing => Holds(good) /\ Restored(good)
         /\ writing => OldPlace \/ Holds(call)
         /\ IsContext(call) /\ IsContext(good)
<1> USE DEF CheckpointInv
<1>1. mode = "DCLS"
  BY DEF ModeInv
<1>2. reg[PC] = safe[StoreWord(PC)] /\ reg[PC] # ActPc
  BY Words DEF RestoreInv, Kept
<1>3. ~writing => Holds(good)
  BY <1>1, <1>2 DEF CopyInv
<1>4. writing => OldPlace \/ Holds(call)
  BY <1>1 DEF CopyInv
<1>5. IsContext(call) /\ IsContext(good)
  BY DEF Typed
<1> QED
  BY <1>1, <1>2, <1>3, <1>4, <1>5, LoadedContext

LEMMA ResumedCallable ==
  ASSUME CheckpointInv, phase = "resumed", ~Torn
  PROVE  Callable(reg)
<1>1. Restored(good) \/ Restored(call)
  BY ResumedPair DEF Torn
<1>2. Callable(good.reg) /\ Callable(call.reg)
  BY DEF CheckpointInv, Typed
<1> QED
  BY <1>1, <1>2, LiveCells, Zenon DEF Restored, Callable

LEMMA RoutineStep ==
  ASSUME CheckpointInv, [Next]_vars
  PROVE  RoutineInv'
<1> USE DEF CheckpointInv
<1>1. prog' = prog
  BY Changes
<1>2. CASE ActivateEnter \/ ActivateSave \/ ActivateSleep \/ Mismatch
  <2>1. phase' \in {"activate", "restore"}
    BY <1>2 DEF ActivateEnter, ActivateSave, ActivateSleep, Mismatch
  <2>2. At' \in {"activate", "restore"}
    BY <2>1, Running
  <2> QED
    BY <2>2, NotInRoutine DEF Library
<1>3. CASE RestoreReg \/ LoadStack
  <2>1. phase' \in {"restore", "load_stack", "resumed", "asleep", "act_end"}
    BY <1>3 DEF RestoreReg, LoadStack
  <2>2. At' \in {"restore", "load_stack", "resumed", "asleep", "act_end"}
    BY <2>1, Running
  <2> QED
    BY <2>2, NotInRoutine DEF Library
<1>4. CASE ActivateLeave
  <2>1. /\ phase = "act_end" /\ phase' = "run"
        /\ reg' = [reg EXCEPT ![T6] = mem[reg[SP] + 2], ![T5] = mem[reg[SP] + 3],
                              ![SP] = reg[SP] + 4, ![PC] = 0]
    BY <1>4, Zenon DEF ActivateLeave
  <2>2. reg[SP] = G - 4
    BY <2>1, Words DEF RestoreInv, Kept, ActivateInv, Activating, ActSaved
  <2>3. reg[SP] + 4 = G /\ G \in Low..Top
    BY <2>2, StackPointers
  <2>4. reg \in [Cell -> Nat]
    BY DEF Typed
  <2>5. reg'[SP] = reg[SP] + 4 /\ reg'[PC] = 0
    BY <2>1, <2>4
  <2>6. 0 \in 0..Len(prog) - 1
    BY ProgramDepth DEF Typed
  <2>7. Callable(reg)'
    BY <1>1, <2>3, <2>5, <2>6 DEF Callable
  <2>8. At' = "run" /\ Own' = reg'
    BY <2>1, Running
  <2> QED
    BY <2>7, <2>8, NotInRoutine DEF Library, Callable
<1>5. CASE Work
  <2>1. /\ phase = "run" /\ phase' = "run" /\ Point + 1 < Len(prog)
        /\ reg' = FreshReg(Point + 1)
    BY <1>5, Zenon DEF Work
  <2>2. Point \in Nat /\ prog \in Programs
    BY DEF Point, Typed
  <2>3. Point + 1 \in 0..Len(prog) - 1
    BY <2>1, <2>2, ProgramDepth
  <2>4. Callable(FreshReg(Point + 1))
    BY <2>2, <2>3, FreshTypes
  <2>5. Callable(reg)'
    BY <1>1, <2>1, <2>4, Zenon DEF Callable
  <2>6. At' = "run" /\ Own' = reg'
    BY <2>1, Running
  <2> QED
    BY <2>5, <2>6, NotInRoutine DEF Library, Callable
<1>6. CASE StoreLeave \/ CheckLeave
  <2>1. reg'[SP] = call.reg[SP] /\ reg'[PC] = call.reg[PC]
    BY <1>6, StoreLeaveIs, CheckLeaveIs DEF Spoilt
  <2>2. phase' = "run"
    BY <1>6 DEF StoreLeave, CheckLeave
  <2>3. Callable(call.reg)
    BY DEF Typed
  <2>4. Callable(reg)'
    BY <1>1, <2>1, <2>3, Zenon DEF Callable
  <2>5. At' = "run" /\ Own' = reg'
    BY <2>2, Running
  <2> QED
    BY <2>4, <2>5, NotInRoutine DEF Library, Callable
<1>7. CASE Resume
  <2>1. phase = "resumed" /\ ~Torn /\ phase' = "run" /\ reg' = reg
    BY <1>7 DEF Resume
  <2>2. Callable(reg)'
    BY <1>1, <2>1, ResumedCallable, Zenon DEF Callable
  <2>3. At' = "run" /\ Own' = reg'
    BY <2>1, Running
  <2> QED
    BY <2>2, <2>3, NotInRoutine DEF Library, Callable
<1>8. CASE Pop
  <2>1. /\ phase = "pop" /\ phase' = "pop" /\ back' = back /\ entry' = entry
        /\ call' = call /\ cut' = cut /\ mem' = mem
    BY <1>8 DEF Pop, ghosts
  <2>2. At' = At /\ Step' = Step /\ Own' = Own
    BY <2>1 DEF At, Step, Own, Handling
  <2> QED
    BY <1>1, <2>1, <2>2, RoutineKept
<1>9. CASE RecoveryLeave
  <2>1. /\ phase = "pop" /\ phase' = back[1] /\ k' = back[2]
        /\ call' = call /\ cut' = cut /\ mem' = mem
    BY <1>9 DEF RecoveryLeave
  <2>2. /\ At = back[1] /\ Step = back[2] /\ Own = entry.reg
        /\ At \in Library \cup {"run"}
    BY <2>1, EntrySp DEF Handling
  <2>3. At' = At /\ Step' = Step /\ Own' = reg'
    BY <2>1, <2>2, Running DEF Library
  <2>4. \A c \in Cell \ {MEPC} : Own'[c] = Own[c]
    BY <1>9, <2>2, <2>3, RecoveryRestores
  <2> QED
    BY <1>1, <2>1, <2>3, <2>4, RoutineKept
<1>10. CASE Done \/ UNCHANGED vars \/ \E c \in Struck : Strike(c)
  <2>1. /\ phase' = phase /\ k' = k /\ reg' = reg /\ back' = back /\ entry' = entry
        /\ call' = call /\ cut' = cut /\ mem' = mem
    BY <1>10 DEF Done, vars, Strike
  <2>2. At' = At /\ Step' = Step /\ Own' = Own
    BY <2>1 DEF At, Step, Own, Handling
  <2> QED
    BY <1>1, <2>1, <2>2, RoutineKept
<1> QED
  BY <1>2, <1>3, <1>4, <1>5, <1>6, <1>7, <1>8, <1>9, <1>10, RoutineHandled,
     RoutineStoreCall, RoutineStoreEnter, RoutineStoreStack, RoutineStoreReg,
     RoutineCheckCall, RoutineCheckReg DEF Next, Cores

-----------------------------------------------------------------------------
(* The handler is kept.                                                    *)

\* Only the handler's own steps leave the cores in it.
LEMMA InHandler ==
  ASSUME [Next]_vars, Handling'
  PROVE  \/ RecoverySync \/ Push \/ Pop
         \/ (\E c \in Struck : Strike(c)) \/ UNCHANGED vars
         \/ RecoveryLeave
<1>1. ~(ActivateEnter \/ ActivateSave \/ ActivateSleep \/ ActivateLeave)
  BY DEF Handling, ActivateEnter, ActivateSave, ActivateSleep, ActivateLeave
<1>2. ~(Work \/ StoreCall \/ StoreStack \/ StoreReg \/ StoreLeave)
  BY DEF Handling, Work, StoreCall, StoreStack, StoreReg, StoreLeave
<1>3. ~StoreEnter
  BY DEF Handling, StoreEnter
<1>4. ~(CheckCall \/ CheckReg \/ CheckLeave \/ Mismatch \/ RestoreReg \/ LoadStack \/ Resume)
  BY DEF Handling, CheckCall, CheckReg, CheckLeave, Mismatch, RestoreReg, LoadStack, Resume
<1>5. Done => UNCHANGED vars
  BY DEF Done
<1> QED
  BY <1>1, <1>2, <1>3, <1>4, <1>5 DEF Next, Cores

LEMMA HandlerSync ==
  ASSUME CheckpointInv, [Next]_vars, RecoverySync
  PROVE  HandlerInv'
<1> USE DEF CheckpointInv
<1>1. reg \in [Cell -> Nat] /\ mem \in [0..Top -> Nat]
  BY DEF Typed
<1>2. /\ phase \in Library \cup {"run"}
      /\ phase' = "push" /\ back' = <<phase, k>> /\ entry' = Here
      /\ mem' = [mem EXCEPT ![reg[SP] - 1] = reg[A4], ![reg[SP] - 2] = reg[A5]]
      /\ reg' = [reg EXCEPT ![SP] = reg[SP] - 4, ![MEPC] = reg[PC]]
      /\ cut' = (cut \/ Raised)
  BY DEF RecoverySync, Library
<1>3. entry'.reg = reg /\ Entry' = reg[SP]
  BY <1>1, <1>2, HereIs DEF Entry
<1>4. /\ Frame(entry)' = reg[SP]..Top - 1
      /\ \A a \in reg[SP]..Top - 1 : entry'.mem[a] = mem[a]
  BY <1>1, <1>2, HereIs DEF Frame
<1>5. back'[1] \in Library \cup {"run"}
      /\ (back'[1] = "copy" \/ (back'[1] = "regs" /\ back'[2] <= 7) => cut')
  BY <1>2 DEF Raised
<1>6. /\ reg'[SP] = reg[SP] - 4 /\ reg'[MEPC] = reg[PC]
      /\ \A c \in Cell \ {SP, MEPC} : reg'[c] = reg[c]
  <2>1. reg' = [reg EXCEPT ![SP] = reg[SP] - 4, ![MEPC] = reg[PC]] /\ reg \in [Cell -> Nat]
    BY <1>1, <1>2
  <2>2. reg'[SP] = reg[SP] - 4 /\ reg'[MEPC] = reg[PC]
    BY <2>1
  <2>3. \A c \in Cell \ {SP, MEPC} : reg'[c] = reg[c]
    BY <2>1
  <2> QED
    BY <2>2, <2>3
<1> DEFINE u == reg[SP] - 1
           w == reg[SP] - 2
<1>7. /\ \A a \in reg[SP]..Top - 1 : a \in 0..Top /\ a # u /\ a # w
      /\ w \in 0..Top /\ u # w
  <2>1. reg[SP] \in Low - 7..Top
    BY <1>2, RunningSp
  <2> QED
    BY <2>1, Constants
<1>8. mem' = [mem EXCEPT ![u] = reg[A4], ![w] = reg[A5]]
  BY <1>2
<1> HIDE DEF u, w
<1>9. mem'[w] = reg[A5]
  BY <1>1, <1>7, <1>8
<1>10. \A a \in reg[SP]..Top - 1 : mem'[a] = mem[a]
  BY <1>1, <1>7, <1>8
<1>11. mem'[Entry' - 2] = entry'.reg[A5]
  BY <1>3, <1>9 DEF w
<1>12. \A a \in Frame(entry)' : mem'[a] = entry'.mem[a]
  BY <1>4, <1>10
<1>13. \A c \in (X \cup Csr) \ {T6} : reg'[c] = Pushed(c)'
  BY <1>3, <1>6 DEF Pushed
<1>14. reg'[SP] = Entry' - 4 /\ reg'[PC] = entry'.reg[PC] /\ reg'[T6] = entry'.reg[T6]
  BY <1>3, <1>6
<1> QED
  BY <1>2, <1>5, <1>11, <1>12, <1>13, <1>14 DEF HandlerInv

LEMMA HandlerPush ==
  ASSUME CheckpointInv, [Next]_vars, Push
  PROVE  HandlerInv'
<1> USE DEF CheckpointInv
<1>1. /\ phase = "push" /\ phase' = "pop" /\ k' = 1 /\ back' = back /\ entry' = entry
      /\ cut' = cut
      /\ mem' = [a \in 0..Top |-> IF reg[SP] - a \in X \cup Csr THEN reg[reg[SP] - a]
                                  ELSE mem[a]]
      /\ reg' = [reg EXCEPT ![T6] = Junk]
  BY DEF Push, ghosts
<1>2. /\ back[1] \in Library \cup {"run"}
      /\ (back[1] = "copy" \/ (back[1] = "regs" /\ back[2] <= 7) => cut)
      /\ reg[SP] = Entry - 4 /\ reg[PC] = entry.reg[PC]
      /\ mem[Entry - 2] = entry.reg[A5]
      /\ \A a \in Frame(entry) : mem[a] = entry.mem[a]
      /\ \A c \in (X \cup Csr) \ {T6} : reg[c] = Pushed(c)
      /\ reg[T6] = entry.reg[T6]
  BY <1>1 DEF HandlerInv, Handling
<1>3. Entry \in Low - 7..Top
  BY <1>1, EntrySp DEF Handling
<1>4. /\ Entry' = Entry /\ Frame(entry)' = Frame(entry)
      /\ \A c \in X \cup Csr : Pushed(c)' = Pushed(c)
  BY <1>1 DEF Entry, Frame, Pushed
<1>5. \A c \in Cell \ {T6} : reg'[c] = reg[c]
  <2>1. reg' = [reg EXCEPT ![T6] = Junk] /\ reg \in [Cell -> Nat]
    BY <1>1 DEF Typed
  <2> QED
    BY <2>1
<1>6. ASSUME NEW c \in X \cup Csr PROVE mem'[Entry - 4 - c] = Pushed(c)
  <2> DEFINE a == Entry - 4 - c
  <2>1. a \in 0..Top /\ reg[SP] - a = c
    BY <1>2, <1>3, Constants
  <2> HIDE DEF a
  <2>2. mem'[a] = reg[c]
    BY <1>1, <2>1
  <2>3. reg[c] = Pushed(c)
    BY <1>2 DEF Pushed
  <2> QED
    BY <2>2, <2>3 DEF a
<1>7. ASSUME NEW a \in 0..Top, a >= Entry - 4 PROVE mem'[a] = mem[a]
  <2>1. reg[SP] - a \notin X \cup Csr
    BY <1>2, <1>3, <1>7, Constants
  <2> QED
    BY <1>1, <2>1
<1>8. mem'[Entry - 2] = entry.reg[A5]
  <2>1. Entry - 2 \in 0..Top /\ Entry - 2 >= Entry - 4
    BY <1>3, Constants
  <2> QED
    BY <1>2, <1>7, <2>1
<1>9. \A a \in Frame(entry) : mem'[a] = entry.mem[a]
  <2> SUFFICES ASSUME NEW a \in Frame(entry) PROVE mem'[a] = entry.mem[a]
    OBVIOUS
  <2>1. a \in Entry..Top - 1
    BY FrameIs DEF Typed, Entry
  <2>2. a \in 0..Top /\ a >= Entry - 4
    BY <1>3, <2>1, Constants
  <2> QED
    BY <1>2, <1>7, <2>2
<1>10. \A c \in (X \cup Csr) \ {T6} : reg'[c] = Pushed(c)'
  BY <1>2, <1>4, <1>5
<1>11. \A c \in X \cup Csr : mem'[Entry' - 4 - c] = Pushed(c)'
  BY <1>4, <1>6
<1>12. /\ reg'[SP] = Entry' - 4 /\ reg'[PC] = entry'.reg[PC]
       /\ mem'[Entry' - 2] = entry'.reg[A5]
       /\ \A a \in Frame(entry)' : mem'[a] = entry'.mem[a]
  <2>1. reg'[SP] = reg[SP] /\ reg'[PC] = reg[PC]
    BY <1>5
  <2>2. entry' = entry /\ reg[SP] = Entry - 4 /\ reg[PC] = entry.reg[PC]
    BY <1>1, <1>2
  <2>3. reg'[SP] = Entry' - 4 /\ reg'[PC] = entry'.reg[PC]
    BY <1>4, <2>1, <2>2
  <2>4. mem'[Entry' - 2] = entry'.reg[A5]
    BY <1>4, <1>8, <2>2
  <2>5. \A a \in Frame(entry)' : mem'[a] = entry'.mem[a]
    BY <1>4, <1>9, <2>2
  <2> QED
    BY <2>3, <2>4, <2>5
<1>13. back'[1] \in Library \cup {"run"}
       /\ (back'[1] = "copy" \/ (back'[1] = "regs" /\ back'[2] <= 7) => cut')
  BY <1>1, <1>2
<1>14. phase' = "pop" /\ phase' # "push" /\ k' \in 1..37 /\ k' # 37
  BY <1>1
<1> QED
  BY <1>10, <1>11, <1>12, <1>13, <1>14 DEF HandlerInv

LEMMA HandlerPop ==
  ASSUME CheckpointInv, [Next]_vars, Pop
  PROVE  HandlerInv'
<1> USE DEF CheckpointInv
<1>1. /\ phase = "pop" /\ phase' = "pop" /\ k \in 1..36 /\ k' = k + 1
      /\ back' = back /\ entry' = entry /\ cut' = cut /\ mem' = mem
      /\ reg' = [reg EXCEPT ![PopOrder[k]] = mem[reg[SP] - PopOrder[k]]]
  BY DEF Pop, ghosts
<1>2. /\ back[1] \in Library \cup {"run"}
      /\ (back[1] = "copy" \/ (back[1] = "regs" /\ back[2] <= 7) => cut)
      /\ reg[SP] = Entry - 4 /\ reg[PC] = entry.reg[PC]
      /\ mem[Entry - 2] = entry.reg[A5]
      /\ \A a \in Frame(entry) : mem[a] = entry.mem[a]
      /\ \A c \in (X \cup Csr) \ {T6} : reg[c] = Pushed(c)
      /\ \A c \in X \cup Csr : mem[Entry - 4 - c] = Pushed(c)
  BY <1>1 DEF HandlerInv, Handling
<1>3. /\ Entry' = Entry /\ Frame(entry)' = Frame(entry)
      /\ \A c \in X \cup Csr : Pushed(c)' = Pushed(c)
  BY <1>1 DEF Entry, Frame, Pushed
<1> DEFINE d == PopOrder[k]
<1>4. d \in X \cup Csr /\ (d = T6 <=> k = 36)
  BY <1>1, PopOrderCells
<1>5. reg' = [reg EXCEPT ![d] = Pushed(d)] /\ reg \in [Cell -> Nat]
  BY <1>1, <1>2, <1>4 DEF Typed
<1> HIDE DEF d
<1> DEFINE v == Pushed(d)
<1>a. d \in Cell /\ reg' = [reg EXCEPT ![d] = v] /\ reg \in [Cell -> Nat]
  BY <1>4, <1>5
<1> HIDE DEF v
<1>b. reg'[d] = v /\ \A c \in Cell \ {d} : reg'[c] = reg[c]
  BY <1>a
<1>6. reg'[d] = Pushed(d) /\ \A c \in Cell \ {d} : reg'[c] = reg[c]
  BY <1>b DEF v
<1>7. \A c \in (X \cup Csr) \ {T6} : reg'[c] = Pushed(c)
  BY <1>2, <1>6
<1>8. reg'[SP] = Entry - 4 /\ reg'[PC] = entry.reg[PC]
  BY <1>2, <1>4, <1>6, <1>7 DEF Pushed
<1>9. k' = 37 => reg'[T6] = entry.reg[T6]
  <2>1. k' = 37 => d = T6
    BY <1>1, <1>4
  <2> QED
    BY <1>6, <2>1 DEF Pushed
<1>10. k' \in 1..37
  BY <1>1
<1> QED
  BY <1>1, <1>2, <1>3, <1>7, <1>8, <1>9, <1>10 DEF HandlerInv

LEMMA HandlerStep ==
  ASSUME CheckpointInv, [Next]_vars
  PROVE  HandlerInv'
<1> USE DEF CheckpointInv
<1>1. CASE ~Handling'
  BY <1>1 DEF HandlerInv
<1>2. CASE UNCHANGED vars \/ \E c \in Struck : Strike(c)
  <2>1. /\ phase' = phase /\ k' = k /\ back' = back /\ entry' = entry
        /\ cut' = cut /\ mem' = mem /\ reg' = reg
    BY <1>2 DEF Strike, vars
  <2>2. /\ Entry' = Entry /\ Frame(entry)' = Frame(entry) /\ Handling' = Handling
        /\ \A c \in X \cup Csr : Pushed(c)' = Pushed(c)
    BY <2>1 DEF Entry, Frame, Pushed, Handling
  <2> QED
    BY <2>1, <2>2 DEF HandlerInv
<1>3. CASE RecoveryLeave
  <2>1. phase = "pop" /\ phase' = back[1]
    BY <1>3 DEF RecoveryLeave
  <2>2. ~Handling'
    BY <2>1, EntrySp DEF Handling, Library
  <2> QED
    BY <1>1, <2>2
<1> QED
  BY <1>1, <1>2, <1>3, InHandler, HandlerSync, HandlerPush, HandlerPop

LEMMA RepairStep ==
  ASSUME CheckpointInv, [Next]_vars
  PROVE  RepairInv'
<1> USE DEF CheckpointInv
<1>1. CASE ~Handling'
  BY <1>1 DEF RepairInv
<1>2. CASE RecoverySync
  <2>1. /\ phase' = "push" /\ since' = {}
        /\ bad' = (bad \ {A4, A5, PC, MEPC}) \cup (IF PC \in bad THEN {MEPC} ELSE {})
    BY <1>2 DEF RecoverySync
  <2>2. \A c \in bad' : c \in X \cup Csr
    BY <2>1 DEF Typed
  <2> QED
    BY <2>1, <2>2 DEF RepairInv
<1>3. CASE Push
  <2>1. phase = "push" /\ k' = 1 /\ bad' = bad /\ since' = since
    BY <1>3 DEF Push, ghosts
  <2>2. \A c \in bad \ since : c \in X \cup Csr
    BY <2>1 DEF RepairInv, Handling
  <2> QED
    BY <2>1, <2>2, PopOrderCells DEF RepairInv
<1>4. CASE Pop
  <2>1. /\ phase = "pop" /\ k \in 1..36 /\ k' = k + 1
        /\ bad' = bad \ {PopOrder[k]} /\ since' = since
    BY <1>4 DEF Pop, ghosts
  <2>2. \A c \in bad \ since : c \in X \cup Csr /\ \E i \in k..36 : PopOrder[i] = c
    BY <2>1 DEF RepairInv, Handling
  <2>3. ASSUME NEW c \in bad' \ since' PROVE \E i \in k'..36 : PopOrder[i] = c
    <3>1. PICK i \in k..36 : PopOrder[i] = c
      BY <2>1, <2>2
    <3>2. i # k
      BY <2>1, <3>1
    <3>3. i \in k'..36
      BY <2>1, <3>2
    <3> QED
      BY <3>1, <3>3
  <2> QED
    BY <2>1, <2>2, <2>3 DEF RepairInv
<1>5. CASE \E c \in Struck : Strike(c)
  <2>1. bad' \ since' = {}
    BY <1>5 DEF Strike
  <2> QED
    BY <2>1 DEF RepairInv
<1>6. CASE UNCHANGED vars
  BY <1>6 DEF vars, ghosts, RepairInv, Handling
<1>7. CASE RecoveryLeave
  <2>1. phase = "pop" /\ phase' = back[1]
    BY <1>7 DEF RecoveryLeave
  <2>2. ~Handling'
    BY <2>1, EntrySp DEF Handling, Library
  <2> QED
    BY <1>1, <2>2
<1> QED
  BY <1>1, <1>2, <1>3, <1>4, <1>5, <1>6, <1>7, InHandler

=============================================================================
