------------------------------ MODULE Lockstep ------------------------------
(***************************************************************************)
(* One bus (instructions or data) of a compared pair, cycle by cycle: the  *)
(* register that delays the leading core (rtl/obi_sngreg.sv), the delayed  *)
(* answers of the trailing one (rtl/lockstep_reg.sv), the comparator, the  *)
(* isolated bus of a stopped pair (rtl/safe_cpu_wrapper.sv) and the port   *)
(* of the system crossbar, which lets one request be outstanding.          *)
(*                                                                         *)
(* The cores are deterministic: what a core asks for next depends on the   *)
(* answers it got, never on how long a grant took, so the trailing core    *)
(* repeats every decision of the leading one one cycle later.  Between a   *)
(* decision and its grant a request waits in the core.                     *)
(***************************************************************************)
EXTENDS Naturals, Sequences

CONSTANTS
  Payload,      \* what requests can differ in
  None,         \* no request
  Pairs         \* pairs to run: [lag, room]

\* lag: LOCKSTEP rather than DCLS; room: requests a core keeps unanswered
Pair == [lag : BOOLEAN, room : {1, 2}]

ASSUME LockstepConstants == None \notin Payload /\ Pairs \subseteq Pair

VARIABLES
  pair,         \* the pair that runs
  phase,        \* DMR machines: SYNC, STOP, then the two recovery states
  todo, out,    \* per core: requests not yet granted; granted, not answered
  asleep,       \* cores in wfi, whose clock is gated
  script,       \* the leading core's last decision, for the trailing one
  slot,         \* core_instr_req_ff: the delayed request
  late,         \* core_*_resp_ff_rvalid: the delayed answer
  waiting,      \* valid_inflight_q of the crossbar port
  served,       \* the request the bus took in the last cycle
  owed, fed,    \* *_expected_rvalid, *_isolate_valid_q
  struck        \* a fault made the two cores differ

vars == <<pair, phase, todo, out, asleep, script, slot, late, waiting,
          served, owed, fed, struck>>

Core == {"lead", "trail"}
Request == Payload \cup {None}
Phase == {"SYNC", "STOP", "RECOVERY"}

LockstepTypeOK ==
  /\ pair \in Pair
  /\ phase \in Phase
  /\ todo \in [Core -> Seq(Payload)]
  /\ out \in [Core -> 0..2]
  /\ \A c \in Core : Len(todo[c]) + out[c] <= pair.room
  /\ asleep \in [Core -> BOOLEAN]
  /\ script \in Request
  /\ slot \in Request
  /\ served \in Request
  /\ owed \in [Core -> BOOLEAN]
  /\ fed \in [Core -> BOOLEAN]
  /\ {late, waiting, struck} \subseteq BOOLEAN

Init ==
  /\ pair \in Pairs
  /\ phase = "SYNC"
  /\ todo = [c \in Core |-> <<>>]
  /\ out = [c \in Core |-> 0]
  /\ asleep = [c \in Core |-> FALSE]
  /\ script = None
  /\ slot = None
  /\ late = FALSE
  /\ waiting = FALSE
  /\ served = None
  /\ owed = [c \in Core |-> FALSE]
  /\ fed = [c \in Core |-> FALSE]
  /\ struck = FALSE

-----------------------------------------------------------------------------
(* The wires of a cycle.  ready, answer: the bus accepts, the bus answers. *)

Isolated == phase = "STOP"
Asks(c) == IF todo[c] = <<>> THEN None ELSE Head(todo[c])

\* dmr_comparator and its gated output; other: the pair differs on its other bus
Leading == IF pair.lag THEN slot ELSE Asks("lead")
Mismatch == Leading # Asks("trail")
BusRequest(other) == IF Mismatch \/ other THEN None ELSE Leading

\* the crossbar grants nothing while an answer is outstanding, except in the
\* cycle of that answer
BusGrant(other, ready, answer) ==
  BusRequest(other) # None /\ ready /\ (waiting => answer)

SlotAcceptsEmpty(grant) == Asks("lead") # None /\ slot = None   \* with a bug

\* obi_sngreg: granted where the register is empty or being emptied
SlotAccepts(grant) == Asks("lead") # None /\ (slot = None \/ grant)

Granted(c, grant) ==
  IF Isolated THEN Asks(c) # None
  ELSE IF pair.lag /\ c = "lead" THEN SlotAccepts(grant) ELSE grant

Answered(c, answer) ==
  IF Isolated THEN owed[c] \/ fed[c]
  ELSE IF pair.lag /\ c = "trail" THEN late ELSE answer

\* the register is cleared while the delay is off or the pair is cut off
Delaying == pair.lag /\ ~Isolated

(* Variants with a bug, each of which breaks one of the properties below.   *)
SlotNextKept(grant) == IF ~Delaying THEN None
                       ELSE IF SlotAccepts(grant) THEN Asks("lead") ELSE slot
OwedNextKept(c, grant, answer) == ~Isolated /\ (Granted(c, grant) \/ owed[c])
OwedNextFirst(c, grant, answer) ==
  ~Isolated /\ (Granted(c, grant) \/ owed[c]) /\ ~Answered(c, answer)

SlotNext(grant) ==
  IF ~Delaying THEN None
  ELSE IF SlotAccepts(grant) THEN Asks("lead")
  ELSE IF grant THEN None ELSE slot

LateNext(answer) == IF Delaying THEN answer ELSE late

WaitingNext(grant, answer) == grant \/ (waiting /\ ~answer)

OwedNext(c, grant, answer) ==
  ~Isolated /\ (Granted(c, grant) \/ (owed[c] /\ ~Answered(c, answer)))

FedNext(c, grant) == Isolated /\ Granted(c, grant)

-----------------------------------------------------------------------------
(* The cores.                                                              *)

HasRoom(c) == Len(todo[c]) + out[c] < pair.room
Decisions(c) == IF asleep[c] \/ ~HasRoom(c) THEN {None} ELSE Request

\* The trailing core repeats the leading one; a fault changes what it asks
\* for; cut off the bus, the two fetch wfi on their own.
Repeats(d) == IF struck /\ ~HasRoom("trail") THEN None
              ELSE IF pair.lag THEN script ELSE d
TrailDecisions(d) ==
  IF Isolated THEN Decisions("trail")
  ELSE {Repeats(d)} \cup IF phase = "SYNC" THEN Decisions("trail") ELSE {}

\* a request as a sequence
As(r) == IF r = None THEN <<>> ELSE <<r>>

TodoNext(c, d, grant) ==
  (IF Granted(c, grant) THEN Tail(todo[c]) ELSE todo[c]) \o As(d)

\* A sleeping core is not clocked and sees no answer.
OutNext(c, grant, answer) ==
  (out[c] + IF Granted(c, grant) THEN 1 ELSE 0)
    - (IF Answered(c, answer) /\ ~asleep[c] /\ out[c] > 0 THEN 1 ELSE 0)

\* wfi ends all fetching: a core sleeps when nothing of its own is under way.
\* Until it does, the bus has answered what was granted before.
MaySleep(c) == Isolated /\ ~waiting /\ todo[c] = <<>> /\ out[c] = 0

\* Interrupt_Halt wakes the pair, the trailing core by its delayed copy.
AsleepNext(c, naps, d) ==
  IF Isolated THEN asleep[c] \/ (c \in naps /\ d = None)
  ELSE IF phase = "RECOVERY" THEN c = "trail" /\ pair.lag /\ asleep["lead"]
  ELSE asleep[c]

\* DMR_SYNC -> DMR_STOP -> DMR_INTC_RECOVERY, DMR_RECOVERY -> DMR_SYNC
PhaseNext(other, back) ==
  CASE phase = "SYNC" -> IF Mismatch \/ other THEN "STOP" ELSE "SYNC"
    [] phase = "STOP" -> IF \A c \in Core : asleep[c] THEN "RECOVERY" ELSE "STOP"
    [] phase = "RECOVERY" -> IF back /\ ~asleep["trail"] THEN "SYNC" ELSE "RECOVERY"

-----------------------------------------------------------------------------
Own(c, d, e) == IF c = "lead" THEN d ELSE e

Cycle(d, e, naps, grant, answer) ==
  /\ todo' = [c \in Core |-> TodoNext(c, Own(c, d, e), grant)]
  /\ out' = [c \in Core |-> OutNext(c, grant, answer)]
  /\ asleep' = [c \in Core |-> AsleepNext(c, naps, Own(c, d, e))]
  /\ script' = IF Isolated THEN None ELSE d
  /\ slot' = SlotNext(grant)
  /\ late' = LateNext(answer)
  /\ waiting' = WaitingNext(grant, answer)
  /\ served' = IF grant THEN Leading ELSE None
  /\ owed' = [c \in Core |-> OwedNext(c, grant, answer)]
  /\ fed' = [c \in Core |-> FedNext(c, grant)]
  /\ struck' = IF Isolated THEN struck /\ ~(\A c \in Core : asleep[c])
                           ELSE struck \/ e # Repeats(d)
  /\ UNCHANGED pair

Next ==
  \E ready, answer, other, back \in BOOLEAN :
    /\ answer => waiting
    /\ phase' = PhaseNext(other, back)
    /\ \E d \in Decisions("lead") : \E e \in TrailDecisions(d) :
         \E naps \in SUBSET {c \in Core : MaySleep(c)} :
           Cycle(d, e, naps, BusGrant(other, ready, answer), answer)

Spec == Init /\ [][Next]_vars

-----------------------------------------------------------------------------
(* Properties.                                                             *)

(* Two cores that work are never found to differ: the delayed request of    *)
(* the leading core meets the trailing core's own in the same cycle, for    *)
(* every pattern of grants and answers, after a rollback too.               *)
NoFalseMismatch == ~struck /\ ~Isolated => ~Mismatch

(* No core is answered where it is owed no answer: not by the bus, not by   *)
(* the delayed answer, which stays in its flip-flop while the pair is cut   *)
(* off, not by the isolated bus.                                            *)
NoStrayAnswer ==
  /\ ~Isolated /\ waiting /\ ~asleep["lead"] => out["lead"] > 0
  /\ ~Isolated /\ pair.lag /\ late /\ ~asleep["trail"] => out["trail"] > 0
  /\ \A c \in Core : Isolated /\ Answered(c, FALSE) => out[c] > 0

(* A request granted before the pair is cut off the bus needs its rvalid,   *)
(* or the core waits for it and never sleeps (the comment at                *)
(* safe_cpu_wrapper.sv:418): every request of a stopped core is answered.   *)
StoppedIsAnswered ==
  Isolated => \A c \in Core : out[c] = IF Answered(c, FALSE) THEN 1 ELSE 0

(* The same where the bus itself grants the requests one at a time, or the  *)
(* core keeps one request: the one flag of *_expected_rvalid is enough.     *)
StoppedSingleIsAnswered == pair.room = 1 \/ ~pair.lag => StoppedIsAnswered

(* The delayed way to the bus is a queue: the memory sees the requests of   *)
(* the leading core in order and each of them once.                         *)
Between == As(slot) \o todo["lead"]
Queue == INSTANCE RequestQueue WITH queue <- Between, cut <- Isolated
InOrderOnce == Queue!QueueSpec
=============================================================================
