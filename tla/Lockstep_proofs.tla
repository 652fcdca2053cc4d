-------------------------- MODULE Lockstep_proofs --------------------------
(***************************************************************************)
(* Two working cores are never found to differ (Lockstep!NoFalseMismatch), *)
(* for any payloads, any pattern of grants and answers and any number of   *)
(* faults and rollbacks before.                                            *)
(*                                                                         *)
(* The invariant behind it: what the register and the leading core still   *)
(* hold is what the trailing core still has to issue, then the decision it *)
(* has yet to repeat; and the register is empty exactly when the trailing  *)
(* core has nothing to issue.                                              *)
(***************************************************************************)
EXTENDS Lockstep, SequenceTheorems, TLAPS

Typed ==
  /\ pair \in Pair
  /\ phase \in Phase
  /\ todo \in [Core -> Seq(Payload)]
  /\ script \in Request
  /\ slot \in Request
  /\ struck \in BOOLEAN
  /\ asleep \in [Core -> BOOLEAN]

Aligned ==
  IF pair.lag
  THEN /\ Between = todo["trail"] \o As(script)
       /\ slot = None <=> todo["trail"] = <<>>
  ELSE todo["lead"] = todo["trail"]

\* a core sleeps only when cut off, with nothing left to ask, the register
\* and the script empty; the trailing core wakes last; DCLS has no register
Rested ==
  /\ phase = "SYNC" => \A c \in Core : ~asleep[c]
  /\ phase = "RECOVERY" => (asleep["lead"] => asleep["trail"])
  /\ Isolated => \A c \in Core :
       asleep[c] => todo[c] = <<>> /\ slot = None /\ script = None
  /\ ~pair.lag => slot = None

AlignInv ==
  /\ Typed
  /\ Rested
  /\ ~struck /\ ~Isolated => Aligned

-----------------------------------------------------------------------------
(* Facts about sequences. *)

\* A request as a sequence.
LEMMA AsSeq == \A r \in Request : As(r) \in Seq(Payload)
  BY DEF As, Request

\* A sequence that is not empty is its head and the rest.
LEMMA HeadThenTail ==
  ASSUME NEW s \in Seq(Payload), s # <<>>
  PROVE  /\ Head(s) \in Payload
         /\ Tail(s) \in Seq(Payload)
         /\ <<Head(s)>> \o Tail(s) = s
<1>1. Len(s) \in Nat /\ Len(s) > 0
  BY EmptySeq, LenProperties
<1>2. Tail(s) \in Seq(Payload) /\ Head(s) \in Payload
  BY HeadTailProperties
<1>3. <<Head(s)>> \o Tail(s) = s
  BY <1>1, <1>2, HeadTailProperties, SeqEqual
<1> QED  BY <1>2, <1>3

\* Taking the head of a concatenation takes it from its first part.
LEMMA TailOfConcat ==
  ASSUME NEW s \in Seq(Payload), NEW t \in Seq(Payload), s # <<>>
  PROVE  Tail(s \o t) = Tail(s) \o t /\ Head(s \o t) = Head(s) /\ s \o t # <<>>
  OBVIOUS

\* Concatenation of requests is associative.
LEMMA Associative ==
  ASSUME NEW s \in Seq(Payload), NEW t \in Seq(Payload), NEW u \in Seq(Payload)
  PROVE  (s \o t) \o u = s \o (t \o u)
  BY ConcatAssociative

\* One request in front of a sequence can be taken off again.
LEMMA TailOfCons ==
  ASSUME NEW p \in Payload, NEW s \in Seq(Payload)
  PROVE  Tail(<<p>> \o s) = s /\ Head(<<p>> \o s) = p /\ <<p>> \o s # <<>>
  OBVIOUS
-----------------------------------------------------------------------------
(* A cycle. *)

\* A core asks for something exactly when it has something to ask for.
LEMMA AsksSomething ==
  ASSUME Typed, NEW c \in Core
  PROVE  /\ Asks(c) # None <=> todo[c] # <<>>
         /\ todo[c] # <<>> => Asks(c) = Head(todo[c])
         /\ Asks(c) \in Request
<1>1. todo[c] \in Seq(Payload)
  BY DEF Typed
<1> QED  BY <1>1, HeadThenTail, LockstepConstants DEF Asks, Request

\* The bus grants only what both cores ask for.
LEMMA GrantIsAsked ==
  ASSUME Typed, NEW other, NEW ready, NEW answer, BusGrant(other, ready, answer)
  PROVE  /\ todo["trail"] # <<>>
         /\ Leading = Asks("trail") /\ Leading # None
         /\ pair.lag => slot # None
         /\ ~pair.lag => todo["lead"] # <<>>
<1>1. Leading # None /\ ~Mismatch
  BY DEF BusGrant, BusRequest
<1> QED  BY <1>1, AsksSomething DEF Mismatch, Leading, Core

\* Only a request is granted, so that the queues of the cores stay queues.
LEMMA TodoTyped ==
  ASSUME Typed, NEW c \in Core, NEW d \in Request,
         NEW other, NEW ready, NEW answer
  PROVE  LET grant == BusGrant(other, ready, answer)
         IN /\ Granted(c, grant) => todo[c] # <<>>
            /\ TodoNext(c, d, grant) \in Seq(Payload)
<1> DEFINE grant == BusGrant(other, ready, answer)
<1>1. Granted(c, grant) => todo[c] # <<>>
  BY AsksSomething, GrantIsAsked DEF Granted, SlotAccepts, Core
<1>2. todo[c] \in Seq(Payload)
  BY DEF Typed
<1>3. Granted(c, grant) => Tail(todo[c]) \in Seq(Payload)
  BY <1>1, <1>2, HeadThenTail
<1>4. As(d) \in Seq(Payload)
  BY AsSeq
<1> HIDE DEF grant
<1>5. (IF Granted(c, grant) THEN Tail(todo[c]) ELSE todo[c]) \in Seq(Payload)
  BY <1>2, <1>3
<1>6. TodoNext(c, d, grant) \in Seq(Payload)
  BY <1>4, <1>5, ConcatProperties DEF TodoNext
<1> QED  BY <1>1, <1>6 DEF grant

\* Decisions are requests, or none.
LEMMA DecisionsTyped ==
  ASSUME Typed, NEW d \in Decisions("lead"), NEW e \in TrailDecisions(d)
  PROVE  d \in Request /\ e \in Request
<1>1. d \in Request
  BY DEF Decisions, Request
<1>2. Repeats(d) \in Request
  BY <1>1 DEF Repeats, Request, Typed
<1> QED  BY <1>1, <1>2 DEF TrailDecisions, Decisions, Request

\* A cycle keeps the types.
LEMMA CycleTyped ==
  ASSUME Typed, NEW other \in BOOLEAN, NEW ready \in BOOLEAN,
         NEW answer \in BOOLEAN, NEW back \in BOOLEAN,
         NEW d \in Decisions("lead"), NEW e \in TrailDecisions(d), NEW naps,
         phase' = PhaseNext(other, back),
         Cycle(d, e, naps, BusGrant(other, ready, answer), answer)
  PROVE  Typed'
<1> DEFINE grant == BusGrant(other, ready, answer)
<1>1. d \in Request /\ e \in Request
  BY DecisionsTyped
<1>2. pair' \in Pair
  BY DEF Cycle, Typed
<1>3. phase' \in Phase
  <2>1. phase \in {"SYNC", "STOP", "RECOVERY"}
    BY DEF Typed, Phase
  <2> QED  BY <2>1, Zenon DEF PhaseNext, Phase
<1>4. todo' \in [Core -> Seq(Payload)]
  <2>1. \A c \in Core : Own(c, d, e) \in Request
    BY <1>1 DEF Own
  <2>2. \A c \in Core : TodoNext(c, Own(c, d, e), grant) \in Seq(Payload)
    BY <2>1, TodoTyped
  <2>3. todo' = [c \in Core |-> TodoNext(c, Own(c, d, e), grant)]
    BY DEF Cycle
  <2> QED  BY <2>2, <2>3
<1>5. script' \in Request
  BY <1>1 DEF Cycle, Request
<1>6. slot' \in Request
  <2>1. Asks("lead") \in Request
    BY AsksSomething DEF Core
  <2> QED  BY <2>1 DEF Cycle, SlotNext, Request, Typed
<1>7. struck' \in BOOLEAN
  BY DEF Cycle, Typed
<1>8. asleep' \in [Core -> BOOLEAN]
  <2>1. \A c \in Core : AsleepNext(c, naps, Own(c, d, e)) \in BOOLEAN
    BY DEF AsleepNext, Typed, Core
  <2>2. asleep' = [c \in Core |-> AsleepNext(c, naps, Own(c, d, e))]
    BY DEF Cycle
  <2> QED  BY <2>1, <2>2
<1> QED  BY <1>2, <1>3, <1>4, <1>5, <1>6, <1>7, <1>8 DEF Typed

-----------------------------------------------------------------------------
(* The register is a queue. *)

\* A cycle appends the decision of the leading core to what waits for the
\* bus, and takes the first request off when the bus grants one.
LEMMA BetweenStep ==
  ASSUME Typed, ~Isolated, ~pair.lag => slot = None,
         NEW other \in BOOLEAN, NEW ready \in BOOLEAN, NEW answer \in BOOLEAN,
         NEW d \in Decisions("lead"), NEW e \in TrailDecisions(d), NEW naps,
         Cycle(d, e, naps, BusGrant(other, ready, answer), answer)
  PROVE  LET grant == BusGrant(other, ready, answer)
         IN /\ ~grant => Between' = Between \o As(d)
            /\ grant => Between' = Tail(Between) \o As(d)
            /\ grant => Between # <<>> /\ Leading = Head(Between)
            /\ pair.lag => (slot' = None <=>
                             todo["lead"] = <<>> /\ (slot = None \/ grant))
<1> DEFINE grant == BusGrant(other, ready, answer)
           L == todo["lead"]
<1>1. d \in Request /\ e \in Request /\ grant \in BOOLEAN
  BY DecisionsTyped DEF BusGrant
<1>2. /\ L \in Seq(Payload) /\ slot \in Request
      /\ As(d) \in Seq(Payload) /\ As(slot) \in Seq(Payload)
  BY <1>1, AsSeq DEF Typed, Core
<1>3. /\ todo'["lead"] = TodoNext("lead", d, grant)
      /\ slot' = SlotNext(grant) /\ pair' = pair
  BY DEF Cycle, Core, Own
<1>4. /\ Asks("lead") # None <=> L # <<>>
      /\ L # <<>> => Asks("lead") = Head(L)
  BY AsksSomething DEF Core
<1>5. CASE ~pair.lag
  <2>1. slot = None /\ slot' = None /\ As(None) = <<>>
    BY <1>3, <1>5 DEF SlotNext, Delaying, As
  <2>2. todo'["lead"] = (IF grant THEN Tail(L) ELSE L) \o As(d)
    BY <1>3, <1>5 DEF TodoNext, Granted
  <2>3. todo'["lead"] \in Seq(Payload)
    BY <1>1, <1>3, TodoTyped DEF Core
  <2>4. Between = L /\ Between' = todo'["lead"]
    BY <1>2, <2>1, <2>3, ConcatEmptySeq DEF Between
  <2>5. grant => L # <<>> /\ Leading = Head(L)
    BY <1>4, <1>5, GrantIsAsked DEF Leading
  <2> QED  BY <1>5, <2>2, <2>4, <2>5
<1>6. CASE pair.lag
  <2> DEFINE takes == L # <<>> /\ (slot = None \/ grant)
  <2>1. SlotAccepts(grant) <=> takes
    BY <1>4 DEF SlotAccepts
  <2>2. grant => slot # None /\ Leading = slot
    BY <1>6, GrantIsAsked DEF Leading
  <2> HIDE DEF grant
  <2>3. todo'["lead"] = (IF takes THEN Tail(L) ELSE L) \o As(d)
    BY <1>3, <1>6, <2>1 DEF TodoNext, Granted
  <2>4. slot' = IF takes THEN Head(L) ELSE IF grant THEN None ELSE slot
    BY <1>3, <1>4, <1>6, <2>1 DEF SlotNext, Delaying
  <2>5. /\ ~grant => As(slot') \o todo'["lead"] = (As(slot) \o L) \o As(d)
        /\ grant => As(slot') \o todo'["lead"] = Tail(As(slot) \o L) \o As(d)
        /\ slot' = None <=> (L = <<>> /\ (slot = None \/ grant))
    <3>1. As(d) \in Seq(Payload) /\ As(slot) \in Seq(Payload)
      BY <1>2
    <3>2. grant => Tail(As(slot) \o L) = L
      BY <1>2, <2>2, TailOfCons DEF As, Request
    <3>3. CASE takes
      <4>1. /\ Head(L) \in Payload /\ Tail(L) \in Seq(Payload)
            /\ <<Head(L)>> \in Seq(Payload) /\ <<Head(L)>> \o Tail(L) = L
        BY <1>2, <3>3, HeadThenTail
      <4>2. slot' = Head(L) /\ todo'["lead"] = Tail(L) \o As(d)
        BY <2>3, <2>4, <3>3
      <4>3. As(slot') = <<Head(L)>> /\ slot' # None
        BY <4>1, <4>2, LockstepConstants DEF As
      <4>4. (<<Head(L)>> \o Tail(L)) \o As(d) = <<Head(L)>> \o (Tail(L) \o As(d))
        BY <3>1, <4>1, Associative
      <4>5. As(slot') \o todo'["lead"] = L \o As(d)
        BY <4>1, <4>2, <4>3, <4>4, Zenon
      <4>6. ~grant => As(slot) \o L = L
        BY <1>2, <3>3, ConcatEmptySeq DEF As
      <4> QED  BY <3>2, <3>3, <4>3, <4>5, <4>6
    <3>4. CASE ~takes /\ grant
      <4>1. L = <<>> /\ todo'["lead"] = L \o As(d) /\ slot' = None
        BY <2>3, <2>4, <3>4
      <4>2. As(slot') \o todo'["lead"] = L \o As(d)
        BY <3>1, <4>1, ConcatEmptySeq DEF As
      <4> QED  BY <3>2, <3>4, <4>1, <4>2
    <3>5. CASE ~takes /\ ~grant
      <4>1. todo'["lead"] = L \o As(d) /\ slot' = slot
        BY <2>3, <2>4, <3>5
      <4>2. (As(slot) \o L) \o As(d) = As(slot) \o (L \o As(d))
        BY <1>2, <3>1, Associative
      <4>3. As(slot') \o todo'["lead"] = (As(slot) \o L) \o As(d)
        BY <4>1, <4>2, Zenon
      <4> QED  BY <3>5, <4>1, <4>3
    <3> QED  BY <3>3, <3>4, <3>5
  <2>6. grant => As(slot) \o L # <<>> /\ Head(As(slot) \o L) = slot
    BY <1>2, <2>2, TailOfCons DEF As, Request
  <2> QED  BY <1>6, <2>2, <2>5, <2>6 DEF Between, grant
<1> QED  BY <1>5, <1>6

-----------------------------------------------------------------------------
(* The two cores in step. *)

\* A cycle of a working pair that no fault strikes keeps the two in step.
LEMMA WorkingStep ==
  ASSUME AlignInv, ~Isolated, ~struck, ~struck',
         NEW other \in BOOLEAN, NEW ready \in BOOLEAN, NEW answer \in BOOLEAN,
         NEW d \in Decisions("lead"), NEW e \in TrailDecisions(d), NEW naps,
         Cycle(d, e, naps, BusGrant(other, ready, answer), answer)
  PROVE  Aligned'
<1> DEFINE grant == BusGrant(other, ready, answer)
           L == todo["lead"]
           T == todo["trail"]
<1>1. /\ Typed /\ Aligned /\ d \in Request /\ e \in Request
      /\ grant \in BOOLEAN /\ (~pair.lag => slot = None)
  BY DecisionsTyped DEF AlignInv, BusGrant, Rested
<1>2. e = IF pair.lag THEN script ELSE d
  BY DEF Cycle, Repeats
<1>3. /\ L \in Seq(Payload) /\ T \in Seq(Payload)
      /\ script \in Request /\ slot \in Request /\ pair.lag \in BOOLEAN
      /\ As(script) \in Seq(Payload) /\ As(slot) \in Seq(Payload)
  BY <1>1, AsSeq DEF Typed, Core, Pair
<1>4. /\ todo'["lead"] = TodoNext("lead", d, grant)
      /\ todo'["trail"] = TodoNext("trail", e, grant)
      /\ script' = d /\ pair' = pair
  BY DEF Cycle, Core, Own
<1>5. CASE ~pair.lag
  <2>1. L = T /\ e = d
    BY <1>1, <1>2, <1>5 DEF Aligned
  <2>2. todo'["lead"] = todo'["trail"]
    BY <1>4, <1>5, <2>1 DEF TodoNext, Granted
  <2> QED  BY <1>4, <1>5, <2>2 DEF Aligned
<1>6. CASE pair.lag
  <2>1. Between = T \o As(script) /\ (slot = None <=> T = <<>>) /\ e = script
    BY <1>1, <1>2, <1>6 DEF Aligned
  <2>2. grant => slot # None /\ T # <<>>
    BY <1>1, <1>6, GrantIsAsked
  <2>3. /\ ~grant => Between' = Between \o As(d)
        /\ grant => Between' = Tail(Between) \o As(d)
        /\ slot' = None <=> (L = <<>> /\ (slot = None \/ grant))
    BY <1>1, <1>6, BetweenStep
  <2>4. todo'["trail"] = (IF grant THEN Tail(T) ELSE T) \o As(script)
    BY <1>4, <1>6, <2>1 DEF TodoNext, Granted
  <2> HIDE DEF grant, T, L
  <2>5. Between' = todo'["trail"] \o As(d)
    <3>1. CASE grant
      <4>1. Tail(T \o As(script)) = Tail(T) \o As(script)
        BY <1>3, <2>2, <3>1, TailOfConcat
      <4> QED  BY <2>1, <2>3, <2>4, <3>1, <4>1
    <3>2. CASE ~grant
      BY <2>1, <2>3, <2>4, <3>2
    <3> QED  BY <3>1, <3>2
  <2>6. slot' = None <=> todo'["trail"] = <<>>
    <3>1. CASE grant
      <4>1. slot \in Payload /\ As(slot) = <<slot>>
        BY <1>3, <2>2, <3>1 DEF As, Request
      <4>2. L = Tail(As(slot) \o L)
        BY <1>3, <4>1, TailOfCons
      <4>3. Tail(T \o As(script)) = Tail(T) \o As(script)
        BY <1>3, <2>2, <3>1, TailOfConcat
      <4>4. Between = As(slot) \o L
        BY DEF Between, L
      <4> QED  BY <2>1, <2>3, <2>4, <3>1, <4>2, <4>3, <4>4
    <3>2. CASE ~grant /\ slot = None
      <4>1. Between = L
        BY <1>3, <3>2, ConcatEmptySeq DEF As, Between, L
      <4> QED  BY <2>1, <2>3, <2>4, <3>2, <4>1
    <3>3. CASE ~grant /\ slot # None
      <4>1. T \o As(script) # <<>>
        BY <1>3, <2>1, <3>3, TailOfConcat
      <4> QED  BY <2>3, <2>4, <3>3, <4>1
    <3> QED  BY <3>1, <3>2, <3>3
  <2> QED  BY <1>4, <1>6, <2>5, <2>6 DEF Aligned
<1> QED  BY <1>3, <1>5, <1>6

\* A sleeping core decides nothing, asks nothing and is granted nothing.
LEMMA SleeperStep ==
  ASSUME AlignInv, Isolated, NEW c \in Core, asleep[c],
         NEW other, NEW ready, NEW answer,
         NEW d \in Decisions("lead"), NEW e \in TrailDecisions(d), NEW naps,
         Cycle(d, e, naps, BusGrant(other, ready, answer), answer)
  PROVE  todo'[c] = <<>> /\ slot' = None /\ script' = None
<1>1. todo[c] = <<>> /\ Typed
  BY DEF AlignInv, Rested
<1>2. Own(c, d, e) = None
  BY DEF Own, Decisions, TrailDecisions, Core
<1>3. Asks(c) = None
  BY <1>1 DEF Asks
<1>4. todo'[c] = <<>>
  BY <1>1, <1>2, <1>3, ConcatEmptySeq DEF Cycle, TodoNext, Granted, As
<1> QED  BY <1>4 DEF Cycle, SlotNext, Delaying

\* A core that falls asleep has nothing to ask either.
LEMMA NapStep ==
  ASSUME AlignInv, Isolated, NEW c \in Core, ~asleep[c], asleep'[c],
         NEW other, NEW ready, NEW answer,
         NEW d \in Decisions("lead"), NEW e \in TrailDecisions(d),
         NEW naps \in SUBSET {k \in Core : MaySleep(k)},
         Cycle(d, e, naps, BusGrant(other, ready, answer), answer)
  PROVE  todo'[c] = <<>> /\ slot' = None /\ script' = None
<1>1. c \in naps /\ Own(c, d, e) = None
  BY DEF Cycle, AsleepNext
<1>2. todo[c] = <<>>
  BY <1>1 DEF MaySleep
<1>3. Asks(c) = None
  BY <1>2 DEF Asks
<1>4. todo'[c] = <<>>
  BY <1>1, <1>2, <1>3, ConcatEmptySeq DEF Cycle, TodoNext, Granted, As
<1> QED  BY <1>4 DEF Cycle, SlotNext, Delaying

\* Nobody sleeps on the bus, and who sleeps has nothing under way.
LEMMA RestedStep ==
  ASSUME AlignInv, NEW other \in BOOLEAN, NEW back \in BOOLEAN,
         NEW ready, NEW answer,
         NEW d \in Decisions("lead"), NEW e \in TrailDecisions(d),
         NEW naps \in SUBSET {k \in Core : MaySleep(k)},
         phase' = PhaseNext(other, back),
         Cycle(d, e, naps, BusGrant(other, ready, answer), answer)
  PROVE  Rested'
<1>1. /\ Rested /\ phase \in {"SYNC", "STOP", "RECOVERY"}
      /\ asleep \in [Core -> BOOLEAN]
  BY DEF AlignInv, Typed, Phase
<1>2. \A c \in Core : asleep'[c] = AsleepNext(c, naps, Own(c, d, e))
  BY DEF Cycle
<1>3. ~pair.lag => slot = None
  BY <1>1 DEF Rested
<1>4. (~pair.lag => slot = None)'
  BY <1>3 DEF Cycle, SlotNext, Delaying
<1>5. CASE phase = "SYNC"
  <2>1. phase' \in {"SYNC", "STOP"}
    BY <1>5, Zenon DEF PhaseNext
  <2>2. \A c \in Core : ~asleep'[c]
    BY <1>1, <1>2, <1>5 DEF AsleepNext, Isolated, Rested
  <2> QED  BY <1>4, <2>1, <2>2 DEF Rested
<1>6. CASE phase = "STOP"
  <2>1. phase' = IF \A c \in Core : asleep[c] THEN "RECOVERY" ELSE "STOP"
    BY <1>6, Zenon DEF PhaseNext
  <2>2. \A c \in Core :
          asleep'[c] => todo'[c] = <<>> /\ slot' = None /\ script' = None
    BY <1>6, SleeperStep, NapStep DEF Isolated
  <2>3. \A c \in Core : asleep[c] => asleep'[c]
    BY <1>1, <1>2, <1>6 DEF AsleepNext, Isolated
  <2> QED  BY <1>4, <2>1, <2>2, <2>3 DEF Rested, Core
<1>7. CASE phase = "RECOVERY"
  <2>1. phase' \in {"SYNC", "RECOVERY"} /\ (phase' = "SYNC" => ~asleep["trail"])
    BY <1>7, Zenon DEF PhaseNext
  <2>2. \A c \in Core : asleep'[c] = (c = "trail" /\ pair.lag /\ asleep["lead"])
    BY <1>2, <1>7 DEF AsleepNext, Isolated
  <2>3. ~asleep'["lead"]
    BY <2>2 DEF Core
  <2>4. phase' = "SYNC" => \A c \in Core : ~asleep'[c]
    BY <1>1, <1>7, <2>1, <2>2 DEF Rested
  <2>5. ~Isolated'
    BY <2>1 DEF Isolated
  <2> QED  BY <1>4, <2>1, <2>3, <2>4, <2>5 DEF Rested
<1> QED  BY <1>1, <1>5, <1>6, <1>7

\* The pair leaves the isolated bus with nothing under way, hence in step.
LEMMA RejoinStep ==
  ASSUME AlignInv, Isolated, Typed', phase' # "STOP",
         NEW other \in BOOLEAN, NEW back \in BOOLEAN,
         NEW ready, NEW answer,
         NEW d \in Decisions("lead"), NEW e \in TrailDecisions(d), NEW naps,
         phase' = PhaseNext(other, back),
         Cycle(d, e, naps, BusGrant(other, ready, answer), answer)
  PROVE  Aligned'
<1>1. \A c \in Core : asleep[c]
  BY Zenon DEF PhaseNext, Isolated
<1>2. \A c \in Core : todo'[c] = <<>> /\ slot' = None /\ script' = None
  BY <1>1, SleeperStep
<1>3. As(slot') = <<>> /\ As(script') = <<>>
  BY <1>2 DEF As, Core
<1>4. Between' = <<>>
  BY <1>2, <1>3, ConcatEmptySeq DEF Between, Core
<1>5. <<>> = todo'["trail"] \o As(script')
  BY <1>2, <1>3, ConcatEmptySeq DEF Core
<1> QED  BY <1>2, <1>4, <1>5 DEF Aligned, Core

-----------------------------------------------------------------------------
(* The theorem. *)

\* The pair starts in step.
LEMMA AlignInit == Init => AlignInv
<1> SUFFICES ASSUME Init PROVE AlignInv
  OBVIOUS
<1>1. Typed
  <2>1. pair \in Pair
    BY LockstepConstants DEF Init
  <2>2. <<>> \in Seq(Payload)
    OBVIOUS
  <2>3. todo \in [Core -> Seq(Payload)] /\ asleep \in [Core -> BOOLEAN]
    BY <2>2 DEF Init
  <2> QED  BY <2>1, <2>3 DEF Init, Typed, Phase, Request
<1>2. Rested
  BY DEF Init, Rested, Isolated
<1>3. Between = <<>> /\ As(script) = <<>>
  BY ConcatEmptySeq DEF Init, Between, As, Core
<1>4. Aligned
  BY <1>3, ConcatEmptySeq DEF Init, Aligned, Core
<1> QED  BY <1>1, <1>2, <1>4 DEF AlignInv

\* Every cycle keeps it in step.
LEMMA AlignStep == AlignInv /\ [Next]_vars => AlignInv'
<1> SUFFICES ASSUME AlignInv, [Next]_vars PROVE AlignInv'
  OBVIOUS
<1>1. CASE UNCHANGED vars
  BY <1>1 DEF vars, AlignInv, Typed, Rested, Aligned, Isolated, Between, As
<1>2. CASE Next
  <2> PICK ready \in BOOLEAN, answer \in BOOLEAN, other \in BOOLEAN,
           back \in BOOLEAN :
        /\ phase' = PhaseNext(other, back)
        /\ \E d \in Decisions("lead") : \E e \in TrailDecisions(d) :
             \E naps \in SUBSET {c \in Core : MaySleep(c)} :
               Cycle(d, e, naps, BusGrant(other, ready, answer), answer)
    BY <1>2 DEF Next
  <2> PICK d \in Decisions("lead") :
        \E e \in TrailDecisions(d) :
          \E naps \in SUBSET {c \in Core : MaySleep(c)} :
            Cycle(d, e, naps, BusGrant(other, ready, answer), answer)
    OBVIOUS
  <2> PICK e \in TrailDecisions(d) :
        \E naps \in SUBSET {c \in Core : MaySleep(c)} :
          Cycle(d, e, naps, BusGrant(other, ready, answer), answer)
    OBVIOUS
  <2> PICK naps \in SUBSET {c \in Core : MaySleep(c)} :
        Cycle(d, e, naps, BusGrant(other, ready, answer), answer)
    OBVIOUS
  <2>1. Typed /\ Typed'
    BY CycleTyped DEF AlignInv
  <2>2. Rested'
    BY RestedStep
  <2>3. ASSUME ~struck', ~Isolated' PROVE Aligned'
    <3>1. CASE Isolated
      BY <2>1, <2>3, <3>1, RejoinStep DEF Isolated
    <3>2. CASE ~Isolated
      <4>1. ~struck
        BY <2>1, <2>3, <3>2 DEF Cycle
      <4> QED  BY <2>3, <3>2, <4>1, WorkingStep
    <3> QED  BY <3>1, <3>2
  <2> QED  BY <2>1, <2>2, <2>3 DEF AlignInv
<1> QED  BY <1>1, <1>2

\* Cores in step ask for the same thing.
LEMMA AlignedAgree == AlignInv => NoFalseMismatch
<1> SUFFICES ASSUME AlignInv, ~struck, ~Isolated PROVE Leading = Asks("trail")
  BY DEF NoFalseMismatch, Mismatch
<1>1. Typed /\ Aligned
  BY DEF AlignInv
<1>2. CASE ~pair.lag
  BY <1>1, <1>2 DEF Aligned, Leading, Asks
<1>3. CASE pair.lag
  <2> DEFINE T == todo["trail"]
  <2>1. /\ As(slot) \o todo["lead"] = T \o As(script)
        /\ slot = None <=> T = <<>>
    BY <1>1, <1>3 DEF Aligned, Between
  <2>2. /\ todo["lead"] \in Seq(Payload) /\ T \in Seq(Payload)
        /\ As(script) \in Seq(Payload) /\ slot \in Request
    BY <1>1, AsSeq DEF Typed, Core
  <2>3. CASE slot = None
    BY <1>3, <2>1, <2>3 DEF Leading, Asks
  <2>4. CASE slot # None
    <3>1. slot \in Payload /\ As(slot) = <<slot>> /\ T # <<>>
      BY <2>1, <2>2, <2>4 DEF Request, As
    <3>2. Head(T \o As(script)) = Head(T)
      BY <2>2, <3>1, TailOfConcat
    <3>3. Head(As(slot) \o todo["lead"]) = slot
      BY <2>2, <3>1, TailOfCons
    <3> QED  BY <1>3, <2>1, <3>1, <3>2, <3>3 DEF Leading, Asks
  <2> QED  BY <2>3, <2>4
<1> QED  BY <1>2, <1>3

\* NoFalseMismatch: two cores that work are never found to differ, whatever
\* the pattern of grants and answers, and after every rollback.
THEOREM NoFalseMismatchHolds == Spec => []NoFalseMismatch
<1>1. Init => AlignInv
  BY AlignInit
<1>2. AlignInv /\ [Next]_vars => AlignInv'
  BY AlignStep
<1>3. AlignInv => NoFalseMismatch
  BY AlignedAgree
<1> QED  BY <1>1, <1>2, <1>3, PTL DEF Spec

-----------------------------------------------------------------------------
(* The refinement. *)

\* The delayed way to the bus is a queue (Lockstep!InOrderOnce): the memory
\* sees the requests of the leading core in order and each of them once.
LEMMA QueueStep == AlignInv /\ [Next]_vars =>
  [Queue!Serve \/ Queue!Wait \/ Queue!CutOff]_<<Between, served>>
<1> SUFFICES ASSUME AlignInv, [Next]_vars, ~UNCHANGED vars
             PROVE  Queue!Serve \/ Queue!Wait \/ Queue!CutOff
  BY DEF vars, Between, As
<1>1. AlignInv'
  BY AlignStep
<1> PICK ready \in BOOLEAN, answer \in BOOLEAN, other \in BOOLEAN,
         back \in BOOLEAN :
      /\ phase' = PhaseNext(other, back)
      /\ \E d \in Decisions("lead") : \E e \in TrailDecisions(d) :
           \E naps \in SUBSET {c \in Core : MaySleep(c)} :
             Cycle(d, e, naps, BusGrant(other, ready, answer), answer)
  BY DEF Next
<1> PICK d \in Decisions("lead") :
      \E e \in TrailDecisions(d) :
        \E naps \in SUBSET {c \in Core : MaySleep(c)} :
          Cycle(d, e, naps, BusGrant(other, ready, answer), answer)
  OBVIOUS
<1> PICK e \in TrailDecisions(d) :
      \E naps \in SUBSET {c \in Core : MaySleep(c)} :
        Cycle(d, e, naps, BusGrant(other, ready, answer), answer)
  OBVIOUS
<1> PICK naps \in SUBSET {c \in Core : MaySleep(c)} :
      Cycle(d, e, naps, BusGrant(other, ready, answer), answer)
  OBVIOUS
<1> DEFINE grant == BusGrant(other, ready, answer)
<1>2. Typed /\ (~pair.lag => slot = None)
  BY DEF AlignInv, Rested
<1>3. served' = IF grant THEN Leading ELSE None
  BY DEF Cycle
<1>4. d \in Request
  BY <1>2, DecisionsTyped
<1>5. As(d) \in Queue!New
  BY <1>4 DEF As, Request, Queue!New
<1>6. CASE ~Isolated
  <2>1. /\ ~grant => Between' = Between \o As(d)
        /\ grant => Between' = Tail(Between) \o As(d)
        /\ grant => Between # <<>> /\ Leading = Head(Between)
    BY <1>2, <1>6, BetweenStep
  <2> HIDE DEF grant
  <2>2. CASE grant
    BY <1>3, <1>5, <2>1, <2>2 DEF Queue!Serve
  <2>3. CASE ~grant
    BY <1>3, <1>5, <2>1, <2>3 DEF Queue!Wait
  <2> QED  BY <2>2, <2>3
<1>7. CASE Isolated
  <2>1. Between' \in Seq(Payload)
    <3>1. As(slot)' \in Seq(Payload) /\ todo'["lead"] \in Seq(Payload)
      BY <1>1, AsSeq DEF AlignInv, Typed, Core, As, Request
    <3> QED  BY <3>1, ConcatProperties DEF Between
  <2>2. grant => Between # <<>> /\ Leading = Head(Between)
    <3> SUFFICES ASSUME grant
                 PROVE  Between # <<>> /\ Leading = Head(Between)
      OBVIOUS
    <3>1. /\ Leading # None /\ (pair.lag => slot # None)
          /\ ~pair.lag => todo["lead"] # <<>>
      BY <1>2, GrantIsAsked
    <3>2. todo["lead"] \in Seq(Payload) /\ slot \in Request
      BY <1>2 DEF Typed, Core
    <3>3. CASE pair.lag
      <4>1. slot \in Payload /\ As(slot) = <<slot>> /\ Leading = slot
        BY <3>1, <3>2, <3>3 DEF As, Request, Leading
      <4> QED  BY <3>2, <4>1, TailOfCons DEF Between
    <3>4. CASE ~pair.lag
      <4>1. Between = todo["lead"] /\ Leading = Head(todo["lead"])
        BY <1>2, <3>1, <3>2, <3>4, ConcatEmptySeq DEF Between, As, Leading, Asks
      <4> QED  BY <3>1, <3>4, <4>1
    <3> QED  BY <3>3, <3>4
  <2> HIDE DEF grant
  <2> QED  BY <1>3, <1>7, <2>1, <2>2 DEF Queue!CutOff
<1> QED  BY <1>6, <1>7

\* InOrderOnce: Lockstep implements RequestQueue, for any payloads.
THEOREM QueueRefined == Spec => InOrderOnce
<1>1. Init => AlignInv
  BY AlignInit
<1>2. AlignInv /\ [Next]_vars => AlignInv'
  BY AlignStep
<1>3. Init => Between = <<>> /\ served = None
  BY ConcatEmptySeq DEF Init, Between, As, Core
<1>4. AlignInv /\ [Next]_vars =>
        [Queue!Serve \/ Queue!Wait \/ Queue!CutOff]_<<Between, served>>
  BY QueueStep
<1> QED  BY <1>1, <1>2, <1>3, <1>4, PTL DEF Spec, InOrderOnce, Queue!QueueSpec
-----------------------------------------------------------------------------
(***************************************************************************)
(* The answers (NoStrayAnswer, StoppedSingleIsAnswered): no core is        *)
(* answered where it waits for none, and an isolated core gets every       *)
(* answer it is owed, for any payloads and any pattern of grants, answers, *)
(* faults and rollbacks.                                                   *)
(*                                                                         *)
(* The invariant behind it is a count.  On the bus the leading core waits  *)
(* for what is in the register and what is outstanding on the bus; the     *)
(* trailing core for what is outstanding and for the answer its flip-flop  *)
(* delays.  Off the bus the two flags of each core stand for the answers   *)
(* it still gets.                                                          *)
(***************************************************************************)

\* one if it is so
One(b) == IF b THEN 1 ELSE 0

\* requests of a core that are not answered
Open(c) == Len(todo[c]) + out[c]

Counted ==
  /\ out \in [Core -> Nat]
  /\ \A c \in Core : Open(c) <= pair.room
  /\ owed \in [Core -> BOOLEAN] /\ fed \in [Core -> BOOLEAN]
  /\ late \in BOOLEAN /\ waiting \in BOOLEAN

\* what a core on the bus waits for
OnTheWay ==
  /\ out["lead"] = One(slot # None) + One(waiting)
  /\ out["trail"] = One(waiting) + One(pair.lag /\ late /\ ~asleep["trail"])

\* the pair comes back to the bus asleep, and the trailing core wakes last:
\* by then the answer in its flip-flop has gone
Waking ==
  /\ \A c \in Core : ~fed[c]
  /\ asleep["trail"] =>
       /\ ~waiting /\ todo["trail"] = <<>> /\ script = None
       /\ late /\ pair.lag => asleep["lead"]

CutOffBus ==
  /\ slot # None => out["lead"] > 0
  /\ \A c \in Core :
       /\ fed[c] => out[c] > 0
       /\ asleep[c] => ~waiting /\ out[c] = 0

\* the flag of an owed answer tells the truth, and all of it where a core has
\* at most one answer to come
Flagged ==
  /\ \A c \in Core : owed[c] => out[c] > 0
  /\ pair.room = 1 \/ ~pair.lag =>
       \A c \in Core : out[c] = One(owed[c] \/ fed[c])

AnswerInv ==
  /\ AlignInv
  /\ Counted
  /\ ~Isolated => OnTheWay /\ Waking
  /\ Isolated => CutOffBus
  /\ Flagged

\* a cycle with everything that is chosen in it
CycleOf(ready, answer, other, back, d, e, naps) ==
  /\ {ready, answer, other, back} \subseteq BOOLEAN
  /\ answer => waiting
  /\ phase' = PhaseNext(other, back)
  /\ d \in Decisions("lead") /\ e \in TrailDecisions(d)
  /\ naps \in SUBSET {c \in Core : MaySleep(c)}
  /\ Cycle(d, e, naps, BusGrant(other, ready, answer), answer)

-----------------------------------------------------------------------------
(* What a cycle does to one core.                                          *)

\* A core may have a request granted only when it has one to ask for, and the
\* lengths and counts change as one expects.
LEMMA CoreStep ==
  ASSUME Typed, Counted, NEW ready, NEW answer, NEW other, NEW back,
         NEW d, NEW e, NEW naps, NEW c \in Core,
         CycleOf(ready, answer, other, back, d, e, naps)
  PROVE  LET g == Granted(c, BusGrant(other, ready, answer))
             a == Answered(c, answer) /\ ~asleep[c] /\ out[c] > 0
         IN /\ g => todo[c] # <<>>
            /\ out'[c] = out[c] + One(g) - One(a)
            /\ out'[c] \in Nat
            /\ Len(todo'[c]) = Len(todo[c]) - One(g) + One(Own(c, d, e) # None)
            /\ Len(todo[c]) \in Nat /\ Len(todo'[c]) \in Nat /\ out[c] \in Nat
<1> DEFINE grant == BusGrant(other, ready, answer)
           g == Granted(c, grant)
           x == Own(c, d, e)
           a == Answered(c, answer) /\ ~asleep[c] /\ out[c] > 0
<1>1. /\ Cycle(d, e, naps, grant, answer)
      /\ d \in Decisions("lead") /\ e \in TrailDecisions(d)
  BY DEF CycleOf
<1>2. x \in Request
  BY <1>1, DecisionsTyped DEF Own
<1>3. g => todo[c] # <<>>
  BY <1>2, TodoTyped
<1>4. /\ todo'[c] = (IF g THEN Tail(todo[c]) ELSE todo[c]) \o As(x)
      /\ out'[c] = (out[c] + IF g THEN 1 ELSE 0)
                    - (IF a THEN 1 ELSE 0)
  BY <1>1 DEF Cycle, TodoNext, OutNext
<1>5. todo[c] \in Seq(Payload) /\ out[c] \in Nat
  BY DEF Typed, Counted
<1> HIDE DEF grant, g, x, a
<1>6. out'[c] = out[c] + One(g) - One(a)
  BY <1>4, <1>5 DEF One
<1>7. out'[c] \in Nat
  BY <1>5, <1>6 DEF One, a
<1>8. As(x) \in Seq(Payload) /\ Len(As(x)) = One(x # None)
  BY <1>2 DEF As, One, Request
<1> DEFINE rest == IF g THEN Tail(todo[c]) ELSE todo[c]
<1>9. Len(rest) = Len(todo[c]) - One(g)
  <2>1. CASE g
    BY <1>3, <1>5, <2>1, EmptySeq, LenProperties, HeadTailProperties DEF One
  <2>2. CASE ~g
    BY <1>5, <2>2, LenProperties DEF One
  <2> QED  BY <2>1, <2>2
<1>10. rest \in Seq(Payload)
  BY <1>3, <1>5, HeadThenTail
<1>11. todo'[c] = rest \o As(x)
  BY <1>4
<1> HIDE DEF rest
<1>12. Len(todo'[c]) = Len(rest) + Len(As(x))
  BY <1>8, <1>10, <1>11, ConcatProperties
<1>13. Len(todo[c]) \in Nat /\ Len(rest) \in Nat /\ Len(As(x)) \in Nat
  BY <1>5, <1>8, <1>10, LenProperties
<1>14. Len(todo'[c]) = Len(todo[c]) - One(g) + One(x # None)
  BY <1>8, <1>9, <1>12
<1> QED
  BY <1>3, <1>5, <1>6, <1>7, <1>12, <1>13, <1>14 DEF a, g, x, grant

\* On the bus nobody sleeps while an answer is outstanding, and the leading
\* core never sleeps longer than the trailing one.
LEMMA AwakeOnBus ==
  ASSUME AnswerInv, ~Isolated
  PROVE  /\ \A c \in Core : waiting => ~asleep[c]
         /\ asleep["lead"] => asleep["trail"]
         /\ \A c \in Core : asleep[c] => phase = "RECOVERY"
<1>1. phase \in {"SYNC", "RECOVERY"} /\ Rested /\ Waking
  BY DEF AnswerInv, AlignInv, Typed, Phase, Isolated
<1> QED  BY <1>1 DEF Rested, Waking, Core

\* The bus grants nothing for a pair of which one sleeps or falls asleep.
LEMMA NoGrantAsleep ==
  ASSUME AnswerInv, Isolated, NEW c \in Core, asleep[c] \/ MaySleep(c),
         NEW other, NEW ready, NEW answer
  PROVE  ~BusGrant(other, ready, answer) /\ ~waiting /\ todo[c] = <<>>
                                         /\ out[c] = 0
<1>1. ~waiting /\ todo[c] = <<>> /\ out[c] = 0
  BY DEF AnswerInv, CutOffBus, AlignInv, Rested, MaySleep
<1> SUFFICES ASSUME BusGrant(other, ready, answer) PROVE FALSE
  BY <1>1
<1>2. /\ Typed /\ Rested /\ CutOffBus /\ (~pair.lag => slot = None)
  BY DEF AnswerInv, AlignInv, Rested
<1>3. /\ todo["trail"] # <<>>
      /\ pair.lag => slot # None
      /\ ~pair.lag => todo["lead"] # <<>>
  BY <1>2, GrantIsAsked
<1>4. c = "lead" /\ pair.lag /\ slot # None
  BY <1>1, <1>3 DEF Core
<1>5. out["lead"] > 0 /\ out["lead"] = 0
  BY <1>1, <1>2, <1>4 DEF CutOffBus
<1> QED  BY <1>5

-----------------------------------------------------------------------------
(* The counts.                                                             *)

\* A cycle on the bus keeps the count of what is on the way.
LEMMA OnTheWayStep ==
  ASSUME AnswerInv, ~Isolated, NEW ready, NEW answer, NEW other, NEW back,
         NEW d, NEW e, NEW naps,
         CycleOf(ready, answer, other, back, d, e, naps)
  PROVE  OnTheWay'
<1> DEFINE grant == BusGrant(other, ready, answer)
           al == Answered("lead", answer) /\ ~asleep["lead"] /\ out["lead"] > 0
           at == Answered("trail", answer) /\ ~asleep["trail"] /\ out["trail"] > 0
<1>1. /\ Typed /\ Counted /\ OnTheWay /\ (~pair.lag => slot = None)
      /\ Cycle(d, e, naps, grant, answer)
      /\ answer \in BOOLEAN /\ (answer => waiting)
      /\ pair.lag \in BOOLEAN /\ waiting \in BOOLEAN /\ late \in BOOLEAN
  BY DEF AnswerInv, AlignInv, Rested, CycleOf, Counted, Typed, Pair
<1>2. /\ waiting => ~asleep["lead"] /\ ~asleep["trail"]
      /\ asleep["lead"] => asleep["trail"]
      /\ asleep["trail"] => phase = "RECOVERY"
  BY AwakeOnBus DEF Core
<1>3. /\ out'["lead"] = out["lead"] + One(Granted("lead", grant)) - One(al)
      /\ out'["trail"] = out["trail"] + One(Granted("trail", grant)) - One(at)
      /\ out["lead"] \in Nat /\ out["trail"] \in Nat
  BY <1>1, CoreStep DEF Core
<1>4. /\ waiting' = (grant \/ (waiting /\ ~answer))
      /\ slot' = SlotNext(grant) /\ late' = LateNext(answer) /\ pair' = pair
  BY <1>1 DEF Cycle, WaitingNext
<1>5. grant \in BOOLEAN /\ (grant => (waiting => answer))
  BY DEF BusGrant
<1>6. answer => out["lead"] > 0 /\ out["trail"] > 0
  BY <1>1, <1>3 DEF OnTheWay, One
<1>7. answer => ~asleep'["trail"]
  <2>1. asleep'["trail"] = AsleepNext("trail", naps, Own("trail", d, e))
    BY <1>1 DEF Cycle, Core
  <2> QED  BY <1>1, <1>2, <2>1 DEF AsleepNext
<1>8. CASE ~pair.lag
  <2>1. slot = None /\ slot' = None /\ al = answer /\ at = answer
    BY <1>1, <1>2, <1>4, <1>6, <1>8 DEF SlotNext, Delaying, Answered
  <2>2. Granted("lead", grant) = grant /\ Granted("trail", grant) = grant
    BY <1>8 DEF Granted
  <2> HIDE DEF grant, al, at
  <2> QED  BY <1>1, <1>3, <1>4, <1>5, <1>8, <2>1, <2>2 DEF OnTheWay, One
<1>9. CASE pair.lag
  <2> DEFINE takes == SlotAccepts(grant)
  <2>1. grant => slot # None
    BY <1>1, <1>9, GrantIsAsked
  <2>2. takes \in BOOLEAN /\ (takes => slot = None \/ grant)
    BY DEF SlotAccepts
  <2>3. takes => Asks("lead") # None
    BY DEF SlotAccepts
  <2>4. slot' = IF takes THEN Asks("lead") ELSE IF grant THEN None ELSE slot
    BY <1>4, <1>9 DEF SlotNext, Delaying
  <2>5. /\ Granted("lead", grant) = takes /\ Granted("trail", grant) = grant
        /\ late' = answer /\ al = answer
    BY <1>1, <1>2, <1>4, <1>6, <1>9 DEF Granted, LateNext, Delaying, Answered
  <2>6. at = (late /\ ~asleep["trail"])
    <3>1. late /\ ~asleep["trail"] => out["trail"] > 0
      BY <1>1, <1>3, <1>9 DEF OnTheWay, One
    <3>2. Answered("trail", answer) = late
      BY <1>9 DEF Answered
    <3> QED  BY <3>1, <3>2, <1>1
  <2>7. out'["lead"] = One(slot' # None) + One(waiting')
    <3> HIDE DEF grant, takes, al
    <3> QED  BY <1>1, <1>3, <1>4, <1>5, <2>1, <2>2, <2>3, <2>4, <2>5
             DEF OnTheWay, One
  <2>8. out'["trail"] = One(waiting')
                          + One(pair.lag /\ late' /\ ~asleep'["trail"])
    <3>1. out["trail"] = One(waiting) + One(at)
      BY <1>1, <1>9, <2>6 DEF OnTheWay, One
    <3>2. One(pair.lag /\ late' /\ ~asleep'["trail"]) = One(answer)
      BY <1>1, <1>7, <1>9, <2>5 DEF One
    <3> HIDE DEF grant, takes, at
    <3>3. One(waiting') = One(grant) + One(waiting) - One(answer)
      BY <1>1, <1>4, <1>5 DEF One
    <3> QED  BY <1>1, <1>3, <2>5, <3>1, <3>2, <3>3 DEF One
  <2> QED  BY <1>4, <2>7, <2>8 DEF OnTheWay
<1> QED  BY <1>1, <1>8, <1>9

\* Back on the bus the pair wakes with nothing left of what came before.
LEMMA WakingStep ==
  ASSUME AnswerInv, ~Isolated', NEW ready, NEW answer, NEW other, NEW back,
         NEW d, NEW e, NEW naps,
         CycleOf(ready, answer, other, back, d, e, naps)
  PROVE  Waking'
<1> DEFINE grant == BusGrant(other, ready, answer)
<1>1. /\ Typed /\ Counted /\ Rested
      /\ Cycle(d, e, naps, grant, answer)
      /\ d \in Decisions("lead") /\ e \in TrailDecisions(d)
      /\ answer => waiting
  BY DEF AnswerInv, AlignInv, CycleOf
<1>2. /\ fed' = [c \in Core |-> FedNext(c, grant)]
      /\ waiting' = (grant \/ (waiting /\ ~answer))
      /\ late' = LateNext(answer) /\ pair' = pair
      /\ asleep' = [c \in Core |-> AsleepNext(c, naps, Own(c, d, e))]
      /\ todo'["trail"] = TodoNext("trail", e, grant)
      /\ script' = IF Isolated THEN None ELSE d
  BY <1>1 DEF Cycle, WaitingNext, Core, Own
<1>3. CASE Isolated
  <2>1. /\ phase' = PhaseNext(other, back) /\ phase' # "STOP"
    BY DEF CycleOf, Isolated
  <2>2. \A c \in Core : asleep[c]
    BY <1>3, <2>1, Zenon DEF PhaseNext, Isolated
  <2>3. /\ ~waiting /\ ~grant /\ \A c \in Core : todo[c] = <<>>
    BY <1>3, <2>2, NoGrantAsleep DEF Core
  <2>4. \A c \in Core : ~fed'[c]
    BY <1>2, <2>3 DEF FedNext, Granted, Asks
  <2>5. todo'["trail"] = <<>> /\ script' = None
    BY <1>1, <1>3, <2>2, SleeperStep DEF AnswerInv, Core
  <2>6. asleep'["lead"]
    BY <1>2, <1>3, <2>2 DEF AsleepNext, Core
  <2> QED  BY <1>2, <2>3, <2>4, <2>5, <2>6 DEF Waking
<1>4. CASE ~Isolated
  <2>1. \A c \in Core : ~fed'[c]
    BY <1>2, <1>4 DEF FedNext
  <2> SUFFICES ASSUME asleep'["trail"]
               PROVE  /\ ~waiting' /\ todo'["trail"] = <<>> /\ script' = None
                      /\ ~late' \/ ~pair'.lag
    BY <2>1 DEF Waking
  <2>2. phase = "RECOVERY" /\ pair.lag /\ asleep["lead"]
    <3>1. asleep'["trail"] = AsleepNext("trail", naps, Own("trail", d, e))
      BY <1>2 DEF Core
    <3>2. phase \in {"SYNC", "RECOVERY"} /\ (phase = "SYNC" => ~asleep["trail"])
      BY <1>1, <1>4 DEF Typed, Phase, Isolated, Rested, Core
    <3> QED  BY <1>4, <3>1, <3>2 DEF AsleepNext
  <2>3. asleep["trail"] /\ ~waiting /\ todo["trail"] = <<>> /\ script = None
    BY <1>1, <1>4, <2>2 DEF Rested, AnswerInv, Waking
  <2>4. ~grant /\ ~answer
    BY <1>1, <2>3, GrantIsAsked
  <2>5. d = None /\ e = None
    BY <1>1, <1>4, <2>2, <2>3 DEF Decisions, TrailDecisions, Repeats
  <2>6. todo'["trail"] = <<>>
    BY <1>2, <1>4, <2>3, <2>4, <2>5, ConcatEmptySeq DEF TodoNext, Granted, As
  <2>7. ~late'
    BY <1>2, <1>4, <2>2, <2>4 DEF LateNext, Delaying
  <2> QED  BY <1>2, <1>4, <2>3, <2>4, <2>5, <2>6, <2>7
<1> QED  BY <1>3, <1>4

\* A pair that is cut off keeps count of the answers its cores still get.
LEMMA CutOffStep ==
  ASSUME AnswerInv, Isolated', NEW ready, NEW answer, NEW other, NEW back,
         NEW d, NEW e, NEW naps,
         CycleOf(ready, answer, other, back, d, e, naps)
  PROVE  CutOffBus'
<1> DEFINE grant == BusGrant(other, ready, answer)
           a(c) == Answered(c, answer) /\ ~asleep[c] /\ out[c] > 0
<1>1. /\ Typed /\ Counted /\ Rested
      /\ Cycle(d, e, naps, grant, answer)
      /\ phase' = PhaseNext(other, back)
      /\ naps \in SUBSET {c \in Core : MaySleep(c)}
  BY DEF AnswerInv, AlignInv, CycleOf
<1>2. /\ fed' = [c \in Core |-> FedNext(c, grant)]
      /\ waiting' = (grant \/ (waiting /\ ~answer))
      /\ asleep' = [c \in Core |-> AsleepNext(c, naps, Own(c, d, e))]
      /\ slot' = SlotNext(grant)
  BY <1>1 DEF Cycle, WaitingNext
<1>3. \A c \in Core : /\ out'[c] = out[c] + One(Granted(c, grant)) - One(a(c))
                      /\ out[c] \in Nat
  BY <1>1, CoreStep
<1>4. CASE ~Isolated
  <2>1. phase = "SYNC"
    <3>1. phase \in {"SYNC", "RECOVERY"} /\ phase' = "STOP"
      BY <1>1, <1>4 DEF Typed, Phase, Isolated
    <3>2. phase # "RECOVERY"
      BY <1>1, <3>1, Zenon DEF PhaseNext
    <3> QED  BY <3>1, <3>2
  <2>2. slot' # None => out'["lead"] > 0
    BY <1>4, OnTheWayStep DEF OnTheWay, One
  <2>3. \A c \in Core : ~fed'[c] /\ ~asleep'[c]
    BY <1>1, <1>2, <1>4, <2>1 DEF FedNext, AsleepNext, Rested, Isolated
  <2> QED  BY <2>2, <2>3 DEF CutOffBus
<1>5. CASE Isolated
  <2>1. slot' = None
    BY <1>2, <1>5 DEF SlotNext, Delaying
  <2>2. ASSUME NEW c \in Core, fed'[c] PROVE out'[c] > 0
    <3>1. Granted(c, grant)
      BY <1>2, <2>2 DEF FedNext
    <3> HIDE DEF grant
    <3> QED  BY <1>3, <3>1 DEF One
  <2>3. ASSUME NEW c \in Core, asleep'[c] PROVE ~waiting' /\ out'[c] = 0
    <3>1. asleep[c] \/ MaySleep(c)
      BY <1>1, <1>2, <1>5, <2>3 DEF AsleepNext
    <3>2. ~grant /\ ~waiting /\ todo[c] = <<>> /\ out[c] = 0
      BY <1>5, <3>1, NoGrantAsleep
    <3>3. ~Granted(c, grant)
      BY <1>5, <3>2 DEF Granted, Asks
    <3>4. ~a(c)
      BY <3>2
    <3>5. One(a(c)) = 0 /\ One(Granted(c, grant)) = 0
      BY <3>3, <3>4 DEF One
    <3>6. out'[c] = 0
      BY <1>3, <3>2, <3>5
    <3> QED  BY <1>2, <3>2, <3>6
  <2> QED  BY <2>1, <2>2, <2>3 DEF CutOffBus
<1> QED  BY <1>4, <1>5

\* No core has more open requests than it keeps room for, whichever way it
\* decided: the trailing one repeats a decision the leading one had room for.
LEMMA CountedStep ==
  ASSUME AnswerInv, NEW ready, NEW answer, NEW other, NEW back,
         NEW d, NEW e, NEW naps,
         CycleOf(ready, answer, other, back, d, e, naps)
  PROVE  Counted'
<1> DEFINE grant == BusGrant(other, ready, answer)
           a(c) == Answered(c, answer) /\ ~asleep[c] /\ out[c] > 0
<1>1. /\ Typed /\ Counted /\ Rested /\ AlignInv
      /\ Cycle(d, e, naps, grant, answer)
      /\ answer \in BOOLEAN
      /\ d \in Decisions("lead") /\ e \in TrailDecisions(d)
      /\ d \in Request /\ e \in Request /\ pair.room \in Nat
      /\ pair.lag \in BOOLEAN
  BY DecisionsTyped DEF AnswerInv, AlignInv, CycleOf, Typed, Pair
<1>2. \A c \in Core :
        /\ out'[c] = out[c] + One(Granted(c, grant)) - One(a(c))
        /\ Len(todo'[c]) = Len(todo[c]) - One(Granted(c, grant))
                             + One(Own(c, d, e) # None)
        /\ Len(todo[c]) \in Nat /\ Len(todo'[c]) \in Nat
        /\ out[c] \in Nat /\ out'[c] \in Nat
  BY <1>1, CoreStep
<1>3. \A c \in Core : /\ Open(c)' = Open(c) + One(Own(c, d, e) # None) - One(a(c))
                      /\ Open(c) \in Nat /\ Open(c) <= pair.room
  <2> TAKE c \in Core
  <2> DEFINE g == Granted(c, grant)
             x == Own(c, d, e) # None
             ac == a(c)
  <2>1. /\ out'[c] = out[c] + One(g) - One(ac)
        /\ Len(todo'[c]) = Len(todo[c]) - One(g) + One(x)
        /\ Len(todo[c]) \in Nat /\ out[c] \in Nat
    BY <1>2
  <2> HIDE DEF g, x, ac
  <2>2. One(g) \in Nat /\ One(x) \in Nat /\ One(ac) \in Nat
    BY DEF One
  <2>3. Open(c) = Len(todo[c]) + out[c] /\ Open(c)' = Len(todo'[c]) + out'[c]
    BY DEF Open
  <2>4. Open(c)' = Open(c) + One(x) - One(ac) /\ Open(c) \in Nat
    BY <2>1, <2>2, <2>3, SMTT(60)
  <2> QED  BY <1>1, <2>4 DEF x, ac, Counted
<1>4. ASSUME NEW c \in Core, Own(c, d, e) # None => HasRoom(c)
      PROVE  Open(c)' <= pair.room
  <2>1. HasRoom(c) => Open(c) + 1 <= pair.room
    BY <1>1, <1>3 DEF HasRoom, Open
  <2> DEFINE x == Own(c, d, e) # None
             ac == a(c)
  <2>2. Open(c)' = Open(c) + One(x) - One(ac) /\ (x => Open(c) + 1 <= pair.room)
        /\ Open(c) \in Nat /\ Open(c) <= pair.room
    BY <1>3, <1>4, <2>1
  <2> HIDE DEF x, ac
  <2> QED  BY <1>1, <2>2 DEF One
<1>5. Open("lead")' <= pair.room
  <2>1. Own("lead", d, e) # None => HasRoom("lead")
    BY <1>1 DEF Own, Decisions
  <2> QED  BY <1>4, <2>1 DEF Core
<1>6. Open("trail")' <= pair.room
  <2>1. CASE e # None => HasRoom("trail")
    BY <1>4, <2>1 DEF Own, Core
  <2>2. CASE e # None /\ ~HasRoom("trail")
    <3>1. ~Isolated /\ ~struck /\ e = (IF pair.lag THEN script ELSE d)
      BY <1>1, <2>2 DEF TrailDecisions, Decisions, Repeats
    <3>2. Aligned /\ OnTheWay
      BY <1>1, <3>1 DEF AlignInv, AnswerInv
    <3>3. /\ Open("trail")' = Open("trail") + 1 - One(a("trail"))
          /\ Open("trail") \in Nat /\ Open("lead") \in Nat
          /\ Open("lead") <= pair.room
      BY <1>3, <2>2 DEF Own, Core, One
    <3>4. CASE ~pair.lag
      <4>1. d # None /\ todo["lead"] = todo["trail"] /\ out["lead"] = out["trail"]
        BY <1>1, <2>2, <3>1, <3>2, <3>4 DEF Aligned, OnTheWay, Rested, One
      <4>2. HasRoom("trail")
        BY <1>1, <4>1 DEF Decisions, HasRoom
      <4> QED  BY <2>2, <4>2
    <3>5. CASE pair.lag
      <4> DEFINE L == todo["lead"]
                 T == todo["trail"]
      <4>1. As(slot) \o L = T \o As(script)
        BY <3>2, <3>5 DEF Aligned, Between
      <4>2. /\ L \in Seq(Payload) /\ T \in Seq(Payload)
            /\ As(slot) \in Seq(Payload) /\ As(script) \in Seq(Payload)
            /\ Len(As(slot)) = One(slot # None) /\ Len(As(script)) = 1
        BY <1>1, <2>2, <3>1, <3>5, AsSeq DEF Typed, Core, As, One
      <4> HIDE DEF L, T
      <4>3. /\ Len(As(slot) \o L) = Len(As(slot)) + Len(L)
            /\ Len(T \o As(script)) = Len(T) + Len(As(script))
        BY <4>2, ConcatProperties
      <4>4. One(slot # None) + Len(L) = Len(T) + 1
        BY <4>1, <4>2, <4>3
      <4> DEFINE slow == late /\ ~asleep["trail"]
      <4>5. a("trail") = slow
        <5>1. slow => out["trail"] > 0
          BY <1>1, <3>2, <3>5 DEF OnTheWay, One, Counted
        <5>2. Answered("trail", answer) = late
          BY <3>1, <3>5 DEF Answered
        <5> QED  BY <1>1, <5>1, <5>2 DEF Counted
      <4>6. /\ out["lead"] = One(slot # None) + One(waiting)
            /\ out["trail"] = One(waiting) + One(slow)
        BY <3>2, <3>5 DEF OnTheWay, One
      <4> HIDE DEF slow
      <4>7. One(a("trail")) = One(slow)
        BY <4>5
      <4> HIDE DEF a
      <4>8. Len(L) \in Nat /\ Len(T) \in Nat
        BY <4>2, LenProperties
      <4>9. Open("trail") = Len(T) + out["trail"] /\ Open("lead") = Len(L) + out["lead"]
        BY DEF Open, L, T
      <4>10. Open("trail")' = Open("lead")
        BY <3>3, <4>4, <4>6, <4>7, <4>8, <4>9 DEF One
      <4> QED  BY <3>3, <4>10
    <3> QED  BY <1>1, <3>4, <3>5
  <2> QED  BY <2>1, <2>2
<1>7. \A c \in Core : Open(c)' <= pair'.room
  <2>1. pair' = pair
    BY <1>1 DEF Cycle
  <2> QED  BY <1>5, <1>6, <2>1 DEF Core
<1>8. out' \in [Core -> Nat]
  <2>1. out' = [c \in Core |-> OutNext(c, grant, answer)]
    BY <1>1 DEF Cycle
  <2> QED  BY <1>2, <2>1
<1>9. owed' \in [Core -> BOOLEAN] /\ fed' \in [Core -> BOOLEAN]
  <2>1. /\ owed' = [c \in Core |-> OwedNext(c, grant, answer)]
        /\ fed' = [c \in Core |-> FedNext(c, grant)]
    BY <1>1 DEF Cycle
  <2>2. \A c \in Core : OwedNext(c, grant, answer) \in BOOLEAN
                        /\ FedNext(c, grant) \in BOOLEAN
    BY DEF OwedNext, FedNext
  <2> QED  BY <2>1, <2>2
<1>10. late' \in BOOLEAN /\ waiting' \in BOOLEAN
  BY <1>1 DEF Cycle, LateNext, WaitingNext, Counted
<1> QED  BY <1>7, <1>8, <1>9, <1>10 DEF Counted

\* The flags of a stopped core keep telling the truth.
LEMMA FlaggedStep ==
  ASSUME AnswerInv, Typed', NEW ready, NEW answer, NEW other, NEW back,
         NEW d, NEW e, NEW naps,
         CycleOf(ready, answer, other, back, d, e, naps)
  PROVE  Flagged'
<1> DEFINE grant == BusGrant(other, ready, answer)
           a(c) == Answered(c, answer) /\ ~asleep[c] /\ out[c] > 0
<1>1. /\ Typed /\ Counted /\ Rested /\ Flagged
      /\ Cycle(d, e, naps, grant, answer)
      /\ answer \in BOOLEAN /\ (answer => waiting)
      /\ pair.lag \in BOOLEAN /\ pair.room \in {1, 2}
  BY DEF AnswerInv, AlignInv, CycleOf, Typed, Pair
<1>2. /\ owed' = [c \in Core |-> OwedNext(c, grant, answer)]
      /\ fed' = [c \in Core |-> FedNext(c, grant)]
      /\ pair' = pair /\ slot' = SlotNext(grant)
  BY <1>1 DEF Cycle
<1>3. \A c \in Core : /\ out'[c] = out[c] + One(Granted(c, grant)) - One(a(c))
                      /\ out[c] \in Nat /\ out'[c] \in Nat
                      /\ Len(todo[c]) \in Nat /\ Len(todo'[c]) \in Nat
  BY <1>1, CoreStep
<1>4. Counted'
  BY CountedStep
<1>5. ASSUME NEW c \in Core, owed'[c] PROVE out'[c] > 0
  <2>1. ~Isolated /\ (Granted(c, grant) \/ (owed[c] /\ ~Answered(c, answer)))
    BY <1>2, <1>5 DEF OwedNext
  <2>2. CASE Granted(c, grant)
    <3>1. One(Granted(c, grant)) = 1 /\ One(a(c)) \in {0, 1}
                                     /\ (out[c] = 0 => One(a(c)) = 0)
      BY <1>3, <2>2 DEF One
    <3> QED  BY <1>3, <3>1
  <2>3. CASE owed[c] /\ ~Answered(c, answer)
    <3>1. One(Granted(c, grant)) \in {0, 1} /\ One(a(c)) = 0 /\ out[c] > 0
      BY <1>1, <2>3 DEF One, Flagged
    <3> QED  BY <1>3, <3>1
  <2> QED  BY <2>1, <2>2, <2>3
<1>6. ASSUME pair.room = 1 \/ ~pair.lag, NEW c \in Core
      PROVE  out'[c] = One(owed'[c] \/ fed'[c])
  <2> DEFINE g == Granted(c, grant)
  <2>1. out[c] = One(owed[c] \/ fed[c])
    BY <1>1, <1>6 DEF Flagged
  <2>2. CASE Isolated
    <3>1. owed'[c] = FALSE /\ fed'[c] = g
      BY <1>2, <2>2 DEF OwedNext, FedNext, Granted
    <3>2. CASE asleep[c]
      <4>1. ~g /\ out[c] = 0 /\ ~a(c)
        BY <2>2, <3>2, NoGrantAsleep DEF Granted, Asks
      <4>2. One(g) = 0 /\ One(a(c)) = 0
        BY <4>1 DEF One
      <4>3. One(owed'[c] \/ fed'[c]) = 0
        BY <3>1, <4>1 DEF One
      <4> QED  BY <1>3, <4>1, <4>2, <4>3
    <3>3. CASE ~asleep[c]
      <4>1. One(a(c)) = out[c]
        BY <2>1, <2>2, <3>3 DEF Answered, One
      <4>2. One(owed'[c] \/ fed'[c]) = One(g) /\ One(g) \in {0, 1}
        BY <3>1 DEF One
      <4> QED  BY <1>3, <4>1, <4>2
    <3> QED  BY <3>2, <3>3
  <2>3. CASE ~Isolated
    <3>1. OnTheWay /\ OnTheWay' /\ Waking
      BY <2>3, OnTheWayStep DEF AnswerInv
    <3>2. ~fed[c] /\ ~fed'[c]
      BY <1>2, <2>3, <3>1 DEF Waking, FedNext
    <3>3. owed'[c] = (g \/ (owed[c] /\ ~Answered(c, answer)))
      BY <1>2, <2>3 DEF OwedNext
    <3>4. out[c] = One(owed[c])
      BY <2>1, <3>2 DEF One
    <3>5. out'[c] <= 1
      <4>1. CASE pair.room = 1
        BY <1>2, <1>3, <1>4, <4>1 DEF Counted, Open
      <4>2. CASE ~pair.lag
        <5>1. slot' = None
          BY <1>2, <4>2 DEF SlotNext, Delaying
        <5> QED  BY <1>2, <3>1, <4>2, <5>1 DEF OnTheWay, One, Core
      <4> QED  BY <1>6, <4>1, <4>2
    <3>6. Answered(c, answer) /\ out[c] > 0 => ~asleep[c]
      <4>1. c = "trail" /\ asleep[c] /\ pair.lag => out[c] = 0
        BY <3>1 DEF OnTheWay, Waking, One
      <4>2. answer => ~asleep[c]
        BY <1>1, <2>3, AwakeOnBus
      <4> QED  BY <1>3, <2>3, <4>1, <4>2 DEF Answered, Core
    <3>7. CASE g
      <4>1. One(g) = 1 /\ One(owed'[c] \/ fed'[c]) = 1
        BY <3>3, <3>7 DEF One
      <4>2. One(a(c)) = 0 \/ (One(a(c)) = 1 /\ out[c] = 1)
        BY <3>4 DEF One
      <4>3. out'[c] = out[c] + 1 - One(a(c)) /\ out[c] \in {0, 1}
        BY <1>3, <3>4, <4>1 DEF One
      <4> QED  BY <3>5, <4>1, <4>2, <4>3
    <3>8. CASE ~g
      <4>1. One(g) = 0
        BY <3>8 DEF One
      <4>2. One(owed'[c] \/ fed'[c]) = One(owed[c] /\ ~Answered(c, answer))
        BY <3>2, <3>3, <3>8 DEF One
      <4>3. One(a(c)) = One(owed[c] /\ Answered(c, answer))
        BY <3>4, <3>6 DEF One
      <4>4. One(owed[c]) = One(owed[c] /\ ~Answered(c, answer))
                             + One(owed[c] /\ Answered(c, answer))
        BY DEF One
      <4>5. /\ One(owed[c] /\ ~Answered(c, answer)) \in Nat
            /\ One(owed[c] /\ Answered(c, answer)) \in Nat /\ One(owed[c]) \in Nat
        BY DEF One
      <4>6. out'[c] = out[c] + One(g) - One(a(c))
        BY <1>3
      <4> HIDE DEF a, g
      <4>7. out'[c] = One(owed[c]) - One(owed[c] /\ Answered(c, answer))
        BY <3>4, <4>1, <4>3, <4>5, <4>6
      <4>8. out'[c] = One(owed[c] /\ ~Answered(c, answer))
        BY <4>4, <4>5, <4>7
      <4> QED  BY <4>2, <4>8
    <3> QED  BY <3>7, <3>8
  <2> QED  BY <2>2, <2>3
<1> QED  BY <1>2, <1>5, <1>6 DEF Flagged

-----------------------------------------------------------------------------
(* The theorems.                                                           *)

\* The pair starts with nothing asked and nothing owed.
LEMMA AnswerInit == Init => AnswerInv
<1> SUFFICES ASSUME Init PROVE AnswerInv
  OBVIOUS
<1>1. AlignInv /\ ~Isolated
  BY AlignInit DEF Init, Isolated
<1>2. \A c \in Core : Open(c) = 0 /\ todo[c] = <<>> /\ out[c] = 0
  BY DEF Init, Open
<1>3. pair.room \in {1, 2}
  BY <1>1 DEF AlignInv, Typed, Pair
<1>4. Counted
  <2>1. /\ out \in [Core -> Nat] /\ owed \in [Core -> BOOLEAN]
        /\ fed \in [Core -> BOOLEAN] /\ late \in BOOLEAN /\ waiting \in BOOLEAN
    BY DEF Init
  <2>2. \A c \in Core : Open(c) <= pair.room
    BY <1>2, <1>3
  <2> QED  BY <2>1, <2>2 DEF Counted
<1>5. OnTheWay /\ Waking /\ Flagged
  BY <1>2 DEF Init, OnTheWay, Waking, Flagged, One, Core
<1> QED  BY <1>1, <1>4, <1>5 DEF AnswerInv

\* Every cycle keeps the counts.
LEMMA AnswerStep == AnswerInv /\ [Next]_vars => AnswerInv'
<1> SUFFICES ASSUME AnswerInv, [Next]_vars PROVE AnswerInv'
  OBVIOUS
<1>1. AlignInv'
  BY AlignStep DEF AnswerInv
<1>2. CASE UNCHANGED vars
  <2>1. /\ Counted' /\ (OnTheWay' <=> OnTheWay) /\ (Waking' <=> Waking)
        /\ (CutOffBus' <=> CutOffBus) /\ Flagged' /\ (Isolated' <=> Isolated)
    BY <1>2 DEF vars, AnswerInv, Counted, Open, OnTheWay, Waking, CutOffBus,
                Flagged, Isolated
  <2> QED  BY <1>1, <2>1 DEF AnswerInv
<1>3. CASE Next
  <2>1. PICK ready, answer, other, back, d, e, naps :
          CycleOf(ready, answer, other, back, d, e, naps)
    <3> PICK ready \in BOOLEAN, answer \in BOOLEAN, other \in BOOLEAN,
             back \in BOOLEAN :
          /\ answer => waiting
          /\ phase' = PhaseNext(other, back)
          /\ \E d \in Decisions("lead") : \E e \in TrailDecisions(d) :
               \E naps \in SUBSET {c \in Core : MaySleep(c)} :
                 Cycle(d, e, naps, BusGrant(other, ready, answer), answer)
      BY <1>3 DEF Next
    <3> PICK d \in Decisions("lead") :
          \E e \in TrailDecisions(d) :
            \E naps \in SUBSET {c \in Core : MaySleep(c)} :
              Cycle(d, e, naps, BusGrant(other, ready, answer), answer)
      OBVIOUS
    <3> PICK e \in TrailDecisions(d), naps \in SUBSET {c \in Core : MaySleep(c)} :
          Cycle(d, e, naps, BusGrant(other, ready, answer), answer)
      OBVIOUS
    <3>1. CycleOf(ready, answer, other, back, d, e, naps)
      BY DEF CycleOf
    <3> QED  BY <3>1
  <2>2. Counted'
    BY <2>1, CountedStep
  <2>3. Flagged'
    BY <1>1, <2>1, FlaggedStep DEF AlignInv
  <2>4. ~Isolated' => OnTheWay' /\ Waking'
    <3> SUFFICES ASSUME ~Isolated' PROVE OnTheWay' /\ Waking'
      OBVIOUS
    <3>1. Waking'
      BY <2>1, WakingStep
    <3>2. CASE ~Isolated
      BY <2>1, <3>1, <3>2, OnTheWayStep
    <3>3. CASE Isolated
      <4>1. /\ phase' = PhaseNext(other, back) /\ phase' # "STOP"
            /\ Cycle(d, e, naps, BusGrant(other, ready, answer), answer)
            /\ d \in Decisions("lead") /\ e \in TrailDecisions(d)
        BY <2>1 DEF CycleOf, Isolated
      <4>2. \A c \in Core : asleep[c]
        BY <3>3, <4>1, Zenon DEF PhaseNext, Isolated
      <4>3. /\ ~BusGrant(other, ready, answer) /\ ~waiting
            /\ \A c \in Core : todo[c] = <<>> /\ out[c] = 0
        BY <3>3, <4>2, NoGrantAsleep DEF Core
      <4>4. slot' = None /\ ~waiting'
        BY <3>3, <4>1, <4>3 DEF Cycle, SlotNext, Delaying, WaitingNext
      <4>5. \A c \in Core : out'[c] = 0 /\ asleep'[c]
        <5> TAKE c \in Core
        <5>1. ~Granted(c, BusGrant(other, ready, answer))
          BY <3>3, <4>3 DEF Granted, Asks
        <5>2. /\ out'[c] = OutNext(c, BusGrant(other, ready, answer), answer)
              /\ asleep'[c] = AsleepNext(c, naps, Own(c, d, e))
          BY <4>1 DEF Cycle
        <5>3. out'[c] = 0
          BY <4>2, <4>3, <5>1, <5>2 DEF OutNext
        <5>4. asleep'[c]
          BY <3>3, <4>2, <5>2 DEF AsleepNext
        <5> QED  BY <5>3, <5>4
      <4>6. One(slot' # None) = 0 /\ One(waiting') = 0
            /\ One(pair'.lag /\ late' /\ ~asleep'["trail"]) = 0
        BY <4>4, <4>5 DEF One, Core
      <4> QED  BY <3>1, <4>5, <4>6 DEF OnTheWay, Core
    <3> QED  BY <3>2, <3>3
  <2>5. Isolated' => CutOffBus'
    BY <2>1, CutOffStep
  <2> QED  BY <1>1, <2>2, <2>3, <2>4, <2>5 DEF AnswerInv
<1> QED  BY <1>2, <1>3

LEMMA AnswerInvariant == Spec => []AnswerInv
BY AnswerInit, AnswerStep, PTL DEF Spec

\* NoStrayAnswer: no core is answered where it waits for no answer, by the
\* bus, by the delayed answer that a cut-off pair keeps in its flip-flop, or
\* by the isolated bus.
THEOREM NoStrayAnswerHolds == Spec => []NoStrayAnswer
<1>1. AnswerInv => NoStrayAnswer
  <2> SUFFICES ASSUME AnswerInv PROVE NoStrayAnswer
    OBVIOUS
  <2>1. ~Isolated /\ waiting => out["lead"] > 0
    BY DEF AnswerInv, OnTheWay, One
  <2>2. ~Isolated /\ pair.lag /\ late /\ ~asleep["trail"] => out["trail"] > 0
    BY DEF AnswerInv, OnTheWay, One
  <2>3. \A c \in Core : Isolated /\ Answered(c, FALSE) => out[c] > 0
    BY DEF AnswerInv, CutOffBus, Flagged, Answered
  <2> QED  BY <2>1, <2>2, <2>3 DEF NoStrayAnswer
<1> QED  BY <1>1, AnswerInvariant, PTL

\* StoppedSingleIsAnswered: where a core has one request granted at a time, an
\* isolated core gets exactly the answers it waits for, and so can sleep.
THEOREM StoppedSingleAnswered == Spec => []StoppedSingleIsAnswered
<1>1. AnswerInv => StoppedSingleIsAnswered
  BY DEF AnswerInv, Flagged, StoppedSingleIsAnswered, StoppedIsAnswered,
         Answered, One
<1> QED  BY <1>1, AnswerInvariant, PTL

\* LockstepTypeOK: the registers of the pair keep their types, and no core
\* has more requests open than it keeps room for, the trailing one included.
THEOREM LockstepTypeCorrect == Spec => []LockstepTypeOK
<1> DEFINE ServedOK == served \in Request
<1>1. Init => ServedOK
  BY DEF Init, Request
<1>2. AnswerInv /\ ServedOK /\ [Next]_vars => ServedOK'
  <2> SUFFICES ASSUME AnswerInv, ServedOK, [Next]_vars PROVE ServedOK'
    OBVIOUS
  <2>1. Typed
    BY DEF AnswerInv, AlignInv
  <2>2. Leading \in Request
    BY <2>1, AsksSomething DEF Leading, Typed, Core
  <2>3. CASE Next
    <3>1. served' \in {Leading, None}
      BY <2>3 DEF Next, Cycle
    <3> QED  BY <2>2, <3>1 DEF Request
  <2>4. CASE UNCHANGED vars
    BY <2>4 DEF vars
  <2> QED  BY <2>3, <2>4
<1>3. AnswerInv /\ ServedOK => LockstepTypeOK
  <2> SUFFICES ASSUME AnswerInv, ServedOK PROVE LockstepTypeOK
    OBVIOUS
  <2>1. Typed /\ Counted
    BY DEF AnswerInv, AlignInv
  <2>2. \A c \in Core : out[c] \in 0..2 /\ Len(todo[c]) + out[c] <= pair.room
    <3> TAKE c \in Core
    <3>1. Len(todo[c]) \in Nat
      BY <2>1, LenProperties DEF Typed
    <3> QED  BY <2>1, <3>1 DEF Counted, Open, Typed, Pair
  <2> QED  BY <2>1, <2>2 DEF LockstepTypeOK, Typed, Counted
<1> QED  BY <1>1, <1>2, <1>3, AnswerInvariant, PTL DEF Spec
=============================================================================
